----------------------------- MODULE HistoryProofs -----------------------------
(****************************************************************************)
(* Proofs about the console's recorded past: from what the windows, medians   *)
(* and pinned rows of Series are (SeriesProofs), that the series, the pin, the *)
(* plots and the rail are what History promises.                             *)
(****************************************************************************)
EXTENDS History, SeriesProofs

-----------------------------------------------------------------------------
(* What the device answers.                                                 *)
DeviceInv ==
  /\ now \in Nat /\ log \in Seq(Nat) /\ Ordered(log)
  /\ \A i \in DOMAIN log : log[i] <= now
  /\ ring.rows \in Nat /\ ring.end \in Nat
  /\ ring.rows <= now /\ ring.end <= now
  /\ ring.end # 0 => ring.rows <= ring.end

(* The card's rows of an answer are rows of the log, in the log's order.      *)
LEMMA CardRows ==
  ASSUME DeviceInv, NEW q
  PROVE  read_range(q) \in Seq(Nat) /\ Ordered(read_range(q))
<1> DEFINE covered == {i \in DOMAIN log : now - log[i] <= Span[q]}
           size    == Cardinality(covered)
           stride  == IF size > MaxPts THEN size \div MaxPts + 1 ELSE 1
           kept    == {i \in covered : rank(covered, i) % stride = 0}
           n       == Cardinality(kept)
           rows    == [k \in 1 .. n |-> log[nth(kept, k)]]
<1>1. /\ Len(log) \in Nat /\ DOMAIN log = 1 .. Len(log)
      /\ \A i \in DOMAIN log : log[i] \in Nat
  BY ElementOfSeq, LenProperties DEF DeviceInv
<1>2. read_range(q) = rows
  BY DEF read_range
<1>3. kept \subseteq DOMAIN log /\ kept \subseteq Nat
  BY <1>1
<1>4. IsFiniteSet(DOMAIN log)
  <2>1. 1 \in Int /\ Len(log) \in Int
    BY <1>1
  <2>2. IsFiniteSet(1 .. Len(log))
    BY <2>1, FS_Interval
  <2> QED
    BY <1>1, <2>2
<1> HIDE DEF kept
<1>5. IsFiniteSet(kept)
  BY <1>3, <1>4, FS_Subset
<1>6. /\ n \in Nat
      /\ \A k \in 1 .. n : nth(kept, k) \in kept
      /\ \A k, l \in 1 .. n : k < l => nth(kept, k) < nth(kept, l)
  BY <1>3, <1>5, NthIs
<1> HIDE DEF n
<1>7. \A k \in 1 .. n : nth(kept, k) \in DOMAIN log /\ log[nth(kept, k)] \in Nat
  BY <1>1, <1>3, <1>6
<1>8. rows \in Seq(Nat)
  <2>1. rows \in [1 .. n -> Nat]
    BY <1>7
  <2> HIDE DEF rows
  <2> QED
    BY <1>6, <2>1, SeqDef
<1>9. Ordered(rows)
  <2>1. ASSUME NEW k \in 1 .. n, NEW l \in 1 .. n, k < l, rows[k] > 0, rows[l] > 0
        PROVE  rows[k] < rows[l]
    <3>1. nth(kept, k) < nth(kept, l)
      BY <1>6, <2>1
    <3>2. rows[k] = log[nth(kept, k)] /\ rows[l] = log[nth(kept, l)]
      BY <2>1
    <3> QED
      BY <1>7, <2>1, <3>1, <3>2 DEF DeviceInv, Ordered, Synced
  <2>2. DOMAIN rows = 1 .. n
    OBVIOUS
  <2> HIDE DEF rows
  <2> QED
    BY <2>1, <2>2 DEF Ordered, Synced
<1> QED
  BY <1>2, <1>8, <1>9

(* So are those of the RAM, a sample apart or without a clock.               *)
LEMMA RingRows ==
  ASSUME DeviceInv
  PROVE  write_ts_derived \in Seq(Nat) /\ Ordered(write_ts_derived)
<1> DEFINE n       == ring.rows
           at(i)   == IF ring.end = 0 THEN 0 ELSE ring.end - (n - i)
           rows    == [i \in 1 .. n |-> at(i)]
<1>1. n \in Nat /\ ring.end \in Nat /\ (ring.end # 0 => n <= ring.end)
  BY DEF DeviceInv
<1> HIDE DEF n
<1>2. \A i \in 1 .. n : at(i) \in Nat
  BY <1>1
<1>3. \A i, j \in 1 .. n : i < j /\ at(i) > 0 => at(i) < at(j)
  BY <1>1
<1> HIDE DEF at
<1>4. rows \in [1 .. n -> Nat]
  BY <1>2
<1>5. rows \in Seq(Nat)
  BY <1>1, <1>4, SeqDef
<1>6. Ordered(rows)
  BY <1>3 DEF Ordered, Synced
<1> QED
  BY <1>5, <1>6 DEF write_ts_derived, n, at

LEMMA ResponseIs ==
  ASSUME DeviceInv, NEW q
  PROVE  Response(q) \in Seq(Nat) /\ Ordered(Response(q))
BY CardRows, RingRows DEF Response

(* What is shown of it is rows in their order; a window keeps every stamped    *)
(* row of the answer that is within it, and none that is not; and few of its  *)
(* steps are outages.                                                        *)
LEMMA ShownIs ==
  ASSUME DeviceInv, NEW r \in Ranges
  PROVE  Shown(r) \in Seq(Nat) /\ Ordered(Shown(r))
<1>1. Response(Query[r]) \in Seq(Nat) /\ Ordered(Response(Query[r]))
  BY ResponseIs
<1>2. CASE Window[r] = 0
  BY <1>1, <1>2 DEF Shown
<1>3. CASE Window[r] # 0
  <2>1. Window[r] \in Nat \ {0}
    BY <1>3, HistoryAssumption
  <2>2. Shown(r) = tail(Response(Query[r]), Window[r])
    BY <1>3 DEF Shown
  <2> QED
    BY <1>1, <2>1, <2>2, TailIs
<1> QED
  BY <1>2, <1>3

LEMMA WindowsAndGaps ==
  ASSUME DeviceInv
  PROVE  TailIsWindow /\ GapsAreFew
<1>1. ASSUME NEW r \in Ranges, Window[r] # 0, Response(Query[r]) # << >>,
             Last(Response(Query[r])) > 0
      PROVE  {t \in ToSet(Shown(r)) : t > 0} =
               {t \in ToSet(Response(Query[r])) : t > 0 /\ Last(Response(Query[r])) - t <= Window[r]}
  <2>1. Response(Query[r]) \in Seq(Nat) /\ Ordered(Response(Query[r]))
    BY ResponseIs
  <2>2. Window[r] \in Nat \ {0}
    BY <1>1, HistoryAssumption
  <2>3. Shown(r) = tail(Response(Query[r]), Window[r])
    BY <1>1 DEF Shown
  <2> QED
    BY <1>1, <2>1, <2>2, <2>3, TailIs
<1>2. TailIsWindow
  BY <1>1 DEF TailIsWindow
<1>3. GapsAreFew
  BY ShownIs, FewGaps DEF GapsAreFew
<1> QED
  BY <1>2, <1>3

-----------------------------------------------------------------------------
(* The inductive invariant, part by part.                                   *)

(* Requests are numbered, the newest one is for the chosen range, and a       *)
(* failure leaves no rows.                                                   *)
LoadInv ==
  /\ days \in Ranges /\ historySeq \in Nat /\ error \in BOOLEAN
  /\ \A l \in loads : /\ l.days \in Ranges /\ l.seq \in Nat /\ l.seq <= historySeq
                      /\ l.seq = historySeq => l.days = days
  /\ series # None => series \in Seq(Nat) /\ Ordered(series)
  /\ error => series = None
  /\ SeriesOfRange

(* A pin is always on a row of the series, and then some row is looked at.   *)
LookInv ==
  /\ scrub \in Nat /\ pinTs \in Nat /\ frozen \in BOOLEAN
  /\ pinTs # 0 => series # None /\ restIndex # 0 /\ scrub # 0
  /\ RestsAtPin

(* The hero is the row looked at, or now.                                   *)
HeroIs ==
  hero = IF scrub # 0 /\ series # None /\ series # << >>
         THEN <<"row", scrub, IF scrub \in DOMAIN series THEN series[scrub] ELSE 0>>
         ELSE Now

InkInv == HeroIs /\ PlotsCurrent /\ RailHonest

HistoryInv == DeviceInv /\ LoadInv /\ LookInv /\ InkInv

LEMMA InitHolds == Init => HistoryInv
<1> SUFFICES ASSUME Init PROVE HistoryInv
  OBVIOUS
<1>1. DeviceInv
  <2>1. /\ MaxNow \in Nat \ {0} /\ now = MaxNow - 1
        /\ \E d \in Devices : log = d.log /\ ring = d.ring
    BY HistoryAssumption DEF Init
  <2>2. now \in Nat
    BY <2>1
  <2>3. /\ log \in Seq(Nat) /\ Ordered(log)
        /\ \A i \in DOMAIN log : log[i] < MaxNow
    BY <2>1, HistoryAssumption
  <2>4. \A i \in DOMAIN log : log[i] \in Nat
    BY <2>3, ElementOfSeq, LenProperties
  <2>5. \A i \in DOMAIN log : log[i] <= now
    BY <2>1, <2>3, <2>4
  <2>6. /\ ring \in [rows : 0 .. (MaxNow - 1), end : 0 .. (MaxNow - 1)]
        /\ ring.end # 0 => ring.rows <= ring.end
    BY <2>1, HistoryAssumption
  <2>7. /\ ring.rows \in 0 .. (MaxNow - 1) /\ ring.end \in 0 .. (MaxNow - 1)
        /\ ring.end # 0 => ring.rows <= ring.end
    BY <2>6
  <2>8. /\ ring.rows \in Nat /\ ring.end \in Nat
        /\ ring.rows <= now /\ ring.end <= now
    BY <2>1, <2>7
  <2> QED
    BY <2>2, <2>3, <2>5, <2>7, <2>8 DEF DeviceInv
<1>2. LoadInv
  <2>1. /\ days \in Ranges /\ historySeq = 1 /\ error = FALSE /\ series = None
        /\ loads = {[seq |-> 1, days |-> days]}
    BY DEF Init
  <2>2. \A l \in loads : l.days = days /\ l.seq = 1
    BY <2>1
  <2>3. /\ historySeq \in Nat
        /\ \A l \in loads : /\ l.days \in Ranges /\ l.seq \in Nat /\ l.seq <= historySeq
                            /\ l.seq = historySeq => l.days = days
    BY <2>1, <2>2
  <2> QED
    BY <2>1, <2>3 DEF LoadInv, SeriesOfRange
<1>3. LookInv
  BY DEF Init, LookInv, RestsAtPin, restIndex
<1>4. InkInv
  BY DEF Init, InkInv, HeroIs, PlotsCurrent, RailHonest, BackToLive, PickOutranks
<1> QED
  BY <1>1, <1>2, <1>3, <1>4 DEF HistoryInv

(* The device's clock and log are the device's alone.                       *)
LEMMA DeviceHolds ==
  ASSUME HistoryInv, [Next]_vars
  PROVE  DeviceInv'
<1>1. DeviceInv
  BY DEF HistoryInv
<1>2. CASE Log
  <2>1. /\ Len(log) \in Nat /\ DOMAIN log = 1 .. Len(log)
        /\ \A i \in DOMAIN log : log[i] \in Nat
    BY <1>1, ElementOfSeq, LenProperties DEF DeviceInv
  <2>2. now' = now + 1 /\ now \in Nat /\ now' \in Nat
    BY <1>1, <1>2 DEF Log, DeviceInv
  <2>3. ASSUME log' = Append(log, now')
        PROVE  log' \in Seq(Nat) /\ Ordered(log') /\ \A i \in DOMAIN log' : log'[i] <= now'
    <3>1. /\ log' \in Seq(Nat) /\ Len(log') = Len(log) + 1
          /\ \A i \in 1 .. Len(log) : log'[i] = log[i]
          /\ log'[Len(log) + 1] = now'
      BY <1>1, <2>2, <2>3, AppendProperties DEF DeviceInv
    <3>2. DOMAIN log' = 1 .. (Len(log) + 1)
      BY <3>1, LenProperties
    <3>3. ASSUME NEW i \in DOMAIN log' PROVE log'[i] <= now'
      <4>1. i \in 1 .. Len(log) \/ i = Len(log) + 1
        BY <2>1, <3>2, <3>3
      <4> QED
        BY <1>1, <2>1, <2>2, <3>1, <4>1 DEF DeviceInv
    <3>4. ASSUME NEW i \in DOMAIN log', NEW j \in DOMAIN log', i < j, log'[i] > 0, log'[j] > 0
          PROVE  log'[i] < log'[j]
      <4>1. i \in 1 .. Len(log) /\ (j \in 1 .. Len(log) \/ j = Len(log) + 1)
        BY <2>1, <3>2, <3>4
      <4>2. CASE j \in 1 .. Len(log)
        BY <1>1, <2>1, <3>1, <3>4, <4>1, <4>2 DEF DeviceInv, Ordered, Synced
      <4>3. CASE j = Len(log) + 1
        <5>1. log'[i] <= now /\ log'[i] \in Nat /\ log'[j] = now'
          BY <1>1, <2>1, <3>1, <4>1, <4>3 DEF DeviceInv
        <5> QED
          BY <2>2, <5>1
      <4> QED
        BY <4>1, <4>2, <4>3
    <3> QED
      BY <3>1, <3>3, <3>4 DEF Ordered, Synced
  <2>4. ASSUME log' = log
        PROVE  log' \in Seq(Nat) /\ Ordered(log') /\ \A i \in DOMAIN log' : log'[i] <= now'
    <3>1. \A i \in DOMAIN log : log[i] <= now'
      BY <1>1, <2>1, <2>2 DEF DeviceInv
    <3> QED
      BY <1>1, <2>4, <3>1 DEF DeviceInv, Ordered, Synced
  <2>5. log' = Append(log, now') \/ log' = log
    BY <1>2 DEF Log
  <2>6. /\ ring'.rows \in Nat /\ ring'.end \in Nat
        /\ ring'.rows <= now' /\ ring'.end <= now'
        /\ ring'.end # 0 => ring'.rows <= ring'.end
    <3>1. CASE ring' = ring
      BY <1>1, <2>2, <3>1 DEF DeviceInv
    <3>2. ASSUME NEW synced \in BOOLEAN, ring.end # 0 => synced,
                 ring' = [rows |-> Min({ring.rows + 1, RingLen}),
                          end  |-> IF synced THEN now' ELSE ring.end]
          PROVE  /\ ring'.rows \in Nat /\ ring'.end \in Nat
                 /\ ring'.rows <= now' /\ ring'.end <= now'
                 /\ ring'.end # 0 => ring'.rows <= ring'.end
      <4>1. ring.rows + 1 \in Nat /\ RingLen \in Nat /\ ring.rows + 1 <= now'
        BY <1>1, <2>2, HistoryAssumption DEF DeviceInv
      <4>2. Min({ring.rows + 1, RingLen}) \in Nat /\ Min({ring.rows + 1, RingLen}) <= ring.rows + 1
        BY <4>1, LeastOf
      <4>3. ring'.rows = Min({ring.rows + 1, RingLen})
        BY <3>2
      <4>4. ring'.end = now' \/ (ring'.end = ring.end /\ ring.end = 0)
        BY <3>2
      <4> QED
        BY <1>1, <2>2, <4>1, <4>2, <4>3, <4>4 DEF DeviceInv
    <3> QED
      BY <1>2, <3>1, <3>2 DEF Log
  <2> QED
    BY <2>2, <2>3, <2>4, <2>5, <2>6 DEF DeviceInv
<1>3. CASE CardChanges \/ DeviceRestarts
  <2>1. now' = now /\ log' = log
    BY <1>3 DEF CardChanges, DeviceRestarts, Upset
  <2>2. ring' = ring \/ ring' = [rows |-> 0, end |-> 0]
    BY <1>3 DEF CardChanges, DeviceRestarts
  <2>3. ring' = ring \/ (ring'.rows = 0 /\ ring'.end = 0)
    BY <2>2
  <2> QED
    BY <1>1, <2>1, <2>3 DEF DeviceInv, Ordered, Synced
<1>4. CASE ~ Device
  <2>1. now' = now /\ log' = log /\ ring' = ring
    BY <1>4 DEF Next, Loading, Looking, Rail, refreshClimate, setRange, Loaded, Failed, Hover,
      MouseLeaves, TouchStarts, TouchScrolls, TouchScrubs, TouchEnds, ClickPlot, Back, Frame,
      setScreen, Command, RailDown, RailAcross, RailAlong, RailUp, RailCancel, RailClick,
      Quiet, StillRail, dev_vars, vars
  <2> QED
    BY <1>1, <2>1 DEF DeviceInv, Ordered, Synced
<1> QED
  BY <1>2, <1>3, <1>4 DEF Device

(* Only the answers change the series, only the range buttons the range, and  *)
(* only a request of a new number the requests in flight.                    *)
LEMMA LoadHolds ==
  ASSUME HistoryInv, [Next]_vars
  PROVE  LoadInv'
<1>1. LoadInv /\ DeviceInv
  BY DEF HistoryInv
<1>2. ASSUME Request, days' \in Ranges, UNCHANGED <<series, drawnFor, error>>
      PROVE  LoadInv'
  <2>1. /\ historySeq' = historySeq + 1 /\ historySeq' \in Nat
        /\ loads' = loads \cup {[seq |-> historySeq', days |-> days']}
    BY <1>1, <1>2 DEF Request, LoadInv
  <2>2. ASSUME NEW l \in loads'
        PROVE  /\ l.days \in Ranges /\ l.seq \in Nat /\ l.seq <= historySeq'
               /\ l.seq = historySeq' => l.days = days'
    <3>1. CASE l \in loads
      <4>1. l.days \in Ranges /\ l.seq \in Nat /\ l.seq <= historySeq /\ historySeq \in Nat
        BY <1>1, <3>1 DEF LoadInv
      <4> QED
        BY <2>1, <4>1
    <3>2. CASE l = [seq |-> historySeq', days |-> days']
      BY <1>2, <2>1, <3>2
    <3> QED
      BY <2>1, <2>2, <3>1, <3>2
  <2> QED
    BY <1>1, <1>2, <2>1, <2>2 DEF LoadInv, SeriesOfRange
<1>3. ASSUME NEW l \in loads, Superseded(l), loads' = loads \ {l},
             UNCHANGED <<days, historySeq, series, drawnFor, error>>
      PROVE  LoadInv'
  <2>1. l # [seq |-> historySeq, days |-> days]
    BY <1>3 DEF Superseded
  <2> QED
    BY <1>1, <1>3, <2>1 DEF LoadInv, SeriesOfRange
<1>4. ASSUME NEW l \in loads, ~ Superseded(l), loads' = loads \ {l},
             UNCHANGED <<days, historySeq>>,
             \/ series' = Shown(l.days) /\ drawnFor' = l.days /\ error' = FALSE
             \/ series' = None /\ drawnFor' = drawnFor /\ error' = TRUE
      PROVE  LoadInv'
  <2>1. l.days = days /\ days \in Ranges
    BY <1>1, <1>4 DEF LoadInv, Superseded
  <2>2. Shown(l.days) \in Seq(Nat) /\ Ordered(Shown(l.days)) /\ Shown(l.days) # None
    BY <1>1, <2>1, ShownIs, HistoryAssumption
  <2>3. \/ /\ series' \in Seq(Nat) /\ Ordered(series') /\ drawnFor' = days' /\ error' = FALSE
        \/ series' = None /\ error' = TRUE
    BY <1>4, <2>1, <2>2
  <2>4. \A m \in loads' : m \in loads
    BY <1>4
  <2> QED
    BY <1>1, <1>4, <2>3, <2>4 DEF LoadInv, SeriesOfRange, Ordered, Synced
<1>5. ASSUME UNCHANGED load_vars PROVE LoadInv'
  BY <1>1, <1>5 DEF LoadInv, SeriesOfRange, load_vars, Ordered, Synced
<1>6. CASE refreshClimate
  BY <1>1, <1>2, <1>6 DEF refreshClimate, LoadInv
<1>7. ASSUME NEW r \in Ranges, setRange(r) PROVE LoadInv'
  BY <1>2, <1>7 DEF setRange
<1>8. ASSUME NEW l \in loads, Loaded(l) PROVE LoadInv'
  BY <1>3, <1>4, <1>8 DEF Loaded
<1>9. ASSUME NEW l \in loads, Failed(l) PROVE LoadInv'
  BY <1>3, <1>4, <1>9 DEF Failed
<1>10. CASE Device \/ Looking \/ Rail \/ Command \/ Frame \/ setScreen \/ UNCHANGED vars
  BY <1>5, <1>10 DEF Device, Log, CardChanges, DeviceRestarts, Upset, Looking, Rail, Hover, MouseLeaves, TouchStarts, TouchScrolls, TouchScrubs,
    TouchEnds, ClickPlot, Back, Frame, setScreen, Command, RailDown, RailAcross, RailAlong, RailUp,
    RailCancel, RailClick, Quiet, StillRail, vars
<1> QED
  BY <1>6, <1>7, <1>8, <1>9, <1>10 DEF Next, Loading

-----------------------------------------------------------------------------
(* The crosshair and the pin.                                               *)

(* At rest a moment that is pinned is the moment shown.                      *)
LEMMA RestIs ==
  ASSUME LoadInv, pinTs \in Nat
  PROVE  /\ restIndex \in Nat
         /\ pinTs = 0 => restIndex = 0
         /\ restIndex # 0 => series # None
<1>1. CASE series = None
  BY <1>1 DEF restIndex
<1>2. CASE series # None
  <2>1. series \in Seq(Nat) /\ Ordered(series) /\ restIndex = pinnedRow(series, pinTs)
    BY <1>2 DEF LoadInv, restIndex
  <2>2. DOMAIN series \subseteq Nat
    BY <2>1, LenProperties
  <2>3. /\ pinnedRow(series, 0) = 0
        /\ pinnedRow(series, pinTs) # 0 => pinnedRow(series, pinTs) \in DOMAIN series
    BY <2>1, PinnedIs
  <2>4. pinnedRow(series, pinTs) \in Nat
    BY <2>2, <2>3
  <2> QED
    BY <1>2, <2>1, <2>3, <2>4
<1> QED
  BY <1>1, <1>2

(* The crosshair moves, or stays; either way the box is held while it is on a  *)
(* row.                                                                      *)
Goes   == frozen' = (scrub' # 0) /\ drawAll /\ IF scrub' = 0 /\ scrub # 0 THEN paint ELSE paintHero
Stays  == Unmoved /\ frozen' = (scrub' # 0)

LEMMA CrosshairMoves ==
  ASSUME LookInv, LoadInv
  PROVE  /\ endScrub => scrub' = restIndex /\ (Goes \/ Stays)
         /\ backToNow => pinTs' = 0 /\ scrub' = 0 /\ (Goes \/ Stays)
         /\ \A i : pinAt(i) => scrub' = i /\ Goes
         /\ \A i : scrubAt(i) => scrub' = (IF i = 0 THEN restIndex ELSE i) /\ (Goes \/ Stays)
<1>1. \A i : goTo(i) => scrub' = i /\ Goes
  BY DEF goTo, Goes
<1>2. goTo(restIndex) => scrub' = restIndex /\ Goes
  BY DEF goTo, Goes
<1>3. endScrub => scrub' = restIndex /\ (Goes \/ Stays)
  BY <1>2 DEF endScrub, endScrub_to, Stays, Unmoved
<1>4. backToNow => pinTs' = 0 /\ scrub' = 0 /\ (Goes \/ Stays)
  BY <1>1 DEF backToNow, endScrub_to, Stays, Unmoved
<1>5. ASSUME NEW i, scrubAt(i) PROVE scrub' = (IF i = 0 THEN restIndex ELSE i) /\ (Goes \/ Stays)
  <2>1. Unmoved /\ UNCHANGED frozen => Stays
    BY DEF LookInv, RestsAtPin, Stays, Unmoved
  <2>2. CASE i = 0
    BY <1>2, <1>5, <2>1, <2>2 DEF scrubAt, Unmoved
  <2>3. CASE i # 0
    BY <1>1, <1>5, <2>1, <2>3 DEF scrubAt, Unmoved
  <2> QED
    BY <2>2, <2>3
<1> QED
  BY <1>1, <1>3, <1>4, <1>5 DEF pinAt


Resting == gesture \in {"none", "undecided", "scroll"}

LEMMA LookHolds ==
  ASSUME HistoryInv, [Next]_vars
  PROVE  LookInv'
<1>1. LookInv /\ LoadInv /\ DeviceInv
  BY DEF HistoryInv
<1>2. LoadInv'
  BY LoadHolds
<1>3. /\ scrub \in Nat /\ pinTs \in Nat
      /\ pinTs # 0 => series # None /\ restIndex # 0 /\ scrub # 0
      /\ Resting => scrub = restIndex
      /\ frozen \in BOOLEAN /\ (frozen <=> scrub # 0)
  BY <1>1 DEF LookInv, RestsAtPin, Resting
<1>4. /\ restIndex \in Nat /\ (pinTs = 0 => restIndex = 0)
      /\ restIndex # 0 => series # None
  BY <1>1, <1>3, RestIs
<1>5. \A i \in Rows : /\ i \in Nat
                      /\ i # 0 => series \in Seq(Nat) /\ Ordered(series) /\ i \in DOMAIN series
  <2>1. series # None => /\ series \in Seq(Nat) /\ Ordered(series) /\ DOMAIN series = 1 .. Len(series)
                         /\ Len(series) \in Nat
    BY <1>1, LenProperties DEF LoadInv
  <2> QED
    BY <2>1 DEF Rows
<1>6. ASSUME UNCHANGED <<series, pinTs>>, scrub' \in Nat, Goes \/ Stays,
             pinTs # 0 => scrub' # 0, Resting' => scrub' = restIndex
      PROVE  LookInv'
  <2>1. restIndex' = restIndex
    BY <1>6 DEF restIndex
  <2>2. frozen' = (scrub' # 0)
    BY <1>6 DEF Goes, Stays
  <2> QED
    BY <1>3, <1>6, <2>1, <2>2 DEF LookInv, RestsAtPin, Resting
<1>7. ASSUME UNCHANGED series, pinTs' = 0, scrub' = 0, frozen' = FALSE
      PROVE  LookInv'
  <2>1. restIndex' = 0
    BY <1>7 DEF restIndex, pinnedRow
  <2> QED
    BY <1>7, <2>1 DEF LookInv, RestsAtPin
<1>8. ASSUME UNCHANGED <<series, look_vars>>, Resting' => Resting
      PROVE  LookInv'
  <2>1. restIndex' = restIndex
    BY <1>8 DEF restIndex, look_vars
  <2> QED
    BY <1>3, <1>8, <2>1 DEF LookInv, RestsAtPin, Resting, look_vars
<1>9. ASSUME settleScrub, gesture' = gesture
      PROVE  LookInv'
  <2> DEFINE k == IF series' = None THEN 0 ELSE pinnedRow(series', pinTs)
  <2>1. k \in Nat /\ (k # 0 => series' # None)
    <3>1. CASE series' = None
      BY <3>1
    <3>2. CASE series' # None
      <4>1. series' \in Seq(Nat) /\ Ordered(series')
        BY <1>2, <3>2 DEF LoadInv
      <4>2. k # 0 => k \in DOMAIN series'
        BY <1>3, <3>2, <4>1, PinnedIs
      <4>3. DOMAIN series' \subseteq Nat
        BY <4>1, LenProperties
      <4> QED
        BY <3>2, <4>2, <4>3
    <3> QED
      BY <3>1, <3>2
  <2>2. CASE pinTs = 0
    <3>1. UNCHANGED look_vars
      BY <1>9, <2>2 DEF settleScrub
    <3>2. restIndex' = 0 /\ restIndex = 0
      BY <1>4, <2>2, <3>1 DEF restIndex, look_vars, pinnedRow
    <3> QED
      BY <1>3, <1>9, <2>2, <3>1, <3>2 DEF LookInv, RestsAtPin, Resting, look_vars
  <2>3. CASE pinTs # 0 /\ k # 0
    <3>1. scrub' = k /\ UNCHANGED <<pinTs, frozen>>
      BY <1>9, <2>3 DEF settleScrub
    <3>2. restIndex' = k
      BY <2>1, <2>3, <3>1 DEF restIndex
    <3> QED
      BY <1>3, <2>1, <2>3, <3>1, <3>2 DEF LookInv, RestsAtPin
  <2>4. CASE pinTs # 0 /\ k = 0
    <3>1. pinTs' = 0 /\ scrub' = 0 /\ frozen' = FALSE
      BY <1>3, <1>9, <2>4 DEF settleScrub
    <3>2. restIndex' = 0
      BY <3>1 DEF restIndex, pinnedRow
    <3> QED
      BY <3>1, <3>2 DEF LookInv, RestsAtPin
  <2> QED
    BY <2>2, <2>3, <2>4
<1>10. ASSUME NEW l \in loads, Loaded(l) \/ Failed(l) PROVE LookInv'
  <2>1. CASE Superseded(l)
    BY <1>8, <1>10, <2>1 DEF Loaded, Failed, Resting
  <2>2. CASE ~ Superseded(l)
    BY <1>9, <1>10, <2>2 DEF Loaded, Failed
  <2> QED
    BY <2>1, <2>2
<1>11. ASSUME NEW r \in Ranges, setRange(r) PROVE LookInv'
  <2>1. UNCHANGED <<series, pinTs, gesture>> /\ Resting
    BY <1>11 DEF setRange, Resting
  <2>2. scrub' = restIndex /\ frozen' = (scrub' # 0)
    BY <1>11 DEF setRange, goTo
  <2>3. restIndex' = restIndex
    BY <2>1 DEF restIndex
  <2> QED
    BY <1>3, <1>4, <2>1, <2>2, <2>3 DEF LookInv, RestsAtPin
<1>12. ASSUME NEW i \in Rows, Hover(i) \/ TouchScrubs(i) PROVE LookInv'
  <2>1. UNCHANGED <<series, pinTs>> /\ scrubAt(i) /\ gesture' \in {"mouse", "scrub"}
    BY <1>12 DEF Hover, TouchScrubs, Quiet, load_vars
  <2>2. scrub' = (IF i = 0 THEN restIndex ELSE i) /\ (Goes \/ Stays)
    BY <1>1, <2>1, CrosshairMoves
  <2>3. scrub' \in Nat /\ (pinTs # 0 => scrub' # 0)
    BY <1>3, <1>4, <1>5, <2>2
  <2>4. ~ Resting'
    BY <2>1 DEF Resting
  <2> QED
    BY <1>6, <2>1, <2>2, <2>3, <2>4
<1>13. CASE MouseLeaves \/ TouchEnds
  <2>1. UNCHANGED <<series, pinTs>> /\ endScrub
    BY <1>13 DEF MouseLeaves, TouchEnds, Quiet, load_vars
  <2>2. scrub' = restIndex /\ (Goes \/ Stays)
    BY <1>1, <2>1, CrosshairMoves
  <2> QED
    BY <1>3, <1>4, <1>6, <2>1, <2>2
<1>14. ASSUME NEW i \in Rows, ClickPlot(i) PROVE LookInv'
  <2>1. i # 0 /\ series[i] > 0 /\ pinTs' = series[i] /\ series' = series /\ pinAt(i)
    BY <1>14 DEF ClickPlot, Quiet, load_vars
  <2>2. scrub' = i /\ frozen' = (scrub' # 0)
    BY <1>1, <2>1, CrosshairMoves DEF Goes
  <2>3. series \in Seq(Nat) /\ Ordered(series) /\ i \in DOMAIN series /\ i \in Nat
    BY <1>5, <1>14, <2>1
  <2>4. series[i] \in Nat /\ series # None
    BY <2>3, ElementOfSeq, LenProperties, HistoryAssumption
  <2>5. pinnedRow(series, series[i]) = i
    BY <2>1, <2>3, PinnedIs
  <2>6. restIndex' = i
    BY <2>1, <2>4, <2>5 DEF restIndex
  <2> QED
    BY <2>1, <2>2, <2>3, <2>4, <2>6 DEF LookInv, RestsAtPin
<1>15. CASE Back \/ Command \/ (RailClick /\ ~ swallowClick)
  <2>1. UNCHANGED series /\ backToNow
    BY <1>15 DEF Back, Command, RailClick, Quiet, StillRail, load_vars
  <2>2. pinTs' = 0 /\ scrub' = 0 /\ (Goes \/ Stays)
    BY <1>1, <2>1, CrosshairMoves
  <2>3. frozen' = FALSE
    BY <2>2 DEF Goes, Stays
  <2> QED
    BY <1>7, <2>1, <2>2, <2>3
<1>16. ASSUME NEW n \in 0 .. Blocks, RailUp(n), sweeping PROVE LookInv'
  <2>1. UNCHANGED series /\ pinTs' = 0 /\ scrub' = 0 /\ frozen' = FALSE
    BY <1>3, <1>16 DEF RailUp, StillRail, load_vars, goTo
  <2> QED
    BY <1>7, <2>1
<1>17. ASSUME NEW n \in 0 .. Blocks,
              RailDown(n) \/ RailAlong(n) \/ (RailUp(n) /\ ~ sweeping)
       PROVE  LookInv'
  BY <1>8, <1>17 DEF RailDown, RailAlong, RailUp, StillRail, load_vars, Resting
<1>18. CASE \/ Device \/ refreshClimate \/ TouchStarts \/ TouchScrolls \/ Frame \/ setScreen
            \/ RailAcross \/ RailCancel \/ (RailClick /\ swallowClick) \/ UNCHANGED vars
  BY <1>8, <1>18 DEF Device, Log, CardChanges, DeviceRestarts, Upset, refreshClimate, TouchStarts, TouchScrolls, Frame, setScreen, RailAcross,
    RailCancel, RailClick, Quiet, StillRail, load_vars, vars, Resting
<1>19. \A n \in 1 .. Blocks : n \in 0 .. Blocks
  BY HistoryAssumption
<1> QED
  BY <1>10, <1>11, <1>12, <1>13, <1>14, <1>15, <1>16, <1>17, <1>18, <1>19
    DEF Next, Loading, Looking, Rail

-----------------------------------------------------------------------------
(* The painters.                                                            *)

(* The plots are of the view; the title names the hero's moment.             *)
PlotsOfView ==
  /\ series # None =>
       plots = <<series, scrub, scrub # 0 /\ scrub = pinnedRow(series, pinTs)>>
  /\ error => plots = Blank
  /\ caption = "failed" <=> error

TitleFits == title[1] = "row" => hero = title

LEMMA PlotsAre == PlotsCurrent <=> (screen = "console" => PlotsOfView /\ TitleFits)
  BY DEF PlotsCurrent, PlotsOfView, TitleFits

LEMMA HeroPainted ==
  ASSUME paint \/ paintHero
  PROVE  HeroIs' /\ TitleFits'
<1>1. /\ hero' = IF Scrubbing THEN Moment(scrub') ELSE Now
      /\ paintChartTitle
  BY DEF paint, paintHero, paintHeroOver
<1>2. HeroIs'
  BY <1>1 DEF HeroIs, Scrubbing, Moment
<1>3. TitleFits'
  BY <1>1 DEF TitleFits, paintChartTitle
<1> QED
  BY <1>2, <1>3

LEMMA PlotsDrawn ==
  ASSUME LoadInv', drawAll
  PROVE  screen' = "console" => PlotsOfView'
<1> SUFFICES ASSUME screen' = "console" PROVE PlotsOfView'
  OBVIOUS
<1>1. error' \in BOOLEAN /\ (error' => series' = None)
  BY DEF LoadInv
<1>2. caption' = "failed" <=> error'
  <2>1. paintCaption
    BY DEF drawAll
  <2>2. CASE error'
    BY <1>1, <2>1, <2>2 DEF paintCaption
  <2>3. CASE ~ error' /\ (series' = None \/ series' = << >>)
    BY <2>1, <2>3 DEF paintCaption
  <2>4. CASE ~ error' /\ series' \notin {None, << >>}
    BY <2>1, <2>4 DEF paintCaption
  <2> QED
    BY <2>2, <2>3, <2>4
<1>3. plots' = IF series' # None
               THEN <<series', scrub', scrub' # 0 /\ scrub' = pinnedRow(series', pinTs')>>
               ELSE IF error' THEN Blank ELSE plots
  BY DEF drawAll
<1> QED
  BY <1>1, <1>2, <1>3 DEF PlotsOfView

(* What paint leaves on the rail is the finger's, the past's or the present's;  *)
(* what paintHero leaves is that, unless it leaves the past.                  *)
LEMMA RailPainted ==
  ASSUME paint \/ (paintHero /\ RailHonest /\ railPick' = railPick /\ (scrub' = 0 => scrub = 0))
  PROVE  RailHonest'
<1>1. HeroIs'
  BY HeroPainted
<1>2. scrub' = 0 => hero' = Now /\ ~ Scrubbing
  BY <1>1 DEF HeroIs, Scrubbing
<1>3. CASE paint
  <2>1. rail' = IF Scrubbing THEN paintRail(Moment(scrub')) ELSE paintRail(Live)
    BY <1>3 DEF paint, paintHeroOver
  <2> QED
    BY <1>2, <2>1 DEF RailHonest, BackToLive, PickOutranks, paintRail
<1>4. CASE paintHero /\ RailHonest /\ railPick' = railPick /\ (scrub' = 0 => scrub = 0)
  <2>1. rail' = IF Scrubbing THEN paintRail(Moment(scrub')) ELSE rail
    BY <1>4 DEF paintHero, paintHeroOver
  <2> QED
    BY <1>2, <1>4, <2>1 DEF RailHonest, BackToLive, PickOutranks, paintRail
<1> QED
  BY <1>3, <1>4

(* A crosshair that moves repaints everything, one that stays leaves what is   *)
(* painted true.                                                             *)
LEMMA CrosshairPaints ==
  ASSUME InkInv, LoadInv', UNCHANGED <<series, error, screen, railPick>>,
         \/ Goes
         \/ Stays /\ (pinTs' = pinTs \/ scrub = 0)
  PROVE  InkInv'
<1>1. CASE Goes
  <2>1. HeroIs' /\ TitleFits'
    BY <1>1, HeroPainted DEF Goes
  <2>2. PlotsCurrent'
    <3>1. screen' = "console" => PlotsOfView'
      BY <1>1, PlotsDrawn DEF Goes
    <3> QED
      BY <2>1, <3>1 DEF PlotsCurrent, PlotsOfView, TitleFits
  <2>3. RailHonest'
    BY <1>1, RailPainted DEF Goes, InkInv
  <2> QED
    BY <2>1, <2>2, <2>3 DEF InkInv
<1>2. CASE Stays /\ (pinTs' = pinTs \/ scrub = 0)
  <2>1. UNCHANGED <<scrub, ink_vars, series, error, screen, railPick>>
    BY <1>2 DEF Stays, Unmoved
  <2>2. (scrub' # 0 /\ scrub' = pinnedRow(series', pinTs')) = (scrub # 0 /\ scrub = pinnedRow(series, pinTs))
    BY <1>2, <2>1
  <2> QED
    BY <2>1, <2>2 DEF InkInv, HeroIs, PlotsCurrent, RailHonest, BackToLive, PickOutranks, ink_vars
<1> QED
  BY <1>1, <1>2

LEMMA InkHolds ==
  ASSUME HistoryInv, [Next]_vars
  PROVE  InkInv'
<1>1. /\ LookInv /\ LoadInv /\ InkInv /\ LoadInv'
      /\ HeroIs /\ RailHonest /\ (screen = "console" => PlotsOfView /\ TitleFits)
  BY LoadHolds, PlotsAre DEF HistoryInv, InkInv
<1>2. ASSUME UNCHANGED <<series, error, screen, railPick, scrub, pinTs, ink_vars>>
      PROVE  InkInv'
  BY <1>1, <1>2 DEF InkInv, HeroIs, PlotsCurrent, RailHonest, BackToLive, PickOutranks, ink_vars
<1>3. ASSUME UNCHANGED <<series, error, screen, scrub, pinTs, plots, caption, title, hero>>, RailHonest'
      PROVE  InkInv'
  BY <1>1, <1>3 DEF InkInv, HeroIs, PlotsCurrent
<1>4. ASSUME NEW l \in loads, Loaded(l) \/ Failed(l), ~ Superseded(l) PROVE InkInv'
  <2>1. settleScrub /\ drawAll /\ railPick' = railPick
    BY <1>4 DEF Loaded, Failed, rail_vars
  <2>2. paint \/ (paintHero /\ (scrub' = 0 => scrub = 0))
    BY <2>1 DEF settleScrub, look_vars
  <2>3. HeroIs' /\ TitleFits'
    BY <2>2, HeroPainted
  <2>4. screen' = "console" => PlotsOfView'
    BY <1>1, <2>1, PlotsDrawn
  <2>5. RailHonest'
    BY <1>1, <2>1, <2>2, RailPainted
  <2> QED
    BY <2>3, <2>4, <2>5 DEF InkInv, PlotsCurrent, PlotsOfView, TitleFits
<1>5. ASSUME NEW l \in loads, Loaded(l) \/ Failed(l), Superseded(l) PROVE InkInv'
  BY <1>2, <1>5 DEF Loaded, Failed, look_vars, rail_vars
<1>6. ASSUME NEW r \in Ranges, setRange(r) PROVE InkInv'
  <2>1. UNCHANGED <<series, error, screen, railPick, pinTs>> /\ screen = "console"
    BY <1>6 DEF setRange, rail_vars
  <2>2. CASE scrub = restIndex
    <3>1. /\ scrub' = scrub /\ paintChartTitle /\ paintCaption
          /\ UNCHANGED <<plots, hero, rail>>
      BY <1>6, <2>2 DEF setRange
    <3>2. HeroIs' /\ RailHonest'
      BY <1>1, <2>1, <3>1 DEF HeroIs, RailHonest, BackToLive, PickOutranks
    <3>3. TitleFits'
      BY <3>1, <3>2 DEF TitleFits, HeroIs, paintChartTitle, Scrubbing, Moment
    <3>4. caption' = "failed" <=> error'
      <4>1. error' \in BOOLEAN
        BY <1>1 DEF LoadInv
      <4>2. CASE error'
        BY <3>1, <4>2 DEF paintCaption
      <4>3. CASE ~ error' /\ (series' = None \/ series' = << >>)
        BY <3>1, <4>3 DEF paintCaption
      <4>4. CASE ~ error' /\ series' \notin {None, << >>}
        BY <3>1, <4>4 DEF paintCaption
      <4> QED
        BY <4>1, <4>2, <4>3, <4>4
    <3>5. PlotsOfView'
      BY <1>1, <2>1, <3>1, <3>4 DEF PlotsOfView
    <3> QED
      BY <3>2, <3>3, <3>5 DEF InkInv, PlotsCurrent, PlotsOfView, TitleFits
  <2>3. CASE scrub # restIndex
    <3>1. Goes
      BY <1>6, <2>3 DEF setRange, goTo, Goes
    <3> QED
      BY <1>1, <2>1, <3>1, CrosshairPaints
  <2> QED
    BY <2>2, <2>3
<1>7. ASSUME NEW i \in Rows, Hover(i) \/ TouchScrubs(i) PROVE InkInv'
  <2>1. scrubAt(i) /\ UNCHANGED <<pinTs, series, error, screen, railPick>>
    BY <1>7 DEF Hover, TouchScrubs, Quiet, load_vars, rail_vars
  <2>2. Goes \/ Stays
    BY <1>1, <2>1, CrosshairMoves
  <2> QED
    BY <1>1, <2>1, <2>2, CrosshairPaints
<1>8. ASSUME NEW i \in Rows, ClickPlot(i) PROVE InkInv'
  <2>1. pinAt(i) /\ UNCHANGED <<series, error, screen, railPick>>
    BY <1>8 DEF ClickPlot, Quiet, load_vars, rail_vars
  <2>2. Goes
    BY <1>1, <2>1, CrosshairMoves
  <2> QED
    BY <1>1, <2>1, <2>2, CrosshairPaints
<1>9. CASE MouseLeaves \/ TouchEnds
  <2>1. endScrub /\ UNCHANGED <<pinTs, series, error, screen, railPick>>
    BY <1>9 DEF MouseLeaves, TouchEnds, Quiet, load_vars, rail_vars
  <2>2. Goes \/ Stays
    BY <1>1, <2>1, CrosshairMoves
  <2> QED
    BY <1>1, <2>1, <2>2, CrosshairPaints
<1>10. CASE Back \/ Command \/ (RailClick /\ ~ swallowClick)
  <2>1. backToNow /\ UNCHANGED <<series, error, screen, railPick>>
    BY <1>10 DEF Back, Command, RailClick, Quiet, StillRail, load_vars, rail_vars
  <2>2. scrub' = 0 /\ (Goes \/ Stays)
    BY <1>1, <2>1, CrosshairMoves
  <2>3. Stays => scrub = 0
    BY <2>2 DEF Stays, Unmoved
  <2> QED
    BY <1>1, <2>1, <2>2, <2>3, CrosshairPaints
<1>11. CASE Frame
  <2>1. paint /\ UNCHANGED <<series, error, screen, scrub, pinTs, plots, caption>>
    BY <1>11 DEF Frame, Quiet, load_vars, look_vars
  <2>2. HeroIs' /\ TitleFits' /\ RailHonest'
    BY <2>1, HeroPainted, RailPainted
  <2>3. screen' = "console" => PlotsOfView'
    BY <1>1, <2>1 DEF PlotsOfView
  <2> QED
    BY <2>2, <2>3 DEF InkInv, PlotsCurrent, PlotsOfView, TitleFits
<1>12. CASE setScreen
  <2>1. /\ UNCHANGED <<series, scrub, hero, rail, railPick>> /\ drawAll
        /\ screen' = "console" => paintChartTitle
    BY <1>12 DEF setScreen, load_vars, look_vars, rail_vars
  <2>2. HeroIs' /\ RailHonest'
    BY <1>1, <2>1 DEF HeroIs, RailHonest, BackToLive, PickOutranks
  <2>3. screen' = "console" => TitleFits'
    BY <2>1, <2>2 DEF TitleFits, HeroIs, paintChartTitle, Scrubbing, Moment
  <2>4. screen' = "console" => PlotsOfView'
    BY <1>1, <2>1, PlotsDrawn
  <2> QED
    BY <2>2, <2>3, <2>4 DEF InkInv, PlotsCurrent, PlotsOfView, TitleFits
<1>13. ASSUME NEW n \in 0 .. Blocks, RailDown(n) \/ RailAlong(n) PROVE InkInv'
  <2>1. /\ UNCHANGED <<series, error, screen, scrub, pinTs, plots, caption, title, hero>>
        /\ preview(n) \/ UNCHANGED <<railPick, rail>>
    BY <1>13 DEF RailDown, RailAlong, StillRail, load_vars, look_vars
  <2>2. RailHonest'
    BY <1>1, <2>1 DEF RailHonest, BackToLive, PickOutranks, preview, paintRail
  <2> QED
    BY <1>3, <2>1, <2>2
<1>14. ASSUME NEW n \in 0 .. Blocks, RailUp(n) PROVE InkInv'
  <2>1. UNCHANGED <<series, error, screen>> /\ railPick' = 0
    BY <1>14 DEF RailUp, StillRail, load_vars
  <2>2. CASE sweeping /\ scrub # 0
    <3>1. goTo(0)
      BY <1>14, <2>2 DEF RailUp
    <3>2. paint /\ drawAll
      BY <2>2, <3>1 DEF goTo
    <3>3. HeroIs' /\ TitleFits' /\ RailHonest'
      BY <3>2, HeroPainted, RailPainted
    <3>4. screen' = "console" => PlotsOfView'
      BY <1>1, <3>2, PlotsDrawn
    <3> QED
      BY <3>3, <3>4 DEF InkInv, PlotsCurrent, PlotsOfView, TitleFits
  <2>3. CASE ~ (sweeping /\ scrub # 0)
    <3>1. /\ rail' = Live /\ UNCHANGED <<scrub, plots, caption, title, hero>>
          /\ pinTs' = pinTs \/ scrub = 0
      BY <1>14, <2>3 DEF RailUp, look_vars
    <3>2. RailHonest'
      BY <1>1, <2>1, <3>1 DEF RailHonest, BackToLive, PickOutranks
    <3>3. (scrub' # 0 /\ scrub' = pinnedRow(series', pinTs')) = (scrub # 0 /\ scrub = pinnedRow(series, pinTs))
      BY <2>1, <3>1
    <3> QED
      BY <1>1, <2>1, <3>1, <3>2, <3>3 DEF InkInv, HeroIs, PlotsCurrent
  <2> QED
    BY <2>2, <2>3
<1>15. CASE RailCancel
  <2>1. /\ UNCHANGED <<series, error, screen, scrub, pinTs, plots, caption, title, hero>>
        /\ railPick' = 0 /\ rail' = Live
    BY <1>15 DEF RailCancel, StillRail, load_vars, look_vars
  <2>2. RailHonest'
    BY <1>1, <2>1 DEF RailHonest, BackToLive, PickOutranks
  <2> QED
    BY <1>3, <2>1, <2>2
<1>16. CASE \/ Device \/ refreshClimate \/ TouchStarts \/ TouchScrolls \/ RailAcross
            \/ (RailClick /\ swallowClick) \/ UNCHANGED vars
  BY <1>2, <1>16 DEF Device, Log, CardChanges, DeviceRestarts, Upset, refreshClimate, TouchStarts, TouchScrolls, RailAcross, RailClick,
    Quiet, StillRail, load_vars, look_vars, rail_vars, vars
<1>17. \A n \in 1 .. Blocks : n \in 0 .. Blocks
  BY HistoryAssumption
<1> QED
  BY <1>4, <1>5, <1>6, <1>7, <1>8, <1>9, <1>10, <1>11, <1>12, <1>13, <1>14, <1>15, <1>16, <1>17
    DEF Next, Loading, Looking, Rail

-----------------------------------------------------------------------------
(* The theorems.                                                            *)
THEOREM HistoryHolds == Spec => []HistoryInv
<1>1. HistoryInv /\ [Next]_vars => HistoryInv'
  BY DeviceHolds, LoadHolds, LookHolds, InkHolds DEF HistoryInv
<1> QED
  BY InitHolds, <1>1, PTL DEF Spec

(* The series shown is of the chosen range or its replacement is on its way,  *)
(* holds every row of the window and no other, and at most half of its steps   *)
(* count as outages, whatever the device logged and however answers overtake   *)
(* each other (app.ts loadHistory, series.ts tail, medianStep and timeline).  *)
THEOREM SeriesAlwaysHonest == Spec => []SeriesHonest
<1>1. HistoryInv => SeriesHonest
  BY WindowsAndGaps DEF HistoryInv, LoadInv, SeriesHonest
<1> QED
  BY <1>1, HistoryHolds, PTL

(* At rest the console is at its pin, held by its box, and the pinned row is   *)
(* a step and a half from the pinned moment at most (scrub.ts, pinnedRow).    *)
THEOREM PinAlwaysSafe == Spec => []PinSafe
<1>1. HistoryInv => PinSafe
  <2> SUFFICES ASSUME HistoryInv PROVE PinSafe
    OBVIOUS
  <2>1. LoadInv /\ LookInv
    BY DEF HistoryInv
  <2>2. ASSUME pinTs # 0, gesture = "none"
        PROVE  /\ scrub # 0 /\ series # None
               /\ 2 * (IF series[scrub] > pinTs THEN series[scrub] - pinTs ELSE pinTs - series[scrub])
                    <= 3 * medianStep(series)
    <3>1. scrub # 0 /\ series # None /\ pinTs \in Nat /\ scrub = restIndex
      BY <2>1, <2>2 DEF LookInv, RestsAtPin
    <3>2. series \in Seq(Nat) /\ Ordered(series) /\ scrub = pinnedRow(series, pinTs)
      BY <2>1, <3>1 DEF LoadInv, restIndex
    <3> QED
      BY <3>1, <3>2, PinnedIs
  <2>3. PinHoldsMoment
    BY <2>2 DEF PinHoldsMoment
  <2> QED
    BY <2>1, <2>3 DEF PinSafe, LookInv
<1> QED
  BY <1>1, HistoryHolds, PTL

(* On the console the plots, caption, title and hero are of the view as it is, *)
(* whatever load, gesture or screen came last (history_view.ts, past.ts).     *)
THEOREM PlotsAlwaysCurrent == Spec => []PlotsCurrent
<1>1. HistoryInv => PlotsCurrent
  BY DEF HistoryInv, InkInv
<1> QED
  BY <1>1, HistoryHolds, PTL

(* The rail shows the finger's pick while there is one, and nothing of the     *)
(* past once the console is back at now (rail.ts paintRail, scrub.ts goTo).   *)
THEOREM RailAlwaysHonest == Spec => []RailHonest
<1>1. HistoryInv => RailHonest
  BY DEF HistoryInv, InkInv
<1> QED
  BY <1>1, HistoryHolds, PTL
=============================================================================
