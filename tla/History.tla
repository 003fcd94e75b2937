-------------------------------- MODULE History --------------------------------
(****************************************************************************)
(* The console's recorded past (src/web/src: app.ts, scrub.ts, past.ts,      *)
(* history_view.ts, rail.ts, console.ts paintHero): the loads of the chosen  *)
(* range, the crosshair and the pin that pick a moment off the charts, and   *)
(* the speed rail, on which a finger outranks both the present and the past. *)
(* The page has heard its device.  A row is its index; 0 is now.             *)
(****************************************************************************)
EXTENDS Series

CONSTANTS
  None,
  Ranges,          \* the range buttons
  Query, Window,   \* the days a range asks for; the hours it keeps of them, 0 for all
  Span,            \* what a query's answer covers
  RingLen, MaxPts, \* kRingLen, kGraphMaxPts
  Devices,         \* what the device may hold when the page opens: [log, ring, card]
  Blocks,          \* the rail's blocks, 1..Blocks
  MaxNow, MaxLoads, MaxUpsets \* bounds

ASSUME HistoryAssumption ==
  /\ None \notin Seq(Nat)
  /\ Blocks \in Nat \ {0} /\ MaxNow \in Nat \ {0} /\ MaxLoads \in Nat /\ MaxUpsets \in Nat
  /\ RingLen \in Nat \ {0} /\ MaxPts \in Nat \ {0}
  /\ \A r \in Ranges : Window[r] \in Nat /\ Span[Query[r]] \in Nat
  /\ \A d \in Devices :
       /\ d.log \in Seq(Nat) /\ Ordered(d.log) /\ \A i \in DOMAIN d.log : d.log[i] < MaxNow
       /\ d.ring \in [rows : 0..(MaxNow - 1), end : 0..(MaxNow - 1)]
       /\ d.ring.end # 0 => d.ring.rows <= d.ring.end
       /\ d.card \in BOOLEAN

VARIABLES
  now,          \* the time
  log,          \* the stamps of the rows on the device's card
  ring,         \* its rows in RAM: how many, and the stamp of the newest, 0 without a clock
  card,         \* have_card: a mounted card and a clock
  upsets,       \* bound: times the card or the device went
  days,         \* view.days: the range chosen
  loads,        \* requests in flight: [seq, days]
  historySeq,
  series,       \* view.series: the rows, or None
  drawnFor,     \* history: the range series was loaded for
  error,        \* view.historyError
  scrub, pinTs, \* view.scrub, view.pinTs
  frozen,       \* the sentence's box is held (freezeReason)
  gesture,      \* over the plots: "none", "mouse", or a touch "undecided", "scrub", "scroll"
  screen,       \* view.screen
  plots, caption, title, hero, rail,   \* what was last painted
  railPick,     \* view.railPick
  drag, sweeping, swallowClick,   \* rail.ts
  pressed, click    \* external: the block under the press; the click on its way, a
                    \* "tap"'s or a "sweep"'s

dev_vars  == <<now, log, ring, card, upsets>>
load_vars == <<days, loads, historySeq, series, drawnFor, error>>
look_vars == <<scrub, pinTs, frozen>>
ink_vars  == <<plots, caption, title, hero, rail>>
rail_vars == <<railPick, drag, sweeping, swallowClick, pressed, click>>
vars == <<dev_vars, load_vars, look_vars, gesture, screen, ink_vars, rail_vars>>

Now   == <<"now">>
Live  == <<"live">>
Blank == <<"blank">>

-----------------------------------------------------------------------------
(* The painters, each a function of the view as the step leaves it.          *)
Length(r) == IF Window[r] = 0 THEN Span[Query[r]] ELSE Window[r]

Moment(i) == <<"row", i, IF i \in DOMAIN series' THEN series'[i] ELSE 0>>

restIndex == IF series = None THEN 0 ELSE pinnedRow(series, pinTs)

Scrubbing == scrub' # 0 /\ series' # None /\ series' # << >>

(* A finger on the rail outranks what is painted on it.                      *)
paintRail(speed) == IF railPick' # 0 THEN <<"pick", railPick'>> ELSE speed

paintChartTitle ==
  title' = IF Scrubbing /\ Moment(scrub')[3] > 0 THEN Moment(scrub') ELSE <<"range", days'>>

(* paintHero, and paintPast at its end: the past writes the rail, leaving it *)
(* only drops the classes.                                                   *)
paintHeroOver(painted) ==
  /\ hero' = IF Scrubbing THEN Moment(scrub') ELSE Now
  /\ rail' = IF Scrubbing THEN paintRail(Moment(scrub')) ELSE painted
  /\ paintChartTitle

paintHero == paintHeroOver(rail)
paint     == paintHeroOver(paintRail(Live))

(* What explains the picture: a failure, no rows, rows over less than two     *)
(* thirds of the range; else the standing hint.                              *)
paintCaption ==
  caption' = CASE error' -> "failed"
               [] ~error' /\ (series' = None \/ series' = << >>) -> "no rows"
               [] ~error' /\ series' \notin {None, << >>} ->
                    IF /\ Synced(series', 1) /\ Synced(series', Len(series'))
                       /\ 3 * (Last(series') - Head(series')) < 2 * Length(days')
                    THEN "short" ELSE "hint"

(* drawAll: on the console only; no series and an error clears the plots.    *)
drawAll ==
  /\ IF screen' = "console" THEN paintCaption ELSE caption' = caption
  /\ plots' = IF screen' # "console" THEN plots
              ELSE IF series' # None
              THEN <<series', scrub', scrub' # 0 /\ scrub' = pinnedRow(series', pinTs')>>
              ELSE IF error' THEN Blank ELSE plots

-----------------------------------------------------------------------------
(* The crosshair.                                                           *)
goTo_hero_only(next) ==
  /\ scrub' = next /\ frozen' = (next # 0)
  /\ drawAll /\ paintHero

goTo(next) ==
  /\ scrub' = next /\ frozen' = (next # 0)
  /\ drawAll
  /\ IF next = 0 /\ scrub # 0 THEN paint ELSE paintHero

Unmoved == UNCHANGED <<scrub, ink_vars>>

scrubAt(i) ==
  LET target == IF i = 0 THEN restIndex ELSE i
  IN  IF target = scrub THEN Unmoved /\ UNCHANGED frozen ELSE goTo(target)

endScrub_to(rest) ==
  IF scrub = rest THEN Unmoved /\ frozen' = (rest # 0) ELSE goTo(rest)

endScrub == endScrub_to(restIndex)

backToNow == pinTs' = 0 /\ endScrub_to(0)

(* settleScrub, after the series has been rebuilt: the pin finds its moment   *)
(* again or lets go of it; a preview stays where its index was.              *)
settleScrub_by_index ==
  /\ IF pinTs # 0 /\ series' = None THEN pinTs' = 0 /\ scrub' = 0 /\ frozen' = FALSE
                                    ELSE UNCHANGED look_vars
  /\ IF pinTs # 0 /\ scrub # 0 /\ scrub' = 0 THEN paint ELSE paintHero

settleScrub ==
  LET k == IF series' = None THEN 0 ELSE pinnedRow(series', pinTs)
  IN  /\ CASE pinTs = 0 -> UNCHANGED look_vars
           [] pinTs # 0 /\ k # 0 -> scrub' = k /\ UNCHANGED <<pinTs, frozen>>
           [] pinTs # 0 /\ k = 0 ->
                /\ pinTs' = 0 /\ scrub' = 0
                /\ frozen' = IF scrub # 0 THEN FALSE ELSE frozen
      /\ IF pinTs # 0 /\ k = 0 /\ scrub # 0 THEN paint ELSE paintHero

-----------------------------------------------------------------------------
(* The device samples, or could not read its sensor; a row goes to the RAM,    *)
(* and to the card with a stamp.  The clock, once set, stays set.            *)
Log ==
  /\ now < MaxNow /\ now' = now + 1 /\ UNCHANGED <<card, upsets>>
  /\ UNCHANGED <<load_vars, look_vars, gesture, screen, ink_vars, rail_vars>>
  /\ \/ UNCHANGED <<log, ring>>
     \/ \E synced \in BOOLEAN :
          /\ card \/ ring.end # 0 => synced
          /\ ring' = [rows |-> Min({ring.rows + 1, RingLen}),
                      end  |-> IF synced THEN now' ELSE ring.end]
          /\ log' = IF card THEN Append(log, now') ELSE log

(* The card is lost, or there again; a restart loses the RAM, card and clock. *)
Upset == /\ upsets < MaxUpsets /\ upsets' = upsets + 1
         /\ UNCHANGED <<now, log, load_vars, look_vars, gesture, screen, ink_vars, rail_vars>>

CardChanges == Upset /\ card' = ~card /\ ring' = ring

DeviceRestarts == Upset /\ card' = FALSE /\ ring' = [rows |-> 0, end |-> 0]

(* The answer to a query: of the card's rows it covers every stride-th; for    *)
(* one day also the RAM's, stamped backwards from the newest; else an error.   *)
read_range(q) ==
  LET covered == {i \in DOMAIN log : now - log[i] <= Span[q]}
      rows    == Cardinality(covered)
      stride  == IF rows > MaxPts THEN rows \div MaxPts + 1 ELSE 1
      kept    == {i \in covered : rank(covered, i) % stride = 0}
  IN  [k \in 1..Cardinality(kept) |-> log[nth(kept, k)]]

write_ts_derived ==
  [i \in 1..ring.rows |-> IF ring.end = 0 THEN 0 ELSE ring.end - (ring.rows - i)]

Served(q) == card \/ q = 1

Response(q) == IF card THEN read_range(q) ELSE write_ts_derived

Shown(r) == IF Window[r] = 0 THEN Response(Query[r]) ELSE tail(Response(Query[r]), Window[r])

(* loadHistory: a request of its own number, for the range of the moment.     *)
Request == /\ historySeq < MaxLoads /\ historySeq' = historySeq + 1
           /\ loads' = loads \cup {[seq |-> historySeq', days |-> days']}

\* Wrong variant: a superseded answer is drawn.
Superseded_never(l) == FALSE

Superseded(l) == l.seq # historySeq

(* The answer: nothing if superseded; else the rows, settled and painted.     *)
Loaded(l) ==
  /\ Served(Query[l.days])
  /\ loads' = loads \ {l}
  /\ UNCHANGED <<dev_vars, days, historySeq, gesture, screen, rail_vars>>
  /\ IF Superseded(l) THEN UNCHANGED <<series, drawnFor, error, look_vars, ink_vars>>
     ELSE /\ series' = Shown(l.days) /\ drawnFor' = l.days /\ error' = FALSE
          /\ settleScrub /\ drawAll

Failed(l) ==
  /\ loads' = loads \ {l}
  /\ UNCHANGED <<dev_vars, days, historySeq, gesture, screen, rail_vars>>
  /\ IF Superseded(l) THEN UNCHANGED <<series, drawnFor, error, look_vars, ink_vars>>
     ELSE /\ series' = None /\ drawnFor' = drawnFor /\ error' = TRUE
          /\ settleScrub /\ drawAll

refreshClimate ==
  /\ days' = days /\ Request
  /\ UNCHANGED <<dev_vars, series, drawnFor, error, look_vars, gesture, screen, ink_vars, rail_vars>>

setRange(r) ==
  /\ gesture = "none" /\ screen = "console"
  /\ days' = r /\ Request
  /\ UNCHANGED <<dev_vars, series, drawnFor, error, pinTs, gesture, screen, rail_vars>>
  /\ LET rest == restIndex
     IN  IF scrub = rest THEN /\ scrub' = scrub /\ frozen' = (rest # 0)
                              /\ paintChartTitle /\ paintCaption /\ UNCHANGED <<plots, hero, rail>>
                         ELSE goTo(rest)

-----------------------------------------------------------------------------
(* Gestures over the plots: a mouse, and a touch whose axis is decided once.  *)
Quiet == UNCHANGED <<dev_vars, load_vars, screen, rail_vars>>
Rows  == IF series = None THEN {0} ELSE {0} \cup DOMAIN series
OverPlots == screen = "console" /\ pressed = 0

Hover(i) ==
  /\ OverPlots /\ gesture \in {"none", "mouse"} /\ gesture' = "mouse"
  /\ pinTs' = pinTs /\ Quiet /\ scrubAt(i)

MouseLeaves ==
  /\ gesture = "mouse" /\ gesture' = "none"
  /\ pinTs' = pinTs /\ Quiet /\ endScrub

TouchStarts ==
  /\ OverPlots /\ gesture = "none" /\ gesture' = "undecided"
  /\ Quiet /\ UNCHANGED <<look_vars, ink_vars>>

TouchScrolls ==
  /\ gesture = "undecided" /\ gesture' = "scroll"
  /\ Quiet /\ UNCHANGED <<look_vars, ink_vars>>

TouchScrubs(i) ==
  /\ gesture \in {"undecided", "scrub"} /\ gesture' = "scrub"
  /\ pinTs' = pinTs /\ Quiet /\ scrubAt(i)

TouchEnds ==
  /\ gesture \in {"undecided", "scrub", "scroll"} /\ gesture' = "none"
  /\ pinTs' = pinTs /\ Quiet /\ endScrub

(* pinAt: a click of the mouse or an unmoved tap, on a row that has a stamp.  *)
pinAt_unless_shown(i) == IF scrub = i THEN Unmoved /\ UNCHANGED frozen ELSE goTo(i)

pinAt(i) == goTo(i)

ClickPlot(i) ==
  /\ OverPlots /\ gesture \in {"none", "mouse"}
  /\ i # 0 /\ series[i] > 0
  /\ pinTs' = series[i] /\ Quiet /\ gesture' = gesture /\ pinAt(i)

Back ==
  /\ screen = "console" /\ (pinTs # 0 \/ scrub # 0)
  /\ Quiet /\ gesture' = gesture /\ backToNow

(* A frame of the device's state is painted.                                *)
Frame ==
  /\ Quiet /\ UNCHANGED <<look_vars, gesture, plots, caption>>
  /\ paint

setScreen ==
  /\ gesture = "none" /\ pressed = 0
  /\ screen' = IF screen = "console" THEN "settings" ELSE "console"
  /\ UNCHANGED <<dev_vars, load_vars, look_vars, gesture, hero, rail, rail_vars>>
  /\ drawAll
  /\ IF screen' = "console" THEN paintChartTitle ELSE title' = title

-----------------------------------------------------------------------------
(* The rail.  Any command, from here, a button or a stepper of the settings,   *)
(* by mouse, touch or key, goes back to now first; its answer is a Frame.     *)
StillRail == UNCHANGED <<dev_vars, load_vars, gesture, screen>>

Command ==
  /\ StillRail /\ UNCHANGED rail_vars /\ backToNow

preview(speed) ==
  /\ railPick' = speed
  /\ rail' = IF railPick = speed THEN rail ELSE paintRail(Live)

RailDown(n) ==
  /\ screen = "console" /\ gesture = "none" /\ pressed = 0 /\ click = None
  /\ drag' = TRUE /\ sweeping' = FALSE /\ pressed' = n /\ preview(n)
  /\ StillRail /\ UNCHANGED <<look_vars, plots, caption, title, hero, swallowClick, click>>

(* Past the slop: across the rail gives the press up; along it is a sweep,    *)
(* whose pick follows the block under it, if it is over one.                 *)
RailAcross ==
  /\ pressed # 0 /\ drag /\ ~sweeping
  /\ drag' = FALSE
  /\ StillRail /\ UNCHANGED <<look_vars, ink_vars, railPick, sweeping, swallowClick, pressed, click>>

RailAlong(n) ==
  /\ pressed # 0 /\ drag
  /\ sweeping' = TRUE
  /\ IF n = 0 THEN UNCHANGED <<railPick, rail>> ELSE preview(n)
  /\ StillRail
  /\ UNCHANGED <<look_vars, plots, caption, title, hero, drag, swallowClick, pressed, click>>

(* Lifted over block n, or over none.  The browser clicks a block if it was   *)
(* pressed and lifted over that one.                                         *)
RailUp(n) ==
  /\ pressed # 0
  /\ sweeping => n \in {0, railPick}
  /\ click' = IF n # pressed THEN None ELSE IF sweeping THEN "sweep" ELSE "tap"
  /\ drag' = FALSE /\ sweeping' = FALSE /\ railPick' = 0 /\ pressed' = 0
  /\ StillRail
  /\ IF sweeping
     THEN /\ swallowClick' = TRUE /\ pinTs' = 0
          /\ IF scrub # 0 THEN goTo(0)
             ELSE rail' = Live /\ frozen' = FALSE /\ UNCHANGED <<scrub, plots, caption, title, hero>>
     ELSE UNCHANGED <<look_vars, plots, caption, title, hero, swallowClick>> /\ rail' = Live

RailCancel ==
  /\ pressed # 0 /\ pressed' = 0
  /\ drag' = FALSE /\ sweeping' = FALSE /\ railPick' = 0 /\ rail' = Live
  /\ StillRail /\ UNCHANGED <<look_vars, plots, caption, title, hero, swallowClick, click>>

RailClick ==
  /\ click # None /\ click' = None
  /\ StillRail /\ UNCHANGED <<railPick, drag, sweeping, pressed>>
  /\ swallowClick' = FALSE
  /\ IF swallowClick THEN UNCHANGED <<look_vars, ink_vars>> ELSE backToNow

-----------------------------------------------------------------------------
Init ==
  /\ now = MaxNow - 1 /\ upsets = 0
  /\ \E d \in Devices : log = d.log /\ ring = d.ring /\ card = d.card
  /\ days \in Ranges /\ loads = {[seq |-> 1, days |-> days]} /\ historySeq = 1
  /\ series = None /\ drawnFor = None /\ error = FALSE
  /\ scrub = 0 /\ pinTs = 0 /\ frozen = FALSE /\ gesture = "none" /\ screen = "console"
  /\ plots = Blank /\ caption = "no rows" /\ title = <<"range", days>> /\ hero = Now /\ rail = Live
  /\ railPick = 0 /\ drag = FALSE /\ sweeping = FALSE /\ swallowClick = FALSE
  /\ pressed = 0 /\ click = None

Loading  == refreshClimate \/ (\E r \in Ranges : setRange(r)) \/ \E l \in loads : Loaded(l) \/ Failed(l)
Looking  == \/ MouseLeaves \/ TouchStarts \/ TouchScrolls \/ TouchEnds \/ Back
            \/ \E i \in Rows : Hover(i) \/ TouchScrubs(i) \/ ClickPlot(i)
Rail     == \/ RailAcross \/ RailCancel \/ RailClick
            \/ \E n \in 1..Blocks : RailDown(n)
            \/ \E n \in 0..Blocks : RailAlong(n) \/ RailUp(n)

Device == Log \/ CardChanges \/ DeviceRestarts

Next == Device \/ Loading \/ Looking \/ Rail \/ Command \/ Frame \/ setScreen

Spec == Init /\ [][Next]_vars

-----------------------------------------------------------------------------
(* Properties.                                                              *)

(* A picture of another range than the one chosen stands only while the       *)
(* newest request, one for the chosen range, is still out.                   *)
SeriesOfRange ==
  series # None /\ drawnFor # days => [seq |-> historySeq, days |-> days] \in loads

(* Nobody reading the charts, the console rests at the pin or at now, and the *)
(* sentence's box is held exactly while a moment is looked at.               *)
RestsAtPin ==
  /\ gesture \in {"none", "undecided", "scroll"} => scrub = restIndex
  /\ frozen <=> scrub # 0

(* The pin holds its moment: through every refresh and change of range the    *)
(* row shown at rest is the nearest there is, not a step and a half away.     *)
PinHoldsMoment ==
  pinTs # 0 /\ gesture = "none" =>
    /\ scrub # 0 /\ series # None
    /\ 2 * (IF series[scrub] > pinTs THEN series[scrub] - pinTs ELSE pinTs - series[scrub])
         <= 3 * medianStep(series)

(* On the console the plots show the rows, crosshair and hold of the view,    *)
(* blank for a range that failed, and title and hero name the same moment.   *)
PlotsCurrent ==
  screen = "console" =>
    /\ series # None =>
         plots = <<series, scrub, scrub # 0 /\ scrub = pinnedRow(series, pinTs)>>
    /\ error => plots = Blank
    /\ caption = "failed" <=> error
    /\ title[1] = "row" => hero = title

(* Back at now, nothing of the past is left on the hero or the rail.         *)
BackToLive == scrub = 0 => hero = Now /\ rail \in {Live, <<"pick", railPick>>}

(* While a finger is on the rail it shows the finger's pick, whatever frame,  *)
(* refresh or pinned moment is painted meanwhile.                            *)
PickOutranks == railPick # 0 => rail = <<"pick", railPick>>

(* A window keeps every stamped row of the answer that is within it, and none *)
(* that is not.                                                              *)
TailIsWindow ==
  \A r \in Ranges :
    LET rows == Response(Query[r]) IN
    Window[r] # 0 /\ rows # << >> /\ Last(rows) > 0 =>
      {t \in ToSet(Shown(r)) : t > 0} = {t \in ToSet(rows) : t > 0 /\ Last(rows) - t <= Window[r]}

(* However thinned the answer, at most half of its steps are outages.        *)
GapsAreFew ==
  \A r \in Ranges : LET rows == Shown(r) IN 2 * Cardinality(gap(rows)) < Max({1, Len(rows)})

(* Hero, rail and strip describe one moment (past.ts: "Half the hero was the  *)
(* past and half was now").                                                 *)
(* The code does not keep to it and no run checks it; README.md says how.   *)
PastIsWhole == railPick = 0 => IF hero = Now THEN rail = Live ELSE rail = hero

(* A tap on a block sets that speed: what is swallowed is only the click a    *)
(* drag also produces (rail.ts).                                            *)
(* The code does not keep to it and no run checks it; README.md says how.   *)
TapsCount == click = "tap" => ~swallowClick

(* The series shown is of the chosen range, the whole window of it, and not    *)
(* riddled with outages that are none.                                       *)
SeriesHonest == SeriesOfRange /\ TailIsWindow /\ GapsAreFew

(* At rest the console is at its pin, and the pin is on its moment.          *)
PinSafe == RestsAtPin /\ PinHoldsMoment

(* The rail belongs to whoever has it: the finger, the past, or now.         *)
RailHonest == BackToLive /\ PickOutranks
=============================================================================
