--------------------------------- MODULE Plug ---------------------------------
(****************************************************************************)
(* The watt meter's watch over the fan (net/plug.cpp with                    *)
(* net/plug_cycle.h): every poll is fed to the cycling profile and judged    *)
(* against the speed's baseline draw, and what changes is published as one   *)
(* retained alert.  Time is counted in polls.                                *)
(****************************************************************************)
EXTENDS Integers, FiniteSets, FiniteSetsExt

CONSTANTS
  Baseline,   \* kBaselineW: the draw of each speed of the table
  Watts,      \* what the meter may read
  kMinExpect, \* min_expect_w: below it a stopped fan looks like a running one
  kConfirm,   \* confirm_polls
  kWindow,    \* window: polls the onset count looks back over
  kOnset,     \* onset_flips
  kQuiet,     \* quiet_polls
  kSettle,    \* kSettleMs, in polls
  kStale,     \* kStaleMs, in polls
  kLongGap    \* bound: polls missed in a row while the network is down

Table     == DOMAIN Baseline
Raw       == -1   \* fan::speed() at a raw duty: not in the table
Unseen    == -99  \* g_speed_seen before the first poll
NoReading == -1

ASSUME PlugAssumption ==
  /\ Baseline \in [Table -> Nat \ {0}] /\ Table \subseteq Nat /\ Watts \subseteq Nat
  /\ {kConfirm, kOnset, kStale, kLongGap} \subseteq Nat \ {0}
  /\ kWindow \in Nat /\ kQuiet \in Nat \ {0} /\ kWindow <= kQuiet
  /\ kSettle \in Nat /\ kStale < kSettle

VARIABLES
  speed,        \* fan::speed()
  g_speed_seen, \* speed of the latest poll
  since,        \* polls since g_speed_seen was first seen, up to kSettle
  g_watts,      \* the latest reading
  age,          \* polls since it was read, up to kStale + 1 (stale, or never)
  g_verdict,    \* 1 agree, -1 disagree, 0 cannot say
  g_bad_streak, \* out-of-band polls in a row, up to 2
  g_cycle,      \* the CycleDetector; flips: ages, in polls, of the flips kept
  link,         \* the broker: "down", "up", or "half": gone and not noticed
  retained,     \* environment: the alert the broker retains
  own           \* history: the latest reading was taken at g_speed_seen

plug_vars == <<g_speed_seen, since, g_watts, age, g_verdict, g_bad_streak, g_cycle, own>>
meter_vars == <<speed, plug_vars, link, retained>>

Speeds == Table \cup {Raw}
Alerts == {"cycling", "disagree", "ok", "unknown"}

NothingDecided == [flips |-> {}, last_class |-> 0, pending |-> 0, pending_n |-> 0,
                   cycling |-> FALSE]

PlugTypeOK ==
  /\ speed \in Speeds /\ g_speed_seen \in Speeds \cup {Unseen}
  /\ since \in 0 .. kSettle /\ age \in 0 .. kStale + 1
  /\ g_watts \in Watts \cup {NoReading}
  /\ g_verdict \in {-1, 0, 1} /\ g_bad_streak \in 0 .. 2
  /\ g_cycle \in [flips : SUBSET (0 .. kQuiet - 1), last_class : {-1, 0, 1},
                  pending : {-1, 0, 1}, pending_n : 0 .. kConfirm, cycling : BOOLEAN]
  /\ link \in {"down", "up", "half"} /\ retained \in Alerts \cup {"none"}
  /\ own \in BOOLEAN

Unpolled ==
  /\ g_speed_seen = Unseen /\ since = 0
  /\ g_watts = NoReading /\ age = kStale + 1 /\ own = FALSE
  /\ g_verdict = 0 /\ g_bad_streak = 0 /\ g_cycle = NothingDecided

PlugInit == speed \in Speeds /\ Unpolled /\ link = "down" /\ retained = "none"

-----------------------------------------------------------------------------
(* classify: definitely running, definitely stopped, or undecided.          *)
classify(w, s) ==
  LET separable == s \in Table /\ Baseline[s] >= kMinExpect /\ w # NoReading
  IN  CASE separable /\ 100 * w >= 65 * Baseline[s] -> 1
        [] separable /\ 100 * w <= 35 * Baseline[s] -> -1
        [] OTHER                                    -> 0

(* The verdict's band: within half the baseline, and never within less than *)
(* four watts of it.                                                        *)
InBand(w, s) == 2 * (IF w > Baseline[s] THEN w - Baseline[s] ELSE Baseline[s] - w)
                   <= Max({Baseline[s], 8})

Aged(flips) == {a + 1 : a \in flips \ {kQuiet - 1}}

FlipsIn(flips, span) == Cardinality({a \in flips : a < span})

Held(d, cls) == IF cls = d.pending THEN Min({d.pending_n + 1, kConfirm}) ELSE 1

(* A class counts once kConfirm deciding polls in a row have shown it; a     *)
(* change of the class that counts is a flip.                               *)
Profiled(d, cls) ==
  LET held    == IF cls = 0 THEN d.pending_n ELSE Held(d, cls)
      counts  == cls # 0 /\ held >= kConfirm
      flipped == counts /\ d.last_class \notin {0, cls}
      flips   == Aged(d.flips) \cup {a \in {0} : flipped}
  IN  [flips      |-> flips,
       last_class |-> IF counts THEN cls ELSE d.last_class,
       pending    |-> IF cls = 0 THEN d.pending ELSE cls,
       pending_n  |-> held,
       cycling    |-> (d.cycling \/ FlipsIn(flips, kWindow) >= kOnset) /\ flips # {}]

\* Wrong variant: only a poll that decides ages the register.
CyclePoll_decided_only(d, s, w, settled) ==
  IF settled /\ classify(w, s) # 0 THEN Profiled(d, classify(w, s)) ELSE d

(* CycleDetector::poll at an unchanged speed.                               *)
CyclePoll(d, s, w, settled) == Profiled(d, IF settled THEN classify(w, s) ELSE 0)

-----------------------------------------------------------------------------
\* Wrong variant: the verdict outranks the cycling.
alert_verdict_first(s, verdict, cycling) ==
  CASE verdict = 1                              -> "ok"
    [] verdict # 1 /\ cycling                   -> "cycling"
    [] verdict = -1 /\ ~cycling /\ s \in Table -> "disagree"
    [] OTHER                                    -> "unknown"

(* alert_json: the cycling outranks the verdict.                            *)
alert(s, verdict, cycling) ==
  CASE cycling                                  -> "cycling"
    [] ~cycling /\ verdict = -1 /\ s \in Table -> "disagree"
    [] ~cycling /\ verdict = 1                  -> "ok"
    [] OTHER                                    -> "unknown"

(* publish_alert: nothing while the client is not connected, and nothing    *)
(* arrives over a connection that is gone.                                  *)
Publish(a) == retained' = IF link = "up" THEN a ELSE retained

(* The verdict's own edges are published; not between agree and disagree    *)
(* while the profile says cycling.                                          *)
Speaks(was, now, cycling) ==
  \/ ~cycling /\ now = -1 /\ was # -1
  \/ ~cycling /\ now = 1 /\ was = -1
  \/ now = 0 /\ was = -1

Settling(gap) == IF speed = g_speed_seen THEN Min({since + gap, kSettle}) ELSE 0

(* tick, when its turn has come: fetch a reading and judge it.              *)
Judge(w, watts, fresh, settled) ==
  LET same    == speed = g_speed_seen
      cycle   == IF same THEN CyclePoll(g_cycle, speed, IF fresh THEN watts ELSE NoReading, settled)
                 ELSE NothingDecided
      decides == fresh /\ settled /\ speed \in Table
      kept    == IF same THEN g_bad_streak ELSE 0
      agrees  == decides /\ InBand(watts, speed)
      streak  == CASE ~decides -> kept
                   [] agrees   -> 0
                   [] OTHER    -> Min({kept + 1, 2})
      verdict == CASE ~decides                             -> 0
                   [] agrees                               -> 1
                   [] decides /\ ~agrees /\ streak >= 2 -> -1
                   [] OTHER                                -> g_verdict
  IN  /\ g_cycle' = cycle /\ g_bad_streak' = streak /\ g_verdict' = verdict
      /\ IF Speaks(g_verdict, verdict, cycle.cycling)
         THEN Publish(alert(speed, verdict, cycle.cycling))
         ELSE IF g_cycle.cycling # cycle.cycling
              THEN Publish(alert(speed, g_verdict, cycle.cycling))
              ELSE UNCHANGED retained

tick(gap, w) ==
  /\ g_watts' = IF w = NoReading THEN g_watts ELSE w
  /\ age' = IF w = NoReading THEN Min({age + gap, kStale + 1}) ELSE 0
  /\ g_speed_seen' = speed
  /\ since' = Settling(gap)
  /\ own' = (speed = g_speed_seen /\ (own \/ w # NoReading))
  /\ Judge(w, g_watts', age' <= kStale, since' >= kSettle)
  /\ UNCHANGED <<speed, link>>

Tick == \E gap \in {1, kLongGap}, w \in Watts \cup {NoReading} : tick(gap, w)

SpeedChanges == \E s \in Speeds \ {speed} : speed' = s /\ UNCHANGED <<plug_vars, link, retained>>

(* Every connection to the broker repeats the current alert.                *)
Connect == /\ link = "down" /\ link' = "up"
           /\ retained' = alert(speed, g_verdict, g_cycle.cycling)
           /\ UNCHANGED <<speed, plug_vars>>

LinkDies    == link = "up" /\ link' = "half" /\ UNCHANGED <<speed, plug_vars, retained>>
LinkNoticed == link # "down" /\ link' = "down" /\ UNCHANGED <<speed, plug_vars, retained>>

Restarts ==
  /\ g_speed_seen' = Unseen /\ since' = 0
  /\ g_watts' = NoReading /\ age' = kStale + 1 /\ own' = FALSE
  /\ g_verdict' = 0 /\ g_bad_streak' = 0 /\ g_cycle' = NothingDecided
  /\ link' = "down"
  /\ UNCHANGED <<speed, retained>>

PlugNext == Tick \/ SpeedChanges \/ Connect \/ LinkDies \/ LinkNoticed \/ Restarts
PlugSpec == PlugInit /\ [][PlugNext]_meter_vars

(* The loop polls for as long as there is a network.                        *)
PlugFairSpec == PlugSpec /\ WF_meter_vars(Tick)

-----------------------------------------------------------------------------
(* Properties.                                                              *)

(* A retained alarm never outlives its condition over a working connection: *)
(* whichever of restarts, reconnections, changes of speed, a silent meter    *)
(* and the end of an episode took the condition away.                       *)
AlarmNotOutlived ==
  link = "up" => /\ retained = "cycling" => g_cycle.cycling
                 /\ retained = "disagree" => g_verdict = -1

(* An alarm is never masked over a working connection: not by the verdict    *)
(* while the fan cycles, and not by an "ok" while the meter disagrees.       *)
AlarmNotMasked ==
  link = "up" => /\ g_cycle.cycling => retained = "cycling"
                 /\ g_verdict = -1 => retained # "ok"

(* A verdict always rests on a reading taken at the speed it is about, also  *)
(* when the meter then went silent and the old reading is judged again.      *)
VerdictOnOwnReading == g_verdict # 0 => own

(* An episode ends once the fan stops flipping, even if the meter stops      *)
(* answering.                                                               *)
EpisodeEnds == <>[](0 \notin g_cycle.flips) => <>[]~g_cycle.cycling

(* The retained "ok" never outlives the agreement it reports.               *)
(* The code does not keep to it and no run checks it; README.md says how.   *)
OkNotOutlived == link = "up" /\ retained = "ok" => g_verdict = 1

(* The meter's safety: over a working connection no alarm outlives what it     *)
(* tells of, cycling is told while it lasts and a disagreement never passes    *)
(* for an "ok"; and a verdict rests on a reading of its own speed.            *)
PlugSafe == PlugTypeOK /\ AlarmNotOutlived /\ AlarmNotMasked /\ VerdictOnOwnReading
=============================================================================
