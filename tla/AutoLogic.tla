------------------------------ MODULE AutoLogic ------------------------------
(****************************************************************************)
(* The decisions of fan/auto_logic.h as operators: the thermostat latch with *)
(* its dwell, the two absolute limits, the gas boost and the one-step ramp.  *)
(* Temperatures are integers in half degrees Fahrenheit; a missing or stale  *)
(* reading is NaN, as is a limit that is switched off (kLimitOff).  A latch  *)
(* and the ticks it has been engaged are one record, because every operation *)
(* that changes one changes the other.                                       *)
(****************************************************************************)
EXTENDS Integers

CONSTANTS
  NaN,        \* no reading / no limit
  kTicksMax   \* where the dwell counter saturates (UINT16_MAX)

ASSUME NaNAssumption   == NaN \notin Int
ASSUME TicksAssumption == kTicksMax \in Nat \ {0}

Latch    == [high : BOOLEAN, ticks : 0 .. kTicksMax]
Released == [high |-> FALSE, ticks |-> 0]

kFloorResume   == 3     \* 1.5 F above the low limit before auto may engage again
kGasReleaseGap == 100

\* Wrong variant: the release edge does not wait for the dwell.
latch_min_run_no_dwell(was, want, min_ticks) ==
  [high  |-> want,
   ticks |-> IF ~want THEN 0 ELSE IF ~was.high THEN 1 ELSE was.ticks]

(* The latch to honour: `want`, unless that is a release before min_ticks.  *)
latch_min_run(was, want, min_ticks) ==
  LET keep == want \/ (was.high /\ was.ticks < min_ticks)
  IN  [high  |-> keep,
       ticks |-> IF ~keep THEN 0
                 ELSE IF ~was.high THEN 1
                 ELSE IF was.ticks < kTicksMax THEN was.ticks + 1 ELSE was.ticks]

-----------------------------------------------------------------------------
(* The thermostat.  A configuration has the fields min, max (speeds), on,   *)
(* off (engage / release differential), floor and start (limits or NaN).    *)
fan_at_floor(inside, cfg) == cfg.floor # NaN /\ inside <= cfg.floor

fan_engage_blocked(inside, cfg) ==
  LET below_resume  == cfg.floor # NaN /\ inside < cfg.floor + kFloorResume
      below_start   == cfg.start # NaN /\ inside < cfg.start
      start_is_bar  == /\ cfg.start # NaN
                       /\ cfg.floor = NaN \/ cfg.start >= cfg.floor + kFloorResume
  IN  IF ~below_resume /\ ~below_start THEN "none"
      ELSE IF start_is_bar THEN "start" ELSE "floor"

(* What the differential asks of the latch; between the thresholds, and     *)
(* when a limit forbids engaging, that is to stay as it is.                 *)
WantsHigh(inside, outside, high, cfg) ==
  LET delta == inside - outside
  IN  \/ delta >= cfg.on /\ fan_engage_blocked(inside, cfg) = "none"
      \/ high /\ (delta >= cfg.on \/ delta > cfg.off)

(* Without the readings a decision needs, nothing moves: not the speed, not *)
(* the latch, not the dwell.  The low limit needs the inside reading only.  *)
Blind(inside, outside, cfg) ==
  inside = NaN \/ (outside = NaN /\ ~fan_at_floor(inside, cfg))

\* Wrong variant: the ramp stops one step short of a higher target.
StepToward_stops_short(prev, target) ==
  IF target = prev \/ target = prev + 1 THEN prev
  ELSE IF target > prev THEN prev + 1 ELSE prev - 1

StepToward(prev, target) ==
  IF target = prev THEN prev ELSE IF target > prev THEN prev + 1 ELSE prev - 1

\* Wrong variant: the low limit goes through the dwell like any release.
fan_auto_latch_dwelled_floor(inside, outside, was, cfg, min_ticks) ==
  IF Blind(inside, outside, cfg) THEN was
  ELSE latch_min_run(was, ~fan_at_floor(inside, cfg)
                          /\ WantsHigh(inside, outside, was.high, cfg), min_ticks)

(* fan_auto_decide, the latch it leaves ...                                 *)
fan_auto_latch(inside, outside, was, cfg, min_ticks) ==
  IF Blind(inside, outside, cfg) THEN was
  ELSE IF fan_at_floor(inside, cfg) THEN Released
  ELSE latch_min_run(was, WantsHigh(inside, outside, was.high, cfg), min_ticks)

\* Wrong variant: the commanded speed jumps to the target.
fan_auto_speed_jump(inside, outside, prev, latch, cfg) ==
  IF Blind(inside, outside, cfg) THEN prev
  ELSE IF latch.high THEN cfg.max ELSE cfg.min

(* ... and the speed it commands, one step at most from the previous one.   *)
fan_auto_speed(inside, outside, prev, latch, cfg) ==
  IF Blind(inside, outside, cfg) THEN prev
  ELSE StepToward(prev, IF latch.high THEN cfg.max ELSE cfg.min)

(* Which limit holds the fan below what the differential alone would do.    *)
fan_auto_limit(inside, outside, high, cfg) ==
  IF inside = NaN THEN "none"
  ELSE IF fan_at_floor(inside, cfg) THEN "floor"
  ELSE IF high \/ outside = NaN THEN "none"
  ELSE IF inside - outside < cfg.on THEN "none"
  ELSE fan_engage_blocked(inside, cfg)

-----------------------------------------------------------------------------
(* The gas boost: fields enabled, boost_speed, on_index, off_index.         *)

fan_gas_latch(voc, was, cfg, min_ticks) ==
  IF ~cfg.enabled \/ voc <= 0 THEN Released
  ELSE latch_min_run(was, \/ voc >= cfg.on_index
                          \/ was.high /\ voc > cfg.off_index, min_ticks)

fan_gas_floor(latch, cfg) == IF latch.high THEN cfg.boost_speed ELSE 0

\* Wrong variant: the boost is not held against the thermostat's descent.
fan_apply_gas_floor_climb_only(next, prev, floor) ==
  IF floor <= 0 \/ next >= floor \/ prev >= floor THEN next ELSE prev + 1

(* Below the boost speed climb one step; at it, the thermostat may not pull *)
(* below it.                                                                *)
fan_apply_gas_floor(next, prev, floor) ==
  IF floor <= 0 \/ next >= floor THEN next
  ELSE IF prev < floor THEN prev + 1 ELSE floor
=============================================================================
