--------------------------------- MODULE Words ---------------------------------
(****************************************************************************)
(* What the console says of the fan (src/web/src: headline.ts, reason.ts,    *)
(* gauge.ts): the word, the gauge's tag and the sentence, each a function of *)
(* one frame of the state FanControl reports.  The sentence also takes the   *)
(* garage reading of the page.  Wording is left out: a sentence is named for *)
(* what it claims.                                                           *)
(****************************************************************************)
EXTENDS FanControl

(* headline.ts, in its order of priority; `out` is the frame's outdoor        *)
(* reading.                                                                  *)
GasInCharge == gas_latch.high /\ speed > 0 /\ speed <= cfg.gasspd

autoHeadline(out) ==
  IF GasInCharge THEN "GAS BOOST"
  ELSE IF limit # "none" THEN (IF limit = "floor" THEN "HELD" ELSE "WAITING")
  ELSE IF out = NaN THEN "HOLDING"
  ELSE IF speed > cfg.min THEN "VENTING" ELSE "RESTING"

fanHeadline(out) ==
  CASE output_fault -> "FAULT"
    [] ~output_fault /\ speed = RawSpeed -> "RAW DUTY"
    [] ~output_fault /\ speed = UnknownSpeed -> "UNKNOWN"
    [] ~output_fault /\ speed >= 0 /\ ~auto_on -> IF speed = 0 THEN "OFF" ELSE "MANUAL"
    [] ~output_fault /\ speed >= 0 /\ auto_on -> autoHeadline(out)

(* The tag a limit puts on the gauge.                                       *)
heldTag == IF auto_on THEN limit ELSE "none"

(* The sentence: no limit in charge, the gap against the band.              *)
gapReason(delta) ==
  CASE delta >= cfg.onf -> "holds the maximum"
    [] delta < cfg.onf /\ delta <= cfg.offf -> "dropped to rest"
    [] delta < cfg.onf /\ delta > cfg.offf -> "holds in the deadband"

(* `garage` is the page's reading, not the tick's.                          *)
liveReason(garage, out) ==
  IF heldTag = "floor" THEN "low limit"
  ELSE IF garage = NaN \/ out = NaN THEN "auto holds without a reading"
  ELSE IF ~auto_on THEN "set by hand"
  ELSE IF limit = "start" THEN "start point"
  ELSE gapReason(garage - out)

-----------------------------------------------------------------------------
(* Properties.                                                              *)

NoFarther(new, old, goal) == \/ goal <= new /\ new <= old
                             \/ old <= new /\ new <= goal
                             \/ new = old

(* What the console says of auto is what auto does: on the readings it was    *)
(* said of, and no boost standing, the next tick of a fan said to be held or *)
(* waiting goes nowhere but toward rest, of one said to hold moves nothing,  *)
(* and of one said to rest drives it up only where the thermostat engages;   *)
(* a sentence that says the maximum is held goes toward the maximum.  All    *)
(* through edits of the limits and the switches and through restarts.        *)
SaidIsDone ==
  [][/\ inside' = inside /\ outside' = outside /\ speed >= 0 /\ ~gas_latch'.high =>
          \/ ~Tick
          \/ /\ fanHeadline(outside) \in {"HELD", "WAITING"} => NoFarther(speed', speed, cfg.min)
             /\ fanHeadline(outside) = "HOLDING" /\ ~AtFloor' => speed' = speed
             /\ fanHeadline(outside) = "RESTING" /\ speed' > speed =>
                  speed' <= cfg.min \/ (auto_latch'.high /\ limit' = "none")
             /\ auto_on /\ liveReason(inside, outside) = "holds the maximum" /\ limit' = "none" =>
                  NoFarther(speed', speed, cfg.max)]_vars

(* The word and the sentence never disagree (headline.ts: "They must never     *)
(* disagree"): of a fan the word says auto is venting with, the sentence does  *)
(* not say that auto has dropped it to rest.                                 *)
WordsAgree ==
  speed >= 0 /\ auto_on /\ autoHeadline(outside) = "VENTING"
    => liveReason(inside, outside) # "dropped to rest"
=============================================================================
