-------------------------------- MODULE FanLive --------------------------------
(****************************************************************************)
(* FanControl under the clock of loop().  A tick that finds the readings it  *)
(* found before may change nothing, and fairness cannot ask for a step that  *)
(* changes nothing: `beat` turns with every tick, so that the ticks go on    *)
(* for ever whatever the sensors read, without the readings having to move.  *)
(****************************************************************************)
EXTENDS FanControl

VARIABLE beat   \* history: turned by every tick

live_vars == <<vars, beat>>

Beats == Tick /\ beat' = ~beat

FanLiveNext == Beats \/ (FanEvents /\ UNCHANGED beat)

(* The loop calls tick_auto every 30 s for as long as the device runs;      *)
(* nobody and nothing else owes a step.                                     *)
FanFairSpec == /\ FanInit /\ beat = FALSE
               /\ [][FanLiveNext]_live_vars
               /\ WF_live_vars(Beats)

-----------------------------------------------------------------------------
(* Properties.                                                              *)

(* Auto stays on, the driver takes commands, nobody drives a raw duty and   *)
(* the broker replays nothing.                                              *)
Undisturbed == /\ auto_on /\ driver = "works" /\ speed >= 0
               /\ \A a \in announced : ~a.from_mqtt

Sighted == inside # NaN /\ outside # NaN

Hot == /\ Sighted /\ inside - outside >= cfg.onf
       /\ ~AtFloor /\ fan_engage_blocked(inside, AutoCfg(cfg)) = "none"

Equalized == /\ inside # NaN
             /\ AtFloor \/ (outside # NaN /\ inside - outside <= cfg.offf)

(* A garage that stays hot is eventually vented at the user's maximum.      *)
HotReachesMax ==
  \A m \in Steps : <>[](Undisturbed /\ Hot /\ voc <= 0 /\ cfg.max = m) => <>[](speed = m)

(* A garage that stays equalized, or cold, eventually rests, dwell and all. *)
EqualizedRests ==
  \A m \in Steps : <>[](Undisturbed /\ Equalized /\ voc <= 0 /\ cfg.min = m) => <>[](speed = m)

(* Bad air eventually gets its boost, thermostat blind or not.              *)
BadAirBoosted ==
  \A b \in Steps : <>[](/\ Undisturbed /\ cfg.gason /\ cfg.gasspd = b
                        /\ voc >= cfg.gasvoc) => <>[](speed >= b)

(* A refused command is retried by auto until the driver takes it.          *)
FaultHeals == <>[](auto_on /\ driver = "works") => <>[](~output_fault)

(* The thermostat ends where its band says: at the maximum, or at rest.      *)
AirSettles == HotReachesMax /\ EqualizedRests
=============================================================================
