------------------------------ MODULE FanOutput ------------------------------
(****************************************************************************)
(* The fan's control line and the two facts about it that survive a power   *)
(* cut (fan/control.cpp: set_wave, restore, apply, raw_high_us, set_auto).   *)
(* Every command, whoever sends it, goes through Apply.  The thermostat that *)
(* drives it in auto mode is left open here: AutoStep may choose any move of *)
(* at most one step.  FanControl supplies the real one and is shown to be an *)
(* implementation of this module; MqttLink composes this module with the     *)
(* broker.                                                                   *)
(****************************************************************************)
EXTENDS Integers

CONSTANTS
  MaxStep,    \* highest speed setting (12 on the device)
  kHighUs,    \* HIGH width driven for each setting, us
  RawDuties   \* HIGH widths the calibration endpoint is asked for

Steps == 0 .. MaxStep

ASSUME StepsAssumption == MaxStep \in Nat \ {0}
ASSUME DutyAssumption  == kHighUs \in [Steps -> Nat] /\ RawDuties \subseteq Nat

VARIABLES
  speed,         \* g_speed: a setting, RawSpeed or UnknownSpeed
  auto_on,       \* g_auto_on
  output_fault,  \* g_output_fault: LEDC rejected the latest command
  high_us,       \* g_high_us: the width the line is driven with
  nvs_speed,     \* "speed" in NVS
  nvs_auto,      \* "auto" in NVS
  announced,     \* the notify() call made by this step: {} or one record
  driver         \* environment: does ledcAttach / ledcWrite succeed now?

fan_vars == <<speed, auto_on, output_fault, high_us, nvs_speed, nvs_auto,
              announced, driver>>

RawSpeed     == -1   \* a raw duty is being driven
UnknownSpeed == -2   \* restore() could not drive the line

Announcement == [speed : Steps, from_mqtt : BOOLEAN]

TypeOK ==
  /\ speed \in Steps \cup {RawSpeed, UnknownSpeed}
  /\ auto_on \in BOOLEAN
  /\ output_fault \in BOOLEAN
  /\ high_us \in Nat
  /\ nvs_speed \in Steps
  /\ nvs_auto \in BOOLEAN
  /\ announced \in {{}} \cup {{a} : a \in Announcement}
  /\ driver \in {"works", "refuses"}

-----------------------------------------------------------------------------
(* set_wave: the driver takes the new width, or keeps the old one and the   *)
(* failure is latched.                                                      *)
WaveDriven(us) == /\ driver = "works"
                  /\ high_us' = us
                  /\ output_fault' = FALSE

WaveRefused    == /\ driver = "refuses"
                  /\ output_fault' = TRUE
                  /\ UNCHANGED high_us

Silently == announced' = {}

(* An operation that does not touch the line.                               *)
LineAlone == /\ Silently
             /\ UNCHANGED <<speed, auto_on, output_fault, high_us, nvs_speed,
                            nvs_auto, driver>>

(* restore: the end of boot().  Whatever NVS holds is loaded and the line is *)
(* driven unconditionally; RAM from before the restart is gone.              *)
restore ==
  /\ auto_on' = nvs_auto'
  /\ Silently
  /\ \/ /\ WaveDriven(kHighUs[nvs_speed'])
        /\ speed' = nvs_speed'
     \/ /\ driver = "refuses"
        /\ output_fault' = TRUE
        /\ high_us' = 0
        /\ speed' = UnknownSpeed

Init ==
  /\ nvs_speed = 0 /\ nvs_auto = FALSE
  /\ auto_on = FALSE
  /\ announced = {}
  /\ \/ /\ driver = "works"
        /\ speed = 0 /\ output_fault = FALSE /\ high_us = kHighUs[0]
     \/ /\ driver = "refuses"
        /\ speed = UnknownSpeed /\ output_fault = TRUE /\ high_us = 0

-----------------------------------------------------------------------------
(* apply(v, source, manual).  `manual` is a person grabbing the wheel.      *)
Changed(v) == v # speed \/ output_fault

ReleaseAuto(manual) ==
  /\ auto_on' = (auto_on /\ ~manual)
  /\ nvs_auto' = IF manual /\ auto_on THEN FALSE ELSE nvs_auto

ApplyRejected(v) ==
  /\ v \notin Steps
  /\ Silently
  /\ UNCHANGED <<speed, auto_on, output_fault, high_us, nvs_speed, nvs_auto>>

ApplyFailed(v) ==
  /\ v \in Steps /\ Changed(v)
  /\ WaveRefused
  /\ Silently
  /\ UNCHANGED <<speed, auto_on, nvs_speed, nvs_auto>>

\* Wrong variant: a speed the broker already remembers is not stored here.
ApplyDriven_unsaved(v, from_mqtt, manual) ==
  /\ v \in Steps /\ Changed(v)
  /\ WaveDriven(kHighUs[v])
  /\ ReleaseAuto(manual)
  /\ speed' = v
  /\ nvs_speed' = IF from_mqtt THEN nvs_speed ELSE v
  /\ announced' = {[speed |-> v, from_mqtt |-> from_mqtt]}

ApplyDriven(v, from_mqtt, manual) ==
  /\ v \in Steps /\ Changed(v)
  /\ WaveDriven(kHighUs[v])
  /\ ReleaseAuto(manual)
  /\ speed' = v
  /\ nvs_speed' = v
  /\ announced' = {[speed |-> v, from_mqtt |-> from_mqtt]}

ApplyHeld(v, manual) ==
  /\ v \in Steps /\ ~Changed(v)
  /\ ReleaseAuto(manual)
  /\ Silently
  /\ UNCHANGED <<speed, output_fault, high_us, nvs_speed>>

Apply(v, from_mqtt, manual) ==
  /\ UNCHANGED driver
  /\ \/ ApplyRejected(v)
     \/ ApplyFailed(v)
     \/ ApplyDriven(v, from_mqtt, manual)
     \/ ApplyHeld(v, manual)

-----------------------------------------------------------------------------
(* The operations.                                                          *)

(* POST /api/set: the handler validates 0..12 first, then applies it as a   *)
(* person's command.                                                        *)
HttpSet(v) == Apply(v, FALSE, TRUE)

(* The end of tick_auto: command the decided speed when it differs from the *)
(* current one or when the last command was refused.  A negative speed is   *)
(* treated as 0.                                                            *)
PrevSpeed == IF speed < 0 THEN 0 ELSE speed

\* Wrong variant: a refused command is not tried again.
AutoCommand_no_retry(next) ==
  /\ auto_on
  /\ IF next # speed THEN Apply(next, FALSE, FALSE) ELSE LineAlone

AutoCommand(next) ==
  /\ auto_on
  /\ IF next # speed \/ output_fault
     THEN Apply(next, FALSE, FALSE)
     ELSE LineAlone

AutoStep == \E next \in {PrevSpeed - 1, PrevSpeed, PrevSpeed + 1} \cap Steps :
              AutoCommand(next)

(* POST /api/raw: an arbitrary width; neither persisted nor announced, and  *)
(* auto stays as it is.                                                     *)
raw_high_us(us) ==
  /\ \/ WaveDriven(us) /\ speed' = RawSpeed
     \/ WaveRefused /\ UNCHANGED speed
  /\ Silently
  /\ UNCHANGED <<auto_on, nvs_speed, nvs_auto, driver>>

set_auto(on) ==
  /\ auto_on' = on
  /\ nvs_auto' = on
  /\ Silently
  /\ UNCHANGED <<speed, output_fault, high_us, nvs_speed, driver>>

(* The device restarts.  Power may also go inside apply(), after the auto   *)
(* flag has been stored and before the speed has: putBool comes first.      *)
Restart ==
  /\ nvs_speed' = nvs_speed
  /\ UNCHANGED driver
  /\ \/ nvs_auto' = nvs_auto
     \/ auto_on /\ driver = "works" /\ nvs_auto' = FALSE
  /\ restore

(* Environment: the PWM driver starts or stops accepting commands.          *)
DriverChanges ==
  /\ driver' = IF driver = "works" THEN "refuses" ELSE "works"
  /\ Silently
  /\ UNCHANGED <<speed, auto_on, output_fault, high_us, nvs_speed, nvs_auto>>

Next ==
  \/ \E v \in Steps : HttpSet(v)
  \/ \E v \in -1 .. MaxStep + 1, manual \in BOOLEAN : Apply(v, TRUE, manual)
  \/ AutoStep
  \/ \E us \in RawDuties : raw_high_us(us)
  \/ \E on \in BOOLEAN : set_auto(on)
  \/ Restart
  \/ DriverChanges
  \/ LineAlone

FanOutputSpec == Init /\ [][Next]_fan_vars

-----------------------------------------------------------------------------
(* Properties.                                                              *)

(* The speed the console and the broker are told is the one the line is     *)
(* driven with, whatever sequence of commands, raw duties, refusals and     *)
(* restarts came before: a refused command changes neither.                 *)
LineMatchesSpeed == speed >= 0 => high_us = kHighUs[speed]

(* NVS always holds the commanded speed and the auto switch, so that a      *)
(* power cut at any instant loses neither.                                  *)
Persisted == /\ nvs_auto = auto_on
             /\ speed >= 0 => nvs_speed = speed

(* A restart resumes the commanded speed or says it does not know; it never *)
(* comes up claiming another one, even when power went inside apply().      *)
RestartResumes ==
  [][Restart /\ speed >= 0 => speed' \in {speed, UnknownSpeed}]_fan_vars

(* Once a person has taken the wheel, only an explicit request brings auto  *)
(* back: no tick, no replayed command and no restart does.                  *)
AutoOnlyByRequest == [][~auto_on /\ auto_on' => set_auto(TRUE)]_fan_vars

=============================================================================
