------------------------------ MODULE FanControl ------------------------------
(****************************************************************************)
(* Auto mode (fan/control.cpp): the thermostat and gas latches, the user's  *)
(* configuration in RAM and in NVS, POST /api/config, and the 30 s tick that *)
(* turns readings into a command.  The line itself is FanOutput; the         *)
(* decisions are AutoLogic.                                                  *)
(****************************************************************************)
EXTENDS FanOutput, AutoLogic, Sequences

CONSTANTS
  kMinRunTicks,   \* dwell of both latches, in ticks (30 on the device)
  Insides,        \* what a tick may read: half degrees F, or NaN
  Outsides,
  Vocs,           \* VOC index; <= 0 is warming up or no sensor
  Defaults,       \* configuration of an empty NVS
  Requests,       \* /api/config requests: functions from some fields to values
  CutRequests     \* the requests during which power may be lost

(* The fields /api/config accepts besides "auto" and the ranges it accepts. *)
Fields == {"gason", "flooron", "starton", "gasspd", "gasvoc", "max", "min",
           "onf", "offf", "floorf", "startf"}

FieldRange(f) ==
  CASE f \in {"gason", "flooron", "starton"} -> BOOLEAN
    [] f \in {"gasspd", "max"}               -> 1 .. MaxStep
    [] f = "min"                             -> Steps
    [] f = "gasvoc"                          -> 100 .. 500
    [] f = "onf"                             -> 1 .. 40
    [] f = "offf"                            -> 0 .. 40
    [] f = "floorf"                          -> 64 .. 200
    [] f = "startf"                          -> 64 .. 240

IsConfig(c) == DOMAIN c = Fields /\ \A f \in Fields : c[f] \in FieldRange(f)

(* The order in which handle_config calls the setters: switches, whole      *)
(* numbers, reals.                                                          *)
SetterOrder == <<"gason", "flooron", "starton", "gasspd", "gasvoc", "max", "min",
                 "onf", "offf", "floorf", "startf">>

ASSUME MinRunAssumption   == kMinRunTicks \in 1 .. kTicksMax
ASSUME ReadingsAssumption == /\ Insides \subseteq Int \cup {NaN}
                             /\ Outsides \subseteq Int \cup {NaN}
                             /\ Vocs \subseteq Int
ASSUME DefaultsAssumption == IsConfig(Defaults) /\ Defaults.offf < Defaults.onf
ASSUME RequestsAssumption == CutRequests \subseteq Requests

VARIABLES
  cfg,         \* the configuration in RAM
  nvs_cfg,     \* the configuration in NVS
  auto_latch,  \* g_auto_high, g_auto_run_ticks
  gas_latch,   \* g_gas_high, g_gas_run_ticks
  limit,       \* g_limit: what the last tick reported
  inside, outside, voc    \* the readings the last tick saw

ctl_vars == <<cfg, nvs_cfg, auto_latch, gas_latch, limit, inside, outside, voc>>
vars     == <<fan_vars, ctl_vars>>

FanTypeOK ==
  /\ TypeOK
  /\ IsConfig(cfg) /\ IsConfig(nvs_cfg)
  /\ auto_latch \in Latch /\ gas_latch \in Latch
  /\ limit \in {"none", "floor", "start"}
  /\ inside \in Int \cup {NaN} /\ outside \in Int \cup {NaN} /\ voc \in Int

FreshLatches == /\ auto_latch' = Released /\ gas_latch' = Released
                /\ limit' = "none"
                /\ inside' = NaN /\ outside' = NaN /\ voc' = 0

FanInit ==
  /\ Init
  /\ cfg = Defaults /\ nvs_cfg = Defaults
  /\ auto_latch = Released /\ gas_latch = Released
  /\ limit = "none"
  /\ inside = NaN /\ outside = NaN /\ voc = 0

-----------------------------------------------------------------------------
(* tick_auto.                                                               *)
AutoCfg(c) ==
  [min   |-> c.min, max |-> c.max, on |-> c.onf, off |-> c.offf,
   floor |-> IF c.flooron THEN c.floorf ELSE NaN,
   start |-> IF c.starton THEN c.startf ELSE NaN]

GasCfg(c) ==
  [enabled |-> c.gason, boost_speed |-> c.gasspd, on_index |-> c.gasvoc,
   off_index |-> IF c.gasvoc - kGasReleaseGap > 0 THEN c.gasvoc - kGasReleaseGap ELSE 1]

\* Wrong variant: a thermostat that cannot see holds the boost back as well.
TickSpeed_blind_holds(in, out, auto, gas, c) ==
  IF Blind(in, out, AutoCfg(c)) THEN PrevSpeed
  ELSE fan_apply_gas_floor(fan_auto_speed(in, out, PrevSpeed, auto, AutoCfg(c)),
                           PrevSpeed, fan_gas_floor(gas, GasCfg(c)))

(* The speed a tick commands, given the latches it leaves.                  *)
TickSpeed(in, out, auto, gas, c) ==
  fan_apply_gas_floor(fan_auto_speed(in, out, PrevSpeed, auto, AutoCfg(c)),
                      PrevSpeed, fan_gas_floor(gas, GasCfg(c)))

tick_auto(in, out, v) ==
  /\ auto_on
  /\ inside' = in /\ outside' = out /\ voc' = v
  /\ auto_latch' = fan_auto_latch(in, out, auto_latch, AutoCfg(cfg), kMinRunTicks)
  /\ gas_latch' = fan_gas_latch(v, gas_latch, GasCfg(cfg), kMinRunTicks)
  /\ limit' = fan_auto_limit(in, out, auto_latch'.high, AutoCfg(cfg))
  /\ AutoCommand(TickSpeed(in, out, auto_latch', gas_latch', cfg))
  /\ UNCHANGED <<cfg, nvs_cfg>>

Tick == \E in \in Insides, out \in Outsides, v \in Vocs : tick_auto(in, out, v)

-----------------------------------------------------------------------------
(* POST /api/config.  Every supplied field is validated before any setter   *)
(* runs; each setter assigns and stores its own field; the gap comes last.  *)
Accepted(args) ==
  /\ DOMAIN args \subseteq Fields \cup {"auto"}
  /\ \A f \in DOMAIN args \cap Fields : args[f] \in FieldRange(f)
  /\ "auto" \in DOMAIN args => args["auto"] \in BOOLEAN

Supplied(args, c, fs) ==
  [f \in Fields |-> IF f \in DOMAIN args \cap fs THEN args[f] ELSE c[f]]

\* Wrong variant: the gap is not enforced.
enforce_hysteresis_gap_never(c) == c

enforce_hysteresis_gap(c) ==
  IF c.offf >= c.onf
  THEN [f \in Fields |-> IF f = "offf" THEN (IF c.onf > 1 THEN c.onf - 1 ELSE 0)
                         ELSE c[f]]
  ELSE c

set_gas_boost(args) ==
  gas_latch' = IF "gason" \in DOMAIN args /\ ~args["gason"] THEN Released ELSE gas_latch

\* Wrong variant: only the low limit's setters clear the verdict.
set_limits_floor_only(args) ==
  limit' = IF DOMAIN args \cap {"flooron", "floorf"} # {} THEN "none" ELSE limit

set_limits(args) ==
  limit' = IF DOMAIN args \cap {"flooron", "floorf", "starton", "startf"} # {}
           THEN "none" ELSE limit

\* Wrong variant: the corrected release threshold is not stored.
handle_config_gap_in_ram(args) ==
  /\ Accepted(args)
  /\ IF "auto" \in DOMAIN args THEN set_auto(args["auto"]) ELSE LineAlone
  /\ cfg' = enforce_hysteresis_gap(Supplied(args, cfg, Fields))
  /\ nvs_cfg' = Supplied(args, nvs_cfg, Fields)
  /\ set_gas_boost(args) /\ set_limits(args)
  /\ UNCHANGED <<auto_latch, inside, outside, voc>>

handle_config(args) ==
  /\ Accepted(args)
  /\ IF "auto" \in DOMAIN args THEN set_auto(args["auto"]) ELSE LineAlone
  /\ cfg' = enforce_hysteresis_gap(Supplied(args, cfg, Fields))
  /\ nvs_cfg' = enforce_hysteresis_gap(Supplied(args, nvs_cfg, Fields))
  /\ set_gas_boost(args) /\ set_limits(args)
  /\ UNCHANGED <<auto_latch, inside, outside, voc>>

-----------------------------------------------------------------------------
(* The restart, with the configuration NVS is left with: power may go after *)
(* any of a request's stores.  (A cut just after the "auto" store is the     *)
(* request [auto] followed by a cut inside the rest.)                        *)
FirstSetters(k) == {SetterOrder[i] : i \in 1 .. k}

StoresCutShort(args) ==
  /\ Accepted(args)
  /\ nvs_cfg' \in {Supplied(args, nvs_cfg, FirstSetters(k)) : k \in 1 .. Len(SetterOrder)}

(* restore() reads the configuration as it was stored; it does not enforce  *)
(* the gap again.                                                           *)
FanRestart ==
  /\ Restart
  /\ \/ nvs_cfg' = nvs_cfg
     \/ \E args \in CutRequests : StoresCutShort(args)
  /\ cfg' = nvs_cfg'
  /\ FreshLatches

OnTheLine(A) == A /\ UNCHANGED ctl_vars

(* Everything but the tick: commands, raw duties, the driver, requests.     *)
FanEvents ==
  \/ \E v \in Steps : OnTheLine(HttpSet(v))
  \/ \E v \in -1 .. MaxStep + 1, manual \in BOOLEAN : OnTheLine(Apply(v, TRUE, manual))
  \/ \E us \in RawDuties : OnTheLine(raw_high_us(us))
  \/ OnTheLine(DriverChanges)
  \/ \E args \in Requests : handle_config(args)
  \/ FanRestart

FanNext == Tick \/ FanEvents

FanSpec == FanInit /\ [][FanNext]_vars

-----------------------------------------------------------------------------
(* Properties.                                                              *)

AtFloor == cfg.flooron /\ inside # NaN /\ inside <= cfg.floorf

\* A boost is standing after this step and reaches up to s.
BoostAllows(s) == gas_latch'.high /\ s <= cfg.gasspd

Ceiling(c) == IF c.min > c.max THEN c.min ELSE c.max

(* A latch is high exactly while its run is being counted: no path (a       *)
(* release, the low limit, a lost sensor, a switch, a restart) leaves the   *)
(* count of an old run to be served by the next one.                        *)
LatchCountsRun == /\ auto_latch.high <=> auto_latch.ticks > 0
                  /\ gas_latch.high <=> gas_latch.ticks > 0

(* Short of a restart, the thermostat gives up before its minimum run only  *)
(* at the low limit, and the gas boost only when it is switched off or the  *)
(* sensor stops answering.                                                  *)
DwellHonoured ==
  [][/\ auto_latch.high /\ ~auto_latch'.high =>
          auto_latch.ticks >= kMinRunTicks \/ AtFloor' \/ FanRestart
     /\ gas_latch.high /\ ~gas_latch'.high =>
          gas_latch.ticks >= kMinRunTicks \/ voc' <= 0 \/ ~cfg'.gason \/ FanRestart]_vars

(* What the console may be told about the limits is true of the switches as *)
(* they are now and of the last reading, also after the limits were edited, *)
(* after auto was off for a while and after a restart.                      *)
LimitHonest ==
  /\ limit = "floor" => /\ cfg.flooron /\ ~auto_latch.high
                        /\ inside < cfg.floorf + kFloorResume
  /\ limit = "start" => /\ cfg.starton /\ ~auto_latch.high
                        /\ inside < cfg.startf

(* At the low limit a tick rests: it never drives the fan up, except toward *)
(* the rest speed or a gas boost the user configured.                       *)
NoVentAtFloor ==
  [][AtFloor' /\ speed' > speed /\ speed >= 0 =>
       \/ speed' <= cfg.min
       \/ BoostAllows(speed')
       \/ ~Tick]_vars

(* The thermostat may not pull the fan below a standing boost, and boost    *)
(* and thermostat together never raise it past what the user allowed.       *)
BoostIsFloorNotCeiling ==
  [][speed >= 0 /\ speed' # speed =>
       \/ ~Tick
       \/ /\ (gas_latch'.high /\ speed >= cfg.gasspd) => speed' >= cfg.gasspd
          /\ speed' > speed => (speed' <= Ceiling(cfg) \/ BoostAllows(speed'))]_vars

(* The stored configuration is the one in force, after any sequence of      *)
(* requests and of restarts that cut a request short.                       *)
ConfigPersisted == nvs_cfg = cfg

(* Release stays below engage, or the latch flaps.                          *)
GapKept == cfg.offf < cfg.onf

(* No request, valid or not, in any order, breaks the gap for longer than    *)
(* the request runs; only power lost between its stores can.                *)
GapLostOnlyInCut == [][GapKept => GapKept' \/ FanRestart]_vars

(* At every instant the controller is of one mind: latches and their counts,  *)
(* what it says of the limits and what they are, the configuration in force   *)
(* and the stored one, the announced speed and the one on the line.          *)
FanHonest ==
  /\ FanTypeOK /\ LatchCountsRun
  /\ LimitHonest
  /\ ConfigPersisted
  /\ LineMatchesSpeed
=============================================================================
