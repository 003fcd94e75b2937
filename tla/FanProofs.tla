------------------------------- MODULE FanProofs -------------------------------
(* What the fan guarantees for every table of widths and limits, every number  *)
(* of settings, every dwell, every set of readings and every sequence of       *)
(* requests.  The control line (FanOutput) comes first: types, then            *)
(* LineMatchesSpeed and Persisted, inductive relative to them.  Then the       *)
(* thermostat over it (FanControl): the decisions of AutoLogic, types, the     *)
(* invariants, what the console says of it (Words), and that FanControl          *)
(* implements FanOutput.  Last the command topic (MqttLink), whatever people     *)
(* publish and whatever the broker remembered: broker and fan agree once the    *)
(* wire is quiet, and a link that answers promptly tells people, echoes and     *)
(* replays apart.                                                            *)
EXTENDS MqttLink, Words, SequenceTheorems, TLAPS

-----------------------------------------------------------------------------
(* The control line.                                                        *)

(* apply() for any argument, source and manual-ness keeps the types: the    *)
(* range check is what keeps a bad value from the broker out of the table.  *)
LEMMA ApplyTypeOK ==
  ASSUME TypeOK, NEW v, NEW from_mqtt \in BOOLEAN, NEW manual \in BOOLEAN,
         Apply(v, from_mqtt, manual)
  PROVE  TypeOK'
<1> USE StepsAssumption, DutyAssumption DEF Apply, TypeOK, Steps, Silently
<1>1. CASE ApplyRejected(v)
  BY <1>1 DEF ApplyRejected
<1>2. CASE ApplyFailed(v)
  BY <1>2 DEF ApplyFailed, WaveRefused
<1>3. CASE ApplyDriven(v, from_mqtt, manual)
  BY <1>3 DEF ApplyDriven, WaveDriven, ReleaseAuto, Announcement
<1>4. CASE ApplyHeld(v, manual)
  BY <1>4 DEF ApplyHeld, ReleaseAuto
<1> QED
  BY <1>1, <1>2, <1>3, <1>4

(* A restart keeps the types, whatever it was that the power cut short.     *)
LEMMA RestartTypeOK == ASSUME TypeOK, Restart PROVE TypeOK'
<1>1. /\ nvs_speed' = nvs_speed /\ nvs_speed \in Steps
      /\ nvs_auto' \in BOOLEAN /\ auto_on' = nvs_auto'
      /\ announced' = {} /\ driver' \in {"works", "refuses"}
  BY DEF TypeOK, Restart, restore, Silently
<1>2. kHighUs[nvs_speed] \in Nat
  BY <1>1, DutyAssumption
<1>3. /\ speed' \in Steps \cup {UnknownSpeed}
      /\ output_fault' \in BOOLEAN /\ high_us' \in Nat
  <2>1. CASE WaveDriven(kHighUs[nvs_speed']) /\ speed' = nvs_speed'
    BY <2>1, <1>1, <1>2 DEF WaveDriven
  <2>2. CASE output_fault' = TRUE /\ high_us' = 0 /\ speed' = UnknownSpeed
    BY <2>2
  <2> QED
    BY <2>1, <2>2 DEF Restart, restore
<1> QED
  BY <1>1, <1>3 DEF TypeOK

LEMMA StepTypeOK == ASSUME TypeOK, [Next]_fan_vars PROVE TypeOK'
<1> USE StepsAssumption, DutyAssumption
<1>1. CASE \E v \in Steps : HttpSet(v)
  BY <1>1, ApplyTypeOK DEF HttpSet
<1>2. CASE \E v \in -1 .. MaxStep + 1, manual \in BOOLEAN : Apply(v, TRUE, manual)
  BY <1>2, ApplyTypeOK
<1>3. CASE AutoStep
  <2>1. PICK next \in {PrevSpeed - 1, PrevSpeed, PrevSpeed + 1} \cap Steps : AutoCommand(next)
    BY <1>3 DEF AutoStep
  <2>2. CASE Apply(next, FALSE, FALSE)
    BY <2>2, ApplyTypeOK
  <2>3. CASE LineAlone
    BY <2>3 DEF LineAlone, Silently, TypeOK
  <2> QED
    BY <2>1, <2>2, <2>3 DEF AutoCommand
<1>4. CASE \E us \in RawDuties : raw_high_us(us)
  BY <1>4 DEF raw_high_us, WaveDriven, WaveRefused, Silently, TypeOK
<1>5. CASE \E on \in BOOLEAN : set_auto(on)
  BY <1>5 DEF set_auto, Silently, TypeOK
<1>6. CASE Restart
  BY <1>6, RestartTypeOK
<1>7. CASE DriverChanges
  BY <1>7 DEF DriverChanges, Silently, TypeOK
<1>8. CASE LineAlone
  BY <1>8 DEF LineAlone, Silently, TypeOK
<1>9. CASE UNCHANGED fan_vars
  BY <1>9 DEF fan_vars, TypeOK
<1> QED
  BY <1>1, <1>2, <1>3, <1>4, <1>5, <1>6, <1>7, <1>8, <1>9 DEF Next

(* The state setup() leaves.                                                *)
LEMMA InitTypeOK == ASSUME Init PROVE TypeOK
<1>1. 0 \in Steps /\ kHighUs[0] \in Nat
  BY StepsAssumption, DutyAssumption DEF Steps
<1>2. CASE driver = "works"
  BY <1>1, <1>2 DEF Init, TypeOK
<1>3. CASE driver = "refuses"
  <2>1. speed = UnknownSpeed /\ output_fault = TRUE /\ high_us = 0
    BY <1>3 DEF Init
  <2>2. high_us \in Nat
    BY <2>1
  <2> QED
    BY <1>1, <1>3, <2>1, <2>2, Zenon DEF Init, TypeOK
<1> QED
  BY <1>2, <1>3 DEF Init

(* The variables of control.cpp keep their types whatever the console, the  *)
(* broker, the thermostat, the PWM driver and the power supply do.          *)
THEOREM FanOutputTypes == FanOutputSpec => []TypeOK
<1>1. Init => TypeOK
  BY InitTypeOK
<1>2. TypeOK /\ [Next]_fan_vars => TypeOK'
  BY StepTypeOK
<1> QED
  BY <1>1, <1>2, PTL DEF FanOutputSpec

-----------------------------------------------------------------------------
OutputInv == LineMatchesSpeed /\ Persisted

LEMMA ApplyOutputInv ==
  ASSUME TypeOK, OutputInv, NEW v, NEW from_mqtt \in BOOLEAN, NEW manual \in BOOLEAN,
         Apply(v, from_mqtt, manual)
  PROVE  OutputInv'
<1> USE DEF Apply, TypeOK, OutputInv, LineMatchesSpeed, Persisted
<1>1. CASE ApplyRejected(v)
  BY <1>1 DEF ApplyRejected
<1>2. CASE ApplyFailed(v)
  BY <1>2 DEF ApplyFailed, WaveRefused
<1>3. CASE ApplyDriven(v, from_mqtt, manual)
  BY <1>3 DEF ApplyDriven, WaveDriven, ReleaseAuto
<1>4. CASE ApplyHeld(v, manual)
  BY <1>4 DEF ApplyHeld, ReleaseAuto
<1> QED
  BY <1>1, <1>2, <1>3, <1>4

LEMMA StepOutputInv == ASSUME TypeOK, OutputInv, [Next]_fan_vars PROVE OutputInv'
<1>1. CASE \E v \in Steps : HttpSet(v)
  BY <1>1, ApplyOutputInv DEF HttpSet
<1>2. CASE \E v \in -1 .. MaxStep + 1, manual \in BOOLEAN : Apply(v, TRUE, manual)
  BY <1>2, ApplyOutputInv
<1>3. CASE AutoStep
  <2>1. PICK next \in {PrevSpeed - 1, PrevSpeed, PrevSpeed + 1} \cap Steps : AutoCommand(next)
    BY <1>3 DEF AutoStep
  <2>2. CASE Apply(next, FALSE, FALSE)
    BY <2>2, ApplyOutputInv
  <2>3. CASE LineAlone
    BY <2>3 DEF LineAlone, OutputInv, LineMatchesSpeed, Persisted
  <2> QED
    BY <2>1, <2>2, <2>3 DEF AutoCommand
<1>4. CASE \E us \in RawDuties : raw_high_us(us)
  BY <1>4 DEF raw_high_us, WaveDriven, WaveRefused, RawSpeed, OutputInv, LineMatchesSpeed,
              Persisted
<1>5. CASE \E on \in BOOLEAN : set_auto(on)
  BY <1>5 DEF set_auto, OutputInv, LineMatchesSpeed, Persisted
<1>6. CASE Restart
  BY <1>6 DEF Restart, restore, WaveDriven, UnknownSpeed, OutputInv, LineMatchesSpeed,
              Persisted
<1>7. CASE DriverChanges
  BY <1>7 DEF DriverChanges, OutputInv, LineMatchesSpeed, Persisted
<1>8. CASE LineAlone
  BY <1>8 DEF LineAlone, OutputInv, LineMatchesSpeed, Persisted
<1>9. CASE UNCHANGED fan_vars
  BY <1>9 DEF fan_vars, OutputInv, LineMatchesSpeed, Persisted
<1> QED
  BY <1>1, <1>2, <1>3, <1>4, <1>5, <1>6, <1>7, <1>8, <1>9 DEF Next

LEMMA OutputInvariant == FanOutputSpec => [](TypeOK /\ OutputInv)
<1>1. ASSUME Init PROVE OutputInv
  <2>1. CASE speed = 0 /\ high_us = kHighUs[0]
    BY <2>1, <1>1 DEF Init, OutputInv, LineMatchesSpeed, Persisted
  <2>2. CASE speed = UnknownSpeed
    <3>1. ~(speed >= 0)
      BY <2>2 DEF UnknownSpeed
    <3> QED
      BY <3>1, <1>1, Zenon DEF Init, OutputInv, LineMatchesSpeed, Persisted
  <2> QED
    BY <2>1, <2>2, <1>1 DEF Init
<1>2. TypeOK /\ OutputInv /\ [Next]_fan_vars => OutputInv'
  BY StepOutputInv
<1> QED
  BY <1>1, <1>2, FanOutputTypes, PTL DEF FanOutputSpec

(* The setting the fan reports is the one its line is driven with.          *)
THEOREM LineHonest == FanOutputSpec => []LineMatchesSpeed
BY OutputInvariant, PTL DEF OutputInv

(* NVS holds the commanded speed and the auto switch at every instant.      *)
THEOREM AlwaysPersisted == FanOutputSpec => []Persisted
BY OutputInvariant, PTL DEF OutputInv

(* A restart resumes the commanded speed or reports that it could not.      *)
THEOREM RestartsResume == FanOutputSpec => RestartResumes
<1>1. Persisted /\ [Next]_fan_vars => [Restart /\ speed >= 0 => speed' \in {speed, UnknownSpeed}]_fan_vars
  BY DEF Persisted, Restart, restore, WaveDriven
<1> QED
  BY <1>1, AlwaysPersisted, PTL DEF FanOutputSpec, RestartResumes

(* Auto comes back on only because it was asked for: what a tick, a broker  *)
(* command, a raw duty or a restart does never turns it on.                 *)
LEMMA ApplyKeepsAutoOff ==
  ASSUME ~auto_on, auto_on \in BOOLEAN, NEW v, NEW from_mqtt, NEW manual,
         Apply(v, from_mqtt, manual)
  PROVE  ~auto_on'
BY Zenon DEF Apply, ApplyRejected, ApplyFailed, ApplyDriven, ApplyHeld, ReleaseAuto

THEOREM OffStaysOff == FanOutputSpec => AutoOnlyByRequest
<1>1. ASSUME TypeOK, Persisted, ~auto_on, auto_on', Next PROVE set_auto(TRUE)
  <2>1. CASE \E v \in Steps : HttpSet(v)
    BY <2>1, <1>1, ApplyKeepsAutoOff DEF HttpSet, TypeOK
  <2>2. CASE \E v \in -1 .. MaxStep + 1, manual \in BOOLEAN : Apply(v, TRUE, manual)
    BY <2>2, <1>1, ApplyKeepsAutoOff DEF TypeOK
  <2>3. CASE AutoStep
    BY <2>3, <1>1 DEF AutoStep, AutoCommand
  <2>4. CASE \E us \in RawDuties : raw_high_us(us)
    BY <2>4, <1>1 DEF raw_high_us
  <2>5. CASE \E on \in BOOLEAN : set_auto(on)
    <3>1. PICK on \in BOOLEAN : set_auto(on)
      BY <2>5
    <3>2. on = TRUE
      BY <3>1, <1>1 DEF set_auto
    <3> QED
      BY <3>1, <3>2
  <2>6. CASE Restart
    BY <2>6, <1>1, Zenon DEF Restart, restore, Persisted, TypeOK
  <2>7. CASE DriverChanges \/ LineAlone
    BY <2>7, <1>1 DEF DriverChanges, LineAlone
  <2> QED
    BY <1>1, <2>1, <2>2, <2>3, <2>4, <2>5, <2>6, <2>7 DEF Next
<1>2. TypeOK /\ Persisted /\ [Next]_fan_vars
        => [~auto_on /\ auto_on' => set_auto(TRUE)]_fan_vars
  BY <1>1
<1> QED
  BY <1>2, FanOutputTypes, AlwaysPersisted, PTL DEF FanOutputSpec, AutoOnlyByRequest


-----------------------------------------------------------------------------
(* The decisions.                                                           *)

(* latch_min_run keeps the types, counts a run exactly while the latch is   *)
(* high, and releases a latch only when it was not wanted and had run its   *)
(* minimum.                                                                 *)
LEMMA LatchMinRun ==
  ASSUME NEW was \in Latch, NEW want \in BOOLEAN, NEW m \in Nat,
         NEW new, new = latch_min_run(was, want, m)
  PROVE  /\ new \in Latch
         /\ new.high <=> new.ticks > 0
         /\ was.high /\ ~new.high => was.ticks >= m
<1> DEFINE keep == want \/ (was.high /\ was.ticks < m)
<1>1. was.high \in BOOLEAN /\ was.ticks \in 0 .. kTicksMax
  BY DEF Latch
<1>2. kTicksMax \in Nat \ {0}
  BY TicksAssumption
<1>3. CASE ~keep
  <2>1. new.high = FALSE /\ new.ticks = 0 /\ new = [high |-> FALSE, ticks |-> 0]
    BY <1>3, Zenon DEF latch_min_run
  <2> QED
    BY <2>1, <1>1, <1>2, <1>3 DEF Latch
<1>4. CASE keep
  <2> DEFINE t == IF ~was.high THEN 1
                  ELSE IF was.ticks < kTicksMax THEN was.ticks + 1 ELSE was.ticks
  <2>1. new = [high |-> TRUE, ticks |-> t]
    BY <1>4, <1>1, Zenon DEF latch_min_run
  <2>2. t \in 1 .. kTicksMax
    BY <1>1, <1>2
  <2> QED
    BY <2>1, <2>2 DEF Latch
<1> QED
  BY <1>3, <1>4

(* The ramp: from a setting toward a setting, at most one step.             *)
LEMMA RampOneStep ==
  ASSUME NEW prev \in Steps, NEW target \in Steps
  PROVE  StepToward(prev, target) \in {prev - 1, prev, prev + 1} \cap Steps
BY StepsAssumption DEF StepToward, Steps

(* The gas floor keeps a ramped speed within one step: it climbs one, or    *)
(* holds, and never leaves the settings.                                    *)
LEMMA GasFloorOneStep ==
  ASSUME NEW prev \in Steps, NEW floor \in Steps,
         NEW next \in {prev - 1, prev, prev + 1} \cap Steps
  PROVE  fan_apply_gas_floor(next, prev, floor) \in {prev - 1, prev, prev + 1} \cap Steps
BY StepsAssumption DEF fan_apply_gas_floor, Steps

(* The ranges of the fields the decisions read.                             *)
LEMMA ConfigRanges ==
  ASSUME NEW c, IsConfig(c)
  PROVE  /\ c.gason \in BOOLEAN /\ c.flooron \in BOOLEAN /\ c.starton \in BOOLEAN
         /\ c.gasspd \in 1 .. MaxStep /\ c.max \in 1 .. MaxStep /\ c.min \in Steps
         /\ c.gasvoc \in 100 .. 500 /\ c.onf \in 1 .. 40 /\ c.offf \in 0 .. 40
         /\ c.floorf \in 64 .. 200 /\ c.startf \in 64 .. 240
<1>1. \A f \in Fields : c[f] \in FieldRange(f)
  BY DEF IsConfig
<1>2. /\ c["gason"] \in FieldRange("gason") /\ c["flooron"] \in FieldRange("flooron")
      /\ c["starton"] \in FieldRange("starton") /\ c["gasspd"] \in FieldRange("gasspd")
      /\ c["max"] \in FieldRange("max") /\ c["min"] \in FieldRange("min")
      /\ c["gasvoc"] \in FieldRange("gasvoc") /\ c["onf"] \in FieldRange("onf")
      /\ c["offf"] \in FieldRange("offf") /\ c["floorf"] \in FieldRange("floorf")
      /\ c["startf"] \in FieldRange("startf")
  BY <1>1 DEF Fields
<1> QED
  BY <1>2 DEF FieldRange

(* A tick commands a setting one step at most from the previous one,        *)
(* whatever the latches and readings.                                       *)
LEMMA TickOneStep ==
  ASSUME FanTypeOK, NEW in, NEW out, NEW auto, NEW gas
  PROVE  TickSpeed(in, out, auto, gas, cfg)
           \in {PrevSpeed - 1, PrevSpeed, PrevSpeed + 1} \cap Steps
<1>1. PrevSpeed \in Steps
  BY StepsAssumption DEF PrevSpeed, FanTypeOK, TypeOK, Steps, RawSpeed, UnknownSpeed
<1>2. cfg.min \in Steps /\ cfg.max \in Steps /\ cfg.gasspd \in Steps
  BY ConfigRanges, StepsAssumption DEF FanTypeOK, Steps
<1> DEFINE a == fan_auto_speed(in, out, PrevSpeed, auto, AutoCfg(cfg))
           g == fan_gas_floor(gas, GasCfg(cfg))
<1>3. AutoCfg(cfg).min = cfg.min /\ AutoCfg(cfg).max = cfg.max
  BY DEF AutoCfg
<1>4. a \in {PrevSpeed - 1, PrevSpeed, PrevSpeed + 1} \cap Steps
  <2>1. CASE Blind(in, out, AutoCfg(cfg))
    BY <1>1, <2>1 DEF fan_auto_speed
  <2>2. CASE ~Blind(in, out, AutoCfg(cfg)) /\ auto.high
    <3>1. a = StepToward(PrevSpeed, cfg.max)
      BY <1>3, <2>2, Zenon DEF fan_auto_speed
    <3> QED
      BY <3>1, <1>1, <1>2, RampOneStep
  <2>3. CASE ~Blind(in, out, AutoCfg(cfg)) /\ ~auto.high
    <3>1. a = StepToward(PrevSpeed, cfg.min)
      BY <1>3, <2>3, Zenon DEF fan_auto_speed
    <3> QED
      BY <3>1, <1>1, <1>2, RampOneStep
  <2> QED
    BY <2>1, <2>2, <2>3
<1>5. g \in Steps
  <2>1. GasCfg(cfg).boost_speed = cfg.gasspd
    BY DEF GasCfg
  <2>2. CASE gas.high
    BY <2>1, <2>2, <1>2 DEF fan_gas_floor
  <2>3. CASE ~gas.high
    <3>1. g = 0
      BY <2>3, Zenon DEF fan_gas_floor
    <3> QED
      BY <3>1, StepsAssumption DEF Steps
  <2> QED
    BY <2>2, <2>3
<1>6. TickSpeed(in, out, auto, gas, cfg) = fan_apply_gas_floor(a, PrevSpeed, g)
  BY Zenon DEF TickSpeed
<1> HIDE DEF a, g
<1> QED
  BY <1>1, <1>4, <1>5, <1>6, GasFloorOneStep

-----------------------------------------------------------------------------
(* FanControl implements FanOutput: whatever the thermostat, the boost and  *)
(* the configuration do, the line sees only commands FanOutput allows.      *)
LEMMA TickIsAutoStep == ASSUME FanTypeOK, Tick PROVE AutoStep
<1>1. PICK in \in Insides, out \in Outsides, v \in Vocs : tick_auto(in, out, v)
  BY DEF Tick
<1>2. AutoCommand(TickSpeed(in, out, auto_latch', gas_latch', cfg))
  BY <1>1, Zenon DEF tick_auto
<1>3. TickSpeed(in, out, auto_latch', gas_latch', cfg)
        \in {PrevSpeed - 1, PrevSpeed, PrevSpeed + 1} \cap Steps
  BY TickOneStep
<1> QED
  BY <1>2, <1>3, Zenon DEF AutoStep

LEMMA FanStepOnLine == ASSUME FanTypeOK, [FanNext]_vars PROVE [Next]_fan_vars
<1>1. CASE Tick
  BY <1>1, TickIsAutoStep DEF Next
<1>2. CASE \E args \in Requests : handle_config(args)
  <2>1. PICK args \in Requests : handle_config(args)
    BY <1>2
  <2>2. CASE "auto" \in DOMAIN args
    <3>1. args["auto"] \in BOOLEAN /\ set_auto(args["auto"])
      BY <2>1, <2>2, Zenon DEF handle_config, Accepted
    <3> QED
      BY <3>1, Zenon DEF Next
  <2>3. CASE "auto" \notin DOMAIN args
    BY <2>1, <2>3, Zenon DEF handle_config, Next
  <2> QED
    BY <2>2, <2>3
<1>3. CASE FanRestart
  BY <1>3 DEF FanRestart, Next
<1>4. CASE UNCHANGED vars
  BY <1>4 DEF vars
<1>5. CASE \/ \E v \in Steps : OnTheLine(HttpSet(v))
           \/ \E v \in -1 .. MaxStep + 1, manual \in BOOLEAN : OnTheLine(Apply(v, TRUE, manual))
           \/ \E us \in RawDuties : OnTheLine(raw_high_us(us))
           \/ OnTheLine(DriverChanges)
  BY <1>5, Zenon DEF OnTheLine, Next
<1> QED
  BY <1>1, <1>2, <1>3, <1>4, <1>5, Zenon DEF FanNext, FanEvents

-----------------------------------------------------------------------------
(* The configuration.  A request that was accepted, cut short or not, leaves *)
(* every field in its range, and the gap enforced at its end stays in range. *)
LEMMA SuppliedIsConfig ==
  ASSUME NEW args, Accepted(args), NEW c, IsConfig(c), NEW fs
  PROVE  IsConfig(Supplied(args, c, fs))
BY Zenon DEF Accepted, IsConfig, Supplied

LEMMA GapIsConfig ==
  ASSUME NEW c, IsConfig(c)
  PROVE  /\ IsConfig(enforce_hysteresis_gap(c))
         /\ enforce_hysteresis_gap(c).offf < enforce_hysteresis_gap(c).onf
         /\ \A f \in Fields \ {"offf"} : enforce_hysteresis_gap(c)[f] = c[f]
<1>1. c.onf \in 1 .. 40 /\ c.offf \in 0 .. 40
  BY ConfigRanges
<1>2. CASE c.offf < c.onf
  <2>1. enforce_hysteresis_gap(c) = c
    BY <1>1, <1>2 DEF enforce_hysteresis_gap
  <2> QED
    BY <2>1, <1>2
<1>3. CASE ~(c.offf < c.onf)
  <2> DEFINE new == IF c.onf > 1 THEN c.onf - 1 ELSE 0
             g   == [f \in Fields |-> IF f = "offf" THEN new ELSE c[f]]
  <2>1. enforce_hysteresis_gap(c) = g
    BY <1>1, <1>3 DEF enforce_hysteresis_gap
  <2>2. new \in 0 .. 40 /\ new < c.onf
    BY <1>1
  <2>3. g["offf"] = new /\ \A f \in Fields \ {"offf"} : g[f] = c[f]
    BY DEF Fields
  <2>4. \A f \in Fields : c[f] \in FieldRange(f)
    BY DEF IsConfig
  <2>5. \A f \in Fields : g[f] \in FieldRange(f)
    <3> SUFFICES ASSUME NEW f \in Fields PROVE g[f] \in FieldRange(f)
      OBVIOUS
    <3>1. CASE f = "offf"
      BY <3>1, <2>2, <2>3 DEF FieldRange
    <3>2. CASE f # "offf"
      BY <3>2, <2>3, <2>4, Zenon
    <3> QED
      BY <3>1, <3>2
  <2>6. "onf" \in Fields \ {"offf"} /\ DOMAIN g = Fields
    BY DEF Fields
  <2> HIDE DEF g, new
  <2> QED
    BY <2>1, <2>2, <2>3, <2>5, <2>6 DEF IsConfig
<1> QED
  BY <1>2, <1>3

LEMMA RestartIsConfig ==
  ASSUME IsConfig(nvs_cfg), FanRestart
  PROVE  IsConfig(nvs_cfg') /\ cfg' = nvs_cfg'
<1>1. CASE nvs_cfg' = nvs_cfg
  BY <1>1 DEF FanRestart
<1>2. CASE \E args \in CutRequests : StoresCutShort(args)
  <2>1. PICK args \in CutRequests, k \in 1 .. Len(SetterOrder) :
           Accepted(args) /\ nvs_cfg' = Supplied(args, nvs_cfg, FirstSetters(k))
    BY <1>2, Zenon DEF StoresCutShort
  <2> QED
    BY <2>1, SuppliedIsConfig DEF FanRestart
<1> QED
  BY <1>1, <1>2 DEF FanRestart

LEMMA HandleIsConfig ==
  ASSUME IsConfig(cfg), IsConfig(nvs_cfg), NEW args, handle_config(args)
  PROVE  /\ IsConfig(cfg') /\ IsConfig(nvs_cfg')
         /\ cfg'.offf < cfg'.onf /\ nvs_cfg'.offf < nvs_cfg'.onf
         /\ \A f \in (Fields \ {"offf"}) \ DOMAIN args : cfg'[f] = cfg[f]
         /\ \A f \in (Fields \ {"offf"}) \cap DOMAIN args : cfg'[f] = args[f]
<1> DEFINE s == Supplied(args, cfg, Fields)
<1>1. /\ Accepted(args)
      /\ cfg' = enforce_hysteresis_gap(s)
      /\ nvs_cfg' = enforce_hysteresis_gap(Supplied(args, nvs_cfg, Fields))
  BY DEF handle_config
<1>2. IsConfig(s) /\ IsConfig(Supplied(args, nvs_cfg, Fields))
  BY <1>1, SuppliedIsConfig
<1>3. /\ \A f \in Fields \ DOMAIN args : s[f] = cfg[f]
      /\ \A f \in Fields \cap DOMAIN args : s[f] = args[f]
  BY DEF Supplied
<1> HIDE DEF s
<1>4. \A f \in Fields \ {"offf"} : cfg'[f] = s[f]
  BY <1>1, <1>2, GapIsConfig
<1>5. /\ IsConfig(cfg') /\ IsConfig(nvs_cfg')
      /\ cfg'.offf < cfg'.onf /\ nvs_cfg'.offf < nvs_cfg'.onf
  BY <1>1, <1>2, GapIsConfig
<1> QED
  BY <1>3, <1>4, <1>5

-----------------------------------------------------------------------------
(* The latches a tick leaves, in the terms the invariants need.             *)
LEMMA AutoLatchTick ==
  ASSUME FanTypeOK, LatchCountsRun, NEW in \in Int \cup {NaN}, NEW out,
         NEW new, new = fan_auto_latch(in, out, auto_latch, AutoCfg(cfg), kMinRunTicks)
  PROVE  /\ new \in Latch
         /\ new.high <=> new.ticks > 0
         /\ auto_latch.high /\ ~new.high =>
              \/ auto_latch.ticks >= kMinRunTicks
              \/ in # NaN /\ fan_at_floor(in, AutoCfg(cfg))
         /\ in # NaN /\ fan_at_floor(in, AutoCfg(cfg)) => ~new.high
<1>1. auto_latch \in Latch /\ kMinRunTicks \in Nat
  BY MinRunAssumption, TicksAssumption DEF FanTypeOK
<1> DEFINE floored == fan_at_floor(in, AutoCfg(cfg))
<1>2. CASE Blind(in, out, AutoCfg(cfg))
  <2>1. new = auto_latch
    BY <1>2, Zenon DEF fan_auto_latch
  <2>2. in = NaN \/ ~floored
    BY <1>2, Zenon DEF Blind
  <2> QED
    BY <2>1, <2>2, <1>1 DEF LatchCountsRun
<1>3. CASE ~Blind(in, out, AutoCfg(cfg)) /\ floored
  <2>1. new = Released /\ in # NaN
    BY <1>3, Zenon DEF fan_auto_latch, Blind
  <2> QED
    BY <2>1, <1>3, TicksAssumption DEF Released, Latch
<1>4. CASE ~Blind(in, out, AutoCfg(cfg)) /\ ~floored
  <2> DEFINE want == WantsHigh(in, out, auto_latch.high, AutoCfg(cfg))
  <2>1. new = latch_min_run(auto_latch, want, kMinRunTicks)
    BY <1>4, Zenon DEF fan_auto_latch
  <2>2. want \in BOOLEAN
    BY Zenon DEF WantsHigh
  <2> HIDE DEF want
  <2> QED
    BY <2>1, <2>2, <1>1, <1>4, LatchMinRun
<1> QED
  BY <1>2, <1>3, <1>4

LEMMA GasLatchTick ==
  ASSUME FanTypeOK, NEW v,
         NEW new, new = fan_gas_latch(v, gas_latch, GasCfg(cfg), kMinRunTicks)
  PROVE  /\ new \in Latch
         /\ new.high <=> new.ticks > 0
         /\ gas_latch.high /\ ~new.high =>
              gas_latch.ticks >= kMinRunTicks \/ v <= 0 \/ ~cfg.gason
<1>1. gas_latch \in Latch /\ kMinRunTicks \in Nat /\ GasCfg(cfg).enabled = cfg.gason
  BY MinRunAssumption, TicksAssumption DEF FanTypeOK, GasCfg
<1>2. CASE ~cfg.gason \/ v <= 0
  <2>1. new = Released
    BY <1>1, <1>2, Zenon DEF fan_gas_latch
  <2> QED
    BY <2>1, <1>2, TicksAssumption DEF Released, Latch
<1>3. CASE ~(~cfg.gason \/ v <= 0)
  <2> DEFINE want == \/ v >= GasCfg(cfg).on_index
                     \/ gas_latch.high /\ v > GasCfg(cfg).off_index
  <2>1. new = latch_min_run(gas_latch, want, kMinRunTicks)
    BY <1>1, <1>3, Zenon DEF fan_gas_latch
  <2>2. want \in BOOLEAN
    BY Zenon
  <2> HIDE DEF want
  <2> QED
    BY <2>1, <2>2, <1>1, LatchMinRun
<1> QED
  BY <1>2, <1>3

-----------------------------------------------------------------------------
(* Type correctness.                                                        *)
LEMMA TickTypes ==
  ASSUME FanTypeOK, LatchCountsRun, Tick
  PROVE  /\ auto_latch' \in Latch /\ gas_latch' \in Latch
         /\ limit' \in {"none", "floor", "start"}
         /\ inside' \in Int \cup {NaN} /\ outside' \in Int \cup {NaN} /\ voc' \in Int
         /\ cfg' = cfg /\ nvs_cfg' = nvs_cfg
<1>1. PICK in \in Insides, out \in Outsides, v \in Vocs : tick_auto(in, out, v)
  BY DEF Tick
<1>2. /\ in \in Int \cup {NaN} /\ out \in Int \cup {NaN} /\ v \in Int
      /\ inside' = in /\ outside' = out /\ voc' = v /\ cfg' = cfg /\ nvs_cfg' = nvs_cfg
  BY <1>1, ReadingsAssumption DEF tick_auto
<1>3. auto_latch' \in Latch
  BY <1>1, <1>2, AutoLatchTick DEF tick_auto
<1>4. gas_latch' \in Latch
  BY <1>1, GasLatchTick DEF tick_auto
<1>5. limit' = fan_auto_limit(in, out, auto_latch'.high, AutoCfg(cfg))
  BY <1>1, Zenon DEF tick_auto
<1>6. limit' \in {"none", "floor", "start"}
  BY <1>5 DEF fan_auto_limit, fan_engage_blocked
<1> QED
  BY <1>2, <1>3, <1>4, <1>6

LEMMA FanStepTypes ==
  ASSUME FanTypeOK, LatchCountsRun, [FanNext]_vars PROVE FanTypeOK'
<1>1. TypeOK'
  BY FanStepOnLine, StepTypeOK DEF FanTypeOK
<1>2. CASE Tick
  BY <1>1, <1>2, TickTypes DEF FanTypeOK
<1>3. CASE \E args \in Requests : handle_config(args)
  <2>1. PICK args \in Requests : handle_config(args)
    BY <1>3
  <2>2. IsConfig(cfg') /\ IsConfig(nvs_cfg')
    BY <2>1, HandleIsConfig DEF FanTypeOK
  <2>3. gas_latch' \in Latch
    BY <2>1, TicksAssumption DEF handle_config, set_gas_boost, Released, Latch, FanTypeOK
  <2>4. limit' \in {"none", "floor", "start"}
    BY <2>1 DEF handle_config, set_limits, FanTypeOK
  <2>5. UNCHANGED <<auto_latch, inside, outside, voc>>
    BY <2>1 DEF handle_config
  <2> QED
    BY <1>1, <2>2, <2>3, <2>4, <2>5 DEF FanTypeOK
<1>4. CASE FanRestart
  <2>1. IsConfig(nvs_cfg') /\ cfg' = nvs_cfg'
    BY <1>4, RestartIsConfig DEF FanTypeOK
  <2>2. Released \in Latch
    BY TicksAssumption DEF Released, Latch
  <2> QED
    BY <1>1, <1>4, <2>1, <2>2 DEF FanRestart, FreshLatches, FanTypeOK
<1>5. CASE UNCHANGED ctl_vars
  BY <1>1, <1>5 DEF ctl_vars, FanTypeOK
<1> QED
  BY <1>2, <1>3, <1>4, <1>5 DEF FanNext, FanEvents, OnTheLine, vars

(* A latch is high exactly while its run is counted: what keeps the dwell   *)
(* of one run from being served with the ticks of an earlier one.           *)
LEMMA StepLatchCounts ==
  ASSUME FanTypeOK, LatchCountsRun, [FanNext]_vars PROVE LatchCountsRun'
<1>1. CASE Tick
  <2>1. PICK in \in Insides, out \in Outsides, v \in Vocs : tick_auto(in, out, v)
    BY <1>1 DEF Tick
  <2>2. auto_latch'.high <=> auto_latch'.ticks > 0
    BY <2>1, AutoLatchTick, ReadingsAssumption DEF tick_auto
  <2>3. gas_latch'.high <=> gas_latch'.ticks > 0
    BY <2>1, GasLatchTick DEF tick_auto
  <2> QED
    BY <2>2, <2>3 DEF LatchCountsRun
<1>2. CASE \E args \in Requests : handle_config(args)
  BY <1>2 DEF handle_config, set_gas_boost, LatchCountsRun, Released
<1>3. CASE FanRestart
  BY <1>3 DEF FanRestart, FreshLatches, LatchCountsRun, Released
<1>4. CASE UNCHANGED ctl_vars
  BY <1>4 DEF ctl_vars, LatchCountsRun
<1> QED
  BY <1>1, <1>2, <1>3, <1>4 DEF FanNext, FanEvents, OnTheLine, vars

FanInv == FanTypeOK /\ LatchCountsRun /\ ConfigPersisted

LEMMA InitFanInv == FanInit => FanInv /\ LimitHonest
<1> SUFFICES ASSUME FanInit PROVE FanInv /\ LimitHonest
  OBVIOUS
<1>1. TypeOK
  BY InitTypeOK DEF FanInit
<1>2. Released \in Latch /\ ~Released.high /\ Released.ticks = 0
  BY TicksAssumption DEF Released, Latch
<1>3. FanTypeOK
  BY <1>1, <1>2, DefaultsAssumption DEF FanInit, FanTypeOK
<1>4. LatchCountsRun
  BY <1>2 DEF FanInit, LatchCountsRun
<1> QED
  BY <1>3, <1>4 DEF FanInit, FanInv, ConfigPersisted, LimitHonest

LEMMA StepFanInv == ASSUME FanInv, [FanNext]_vars PROVE FanInv'
<1>1. FanTypeOK' /\ LatchCountsRun'
  BY FanStepTypes, StepLatchCounts DEF FanInv
<1>2. nvs_cfg = cfg
  BY DEF FanInv, ConfigPersisted
<1>3. cfg' = nvs_cfg'
  <2>1. CASE Tick
    BY <2>1, <1>2, TickTypes DEF FanInv
  <2>2. CASE \E args \in Requests : handle_config(args)
    BY <2>2, <1>2, Zenon DEF handle_config
  <2>3. CASE FanRestart
    BY <2>3 DEF FanRestart
  <2>4. CASE UNCHANGED ctl_vars
    BY <2>4, <1>2 DEF ctl_vars
  <2> QED
    BY <2>1, <2>2, <2>3, <2>4 DEF FanNext, FanEvents, OnTheLine, vars
<1> QED
  BY <1>1, <1>3 DEF FanInv, ConfigPersisted

LEMMA FanInvariant == FanSpec => []FanInv
BY InitFanInv, StepFanInv, PTL DEF FanSpec

(* The variables of control.cpp keep their types, the configuration its     *)
(* ranges: also across a power cut inside a request.                        *)
THEOREM FanTypes == FanSpec => []FanTypeOK
BY FanInvariant, PTL DEF FanInv

(* No latch is ever high without its run being counted, nor the reverse.    *)
THEOREM RunsAreCounted == FanSpec => []LatchCountsRun
BY FanInvariant, PTL DEF FanInv

(* NVS holds the configuration in force, gap correction included.           *)
THEOREM ConfigAlwaysStored == FanSpec => []ConfigPersisted
BY FanInvariant, PTL DEF FanInv

(* Auto mode, boost, limits and configuration drive the line only in ways   *)
(* FanOutput allows, so what is proved of FanOutput holds here too.         *)
THEOREM FanImplementsOutput == FanSpec => FanOutputSpec
<1>1. FanInit => Init
  BY DEF FanInit
<1>2. FanInv /\ [FanNext]_vars => [Next]_fan_vars
  BY FanStepOnLine DEF FanInv
<1> QED
  BY <1>1, <1>2, FanInvariant, PTL DEF FanSpec, FanOutputSpec

-----------------------------------------------------------------------------
(* The dwell.                                                               *)
Dwell == /\ auto_latch.high /\ ~auto_latch'.high =>
              auto_latch.ticks >= kMinRunTicks \/ AtFloor' \/ FanRestart
         /\ gas_latch.high /\ ~gas_latch'.high =>
              gas_latch.ticks >= kMinRunTicks \/ voc' <= 0 \/ ~cfg'.gason \/ FanRestart

LEMMA StepDwells == ASSUME FanInv, FanNext, ~UNCHANGED ctl_vars PROVE Dwell
<1>1. CASE Tick
  <2>1. PICK in \in Insides, out \in Outsides, v \in Vocs : tick_auto(in, out, v)
    BY <1>1 DEF Tick
  <2>2. inside' = in /\ voc' = v /\ cfg' = cfg /\ in \in Int \cup {NaN}
    BY <2>1, ReadingsAssumption DEF tick_auto
  <2>3. in # NaN /\ fan_at_floor(in, AutoCfg(cfg)) => AtFloor'
    BY <2>2, Zenon DEF fan_at_floor, AtFloor, AutoCfg
  <2>4. auto_latch.high /\ ~auto_latch'.high => auto_latch.ticks >= kMinRunTicks \/ AtFloor'
    BY <2>1, <2>2, <2>3, AutoLatchTick DEF tick_auto, FanInv
  <2>5. gas_latch.high /\ ~gas_latch'.high =>
          gas_latch.ticks >= kMinRunTicks \/ voc' <= 0 \/ ~cfg'.gason
    BY <2>1, <2>2, GasLatchTick DEF tick_auto, FanInv
  <2> QED
    BY <2>4, <2>5 DEF Dwell
<1>2. CASE \E args \in Requests : handle_config(args)
  <2>1. PICK args \in Requests : handle_config(args)
    BY <1>2
  <2>2. auto_latch' = auto_latch
    BY <2>1 DEF handle_config
  <2>3. CASE "gason" \in DOMAIN args /\ ~args["gason"]
    <3>1. "gason" \in (Fields \ {"offf"}) \cap DOMAIN args
      BY <2>3 DEF Fields
    <3>2. cfg'["gason"] = args["gason"]
      BY <3>1, <2>1, HandleIsConfig DEF FanInv, FanTypeOK
    <3>3. ~cfg'["gason"]
      BY <3>2, <2>3, Zenon
    <3> QED
      BY <3>3, <2>2 DEF Dwell
  <2>4. CASE ~("gason" \in DOMAIN args /\ ~args["gason"])
    BY <2>1, <2>2, <2>4, Zenon DEF handle_config, set_gas_boost, Dwell
  <2> QED
    BY <2>3, <2>4
<1>3. CASE FanRestart
  BY <1>3 DEF Dwell
<1> QED
  BY <1>1, <1>2, <1>3, Zenon DEF FanNext, FanEvents, OnTheLine

(* For every dwell and every table of thresholds: the thermostat gives up   *)
(* early only at the low limit, the boost only when switched off or when    *)
(* its sensor is gone.                                                      *)
THEOREM DwellAlwaysHonoured == FanSpec => DwellHonoured
<1>1. FanInv /\ [FanNext]_vars => [Dwell]_vars
  <2> SUFFICES ASSUME FanInv, FanNext PROVE Dwell
    BY DEF vars
  <2>1. CASE UNCHANGED ctl_vars
    BY <2>1 DEF ctl_vars, Dwell
  <2> QED
    BY <2>1, StepDwells
<1> QED
  BY <1>1, FanInvariant, PTL DEF FanSpec, DwellHonoured, Dwell

-----------------------------------------------------------------------------
(* The verdict the console shows.                                           *)
LEMMA TickLimitHonest == ASSUME FanInv, Tick PROVE LimitHonest'
<1>1. PICK in \in Insides, out \in Outsides, v \in Vocs : tick_auto(in, out, v)
  BY DEF Tick
<1>2. inside' = in /\ cfg' = cfg /\ in \in Int \cup {NaN}
  BY <1>1, ReadingsAssumption DEF tick_auto
<1>3. limit' = fan_auto_limit(in, out, auto_latch'.high, AutoCfg(cfg))
  BY <1>1, Zenon DEF tick_auto
<1>4. in # NaN /\ fan_at_floor(in, AutoCfg(cfg)) => ~auto_latch'.high
  BY <1>1, <1>2, AutoLatchTick DEF tick_auto, FanInv
<1> DEFINE fl == AutoCfg(cfg).floor
           st == AutoCfg(cfg).start
<1>5. /\ cfg.floorf \in Int /\ cfg.startf \in Int
      /\ cfg.flooron \in BOOLEAN /\ cfg.starton \in BOOLEAN
  BY ConfigRanges DEF FanInv, FanTypeOK
<1>6. /\ fl = IF cfg.flooron THEN cfg.floorf ELSE NaN
      /\ st = IF cfg.starton THEN cfg.startf ELSE NaN
  BY DEF AutoCfg
<1> HIDE DEF fl, st
<1>7. CASE limit' = "none"
  BY <1>7 DEF LimitHonest
<1>8. CASE limit' # "none"
  <2>1. in # NaN /\ in \in Int
    BY <1>2, <1>3, <1>8, Zenon DEF fan_auto_limit
  <2>2. CASE fan_at_floor(in, AutoCfg(cfg))
    <3>1. limit' = "floor" /\ fl # NaN /\ in <= fl /\ ~auto_latch'.high
      BY <2>1, <2>2, <1>3, <1>4, Zenon DEF fan_auto_limit, fan_at_floor, fl
    <3>2. cfg.flooron /\ fl = cfg.floorf
      BY <3>1, <1>6
    <3>3. in < cfg.floorf + kFloorResume
      BY <3>1, <3>2, <2>1, <1>5 DEF kFloorResume
    <3> QED
      BY <3>1, <3>2, <3>3, <1>2 DEF LimitHonest
  <2>3. CASE ~fan_at_floor(in, AutoCfg(cfg))
    <3>1. limit' = fan_engage_blocked(in, AutoCfg(cfg)) /\ ~auto_latch'.high
      BY <2>1, <2>3, <1>3, <1>8, Zenon DEF fan_auto_limit
    <3>2. limit' = "start" => st # NaN /\ in < st
      BY <3>1, <1>5, <1>6, <2>1, NaNAssumption
         DEF fan_engage_blocked, kFloorResume, fl, st
    <3>3. limit' = "floor" => fl # NaN /\ in < fl + kFloorResume
      BY <3>1, <1>5, <1>6, <2>1, NaNAssumption
         DEF fan_engage_blocked, kFloorResume, fl, st
    <3>4. (st # NaN => cfg.starton /\ st = cfg.startf) /\ (fl # NaN => cfg.flooron /\ fl = cfg.floorf)
      BY <1>6
    <3> QED
      BY <3>1, <3>2, <3>3, <3>4, <1>2 DEF LimitHonest
  <2> QED
    BY <2>2, <2>3
<1> QED
  BY <1>7, <1>8

LEMMA StepLimitHonest ==
  ASSUME FanInv, LimitHonest, [FanNext]_vars PROVE LimitHonest'
<1>1. CASE Tick
  BY <1>1, TickLimitHonest
<1>2. CASE \E args \in Requests : handle_config(args)
  <2>1. PICK args \in Requests : handle_config(args)
    BY <1>2
  <2>2. CASE DOMAIN args \cap {"flooron", "floorf", "starton", "startf"} # {}
    BY <2>1, <2>2 DEF handle_config, set_limits, LimitHonest
  <2>3. CASE DOMAIN args \cap {"flooron", "floorf", "starton", "startf"} = {}
    <3>1. {"flooron", "floorf", "starton", "startf"} \subseteq (Fields \ {"offf"}) \ DOMAIN args
      BY <2>3 DEF Fields
    <3>2. \A f \in (Fields \ {"offf"}) \ DOMAIN args : cfg'[f] = cfg[f]
      BY <2>1, HandleIsConfig DEF FanInv, FanTypeOK
    <3>3. /\ cfg'["flooron"] = cfg["flooron"] /\ cfg'["floorf"] = cfg["floorf"]
          /\ cfg'["starton"] = cfg["starton"] /\ cfg'["startf"] = cfg["startf"]
      BY <3>1, <3>2
    <3>4. UNCHANGED <<limit, auto_latch, inside>>
      BY <2>1, <2>3 DEF handle_config, set_limits
    <3> QED
      BY <3>3, <3>4 DEF LimitHonest
  <2> QED
    BY <2>2, <2>3
<1>3. CASE FanRestart
  BY <1>3 DEF FanRestart, FreshLatches, LimitHonest
<1>4. CASE UNCHANGED ctl_vars
  BY <1>4 DEF ctl_vars, LimitHonest
<1> QED
  BY <1>1, <1>2, <1>3, <1>4 DEF FanNext, FanEvents, OnTheLine, vars

(* The reported limit is true of the switches as they are and of the last   *)
(* reading, for every pair of limits, including those that overlap.         *)
THEOREM LimitAlwaysHonest == FanSpec => []LimitHonest
<1>1. FanInit => LimitHonest
  BY InitFanInv
<1>2. FanInv /\ LimitHonest /\ [FanNext]_vars => LimitHonest'
  BY StepLimitHonest
<1> QED
  BY <1>1, <1>2, FanInvariant, PTL DEF FanSpec

(* What the run checks on a small instance, at once: types, counts, limits,   *)
(* configuration and line, for any thresholds, requests, dwell and readings.  *)
THEOREM FanAlwaysHonest == FanSpec => []FanHonest
BY FanTypes, RunsAreCounted, LimitAlwaysHonest, ConfigAlwaysStored, FanImplementsOutput, LineHonest,
   PTL DEF FanHonest

-----------------------------------------------------------------------------
(* No tick and no request can close the gap between engage and release;     *)
(* what is left is a restart, which reads back what is in NVS.              *)
LEMMA StepGapKept ==
  ASSUME FanInv, GapKept, [FanNext]_vars PROVE GapKept' \/ FanRestart
<1>1. CASE Tick
  BY <1>1, TickTypes DEF GapKept, FanInv
<1>2. CASE \E args \in Requests : handle_config(args)
  BY <1>2, HandleIsConfig DEF GapKept, FanInv, FanTypeOK
<1>3. CASE UNCHANGED ctl_vars
  BY <1>3 DEF ctl_vars, GapKept
<1> QED
  BY <1>1, <1>2, <1>3 DEF FanNext, FanEvents, OnTheLine, vars

(* The gap is lost in no other step than a restart, for any requests.       *)
THEOREM GapLostByCutAlone == FanSpec => GapLostOnlyInCut
<1>1. FanInv /\ [FanNext]_vars => [GapKept => GapKept' \/ FanRestart]_vars
  BY StepGapKept
<1> QED
  BY <1>1, FanInvariant, PTL DEF FanSpec, GapLostOnlyInCut

(* Where power is never lost between the stores of a request a restart      *)
(* keeps the gap too, so it stands for ever.                                *)
THEOREM GapKeptUncut == CutRequests = {} /\ FanSpec => []GapKept
<1> SUFFICES ASSUME CutRequests = {} PROVE FanSpec => []GapKept
  OBVIOUS
<1>1. FanInit => GapKept
  BY DefaultsAssumption DEF FanInit, GapKept
<1>2. ASSUME FanInv, GapKept, FanRestart PROVE GapKept'
  <2>1. nvs_cfg' = nvs_cfg /\ cfg' = nvs_cfg'
    BY <1>2 DEF FanRestart
  <2> QED
    BY <1>2, <2>1 DEF GapKept, FanInv, ConfigPersisted
<1>3. FanInv /\ GapKept /\ [FanNext]_vars => GapKept'
  BY <1>2, StepGapKept
<1> QED
  BY <1>1, <1>3, FanInvariant, PTL DEF FanSpec

-----------------------------------------------------------------------------
(* What a tick may do to the speed.  The two ramps meet in the speed: which of *)
(* them moved it is told by the bound it respects.                           *)

(* A ramp goes toward its target and not past it.                           *)
LEMMA RampTowardTarget ==
  ASSUME NEW prev \in Steps, NEW target \in Steps
  PROVE  StepToward(prev, target) > prev => StepToward(prev, target) <= target
BY StepsAssumption DEF StepToward, Steps

(* The boost lifts a speed by one step while it is below the boost, and lets *)
(* none through it from above.                                               *)
LEMMA GasFloorBounds ==
  ASSUME NEW prev \in Steps, NEW next \in Steps, NEW floor \in Steps,
         NEW final, final = fan_apply_gas_floor(next, prev, floor)
  PROVE  /\ prev >= floor => final >= floor
         /\ final > prev => final = next \/ (floor > 0 /\ final <= floor)
BY StepsAssumption DEF fan_apply_gas_floor, Steps

(* A tick that changes a driven speed commands what the decision said, for    *)
(* the configuration in force and the latches it leaves.                     *)
LEMMA TickMoves ==
  ASSUME FanTypeOK, Tick, speed >= 0, speed' # speed
  PROVE  /\ PrevSpeed = speed /\ speed \in Steps /\ speed' \in Steps /\ cfg' = cfg
         /\ speed' = TickSpeed(inside', outside', auto_latch', gas_latch', cfg)
         /\ auto_latch' = fan_auto_latch(inside', outside', auto_latch, AutoCfg(cfg), kMinRunTicks)
         /\ inside' \in Int \cup {NaN}
<1>1. PICK in \in Insides, out \in Outsides, v \in Vocs : tick_auto(in, out, v)
  BY DEF Tick
<1>2. /\ inside' = in /\ outside' = out /\ cfg' = cfg
      /\ auto_latch' = fan_auto_latch(in, out, auto_latch, AutoCfg(cfg), kMinRunTicks)
      /\ AutoCommand(TickSpeed(in, out, auto_latch', gas_latch', cfg))
  BY <1>1, Zenon DEF tick_auto
<1>3. speed \in Steps /\ PrevSpeed = speed
  <2>1. speed \in Steps \cup {RawSpeed, UnknownSpeed}
    BY Zenon DEF FanTypeOK, TypeOK
  <2>2. speed \in Steps
    BY <2>1 DEF RawSpeed, UnknownSpeed
  <2>3. PrevSpeed = speed
    BY <2>2, StepsAssumption DEF PrevSpeed, Steps
  <2> QED
    BY <2>2, <2>3
<1>4. TickSpeed(in, out, auto_latch', gas_latch', cfg) \in Steps
  BY TickOneStep
<1> DEFINE next == TickSpeed(in, out, auto_latch', gas_latch', cfg)
<1> HIDE DEF next
<1>5. ASSUME AutoCommand(next) PROVE speed' = next
  <2>1. LineAlone \/ ApplyRejected(next) \/ ApplyFailed(next) \/ ApplyDriven(next, FALSE, FALSE)
        \/ ApplyHeld(next, FALSE)
    BY <1>5, Zenon DEF AutoCommand, Apply
  <2>2. ApplyDriven(next, FALSE, FALSE)
    BY <2>1 DEF LineAlone, ApplyRejected, ApplyFailed, ApplyHeld
  <2> QED
    BY <2>2, Zenon DEF ApplyDriven
<1>6. speed' = next
  BY <1>2, <1>5 DEF next
<1> QED
  BY <1>2, <1>3, <1>4, <1>6, ReadingsAssumption DEF next

(* The bounds a tick keeps to: a standing boost from below; above, the target *)
(* of the thermostat's latch, or the boost.                                  *)
LEMMA TickBounds ==
  ASSUME FanTypeOK, Tick, speed >= 0, speed' # speed
  PROVE  /\ gas_latch'.high /\ speed >= cfg.gasspd => speed' >= cfg.gasspd
         /\ speed' > speed =>
              \/ speed' <= (IF auto_latch'.high THEN cfg.max ELSE cfg.min)
              \/ gas_latch'.high /\ speed' <= cfg.gasspd
<1> DEFINE target == IF auto_latch'.high THEN cfg.max ELSE cfg.min
           a == fan_auto_speed(inside', outside', speed, auto_latch', AutoCfg(cfg))
           g == fan_gas_floor(gas_latch', GasCfg(cfg))
<1>1. /\ PrevSpeed = speed /\ speed \in Steps
      /\ speed' = TickSpeed(inside', outside', auto_latch', gas_latch', cfg)
  BY TickMoves
<1>2. cfg.min \in Steps /\ cfg.max \in Steps /\ cfg.gasspd \in Steps
  BY ConfigRanges, StepsAssumption DEF FanTypeOK, Steps
<1>3. target \in Steps
  BY <1>2
<1>4. a \in Steps /\ (a > speed => a <= target)
  <2>1. AutoCfg(cfg).min = cfg.min /\ AutoCfg(cfg).max = cfg.max
    BY DEF AutoCfg
  <2>2. a = speed \/ a = StepToward(speed, target)
    BY <2>1, Zenon DEF fan_auto_speed
  <2> HIDE DEF a, target
  <2>3. StepToward(speed, target) \in Steps
    BY <1>1, <1>3, RampOneStep
  <2>4. StepToward(speed, target) > speed => StepToward(speed, target) <= target
    BY <1>1, <1>3, RampTowardTarget
  <2>5. CASE a = speed
    BY <2>5, <1>1, StepsAssumption DEF Steps
  <2>6. CASE a = StepToward(speed, target)
    BY <2>6, <2>3, <2>4
  <2> QED
    BY <2>2, <2>5, <2>6
<1>5. g \in Steps /\ (gas_latch'.high => g = cfg.gasspd) /\ (~gas_latch'.high => g = 0)
  <2>1. GasCfg(cfg).boost_speed = cfg.gasspd
    BY DEF GasCfg
  <2>2. (gas_latch'.high => g = cfg.gasspd) /\ (~gas_latch'.high => g = 0)
    BY <2>1, Zenon DEF fan_gas_floor
  <2>3. 0 \in Steps
    BY StepsAssumption DEF Steps
  <2> QED
    BY <2>2, <2>3, <1>2
<1>6. speed' = fan_apply_gas_floor(a, speed, g)
  BY <1>1, Zenon DEF TickSpeed
<1> HIDE DEF a, g, target
<1>7. /\ speed >= g => speed' >= g
      /\ speed' > speed => speed' = a \/ (g > 0 /\ speed' <= g)
  BY <1>1, <1>4, <1>5, <1>6, GasFloorBounds
<1>8. gas_latch'.high /\ speed >= cfg.gasspd => speed' >= cfg.gasspd
  BY <1>5, <1>7
<1>9. speed' > speed => speed' <= target \/ (gas_latch'.high /\ speed' <= cfg.gasspd)
  <2> SUFFICES ASSUME speed' > speed
               PROVE  speed' <= target \/ (gas_latch'.high /\ speed' <= cfg.gasspd)
    OBVIOUS
  <2>1. CASE speed' = a
    BY <2>1, <1>4
  <2>2. CASE g > 0 /\ speed' <= g
    <3>1. gas_latch'.high
      BY <2>2, <1>5
    <3> QED
      BY <2>2, <3>1, <1>5
  <2> QED
    BY <2>1, <2>2, <1>7
<1> QED
  BY <1>8, <1>9 DEF target

(* No tick raises the fan past what the user allowed, and none pulls it below *)
(* a standing boost: fan_apply_gas_floor over fan_auto_decide (auto_logic.h),  *)
(* for any bounds, crossing ones included.                                   *)
THEOREM BoostNeverACeiling == FanSpec => BoostIsFloorNotCeiling
<1>1. ASSUME FanInv, [FanNext]_vars, speed >= 0, speed' # speed, Tick
      PROVE  /\ (gas_latch'.high /\ speed >= cfg.gasspd) => speed' >= cfg.gasspd
             /\ speed' > speed => (speed' <= Ceiling(cfg) \/ BoostAllows(speed'))
  <2>1. FanTypeOK
    BY <1>1 DEF FanInv
  <2>2. cfg.min \in Steps /\ cfg.max \in Steps
    BY <2>1, ConfigRanges, StepsAssumption DEF FanTypeOK, Steps
  <2>3. cfg.min <= Ceiling(cfg) /\ cfg.max <= Ceiling(cfg) /\ Ceiling(cfg) \in Steps
    BY <2>2 DEF Ceiling, Steps
  <2>4. speed' \in Steps
    BY <1>1, <2>1, TickMoves
  <2>5. speed' <= (IF auto_latch'.high THEN cfg.max ELSE cfg.min) => speed' <= Ceiling(cfg)
    BY <2>2, <2>3, <2>4 DEF Steps
  <2> QED
    BY <1>1, <2>1, <2>5, TickBounds DEF BoostAllows
<1>2. FanInv /\ [FanNext]_vars =>
        [speed >= 0 /\ speed' # speed =>
           \/ ~Tick
           \/ /\ (gas_latch'.high /\ speed >= cfg.gasspd) => speed' >= cfg.gasspd
              /\ speed' > speed => (speed' <= Ceiling(cfg) \/ BoostAllows(speed'))]_vars
  BY <1>1
<1> QED
  BY <1>2, FanInvariant, PTL DEF FanSpec, BoostIsFloorNotCeiling

(* At the low limit no tick drives the fan up but toward its rest speed or a  *)
(* boost, for any limits, differentials and dwell (auto_logic.h).            *)
THEOREM NeverVentsAtFloor == FanSpec => NoVentAtFloor
<1>1. ASSUME FanInv, [FanNext]_vars, AtFloor', speed' > speed, speed >= 0, Tick
      PROVE  speed' <= cfg.min \/ BoostAllows(speed')
  <2>1. FanTypeOK
    BY <1>1 DEF FanInv
  <2>2. speed' # speed
    <3>1. speed \in Int
      BY <2>1 DEF FanTypeOK, TypeOK, Steps, RawSpeed, UnknownSpeed
    <3> QED
      BY <1>1, <3>1
  <2>3. /\ cfg' = cfg /\ inside' \in Int \cup {NaN}
        /\ auto_latch' = fan_auto_latch(inside', outside', auto_latch, AutoCfg(cfg), kMinRunTicks)
    BY <1>1, <2>1, <2>2, TickMoves
  <2>4. cfg.flooron /\ inside' # NaN /\ inside' <= cfg.floorf
    BY <1>1, <2>3 DEF AtFloor
  <2>5. cfg.floorf \in Int
    BY <2>1, ConfigRanges DEF FanTypeOK
  <2>6. AutoCfg(cfg).floor = cfg.floorf
    BY <2>4 DEF AutoCfg
  <2>7. fan_at_floor(inside', AutoCfg(cfg)) /\ ~Blind(inside', outside', AutoCfg(cfg))
    BY <2>4, <2>5, <2>6, NaNAssumption DEF fan_at_floor, Blind
  <2>8. auto_latch' = Released
    BY <2>3, <2>7, Zenon DEF fan_auto_latch
  <2>9. ~auto_latch'.high
    BY <2>8 DEF Released
  <2> QED
    BY <1>1, <2>1, <2>2, <2>9, TickBounds DEF BoostAllows
<1>2. FanInv /\ [FanNext]_vars =>
        [AtFloor' /\ speed' > speed /\ speed >= 0 =>
           \/ speed' <= cfg.min
           \/ BoostAllows(speed')
           \/ ~Tick]_vars
  BY <1>1
<1> QED
  BY <1>2, FanInvariant, PTL DEF FanSpec, NoVentAtFloor

-----------------------------------------------------------------------------
(* What the console says of auto (Words), against what the next tick does.   *)

(* A tick decides on the readings it leaves behind and on the configuration   *)
(* in force.                                                                 *)
LEMMA TickDecides ==
  ASSUME FanTypeOK, Tick
  PROVE  /\ cfg' = cfg /\ inside' \in Int \cup {NaN} /\ outside' \in Int \cup {NaN}
         /\ auto_latch' = fan_auto_latch(inside', outside', auto_latch, AutoCfg(cfg), kMinRunTicks)
         /\ limit' = fan_auto_limit(inside', outside', auto_latch'.high, AutoCfg(cfg))
<1>1. PICK in \in Insides, out \in Outsides, v \in Vocs : tick_auto(in, out, v)
  BY DEF Tick
<1>2. /\ inside' = in /\ outside' = out /\ cfg' = cfg
      /\ auto_latch' = fan_auto_latch(in, out, auto_latch, AutoCfg(cfg), kMinRunTicks)
      /\ limit' = fan_auto_limit(in, out, auto_latch'.high, AutoCfg(cfg))
  BY <1>1, Zenon DEF tick_auto
<1> QED
  BY <1>2, ReadingsAssumption

(* With no boost standing the thermostat alone moves the fan: a step toward   *)
(* the target of the latch the tick leaves, and none without readings.       *)
LEMMA ThermostatMoves ==
  ASSUME FanTypeOK, Tick, speed >= 0, ~gas_latch'.high, speed' # speed
  PROVE  /\ ~Blind(inside', outside', AutoCfg(cfg))
         /\ auto_latch'.high => NoFarther(speed', speed, cfg.max)
         /\ ~auto_latch'.high => NoFarther(speed', speed, cfg.min)
<1> DEFINE goal == IF auto_latch'.high THEN cfg.max ELSE cfg.min
           a == fan_auto_speed(inside', outside', speed, auto_latch', AutoCfg(cfg))
<1>1. /\ PrevSpeed = speed /\ speed \in Steps
      /\ speed' = TickSpeed(inside', outside', auto_latch', gas_latch', cfg)
  BY TickMoves
<1>2. goal \in Steps
  BY ConfigRanges, StepsAssumption DEF FanTypeOK, Steps
<1>3. fan_gas_floor(gas_latch', GasCfg(cfg)) = 0
  BY Zenon DEF fan_gas_floor
<1>4. speed' = fan_apply_gas_floor(a, speed, 0)
  BY <1>1, <1>3, Zenon DEF TickSpeed
<1>5. speed' = a
  <2> HIDE DEF a
  <2> QED
    BY <1>4 DEF fan_apply_gas_floor
<1>6. ~Blind(inside', outside', AutoCfg(cfg)) /\ a = StepToward(speed, goal)
  <2>1. AutoCfg(cfg).min = cfg.min /\ AutoCfg(cfg).max = cfg.max
    BY DEF AutoCfg
  <2>2. ~Blind(inside', outside', AutoCfg(cfg))
    BY <1>5, Zenon DEF fan_auto_speed
  <2> QED
    BY <2>1, <2>2, Zenon DEF fan_auto_speed
<1>7. NoFarther(speed', speed, goal)
  <2> HIDE DEF a, goal
  <2> QED
    BY <1>1, <1>2, <1>5, <1>6 DEF NoFarther, StepToward, Steps
<1> QED
  BY <1>6, <1>7

(* While a limit is shown, the readings it was shown for do not engage the    *)
(* thermostat.                                                               *)
LEMMA ShownLimitBars ==
  ASSUME FanTypeOK, LimitHonest, limit # "none", Tick, inside' = inside, outside' = outside
  PROVE  ~auto_latch'.high
<1>1. /\ cfg' = cfg /\ inside \in Int \cup {NaN}
      /\ auto_latch' = fan_auto_latch(inside, outside, auto_latch, AutoCfg(cfg), kMinRunTicks)
  BY TickDecides
<1>2. /\ ~auto_latch.high
      /\ \/ cfg.flooron /\ inside < cfg.floorf + kFloorResume
         \/ cfg.starton /\ inside < cfg.startf
  BY DEF LimitHonest, FanTypeOK
<1>3. CASE Blind(inside, outside, AutoCfg(cfg))
  BY <1>1, <1>2, <1>3, Zenon DEF fan_auto_latch
<1>4. CASE ~Blind(inside, outside, AutoCfg(cfg)) /\ fan_at_floor(inside, AutoCfg(cfg))
  <2>1. auto_latch' = Released
    BY <1>1, <1>4, Zenon DEF fan_auto_latch
  <2> QED
    BY <2>1 DEF Released
<1>5. CASE ~Blind(inside, outside, AutoCfg(cfg)) /\ ~fan_at_floor(inside, AutoCfg(cfg))
  <2> DEFINE want == WantsHigh(inside, outside, auto_latch.high, AutoCfg(cfg))
  <2>1. auto_latch' = latch_min_run(auto_latch, want, kMinRunTicks)
    BY <1>1, <1>5, Zenon DEF fan_auto_latch
  <2>2. inside \in Int
    BY <1>1, <1>5, Zenon DEF Blind
  <2>3. /\ cfg.floorf \in Int /\ cfg.startf \in Int
        /\ cfg.flooron => AutoCfg(cfg).floor = cfg.floorf
        /\ cfg.starton => AutoCfg(cfg).start = cfg.startf
    BY ConfigRanges DEF FanTypeOK, AutoCfg
  <2>4. fan_engage_blocked(inside, AutoCfg(cfg)) # "none"
    BY <1>2, <2>2, <2>3, NaNAssumption DEF fan_engage_blocked
  <2>5. ~want
    BY <1>2, <2>4, Zenon DEF WantsHigh
  <2> HIDE DEF want
  <2>6. auto_latch'.high = (want \/ (auto_latch.high /\ auto_latch.ticks < kMinRunTicks))
    BY <2>1, Zenon DEF latch_min_run
  <2> QED
    BY <1>2, <2>5, <2>6
<1> QED
  BY <1>3, <1>4, <1>5

(* Where the differential asks for the maximum and the tick names no limit,   *)
(* the thermostat is engaged.                                                *)
LEMMA MaximumEngages ==
  ASSUME FanTypeOK, Tick, limit' = "none",
         inside' # NaN, outside' # NaN, inside' - outside' >= cfg.onf
  PROVE  auto_latch'.high
<1>1. /\ auto_latch' = fan_auto_latch(inside', outside', auto_latch, AutoCfg(cfg), kMinRunTicks)
      /\ limit' = fan_auto_limit(inside', outside', auto_latch'.high, AutoCfg(cfg))
      /\ inside' \in Int /\ outside' \in Int
  BY TickDecides
<1>2. AutoCfg(cfg).on = cfg.onf /\ cfg.onf \in Int
  BY ConfigRanges DEF FanTypeOK, AutoCfg
<1> SUFFICES ASSUME ~auto_latch'.high PROVE FALSE
  OBVIOUS
<1>3. ~fan_at_floor(inside', AutoCfg(cfg))
  BY <1>1, Zenon DEF fan_auto_limit
<1>4. ~Blind(inside', outside', AutoCfg(cfg))
  BY <1>3, Zenon DEF Blind
<1>5. ~(inside' - outside' < AutoCfg(cfg).on) /\ inside' - outside' >= AutoCfg(cfg).on
  BY <1>1, <1>2
<1>6. fan_engage_blocked(inside', AutoCfg(cfg)) = "none"
  BY <1>1, <1>3, <1>5, Zenon DEF fan_auto_limit
<1>7. WantsHigh(inside', outside', auto_latch.high, AutoCfg(cfg))
  BY <1>5, <1>6, Zenon DEF WantsHigh
<1>8. auto_latch' = latch_min_run(auto_latch, TRUE, kMinRunTicks)
  BY <1>1, <1>3, <1>4, <1>7, Zenon DEF fan_auto_latch, latch_min_run
<1> QED
  BY <1>8, Zenon DEF latch_min_run

LEMMA StepSaidIsDone ==
  ASSUME FanInv, LimitHonest, Tick, inside' = inside, outside' = outside, speed >= 0,
         ~gas_latch'.high
  PROVE  /\ fanHeadline(outside) \in {"HELD", "WAITING"} => NoFarther(speed', speed, cfg.min)
         /\ fanHeadline(outside) = "HOLDING" /\ ~AtFloor' => speed' = speed
         /\ fanHeadline(outside) = "RESTING" /\ speed' > speed =>
              speed' <= cfg.min \/ (auto_latch'.high /\ limit' = "none")
         /\ auto_on /\ liveReason(inside, outside) = "holds the maximum" /\ limit' = "none" =>
              NoFarther(speed', speed, cfg.max)
<1>1. /\ FanTypeOK /\ cfg' = cfg /\ inside' \in Int \cup {NaN} /\ speed \in Int
      /\ limit' = fan_auto_limit(inside', outside', auto_latch'.high, AutoCfg(cfg))
      /\ auto_latch' = fan_auto_latch(inside', outside', auto_latch, AutoCfg(cfg), kMinRunTicks)
  BY TickDecides DEF FanInv, FanTypeOK, TypeOK, Steps, RawSpeed, UnknownSpeed
<1>2. fanHeadline(outside) \in {"HELD", "WAITING", "HOLDING", "RESTING"} =>
        auto_on /\ ~output_fault /\ fanHeadline(outside) = autoHeadline(outside)
  <2>1. auto_on \in BOOLEAN /\ output_fault \in BOOLEAN
    BY <1>1 DEF FanTypeOK, TypeOK
  <2>2. CASE output_fault
    BY <2>2 DEF fanHeadline
  <2>3. CASE ~output_fault /\ ~auto_on
    BY <2>3, <1>1 DEF fanHeadline, RawSpeed, UnknownSpeed
  <2>4. CASE ~output_fault /\ auto_on
    BY <2>4, <1>1 DEF fanHeadline, RawSpeed, UnknownSpeed
  <2> QED
    BY <2>1, <2>2, <2>3, <2>4
<1>3. ASSUME fanHeadline(outside) \in {"HELD", "WAITING"}
      PROVE  NoFarther(speed', speed, cfg.min)
  <2>1. limit # "none"
    BY <1>2, <1>3 DEF autoHeadline
  <2>2. ~auto_latch'.high
    BY <1>1, <2>1, ShownLimitBars
  <2> QED
    BY <1>1, <2>2, ThermostatMoves DEF NoFarther
<1>4. ASSUME fanHeadline(outside) = "HOLDING", ~AtFloor' PROVE speed' = speed
  <2>1. outside = NaN
    BY <1>2, <1>4 DEF autoHeadline
  <2>2. inside' # NaN => ~fan_at_floor(inside', AutoCfg(cfg))
    BY <1>1, <1>4, ConfigRanges DEF AtFloor, fan_at_floor, AutoCfg
  <2>3. Blind(inside', outside', AutoCfg(cfg))
    BY <2>1, <2>2, Zenon DEF Blind
  <2> QED
    BY <1>1, <2>3, ThermostatMoves
<1>5. ASSUME fanHeadline(outside) = "RESTING", speed' > speed
      PROVE  speed' <= cfg.min \/ (auto_latch'.high /\ limit' = "none")
  <2>1. speed' # speed
    BY <1>1, <1>5
  <2>2. speed' <= (IF auto_latch'.high THEN cfg.max ELSE cfg.min)
    BY <1>1, <1>5, <2>1, TickBounds
  <2>3. ASSUME auto_latch'.high PROVE limit' = "none"
    <3>1. ~fan_at_floor(inside', AutoCfg(cfg))
      <4>1. SUFFICES ASSUME fan_at_floor(inside', AutoCfg(cfg)) PROVE FALSE
        OBVIOUS
      <4>2. ~Blind(inside', outside', AutoCfg(cfg))
        BY <1>1, <2>1, ThermostatMoves
      <4>3. auto_latch' = Released
        BY <1>1, <4>1, <4>2, Zenon DEF fan_auto_latch
      <4> QED
        BY <2>3, <4>3 DEF Released
    <3> QED
      BY <1>1, <2>3, <3>1, Zenon DEF fan_auto_limit
  <2> QED
    BY <2>2, <2>3
<1>6. ASSUME auto_on, liveReason(inside, outside) = "holds the maximum", limit' = "none"
      PROVE  NoFarther(speed', speed, cfg.max)
  <2>1. /\ inside # NaN /\ outside # NaN /\ gapReason(inside - outside) = "holds the maximum"
    BY <1>6 DEF liveReason
  <2>2. inside - outside >= cfg.onf
    <3>1. inside \in Int /\ outside \in Int /\ cfg.onf \in Int
      <4>1. cfg.onf \in Int /\ outside' \in Int \cup {NaN}
        BY <1>1, ConfigRanges, TickDecides DEF FanTypeOK
      <4> QED
        BY <1>1, <2>1, <4>1
    <3>2. SUFFICES ASSUME inside - outside < cfg.onf PROVE FALSE
      BY <3>1
    <3>3. gapReason(inside - outside) \in {"dropped to rest", "holds in the deadband"}
      <4>1. cfg.onf \in Int /\ cfg.offf \in Int
        BY <1>1, ConfigRanges DEF FanTypeOK
      <4> DEFINE d == inside - outside
      <4>2. d \in Int /\ d < cfg.onf
        BY <3>1, <3>2
      <4> HIDE DEF d
      <4>3. gapReason(d) \in {"dropped to rest", "holds in the deadband"}
        <5>1. ~(d >= cfg.onf) /\ d < cfg.onf /\ (d <= cfg.offf) = ~(d > cfg.offf)
          BY <4>1, <4>2
        <5> QED
          BY <5>1, Zenon DEF gapReason
      <4> QED
        BY <4>3 DEF d
    <3> QED
      BY <2>1, <3>3
  <2>3. auto_latch'.high
    BY <1>1, <1>6, <2>1, <2>2, MaximumEngages
  <2> QED
    BY <1>1, <2>3, ThermostatMoves DEF NoFarther
<1> QED
  BY <1>3, <1>4, <1>5, <1>6

(* What the page says of auto is what auto does next, on the readings it was   *)
(* said of (headline.ts, reason.ts, gauge.ts against fan/control.cpp): for any  *)
(* limits, differentials, dwell, requests and restarts.                      *)
THEOREM SaidIsAlwaysDone == FanSpec => SaidIsDone
<1>1. FanInv /\ LimitHonest /\ [FanNext]_vars =>
        [/\ inside' = inside /\ outside' = outside /\ speed >= 0 /\ ~gas_latch'.high =>
             \/ ~Tick
             \/ /\ fanHeadline(outside) \in {"HELD", "WAITING"} => NoFarther(speed', speed, cfg.min)
                /\ fanHeadline(outside) = "HOLDING" /\ ~AtFloor' => speed' = speed
                /\ fanHeadline(outside) = "RESTING" /\ speed' > speed =>
                     speed' <= cfg.min \/ (auto_latch'.high /\ limit' = "none")
                /\ auto_on /\ liveReason(inside, outside) = "holds the maximum"
                     /\ limit' = "none" => NoFarther(speed', speed, cfg.max)]_vars
  BY StepSaidIsDone
<1> QED
  BY <1>1, FanInvariant, LimitAlwaysHonest, PTL DEF FanSpec, SaidIsDone


-----------------------------------------------------------------------------
(* The broker's link.                                                       *)


Reported == Steps \cup {RawSpeed, UnknownSpeed}

StatePackets == {State(v) : v \in Reported}
SetPackets   == {EchoSet(v) : v \in Steps}
Packets      == StatePackets \cup SetPackets \cup {Subscribe}
Commands     == [v : PersonValues \cup Steps, by : {"fan", "person"}, replay : BOOLEAN]

(* The types of the link, with what the fan can have sent.                   *)
WireTypeOK ==
  /\ TypeOK
  /\ link \in {"up", "down"} /\ grace \in BOOLEAN /\ subscribed \in BOOLEAN
  /\ g_echoed_speed \in {-1} \cup Steps
  /\ to_broker \in Seq(Packets) /\ to_fan \in Seq(Commands)
  /\ retained_set \in {{}} \cup {{m} : m \in {c \in Commands : ~c.replay}}
  /\ state_topic \in {{}} \cup {{v} : v \in Reported}
  /\ link = "down" => to_broker = <<>> /\ to_fan = <<>> /\ ~subscribed /\ ~grace
  /\ astray \in BOOLEAN /\ inputs \in 0 .. kInputs /\ prompt \in BOOLEAN

Awaits(topic) == \E i \in DOMAIN to_broker : to_broker[i].topic = topic

(* A session begins with its subscription: no command is echoed before it.   *)
Opens(i, queue) ==
  /\ queue[i].topic = "subscribe"
  /\ \A j \in DOMAIN queue : j < i => queue[j].topic # "set"
  /\ \A j \in DOMAIN queue : j # i => queue[j].topic # "subscribe"

SubscribesFirst ==
  link = "up" =>
    \/ subscribed /\ ~Awaits("subscribe")
    \/ /\ ~subscribed /\ to_fan = <<>>
       /\ \E i \in DOMAIN to_broker : Opens(i, to_broker)

(* The state topic holds the fan's speed, or the last report on its way does. *)
StateOnItsWay ==
  link = "up" /\ speed # RawSpeed =>
    \/ ~Awaits("state") /\ state_topic = {speed}
    \/ \E i \in DOMAIN to_broker :
         /\ to_broker[i] = State(speed)
         /\ \A j \in DOMAIN to_broker : j > i => to_broker[j].topic # "state"

(* With no echo and no subscription on its way, the retained command is the   *)
(* last one on its way to the fan, or the one the fan carries out.           *)
CommandOnItsWay ==
  link = "up" /\ ~Awaits("set") /\ ~Awaits("subscribe") =>
    \A m \in retained_set :
      IF to_fan # <<>> THEN to_fan[Len(to_fan)].v = m.v
      ELSE m.v \in Steps /\ ~output_fault /\ speed >= 0 => m.v = speed

AgreementInv == WireTypeOK /\ SubscribesFirst /\ StateOnItsWay /\ CommandOnItsWay

-----------------------------------------------------------------------------
(* Queues.                                                                  *)
LEMMA Popped ==
  ASSUME NEW S, NEW s \in Seq(S), s # <<>>
  PROVE  /\ Len(s) \in Nat \ {0} /\ Head(s) = s[1] /\ Head(s) \in S
         /\ Tail(s) \in Seq(S) /\ DOMAIN Tail(s) = 1 .. Len(s) - 1 /\ DOMAIN s = 1 .. Len(s)
         /\ Len(Tail(s)) = Len(s) - 1
         /\ \A i \in 1 .. Len(s) - 1 : Tail(s)[i] = s[i + 1]
BY HeadTailProperties, LenProperties, ElementOfSeq

LEMMA Pushed ==
  ASSUME NEW S, NEW s \in Seq(S), NEW a \in S
  PROVE  /\ Append(s, a) \in Seq(S) /\ Len(s) \in Nat
         /\ Len(Append(s, a)) = Len(s) + 1
         /\ DOMAIN Append(s, a) = 1 .. Len(s) + 1 /\ DOMAIN s = 1 .. Len(s)
         /\ Append(s, a)[Len(s) + 1] = a
         /\ \A i \in 1 .. Len(s) : Append(s, a)[i] = s[i]
BY AppendProperties, LenProperties

LEMMA PushedTwo ==
  ASSUME NEW S, NEW s \in Seq(S), NEW a \in S, NEW b \in S
  PROVE  /\ s \o <<a, b>> \in Seq(S) /\ Len(s) \in Nat
         /\ DOMAIN (s \o <<a, b>>) = 1 .. Len(s) + 2 /\ DOMAIN s = 1 .. Len(s)
         /\ Len(s \o <<a, b>>) = Len(s) + 2
         /\ (s \o <<a, b>>)[Len(s) + 1] = a
         /\ (s \o <<a, b>>)[Len(s) + 2] = b
         /\ \A i \in 1 .. Len(s) : (s \o <<a, b>>)[i] = s[i]
<1>1. <<a, b>> \in Seq(S) /\ Len(<<a, b>>) = 2 /\ <<a, b>>[1] = a /\ <<a, b>>[2] = b
  OBVIOUS
<1>2. Len(s) \in Nat /\ DOMAIN s = 1 .. Len(s)
  BY LenProperties
<1>3. /\ s \o <<a, b>> \in Seq(S)
      /\ Len(s \o <<a, b>>) = Len(s) + 2
      /\ \A i \in 1 .. Len(s) + 2 :
           (s \o <<a, b>>)[i] = IF i <= Len(s) THEN s[i] ELSE <<a, b>>[i - Len(s)]
  BY <1>1, ConcatProperties
<1>4. DOMAIN (s \o <<a, b>>) = 1 .. Len(s) + 2
  BY <1>3, LenProperties
<1> QED
  BY <1>1, <1>2, <1>3, <1>4

(* A packet is told by its topic.                                           *)
LEMMA PacketKinds ==
  ASSUME NEW p \in Packets
  PROVE  /\ p.topic \in {"state", "set", "subscribe"}
         /\ p.topic = "state" => p = State(p.v) /\ p.v \in Reported
         /\ p.topic = "set" => p = EchoSet(p.v) /\ p.v \in Steps
         /\ p.topic = "subscribe" => p = Subscribe
         /\ p.v \in Int
BY StepsAssumption DEF Packets, StatePackets, SetPackets, State, EchoSet, Subscribe, Reported,
   Steps, RawSpeed, UnknownSpeed

-----------------------------------------------------------------------------
(* What the fan's steps do to speed and fault.                              *)

(* A fault lasts until a setting is driven and announced, or a raw duty is.   *)
Unspoken == speed' = RawSpeed \/ (speed' = speed /\ (output_fault => output_fault'))

(* apply() announces the setting it drives, and drives the setting it is asked *)
(* for unless the line refuses.                                             *)
LEMMA ApplySpeaks ==
  ASSUME TypeOK, NEW v, NEW from_mqtt \in BOOLEAN, NEW manual \in BOOLEAN,
         Apply(v, from_mqtt, manual)
  PROVE  /\ TypeOK'
         /\ \/ announced' = {} /\ Unspoken
            \/ announced' = {[speed |-> speed', from_mqtt |-> from_mqtt]} /\ speed' \in Steps
         /\ v \in Steps => output_fault' \/ speed' = v
         /\ v \notin Steps => UNCHANGED <<speed, output_fault>>
<1>1. TypeOK'
  BY ApplyTypeOK
<1> USE DEF Unspoken, Silently
<1>2. CASE ApplyRejected(v)
  BY <1>1, <1>2 DEF ApplyRejected
<1>3. CASE ApplyFailed(v)
  BY <1>1, <1>3 DEF ApplyFailed, WaveRefused
<1>4. CASE ApplyDriven(v, from_mqtt, manual)
  BY <1>1, <1>4 DEF ApplyDriven
<1>5. CASE ApplyHeld(v, manual)
  BY <1>1, <1>5 DEF ApplyHeld, Changed
<1> QED
  BY <1>2, <1>3, <1>4, <1>5 DEF Apply

Speaks ==
  \/ announced' = {} /\ Unspoken
  \/ announced' = {[speed |-> speed', from_mqtt |-> FALSE]} /\ speed' \in Steps

LocalStep == \/ \E v \in Steps : HttpSet(v)
             \/ AutoStep
             \/ \E us \in RawDuties : raw_high_us(us)
             \/ \E on \in BOOLEAN : set_auto(on)
             \/ DriverChanges \/ LineAlone

(* So does every operation that does not come from the broker.               *)
LEMMA LocalSpeaks == ASSUME TypeOK, LocalStep PROVE TypeOK' /\ Speaks
<1>1. TypeOK'
  BY StepTypeOK DEF LocalStep, Next
<1>2. CASE \E v \in Steps : HttpSet(v)
  BY <1>1, <1>2, ApplySpeaks DEF HttpSet, Speaks
<1>3. CASE AutoStep
  <2>1. PICK next \in {PrevSpeed - 1, PrevSpeed, PrevSpeed + 1} \cap Steps : AutoCommand(next)
    BY <1>3 DEF AutoStep
  <2>2. CASE Apply(next, FALSE, FALSE)
    BY <1>1, <2>2, ApplySpeaks DEF Speaks
  <2>3. CASE LineAlone
    BY <1>1, <2>3 DEF LineAlone, Silently, Speaks, Unspoken
  <2> QED
    BY <2>1, <2>2, <2>3 DEF AutoCommand
<1>4. CASE \E us \in RawDuties : raw_high_us(us)
  BY <1>1, <1>4 DEF raw_high_us, WaveRefused, Silently, Speaks, Unspoken
<1>5. CASE \E on \in BOOLEAN : set_auto(on)
  BY <1>1, <1>5 DEF set_auto, Silently, Speaks, Unspoken
<1>6. CASE DriverChanges \/ LineAlone
  BY <1>1, <1>6 DEF DriverChanges, LineAlone, Silently, Speaks, Unspoken
<1> QED
  BY <1>2, <1>3, <1>4, <1>5, <1>6 DEF LocalStep

-----------------------------------------------------------------------------
(* What each kind of step does to the wire.                                 *)
Told ==
  /\ link = "up" /\ speed' \in Steps
  /\ to_broker' = to_broker \o <<State(speed'), EchoSet(speed')>>
  /\ g_echoed_speed' = speed'

Untold == (link = "up" => Unspoken) /\ UNCHANGED <<to_broker, g_echoed_speed>>

FromHere == (LocalInput /\ Outside) \/ LoopIdles

LEMMA LocalMoves ==
  ASSUME WireTypeOK, FromHere
  PROVE  /\ Quiet /\ TypeOK' /\ (Told \/ Untold)
         /\ UNCHANGED <<link, grace, to_fan, subscribed, retained_set, state_topic, astray, prompt>>
         /\ inputs' \in 0 .. kInputs
<1>1. /\ Quiet /\ LocalStep /\ notify
      /\ UNCHANGED <<link, grace, to_fan, subscribed, retained_set, state_topic, astray>>
  BY Zenon DEF FromHere, LocalInput, LoopIdles, Local, LocalStep
<1>2. TypeOK' /\ Speaks
  BY <1>1, LocalSpeaks DEF WireTypeOK
<1>3. inputs' \in 0 .. kInputs /\ UNCHANGED prompt
  <2>1. inputs \in 0 .. kInputs
    BY DEF WireTypeOK
  <2>2. Outside \/ UNCHANGED <<inputs, prompt>>
    BY DEF FromHere, LoopIdles
  <2> QED
    BY <2>1, <2>2, MqttAssumption DEF Outside
<1>4. CASE announced' = {} /\ Unspoken
  <2>1. {a.speed : a \in announced'} = {}
    BY <1>4
  <2>2. UNCHANGED <<to_broker, g_echoed_speed>>
    BY <1>1, <2>1 DEF notify
  <2> QED
    BY <1>1, <1>2, <1>3, <1>4, <2>2 DEF Untold
<1>5. CASE announced' = {[speed |-> speed', from_mqtt |-> FALSE]} /\ speed' \in Steps
  <2>1. {a.speed : a \in announced'} = {speed'}
    BY <1>5
  <2>2. CASE link = "up"
    <3>1. to_broker' = to_broker \o <<State(speed'), EchoSet(speed')>> /\ g_echoed_speed' = speed'
      BY <1>1, <2>1, <2>2 DEF notify
    <3> QED
      BY <1>1, <1>2, <1>3, <1>5, <2>2, <3>1 DEF Told
  <2>3. CASE link # "up"
    BY <1>1, <1>2, <1>3, <2>3 DEF notify, Untold
  <2> QED
    BY <2>2, <2>3
<1> QED
  BY <1>2, <1>4, <1>5 DEF Speaks

(* A command taken from the queue: read and obeyed, or ignored.              *)
Obeyed ==
  /\ Head(to_fan).v \in Readable
  /\ to_broker' = Append(to_broker, State(speed'))
  /\ g_echoed_speed' = -1 /\ astray' = FALSE
  /\ Head(to_fan).v \in Steps => output_fault' \/ speed' = Head(to_fan).v

Ignored == Head(to_fan).v \notin Readable
             /\ UNCHANGED <<fan_vars, to_broker, g_echoed_speed, astray>>

LEMMA MessageMoves ==
  ASSUME WireTypeOK, on_message
  PROVE  /\ link = "up" /\ to_fan # <<>> /\ Head(to_fan) \in Commands
         /\ TypeOK' /\ speed' \in Reported
         /\ to_fan' = Tail(to_fan)
         /\ Obeyed \/ Ignored
         /\ UNCHANGED <<link, grace, subscribed, retained_set, state_topic, inputs, prompt>>
<1>1. to_fan # <<>> /\ to_fan \in Seq(Commands) /\ link = "up" /\ TypeOK
  BY DEF on_message, WireTypeOK
<1>2. Head(to_fan) \in Commands
  BY <1>1, Popped
<1>3. CASE Obey(Head(to_fan))
  <2>1. Manual \in BOOLEAN /\ Apply(Head(to_fan).v, TRUE, Manual)
    BY <1>3, Zenon DEF Obey, Manual
  <2>2. TypeOK' /\ (Head(to_fan).v \in Steps => output_fault' \/ speed' = Head(to_fan).v)
    BY <1>1, <2>1, ApplySpeaks
  <2>3. TypeOK' /\ Obeyed
    BY <1>3, <2>2 DEF Obey, Obeyed
  <2> QED
    BY <1>1, <1>2, <2>3 DEF on_message, TypeOK, Reported
<1>4. CASE Ignore(Head(to_fan))
  <2>1. TypeOK' /\ Ignored
    BY <1>1, <1>4 DEF Ignore, Ignored, fan_vars, TypeOK
  <2> QED
    BY <1>1, <1>2, <2>1 DEF on_message, TypeOK, Reported
<1> QED
  BY <1>1, <1>3, <1>4 DEF on_message

(* A packet the broker takes: a report, an echo or the subscription.         *)
Delivered(m) == retained_set' = (IF m.v = Empty THEN {} ELSE {m}) /\ to_fan' = IF subscribed THEN Append(to_fan, m) ELSE to_fan

Replayed == IF retained_set = {} THEN to_fan' = to_fan
            ELSE \E m \in Commands : /\ m.replay /\ \A r \in retained_set : m.v = r.v
                                     /\ to_fan' = Append(to_fan, m)

LEMMA BrokerMoves ==
  ASSUME WireTypeOK, BrokerTakes
  PROVE  /\ link = "up" /\ to_broker # <<>> /\ Head(to_broker) \in Packets
         /\ to_broker' = Tail(to_broker)
         /\ UNCHANGED <<fan_vars, link, grace, g_echoed_speed, astray, inputs, prompt>>
         /\ \/ /\ Head(to_broker).topic = "state" /\ state_topic' = {Head(to_broker).v}
               /\ UNCHANGED <<to_fan, subscribed, retained_set>>
            \/ /\ Head(to_broker).topic = "set"
               /\ Delivered(Command(Head(to_broker).v, "fan"))
               /\ UNCHANGED <<subscribed, state_topic>>
            \/ /\ Head(to_broker).topic = "subscribe" /\ subscribed' = TRUE /\ Replayed
               /\ UNCHANGED <<retained_set, state_topic>>
<1>1. to_broker # <<>> /\ to_broker \in Seq(Packets) /\ link = "up"
  BY DEF BrokerTakes, WireTypeOK
<1>2. Head(to_broker) \in Packets
  BY <1>1, Popped
<1>3. ASSUME to_fan' = to_fan \o Replay(retained_set) PROVE Replayed
  <2>1. CASE retained_set = {}
    BY <1>3, <2>1, ConcatEmptySeq DEF Replay, Replayed, WireTypeOK
  <2>2. CASE retained_set # {}
    <3>1. PICK r \in Commands : retained_set = {r}
      BY <2>2 DEF WireTypeOK
    <3>2. (CHOOSE m \in retained_set : TRUE) = r
      BY <3>1
    <3> DEFINE m == [r EXCEPT !.replay = TRUE]
    <3>3. m \in Commands /\ m.replay /\ m.v = r.v
      BY DEF Commands
    <3>4. to_fan' = to_fan \o <<m>>
      BY <1>3, <2>2, <3>2 DEF Replay
    <3>5. to_fan' = Append(to_fan, m)
      BY <3>3, <3>4, AppendIsConcat DEF WireTypeOK
    <3> QED
      BY <2>2, <3>1, <3>3, <3>5 DEF Replayed
  <2> QED
    BY <2>1, <2>2
<1> QED
  BY <1>1, <1>2, <1>3, Zenon DEF BrokerTakes, Deliver, Delivered

-----------------------------------------------------------------------------
(* Types.                                                                   *)
Cut == LinkDrops \/ DeviceRestarts

LEMMA StepKinds ==
  ASSUME [MqttNext]_mqtt_vars
  PROVE  \/ FromHere \/ on_message \/ connect \/ GraceEnds \/ BrokerTakes
         \/ \E v \in PersonValues : PersonPublishes(v)
         \/ Cut \/ UNCHANGED mqtt_vars
BY Zenon DEF MqttNext, FromBroker, FromHere, Cut

LEMMA CommandIs ==
  ASSUME NEW v \in PersonValues \cup Steps, NEW by \in {"fan", "person"}
  PROVE  Command(v, by) \in Commands /\ ~Command(v, by).replay /\ Command(v, by).v = v
BY DEF Command, Commands

LEMMA WireTypesStep == ASSUME WireTypeOK, [MqttNext]_mqtt_vars PROVE WireTypeOK'
<1>1. ASSUME FromHere PROVE WireTypeOK'
  <2>1. /\ TypeOK' /\ (Told \/ Untold) /\ inputs' \in 0 .. kInputs
        /\ UNCHANGED <<link, grace, to_fan, subscribed, retained_set, state_topic, astray, prompt>>
    BY <1>1, LocalMoves
  <2>2. CASE Told
    <3>1. State(speed') \in Packets /\ EchoSet(speed') \in Packets
      BY <2>2 DEF Told, Packets, StatePackets, SetPackets, Reported
    <3>2. to_broker' \in Seq(Packets)
      BY <2>2, <3>1, PushedTwo DEF Told, WireTypeOK
    <3> QED
      BY <2>1, <2>2, <3>2 DEF Told, WireTypeOK
  <2>3. CASE Untold
    BY <2>1, <2>3 DEF Untold, WireTypeOK
  <2> QED
    BY <2>1, <2>2, <2>3
<1>2. ASSUME on_message PROVE WireTypeOK'
  <2>1. State(speed') \in Packets /\ to_fan # <<>> /\ link = "up"
    BY <1>2, MessageMoves DEF Packets, StatePackets
  <2>2. Append(to_broker, State(speed')) \in Seq(Packets) /\ Tail(to_fan) \in Seq(Commands)
    BY <2>1, Pushed, Popped DEF WireTypeOK
  <2>3. to_broker' \in Seq(Packets) /\ g_echoed_speed' \in {-1} \cup Steps /\ astray' \in BOOLEAN
    BY <1>2, <2>2, MessageMoves DEF Obeyed, Ignored, WireTypeOK
  <2> QED
    BY <1>2, <2>1, <2>2, <2>3, MessageMoves DEF WireTypeOK
<1>3. ASSUME connect PROVE WireTypeOK'
  <2>1. State(speed) \in Packets /\ Subscribe \in Packets
    BY DEF WireTypeOK, TypeOK, Packets, StatePackets, Reported
  <2>2. to_broker' \in Seq(Packets)
    BY <1>3, <2>1 DEF connect
  <2> QED
    BY <1>3, <2>2 DEF connect, WireTypeOK, fan_vars, TypeOK
<1>4. ASSUME GraceEnds PROVE WireTypeOK'
  <2>1. TypeOK'
    BY <1>4 DEF GraceEnds, WireTypeOK, fan_vars, TypeOK
  <2>2. grace' = FALSE
    BY <1>4 DEF GraceEnds
  <2> QED
    BY <1>4, <2>1, <2>2 DEF GraceEnds, WireTypeOK
<1>5. ASSUME BrokerTakes PROVE WireTypeOK'
  <2> DEFINE p == Head(to_broker)
  <2>1. /\ link = "up" /\ to_broker # <<>> /\ p \in Packets /\ to_broker' = Tail(to_broker)
        /\ UNCHANGED <<fan_vars, link, grace, g_echoed_speed, astray, inputs, prompt>>
    BY <1>5, BrokerMoves
  <2>2. Tail(to_broker) \in Seq(Packets)
    BY <2>1, Popped DEF WireTypeOK
  <2>3. CASE p.topic = "state" /\ state_topic' = {p.v} /\ UNCHANGED <<to_fan, subscribed, retained_set>>
    <3>1. p.v \in Reported
      BY <2>1, <2>3, PacketKinds
    <3> QED
      BY <2>1, <2>2, <2>3, <3>1 DEF WireTypeOK, fan_vars, TypeOK
  <2>4. CASE p.topic = "set" /\ Delivered(Command(p.v, "fan")) /\ UNCHANGED <<subscribed, state_topic>>
    <3> DEFINE m == Command(p.v, "fan")
    <3>1. m \in Commands /\ ~m.replay
      BY <2>1, <2>4, PacketKinds, CommandIs
    <3>2. to_fan' \in Seq(Commands) /\ retained_set' \in {{}, {m}}
      BY <2>4, <3>1, Pushed DEF Delivered, WireTypeOK
    <3> QED
      BY <2>1, <2>2, <2>4, <3>1, <3>2 DEF WireTypeOK, fan_vars, TypeOK
  <2>5. CASE p.topic = "subscribe" /\ subscribed' = TRUE /\ Replayed /\ UNCHANGED <<retained_set, state_topic>>
    <3>1. to_fan' \in Seq(Commands)
      BY <2>5, Pushed DEF Replayed, WireTypeOK
    <3> QED
      BY <2>1, <2>2, <2>5, <3>1 DEF WireTypeOK, fan_vars, TypeOK
  <2> QED
    BY <1>5, <2>3, <2>4, <2>5, BrokerMoves
<1>6. ASSUME NEW v \in PersonValues, PersonPublishes(v) PROVE WireTypeOK'
  <2> DEFINE m == Command(v, "person")
  <2>1. m \in Commands /\ ~m.replay
    BY CommandIs
  <2>2. to_fan' \in Seq(Commands) /\ retained_set' \in {{}, {m}} /\ (~subscribed => to_fan' = to_fan)
    BY <1>6, <2>1, Pushed DEF PersonPublishes, Deliver, WireTypeOK
  <2>3. inputs' \in 0 .. kInputs /\ prompt' = prompt
    BY <1>6, MqttAssumption DEF PersonPublishes, Outside, WireTypeOK
  <2> QED
    BY <1>6, <2>1, <2>2, <2>3 DEF PersonPublishes, WireTypeOK, fan_vars, TypeOK
<1>7. ASSUME Cut PROVE WireTypeOK'
  <2>1. inputs' \in 0 .. kInputs /\ prompt' = prompt /\ SessionLost
        /\ UNCHANGED <<retained_set, state_topic>>
    BY <1>7, MqttAssumption DEF Cut, LinkDrops, DeviceRestarts, Outside, WireTypeOK
  <2>2. TypeOK'
    BY <1>7, RestartTypeOK DEF Cut, LinkDrops, DeviceRestarts, WireTypeOK, fan_vars, TypeOK
  <2>3. g_echoed_speed' \in {-1} \cup Steps /\ astray' \in BOOLEAN
    BY <1>7 DEF Cut, LinkDrops, DeviceRestarts, EchoUnderWay, WireTypeOK
  <2>4. to_broker' \in Seq(Packets) /\ to_fan' \in Seq(Commands)
    BY <2>1 DEF SessionLost
  <2> QED
    BY <2>1, <2>2, <2>3, <2>4 DEF SessionLost, WireTypeOK
<1>8. ASSUME UNCHANGED mqtt_vars PROVE WireTypeOK'
  BY <1>8 DEF mqtt_vars, link_vars, fan_vars, WireTypeOK, TypeOK
<1> QED
  BY <1>1, <1>2, <1>3, <1>4, <1>5, <1>6, <1>7, <1>8, StepKinds

-----------------------------------------------------------------------------
(* A session begins with its subscription.                                  *)
LEMMA SubscribesStep ==
  ASSUME WireTypeOK, SubscribesFirst, [MqttNext]_mqtt_vars PROVE SubscribesFirst'
<1> SUFFICES ASSUME link' = "up" PROVE SubscribesFirst'
  BY DEF SubscribesFirst
<1>q. to_broker \in Seq(Packets) /\ to_fan \in Seq(Commands) /\ Len(to_broker) \in Nat
      /\ DOMAIN to_broker = 1 .. Len(to_broker)
  BY LenProperties DEF WireTypeOK
<1>k. \A i \in 1 .. Len(to_broker) : to_broker[i] \in Packets
  BY <1>q, ElementOfSeq
<1> USE DEF SubscribesFirst, Awaits
<1>1. ASSUME FromHere PROVE SubscribesFirst'
  <2>1. Told \/ (Untold /\ UNCHANGED <<link, to_fan, subscribed>>)
    BY <1>1, LocalMoves
  <2>2. CASE Told
    <3>1. /\ State(speed') \in Packets /\ EchoSet(speed') \in Packets
          /\ State(speed').topic = "state" /\ EchoSet(speed').topic = "set"
      BY <2>2 DEF Told, Packets, StatePackets, SetPackets, Reported, State, EchoSet
    <3>2. /\ DOMAIN to_broker' = 1 .. Len(to_broker) + 2
          /\ to_broker'[Len(to_broker) + 1].topic = "state"
          /\ to_broker'[Len(to_broker) + 2].topic = "set"
          /\ \A i \in 1 .. Len(to_broker) : to_broker'[i] = to_broker[i]
      BY <2>2, <3>1, <1>q, PushedTwo DEF Told
    <3>3. UNCHANGED <<to_fan, subscribed>> /\ link = "up"
      BY <1>1, <2>2, LocalMoves DEF Told
    <3>4. CASE subscribed /\ ~Awaits("subscribe")
      BY <3>2, <3>3, <3>4, <1>q
    <3>5. ASSUME ~subscribed, to_fan = <<>>, NEW i \in DOMAIN to_broker, Opens(i, to_broker)
          PROVE  SubscribesFirst'
      <4>1. i \in DOMAIN to_broker' /\ Opens(i, to_broker')
        BY <3>2, <3>5, <1>q DEF Opens
      <4> QED
        BY <3>3, <3>5, <4>1
    <3> QED
      BY <3>3, <3>4, <3>5
  <2>3. CASE Untold
    BY <2>1, <2>3, <1>1, LocalMoves DEF Untold
  <2> QED
    BY <2>1, <2>2, <2>3
<1>2. ASSUME on_message PROVE SubscribesFirst'
  <2>1. /\ State(speed') \in Packets /\ to_fan # <<>> /\ link = "up" /\ subscribed' = subscribed
        /\ to_broker' \in {to_broker, Append(to_broker, State(speed'))}
    BY <1>2, MessageMoves DEF Packets, StatePackets, Obeyed, Ignored
  <2>2. /\ DOMAIN Append(to_broker, State(speed')) = 1 .. Len(to_broker) + 1
        /\ Append(to_broker, State(speed'))[Len(to_broker) + 1].topic = "state"
        /\ \A i \in 1 .. Len(to_broker) : Append(to_broker, State(speed'))[i] = to_broker[i]
    BY <2>1, <1>q, Pushed DEF State
  <2>3. subscribed /\ ~Awaits("subscribe")
    BY <2>1
  <2> QED
    BY <2>1, <2>2, <2>3, <1>q
<1>3. ASSUME connect PROVE SubscribesFirst'
  <2>1. /\ to_broker' = <<State(speed), Subscribe>> /\ to_fan' = <<>> /\ ~subscribed'
    BY <1>3 DEF connect, WireTypeOK
  <2>2. /\ DOMAIN to_broker' = {1, 2} /\ to_broker'[1].topic = "state"
        /\ to_broker'[2].topic = "subscribe"
    BY <2>1 DEF State, Subscribe
  <2>3. 2 \in DOMAIN to_broker' /\ Opens(2, to_broker')
    BY <2>2 DEF Opens
  <2> QED
    BY <2>1, <2>3
<1>4. ASSUME GraceEnds PROVE SubscribesFirst'
  BY <1>4 DEF GraceEnds
<1>5. ASSUME BrokerTakes PROVE SubscribesFirst'
  <2> DEFINE p == Head(to_broker)
  <2>1. /\ link = "up" /\ to_broker # <<>> /\ p \in Packets /\ to_broker' = Tail(to_broker)
    BY <1>5, BrokerMoves
  <2>2. /\ p = to_broker[1] /\ Len(to_broker) >= 1
        /\ DOMAIN to_broker' = 1 .. Len(to_broker) - 1
        /\ \A i \in 1 .. Len(to_broker) - 1 : to_broker'[i] = to_broker[i + 1]
    BY <2>1, <1>q, Popped
  <2> HIDE DEF p
  <2>3. CASE p.topic # "subscribe"
    <3>1. subscribed' = subscribed /\ (~subscribed /\ p.topic # "set" => to_fan' = to_fan)
      BY <1>5, <2>3, BrokerMoves DEF p
    <3>2. CASE subscribed
      BY <3>1, <3>2, <2>1, <2>2, <1>q
    <3>3. CASE ~subscribed
      <4>1. PICK i \in 1 .. Len(to_broker) : Opens(i, to_broker) /\ to_fan = <<>>
        BY <3>3, <2>1, <1>q
      <4>5. /\ to_broker[i].topic = "subscribe"
            /\ \A j \in 1 .. Len(to_broker) : j < i => to_broker[j].topic # "set"
            /\ \A j \in 1 .. Len(to_broker) : j # i => to_broker[j].topic # "subscribe"
        BY <4>1, <1>q DEF Opens
      <4>2. i > 1 /\ p.topic # "set"
        BY <4>5, <2>2, <2>3, <1>q
      <4>3. i - 1 \in DOMAIN to_broker' /\ Opens(i - 1, to_broker')
        <5>1. i - 1 \in DOMAIN to_broker' /\ to_broker'[i - 1] = to_broker[i]
          BY <4>2, <2>2, <1>q
        <5>2. \A j \in DOMAIN to_broker' : j < i - 1 => to_broker'[j].topic # "set"
          BY <4>5, <4>2, <2>2, <1>q
        <5>3. \A j \in DOMAIN to_broker' : j # i - 1 => to_broker'[j].topic # "subscribe"
          BY <4>5, <4>2, <2>2, <1>q
        <5> QED
          BY <4>5, <5>1, <5>2, <5>3 DEF Opens
      <4>4. ~subscribed' /\ to_fan' = <<>>
        BY <3>1, <3>3, <4>1, <4>2
      <4> QED
        BY <4>3, <4>4
    <3> QED
      BY <3>2, <3>3
  <2>4. CASE p.topic = "subscribe"
    <3>1. subscribed' = TRUE
      BY <1>5, <2>4, BrokerMoves DEF p
    <3>2. Awaits("subscribe") /\ 1 \in 1 .. Len(to_broker)
      BY <2>2, <2>4, <1>q
    <3>3. PICK i \in 1 .. Len(to_broker) : Opens(i, to_broker)
      BY <2>1, <3>2, <1>q
    <3>4. \A j \in 1 .. Len(to_broker) : j # i => to_broker[j].topic # "subscribe"
      BY <3>3, <1>q DEF Opens
    <3>5. i = 1
      BY <3>2, <3>4, <2>2, <2>4
    <3>6. ~Awaits("subscribe")'
      BY <3>4, <3>5, <2>2, <1>q
    <3> QED
      BY <3>1, <3>6
  <2> QED
    BY <2>3, <2>4
<1>6. ASSUME NEW v \in PersonValues, PersonPublishes(v) PROVE SubscribesFirst'
  BY <1>6 DEF PersonPublishes, Deliver
<1>7. ASSUME Cut PROVE SubscribesFirst'
  BY <1>7 DEF Cut, LinkDrops, DeviceRestarts, SessionLost
<1>8. ASSUME UNCHANGED mqtt_vars PROVE SubscribesFirst'
  BY <1>8 DEF mqtt_vars, link_vars
<1> QED
  BY <1>1, <1>2, <1>3, <1>4, <1>5, <1>6, <1>7, <1>8, StepKinds

-----------------------------------------------------------------------------
(* The state topic.                                                         *)
LEMMA StateStep ==
  ASSUME WireTypeOK, StateOnItsWay, [MqttNext]_mqtt_vars PROVE StateOnItsWay'
<1> SUFFICES ASSUME link' = "up", speed' # RawSpeed PROVE StateOnItsWay'
  BY DEF StateOnItsWay
<1>q. to_broker \in Seq(Packets) /\ Len(to_broker) \in Nat
      /\ DOMAIN to_broker = 1 .. Len(to_broker)
  BY LenProperties DEF WireTypeOK
<1> USE DEF StateOnItsWay, Awaits
<1>1. ASSUME FromHere PROVE StateOnItsWay'
  <2>1. Told \/ Untold
    BY <1>1, LocalMoves
  <2>2. CASE Told
    <3>1. /\ State(speed') \in Packets /\ EchoSet(speed') \in Packets
          /\ EchoSet(speed').topic = "set"
      BY <2>2 DEF Told, Packets, StatePackets, SetPackets, Reported, State, EchoSet
    <3>2. /\ DOMAIN to_broker' = 1 .. Len(to_broker) + 2
          /\ to_broker'[Len(to_broker) + 1] = State(speed')
          /\ to_broker'[Len(to_broker) + 2].topic = "set"
      BY <2>2, <3>1, <1>q, PushedTwo DEF Told
    <3> QED
      BY <3>2, <1>q
  <2>3. CASE Untold
    BY <2>3, <1>1, LocalMoves DEF Untold, Unspoken
  <2> QED
    BY <2>1, <2>2, <2>3
<1>2. ASSUME on_message PROVE StateOnItsWay'
  <2>1. CASE Obeyed
    <3>1. State(speed') \in Packets /\ to_broker' = Append(to_broker, State(speed'))
      BY <1>2, <2>1, MessageMoves DEF Packets, StatePackets, Obeyed
    <3>2. /\ DOMAIN to_broker' = 1 .. Len(to_broker) + 1
          /\ to_broker'[Len(to_broker) + 1] = State(speed')
      BY <3>1, <1>q, Pushed
    <3> QED
      BY <3>2, <1>q
  <2>2. CASE Ignored
    BY <1>2, <2>2, MessageMoves DEF Ignored, fan_vars
  <2> QED
    BY <1>2, <2>1, <2>2, MessageMoves
<1>3. ASSUME connect PROVE StateOnItsWay'
  <2>1. to_broker' = <<State(speed), Subscribe>> /\ speed' = speed
    BY <1>3 DEF connect, fan_vars
  <2>2. /\ DOMAIN to_broker' = {1, 2} /\ to_broker'[1] = State(speed')
        /\ to_broker'[2].topic = "subscribe"
    BY <2>1 DEF Subscribe
  <2> QED
    BY <2>2
<1>4. ASSUME GraceEnds PROVE StateOnItsWay'
  BY <1>4 DEF GraceEnds, fan_vars
<1>5. ASSUME BrokerTakes PROVE StateOnItsWay'
  <2> DEFINE p == Head(to_broker)
  <2>1. /\ link = "up" /\ to_broker # <<>> /\ p \in Packets /\ to_broker' = Tail(to_broker)
        /\ speed' = speed
    BY <1>5, BrokerMoves DEF fan_vars
  <2>2. /\ p = to_broker[1] /\ Len(to_broker) >= 1
        /\ DOMAIN to_broker' = 1 .. Len(to_broker) - 1
        /\ \A i \in 1 .. Len(to_broker) - 1 : to_broker'[i] = to_broker[i + 1]
    BY <2>1, <1>q, Popped
  <2>3. /\ p.topic = "state" => state_topic' = {p.v}
        /\ p.topic # "state" => state_topic' = state_topic
    BY <1>5, BrokerMoves
  <2> HIDE DEF p
  <2>4. CASE ~Awaits("state") /\ state_topic = {speed}
    BY <2>1, <2>2, <2>3, <2>4, <1>q
  <2>5. ASSUME NEW i \in DOMAIN to_broker, to_broker[i] = State(speed),
               \A j \in DOMAIN to_broker : j > i => to_broker[j].topic # "state"
        PROVE  StateOnItsWay'
    <3>1. CASE i = 1
      <4>1. p = State(speed) /\ p.topic = "state" /\ p.v = speed
        BY <2>2, <2>5, <3>1 DEF State
      <4> QED
        BY <4>1, <2>1, <2>2, <2>3, <2>5, <3>1, <1>q
    <3>2. CASE i > 1
      <4>1. i - 1 \in DOMAIN to_broker' /\ to_broker'[i - 1] = State(speed')
        BY <2>1, <2>2, <2>5, <3>2, <1>q
      <4>2. \A j \in DOMAIN to_broker' : j > i - 1 => to_broker'[j].topic # "state"
        BY <2>2, <2>5, <3>2, <1>q, SMTT(30)
      <4> QED
        BY <4>1, <4>2
    <3> QED
      BY <3>1, <3>2, <2>5, <1>q
  <2> QED
    BY <2>1, <2>4, <2>5
<1>6. ASSUME NEW v \in PersonValues, PersonPublishes(v) PROVE StateOnItsWay'
  BY <1>6 DEF PersonPublishes, fan_vars
<1>7. ASSUME Cut PROVE StateOnItsWay'
  BY <1>7 DEF Cut, LinkDrops, DeviceRestarts, SessionLost
<1>8. ASSUME UNCHANGED mqtt_vars PROVE StateOnItsWay'
  BY <1>8 DEF mqtt_vars, link_vars, fan_vars
<1> QED
  BY <1>1, <1>2, <1>3, <1>4, <1>5, <1>6, <1>7, <1>8, StepKinds

-----------------------------------------------------------------------------
(* The retained command.                                                    *)
LEMMA CommandStep ==
  ASSUME WireTypeOK, SubscribesFirst, CommandOnItsWay, [MqttNext]_mqtt_vars
  PROVE  CommandOnItsWay'
<1> SUFFICES ASSUME link' = "up", ~Awaits("set")', ~Awaits("subscribe")' PROVE CommandOnItsWay'
  BY DEF CommandOnItsWay
<1>q. /\ to_broker \in Seq(Packets) /\ Len(to_broker) \in Nat
      /\ DOMAIN to_broker = 1 .. Len(to_broker)
      /\ to_fan \in Seq(Commands) /\ Len(to_fan) \in Nat
  BY LenProperties DEF WireTypeOK
<1>1. ASSUME FromHere PROVE CommandOnItsWay'
  <2>1. Told \/ Untold
    BY <1>1, LocalMoves
  <2>2. CASE Told
    <3>1. /\ State(speed') \in Packets /\ EchoSet(speed') \in Packets
          /\ EchoSet(speed').topic = "set"
      BY <2>2 DEF Told, Packets, StatePackets, SetPackets, Reported, State, EchoSet
    <3>2. Len(to_broker) + 2 \in DOMAIN to_broker' /\ to_broker'[Len(to_broker) + 2].topic = "set"
      BY <2>2, <3>1, <1>q, PushedTwo DEF Told
    <3> QED
      BY <3>2 DEF Awaits
  <2>3. CASE Untold
    <3>1. /\ Unspoken /\ ~Awaits("set") /\ ~Awaits("subscribe") /\ link = "up"
          /\ UNCHANGED <<to_fan, retained_set>>
      BY <2>3, <1>1, LocalMoves DEF Untold, Awaits
    <3> QED
      BY <3>1 DEF CommandOnItsWay, Unspoken, RawSpeed
  <2> QED
    BY <2>1, <2>2, <2>3
<1>2. ASSUME on_message PROVE CommandOnItsWay'
  <2>1. /\ State(speed') \in Packets /\ to_broker' \in {to_broker, Append(to_broker, State(speed'))}
        /\ link = "up" /\ to_fan # <<>> /\ to_fan' = Tail(to_fan) /\ retained_set' = retained_set
        /\ Head(to_fan).v \in Steps => output_fault' \/ speed' = Head(to_fan).v
    BY <1>2, MessageMoves, MqttAssumption DEF Packets, StatePackets, Obeyed, Ignored
  <2>2. /\ DOMAIN to_broker \subseteq DOMAIN to_broker'
        /\ \A i \in 1 .. Len(to_broker) : to_broker'[i] = to_broker[i]
    BY <2>1, <1>q, Pushed
  <2>3. ~Awaits("set") /\ ~Awaits("subscribe")
    BY <2>2, <1>q DEF Awaits
  <2>4. \A m \in retained_set : to_fan[Len(to_fan)].v = m.v
    BY <2>1, <2>3 DEF CommandOnItsWay
  <2>5. /\ Head(to_fan) = to_fan[1] /\ Len(to_fan) \in Nat \ {0}
        /\ Tail(to_fan) \in Seq(Commands) /\ Len(Tail(to_fan)) = Len(to_fan) - 1
        /\ \A i \in 1 .. Len(to_fan) - 1 : Tail(to_fan)[i] = to_fan[i + 1]
    BY <2>1, <1>q, Popped
  <2>6. CASE Len(to_fan) = 1
    <3>1. to_fan' = <<>>
      BY <2>1, <2>5, <2>6, EmptySeq
    <3>2. \A m \in retained_set' : m.v \in Steps /\ ~output_fault' => m.v = speed'
      BY <2>1, <2>4, <2>5, <2>6
    <3> QED
      BY <3>1, <3>2 DEF CommandOnItsWay
  <2>7. CASE Len(to_fan) > 1
    <3>1. to_fan' # <<>> /\ to_fan'[Len(to_fan')] = to_fan[Len(to_fan)]
      BY <2>1, <2>5, <2>7
    <3> QED
      BY <2>1, <2>4, <3>1 DEF CommandOnItsWay
  <2> QED
    BY <2>5, <2>6, <2>7
<1>3. ASSUME connect PROVE CommandOnItsWay'
  <2>1. to_broker' = <<State(speed), Subscribe>>
    BY <1>3 DEF connect
  <2>2. 2 \in DOMAIN to_broker' /\ to_broker'[2].topic = "subscribe"
    BY <2>1 DEF Subscribe
  <2> QED
    BY <2>2 DEF Awaits
<1>4. ASSUME GraceEnds PROVE CommandOnItsWay'
  BY <1>4 DEF GraceEnds, fan_vars, CommandOnItsWay, Awaits
<1>5. ASSUME BrokerTakes PROVE CommandOnItsWay'
  <2> DEFINE p == Head(to_broker)
  <2>1. /\ link = "up" /\ to_broker # <<>> /\ p \in Packets /\ to_broker' = Tail(to_broker)
        /\ UNCHANGED <<speed, output_fault>>
    BY <1>5, BrokerMoves DEF fan_vars
  <2>2. /\ p = to_broker[1] /\ Len(to_broker) >= 1
        /\ DOMAIN to_broker' = 1 .. Len(to_broker) - 1
        /\ \A i \in 1 .. Len(to_broker) - 1 : to_broker'[i] = to_broker[i + 1]
    BY <2>1, <1>q, Popped
  <2>3. \A i \in 2 .. Len(to_broker) : to_broker[i].topic \notin {"set", "subscribe"}
    <3>1. ASSUME NEW i \in 2 .. Len(to_broker) PROVE to_broker[i].topic \notin {"set", "subscribe"}
      <4>1. i - 1 \in DOMAIN to_broker' /\ to_broker'[i - 1] = to_broker[i]
        BY <2>2, <1>q
      <4> QED
        BY <4>1 DEF Awaits
    <3> QED
      BY <3>1
  <2>4. CASE p.topic = "state"
    <3>1. UNCHANGED <<to_fan, retained_set>>
      BY <1>5, <2>4, BrokerMoves
    <3>2. ~Awaits("set") /\ ~Awaits("subscribe")
      BY <2>2, <2>3, <2>4, <1>q DEF Awaits
    <3> QED
      BY <2>1, <3>1, <3>2 DEF CommandOnItsWay
  <2>5. CASE p.topic = "set"
    <3> DEFINE m == Command(p.v, "fan")
    <3>1. ~Awaits("subscribe") /\ 1 \in DOMAIN to_broker
      BY <2>2, <2>3, <2>5, <1>q DEF Awaits
    <3>2. subscribed
      BY <2>1, <3>1 DEF SubscribesFirst, Opens, Awaits
    <3>3. retained_set' \in {{}, {m}} /\ to_fan' = Append(to_fan, m)
      BY <1>5, <2>5, <3>2, BrokerMoves DEF Delivered
    <3>4. m \in Commands
      BY <2>1, <2>5, PacketKinds, CommandIs
    <3>5. to_fan' # <<>> /\ to_fan'[Len(to_fan')] = m
      BY <3>3, <3>4, <1>q, Pushed
    <3> HIDE DEF m
    <3> QED
      BY <3>3, <3>5 DEF CommandOnItsWay
  <2>6. CASE p.topic = "subscribe"
    <3>1. Replayed /\ retained_set' = retained_set
      BY <1>5, <2>6, BrokerMoves
    <3>2. CASE retained_set = {}
      BY <3>1, <3>2 DEF CommandOnItsWay
    <3>3. CASE retained_set # {}
      <4>1. PICK m \in Commands : (\A r \in retained_set : m.v = r.v) /\ to_fan' = Append(to_fan, m)
        BY <3>1, <3>3 DEF Replayed
      <4>2. to_fan' # <<>> /\ to_fan'[Len(to_fan')] = m
        BY <4>1, <1>q, Pushed
      <4> QED
        BY <3>1, <4>1, <4>2 DEF CommandOnItsWay
    <3> QED
      BY <3>2, <3>3
  <2> QED
    BY <2>1, <2>4, <2>5, <2>6, PacketKinds
<1>6. ASSUME NEW v \in PersonValues, PersonPublishes(v) PROVE CommandOnItsWay'
  <2> DEFINE m == Command(v, "person")
  <2>1. /\ retained_set' \in {{}, {m}} /\ to_broker' = to_broker /\ link = "up"
        /\ subscribed => to_fan' = Append(to_fan, m)
    BY <1>6 DEF PersonPublishes, Deliver
  <2>2. subscribed
    BY <2>1 DEF SubscribesFirst, Opens, Awaits
  <2>3. m \in Commands
    BY CommandIs
  <2> HIDE DEF m
  <2>4. to_fan' # <<>> /\ to_fan'[Len(to_fan')] = m
    BY <2>1, <2>2, <2>3, <1>q, Pushed
  <2> QED
    BY <2>1, <2>4 DEF CommandOnItsWay
<1>7. ASSUME Cut PROVE CommandOnItsWay'
  BY <1>7 DEF Cut, LinkDrops, DeviceRestarts, SessionLost
<1>8. ASSUME UNCHANGED mqtt_vars PROVE CommandOnItsWay'
  BY <1>8 DEF mqtt_vars, link_vars, fan_vars, CommandOnItsWay, Awaits
<1> QED
  BY <1>1, <1>2, <1>3, <1>4, <1>5, <1>6, <1>7, <1>8, StepKinds

-----------------------------------------------------------------------------
(* What is said of a quiet wire.                                            *)
LEMMA AgreementInit == MqttInit => AgreementInv
<1> SUFFICES ASSUME MqttInit PROVE AgreementInv
  OBVIOUS
<1>1. TypeOK
  BY InitTypeOK DEF MqttInit
<1>2. retained_set \in {{}} \cup {{m} : m \in {c \in Commands : ~c.replay}}
  <2>1. \A v \in PersonValues : Command(v, "person") \in {c \in Commands : ~c.replay}
    BY CommandIs
  <2> QED
    BY <2>1 DEF MqttInit
<1>3. to_broker \in Seq(Packets) /\ to_fan \in Seq(Commands)
  BY DEF MqttInit
<1>4. g_echoed_speed \in {-1} \cup Steps /\ inputs \in 0 .. kInputs
  BY MqttAssumption DEF MqttInit
<1>5. state_topic \in {{}} \cup {{v} : v \in Reported}
  BY DEF MqttInit
<1>6. WireTypeOK
  BY <1>1, <1>2, <1>3, <1>4, <1>5 DEF MqttInit, WireTypeOK
<1> QED
  BY <1>6 DEF MqttInit, AgreementInv, SubscribesFirst, StateOnItsWay, CommandOnItsWay

LEMMA AgreementStep == AgreementInv /\ [MqttNext]_mqtt_vars => AgreementInv'
BY WireTypesStep, SubscribesStep, StateStep, CommandStep DEF AgreementInv

(* The link's types, as the run checks them.                                *)
LEMMA WireTypesAreLinkTypes == WireTypeOK => LinkTypeOK
<1> SUFFICES ASSUME WireTypeOK PROVE LinkTypeOK
  OBVIOUS
<1>1. Packets \subseteq Packet /\ Commands \subseteq CommandMsg
  BY PacketKinds, StepsAssumption, MqttAssumption
  DEF Packets, StatePackets, SetPackets, State, EchoSet, Subscribe, Reported, Steps, RawSpeed,
      UnknownSpeed, Packet, Commands, CommandMsg
<1>2. to_broker \in Seq(Packet) /\ to_fan \in Seq(CommandMsg)
  BY <1>1, SeqMonotonic DEF WireTypeOK
<1>3. {c \in Commands : ~c.replay}
        = [v : PersonValues \cup Steps, by : {"fan", "person"}, replay : {FALSE}]
  BY DEF Commands
<1> QED
  BY <1>2, <1>3 DEF WireTypeOK, LinkTypeOK, Reported

LEMMA AgreementSays == AgreementInv => LinkTypeOK /\ BrokerAgrees /\ StateAgrees
<1> SUFFICES ASSUME AgreementInv PROVE LinkTypeOK /\ BrokerAgrees /\ StateAgrees
  OBVIOUS
<1>1. to_broker = <<>> => ~Awaits("set") /\ ~Awaits("subscribe") /\ ~Awaits("state")
                           /\ \A i \in DOMAIN to_broker : FALSE
  BY DEF Awaits
<1>2. BrokerAgrees
  BY <1>1 DEF AgreementInv, CommandOnItsWay, BrokerAgrees, Drained
<1>3. StateAgrees
  BY <1>1 DEF AgreementInv, StateOnItsWay, StateAgrees
<1> QED
  BY <1>2, <1>3, WireTypesAreLinkTypes DEF AgreementInv

LEMMA LinkAgreement == MqttSpec => []AgreementInv
BY AgreementInit, AgreementStep, PTL DEF MqttSpec

(* Once every packet has arrived, broker and fan tell the same story, however  *)
(* slow the wire and in whatever order changes, commands, drops and restarts   *)
(* came.                                                                     *)
THEOREM BrokerAndFanAgree == MqttSpec => [](LinkTypeOK /\ BrokerAgrees /\ StateAgrees)
BY LinkAgreement, AgreementSays, PTL

-----------------------------------------------------------------------------
(* A prompt link has one exchange in flight at a time: the greeting of a       *)
(* connect, its replay, an answer, the fan's own change on its way out and     *)
(* back, or a person's command.  The echo slot holds the fan's own change      *)
(* while that is under way, and else nothing but what went astray.            *)
SlotFree  == ~astray => g_echoed_speed = -1

Greeting  == /\ grace /\ to_fan = <<>> /\ SlotFree
             /\ \/ to_broker = <<Subscribe>>
                \/ \E v \in Reported : to_broker = <<State(v), Subscribe>>
Replaying == grace /\ SlotFree /\ to_broker = <<>> /\ \E m \in Commands : m.replay /\ to_fan = <<m>>
Settled   == /\ to_fan = <<>> /\ SlotFree
             /\ to_broker = <<>> \/ \E v \in Reported : to_broker = <<State(v)>>
Echoing   == /\ ~grace /\ to_fan = <<>> /\ g_echoed_speed \in Steps
             /\ \/ to_broker = <<EchoSet(g_echoed_speed)>>
                \/ to_broker = <<State(g_echoed_speed), EchoSet(g_echoed_speed)>>
Echoed    == ~grace /\ g_echoed_speed \in Steps /\ to_broker = <<>> /\ to_fan = <<Command(g_echoed_speed, "fan")>>
Asked     == /\ ~grace /\ to_broker = <<>> /\ SlotFree
             /\ \E v \in PersonValues : to_fan = <<Command(v, "person")>>

OneExchange ==
  prompt => IF link = "up"
            THEN Greeting \/ Replaying \/ Settled \/ Echoing \/ Echoed \/ Asked
            ELSE SlotFree

LinkInv == AgreementInv /\ OneExchange

(* With nothing on the wire and no grace, nothing is being exchanged.         *)
LEMMA QuietIsSettled ==
  ASSUME OneExchange, prompt, link = "up", Drained, ~grace PROVE SlotFree
BY DEF OneExchange, Drained, Greeting, Replaying, Settled, Echoing, Echoed, Asked

LEMMA ExchangeStep ==
  ASSUME AgreementInv, OneExchange, [MqttNext]_mqtt_vars PROVE OneExchange'
<1> SUFFICES ASSUME prompt' PROVE OneExchange'
  BY DEF OneExchange
<1>t. WireTypeOK /\ SubscribesFirst
  BY DEF AgreementInv
<1> USE DEF OneExchange
<1>0. ASSUME link' = "up", FromHere PROVE OneExchange'
  <2>1. /\ Quiet /\ prompt /\ link = "up" /\ (Told \/ Untold) /\ UNCHANGED <<grace, to_fan, astray>>
    BY <1>t, <1>0, LocalMoves
  <2>2. to_broker = <<>> /\ to_fan = <<>> /\ ~grace /\ SlotFree
    BY <2>1, QuietIsSettled DEF Quiet, Drained
  <2>3. CASE Told
    <3>1. to_broker' = <<State(speed'), EchoSet(speed')>> /\ g_echoed_speed' = speed' /\ speed' \in Steps
      BY <2>2, <2>3 DEF Told
    <3> QED
      BY <1>0, <2>1, <2>2, <3>1 DEF Echoing
  <2>4. CASE Untold
    BY <1>0, <2>1, <2>2, <2>4 DEF Untold, Settled, SlotFree
  <2> QED
    BY <2>1, <2>3, <2>4
<1>1. ASSUME FromHere PROVE OneExchange'
  <2>1. (Told \/ Untold) /\ UNCHANGED <<link, astray, prompt>>
    BY <1>t, <1>1, LocalMoves
  <2>2. CASE link # "up"
    BY <2>1, <2>2 DEF Told, Untold, SlotFree
  <2> QED
    BY <1>0, <1>1, <2>1, <2>2
<1>2. ASSUME on_message PROVE OneExchange'
  <2>1. /\ to_fan # <<>> /\ prompt /\ link = "up" /\ link' = "up" /\ to_fan' = Tail(to_fan)
        /\ speed' \in Reported /\ (Obeyed \/ Ignored)
    BY <1>t, <1>2, MessageMoves
  <2>2. to_broker = <<>> /\ \E m : to_fan = <<m>>
    BY <2>1 DEF Greeting, Replaying, Settled, Echoing, Echoed, Asked
  <2>3. to_fan' = <<>>
    BY <2>1, <2>2
  <2>4. CASE Obeyed
    <3>1. to_broker' = <<State(speed')>> /\ g_echoed_speed' = -1
      BY <2>2, <2>4 DEF Obeyed
    <3> QED
      BY <2>1, <2>3, <3>1 DEF Settled, SlotFree
  <2>5. CASE Ignored
    <3>1. Echoed => Head(to_fan).v \in Steps
      <4>1. ASSUME Echoed PROVE Head(to_fan).v = g_echoed_speed /\ Head(to_fan) \in Commands
        BY <1>t, <1>2, <4>1, MessageMoves DEF Echoed, Command
      <4>2. Echoed => g_echoed_speed \in Steps
        BY DEF Echoed
      <4> QED
        BY <4>1, <4>2
    <3>2. SlotFree
      BY <2>1, <2>2, <2>5, <3>1, MqttAssumption
      DEF Ignored, Greeting, Replaying, Settled, Echoing, Echoed, Asked
    <3> QED
      BY <2>1, <2>2, <2>3, <2>5, <3>2 DEF Ignored, Settled, SlotFree
  <2> QED
    BY <2>1, <2>4, <2>5
<1>3. ASSUME connect PROVE OneExchange'
  <2>1. /\ grace' = TRUE /\ to_fan' = <<>> /\ speed \in Reported
        /\ to_broker' = <<State(speed), Subscribe>>
        /\ prompt /\ link # "up" /\ UNCHANGED <<g_echoed_speed, astray>>
    BY <1>t, <1>3 DEF connect, WireTypeOK, TypeOK, Reported
  <2> QED
    BY <2>1 DEF Greeting, SlotFree
<1>4. ASSUME GraceEnds PROVE OneExchange'
  <2>1. prompt /\ link = "up" /\ Drained
        /\ UNCHANGED <<link, to_broker, to_fan, g_echoed_speed, astray>>
    BY <1>4 DEF GraceEnds
  <2>2. Settled
    BY <2>1 DEF Drained, Greeting, Replaying, Settled, Echoing, Echoed, Asked
  <2> QED
    BY <2>1, <2>2 DEF Settled, SlotFree
<1>5. ASSUME BrokerTakes PROVE OneExchange'
  <2>1. /\ prompt /\ link = "up" /\ to_broker # <<>> /\ to_broker' = Tail(to_broker)
        /\ Head(to_broker) \in Packets /\ UNCHANGED <<link, grace, g_echoed_speed, astray>>
    BY <1>t, <1>5, BrokerMoves
  <2>2. Greeting \/ Settled \/ Echoing
    BY <2>1 DEF Replaying, Echoed, Asked
  <2>3. ASSUME NEW v, to_broker[1] = State(v) PROVE Head(to_broker) = State(v) /\ to_fan' = to_fan
    <3>1. Head(to_broker) = State(v)
      BY <2>1, <2>3, <1>t, Popped DEF WireTypeOK
    <3>2. Head(to_broker).topic = "state"
      BY <3>1 DEF State
    <3> QED
      BY <1>t, <1>5, <3>1, <3>2, BrokerMoves
  <2>4. ASSUME NEW v \in Reported, grace, SlotFree, to_fan = <<>>, to_broker = <<State(v), Subscribe>>
        PROVE  OneExchange'
    <3>1. to_broker' = <<Subscribe>> /\ to_fan' = <<>>
      BY <2>1, <2>3, <2>4
    <3> QED
      BY <2>1, <2>4, <3>1 DEF Greeting, SlotFree
  <2>5. ASSUME grace, SlotFree, to_fan = <<>>, to_broker = <<Subscribe>> PROVE OneExchange'
    <3>1. Head(to_broker).topic = "subscribe" /\ to_broker' = <<>>
      BY <2>1, <2>5 DEF Subscribe
    <3>2. Replayed
      BY <1>t, <1>5, <3>1, BrokerMoves
    <3>3. CASE retained_set = {}
      BY <2>1, <2>5, <3>1, <3>2, <3>3 DEF Replayed, Settled, SlotFree
    <3>4. CASE retained_set # {}
      <4>1. PICK m \in Commands : m.replay /\ to_fan' = Append(to_fan, m)
        BY <3>2, <3>4 DEF Replayed
      <4>2. to_fan' = <<m>>
        BY <2>5, <4>1
      <4> QED
        BY <2>1, <2>5, <3>1, <4>1, <4>2 DEF Replaying, SlotFree
    <3> QED
      BY <3>3, <3>4
  <2>6. ASSUME NEW v \in Reported, Settled, to_broker = <<State(v)>> PROVE OneExchange'
    <3>1. to_broker' = <<>> /\ to_fan' = <<>>
      BY <2>1, <2>3, <2>6 DEF Settled
    <3> QED
      BY <2>1, <2>6, <3>1 DEF Settled, SlotFree
  <2> DEFINE g == g_echoed_speed
  <2>7. ASSUME Echoing, to_broker = <<State(g), EchoSet(g)>> PROVE OneExchange'
    <3>1. to_broker' = <<EchoSet(g)>> /\ to_fan' = <<>>
      BY <2>1, <2>3, <2>7 DEF Echoing
    <3> QED
      BY <2>1, <2>7, <3>1 DEF Echoing
  <2>8. ASSUME Echoing, to_broker = <<EchoSet(g)>> PROVE OneExchange'
    <3>1. /\ Head(to_broker).topic = "set" /\ Head(to_broker).v = g /\ to_broker' = <<>>
          /\ DOMAIN to_broker = {1} /\ to_broker[1].topic = "set"
      BY <2>1, <2>8 DEF EchoSet
    <3>2. ~Awaits("subscribe")
      BY <3>1 DEF Awaits
    <3>3. subscribed
      BY <1>t, <2>1, <3>2 DEF SubscribesFirst, Opens, Awaits
    <3>4. Delivered(Command(g, "fan"))
      BY <1>t, <1>5, <3>1, BrokerMoves
    <3>5. to_fan' = <<Command(g, "fan")>>
      BY <2>8, <3>3, <3>4 DEF Delivered, Echoing
    <3> QED
      BY <2>1, <2>8, <3>1, <3>5 DEF Echoing, Echoed
  <2> QED
    BY <2>1, <2>2, <2>4, <2>5, <2>6, <2>7, <2>8 DEF Greeting, Settled, Echoing
<1>5a. ASSUME NEW v \in PersonValues, PersonPublishes(v), link = "up" PROVE OneExchange'
  <2>1. /\ Quiet /\ prompt /\ link = "up" /\ Deliver(Command(v, "person"))
        /\ UNCHANGED <<link, grace, to_broker, g_echoed_speed, astray>>
    BY <1>5a DEF PersonPublishes, Outside
  <2>2. to_broker = <<>> /\ to_fan = <<>> /\ ~grace /\ SlotFree
    BY <2>1, QuietIsSettled DEF Quiet, Drained
  <2>3. subscribed
    BY <1>t, <2>1, <2>2 DEF SubscribesFirst, Opens, Awaits
  <2>4. to_fan' = <<Command(v, "person")>>
    BY <2>1, <2>2, <2>3 DEF Deliver
  <2> QED
    BY <2>1, <2>2, <2>4 DEF Asked, SlotFree
<1>6. ASSUME NEW v \in PersonValues, PersonPublishes(v) PROVE OneExchange'
  <2>1. prompt /\ UNCHANGED <<link, g_echoed_speed, astray>>
    BY <1>6 DEF PersonPublishes, Outside
  <2> QED
    BY <1>5a, <1>6, <2>1 DEF SlotFree
<1>7. ASSUME Cut PROVE OneExchange'
  <2>1. link' # "up"
    BY <1>7 DEF Cut, LinkDrops, DeviceRestarts, SessionLost
  <2>2. CASE DeviceRestarts
    BY <2>1, <2>2 DEF DeviceRestarts, SlotFree
  <2>3. CASE LinkDrops
    <3>1. /\ prompt /\ link = "up" /\ g_echoed_speed' = g_echoed_speed
          /\ astray' = (astray \/ EchoUnderWay)
      BY <2>3 DEF LinkDrops, Outside
    <3>2. CASE Echoing
      <4> DEFINE g == g_echoed_speed
      <4>1. EchoSet(g).topic = "set"
        BY DEF EchoSet
      <4>2. \E i \in DOMAIN to_broker : to_broker[i] = EchoSet(g)
        <5>1. CASE to_broker = <<EchoSet(g)>>
          BY <5>1
        <5>2. CASE to_broker = <<State(g), EchoSet(g)>>
          <6>1. 2 \in DOMAIN to_broker /\ to_broker[2] = EchoSet(g)
            BY <5>2
          <6> QED
            BY <6>1
        <5> QED
          BY <3>2, <5>1, <5>2 DEF Echoing
      <4>3. EchoUnderWay
        BY <4>1, <4>2 DEF EchoUnderWay
      <4> QED
        BY <2>1, <3>1, <4>3 DEF SlotFree
    <3>3. CASE Echoed
      <4>1. 1 \in DOMAIN to_fan /\ to_fan[1] = Command(g_echoed_speed, "fan")
        BY <3>3 DEF Echoed
      <4>2. EchoUnderWay
        BY <4>1 DEF EchoUnderWay, Command
      <4> QED
        BY <2>1, <3>1, <4>2 DEF SlotFree
    <3>4. CASE SlotFree
      BY <2>1, <3>1, <3>4 DEF SlotFree
    <3> QED
      BY <3>1, <3>2, <3>3, <3>4 DEF Greeting, Replaying, Settled, Asked
  <2> QED
    BY <1>7, <2>2, <2>3 DEF Cut
<1>8. ASSUME UNCHANGED mqtt_vars PROVE OneExchange'
  BY <1>8 DEF mqtt_vars, link_vars, Greeting, Replaying, Settled, Echoing, Echoed, Asked, SlotFree
<1> QED
  BY <1>1, <1>2, <1>3, <1>4, <1>5, <1>6, <1>7, <1>8, StepKinds

LEMMA LinkInvariant == MqttSpec => []LinkInv
<1>1. MqttInit => OneExchange
  BY DEF MqttInit, OneExchange, SlotFree
<1>2. LinkInv /\ [MqttNext]_mqtt_vars => LinkInv'
  BY AgreementStep, ExchangeStep DEF LinkInv, AgreementInv
<1> QED
  BY <1>1, <1>2, AgreementInit, PTL DEF MqttSpec, LinkInv

(* On a link that answers promptly neither the fan's own echo nor what the      *)
(* broker remembers is taken for a person, and a person's command is, unless    *)
(* an echo went astray and no command has been read since.                    *)
LEMMA ExchangeTells ==
  ASSUME LinkInv, prompt PROVE EchoRecognised /\ ReplayNotManual /\ PersonGrabs
<1>1. CASE to_fan = <<>>
  BY <1>1 DEF EchoRecognised, ReplayNotManual, PersonGrabs
<1>2. CASE to_fan # <<>>
  <2>1. link = "up" /\ (Replaying \/ Echoed \/ Asked)
    BY <1>2 DEF LinkInv, AgreementInv, WireTypeOK, OneExchange, Greeting, Settled, Echoing
  <2>2. CASE Replaying
    BY <2>2 DEF Replaying, EchoRecognised, ReplayNotManual, PersonGrabs, Manual
  <2>3. CASE Echoed
    <3>1. Head(to_fan) = Command(g_echoed_speed, "fan")
      BY <2>3 DEF Echoed
    <3>2. Ours /\ ~NextCommand.replay /\ NextCommand.by = "fan"
      BY <3>1 DEF Ours, NextCommand, Command
    <3> QED
      BY <3>2 DEF EchoRecognised, ReplayNotManual, PersonGrabs, Manual
  <2>4. CASE Asked
    <3>1. PICK v \in PersonValues : to_fan = <<Command(v, "person")>>
      BY <2>4 DEF Asked
    <3>2. Head(to_fan) = Command(v, "person")
      BY <3>1
    <3>3. ~NextCommand.replay /\ NextCommand.by = "person" /\ NextCommand.v = v /\ Head(to_fan).v = v
      BY <3>2 DEF NextCommand, Command
    <3>4. ~astray /\ v \in Steps => ~Ours
      BY <2>4, <3>3, StepsAssumption DEF Asked, SlotFree, Ours, Steps
    <3> QED
      BY <2>4, <3>3, <3>4 DEF Asked, EchoRecognised, ReplayNotManual, PersonGrabs, Manual
  <2> QED
    BY <2>1, <2>2, <2>3, <2>4
<1> QED
  BY <1>1, <1>2

THEOREM EchoesAndReplaysTold == MqttSpec => [](prompt => EchoRecognised /\ ReplayNotManual)
<1>1. LinkInv => (prompt => EchoRecognised /\ ReplayNotManual)
  BY ExchangeTells
<1> QED
  BY <1>1, LinkInvariant, PTL

(* The link is safe for whatever people publish: on a quiet wire broker and     *)
(* fan agree, and a prompt wire tells people, echoes and replays apart.        *)
THEOREM LinkAlwaysSafe == MqttSpec => []LinkSafe
<1>1. LinkInv => LinkSafe
  BY ExchangeTells, AgreementSays DEF LinkInv, LinkSafe, PromptClassified
<1> QED
  BY <1>1, LinkInvariant, PTL
=============================================================================
