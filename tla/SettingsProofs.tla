---------------------------- MODULE SettingsProofs ----------------------------
(* Proofs about the settings drawer: what a person types is kept and nothing    *)
(* else is sent, for any fields, names and board; and steps taken from settings *)
(* the device still has keep the thresholds apart, from any settings on.        *)
EXTENDS Settings, FiniteSetTheorems, TLAPS

(* The facts a board may have, and a form shows.                            *)
Facts == [Fields -> Names \cup {Blank}]

(* The form is built with the rows, before any field is focused or touched; a  *)
(* filled form shows the facts in every field that is not touched.           *)
FormInv ==
  /\ touched \subseteq Fields
  /\ conn \in Facts /\ info \in Facts \cup {None} /\ value \in Facts \cup {None}
  /\ rows # None => value # None
  /\ focus # None => value # None
  /\ touched # {} => value # None
  /\ filled \in BOOLEAN
  /\ filled => /\ value # None /\ info # None
               /\ \A f \in Fields \ touched : value[f] = info[f]

-----------------------------------------------------------------------------
LEMMA FormInit == Init => FormInv
BY FormAssumption DEF Init, FormInv, Facts

(* A painted form is a form, and its touched fields are as they were.        *)
LEMMA FillKeeps ==
  ASSUME FormInv, NEW facts \in Facts \cup {None}
  PROVE  /\ fillFrom(facts) \in Facts
         /\ \A f \in touched : fillFrom(facts)[f] = value[f]
         /\ facts # None => \A f \in Fields \ touched : fillFrom(facts)[f] = facts[f]
<1>1. /\ touched \subseteq Fields /\ (touched # {} => value # None)
      /\ value \in Facts \cup {None}
  BY DEF FormInv
<1>2. formFromInfo(facts) \in Facts /\ (facts # None => formFromInfo(facts) = facts)
  BY DEF formFromInfo, Facts
<1>3. fillFrom(facts) \in Facts
  BY <1>1, <1>2 DEF fillFrom, Facts
<1>4. ASSUME NEW f \in touched PROVE fillFrom(facts)[f] = value[f]
  BY <1>1, <1>4 DEF fillFrom
<1>5. ASSUME facts # None, NEW f \in Fields \ touched PROVE fillFrom(facts)[f] = facts[f]
  BY <1>2, <1>5 DEF fillFrom
<1> QED
  BY <1>3, <1>4, <1>5

(* What a repaint, from a frame, an answer or the board's facts, does to the   *)
(* form.                                                                     *)
LEMMA RepaintKeeps ==
  ASSUME FormInv, Painted, info' = info \/ (info = None /\ info' = conn)
  PROVE  /\ FormInv'
         /\ \A f \in touched : value'[f] = value[f]
         /\ token' = token /\ (editing => rows' = rows)
<1>1. /\ touched' = touched /\ conn' = conn /\ token' = token
      /\ IF state' = None \/ editing THEN UNCHANGED <<row_vars, filled, focus>> ELSE painted
  BY DEF Painted, paintSettings, dev_vars, otaControl
<1>2. info' \in Facts \cup {None} /\ (filled => info' = info)
  BY DEF FormInv
<1>3. CASE UNCHANGED <<row_vars, filled, focus>>
  BY <1>1, <1>2, <1>3 DEF FormInv, row_vars
<1>4. CASE painted /\ ~editing
  <2>1. /\ value' = fillFrom(info') /\ filled' = (filled \/ info' # None) /\ focus' = None
    BY <1>4 DEF painted
  <2>2. /\ value' \in Facts /\ \A f \in touched : value'[f] = value[f]
        /\ info' # None => \A f \in Fields \ touched : value'[f] = info'[f]
    BY <1>2, <2>1, FillKeeps
  <2>3. value' # None
    BY <2>2, FormAssumption DEF Facts
  <2>4. filled' => info' # None
    BY <1>2, <2>1 DEF FormInv
  <2>5. filled' \in BOOLEAN
    BY <2>1, Zenon
  <2>6. touched \subseteq Fields /\ conn \in Facts
    BY DEF FormInv
  <2>7. FormInv'
    BY <1>1, <1>2, <2>1, <2>2, <2>3, <2>4, <2>5, <2>6 DEF FormInv
  <2> QED
    BY <1>1, <1>4, <2>2, <2>7
<1> QED
  BY <1>1, <1>3, <1>4

Repaints == \/ \E c \in Clicks : Answered(c)
            \/ Frame \/ DeviceAnswered

LEMMA RepaintsArePaints ==
  ASSUME Repaints
  PROVE  Painted /\ (info' = info \/ (info = None /\ info' = conn))
BY DEF Repaints, Answered, Frame, DeviceAnswered

(* The steps that leave the form's fields and the rows alone.                *)
Elsewhere == \/ \E key \in {"on", "off", "floor", "start"} : Step(key)
             \/ \E c \in Clicks : Stored(c) \/ CommandFails(c)
             \/ Blur \/ TypeToken \/ \E f \in Inputs : Focus(f)
             \/ OthersWrite \/ Save \/ UNCHANGED vars

LEMMA ElsewhereKeeps ==
  ASSUME FormInv, Elsewhere
  PROVE  /\ value' = value /\ touched' = touched /\ rows' = rows /\ filled' = filled
         /\ info' = info /\ (token' = "" => token = "")
         /\ focus' \in {focus, None} \/ value # None
         /\ conn' \in Facts
         /\ sent' # sent => sent' = provisionQuery
<1> USE DEF dev_vars, row_vars, form_vars, cmd_vars
<1>1. conn \in Facts /\ (rows # None => value # None)
  BY DEF FormInv
<1>2. CASE \E key \in {"on", "off", "floor", "start"} : Step(key)
  BY <1>1, <1>2 DEF Step
<1>3. CASE \E c \in Clicks : Stored(c) \/ CommandFails(c)
  BY <1>1, <1>3 DEF Stored, CommandFails
<1>4. CASE Blur \/ OthersWrite \/ UNCHANGED vars
  BY <1>1, <1>4 DEF Blur, OthersWrite, vars
<1>5. CASE TypeToken
  BY <1>1, <1>5 DEF TypeToken
<1>6. CASE \E f \in Inputs : Focus(f)
  BY <1>1, <1>6 DEF Focus
<1>7. CASE Save
  <2>1. conn' \in Facts
    <3>1. value \in Facts
      BY <1>7 DEF Save, FormInv
    <3>2. conn' = [f \in Fields |-> IF f \in sent' THEN value[f] ELSE conn[f]] \/ conn' = conn
      BY <1>7 DEF Save, provision
    <3> QED
      BY <1>1, <3>1, <3>2 DEF Facts
  <2> QED
    BY <1>7, <2>1 DEF Save
<1> QED
  BY <1>2, <1>3, <1>4, <1>5, <1>6, <1>7 DEF Elsewhere

LEMMA ElsewhereInv == FormInv /\ Elsewhere => FormInv'
BY ElsewhereKeeps DEF FormInv

(* A keystroke changes its own field, and marks it.                          *)
LEMMA TypeKeeps ==
  ASSUME FormInv, NEW f \in Fields, Type(f)
  PROVE  /\ FormInv' /\ rows' = rows /\ token' = token /\ sent' = sent
         /\ \A g \in touched : value'[g] # value[g] => typed' = typed + 1 /\ focus = g
<1>1. PICK v \in Names \cup {Blank} : value' = [value EXCEPT ![f] = v]
  BY DEF Type
<1>2. /\ focus = f /\ typed' = typed + 1 /\ touched' = touched \cup {f}
      /\ rows' = rows /\ token' = token /\ sent' = sent /\ conn' = conn /\ info' = info
      /\ filled' = filled /\ focus' = focus
  BY DEF Type, dev_vars
<1>3. value \in Facts
  BY <1>2, FormAssumption DEF FormInv
<1>4. value' \in Facts /\ \A g \in Fields \ {f} : value'[g] = value[g]
  BY <1>1, <1>3 DEF Facts
<1>5. value' # None
  BY <1>4, FormAssumption DEF Facts
<1>6. FormInv'
  BY <1>2, <1>4, <1>5 DEF FormInv
<1>7. \A g \in touched : value'[g] # value[g] => g = f
  BY <1>4 DEF FormInv
<1> QED
  BY <1>2, <1>6, <1>7

LEMMA NextSplits ==
  ASSUME [Next]_vars
  PROVE  Repaints \/ Elsewhere \/ \E f \in Fields : Type(f)
BY Zenon DEF Next, Commands, Typing, Repaints, Elsewhere, Inputs

LEMMA FormInvariant == Spec => []FormInv
<1>1. FormInv /\ [Next]_vars => FormInv'
  <2> SUFFICES ASSUME FormInv, [Next]_vars PROVE FormInv'
    OBVIOUS
  <2>1. CASE Repaints
    BY <2>1, RepaintsArePaints, RepaintKeeps
  <2>2. CASE Elsewhere
    BY <2>2, ElsewhereInv
  <2>3. CASE \E f \in Fields : Type(f)
    BY <2>3, TypeKeeps
  <2> QED
    BY <2>1, <2>2, <2>3, NextSplits
<1> QED
  BY <1>1, FormInit, PTL DEF Spec

(* Nothing typed is lost but by typing (app.ts paintSettings, settings.ts      *)
(* fillFrom and otaControl): no frame, no late facts, no answer and no save    *)
(* changes a touched field or the token, or rebuilds a row under the hand.   *)
THEOREM TypingNeverLost == Spec => TypedKept
<1>1. ASSUME FormInv, [Next]_vars
      PROVE  /\ \A f \in touched : value'[f] # value[f] => typed' = typed + 1 /\ focus = f
             /\ token' = "" => token = ""
             /\ editing => rows' = rows
  <2>1. CASE Repaints
    BY <1>1, <2>1, RepaintsArePaints, RepaintKeeps
  <2>2. CASE Elsewhere
    BY <1>1, <2>2, ElsewhereKeeps
  <2>3. CASE \E f \in Fields : Type(f)
    BY <1>1, <2>3, TypeKeeps
  <2> QED
    BY <1>1, <2>1, <2>2, <2>3, NextSplits
<1>2. FormInv /\ [Next]_vars =>
        [/\ \A f \in touched : value'[f] # value[f] => typed' = typed + 1 /\ focus = f
         /\ token' = "" => token = ""
         /\ editing => rows' = rows]_vars
  BY <1>1
<1> QED
  BY <1>2, FormInvariant, PTL DEF Spec, TypedKept

(* Once the form has been filled, a save sends typed fields only (provision.ts  *)
(* provisionQuery): what was not typed still equals the facts it is compared    *)
(* with, for these are asked for once.                                       *)
THEOREM OnlyTypedIsSent == Spec => SentWasTyped
<1>1. ASSUME FormInv, [Next]_vars, sent' # sent, filled
      PROVE  sent' \subseteq touched'
  <2>1. CASE Repaints
    BY <1>1, <2>1, RepaintsArePaints DEF Painted
  <2>2. CASE Elsewhere
    <3>1. sent' = provisionQuery /\ touched' = touched
      BY <1>1, <2>2, ElsewhereKeeps
    <3>2. info # None /\ \A f \in Fields \ touched : value[f] = info[f]
      BY <1>1 DEF FormInv
    <3> QED
      BY <3>1, <3>2 DEF provisionQuery, formFromInfo
  <2>3. CASE \E f \in Fields : Type(f)
    BY <1>1, <2>3, TypeKeeps
  <2> QED
    BY <1>1, <2>1, <2>2, <2>3, NextSplits
<1>2. FormInv /\ [Next]_vars => [sent' # sent /\ filled => sent' \subseteq touched']_vars
  BY <1>1
<1> QED
  BY <1>2, FormInvariant, PTL DEF Spec, SentWasTyped

-----------------------------------------------------------------------------
(* The steppers.  A hand that takes each step from the settings the device has, *)
(* with nobody else writing, has at most one command out, and that command     *)
(* carries a step of these settings.                                         *)
Keys == {"on", "off", "floor", "start"}

Apart(s) ==
  /\ s \in [on : 1 .. 40, off : 0 .. 40, floor : 32 .. 100, start : 32 .. 120]
  /\ s.off < s.on /\ s.floor + LIMIT_SPAN_F <= s.start

Calm == ~hasty /\ outside = 0

Out(c) == cmds[c] \notin {None, Answer}

OneStepOut ==
  \A c \in Clicks : Out(c) =>
    /\ cmds[c].key \in Keys /\ cmds[c].value \in stepped(config, cmds[c].key)
    /\ \A d \in Clicks \ {c} : cmds[d] = None

StepInv ==
  /\ hasty \in BOOLEAN /\ outside \in Nat
  /\ DOMAIN cmds = Clicks
  /\ Calm => Apart(config) /\ OneStepOut

LEMMA MaxOfTwo ==
  ASSUME NEW a \in Int, NEW b \in Int
  PROVE  Max({a, b}) = IF a >= b THEN a ELSE b
<1> DEFINE m == IF a >= b THEN a ELSE b
<1>1. m \in {a, b} /\ \A y \in {a, b} : m >= y
  OBVIOUS
<1>2. \A x \in {a, b} : (\A y \in {a, b} : x >= y) => x = m
  OBVIOUS
<1> HIDE DEF m
<1>3. Max({a, b}) = m
  BY <1>1, <1>2, Zenon DEF Max
<1> QED
  BY <1>3 DEF m

LEMMA MinOfTwo ==
  ASSUME NEW a \in Int, NEW b \in Int
  PROVE  Min({a, b}) = IF a <= b THEN a ELSE b
<1> DEFINE m == IF a <= b THEN a ELSE b
<1>1. m \in {a, b} /\ \A y \in {a, b} : m <= y
  OBVIOUS
<1>2. \A x \in {a, b} : (\A y \in {a, b} : x <= y) => x = m
  OBVIOUS
<1> HIDE DEF m
<1>3. Min({a, b}) = m
  BY <1>1, <1>2, Zenon DEF Min
<1> QED
  BY <1>3 DEF m

(* clamp: into the range, and no further from the value than that takes.      *)
Clamped(c, v, lo, hi) == c \in lo .. hi /\ (c >= v \/ c = hi) /\ (c <= v \/ c = lo)

LEMMA ClampIs ==
  ASSUME NEW v \in Int, NEW lo \in Int, NEW hi \in Int, lo <= hi
  PROVE  Clamped(clamp(v, lo, hi), v, lo, hi)
<1> DEFINE m == Max({lo, v})
<1>1. m = IF lo >= v THEN lo ELSE v
  BY MaxOfTwo
<1>2. m \in Int
  BY <1>1
<1> HIDE DEF m
<1>3. Min({hi, m}) = IF hi <= m THEN hi ELSE m
  BY <1>2, MinOfTwo
<1>4. clamp(v, lo, hi) = Min({hi, m})
  BY DEF clamp, m
<1> QED
  BY <1>1, <1>3, <1>4 DEF Clamped

(* Any one step from settings apart keeps them apart: the stepper of the       *)
(* release point is held under the engage point, and so on.                  *)
LEMMA StepApart ==
  ASSUME NEW s, Apart(s), NEW key \in Keys, NEW v \in stepped(s, key)
  PROVE  Apart([s EXCEPT ![key] = v])
<1>1. /\ s \in [on : 1 .. 40, off : 0 .. 40, floor : 32 .. 100, start : 32 .. 120]
      /\ s.on \in 1 .. 40 /\ s.off \in 0 .. 40 /\ s.floor \in 32 .. 100 /\ s.start \in 32 .. 120
      /\ s.off < s.on /\ s.floor + 2 <= s.start
  BY DEF Apart, LIMIT_SPAN_F
<1>2. CASE key = "on"
  <2>1. v = clamp(s.on - 1, s.off + 1, 40) \/ v = clamp(s.on + 1, 1, 40)
    BY <1>2 DEF stepped, bandStep
  <2>2. v \in 1 .. 40 /\ s.off < v
    <3>1. Clamped(clamp(s.on - 1, s.off + 1, 40), s.on - 1, s.off + 1, 40)
      <4>1. s.on - 1 \in Int /\ s.off + 1 \in Int /\ 40 \in Int /\ s.off + 1 <= 40
        BY <1>1
      <4> QED
        BY <4>1, ClampIs, Zenon
    <3>2. Clamped(clamp(s.on + 1, 1, 40), s.on + 1, 1, 40)
      <4>1. s.on + 1 \in Int /\ 1 \in Int /\ 40 \in Int /\ 1 <= 40
        BY <1>1
      <4> QED
        BY <4>1, ClampIs, Zenon
    <3>3. Clamped(v, s.on - 1, s.off + 1, 40) \/ Clamped(v, s.on + 1, 1, 40)
      BY <2>1, <3>1, <3>2
    <3> QED
      BY <1>1, <3>3 DEF Clamped
  <2> QED
    BY <1>1, <1>2, <2>2 DEF Apart, LIMIT_SPAN_F
<1>3. CASE key = "off"
  <2>1. v = clamp(s.off - 1, 0, 40) \/ v = clamp(s.off + 1, 0, s.on - 1)
    BY <1>3 DEF stepped, bandStep
  <2>2. v \in 0 .. 40 /\ v < s.on
    <3>1. Clamped(clamp(s.off - 1, 0, 40), s.off - 1, 0, 40)
      <4>1. s.off - 1 \in Int /\ 0 \in Int /\ 40 \in Int /\ 0 <= 40
        BY <1>1
      <4> QED
        BY <4>1, ClampIs, Zenon
    <3>2. Clamped(clamp(s.off + 1, 0, s.on - 1), s.off + 1, 0, s.on - 1)
      <4>1. s.off + 1 \in Int /\ 0 \in Int /\ s.on - 1 \in Int /\ 0 <= s.on - 1
        BY <1>1
      <4> QED
        BY <4>1, ClampIs, Zenon
    <3>3. Clamped(v, s.off - 1, 0, 40) \/ Clamped(v, s.off + 1, 0, s.on - 1)
      BY <2>1, <3>1, <3>2
    <3> QED
      BY <1>1, <3>3 DEF Clamped
  <2> QED
    BY <1>1, <1>3, <2>2 DEF Apart, LIMIT_SPAN_F
<1>4. CASE key = "floor"
  <2>1. v = clamp(s.floor - 1, 32, 100) \/ v = clamp(s.floor + 1, 32, Min({100, s.start - 2}))
    BY <1>4 DEF stepped, limitStep, LIMIT_SPAN_F
  <2>2. Min({100, s.start - 2}) = IF 100 <= s.start - 2 THEN 100 ELSE s.start - 2
    BY <1>1, MinOfTwo
  <2>3. Min({100, s.start - 2}) \in Int
    BY <1>1, <2>2
  <2>4. v \in 32 .. 100 /\ v + 2 <= s.start
    <3>1. Clamped(clamp(s.floor - 1, 32, 100), s.floor - 1, 32, 100)
      <4>1. s.floor - 1 \in Int /\ 32 \in Int /\ 100 \in Int /\ 32 <= 100
        BY <1>1, <2>2, <2>3
      <4> QED
        BY <4>1, ClampIs, Zenon
    <3>2. Clamped(clamp(s.floor + 1, 32, Min({100, s.start - 2})), s.floor + 1, 32, Min({100, s.start - 2}))
      <4>1. s.floor + 1 \in Int /\ 32 \in Int /\ Min({100, s.start - 2}) \in Int /\ 32 <= Min({100, s.start - 2})
        BY <1>1, <2>2, <2>3
      <4> QED
        BY <4>1, ClampIs, Zenon
    <3>3. Clamped(v, s.floor - 1, 32, 100) \/ Clamped(v, s.floor + 1, 32, Min({100, s.start - 2}))
      BY <2>1, <3>1, <3>2
    <3> QED
      BY <1>1, <2>2, <2>3, <3>3 DEF Clamped
  <2> QED
    BY <1>1, <1>4, <2>4 DEF Apart, LIMIT_SPAN_F
<1>5. CASE key = "start"
  <2>1. v = clamp(s.start - 1, Max({32, s.floor + 2}), 120) \/ v = clamp(s.start + 1, 32, 120)
    BY <1>5 DEF stepped, limitStep, LIMIT_SPAN_F
  <2>2. Max({32, s.floor + 2}) = IF 32 >= s.floor + 2 THEN 32 ELSE s.floor + 2
    BY <1>1, MaxOfTwo
  <2>3. Max({32, s.floor + 2}) \in Int
    BY <1>1, <2>2
  <2>4. v \in 32 .. 120 /\ s.floor + 2 <= v
    <3>1. Clamped(clamp(s.start - 1, Max({32, s.floor + 2}), 120), s.start - 1, Max({32, s.floor + 2}), 120)
      <4>1. s.start - 1 \in Int /\ Max({32, s.floor + 2}) \in Int /\ 120 \in Int /\ Max({32, s.floor + 2}) <= 120
        BY <1>1, <2>2, <2>3
      <4> QED
        BY <4>1, ClampIs, Zenon
    <3>2. Clamped(clamp(s.start + 1, 32, 120), s.start + 1, 32, 120)
      <4>1. s.start + 1 \in Int /\ 32 \in Int /\ 120 \in Int /\ 32 <= 120
        BY <1>1, <2>2, <2>3
      <4> QED
        BY <4>1, ClampIs, Zenon
    <3>3. Clamped(v, s.start - 1, Max({32, s.floor + 2}), 120) \/ Clamped(v, s.start + 1, 32, 120)
      BY <2>1, <3>1, <3>2
    <3> QED
      BY <1>1, <2>2, <2>3, <3>3 DEF Clamped
  <2> QED
    BY <1>1, <1>5, <2>4 DEF Apart, LIMIT_SPAN_F
<1> QED
  BY <1>2, <1>3, <1>4, <1>5 DEF Keys

(* Storing such a command corrects nothing else and changes its one setting.  *)
LEMMA StoredIsStep ==
  ASSUME StepInv, Calm, NEW c \in Clicks, Stored(c)
  PROVE  /\ Apart(config') /\ \A d \in Clicks : cmds'[d] \in {None, Answer}
         /\ \A k \in DOMAIN config : config'[k] # config[k] => k = cmds[c].key
<1> DEFINE key  == cmds[c].key
           v    == cmds[c].value
           next == [config EXCEPT ![key] = v]
<1>1. /\ Out(c) /\ config' = Corrected(next) /\ cmds' = [cmds EXCEPT ![c] = Answer]
  BY DEF Stored, Out
<1>2. /\ Apart(config) /\ key \in Keys /\ v \in stepped(config, key)
      /\ \A d \in Clicks \ {c} : cmds[d] = None
  BY <1>1 DEF StepInv, OneStepOut
<1> HIDE DEF key, v
<1>3. Apart(next)
  BY <1>2, StepApart
<1>4. \A k \in DOMAIN config \ {key} : next[k] = config[k]
  OBVIOUS
<1> HIDE DEF next
<1>5. config' = next
  BY <1>1, <1>3 DEF Corrected, Apart
<1>6. \A d \in Clicks : cmds'[d] \in {None, Answer}
  BY <1>1, <1>2 DEF StepInv
<1> QED
  BY <1>3, <1>4, <1>5, <1>6 DEF key

LEMMA StepInit == Init => StepInv
<1> SUFFICES ASSUME Init PROVE StepInv
  OBVIOUS
<1>1. /\ config \in Configs /\ outside = 0 /\ hasty = FALSE /\ cmds = [c \in Clicks |-> None]
  BY DEF Init
<1>2. Apart(config)
  BY <1>1, SteppersAssumption DEF Apart, LIMIT_SPAN_F
<1>3. OneStepOut
  BY <1>1 DEF OneStepOut, Out
<1> QED
  BY <1>1, <1>2, <1>3 DEF StepInv

(* What a step does to the device's settings: they stand, or a command is      *)
(* stored, or others write; and to the commands.                             *)
CommandTaken == \E key \in Keys : Step(key)
CommandStored == \E c \in Clicks : Stored(c)
CommandGone == \E c \in Clicks : Answered(c) \/ CommandFails(c)
Untouched == UNCHANGED <<config, outside, cmds, hasty>>

LEMMA StepSplits ==
  ASSUME [Next]_vars
  PROVE  CommandTaken \/ CommandStored \/ CommandGone \/ OthersWrite \/ Untouched
<1> USE DEF dev_vars, cmd_vars, row_vars, form_vars
<1>1. CASE Commands
  BY <1>1, Zenon DEF Commands, CommandTaken, CommandStored, CommandGone, Keys
<1>2. CASE Typing
  BY <1>2 DEF Typing, Blur, TypeToken, Focus, Type, Untouched
<1>3. CASE Frame \/ DeviceAnswered
  BY <1>3 DEF Frame, DeviceAnswered, Painted, Untouched
<1>4. CASE Save \/ UNCHANGED vars
  BY <1>4 DEF Save, vars, Untouched
<1> QED
  BY <1>1, <1>2, <1>3, <1>4 DEF Next

LEMMA StepTakenInv == StepInv /\ CommandTaken => StepInv'
<1> SUFFICES ASSUME StepInv, NEW key \in Keys, Step(key) PROVE StepInv'
  BY DEF CommandTaken
<1>1. PICK v \in stepped(rows, key) : cmds' = [cmds EXCEPT ![clicks'] = setConfig(key, v)]
  BY DEF Step
<1>2. /\ config' = config /\ outside' = outside
      /\ hasty' = (hasty \/ rows # config \/ \E c \in Clicks : cmds[c] # None)
  BY DEF Step, dev_vars
<1>3. DOMAIN cmds' = Clicks /\ hasty' \in BOOLEAN
  <2>1. hasty' \in BOOLEAN
    BY <1>2, Zenon
  <2> QED
    BY <2>1, <1>1 DEF StepInv
<1>4. ASSUME Calm' PROVE Apart(config') /\ OneStepOut'
  <2>1. Calm /\ rows = config /\ \A c \in Clicks : cmds[c] = None
    BY <1>2, <1>4 DEF Calm
  <2>2. ASSUME NEW c \in Clicks, Out(c)'
        PROVE  /\ cmds'[c].key \in Keys /\ cmds'[c].value \in stepped(config', cmds'[c].key)
               /\ \A d \in Clicks \ {c} : cmds'[d] = None
    <3>1. c = clicks' /\ \A d \in Clicks \ {c} : cmds'[d] = None
      BY <1>1, <2>1, <2>2 DEF Out, StepInv
    <3>2. cmds'[c] = setConfig(key, v)
      BY <1>1, <3>1 DEF StepInv
    <3> QED
      BY <1>1, <1>2, <2>1, <3>1, <3>2 DEF setConfig
  <2> QED
    BY <1>2, <2>1, <2>2 DEF StepInv, OneStepOut
<1> QED
  BY <1>2, <1>3, <1>4 DEF StepInv

LEMMA StepGoneInv == StepInv /\ CommandGone => StepInv'
<1> SUFFICES ASSUME StepInv, NEW c \in Clicks, Answered(c) \/ CommandFails(c) PROVE StepInv'
  BY DEF CommandGone
<1>1. /\ cmds' = [cmds EXCEPT ![c] = None] /\ config' = config /\ outside' = outside
      /\ hasty' = hasty
  BY DEF Answered, CommandFails, Painted, dev_vars
<1>2. \A d \in Clicks : cmds'[d] \in {None, cmds[d]}
  BY <1>1 DEF StepInv
<1>3. ASSUME Calm' PROVE Apart(config') /\ OneStepOut'
  <2>1. Apart(config) /\ OneStepOut
    BY <1>1, <1>3 DEF Calm, StepInv
  <2>2. OneStepOut'
    BY <1>1, <1>2, <2>1 DEF OneStepOut, Out
  <2> QED
    BY <1>1, <2>1, <2>2
<1> QED
  BY <1>1, <1>3 DEF StepInv

LEMMA StepStoredInv == StepInv /\ CommandStored => StepInv'
<1> SUFFICES ASSUME StepInv, NEW c \in Clicks, Stored(c) PROVE StepInv'
  BY DEF CommandStored
<1>1. cmds' = [cmds EXCEPT ![c] = Answer] /\ outside' = outside /\ hasty' = hasty
  BY DEF Stored
<1>2. Calm' => Apart(config') /\ \A d \in Clicks : cmds'[d] \in {None, Answer}
  BY <1>1, StoredIsStep DEF Calm
<1> QED
  BY <1>1, <1>2 DEF StepInv, OneStepOut, Out

LEMMA StepInvariant == Spec => []StepInv
<1>1. StepInv /\ [Next]_vars => StepInv'
  <2> SUFFICES ASSUME StepInv, [Next]_vars PROVE StepInv'
    OBVIOUS
  <2>1. CASE CommandTaken
    BY <2>1, StepTakenInv
  <2>2. CASE CommandStored
    BY <2>2, StepStoredInv
  <2>3. CASE CommandGone
    BY <2>3, StepGoneInv
  <2>4. CASE OthersWrite
    <3>1. outside' = outside + 1 /\ cmds' = cmds /\ hasty' = hasty
      BY <2>4 DEF OthersWrite, cmd_vars
    <3> QED
      BY <3>1 DEF StepInv, Calm
  <2>5. CASE Untouched
    BY <2>5 DEF Untouched, StepInv, Calm, OneStepOut, Out
  <2> QED
    BY <2>1, <2>2, <2>3, <2>4, <2>5, StepSplits
<1> QED
  BY <1>1, StepInit, PTL DEF Spec

(* The limits stay apart, which the firmware does not enforce, and no step makes *)
(* the firmware correct a setting the person did not touch (settings_auto.ts    *)
(* autoGroups), from whatever settings the device is found with.             *)
THEOREM SteppersKeepApart == Spec => StepsKeepApart
<1>1. ASSUME StepInv, StepInv', [Next]_vars, ~hasty', outside' = 0
      PROVE  /\ config'.floor + LIMIT_SPAN_F <= config'.start
             /\ Cardinality({k \in DOMAIN config : config'[k] # config[k]}) <= 1
  <2>1. config'.floor + LIMIT_SPAN_F <= config'.start
    BY <1>1 DEF StepInv, Calm, Apart
  <2> DEFINE changed == {k \in DOMAIN config : config'[k] # config[k]}
  <2>2. PICK x : changed \subseteq {x}
    <3>1. CASE CommandStored
      <4>1. PICK c \in Clicks : Stored(c)
        BY <3>1 DEF CommandStored
      <4>2. Calm
        BY <1>1, <4>1 DEF Calm, Stored
      <4>3. \A k \in changed : k = cmds[c].key
        BY <1>1, <4>1, <4>2, StoredIsStep
      <4> QED
        BY <4>3
    <3>2. CASE OthersWrite
      BY <1>1, <3>2 DEF OthersWrite, StepInv
    <3>3. CASE CommandTaken \/ CommandGone \/ Untouched
      <4>1. config' = config
        BY <3>3 DEF CommandTaken, Step, CommandGone, Answered, CommandFails, Painted, Untouched,
                    dev_vars
      <4> QED
        BY <4>1
    <3> QED
      BY <1>1, <3>1, <3>2, <3>3, StepSplits
  <2> HIDE DEF changed
  <2>3. IsFiniteSet({x}) /\ Cardinality({x}) = 1
    BY FS_Singleton
  <2>4. Cardinality(changed) <= Cardinality({x})
    BY <2>2, <2>3, FS_Subset
  <2>5. Cardinality(changed) <= 1
    BY <2>3, <2>4
  <2> QED
    BY <2>1, <2>5 DEF changed
<1>2. StepInv /\ StepInv' /\ [Next]_vars =>
        [~hasty' /\ outside' = 0 =>
           /\ config'.floor + LIMIT_SPAN_F <= config'.start
           /\ Cardinality({k \in DOMAIN config : config'[k] # config[k]}) <= 1]_vars
  BY <1>1
<1> QED
  BY <1>2, StepInvariant, PTL DEF Spec, StepsKeepApart
=============================================================================
