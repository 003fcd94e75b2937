------------------------------- MODULE Settings -------------------------------
(****************************************************************************)
(* The settings drawer (src/web/src: settings.ts, settings_auto.ts,          *)
(* provision.ts, app.ts paintSettings).  Rows are rebuilt from the page's    *)
(* state with every frame, except while a field is being edited; a stepper    *)
(* sends the value its row was built from, one step on.  The connection form  *)
(* and the token field are built once and keep what is typed.  Frames reach   *)
(* the page in order (Console); other pages and the broker write too.        *)
(* Bands are in half degrees, limits in degrees.                             *)
(****************************************************************************)
EXTENDS Integers, FiniteSets, FiniteSetsExt

CONSTANTS
  None, Answer,      \* model values: nothing, a command answered
  Fields,      \* the form's fields but the port; "ssid" is the one that may not be blank
  Names,       \* what may be typed in them; Blank is the empty field
  Blank,
  First,       \* what the board's fields hold when the page is opened
  Configs,     \* the settings the device may have then
  MaxDeeds,    \* bound: steps taken and fields typed in, together
  MaxOutside   \* bound: writes by others

ASSUME FormAssumption ==
  /\ "ssid" \in Fields /\ None \notin Fields
  /\ First \in [Fields -> Names] /\ None \notin [Fields -> Names \cup {Blank}] /\ Blank \notin Names

ASSUME SteppersAssumption ==
  /\ MaxDeeds \in Nat /\ MaxOutside \in Nat
  /\ Configs \subseteq [on : 1 .. 40, off : 0 .. 40, floor : 32 .. 100, start : 32 .. 120]
  /\ \A c \in Configs : c.off < c.on /\ c.floor + 2 <= c.start

VARIABLES
  config, conn,    \* the device: its thresholds, its connection
  outside,         \* bound: writes by others
  state,           \* view.state: the thresholds last heard, or None
  info,            \* view.info: the connection as it was when asked for, or None
  rows,            \* the state the rows on screen were built from, or None
  focus,           \* the field being edited, or None
  value, touched,  \* the form's inputs, None before it is built; the ones typed in
  token,           \* the token field of the update row
  cmds,            \* the commands, by click: [key, value] on its way, Answer, or None
  clicks, typed,   \* bounds
  hasty,           \* history: a step was taken from settings the device no longer had
  filled,          \* history: the form has been filled from the board's facts
  sent             \* history: the fields the last save sent

dev_vars  == <<config, conn, outside>>
row_vars  == <<rows, value>>
form_vars == <<touched, token, typed, sent>>
cmd_vars  == <<cmds, clicks, hasty>>
vars == <<dev_vars, state, info, row_vars, filled, focus, form_vars, cmd_vars>>

-----------------------------------------------------------------------------
(* The connection form.                                                     *)
formFromInfo(facts) == IF facts = None THEN [f \in Fields |-> Blank] ELSE facts

fillFrom(facts) ==
  [f \in Fields |-> IF value # None /\ f \in touched THEN value[f] ELSE formFromInfo(facts)[f]]

(* paintSettings: not without a state, not while a field is being edited.  A   *)
(* rebuild takes the focus from a button; a field is never focused then.      *)
Inputs == Fields \cup {"token"}

painted == /\ rows' = state' /\ value' = fillFrom(info')
           /\ filled' = (filled \/ info' # None) /\ focus' = None

editing == focus \in Inputs

\* Wrong variant: nothing stops the repaint.
paintSettings_always ==
  IF state' = None THEN UNCHANGED <<row_vars, filled, focus>> ELSE painted

paintSettings ==
  IF state' = None \/ editing THEN UNCHANGED <<row_vars, filled, focus>> ELSE painted

(* otaControl: the row is built once, its token with it.                     *)
otaControl == token

-----------------------------------------------------------------------------
(* The steppers.  A click takes the focus, out of a field and without a        *)
(* repaint in between.                                                       *)
LIMIT_SPAN_F == 2

clamp(v, lo, hi) == Min({hi, Max({lo, v})})

\* Wrong variant: only the range of the firmware is kept to.
bandStep_unrelated(s) ==
  [on  |-> {clamp(s.on - 1, 1, 40), clamp(s.on + 1, 1, 40)},
   off |-> {clamp(s.off - 1, 0, 40), clamp(s.off + 1, 0, 40)}]

(* autoGroups: what the two buttons of each stepper send, for the band and for *)
(* the limits.                                                              *)
bandStep(s) ==
  [on  |-> {clamp(s.on - 1, s.off + 1, 40), clamp(s.on + 1, 1, 40)},
   off |-> {clamp(s.off - 1, 0, 40), clamp(s.off + 1, 0, s.on - 1)}]

limitStep(s) ==
  [floor |-> {clamp(s.floor - 1, 32, 100),
              clamp(s.floor + 1, 32, Min({100, s.start - LIMIT_SPAN_F}))},
   start |-> {clamp(s.start - 1, Max({32, s.floor + LIMIT_SPAN_F}), 120),
              clamp(s.start + 1, 32, 120)}]

stepped(s, key) == IF key \in {"on", "off"} THEN bandStep(s)[key] ELSE limitStep(s)[key]

(* A setting's command carries that one key.                                *)
setConfig(key, v) == [key |-> key, value |-> v]

Clicks == 1..MaxDeeds

Step(key) ==
  /\ rows # None /\ focus' = "button"
  /\ clicks + typed < MaxDeeds /\ clicks' = clicks + 1
  /\ \E v \in stepped(rows, key) : cmds' = [cmds EXCEPT ![clicks'] = setConfig(key, v)]
  /\ hasty' = (hasty \/ rows # config \/ \E c \in Clicks : cmds[c] # None)
  /\ UNCHANGED <<dev_vars, state, info, row_vars, filled, form_vars>>

(* POST /api/config stores the value and puts the release point half a         *)
(* degree under an engage point it has reached (enforce_hysteresis_gap; the   *)
(* limits are not compared), and answers with its state.                     *)
Corrected(c) == IF c.off < c.on THEN c ELSE [c EXCEPT !.off = IF c.on > 1 THEN c.on - 1 ELSE 0]

Stored(c) ==
  /\ cmds[c] \notin {None, Answer}
  /\ config' = Corrected([config EXCEPT ![cmds[c].key] = cmds[c].value])
  /\ cmds' = [cmds EXCEPT ![c] = Answer]
  /\ UNCHANGED <<conn, outside, state, info, row_vars, filled, focus, form_vars, clicks, hasty>>

(* The answer is painted; a command that fails, stored or not, is let go.    *)
Painted == /\ UNCHANGED <<dev_vars, touched, typed, sent>>
           /\ paintSettings /\ token' = otaControl

Answered(c) ==
  /\ cmds[c] = Answer /\ cmds' = [cmds EXCEPT ![c] = None]
  /\ state' = config
  /\ UNCHANGED <<info, clicks, hasty>> /\ Painted

CommandFails(c) ==
  /\ cmds[c] # None /\ cmds' = [cmds EXCEPT ![c] = None]
  /\ UNCHANGED <<dev_vars, state, info, row_vars, filled, focus, form_vars, clicks, hasty>>

-----------------------------------------------------------------------------
(* Another page, or the broker, writes a setting.                           *)
OthersWrite ==
  /\ outside < MaxOutside /\ outside' = outside + 1
  /\ config' \in Configs \ {config}
  /\ UNCHANGED <<conn, state, info, row_vars, filled, focus, form_vars, cmd_vars>>

Frame ==
  /\ state' = config /\ (state # config \/ rows # config \/ value = None)
  /\ UNCHANGED <<info, cmd_vars>> /\ Painted

(* loadDevice, once per page: the facts are never asked for again.           *)
DeviceAnswered ==
  /\ info = None /\ info' = conn
  /\ UNCHANGED <<state, cmd_vars>> /\ Painted

Focus(f) ==
  /\ value # None /\ focus # f /\ focus' = f
  /\ UNCHANGED <<dev_vars, state, info, row_vars, filled, form_vars, cmd_vars>>

Blur ==
  /\ focus # None /\ focus' = None
  /\ UNCHANGED <<dev_vars, state, info, row_vars, filled, form_vars, cmd_vars>>

Type(f) ==
  /\ focus = f /\ f \in Fields /\ clicks + typed < MaxDeeds /\ typed' = typed + 1
  /\ \E v \in Names \cup {Blank} : v # value[f] /\ value' = [value EXCEPT ![f] = v]
  /\ touched' = touched \cup {f}
  /\ UNCHANGED <<dev_vars, state, info, rows, filled, focus, token, sent, cmd_vars>>

TypeToken ==
  /\ focus = "token" /\ token = "" /\ token' = "typed"
  /\ clicks + typed < MaxDeeds /\ typed' = typed + 1
  /\ UNCHANGED <<dev_vars, state, info, row_vars, filled, focus, touched, sent, cmd_vars>>

-----------------------------------------------------------------------------
(* save: the changed fields only, against the facts as the page has them.    *)
provisionQuery_all == {f \in Fields : value[f] # Blank}

provisionQuery == {f \in Fields : value[f] # formFromInfo(info)[f]}

(* provision: the board keeps the fields and reboots, or refuses them, or the  *)
(* request fails.                                                            *)
provision(fields) ==
  \/ conn' = [f \in Fields |-> IF f \in fields THEN value[f] ELSE conn[f]]
  \/ conn' = conn

(* The token is the field's or asked for, and the change confirmed.          *)
Save ==
  /\ value # None /\ focus' = "button"
  /\ value["ssid"] # Blank /\ provisionQuery # {}
  /\ sent' = provisionQuery /\ provision(sent')
  /\ UNCHANGED <<config, outside, state, info, row_vars, filled, touched, token, typed, cmd_vars>>

-----------------------------------------------------------------------------
Init ==
  /\ config \in Configs /\ conn = First /\ outside = 0
  /\ state = None /\ info = None /\ rows = None /\ filled = FALSE
  /\ focus = None /\ value = None /\ touched = {} /\ token = "" /\ typed = 0
  /\ cmds = [c \in Clicks |-> None] /\ clicks = 0 /\ hasty = FALSE /\ sent = {}

Commands == \/ \E key \in {"on", "off", "floor", "start"} : Step(key)
            \/ \E c \in Clicks : Stored(c) \/ Answered(c) \/ CommandFails(c)
Typing   == \/ Blur \/ TypeToken
            \/ \E f \in Fields : Focus(f) \/ Type(f)
            \/ Focus("token")

Next == Commands \/ Typing \/ OthersWrite \/ Frame \/ DeviceAnswered \/ Save

Spec == Init /\ [][Next]_vars

(* The stream and the poll keep the page's state.  Nobody owes a click, and a  *)
(* hand may stay in a field for good.                                        *)
Fairness == WF_vars(Frame)

FairSpec == Spec /\ Fairness

-----------------------------------------------------------------------------
(* Properties.                                                              *)
(* Step by step, each from settings the device still has and nobody else       *)
(* writing, the limits stay apart, which nothing else keeps, and no step is   *)
(* one the firmware must correct another setting for.                        *)
StepsKeepApart ==
  [][~hasty' /\ outside' = 0 =>
       /\ config'.floor + LIMIT_SPAN_F <= config'.start
       /\ Cardinality({k \in DOMAIN config : config'[k] # config[k]}) <= 1]_vars

(* Nothing typed is lost but by typing: no frame, no fact that arrives late   *)
(* and no save rebuilds a touched field or the token field under the hand.   *)
TypedKept ==
  [][/\ \A f \in touched : value'[f] # value[f] => typed' = typed + 1 /\ focus = f
     /\ token' = "" => token = ""
     /\ editing => rows' = rows]_vars

(* A form once filled sends only what was typed.                            *)
SentWasTyped == [][sent' # sent /\ filled => sent' \subseteq touched']_vars

(* Once no field is edited the rows come to show the settings the device has, *)
(* though a button keeps the focus a click gave it.                          *)
RowsCatchUp == <>[](focus \notin Inputs) => <>[](rows = config)

(* provision.ts: "only fields the operator actually changed travel".        *)
(* The code does not keep to it and no run checks it; README.md says how.   *)
OnlyChangedTravels == sent \subseteq touched

(* The card follows the device, except over what a person is typing.         *)
RowsFollow == TypedKept /\ RowsCatchUp
=============================================================================
