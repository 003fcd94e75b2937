------------------------------- MODULE MqttLink -------------------------------
(****************************************************************************)
(* The command topic and the fan (net/mqtt_link.cpp with main's notify hook *)
(* over FanOutput).  The fan publishes every change it makes itself to the   *)
(* retained set topic, which it also subscribes to, so the broker hands each *)
(* of them back; g_echoed_speed is the one slot in which the round trip is   *)
(* recognised.  A retained command is replayed at every connect, and for     *)
(* kMqttGraceMs nothing that arrives counts as a person's command.           *)
(*                                                                          *)
(* Packets between fan and broker are FIFO in each direction while the      *)
(* session lasts and are lost with it (QoS 0, clean session).  `by` and      *)
(* `replay` label a command for the properties; the fan does not see them.   *)
(* People publish retained, as mqtt_link.h takes for granted, and whatever   *)
(* they like: settings, numbers out of range, text, or nothing at all, which *)
(* is how a retained command is cleared.                                     *)
(****************************************************************************)
EXTENDS FanOutput, Sequences

CONSTANTS
  PersonValues,     \* what people publish to the set topic, bad payloads too
  kInputs           \* bound: outside events in one behaviour

(* What at most two characters can say.  Any other payload - longer, not a    *)
(* number, empty - is a number outside, and Empty the empty one.             *)
Readable == -9 .. 99
Empty    == -100

ASSUME MqttAssumption == /\ PersonValues \subseteq Int /\ kInputs \in Nat
                         /\ Steps \subseteq Readable

VARIABLES
  link,            \* PubSubClient connected()
  grace,           \* millis() - g_up_ms <= kMqttGraceMs
  g_echoed_speed,  \* our own echo, awaiting its round trip; -1 none
  to_broker,       \* packets the fan has sent
  to_fan,          \* set-topic messages the broker has sent
  subscribed,      \* broker: the session has subscribed to the set topic
  retained_set,    \* broker: retained command, {} or one message
  state_topic,     \* broker: retained speed, {} or one value
  astray,          \* ghost: an echo died with its session, nothing read since
  inputs,          \* outside events left
  prompt           \* this link answers before anything else happens to it

link_vars == <<link, grace, g_echoed_speed, to_broker, to_fan, subscribed,
               retained_set, state_topic>>
mqtt_vars == <<fan_vars, link_vars, astray, inputs, prompt>>

Command(v, by)  == [v |-> v, by |-> by, replay |-> FALSE]
CommandMsg      == [v : Int, by : {"fan", "person"}, replay : BOOLEAN]
State(v)        == [topic |-> "state", v |-> v]
EchoSet(v)      == [topic |-> "set", v |-> v]
Subscribe       == [topic |-> "subscribe", v |-> 0]
Packet          == [topic : {"state", "set", "subscribe"}, v : Int]

LinkTypeOK ==
  /\ TypeOK
  /\ link \in {"up", "down"} /\ grace \in BOOLEAN /\ subscribed \in BOOLEAN
  /\ g_echoed_speed \in {-1} \cup Steps
  /\ to_broker \in Seq(Packet) /\ to_fan \in Seq(CommandMsg)
  /\ retained_set \in {{}} \cup {{m} : m \in [v : PersonValues \cup Steps,
                                              by : {"fan", "person"}, replay : {FALSE}]}
  /\ state_topic \in {{}} \cup {{v} : v \in Steps \cup {RawSpeed, UnknownSpeed}}
  /\ link = "down" => to_broker = <<>> /\ to_fan = <<>> /\ ~subscribed /\ ~grace
  /\ astray \in BOOLEAN /\ inputs \in 0 .. kInputs /\ prompt \in BOOLEAN

MqttInit ==
  /\ Init
  /\ link = "down" /\ grace = FALSE /\ subscribed = FALSE
  /\ g_echoed_speed = -1
  /\ to_broker = <<>> /\ to_fan = <<>>
  /\ retained_set \in {{}} \cup {{Command(v, "person")} : v \in PersonValues \ {Empty}}
  /\ state_topic = {}
  /\ astray = FALSE /\ inputs = kInputs /\ prompt \in BOOLEAN

-----------------------------------------------------------------------------
Drained      == to_broker = <<>> /\ to_fan = <<>>
Quiet        == prompt => Drained /\ ~grace
Outside      == inputs > 0 /\ inputs' = inputs - 1 /\ UNCHANGED prompt

\* Wrong variant: the retained command is not kept in step.
notify_state_only ==
  LET says == {a.speed : a \in announced'}
  IN  IF says # {} /\ link = "up"
      THEN \E v \in says : /\ to_broker' = to_broker \o <<State(v)>>
                           /\ g_echoed_speed' = v
      ELSE UNCHANGED <<to_broker, g_echoed_speed>>

(* main's notify hook after a change made here: publish_state, echo_set.    *)
notify ==
  LET says == {a.speed : a \in announced'}
  IN  IF says # {} /\ link = "up"
      THEN \E v \in says : /\ to_broker' = to_broker \o <<State(v), EchoSet(v)>>
                           /\ g_echoed_speed' = v
      ELSE UNCHANGED <<to_broker, g_echoed_speed>>

(* An operation of the device that did not come from the broker.            *)
Local(A) ==
  /\ Quiet
  /\ A
  /\ notify
  /\ UNCHANGED <<link, grace, to_fan, subscribed, retained_set, state_topic, astray>>

-----------------------------------------------------------------------------
(* on_message for the oldest command.  What it cannot read it returns from,  *)
(* with the slot as it was and nothing published.  apply() answers a change   *)
(* with notify(v, from_mqtt), which publishes the state only; the            *)
(* publish_state that ends the handler repeats it: one packet stands for both. *)
Ours   == g_echoed_speed = Head(to_fan).v

Manual == ~Ours /\ ~grace

\* Wrong variant: a change the broker asked for is echoed like any other.
on_message_echoes ==
  /\ to_fan # <<>> /\ Head(to_fan).v \in Readable
  /\ Apply(Head(to_fan).v, TRUE, Manual)
  /\ to_fan' = Tail(to_fan)
  /\ IF announced' = {} THEN to_broker' = Append(to_broker, State(speed')) /\ g_echoed_speed' = -1
     ELSE to_broker' = to_broker \o <<State(speed'), EchoSet(speed')>> /\ g_echoed_speed' = speed'
  /\ astray' = FALSE
  /\ UNCHANGED <<link, grace, subscribed, retained_set, state_topic, inputs, prompt>>

Obey(m) ==
  /\ m.v \in Readable
  /\ Apply(m.v, TRUE, Manual)
  /\ g_echoed_speed' = -1
  /\ to_broker' = Append(to_broker, State(speed'))
  /\ astray' = FALSE

Ignore(m) ==
  /\ m.v \notin Readable
  /\ UNCHANGED <<fan_vars, g_echoed_speed, to_broker, astray>>

on_message ==
  /\ to_fan # <<>>
  /\ Obey(Head(to_fan)) \/ Ignore(Head(to_fan))
  /\ to_fan' = Tail(to_fan)
  /\ UNCHANGED <<link, grace, subscribed, retained_set, state_topic, inputs, prompt>>

(* ensure_connected, when the broker answers.                               *)
connect ==
  /\ link = "down"
  /\ link' = "up" /\ grace' = TRUE
  /\ to_broker' = <<State(speed), Subscribe>>
  /\ UNCHANGED <<fan_vars, g_echoed_speed, to_fan, subscribed, retained_set,
                 state_topic, astray, inputs, prompt>>

(* kMqttGraceMs after the connect.  The loop can be parked for longer than  *)
(* that between connect() and the packet that follows it (an e-ink refresh   *)
(* takes 17 s), so only a prompt link guarantees that the replay came first. *)
GraceEnds ==
  /\ link = "up" /\ grace
  /\ prompt => Drained
  /\ grace' = FALSE
  /\ UNCHANGED <<fan_vars, link, g_echoed_speed, to_broker, to_fan, subscribed,
                 retained_set, state_topic, astray, inputs, prompt>>

-----------------------------------------------------------------------------
(* The broker.  A command is retained and forwarded to the subscriber; an   *)
(* empty one clears what was retained and is forwarded like the others; a    *)
(* subscription is answered with the retained command.                      *)
Deliver(m) ==
  /\ retained_set' = IF m.v = Empty THEN {} ELSE {m}
  /\ to_fan' = IF subscribed THEN Append(to_fan, m) ELSE to_fan

Replay(ms) == IF ms = {} THEN <<>> ELSE <<[(CHOOSE m \in ms : TRUE) EXCEPT !.replay = TRUE]>>

BrokerTakes ==
  /\ to_broker # <<>>
  /\ to_broker' = Tail(to_broker)
  /\ LET p == Head(to_broker)
     IN  \/ /\ p.topic = "state"
            /\ state_topic' = {p.v}
            /\ UNCHANGED <<to_fan, subscribed, retained_set>>
         \/ /\ p.topic = "set"
            /\ Deliver(Command(p.v, "fan"))
            /\ UNCHANGED <<subscribed, state_topic>>
         \/ /\ p.topic = "subscribe"
            /\ subscribed' = TRUE
            /\ to_fan' = to_fan \o Replay(retained_set)
            /\ UNCHANGED <<retained_set, state_topic>>
  /\ UNCHANGED <<fan_vars, link, grace, g_echoed_speed, astray, inputs, prompt>>

PersonPublishes(v) ==
  /\ Outside /\ Quiet
  /\ Deliver(Command(v, "person"))
  /\ UNCHANGED <<fan_vars, link, grace, g_echoed_speed, to_broker, subscribed,
                 state_topic, astray>>

SessionLost == /\ link' = "down" /\ grace' = FALSE /\ subscribed' = FALSE
               /\ to_broker' = <<>> /\ to_fan' = <<>>

EchoUnderWay == \/ \E i \in DOMAIN to_broker : to_broker[i].topic = "set"
                \/ \E i \in DOMAIN to_fan : to_fan[i].by = "fan" /\ ~to_fan[i].replay

LinkDrops ==
  /\ Outside /\ link = "up"
  /\ SessionLost
  /\ astray' = (astray \/ EchoUnderWay)
  /\ UNCHANGED <<fan_vars, g_echoed_speed, retained_set, state_topic>>

DeviceRestarts ==
  /\ Outside
  /\ Restart
  /\ SessionLost
  /\ g_echoed_speed' = -1 /\ astray' = FALSE
  /\ UNCHANGED <<retained_set, state_topic>>

LocalInput ==
  \/ \E v \in Steps : Local(HttpSet(v))
  \/ Local(AutoStep)
  \/ \E us \in RawDuties : Local(raw_high_us(us))
  \/ \E on \in BOOLEAN : Local(set_auto(on))
  \/ Local(DriverChanges)

(* A pass of the loop in which nothing happens.                             *)
LoopIdles == Local(LineAlone) /\ UNCHANGED <<inputs, prompt>>

FromBroker == on_message \/ connect \/ GraceEnds \/ BrokerTakes

MqttNext ==
  \/ FromBroker
  \/ LocalInput /\ Outside
  \/ LoopIdles
  \/ \E v \in PersonValues : PersonPublishes(v)
  \/ LinkDrops
  \/ DeviceRestarts

MqttSpec == MqttInit /\ [][MqttNext]_mqtt_vars

(* The loop keeps calling mqtt_link::tick, and the broker keeps serving.    *)
MqttFairSpec == MqttSpec /\ WF_mqtt_vars(on_message) /\ WF_mqtt_vars(connect)
                         /\ WF_mqtt_vars(GraceEnds) /\ WF_mqtt_vars(BrokerTakes)

-----------------------------------------------------------------------------
(* Properties.                                                              *)

NextCommand == Head(to_fan)

(* The round trip of the fan's own publish is recognised: it never counts   *)
(* as a person grabbing the wheel, which would switch auto off.             *)
EchoRecognised ==
  to_fan # <<>> /\ NextCommand.by = "fan" /\ ~NextCommand.replay => ~Manual

(* The broker remembering is not the human acting: a retained command       *)
(* replayed at connect never switches auto off.                             *)
ReplayNotManual == to_fan # <<>> /\ NextCommand.replay => ~Manual

(* A person's command of a speed grabs the wheel outside the grace window,   *)
(* even when it names the one the fan already runs at.  An echo that died     *)
(* with its session stays in the slot until a command is read, so the one     *)
(* read next may pass for it: nothing is said of that one.                   *)
PersonGrabs ==
  to_fan # <<>> /\ ~grace /\ ~astray /\ NextCommand.by = "person"
    /\ ~NextCommand.replay /\ NextCommand.v \in Steps => Manual

(* On a link that answers before anything else happens to it every command  *)
(* is told for what it is, in any order of local changes, people's commands  *)
(* and other payloads, drops and restarts: all three of the above hold.      *)
PromptClassified == prompt => EchoRecognised /\ ReplayNotManual /\ PersonGrabs

(* Once every packet has arrived, the broker remembers the command the fan  *)
(* carries out, whatever order the fan's changes, people's commands, drops   *)
(* and restarts came in (a raw duty and a refused command have no setting,   *)
(* and a value outside the range is remembered but not obeyed).             *)
BrokerAgrees ==
  link = "up" /\ Drained /\ ~output_fault /\ speed >= 0 =>
    \A m \in retained_set : m.v \in Steps => m.v = speed

(* Once the fan's packets have arrived, the retained state is the setting   *)
(* the fan reports; only a raw duty goes unpublished.                       *)
StateAgrees ==
  link = "up" /\ to_broker = <<>> /\ speed # RawSpeed => state_topic = {speed}

(* A finite number of events settles: commands do not circulate between fan *)
(* and broker for ever, and the link ends connected, empty and subscribed.  *)
Settles == <>[](link = "up" /\ subscribed /\ Drained)

(* The link's safety: on a quiet wire the broker remembers the fan's command   *)
(* and state, and a prompt wire tells people, echoes and replays apart.       *)
LinkSafe == LinkTypeOK /\ BrokerAgrees /\ StateAgrees /\ PromptClassified
=============================================================================
