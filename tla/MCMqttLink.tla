------------------------------ MODULE MCMqttLink ------------------------------
(* Model checking MqttLink: settings 0..2, one raw duty, people who also    *)
(* publish a number the fan rejects, text, and the empty payload.           *)
EXTENDS MqttLink

MCHighUs   == [s \in 0 .. 2 |-> CASE s = 0 -> 0 [] s = 1 -> 3477 [] s = 2 -> 4072]
MCRaw      == {4967}
MCPeople   == {0, 2, 3, 100, Empty}
=============================================================================
