------------------------------ MODULE MCSettings ------------------------------
(* A small instance of Settings for TLC.                                    *)
EXTENDS Settings

MCFields == {"ssid", "host"}
MCFirst  == [f \in MCFields |-> "old"]

\* Pairs one click from as close as the steppers leave them, and there already.
Near    == [on |-> 8, off |-> 6, floor |-> 64, start |-> 67]
Edge    == [on |-> 40, off |-> 39, floor |-> 99, start |-> 101]
Low     == [on |-> 1, off |-> 0, floor |-> 32, start |-> 34]

MCConfigs == {Near, Edge, Low}
=============================================================================
