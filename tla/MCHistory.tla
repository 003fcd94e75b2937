------------------------------- MODULE MCHistory -------------------------------
(* Model checking History: a range that is a window on the 1-day answer, and  *)
(* one that is a longer answer, thinned once it has too many rows; a card     *)
(* with an outage and a row missed, and a board that has only its RAM and no  *)
(* clock yet.                                                                *)
EXTENDS History

MCRanges == {0, 7}
MCQuery  == [r \in MCRanges |-> IF r = 7 THEN 7 ELSE 1]
MCWindow == [r \in MCRanges |-> IF r = 0 THEN 2 ELSE 0]
MCSpan   == [q \in {1, 7} |-> IF q = 1 THEN 4 ELSE 9]

Holds(rows, stamps, end, c) == [log |-> stamps, ring |-> [rows |-> rows, end |-> end], card |-> c]

MCDevices == {Holds(1, <<1, 2, 3, 4, 6>>, 6, TRUE), Holds(2, << >>, 0, FALSE)}
=============================================================================
