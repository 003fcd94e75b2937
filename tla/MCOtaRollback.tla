---------------------------- MODULE MCOtaRollback ----------------------------
(* Model checking OtaRollback: an image that reaches the broker, one that   *)
(* never does, and one that does and arrives later.                         *)
EXTENDS OtaRollback

MCImages   == {"good", "bad", "next"}
MCReaching == {"good", "next"}
=============================================================================
