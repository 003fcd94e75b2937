------------------------------ MODULE MCEventLog ------------------------------
(* Model checking EventLog (and SdCard): a ring of two lines, batches of    *)
(* two, two failed mounts allowed, an attempt every other tick.             *)
EXTENDS EventLog
=============================================================================
