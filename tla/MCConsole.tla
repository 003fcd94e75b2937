------------------------------- MODULE MCConsole -------------------------------
(* Model checking Console: five-second ticks, one command in flight, one      *)
(* restart of the device, and a budget of faults shared by lost requests,     *)
(* outages and stream errors.                                                 *)
EXTENDS Console

MCCmdSlots == {"cmd"}
=============================================================================
