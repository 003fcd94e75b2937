-------------------------------- MODULE MCPlug --------------------------------
(* Model checking Plug: a speed whose stopped fan the meter cannot tell from *)
(* a running one, one it can, and a raw duty; readings in every band.        *)
EXTENDS Plug, TLC
MCBaseline == 1 :> 4 @@ 2 :> 10
=============================================================================
