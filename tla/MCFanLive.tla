------------------------------- MODULE MCFanLive -------------------------------
(* Model checking FanLive: the regions of MCFanControl with the limits on,   *)
(* the user's maximum moved.                                                *)
EXTENDS MCFanControl, FanLive

LiveDefaults == [MCDefaults EXCEPT !["flooron"] = TRUE, !["starton"] = TRUE]
LiveInsides  == {64, 70, 75}
LiveOutsides == {58, 73, NaN}
LiveVocs     == {0, 300}
LiveRequests == {Give("auto", TRUE), Give("max", 2)}
=============================================================================
