----------------------------- MODULE MCFanControl -----------------------------
(* Model checking FanControl.  Temperatures are half degrees F on a shifted *)
(* scale: low limit 64, its resume point 67, start gate 72.  The readings    *)
(* are one per region those bars and the two differentials cut out:          *)
(*   inside  64 at the limit, 66 inside its margin, 70 above it and below    *)
(*           the start gate, 75 above both, NaN stale                        *)
(*   outside 58 (engage whatever the inside), 73 (release), NaN stale        *)
EXTENDS Words

MCHighUs == [s \in 0 .. 3 |-> CASE s = 0 -> 0    [] s = 1 -> 3477
                                [] s = 2 -> 4072 [] s = 3 -> 4868]

MCDefaults ==
  [f \in Fields |->
     CASE f = "gason" -> TRUE   [] f = "flooron" -> FALSE [] f = "starton" -> FALSE
       [] f = "gasspd" -> 2     [] f = "gasvoc" -> 250    [] f = "max" -> 3
       [] f = "min" -> 0        [] f = "onf" -> 5         [] f = "offf" -> 3
       [] f = "floorf" -> 64    [] f = "startf" -> 72]

Toggle(f) == {[x \in {f} |-> b] : b \in BOOLEAN}
Give(f, v) == [x \in {f} |-> v]

AutoSwitch   == Toggle("auto")
MCNone       == {}
MCRaw        == {4967}

\* Thermostat, limits and gas boost, each sensor lost and found again.
SafeInsides   == {70, 75, NaN}
SafeOutsides  == {58, 73, NaN}
SafeVocs      == {0, 300}
SafeDefaults  == [MCDefaults EXCEPT !["flooron"] = TRUE, !["starton"] = TRUE, !["max"] = 1]
SafeRequests  == AutoSwitch \cup Toggle("starton") \cup Toggle("gason")
                 \cup {Give("floorf", 70)}
SafeHighUs    == [s \in 0 .. 2 |-> MCHighUs[s]]

\* Thresholds that cross, a request with many fields, one with a bad field;
\* power is lost inside the first.
Crossing     == Give("onf", 2)
Many         == [x \in {"gason", "onf", "offf"} |->
                   CASE x = "gason" -> FALSE [] x = "onf" -> 5 [] x = "offf" -> 3]
BadField     == [x \in {"flooron", "max"} |-> CASE x = "flooron" -> FALSE [] x = "max" -> 0]
AllRequests  == SafeRequests \cup {Crossing, Many, BadField}
AllCuts      == {Crossing}
SafeRaw      == {4967}
=============================================================================
