------------------------- MODULE MCBlueprintBuild -------------------------
(* Two units side by side above the ground; the first has a column of two  *)
(* supports beside it, the second leans on the first.                      *)
EXTENDS BlueprintBuild

TwoUnits   == 1 .. 2
TwoProps   == {11, 12}
Columns    == [u \in 1 .. 2 |-> IF u = 1 THEN <<11, 12>> ELSE <<>>]
Beside     == [u \in 1 .. 2 |-> IF u = 1 THEN {2, 12} ELSE {1}]
Handlers   == 1 .. 2
TwoPlans   == 1 .. 2
=============================================================================
