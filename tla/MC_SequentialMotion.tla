------------------------ MODULE MC_SequentialMotion ------------------------
(* Instances of SequentialMotion for TLC.                                  *)
EXTENDS SequentialMotion

(* Distances 0, 1 (below the tolerance), 4 in the other direction (a step  *)
(* and a remainder below the tolerance) and 8 (two steps and a short one). *)
ZeroStart  == {0}
SomeTargets == {-4, 0, 1, 8}
SomeGrips  == {10, 13}
=============================================================================
