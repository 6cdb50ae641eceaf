------------------------ MODULE MC_SnapshotHandoff ------------------------
(* Two places of the object, so that a plan can be out of date, and two     *)
(* waypoints, the least for which places need not be near each other.       *)
EXTENDS SnapshotHandoff, TLC
CONSTANTS o1, o2
TwoObjects == {o1, o2}
Symmetry == Permutations(TwoObjects)
=============================================================================
