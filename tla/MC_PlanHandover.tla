-------------------------- MODULE MC_PlanHandover --------------------------
(* Three places: one that is planned for and served, one whose plan the     *)
(* timed node refuses and one the arm does not reach; room for one payload, *)
(* so that every new one evicts the one before.                             *)
EXTENDS PlanHandover
CONSTANTS served, refused, far
ThreePlaces == {served, refused, far}
Planned     == {served, refused}
Served      == {served}
=============================================================================
