------------------------ MODULE MC_ShadowExecution ------------------------
(* Two trajectories of one plan, replaced without a new plan id, and one of *)
(* another plan.                                                            *)
EXTENDS ShadowExecution, TLC

CONSTANTS p1, p2, t1, t2, t3

PlanOfThree == t1 :> p1 @@ t2 :> p1 @@ t3 :> p2
===========================================================================
