--------------------------- MODULE MC_VisualGrasp ---------------------------
(* Distances are small multiples of the configured ones: the ramp opens the *)
(* gripper by OpenDelta, a close step moves it by CloseStep ticks.  The     *)
(* lengths of the plan (7 waypoints, 3 segments in config/mvp_grasp.yaml)   *)
(* are cut to one or two, enough for a first, a next and a last one.        *)
EXTENDS VisualGrasp
=============================================================================
