------------------------- MODULE MC_TactileRuntime -------------------------
(* The frame counts of config/mvp_hardware.json are the default ones: three *)
(* frames confirm a contact, five a release.  An age of one tick is fresh. *)
EXTENDS TactileRuntime
=============================================================================
