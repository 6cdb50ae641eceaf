--------------------------- MODULE MC_ObjectPose ---------------------------
(* Two places; a window of two, which can be empty, short, of one place or  *)
(* of both; topics that keep two messages, so that a third drops one; an    *)
(* input that outlives one frame.  The bounds of ValidPoseIsRecent are      *)
(* reached: it fails with a horizon shorter by one.                         *)
EXTENDS ObjectPose
TwoPlaces == {0, 2}
=============================================================================
