------------------------ MODULE MC_JointStateStream ------------------------
(* Instance of JointStateStream: a bridge and other clients on one server. *)
EXTENDS JointStateStream
=============================================================================
