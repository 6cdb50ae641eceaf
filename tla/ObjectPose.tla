----------------------------- MODULE ObjectPose -----------------------------
(***************************************************************************)
(* From the camera to a valid pose.  object_pose_node smooths the place of *)
(* the object over a window of frames, on a timer that waits for nobody,   *)
(* and publishes, per frame, a pose, a detected flag and a stable flag on  *)
(* three topics.  Each keeps its last messages and is heard in its own     *)
(* time.  workspace_to_base_node lets a pose pass while its flags, of      *)
(* whatever frame they were heard last, are both true.                     *)
(*                                                                         *)
(* A place is one coordinate of the object.  Places lie more than 6.01 mm  *)
(* apart, so a window of 15 samples that mixes two has a deviation above   *)
(* 1.5 mm; the noise around one place is a choice of `steady'.  Ages are   *)
(* counted in frames: an input ages with every frame that is taken, and,   *)
(* while the camera gives none, time may age it at any step.               *)
(***************************************************************************)
EXTENDS Integers, Sequences, FiniteSets

CONSTANTS
  Places,   \* where the object may lie; even, so that a midpoint is an integer
  Window,   \* samples kept (15 in the code)
  Enough,   \* samples required for a stable pose (10 in the code)
  Depth,    \* messages a topic keeps (10 in the code)
  Timeout,  \* frames after which an input is stale (0.5 s at 20 Hz: 11)
  None

ASSUME PlacesAssumption == \A p \in Places : p \in Nat /\ p % 2 = 0
ASSUME WindowAssumption == Enough \in Nat \ {0} /\ Window \in Nat /\ Enough <= Window
ASSUME DepthAssumption == Depth \in Nat \ {0} /\ Timeout \in Nat \ {0}

VARIABLES
  samples,     \* camera node: the window, oldest first
  recent,      \* the last detection is at most 0.3 s old
  poses, dets, stabs,     \* /object_pose, /object_detected, /object_pose_stable
  detected, stable,       \* transform node: the flags heard last
  left,        \* the frames for which each input it heard stays fresh
  transformed, \* last_valid_time is not None
  base,        \* the last pose it published, and
  passed,      \* whether that is the last pose it heard
  ago,         \* history: detections since the object was seen at a place, and
  since        \* frames since one was called stable; both end at their horizon

camera    == <<samples, recent>>
topics    == <<poses, dets, stabs>>
transform == <<detected, stable, left, transformed, base, passed>>
history   == <<ago, since>>
vars      == <<camera, topics, transform, history>>

Inputs == {"pose", "detected", "stable"}

\* A pose is heard Depth - 1 detections late at most, stays fresh for fewer than
\* Timeout frames, and is a median, which follows the newer half of its window.
Half == Window \div 2
Horizon == Half + (Depth - 1) + (Timeout - 1) + 1
FlagHorizon == (Depth - 1) + (Timeout - 1) + 1

Init ==
  /\ samples = <<>> /\ recent = FALSE
  /\ poses = <<>> /\ dets = <<>> /\ stabs = <<>>
  /\ detected = FALSE /\ stable = FALSE /\ transformed = FALSE
  /\ left = [i \in Inputs |-> 0] /\ base = None /\ passed = FALSE
  /\ ago = [p \in Places |-> Horizon] /\ since = FlagHorizon

-----------------------------------------------------------------------------
(* The camera node: process_frame.                                         *)

\* The k-th smallest sample.
Ranked(s, n) ==
  CHOOSE x \in {s[i] : i \in DOMAIN s} :
    /\ Cardinality({i \in DOMAIN s : s[i] < x}) < n
    /\ Cardinality({i \in DOMAIN s : s[i] <= x}) >= n

\* numpy's median: of an even number, the mean of the two in the middle.
Median(s) == (Ranked(s, (Len(s) + 1) \div 2) + Ranked(s, Len(s) \div 2 + 1)) \div 2

\* A store of the last n: the oldest gives way.
KeepLast(q, x, n) == IF Len(q) < n THEN Append(q, x) ELSE Append(Tail(q), x)

PushUnbounded(s, x) == Append(s, x)
Push(s, x) == KeepLast(s, x, Window)

Publish(q, m) == KeepLast(q, m, Depth)

StableWindow(s) == Len(s) >= Enough /\ \A i \in DOMAIN s : s[i] = s[1]

PublishFlags(d, s) ==
  /\ dets' = Publish(dets, d) /\ stabs' = Publish(stabs, s)
  /\ since' = IF s THEN 0 ELSE IF since < FlagHorizon THEN since + 1 ELSE since

\* A frame is taken: the transform node hears nothing and its inputs age.
FramePasses ==
  /\ left' = [i \in Inputs |-> IF left[i] > 0 THEN left[i] - 1 ELSE 0]
  /\ UNCHANGED <<detected, stable, transformed, base, passed>>

\* The camera gives no frame.  The window stays.
ReadFails ==
  /\ FramePasses /\ PublishFlags(FALSE, FALSE)
  /\ UNCHANGED <<camera, poses, ago>>

NotDetected ==
  /\ FramePasses /\ PublishFlags(FALSE, FALSE)
  /\ samples' = IF recent THEN samples ELSE <<>>
  /\ UNCHANGED <<recent, poses, ago>>

GeometryRejected ==
  /\ FramePasses /\ PublishFlags(FALSE, FALSE)
  /\ samples' = <<>>
  /\ UNCHANGED <<recent, poses, ago>>

Detected(p, steady) ==
  /\ FramePasses
  /\ samples' = Push(samples, p) /\ recent' = TRUE
  /\ ago' = [q \in Places |->
               IF q = p THEN 0 ELSE IF ago[q] < Horizon THEN ago[q] + 1 ELSE ago[q]]
  /\ poses' = Publish(poses, Median(samples'))
  /\ PublishFlags(TRUE, steady /\ StableWindow(samples'))

DetectionAges ==
  /\ recent /\ recent' = FALSE
  /\ UNCHANGED <<samples, topics, transform, history>>

-----------------------------------------------------------------------------
(* The transform node.                                                     *)

Hears(i) == left' = [left EXCEPT ![i] = Timeout]

Pass == base' = Head(poses) /\ passed' = TRUE /\ transformed' = TRUE

\* The time of a pose is taken before it is looked at.
HandlePose ==
  /\ poses # <<>> /\ poses' = Tail(poses) /\ Hears("pose")
  /\ \/ detected /\ stable /\ Pass
     \/ ~(detected /\ stable) /\ passed' = FALSE /\ UNCHANGED <<base, transformed>>
  /\ UNCHANGED <<camera, dets, stabs, detected, stable, history>>

HandleDetected ==
  /\ dets # <<>> /\ dets' = Tail(dets)
  /\ detected' = Head(dets) /\ Hears("detected")
  /\ transformed' = (transformed /\ detected')
  /\ UNCHANGED <<camera, poses, stabs, stable, base, passed, history>>

HandleStableKeeping ==
  /\ stabs # <<>> /\ stabs' = Tail(stabs)
  /\ stable' = Head(stabs) /\ Hears("stable")
  /\ UNCHANGED <<camera, poses, dets, detected, transformed, base, passed, history>>

HandleStable ==
  /\ stabs # <<>> /\ stabs' = Tail(stabs)
  /\ stable' = Head(stabs) /\ Hears("stable")
  /\ transformed' = (transformed /\ stable')
  /\ UNCHANGED <<camera, poses, dets, detected, base, passed, history>>

\* Time passes without frames.
InputAges(i) ==
  /\ left[i] > 0 /\ left' = [left EXCEPT ![i] = 0]
  /\ UNCHANGED <<camera, topics, detected, stable, transformed, base, passed, history>>

ValidOfFlags ==
  detected /\ stable /\ transformed /\ left["detected"] > 0 /\ left["stable"] > 0

\* What publish_validity publishes every 0.1 s; nobody on the way to the
\* pregrasp listens.
Valid == detected /\ stable /\ transformed /\ \A i \in Inputs : left[i] > 0

-----------------------------------------------------------------------------
ProcessFrame ==
  \/ ReadFails \/ NotDetected \/ GeometryRejected
  \/ \E p \in Places, steady \in BOOLEAN : Detected(p, steady)

Transform == HandlePose \/ HandleDetected \/ HandleStable \/ \E i \in Inputs : InputAges(i)

Next == ProcessFrame \/ DetectionAges \/ Transform

Spec == Init /\ [][Next]_vars

-----------------------------------------------------------------------------
Between == {(p + q) \div 2 : p, q \in Places}

TypeOK ==
  /\ samples \in Seq(Places) /\ Len(samples) <= Window
  /\ poses \in Seq(Between) /\ Len(poses) <= Depth
  /\ dets \in Seq(BOOLEAN) /\ Len(dets) <= Depth
  /\ stabs \in Seq(BOOLEAN) /\ Len(stabs) <= Depth
  /\ left \in [Inputs -> 0 .. Timeout] /\ base \in Between \cup {None}
  /\ recent \in BOOLEAN /\ detected \in BOOLEAN /\ stable \in BOOLEAN
  /\ transformed \in BOOLEAN /\ passed \in BOOLEAN
  /\ ago \in [Places -> 0 .. Horizon] /\ since \in 0 .. FlagHorizon

\* While the transform is reported valid, the last base pose is the last pose
\* heard: the age that is tested, that of the pose heard, is the age of the
\* base pose too, although last_valid_time is only compared with None.
ValidMeansCurrent == Valid => passed

\* x lies where the object was seen in the last n + 1 detections, or between.
SeenWithin(x, n) == \E p, q \in Places : ago[p] <= n /\ ago[q] <= n /\ p <= x /\ x <= q

\* ... and it is not old: it lies among the places where the object was seen in
\* the last Horizon detections, and one of the last FlagHorizon frames was
\* called stable, however far the topics, which drop their oldest messages when
\* full, lag behind each other and behind a camera that waits for none of them.
ValidPoseIsRecent == Valid => SeenWithin(base, Horizon - 1) /\ since < FlagHorizon

-----------------------------------------------------------------------------
(* What the proofs use.                                                    *)

\* A transform stands only while both flags heard last are true, and the last
\* pose heard is the one that passed: handle_stable and handle_detected clear it
\* with their flag, and a pose that does not pass is heard under a false flag.
Standing == transformed => detected /\ stable /\ passed

\* Where in the window a place was seen tells how many detections ago at most.
SamplesAreSeen == \A i \in DOMAIN samples : ago[samples[i]] <= Len(samples) - i

PosesAreSeen == \A i \in DOMAIN poses : SeenWithin(poses[i], Half + Len(poses) - i)

FlagsAreSeen == \A i \in DOMAIN stabs : stabs[i] => since <= Len(stabs) - i

\* What was heard was at most Depth - 1 behind, and has aged since.
BaseIsSeen ==
  transformed /\ left["pose"] > 0 =>
    SeenWithin(base, Half + (Depth - 1) + Timeout - left["pose"])

StableIsSeen ==
  stable /\ left["stable"] > 0 => since <= (Depth - 1) + Timeout - left["stable"]

RecentInv ==
  Standing /\ SamplesAreSeen /\ PosesAreSeen /\ FlagsAreSeen /\ BaseIsSeen /\ StableIsSeen
=============================================================================
