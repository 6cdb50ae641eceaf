----------------------- MODULE SnapshotHandoffProofs -----------------------
(***************************************************************************)
(* Theorems about SnapshotHandoff for every set of places of the object,   *)
(* every number of waypoints and every bound on the requests that wait,    *)
(* and their proofs.  HandoffInv is inductive; StepForms first sorts the   *)
(* steps by what they change of it.                                        *)
(***************************************************************************)
EXTENDS SnapshotHandoff, SequenceTheorems, TLAPS

-----------------------------------------------------------------------------
(* Places.                                                                 *)

\* A place over or below the object's place.
LEMMA TargetFields ==
  ASSUME NEW p \in Targets
  PROVE  /\ p = <<p[1], p[2]>> /\ p[1] \in Objects /\ p[2] \in 0 .. Depth
         /\ p \in Column(p[1]) /\ p # None /\ p # Elsewhere
  BY DepthAssumption, PlaceAssumption DEF Targets, Pregrasps, Waypoints, Column

LEMMA MakeTarget ==
  ASSUME NEW o \in Objects, NEW j \in 0 .. Depth
  PROVE  /\ <<o, j>> \in Targets /\ <<o, j>> \in Column(o)
         /\ <<o, j>>[1] = o /\ <<o, j>>[2] = j
         /\ <<o, j>> # None
         /\ <<o, j>> \in Waypoints <=> j # 0
  BY DepthAssumption, PlaceAssumption DEF Targets, Pregrasps, Waypoints, Column

\* A column is the targets at one place of the object.
LEMMA ColumnFields ==
  ASSUME NEW o \in Objects, NEW p
  PROVE  p \in Column(o) <=> p \in Targets /\ p[1] = o
  BY DepthAssumption DEF Targets, Pregrasps, Waypoints, Column

LEMMA ColumnPlace ==
  ASSUME NEW o \in Objects, NEW p \in Column(o)
  PROVE  /\ p = <<o, p[2]>> /\ p[1] = o /\ p[2] \in 0 .. Depth /\ p[2] \in Int
         /\ p \in Targets /\ p # None /\ p # Elsewhere
         /\ p \in Waypoints <=> p[2] # 0
  BY DepthAssumption, PlaceAssumption DEF Targets, Pregrasps, Waypoints, Column

LEMMA WaypointPlace ==
  ASSUME NEW p \in Waypoints
  PROVE  p \in Targets /\ p[1] \in Objects /\ p \in Column(p[1]) /\ p # None
  BY DepthAssumption, PlaceAssumption DEF Targets, Pregrasps, Waypoints, Column

\* Places within the tolerance of each other are in one column, at most one
\* waypoint apart.
LEMMA NearTogether ==
  ASSUME NEW p, NEW q, Near(p, q)
  PROVE  /\ Together(p, q)
         /\ \A o \in Objects : p \in Column(o) <=> q \in Column(o)
<1>1. CASE p = q
  BY <1>1 DEF Together
<1>2. CASE p \in Targets /\ q \in Targets /\ p[1] = q[1]
  <2>1. p[1] \in Objects /\ p \in Column(p[1]) /\ q \in Column(p[1])
    BY <1>2, TargetFields
  <2> QED BY <1>2, <2>1, ColumnFields DEF Together
<1> QED BY <1>1, <1>2 DEF Near

LEMMA NearApart ==
  ASSUME NEW o \in Objects, NEW p \in Column(o), NEW q \in Column(o), Near(p, q)
  PROVE  p[2] <= q[2] + 1 /\ q[2] <= p[2] + 1
<1>1. p[2] \in Int /\ q[2] \in Int
  BY ColumnPlace
<1> QED BY <1>1 DEF Near

LEMMA TogetherFollows ==
  ASSUME NEW p, NEW q, NEW r, Together(p, q), Together(q, r)
  PROVE  Together(p, r)
<1>1. CASE p = q \/ q = r
  BY <1>1
<1>2. CASE /\ \E o \in Objects : p \in Column(o) /\ q \in Column(o)
           /\ \E o \in Objects : q \in Column(o) /\ r \in Column(o)
  <2>1. PICK o \in Objects : p \in Column(o) /\ q \in Column(o)
    BY <1>2
  <2>2. PICK u \in Objects : q \in Column(u) /\ r \in Column(u)
    BY <1>2
  <2>3. o = u
    BY <2>1, <2>2, ColumnPlace
  <2> QED BY <2>1, <2>2, <2>3 DEF Together
<1> QED BY <1>1, <1>2 DEF Together

LEMMA TogetherColumn ==
  ASSUME NEW o \in Objects, NEW p, NEW q, Together(p, q), p \in Column(o) \/ q \in Column(o)
  PROVE  p \in Column(o) /\ q \in Column(o)
<1>1. ASSUME NEW u \in Objects, p \in Column(u), q \in Column(u)
      PROVE  u = o
  BY <1>1, ColumnPlace
<1> QED BY <1>1 DEF Together

-----------------------------------------------------------------------------
(* The queue of the bridge.                                                *)

Requests == Seq({"live", "orphan"})

LEMMA Queued ==
  ASSUME NEW q \in Requests
  PROVE  /\ Len(q) \in Nat /\ DOMAIN q = 1 .. Len(q)
         /\ Append(q, "live") \in Requests
         /\ Len(Append(q, "live")) = Len(q) + 1
         /\ DOMAIN Append(q, "live") = 1 .. Len(q) + 1
         /\ \A i \in DOMAIN q : Append(q, "live")[i] = q[i]
         /\ Append(q, "live")[Len(q) + 1] = "live"
  BY DEF Requests

LEMMA TailOf ==
  ASSUME NEW S, NEW q \in Seq(S), q # <<>>
  PROVE  /\ Head(q) \in S /\ Head(q) = q[1] /\ 1 \in DOMAIN q
         /\ Tail(q) \in Seq(S) /\ Len(Tail(q)) = Len(q) - 1
         /\ \A i \in DOMAIN Tail(q) : i + 1 \in DOMAIN q /\ Tail(q)[i] = q[i + 1]
  OBVIOUS

LEMMA Dequeued ==
  ASSUME NEW q \in Requests, q # <<>>
  PROVE  /\ Head(q) \in {"live", "orphan"} /\ Head(q) = q[1] /\ 1 \in DOMAIN q
         /\ Tail(q) \in Requests /\ Len(Tail(q)) = Len(q) - 1
         /\ \A i \in DOMAIN Tail(q) : i + 1 \in DOMAIN q /\ Tail(q)[i] = q[i + 1]
         /\ Len(q) = 1 => Tail(q) = <<>>
<1>1. q \in Seq({"live", "orphan"})
  BY DEF Requests
<1>2. /\ Head(q) \in {"live", "orphan"} /\ Head(q) = q[1] /\ 1 \in DOMAIN q
      /\ Tail(q) \in Seq({"live", "orphan"}) /\ Len(Tail(q)) = Len(q) - 1
      /\ \A i \in DOMAIN Tail(q) : i + 1 \in DOMAIN q /\ Tail(q)[i] = q[i + 1]
  BY <1>1, TailOf
<1>3. Len(q) = 1 => Tail(q) = <<>>
  BY <1>2, EmptySeq
<1> QED BY <1>2, <1>3 DEF Requests

LEMMA Orphaned ==
  ASSUME NEW q \in Requests
  PROVE  /\ [i \in DOMAIN q |-> Abandoned(q[i])] \in Requests
         /\ \A i \in DOMAIN q : [j \in DOMAIN q |-> Abandoned(q[j])][i] = "orphan"
         /\ DOMAIN [i \in DOMAIN q |-> Abandoned(q[i])] = DOMAIN q
<1> DEFINE r == [i \in DOMAIN q |-> Abandoned(q[i])]
<1>1. \A i \in DOMAIN q : q[i] \in {"live", "orphan"}
  BY DEF Requests
<1>2. Len(q) \in Nat /\ DOMAIN q = 1 .. Len(q)
  BY Queued
<1>3. \A i \in 1 .. Len(q) : r[i] = "orphan"
  BY <1>1, <1>2 DEF Abandoned
<1>4. r \in [1 .. Len(q) -> {"live", "orphan"}]
  BY <1>2, <1>3
<1>5. r \in Requests
  BY <1>2, <1>4, SeqDef DEF Requests
<1> QED BY <1>2, <1>3, <1>5

LEMMA NoRequests == <<>> \in Requests
  BY EmptySeq DEF Requests

\* Whether the script's request waits.
Waits(q) == \E i \in DOMAIN q : q[i] = "live"

LEMMA LiveWaits == Live <=> serving = "live" \/ Waits(queue)
  BY DEF Live, Waits

LEMMA LiveWaitsNext == Live' <=> serving' = "live" \/ Waits(queue')
  BY DEF Live, Waits

-----------------------------------------------------------------------------
(* Types.                                                                  *)

Places == Targets \cup {Elsewhere}

WorldTyped ==
  /\ object \in Objects
  /\ arm \in Places /\ moving \in Targets \cup {None}

BridgeTyped ==
  /\ conn \in BOOLEAN /\ target \in Targets \cup {None} /\ wire \in Targets \cup {None}
  /\ sample \in Places \cup {None}
  /\ serving \in {None, "live", "orphan"} /\ queue \in Requests

FileTyped ==
  file \in [state : {"missing", "planned", "motion_failed", "not_ready", "ready"},
            obj : Objects \cup {None}, young : BOOLEAN]

ScriptTyped ==
  /\ who \in {"none", "move", "descend"}
  /\ execute \in BOOLEAN /\ linked \in BOOLEAN /\ got \subseteq Topics
  /\ frozen \in Objects \cup {None} /\ k \in 0 .. Depth

HearsTyped ==
  /\ heard \in Places \cup {None}
  /\ fresh \in BOOLEAN /\ since \in BOOLEAN
  /\ reply \in {None, "completed", "failed"}

LEMMA Typed == TypeOK <=> WorldTyped /\ BridgeTyped /\ FileTyped /\ ScriptTyped /\ HearsTyped
  BY DEF TypeOK, WorldTyped, BridgeTyped, FileTyped, ScriptTyped, HearsTyped, Places, Requests

LEMMA TypedNext == TypeOK' <=> WorldTyped' /\ BridgeTyped' /\ FileTyped' /\ ScriptTyped' /\ HearsTyped'
  BY DEF TypeOK, WorldTyped, BridgeTyped, FileTyped, ScriptTyped, HearsTyped, Places, Requests

LEMMA InitTyped == Init => TypeOK
<1> SUFFICES ASSUME Init PROVE TypeOK
  OBVIOUS
<1>1. WorldTyped /\ FileTyped
  BY DEF Init, WorldTyped, FileTyped, Places
<1>2. BridgeTyped /\ HearsTyped
  BY NoRequests DEF Init, BridgeTyped, HearsTyped
<1>3. k \in 0 .. Depth /\ got \subseteq Topics
  BY DepthAssumption DEF Init
<1>4. ScriptTyped
  BY <1>3 DEF Init, ScriptTyped
<1> QED BY <1>1, <1>2, <1>4, Typed

\* A script that starts, and one that ends.
LEMMA StartTyped ==
  ASSUME TypeOK, NEW w \in {"move", "descend"}, NEW first, Start(w, first)
  PROVE  TypeOK'
<1>1. WorldTyped' /\ FileTyped'
  BY Typed DEF Start, world, WorldTyped, FileTyped
<1>2. BridgeTyped' /\ HearsTyped'
  BY Typed DEF Start, bridge, BridgeTyped, HearsTyped
<1>3. k' \in 0 .. Depth /\ frozen' \in Objects \cup {None} /\ got' \subseteq Topics
  BY DepthAssumption DEF Start
<1>4. ScriptTyped'
  BY <1>3 DEF Start, ScriptTyped
<1> QED BY <1>1, <1>2, <1>4, TypedNext

LEMMA LeaveTyped ==
  ASSUME TypeOK, NEW reason, Leave(reason)
  PROVE  WorldTyped' /\ BridgeTyped' /\ ScriptTyped' /\ HearsTyped'
<1>1. WorldTyped'
  BY Typed DEF Leave, world, WorldTyped
<1>2. BridgeTyped'
  <2>1. queue' \in Requests
    BY Typed, Orphaned DEF Leave, BridgeTyped
  <2>2. serving' \in {None, "live", "orphan"}
    BY Typed DEF Leave, BridgeTyped, Abandoned
  <2> QED BY Typed, <2>1, <2>2 DEF Leave, BridgeTyped
<1>3. k' \in 0 .. Depth /\ frozen' \in Objects \cup {None} /\ got' \subseteq Topics
  BY DepthAssumption DEF Leave
<1>4. ScriptTyped'
  BY <1>3 DEF Leave, ScriptTyped
<1>5. HearsTyped'
  BY DEF Leave, HearsTyped
<1> QED BY <1>1, <1>2, <1>4, <1>5

LEMMA ExitTyped ==
  ASSUME TypeOK, NEW reason, Exit(reason)
  PROVE  TypeOK'
<1>1. WorldTyped' /\ BridgeTyped' /\ ScriptTyped' /\ HearsTyped'
  BY LeaveTyped DEF Exit
<1>2. FileTyped'
  BY Typed DEF Exit, FileTyped
<1> QED BY <1>1, <1>2, TypedNext

LEMMA SnapshotTyped ==
  ASSUME TypeOK, NEW state \in {"planned", "motion_failed", "not_ready", "ready"}
  PROVE  /\ Snapshot(state) \in [state : {"missing", "planned", "motion_failed", "not_ready", "ready"},
                                 obj : Objects \cup {None}, young : BOOLEAN]
         /\ Snapshot(state).state = state /\ Snapshot(state).obj = frozen
  BY Typed DEF Snapshot, ScriptTyped

LEMMA WriteTyped ==
  ASSUME TypeOK, NEW state \in {"planned", "motion_failed", "not_ready", "ready"}, NEW reason,
         WriteAndExit(state, reason)
  PROVE  TypeOK'
<1>1. WorldTyped' /\ BridgeTyped' /\ ScriptTyped' /\ HearsTyped'
  BY LeaveTyped DEF WriteAndExit
<1>2. FileTyped'
  BY SnapshotTyped DEF WriteAndExit, FileTyped
<1> QED BY <1>1, <1>2, TypedNext

\* A script that goes on.
LEMMA GoTyped ==
  ASSUME TypeOK, NEW next, GoTo(next), UNCHANGED <<world, bridge, sample>>,
         wire' \in Targets \cup {None}, frozen' \in Objects \cup {None},
         UNCHANGED <<k, got, heard, fresh>>, since' \in BOOLEAN, FileTyped'
  PROVE  TypeOK'
<1>1. WorldTyped' /\ BridgeTyped'
  BY Typed DEF world, bridge, WorldTyped, BridgeTyped
<1>2. ScriptTyped' /\ HearsTyped'
  BY Typed DEF GoTo, ScriptTyped, HearsTyped
<1> QED BY <1>1, <1>2, TypedNext

LEMMA OnTyped ==
  ASSUME TypeOK, NEW next, GoTo(next), UNCHANGED <<Outside, file, plan, joints>>
  PROVE  TypeOK'
  BY Typed, GoTyped DEF Outside, plan, joints, BridgeTyped, ScriptTyped, HearsTyped, FileTyped

LEMMA RunTyped == TypeOK /\ (StartMove \/ StartDescend \/ Kill) => TypeOK'
  BY StartTyped, ExitTyped DEF StartMove, StartDescend, Kill

LEMMA CallbacksTyped ==
  ASSUME TypeOK, Callbacks \/ ObjectMoves \/ SnapshotAges
  PROVE  TypeOK'
<1>1. CASE HearJoints
  <2>1. WorldTyped' /\ BridgeTyped' /\ FileTyped'
    BY Typed, <1>1 DEF HearJoints, world, bridge, WorldTyped, BridgeTyped, FileTyped
  <2>2. ScriptTyped' /\ HearsTyped'
    BY Typed, <1>1 DEF HearJoints, plan, BridgeTyped, ScriptTyped, HearsTyped
  <2> QED BY <2>1, <2>2, TypedNext
<1>2. CASE HearLink \/ JointsAge \/ \E t \in Topics : HearPlan(t)
  <2>1. WorldTyped' /\ BridgeTyped' /\ FileTyped'
    BY Typed, <1>2 DEF HearLink, JointsAge, HearPlan, Outside, world, bridge, WorldTyped, BridgeTyped, FileTyped
  <2>2. ScriptTyped'
    BY Typed, <1>2 DEF HearLink, JointsAge, HearPlan, Outside, bridge, plan, BridgeTyped, ScriptTyped
  <2>3. HearsTyped'
    BY Typed, <1>2 DEF HearLink, JointsAge, HearPlan, joints, HearsTyped
  <2> QED BY <2>1, <2>2, <2>3, TypedNext
<1>3. CASE ObjectMoves
  BY Typed, <1>3, TypedNext DEF ObjectMoves, bridge, script, plan, joints,
     WorldTyped, BridgeTyped, FileTyped, ScriptTyped, HearsTyped
<1>4. CASE SnapshotAges
  <2>1. FileTyped'
    BY Typed, <1>4 DEF SnapshotAges, FileTyped
  <2> QED BY Typed, <1>4, <2>1, TypedNext DEF SnapshotAges, Outside, world, bridge, script, plan, joints,
       WorldTyped, BridgeTyped, ScriptTyped, HearsTyped
<1> QED BY <1>1, <1>2, <1>3, <1>4 DEF Callbacks

LEMMA MoveTyped ==
  ASSUME TypeOK, Follows, Move \/ Request \/ Answered
  PROVE  TypeOK'
<1>1. CASE SeeJoints \/ SeeObject \/ ComputeFails \/ Answered
  BY <1>1, OnTyped, ExitTyped DEF SeeJoints, SeeObject, ComputeFails, Answered
<1>2. CASE HandleCompute
  BY <1>2, Typed, GoTyped DEF HandleCompute, Outside, joints, WorldTyped, BridgeTyped, HearsTyped, FileTyped
<1>3. CASE FreezePlan
  <2>1. ASSUME file' = Snapshot("planned"), GoTo("guard"), UNCHANGED <<Outside, plan, joints>>
        PROVE  TypeOK'
    <3>1. FileTyped'
      BY <2>1, SnapshotTyped DEF FileTyped
    <3> QED BY <2>1, <3>1, Typed, GoTyped DEF Outside, plan, joints, BridgeTyped, ScriptTyped, HearsTyped
  <2> QED BY <1>3, <2>1, ExitTyped, WriteTyped DEF FreezePlan
<1>4. CASE PublishPregrasp
  <2>1. ASSUME wire' = <<frozen, 0>>, since' = FALSE,
               GoTo("call"), UNCHANGED <<world, bridge, sample, file, plan, heard, fresh>>
        PROVE  TypeOK'
    <3>1. wire' \in Targets
      BY <1>4, <2>1, MakeTarget, DepthAssumption DEF Follows, PublishPregrasp
    <3> QED BY <2>1, <3>1, Typed, GoTyped DEF plan, ScriptTyped, FileTyped
  <2> QED BY <1>4, <2>1, ExitTyped DEF PublishPregrasp
<1>5. CASE MoveFails \/ MoveEnds
  BY <1>5, WriteTyped DEF MoveFails, MoveEnds
<1>6. CASE Request
  <2>1. queue' \in Requests
    BY <1>6, Typed, Queued DEF Request, BridgeTyped
  <2>2. WorldTyped' /\ BridgeTyped' /\ FileTyped'
    BY <1>6, <2>1, Typed DEF Request, world, WorldTyped, BridgeTyped, FileTyped
  <2>3. ScriptTyped' /\ HearsTyped'
    BY <1>6, Typed DEF Request, GoTo, plan, joints, ScriptTyped, HearsTyped
  <2> QED BY <2>2, <2>3, TypedNext
<1> QED BY <1>1, <1>2, <1>3, <1>4, <1>5, <1>6 DEF Move

LEMMA DescendTyped ==
  ASSUME TypeOK, Follows, ReadyInv, Descend
  PROVE  TypeOK'
<1>1. CASE Load
  <2>1. ASSUME frozen' = file.obj, GoTo("link"), UNCHANGED <<Outside, file, k, got, joints>>
        PROVE  TypeOK'
    <3>1. frozen' \in Objects \cup {None}
      BY <2>1, Typed DEF FileTyped
    <3> QED BY <2>1, <3>1, Typed, GoTyped DEF Outside, joints, BridgeTyped, HearsTyped, FileTyped
  <2> QED BY <1>1, <2>1, ExitTyped DEF Load
<1>2. CASE AwaitLink \/ CheckStart \/ PlanSegments \/ DescentFails
  BY <1>2, OnTyped, ExitTyped DEF AwaitLink, CheckStart, PlanSegments, DescentFails
<1>3. CASE PublishWaypoint
  <2>1. wire' \in Targets
    <3>1. frozen \in Objects /\ k \in 0 .. Depth /\ wire' = <<frozen, k>>
      BY <1>3, Typed DEF PublishWaypoint, Follows, ScriptTyped
    <3> QED BY <3>1, MakeTarget
  <2> QED BY <1>3, <2>1, Typed, GoTyped DEF PublishWaypoint, plan, joints, ScriptTyped, HearsTyped, FileTyped
<1>4. CASE CheckWaypoint
  <2>1. ASSUME k < Depth, k' = k + 1, reply' = None, pc' = "waypoint",
               UNCHANGED <<Outside, file, who, execute, frozen, got, joints, linked, rc>>
        PROVE  TypeOK'
    <3>1. k' \in 0 .. Depth
      BY <2>1, Typed, DepthAssumption DEF ScriptTyped
    <3>2. WorldTyped' /\ BridgeTyped' /\ FileTyped'
      BY <2>1, Typed DEF Outside, world, bridge, WorldTyped, BridgeTyped, FileTyped
    <3>3. ScriptTyped' /\ HearsTyped'
      BY <2>1, <3>1, Typed DEF joints, ScriptTyped, HearsTyped
    <3> QED BY <3>2, <3>3, TypedNext
  <2> QED BY <1>4, <2>1, ExitTyped DEF CheckWaypoint
<1> QED BY <1>1, <1>2, <1>3, <1>4 DEF Descend

LEMMA TellTyped ==
  ASSUME HearsTyped, NEW r, NEW answer \in {"completed", "failed"}, Tell(r, answer)
  PROVE  reply' \in {None, "completed", "failed"}
  BY DEF HearsTyped, Tell

LEMMA StopsTyped ==
  ASSUME TypeOK, NEW p \in Places, NEW answer \in {"completed", "failed"}, Stops(p, answer)
  PROVE  TypeOK'
<1>1. WorldTyped'
  BY Typed DEF Stops, WorldTyped
<1>2. BridgeTyped' /\ FileTyped'
  BY Typed DEF Stops, BridgeTyped, FileTyped
<1>3. reply' \in {None, "completed", "failed"}
  BY Typed, TellTyped DEF Stops, HearsTyped
<1>4. ScriptTyped' /\ HearsTyped'
  BY Typed, <1>3 DEF Stops, ScriptButReply, plan, ScriptTyped, HearsTyped
<1> QED BY <1>1, <1>2, <1>4, TypedNext

\* Where a motion may end.
StopsAt(p, answer) ==
  /\ Stops(p, answer) /\ moving # None
  /\ p \in Places /\ answer \in {"completed", "failed"} /\ (answer = "completed" => p = moving)
  /\ \A o \in Objects : arm \in Column(o) /\ moving \in Column(o)
       => p \in Column(o) /\ Between(arm[2], p[2], moving[2])

LEMMA MotionEndsAt ==
  ASSUME TypeOK, Arrive \/ Abort
  PROVE  \E p, answer : StopsAt(p, answer)
<1>1. CASE Arrive
  <2>1. Stops(moving, "completed") /\ moving # None /\ moving \in Places
    BY <1>1, Typed DEF Arrive, Stops, WorldTyped, Places
  <2>2. \A o \in Objects : arm \in Column(o) /\ moving \in Column(o) => Between(arm[2], moving[2], moving[2])
    BY ColumnPlace DEF Between
  <2> QED BY <2>1, <2>2 DEF StopsAt
<1>2. CASE /\ arm \in Targets /\ moving \in Targets /\ arm[1] = moving[1]
           /\ \E j \in 0 .. Depth :
                /\ (arm[2] <= j /\ j <= moving[2]) \/ (moving[2] <= j /\ j <= arm[2])
                /\ Stops(<<arm[1], j>>, "failed")
  <2>1. PICK j \in 0 .. Depth :
                /\ (arm[2] <= j /\ j <= moving[2]) \/ (moving[2] <= j /\ j <= arm[2])
                /\ Stops(<<arm[1], j>>, "failed")
    BY <1>2
  <2> DEFINE p == <<arm[1], j>>
  <2>2. arm[1] \in Objects /\ p \in Targets /\ p \in Column(arm[1]) /\ p[2] = j
    BY <1>2, TargetFields, MakeTarget
  <2>3. \A o \in Objects : arm \in Column(o) => o = arm[1]
    BY ColumnPlace
  <2>4. Between(arm[2], p[2], moving[2])
    BY <2>1, <2>2 DEF Between
  <2>5. moving # None /\ Stops(p, "failed")
    BY <2>1 DEF Stops
  <2> QED BY <2>2, <2>3, <2>4, <2>5 DEF StopsAt, Places
<1>3. CASE /\ ~(arm \in Targets /\ moving \in Targets /\ arm[1] = moving[1])
           /\ Stops(Elsewhere, "failed")
  <2>1. \A o \in Objects : ~(arm \in Column(o) /\ moving \in Column(o))
    BY <1>3, ColumnPlace
  <2> QED BY <1>3, <2>1 DEF StopsAt, Stops, Places
<1> QED BY <1>1, <1>2, <1>3 DEF Abort

LEMMA BridgeTypedNext ==
  ASSUME TypeOK, Bridge
  PROVE  TypeOK'
<1>1. CASE Poll
  <2>1. WorldTyped' /\ BridgeTyped' /\ FileTyped'
    BY <1>1, Typed DEF Poll, world, WorldTyped, BridgeTyped, FileTyped
  <2>2. ScriptTyped' /\ HearsTyped'
    BY <1>1, Typed DEF Poll, script, plan, joints, ScriptTyped, HearsTyped
  <2> QED BY <2>1, <2>2, TypedNext
<1>2. CASE HearTarget
  <2>1. WorldTyped' /\ BridgeTyped' /\ FileTyped'
    BY <1>2, Typed DEF HearTarget, world, WorldTyped, BridgeTyped, FileTyped
  <2>2. ScriptTyped' /\ HearsTyped'
    BY <1>2, Typed DEF HearTarget, script, plan, joints, ScriptTyped, HearsTyped
  <2> QED BY <2>1, <2>2, TypedNext
<1>3. CASE ExecuteTarget
  <2>1. Tail(queue) \in Requests /\ Head(queue) \in {"live", "orphan"}
    BY <1>3, Typed, Dequeued DEF ExecuteTarget, BridgeTyped
  <2>2. WorldTyped' /\ BridgeTyped' /\ FileTyped'
    BY <1>3, <2>1, Typed DEF ExecuteTarget, WorldTyped, BridgeTyped, FileTyped
  <2>3. reply' \in {None, "completed", "failed"}
    BY <1>3, Typed, TellTyped DEF ExecuteTarget, HearsTyped
  <2>4. ScriptTyped' /\ HearsTyped'
    BY <1>3, <2>3, Typed DEF ExecuteTarget, ScriptButReply, plan, joints, ScriptTyped, HearsTyped
  <2> QED BY <2>2, <2>4, TypedNext
<1>4. CASE Arrive \/ Abort
  BY <1>4, MotionEndsAt, StopsTyped DEF StopsAt
<1>5. CASE ResultUnknown
  <2>1. reply' \in {None, "completed", "failed"}
    BY <1>5, Typed, TellTyped DEF ResultUnknown, HearsTyped
  <2>2. WorldTyped' /\ BridgeTyped' /\ FileTyped'
    BY <1>5, Typed DEF ResultUnknown, world, WorldTyped, BridgeTyped, FileTyped
  <2>3. ScriptTyped' /\ HearsTyped'
    BY <1>5, <2>1, Typed DEF ResultUnknown, ScriptButReply, plan, joints, ScriptTyped, HearsTyped
  <2> QED BY <2>2, <2>3, TypedNext
<1>6. CASE BridgeRestarts
  <2>1. BridgeTyped'
    BY <1>6, Typed, NoRequests DEF BridgeRestarts, BridgeTyped
  <2>2. WorldTyped' /\ FileTyped'
    BY <1>6, Typed DEF BridgeRestarts, world, WorldTyped, FileTyped
  <2>3. ScriptTyped' /\ HearsTyped'
    BY <1>6, Typed DEF BridgeRestarts, script, plan, joints, ScriptTyped, HearsTyped
  <2> QED BY <2>1, <2>2, <2>3, TypedNext
<1> QED BY <1>1, <1>2, <1>3, <1>4, <1>5, <1>6 DEF Bridge

LEMMA KeepsTypes ==
  ASSUME TypeOK, Follows, ReadyInv, [Next]_vars
  PROVE  TypeOK'
<1>1. CASE Next
  BY <1>1, RunTyped, CallbacksTyped, MoveTyped, DescendTyped, BridgeTypedNext DEF Next, Operator
<1>2. CASE UNCHANGED vars
  <2>1. WorldTyped' /\ BridgeTyped' /\ FileTyped'
    BY <1>2, Typed DEF vars, world, bridge, WorldTyped, BridgeTyped, FileTyped
  <2>2. ScriptTyped' /\ HearsTyped'
    BY <1>2, Typed DEF vars, script, plan, joints, ScriptTyped, HearsTyped
  <2> QED BY <2>1, <2>2, TypedNext
<1> QED BY <1>1, <1>2

-----------------------------------------------------------------------------
(* The steps, by what they change of the invariant.                        *)

\* A step between positions the invariant does not tell apart, or of what it
\* does not mention.
Quiet ==
  /\ \/ pc' = pc
     \/ pc = "joints" /\ pc' = "object"
     \/ pc = "object" /\ pc' = "compute"
     \/ pc = "link" /\ pc' = "start"
  /\ UNCHANGED <<arm, moving, bridge, wire, sample, who, frozen, k, heard, reply>>
  /\ file'.state = file.state /\ file'.obj = file.obj
  /\ fresh' => fresh

\* The script ends; a move may take the snapshot back.
Quits ==
  /\ \E reason : Leave(reason)
  /\ \/ file' = file
     \/ who = "move" /\ file'.state # "ready" /\ file'.obj \in Objects

\* A move ends with the arm where it should be.
EndsReady ==
  /\ who = "move" /\ pc = "after" /\ fresh /\ Near(heard, <<frozen, 0>>)
  /\ file'.state = "ready" /\ file'.obj = frozen
  /\ \E reason : Leave(reason)

\* The script goes on from p to q and leaves everything else as it is, or
\* changes what is said beside it.
Passes(p, q) == pc = p /\ pc' = q /\ UNCHANGED <<arm, moving, bridge, sample, who, k, heard, fresh, reply>>

Plans ==
  /\ Passes("compute", "plan") /\ frozen' \in Objects /\ UNCHANGED <<wire, file>>
Freezes ==
  /\ Passes("plan", "guard") /\ UNCHANGED <<wire, frozen>>
  /\ file'.state # "ready" /\ file'.obj = frozen
PublishesPregrasp ==
  Passes("guard", "call") /\ wire' = <<frozen, 0>> /\ UNCHANGED <<frozen, file>>

Loads ==
  /\ Passes("load", "link") /\ file.state = "ready" /\ frozen' = file.obj
  /\ UNCHANGED <<wire, file>>
Begins ==
  /\ Passes("start", "segments") /\ fresh /\ Near(heard, <<frozen, 0>>)
  /\ UNCHANGED <<wire, frozen, file>>
Segments == Passes("segments", "waypoint") /\ UNCHANGED <<wire, frozen, file>>
PublishesWaypoint ==
  Passes("waypoint", "call") /\ wire' = <<frozen, k>> /\ UNCHANGED <<frozen, file>>
IsAnswered ==
  Passes("wait", "after") /\ reply = "completed" /\ UNCHANGED <<wire, frozen, file>>

\* The descent goes on to its next waypoint.
Deepens ==
  /\ who = "descend" /\ pc = "after" /\ fresh /\ heard = <<frozen, k>> /\ k < Depth
  /\ k' = k + 1 /\ reply' = None /\ pc' = "waypoint"
  /\ UNCHANGED <<arm, moving, bridge, wire, sample, who, frozen, file, heard, fresh>>

MoveForm == Plans \/ Freezes \/ PublishesPregrasp
DescendForm == Loads \/ Begins \/ Segments \/ PublishesWaypoint \/ Deepens
ScriptForm ==
  \/ StartMove \/ StartDescend \/ Quits \/ EndsReady \/ Quiet
  \/ HearJoints \/ MoveForm \/ DescendForm \/ Request \/ IsAnswered
BridgeForm ==
  \/ Poll \/ HearTarget \/ ExecuteTarget \/ ResultUnknown \/ BridgeRestarts
  \/ \E p, answer : StopsAt(p, answer)

LEMMA ExitQuits == ASSUME NEW reason, Exit(reason) PROVE Quits
  BY DEF Exit, Quits

LEMMA WriteQuits ==
  ASSUME TypeOK, who = "move", frozen \in Objects, NEW reason,
         NEW state \in {"planned", "motion_failed", "not_ready"}, WriteAndExit(state, reason)
  PROVE  Quits
  BY DEF WriteAndExit, Quits, Snapshot

LEMMA OnQuiet ==
  ASSUME NEW next, GoTo(next), UNCHANGED <<Outside, file, plan, joints>>,
         \/ pc = "joints" /\ next = "object"
         \/ pc = "object" /\ next = "compute"
         \/ pc = "link" /\ next = "start"
  PROVE  Quiet
  BY DEF GoTo, Outside, world, plan, joints, Quiet

LEMMA OperatorForms ==
  ASSUME TypeOK, Operator \/ SnapshotAges
  PROVE  ScriptForm
<1>1. CASE Kill
  BY <1>1, ExitQuits DEF Kill, ScriptForm
<1>2. CASE ObjectMoves
  <2>1. Quiet
    BY <1>2 DEF ObjectMoves, script, plan, joints, Quiet
  <2> QED BY <2>1 DEF ScriptForm
<1>3. CASE SnapshotAges
  <2>1. file'.state = file.state /\ file'.obj = file.obj
    BY <1>3, Typed DEF SnapshotAges, FileTyped
  <2>2. Quiet
    BY <1>3, <2>1 DEF SnapshotAges, Outside, world, script, plan, joints, Quiet
  <2> QED BY <2>2 DEF ScriptForm
<1> QED BY <1>1, <1>2, <1>3 DEF Operator, ScriptForm

LEMMA CallbackForms ==
  ASSUME Callbacks
  PROVE  ScriptForm
<1>1. CASE HearLink \/ JointsAge \/ \E t \in Topics : HearPlan(t)
  <2>1. Quiet
    BY <1>1 DEF HearLink, JointsAge, HearPlan, Outside, world, plan, joints, Quiet
  <2> QED BY <2>1 DEF ScriptForm
<1> QED BY <1>1 DEF Callbacks, ScriptForm

LEMMA MoveForms ==
  ASSUME TypeOK, Follows, Move \/ Request \/ Answered
  PROVE  ScriptForm
<1>1. CASE SeeJoints \/ SeeObject \/ ComputeFails
  BY <1>1, OnQuiet, ExitQuits DEF SeeJoints, SeeObject, ComputeFails, ScriptForm
<1>2. CASE HandleCompute
  <2>1. Plans
    BY <1>2, Typed DEF HandleCompute, GoTo, Outside, world, joints, Plans, Passes, WorldTyped
  <2> QED BY <2>1 DEF ScriptForm, MoveForm
<1>3. CASE FreezePlan
  <2>0. who = "move" /\ frozen \in Objects
    BY <1>3, Typed DEF FreezePlan, Follows, ScriptTyped
  <2>1. ASSUME file' = Snapshot("planned"), GoTo("guard"), UNCHANGED <<Outside, plan, joints>>
        PROVE  Freezes
    BY <1>3, <2>1 DEF FreezePlan, GoTo, Outside, world, plan, joints, Freezes, Passes, Snapshot
  <2> QED BY <1>3, <2>0, <2>1, ExitQuits, WriteQuits DEF FreezePlan, ScriptForm, MoveForm
<1>4. CASE PublishPregrasp
  <2>1. ASSUME wire' = <<frozen, 0>>, GoTo("call"), UNCHANGED <<world, bridge, sample, file, plan, heard, fresh>>
        PROVE  PublishesPregrasp
    BY <1>4, <2>1 DEF PublishPregrasp, GoTo, world, plan, PublishesPregrasp, Passes
  <2> QED BY <1>4, <2>1, ExitQuits DEF PublishPregrasp, ScriptForm, MoveForm
<1>5. CASE MoveFails
  <2>1. frozen \in Objects
    BY <1>5 DEF MoveFails, Follows
  <2> QED BY <1>5, <2>1, WriteQuits DEF MoveFails, ScriptForm
<1>6. CASE MoveEnds
  <2>1. frozen \in Objects
    BY <1>6 DEF MoveEnds, Follows
  <2>2. ASSUME fresh, Near(heard, <<frozen, 0>>), WriteAndExit("ready", "ok")
        PROVE  EndsReady
    BY <1>6, <2>2 DEF MoveEnds, WriteAndExit, Snapshot, EndsReady
  <2> QED BY <1>6, <2>1, <2>2, WriteQuits DEF MoveEnds, ScriptForm
<1>7. CASE Answered
  <2>1. IsAnswered
    BY <1>7 DEF Answered, GoTo, Outside, world, plan, joints, IsAnswered, Passes
  <2> QED BY <2>1 DEF ScriptForm
<1> QED BY <1>1, <1>2, <1>3, <1>4, <1>5, <1>6, <1>7 DEF Move, ScriptForm

LEMMA DescendForms ==
  ASSUME Descend
  PROVE  ScriptForm
<1>1. CASE Load
  <2>1. ASSUME file.state = "ready", frozen' = file.obj, GoTo("link"), UNCHANGED <<Outside, file, k, got, joints>>
        PROVE  Loads
    BY <1>1, <2>1 DEF Load, GoTo, Outside, world, joints, Loads, Passes
  <2> QED BY <1>1, <2>1, ExitQuits DEF Load, ScriptForm, DescendForm
<1>2. CASE AwaitLink \/ DescentFails
  BY <1>2, OnQuiet, ExitQuits DEF AwaitLink, DescentFails, ScriptForm
<1>3. CASE CheckStart
  <2>1. ASSUME fresh, Near(heard, <<frozen, 0>>), GoTo("segments"), UNCHANGED <<Outside, file, plan, joints>>
        PROVE  Begins
    BY <1>3, <2>1 DEF CheckStart, GoTo, Outside, world, plan, joints, Begins, Passes
  <2> QED BY <1>3, <2>1, ExitQuits DEF CheckStart, ScriptForm, DescendForm
<1>4. CASE PlanSegments
  <2>1. ASSUME GoTo("waypoint"), UNCHANGED <<Outside, file, plan, joints>>
        PROVE  Segments
    BY <1>4, <2>1 DEF PlanSegments, GoTo, Outside, world, plan, joints, Segments, Passes
  <2> QED BY <1>4, <2>1, ExitQuits DEF PlanSegments, ScriptForm, DescendForm
<1>5. CASE PublishWaypoint
  <2>1. PublishesWaypoint
    BY <1>5 DEF PublishWaypoint, GoTo, world, plan, joints, PublishesWaypoint, Passes
  <2> QED BY <2>1 DEF ScriptForm, DescendForm
<1>6. CASE CheckWaypoint
  <2>1. ASSUME fresh, heard = <<frozen, k>>, k < Depth, k' = k + 1, reply' = None, pc' = "waypoint",
               UNCHANGED <<Outside, file, who, execute, frozen, got, joints, linked, rc>>
        PROVE  Deepens
    BY <1>6, <2>1 DEF CheckWaypoint, Outside, world, joints, Deepens
  <2> QED BY <1>6, <2>1, ExitQuits DEF CheckWaypoint, ScriptForm, DescendForm
<1> QED BY <1>1, <1>2, <1>3, <1>4, <1>5, <1>6 DEF Descend

LEMMA StepForms ==
  ASSUME TypeOK, Follows, [Next]_vars
  PROVE  ScriptForm \/ BridgeForm
<1>1. CASE Next
  BY <1>1, OperatorForms, CallbackForms, MoveForms, DescendForms, MotionEndsAt DEF Next, Bridge, BridgeForm
<1>2. CASE UNCHANGED vars
  <2>1. Quiet
    BY <1>2 DEF vars, world, script, plan, joints, Quiet
  <2> QED BY <2>1 DEF ScriptForm
<1> QED BY <1>1, <1>2

-----------------------------------------------------------------------------
(* The positions of the scripts and the requests.                          *)

\* The script a position belongs to.
LEMMA ScriptOf ==
  ASSUME TypeOK, Follows
  PROVE  /\ pc \in {"joints", "object", "compute", "plan", "guard"} => who = "move"
         /\ pc \in {"load", "link", "start", "segments", "waypoint"} => who = "descend"
  BY Typed DEF Follows, ScriptTyped

LEMMA BridgeAside ==
  ASSUME BridgeForm
  PROVE  UNCHANGED <<file, who, pc, frozen, k, heard>>
  BY DEF BridgeForm, Poll, HearTarget, ExecuteTarget, ResultUnknown, BridgeRestarts, StopsAt, Stops,
     script, ScriptButReply, plan, joints

LEMMA LeaveEnds ==
  ASSUME Quits \/ EndsReady
  PROVE  /\ who' = "none" /\ pc' = "idle" /\ ~fresh' /\ reply' = None
         /\ UNCHANGED <<arm, moving, conn, target, wire, sample>>
         /\ serving' = Abandoned(serving)
         /\ queue' = [i \in DOMAIN queue |-> Abandoned(queue[i])]
  BY DEF Quits, EndsReady, Leave, world

LEMMA KeepsFollows ==
  ASSUME TypeOK, Follows, ReadyInv, ScriptForm \/ BridgeForm
  PROVE  Follows'
<1>1. CASE StartMove \/ StartDescend
  BY <1>1, DepthAssumption DEF StartMove, StartDescend, Start, Follows
<1>2. CASE Quits \/ EndsReady
  BY <1>2, LeaveEnds DEF Follows
<1>3. CASE Quiet
  BY <1>3 DEF Quiet, Follows
<1>4. CASE HearJoints
  BY <1>4 DEF HearJoints, plan, Follows
<1>5. CASE MoveForm
  BY <1>5 DEF MoveForm, Plans, Freezes, PublishesPregrasp, Passes, Follows
<1>6. CASE Loads \/ Begins \/ Segments \/ PublishesWaypoint
  BY <1>6 DEF Loads, Begins, Segments, PublishesWaypoint, Passes, Follows, ReadyInv
<1>7. CASE Deepens
  <2>1. k' \in 1 .. Depth
    BY <1>7, DepthAssumption DEF Deepens, Follows
  <2> QED BY <1>7, <2>1 DEF Deepens, Follows
<1>8. CASE Request \/ IsAnswered
  BY <1>8 DEF Request, IsAnswered, Passes, GoTo, plan, Follows
<1>9. CASE BridgeForm
  BY <1>9, BridgeAside DEF Follows
<1> QED BY <1>1, <1>2, <1>3, <1>4, <1>5, <1>6, <1>7, <1>8, <1>9 DEF ScriptForm, DescendForm

\* A script that does not wait has no request with the bridge.
LEMMA QuietQueue ==
  ASSUME OneLive, UNCHANGED <<queue, serving>>, reply' = reply \/ reply' = None,
         pc' = pc \/ ~Live, reply' # None => pc' \in {"wait", "after"}, pc' = "after" => reply' = "completed"
  PROVE  OneLive'
<1>1. Live' <=> Live
  BY DEF Live
<1> QED BY <1>1 DEF OneLive

LEMMA ScriptKeepsOneLive ==
  ASSUME TypeOK, Follows, OneLive, ScriptForm
  PROVE  OneLive'
<1>1. CASE StartMove \/ StartDescend
  <2>1. UNCHANGED <<queue, serving>> /\ reply' = None /\ ~Live /\ pc' # "after"
    BY <1>1 DEF StartMove, StartDescend, Start, bridge, Follows, OneLive
  <2> QED BY <2>1, QuietQueue
<1>2. CASE Quits \/ EndsReady
  <2>1. \A i \in DOMAIN queue' : queue'[i] # "live"
    BY <1>2, LeaveEnds, Typed, Orphaned DEF BridgeTyped
  <2>2. serving' # "live"
    BY <1>2, LeaveEnds, Typed DEF BridgeTyped, Abandoned
  <2> QED BY <1>2, <2>1, <2>2, LeaveEnds DEF OneLive, Live
<1>3. CASE Quiet
  <2>1. UNCHANGED <<queue, serving, reply>> /\ (pc' = pc \/ ~Live)
    BY <1>3 DEF Quiet, bridge, OneLive
  <2>2. reply' # None => pc' \in {"wait", "after"}
    BY <1>3, <2>1 DEF Quiet, OneLive
  <2>3. pc' = "after" => reply' = "completed"
    BY <1>3, <2>1 DEF Quiet, OneLive
  <2> QED BY <2>1, <2>2, <2>3, QuietQueue
<1>4. CASE HearJoints
  <2>1. UNCHANGED <<queue, serving, reply, pc>>
    BY <1>4 DEF HearJoints, bridge
  <2> QED BY <2>1, QuietQueue DEF OneLive
<1>5. CASE MoveForm \/ Loads \/ Begins \/ Segments \/ PublishesWaypoint
  <2>1. UNCHANGED <<queue, serving, reply>> /\ pc \notin {"wait", "after"} /\ pc' # "after"
    BY <1>5 DEF MoveForm, Plans, Freezes, PublishesPregrasp, Loads, Begins, Segments, PublishesWaypoint,
       Passes, bridge
  <2>2. ~Live /\ reply' = None
    BY <2>1 DEF OneLive
  <2> QED BY <2>1, <2>2, QuietQueue
<1>6. CASE Deepens
  <2>1. UNCHANGED <<queue, serving>> /\ ~Live /\ reply' = None /\ pc' # "after"
    BY <1>6 DEF Deepens, bridge, OneLive
  <2> QED BY <2>1, QuietQueue
<1>7. CASE IsAnswered
  <2>1. UNCHANGED <<queue, serving, reply>> /\ ~Live /\ pc' = "after" /\ reply' = "completed"
    BY <1>7, PlaceAssumption DEF IsAnswered, Passes, bridge, OneLive
  <2> QED BY <2>1, QuietQueue
<1>8. CASE Request
  <2>1. ~Live /\ reply' = None /\ pc' = "wait" /\ serving' = serving /\ serving # "live"
        /\ queue' = Append(queue, "live")
    BY <1>8 DEF Request, GoTo, OneLive, Live
  <2>2. \A i \in DOMAIN queue : queue[i] # "live"
    BY <2>1 DEF Live
  <2>3. \A i \in DOMAIN queue' : queue'[i] = "live" => i = Len(queue')
    BY <2>1, <2>2, Typed, Queued DEF BridgeTyped
  <2> QED BY <2>1, <2>3 DEF OneLive
<1> QED BY <1>1, <1>2, <1>3, <1>4, <1>5, <1>6, <1>7, <1>8 DEF ScriptForm, DescendForm

\* The bridge is done with the request it serves.
LEMMA ServedOneLive ==
  ASSUME TypeOK, Follows, OneLive, serving' = None, queue' = queue, pc' = pc,
         NEW answer \in {"completed", "failed"},
         IF serving # None THEN Tell(serving, answer) ELSE UNCHANGED reply
  PROVE  OneLive'
<1>1. CASE serving = "live"
  <2>1. queue' = <<>> /\ ~Live' /\ pc' = "wait" /\ reply' = answer
    BY <1>1, PlaceAssumption DEF OneLive, Live, Tell
  <2> QED BY <2>1, PlaceAssumption DEF OneLive
<1>2. CASE serving # "live"
  <2>1. reply' = reply /\ (Live' => Live)
    BY <1>2, PlaceAssumption DEF Tell, Live
  <2> QED BY <2>1, PlaceAssumption DEF OneLive
<1> QED BY <1>1, <1>2

LEMMA ExecuteKeepsOneLive ==
  ASSUME TypeOK, Follows, OneLive, ExecuteTarget
  PROVE  OneLive'
<1>1. /\ queue \in Requests /\ queue # <<>> /\ serving = None /\ queue' = Tail(queue)
      /\ pc' = pc /\ reply = None
  BY Typed DEF ExecuteTarget, ScriptButReply, OneLive, BridgeTyped
<1>2. /\ Head(queue) = queue[1] /\ 1 \in DOMAIN queue /\ Len(queue') = Len(queue) - 1
      /\ \A i \in DOMAIN queue' : i + 1 \in DOMAIN queue /\ queue'[i] = queue[i + 1]
      /\ Len(queue) = 1 => queue' = <<>>
      /\ queue' \in Requests
  BY <1>1, Dequeued
<1>3. \A i \in DOMAIN queue' : queue'[i] = "live" => i = Len(queue')
  <2> SUFFICES ASSUME NEW i \in DOMAIN queue', queue'[i] = "live" PROVE i = Len(queue')
    OBVIOUS
  <2>1. i + 1 = Len(queue)
    BY <1>2 DEF OneLive
  <2>2. i \in Nat /\ Len(queue) \in Nat
    BY <1>1, <1>2, Queued
  <2> QED BY <1>2, <2>1, <2>2
<1>4. Head(queue) = "live" => queue' = <<>>
  BY <1>2 DEF OneLive
<1>5. Waits(queue') => Live /\ pc = "wait"
  BY <1>2 DEF Waits, Live, OneLive
<1>6. CASE conn /\ target # None
  <2>1. serving' = Head(queue) /\ reply' = None
    BY <1>1, <1>6 DEF ExecuteTarget
  <2>2. serving' = "live" => Live
    BY <1>2, <2>1 DEF Live
  <2>3. Live' => Live
    BY <1>5, <2>2, LiveWaitsNext
  <2>4. Live' => pc' = "wait" /\ reply' = None
    BY <1>1, <2>1, <2>3 DEF OneLive
  <2>5. pc' = "after" => reply' = "completed"
    BY <1>1, PlaceAssumption DEF OneLive
  <2> QED BY <1>3, <1>4, <2>1, <2>4, <2>5 DEF OneLive
<1>7. CASE ~(conn /\ target # None)
  <2>1. serving' = None /\ Tell(Head(queue), "failed")
    BY <1>1, <1>7 DEF ExecuteTarget
  <2>2. Live' => Live /\ Waits(queue')
    BY <1>5, <2>1, LiveWaitsNext, PlaceAssumption
  <2>3. CASE Head(queue) = "live"
    <3>1. queue' = <<>> /\ reply' = "failed" /\ pc' = "wait"
      BY <1>1, <1>2, <1>4, <2>1, <2>3 DEF Tell, OneLive, Live
    <3>2. ~Live'
      BY <2>2, <3>1 DEF Waits
    <3> QED BY <2>1, <3>1, <3>2, PlaceAssumption DEF OneLive
  <2>4. CASE Head(queue) # "live"
    <3>1. reply' = None
      BY <1>1, <2>1, <2>4 DEF Tell
    <3>2. Live' => pc' = "wait"
      BY <1>1, <2>2 DEF OneLive
    <3>3. pc' = "after" => reply' = "completed"
      BY <1>1, PlaceAssumption DEF OneLive
    <3> QED BY <1>3, <2>1, <3>1, <3>2, <3>3, PlaceAssumption DEF OneLive
  <2> QED BY <2>3, <2>4
<1> QED BY <1>6, <1>7

LEMMA BridgeKeepsOneLive ==
  ASSUME TypeOK, Follows, OneLive, BridgeForm
  PROVE  OneLive'
<1>1. CASE Poll \/ HearTarget
  <2>1. UNCHANGED <<queue, serving, reply, pc>>
    BY <1>1 DEF Poll, HearTarget, script
  <2> QED BY <2>1, QuietQueue DEF OneLive
<1>2. CASE ExecuteTarget
  BY <1>2, ExecuteKeepsOneLive
<1>3. CASE ResultUnknown
  BY <1>3, ServedOneLive DEF ResultUnknown, ScriptButReply
<1>4. CASE \E p, answer : StopsAt(p, answer)
  <2>1. PICK p, answer : StopsAt(p, answer)
    BY <1>4
  <2> QED BY <2>1, ServedOneLive DEF StopsAt, Stops, ScriptButReply
<1>5. CASE BridgeRestarts
  <2>1. queue' = <<>> /\ serving' = None /\ UNCHANGED <<pc, reply>>
    BY <1>5 DEF BridgeRestarts, script
  <2> QED BY <2>1, PlaceAssumption DEF OneLive, Live
<1> QED BY <1>1, <1>2, <1>3, <1>4, <1>5 DEF BridgeForm

-----------------------------------------------------------------------------
(* The bridge and the joint states.                                        *)

\* What a script leaves alone.
LEMMA ScriptAside ==
  ASSUME TypeOK, ScriptForm
  PROVE  /\ UNCHANGED <<arm, moving, conn, target>>
         /\ serving' = serving \/ (serving # None /\ serving' # None)
         /\ sample' = sample \/ sample' = None
<1>1. CASE Quits \/ EndsReady
  <2>1. serving' = serving \/ (serving # None /\ serving' # None)
    BY <1>1, LeaveEnds, PlaceAssumption DEF Abandoned
  <2> QED BY <1>1, <2>1, LeaveEnds
<1>2. CASE StartMove \/ StartDescend
  BY <1>2 DEF StartMove, StartDescend, Start, world, bridge
<1>3. CASE Quiet \/ HearJoints
  BY <1>3 DEF Quiet, HearJoints, world, bridge
<1>4. CASE MoveForm
  BY <1>4 DEF MoveForm, Plans, Freezes, PublishesPregrasp, Passes, bridge
<1>5. CASE DescendForm
  BY <1>5 DEF DescendForm, Loads, Begins, Segments, PublishesWaypoint, Deepens, Passes, bridge
<1>6. CASE Request \/ IsAnswered
  BY <1>6 DEF Request, IsAnswered, Passes, world, bridge
<1> QED BY <1>1, <1>2, <1>3, <1>4, <1>5, <1>6 DEF ScriptForm

LEMMA KeepsServes ==
  ASSUME TypeOK, Serves, ScriptForm \/ BridgeForm
  PROVE  Serves'
<1>1. CASE ScriptForm
  BY <1>1, ScriptAside DEF Serves
<1>2. CASE Poll \/ HearTarget
  BY <1>2 DEF Poll, HearTarget, world, Serves
<1>3. CASE ExecuteTarget
  <2>1. Head(queue) # None
    BY <1>3, Typed, Dequeued, PlaceAssumption DEF ExecuteTarget, BridgeTyped
  <2> QED BY <1>3, <2>1 DEF ExecuteTarget, Serves
<1>4. CASE ResultUnknown \/ BridgeRestarts
  BY <1>4 DEF ResultUnknown, BridgeRestarts, Serves
<1>5. CASE \E p, answer : StopsAt(p, answer)
  BY <1>5 DEF StopsAt, Stops, Serves
<1> QED BY <1>1, <1>2, <1>3, <1>4, <1>5 DEF BridgeForm

\* A script hears what is under way, or nothing new.
LEMMA ScriptHears ==
  ASSUME ScriptForm
  PROVE  \/ sample # None /\ heard' = sample /\ sample' = None
         \/ /\ sample' = sample \/ sample' = None
            /\ ~fresh' \/ (fresh /\ heard' = heard)
<1>1. CASE Quits \/ EndsReady
  BY <1>1, LeaveEnds
<1>2. CASE StartMove \/ StartDescend
  BY <1>2 DEF StartMove, StartDescend, Start
<1>3. CASE Quiet \/ HearJoints
  BY <1>3 DEF Quiet, HearJoints
<1>4. CASE MoveForm
  BY <1>4 DEF MoveForm, Plans, Freezes, PublishesPregrasp, Passes
<1>5. CASE DescendForm
  BY <1>5 DEF DescendForm, Loads, Begins, Segments, PublishesWaypoint, Deepens, Passes
<1>6. CASE Request \/ IsAnswered
  BY <1>6 DEF Request, IsAnswered, Passes, joints
<1> QED BY <1>1, <1>2, <1>3, <1>4, <1>5, <1>6 DEF ScriptForm

LEMMA KeepsSeen ==
  ASSUME TypeOK, Seen, ScriptForm \/ BridgeForm
  PROVE  Seen'
<1>1. CASE ScriptForm
  <2>1. arm' = arm
    BY <1>1, ScriptAside
  <2> QED BY <1>1, <2>1, ScriptHears DEF Seen, Together
<1>2. CASE Poll
  BY <1>2 DEF Poll, script, joints, world, Seen, Together
<1>3. CASE HearTarget \/ ExecuteTarget \/ ResultUnknown \/ BridgeRestarts
  BY <1>3 DEF HearTarget, ExecuteTarget, ResultUnknown, BridgeRestarts, script, joints, world, Seen, Together
<1>4. CASE \E p, answer : StopsAt(p, answer)
  <2>1. PICK p, answer : StopsAt(p, answer)
    BY <1>4
  <2>2. arm' = p /\ heard' = heard
    BY <2>1 DEF StopsAt, Stops
  <2>3. CASE Near(arm, p)
    <3>1. fresh' = fresh /\ sample' = sample /\ Together(arm, p)
      BY <2>1, <2>3, NearTogether DEF StopsAt, Stops
    <3>2. fresh => heard # None /\ Together(heard, p)
      BY <3>1, TogetherFollows DEF Seen
    <3>3. sample # None => Together(sample, p)
      BY <3>1, TogetherFollows DEF Seen
    <3> QED BY <2>2, <3>1, <3>2, <3>3 DEF Seen, Together
  <2>4. CASE ~Near(arm, p)
    BY <2>1, <2>4 DEF StopsAt, Stops, Seen
  <2> QED BY <2>3, <2>4
<1> QED BY <1>1, <1>2, <1>3, <1>4 DEF BridgeForm

-----------------------------------------------------------------------------
(* The move: what it leaves behind when it declares the snapshot ready.    *)

\* The arm has come to the pregrasp, and nothing is under way elsewhere.
LEMMA ReadyIsThere ==
  ASSUME TypeOK, Follows, OneLive, Seen, Moved, EndsReady
  PROVE  /\ frozen \in Objects /\ arm \in Column(frozen) /\ moving = None
         /\ target \in Column(frozen) \cup {None} /\ wire \in Column(frozen) \cup {None}
<1>1. frozen \in Objects /\ <<frozen, 0>> \in Column(frozen)
  BY MakeTarget, DepthAssumption DEF EndsReady, Follows
<1>2. heard \in Column(frozen)
  BY <1>1, NearTogether DEF EndsReady
<1>3. arm \in Column(frozen)
  BY <1>1, <1>2, TogetherColumn DEF EndsReady, Seen
<1>4. moving = None /\ target \in {None, arm, <<frozen, 0>>} /\ wire \in {None, <<frozen, 0>>}
  BY DEF EndsReady, OneLive, Moved
<1> QED BY <1>1, <1>3, <1>4

LEMMA ScriptKeepsReady ==
  ASSUME TypeOK, Follows, OneLive, Seen, ReadyInv, Moved, ScriptForm
  PROVE  ReadyInv'
<1>1. CASE EndsReady
  <2>1. UNCHANGED <<arm, moving, target, wire>> /\ file'.obj = frozen
    BY <1>1, LeaveEnds DEF EndsReady
  <2> QED BY <1>1, <2>1, ReadyIsThere DEF ReadyInv, Column
<1>2. CASE Quits
  <2>1. UNCHANGED <<arm, moving, target, wire>> /\ (file' = file \/ file'.state # "ready")
    BY <1>2, LeaveEnds DEF Quits
  <2> QED BY <2>1 DEF ReadyInv, Column
<1>3. CASE PublishesWaypoint
  <2>1. file.state = "ready" /\ file.obj = frozen /\ k \in 1 .. Depth /\ frozen \in Objects
    BY <1>3, ScriptOf DEF PublishesWaypoint, Passes, Follows
  <2>2. wire' \in Column(frozen) /\ UNCHANGED <<arm, moving, target, file>>
    BY <1>3, <2>1, MakeTarget, DepthAssumption DEF PublishesWaypoint, Passes, bridge
  <2> QED BY <2>1, <2>2 DEF ReadyInv, Column
<1>4. CASE MoveForm
  <2>1. file'.state # "ready" \/ (file' = file /\ UNCHANGED <<arm, moving, target, wire>>)
    BY <1>4, ScriptOf DEF MoveForm, Plans, Freezes, PublishesPregrasp, Passes, bridge, Follows
  <2> QED BY <2>1 DEF ReadyInv, Column
<1>5. CASE Loads \/ Begins \/ Segments \/ Deepens \/ IsAnswered
  <2>1. UNCHANGED <<arm, moving, target, wire, file>>
    BY <1>5 DEF Loads, Begins, Segments, Deepens, IsAnswered, Passes, bridge
  <2> QED BY <2>1 DEF ReadyInv, Column
<1>6. CASE StartMove \/ StartDescend \/ HearJoints \/ Request
  <2>1. UNCHANGED <<arm, moving, target, wire, file>>
    BY <1>6 DEF StartMove, StartDescend, Start, HearJoints, Request, world, bridge
  <2> QED BY <2>1 DEF ReadyInv, Column
<1>7. CASE Quiet
  <2>1. UNCHANGED <<arm, moving, target, wire>> /\ file'.state = file.state /\ file'.obj = file.obj
    BY <1>7 DEF Quiet, bridge
  <2> QED BY <2>1 DEF ReadyInv, Column
<1> QED BY <1>1, <1>2, <1>3, <1>4, <1>5, <1>6, <1>7 DEF ScriptForm, DescendForm

LEMMA BridgeKeepsReady ==
  ASSUME TypeOK, ReadyInv, BridgeForm
  PROVE  ReadyInv'
<1> SUFFICES ASSUME file'.state = "ready" PROVE ReadyInv'
  BY DEF ReadyInv
<1>0. file' = file /\ file.obj \in Objects
  BY BridgeAside DEF ReadyInv
<1>1. CASE \E p, answer : StopsAt(p, answer)
  <2>1. PICK p, answer : StopsAt(p, answer)
    BY <1>1
  <2>2. arm' = p /\ moving' = None /\ UNCHANGED <<target, wire>>
    BY <2>1 DEF StopsAt, Stops
  <2>3. p \in Column(file.obj)
    BY <1>0, <2>1 DEF StopsAt, ReadyInv
  <2> QED BY <1>0, <2>2, <2>3 DEF ReadyInv, Column
<1>2. CASE Poll \/ HearTarget \/ ExecuteTarget \/ ResultUnknown \/ BridgeRestarts
  BY <1>0, <1>2 DEF Poll, HearTarget, ExecuteTarget, ResultUnknown, BridgeRestarts, world, ReadyInv, Column
<1> QED BY <1>1, <1>2 DEF BridgeForm

LEMMA KeepsMoved ==
  ASSUME TypeOK, Follows, OneLive, Serves, Moved, ScriptForm \/ BridgeForm
  PROVE  Moved'
<1>1. CASE StartMove \/ StartDescend \/ Quits \/ EndsReady
  BY <1>1, LeaveEnds, PlaceAssumption DEF StartMove, StartDescend, Start, Moved
<1>2. CASE Quiet
  BY <1>2, PlaceAssumption DEF Quiet, bridge, Moved
<1>3. CASE HearJoints
  BY <1>3 DEF HearJoints, world, bridge, plan, Moved
<1>4. CASE MoveForm
  BY <1>4, PlaceAssumption DEF MoveForm, Plans, Freezes, PublishesPregrasp, Passes, bridge, Moved, OneLive
<1>5. CASE DescendForm
  <2>1. who' = "descend"
    BY <1>5, ScriptOf DEF DescendForm, Loads, Begins, Segments, PublishesWaypoint, Deepens, Passes
  <2> QED BY <2>1 DEF Moved
<1>6. CASE Request \/ IsAnswered
  BY <1>6 DEF Request, IsAnswered, Passes, GoTo, world, bridge, plan, Moved
<1>7. CASE Poll
  BY <1>7 DEF Poll, world, script, plan, Moved
<1>8. CASE HearTarget
  BY <1>8 DEF HearTarget, world, script, plan, Moved
<1>9. CASE ExecuteTarget
  BY <1>9, PlaceAssumption DEF ExecuteTarget, Tell, ScriptButReply, plan, Moved, OneLive
<1>10. CASE ResultUnknown
  BY <1>10, PlaceAssumption DEF ResultUnknown, Tell, ScriptButReply, world, plan, Moved
<1>11. CASE BridgeRestarts
  BY <1>11 DEF BridgeRestarts, world, script, plan, Moved
<1>12. CASE \E p, answer : StopsAt(p, answer)
  <2>1. PICK p, answer : StopsAt(p, answer)
    BY <1>12
  <2>2. UNCHANGED <<who, pc, frozen, target, wire>> /\ moving # None /\ arm' = p /\ moving' = None
    BY <2>1 DEF StopsAt, Stops, ScriptButReply, plan
  <2>3. CASE serving = "live" /\ answer = "completed"
    <3>1. arm' = target
      BY <2>1, <2>2, <2>3, PlaceAssumption DEF StopsAt, Serves
    <3> QED BY <2>2, <3>1 DEF Moved
  <2>4. CASE ~(serving = "live" /\ answer = "completed")
    <3>1. reply' # "completed" \/ reply = "completed"
      BY <2>1, <2>4 DEF StopsAt, Stops, Tell
    <3> QED BY <2>2, <3>1 DEF Moved
  <2> QED BY <2>3, <2>4
<1> QED BY <1>1, <1>2, <1>3, <1>4, <1>5, <1>6, <1>7, <1>8, <1>9, <1>10, <1>11, <1>12 DEF ScriptForm, BridgeForm

-----------------------------------------------------------------------------
(* The descent: what it publishes, and over what.                          *)

LEMMA KeepsPublished ==
  ASSUME TypeOK, Follows, Published, ScriptForm \/ BridgeForm
  PROVE  Published'
<1>1. CASE StartMove \/ StartDescend \/ Quits \/ EndsReady
  BY <1>1, LeaveEnds DEF StartMove, StartDescend, Start, Published
<1>2. CASE Quiet
  BY <1>2 DEF Quiet, Published
<1>3. CASE HearJoints
  BY <1>3 DEF HearJoints, bridge, plan, Published
<1>4. CASE MoveForm
  <2>1. who' = "move"
    BY <1>4, ScriptOf DEF MoveForm, Plans, Freezes, PublishesPregrasp, Passes
  <2> QED BY <2>1 DEF Published
<1>5. CASE Loads \/ Begins \/ Segments
  BY <1>5 DEF Loads, Begins, Segments, Passes, bridge, Published
<1>6. CASE PublishesWaypoint
  <2>1. k \in 1 .. k
    BY <1>6, ScriptOf DEF PublishesWaypoint, Passes, Follows
  <2> QED BY <1>6, <2>1 DEF PublishesWaypoint, Passes, Published
<1>7. CASE Deepens
  <2>1. k \in Int /\ k' = k + 1 /\ UNCHANGED <<frozen, wire, who>> /\ pc' = "waypoint"
    BY <1>7, Typed DEF Deepens, ScriptTyped
  <2>2. \A j \in 1 .. k : j \in 1 .. k'
    BY <2>1
  <2> QED BY <1>7, <2>1, <2>2 DEF Published
<1>8. CASE Request \/ IsAnswered
  BY <1>8 DEF Request, IsAnswered, Passes, GoTo, bridge, plan, Published
<1>9. CASE BridgeForm
  <2>1. wire' = wire \/ wire' = None
    BY <1>9 DEF BridgeForm, Poll, HearTarget, ExecuteTarget, ResultUnknown, BridgeRestarts, StopsAt, Stops
  <2> QED BY <1>9, <2>1, BridgeAside DEF Published
<1> QED BY <1>1, <1>2, <1>3, <1>4, <1>5, <1>6, <1>7, <1>8, <1>9 DEF ScriptForm, DescendForm

LEMMA ScriptKeepsBelow ==
  ASSUME TypeOK, Follows, Moved, Below, ScriptForm
  PROVE  Below'
<1>0. target' \in Waypoints => arm' \in Column(target'[1]) /\ moving' \in Column(target'[1]) \cup {None}
  BY ScriptAside DEF Below
<1>1. ASSUME wire' = wire, file'.state = file.state, file'.obj = file.obj
      PROVE  Below'
  BY <1>0, <1>1 DEF Below, Column
<1>2. CASE StartMove \/ StartDescend \/ Quiet \/ HearJoints \/ Request
  BY <1>1, <1>2 DEF StartMove, StartDescend, Start, Quiet, HearJoints, Request, bridge
<1>3. CASE Loads \/ Begins \/ Segments \/ Deepens \/ IsAnswered
  BY <1>1, <1>3 DEF Loads, Begins, Segments, Deepens, IsAnswered, Passes, bridge
<1>4. CASE Quits
  <2>1. wire' = wire
    BY <1>4, LeaveEnds
  <2>2. CASE file' = file
    BY <1>1, <2>1, <2>2
  <2>3. CASE who = "move"
    <3>1. wire' \notin Waypoints
      BY <2>1, <2>3, PlaceAssumption DEF Moved, Waypoints, Targets
    <3> QED BY <1>0, <3>1 DEF Below, Column
  <2> QED BY <1>4, <2>2, <2>3 DEF Quits
<1>5. CASE EndsReady \/ MoveForm
  <2>1. who = "move" /\ (wire' = wire \/ wire' = <<frozen, 0>>)
    BY <1>5, LeaveEnds, ScriptOf DEF EndsReady, MoveForm, Plans, Freezes, PublishesPregrasp, Passes
  <2>2. wire' \notin Waypoints
    BY <2>1, PlaceAssumption DEF Moved, Waypoints, Targets
  <2> QED BY <1>0, <2>2 DEF Below, Column
<1>6. CASE PublishesWaypoint
  <2>1. wire' = <<frozen, k>> /\ file' = file /\ file.state = "ready" /\ file.obj = frozen
    BY <1>6, ScriptOf DEF PublishesWaypoint, Passes, Follows
  <2> QED BY <1>0, <2>1 DEF Below, Column
<1> QED BY <1>2, <1>3, <1>4, <1>5, <1>6 DEF ScriptForm, DescendForm

LEMMA BridgeKeepsBelow ==
  ASSUME TypeOK, ReadyInv, Below, BridgeForm
  PROVE  Below'
<1>0. file' = file
  BY BridgeAside
<1>1. CASE \E p, answer : StopsAt(p, answer)
  <2>1. PICK p, answer : StopsAt(p, answer)
    BY <1>1
  <2>2. arm' = p /\ moving' = None /\ UNCHANGED <<target, wire>> /\ moving # None
    BY <2>1 DEF StopsAt, Stops
  <2>3. target \in Waypoints => p \in Column(target[1])
    BY <2>1, <2>2, WaypointPlace DEF StopsAt, Below
  <2> QED BY <1>0, <2>2, <2>3 DEF Below, Column
<1>2. CASE HearTarget
  <2>1. target' = wire /\ wire' = None /\ UNCHANGED <<arm, moving>>
    BY <1>2 DEF HearTarget, world
  <2>2. wire' \notin Waypoints
    BY <2>1, PlaceAssumption DEF Targets
  <2> QED BY <2>1, <2>2 DEF Below, ReadyInv, Column
<1>3. CASE ExecuteTarget
  BY <1>0, <1>3, WaypointPlace DEF ExecuteTarget, Below, Column
<1>4. CASE Poll \/ ResultUnknown
  BY <1>0, <1>4 DEF Poll, ResultUnknown, world, Below, Column
<1>5. CASE BridgeRestarts
  <2>1. target' \notin Waypoints /\ wire' \notin Waypoints
    BY <1>5, PlaceAssumption DEF BridgeRestarts, Targets
  <2> QED BY <2>1 DEF Below
<1> QED BY <1>1, <1>2, <1>3, <1>4, <1>5 DEF BridgeForm

-----------------------------------------------------------------------------
(* Heights in the column of a snapshot that is ready.                      *)

LEMMA Levels ==
  ASSUME TypeOK, Seen, ReadyInv, file.state = "ready"
  PROVE  /\ file.obj \in Objects
         /\ arm \in Column(file.obj) /\ arm[2] \in 0 .. Depth
         /\ moving # None => moving \in Column(file.obj) /\ moving[2] \in 0 .. Depth
         /\ target # None => target \in Column(file.obj) /\ target[2] \in 0 .. Depth
         /\ wire # None => wire \in Column(file.obj) /\ wire[2] \in 0 .. Depth
         /\ fresh => heard \in Column(file.obj) /\ heard[2] \in 0 .. Depth
         /\ sample # None => sample \in Column(file.obj) /\ sample[2] \in 0 .. Depth
         /\ Goal[2] \in 0 .. Depth
<1>1. file.obj \in Objects /\ arm \in Column(file.obj)
  BY DEF ReadyInv
<1>2. /\ moving # None => moving \in Column(file.obj)
      /\ target # None => target \in Column(file.obj)
      /\ wire # None => wire \in Column(file.obj)
  BY DEF ReadyInv
<1>3. /\ fresh => heard \in Column(file.obj)
      /\ sample # None => sample \in Column(file.obj)
  BY <1>1, TogetherColumn DEF Seen
<1>4. Goal \in Column(file.obj)
  BY <1>1, <1>2 DEF Goal
<1> QED BY <1>1, <1>2, <1>3, <1>4, ColumnPlace

LEMMA Heights ==
  ASSUME NEW h \in Int, NEW s \in Int, NEW a \in Int, NEW p \in Int, NEW m \in Int
  PROVE  /\ Between(h, a, a) /\ Between(a, a, h)
         /\ Between(h, a, m) /\ Between(a, p, m) => Between(h, p, m) /\ Between(h, p, p)
         /\ Between(h, s, a) /\ Between(s, a, m) /\ Between(h, a, m) /\ Between(a, p, m) => Between(h, s, p)
  BY DEF Between

\* Where a motion leaves the arm in the column, and what is still known.
LEMMA StopLevels ==
  ASSUME TypeOK, Seen, ReadyInv, file.state = "ready", NEW p, NEW answer, StopsAt(p, answer)
  PROVE  /\ arm' = p /\ p \in Column(file.obj) /\ p[2] \in 0 .. Depth /\ moving # None /\ moving' = None
         /\ Between(arm[2], p[2], moving[2])
         /\ UNCHANGED <<target, wire, heard, who, pc, k, frozen, file, queue>> /\ serving' = None
         /\ fresh' => fresh /\ Near(arm, p)
         /\ sample' # None => sample' = sample /\ Near(arm, p)
<1>1. /\ arm' = p /\ moving # None /\ moving' = None
      /\ UNCHANGED <<target, wire, heard, who, pc, k, frozen, file, queue>> /\ serving' = None
  BY DEF StopsAt, Stops, ScriptButReply, plan
<1>2. p \in Column(file.obj) /\ Between(arm[2], p[2], moving[2])
  BY <1>1, Levels DEF StopsAt
<1>3. /\ fresh' => fresh /\ Near(arm, p)
      /\ sample' # None => sample' = sample /\ Near(arm, p)
  BY DEF StopsAt, Stops
<1> QED BY <1>1, <1>2, <1>3, Levels, ColumnPlace

-----------------------------------------------------------------------------
(* Until the descent has found the arm at the pregrasp.                    *)

LEMMA ScriptKeepsOneWay ==
  ASSUME TypeOK, Follows, OneWay, ScriptForm
  PROVE  OneWay'
<1> SUFFICES ASSUME who' = "descend", ~Started', file'.state = "ready"
             PROVE  OneWay'
  BY DEF OneWay
<1>1. CASE StartMove \/ StartDescend
  BY <1>1 DEF StartMove, StartDescend, Start, OneWay
<1>2. CASE ~(StartMove \/ StartDescend)
  <2>1. who = "descend" /\ ~Started /\ file.state = "ready"
    <3>1. CASE Quits \/ EndsReady
      BY <3>1, LeaveEnds
    <3>2. CASE Quiet \/ HearJoints
      BY <3>2 DEF Quiet, HearJoints, plan, Started
    <3>3. CASE MoveForm
      BY <3>3, ScriptOf DEF MoveForm, Plans, Freezes, PublishesPregrasp, Passes
    <3>4. CASE DescendForm \/ Request \/ IsAnswered
      BY <3>4 DEF DescendForm, Loads, Begins, Segments, PublishesWaypoint, Deepens, Request, GoTo,
         IsAnswered, Passes, Started
    <3> QED BY <1>2, <3>1, <3>2, <3>3, <3>4 DEF ScriptForm
  <2>2. UNCHANGED <<arm, moving, target>> /\ Goal' = Goal
    BY ScriptAside DEF Goal
  <2> QED BY <2>1, <2>2, ScriptHears DEF OneWay
<1> QED BY <1>1, <1>2

LEMMA StopKeepsOneWay ==
  ASSUME TypeOK, Seen, ReadyInv, OneWay, who = "descend", ~Started, file.state = "ready",
         NEW p, NEW answer, StopsAt(p, answer)
  PROVE  OneWay'
<1>1. /\ arm' = p /\ moving # None /\ moving' = None /\ target' = target
      /\ Between(arm[2], p[2], moving[2]) /\ heard' = heard
      /\ fresh' => fresh
      /\ sample' # None => sample' = sample
  BY StopLevels
<1>2. /\ arm[2] \in Int /\ p[2] \in Int /\ moving[2] \in Int
      /\ fresh => heard[2] \in Int
      /\ sample # None => sample[2] \in Int
  BY <1>1, Levels, StopLevels
<1>3. Goal = moving
  BY <1>1 DEF Goal
<1>4. sample # None \/ fresh => Goal' = moving \/ Goal' = p
  BY <1>1 DEF OneWay, Goal
<1>5. fresh' => Between(heard'[2], arm'[2], Goal'[2])
  BY <1>1, <1>2, <1>3, <1>4, Heights DEF OneWay
<1>6. sample' # None => Between(sample'[2], arm'[2], Goal'[2])
  BY <1>1, <1>2, <1>3, <1>4, Heights DEF OneWay
<1>7. fresh' /\ sample' # None => Between(heard'[2], sample'[2], arm'[2])
  BY <1>1, <1>2, <1>3, Heights DEF OneWay
<1> QED BY <1>1, <1>5, <1>6, <1>7 DEF OneWay

LEMMA BridgeKeepsOneWay ==
  ASSUME TypeOK, Follows, Serves, Seen, ReadyInv, Published, OneWay, BridgeForm
  PROVE  OneWay'
<1> SUFFICES ASSUME who' = "descend", ~Started', file'.state = "ready"
             PROVE  OneWay'
  BY DEF OneWay
<1>0. who = "descend" /\ ~Started /\ file.state = "ready" /\ heard' = heard
  BY BridgeAside DEF Started
<1>1. /\ arm[2] \in Int /\ Goal[2] \in Int
      /\ fresh => heard[2] \in Int
  BY <1>0, Levels
<1>2. CASE Poll
  <2>1. UNCHANGED <<arm, moving, target, heard, fresh>> /\ Goal' = Goal
    BY <1>2 DEF Poll, world, script, joints, Goal
  <2>2. CASE moving = None /\ sample' = arm
    BY <1>0, <1>1, <2>1, <2>2, Heights DEF OneWay
  <2>3. CASE sample' = sample
    BY <1>0, <2>1, <2>3 DEF OneWay
  <2> QED BY <1>2, <2>2, <2>3 DEF Poll
<1>3. CASE HearTarget
  BY <1>0, <1>3 DEF HearTarget, Published, Started
<1>4. CASE ExecuteTarget
  <2>1. UNCHANGED <<arm, target, heard, fresh, sample>>
    BY <1>4 DEF ExecuteTarget, joints
  <2>2. \/ moving' = moving
        \/ moving = None /\ moving' = target /\ target # None
    BY <1>4 DEF ExecuteTarget, Serves
  <2>3. Goal' = Goal
    BY <2>1, <2>2 DEF Goal
  <2> QED BY <1>0, <2>1, <2>2, <2>3 DEF OneWay
<1>5. CASE ResultUnknown
  <2>1. UNCHANGED <<arm, moving, target, heard, fresh, sample>> /\ Goal' = Goal
    BY <1>5 DEF ResultUnknown, world, joints, Goal
  <2> QED BY <1>0, <2>1 DEF OneWay
<1>6. CASE BridgeRestarts
  <2>1. UNCHANGED <<arm, moving, heard, fresh, sample>> /\ target' = None
    BY <1>6 DEF BridgeRestarts, world, script, joints
  <2>2. Goal' = Goal \/ Goal' = arm
    BY <2>1 DEF Goal
  <2>3. sample # None => sample[2] \in Int
    BY <1>0, Levels
  <2> QED BY <1>0, <1>1, <2>1, <2>2, <2>3, Heights DEF OneWay
<1>7. CASE \E p, answer : StopsAt(p, answer)
  BY <1>0, <1>7, StopKeepsOneWay
<1> QED BY <1>2, <1>3, <1>4, <1>5, <1>6, <1>7 DEF BridgeForm

-----------------------------------------------------------------------------
(* Once it has.                                                            *)

\* A descent that follows its snapshot does so while it is ready.
LEMMA StartedReady ==
  ASSUME Follows, Started
  PROVE  /\ who = "descend" /\ file.state = "ready" /\ file.obj = frozen /\ frozen \in Objects
         /\ k \in 1 .. Depth
  BY DEF Follows, Started

LEMMA BeginsAtTop ==
  ASSUME TypeOK, Follows, Seen, ReadyInv, OneWay, Begins
  PROVE  AtTop'
<1>1. who = "descend" /\ ~Started /\ file.state = "ready" /\ file.obj = frozen /\ frozen \in Objects
  BY ScriptOf DEF Begins, Passes, Follows, Started
<1>2. UNCHANGED <<arm, moving, target, heard, fresh, sample>> /\ Goal' = Goal
  BY DEF Begins, Passes, bridge, Goal
<1>3. fresh /\ heard \in Column(frozen) /\ <<frozen, 0>> \in Column(frozen) /\ <<frozen, 0>>[2] = 0
  BY <1>1, Levels, MakeTarget, DepthAssumption DEF Begins
<1>4. heard[2] <= 1
  BY <1>1, <1>3, NearApart DEF Begins
<1>5. /\ arm[2] \in 0 .. Depth /\ Goal[2] \in 0 .. Depth /\ heard[2] \in 0 .. Depth
      /\ sample # None => sample[2] \in 0 .. Depth
  BY <1>1, <1>3, Levels
<1>6. moving # None => target \in {None, moving}
  BY <1>1, <1>3 DEF OneWay
<1>7. arm[2] = 0 \/ Goal[2] = 0 => arm[2] <= 1 /\ (sample # None => sample[2] <= 1)
  BY <1>1, <1>3, <1>4, <1>5, DepthAssumption DEF OneWay, Between
<1> QED BY <1>2, <1>4, <1>6, <1>7 DEF AtTop

LEMMA ScriptKeepsAtTop ==
  ASSUME TypeOK, Follows, Seen, ReadyInv, OneWay, AtTop, ScriptForm
  PROVE  AtTop'
<1> SUFFICES ASSUME Started' PROVE AtTop'
  BY DEF AtTop
<1>1. CASE Begins
  BY <1>1, BeginsAtTop
<1>2. CASE ~Begins
  <2>1. Started
    <3>1. CASE Quits \/ EndsReady \/ StartMove \/ StartDescend
      BY <3>1, LeaveEnds DEF StartMove, StartDescend, Start, Started
    <3>2. CASE Quiet \/ HearJoints
      BY <3>2 DEF Quiet, HearJoints, plan, Started
    <3>3. CASE MoveForm
      BY <3>3, ScriptOf DEF MoveForm, Plans, Freezes, PublishesPregrasp, Passes, Started
    <3>4. CASE DescendForm \/ Request \/ IsAnswered
      BY <1>2, <3>4 DEF DescendForm, Loads, Segments, PublishesWaypoint, Deepens, Request, GoTo,
         IsAnswered, Passes, Started
    <3> QED BY <3>1, <3>2, <3>3, <3>4 DEF ScriptForm
  <2>2. UNCHANGED <<arm, moving, target>> /\ Goal' = Goal
    BY ScriptAside DEF Goal
  <2> QED BY <2>1, <2>2, ScriptHears DEF AtTop
<1> QED BY <1>1, <1>2

LEMMA StopKeepsAtTop ==
  ASSUME TypeOK, Follows, Seen, ReadyInv, AtTop, Started, NEW p, NEW answer, StopsAt(p, answer)
  PROVE  AtTop'
<1>0. file.state = "ready" /\ file.obj \in Objects
  BY StartedReady
<1>1. /\ arm' = p /\ moving # None /\ moving' = None /\ target' = target /\ heard' = heard
      /\ Between(arm[2], p[2], moving[2])
      /\ fresh' => fresh
      /\ sample' # None => sample' = sample
  BY <1>0, StopLevels
<1>2. arm[2] \in 0 .. Depth /\ p[2] \in 0 .. Depth /\ moving[2] \in 0 .. Depth
  BY <1>0, <1>1, Levels, StopLevels
<1>3. Goal = moving /\ (Goal' = p \/ Goal' = target)
  BY <1>1 DEF Goal
<1>4. target # None /\ target[2] = 0 => target = moving
  BY <1>0, <1>1, Levels, ColumnPlace DEF AtTop
<1>5. CASE arm'[2] = 0 \/ Goal'[2] = 0
  <2>1. arm[2] = 0 \/ Goal[2] = 0
    BY <1>1, <1>2, <1>3, <1>4, <1>5, DepthAssumption DEF Between, Goal
  <2>2. /\ arm[2] <= 1
        /\ fresh => heard[2] <= 1
        /\ sample # None => sample[2] <= 1
    BY <2>1 DEF AtTop
  <2>3. p[2] <= 1
    <3>1. CASE Goal'[2] = 0 /\ Goal' # p
      BY <1>1, <1>2, <1>3, <1>4, <2>2, <3>1, DepthAssumption DEF Between, Goal
    <3> QED BY <1>1, <1>2, <1>5, <3>1
  <2> QED BY <1>1, <2>2, <2>3 DEF AtTop
<1>6. CASE ~(arm'[2] = 0 \/ Goal'[2] = 0)
  BY <1>1, <1>6 DEF AtTop
<1> QED BY <1>5, <1>6

LEMMA BridgeKeepsAtTop ==
  ASSUME TypeOK, Follows, Serves, Seen, ReadyInv, Published, AtTop, BridgeForm
  PROVE  AtTop'
<1> SUFFICES ASSUME Started' PROVE AtTop'
  BY DEF AtTop
<1>0. Started /\ heard' = heard
  BY BridgeAside DEF Started
<1>1. CASE Poll
  <2>1. UNCHANGED <<arm, moving, target, fresh>> /\ Goal' = Goal /\ (sample' = sample \/ sample' = arm)
    BY <1>1 DEF Poll, world, script, joints, Goal
  <2> QED BY <1>0, <2>1 DEF AtTop
<1>2. CASE HearTarget
  <2>1. target' = wire /\ wire # None /\ UNCHANGED <<arm, moving, fresh, sample>>
    BY <1>2 DEF HearTarget, world, script, joints
  <2>2. PICK j \in 1 .. k : wire = <<frozen, j>>
    BY <1>0, <2>1 DEF Started, Published
  <2>3. target' \in Waypoints /\ target'[2] # 0
    BY <1>0, <2>1, <2>2, StartedReady, MakeTarget, DepthAssumption
  <2>4. moving = None => Goal' = target'
    BY <2>1, <2>3, WaypointPlace DEF Goal
  <2>5. moving # None => Goal' = Goal
    BY <2>1 DEF Goal
  <2> QED BY <1>0, <2>1, <2>3, <2>4, <2>5 DEF AtTop
<1>3. CASE ExecuteTarget
  <2>1. UNCHANGED <<arm, target, heard, fresh, sample>>
    BY <1>3 DEF ExecuteTarget, joints
  <2>2. \/ moving' = moving
        \/ moving = None /\ moving' = target /\ target # None
    BY <1>3 DEF ExecuteTarget, Serves
  <2>3. Goal' = Goal
    BY <2>1, <2>2 DEF Goal
  <2> QED BY <1>0, <2>1, <2>2, <2>3 DEF AtTop
<1>4. CASE ResultUnknown
  <2>1. UNCHANGED <<arm, moving, target, heard, fresh, sample>> /\ Goal' = Goal
    BY <1>4 DEF ResultUnknown, world, joints, Goal
  <2> QED BY <1>0, <2>1 DEF AtTop
<1>5. CASE BridgeRestarts
  <2>1. UNCHANGED <<arm, moving, heard, fresh, sample>> /\ target' = None
    BY <1>5 DEF BridgeRestarts, world, script, joints
  <2>2. Goal' = Goal \/ Goal' = arm
    BY <2>1 DEF Goal
  <2> QED BY <1>0, <2>1, <2>2 DEF AtTop
<1>6. CASE \E p, answer : StopsAt(p, answer)
  BY <1>0, <1>6, StopKeepsAtTop
<1> QED BY <1>1, <1>2, <1>3, <1>4, <1>5, <1>6 DEF BridgeForm

-----------------------------------------------------------------------------
(* Once its first waypoint was reached.                                    *)

LEMMA RestingStarted ==
  ASSUME TypeOK, Follows, OneLive, Resting
  PROVE  Started
  BY PlaceAssumption DEF Resting, Started, OneLive

\* A script comes to rest by the bridge only, and then goes on step by step.
LEMMA ScriptRests ==
  ASSUME TypeOK, Follows, OneLive, ScriptForm, Resting'
  PROVE  /\ Resting
         /\ \/ HearJoints /\ UNCHANGED <<wire, queue, serving, k, frozen>>
            \/ /\ UNCHANGED <<serving, sample, heard, frozen>> /\ (fresh' => fresh)
               /\ \/ Request /\ UNCHANGED <<wire, k>>
                  \/ UNCHANGED <<wire, queue, k>>
                  \/ wire' = <<frozen, k>> /\ UNCHANGED <<queue, k>>
                  \/ Deepens /\ UNCHANGED <<wire, queue>>
<1>0. who' = "descend" /\ (reply' = "completed" \/ k' >= 2)
  BY DEF Resting
<1>1. CASE Quits \/ EndsReady \/ StartMove \/ StartDescend
  BY <1>0, <1>1, LeaveEnds, PlaceAssumption DEF StartMove, StartDescend, Start
<1>2. CASE Quiet
  <2>1. UNCHANGED <<wire, queue, serving, sample, k, heard, frozen, who, reply>> /\ (fresh' => fresh)
    BY <1>2 DEF Quiet, bridge
  <2>2. Live' <=> Live
    BY <2>1 DEF Live
  <2>3. pc' \in {"waypoint", "call"} => pc \in {"waypoint", "call"}
    BY <1>2 DEF Quiet
  <2> QED BY <2>1, <2>2, <2>3 DEF Resting
<1>3. CASE HearJoints
  <2>1. UNCHANGED <<wire, queue, serving, k, frozen, who, pc, reply>>
    BY <1>3 DEF HearJoints, bridge, plan
  <2>2. Live' <=> Live
    BY <2>1 DEF Live
  <2> QED BY <1>3, <2>1, <2>2 DEF Resting
<1>4. CASE MoveForm
  BY <1>0, <1>4, ScriptOf DEF MoveForm, Plans, Freezes, PublishesPregrasp, Passes
<1>5. CASE Loads \/ Begins \/ Segments
  <2>1. reply' = None /\ k' = 1
    BY <1>0, <1>5, ScriptOf DEF Loads, Begins, Segments, Passes, Follows, OneLive
  <2> QED BY <1>0, <2>1, PlaceAssumption
<1>6. CASE PublishesWaypoint
  <2>1. UNCHANGED <<queue, serving, sample, k, heard, frozen, who, reply, fresh>> /\ wire' = <<frozen, k>>
    BY <1>6 DEF PublishesWaypoint, Passes, bridge
  <2>2. pc = "waypoint" /\ reply' = None
    BY <1>6, <2>1 DEF PublishesWaypoint, Passes, OneLive
  <2> QED BY <1>0, <2>1, <2>2, PlaceAssumption DEF Resting
<1>7. CASE Deepens
  <2>1. UNCHANGED <<queue, serving, sample, wire, heard, frozen, fresh>> /\ reply = "completed"
    BY <1>7 DEF Deepens, bridge, OneLive
  <2> QED BY <1>7, <2>1 DEF Resting, Deepens
<1>8. CASE Request
  <2>1. UNCHANGED <<who, serving, sample, k, heard, frozen, reply, wire, fresh>> /\ pc = "call" /\ reply = None
    BY <1>8 DEF Request, GoTo, plan, joints, OneLive
  <2> QED BY <1>0, <1>8, <2>1, PlaceAssumption DEF Resting
<1>9. CASE IsAnswered
  <2>1. UNCHANGED <<queue, serving, sample, wire, heard, frozen, fresh, k, who>> /\ reply = "completed"
    BY <1>9 DEF IsAnswered, Passes, bridge
  <2> QED BY <1>0, <2>1 DEF Resting
<1> QED BY <1>1, <1>2, <1>3, <1>4, <1>5, <1>6, <1>7, <1>8, <1>9 DEF ScriptForm, DescendForm

\* A motion after which the script rests is the one it asked for.
LEMMA StopRests ==
  ASSUME TypeOK, Follows, OneLive, Serves, Ordered, NEW p, NEW answer, StopsAt(p, answer), Resting'
  PROVE  /\ serving = "live" /\ answer = "completed" /\ p = moving /\ moving = target /\ queue = <<>>
         /\ k >= 2 => Resting
<1>1. /\ serving' = None /\ UNCHANGED <<queue, who, pc, k>> /\ moving # None
      /\ IF serving # None THEN Tell(serving, answer) ELSE UNCHANGED reply
      /\ answer \in {"completed", "failed"}
  BY DEF StopsAt, Stops, ScriptButReply, plan
<1>2. Resting => serving = "live"
  BY <1>1 DEF Ordered
<1>3. Live' => Live
  BY <1>1, LiveWaits, LiveWaitsNext, PlaceAssumption
<1>4. reply' = reply \/ (serving = "live" /\ reply' = answer)
  BY <1>1 DEF Tell
<1>5. serving = "live"
  BY <1>1, <1>2, <1>3, <1>4 DEF Resting
<1>6. queue = <<>> /\ pc = "wait" /\ Live
  BY <1>5 DEF OneLive, Live
<1>7. reply' = answer /\ ~Live'
  BY <1>1, <1>5, <1>6, PlaceAssumption DEF Tell, Live
<1>8. answer = "completed"
  BY <1>1, <1>6, <1>7 DEF Resting
<1>9. p = moving /\ moving = target
  BY <1>5, <1>8, PlaceAssumption DEF StopsAt, Serves
<1>10. k >= 2 => Resting
  BY <1>1, <1>6 DEF Resting
<1> QED BY <1>5, <1>6, <1>8, <1>9, <1>10

\* Nor does the bridge make it rest otherwise.
LEMMA BridgeRests ==
  ASSUME TypeOK, Follows, OneLive, Serves, Ordered,
         Poll \/ HearTarget \/ ExecuteTarget \/ ResultUnknown \/ BridgeRestarts, Resting'
  PROVE  /\ Resting
         /\ UNCHANGED <<arm, heard, k, frozen>> /\ (fresh' <=> fresh)
         /\ sample' = sample \/ sample' = arm
         /\ \/ UNCHANGED <<target, wire>>
            \/ target' = wire /\ wire' = None /\ wire # None
            \/ target' = None /\ wire' = None
         /\ serving' = "live" \/ (moving' = None /\ queue' \in {<<>>, <<"live">>})
<1>1. CASE Poll \/ HearTarget
  <2>1. UNCHANGED <<arm, moving, heard, fresh, k, frozen, who, pc, reply, queue, serving>>
    BY <1>1 DEF Poll, HearTarget, world, script, plan, joints
  <2>2. Resting
    BY <2>1 DEF Resting, Live
  <2> QED BY <1>1, <2>1, <2>2 DEF Poll, HearTarget, Ordered
<1>2. CASE ExecuteTarget
  <2>1. /\ UNCHANGED <<arm, heard, fresh, k, frozen, who, pc, target, wire, sample>>
        /\ serving = None /\ queue # <<>> /\ queue' = Tail(queue)
    BY <1>2 DEF ExecuteTarget, joints, ScriptButReply, plan
  <2>2. /\ Head(queue) = queue[1] /\ 1 \in DOMAIN queue
        /\ \A i \in DOMAIN queue' : i + 1 \in DOMAIN queue /\ queue'[i] = queue[i + 1]
    BY <2>1, Typed, Dequeued DEF BridgeTyped
  <2>3. serving' = "live" => Head(queue) = "live"
    BY <1>2, <2>1, PlaceAssumption DEF ExecuteTarget
  <2>4. Live' => Live
    BY <2>2, <2>3 DEF Live
  <2>5. reply' = "completed" => reply = "completed"
    BY <1>2 DEF ExecuteTarget, Tell
  <2>6. Resting
    BY <2>1, <2>4, <2>5 DEF Resting
  <2>7. moving = None /\ queue = <<"live">>
    BY <2>1, <2>6, PlaceAssumption DEF Ordered
  <2>8. Head(queue) = "live" /\ queue' = <<>>
    BY <2>1, <2>7
  <2>9. serving' = "live" \/ moving' = None
    BY <1>2, <2>7, <2>8 DEF ExecuteTarget
  <2> QED BY <2>1, <2>6, <2>8, <2>9
<1>3. CASE ResultUnknown
  <2>1. /\ UNCHANGED <<arm, moving, heard, fresh, k, frozen, who, pc, target, wire, sample, queue>>
        /\ serving # None /\ serving' = None /\ Tell(serving, "failed")
    BY <1>3 DEF ResultUnknown, world, joints, ScriptButReply, plan
  <2>2. Live' => Live
    BY <2>1, LiveWaits, LiveWaitsNext, PlaceAssumption
  <2>3. reply' = "completed" => reply = "completed"
    BY <2>1 DEF Tell
  <2>4. Resting
    BY <2>1, <2>2, <2>3 DEF Resting
  <2>5. serving = "live" /\ queue = <<>> /\ pc = "wait"
    BY <2>1, <2>4 DEF Ordered, Serves, OneLive, Live
  <2>6. reply' = "failed" /\ ~Live'
    BY <2>1, <2>5, PlaceAssumption DEF Tell, Live
  <2> QED BY <2>1, <2>5, <2>6 DEF Resting
<1>4. CASE BridgeRestarts
  <2>1. /\ UNCHANGED <<arm, moving, heard, fresh, k, frozen, who, pc, sample, reply>>
        /\ target' = None /\ wire' = None /\ queue' = <<>> /\ serving' = None
    BY <1>4 DEF BridgeRestarts, world, script, joints, plan
  <2>2. ~Live'
    BY <2>1, PlaceAssumption DEF Live
  <2>3. reply = "completed" \/ (k >= 2 /\ pc \in {"waypoint", "call"})
    BY <2>1, <2>2 DEF Resting
  <2>4. Resting /\ ~Live
    BY <2>1, <2>3, PlaceAssumption DEF Resting, OneLive
  <2>5. moving = None
    BY <2>4 DEF Ordered, Live
  <2> QED BY <2>1, <2>4, <2>5
<1> QED BY <1>1, <1>2, <1>3, <1>4

LEMMA Restarted ==
  /\ Append(<<>>, "live") = <<"live">>
  /\ Waits(<<"live">>)
  BY DEF Waits

LEMMA KeepsOrdered ==
  ASSUME TypeOK, Follows, OneLive, Serves, Seen, ReadyInv, Published, Ordered, ScriptForm \/ BridgeForm
  PROVE  Ordered'
<1> SUFFICES ASSUME Resting' PROVE Ordered'
  BY DEF Ordered
<1>1. CASE ScriptForm
  <2>1. Resting /\ UNCHANGED <<arm, moving, target>> /\ serving' = serving
    BY <1>1, ScriptRests, ScriptAside DEF HearJoints, bridge
  <2>2. /\ file.state = "ready" /\ k \in 1 .. Depth /\ frozen \in Objects
        /\ target # None => target[2] \in 0 .. Depth
        /\ wire # None => wire[2] \in 0 .. Depth
    BY <2>1, RestingStarted, StartedReady, Levels
  <2>3. serving' = "live" \/ (moving' = None /\ queue' \in {<<>>, <<"live">>})
    <3>1. CASE queue' = queue
      BY <2>1, <3>1 DEF Ordered
    <3>2. CASE Request
      <4>1. ~Live /\ queue' = Append(queue, "live")
        BY <3>2 DEF Request, OneLive
      <4>2. queue = <<>> /\ moving = None
        BY <2>1, <4>1, Restarted, LiveWaits DEF Ordered
      <4> QED BY <2>1, <4>1, <4>2, Restarted
    <3> QED BY <1>1, <3>1, <3>2, ScriptRests
  <2>4. /\ k' = k \/ k' = k + 1
        /\ wire' = wire \/ (wire' = <<frozen, k>> /\ k' = k)
    BY <1>1, ScriptRests DEF HearJoints, bridge, plan, Deepens
  <2>5. target' \in {None, arm'} \/ (target'[2] <= k' /\ (wire' # None => target'[2] <= wire'[2]))
    BY <2>1, <2>2, <2>4 DEF Ordered
  <2> QED BY <2>3, <2>5 DEF Ordered
<1>2. CASE Poll \/ HearTarget \/ ExecuteTarget \/ ResultUnknown \/ BridgeRestarts
  <2>1. Resting /\ Started
    BY <1>2, BridgeRests, RestingStarted
  <2>2. wire # None => wire[2] <= k
    <3>1. ASSUME wire # None PROVE wire[2] <= k
      <4>1. PICK j \in 1 .. k : wire = <<frozen, j>>
        BY <2>1, <3>1 DEF Started, Published
      <4> QED BY <2>1, <4>1, StartedReady
    <3> QED BY <3>1
  <2>3. /\ arm' = arm /\ k' = k
        /\ \/ UNCHANGED <<target, wire>>
           \/ target' = wire /\ wire' = None /\ wire # None
           \/ target' = None /\ wire' = None
        /\ serving' = "live" \/ (moving' = None /\ queue' \in {<<>>, <<"live">>})
    BY <1>2, BridgeRests
  <2> QED BY <2>1, <2>2, <2>3 DEF Ordered
<1>3. CASE \E p, answer : StopsAt(p, answer)
  <2>1. PICK p, answer : StopsAt(p, answer)
    BY <1>3
  <2>2. p = target /\ queue = <<>>
    BY <2>1, StopRests
  <2>3. arm' = p /\ moving' = None /\ target' = target /\ queue' = queue
    BY <2>1 DEF StopsAt, Stops
  <2> QED BY <2>2, <2>3 DEF Ordered
<1> QED BY <1>1, <1>2, <1>3 DEF BridgeForm

-----------------------------------------------------------------------------
(* From its second waypoint on.                                            *)

LEMMA ScriptKeepsLate ==
  ASSUME TypeOK, Follows, OneLive, Seen, ReadyInv, Late, ScriptForm
  PROVE  Late'
<1> SUFFICES ASSUME Resting', k' >= 2 PROVE Late'
  BY DEF Late
<1>1. Resting /\ UNCHANGED <<arm, target>>
  BY ScriptRests, ScriptAside
<1>2. /\ file.state = "ready" /\ k \in 1 .. Depth /\ arm[2] \in Int
      /\ fresh => heard[2] \in Int
      /\ sample # None => sample[2] \in Int
  BY <1>1, RestingStarted, StartedReady, Levels
<1>3. CASE HearJoints
  <2>1. UNCHANGED <<wire, k, frozen>> /\ heard' = sample /\ sample # None /\ sample' = None
    BY <1>3 DEF HearJoints, bridge, plan
  <2>2. k >= 3 => Reached(sample[2])
    BY <1>1, <1>2, <2>1 DEF Late
  <2>3. k' >= 3 => Reached(heard[2])'
    BY <1>1, <1>2, <2>1, <2>2 DEF Reached
  <2> QED BY <2>1, <2>3 DEF Late
<1>4. CASE /\ UNCHANGED <<sample, heard, frozen>> /\ (fresh' => fresh) /\ k' = k
           /\ wire' = wire \/ wire' = <<frozen, k>>
  <2>1. sample # None => (Reached(sample[2]) => Reached(sample[2])')
    BY <1>1, <1>2, <1>4, DepthAssumption DEF Reached
  <2>2. fresh => (Reached(heard[2]) => Reached(heard[2])')
    BY <1>1, <1>2, <1>4, DepthAssumption DEF Reached
  <2> QED BY <1>1, <1>4, <2>1, <2>2 DEF Late
<1>5. CASE Deepens
  <2>1. UNCHANGED <<sample, heard, frozen, wire>> /\ k' = k + 1 /\ heard = <<frozen, k>> /\ fresh
    BY <1>5 DEF Deepens
  <2>2. sample # None => (Reached(sample[2]) => Reached(sample[2])')
    BY <1>1, <1>2, <2>1 DEF Reached
  <2>3. ~(heard'[2] >= k')
    BY <1>2, <2>1
  <2>4. k = 1 => k' = 2 /\ heard' = <<frozen', 1>>
    BY <2>1
  <2>5. k >= 2 /\ sample # None => Reached(sample[2])
    BY <1>1, <1>2, <2>1 DEF Late
  <2> QED BY <1>2, <2>1, <2>2, <2>3, <2>4, <2>5 DEF Late
<1> QED BY <1>3, <1>4, <1>5, ScriptRests DEF Request, plan

\* A motion falls by one waypoint at most, and only once.
LEMMA StopReaches ==
  ASSUME TypeOK, Follows, OneLive, Serves, Seen, ReadyInv, Ordered, Resting,
         NEW p, NEW answer, StopsAt(p, answer), Near(arm, p), p = target, p # None,
         NEW x \in Int, Reached(x)
  PROVE  Reached(x)'
<1>1. Started /\ file.state = "ready" /\ file.obj \in Objects /\ k \in Int
  BY RestingStarted, StartedReady
<1>2. arm' = p /\ UNCHANGED <<target, wire, k>> /\ p \in Column(file.obj) /\ p[2] \in Int
  BY <1>1, StopLevels
<1>3. /\ arm \in Column(file.obj) /\ arm[2] \in Int
      /\ wire # None => wire[2] \in Int
  BY <1>1, Levels
<1>4. arm[2] <= p[2] + 1 /\ p[2] <= arm[2] + 1
  BY <1>1, <1>2, <1>3, NearApart
<1>5. p = arm \/ (p[2] <= k /\ (wire # None => p[2] <= wire[2]))
  BY DEF Ordered
<1>6. CASE p = arm
  BY <1>2, <1>6 DEF Reached
<1>7. CASE x <= arm[2] /\ p[2] <= k /\ (wire # None => p[2] <= wire[2])
  BY <1>2, <1>3, <1>4, <1>7 DEF Reached
<1>8. CASE ~(x <= arm[2])
  <2>1. x <= arm[2] + 1 /\ arm[2] <= p[2]
    BY <1>8 DEF Reached
  <2>2. p[2] = arm[2] \/ x <= p[2]
    BY <1>2, <1>3, <1>4, <2>1
  <2>3. p[2] = arm[2] => p = arm
    BY <1>1, <1>2, <1>3, ColumnPlace
  <2> QED BY <1>2, <1>6, <2>2, <2>3 DEF Reached
<1> QED BY <1>5, <1>6, <1>7, <1>8

LEMMA BridgeKeepsLate ==
  ASSUME TypeOK, Follows, OneLive, Serves, Seen, ReadyInv, Ordered, Late, BridgeForm
  PROVE  Late'
<1> SUFFICES ASSUME Resting', k' >= 2 PROVE Late'
  BY DEF Late
<1>1. CASE Poll \/ HearTarget \/ ExecuteTarget \/ ResultUnknown \/ BridgeRestarts
  <2>1. /\ Resting /\ UNCHANGED <<arm, heard, k, frozen>> /\ (fresh' <=> fresh)
        /\ sample' = sample \/ sample' = arm
        /\ \/ UNCHANGED <<target, wire>>
           \/ target' = wire /\ wire' = None /\ wire # None
           \/ target' = None /\ wire' = None
    BY <1>1, BridgeRests
  <2>2. /\ file.state = "ready" /\ k \in 1 .. Depth /\ arm[2] \in Int
        /\ fresh => heard[2] \in Int
        /\ sample # None => sample[2] \in Int
    BY <2>1, RestingStarted, StartedReady, Levels
  <2>3. sample # None => (Reached(sample[2]) => Reached(sample[2])')
                           \/ sample' # sample
    BY <2>1, <2>2 DEF Reached
  <2>4. fresh => (Reached(heard[2]) => Reached(heard[2])')
    BY <2>1, <2>2 DEF Reached
  <2>5. sample' = arm => Reached(sample[2])'
    BY <2>1, <2>2 DEF Reached
  <2> QED BY <2>1, <2>3, <2>4, <2>5 DEF Late
<1>2. CASE \E p, answer : StopsAt(p, answer)
  <2>1. PICK p, answer : StopsAt(p, answer)
    BY <1>2
  <2>2. UNCHANGED <<k, heard, frozen>>
    BY <2>1 DEF StopsAt, Stops, ScriptButReply, plan
  <2>3. Resting /\ p = target /\ p # None
    BY <2>1, <2>2, StopRests DEF StopsAt
  <2>4. /\ file.state = "ready" /\ k \in 1 .. Depth
        /\ fresh => heard[2] \in Int
        /\ sample # None => sample[2] \in Int
    BY <2>3, RestingStarted, StartedReady, Levels
  <2>5. /\ fresh' => fresh /\ Near(arm, p)
        /\ sample' # None => sample' = sample /\ Near(arm, p)
    BY <2>1, <2>4, StopLevels
  <2>6. ASSUME Near(arm, p), NEW x \in Int, Reached(x) PROVE Reached(x)'
    BY <2>1, <2>3, <2>6, StopReaches
  <2>7. ASSUME sample' # None
        PROVE  Reached(sample[2])' \/ (k' = 2 /\ heard' = <<frozen', 1>>)
    <3>1. sample' = sample /\ Near(arm, p) /\ sample[2] \in Int
      BY <2>4, <2>5, <2>7
    <3>2. Reached(sample[2]) \/ (k = 2 /\ heard = <<frozen, 1>>)
      BY <2>2, <2>3, <2>7, <3>1 DEF Late
    <3>3. ASSUME NEW x, x = sample[2], Reached(x) PROVE Reached(x)'
      BY <2>6, <3>1, <3>3
    <3> QED BY <2>2, <3>1, <3>2, <3>3 DEF Reached
  <2>8. ASSUME k' >= 3, fresh', heard'[2] >= k'
        PROVE  Reached(heard[2])'
    <3>1. fresh /\ Near(arm, p) /\ heard[2] \in Int /\ Reached(heard[2])
      BY <2>2, <2>3, <2>4, <2>5, <2>8 DEF Late
    <3>3. ASSUME NEW x, x = heard[2], Reached(x) PROVE Reached(x)'
      BY <2>6, <3>1, <3>3
    <3> QED BY <2>2, <3>1, <3>3 DEF Reached
  <2> QED BY <2>7, <2>8 DEF Late
<1> QED BY <1>1, <1>2 DEF BridgeForm

-----------------------------------------------------------------------------
(* The invariant and the properties.                                       *)

LEMMA InitHandoff == Init => HandoffInv
<1> SUFFICES ASSUME Init PROVE HandoffInv
  OBVIOUS
<1>1. TypeOK
  BY InitTyped
<1>2. Follows /\ Seen /\ ReadyInv /\ Moved /\ Published /\ OneWay
  BY DEF Init, Follows, Seen, ReadyInv, Moved, Published, OneWay
<1>3. OneLive /\ Serves
  BY PlaceAssumption DEF Init, OneLive, Serves, Live
<1>4. Below
  BY PlaceAssumption DEF Init, Below, Targets
<1>5. AtTop /\ Ordered /\ Late
  BY DEF Init, AtTop, Ordered, Late, Started, Resting
<1> QED BY <1>1, <1>2, <1>3, <1>4, <1>5 DEF HandoffInv

LEMMA NextHandoff == HandoffInv /\ [Next]_vars => HandoffInv'
<1> SUFFICES ASSUME HandoffInv, [Next]_vars PROVE HandoffInv'
  OBVIOUS
<1>0. /\ TypeOK /\ Follows /\ OneLive /\ Serves /\ Seen /\ ReadyInv /\ Below /\ Moved
      /\ Published /\ OneWay /\ AtTop /\ Ordered /\ Late
  BY DEF HandoffInv
<1>1. ScriptForm \/ BridgeForm
  BY <1>0, StepForms
<1>2. TypeOK' /\ Follows' /\ Serves' /\ Seen' /\ Moved' /\ Published'
  BY <1>0, <1>1, KeepsTypes, KeepsFollows, KeepsServes, KeepsSeen, KeepsMoved, KeepsPublished
<1>3. OneLive'
  BY <1>0, <1>1, ScriptKeepsOneLive, BridgeKeepsOneLive
<1>4. ReadyInv' /\ Below'
  BY <1>0, <1>1, ScriptKeepsReady, BridgeKeepsReady, ScriptKeepsBelow, BridgeKeepsBelow
<1>5. OneWay' /\ AtTop'
  BY <1>0, <1>1, ScriptKeepsOneWay, BridgeKeepsOneWay, ScriptKeepsAtTop, BridgeKeepsAtTop
<1>6. Ordered' /\ Late'
  BY <1>0, <1>1, KeepsOrdered, ScriptKeepsLate, BridgeKeepsLate
<1> QED BY <1>2, <1>3, <1>4, <1>5, <1>6 DEF HandoffInv

\* HandoffInv is an inductive invariant: a request of the script that runs is
\* the last that waits, what is under way stays in one column while a snapshot
\* is ready, and the joint states of a descent are late by one waypoint at most.
THEOREM HandoffInvariant == Spec => []HandoffInv
<1>1. Init => HandoffInv
  BY InitHandoff
<1>2. HandoffInv /\ [Next]_vars => HandoffInv'
  BY NextHandoff
<1> QED BY <1>1, <1>2, PTL DEF Spec

\* Every variable keeps to the values of its kind.
THEOREM HandoffTypeCorrect == Spec => []TypeOK
<1>1. HandoffInv => TypeOK
  BY DEF HandoffInv
<1> QED BY <1>1, HandoffInvariant, PTL

BecomesReady == file.state # "ready" /\ file'.state = "ready" => InColumn(file'.obj)

LEMMA ReadyStep == HandoffInv /\ [Next]_vars => BecomesReady
<1> SUFFICES ASSUME HandoffInv, [Next]_vars, file.state # "ready", file'.state = "ready"
             PROVE  InColumn(file'.obj)
  BY DEF BecomesReady
<1>0. TypeOK /\ Follows /\ OneLive /\ Seen /\ Moved
  BY DEF HandoffInv
<1>1. ScriptForm \/ BridgeForm
  BY <1>0, StepForms
<1>2. CASE EndsReady
  <2>1. file'.obj = frozen /\ frozen \in Objects /\ arm \in Column(frozen)
    BY <1>0, <1>2, ReadyIsThere DEF EndsReady
  <2> QED BY <2>1, ColumnPlace DEF InColumn
<1>3. CASE Quits \/ Quiet \/ HearJoints \/ MoveForm
  BY <1>3 DEF Quits, Quiet, HearJoints, MoveForm, Plans, Freezes, PublishesPregrasp
<1>4. CASE DescendForm \/ Request \/ IsAnswered \/ StartMove \/ StartDescend
  BY <1>4 DEF DescendForm, Loads, Begins, Segments, PublishesWaypoint, Deepens, Request, IsAnswered,
     StartMove, StartDescend, Start
<1>5. CASE BridgeForm
  BY <1>5, BridgeAside
<1> QED BY <1>1, <1>2, <1>3, <1>4, <1>5 DEF ScriptForm

\* A snapshot becomes ready only while the arm stands over the place it names.
THEOREM ReadyMeansThereHolds == Spec => ReadyMeansThere
<1>1. HandoffInv /\ [Next]_vars => [BecomesReady]_vars
  BY ReadyStep
<1>2. [BecomesReady]_vars => [file.state # "ready" /\ file'.state = "ready" => InColumn(file'.obj)]_vars
  BY DEF BecomesReady
<1> QED BY <1>1, <1>2, HandoffInvariant, PTL DEF Spec, ReadyMeansThere

GoesBelow == \A w \in Waypoints : moving' = w /\ moving # w => InColumn(w[1])

LEMMA BelowStep == HandoffInv /\ [Next]_vars => GoesBelow
<1> SUFFICES ASSUME HandoffInv, [Next]_vars, NEW w \in Waypoints, moving' = w, moving # w
             PROVE  InColumn(w[1])
  BY DEF GoesBelow
<1>0. TypeOK /\ Follows /\ Below /\ w # None
  BY WaypointPlace DEF HandoffInv
<1>1. ScriptForm \/ BridgeForm
  BY <1>0, StepForms
<1>2. CASE ExecuteTarget
  <2>1. w = target
    BY <1>2 DEF ExecuteTarget
  <2>2. arm \in Column(w[1]) /\ w[1] \in Objects
    BY <1>0, <2>1, WaypointPlace DEF Below
  <2> QED BY <2>2, ColumnPlace DEF InColumn
<1>3. CASE ScriptForm
  BY <1>0, <1>3, ScriptAside
<1>4. CASE Poll \/ HearTarget \/ ResultUnknown \/ BridgeRestarts \/ \E p, answer : StopsAt(p, answer)
  BY <1>0, <1>4 DEF Poll, HearTarget, ResultUnknown, BridgeRestarts, StopsAt, Stops, world
<1> QED BY <1>1, <1>2, <1>3, <1>4 DEF BridgeForm

\* The arm goes below a pregrasp only from the column over the same place.
THEOREM DescendsInColumnHolds == Spec => DescendsInColumn
<1>1. HandoffInv /\ [Next]_vars => [GoesBelow]_vars
  BY BelowStep
<1>2. [GoesBelow]_vars => [\A w \in Waypoints : moving' = w /\ moving # w => InColumn(w[1])]_vars
  BY DEF GoesBelow
<1> QED BY <1>1, <1>2, HandoffInvariant, PTL DEF Spec, DescendsInColumn

\* A descent ends well only past the check of its last waypoint.
LEMMA OkMeansLast ==
  ASSUME TypeOK, [Next]_vars, who = "descend", who' = "none", rc' = "ok"
  PROVE  pc = "after" /\ fresh /\ heard = <<frozen, k>> /\ k = Depth
<1>1. CASE Operator \/ Callbacks \/ SnapshotAges
  BY <1>1, PlaceAssumption DEF Operator, StartMove, StartDescend, Start, Kill, Exit, Leave, ObjectMoves, script,
     Callbacks, HearJoints, HearLink, JointsAge, HearPlan, SnapshotAges
<1>2. CASE Move
  BY <1>2 DEF Move, SeeJoints, SeeObject, HandleCompute, ComputeFails, FreezePlan, PublishPregrasp, MoveFails,
     MoveEnds, GoTo, Exit, WriteAndExit, Leave
<1>3. CASE Load \/ AwaitLink \/ CheckStart \/ PlanSegments \/ PublishWaypoint \/ DescentFails
  BY <1>3 DEF Load, AwaitLink, CheckStart, PlanSegments, PublishWaypoint, DescentFails, GoTo, Exit, Leave
<1>4. CASE CheckWaypoint
  BY <1>4 DEF CheckWaypoint, Exit, Leave
<1>5. CASE Request \/ Answered
  BY <1>5 DEF Request, Answered, GoTo
<1>6. CASE Bridge
  BY <1>6 DEF Bridge, Poll, HearTarget, ExecuteTarget, Arrive, Abort, Stops, ResultUnknown, BridgeRestarts,
     script, ScriptButReply
<1>7. CASE UNCHANGED vars
  BY <1>7 DEF vars, script
<1> QED BY <1>1, <1>2, <1>3, <1>4, <1>5, <1>6, <1>7 DEF Next, Descend

EndsLow ==
  who = "descend" /\ execute /\ who' = "none" /\ rc' = "ok"
    => arm \in {<<frozen, Depth - 1>>, <<frozen, Depth>>}

LEMMA LowStep == HandoffInv /\ [Next]_vars => EndsLow
<1> SUFFICES ASSUME HandoffInv, [Next]_vars, who = "descend", who' = "none", rc' = "ok"
             PROVE  arm \in {<<frozen, Depth - 1>>, <<frozen, Depth>>}
  BY DEF EndsLow
<1>0. TypeOK /\ Follows /\ OneLive /\ Seen /\ ReadyInv /\ AtTop /\ Late
  BY DEF HandoffInv
<1>1. pc = "after" /\ fresh /\ heard = <<frozen, Depth>> /\ k = Depth
  BY <1>0, OkMeansLast
<1>2. Started /\ Resting /\ file.state = "ready" /\ file.obj = frozen /\ frozen \in Objects
  BY <1>0, <1>1, StartedReady DEF Started, Resting, OneLive
<1>3. arm = <<frozen, arm[2]>> /\ arm[2] \in 0 .. Depth
  BY <1>0, <1>2, Levels, ColumnPlace
<1>4. heard[2] = Depth /\ Depth \in Nat /\ Depth # 0
  BY <1>1, DepthAssumption
<1>5. arm[2] >= Depth - 1
  <2>1. CASE Depth = 1
    BY <1>3, <2>1
  <2>2. CASE Depth = 2
    BY <1>0, <1>1, <1>2, <1>3, <1>4, <2>2 DEF AtTop
  <2>3. CASE Depth >= 3
    <3>1. Reached(Depth)
      BY <1>0, <1>1, <1>2, <1>4, <2>3 DEF Late
    <3> QED BY <1>3, <1>4, <3>1 DEF Reached
  <2> QED BY <1>4, <2>1, <2>2, <2>3
<1>6. arm[2] = Depth - 1 \/ arm[2] = Depth
  BY <1>3, <1>4, <1>5
<1> QED BY <1>3, <1>6

\* A descent that reports success leaves the arm at its lowest waypoint or the
\* one above it, however late its targets and joint states were.
THEOREM DescendedMeansBottomHolds == Spec => DescendedMeansBottom
<1>1. HandoffInv /\ [Next]_vars => [EndsLow]_vars
  BY LowStep
<1>2. [EndsLow]_vars =>
        [who = "descend" /\ execute /\ who' = "none" /\ rc' = "ok"
           => arm \in {<<frozen, Depth - 1>>, <<frozen, Depth>>}]_vars
  BY DEF EndsLow
<1> QED BY <1>1, <1>2, HandoffInvariant, PTL DEF Spec, DescendedMeansBottom
=============================================================================
