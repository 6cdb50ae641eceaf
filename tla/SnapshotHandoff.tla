-------------------------- MODULE SnapshotHandoff --------------------------
(***************************************************************************)
(* Two scripts hand the arm over by a file.  mvp_move_to_pregrasp asks the *)
(* planner for a pregrasp of the object it sees, writes a snapshot, moves  *)
(* the arm and writes the snapshot again; mvp_descend_from_pregrasp, which *)
(* may no longer see the object, goes down by waypoints from the pregrasp  *)
(* of the snapshot.  The operator runs one script at a time, and may kill  *)
(* it; the request it sent to the bridge then stays in the bridge's queue. *)
(*                                                                         *)
(* Ages are flags that time may clear at any step.  A joint state is fresh *)
(* for 1.0 s and the speed is at most 0.08 rad/s, so a motion that leaves  *)
(* the tolerance of 0.10 rad outlives every joint state heard before it.   *)
(*                                                                         *)
(* A place of the arm is <<o, k>>, k waypoints below the pregrasp of an    *)
(* object at o, or Elsewhere.  Places one waypoint apart are within        *)
(* 0.10 rad, and not within 0.035 rad, of each other.                      *)
(***************************************************************************)
EXTENDS Integers, Sequences

CONSTANTS
  Objects,      \* where the object may lie
  Depth,        \* number of waypoints of a descent (3 in the code)
  BridgeText,   \* what the bridge publishes as tcp_status when connected
  MaxPending,   \* bound: a script is started only while fewer requests wait
  Elsewhere, None

ASSUME DepthAssumption == Depth \in Nat \ {0}

Pregrasps == Objects \X {0}
Waypoints == Objects \X (1 .. Depth)
Targets   == Pregrasps \cup Waypoints

\* None is no place and no word of the scripts; Elsewhere is no target.
ASSUME PlaceAssumption ==
  /\ None \notin Targets /\ None # Elsewhere /\ Elsewhere \notin Targets
  /\ None \notin {"live", "orphan", "completed", "failed", "ok"}

VARIABLES
  object,    \* where the object lies
  arm,       \* the place of the arm
  moving,    \* the place the server moves it to, or None
  conn,      \* bridge: tcp_connected
  target,    \* bridge: last_valid_target
  queue,     \* requests for /mvp/execute_target that wait, oldest first
  serving,   \* the request the bridge serves, or None
  wire,      \* a published target on its way to the bridge
  sample,    \* a published joint state on its way to the script
  file,      \* the snapshot
  who, pc,   \* the script that runs and its position
  execute,   \* --execute with the right confirmation
  frozen,    \* the object of the plan the script follows
  k,         \* the next waypoint
  heard,     \* latest_joint_state.positions_rad,
  fresh,     \* whether it is young enough,
  since,     \* and whether it was received after execute_started
  linked,    \* the last tcp_connected heard
  got,       \* the planner's messages heard
  reply,     \* the answer to the script's request
  rc         \* why the last run ended

world  == <<object, arm, moving>>
bridge == <<conn, target, queue, serving>>
plan   == <<frozen, k, got>>
joints == <<heard, fresh, since>>
script == <<who, pc, execute, plan, joints, linked, reply, rc>>
vars   == <<world, bridge, wire, sample, file, script>>

\* Within 0.10 rad: descent_ready_joint_tolerance_rad and
\* snapshot_pregrasp_joint_tolerance_rad.
Near(p, q) == p = q \/ (p \in Targets /\ q \in Targets /\ p[1] = q[1] /\ p[2] - q[2] \in {-1, 1})

Topics == {"pose", "target", "valid", "status"}
Init ==
  /\ object \in Objects
  /\ arm = Elsewhere /\ moving = None
  /\ conn = FALSE /\ target = None /\ queue = <<>> /\ serving = None
  /\ wire = None /\ sample = None
  /\ file = [state |-> "missing", obj |-> None, young |-> FALSE]
  /\ who = "none" /\ pc = "idle" /\ execute = FALSE
  /\ frozen = None /\ k = 0 /\ got = {}
  /\ heard = None /\ fresh = FALSE /\ since = FALSE
  /\ linked = FALSE /\ reply = None /\ rc = None

-----------------------------------------------------------------------------
(* A run of either script.                                                 *)

Start(w, first) ==
  /\ who = "none" /\ wire = None /\ Len(queue) < MaxPending
  /\ who' = w /\ pc' = first /\ execute' \in BOOLEAN
  /\ frozen' = None /\ k' = 1 /\ got' = {}
  /\ heard' = None /\ fresh' = FALSE /\ since' = FALSE
  /\ linked' = FALSE /\ reply' = None /\ rc' = None /\ sample' = None
  /\ UNCHANGED <<world, bridge, wire, file>>

StartMove == Start("move", "joints")
StartDescend == Start("descend", "load")

Abandoned(r) == IF r = "live" THEN "orphan" ELSE r

\* The script ends; what it asked the bridge for is not withdrawn.
Leave(reason) ==
  /\ who' = "none" /\ pc' = "idle" /\ rc' = reason
  /\ frozen' = None /\ k' = 0 /\ got' = {} /\ execute' = FALSE
  /\ heard' = None /\ fresh' = FALSE /\ since' = FALSE
  /\ linked' = FALSE /\ reply' = None
  /\ queue' = [i \in DOMAIN queue |-> Abandoned(queue[i])]
  /\ serving' = Abandoned(serving)
  /\ UNCHANGED <<world, conn, target, wire, sample>>

Exit(reason) == Leave(reason) /\ UNCHANGED file

Snapshot(state) == [state |-> state, obj |-> frozen, young |-> TRUE]

\* atomic_write_json, then the end of the run.
WriteAndExit(state, reason) == file' = Snapshot(state) /\ Leave(reason)

Kill == who # "none" /\ Exit(None)

GoTo(next) ==
  /\ pc' = next
  /\ UNCHANGED <<who, execute, linked, reply, rc>>

Outside == <<world, bridge, wire, sample>>

\* The callbacks of the subscriptions.
HearJoints ==
  /\ who # "none" /\ sample # None
  /\ heard' = sample /\ fresh' = TRUE /\ since' = TRUE /\ sample' = None
  /\ UNCHANGED <<world, bridge, wire, file, who, pc, execute, plan, linked, reply, rc>>

HearLink ==
  /\ who # "none"
  /\ linked' = conn
  /\ UNCHANGED <<Outside, file, who, pc, execute, plan, joints, reply, rc>>

\* The joint state in hand passes joint_state_max_age_s.
JointsAge ==
  /\ fresh /\ fresh' = FALSE
  /\ UNCHANGED <<Outside, file, who, pc, execute, plan, heard, since, linked, reply, rc>>

\* The text both scripts compare tcp_status with.
LinkAccepted == linked /\ BridgeText = "connected"

-----------------------------------------------------------------------------
(* mvp_move_to_pregrasp                                                    *)

SeeJoints ==
  /\ pc = "joints"
  /\ \/ /\ fresh /\ GoTo("object") /\ UNCHANGED <<Outside, file, plan, joints>>
     \/ ~fresh /\ Exit("joints_stale")

\* The object is seen, or not in time.
SeeObject ==
  /\ pc = "object"
  /\ \/ GoTo("compute") /\ UNCHANGED <<Outside, file, plan, joints>>
     \/ Exit("object_stale")

\* The planner node computes a pregrasp over the object it sees.
HandleCompute ==
  /\ pc = "compute"
  /\ GoTo("plan") /\ frozen' = object
  /\ UNCHANGED <<Outside, file, k, got, joints>>

\* It refuses, or is too late.
ComputeFails == pc = "compute" /\ Exit("compute_failed")

\* The planner publishes on four topics, which deliver in any order.
HearPlan(t) ==
  /\ pc = "plan" /\ t \notin got
  /\ got' = got \cup {t}
  /\ UNCHANGED <<Outside, file, who, pc, execute, frozen, k, joints, linked, reply, rc>>

FreezePlanUnwritten ==
  /\ pc = "plan" /\ {"pose", "target", "valid"} \subseteq got
  /\ execute /\ GoTo("guard") /\ UNCHANGED <<Outside, file, plan, joints>>

\* Target and pose are there.  A verdict that has not arrived yet counts as
\* a refusal; the status is not needed for a near solution.
FreezePlan ==
  /\ pc = "plan"
  /\ \/ ~({"pose", "target"} \subseteq got) /\ Exit("plan_stale")
     \/ {"pose", "target"} \subseteq got /\ "valid" \notin got /\ Exit("pregrasp_invalid")
     \/ {"pose", "target", "valid"} \subseteq got /\ "status" \notin got /\ Exit("status_not_ready")
     \/ /\ {"pose", "target", "valid"} \subseteq got
        /\ execute /\ file' = Snapshot("planned")
        /\ GoTo("guard") /\ UNCHANGED <<Outside, plan, joints>>
     \/ {"pose", "target", "valid"} \subseteq got /\ ~execute /\ WriteAndExit("planned", "planned")

\* execute_preconditions; limits and distance may refuse any target.
PublishPregrasp ==
  /\ pc = "guard"
  /\ \/ ~LinkAccepted /\ Exit("tcp_not_connected")
     \/ Exit("target_refused")
     \/ /\ LinkAccepted
        /\ wire' = <<frozen, 0>> /\ since' = FALSE
        /\ GoTo("call") /\ UNCHANGED <<world, bridge, sample, file, plan, heard, fresh>>

Request ==
  /\ pc = "call"
  /\ queue' = Append(queue, "live")
  /\ GoTo("wait")
  /\ UNCHANGED <<world, conn, target, serving, wire, sample, file, plan, joints>>

\* The bridge is away, refuses, fails or is too late.
MoveFails ==
  /\ who = "move"
  /\ pc = "call" \/ (pc = "wait" /\ reply # "completed")
  /\ WriteAndExit("motion_failed", "motion_failed")

Answered ==
  /\ pc = "wait" /\ reply = "completed"
  /\ GoTo("after")
  /\ UNCHANGED <<Outside, file, plan, joints>>

MoveEndsUnchecked ==
  /\ who = "move" /\ pc = "after" /\ fresh /\ since
  /\ WriteAndExit("ready", "ok")

MoveEnds ==
  /\ who = "move" /\ pc = "after"
  /\ \/ fresh /\ since /\ Near(heard, <<frozen, 0>>) /\ WriteAndExit("ready", "ok")
     \/ fresh /\ since /\ ~Near(heard, <<frozen, 0>>) /\ WriteAndExit("not_ready", "not_reached")
     \/ ~(fresh /\ since) /\ WriteAndExit("motion_failed", "joints_stale")

-----------------------------------------------------------------------------
(* mvp_descend_from_pregrasp                                               *)

Load ==
  /\ pc = "load"
  /\ IF file.state = "ready" /\ file.young
       THEN /\ frozen' = file.obj
            /\ GoTo("link") /\ UNCHANGED <<Outside, file, k, got, joints>>
       ELSE Exit("snapshot_refused")

AwaitLink ==
  /\ pc = "link"
  /\ \/ LinkAccepted /\ GoTo("start") /\ UNCHANGED <<Outside, file, plan, joints>>
     \/ ~LinkAccepted /\ Exit("tcp_not_connected")

\* The arm must be near the pregrasp.
CheckStart ==
  /\ pc = "start"
  /\ \/ ~fresh /\ Exit("joints_stale")
     \/ fresh /\ ~Near(heard, <<frozen, 0>>) /\ Exit("not_at_pregrasp")
     \/ /\ fresh /\ Near(heard, <<frozen, 0>>)
        /\ GoTo("segments") /\ UNCHANGED <<Outside, file, plan, joints>>

\* The waypoints are computed before any of them is commanded.
PlanSegments ==
  /\ pc = "segments"
  /\ \/ Exit("no_plan")
     \/ ~execute /\ Exit("planned")
     \/ execute /\ GoTo("waypoint") /\ UNCHANGED <<Outside, file, plan, joints>>

PublishWaypoint ==
  /\ pc = "waypoint"
  /\ wire' = <<frozen, k>>
  /\ GoTo("call")
  /\ UNCHANGED <<world, bridge, sample, file, plan, joints>>

DescentFails ==
  /\ who = "descend"
  /\ pc = "call" \/ (pc = "wait" /\ reply # "completed")
  /\ Exit("motion_failed")

CheckWaypointPast ==
  /\ who = "descend" /\ pc = "after" /\ fresh /\ heard = <<frozen, k>> /\ k <= Depth
  /\ k' = k + 1 /\ reply' = None /\ pc' = "waypoint"
  /\ UNCHANGED <<Outside, file, who, execute, frozen, got, joints, linked, rc>>

CheckWaypointBlind ==
  /\ who = "descend" /\ pc = "after" /\ fresh
  /\ \/ /\ k < Depth /\ k' = k + 1 /\ reply' = None /\ pc' = "waypoint"
        /\ UNCHANGED <<Outside, file, who, execute, frozen, got, joints, linked, rc>>
     \/ k = Depth /\ Exit("ok")

\* The joint state need only be fresh, and within 0.035 rad of the waypoint.
CheckWaypoint ==
  /\ who = "descend" /\ pc = "after"
  /\ \/ ~fresh /\ Exit("joints_stale")
     \/ fresh /\ heard # <<frozen, k>> /\ Exit("not_reached")
     \/ /\ fresh /\ heard = <<frozen, k>> /\ k < Depth
        /\ k' = k + 1 /\ reply' = None /\ pc' = "waypoint"
        /\ UNCHANGED <<Outside, file, who, execute, frozen, got, joints, linked, rc>>
     \/ fresh /\ heard = <<frozen, k>> /\ k = Depth /\ linked /\ Exit("ok")
     \/ fresh /\ heard = <<frozen, k>> /\ k = Depth /\ Exit("not_reached")

-----------------------------------------------------------------------------
(* The bridge: one thread handles timer, subscription and service.         *)

\* A motion whose answer the bridge lost keeps the server's only slot.
Poll ==
  /\ serving = None
  /\ \/ moving = None /\ conn' = TRUE /\ sample' = arm
     \/ conn' = FALSE /\ UNCHANGED sample
  /\ UNCHANGED <<world, target, queue, serving, wire, file, script>>

HearTarget ==
  /\ serving = None /\ wire # None
  /\ target' = wire /\ wire' = None
  /\ UNCHANGED <<world, conn, queue, serving, sample, file, script>>

Tell(r, answer) == reply' = IF r = "live" THEN answer ELSE reply
ScriptButReply == <<who, pc, execute, plan, linked, rc>>

ExecuteTarget ==
  /\ serving = None /\ queue # <<>>
  /\ queue' = Tail(queue)
  /\ IF conn /\ target # None
       THEN /\ serving' = Head(queue) /\ moving' = target
            /\ UNCHANGED reply
       ELSE /\ Tell(Head(queue), "failed")
            /\ UNCHANGED <<serving, moving>>
  /\ UNCHANGED <<object, arm, conn, target, wire, sample, file, ScriptButReply, joints>>

\* The motion ends at p.  What was heard before a motion that leaves the
\* tolerance is stale, and has arrived, by then.
Stops(p, answer) ==
  /\ moving # None
  /\ arm' = p /\ moving' = None
  /\ serving' = None
  /\ IF serving # None THEN Tell(serving, answer) ELSE UNCHANGED reply
  /\ IF Near(arm, p) THEN UNCHANGED <<fresh, sample>> ELSE fresh' = FALSE /\ sample' = None
  /\ UNCHANGED <<object, conn, target, queue, wire, file, ScriptButReply, heard, since>>

Arrive == Stops(moving, "completed")
\* Within one column the arm stops in it, after some of the way.
Abort ==
  IF arm \in Targets /\ moving \in Targets /\ arm[1] = moving[1]
    THEN \E j \in 0 .. Depth :
           /\ (arm[2] <= j /\ j <= moving[2]) \/ (moving[2] <= j /\ j <= arm[2])
           /\ Stops(<<arm[1], j>>, "failed")
    ELSE Stops(Elsewhere, "failed")

\* The bridge stops waiting for the server, which goes on moving.
ResultUnknown ==
  /\ serving # None
  /\ Tell(serving, "failed")
  /\ serving' = None /\ conn' = FALSE
  /\ UNCHANGED <<world, target, queue, wire, sample, file, ScriptButReply, joints>>

BridgeRestarts ==
  /\ conn' = FALSE /\ target' = None /\ queue' = <<>> /\ serving' = None /\ wire' = None
  /\ UNCHANGED <<world, sample, file, script>>

-----------------------------------------------------------------------------
(* The operator moves the object; the snapshot grows older than 300 s.     *)

ObjectMoves ==
  /\ object' \in Objects
  /\ UNCHANGED <<arm, moving, bridge, wire, sample, file, script>>

SnapshotAges ==
  /\ file.young /\ file' = [file EXCEPT !.young = FALSE]
  /\ UNCHANGED <<Outside, script>>

Operator == StartMove \/ StartDescend \/ Kill \/ ObjectMoves
Callbacks == HearJoints \/ HearLink \/ JointsAge \/ (\E t \in Topics : HearPlan(t))
Move == SeeJoints \/ SeeObject \/ HandleCompute \/ ComputeFails \/ FreezePlan \/ PublishPregrasp \/ MoveFails \/ MoveEnds
Descend == Load \/ AwaitLink \/ CheckStart \/ PlanSegments \/ PublishWaypoint \/ DescentFails \/ CheckWaypoint
Bridge == Poll \/ HearTarget \/ ExecuteTarget \/ Arrive \/ Abort \/ ResultUnknown \/ BridgeRestarts
Next == Operator \/ Callbacks \/ Move \/ Descend \/ Request \/ Answered \/ Bridge \/ SnapshotAges

Spec == Init /\ [][Next]_vars

-----------------------------------------------------------------------------
TypeOK ==
  /\ object \in Objects
  /\ arm \in Targets \cup {Elsewhere}
  /\ moving \in Targets \cup {None} /\ target \in Targets \cup {None} /\ wire \in Targets \cup {None}
  /\ heard \in Targets \cup {Elsewhere, None} /\ sample \in Targets \cup {Elsewhere, None}
  /\ serving \in {None, "live", "orphan"}
  /\ queue \in Seq({"live", "orphan"})
  /\ reply \in {None, "completed", "failed"}
  /\ file \in [state : {"missing", "planned", "motion_failed", "not_ready", "ready"},
              obj : Objects \cup {None}, young : BOOLEAN]
  /\ who \in {"none", "move", "descend"}
  /\ got \subseteq Topics
  /\ conn \in BOOLEAN /\ execute \in BOOLEAN /\ linked \in BOOLEAN
  /\ fresh \in BOOLEAN /\ since \in BOOLEAN
  /\ k \in 0 .. Depth
  /\ frozen \in Objects \cup {None}

InColumn(o) == arm \in Targets /\ arm[1] = o

\* When the snapshot is declared ready for a descent, the arm stands over the
\* place of the object it names: the motion that was answered may have gone
\* to an older target, and the joint state compared may be from before it.
ReadyMeansThere ==
  [][file.state # "ready" /\ file'.state = "ready" => InColumn(file'.obj)]_vars

\* The arm goes to a point below a pregrasp only from the column over the
\* same place of the object, never across the table, whatever was killed,
\* left in the bridge's queue or delivered late.
DescendsInColumn ==
  [][\A w \in Waypoints : moving' = w /\ moving # w => InColumn(w[1])]_vars

\* A descent that reports success leaves the arm at its lowest waypoint, or
\* one above it when a target was late and a joint state from before the last
\* motion still fresh.
DescendedMeansBottom ==
  [][who = "descend" /\ execute /\ who' = "none" /\ rc' = "ok"
       => arm \in {<<frozen, Depth - 1>>, <<frozen, Depth>>}]_vars

\* No script that has heard the bridge report a connection gives up because
\* there is none.
ConnectedIsAccepted ==
  [][rc' = "tcp_not_connected" /\ rc' # rc => ~linked]_vars
-----------------------------------------------------------------------------
(* What the proofs use.                                                    *)

Column(o) == {o} \X (0 .. Depth)
Together(p, q) == p = q \/ \E o \in Objects : p \in Column(o) /\ q \in Column(o)

\* The script's own request is with the bridge.
Live == serving = "live" \/ \E i \in DOMAIN queue : queue[i] = "live"

\* The descent has found the arm at the pregrasp of its snapshot.
Started == who = "descend" /\ pc \in {"segments", "waypoint", "call", "wait", "after"}

\* A script follows an object once it has a plan; a descent follows the object
\* of the snapshot, and a move has taken the snapshot back before it commands.
Follows ==
  /\ who = "none" => pc = "idle"
  /\ who = "move" => pc \in {"joints", "object", "compute", "plan", "guard", "call", "wait", "after"}
  /\ who = "descend" => pc \in {"load", "link", "start", "segments", "waypoint", "call", "wait", "after"}
  /\ pc \in {"plan", "guard", "link", "start", "segments", "waypoint", "call", "wait", "after"} => frozen \in Objects
  /\ who = "descend" /\ pc # "load" => file.state = "ready" /\ file.obj = frozen
  /\ who = "move" /\ pc \in {"guard", "call", "wait", "after"} => file.state # "ready"
  /\ who = "descend" => k \in 1 .. Depth /\ (pc \in {"load", "link", "start", "segments"} => k = 1)

\* The script's request is the last that waits, and it is not answered yet.
OneLive ==
  /\ \A i \in DOMAIN queue : queue[i] = "live" => i = Len(queue)
  /\ serving = "live" => queue = <<>>
  /\ Live => pc = "wait" /\ reply = None
  /\ reply # None => pc \in {"wait", "after"} /\ queue = <<>> /\ serving = None
  /\ pc = "after" => reply = "completed"

\* The bridge serves a request by a motion to the target it holds; it does not
\* report a connection before it has seen the last motion end.
Serves ==
  /\ serving # None => moving = target /\ moving # None
  /\ conn /\ serving = None => moving = None

\* What is known of the arm is of its column: a motion out of it outlives
\* every joint state heard before.
Seen ==
  /\ fresh => heard # None /\ Together(heard, arm)
  /\ sample # None => Together(sample, arm)

\* While a snapshot is ready everything under way stays over its object.
ReadyInv ==
  file.state = "ready" =>
    /\ file.obj \in Objects /\ arm \in Column(file.obj)
    /\ moving \in Column(file.obj) \cup {None} /\ target \in Column(file.obj) \cup {None}
    /\ wire \in Column(file.obj) \cup {None}

\* The bridge holds a waypoint only while the arm is, and stays, over its object.
Below ==
  /\ target \in Waypoints => arm \in Column(target[1]) /\ moving \in Column(target[1]) \cup {None}
  /\ wire \in Waypoints => file.state = "ready" /\ file.obj = wire[1]

\* A move publishes the pregrasp; once it is answered nothing moves any more,
\* and the bridge holds that pregrasp or the place where the arm is.
Moved ==
  who = "move" =>
    /\ wire # None => wire = <<frozen, 0>> /\ pc \in {"call", "wait", "after"}
    /\ reply = "completed" => moving = None /\ target \in {None, arm, <<frozen, 0>>}

\* A descent publishes its waypoints in order.
Published ==
  who = "descend" /\ wire # None =>
    /\ pc \in {"waypoint", "call", "wait", "after"}
    /\ \E j \in 1 .. k : wire = <<frozen, j>>

Between(x, y, z) == (x <= y /\ y <= z) \/ (z <= y /\ y <= x)

\* Where the arm goes.
Goal == IF moving # None THEN moving ELSE IF target # None THEN target ELSE arm

\* Until a descent publishes, what waits in the bridge goes to one place: the
\* arm has come past what the script heard, then past the joint state under
\* way, to where it is now.
OneWay ==
  who = "descend" /\ ~Started /\ file.state = "ready" =>
    /\ sample # None \/ fresh => moving = None \/ target \in {None, moving}
    /\ fresh => Between(heard[2], arm[2], Goal[2])
    /\ sample # None => Between(sample[2], arm[2], Goal[2])
    /\ fresh /\ sample # None => Between(heard[2], sample[2], arm[2])

\* An arm that is, or goes, back to the pregrasp was never seen far below it.
AtTop ==
  Started =>
    /\ moving # None => target \in {None, moving} \cup Waypoints
    /\ arm[2] = 0 \/ Goal[2] = 0 =>
         /\ arm[2] <= 1
         /\ fresh => heard[2] <= 1
         /\ sample # None => sample[2] <= 1

\* The last waypoint was reached and the next one may still be.
Resting == who = "descend" /\ (reply = "completed" \/ (k >= 2 /\ (pc \in {"waypoint", "call"} \/ Live)))

\* Only the request of this descent moves the arm.  The bridge holds the place
\* of the arm, or a waypoint of this descent that is not above one on the way
\* to the bridge.
Ordered ==
  Resting =>
    /\ serving = "live" \/ (moving = None /\ queue \in {<<>>, <<"live">>})
    /\ target \in {None, arm}
       \/ (target[2] <= k /\ (wire # None => target[2] <= wire[2]))

\* A place that is at most one below the arm, and the arm does not rise again.
Reached(x) ==
  \/ x <= arm[2]
  \/ /\ x <= arm[2] + 1 /\ arm[2] <= k
     /\ target # None => arm[2] <= target[2]
     /\ wire # None => arm[2] <= wire[2]

\* Joint states since the first waypoint: the one under way cannot be older
\* once two have been told apart.
Late ==
  Resting /\ k >= 2 =>
    /\ sample # None => Reached(sample[2]) \/ (k = 2 /\ heard = <<frozen, 1>>)
    /\ k >= 3 /\ fresh /\ heard[2] >= k => Reached(heard[2])

HandoffInv ==
  /\ TypeOK /\ Follows /\ OneLive /\ Serves /\ Seen /\ ReadyInv /\ Below /\ Moved
  /\ Published /\ OneWay /\ AtTop /\ Ordered /\ Late
=============================================================================
