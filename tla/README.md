# A verification project for the SO-101 visual-tactile grasp system

TLA+ modules of the parts of this repository that decide what the arm does, TLC
configurations that check them on small instances, and TLAPS proofs of their
safety properties for all instances. Paths are those of the repository.

1. [The system](#1-the-system)
2. [Modules and the code they model](#2-modules-and-the-code-they-model)
3. [Runs: what is checked](#3-runs-what-is-checked)
4. [Where code and documents disagree](#4-where-code-and-documents-disagree)
5. [Proofs](#5-proofs)
6. [What is not modelled](#6-what-is-not-modelled)
7. [Plan](#7-plan)

## 1. The system

A camera finds a block; a script plans a pregrasp, a segmented descent, a
tactile close and a segmented lift; a ROS 2 bridge passes targets and commands
over TCP to a server that owns the arm's bus and the tactile sensor.

```
 object_pose_node -> workspace_to_base_node -> mvp_pregrasp_planner_node
                              |                        | service
                              v                        v
                         mvp_visual_grasp.py (the script, one run)
                 topics: targets, stop flag |  ^ topics: joints, tactile
                 service: execute_target    v  |
                      mvp_hardware_bridge_node (MvpTcpClient)
                                JSON lines  |  ^ TCP, one client
                                            v  |
              mvp_so101_server.py: MvpTcpServer, MotionFeetechBackend,
                                   TactileRuntime -> arm, FlexiTac sensor
```

| component | state it keeps | operations | what must hold |
|---|---|---|---|
| `MvpTcpServer` (`scripts/mvp_so101_server.py`) | `active_client_id`, a thread per connection, `stop_event` | accept, reject, serve a line, release, shutdown | one client drives the arm; the slot always comes back |
| `MvpTcpClient`, `MvpHardwareBridgeNode` | socket, `tcp_connected`, last targets and flags with their times | poll, execute_target, timeouts, reset | an answer belongs to its request; "connected" hides no motion; nothing is sent twice |
| `MotionFeetechBackend` | positions, counters of one motion | `move_joints_sequential`, 20 Hz | slow, sequential, on the path, ends; "completed" is true |
| `TactileRuntime` | reader, monitor thread, contact filter | connect, monitor, snapshot, close | contact follows confirmed streaks; a dead or closed sensor is not ready |
| `mvp_visual_grasp.py` | waypoint, close target, last heard joint and tactile state | one run from readiness to lift | lift only after contact; the run ends; results are true |
| perception, frame transform | window of samples, last pose and flags, their ages | a frame, a message, time | a pose reported valid is the last one heard and lies where the object was lately |
| pregrasp planner | last base pose, current plan | compute, clear | a script gets a plan for one place, or none |
| pregrasp and descent scripts | the snapshot file between them | move, descend | a snapshot describes where the arm is; the arm goes down over the object only |
| command gate, shadow executor (archived) | last message of each topic; a replay | 50 ms verdict; start, cancel, replay | a replay runs only with the gate's approval of its plan and trajectory |
| grasp planner, timed trajectory (archived) | plans latest, pending, active; payload cache | plan, promote by hash | flag, status and payload belong together |
| joint state server and bridge (archived) | sequence numbers, last sample and its age | stream, validate, heartbeat | a valid joint state is the newest of the open stream; silence is reported |

`PROJECT.json` lists all components, the ones left out too, and for each
hazard the line where it bites and the properties that cover it.

The hard behaviours are these.

* Three processes and four threads touch one motion: the script gives up while
  the bridge waits, the bridge gives up while the server moves, and the server
  may be interrupted meanwhile. Script and bridge each wait for 120 s, the
  server's motion has no limit in time.
* Everything the script and the bridge decide on is the *last value heard*
  with an age limit, on topics without an order between them.
* The bridge does nothing else while it waits for a motion: contact and joint
  states stand still exactly when the arm moves.
* The bridge's targets and flag outlive the script that set them.
* The sensor's monitor updates contact and score in two lock sections and
  races with connect and close.
* Two scripts share an arm through a file; each may be killed between moving
  and writing, and its request stays in the bridge's queue.
* Facts that belong together (pose, detected, stable; valid flag, status, path)
  travel on separate topics and are joined by whoever was heard last.

## 2. Modules and the code they model

Every definition that models code is listed in `PROJECT.json` under `map` with
its lines. Operators whose comment begins with "Mutant:" or "A bug to break
it:" are not part of a specification: they are plausible bugs which show that
each property is able to fail. Under "What the proofs use" a module states the parts
of its inductive invariant.

| module | models | extended by |
|---|---|---|
| `MvpLink` | client, wire, server threads | `MC_MvpLink`, `MvpLinkProofs` |
| `OneMotion` | abstract: what the link promises the arm | instance in `MvpLink` |
| `SequentialMotion` | one motion after the other | `MC_SequentialMotion`, `MotionServerProofs` |
| `TactileRuntime` | sensor threads and filter | `MC_TactileRuntime`, `MotionServerProofs` |
| `VisualGrasp` | script, bridge caches, server together | `MC_VisualGrasp`, `VisualGraspProofs` |
| `ObjectPose` | camera node, frame transform | `MC_ObjectPose`, `ObjectPoseProofs` |
| `SnapshotHandoff` | pregrasp and descent scripts, file, bridge queue | `MC_SnapshotHandoff`, `SnapshotHandoffProofs` |
| `ShadowExecution` | archived: command gate and shadow executor | `MC_ShadowExecution`, `ShadowExecutionProofs` |
| `PlanHandover` | archived: grasp planner and timed trajectory node | `MC_PlanHandover`, `PlanHandoverProofs` |
| `JointStateStream` | archived: read-only joint state server and bridge | `MC_JointStateStream`, `JointStateStreamProofs` |

The compositions go by abstraction, not by one product of all variables. What a
motion is inside one action of `VisualGrasp` and `SnapshotHandoff` is
`SequentialMotion`; the link between bridge and server in them is what `MvpLink`
guarantees; the contact value is that of `TactileRuntime`; the trajectories of
`PlanHandover` and the joint states of `JointStateStream` are among the
unrestricted inputs of `ShadowExecution`.

### MvpLink

Client `b` is `MvpTcpClient` and the callbacks that use it; `pc[b]` is where the
callback is, `sock[b]` and `sendCompleted[b]` are fields of the client,
`tcpConnected[b]` and `verdict[b]` those of the bridge. The wire has two
sequences per connection, so a line may be under way in each direction and may
be lost with its socket. `thread[c]` is the place of the server thread of
connection `c` (in the listen backlog, reading, polling, moving, writing,
closing, about to release the slot). `active` is `active_client_id`.

* Time: a timeout may expire whenever its event has not happened.
* Crash: `RestartClient` (kill and restart of a bridge or a probe at any point)
  and `ExitServer` (end of the server process at any point). `Interrupt`,
  `CloseBackend` and `ExitServer` are the three parts of Ctrl+C. A client's
  death closes its socket; a peer that vanishes without that (half-open
  connection) is not modelled.
* A connection that is dead on both sides is reused, so the number of
  reconnections has no bound.

`OneMotion` says the same without sockets: requests of several clients, one
running at a time, never repeated behind the caller's back, definite verdicts
only for the caller's own finished request. `KeepsPromise` is the refinement:
`call`, `request` and `verdict` of the abstract module are defined from the
link's state.

### SequentialMotion

Positions are integers; `Step` is what a joint moves in a tick at its speed,
`Eps` the tolerance 1e-6. The gripper's command is a fraction of its way and is
represented by the numerator. Bus errors, the sensor's answer and the set of
joints that deviate are inputs of each tick. `Begin`, `CountJoint`, `StartLoop`
are the set-up, `Tick`, `TactileStops`, `ObserveRaises`, `SendRaises` the ways a
turn of the inner loop may go, `NextJoint` its end, `Finish` the final state
reading. `strikes` is a history variable.

### TactileRuntime

Main thread and monitor thread with one action per section of the lock. A score
is one of three levels (at least the on threshold, at most the off threshold,
between them). `highs` and `lows` are history variables that count frames
without the filter. Its specification is named `SensorSpec`, its type invariant
`SensorTypeOK`, so that the proofs of the two modules of the server stand in one
module. The FlexiTac reader is not in the repository: it delivers
any level, nothing, or raises.

### VisualGrasp

The script's `run()` as steps of a waypoint (`pc`, `phase`, `k`), the topic
values it has stored (`seen`, `state`), the topics to the bridge (`up`, one FIFO
queue each) and back (`down` with `new`: the last value, for they are states),
the bridge's cache and its service call, and the server's job. The abstractions:

* Publishing the targets of one motion and asking for it is one step: callbacks
  in between only store values that nothing reads before the answer.
* `None` in the cache or in the state heard means too old or never heard. Ages
  are handled where a value is *read*: it may then be too old at any time.
* "joints" stands for the joint and gripper topics, which the bridge publishes
  together. The topics of depth 10 are reduced to their last value; the tactile
  topics are latched with depth 1.
* A motion that moves the arm outlasts the script's age limits (0.25 s, 1.0 s),
  and the script handles waiting messages during it (`CatchUp`). A gripper step
  need not.
* The bridge handles waiting targets before a waiting service call (`Serve`), as
  the rclpy executor does with subscriptions and services that are ready at the
  same time. Nothing in the repository orders them: without that guard
  `LiftOnlyAfterContact` fails in a second run, so the hazard of a target that
  comes after its request is assumed away here, not covered. `SnapshotHandoff`
  has such late targets.
* `NewRun`: starting the script takes longer than a poll, so the latched contact
  is up to date, and the operator does not start it while a motion runs.
* Kinematics, planning and the checks of the plan are one outcome.
* The sensor is free: each look at it may find contact or not, ready or not.

### ShadowExecution

What the gate heard last, its verdict of the last tick, the three messages of
that tick still to be handled (`waiting`), and the executor's fields. All
numeric checks of a trajectory and of the joint state against it are one verdict
(`fits`). Messages of one 50 ms tick are handled before the next tick, in any
order; a replay lasts longer than two ticks; the gate may die (`GateDies`) and
nothing tells the executor. Messages to the gate are unrestricted, so any
trajectory source is covered. `FAILED` is unreachable from a trajectory the gate
accepts and is left out, and so are restarts of the executor.

### ObjectPose

One camera frame is one action with all early returns of `process_frame`: no
marker, marker but no pose, a sample pushed into the window, median and
deviation. The camera's timer is free: a frame may be taken in every state,
whatever was heard of the ones before. The three topics are read independently
and keep their last `Depth` messages, so the transform combines a pose of one
frame with flags of another, and a topic that lags drops its oldest. Places are
whole coordinates more than 6.01 mm apart, far enough that a mixed window of 15
has a deviation above 1.5 mm; a median may fall in the middle between two
places. A failed read of the camera leaves the window as it is.

Ages are counted in frames. `left[i]` is for how many more frames input `i` of
the transform node stays fresh: `Timeout` when it is heard, one less with every
frame, and zero at any step when time passes without frames (`InputAges`). At
20 Hz up to 10 frames are taken within 0.5 s, so `Timeout` is 11; a timer that
catches up after a delay adds one. The code measures an age from when an input
was *heard*, not from the stamp of the pose, which is why the lag of a topic and
the time since count both. What waits for the transform node waits in one store
per topic, the queue of ten of its subscription; the time on the way between two
processes of one machine is part of that wait.

`ago` and `since` are history: how many detections ago the object was seen at a
place, how many frames ago one was called stable. No guard reads them.

The planner and both scripts do not read `/object_pose_base_valid`: they go by
the age of the last base pose (1.0 s), again from when it was heard. The planner
is not in this module: how old the pose of a plan is depends on how long pose
and request take on their way, of which the code promises nothing.

### SnapshotHandoff

`who` and `pc` are the script that runs and its position, `file` the snapshot.
The operator may start either script when none runs, kill it anywhere, move the
object and restart the bridge. Each of the snapshot's writes is a step of its
own. The bridge serves its queue one at a time; a request of a killed script is
served all the same. A published target may arrive late, after the request it
was meant for, but before the next script runs. A place of the arm is an object
and a number of waypoints below its pregrasp. A joint state heard before a
motion that leaves the tolerance of 0.10 rad is too old after it: at no more
than 0.08 rad/s such a motion takes longer than the 1.0 s a joint state stays
fresh. `BridgeText` is the status the bridge publishes: the scripts compare it
with the bare `connected`, the bridge of this repository adds fields to it
(section 4), so the passing run uses the text the scripts expect.

### PlanHandover

`visual_grasp_planner_node` publishes flag and status on a timer and the path
once per plan; `timed_trajectory_node` keeps the names latest, pending and active,
a cache of paths, and publishes a plan as safe while every heartbeat is young.
Plan id, hash and path are functions of the place the plan is for. Invalidating a
plan in the planner refreshes the age of the pose, as the code does.

### JointStateStream

The server's accept loop and stream of one client with its two sequence
numbers (`start` of `run_server`, `next` of `stream_client`), which an exception
tears apart; the bridge's network thread and its timer, which computes its flag
under the lock and publishes it after. Other clients of the server come and go.
The bridge never closes its socket itself. After a restart of the server, whose
numbers begin at 0 again, or a reset of the bridge's connection, which leaves
`run_server` at the old start, the bridge stays INVALID until the numbers
have caught up; the repository's reconnect test continues the numbers and does
not meet this. One TRUE may follow the FALSE of a disconnect, until the next
heartbeat. The configured fault policy `exit_nonzero` is `ServerDies`.

## 3. Runs: what is checked

`tlc -config X.cfg M` in this directory. Sizes are distinct states.

| run | configuration | size | properties |
|---|---|---|---|
| `link` | bridge and probe, three connections, symmetric | 47,121 | `TypeOK`, `SingleClient`, `ConnectedMeansSettled`, `AnswerMatches`, and that the link implements `OneMotion` (`KeepsPromise`) |
| `link_live` | one client, two connections, fair | 1,726 | `Reconnects` |
| `motion` | two joints, `Step` 3, `Eps` 1, gripper step 2, fair | 42,108 | `TypeOK`, `StaysOnPath`, `SlowAndSequential`, `CompletedMeansCommanded`, `AbortNeedsThreeStrikes`, `MotionEnds` |
| `tactile` | the configured frame counts 3 and 5, fair | 3,433 | `SensorTypeOK`, `FilterIsExact`, `TornSnapshotAgrees`, `ClosedStaysDown`, `DeathNoticed` |
| `grasp` | two runs of the script, one waypoint down, two up | 934,868 | `TypeOK`, `LiftOnlyAfterContact`, `ClosesAtBottom`, `LiftCompletedMeansLifted` |
| `grasp_ends` | one run, fair | 234,390 | `RunEnds` |
| `pose` | two places, window of two, two messages per topic, inputs that outlive one frame | 782,341 | `TypeOK`, `ValidMeansCurrent`, `ValidPoseIsRecent` |
| `handoff` | two places of the object, two waypoints, symmetric | 1,535,556 | `TypeOK`, `ReadyMeansThere`, `DescendsInColumn`, `DescendedMeansBottom` |
| `handoff_link` | the status text the bridge really publishes | violation | `ConnectedIsAccepted` (section 4) |
| `shadow` | two plans, three trajectories (two of one plan), fair | 660,096 | `TypeOK`, `RunIsApproved`, `CompletesItsPlan`, `StartableInTheEnd` |
| `plan` | a served, a refused and an unreachable place, cache of one, fair | 124,982 | `TypeOK`, `SafeIsTold`, `PlanIsServed` |
| `stream` | one bridge and other clients, two connections, fair | 546,798 | `TypeOK`, `RegressionMeansRewind`, `BeatIsBacked`, `SilenceIsHeard` |

What the less obvious properties say:

* `ReadyMeansThere`: when a snapshot is declared ready for a descent, the arm
  stands over the object it names. That it stands exactly at the pregrasp does
  *not* hold: a late target, a short motion and a joint state that is still fresh
  leave it one waypoint lower. For the same reason `DescendedMeansBottom` allows
  one waypoint above the bottom.
* `DescendsInColumn`: no motion to a waypoint starts from another column, also
  when a request of a killed script is served late.
* `ValidPoseIsRecent`: a pose reported valid lies among the places of the last
  `Window \div 2 + Depth + Timeout - 1` detections, and one of the last `Depth +
  Timeout - 1` frames was called stable: with the values of the code (15, 10,
  11) 27 detections and 20 frames, about 1.4 s and 1 s. Nothing is assumed of
  when messages are heard. Less does not hold: a pose may pass under the flag of
  another frame, and may then lie midway between two places.
* `SafeIsTold`: with no flag and no status under way, the timed node would
  publish the plan the planner told last.
* `RegressionMeansRewind`: a bridge rejects a sample as a regression only after
  the server restarted or the bridge's own connection was reset, never for bus
  faults or other clients.
* `FilterIsExact`: contact is confirmed and released by streaks of exactly the
  configured length.

**Why these bounds.** *Link*: an abandoned motion, its successor and a competing
client need three connections and two clients; a third client would only compete
like the second. *Motion*: targets at distance 0, 1 (below the tolerance), 4 (a
step and a remainder within the tolerance) and 8 (two steps and a short one) are
the cases of `Advance`; two joints make an order, and the proofs cover every
number of them. *Tactile*: no bound other than the frame counts. *Grasp*: what a
run can leave behind meets the next run, so two runs; the gate between two lift
segments, so two segments; the clamp of `CloseTarget` matters when the
closing starts at the limit already, which the script's stale gripper position
allows. The proofs cover any plan and any number of runs. *Pose*: a window
that is empty, short, of one place or of two, topics in which a third message
drops one, an input that outlives one frame but not two. Both bounds of
`ValidPoseIsRecent` are reached there: with a horizon shorter by one it fails. *Handoff*: a plan that is
out of date needs two places; two waypoints are the least for which places of
one column need not be near each other; two requests may wait (`MaxPending`), an
orphan and the present one. *Shadow*: a trajectory replaced under the same plan
id, and one under another. *Plan*: one place per outcome, and a cache in which
every payload evicts the one before; the proofs cover any places and caches.
*Stream*: a number above and one below what the bridge expects, two lines under
way, two faults in a row, an old connection and its successor.

**Deadlock** is checked in all runs but two: in each of their states some
process can go on. The sensor (closed, its monitor
ended) and the shadow chain (a dead gate, nothing under way) really may stop,
and there it is not.

**Fairness, and why.**

* `MvpLink!Fairness`: the poll timer keeps firing in `rclpy.spin`; blocking
  socket calls return or time out; threads are scheduled; a motion is a finite
  loop (`MotionEnds`). Nothing is assumed of the operator, of crashes, or of
  when a server is started. `Reconnects` has the premise that the server stays
  up and that `Disturbance` stops: restarts, requests that time out, and failed
  connection attempts that could have worked may each recur for ever and would
  prevent a connection.
* `SequentialMotion`, `TactileRuntime`: the server's thread, the monitor's and
  the main thread run and time passes. Nothing is assumed of start or close.
* `VisualGrasp!FairSpec`: script, bridge, server run and messages are delivered.
  `Decide` is strongly fair: `spin_until` evaluates its predicate right after
  each callback, so a state that is fresh again and again is seen fresh.
* `ShadowExecution!Fairness`: the gate's timer fires and the executor's
  callbacks run. Nobody has to start or cancel a replay.
* `PlanHandover!FairSpec`: the planner's timer fires and messages arrive.
  Nothing is assumed of the object or of the ages: `PlanIsServed` speaks of a plan
  that the planner keeps.
* `JointStateStream!FairSpec`: the bridge's timer fires, its result is published
  and time passes. Nothing is assumed of the server, of the network or of the
  network thread; `SilenceIsHeard` has the premise that from some point no good
  sample is read and that the bridge itself is not restarted for ever.

Each property of a passing run has at least one mutant in `PROJECT.json`: a
changed definition under which TLC finds it violated. They include a slot that
is claimed untested or never cleared, a socket kept after a timeout, a motion
that is sent again, an overshooting step, a strike counter that is not cleared,
a sticky release counter, a `ready` flag that is set by a frame, a stop flag
left to expire, an executor that keeps a trajectory it should have refused, a plan
that is frozen without being written, a flag that keeps a refused transform
alive, a pose whose age is not tested, a path that is only kept when it is awaited, and a disconnect that keeps
the last sample.

## 4. Where code and documents disagree

`handoff_link` is expected to end in a violation of `ConnectedIsAccepted`:
`docs/MVP4C_OCCLUSION_SAFE_HANDOFF_MANUAL_ACCEPTANCE.md:72` expects the snapshot
state `executed_descent_ready` after a pregrasp motion, but the pregrasp and the
descent script compare `tcp_status` with `connected`
(`mvp_move_to_pregrasp.py:240`, `mvp_descend_from_pregrasp.py:827`), while the bridge
publishes `connected;updated_unix_s=...;connection_generation=...`
(`mvp_hardware_bridge_node.py:121`). With this bridge neither script ever moves
the arm. `mvp_visual_grasp.py:687` cuts the text at the semicolon.

Seen while modelling, without a run:

* `docs/ARCHITECTURE.md:321` "If any joint deviates > 8.0° from target, motion
  aborts (3 strikes)": only the active joint is compared
  (`mvp_so101_server.py:674`), and the three strikes may belong to two joints.
* `docs/ARCHITECTURE.md:108` the closing is sent with `stop_on_tactile=true`: the
  flag is published once and the bridge takes one older than 2.0 s for FALSE, so
  later steps of a closing are not watched by the server.
* `docs/ARCHITECTURE.md:300` contact: "STOP immediately": the script ignores the
  answer `tactile_contact_stop` and decides by the last topic value, possibly
  from before the step.
* `docs/ARCHITECTURE.md:311` and `:312` contact lost: "ABORT lift immediately",
  contact "maintained throughout all 3 segments": each tactile callback makes the
  whole state look fresh, so an old contact passes the gate for one more segment,
  contact is looked at between the segments only, and not after the last.
* `docs/ARCHITECTURE.md:320` gives each `move_joints_sequential` a timeout of
  5.0 s. The loop has no limit in time; the callers' limits are 120 s, and when
  one expires the motion goes on.
* The gripper's step per tick (`README.md:225`) limits only a motion of the
  gripper alone; with the arm, the gripper's way is divided over the arm's ticks
  (`mvp_so101_server.py:616`, `:636`). A change of the arm between 1e-9 and 1e-6
  takes no tick at all: the gripper stays and the answer is `motion_completed`.
* `docs/ARCHITECTURE.md:301` describes the close limit as `g0 +
  safe_close_limit` (5.0); the code compares the target with 5.0 itself.

## 5. Proofs

`tlapm M.tla` checks each of the eight proof modules; no step is left unproved.
The theorems hold for every value of the constants that satisfies the
assumptions declared beside them. These say only that constants are of their kind
(sets, positive step sizes and counts, a special value that is no member of a
set).

| module | invariant | gives |
|---|---|---|
| `MvpLinkProofs` | `LinkInv`, `SentInv` | `TypeOK`, `SingleClient`, `ConnectedMeansSettled`, `CleanBeforeSend`, `AnswerMatches`, and `KeepsPromise`: the link implements `OneMotion`; for any clients and connections |
| `MotionServerProofs` | `MotionInv` | of `SequentialMotion`: `TypeOK`, `StaysOnPath`, `CompletedMeansCommanded`, `AbortNeedsThreeStrikes`, `SlowAndSequential`, for any number of joints, step, tolerance, targets |
| | `TactileInv` | of `TactileRuntime`: `SensorTypeOK`, `FilterIsExact`, `ClosedStaysDown`, for any frame counts, and `TornSnapshotAgrees` for frame counts of at least two |
| `VisualGraspProofs` | `GraspInv` | `TypeOK`, `ClosesAtBottom`, `LiftCompletedMeansLifted`, `LiftOnlyAfterContact`, for any number of waypoints, segments and runs, any gripper range, start, step and limit |
| `SnapshotHandoffProofs` | `HandoffInv` | `TypeOK`, `ReadyMeansThere`, `DescendsInColumn`, `DescendedMeansBottom`, for any objects, any number of waypoints, any number of waiting requests and any status text |
| `ShadowExecutionProofs` | `ShadowInv` | `TypeOK`, `RunIsApproved`, `CompletesItsPlan`, for any plans and trajectories |
| `ObjectPoseProofs` | `Standing`, `RecentInv` | `TypeOK`, `ValidMeansCurrent`, `ValidPoseIsRecent`, for any places, window, depth and timeout |
| `PlanHandoverProofs` | `PlanFollowsPose`, `TypeOK`, `Joined` | `TypeOK`, `PlanFollowsPose`, `SafeIsTold`, for any places, cache size and lag |
| `JointStateStreamProofs` | `StreamInv` | `TypeOK`, `RegressionMeansRewind`, `BeatIsBacked`, for any bridges and connections and any bound on the numbers |

Each proof has the same shape: the initial states satisfy the invariant; one
lemma per action, or per group of actions, that it is preserved; the property
follows from it; the temporal step comes last. The invariants were checked by TLC
on the instances of section 3 before they were proved; where a theorem gives a
property, the run lists the property and not the invariant. `HandoffInv` was checked on
larger instances too (more waypoints and more waiting requests), since its last parts
speak of the distance between waypoints, `StreamInv` in part with two bridges, and
`RecentInv` with a window of three and an age limit of three frames.

* **LinkInv.** `SingleClient` needs `SlotInv`: every thread that is past accept
  and has not released the slot is the active client. A thread that is about to
  release holds the slot although its connection is closed, which is why a
  reconnecting client can be rejected by its own past. `AnswerMatches` and
  `CleanBeforeSend` need to know, for each place of the callback, the only places
  where its one request can be (`AwaitInv`), and what may be left on a connection
  its client has abandoned (`AbandonedInv`). `ConnectedMeansSettled` needs
  `MotionInv`: a motion is only sent on a connection that carried an answer
  before, so that connection had the slot and every older one of the same client
  has ended.
* **MotionInv.** The last action sent and the loop's `positions` differ: a
  joint that is done, or skipped because its way is within the tolerance, is set
  to its target but sent only with the next joint's action. `SyncInv` says by how
  much and for which joints. `SetupInv` carries that the number of ticks of a
  gripper that moves alone is enough for its way.
* **TactileInv.** The filter's counters are those of the history, but only the
  one that counts at the moment (`CountInv`); `ScoreInv` ties the published score
  to the frames before the one in work.
* **The refinement.** `call`, `request` and `verdict` of `OneMotion` are defined
  from the link's state. Most steps of the link leave them as they are; the proof
  names for each of the others the abstract action it is. `LinkInv` says that a
  client has one request at most, wherever it is; `SentInv` adds that a client
  that waits for an answer has sent its request, so one that is given up is
  reported as unknown and never as not sent.
* **GraspInv.** A property of the grasp chain depends on what four places agree
  on: the step the script is at, the orders in the queues and the cache, the job
  that runs, and the contact the script believes in. `Ordered` says that the last
  arm order under way or kept is the goal of the present call (`LastOf` makes
  queue and cache one value, so that taking an order from the queue changes
  nothing), and that outside the closing the last flag order is FALSE. `Reported`
  says that an answer "completed" or "contact" means that the arm is at the goal
  and nothing moves, also when it reaches a script that has given up meanwhile.
  `Known` says that a joint state the script has, or will hear, is where the arm
  is: that makes the joint state `Hold` takes for the closing the bottom.
  `Believed` ties the contact on its way to the script to one confirmed in this
  run, over a link that is down and a run that starts on latched topics.
* **ShadowInv.** What the executor holds, what is under way and the replay agree
  at every moment. `RunAgrees` is the point: after one gate tick a replay whose
  trajectory is not the approved one has a message under way that ends it, after
  two it is over.

* **Standing.** While the last valid time is set, both flags heard are true and
  the pose that passed is the last one heard.
* **Joined.** The flag and the name the timed node has, or will have once
  everything under way is handled, are those the planner told last; a status
  VALID has an active plan.
* **HandoffInv.** Two processes that are killed at will share an arm through a
  file; the invariant says what may be under way at each moment. Its core is
  `ReadyInv`: while a snapshot is ready, the arm, the motion, the target the
  bridge holds and the target on its way are of one column, that of the snapshot's
  object. To become ready, a move must have been answered (`Moved`), its request
  is the last that waits (`OneLive`), the bridge served it by a motion to the
  target it held (`Serves`), and the joint state the script compared is of the
  column the arm is in (`Seen`): so nothing an orphan left behind goes anywhere
  else any more. `DescendsInColumn` follows by `Below`. The rest is for
  `DescendedMeansBottom`. Until the descent publishes, what waits in the bridge
  moves the arm one way, past what the script has heard (`OneWay`), so a script
  that sees the pregrasp has an arm at most one waypoint below it (`AtTop`);
  from then on targets only go down (`Ordered`), and a joint state that passes for
  waypoint `k` tells of an arm that is there, or that a late target has taken back
  by one waypoint since and that does not rise again (`Reached`, `Late`). The proof first sorts
  the steps into forms, such as a script that quits, a script that hears and a bridge that
  serves, and shows for each part of the invariant which forms can touch it.
  `PlaceAssumption` says that the special values (no place, a place off every column)
  are none of the places and that the words for a request and an answer differ
  from "none".
* **RecentInv.** How long ago something was seen is bounded by where it is. A
  sample with `k` after it in the window was seen `k` detections ago at most
  (`SamplesAreSeen`), a pose or flag with `k` after it in its topic is `k`
  frames behind (`PosesAreSeen`, `FlagsAreSeen`), and what was heard has aged
  since by what its `left` lacks (`BaseIsSeen`, `StableIsSeen`). `KeepLastKeeps`
  says that a store that gets a message moves every other one away from its end
  by one, whether or not it drops its oldest. A median lies between two samples
  of the newer half of its window, since the older ones are too few to outvote
  it (`MedianFollows`). The age that is tested is that of the last pose heard;
  that it is the age of the base pose is `Standing`. That the median exists and
  lies at a place or midway between two (`RankExists`, `MedianIsBetween`) is
  what `TypeOK` rests on: the least number that enough samples do not exceed is
  a sample, by the well-foundedness of the naturals (which also bounds the
  samples, `SamplesAreBounded`).
* **StreamInv.** A bridge's expected number is at most what the server will go on
  from (`NotBelow`): the next number while it serves this bridge over a whole
  connection, the start of the stream otherwise. To preserve it, the samples of
  a connection are in order and below the next number (`InOrder`), nothing is
  under way to nobody (`Unsent`), one connection is served (`OneServed`), and no two
  bridges share one (`OwnSock`). `Believed` gives `BeatIsBacked`.

`TornSnapshotAgrees` needs the assumption on the counts: with one frame to
confirm, a snapshot between the two sections pairs a new contact with an old
score. The configured counts are 3 and 5.

Model-checked only:

* liveness (`Reconnects`, `MotionEnds`, `DeathNoticed`, `RunEnds`,
  `StartableInTheEnd`, `PlanIsServed`, `SilenceIsHeard`), since fairness and
  ENABLED are outside the prover's reach.

Every invariant and every action property of the passing runs, and the refinement,
is a theorem. `ConnectedIsAccepted` is false by what the code does (section 4).
## 6. What is not modelled

* Floating-point numerics: inverse kinematics, minimum-jerk sampling, marker
  detection, calibration. In the models their outcome is a free choice.
* Serial and bus I/O of the backend; the read-only backend and `--dry-run`.
* Half-open TCP connections (`settimeout(None)` in the server keeps the slot for
  a peer that vanished without closing): listed as a hazard.
* Of the handoff: both scripts at once, an arm moved by hand, a compute request of
  a killed script that the planner still answers, and a connected flag that is
  torn from its status text.
* Of the poses: publishers with another frame name or numbers that are not finite
  (the returns of `handle_pose` at 244-271); only `object_pose_node` publishes
  poses. The planner's store of the last base pose and its age.
* Of the plan handover: a timed node that starts late or is restarted. It never
  gets the path of the present plan, which is published once on a volatile topic.
* Of the joint state stream: the preflight, the one-shot dump, two bridges on the
  same topics (the probe script is a second one), and a branch for values that
  are not finite, which the mapping never yields.
* Protocol v1 with its bridge and mock server: an archived simulation whose place
  the motion link has taken.
* Tools, launchers, tests, the grasp controller skeleton, and
  `TactileUdpGuardReceiver`, which nothing instantiates.

Of `SequentialMotion` the connecting and closing of the backend, of
`VisualGrasp` `--plan-only`, of the gate's chain the sampling of a replay, and of
the pregrasp planner the kinematics and that store are left out; these components are therefore
listed as "partly".

Most lines of the repository are not the program's logic: verification and audit
scripts (`scripts/verify_*`, which exercise it), calibration and recording tools,
and numerics make up the larger part of its Python. The models cover the
control of the active pipeline and of four archived nodes; the mapped lines are
a small share of all lines for that reason.

## 7. Plan

Done, in this order: link and its promise, motion, sensor, grasp chain, shadow
execution; then the snapshot handoff, the object pose, the plan handover and the
joint state stream, and the refinement and the grasp chain as theorems. The order
followed the way from the arm outwards, since each module assumes what the one
before it guarantees.

The proofs followed the same order; the last were those of the snapshot handoff, the
joint state stream and the recency of a pose.

Next, in order of importance:

1. The pregrasp planner's store of the last base pose, with a bound on how long
   its messages take, so that the age of the pose of a plan can be stated.
2. A property on the gripper's position between a contact stop and the lift: the
   script holds the last position heard, possibly from before the stop.
3. The composition of `PlanHandover` and `JointStateStream` with
   `ShadowExecution`, whose gate now takes any source.
4. A timed node that is restarted, and a second bridge on the joint state topics.
