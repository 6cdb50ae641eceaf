---------------------------- MODULE VisualGrasp ----------------------------
(***************************************************************************)
(* The grasp chain: scripts/mvp_visual_grasp.py in its execute mode, the   *)
(* caches of mvp_hardware_bridge_node.py and the motions of                *)
(* mvp_so101_server.py.  The script publishes targets on topics, asks for  *)
(* one motion at a time with the service /mvp/execute_target, and learns   *)
(* of the tactile contact from topics the bridge publishes when it polls.  *)
(*                                                                         *)
(* The bridge is a single-threaded executor: it handles one topic message, *)
(* one poll or one service call at a time, and polls nothing while a       *)
(* motion runs.  Every cached value has an age limit (2.0 s in the bridge, *)
(* 0.25 s and 1.0 s in the script); here any value may expire at any time. *)
(* Arm positions are the points of the plan: 0 is anywhere before it, 1    *)
(* the pregrasp, then the descent, then the lift.  The link itself is      *)
(* module MvpLink, a motion SequentialMotion, the sensor TactileRuntime:   *)
(* here a motion moves the gripper by one unit per tick and the arm from   *)
(* its place to its target in one of them.                                 *)
(***************************************************************************)
EXTENDS Integers, Sequences

CONSTANTS
  Descents,   \* number of descent waypoints
  Lifts,      \* number of lift waypoints
  Start,      \* gripper position at the beginning
  OpenDelta,  \* gripper_open_delta
  CloseStep,  \* gripper_close_step
  Limit,      \* gripper_safe_close_limit
  MaxGrip,    \* the open end of the gripper range
  MaxRuns,    \* bound: runs of the script
  None        \* no value

ASSUME PlanAssumption ==
  /\ Descents \in Nat \ {0} /\ Lifts \in Nat \ {0}
  /\ Start \in 0 .. MaxGrip /\ Limit \in 0 .. MaxGrip /\ MaxGrip \in Nat
  /\ OpenDelta \in Nat /\ CloseStep \in Nat \ {0}
  /\ MaxRuns \in Nat \ {0}
  /\ None \notin Int

VARIABLES
  \* the script
  pc, phase, k,    \* where run is: the step, its phase, the waypoint of the phase
  base,            \* initial_gripper
  goal,            \* current_close_target, then held_gripper
  outcome,         \* success and message of the last call
  result,          \* why the run ended, or "none"
  runs,            \* runs so far
  seen,            \* latest_tactile_state: ready, contact, fresh
  state,           \* latest joint (None when too old) and gripper state: arm, grip
  \* topics
  up,              \* to the bridge: arm, grip, flag
  down,            \* to the script: the last value of each topic
  new,             \* the topics of down the script has not handled yet
  \* the bridge
  call,            \* the service call: "none", "asked", "running" or its answer
  busy,            \* _motion_request_active
  cache,           \* last targets: arm, grip (None when too old), flag
  tcp,             \* tcp_connected
  \* the server
  job,             \* the motion that runs
  arm, grip,       \* measured positions
  contact,         \* the tactile snapshot, where a poll or a tick looked at it last
  confirmed        \* history: contact has been confirmed in this run

script == <<pc, phase, k, base, goal, outcome, result, runs>>
ears   == <<seen, state, down, new>>
bridge == <<busy, cache, tcp>>
server == <<job, arm, grip>>
sensor == <<contact, confirmed>>
vars   == <<script, ears, up, call, bridge, server, sensor>>

Pregrasp == 1
Bottom   == 1 + Descents
Down(i)  == 1 + i
Lift(i)  == Bottom + i

\* build_gripper_ramp_targets with equal fractions, the last of them 1.0.
RampTo(i) == base + (OpenDelta * i) \div Descents

Failures == {"not_ready", "plan_failed", "call_failed", "no_state", "close_timeout", "motion_error", "limit_without_contact", "contact_lost"}
Answers  == {"completed", "tactile_contact_stop", "failed"}
\* "joints" stands for /mvp/joint_states and /mvp/gripper_state, published together.
Topics   == {"ready", "contact", "joints"}
Orders   == {"arm", "grip", "flag"}

Arms  == 0 .. Lift(Lifts)
Grips == 0 .. MaxGrip
Jobs  == [arm : Arms, grip : Grips \cup {None}, watch : BOOLEAN]

ASSUME JobAssumption == None \notin Jobs

ScriptOK ==
  /\ pc \in {"start", "plan", "call", "wait", "answer", "hold", "gate", "done"}
  /\ phase \in {"pre", "down", "close", "lift"}
  /\ k \in Nat
  /\ base \in Grips /\ goal \in Grips
  /\ outcome \in Answers /\ result \in {"none", "lifted"} \cup Failures /\ runs \in 1 .. MaxRuns

EarsOK ==
  /\ seen \in [ready : BOOLEAN, contact : BOOLEAN, fresh : BOOLEAN]
  /\ state \in [arm : Arms \cup {None}, grip : Grips \cup {None}]
  /\ down \in [ready : BOOLEAN, contact : BOOLEAN, arm : Arms \cup {None}, grip : Grips \cup {None}]
  /\ new \in SUBSET Topics

Queues == [arm : Seq(Arms), grip : Seq(Grips), flag : Seq(BOOLEAN)]

BridgeOK ==
  /\ call \in {"none", "asked", "running"} \cup Answers
  /\ busy \in BOOLEAN /\ tcp \in BOOLEAN
  /\ cache \in [arm : Arms \cup {None}, grip : Grips \cup {None}, flag : BOOLEAN]

ServerOK ==
  /\ job \in Jobs \cup {None}
  /\ arm \in Arms /\ grip \in Grips
  /\ contact \in BOOLEAN /\ confirmed \in BOOLEAN

TypeOK == ScriptOK /\ EarsOK /\ up \in Queues /\ BridgeOK /\ ServerOK

\* A node that has just been created has heard nothing.
Deaf == /\ seen' = [ready |-> FALSE, contact |-> FALSE, fresh |-> FALSE]
        /\ state' = [arm |-> None, grip |-> None]

Init ==
  /\ pc = "start" /\ phase = "pre" /\ k = 0
  /\ base = Start /\ goal = Start
  /\ outcome = "completed" /\ result = "none" /\ runs = 1
  /\ seen = [ready |-> FALSE, contact |-> FALSE, fresh |-> FALSE]
  /\ state = [arm |-> None, grip |-> None]
  /\ up = [arm |-> <<>>, grip |-> <<>>, flag |-> <<>>]
  /\ down = [ready |-> FALSE, contact |-> FALSE, arm |-> None, grip |-> None]
  /\ new = {"ready", "contact"}
  /\ call = "none" /\ busy = FALSE /\ tcp = FALSE
  /\ cache = [arm |-> None, grip |-> None, flag |-> FALSE]
  /\ job = None /\ arm = 0 /\ grip = Start
  /\ contact = FALSE /\ confirmed = FALSE

----------------------------------------------------------------------------
\* The script.  A callback that comes while it publishes only stores a value
\* nothing reads before the next call, so what is published together is one step.

Sent(queues, topic, value) == [queues EXCEPT ![topic] = Append(@, value)]

\* Mutant: the flag is left to expire.
FlagLeft == up

\* publish_stop_gripper_on_tactile_once(False).
FlagCleared == Sent(up, "flag", FALSE)

GoTo(step) == pc' = step /\ result' = result
End(why)   == pc' = "done" /\ result' = why

\* validate_fresh_tactile_state with require_clear.
TactileClear == seen.fresh /\ seen.ready /\ ~seen.contact

\* Mutant: the field of the sensor's readiness is read instead.
ContactHeardReady == seen.ready

\* latest_tactile_state.contact_detected.
ContactHeard == seen.contact

\* wait_for_mvp_runtime_ready: 8 s to hear everything, then the run is refused.
AwaitRuntime ==
  /\ pc = "start"
  /\ IF tcp /\ state.arm # None /\ state.grip # None /\ TactileClear
       THEN GoTo("plan") /\ base' = state.grip
       ELSE End("not_ready") /\ base' = base
  /\ UNCHANGED <<phase, k, goal, outcome, runs, ears, up, call, bridge, server, sensor>>

\* From the object pose to the checked summary, which kinematics may refuse at
\* will; then the stop flag is cleared.
Plan ==
  /\ pc = "plan"
  /\ \/ base + OpenDelta <= MaxGrip /\ TactileClear /\ GoTo("call") /\ up' = FlagCleared
     \/ End("plan_failed") /\ up' = up
  /\ UNCHANGED <<phase, k, base, goal, outcome, runs, ears, call, bridge, server, sensor>>

\* Mutant: the limit is only looked at after the step.
CloseTargetUnclamped == goal - CloseStep

\* The next target of the closing, never past the limit.
CloseTarget == IF goal - CloseStep < Limit THEN Limit ELSE goal - CloseStep

\* Mutant: nothing ever matches the limit.
AtLimitNever == goal < Limit

\* The last target of the closing was the limit.
AtLimit == goal = Limit

\* What is published for the next motion.
Published ==
  CASE phase = "pre"   -> Sent(up, "arm", Pregrasp)
    [] phase = "down"  -> Sent(Sent(up, "arm", Down(k)), "grip", RampTo(k))
    [] phase = "close" -> Sent(up, "grip", CloseTarget)
    [] phase = "lift"  -> Sent(Sent(up, "arm", Lift(k)), "grip", goal)

\* The targets, then call_trigger: ask, or find no service within 3 s.
Call ==
  /\ pc = "call"
  /\ up' = Published /\ goal' = IF phase = "close" THEN CloseTarget ELSE goal
  /\ \/ call' = "asked" /\ GoTo("wait") /\ outcome' = outcome
     \/ outcome' = "failed" /\ GoTo("answer") /\ call' = call
  /\ UNCHANGED <<phase, k, base, runs, ears, bridge, server, sensor>>

\* The closing has lasted 30 s.
CloseTimeout ==
  /\ pc = "call" /\ phase = "close" /\ End("close_timeout")
  /\ UNCHANGED <<phase, k, base, goal, outcome, runs, ears, up, call, bridge, server, sensor>>

\* call_trigger: the response, or 120 s without one while the motion runs.
Answer ==
  /\ pc = "wait"
  /\ \/ call \in Answers /\ outcome' = call
     \/ call = "running" /\ outcome' = "failed"
  /\ call' = "none" /\ GoTo("answer")
  /\ UNCHANGED <<phase, k, base, goal, runs, ears, up, bridge, server, sensor>>

\* After a motion that is not a step of the closing.
AfterMove ==
  /\ pc = "answer" /\ phase # "close"
  /\ IF outcome = "failed" THEN End("call_failed") /\ UNCHANGED <<phase, k>>
     ELSE CASE phase = "pre" -> GoTo("call") /\ phase' = "down" /\ k' = 1
            [] phase = "down" /\ k < Descents -> GoTo("call") /\ k' = k + 1 /\ phase' = phase
            [] phase = "down" /\ k = Descents -> GoTo("hold") /\ UNCHANGED <<phase, k>>
            [] phase = "lift" /\ k < Lifts -> GoTo("gate") /\ k' = k + 1 /\ phase' = phase
            [] OTHER -> End("lifted") /\ UNCHANGED <<phase, k>>
  /\ UNCHANGED <<base, goal, outcome, runs, ears, up, call, bridge, server, sensor>>

\* At the bottom: 3 s for a fresh joint state, which becomes the arm target of
\* the closing; the gripper position is the last one heard, of any age.  The
\* stop flag is set here, once.
Hold ==
  /\ pc = "hold"
  /\ IF state.arm # None
       THEN /\ up' = Sent(Sent(up, "arm", state.arm), "flag", TRUE)
            /\ goal' = state.grip /\ phase' = "close" /\ GoTo("call")
       ELSE End("no_state") /\ UNCHANGED <<goal, phase, up>>
  /\ UNCHANGED <<k, base, outcome, runs, ears, call, bridge, server, sensor>>

\* After a step of the closing the script hears the bridge again, unless the
\* bridge does not poll, and looks for contact first.  The flag is cleared
\* before the lift.
Decide ==
  /\ pc = "answer" /\ phase = "close"
  /\ seen.fresh \/ ~tcp \/ busy
  /\ IF ContactHeard
       THEN phase' = "lift" /\ k' = 1 /\ goal' = state.grip /\ up' = FlagCleared /\ GoTo("gate")
       ELSE /\ UNCHANGED <<phase, k, goal, up>>
            /\ IF outcome = "failed" THEN End("motion_error")
               ELSE IF AtLimit THEN End("limit_without_contact") ELSE GoTo("call")
  /\ UNCHANGED <<base, outcome, runs, ears, call, bridge, server, sensor>>

\* Before each lift segment: contact within 2 s, or no further lift.
Gate ==
  /\ pc = "gate"
  /\ IF seen.fresh /\ seen.ready /\ ContactHeard THEN GoTo("call") ELSE End("contact_lost")
  /\ UNCHANGED <<phase, k, base, goal, outcome, runs, ears, up, call, bridge, server, sensor>>

\* One callback of the script.  Each tactile callback stamps the whole state.
Receive(topic) ==
  /\ pc # "done" /\ topic \in new
  /\ new' = new \ {topic}
  /\ CASE topic = "ready"   -> seen' = [seen EXCEPT !.ready = down.ready, !.fresh = TRUE] /\ state' = state
       [] topic = "contact" -> seen' = [seen EXCEPT !.contact = down.contact, !.fresh = TRUE] /\ state' = state
       [] topic = "joints"  -> state' = [arm |-> down.arm, grip |-> down.grip] /\ seen' = seen
  /\ UNCHANGED <<script, down, up, call, bridge, server, sensor>>

\* A value of the script grows older than its limit, looked at where it is read.
Expire ==
  /\ \/ /\ seen.fresh /\ pc \in {"start", "plan", "answer", "gate"}
        /\ seen' = [seen EXCEPT !.fresh = FALSE] /\ state' = state
     \/ /\ state.arm # None /\ pc \in {"start", "hold"}
        /\ state' = [state EXCEPT !.arm = None] /\ seen' = seen
  /\ UNCHANGED <<script, down, new, up, call, bridge, server, sensor>>

\* The operator starts the script again.  Starting takes longer than a poll of
\* a connected bridge, so the latched tactile topics are up to date; joint and
\* gripper states are not latched.
NewRun ==
  /\ pc = "done" /\ runs < MaxRuns /\ runs' = runs + 1
  /\ ~busy /\ (tcp => down.contact = contact)
  /\ pc' = "start" /\ phase' = "pre" /\ k' = 0
  /\ base' = Start /\ goal' = Start
  /\ outcome' = "completed" /\ result' = "none"
  /\ Deaf /\ new' = {"ready", "contact"}
  /\ confirmed' = contact
  /\ UNCHANGED <<down, up, call, bridge, server, contact>>

\* The tactile thread's snapshot as a reader finds it.
Sense ==
  /\ contact' \in BOOLEAN
  /\ confirmed' = (confirmed \/ contact')

----------------------------------------------------------------------------
\* The bridge.

\* handle_joint_target, handle_gripper_target, handle_stop_gripper_on_tactile_contact;
\* only a call reads what they store, so they are looked at when one is asked.
Handle(topic) ==
  /\ call = "asked" /\ up[topic] # <<>> /\ ~busy
  /\ up' = [up EXCEPT ![topic] = Tail(@)]
  /\ LET value == Head(up[topic]) IN
       cache' = CASE topic = "arm"  -> [cache EXCEPT !.arm = value]
                  [] topic = "grip" -> [cache EXCEPT !.grip = value]
                  [] OTHER          -> [cache EXCEPT !.flag = value]
  /\ UNCHANGED <<script, ears, call, busy, tcp, server, sensor>>

\* fresh_gripper_target, fresh_stop_gripper_on_tactile_contact: a target or flag
\* older than 2.0 s is as good as none, looked at where the call reads it.
CacheExpires ==
  /\ call = "asked" /\ ~busy
  /\ \/ cache.grip # None /\ cache' = [cache EXCEPT !.grip = None]
     \/ cache.flag /\ cache' = [cache EXCEPT !.flag = FALSE]
  /\ UNCHANGED <<script, ears, up, call, busy, tcp, server, sensor>>

\* poll_state_once: the server answers it only when no motion runs (MvpLink).
Poll ==
  /\ ~busy /\ job = None
  /\ Sense
  /\ \E ready \in BOOLEAN : down' = [ready |-> ready, contact |-> contact', arm |-> arm, grip |-> grip]
  /\ new' = Topics /\ tcp' = TRUE
  /\ UNCHANGED <<script, seen, state, up, call, busy, cache, server>>

\* poll_state_once: any failure drops the connection and publishes nothing else.
PollFails ==
  /\ ~busy /\ tcp /\ tcp' = FALSE
  /\ UNCHANGED <<script, ears, up, call, busy, cache, server, sensor>>

\* handle_execute_target, up to the request on the wire.  That the messages that
\* wait are taken before the call that waits is assumed: it is how the executor
\* orders what is ready, and nothing in the handler asks for it.
Serve ==
  /\ call = "asked" /\ ~busy
  /\ \A topic \in Orders : up[topic] = <<>>
  /\ IF ~tcp \/ cache.arm = None
       THEN call' = "failed" /\ UNCHANGED <<busy, job>>
       ELSE /\ call' = "running" /\ busy' = TRUE
            /\ job' = [arm |-> cache.arm, grip |-> cache.grip, watch |-> cache.flag]
  /\ UNCHANGED <<script, ears, up, cache, tcp, arm, grip, sensor>>

\* handle_execute_target returns: to the caller, if it still waits.
Return(answer) == busy' = FALSE /\ call' = IF call = "running" THEN answer ELSE call

\* The link fails while the motion runs, and the motion runs on.
LinkLost ==
  /\ busy /\ Return("failed") /\ tcp' = FALSE
  /\ UNCHANGED <<script, ears, up, cache, server, sensor>>

----------------------------------------------------------------------------
\* The server: move_joints_sequential and the tactile thread.

EndJob(answer) ==
  /\ job' = None
  /\ IF busy THEN Return(answer) ELSE UNCHANGED <<busy, call>>

Target  == IF job.grip = None THEN grip ELSE job.grip
Toward(x, y) == IF x < y THEN x + 1 ELSE IF x > y THEN x - 1 ELSE x
Watched == job.watch /\ job.grip # None

\* A motion of the arm takes longer than any age limit of the script, which
\* meanwhile handles whatever waits for it.
Heard(topic, old) == IF topic \in new THEN down[topic] ELSE old
CatchUp ==
  /\ seen' = [ready |-> Heard("ready", seen.ready), contact |-> Heard("contact", seen.contact), fresh |-> FALSE]
  /\ state' = [arm |-> None, grip |-> IF "joints" \in new THEN down.grip ELSE state.grip]
  /\ new' = {}

\* One tick of the loop: command, then the sensor when the motion is watched.
Tick ==
  /\ job # None /\ (arm # job.arm \/ grip # Target)
  /\ grip' = Toward(grip, Target)
  /\ arm' = job.arm \/ (arm' = arm /\ grip # Target)
  /\ IF arm' # arm THEN CatchUp ELSE UNCHANGED <<seen, state, new>>
  /\ Sense
  /\ \/ Watched /\ EndJob("failed")   \* the sensor is not ready
     \/ Watched /\ contact' /\ EndJob("tactile_contact_stop")
     \/ ~(Watched /\ contact') /\ UNCHANGED <<job, busy, call>>
  /\ UNCHANGED <<script, down, up, cache, tcp>>

Complete ==
  /\ job # None /\ arm = job.arm /\ grip = Target
  /\ EndJob("completed")
  /\ UNCHANGED <<script, ears, up, cache, tcp, arm, grip, sensor>>

\* The bus or the tracking check fails.
Abort ==
  /\ job # None /\ EndJob("failed")
  /\ UNCHANGED <<script, ears, up, cache, tcp, arm, grip, sensor>>

----------------------------------------------------------------------------
Bridge ==
  \/ \E topic \in Orders : Handle(topic)
  \/ Poll \/ PollFails \/ CacheExpires \/ Serve \/ LinkLost

Script ==
  \/ AwaitRuntime \/ Plan \/ Call \/ CloseTimeout \/ Answer \/ AfterMove \/ Hold \/ Decide \/ Gate

Next ==
  \/ Script \/ (\E topic \in Topics : Receive(topic)) \/ Expire \/ NewRun
  \/ Bridge
  \/ Tick \/ Complete \/ Abort

Spec == Init /\ [][Next]_vars

\* The processes run.  spin_until looks at its predicate right after each
\* callback, so a state that is fresh again and again is seen fresh.
FairSpec ==
  /\ Spec
  /\ WF_vars(Script) /\ SF_vars(Decide)
  /\ \A topic \in Topics : WF_vars(Receive(topic))
  /\ \A topic \in Orders : WF_vars(Handle(topic))
  /\ WF_vars(Poll) /\ WF_vars(Serve)
  /\ WF_vars(Tick) /\ WF_vars(Complete)

----------------------------------------------------------------------------
\* What the bridge's orders and the server's motion have to do with where the
\* script is: the invariant behind the three properties that follow.

\* The order the bridge will hold once it has handled what is under way.
LastOf(s, kept) == IF s = <<>> THEN kept ELSE s[Len(s)]
ArmOrder  == LastOf(up.arm, cache.arm)
FlagOrder == LastOf(up.flag, cache.flag)

\* Where the arm is to be after the motion of a phase.
GoalOf(f, i) ==
  CASE f = "pre" -> Pregrasp [] f = "down" -> Down(i) [] f = "close" -> Bottom [] OTHER -> Lift(i)
Goal == GoalOf(phase, k)

UnderWay == pc \notin {"start", "done"}

\* What a run counts and has measured at its beginning.
Counts ==
  /\ phase = "down" => k \in 1 .. Descents
  /\ phase = "lift" => k \in 1 .. Lifts
  /\ UnderWay /\ pc # "plan" => base + OpenDelta <= MaxGrip

\* A joint state the script has, or has yet to handle, is where the arm is.
Known ==
  /\ state.arm \in {None, arm}
  /\ "joints" \in new => down.arm = arm /\ down.grip # None
  /\ UnderWay => state.grip # None

\* Contact the script believes in, or will hear of, was confirmed in this run.
Believed ==
  /\ (tcp \/ UnderWay) /\ down.contact => confirmed
  /\ UnderWay /\ seen.contact => confirmed
  /\ phase = "lift" => confirmed

\* The bridge is busy with the job that runs, or has lost the link.
Steady ==
  /\ busy => job # None
  /\ job # None /\ ~busy => ~tcp
  /\ call = "running" => busy
  /\ call # "none" => pc = "wait"

\* What the bridge has been told is the order of the present call, and watched
\* only during the closing.
Ordered ==
  /\ call = "asked" \/ phase = "close" => ArmOrder = Goal
  /\ phase # "close" /\ UnderWay /\ pc # "plan" => ~FlagOrder
  /\ call = "running" => job.arm = Goal /\ (phase # "close" => ~job.watch)

\* A motion reported as completed has ended at its goal, and the closing stays
\* at the bottom, whatever was given up meanwhile.
Reported ==
  /\ call \in {"completed", "tactile_contact_stop"} => job = None /\ arm = Goal
  /\ call = "tactile_contact_stop" => phase = "close"
  /\ pc = "answer" /\ outcome # "failed" => job = None /\ arm = Goal
  /\ pc = "answer" /\ outcome = "tactile_contact_stop" => phase = "close"
  /\ pc = "hold" => phase = "down" /\ job = None /\ arm = Bottom
  /\ phase = "close" => arm = Bottom /\ (job # None => job.arm = Bottom)
  /\ result = "lifted" => pc = "done" /\ call = "none" /\ job = None /\ arm = Lift(Lifts)

\* All of the above in every state of every run: the orders, the motion and what
\* the script believes fit the step the script is at.
GraspInv == TypeOK /\ Counts /\ Known /\ Believed /\ Steady /\ Ordered /\ Reported

\* A lift segment begins only after the sensor confirmed contact in the same
\* run, with whatever delay, tearing and loss the contact reached the script.
\* It rests on Serve's assumption: a target that arrives after the call it was
\* meant for leaves the one before it, and in a second run that may be a lift's.
LiftOnlyAfterContact ==
  [][job = None /\ job' # None /\ job'.arm > Bottom => confirmed]_vars

\* A run that reports the lift as completed has the arm at the last lift
\* waypoint: no segment of the lift was cut short and reported as done.
LiftCompletedMeansLifted == pc = "done" /\ result = "lifted" => arm = Lift(Lifts)

\* The closing happens at the bottom of the descent and keeps the arm there:
\* the descent was not cut short by a stop flag of the run before, and the
\* joint state the closing holds is not from before the last motion.
ClosesAtBottom == phase = "close" /\ pc = "wait" /\ job # None => job.arm = Bottom /\ arm = Bottom

\* Each run of the script ends, whatever the link, the sensor and the arm do.
RunEnds == (pc # "done") ~> (pc = "done")
=============================================================================
