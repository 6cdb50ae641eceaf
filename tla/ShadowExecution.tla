--------------------------- MODULE ShadowExecution ---------------------------
(***************************************************************************)
(* The archived dry-run chain: command_gate_node and shadow_executor_node  *)
(* of so101_command_gate.  Every 50 ms the gate judges the last things it  *)
(* heard (a trajectory, the flag and the status of the trajectory source,  *)
(* the joint state) and publishes its verdict on three topics: a flag, a   *)
(* status with the plan id and, when ready, the trajectory itself.  The    *)
(* executor keeps the last of each and, after an explicit start, replays   *)
(* the trajectory it holds on a preview topic for as long as the verdicts  *)
(* agree with the plan it started.                                         *)
(*                                                                         *)
(* A trajectory is a value with a plan id (its frame_id); what the gate    *)
(* checks of its points, and of the joint state against it, is one verdict *)
(* (fits).  Ages are fresh or too old.  The messages of one gate tick are  *)
(* handled before the next tick, in any order; a replay outlasts two ticks *)
(* unless the gate is dead.  Sampling ticks of a replay change nothing     *)
(* here; FAILED needs a duration the gate refuses.                         *)
(***************************************************************************)
EXTENDS Naturals

CONSTANTS
  Plans,         \* plan ids
  Trajectories,  \* trajectories, told apart by trajectory_signature
  PlanOf,        \* the plan id in the frame_id of each
  NotReady,      \* a status other than VALID or READY, or none yet
  NoTrajectory

ASSUME ShadowAssumption ==
  /\ PlanOf \in [Trajectories -> Plans]
  /\ NotReady \notin Plans \cup Trajectories
  /\ NoTrajectory \notin Trajectories

VARIABLES
  gate,     \* what the gate heard last
  alive,    \* the gate runs
  verdict,  \* what the last tick published: a trajectory or NotReady
  waiting,  \* topics of that tick the executor has not handled
  valid,    \* command_gate_valid
  status,   \* plan of command_gate_status, or NotReady
  cand,     \* candidate_trajectory
  state,    \* state
  active,   \* active_plan_id
  rounds    \* gate ticks since the last start, up to two (history)

executor == <<valid, status, cand, state, active>>
vars == <<gate, alive, verdict, waiting, executor, rounds>>

Topics == {"valid", "status", "candidate"}

TypeOK ==
  /\ gate \in [valid : BOOLEAN, plan : Plans \cup {NotReady}, beat : BOOLEAN,
               traj : Trajectories \cup {NoTrajectory}, fresh : BOOLEAN, fits : BOOLEAN]
  /\ alive \in BOOLEAN
  /\ verdict \in Trajectories \cup {NotReady}
  /\ waiting \in SUBSET Topics
  /\ valid \in BOOLEAN /\ status \in Plans \cup {NotReady}
  /\ cand \in Trajectories \cup {NoTrajectory}
  /\ state \in {"IDLE", "READY", "RUNNING", "COMPLETED", "CANCELLED", "INVALIDATED"}
  /\ active \in Plans \cup {NotReady}
  /\ state \in {"RUNNING", "COMPLETED", "INVALIDATED"} => active \in Plans /\ cand \in Trajectories
  /\ rounds \in 0 .. 2

Init ==
  /\ gate = [valid |-> FALSE, plan |-> NotReady, beat |-> FALSE,
             traj |-> NoTrajectory, fresh |-> FALSE, fits |-> FALSE]
  /\ alive = TRUE /\ verdict = NotReady /\ waiting = {}
  /\ valid = FALSE /\ status = NotReady /\ cand = NoTrajectory
  /\ state = "IDLE" /\ active = NotReady /\ rounds = 0

-----------------------------------------------------------------------------
(* The gate.                                                               *)

\* A new trajectory: every check of its points is made anew.
HearTrajectory(t, fits) ==
  /\ gate' = [gate EXCEPT !.traj = t, !.fits = fits]

HearValid(b) == gate' = [gate EXCEPT !.valid = b]

\* A VALID status starts the heartbeat age again, any other leaves it.
HearStatus(p) ==
  gate' = [gate EXCEPT !.plan = p, !.beat = (@ \/ p # NotReady)]

HearJoints(fits) == gate' = [gate EXCEPT !.fresh = TRUE, !.fits = fits]

\* source_valid_heartbeat_timeout_s or current_joint_state_timeout_s passes.
Ages ==
  \/ gate.beat /\ gate' = [gate EXCEPT !.beat = FALSE]
  \/ gate.fresh /\ gate' = [gate EXCEPT !.fresh = FALSE]

Hear ==
  /\ alive
  /\ \/ \E t \in Trajectories, b \in BOOLEAN : HearTrajectory(t, b)
     \/ \E b \in BOOLEAN : HearValid(b) \/ HearJoints(b)
     \/ \E p \in Plans \cup {NotReady} : HearStatus(p)
     \/ Ages
  /\ UNCHANGED <<alive, verdict, waiting, executor, rounds>>

\* The source stands by a plan: its flag is up, its last status is VALID
\* with a plan id, and a VALID status came lately.
SourceApproves == gate.valid /\ gate.beat /\ gate.plan # NotReady

\* The trajectory carries the plan id of that status.
SamePlan == gate.traj # NoTrajectory /\ PlanOf[gate.traj] = gate.plan

\* The joint state is fresh; it and every point of the trajectory pass.
ChecksPass == gate.fresh /\ gate.fits

Ready == SourceApproves /\ SamePlan /\ ChecksPass

GateTick ==
  /\ alive /\ waiting = {}
  /\ verdict' = IF Ready THEN gate.traj ELSE NotReady
  /\ waiting' = IF Ready THEN Topics ELSE Topics \ {"candidate"}
  /\ rounds' = IF rounds < 2 THEN rounds + 1 ELSE 2
  /\ UNCHANGED <<gate, alive, executor>>

\* The gate process ends; nothing tells the executor.
GateDies ==
  /\ alive /\ alive' = FALSE
  /\ UNCHANGED <<gate, verdict, waiting, executor, rounds>>

-----------------------------------------------------------------------------
(* The executor.                                                           *)

\* invalidate.
Invalidated == IF state = "RUNNING" THEN "INVALIDATED" ELSE state

Handled(topic) ==
  /\ topic \in waiting
  /\ waiting' = waiting \ {topic}
  /\ UNCHANGED <<gate, alive, verdict, active, rounds>>

ValidHeard ==
  /\ Handled("valid")
  /\ valid' = (verdict # NotReady)
  /\ state' = IF valid' THEN state ELSE Invalidated
  /\ UNCHANGED <<status, cand>>

\* The plan in the verdict, or NotReady.
Verdict == IF verdict = NotReady THEN NotReady ELSE PlanOf[verdict]

\* The later comparison with the previous plan id finds nothing more: while
\* running, the stored status has the active plan.
StatusHeard ==
  /\ Handled("status")
  /\ status' = Verdict
  /\ state' = IF state = "RUNNING" THEN IF Verdict = active THEN state ELSE Invalidated
              ELSE IF state \in {"IDLE", "READY"} /\ valid /\ Verdict # NotReady THEN "READY"
              ELSE IF state = "READY" /\ Verdict = NotReady THEN "IDLE"
              ELSE state
  /\ UNCHANGED <<valid, cand>>

\* A bug to break it: another trajectory is ignored during a replay.
CandidateHeardIgnored ==
  /\ Handled("candidate")
  /\ cand' = IF state = "RUNNING" THEN cand ELSE verdict
  /\ state' = state
  /\ UNCHANGED <<valid, status>>

\* A bug to break it: only an idle executor takes a trajectory.
CandidateHeardIdle ==
  /\ Handled("candidate")
  /\ cand' = IF state \in {"IDLE", "READY"} THEN verdict ELSE cand
  /\ state' = IF state = "RUNNING" /\ verdict # cand THEN Invalidated ELSE state
  /\ UNCHANGED <<valid, status>>

\* While running, the signature of the candidate is running_signature.  A
\* different trajectory ends the run and is not kept.
CandidateHeard ==
  /\ Handled("candidate")
  /\ IF state = "RUNNING" /\ verdict # cand
     THEN state' = Invalidated /\ cand' = cand
     ELSE state' = state /\ cand' = verdict
  /\ UNCHANGED <<valid, status>>

\* A bug to break it: the status is not looked at.
StartUntested ==
  /\ valid /\ cand # NoTrajectory
  /\ active' = status /\ state' = "RUNNING" /\ rounds' = 0
  /\ UNCHANGED <<gate, alive, verdict, waiting, valid, status, cand>>

\* /start_shadow_execution in any state, also while running.
Start ==
  /\ valid /\ status # NotReady /\ cand # NoTrajectory
  /\ active' = status /\ state' = "RUNNING" /\ rounds' = 0
  /\ UNCHANGED <<gate, alive, verdict, waiting, valid, status, cand>>

Cancel ==
  /\ state \in {"RUNNING", "READY"}
  /\ state' = "CANCELLED"
  /\ UNCHANGED <<gate, alive, verdict, waiting, valid, status, cand, active, rounds>>

\* tick_running at the end of the trajectory.  Its other test finds nothing:
\* while running, the flag is up.
Finish ==
  /\ state = "RUNNING"
  /\ valid /\ (rounds = 2 \/ ~alive)
  /\ state' = "COMPLETED"
  /\ UNCHANGED <<gate, alive, verdict, waiting, valid, status, cand, active, rounds>>

Next ==
  \/ Hear \/ GateTick \/ GateDies
  \/ ValidHeard \/ StatusHeard \/ CandidateHeard
  \/ Start \/ Cancel \/ Finish

\* Timers fire and callbacks run; nobody has to start or to finish anything.
Fairness ==
  /\ WF_vars(GateTick)
  /\ WF_vars(ValidHeard) /\ WF_vars(StatusHeard) /\ WF_vars(CandidateHeard)

Spec     == Init /\ [][Next]_vars
FairSpec == Spec /\ Fairness

-----------------------------------------------------------------------------
(* Properties.                                                             *)

\* A replay whose messages are handled runs under a standing approval of the
\* plan it was started for; from the first verdict after the start on it
\* replays the very trajectory the gate approved, although start pairs the
\* plan id of one topic with the trajectory of another.
RunIsApproved ==
  state = "RUNNING" /\ waiting = {} =>
    /\ verdict # NotReady /\ PlanOf[verdict] = active
    /\ rounds > 0 => verdict = cand

\* No replay that lasted two ticks of a living gate completes a trajectory of
\* another plan than the one it reports: a start that paired the two wrongly
\* is undone by the messages under way.
CompletesItsPlan ==
  [][state = "RUNNING" /\ state' = "COMPLETED" /\ rounds = 2 => PlanOf[cand] = active]_vars

\* What the gate approves for good can be started in the end, also after a
\* replay that was ended by the approved trajectory and dropped it.
Startable == valid /\ status # NotReady /\ cand = gate.traj /\ PlanOf[cand] = status

StartableInTheEnd ==
  (<>[](alive /\ Ready) /\ <>[][gate' = gate /\ ~Start]_vars) => <>[]Startable

-----------------------------------------------------------------------------
(* What the proofs use.                                                    *)

\* What the executor has handled of the last tick is what it holds.
HandledIsHeld ==
  /\ "valid" \notin waiting => (valid <=> verdict # NotReady)
  /\ "status" \notin waiting => status = Verdict
  /\ "candidate" \in waiting => verdict # NotReady

\* A replay goes on only under messages that agree with it.
RunAgrees ==
  state = "RUNNING" =>
    /\ valid /\ status = active /\ active # NotReady
    /\ rounds > 0 /\ "candidate" \notin waiting /\ verdict # NotReady => verdict = cand
    /\ rounds = 2 => PlanOf[cand] = active

\* The inductive invariant: a replay, what the executor holds and what is
\* under way fit together at every moment, not only when all is handled.
ShadowInv == TypeOK /\ HandledIsHeld /\ RunAgrees
=============================================================================
