-------------------------- MODULE SequentialMotion --------------------------
(***************************************************************************)
(* One motion of the arm: MotionFeetechBackend.move_joints_sequential, run *)
(* at 20 Hz in the server thread of the only client.  The arm joints move  *)
(* one after the other by at most Step per tick; the gripper, if it has a  *)
(* target, is interpolated over the ticks of the whole motion and may be   *)
(* stopped by the tactile sensor.                                          *)
(*                                                                         *)
(* Positions are integers.  The code compares arm distances with 1e-6 and  *)
(* their sum with 1e-9: here a distance of at most Eps is below the first  *)
(* tolerance and only 0 is below the second, so distances in 1..Eps (an    *)
(* encoder reading that differs by rounding) lie between the two.  A       *)
(* gripper command is                                                      *)
(*     start + (frac / total) * (target - start)                           *)
(* and is represented by frac.  The sensor, the tracking error and the     *)
(* bus are inputs: every reading may come out either way.                  *)
(***************************************************************************)
EXTENDS Integers, Sequences, FiniteSets

CONSTANTS
  N,               \* number of arm joints
  Step,            \* arm: speed_rad_s / 20
  Eps,             \* arm: the tolerance 1e-6
  GripStep,        \* gripper: gripper_close_step_per_tick
  Starts, Targets, \* arm: measured positions and requested ones
  Grips            \* gripper: measured and requested positions

Joints == 0 .. N - 1

ASSUME SizeAssumption == N \in Nat \ {0} /\ Step \in Nat \ {0} /\ Eps \in Nat /\ GripStep \in Nat \ {0}
ASSUME InputAssumption == Starts \subseteq Int /\ Targets \subseteq Int /\ Grips \subseteq Nat

VARIABLES
  pc,        \* "idle", "setup", "loop" or "done"
  result,    \* the reason of the response, or "none"
  start,     \* measured arm positions at the beginning
  target,    \* target_positions
  grip,      \* <<measured gripper, target_gripper>>
  hasGrip,   \* gripper_target_pos is not None
  watch,     \* stop_gripper_on_tactile_contact
  order,     \* joint_order, after the gripper_only override
  idx,       \* position in order of the active joint
  pos,       \* positions
  gripSteps, \* gripper_step_index
  total,     \* total_steps
  gripOnly,  \* gripper_only
  badCount,  \* bad_tracking_count
  strikes,   \* consecutive ticks in which some joint deviated (history)
  last       \* the last action sent, at first the measured state

inputs == <<start, target, grip, hasGrip, watch>>
vars   == <<pc, result, inputs, order, idx, pos, gripSteps, total, gripOnly, badCount, strikes, last>>

Abs(x) == IF x < 0 THEN -x ELSE x
Least(x, y) == IF x < y THEN x ELSE y
Results ==
  {"none", "refused", "motion_completed", "tactile_contact_stop", "tactile_unavailable",
   "tracking_error_exceeded", "state_error", "exception"}

\* joint_order is a permutation of the joints (_handle_move checks it).
Orders ==
  {o \in [1 .. N -> Joints] :
     /\ \A i, j \in 1 .. N : o[i] = o[j] => i = j
     /\ \A j \in Joints : \E i \in 1 .. N : o[i] = j}

TypeOK ==
  /\ pc \in {"idle", "setup", "loop", "done"}
  /\ result \in Results
  /\ start \in [Joints -> Int] /\ target \in [Joints -> Int] /\ pos \in [Joints -> Int]
  /\ grip \in Nat \X Nat
  /\ hasGrip \in BOOLEAN /\ watch \in BOOLEAN /\ gripOnly \in BOOLEAN
  /\ order \in Seq(Joints)
  /\ idx \in Nat \ {0}
  /\ gripSteps \in Nat /\ total \in Nat
  /\ badCount \in 0 .. 3 /\ strikes \in 0 .. 3
  /\ last \in [arm : [Joints -> Int], frac : Nat]

\* Between two requests the variables of the last call do not matter.
Init ==
  /\ pc = "idle" /\ result = "none"
  /\ start = [j \in Joints |-> 0] /\ target = start /\ pos = start
  /\ grip = <<0, 0>> /\ hasGrip = FALSE /\ watch = FALSE /\ gripOnly = FALSE
  /\ order = <<>> /\ idx = 1
  /\ gripSteps = 0 /\ total = 0 /\ badCount = 0 /\ strikes = 0
  /\ last = [arm |-> start, frac |-> 0]

-----------------------------------------------------------------------------
CeilDiv(x, y) == (x + y - 1) \div y

\* Ticks the loop is expected to spend on one joint.
JointSteps(from, to) == IF Abs(to - from) > Eps THEN CeilDiv(Abs(to - from), Step) ELSE 0

\* Validated request, state read, targets within calibration.  Without a
\* gripper target the gripper keeps its measured position.
Begin(s, t, g, has, w, o) ==
  /\ pc = "idle"
  /\ ~has => g[2] = g[1]
  /\ start' = s /\ target' = t /\ grip' = g /\ hasGrip' = has /\ watch' = w
  /\ order' = o /\ idx' = 1
  /\ pos' = s /\ last' = [arm |-> s, frac |-> 0]
  /\ gripOnly' = FALSE /\ gripSteps' = 0 /\ total' = 0
  /\ badCount' = 0 /\ strikes' = 0
  /\ pc' = "setup"
  /\ UNCHANGED result

InOrder == idx <= Len(order)
Active  == order[idx]

\* total_steps adds up the ticks of the joints.
CountJoint ==
  /\ pc = "setup" /\ InOrder
  /\ total' = total + JointSteps(start[Active], target[Active])
  /\ idx' = idx + 1
  /\ UNCHANGED <<pc, result, inputs, order, pos, gripSteps, gripOnly, badCount, strikes, last>>

GripWay == Abs(grip[2] - grip[1])

\* total_arm_delta <= 1e-9 and gripper_delta > 1e-9: the gripper moves alone,
\* stepwise, in the loop of the first joint.
StartLoop ==
  /\ pc = "setup" /\ ~InOrder
  /\ gripOnly' = (target = start /\ GripWay > 0)
  /\ IF gripOnly'
       THEN order' = <<0>> /\ total' = CeilDiv(GripWay, GripStep)
       ELSE UNCHANGED <<order, total>>
  /\ idx' = 1
  /\ pc' = "loop"
  /\ UNCHANGED <<result, inputs, pos, gripSteps, badCount, strikes, last>>

\* A guard of _handle_move or of the setup fails, or get_state does.
Refuse ==
  /\ pc = "idle"
  /\ result' \in {"refused", "state_error", "exception"}
  /\ pc' = "done"
  /\ UNCHANGED <<inputs, order, idx, pos, gripSteps, total, gripOnly, badCount, strikes, last>>

\* The response is written and the next request may come.
Respond ==
  /\ pc = "done"
  /\ pc' = "idle" /\ result' = "none"
  /\ UNCHANGED <<inputs, order, idx, pos, gripSteps, total, gripOnly, badCount, strikes, last>>

-----------------------------------------------------------------------------
\* Mutant: the gripper part of the loop condition is left out.
MoreToDoArmOnly == Abs(pos[Active] - target[Active]) > Eps

\* Mutant: nothing bounds the ticks of the gripper.
MoreToDoUnbounded == Abs(pos[Active] - target[Active]) > Eps \/ (gripOnly /\ GripWay > 0)

\* The condition of the inner while loop.
MoreToDo ==
  \/ Abs(pos[Active] - target[Active]) > Eps
  \/ gripOnly /\ GripWay > 0 /\ gripSteps < total

\* Mutant: the step is not limited by the remaining distance.
AdvanceOvershoots(p, t) == IF t > p THEN p + Step ELSE IF t < p THEN p - Step ELSE p

\* Mutant: the joint is sent to its target in one tick.
AdvanceAtOnce(p, t) == t

\* One tick of the active joint towards its target, snapped within Eps.
Advance(p, t) ==
  LET step == Least(Abs(t - p), Step)
      next == IF t < p THEN p - step ELSE p + step
  IN  IF Abs(next - t) <= Eps THEN t ELSE next

\* The fraction of the gripper's way saturates at 1, and the counter with it.
NextGripStep == Least(gripSteps + 1, total)

\* The action of this tick.
Command ==
  [arm  |-> [pos EXCEPT ![Active] = Advance(@, target[Active])],
   frac |-> IF hasGrip THEN NextGripStep ELSE last.frac]

\* send_action: the positions and counters advance with it.
SendAction ==
  /\ pos' = Command.arm
  /\ gripSteps' = NextGripStep
  /\ last' = Command

Stop(reason) == pc' = "done" /\ result' = reason

InLoop == pc = "loop" /\ InOrder /\ MoreToDo

\* The bus raises before the action is written.
SendRaises ==
  /\ InLoop
  /\ Stop("exception")
  /\ UNCHANGED <<inputs, order, idx, pos, gripSteps, total, gripOnly, badCount, strikes, last>>

\* The tactile check of a watched motion stops it after this tick's action:
\* the sensor is not ready, or contact is confirmed (the same action is sent
\* again to hold).
TactileStops ==
  /\ InLoop
  /\ hasGrip /\ watch
  /\ SendAction
  /\ \/ Stop("tactile_unavailable")
     \/ Stop("tactile_contact_stop")
  /\ UNCHANGED <<inputs, order, idx, total, gripOnly, badCount, strikes>>

\* The observation raises after the action was sent.
ObserveRaises ==
  /\ InLoop
  /\ SendAction
  /\ Stop("exception")
  /\ UNCHANGED <<inputs, order, idx, total, gripOnly, badCount, strikes>>

\* Mutant: the counter is not cleared by a good reading.
CountBadSticky(deviating) ==
  badCount' = IF Active \in deviating THEN badCount + 1 ELSE badCount

\* bad_tracking_count looks at the active joint only.
CountBad(deviating) ==
  badCount' = IF Active \in deviating THEN badCount + 1 ELSE 0

\* The history variable.
RecordStrike(deviating) ==
  strikes' = IF deviating # {} THEN Least(strikes + 1, 3) ELSE 0

\* Mutant: the fourth strike aborts.
TickLate(deviating) ==
  /\ InLoop
  /\ SendAction
  /\ CountBad(deviating)
  /\ RecordStrike(deviating)
  /\ IF badCount' > 3
       THEN Stop("tracking_error_exceeded")
       ELSE UNCHANGED <<pc, result>>
  /\ UNCHANGED <<inputs, order, idx, total, gripOnly>>

\* A tick with its tracking check: deviating are the joints whose measured
\* position is more than maximum_tracking_error_deg from the commanded one.
Tick(deviating) ==
  /\ InLoop
  /\ SendAction
  /\ CountBad(deviating)
  /\ RecordStrike(deviating)
  /\ IF badCount' >= 3
       THEN Stop("tracking_error_exceeded")
       ELSE UNCHANGED <<pc, result>>
  /\ UNCHANGED <<inputs, order, idx, total, gripOnly>>

\* The active joint is within tolerance: its position is the target.
NextJoint ==
  /\ pc = "loop" /\ InOrder /\ ~MoreToDo
  /\ pos' = [pos EXCEPT ![Active] = target[Active]]
  /\ idx' = idx + 1
  /\ UNCHANGED <<pc, result, inputs, order, gripSteps, total, gripOnly, badCount, strikes, last>>

\* All joints done: the final get_state decides.
Finish ==
  /\ pc = "loop" /\ ~InOrder
  /\ \E r \in {"motion_completed", "state_error", "exception"} : Stop(r)
  /\ UNCHANGED <<inputs, order, idx, pos, gripSteps, total, gripOnly, badCount, strikes, last>>

MotionStep ==
  \/ CountJoint
  \/ StartLoop
  \/ SendRaises
  \/ TactileStops
  \/ ObserveRaises
  \/ \E deviating \in SUBSET Joints : Tick(deviating)
  \/ NextJoint
  \/ Finish

Next ==
  \/ \E s \in [Joints -> Starts], t \in [Joints -> Targets], g \in Grips \X Grips,
        has \in BOOLEAN, w \in BOOLEAN, o \in Orders : Begin(s, t, g, has, w, o)
  \/ Refuse
  \/ Respond
  \/ MotionStep

Spec     == Init /\ [][Next]_vars
FairSpec == Spec /\ WF_vars(MotionStep)

-----------------------------------------------------------------------------
(* Properties.                                                             *)

Between(x, a, b) == (a <= x /\ x <= b) \/ (b <= x /\ x <= a)

\* No commanded arm position leaves the interval between the measured start
\* and the target of its joint: neither the last partial step, nor the snap
\* to the target, nor the order of the joints makes a joint overshoot.
StaysOnPath ==
  \A j \in Joints : Between(last.arm[j], start[j], target[j]) /\ Between(pos[j], start[j], target[j])

\* The motion is sequential and slow: between two consecutive actions at most
\* one joint moves by more than the tolerance, and by no more than one step
\* and the tolerance, although the snaps of joints that are done or skipped
\* are only sent with a later joint's action.  Between two tactile checks a
\* gripper that moves alone moves by at most one of its steps.
SlowStep ==
  pc = "loop" =>
    /\ \A j \in Joints : Abs(last'.arm[j] - last.arm[j]) <= Step + Eps
    /\ \A i, j \in Joints :
         Abs(last'.arm[i] - last.arm[i]) > Eps /\ Abs(last'.arm[j] - last.arm[j]) > Eps => i = j

\* Two successive gripper commands differ by frac steps of 1/total of the way;
\* a gripper that moves alone moves by at most gripper_close_step_per_tick.
GripStepwise(alone) == pc = "loop" /\ alone => (last'.frac - last.frac) * GripWay <= GripStep * total

SlowAndSequential == [][SlowStep /\ GripStepwise(gripOnly)]_vars

\* "motion_completed" is only answered when every arm joint has been commanded
\* to its target within the tolerance and a gripper that moved alone has been
\* commanded all the way.
CompletedMeansCommanded ==
  result = "motion_completed" =>
    /\ \A j \in Joints : Abs(last.arm[j] - target[j]) <= Eps
    /\ gripOnly => last.frac = total /\ total > 0

\* The motion is only aborted for its tracking error after three consecutive
\* readings off the path, of whichever joints were active meanwhile.
AbortNeedsThreeStrikes ==
  result = "tracking_error_exceeded" => strikes = 3

\* Every motion ends, whatever the sensor and the bus do.
MotionEnds == (pc = "setup") ~> (pc = "done")

-----------------------------------------------------------------------------
(* The inductive invariant of the proofs.                                  *)

\* Only a finished call has a reason, and a running one has at most two strikes.
ResultInv ==
  /\ pc # "done" => result = "none"
  /\ pc \in {"setup", "loop"} => badCount <= 2
  /\ badCount <= strikes
  /\ AbortNeedsThreeStrikes

\* While joints are counted nothing has moved; once the gripper moves alone,
\* the arm is at its target and total is what its way takes.
SetupInv ==
  /\ pc = "setup" =>
       /\ order \in Orders /\ ~gripOnly
       /\ pos = start /\ last = [arm |-> start, frac |-> 0] /\ gripSteps = 0
  /\ pc = "loop" => IF gripOnly THEN order = <<0>> ELSE order \in Orders
  /\ ~hasGrip => GripWay = 0
  /\ gripOnly =>
       /\ target = start /\ GripWay > 0
       /\ total > 0 /\ GripWay <= GripStep * total

\* The joints still to come have been sent as they are, a finished one is at
\* its target, and what was not sent is a snap within the tolerance.
SyncInv ==
  pc = "loop" =>
    /\ \A j \in Joints : Abs(last.arm[j] - pos[j]) <= Eps
    /\ \A i \in 1 .. Len(order) : i >= idx => last.arm[order[i]] = pos[order[i]]
    /\ \A i \in 1 .. Len(order) : i < idx => pos[order[i]] = target[order[i]]
    /\ hasGrip => last.frac = gripSteps
    /\ gripOnly /\ idx > 1 => gripSteps = total
    /\ gripSteps <= total

\* What the proofs carry from state to state.
MotionInv ==
  TypeOK /\ StaysOnPath /\ ResultInv /\ SetupInv /\ SyncInv /\ CompletedMeansCommanded
=============================================================================
