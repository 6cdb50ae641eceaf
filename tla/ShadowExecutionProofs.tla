------------------------ MODULE ShadowExecutionProofs ------------------------
(***************************************************************************)
(* Proofs about ShadowExecution, for all plans and trajectories: the       *)
(* invariant that ties a replay to the messages under way, and the safety  *)
(* properties it implies.                                                  *)
(***************************************************************************)
EXTENDS ShadowExecution, TLAPS

\* The plan of a verdict is a plan, or NotReady for no verdict.
LEMMA VerdictType ==
  ASSUME verdict \in Trajectories \cup {NotReady}
  PROVE  /\ Verdict \in Plans \cup {NotReady}
         /\ verdict # NotReady => Verdict = PlanOf[verdict] /\ Verdict # NotReady
BY ShadowAssumption DEF Verdict

\* Initially nothing was published and nothing is held.
LEMMA InitInv == Init => ShadowInv
<1> SUFFICES ASSUME Init PROVE ShadowInv
  OBVIOUS
<1>1. gate \in [valid : BOOLEAN, plan : Plans \cup {NotReady}, beat : BOOLEAN,
                traj : Trajectories \cup {NoTrajectory}, fresh : BOOLEAN, fits : BOOLEAN]
  BY DEF Init
<1>2. waiting \in SUBSET Topics
  BY DEF Init
<1>3. /\ verdict \in Trajectories \cup {NotReady} /\ status \in Plans \cup {NotReady}
      /\ cand \in Trajectories \cup {NoTrajectory} /\ active \in Plans \cup {NotReady}
  BY DEF Init
<1>4. rounds \in 0 .. 2
  BY DEF Init
<1>5. alive \in BOOLEAN /\ valid \in BOOLEAN /\ state = "IDLE"
  BY DEF Init
<1>6. TypeOK
  BY <1>1, <1>2, <1>3, <1>4, <1>5 DEF TypeOK
<1>7. HandledIsHeld /\ RunAgrees
  BY <1>5 DEF Init, HandledIsHeld, RunAgrees, Verdict
<1> QED BY <1>6, <1>7 DEF ShadowInv

\* What the gate hears touches neither the messages nor the executor.
LEMMA HearKeeps == ASSUME ShadowInv, Hear PROVE ShadowInv'
<1>1. gate' \in [valid : BOOLEAN, plan : Plans \cup {NotReady}, beat : BOOLEAN,
                 traj : Trajectories \cup {NoTrajectory}, fresh : BOOLEAN, fits : BOOLEAN]
  <2>1. gate \in [valid : BOOLEAN, plan : Plans \cup {NotReady}, beat : BOOLEAN,
                  traj : Trajectories \cup {NoTrajectory}, fresh : BOOLEAN, fits : BOOLEAN]
    BY DEF ShadowInv, TypeOK
  <2>2. CASE \E t \in Trajectories, b \in BOOLEAN : HearTrajectory(t, b)
    BY <2>1, <2>2 DEF HearTrajectory
  <2>3. CASE \E b \in BOOLEAN : HearValid(b) \/ HearJoints(b)
    BY <2>1, <2>3 DEF HearValid, HearJoints
  <2>4. CASE \E p \in Plans \cup {NotReady} : HearStatus(p)
    BY <2>1, <2>4 DEF HearStatus
  <2>5. CASE Ages
    BY <2>1, <2>5 DEF Ages
  <2> QED BY <2>2, <2>3, <2>4, <2>5 DEF Hear
<1> QED BY <1>1 DEF Hear, ShadowInv, TypeOK, HandledIsHeld, RunAgrees, Verdict, executor

\* A tick with nothing under way starts a round: until then the replay agreed
\* with the last verdict, so its second round finds the plan right.
LEMMA TickKeeps == ASSUME ShadowInv, GateTick PROVE ShadowInv'
<1>1. UNCHANGED <<gate, alive, valid, status, cand, state, active>>
  BY DEF GateTick, executor
<1>2. verdict' \in Trajectories \cup {NotReady}
  BY DEF GateTick, Ready, SamePlan, ShadowInv, TypeOK
<1>3. waiting' \in SUBSET Topics /\ "valid" \in waiting' /\ "status" \in waiting'
  BY DEF GateTick, Topics
<1>4. "candidate" \in waiting' => verdict' # NotReady
  BY ShadowAssumption DEF GateTick, Ready, SamePlan, Topics, ShadowInv, TypeOK
<1>5. verdict' # NotReady => "candidate" \in waiting'
  BY DEF GateTick, Topics
<1>6. rounds \in 0 .. 2 /\ rounds' \in 0 .. 2 /\ (rounds' = 2 => rounds > 0)
  BY DEF GateTick, ShadowInv, TypeOK
<1>7. TypeOK'
  BY <1>1, <1>2, <1>3, <1>6 DEF ShadowInv, TypeOK
<1>8. HandledIsHeld'
  BY <1>3, <1>4 DEF HandledIsHeld
<1>9. RunAgrees'
  <2>1. SUFFICES ASSUME state = "RUNNING"
                 PROVE  RunAgrees'
    BY <1>1 DEF RunAgrees
  <2>2. valid /\ status = active /\ active # NotReady
    BY <2>1 DEF ShadowInv, RunAgrees
  <2>3. verdict # NotReady /\ status = Verdict
    BY <2>2 DEF GateTick, ShadowInv, HandledIsHeld
  <2>4. rounds > 0 => verdict = cand
    BY <2>1, <2>3 DEF GateTick, ShadowInv, RunAgrees
  <2>5. rounds' = 2 => PlanOf[cand] = active
    BY <1>6, <2>2, <2>3, <2>4 DEF Verdict
  <2> QED BY <1>1, <1>5, <2>2, <2>5 DEF RunAgrees
<1> QED BY <1>7, <1>8, <1>9 DEF ShadowInv

\* The executor handles one message of the last tick.
LEMMA MessageKeeps ==
  ASSUME ShadowInv, ValidHeard \/ StatusHeard \/ CandidateHeard
  PROVE  ShadowInv'
<1>0. /\ verdict \in Trajectories \cup {NotReady} /\ cand \in Trajectories \cup {NoTrajectory}
      /\ waiting \in SUBSET Topics
  BY DEF ShadowInv, TypeOK
<1>1. CASE ValidHeard
  <2>1. waiting' = waiting \ {"valid"} /\ UNCHANGED <<gate, alive, verdict, active, rounds, status, cand>>
    BY <1>1 DEF ValidHeard, Handled
  <2>2. valid' = (verdict # NotReady) /\ state' = IF valid' THEN state ELSE Invalidated
    BY <1>1 DEF ValidHeard
  <2>3. valid' \in BOOLEAN /\ (state' = "RUNNING" => state = "RUNNING" /\ valid')
    BY <2>2 DEF Invalidated
  <2>4. TypeOK'
    BY <2>1, <2>2, <2>3 DEF ShadowInv, TypeOK, Invalidated
  <2>5. HandledIsHeld'
    BY <2>1, <2>2 DEF ShadowInv, HandledIsHeld, Verdict
  <2>6. RunAgrees'
    BY <2>1, <2>3 DEF ShadowInv, RunAgrees
  <2> QED BY <2>4, <2>5, <2>6 DEF ShadowInv
<1>2. CASE StatusHeard
  <2>1. waiting' = waiting \ {"status"} /\ UNCHANGED <<gate, alive, verdict, active, rounds, valid, cand>>
    BY <1>2 DEF StatusHeard, Handled
  <2>2. status' = Verdict /\ Verdict \in Plans \cup {NotReady}
    BY <1>0, <1>2, VerdictType DEF StatusHeard
  <2>3. state' = "RUNNING" => state = "RUNNING" /\ status' = active
    BY <1>2 DEF StatusHeard, Invalidated
  <2>4. TypeOK'
    <3>1. state' \in {"IDLE", "READY", "RUNNING", "COMPLETED", "CANCELLED", "INVALIDATED"}
      BY <1>2 DEF StatusHeard, Invalidated, ShadowInv, TypeOK
    <3>2. state' \in {"RUNNING", "COMPLETED", "INVALIDATED"}
            => state \in {"RUNNING", "COMPLETED", "INVALIDATED"}
      BY <1>2 DEF StatusHeard, Invalidated, ShadowInv, TypeOK
    <3> QED BY <2>1, <2>2, <3>1, <3>2 DEF ShadowInv, TypeOK
  <2>5. HandledIsHeld'
    BY <2>1, <2>2 DEF ShadowInv, HandledIsHeld, Verdict
  <2>6. RunAgrees'
    BY <2>1, <2>3 DEF ShadowInv, RunAgrees
  <2> QED BY <2>4, <2>5, <2>6 DEF ShadowInv
<1>3. CASE CandidateHeard
  <2>1. waiting' = waiting \ {"candidate"} /\ UNCHANGED <<gate, alive, verdict, active, rounds, valid, status>>
    BY <1>3 DEF CandidateHeard, Handled
  <2>2. verdict \in Trajectories
    BY <1>0, <1>3 DEF CandidateHeard, Handled, ShadowInv, HandledIsHeld
  <2>3. state' = "RUNNING" => state = "RUNNING" /\ verdict = cand /\ cand' = cand
    BY <1>3 DEF CandidateHeard, Invalidated
  <2>4. TypeOK'
    BY <1>3, <2>1, <2>2 DEF CandidateHeard, Invalidated, ShadowInv, TypeOK
  <2>5. HandledIsHeld'
    BY <2>1 DEF ShadowInv, HandledIsHeld, Verdict
  <2>6. RunAgrees'
    BY <2>1, <2>3 DEF ShadowInv, RunAgrees
  <2> QED BY <2>4, <2>5, <2>6 DEF ShadowInv
<1> QED BY <1>1, <1>2, <1>3

\* Start takes what is held; cancelling and finishing end a replay.
LEMMA ServiceKeeps ==
  ASSUME ShadowInv, Start \/ Cancel \/ Finish \/ GateDies
  PROVE  ShadowInv'
<1>1. CASE Start
  <2>1. UNCHANGED <<gate, alive, verdict, waiting, valid, status, cand>>
        /\ active' = status /\ state' = "RUNNING" /\ rounds' = 0
        /\ valid /\ status # NotReady /\ cand # NoTrajectory
    BY <1>1 DEF Start
  <2>2. TypeOK'
    BY <2>1 DEF ShadowInv, TypeOK
  <2>3. HandledIsHeld' /\ RunAgrees'
    BY <2>1 DEF ShadowInv, HandledIsHeld, RunAgrees, Verdict
  <2> QED BY <2>2, <2>3 DEF ShadowInv
<1>2. CASE Cancel
  BY <1>2 DEF Cancel, ShadowInv, TypeOK, HandledIsHeld, RunAgrees, Verdict
<1>3. CASE Finish
  <2>1. UNCHANGED <<gate, alive, verdict, waiting, valid, status, cand, active, rounds>>
        /\ state = "RUNNING" /\ state' = "COMPLETED"
    BY <1>3 DEF Finish
  <2>2. TypeOK'
    BY <2>1 DEF ShadowInv, TypeOK
  <2>3. HandledIsHeld' /\ RunAgrees'
    BY <2>1 DEF ShadowInv, HandledIsHeld, RunAgrees, Verdict
  <2> QED BY <2>2, <2>3 DEF ShadowInv
<1>4. CASE GateDies
  <2>1. UNCHANGED <<gate, verdict, waiting, valid, status, cand, state, active, rounds>>
        /\ alive' \in BOOLEAN
    BY <1>4 DEF GateDies, executor
  <2>2. TypeOK'
    BY <2>1 DEF ShadowInv, TypeOK
  <2>3. HandledIsHeld' /\ RunAgrees'
    BY <2>1 DEF ShadowInv, HandledIsHeld, RunAgrees, Verdict
  <2> QED BY <2>2, <2>3 DEF ShadowInv
<1> QED BY <1>1, <1>2, <1>3, <1>4

\* Every step keeps the invariant.
LEMMA StepKeeps == ShadowInv /\ [Next]_vars => ShadowInv'
<1>1. ASSUME ShadowInv, Next PROVE ShadowInv'
  BY <1>1, HearKeeps, TickKeeps, MessageKeeps, ServiceKeeps DEF Next
<1>2. ASSUME ShadowInv, UNCHANGED vars PROVE ShadowInv'
  BY <1>2 DEF vars, executor, ShadowInv, TypeOK, HandledIsHeld, RunAgrees, Verdict
<1> QED BY <1>1, <1>2

\* A replay, what the executor holds and what is under way always agree.
THEOREM ShadowInvariant == Spec => []ShadowInv
BY InitInv, StepKeeps, PTL DEF Spec

\* Type correctness of gate and executor.
THEOREM ShadowTypeCorrect == Spec => []TypeOK
<1>1. ShadowInv => TypeOK
  BY DEF ShadowInv
<1> QED BY <1>1, ShadowInvariant, PTL

\* A replay with nothing under way is approved: its plan by the last verdict,
\* its trajectory by the first verdict after the start and all later ones.
THEOREM RunIsApprovedHolds == Spec => []RunIsApproved
<1>1. ASSUME ShadowInv PROVE RunIsApproved
  BY <1>1 DEF ShadowInv, HandledIsHeld, RunAgrees, RunIsApproved, Verdict
<1> QED BY <1>1, ShadowInvariant, PTL

\* Leaving RUNNING for COMPLETED after two ticks is done with the plan that
\* is reported.
CompletesRight == state = "RUNNING" /\ state' = "COMPLETED" /\ rounds = 2 => PlanOf[cand] = active

\* A replay of two ticks completes a trajectory of the plan it reports.
THEOREM CompletesItsPlanHolds == Spec => CompletesItsPlan
<1>1. ShadowInv => [CompletesRight]_vars
  BY DEF ShadowInv, RunAgrees, CompletesRight
<1>2. Spec => [][CompletesRight]_vars
  BY <1>1, ShadowInvariant, PTL
<1> QED BY <1>2 DEF CompletesItsPlan, CompletesRight
=============================================================================
