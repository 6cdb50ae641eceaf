------------------------- MODULE MotionServerProofs -------------------------
(***************************************************************************)
(* Theorems about the two parts of the motion server that move the arm and *)
(* watch the gripper, and their proofs.  SequentialMotion: for every       *)
(* number of joints, speed and tolerance; MotionInv is inductive.          *)
(* TactileRuntime: for every number of frames and every age limit;         *)
(* TactileInv is inductive.                                                *)
(***************************************************************************)
EXTENDS SequentialMotion, TactileRuntime, TLAPS

-----------------------------------------------------------------------------
(* Arithmetic.                                                             *)

\* The rounded up quotient of a positive way is positive, and that many steps
\* cover the way.
LEMMA CeilDivCovers ==
  ASSUME NEW x \in Nat, NEW y \in Nat \ {0}
  PROVE  /\ CeilDiv(x, y) \in Nat
         /\ x > 0 => CeilDiv(x, y) > 0
         /\ x <= y * CeilDiv(x, y)
<1> DEFINE n == x + y - 1
<1>1. n \in Nat /\ n >= y - 1 /\ (x > 0 => n >= y)
  OBVIOUS
<1>2. n \div y \in Int /\ n % y \in 0 .. y - 1 /\ n = y * (n \div y) + (n % y)
  BY <1>1, SMTT(30)
<1>3. x <= y * (n \div y)
  BY <1>2
<1>4. n \div y >= 0
  BY <1>1, <1>2, SMTT(30)
<1>5. x > 0 => n \div y # 0
  BY <1>3
<1> QED BY <1>2, <1>3, <1>4, <1>5 DEF CeilDiv

\* Advance moves towards the target, by at most a step and the tolerance.
LEMMA AdvanceMoves ==
  ASSUME NEW p \in Int, NEW t \in Int
  PROVE  /\ Advance(p, t) \in Int
         /\ Between(Advance(p, t), p, t)
         /\ Abs(Advance(p, t) - p) <= Step + Eps
  BY SizeAssumption DEF Advance, Between, Abs, Least

\* The ticks of a joint are a natural number.
LEMMA JointStepsNat ==
  ASSUME NEW x \in Int, NEW y \in Int
  PROVE  JointSteps(x, y) \in Nat
<1>1. Abs(y - x) \in Nat
  BY DEF Abs
<1>2. CeilDiv(Abs(y - x), Step) \in Nat
  BY <1>1, CeilDivCovers, SizeAssumption
<1> QED BY <1>2 DEF JointSteps

-----------------------------------------------------------------------------
(* Requests.                                                               *)

\* MotionInv holds initially.
LEMMA InitInv == Init => MotionInv
<1> SUFFICES ASSUME Init PROVE MotionInv
  OBVIOUS
<1>1. TypeOK
  <2>1. start \in [Joints -> Int] /\ target \in [Joints -> Int] /\ pos \in [Joints -> Int]
    BY DEF Init
  <2>2. last \in [arm : [Joints -> Int], frac : Nat]
    BY <2>1 DEF Init
  <2>3. grip \in Nat \X Nat /\ order \in Seq(Joints)
    BY DEF Init
  <2>4. /\ pc \in {"idle", "setup", "loop", "done"} /\ result \in Results
        /\ hasGrip \in BOOLEAN /\ watch \in BOOLEAN /\ gripOnly \in BOOLEAN
    BY DEF Init, Results
  <2>5. /\ idx \in Nat \ {0} /\ gripSteps \in Nat /\ total \in Nat
        /\ badCount \in 0 .. 3 /\ strikes \in 0 .. 3
    BY DEF Init
  <2> QED BY <2>1, <2>2, <2>3, <2>4, <2>5 DEF TypeOK
<1>2. StaysOnPath
  BY <1>1 DEF Init, StaysOnPath, Between, TypeOK
<1>3. ResultInv /\ SetupInv /\ SyncInv /\ CompletedMeansCommanded
  BY DEF Init, ResultInv, SetupInv, SyncInv, CompletedMeansCommanded, AbortNeedsThreeStrikes, GripWay, Abs
<1> QED BY <1>1, <1>2, <1>3 DEF MotionInv

\* An order visits joints only, N of them.
LEMMA OrderTyped ==
  ASSUME NEW o \in Orders
  PROVE  o \in Seq(Joints) /\ Len(o) = N
<1>1. o \in [1 .. N -> Joints] /\ N \in Nat
  BY SizeAssumption DEF Orders
<1> QED BY <1>1

\* A new call starts with nothing moved.
LEMMA BeginInv ==
  ASSUME MotionInv,
         NEW s \in [Joints -> Starts], NEW t \in [Joints -> Targets], NEW g \in Grips \X Grips,
         NEW has \in BOOLEAN, NEW w \in BOOLEAN, NEW o \in Orders,
         Begin(s, t, g, has, w, o)
  PROVE  MotionInv'
<1>1. s \in [Joints -> Int] /\ t \in [Joints -> Int] /\ g \in Nat \X Nat
  BY InputAssumption
<1>2. TypeOK'
  <2>1. o \in Seq(Joints)
    BY OrderTyped
  <2>2. last' \in [arm : [Joints -> Int], frac : Nat]
    BY <1>1 DEF Begin
  <2>3. result' \in Results
    BY DEF MotionInv, TypeOK, Begin
  <2>4. /\ pc' \in {"idle", "setup", "loop", "done"}
        /\ hasGrip' \in BOOLEAN /\ watch' \in BOOLEAN /\ gripOnly' \in BOOLEAN
    BY DEF Begin
  <2>5. /\ idx' \in Nat \ {0} /\ gripSteps' \in Nat /\ total' \in Nat
        /\ badCount' \in 0 .. 3 /\ strikes' \in 0 .. 3
    BY DEF Begin
  <2>6. /\ start' \in [Joints -> Int] /\ target' \in [Joints -> Int] /\ pos' \in [Joints -> Int]
        /\ grip' \in Nat \X Nat /\ order' \in Seq(Joints)
    BY <1>1, <2>1 DEF Begin
  <2> QED BY <2>2, <2>3, <2>4, <2>5, <2>6 DEF TypeOK
<1>3. StaysOnPath'
  BY <1>1 DEF Begin, StaysOnPath, Between
<1>4. ResultInv'
  BY DEF MotionInv, ResultInv, Begin, AbortNeedsThreeStrikes
<1>5. SetupInv'
  <2>1. ~has => Abs(g[2] - g[1]) = 0
    BY <1>1 DEF Begin, Abs
  <2> QED BY <2>1 DEF Begin, SetupInv, GripWay
<1>6. SyncInv' /\ CompletedMeansCommanded'
  BY DEF MotionInv, ResultInv, Begin, SyncInv, CompletedMeansCommanded
<1> QED BY <1>2, <1>3, <1>4, <1>5, <1>6 DEF MotionInv

\* Refusing a request and answering one move nothing.
LEMMA EndsInv == ASSUME MotionInv, Refuse \/ Respond PROVE MotionInv'
<1>1. TypeOK'
  BY DEF MotionInv, TypeOK, Refuse, Respond, inputs, Results
<1>2. StaysOnPath'
  BY DEF MotionInv, StaysOnPath, Refuse, Respond, inputs
<1>3. ResultInv'
  BY DEF MotionInv, ResultInv, Refuse, Respond, AbortNeedsThreeStrikes, TypeOK
<1>4. SetupInv'
  BY DEF MotionInv, SetupInv, Refuse, Respond, inputs, GripWay
<1>5. SyncInv' /\ CompletedMeansCommanded'
  BY DEF SyncInv, CompletedMeansCommanded, Refuse, Respond
<1> QED BY <1>1, <1>2, <1>3, <1>4, <1>5 DEF MotionInv

-----------------------------------------------------------------------------
(* The setup of the loop.                                                  *)

\* Counting a joint changes only the total.
LEMMA CountJointInv == ASSUME MotionInv, CountJoint PROVE MotionInv'
<1>1. Active \in Joints
  BY DEF MotionInv, TypeOK, CountJoint, InOrder, Active
<1>2. JointSteps(start[Active], target[Active]) \in Nat
  BY <1>1, JointStepsNat DEF MotionInv, TypeOK
<1>3. TypeOK'
  BY <1>2 DEF MotionInv, TypeOK, CountJoint, inputs
<1>4. StaysOnPath'
  BY DEF MotionInv, StaysOnPath, CountJoint, inputs
<1>5. ResultInv'
  BY DEF MotionInv, ResultInv, CountJoint, AbortNeedsThreeStrikes
<1>6. SetupInv'
  BY DEF MotionInv, SetupInv, CountJoint, inputs, GripWay
<1>7. SyncInv' /\ CompletedMeansCommanded'
  BY DEF MotionInv, ResultInv, SyncInv, CompletedMeansCommanded, CountJoint
<1> QED BY <1>3, <1>4, <1>5, <1>6, <1>7 DEF MotionInv

\* The loop starts in step with what the arm was measured at.
LEMMA StartLoopInv == ASSUME MotionInv, StartLoop PROVE MotionInv'
<1>1. TypeOK /\ SetupInv /\ order \in Orders /\ GripWay \in Nat
  <2>1. grip[1] \in Nat /\ grip[2] \in Nat
    BY DEF MotionInv, TypeOK
  <2> QED BY <2>1 DEF MotionInv, SetupInv, StartLoop, GripWay, Abs
<1>2. GripStep \in Nat \ {0} /\ 0 \in Joints
  BY SizeAssumption DEF Joints
<1>3. /\ CeilDiv(GripWay, GripStep) \in Nat
      /\ GripWay > 0 => CeilDiv(GripWay, GripStep) > 0
      /\ GripWay <= GripStep * CeilDiv(GripWay, GripStep)
  BY <1>1, <1>2, CeilDivCovers
<1>4. order' \in Seq(Joints) /\ total' \in Nat
  <2>1. <<0>> \in Seq(Joints)
    BY <1>2
  <2> QED BY <1>1, <1>3, <2>1 DEF StartLoop, TypeOK
<1>5. TypeOK'
  BY <1>1, <1>4 DEF TypeOK, StartLoop, inputs
<1>6. StaysOnPath'
  BY DEF MotionInv, StaysOnPath, StartLoop, inputs
<1>7. ResultInv'
  BY DEF MotionInv, ResultInv, StartLoop, AbortNeedsThreeStrikes
<1>8. SetupInv'
  <2>1. GripWay' = GripWay
    BY DEF StartLoop, inputs, GripWay
  <2>2. CASE gripOnly'
    BY <1>1, <1>3, <2>1, <2>2 DEF SetupInv, StartLoop, inputs
  <2>3. CASE ~gripOnly'
    BY <1>1, <2>1, <2>3 DEF SetupInv, StartLoop, inputs
  <2> QED BY <2>2, <2>3
<1>9. SyncInv'
  <2>1. pos' = start /\ last' = [arm |-> start, frac |-> 0] /\ gripSteps' = 0 /\ idx' = 1
    BY <1>1 DEF SetupInv, StartLoop
  <2>2. \A j \in Joints : Abs(last'.arm[j] - pos'[j]) <= Eps
    BY <1>1, <2>1, SizeAssumption DEF TypeOK, Abs
  <2> QED BY <1>4, <2>1, <2>2 DEF SyncInv
<1>10. CompletedMeansCommanded'
  BY DEF MotionInv, ResultInv, StartLoop, CompletedMeansCommanded
<1> QED BY <1>5, <1>6, <1>7, <1>8, <1>9, <1>10 DEF MotionInv

-----------------------------------------------------------------------------
(* The loop.                                                               *)

\* The active joint is one, and its place in order is idx.
LEMMA ActiveJoint ==
  ASSUME MotionInv, pc = "loop", InOrder
  PROVE  idx \in 1 .. Len(order) /\ Active = order[idx] /\ Active \in Joints
  BY DEF MotionInv, TypeOK, InOrder, Active

\* No joint comes twice in order.
LEMMA OrderOnce ==
  ASSUME MotionInv, pc = "loop",
         NEW i \in 1 .. Len(order), NEW k \in 1 .. Len(order), order[i] = order[k]
  PROVE  i = k
<1>1. CASE gripOnly
  <2>1. order = <<0>>
    BY <1>1 DEF MotionInv, SetupInv
  <2>2. Len(order) = 1
    BY <2>1
  <2> QED BY <2>2
<1>2. CASE ~gripOnly
  <2>1. order \in Orders
    BY <1>2 DEF MotionInv, SetupInv
  <2>2. Len(order) = N
    BY <2>1, OrderTyped
  <2> QED BY <2>1, <2>2 DEF Orders
<1> QED BY <1>1, <1>2

\* The command of a tick moves the active joint along its path.
LEMMA CommandMoves ==
  ASSUME MotionInv, InLoop
  PROVE  /\ Command.arm \in [Joints -> Int]
         /\ Command.frac \in Nat
         /\ \A j \in Joints : j # Active => Command.arm[j] = pos[j]
         /\ Command.arm[Active] = Advance(pos[Active], target[Active])
         /\ NextGripStep \in Nat /\ NextGripStep <= total /\ NextGripStep <= gripSteps + 1
<1>1. Active \in Joints
  BY ActiveJoint DEF InLoop
<1>2. pos \in [Joints -> Int] /\ target \in [Joints -> Int] /\ gripSteps \in Nat /\ total \in Nat /\ last.frac \in Nat
  BY DEF MotionInv, TypeOK
<1>3. Advance(pos[Active], target[Active]) \in Int
  BY <1>1, <1>2, AdvanceMoves
<1>4. NextGripStep \in Nat /\ NextGripStep <= total /\ NextGripStep <= gripSteps + 1
  BY <1>2 DEF NextGripStep, Least
<1>5. Command.arm = [pos EXCEPT ![Active] = Advance(pos[Active], target[Active])]
  BY DEF Command
<1>6. Command.frac \in Nat
  BY <1>2, <1>4 DEF Command
<1> QED BY <1>1, <1>2, <1>3, <1>4, <1>5, <1>6

\* What every tick that sends an action preserves, whether it stops or not.
LEMMA SendInv ==
  ASSUME MotionInv, InLoop, SendAction, UNCHANGED <<inputs, order, idx, total, gripOnly>>
  PROVE  /\ pos' \in [Joints -> Int] /\ gripSteps' \in Nat
         /\ last' \in [arm : [Joints -> Int], frac : Nat]
         /\ StaysOnPath'
         /\ pc' # "setup" => SetupInv'
         /\ SyncInv'
<1> DEFINE a == Active
<1>1. a \in Joints /\ idx \in 1 .. Len(order) /\ a = order[idx] /\ pc = "loop"
  BY ActiveJoint DEF InLoop
<1>2. /\ Command.arm \in [Joints -> Int]
      /\ Command.frac \in Nat
      /\ \A j \in Joints : j # a => Command.arm[j] = pos[j]
      /\ Command.arm[a] = Advance(pos[a], target[a])
      /\ NextGripStep \in Nat /\ NextGripStep <= total /\ NextGripStep <= gripSteps + 1
  BY CommandMoves
<1>3. pos' = Command.arm /\ last'.arm = Command.arm /\ last'.frac = Command.frac /\ gripSteps' = NextGripStep
  BY DEF SendAction
<1>4. last' \in [arm : [Joints -> Int], frac : Nat]
  <2>1. last' = [arm |-> Command.arm, frac |-> Command.frac]
    BY DEF SendAction, Command
  <2> QED BY <1>2, <2>1
<1>5. StaysOnPath'
  <2>1. \A j \in Joints : Between(Command.arm[j], start[j], target[j])
    <3> TAKE j \in Joints
    <3>1. start[j] \in Int /\ target[j] \in Int /\ pos[j] \in Int /\ Between(pos[j], start[j], target[j])
      BY DEF MotionInv, TypeOK, StaysOnPath
    <3>2. CASE j # a
      BY <1>2, <3>1, <3>2
    <3>3. CASE j = a
      <4>1. Advance(pos[j], target[j]) \in Int /\ Between(Advance(pos[j], target[j]), pos[j], target[j])
        BY <3>1, AdvanceMoves
      <4> QED BY <1>2, <3>1, <3>3, <4>1 DEF Between
    <3> QED BY <3>2, <3>3
  <2>2. start' = start /\ target' = target
    BY DEF inputs
  <2> QED BY <1>3, <2>1, <2>2 DEF StaysOnPath
<1>6. ASSUME pc' # "setup" PROVE SetupInv'
  <2>1. GripWay' = GripWay /\ hasGrip' = hasGrip /\ target' = target /\ start' = start /\ order' = order
    BY DEF inputs, GripWay
  <2> QED BY <1>1, <1>6, <2>1 DEF MotionInv, SetupInv
<1>7. SyncInv'
  <2> DEFINE n == Len(order)
  <2>1. \A j \in Joints : Abs(last'.arm[j] - pos'[j]) <= Eps
    BY <1>2, <1>3, SizeAssumption DEF Abs
  <2>2. \A i \in 1 .. n : last'.arm[order[i]] = pos'[order[i]]
    BY <1>3
  <2>3. ASSUME NEW i \in 1 .. n, i < idx PROVE pos'[order[i]] = target[order[i]]
    <3>1. order[i] # a
      BY <1>1, <2>3, OrderOnce
    <3>2. order[i] \in Joints
      BY DEF MotionInv, TypeOK
    <3>3. pos[order[i]] = target[order[i]]
      BY <1>1, <2>3 DEF MotionInv, SyncInv
    <3> QED BY <1>2, <1>3, <3>1, <3>2, <3>3
  <2>4. hasGrip => last'.frac = gripSteps'
    BY <1>3 DEF Command
  <2>5. gripSteps' <= total'
    BY <1>2, <1>3
  <2>6. ASSUME gripOnly, idx > 1 PROVE FALSE
    <3>1. order = <<0>>
      BY <1>1, <2>6 DEF MotionInv, SetupInv
    <3> QED BY <1>1, <2>6, <3>1
  <2>7. order' = order /\ idx' = idx /\ target' = target /\ hasGrip' = hasGrip /\ gripOnly' = gripOnly
    BY DEF inputs
  <2> QED BY <2>1, <2>2, <2>3, <2>4, <2>5, <2>6, <2>7 DEF SyncInv
<1> QED BY <1>2, <1>3, <1>4, <1>5, <1>6, <1>7

\* A call that ends without "motion_completed" keeps what the reasons promise.
LEMMA StopReasons ==
  ASSUME MotionInv, pc = "loop",
         NEW r \in Results \ {"none", "motion_completed", "tracking_error_exceeded"}, Stop(r),
         UNCHANGED <<badCount, strikes>>
  PROVE  result' \in Results /\ pc' = "done" /\ ResultInv' /\ CompletedMeansCommanded'
  BY DEF MotionInv, ResultInv, AbortNeedsThreeStrikes, CompletedMeansCommanded, Stop

\* A tick that ends the call after its action preserves MotionInv.
LEMMA StopAfterSendInv == ASSUME MotionInv, TactileStops \/ ObserveRaises PROVE MotionInv'
<1>1. /\ InLoop /\ pc = "loop" /\ SendAction
      /\ UNCHANGED <<inputs, order, idx, total, gripOnly>> /\ UNCHANGED <<badCount, strikes>>
  BY DEF TactileStops, ObserveRaises, InLoop
<1>2. PICK r \in {"tactile_unavailable", "tactile_contact_stop", "exception"} : Stop(r)
  BY DEF TactileStops, ObserveRaises
<1>3. result' \in Results /\ pc' = "done" /\ ResultInv' /\ CompletedMeansCommanded'
  <2>1. r \in Results \ {"none", "motion_completed", "tracking_error_exceeded"}
    BY DEF Results
  <2> QED BY <1>1, <1>2, <2>1, StopReasons
<1>4. /\ pos' \in [Joints -> Int] /\ gripSteps' \in Nat
      /\ last' \in [arm : [Joints -> Int], frac : Nat]
      /\ StaysOnPath' /\ SetupInv' /\ SyncInv'
  BY <1>1, <1>3, SendInv
<1>5. TypeOK'
  BY <1>1, <1>3, <1>4 DEF MotionInv, TypeOK, inputs
<1> QED BY <1>3, <1>4, <1>5 DEF MotionInv

\* So does the exception before the action.
LEMMA SendRaisesInv == ASSUME MotionInv, SendRaises PROVE MotionInv'
<1>1. pc = "loop" /\ Stop("exception")
  BY DEF SendRaises, InLoop
<1>2. result' \in Results /\ pc' = "done" /\ ResultInv' /\ CompletedMeansCommanded'
  <2>1. "exception" \in Results \ {"none", "motion_completed", "tracking_error_exceeded"}
    BY DEF Results
  <2>2. UNCHANGED <<badCount, strikes>>
    BY DEF SendRaises
  <2> QED BY <1>1, <2>1, <2>2, StopReasons
<1>3. TypeOK'
  BY <1>2 DEF MotionInv, TypeOK, SendRaises, inputs
<1>4. StaysOnPath'
  BY DEF MotionInv, StaysOnPath, SendRaises, inputs
<1>5. SetupInv'
  BY <1>1, <1>2 DEF MotionInv, SetupInv, SendRaises, inputs, GripWay
<1>6. SyncInv'
  BY <1>2 DEF SyncInv
<1> QED BY <1>2, <1>3, <1>4, <1>5, <1>6 DEF MotionInv

\* A tick with its tracking check counts a strike at most where the history
\* counts one.
LEMMA TickInv ==
  ASSUME MotionInv, NEW deviating \in SUBSET Joints, Tick(deviating)
  PROVE  MotionInv'
<1>1. /\ InLoop /\ pc = "loop" /\ SendAction
      /\ UNCHANGED <<inputs, order, idx, total, gripOnly>>
  BY DEF Tick, InLoop
<1>2. badCount \in 0 .. 2 /\ strikes \in 0 .. 3 /\ badCount <= strikes /\ result = "none"
  BY <1>1 DEF MotionInv, TypeOK, ResultInv
<1>3. badCount' \in 0 .. 3 /\ strikes' \in 0 .. 3 /\ badCount' <= strikes'
  <2>1. CASE deviating = {}
    <3>1. badCount' = 0 /\ strikes' = 0
      BY <2>1 DEF Tick, CountBad, RecordStrike
    <3> QED BY <1>2, <2>1, <3>1 DEF Tick, RecordStrike
  <2>2. CASE deviating # {}
    <3>1. strikes' = Least(strikes + 1, 3) /\ (badCount' = badCount + 1 \/ badCount' = 0)
      BY <2>2 DEF Tick, CountBad, RecordStrike
    <3> QED BY <1>2, <3>1 DEF Least
  <2> QED BY <2>1, <2>2
<1>4. /\ pc' \in {"loop", "done"}
      /\ pc' = "loop" => result' = "none" /\ badCount' <= 2
      /\ result' \in {"none", "tracking_error_exceeded"}
      /\ result' = "tracking_error_exceeded" => badCount' >= 3
  BY <1>1, <1>2, <1>3 DEF Tick, Stop
<1>5. ResultInv'
  BY <1>3, <1>4 DEF ResultInv, AbortNeedsThreeStrikes
<1>6. /\ pos' \in [Joints -> Int] /\ gripSteps' \in Nat
      /\ last' \in [arm : [Joints -> Int], frac : Nat]
      /\ StaysOnPath' /\ SetupInv' /\ SyncInv'
  BY <1>1, <1>4, SendInv
<1>7. TypeOK'
  BY <1>1, <1>3, <1>4, <1>6 DEF MotionInv, TypeOK, inputs, Results
<1>8. CompletedMeansCommanded'
  BY <1>4 DEF CompletedMeansCommanded
<1> QED BY <1>5, <1>6, <1>7, <1>8 DEF MotionInv

\* The snap of a finished joint stays within the tolerance of what was sent.
LEMMA NextJointInv == ASSUME MotionInv, NextJoint PROVE MotionInv'
<1> DEFINE a == Active
           n == Len(order)
<1>1. a \in Joints /\ idx \in 1 .. n /\ a = order[idx] /\ pc = "loop" /\ pc' = "loop"
  BY ActiveJoint DEF NextJoint
<1>2. /\ pos \in [Joints -> Int] /\ target \in [Joints -> Int] /\ start \in [Joints -> Int]
      /\ gripSteps \in Nat /\ total \in Nat /\ last.arm \in [Joints -> Int]
  BY DEF MotionInv, TypeOK
<1>3. /\ pos' = [pos EXCEPT ![a] = target[a]] /\ idx' = idx + 1
      /\ Abs(pos[a] - target[a]) <= Eps
      /\ gripOnly /\ GripWay > 0 => gripSteps >= total
  <2>1. /\ ~(Abs(pos[a] - target[a]) > Eps)
        /\ ~(gripOnly /\ GripWay > 0 /\ gripSteps < total)
    BY DEF NextJoint, MoreToDo
  <2>2. Abs(pos[a] - target[a]) \in Int
    BY <1>1, <1>2 DEF Abs
  <2> QED BY <1>2, <2>1, <2>2, SizeAssumption DEF NextJoint
<1>4. TypeOK'
  <2>1. pos' \in [Joints -> Int] /\ idx' \in Nat \ {0}
    BY <1>1, <1>2, <1>3
  <2> QED BY <2>1 DEF MotionInv, TypeOK, NextJoint, inputs
<1>5. StaysOnPath'
  <2>1. \A j \in Joints : pos'[j] = pos[j] \/ pos'[j] = target[j]
    BY <1>1, <1>2, <1>3
  <2>2. \A j \in Joints : Between(target[j], start[j], target[j])
    BY <1>2 DEF Between
  <2> QED BY <2>1, <2>2 DEF MotionInv, StaysOnPath, NextJoint, inputs
<1>6. ResultInv' /\ CompletedMeansCommanded'
  BY <1>1 DEF MotionInv, ResultInv, AbortNeedsThreeStrikes, CompletedMeansCommanded, NextJoint
<1>7. SetupInv'
  BY <1>1 DEF MotionInv, SetupInv, NextJoint, inputs, GripWay
<1>8. SyncInv'
  <2>1. \A j \in Joints : Abs(last.arm[j] - pos'[j]) <= Eps
    <3> TAKE j \in Joints
    <3>1. CASE j # a
      BY <1>1, <1>2, <1>3, <3>1 DEF MotionInv, SyncInv
    <3>2. CASE j = a
      <4>1. last.arm[a] = pos[a]
        BY <1>1 DEF MotionInv, SyncInv
      <4> QED BY <1>2, <1>3, <3>2, <4>1
    <3> QED BY <3>1, <3>2
  <2>2. ASSUME NEW i \in 1 .. n, i >= idx' PROVE last.arm[order[i]] = pos'[order[i]]
    <3>1. order[i] # a /\ order[i] \in Joints /\ i >= idx
      <4>1. i # idx /\ i >= idx
        BY <1>1, <1>3, <2>2
      <4>2. order[i] # order[idx]
        BY <1>1, <4>1, OrderOnce
      <4> QED BY <1>1, <4>1, <4>2 DEF MotionInv, TypeOK
    <3>2. last.arm[order[i]] = pos[order[i]]
      BY <1>1, <3>1 DEF MotionInv, SyncInv
    <3> QED BY <1>2, <1>3, <3>1, <3>2
  <2>3. ASSUME NEW i \in 1 .. n, i < idx' PROVE pos'[order[i]] = target[order[i]]
    <3>1. order[i] \in Joints
      BY DEF MotionInv, TypeOK
    <3>2. CASE i = idx
      BY <1>1, <1>2, <1>3, <3>2
    <3>3. CASE i < idx
      <4>1. pos[order[i]] = target[order[i]]
        BY <1>1, <3>3 DEF MotionInv, SyncInv
      <4> QED BY <1>2, <1>3, <3>1, <4>1
    <3> QED BY <1>1, <1>3, <2>3, <3>2, <3>3
  <2>4. gripOnly => gripSteps = total
    BY <1>1, <1>2, <1>3 DEF MotionInv, SetupInv, SyncInv
  <2>5. gripSteps <= total /\ (hasGrip => last.frac = gripSteps)
    BY <1>1 DEF MotionInv, SyncInv
  <2>6. UNCHANGED <<last, order, target, hasGrip, gripOnly, gripSteps, total>>
    BY DEF NextJoint, inputs
  <2> QED BY <2>1, <2>2, <2>3, <2>4, <2>5, <2>6 DEF SyncInv
<1> QED BY <1>4, <1>5, <1>6, <1>7, <1>8 DEF MotionInv

\* When the loop is over every joint has been sent to its target.
LEMMA FinishInv == ASSUME MotionInv, Finish PROVE MotionInv'
<1>1. /\ pc = "loop" /\ idx > Len(order) /\ pc' = "done"
      /\ UNCHANGED <<inputs, order, idx, pos, gripSteps, total, gripOnly, badCount, strikes, last>>
  BY DEF Finish, InOrder, MotionInv, TypeOK, Stop
<1>2. result' \in {"motion_completed", "state_error", "exception"}
  BY DEF Finish, Stop
<1>3. TypeOK'
  BY <1>1, <1>2 DEF MotionInv, TypeOK, inputs, Results
<1>4. StaysOnPath' /\ SetupInv' /\ SyncInv'
  BY <1>1 DEF MotionInv, StaysOnPath, SetupInv, SyncInv, inputs, GripWay
<1>5. ResultInv'
  BY <1>1, <1>2 DEF MotionInv, ResultInv, AbortNeedsThreeStrikes
<1>6. ASSUME NEW j \in Joints PROVE Abs(last.arm[j] - target[j]) <= Eps
  <2>1. CASE gripOnly
    <3>1. target[j] = start[j] /\ Between(last.arm[j], start[j], target[j])
      BY <2>1 DEF MotionInv, SetupInv, StaysOnPath
    <3>2. last.arm[j] \in Int /\ target[j] \in Int
      BY DEF MotionInv, TypeOK
    <3> QED BY <3>1, <3>2, SizeAssumption DEF Between, Abs
  <2>2. CASE ~gripOnly
    <3>1. order \in Orders
      BY <1>1, <2>2 DEF MotionInv, SetupInv
    <3>2. PICK i \in 1 .. N : order[i] = j
      BY <3>1 DEF Orders
    <3>3. i \in 1 .. Len(order) /\ i < idx
      BY <1>1, <3>1, <3>2, OrderTyped, SizeAssumption DEF MotionInv, TypeOK
    <3>4. pos[j] = target[j] /\ Abs(last.arm[j] - pos[j]) <= Eps
      BY <1>1, <3>2, <3>3 DEF MotionInv, SyncInv
    <3> QED BY <3>4
  <2> QED BY <2>1, <2>2
<1>7. ASSUME gripOnly PROVE last.frac = total /\ total > 0
  <2>1. order = <<0>> /\ total > 0 /\ GripWay > 0
    BY <1>1, <1>7 DEF MotionInv, SetupInv
  <2>2. hasGrip
    BY <2>1 DEF MotionInv, SetupInv
  <2>3. idx > 1
    BY <1>1, <2>1 DEF MotionInv, TypeOK
  <2> QED BY <1>1, <1>7, <2>1, <2>2, <2>3 DEF MotionInv, SyncInv
<1>8. CompletedMeansCommanded'
  BY <1>1, <1>6, <1>7 DEF CompletedMeansCommanded, inputs
<1> QED BY <1>3, <1>4, <1>5, <1>8 DEF MotionInv

\* A stuttering step preserves everything.
LEMMA StutterInv == ASSUME MotionInv, UNCHANGED vars PROVE MotionInv'
<1>1. UNCHANGED <<pc, result, inputs, order, idx, pos, gripSteps, total, gripOnly, badCount, strikes, last>>
  BY DEF vars
<1>2. TypeOK'
  BY <1>1 DEF MotionInv, TypeOK, inputs
<1>3. StaysOnPath' /\ SetupInv' /\ SyncInv'
  BY <1>1 DEF MotionInv, StaysOnPath, SetupInv, SyncInv, inputs, GripWay
<1>4. ResultInv' /\ CompletedMeansCommanded'
  BY <1>1 DEF MotionInv, ResultInv, AbortNeedsThreeStrikes, CompletedMeansCommanded, inputs
<1> QED BY <1>2, <1>3, <1>4 DEF MotionInv

-----------------------------------------------------------------------------
(* The theorems.                                                           *)

\* MotionInv holds in every state of every motion.
THEOREM MotionInvariant == Spec => []MotionInv
<1>1. Init => MotionInv
  BY InitInv
<1>2. MotionInv /\ [Next]_vars => MotionInv'
  <2> SUFFICES ASSUME MotionInv, [Next]_vars PROVE MotionInv'
    OBVIOUS
  <2>1. ASSUME NEW s \in [Joints -> Starts], NEW t \in [Joints -> Targets], NEW g \in Grips \X Grips,
               NEW has \in BOOLEAN, NEW w \in BOOLEAN, NEW o \in Orders, Begin(s, t, g, has, w, o)
        PROVE  MotionInv'
    BY <2>1, BeginInv
  <2>2. CASE Refuse \/ Respond
    BY <2>2, EndsInv
  <2>3. CASE CountJoint
    BY <2>3, CountJointInv
  <2>4. CASE StartLoop
    BY <2>4, StartLoopInv
  <2>5. CASE SendRaises
    BY <2>5, SendRaisesInv
  <2>6. CASE TactileStops \/ ObserveRaises
    BY <2>6, StopAfterSendInv
  <2>7. ASSUME NEW deviating \in SUBSET Joints, Tick(deviating) PROVE MotionInv'
    BY <2>7, TickInv
  <2>8. CASE NextJoint
    BY <2>8, NextJointInv
  <2>9. CASE Finish
    BY <2>9, FinishInv
  <2>10. CASE UNCHANGED vars
    BY <2>10, StutterInv
  <2> QED BY <2>1, <2>2, <2>3, <2>4, <2>5, <2>6, <2>7, <2>8, <2>9, <2>10 DEF Next, MotionStep
<1> QED BY <1>1, <1>2, PTL DEF Spec

\* Every variable keeps its type.
THEOREM MotionTypeCorrect == Spec => []TypeOK
<1>1. MotionInv => TypeOK
  BY DEF MotionInv
<1> QED BY <1>1, MotionInvariant, PTL

\* No joint is ever commanded outside the way from its start to its target.
THEOREM StaysOnPathHolds == Spec => []StaysOnPath
<1>1. MotionInv => StaysOnPath
  BY DEF MotionInv
<1> QED BY <1>1, MotionInvariant, PTL

\* A completed motion has commanded every joint and a lone gripper all the way.
THEOREM CompletedMeansCommandedHolds == Spec => []CompletedMeansCommanded
<1>1. MotionInv => CompletedMeansCommanded
  BY DEF MotionInv
<1> QED BY <1>1, MotionInvariant, PTL

\* A tracking abort comes after three consecutive deviating ticks.
THEOREM AbortNeedsThreeStrikesHolds == Spec => []AbortNeedsThreeStrikes
<1>1. MotionInv => AbortNeedsThreeStrikes
  BY DEF MotionInv, ResultInv
<1> QED BY <1>1, MotionInvariant, PTL

-----------------------------------------------------------------------------
(* What a step may never do.                                               *)

\* A step of the loop sends an action or leaves the last one as it is.
LEMMA LoopSteps ==
  ASSUME MotionInv, [Next]_vars, pc = "loop"
  PROVE  \/ InLoop /\ SendAction
         \/ last' = last
<1> SUFFICES ASSUME Next PROVE (InLoop /\ SendAction) \/ last' = last
  BY DEF vars
<1>1. CASE TactileStops \/ ObserveRaises \/ \E deviating \in SUBSET Joints : Tick(deviating)
  BY <1>1 DEF TactileStops, ObserveRaises, Tick
<1>2. CASE SendRaises \/ NextJoint \/ Finish \/ CountJoint \/ StartLoop \/ Refuse \/ Respond
  BY <1>2 DEF SendRaises, NextJoint, Finish, CountJoint, StartLoop, Refuse, Respond
<1>3. CASE \E s \in [Joints -> Starts], t \in [Joints -> Targets], g \in Grips \X Grips,
              has \in BOOLEAN, w \in BOOLEAN, o \in Orders : Begin(s, t, g, has, w, o)
  BY <1>3 DEF Begin
<1> QED BY <1>1, <1>2, <1>3 DEF Next, MotionStep

\* The arm: SlowStep in every step.
LEMMA ArmIsSlow == MotionInv /\ [Next]_vars => [SlowStep]_vars
<1> SUFFICES ASSUME MotionInv, [Next]_vars, pc = "loop" PROVE SlowStep
  BY DEF SlowStep
<1>1. /\ last.arm \in [Joints -> Int] /\ pos \in [Joints -> Int] /\ target \in [Joints -> Int]
      /\ \A j \in Joints : Abs(last.arm[j] - pos[j]) <= Eps
  BY DEF MotionInv, TypeOK, SyncInv
<1>2. CASE InLoop /\ SendAction
  <2> DEFINE a == Active
  <2>1. a \in Joints /\ last.arm[a] = pos[a]
    <3>1. idx \in 1 .. Len(order) /\ a = order[idx] /\ a \in Joints
      BY <1>2, ActiveJoint DEF InLoop
    <3> QED BY <3>1 DEF MotionInv, SyncInv
  <2>2. /\ last'.arm \in [Joints -> Int]
        /\ \A j \in Joints : j # a => last'.arm[j] = pos[j]
        /\ last'.arm[a] = Advance(pos[a], target[a])
    BY <1>2, CommandMoves DEF SendAction
  <2>3. Abs(last'.arm[a] - last.arm[a]) <= Step + Eps
    BY <1>1, <2>1, <2>2, AdvanceMoves
  <2>4. \A j \in Joints : j # a => Abs(last'.arm[j] - last.arm[j]) <= Eps
    BY <1>1, <2>2 DEF Abs
  <2>5. \A j \in Joints : Abs(last'.arm[j] - last.arm[j]) \in Int
    BY <1>1, <2>2 DEF Abs
  <2> QED BY <2>3, <2>4, <2>5, SizeAssumption DEF SlowStep
<1>3. CASE last' = last
  <2>1. \A j \in Joints : Abs(last'.arm[j] - last.arm[j]) = 0
    BY <1>1, <1>3 DEF Abs
  <2> QED BY <2>1, SizeAssumption DEF SlowStep
<1> QED BY <1>2, <1>3, LoopSteps

\* The gripper: GripStepwise in every step.
LEMMA GripperIsSlow == MotionInv /\ [Next]_vars => [GripStepwise(gripOnly)]_vars
<1> SUFFICES ASSUME MotionInv, [Next]_vars, pc = "loop", gripOnly
             PROVE  (last'.frac - last.frac) * GripWay <= GripStep * total
  BY DEF GripStepwise
<1>1. /\ hasGrip /\ GripWay <= GripStep * total
      /\ GripWay \in Nat /\ GripStep * total \in Nat
      /\ last.frac \in Nat /\ last.frac = gripSteps
  <2>1. GripWay \in Nat
    <3>1. grip[1] \in Nat /\ grip[2] \in Nat
      BY DEF MotionInv, TypeOK
    <3> QED BY <3>1 DEF GripWay, Abs
  <2>2. GripWay > 0 /\ GripWay <= GripStep * total /\ hasGrip
    BY <2>1 DEF MotionInv, SetupInv
  <2>3. GripStep * total \in Nat
    BY SizeAssumption DEF MotionInv, TypeOK
  <2> QED BY <2>1, <2>2, <2>3 DEF MotionInv, TypeOK, SyncInv
<1>2. last'.frac = last.frac \/ last'.frac = last.frac + 1 \/ last'.frac <= last.frac
  <2>1. CASE InLoop /\ SendAction
    <3>1. last'.frac = NextGripStep
      BY <1>1, <2>1 DEF SendAction, Command
    <3> QED BY <1>1, <2>1, <3>1, CommandMoves
  <2>2. CASE last' = last
    BY <2>2
  <2> QED BY <2>1, <2>2, LoopSteps
<1>3. last'.frac \in Nat
  <2>1. CASE InLoop /\ SendAction
    BY <2>1, CommandMoves DEF SendAction
  <2>2. CASE last' = last
    BY <1>1, <2>2
  <2> QED BY <2>1, <2>2, LoopSteps
<1> DEFINE d == last'.frac - last.frac
<1>4. d \in Int /\ d <= 1
  BY <1>1, <1>2, <1>3
<1>5. d * GripWay <= GripWay
  <2>1. \A x \in Int, y \in Nat : x <= 1 => x * y <= y
    BY SMTT(30)
  <2> QED BY <1>1, <1>4, <2>1
<1>6. d * GripWay \in Int
  BY <1>1, <1>4
<1> QED BY <1>1, <1>5, <1>6

\* Every action moves at most one joint, and that one slowly; a gripper that
\* moves alone moves by at most its configured step.
THEOREM SlowAndSequentialHolds == Spec => SlowAndSequential
<1>1. MotionInv /\ [Next]_vars => [SlowStep /\ GripStepwise(gripOnly)]_vars
  BY ArmIsSlow, GripperIsSlow
<1> QED BY <1>1, MotionInvariant, PTL DEF Spec, SlowAndSequential

-----------------------------------------------------------------------------
(* The tactile sensor.                                                     *)

\* One bounded value: the bounds of the counters and ages are naturals.
LEMMA Bounds ==
  /\ ConfirmFrames \in Nat \ {0} /\ ReleaseFrames \in Nat \ {0}
  /\ MaxAge \in Nat /\ Old = MaxAge + 1 /\ Never = MaxAge + 2
  BY FrameAssumption DEF Old, Never

\* TactileInv holds initially.
LEMMA TactileInit == SensorInit => TactileInv
<1>1. ASSUME SensorInit PROVE SensorTypeOK
  <2>1. /\ main = "init" /\ monitor = "none" /\ frame \in Levels /\ score \in Levels
        /\ stop \in BOOLEAN /\ reader \in BOOLEAN /\ ready \in BOOLEAN /\ error = "none"
        /\ contact \in BOOLEAN /\ changed \in BOOLEAN
    BY <1>1 DEF SensorInit, Levels
  <2>2. /\ above \in 0 .. ConfirmFrames - 1 /\ below \in 0 .. ReleaseFrames - 1
        /\ highs \in 0 .. ConfirmFrames /\ lows \in 0 .. ReleaseFrames
        /\ age \in 0 .. Never
    BY <1>1, Bounds DEF SensorInit
  <2> QED BY <2>1, <2>2 DEF SensorTypeOK
<1>2. SensorInit => CountInv /\ ScoreInv /\ MainInv
  BY DEF SensorInit, CountInv, ScoreInv, MainInv
<1> QED BY <1>1, <1>2 DEF TactileInv

\* A step that neither filters nor publishes leaves the filter alone.
LEMMA OtherSteps ==
  ASSUME TactileInv,
         \/ ConnectFails \/ SpawnMonitor \/ ClearError \/ SetReady
         \/ CheckStop \/ NoFrame \/ ReadFails \/ (\E level \in Levels : ScoreFrame(level))
         \/ Close \/ Join \/ ReleaseReader \/ ClearReady \/ TimePasses
  PROVE  TactileInv'
<1> USE DEF TactileInv, filter
<1>1. CASE ConnectFails \/ SpawnMonitor
  <2>1. SensorTypeOK'
    BY <1>1, Bounds DEF SensorTypeOK, ConnectFails, SpawnMonitor
  <2>2. CountInv'
    BY <1>1 DEF CountInv, ConnectFails, SpawnMonitor
  <2>3. ScoreInv'
    BY <1>1 DEF ScoreInv, MainInv, ConnectFails, SpawnMonitor
  <2>4. MainInv'
    BY <1>1 DEF SensorTypeOK, MainInv, ConnectFails, SpawnMonitor
  <2> QED BY <2>1, <2>2, <2>3, <2>4
<1>2. CASE ClearError \/ SetReady
  <2>1. SensorTypeOK'
    BY <1>2, Bounds DEF SensorTypeOK, ClearError, SetReady
  <2>2. CountInv'
    BY <1>2 DEF CountInv, ClearError, SetReady
  <2>3. ScoreInv'
    BY <1>2 DEF ScoreInv, ClearError, SetReady
  <2>4. MainInv'
    BY <1>2 DEF SensorTypeOK, MainInv, ClearError, SetReady
  <2> QED BY <2>1, <2>2, <2>3, <2>4
<1>3. CASE CheckStop \/ NoFrame
  <2>1. SensorTypeOK'
    BY <1>3, Bounds DEF SensorTypeOK, CheckStop, NoFrame
  <2>2. CountInv'
    BY <1>3 DEF CountInv, CheckStop, NoFrame
  <2>3. ScoreInv'
    BY <1>3 DEF ScoreInv, CheckStop, NoFrame
  <2>4. MainInv'
    BY <1>3 DEF SensorTypeOK, MainInv, CheckStop, NoFrame
  <2> QED BY <2>1, <2>2, <2>3, <2>4
<1>4. CASE ReadFails
  <2>1. SensorTypeOK'
    BY <1>4, Bounds DEF SensorTypeOK, ReadFails
  <2>2. CountInv'
    BY <1>4 DEF CountInv, ReadFails
  <2>3. ScoreInv'
    BY <1>4 DEF ScoreInv, ReadFails
  <2>4. MainInv'
    BY <1>4 DEF SensorTypeOK, MainInv, ReadFails
  <2> QED BY <2>1, <2>2, <2>3, <2>4
<1>5. CASE \E level \in Levels : ScoreFrame(level)
  <2>1. SensorTypeOK'
    BY <1>5, Bounds DEF SensorTypeOK, ScoreFrame
  <2>2. CountInv'
    BY <1>5 DEF CountInv, ScoreFrame
  <2>3. ScoreInv'
    BY <1>5 DEF ScoreInv, ScoreFrame
  <2>4. MainInv'
    BY <1>5 DEF SensorTypeOK, MainInv, ScoreFrame
  <2> QED BY <2>1, <2>2, <2>3, <2>4
<1>6. CASE Close \/ Join
  <2>1. SensorTypeOK'
    BY <1>6, Bounds DEF SensorTypeOK, Close, Join
  <2>2. CountInv'
    BY <1>6 DEF CountInv, Close, Join
  <2>3. ScoreInv'
    BY <1>6 DEF ScoreInv, Close, Join
  <2>4. MainInv'
    BY <1>6 DEF SensorTypeOK, MainInv, Close, Join
  <2> QED BY <2>1, <2>2, <2>3, <2>4
<1>7. CASE ReleaseReader \/ ClearReady
  <2>1. SensorTypeOK'
    BY <1>7, Bounds DEF SensorTypeOK, ReleaseReader, ClearReady
  <2>2. CountInv'
    BY <1>7 DEF CountInv, ReleaseReader, ClearReady
  <2>3. ScoreInv'
    BY <1>7 DEF ScoreInv, ReleaseReader, ClearReady
  <2>4. MainInv'
    BY <1>7 DEF SensorTypeOK, MainInv, ReleaseReader, ClearReady
  <2> QED BY <2>1, <2>2, <2>3, <2>4
<1>8. CASE TimePasses
  <2>1. SensorTypeOK'
    BY <1>8, Bounds DEF SensorTypeOK, TimePasses
  <2>2. CountInv'
    BY <1>8 DEF CountInv, TimePasses
  <2>3. ScoreInv'
    BY <1>8 DEF ScoreInv, TimePasses
  <2>4. MainInv'
    BY <1>8 DEF SensorTypeOK, MainInv, TimePasses
  <2> QED BY <2>1, <2>2, <2>3, <2>4
<1> QED BY <1>1, <1>2, <1>3, <1>4, <1>5, <1>6, <1>7, <1>8

\* The second section publishes the frame that was filtered.
LEMMA PublishKeeps == ASSUME TactileInv, Publish PROVE TactileInv'
  BY Bounds DEF TactileInv, filter, Publish, SensorTypeOK, CountInv, ScoreInv, MainInv

\* What the filter does with one frame.
LEMMA FilterKeeps ==
  ASSUME TactileInv, UpdateContactState
  PROVE  TactileInv' /\ FilterStep
<1>1. /\ frame \in Levels
      /\ contact \in BOOLEAN
      /\ above \in 0 .. ConfirmFrames - 1 /\ below \in 0 .. ReleaseFrames - 1
      /\ highs \in 0 .. ConfirmFrames /\ lows \in 0 .. ReleaseFrames
      /\ highs > 0 => score = "high"
      /\ lows > 0 => score = "low"
  BY DEF TactileInv, SensorTypeOK, ScoreInv, UpdateContactState
<1>2. /\ highs' = IF frame = "high" THEN Capped(highs + 1, ConfirmFrames) ELSE 0
      /\ lows' = IF frame = "low" THEN Capped(lows + 1, ReleaseFrames) ELSE 0
      /\ score' = score /\ frame' = frame
  BY DEF UpdateContactState, RecordFrame
<1>3. /\ highs' \in 0 .. ConfirmFrames /\ lows' \in 0 .. ReleaseFrames
      /\ highs' > 0 => frame = "high"
      /\ lows' > 0 => frame = "low"
      /\ highs' > 1 => score = "high"
      /\ lows' > 1 => score = "low"
  BY <1>1, <1>2, Bounds DEF Capped
<1>4. /\ contact' \in BOOLEAN
      /\ above' \in 0 .. ConfirmFrames - 1 /\ below' \in 0 .. ReleaseFrames - 1
      /\ IF contact' THEN below' = lows' ELSE above' = highs'
      /\ FilterStep
  <2>1. CASE contact
    <3>1. below = lows /\ CountBelow
      BY <2>1 DEF TactileInv, CountInv, UpdateContactState
    <3>2. CASE frame = "low"
      <4>1. CASE below + 1 >= ReleaseFrames
        <5>1. contact' = FALSE /\ above' = 0 /\ below' = 0
          BY <3>1, <3>2, <4>1 DEF CountBelow
        <5>2. lows' = ReleaseFrames /\ highs' = 0
          BY <1>1, <1>2, <3>1, <3>2, <4>1, Bounds DEF Capped
        <5>3. 0 \in 0 .. ConfirmFrames - 1 /\ 0 \in 0 .. ReleaseFrames - 1
          BY Bounds
        <5> QED BY <2>1, <5>1, <5>2, <5>3 DEF FilterStep
      <4>2. CASE ~(below + 1 >= ReleaseFrames)
        <5>1. contact' = contact /\ above' = above /\ below' = below + 1
          BY <3>1, <3>2, <4>2 DEF CountBelow
        <5> QED BY <1>1, <1>2, <2>1, <3>1, <3>2, <4>2, <5>1, Bounds DEF FilterStep, Capped
      <4> QED BY <4>1, <4>2
    <3>3. CASE frame # "low"
      <4>1. contact' = contact /\ above' = above /\ below' = 0
        BY <3>1, <3>3, Bounds DEF CountBelow
      <4> QED BY <1>1, <1>2, <2>1, <3>3, <4>1, Bounds DEF FilterStep
    <3> QED BY <3>2, <3>3
  <2>2. CASE ~contact
    <3>1. above = highs /\ CountAbove
      BY <2>2 DEF TactileInv, CountInv, UpdateContactState
    <3>2. CASE frame = "high"
      <4>1. CASE above + 1 >= ConfirmFrames
        <5>1. contact' = TRUE /\ above' = 0 /\ below' = 0
          BY <3>1, <3>2, <4>1 DEF CountAbove
        <5>2. highs' = ConfirmFrames /\ lows' = 0
          BY <1>1, <1>2, <3>1, <3>2, <4>1, Bounds DEF Capped
        <5>3. 0 \in 0 .. ConfirmFrames - 1 /\ 0 \in 0 .. ReleaseFrames - 1
          BY Bounds
        <5> QED BY <2>2, <5>1, <5>2, <5>3 DEF FilterStep
      <4>2. CASE ~(above + 1 >= ConfirmFrames)
        <5>1. contact' = contact /\ above' = above + 1 /\ below' = below
          BY <3>1, <3>2, <4>2 DEF CountAbove
        <5> QED BY <1>1, <1>2, <2>2, <3>1, <3>2, <4>2, <5>1, Bounds DEF FilterStep, Capped
      <4> QED BY <4>1, <4>2
    <3>3. CASE frame # "high"
      <4>1. contact' = contact /\ above' = 0 /\ below' = below
        BY <3>1, <3>3, Bounds DEF CountAbove
      <4> QED BY <1>1, <1>2, <2>2, <3>3, <4>1, Bounds DEF FilterStep
    <3> QED BY <3>2, <3>3
  <2> QED BY <1>1, <2>1, <2>2
<1>5. /\ changed' \in BOOLEAN
      /\ changed' => IF contact' THEN highs' = ConfirmFrames ELSE lows' = ReleaseFrames
  BY <1>1, <1>4 DEF UpdateContactState, FilterStep
<1>6. SensorTypeOK'
  BY <1>3, <1>4, <1>5 DEF TactileInv, SensorTypeOK, UpdateContactState
<1>7. CountInv'
  BY <1>4 DEF CountInv
<1>8. ScoreInv'
  BY <1>2, <1>3, <1>5 DEF ScoreInv, UpdateContactState
<1>9. MainInv'
  BY DEF TactileInv, MainInv, UpdateContactState
<1> QED BY <1>4, <1>6, <1>7, <1>8, <1>9 DEF TactileInv

-----------------------------------------------------------------------------
(* The theorems.                                                           *)

\* TactileInv holds in every reachable state.
THEOREM TactileInvariant == SensorSpec => []TactileInv
<1>1. TactileInv /\ [SensorNext]_sensorVars => TactileInv'
  <2> SUFFICES ASSUME TactileInv, [SensorNext]_sensorVars PROVE TactileInv'
    OBVIOUS
  <2>1. CASE Publish
    BY <2>1, PublishKeeps
  <2>2. CASE UpdateContactState
    BY <2>2, FilterKeeps
  <2>3. CASE UNCHANGED sensorVars
    BY <2>3 DEF sensorVars, filter, TactileInv, SensorTypeOK, CountInv, ScoreInv, MainInv
  <2> QED BY <2>1, <2>2, <2>3, OtherSteps DEF SensorNext, MainStep, MonitorStep
<1> QED BY <1>1, TactileInit, PTL DEF SensorSpec

\* Every variable keeps its type.
THEOREM TactileTypeCorrect == SensorSpec => []SensorTypeOK
<1>1. TactileInv => SensorTypeOK
  BY DEF TactileInv
<1> QED BY <1>1, TactileInvariant, PTL

\* The filter misses no streak, whatever the frames were before.
THEOREM StreakDecidesHolds == SensorSpec => []StreakDecides
<1>1. TactileInv => StreakDecides
  BY Bounds DEF TactileInv, SensorTypeOK, CountInv, StreakDecides
<1> QED BY <1>1, TactileInvariant, PTL

\* The filter misses no streak and invents no contact and no release.
THEOREM FilterIsExactHolds == SensorSpec => FilterIsExact
<1>1. TactileInv /\ [SensorNext]_sensorVars => [FilterStep]_filter
  <2> SUFFICES ASSUME TactileInv, [SensorNext]_sensorVars PROVE FilterStep \/ UNCHANGED filter
    OBVIOUS
  <2>1. CASE UpdateContactState
    BY <2>1, FilterKeeps
  <2>2. CASE MainStep \/ ConnectFails \/ SpawnMonitor \/ Close \/ TimePasses
    BY <2>2 DEF MainStep, ClearError, SetReady, Join, ReleaseReader, ClearReady, ConnectFails, SpawnMonitor,
                Close, TimePasses
  <2>3. CASE CheckStop \/ NoFrame \/ ReadFails \/ Publish \/ \E level \in Levels : ScoreFrame(level)
    BY <2>3 DEF CheckStop, NoFrame, ReadFails, Publish, ScoreFrame
  <2>4. CASE UNCHANGED sensorVars
    BY <2>4 DEF sensorVars
  <2> QED BY <2>1, <2>2, <2>3, <2>4 DEF SensorNext, MonitorStep
<1> QED BY <1>1, StreakDecidesHolds, TactileInvariant, PTL DEF SensorSpec, FilterIsExact

\* With at least two frames to confirm, no snapshot contradicts itself.
THEOREM TornSnapshotAgreesHolds ==
  ASSUME ConfirmFrames >= 2, ReleaseFrames >= 2
  PROVE  SensorSpec => []TornSnapshotAgrees
<1>1. TactileInv => TornSnapshotAgrees
  BY Bounds DEF TactileInv, SensorTypeOK, ScoreInv, TornSnapshotAgrees
<1> QED BY <1>1, TactileInvariant, PTL

\* A closed sensor is never ready again.
THEOREM ClosedStaysDownHolds == SensorSpec => []ClosedStaysDown
<1>1. TactileInv => ClosedStaysDown
  BY DEF TactileInv, MainInv, ClosedStaysDown, SnapshotReady
<1> QED BY <1>1, TactileInvariant, PTL
=============================================================================
