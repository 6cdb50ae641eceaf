------------------------- MODULE VisualGraspProofs -------------------------
(***************************************************************************)
(* Proofs about VisualGrasp, for every number of waypoints and runs and    *)
(* every range, start and step of the gripper.                             *)
(***************************************************************************)
EXTENDS VisualGrasp, SequenceTheorems, TLAPS

-----------------------------------------------------------------------------
(* The plan's numbers.                                                     *)

USE DEF Pregrasp, Bottom, Down, Lift

LEMMA Waypoints ==
  /\ Bottom \in Nat /\ Bottom \in Arms /\ Pregrasp \in Arms /\ Pregrasp <= Bottom
  /\ \A i \in 1 .. Descents : Down(i) \in Arms /\ Down(i) <= Bottom
  /\ \A i \in 1 .. Lifts : Lift(i) \in Arms /\ Lift(i) > Bottom
  /\ Down(Descents) = Bottom
  /\ None \notin Arms /\ None \notin Grips
  BY PlanAssumption DEF Arms, Grips

\* The ramp stays between its beginning and its end.
LEMMA RampInRange ==
  ASSUME base \in Grips, base + OpenDelta <= MaxGrip, NEW i \in 1 .. Descents
  PROVE  RampTo(i) \in Grips
<1> DEFINE q == (OpenDelta * i) \div Descents
<1>1. Descents \in Nat \ {0} /\ OpenDelta \in Nat /\ MaxGrip \in Nat /\ i \in Nat /\ i <= Descents /\ i >= 1
  BY PlanAssumption
<1>2. OpenDelta * i \in Nat
  BY <1>1
<1>3. q \in Nat
  BY <1>1, <1>2
<1>4. Descents * q <= OpenDelta * i
  BY <1>1, <1>2
<1>5. OpenDelta * i <= OpenDelta * Descents
  BY <1>1
<1>6. q <= OpenDelta
  BY <1>1, <1>3, <1>4, <1>5
<1>7. QED
  BY <1>1, <1>3, <1>6 DEF RampTo, Grips


-----------------------------------------------------------------------------
(* Types.                                                                  *)

\* Only the script publishes orders and only the bridge takes them.
LEMMA UpElsewhere ==
  ASSUME [Next]_vars
  PROVE  \/ Plan \/ Call \/ Hold \/ Decide \/ (\E topic \in Orders : Handle(topic))
         \/ UNCHANGED up
<1>1. CASE AwaitRuntime \/ CloseTimeout \/ Answer \/ AfterMove \/ Gate
  BY <1>1 DEF AwaitRuntime, CloseTimeout, Answer, AfterMove, Gate
<1>2. CASE (\E topic \in Topics : Receive(topic)) \/ Expire \/ NewRun \/ UNCHANGED vars
  BY <1>2 DEF Receive, Expire, NewRun, vars
<1>3. CASE Poll \/ PollFails \/ CacheExpires \/ Serve \/ LinkLost
  BY <1>3 DEF Poll, PollFails, CacheExpires, Serve, LinkLost
<1>4. CASE Tick \/ Complete \/ Abort
  BY <1>4 DEF Tick, Complete, Abort
<1>5. QED
  BY <1>1, <1>2, <1>3, <1>4 DEF Next, Script, Bridge

LEMMA SentTypes ==
  ASSUME NEW q \in Queues
  PROVE  /\ \A v \in Arms : Sent(q, "arm", v) \in Queues
         /\ \A v \in Grips : Sent(q, "grip", v) \in Queues
         /\ \A v \in BOOLEAN : Sent(q, "flag", v) \in Queues
<1>1. q.arm \in Seq(Arms) /\ q.grip \in Seq(Grips) /\ q.flag \in Seq(BOOLEAN)
  BY DEF Queues
<1>2. ASSUME NEW v \in Arms PROVE Sent(q, "arm", v) \in Queues
  <2>1. Append(q.arm, v) \in Seq(Arms)
    BY <1>1, <1>2, AppendProperties
  <2>2. QED
    BY <2>1 DEF Queues, Sent
<1>3. ASSUME NEW v \in Grips PROVE Sent(q, "grip", v) \in Queues
  <2>1. Append(q.grip, v) \in Seq(Grips)
    BY <1>1, <1>3, AppendProperties
  <2>2. QED
    BY <2>1 DEF Queues, Sent
<1>4. ASSUME NEW v \in BOOLEAN PROVE Sent(q, "flag", v) \in Queues
  <2>1. Append(q.flag, v) \in Seq(BOOLEAN)
    BY <1>1, <1>4, AppendProperties
  <2>2. QED
    BY <2>1 DEF Queues, Sent
<1>5. QED
  BY <1>2, <1>3, <1>4

LEMMA NextTarget ==
  ASSUME goal \in Grips
  PROVE  CloseTarget \in Grips
  BY PlanAssumption DEF CloseTarget, Grips

LEMMA PublishedTypes ==
  ASSUME TypeOK, Counts, pc = "call"
  PROVE  Published \in Queues
<1>1. /\ up \in Queues /\ goal \in Grips /\ base \in Grips /\ base + OpenDelta <= MaxGrip
      /\ phase \in {"pre", "down", "close", "lift"}
  BY DEF TypeOK, ScriptOK, Counts, UnderWay
<1>2. CASE phase = "pre"
  BY <1>1, <1>2, SentTypes, Waypoints DEF Published
<1>3. CASE phase = "down"
  <2>1. k \in 1 .. Descents
    BY <1>3 DEF Counts
  <2>2. Sent(up, "arm", Down(k)) \in Queues
    BY <1>1, <2>1, SentTypes, Waypoints
  <2>3. RampTo(k) \in Grips
    BY <1>1, <2>1, RampInRange
  <2>4. QED
    BY <1>3, <2>2, <2>3, SentTypes DEF Published
<1>4. CASE phase = "close"
  BY <1>1, <1>4, SentTypes, NextTarget DEF Published
<1>5. CASE phase = "lift"
  <2>1. k \in 1 .. Lifts
    BY <1>5 DEF Counts
  <2>2. Sent(up, "arm", Lift(k)) \in Queues
    BY <1>1, <2>1, SentTypes, Waypoints
  <2>3. QED
    BY <1>1, <1>5, <2>2, SentTypes DEF Published
<1>6. QED
  BY <1>1, <1>2, <1>3, <1>4, <1>5

\* What is told and published by the script.
LEMMA QueueTypes ==
  ASSUME TypeOK, Counts, Known, [Next]_vars
  PROVE  up' \in Queues
<1> up \in Queues
  BY DEF TypeOK
<1>1. CASE Plan
  BY <1>1, SentTypes DEF Plan, FlagCleared
<1>2. CASE Call
  BY <1>2, PublishedTypes DEF Call
<1>3. CASE Hold
  <2>1. CASE state.arm = None
    BY <1>3, <2>1 DEF Hold
  <2>2. CASE state.arm # None
    <3>1. state.arm \in Arms
      BY <2>2 DEF TypeOK, EarsOK
    <3>2. Sent(up, "arm", state.arm) \in Queues
      BY <3>1, SentTypes
    <3>3. QED
      BY <1>3, <2>2, <3>2, SentTypes DEF Hold
  <2>3. QED
    BY <2>1, <2>2
<1>4. CASE Decide
  BY <1>4, SentTypes DEF Decide, FlagCleared
<1>5. ASSUME NEW topic \in Orders, Handle(topic) PROVE up' \in Queues
  <2>1. up[topic] # <<>> /\ up' = [up EXCEPT ![topic] = Tail(@)]
    BY <1>5 DEF Handle
  <2>2. CASE topic = "arm"
    BY <2>1, <2>2, HeadTailProperties DEF Queues
  <2>3. CASE topic = "grip"
    BY <2>1, <2>3, HeadTailProperties DEF Queues
  <2>4. CASE topic = "flag"
    BY <2>1, <2>4, HeadTailProperties DEF Queues
  <2>5. QED
    BY <1>5, <2>2, <2>3, <2>4 DEF Orders
<1>6. CASE UNCHANGED up
  BY <1>6
<1>7. QED
  BY <1>1, <1>2, <1>3, <1>4, <1>5, UpElsewhere

\* Outside the script's own steps only a new run changes what it keeps.
LEMMA ScriptElsewhere ==
  ASSUME [Next]_vars
  PROVE  Script \/ NewRun \/ UNCHANGED script
<1>1. CASE (\E topic \in Topics : Receive(topic)) \/ Expire \/ UNCHANGED vars
  BY <1>1 DEF Receive, Expire, vars
<1>2. CASE Poll \/ PollFails \/ CacheExpires \/ Serve \/ LinkLost \/ \E topic \in Orders : Handle(topic)
  BY <1>2 DEF Poll, PollFails, CacheExpires, Serve, LinkLost, Handle
<1>3. CASE Tick \/ Complete \/ Abort
  BY <1>3 DEF Tick, Complete, Abort
<1>4. QED
  BY <1>1, <1>2, <1>3 DEF Next, Bridge

LEMMA ScriptTypes ==
  ASSUME TypeOK, Counts, Known, [Next]_vars
  PROVE  ScriptOK'
<1>0. ScriptOK /\ EarsOK /\ BridgeOK
  BY DEF TypeOK
<1>1. CASE AwaitRuntime
  <2>1. base' \in Grips
    BY <1>0, <1>1 DEF AwaitRuntime, ScriptOK, EarsOK
  <2>2. QED
    BY <1>0, <1>1, <2>1 DEF AwaitRuntime, GoTo, End, ScriptOK, Failures
<1>2. CASE Plan \/ CloseTimeout \/ Gate
  BY <1>0, <1>2 DEF Plan, CloseTimeout, Gate, GoTo, End, ScriptOK, Failures
<1>3. CASE Call
  <2>1. goal' \in Grips
    BY <1>0, <1>3, NextTarget DEF Call, ScriptOK
  <2>2. QED
    BY <1>0, <1>3, <2>1 DEF Call, GoTo, ScriptOK, Answers
<1>4. CASE Answer
  BY <1>0, <1>4 DEF Answer, GoTo, ScriptOK, Answers
<1>5. CASE AfterMove
  BY <1>0, <1>5 DEF AfterMove, GoTo, End, ScriptOK, Failures
<1>6. CASE Hold
  <2>1. state.grip \in Grips
    BY <1>0, <1>6 DEF Hold, EarsOK, Known, UnderWay
  <2>2. QED
    BY <1>0, <1>6, <2>1 DEF Hold, GoTo, End, ScriptOK, Failures
<1>7. CASE Decide
  <2>1. state.grip \in Grips
    BY <1>0, <1>7 DEF Decide, EarsOK, Known, UnderWay
  <2>2. QED
    BY <1>0, <1>7, <2>1 DEF Decide, GoTo, End, ScriptOK, Failures
<1>8. CASE NewRun
  <2>1. Start \in Grips /\ runs + 1 \in 1 .. MaxRuns
    BY <1>0, <1>8, PlanAssumption DEF NewRun, ScriptOK, Grips
  <2>2. QED
    BY <1>0, <1>8, <2>1 DEF NewRun, ScriptOK, Answers
<1>9. CASE UNCHANGED script
  BY <1>0, <1>9 DEF script, ScriptOK
<1>10. QED
  BY <1>1, <1>2, <1>3, <1>4, <1>5, <1>6, <1>7, <1>8, <1>9, ScriptElsewhere DEF Script

LEMMA EarsElsewhere ==
  ASSUME [Next]_vars
  PROVE  \/ (\E topic \in Topics : Receive(topic)) \/ Expire \/ NewRun \/ Poll \/ Tick
         \/ UNCHANGED ears
<1>1. CASE Script \/ UNCHANGED vars
  BY <1>1 DEF Script, AwaitRuntime, Plan, Call, CloseTimeout, Answer, AfterMove, Hold, Decide, Gate, vars
<1>2. CASE PollFails \/ CacheExpires \/ Serve \/ LinkLost \/ \E topic \in Orders : Handle(topic)
  BY <1>2 DEF PollFails, CacheExpires, Serve, LinkLost, Handle
<1>3. CASE Complete \/ Abort
  BY <1>3 DEF Complete, Abort
<1>4. QED
  BY <1>1, <1>2, <1>3 DEF Next, Bridge

LEMMA EarsTypes ==
  ASSUME TypeOK, [Next]_vars
  PROVE  EarsOK'
<1>0. EarsOK /\ ServerOK
  BY DEF TypeOK
<1>1. ASSUME NEW topic \in Topics, Receive(topic) PROVE EarsOK'
  <2>1. down' = down /\ new' \in SUBSET Topics
    BY <1>0, <1>1 DEF Receive, EarsOK
  <2>2. CASE topic \in {"ready", "contact"}
    <3>1. state' = state
      BY <1>1, <2>2 DEF Receive
    <3>2. seen' \in [ready : BOOLEAN, contact : BOOLEAN, fresh : BOOLEAN]
      BY <1>0, <1>1, <2>2 DEF Receive, EarsOK
    <3>3. QED
      BY <1>0, <2>1, <3>1, <3>2 DEF EarsOK
  <2>3. CASE topic = "joints"
    <3>1. seen' = seen /\ state' = [arm |-> down.arm, grip |-> down.grip]
      BY <1>1, <2>3 DEF Receive
    <3>2. QED
      BY <1>0, <2>1, <3>1 DEF EarsOK
  <2>4. QED
    BY <2>2, <2>3 DEF Topics
<1>2. CASE Expire
  BY <1>0, <1>2 DEF Expire, EarsOK
<1>3. CASE NewRun
  BY <1>0, <1>3 DEF NewRun, Deaf, EarsOK, Topics
<1>4. CASE Poll
  <2>1. PICK ready \in BOOLEAN : down' = [ready |-> ready, contact |-> contact', arm |-> arm, grip |-> grip]
    BY <1>4 DEF Poll
  <2>2. contact' \in BOOLEAN
    BY <1>4 DEF Poll, Sense
  <2>3. down' \in [ready : BOOLEAN, contact : BOOLEAN, arm : Arms \cup {None}, grip : Grips \cup {None}]
    BY <1>0, <2>1, <2>2 DEF ServerOK
  <2>4. QED
    BY <1>0, <1>4, <2>3 DEF Poll, EarsOK
<1>5. CASE Tick
  <2>1. down' = down
    BY <1>5 DEF Tick
  <2>2. CASE CatchUp
    BY <1>0, <2>1, <2>2 DEF CatchUp, Heard, EarsOK
  <2>3. CASE UNCHANGED <<seen, state, new>>
    BY <1>0, <2>1, <2>3 DEF EarsOK
  <2>4. QED
    BY <1>5, <2>2, <2>3 DEF Tick
<1>6. CASE UNCHANGED ears
  BY <1>0, <1>6 DEF ears, EarsOK
<1>7. QED
  BY <1>1, <1>2, <1>3, <1>4, <1>5, <1>6, EarsElsewhere

\* What the end of a motion does to the bridge.
LEMMA JobEnds ==
  ASSUME TypeOK, Steady, NEW answer, EndJob(answer)
  PROVE  /\ job' = None /\ busy' = FALSE
         /\ call' = IF call = "running" THEN answer ELSE call
  BY DEF TypeOK, BridgeOK, Steady, EndJob, Return

LEMMA CacheTypes ==
  ASSUME TypeOK, [Next]_vars
  PROVE  cache' \in [arm : Arms \cup {None}, grip : Grips \cup {None}, flag : BOOLEAN]
<1> DEFINE Caches == [arm : Arms \cup {None}, grip : Grips \cup {None}, flag : BOOLEAN]
<1>0. cache \in Caches /\ up \in Queues
  BY DEF TypeOK, BridgeOK
<1>1. ASSUME NEW topic \in Orders, Handle(topic) PROVE cache' \in Caches
  <2>1. CASE topic = "arm"
    <3>1. Head(up.arm) \in Arms
      BY <1>0, <1>1, <2>1, HeadTailProperties DEF Handle, Queues
    <3>2. QED
      BY <1>0, <1>1, <2>1, <3>1 DEF Handle
  <2>2. CASE topic = "grip"
    <3>1. Head(up.grip) \in Grips
      BY <1>0, <1>1, <2>2, HeadTailProperties DEF Handle, Queues
    <3>2. QED
      BY <1>0, <1>1, <2>2, <3>1 DEF Handle
  <2>3. CASE topic = "flag"
    <3>1. Head(up.flag) \in BOOLEAN
      BY <1>0, <1>1, <2>3, HeadTailProperties DEF Handle, Queues
    <3>2. QED
      BY <1>0, <1>1, <2>3, <3>1 DEF Handle
  <2>4. QED
    BY <1>1, <2>1, <2>2, <2>3 DEF Orders
<1>2. CASE CacheExpires
  BY <1>0, <1>2 DEF CacheExpires
<1>3. CASE Script \/ UNCHANGED vars
  BY <1>0, <1>3 DEF Script, AwaitRuntime, Plan, Call, CloseTimeout, Answer, AfterMove, Hold, Decide, Gate, vars, bridge
<1>4. CASE (\E topic \in Topics : Receive(topic)) \/ Expire \/ NewRun
  BY <1>0, <1>4 DEF Receive, Expire, NewRun, bridge
<1>5. CASE Poll \/ PollFails \/ Serve \/ LinkLost \/ Tick \/ Complete \/ Abort
  BY <1>0, <1>5 DEF Poll, PollFails, Serve, LinkLost, Tick, Complete, Abort
<1>6. QED
  BY <1>1, <1>2, <1>3, <1>4, <1>5 DEF Next, Bridge

LEMMA BridgeTypes ==
  ASSUME TypeOK, Steady, [Next]_vars
  PROVE  BridgeOK' /\ job' \in Jobs \cup {None}
<1> DEFINE Good == /\ call' \in {"none", "asked", "running"} \cup Answers
                   /\ busy' \in BOOLEAN /\ tcp' \in BOOLEAN
                   /\ job' \in Jobs \cup {None}
<1> SUFFICES Good
  BY CacheTypes DEF BridgeOK
<1> HIDE DEF Good
<1>0. /\ call \in {"none", "asked", "running"} \cup Answers
      /\ busy \in BOOLEAN /\ tcp \in BOOLEAN
      /\ job \in Jobs \cup {None}
      /\ cache \in [arm : Arms \cup {None}, grip : Grips \cup {None}, flag : BOOLEAN]
  BY DEF TypeOK, BridgeOK, ServerOK
<1>1. CASE Script \/ UNCHANGED vars
  BY <1>0, <1>1 DEF Script, AwaitRuntime, Plan, Call, CloseTimeout, Answer, AfterMove, Hold, Decide, Gate,
                    vars, bridge, server, Good
<1>2. CASE (\E topic \in Topics : Receive(topic)) \/ Expire \/ NewRun
  BY <1>0, <1>2 DEF Receive, Expire, NewRun, bridge, server, Good
<1>3. CASE (\E topic \in Orders : Handle(topic)) \/ CacheExpires \/ Poll \/ PollFails
  BY <1>0, <1>3 DEF Handle, CacheExpires, Poll, PollFails, server, Good
<1>4. CASE Serve
  <2>1. CASE ~tcp \/ cache.arm = None
    BY <1>0, <1>4, <2>1 DEF Serve, Answers, Good
  <2>2. CASE tcp /\ cache.arm # None
    <3>1. [arm |-> cache.arm, grip |-> cache.grip, watch |-> cache.flag] \in Jobs
      BY <1>0, <2>2 DEF Jobs
    <3>2. QED
      BY <1>0, <1>4, <2>2, <3>1 DEF Serve, Good
  <2>3. QED
    BY <1>0, <2>1, <2>2
<1>5. CASE LinkLost
  BY <1>0, <1>5 DEF LinkLost, Return, server, Answers, Good
<1>6. ASSUME NEW answer \in Answers, EndJob(answer), UNCHANGED tcp PROVE Good
  <2>1. /\ job' = None /\ busy' = FALSE
        /\ call' = IF call = "running" THEN answer ELSE call
    BY <1>6, JobEnds
  <2>2. QED
    BY <1>0, <1>6, <2>1 DEF Good
<1>7. CASE Tick
  <2>1. CASE UNCHANGED <<job, busy, call>>
    BY <1>0, <1>7, <2>1 DEF Tick, Good
  <2>2. ASSUME NEW answer \in {"failed", "tactile_contact_stop"}, EndJob(answer) PROVE Good
    BY <1>6, <1>7, <2>2 DEF Tick, Answers
  <2>3. QED
    BY <1>7, <2>1, <2>2 DEF Tick
<1>8. CASE Complete \/ Abort
  BY <1>6, <1>8 DEF Complete, Abort, Answers
<1>9. QED
  BY <1>1, <1>2, <1>3, <1>4, <1>5, <1>7, <1>8 DEF Next, Bridge

\* Only a motion moves anything, and only polls and motions look at the sensor.
LEMMA ServerElsewhere ==
  ASSUME [Next]_vars
  PROVE  /\ Tick \/ UNCHANGED <<arm, grip>>
         /\ Tick \/ Poll \/ NewRun \/ UNCHANGED sensor
<1>1. CASE Script \/ UNCHANGED vars
  BY <1>1 DEF Script, AwaitRuntime, Plan, Call, CloseTimeout, Answer, AfterMove, Hold, Decide, Gate, vars, server
<1>2. CASE (\E topic \in Topics : Receive(topic)) \/ Expire \/ NewRun
  BY <1>2 DEF Receive, Expire, NewRun, server
<1>3. CASE (\E topic \in Orders : Handle(topic)) \/ CacheExpires \/ Poll \/ PollFails
  BY <1>3 DEF Handle, CacheExpires, Poll, PollFails, server
<1>4. CASE Serve \/ LinkLost \/ Tick \/ Complete \/ Abort
  BY <1>4 DEF Serve, LinkLost, Complete, Abort, server
<1>5. QED
  BY <1>1, <1>2, <1>3, <1>4 DEF Next, Bridge

LEMMA TickMoves ==
  ASSUME TypeOK, Tick
  PROVE  arm' \in {arm, job.arm} /\ arm' \in Arms /\ grip' \in Grips
<1>1. job \in Jobs /\ arm \in Arms /\ grip \in Grips
  BY DEF TypeOK, ServerOK, Tick
<1>2. job.arm \in Arms /\ Target \in Grips
  BY <1>1 DEF Jobs, Target
<1>3. grip' \in Grips
  BY <1>1, <1>2, PlanAssumption DEF Tick, Toward, Grips
<1>4. QED
  BY <1>1, <1>2, <1>3 DEF Tick

LEMMA ServerTypes ==
  ASSUME TypeOK, Steady, [Next]_vars
  PROVE  ServerOK'
<1>0. ServerOK
  BY DEF TypeOK
<1>1. arm' \in Arms /\ grip' \in Grips
  BY <1>0, ServerElsewhere, TickMoves DEF ServerOK
<1>2. contact' \in BOOLEAN /\ confirmed' \in BOOLEAN
  <2>1. CASE Tick \/ Poll
    BY <1>0, <2>1 DEF Tick, Poll, Sense, ServerOK
  <2>2. CASE NewRun
    BY <1>0, <2>2 DEF NewRun, ServerOK
  <2>3. CASE UNCHANGED sensor
    BY <1>0, <2>3 DEF sensor, ServerOK
  <2>4. QED
    BY <2>1, <2>2, <2>3, ServerElsewhere
<1>3. QED
  BY <1>1, <1>2, BridgeTypes DEF ServerOK

LEMMA TypesStay ==
  ASSUME GraspInv, [Next]_vars
  PROVE  TypeOK'
  BY ScriptTypes, EarsTypes, QueueTypes, BridgeTypes, ServerTypes DEF GraspInv, TypeOK

-----------------------------------------------------------------------------
(* The rest of the invariant, action by action.                            *)

LEMMA LastOfTail ==
  ASSUME NEW S, NEW s \in Seq(S), s # <<>>, NEW kept
  PROVE  LastOf(Tail(s), Head(s)) = LastOf(s, kept)
<1> DEFINE t == Tail(s)
           n == Len(s)
<1>1. n \in Nat \ {0} /\ s[1] = Head(s)
  BY EmptySeq
<1>2. t \in Seq(S) /\ Len(t) = n - 1 /\ \A i \in 1 .. Len(t) : t[i] = s[i + 1]
  BY HeadTailProperties
<1>3. t = <<>> <=> Len(t) = 0
  BY <1>2, EmptySeq
<1> HIDE DEF t, n
<1>4. CASE n = 1
  <2>1. t = <<>>
    BY <1>2, <1>3, <1>4
  <2>2. QED
    BY <1>1, <1>4, <2>1 DEF LastOf, n, t
<1>5. CASE n > 1
  <2>1. t # <<>>
    BY <1>1, <1>2, <1>3, <1>5
  <2>2. n - 1 \in 1 .. Len(t) /\ n - 1 + 1 = n
    BY <1>1, <1>2, <1>5
  <2>3. t[Len(t)] = s[n]
    BY <1>2, <2>2
  <2>4. QED
    BY <2>1, <2>3 DEF LastOf, n, t
<1>6. QED
  BY <1>1, <1>4, <1>5

LEMMA LastOfAppend ==
  ASSUME NEW S, NEW s \in Seq(S), NEW v \in S, NEW kept
  PROVE  LastOf(Append(s, v), kept) = v
<1>1. /\ Append(s, v) # <<>> /\ Len(Append(s, v)) = Len(s) + 1
      /\ Append(s, v)[Len(s) + 1] = v
  BY AppendProperties, LenProperties
<1>2. QED
  BY <1>1 DEF LastOf

\* What is sent last is the order; other queues keep theirs.
LEMMA SentOrder ==
  ASSUME NEW q \in Queues, NEW kept
  PROVE  /\ \A v \in Arms  : LastOf(Sent(q, "arm", v).arm, kept) = v
         /\ \A v \in BOOLEAN : LastOf(Sent(q, "flag", v).flag, kept) = v
         /\ \A v : Sent(q, "grip", v).arm = q.arm /\ Sent(q, "grip", v).flag = q.flag
         /\ \A v : Sent(q, "arm", v).flag = q.flag
         /\ \A v : Sent(q, "flag", v).arm = q.arm
<1>1. q.arm \in Seq(Arms) /\ q.flag \in Seq(BOOLEAN)
  BY DEF Queues
<1>2. ASSUME NEW v \in Arms PROVE LastOf(Sent(q, "arm", v).arm, kept) = v
  <2>1. Sent(q, "arm", v).arm = Append(q.arm, v)
    BY DEF Sent, Queues
  <2>2. LastOf(Append(q.arm, v), kept) = v
    <3>1. q.arm \in Seq(Arms) /\ v \in Arms
      BY <1>1, <1>2
    <3>2. QED
      BY ONLY <3>1, LastOfAppend, Zenon
  <2>3. QED
    BY <2>1, <2>2
<1>3. ASSUME NEW v \in BOOLEAN PROVE LastOf(Sent(q, "flag", v).flag, kept) = v
  <2>1. Sent(q, "flag", v).flag = Append(q.flag, v)
    BY DEF Sent, Queues
  <2>2. LastOf(Append(q.flag, v), kept) = v
    <3>1. q.flag \in Seq(BOOLEAN) /\ v \in BOOLEAN
      BY <1>1, <1>3
    <3>2. QED
      BY ONLY <3>1, LastOfAppend, Zenon
  <2>3. QED
    BY <2>1, <2>2
<1>4. ASSUME NEW v
      PROVE  /\ Sent(q, "grip", v).arm = q.arm /\ Sent(q, "grip", v).flag = q.flag
             /\ Sent(q, "arm", v).flag = q.flag
             /\ Sent(q, "flag", v).arm = q.arm
  BY DEF Sent, Queues
<1>5. QED
  BY <1>2, <1>3, <1>4

\* What the steps below keep.
Fits == Counts /\ Known /\ Believed /\ Steady /\ Ordered /\ Reported

\* Outside Call, Hold, Plan, Decide, Handle and CacheExpires the orders stand.
LEMMA OrdersStand ==
  ASSUME UNCHANGED <<up, cache>>
  PROVE  UNCHANGED <<ArmOrder, FlagOrder>>
  BY DEF ArmOrder, FlagOrder

LEMMA AwaitRuntimeFits ==
  ASSUME GraspInv, AwaitRuntime
  PROVE  Fits'
<1>1. /\ UNCHANGED <<ArmOrder, FlagOrder>>
      /\ UNCHANGED <<phase, k, goal, outcome, runs, ears, up, call, bridge, server, sensor>>
      /\ pc = "start" /\ pc' \in {"plan", "done"} /\ result' # "lifted"
      /\ pc' = "plan" => tcp /\ state.grip # None /\ ~seen.contact
  <2>1. UNCHANGED <<up, cache>>
    BY DEF AwaitRuntime, bridge
  <2>2. result # "lifted"
    BY DEF AwaitRuntime, GraspInv, Reported
  <2>3. QED
    BY <2>1, <2>2, OrdersStand DEF AwaitRuntime, GoTo, End, TactileClear
<1>2. Counts' /\ Known' /\ Believed'
  BY <1>1 DEF GraspInv, Counts, Known, Believed, UnderWay, ears, bridge, server, sensor
<1>3. Steady'
  BY <1>1 DEF GraspInv, Steady, bridge, server
<1>4. Ordered'
  BY <1>1 DEF GraspInv, Ordered, UnderWay, Goal, bridge, server
<1>5. Reported'
  BY <1>1 DEF GraspInv, Reported, Goal, bridge, server
<1>6. QED
  BY <1>2, <1>3, <1>4, <1>5 DEF Fits

LEMMA PlanFits ==
  ASSUME GraspInv, Plan
  PROVE  Fits'
<1>1. /\ UNCHANGED <<phase, k, base, goal, outcome, runs, ears, call, bridge, server, sensor>>
      /\ pc = "plan" /\ result' # "lifted"
      /\ \/ pc' = "call" /\ up' = FlagCleared /\ base + OpenDelta <= MaxGrip
         \/ pc' = "done" /\ up' = up
  BY DEF Plan, GraspInv, Reported, GoTo, End
<1>2. /\ UNCHANGED ArmOrder
      /\ pc' = "call" => ~FlagOrder'
  <2>1. CASE pc' = "call"
    <3>1. up' = Sent(up, "flag", FALSE) /\ cache' = cache /\ up \in Queues
      BY <1>1, <2>1 DEF FlagCleared, bridge, GraspInv, TypeOK
    <3>2. Sent(up, "flag", FALSE).arm = up.arm /\ LastOf(Sent(up, "flag", FALSE).flag, cache.flag) = FALSE
      BY <3>1, SentOrder
    <3>3. QED
      BY <3>1, <3>2 DEF ArmOrder, FlagOrder
  <2>2. CASE pc' = "done"
    BY <1>1, <2>2 DEF ArmOrder, bridge
  <2>3. QED
    BY <1>1, <2>1, <2>2
<1>3. Counts' /\ Known' /\ Believed'
  BY <1>1 DEF GraspInv, Counts, Known, Believed, UnderWay, ears, bridge, server, sensor
<1>4. Steady'
  BY <1>1 DEF GraspInv, Steady, bridge, server
<1>5. Ordered'
  BY <1>1, <1>2 DEF GraspInv, Steady, Ordered, UnderWay, Goal, bridge, server
<1>6. Reported'
  BY <1>1 DEF GraspInv, Reported, Goal, bridge, server
<1>7. QED
  BY <1>3, <1>4, <1>5, <1>6 DEF Fits

\* Whatever the phase, the arm's order after the call is its goal.
LEMMA PublishedOrder ==
  ASSUME GraspInv, pc = "call"
  PROVE  /\ LastOf(Published.arm, cache.arm) = Goal
         /\ Published.flag = up.flag
<1>1. up \in Queues /\ phase \in {"pre", "down", "close", "lift"}
  BY DEF GraspInv, TypeOK, ScriptOK
<1>2. CASE phase = "pre"
  BY <1>1, <1>2, SentOrder, Waypoints DEF Published, Goal, GoalOf
<1>3. CASE phase = "down"
  <2>1. k \in 1 .. Descents
    BY <1>3 DEF GraspInv, Counts
  <2>2. Sent(up, "arm", Down(k)) \in Queues /\ Down(k) \in Arms
    BY <1>1, <2>1, SentTypes, Waypoints
  <2>3. Published = Sent(Sent(up, "arm", Down(k)), "grip", RampTo(k)) /\ Goal = Down(k)
    BY <1>3 DEF Published, Goal, GoalOf
  <2> DEFINE q == Sent(up, "arm", Down(k))
  <2>4. LastOf(q.arm, cache.arm) = Down(k) /\ q.flag = up.flag
    BY <1>1, <2>2, SentOrder
  <2> HIDE DEF q
  <2>5. \A v : Sent(q, "grip", v).arm = q.arm /\ Sent(q, "grip", v).flag = q.flag
    BY <2>2, SentOrder DEF q
  <2>6. QED
    BY <2>3, <2>4, <2>5 DEF q
<1>4. CASE phase = "close"
  <2>1. Published = Sent(up, "grip", CloseTarget) /\ ArmOrder = Goal
    BY <1>4 DEF Published, GraspInv, Ordered
  <2>2. QED
    BY <1>1, <2>1, SentOrder DEF ArmOrder
<1>5. CASE phase = "lift"
  <2>1. k \in 1 .. Lifts
    BY <1>5 DEF GraspInv, Counts
  <2>2. Sent(up, "arm", Lift(k)) \in Queues /\ Lift(k) \in Arms
    BY <1>1, <2>1, SentTypes, Waypoints
  <2>3. Published = Sent(Sent(up, "arm", Lift(k)), "grip", goal) /\ Goal = Lift(k)
    BY <1>5 DEF Published, Goal, GoalOf
  <2> DEFINE q == Sent(up, "arm", Lift(k))
  <2>4. LastOf(q.arm, cache.arm) = Lift(k) /\ q.flag = up.flag
    BY <1>1, <2>2, SentOrder
  <2> HIDE DEF q
  <2>5. \A v : Sent(q, "grip", v).arm = q.arm /\ Sent(q, "grip", v).flag = q.flag
    BY <2>2, SentOrder DEF q
  <2>6. QED
    BY <2>3, <2>4, <2>5 DEF q
<1>6. QED
  BY <1>1, <1>2, <1>3, <1>4, <1>5

LEMMA CallFits ==
  ASSUME GraspInv, Call
  PROVE  Fits'
<1>1. /\ UNCHANGED <<phase, k, base, runs, ears, bridge, server, sensor>>
      /\ pc = "call" /\ up' = Published /\ result' = result /\ result # "lifted"
      /\ call = "none"
      /\ \/ call' = "asked" /\ pc' = "wait"
         \/ call' = call /\ pc' = "answer" /\ outcome' = "failed"
  BY DEF Call, GoTo, GraspInv, Reported, Steady
<1>2. ArmOrder' = Goal' /\ UNCHANGED <<FlagOrder, Goal>>
  BY <1>1, PublishedOrder DEF ArmOrder, FlagOrder, Goal, bridge
<1>3. Counts' /\ Known' /\ Believed'
  BY <1>1 DEF GraspInv, Counts, Known, Believed, UnderWay, ears, bridge, server, sensor
<1>4. Steady'
  BY <1>1 DEF GraspInv, Steady, bridge, server
<1>5. Ordered'
  BY <1>1, <1>2 DEF GraspInv, Ordered, UnderWay, bridge, server
<1>6. Reported'
  BY <1>1, <1>2 DEF GraspInv, Reported, bridge, server
<1>7. QED
  BY <1>3, <1>4, <1>5, <1>6 DEF Fits

\* CloseTimeout and Gate go on or end the run.
LEMMA GiveUpFits ==
  ASSUME GraspInv, CloseTimeout \/ Gate
  PROVE  Fits'
<1>1. /\ UNCHANGED <<phase, k, base, goal, outcome, runs, ears, up, call, bridge, server, sensor>>
      /\ pc \in {"call", "gate"} /\ pc' \in {"call", "done"}
      /\ result # "lifted" /\ result' # "lifted"
  BY DEF CloseTimeout, Gate, GoTo, End, GraspInv, Reported
<1>2. UNCHANGED <<ArmOrder, FlagOrder, Goal>>
  BY <1>1, OrdersStand DEF Goal, bridge
<1>3. Counts' /\ Known' /\ Believed'
  BY <1>1 DEF GraspInv, Counts, Known, Believed, UnderWay, ears, bridge, server, sensor
<1>4. Steady'
  BY <1>1 DEF GraspInv, Steady, bridge, server
<1>5. Ordered'
  BY <1>1, <1>2 DEF GraspInv, Ordered, UnderWay, bridge, server
<1>6. Reported'
  BY <1>1, <1>2 DEF GraspInv, Reported, bridge, server
<1>7. QED
  BY <1>3, <1>4, <1>5, <1>6 DEF Fits

LEMMA AnswerFits ==
  ASSUME GraspInv, Answer
  PROVE  Fits'
<1>1. /\ UNCHANGED <<phase, k, base, goal, runs, ears, up, bridge, server, sensor>>
      /\ pc = "wait" /\ pc' = "answer" /\ call' = "none"
      /\ outcome' = "failed" \/ (call \in Answers /\ outcome' = call)
      /\ result # "lifted" /\ result' # "lifted"
  BY DEF Answer, GoTo, GraspInv, Reported
<1>2. UNCHANGED <<ArmOrder, FlagOrder, Goal>>
  BY <1>1, OrdersStand DEF Goal, bridge
<1>3. Counts' /\ Known' /\ Believed'
  BY <1>1 DEF GraspInv, Counts, Known, Believed, UnderWay, ears, bridge, server, sensor
<1>4. Steady'
  BY <1>1 DEF GraspInv, Steady, bridge, server
<1>5. Ordered'
  BY <1>1, <1>2 DEF GraspInv, Ordered, UnderWay, bridge, server
<1>6. Reported'
  BY <1>1, <1>2 DEF GraspInv, Reported, Answers, bridge, server
<1>7. QED
  BY <1>3, <1>4, <1>5, <1>6 DEF Fits

LEMMA AfterMoveFits ==
  ASSUME GraspInv, AfterMove
  PROVE  Fits'
<1>0. Descents \in Nat \ {0} /\ Lifts \in Nat \ {0} /\ k \in Nat /\ phase \in {"pre", "down", "close", "lift"}
  BY PlanAssumption DEF GraspInv, TypeOK, ScriptOK
<1>1. /\ UNCHANGED <<base, goal, outcome, runs, ears, up, call, bridge, server, sensor>>
      /\ pc = "answer" /\ phase # "close" /\ result # "lifted"
      /\ call = "none"
  BY DEF AfterMove, GraspInv, Reported, Steady
<1>2. outcome # "failed" => job = None /\ arm = Goal
  BY <1>1 DEF GraspInv, Reported
<1>3. \/ pc' = "done" /\ result' # "lifted" /\ UNCHANGED <<phase, k>>
      \/ pc' = "done" /\ result' = "lifted" /\ UNCHANGED <<phase, k>>
         /\ phase = "lift" /\ k = Lifts /\ job = None /\ arm = Lift(Lifts)
      \/ pc' = "hold" /\ result' # "lifted" /\ UNCHANGED <<phase, k>>
         /\ phase = "down" /\ job = None /\ arm = Bottom
      \/ pc' \in {"call", "gate"} /\ result' # "lifted" /\ phase' = "down" /\ k' \in 1 .. Descents
      \/ pc' \in {"call", "gate"} /\ result' # "lifted" /\ phase' = "lift" /\ k' \in 1 .. Lifts /\ phase = "lift"
  <2>1. CASE outcome = "failed"
    BY <1>1, <2>1 DEF AfterMove, End
  <2>2. CASE outcome # "failed" /\ phase = "pre"
    BY <1>0, <1>1, <2>2 DEF AfterMove, GoTo
  <2>3. CASE outcome # "failed" /\ phase = "down"
    <3>1. k \in 1 .. Descents
      BY <2>3 DEF GraspInv, Counts
    <3>2. k = Descents => arm = Bottom
      BY <1>2, <2>3, Waypoints DEF Goal, GoalOf
    <3>3. QED
      BY <1>0, <1>1, <1>2, <2>3, <3>1, <3>2 DEF AfterMove, GoTo
  <2>4. CASE outcome # "failed" /\ phase = "lift"
    <3>1. k \in 1 .. Lifts
      BY <2>4 DEF GraspInv, Counts
    <3>2. arm = Lift(k)
      BY <1>2, <2>4 DEF Goal, GoalOf
    <3>3. CASE k < Lifts
      BY <1>0, <1>1, <2>4, <3>1, <3>3 DEF AfterMove, GoTo
    <3>4. CASE k = Lifts
      BY <1>0, <1>1, <1>2, <2>4, <3>2, <3>4 DEF AfterMove, End
    <3>5. QED
      BY <1>0, <3>1, <3>3, <3>4
  <2>5. QED
    BY <1>0, <1>1, <2>1, <2>2, <2>3, <2>4
<1>4. UNCHANGED <<ArmOrder, FlagOrder>>
  BY <1>1, OrdersStand DEF bridge
<1>5. Counts'
  BY <1>1, <1>3 DEF GraspInv, Counts, UnderWay
<1>6. Known' /\ Believed'
  BY <1>1, <1>3 DEF GraspInv, Known, Believed, UnderWay, ears, bridge, server, sensor
<1>7. Steady'
  BY <1>1 DEF GraspInv, Steady, bridge, server
<1>8. Ordered'
  BY <1>1, <1>3, <1>4 DEF GraspInv, Ordered, UnderWay, bridge, server
<1>9. Reported'
  BY <1>1, <1>3 DEF GraspInv, Reported, bridge, server
<1>10. QED
  BY <1>5, <1>6, <1>7, <1>8, <1>9 DEF Fits

LEMMA HoldFits ==
  ASSUME GraspInv, Hold
  PROVE  Fits'
<1>1. /\ UNCHANGED <<k, base, outcome, runs, ears, call, bridge, server, sensor>>
      /\ pc = "hold" /\ phase = "down" /\ job = None /\ arm = Bottom
      /\ call = "none" /\ result # "lifted" /\ result' # "lifted"
      /\ \/ pc' = "done" /\ UNCHANGED <<phase, up>>
         \/ /\ pc' = "call" /\ phase' = "close" /\ state.arm # None
            /\ up' = Sent(Sent(up, "arm", state.arm), "flag", TRUE)
  BY DEF Hold, GoTo, End, GraspInv, Reported, Steady
<1>2. CASE pc' = "done"
  <2>1. UNCHANGED <<ArmOrder, FlagOrder, Goal>>
    BY <1>1, <1>2, OrdersStand DEF Goal, bridge
  <2>2. Counts' /\ Known' /\ Believed'
    BY <1>1, <1>2 DEF GraspInv, Counts, Known, Believed, UnderWay, ears, bridge, server, sensor
  <2>3. Steady'
    BY <1>1 DEF GraspInv, Steady, bridge, server
  <2>4. Ordered' /\ Reported'
    BY <1>1, <1>2, <2>1 DEF GraspInv, Ordered, Reported, UnderWay, bridge, server
  <2>5. QED
    BY <2>2, <2>3, <2>4 DEF Fits
<1>3. CASE pc' = "call"
  <2>1. state.arm = Bottom /\ Bottom \in Arms /\ up \in Queues
    BY <1>1, <1>3, Waypoints DEF GraspInv, Known, TypeOK
  <2> DEFINE q == Sent(up, "arm", Bottom)
  <2>2. q \in Queues /\ LastOf(q.arm, cache.arm) = Bottom
    <3>1. q \in Queues
      BY <2>1, SentTypes
    <3>2. \A v \in Arms : LastOf(Sent(up, "arm", v).arm, cache.arm) = v
      BY <2>1, SentOrder
    <3>3. LastOf(q.arm, cache.arm) = Bottom
      BY <2>1, <3>2
    <3>4. QED
      BY <3>1, <3>3
  <2> HIDE DEF q
  <2>3. up' = Sent(q, "flag", TRUE)
    BY <1>1, <1>3, <2>1 DEF q
  <2>4. Sent(q, "flag", TRUE).arm = q.arm
    BY <2>2, SentOrder
  <2>5. ArmOrder' = Bottom /\ Goal' = Bottom
    BY <1>1, <1>3, <2>2, <2>3, <2>4 DEF ArmOrder, Goal, GoalOf, bridge
  <2>6. Counts' /\ Known' /\ Believed'
    BY <1>1, <1>3 DEF GraspInv, Counts, Known, Believed, UnderWay, ears, bridge, server, sensor
  <2>7. Steady'
    BY <1>1 DEF GraspInv, Steady, bridge, server
  <2>8. Ordered' /\ Reported'
    BY <1>1, <1>3, <2>5 DEF GraspInv, Ordered, Reported, UnderWay, bridge, server
  <2>9. QED
    BY <2>6, <2>7, <2>8 DEF Fits
<1>4. QED
  BY <1>1, <1>2, <1>3

LEMMA DecideFits ==
  ASSUME GraspInv, Decide
  PROVE  Fits'
<1>0. Lifts \in Nat \ {0}
  BY PlanAssumption
<1>1. /\ UNCHANGED <<base, outcome, runs, ears, call, bridge, server, sensor>>
      /\ pc = "answer" /\ phase = "close" /\ arm = Bottom
      /\ call = "none" /\ result # "lifted" /\ result' # "lifted"
      /\ \/ pc' \in {"call", "done"} /\ UNCHANGED <<phase, k, up>>
         \/ pc' = "gate" /\ phase' = "lift" /\ k' = 1 /\ up' = FlagCleared /\ seen.contact
  BY DEF Decide, GoTo, End, ContactHeard, GraspInv, Reported, Steady
<1>2. CASE pc' \in {"call", "done"}
  <2>0. UNCHANGED <<phase, k, up>>
    BY <1>1, <1>2
  <2>1. UNCHANGED <<ArmOrder, FlagOrder, Goal>>
    BY <1>1, <2>0, OrdersStand DEF Goal, bridge
  <2>2. Counts' /\ Known' /\ Believed'
    BY <1>1, <1>2, <2>0 DEF GraspInv, Counts, Known, Believed, UnderWay, ears, bridge, server, sensor
  <2>3. Steady'
    BY <1>1 DEF GraspInv, Steady, bridge, server
  <2>4. Ordered' /\ Reported'
    BY <1>1, <1>2, <2>0, <2>1 DEF GraspInv, Ordered, Reported, UnderWay, bridge, server
  <2>5. QED
    BY <2>2, <2>3, <2>4 DEF Fits
<1>3. CASE pc' = "gate"
  <2>1. up \in Queues /\ confirmed
    BY <1>1, <1>3 DEF GraspInv, TypeOK, Believed, UnderWay
  <2>2. LastOf(Sent(up, "flag", FALSE).flag, cache.flag) = FALSE
    BY <2>1, SentOrder
  <2>3. ~FlagOrder'
    BY <1>1, <1>3, <2>2 DEF FlagOrder, FlagCleared, bridge
  <2>4. Counts' /\ Known' /\ Believed'
    BY <1>0, <1>1, <1>3, <2>1 DEF GraspInv, Counts, Known, Believed, UnderWay, ears, bridge, server, sensor
  <2>5. Steady'
    BY <1>1 DEF GraspInv, Steady, bridge, server
  <2>6. Ordered' /\ Reported'
    BY <1>1, <1>3, <2>3 DEF GraspInv, Ordered, Reported, UnderWay, bridge, server
  <2>7. QED
    BY <2>4, <2>5, <2>6 DEF Fits
<1>4. QED
  BY <1>1, <1>2, <1>3

\* What the script hears is where the arm is and what the sensor confirmed.
LEMMA HearingFits ==
  ASSUME GraspInv, (\E topic \in Topics : Receive(topic)) \/ Expire
  PROVE  Fits'
<1>0. /\ seen \in [ready : BOOLEAN, contact : BOOLEAN, fresh : BOOLEAN]
      /\ state \in [arm : Arms \cup {None}, grip : Grips \cup {None}]
  BY DEF GraspInv, TypeOK, EarsOK
<1>1. UNCHANGED <<script, down, up, call, bridge, server, sensor>>
  BY DEF Receive, Expire
<1>2. /\ seen'.contact = seen.contact \/ (seen'.contact = down.contact /\ pc # "done")
      /\ state'.arm \in {state.arm, None} \/ (state'.arm = down.arm /\ "joints" \in new)
      /\ state'.grip = state.grip \/ (state'.grip = down.grip /\ "joints" \in new)
      /\ "joints" \in new' => "joints" \in new
  <2>1. ASSUME NEW topic \in Topics, Receive(topic)
        PROVE  /\ seen'.contact = seen.contact \/ seen'.contact = down.contact
               /\ state'.arm \in {state.arm, None} \/ (state'.arm = down.arm /\ "joints" \in new)
               /\ state'.grip = state.grip \/ (state'.grip = down.grip /\ "joints" \in new)
               /\ "joints" \in new' => "joints" \in new
               /\ pc # "done"
    <3>1. CASE topic = "ready"
      <4>1. state' = state /\ seen' = [seen EXCEPT !.ready = down.ready, !.fresh = TRUE]
            /\ new' = new \ {"ready"} /\ pc # "done"
        BY <2>1, <3>1 DEF Receive
      <4>2. seen'.contact = seen.contact
        BY <1>0, <4>1
      <4>3. QED
        BY <4>1, <4>2
    <3>2. CASE topic = "contact"
      <4>1. state' = state /\ seen' = [seen EXCEPT !.contact = down.contact, !.fresh = TRUE]
            /\ new' = new \ {"contact"} /\ pc # "done"
        BY <2>1, <3>2 DEF Receive
      <4>2. seen'.contact = down.contact
        BY <1>0, <4>1
      <4>3. QED
        BY <4>1, <4>2
    <3>3. CASE topic = "joints"
      BY <1>0, <2>1, <3>3 DEF Receive
    <3>4. QED
      BY <3>1, <3>2, <3>3 DEF Topics
  <2>2. CASE Expire
    <3>1. CASE seen' = [seen EXCEPT !.fresh = FALSE] /\ state' = state
      <4>1. seen'.contact = seen.contact /\ new' = new
        BY <1>0, <2>2, <3>1 DEF Expire
      <4>2. QED
        BY <3>1, <4>1
    <3>2. CASE state' = [state EXCEPT !.arm = None] /\ seen' = seen
      <4>1. state'.arm = None /\ state'.grip = state.grip /\ new' = new
        BY <1>0, <2>2, <3>2 DEF Expire
      <4>2. QED
        BY <3>2, <4>1
    <3>3. QED
      BY <2>2, <3>1, <3>2 DEF Expire
  <2>3. QED
    BY <2>1, <2>2
<1>3. UNCHANGED <<ArmOrder, FlagOrder, Goal>>
  BY <1>1, OrdersStand DEF Goal, script, bridge
<1>4. Counts' /\ Steady' /\ Ordered' /\ Reported'
  BY <1>1, <1>3 DEF GraspInv, Counts, Steady, Ordered, Reported, UnderWay, script, bridge, server
<1>5. Known'
  BY <1>1, <1>2 DEF GraspInv, Known, UnderWay, script, server
<1>6. Believed'
  BY <1>1, <1>2 DEF GraspInv, Believed, UnderWay, script, bridge, sensor
<1>7. QED
  BY <1>4, <1>5, <1>6 DEF Fits

LEMMA NewRunFits ==
  ASSUME GraspInv, NewRun
  PROVE  Fits'
<1>1. /\ UNCHANGED <<down, up, call, busy, cache, tcp, job, arm, grip>>
      /\ tcp => down.contact = confirmed'
      /\ pc' = "start" /\ phase' = "pre" /\ result' = "none" /\ call = "none"
      /\ state' = [arm |-> None, grip |-> None]
      /\ new' = {"ready", "contact"}
  BY DEF NewRun, Deaf, bridge, server, GraspInv, Steady
<1>2. UNCHANGED <<ArmOrder, FlagOrder>>
  BY <1>1, OrdersStand
<1>3. Counts' /\ Known' /\ Believed'
  BY <1>1 DEF Counts, Known, Believed, UnderWay
<1>4. Steady'
  BY <1>1 DEF GraspInv, Steady
<1>5. Ordered' /\ Reported'
  BY <1>1, <1>2 DEF GraspInv, Ordered, Reported, UnderWay
<1>6. QED
  BY <1>3, <1>4, <1>5 DEF Fits

\* Taking an order from its queue does not change which is the last.
LEMMA HandleFits ==
  ASSUME GraspInv, NEW topic \in Orders, Handle(topic)
  PROVE  Fits'
<1>0. /\ up \in Queues
      /\ cache \in [arm : Arms \cup {None}, grip : Grips \cup {None}, flag : BOOLEAN]
  BY DEF GraspInv, TypeOK, BridgeOK
<1>1. /\ UNCHANGED <<script, ears, call, busy, tcp, server, sensor>>
      /\ up[topic] # <<>> /\ up' = [up EXCEPT ![topic] = Tail(@)]
  BY DEF Handle
<1>2. ASSUME topic = "arm" PROVE UNCHANGED <<ArmOrder, FlagOrder>>
  <2>1. up.arm \in Seq(Arms) /\ up.arm # <<>> /\ up'.arm = Tail(up.arm) /\ up'.flag = up.flag
    BY <1>0, <1>1, <1>2 DEF Queues
  <2>2. cache' = [cache EXCEPT !.arm = Head(up.arm)]
    BY <1>2 DEF Handle
  <2>3. cache'.arm = Head(up.arm) /\ cache'.flag = cache.flag
    BY <1>0, <2>2
  <2>4. ArmOrder' = ArmOrder
    BY <2>1, <2>3, LastOfTail DEF ArmOrder
  <2>5. FlagOrder' = FlagOrder
    BY <2>1, <2>3 DEF FlagOrder
  <2>6. QED
    BY <2>4, <2>5
<1>3. ASSUME topic = "grip" PROVE UNCHANGED <<ArmOrder, FlagOrder>>
  <2>1. up'.arm = up.arm /\ up'.flag = up.flag
    BY <1>0, <1>1, <1>3 DEF Queues
  <2>2. cache' = [cache EXCEPT !.grip = Head(up.grip)]
    BY <1>3 DEF Handle
  <2>3. cache'.arm = cache.arm /\ cache'.flag = cache.flag
    BY <1>0, <2>2
  <2>4. QED
    BY <2>1, <2>3 DEF ArmOrder, FlagOrder
<1>4. ASSUME topic = "flag" PROVE UNCHANGED <<ArmOrder, FlagOrder>>
  <2>1. up.flag \in Seq(BOOLEAN) /\ up.flag # <<>> /\ up'.flag = Tail(up.flag) /\ up'.arm = up.arm
    BY <1>0, <1>1, <1>4 DEF Queues
  <2>2. cache' = [cache EXCEPT !.flag = Head(up.flag)]
    BY <1>4 DEF Handle
  <2>3. cache'.flag = Head(up.flag) /\ cache'.arm = cache.arm
    BY <1>0, <2>2
  <2>4. FlagOrder' = FlagOrder
    BY <2>1, <2>3, LastOfTail DEF FlagOrder
  <2>5. ArmOrder' = ArmOrder
    BY <2>1, <2>3 DEF ArmOrder
  <2>6. QED
    BY <2>4, <2>5
<1>5. UNCHANGED <<ArmOrder, FlagOrder>>
  BY <1>2, <1>3, <1>4 DEF Orders
<1>6. Counts' /\ Known' /\ Believed' /\ Steady'
  BY <1>1 DEF GraspInv, Counts, Known, Believed, Steady, UnderWay, script, ears, server, sensor
<1>7. Ordered' /\ Reported'
  BY <1>1, <1>5 DEF GraspInv, Ordered, Reported, UnderWay, Goal, script, server
<1>8. QED
  BY <1>6, <1>7 DEF Fits

LEMMA CacheExpiresFits ==
  ASSUME GraspInv, CacheExpires
  PROVE  Fits'
<1>0. cache \in [arm : Arms \cup {None}, grip : Grips \cup {None}, flag : BOOLEAN]
  BY DEF GraspInv, TypeOK, BridgeOK
<1>1. /\ UNCHANGED <<script, ears, up, call, busy, tcp, server, sensor>>
  BY DEF CacheExpires
<1>2. cache'.arm = cache.arm
  BY <1>0 DEF CacheExpires
<1>3. cache'.flag => cache.flag
  BY <1>0 DEF CacheExpires
<1>4. UNCHANGED ArmOrder /\ (FlagOrder' => FlagOrder)
  BY <1>1, <1>2, <1>3 DEF ArmOrder, FlagOrder, LastOf
<1>5. Counts' /\ Known' /\ Believed' /\ Steady'
  BY <1>1 DEF GraspInv, Counts, Known, Believed, Steady, UnderWay, script, ears, server, sensor
<1>6. Ordered' /\ Reported'
  BY <1>1, <1>4 DEF GraspInv, Ordered, Reported, UnderWay, Goal, script, server
<1>7. QED
  BY <1>5, <1>6 DEF Fits

LEMMA PollFits ==
  ASSUME GraspInv, Poll
  PROVE  Fits'
<1>1. /\ UNCHANGED <<script, seen, state, up, call, busy, cache, server>>
      /\ job = None
      /\ confirmed' = (confirmed \/ contact')
  BY DEF Poll, Sense
<1>2. down'.contact = contact' /\ down'.arm = arm /\ down'.grip = grip
  BY DEF Poll
<1>3. grip # None
  BY Waypoints DEF GraspInv, TypeOK, ServerOK
<1>4. UNCHANGED <<ArmOrder, FlagOrder, Goal>>
  BY <1>1, OrdersStand DEF Goal, script
<1>5. Counts' /\ Known' /\ Believed'
  BY <1>1, <1>2, <1>3 DEF GraspInv, Counts, Known, Believed, UnderWay, script, server
<1>6. Steady'
  BY <1>1 DEF GraspInv, Steady, script, server
<1>7. Ordered' /\ Reported'
  BY <1>1, <1>4 DEF GraspInv, Ordered, Reported, UnderWay, script, server
<1>8. QED
  BY <1>5, <1>6, <1>7 DEF Fits

LEMMA PollFailsFits ==
  ASSUME GraspInv, PollFails
  PROVE  Fits'
<1>1. UNCHANGED <<script, ears, up, call, busy, cache, server, sensor>> /\ tcp' = FALSE
  BY DEF PollFails
<1>2. UNCHANGED <<ArmOrder, FlagOrder, Goal>>
  BY <1>1, OrdersStand DEF Goal, script
<1>3. Counts' /\ Known' /\ Believed' /\ Steady'
  BY <1>1 DEF GraspInv, Counts, Known, Believed, Steady, UnderWay, script, ears, server, sensor
<1>4. Ordered' /\ Reported'
  BY <1>1, <1>2 DEF GraspInv, Ordered, Reported, UnderWay, script, server
<1>5. QED
  BY <1>3, <1>4 DEF Fits

\* A request carries the present call's orders.
LEMMA ServeFits ==
  ASSUME GraspInv, Serve
  PROVE  Fits'
<1>1. /\ UNCHANGED <<script, ears, up, cache, tcp, arm, grip, sensor>>
      /\ call = "asked" /\ ~busy /\ up.arm = <<>> /\ up.flag = <<>>
      /\ pc = "wait" /\ result # "lifted"
  BY DEF Serve, Orders, GraspInv, Steady, Reported
<1>2. UNCHANGED <<ArmOrder, FlagOrder, Goal>>
  BY <1>1, OrdersStand DEF Goal, script
<1>3. cache.arm = Goal /\ (phase # "close" => ~cache.flag)
  BY <1>1 DEF GraspInv, Ordered, UnderWay, ArmOrder, FlagOrder, LastOf
<1>4. Counts' /\ Known' /\ Believed'
  BY <1>1 DEF GraspInv, Counts, Known, Believed, UnderWay, script, ears, sensor
<1>5. CASE ~tcp \/ cache.arm = None
  <2>1. call' = "failed" /\ UNCHANGED <<busy, job>>
    BY <1>5 DEF Serve
  <2>2. Steady' /\ Ordered' /\ Reported'
    BY <1>1, <1>2, <2>1 DEF GraspInv, Steady, Ordered, Reported, UnderWay, script
  <2>3. QED
    BY <1>4, <2>2 DEF Fits
<1>6. CASE tcp /\ cache.arm # None
  <2>1. /\ call' = "running" /\ busy' = TRUE
        /\ job' = [arm |-> cache.arm, grip |-> cache.grip, watch |-> cache.flag]
    BY <1>6 DEF Serve
  <2>2. job' # None
    <3>1. job' \in Jobs
      BY <1>6, <2>1 DEF Jobs, GraspInv, TypeOK, BridgeOK
    <3>2. QED
      BY <3>1, JobAssumption
  <2>3. job'.arm = Goal /\ (phase # "close" => ~job'.watch)
    BY <1>3, <2>1
  <2>4. Steady'
    BY <1>1, <2>1, <2>2 DEF GraspInv, Steady, script
  <2>5. Ordered'
    BY <1>1, <1>2, <2>1, <2>3 DEF GraspInv, Ordered, UnderWay, script
  <2>6. Reported'
    BY <1>1, <1>2, <2>1, <2>3 DEF GraspInv, Reported, Goal, GoalOf, script
  <2>7. QED
    BY <1>4, <2>4, <2>5, <2>6 DEF Fits
<1>7. QED
  BY <1>5, <1>6

LEMMA LinkLostFits ==
  ASSUME GraspInv, LinkLost
  PROVE  Fits'
<1>1. /\ UNCHANGED <<script, ears, up, cache, server, sensor>>
      /\ tcp' = FALSE /\ busy' = FALSE
      /\ call' = IF call = "running" THEN "failed" ELSE call
  BY DEF LinkLost, Return
<1>2. UNCHANGED <<ArmOrder, FlagOrder, Goal>>
  BY <1>1, OrdersStand DEF Goal, script
<1>3. Counts' /\ Known' /\ Believed' /\ Steady'
  BY <1>1 DEF GraspInv, Counts, Known, Believed, Steady, UnderWay, script, ears, server, sensor
<1>4. Ordered' /\ Reported'
  BY <1>1, <1>2 DEF GraspInv, Ordered, Reported, UnderWay, script, server
<1>5. QED
  BY <1>3, <1>4 DEF Fits

\* The end of a motion whose answer fits where the arm is.
LEMMA EndFits ==
  ASSUME GraspInv, NEW answer \in Answers, EndJob(answer),
         job # None, UNCHANGED <<script, up, cache, tcp>>, arm' \in {arm, job.arm},
         Known', Believed',
         call = "running" /\ answer # "failed" => arm' = Goal,
         call = "running" /\ answer = "tactile_contact_stop" => phase = "close"
  PROVE  Fits'
<1>1. /\ job' = None /\ busy' = FALSE
      /\ call' = IF call = "running" THEN answer ELSE call
  BY JobEnds DEF GraspInv
<1>2. UNCHANGED <<ArmOrder, FlagOrder, Goal>>
  BY OrdersStand DEF Goal, script
<1>3. Counts' /\ Steady'
  BY <1>1 DEF GraspInv, Counts, Steady, UnderWay, script, Answers
<1>4. Ordered'
  BY <1>1, <1>2 DEF GraspInv, Ordered, UnderWay, script, Answers
<1>5. Reported'
  BY <1>1, <1>2 DEF GraspInv, Reported, script, Answers
<1>6. QED
  BY <1>3, <1>4, <1>5 DEF Fits

\* What a motion leaves of the script's knowledge.
LEMMA TickHears ==
  ASSUME GraspInv, Tick
  PROVE  Known' /\ Believed'
<1>1. /\ UNCHANGED <<script, down, up, cache, tcp>>
      /\ confirmed' = (confirmed \/ contact')
  BY DEF Tick, Sense
<1>2. CASE arm' # arm
  <2>1. CatchUp
    BY <1>2 DEF Tick
  <2>2. /\ state'.arm = None /\ new' = {}
        /\ state'.grip = IF "joints" \in new THEN down.grip ELSE state.grip
        /\ seen'.contact = Heard("contact", seen.contact)
    BY <2>1 DEF CatchUp
  <2>3. Known'
    BY <1>1, <2>2 DEF GraspInv, Known, UnderWay, script
  <2>4. Believed'
    BY <1>1, <2>2 DEF GraspInv, Believed, UnderWay, Heard, script
  <2>5. QED
    BY <2>3, <2>4
<1>3. CASE arm' = arm
  <2>1. UNCHANGED <<seen, state, new>>
    BY <1>3 DEF Tick
  <2>2. QED
    BY <1>1, <1>3, <2>1 DEF GraspInv, Known, Believed, UnderWay, script
<1>4. QED
  BY <1>2, <1>3

LEMMA TickFits ==
  ASSUME GraspInv, Tick
  PROVE  Fits'
<1>1. /\ UNCHANGED <<script, down, up, cache, tcp>>
      /\ job # None /\ arm' \in {arm, job.arm} /\ Known' /\ Believed'
  BY TickHears, TickMoves DEF Tick, GraspInv
<1>2. CASE UNCHANGED <<job, busy, call>>
  <2>1. UNCHANGED <<ArmOrder, FlagOrder, Goal>>
    BY <1>1, OrdersStand DEF Goal, script
  <2>2. Counts' /\ Steady'
    BY <1>1, <1>2 DEF GraspInv, Counts, Steady, UnderWay, script
  <2>3. Ordered' /\ Reported'
    BY <1>1, <1>2, <2>1 DEF GraspInv, Ordered, Reported, UnderWay, script
  <2>4. QED
    BY <1>1, <2>2, <2>3 DEF Fits
<1>3. CASE EndJob("failed")
  BY <1>1, <1>3, EndFits DEF Answers
<1>4. CASE Watched /\ EndJob("tactile_contact_stop")
  <2>1. call = "running" => phase = "close"
    BY <1>4 DEF GraspInv, Ordered, Watched
  <2>2. phase = "close" => arm' = Goal
    BY <1>1 DEF GraspInv, Reported, Goal, GoalOf
  <2>3. QED
    BY <1>1, <1>4, <2>1, <2>2, EndFits DEF Answers
<1>5. QED
  BY <1>2, <1>3, <1>4 DEF Tick

LEMMA EndsFit ==
  ASSUME GraspInv, Complete \/ Abort
  PROVE  Fits'
<1>1. /\ UNCHANGED <<script, ears, up, cache, tcp, arm, grip, sensor>>
      /\ job # None
      /\ EndJob("failed") \/ (arm = job.arm /\ EndJob("completed"))
  BY DEF Complete, Abort
<1>2. Known' /\ Believed'
  BY <1>1 DEF GraspInv, Known, Believed, UnderWay, script, ears, sensor
<1>3. call = "running" => job.arm = Goal
  BY DEF GraspInv, Ordered
<1>4. QED
  BY <1>1, <1>2, <1>3, EndFits DEF Answers

-----------------------------------------------------------------------------
(* The theorems.                                                           *)

\* Initially and after every step the script's place, the orders and the motion
\* fit: the inductive invariant.
LEMMA GraspInvInit ==
  ASSUME Init
  PROVE  GraspInv
<1>1. Start \in Grips /\ 0 \in Arms /\ 1 \in 1 .. MaxRuns
  BY PlanAssumption DEF Grips, Arms
<1>2. ScriptOK
  BY <1>1 DEF Init, ScriptOK, Answers
<1>3. EarsOK /\ BridgeOK /\ ServerOK
  BY <1>1 DEF Init, EarsOK, BridgeOK, ServerOK, Topics
<1>4. up \in Queues
  BY EmptySeq DEF Init, Queues
<1>5. Counts /\ Known /\ Believed /\ Steady /\ Ordered /\ Reported
  BY DEF Init, Counts, Known, Believed, Steady, Ordered, Reported, UnderWay
<1>6. QED
  BY <1>2, <1>3, <1>4, <1>5 DEF GraspInv, TypeOK

LEMMA GraspInvStep ==
  ASSUME GraspInv, [Next]_vars
  PROVE  GraspInv'
<1> SUFFICES Fits'
  BY TypesStay DEF Fits, GraspInv
<1>1. CASE Script
  BY <1>1, AwaitRuntimeFits, PlanFits, CallFits, GiveUpFits, AnswerFits, AfterMoveFits, HoldFits, DecideFits
     DEF Script
<1>2. CASE (\E topic \in Topics : Receive(topic)) \/ Expire \/ NewRun
  BY <1>2, HearingFits, NewRunFits
<1>3. CASE Bridge
  BY <1>3, HandleFits, CacheExpiresFits, PollFits, PollFailsFits, ServeFits, LinkLostFits DEF Bridge
<1>4. CASE Tick \/ Complete \/ Abort
  BY <1>4, TickFits, EndsFit
<1>5. CASE UNCHANGED vars
  <2>1. UNCHANGED <<ArmOrder, FlagOrder, Goal>>
    BY <1>5, OrdersStand DEF vars, script, bridge, Goal
  <2>2. Counts' /\ Known' /\ Believed' /\ Steady'
    BY <1>5 DEF GraspInv, Counts, Known, Believed, Steady, UnderWay, vars, script, ears, bridge, server, sensor
  <2>3. Ordered' /\ Reported'
    BY <1>5, <2>1 DEF GraspInv, Ordered, Reported, UnderWay, vars, script, bridge, server
  <2>4. QED
    BY <2>2, <2>3 DEF Fits
<1>6. QED
  BY <1>1, <1>2, <1>3, <1>4, <1>5 DEF Next

\* In every state of every run, for every plan: what the bridge is told, what the
\* server moves and what the script believes fit the step the script is at.
THEOREM GraspInvariant == Spec => []GraspInv
<1>1. Init => GraspInv
  BY GraspInvInit
<1>2. GraspInv /\ [Next]_vars => GraspInv'
  BY GraspInvStep
<1>3. QED
  BY <1>1, <1>2, PTL DEF Spec

\* Every variable keeps its type; the gripper never leaves its range, whatever
\* the ramp, the step and the limit.
THEOREM TypeCorrect == Spec => []TypeOK
<1>1. GraspInv => TypeOK
  BY DEF GraspInv
<1>2. QED
  BY <1>1, GraspInvariant, PTL

\* The closing holds the arm at the bottom of the descent, whatever expired,
\* failed or was left over from the run before.
THEOREM ClosesAtBottomHolds == Spec => []ClosesAtBottom
<1>1. GraspInv => ClosesAtBottom
  BY DEF GraspInv, Reported, ClosesAtBottom
<1>2. QED
  BY <1>1, GraspInvariant, PTL

\* A run that reports the lift has the arm at the last lift waypoint.
THEOREM LiftCompletedMeansLiftedHolds == Spec => []LiftCompletedMeansLifted
<1>1. GraspInv => LiftCompletedMeansLifted
  BY DEF GraspInv, Reported, LiftCompletedMeansLifted
<1>2. QED
  BY <1>1, GraspInvariant, PTL

LEMMA JobElsewhere ==
  ASSUME [Next]_vars, job = None
  PROVE  Serve \/ job' = None
<1>1. CASE Script \/ UNCHANGED vars
  BY <1>1 DEF Script, AwaitRuntime, Plan, Call, CloseTimeout, Answer, AfterMove, Hold, Decide, Gate, vars, server
<1>2. CASE (\E topic \in Topics : Receive(topic)) \/ Expire \/ NewRun
  BY <1>2 DEF Receive, Expire, NewRun, server
<1>3. CASE (\E topic \in Orders : Handle(topic)) \/ CacheExpires \/ Poll \/ PollFails \/ LinkLost
  BY <1>3 DEF Handle, CacheExpires, Poll, PollFails, LinkLost, server
<1>4. QED
  BY <1>1, <1>2, <1>3 DEF Next, Bridge, Tick, Complete, Abort

\* No lift segment starts before the sensor has confirmed contact in this run.
THEOREM LiftOnlyAfterContactHolds == Spec => LiftOnlyAfterContact
<1> DEFINE A == job = None /\ job' # None /\ job'.arm > Bottom => confirmed
<1>1. ASSUME GraspInv, [Next]_vars PROVE [A]_vars
  <2>1. CASE Serve /\ job' # None
    <3>1. call = "asked" /\ pc = "wait" /\ up.arm = <<>>
      BY <1>1, <2>1 DEF Serve, Orders, GraspInv, Steady
    <3>2. job = None => job'.arm = cache.arm
      BY <2>1 DEF Serve
    <3>3. job = None => job'.arm = Goal
      BY <1>1, <3>1, <3>2 DEF GraspInv, Ordered, ArmOrder, LastOf
    <3>4. phase \in {"pre", "down", "close", "lift"} /\ (phase = "down" => k \in 1 .. Descents)
      BY <1>1 DEF GraspInv, TypeOK, ScriptOK, Counts
    <3>5. phase # "lift" => Goal <= Bottom
      BY <3>4, Waypoints DEF Goal, GoalOf
    <3>6. phase = "lift" => confirmed
      BY <1>1 DEF GraspInv, Believed
    <3>7. QED
      BY <3>3, <3>4, <3>5, <3>6, Waypoints DEF Goal, GoalOf
  <2>2. CASE ~(job = None /\ job' # None)
    BY <2>2
  <2>3. job = None /\ job' # None => Serve
    BY <1>1, JobElsewhere
  <2>4. QED
    BY <2>1, <2>2, <2>3
<1>2. QED
  BY <1>1, GraspInvariant, PTL DEF Spec, LiftOnlyAfterContact
=============================================================================
