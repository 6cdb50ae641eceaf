------------------------- MODULE PlanHandoverProofs -------------------------
(***************************************************************************)
(* Proofs about PlanHandover, for every set of places, every size of the   *)
(* cache and any number of messages under way.                             *)
(***************************************************************************)
EXTENDS PlanHandover, SequenceTheorems, TLAPS

-----------------------------------------------------------------------------
(* A plan is made for, or kept for, the place of the last pose.            *)

LEMMA ProcessFollows ==
  ASSUME NEW p, NEW y, ProcessObjectPose(p, y)
  PROVE  plan' \in {p, None}
<1>1. CASE plan # p /\ PlanForObject(p, y)
  BY <1>1 DEF PlanForObject, Invalidate
<1>2. CASE plan = p /\ UNCHANGED plan
  BY <1>2
<1>3. QED
  BY <1>1, <1>2 DEF ProcessObjectPose

LEMMA PoseKeepsFollowing ==
  ASSUME PlanFollowsPose, NEW p \in Places, HandleObjectPose(p)
  PROVE  PlanFollowsPose'
<1>1. posed' = p
  BY DEF HandleObjectPose
<1>2. plan' \in {p, None}
  <2>1. CASE ProcessObjectPose(p, young \cup {"pose"})
    BY <2>1, ProcessFollows
  <2>2. CASE Invalidate
    BY <2>2 DEF Invalidate
  <2>3. QED
    BY <2>1, <2>2 DEF HandleObjectPose
<1>3. QED
  BY <1>1, <1>2 DEF PlanFollowsPose

LEMMA ValidKeepsFollowing ==
  ASSUME PlanFollowsPose, NEW v \in BOOLEAN, HandleObjectValid(v)
  PROVE  PlanFollowsPose'
<1>1. posed' = posed
  BY DEF HandleObjectValid
<1>2. plan' \in {plan, posed, None}
  <2>1. CASE ProcessObjectPose(posed, young \cup {"valid"})
    <3>1. plan' \in {posed, None}
      BY <2>1, ProcessFollows
    <3>2. QED
      BY <3>1
  <2>2. CASE Invalidate
    BY <2>2 DEF Invalidate
  <2>3. CASE UNCHANGED plan
    BY <2>3
  <2>4. QED
    BY <2>1, <2>2, <2>3 DEF HandleObjectValid
<1>3. QED
  BY <1>1, <1>2 DEF PlanFollowsPose

LEMMA PublishKeepsFollowing ==
  ASSUME PlanFollowsPose, PublishPlan
  PROVE  PlanFollowsPose'
  BY DEF PublishPlan, PlanFollowsPose

LEMMA TimedLeavesPlanner ==
  ASSUME Timed
  PROVE  UNCHANGED planner
  BY DEF Timed, HandlePlanValid, HandleGraspPlanStatus, HandleSourceTrajectory, PublishSafe,
         ErrorAges, HeartbeatAges

LEMMA NextKeepsFollowing ==
  ASSUME PlanFollowsPose, [Next]_vars
  PROVE  PlanFollowsPose'
<1>1. ASSUME NEW p \in Places, HandleObjectPose(p) PROVE PlanFollowsPose'
  BY <1>1, PoseKeepsFollowing
<1>2. ASSUME NEW v \in BOOLEAN, HandleObjectValid(v) PROVE PlanFollowsPose'
  BY <1>2, ValidKeepsFollowing
<1>3. ASSUME PublishPlan PROVE PlanFollowsPose'
  BY <1>3, PublishKeepsFollowing
<1>4. ASSUME NEW i \in {"pose", "valid"}, InputAges(i) PROVE PlanFollowsPose'
  BY <1>4 DEF InputAges, PlanFollowsPose
<1>5. ASSUME Timed \/ UNCHANGED vars PROVE PlanFollowsPose'
  <2>1. UNCHANGED <<plan, posed>>
    BY <1>5, TimedLeavesPlanner DEF vars, planner
  <2>2. QED
    BY <2>1 DEF PlanFollowsPose
<1>6. QED
  BY <1>1, <1>2, <1>3, <1>4, <1>5 DEF Next, Planner

\* What the planner reports as valid is the plan for the place of the last pose.
THEOREM PlanIsForPose == Spec => []PlanFollowsPose
<1>1. Init => PlanFollowsPose
  BY DEF Init, PlanFollowsPose
<1>2. PlanFollowsPose /\ [Next]_vars => PlanFollowsPose'
  BY NextKeepsFollowing
<1>3. QED
  BY <1>1, <1>2, PTL DEF Spec

-----------------------------------------------------------------------------
(* Types.  The planner's part, the timed node's part and the three topics. *)

PlannerTypes ==
  /\ {posed, plan, told} \subseteq Places \cup {None}
  /\ {processed, objectValid, needsPublish} \subseteq BOOLEAN
  /\ young \subseteq {"pose", "valid"}

TopicTypes ==
  /\ valids \in Seq(BOOLEAN) /\ statuses \in Seq(Places \cup {None}) /\ payloads \in Seq(Places)

TimedTypes ==
  /\ {latest, pending, active, lastPayload, safe} \subseteq Places \cup {None}
  /\ {planValid, newer} \subseteq BOOLEAN
  /\ fresh \subseteq Heartbeats \cup {"pending"}
  /\ status \in {"VALID", "INVALID", "INPUT"}

CacheTypes == cache \in Seq(Places) /\ Len(cache) <= CacheSize

LEMMA TypesSplit == TypeOK <=> PlannerTypes /\ TopicTypes /\ TimedTypes /\ CacheTypes
  BY DEF TypeOK, PlannerTypes, TopicTypes, TimedTypes, CacheTypes

LEMMA SameInterval ==
  ASSUME NEW m \in Nat, NEW k \in Nat, 1 .. m = 1 .. k
  PROVE  m = k
<1>1. ASSUME m > k PROVE FALSE
  <2>1. m \in 1 .. m /\ m \notin 1 .. k
    BY <1>1
  <2>2. QED
    BY <2>1
<1>2. ASSUME k > m PROVE FALSE
  <2>1. k \in 1 .. k /\ k \notin 1 .. m
    BY <1>2
  <2>2. QED
    BY <2>1
<1>3. QED
  BY <1>1, <1>2

\* To drop one entry leaves the others, one fewer.
LEMMA DroppedIsShorter ==
  ASSUME NEW c \in Seq(Places), NEW i \in DOMAIN c
  PROVE  Dropped(c, i) \in Seq(Places) /\ Len(Dropped(c, i)) = Len(c) - 1
<1> DEFINE d == Dropped(c, i)
           n == Len(c) - 1
<1>1. n \in Nat /\ DOMAIN c = 1 .. Len(c)
  OBVIOUS
<1>2. d \in [1 .. n -> Places]
  BY <1>1 DEF Dropped
<1>3. d \in Seq(Places)
  BY <1>1, <1>2, SeqDef
<1>4. DOMAIN d = 1 .. Len(d) /\ Len(d) \in Nat
  BY <1>3, LenProperties
<1>5. DOMAIN d = 1 .. n
  BY <1>2
<1>6. Len(d) = n
  BY <1>1, <1>4, <1>5, SameInterval
<1>7. QED
  BY <1>3, <1>6

\* The cache of handle_source_trajectory never grows over its size.
LEMMA RememberFits ==
  ASSUME NEW c \in Seq(Places), Len(c) <= CacheSize, NEW p \in Places
  PROVE  Remember(c, p) \in Seq(Places) /\ Len(Remember(c, p)) <= CacheSize
<1>1. CASE Positions(c, p) # {}
  <2> DEFINE i == CHOOSE i \in Positions(c, p) : TRUE
  <2>1. i \in DOMAIN c
    BY <1>1 DEF Positions
  <2>2. Dropped(c, i) \in Seq(Places) /\ Len(Dropped(c, i)) = Len(c) - 1
    BY <2>1, DroppedIsShorter
  <2>3. Remember(c, p) = Append(Dropped(c, i), p)
    BY <1>1 DEF Remember
  <2>4. QED
    BY <2>2, <2>3, CacheAssumption
<1>2. CASE Positions(c, p) = {} /\ Len(c) < CacheSize
  <2>1. Remember(c, p) = Append(c, p)
    BY <1>2 DEF Remember
  <2>2. QED
    BY <1>2, <2>1, CacheAssumption
<1>3. CASE Positions(c, p) = {} /\ ~(Len(c) < CacheSize)
  <2>1. Remember(c, p) = Append(Tail(c), p)
    BY <1>3 DEF Remember
  <2>2. c # <<>>
    BY <1>3, CacheAssumption
  <2>3. Tail(c) \in Seq(Places) /\ Len(Tail(c)) = Len(c) - 1
    BY <2>2
  <2>4. QED
    BY <2>1, <2>3, CacheAssumption
<1>4. QED
  BY <1>1, <1>2, <1>3

LEMMA PlannerKeepsTypes ==
  ASSUME PlannerTypes, Planner
  PROVE  PlannerTypes'
<1>1. ASSUME NEW p \in Places, NEW y \in SUBSET {"pose", "valid"}, ProcessObjectPose(p, y)
      PROVE  plan' \in Places \cup {None} /\ needsPublish' \in BOOLEAN /\ young' \subseteq {"pose", "valid"}
  BY <1>1 DEF ProcessObjectPose, PlanForObject, Invalidate, PlannerTypes
<1>2. ASSUME NEW p \in Places, HandleObjectPose(p) PROVE PlannerTypes'
  <2>1. young \cup {"pose"} \in SUBSET {"pose", "valid"}
    BY DEF PlannerTypes
  <2>2. CASE ProcessObjectPose(p, young \cup {"pose"})
    BY <1>1, <1>2, <2>1, <2>2 DEF HandleObjectPose, PlannerTypes
  <2>3. CASE Invalidate /\ young' = young \cup {"pose"}
    BY <1>2, <2>1, <2>3 DEF HandleObjectPose, Invalidate, PlannerTypes
  <2>4. QED
    BY <1>2, <2>2, <2>3 DEF HandleObjectPose
<1>3. ASSUME NEW v \in BOOLEAN, HandleObjectValid(v) PROVE PlannerTypes'
  <2>1. young \cup {"pose"} \in SUBSET {"pose", "valid"} /\ young \cup {"valid"} \in SUBSET {"pose", "valid"}
    BY DEF PlannerTypes
  <2>2. CASE ~v /\ Invalidate /\ young' = young \cup {"pose"} /\ UNCHANGED processed
    BY <1>3, <2>1, <2>2 DEF HandleObjectValid, Invalidate, PlannerTypes
  <2>3. CASE posed # None /\ processed' = TRUE /\ ProcessObjectPose(posed, young \cup {"valid"})
    <3>1. posed \in Places
      BY <2>3 DEF PlannerTypes
    <3>2. QED
      BY <1>1, <1>3, <2>1, <2>3, <3>1 DEF HandleObjectValid, PlannerTypes
  <2>4. CASE young' = young \cup {"valid"} /\ UNCHANGED <<plan, needsPublish, processed>>
    BY <1>3, <2>1, <2>4 DEF HandleObjectValid, PlannerTypes
  <2>5. QED
    BY <1>3, <2>2, <2>3, <2>4 DEF HandleObjectValid
<1>4. ASSUME PublishPlan PROVE PlannerTypes'
  BY <1>4 DEF PublishPlan, PlannerTypes
<1>5. ASSUME NEW i \in {"pose", "valid"}, InputAges(i) PROVE PlannerTypes'
  BY <1>5 DEF InputAges, PlannerTypes
<1>6. QED
  BY <1>2, <1>3, <1>4, <1>5 DEF Planner

LEMMA PlannerKeepsTopics ==
  ASSUME PlannerTypes, TopicTypes, Planner
  PROVE  TopicTypes'
<1>1. CASE PublishPlan
  <2>1. plan' \in Places \cup {None}
    BY <1>1 DEF PublishPlan, PlannerTypes
  <2>2. valids' \in Seq(BOOLEAN) /\ statuses' \in Seq(Places \cup {None})
    BY <1>1, <2>1 DEF PublishPlan, TopicTypes
  <2>3. payloads' \in Seq(Places)
    BY <1>1, <2>1 DEF PublishPlan, TopicTypes
  <2>4. QED
    BY <2>2, <2>3 DEF TopicTypes
<1>2. CASE UNCHANGED topics
  BY <1>2 DEF topics, TopicTypes
<1>3. QED
  BY <1>1, <1>2 DEF Planner, HandleObjectPose, HandleObjectValid, InputAges

LEMMA PlannerLeavesTimed ==
  ASSUME Planner
  PROVE  UNCHANGED timed
  BY DEF Planner, HandleObjectPose, HandleObjectValid, PublishPlan, InputAges

LEMMA TimedKeepsTopics ==
  ASSUME TopicTypes, Timed
  PROVE  TopicTypes'
<1>1. CASE HandlePlanValid
  BY <1>1 DEF HandlePlanValid, TopicTypes
<1>2. CASE HandleGraspPlanStatus
  BY <1>2 DEF HandleGraspPlanStatus, TopicTypes
<1>3. CASE HandleSourceTrajectory
  BY <1>3 DEF HandleSourceTrajectory, TopicTypes
<1>4. CASE UNCHANGED topics
  BY <1>4 DEF topics, TopicTypes
<1>5. QED
  BY <1>1, <1>2, <1>3, <1>4 DEF Timed, PublishSafe, ErrorAges, HeartbeatAges

LEMMA PromoteKeepsTypes ==
  ASSUME TimedTypes, NEW v, NEW f, NEW p \in Places \cup {None}, NEW c, TryPromote(v, f, p, c)
  PROVE  /\ {active', safe'} \subseteq Places \cup {None}
         /\ status' \in {"VALID", "INVALID", "INPUT"}
<1>1. CASE UNCHANGED <<active, result>>
  BY <1>1 DEF TimedTypes, result
<1>2. CASE active' = p /\ status' = "VALID" /\ safe' = p
  BY <1>2
<1>3. CASE status' = "INPUT" /\ UNCHANGED <<active, safe>>
  BY <1>3 DEF TimedTypes
<1>4. QED
  BY <1>1, <1>2, <1>3 DEF TryPromote

LEMMA TimedKeepsTypes ==
  ASSUME TopicTypes, TimedTypes, Timed
  PROVE  TimedTypes'
<1>1. ASSUME HandlePlanValid PROVE TimedTypes'
  <2>1. planValid' \in BOOLEAN /\ UNCHANGED <<latest, pending, lastPayload, newer>>
    BY <1>1 DEF HandlePlanValid, TopicTypes, store
  <2>2. pending \in Places \cup {None}
    BY DEF TimedTypes
  <2>3. CASE fresh' = fresh \cup {"valid"} /\ TryPromote(TRUE, fresh', pending, cache)
    <3>1. {active', safe'} \subseteq Places \cup {None} /\ status' \in {"VALID", "INVALID", "INPUT"}
      BY <2>2, <2>3, PromoteKeepsTypes
    <3>2. QED
      BY <2>1, <2>3, <3>1 DEF TimedTypes, Heartbeats
  <2>4. CASE status' = "INVALID" /\ UNCHANGED <<fresh, active, safe>>
    BY <2>1, <2>4 DEF TimedTypes
  <2>5. QED
    BY <1>1, <2>3, <2>4 DEF HandlePlanValid
<1>2. ASSUME HandleGraspPlanStatus PROVE TimedTypes'
  <2>1. Head(statuses) \in Places \cup {None} /\ UNCHANGED <<planValid, lastPayload>>
    BY <1>2 DEF HandleGraspPlanStatus, TopicTypes
  <2>2. CASE fresh' = fresh \cup {"status"} /\ UNCHANGED <<names, newer, result>>
    BY <2>1, <2>2 DEF TimedTypes, names, result, Heartbeats
  <2>3. CASE /\ latest' = Head(statuses) /\ pending' = Head(statuses)
             /\ fresh' = Heartbeats \cup {"pending"} /\ newer' = FALSE
             /\ TryPromote(planValid, fresh', pending', cache)
    <3>1. {active', safe'} \subseteq Places \cup {None} /\ status' \in {"VALID", "INVALID", "INPUT"}
      BY <2>1, <2>3, PromoteKeepsTypes
    <3>2. QED
      BY <2>1, <2>3, <3>1 DEF TimedTypes
  <2>4. QED
    BY <1>2, <2>2, <2>3 DEF HandleGraspPlanStatus
<1>3. ASSUME HandleSourceTrajectory PROVE TimedTypes'
  <2>1. Head(payloads) \in Places
    BY <1>3 DEF HandleSourceTrajectory, TopicTypes
  <2>2. TryPromote(planValid, fresh, pending, cache')
    BY <1>3 DEF HandleSourceTrajectory
  <2>3. {active', safe'} \subseteq Places \cup {None} /\ status' \in {"VALID", "INVALID", "INPUT"}
    BY <2>2, PromoteKeepsTypes DEF TimedTypes
  <2>4. lastPayload' = Head(payloads) /\ newer' = TRUE /\ UNCHANGED <<planValid, fresh, latest, pending>>
    BY <1>3 DEF HandleSourceTrajectory
  <2>5. QED
    BY <2>1, <2>3, <2>4 DEF TimedTypes
<1>4. ASSUME PublishSafe PROVE TimedTypes'
  <2>1. status' \in {"VALID", "INVALID", "INPUT"} /\ pending' \in {pending, None}
    BY <1>4 DEF PublishSafe, TimedTypes
  <2>2. safe' \in {active, None} /\ UNCHANGED <<planValid, fresh, latest, active, lastPayload, newer>>
    BY <1>4 DEF PublishSafe, store
  <2>3. QED
    BY <2>1, <2>2 DEF TimedTypes
<1>5. ASSUME ErrorAges PROVE TimedTypes'
  BY <1>5 DEF ErrorAges, TimedTypes, names, store
<1>6. ASSUME NEW i \in Heartbeats \cup {"pending"}, HeartbeatAges(i) PROVE TimedTypes'
  BY <1>6 DEF HeartbeatAges, TimedTypes, names, store, result
<1>7. QED
  BY <1>1, <1>2, <1>3, <1>4, <1>5, <1>6 DEF Timed

LEMMA TimedKeepsCache ==
  ASSUME TopicTypes, CacheTypes, Timed
  PROVE  CacheTypes'
<1>1. CASE HandleSourceTrajectory
  <2>1. Head(payloads) \in Places /\ cache' = Remember(cache, Head(payloads))
    BY <1>1 DEF HandleSourceTrajectory, TopicTypes
  <2>2. QED
    BY <2>1, RememberFits DEF CacheTypes
<1>2. CASE UNCHANGED cache
  BY <1>2 DEF CacheTypes
<1>3. QED
  BY <1>1, <1>2 DEF Timed, HandlePlanValid, HandleGraspPlanStatus, PublishSafe, ErrorAges,
                    HeartbeatAges, store

LEMMA NextKeepsTypes ==
  ASSUME TypeOK, [Next]_vars
  PROVE  TypeOK'
<1>1. PlannerTypes /\ TopicTypes /\ TimedTypes /\ CacheTypes
  BY TypesSplit
<1>2. ASSUME Planner PROVE TypeOK'
  <2>1. UNCHANGED timed
    BY <1>2, PlannerLeavesTimed
  <2>2. TimedTypes' /\ CacheTypes'
    BY <1>1, <2>1 DEF timed, names, store, result, TimedTypes, CacheTypes
  <2>3. PlannerTypes' /\ TopicTypes'
    BY <1>1, <1>2, PlannerKeepsTypes, PlannerKeepsTopics
  <2>4. QED
    BY <2>2, <2>3 DEF TypeOK, PlannerTypes, TopicTypes, TimedTypes, CacheTypes
<1>3. ASSUME Timed PROVE TypeOK'
  <2>1. PlannerTypes'
    BY <1>1, <1>3, TimedLeavesPlanner DEF planner, PlannerTypes
  <2>2. TopicTypes' /\ TimedTypes' /\ CacheTypes'
    BY <1>1, <1>3, TimedKeepsTopics, TimedKeepsTypes, TimedKeepsCache
  <2>3. QED
    BY <2>1, <2>2 DEF TypeOK, PlannerTypes, TopicTypes, TimedTypes, CacheTypes
<1>4. ASSUME UNCHANGED vars PROVE TypeOK'
  BY <1>4 DEF vars, planner, topics, timed, names, store, result, TypeOK
<1>5. QED
  BY <1>2, <1>3, <1>4 DEF Next

\* Every variable keeps its type, and the cache of paths its size.
THEOREM TypeCorrect == Spec => []TypeOK
<1>1. Init => TypeOK
  <2>1. Init => PlannerTypes
    BY DEF Init, PlannerTypes
  <2>2. Init => TopicTypes
    BY DEF Init, TopicTypes
  <2>3. Init => TimedTypes
    BY DEF Init, TimedTypes
  <2>4. Init => CacheTypes
    BY CacheAssumption DEF Init, CacheTypes
  <2>5. QED
    BY <2>1, <2>2, <2>3, <2>4, TypesSplit
<1>2. TypeOK /\ [Next]_vars => TypeOK'
  BY NextKeepsTypes
<1>3. QED
  BY <1>1, <1>2, PTL DEF Spec

-----------------------------------------------------------------------------
(* What the timed node knows is what it was told last, but for what is     *)
(* still on its way.                                                       *)

Last(s) == s[Len(s)]

\* The flag: under way, or stored.
FlagIsTold == IF valids = <<>> THEN planValid = (told # None)
                               ELSE Last(valids) = (told # None)

\* The name: under way, or stored.  A status without a plan is not stored.
NameIsTold == IF statuses = <<>> THEN told # None => latest = told
                                 ELSE Last(statuses) = told

Joined == FlagIsTold /\ NameIsTold /\ (status = "VALID" => active # None)

\* Tail and Append and the last element.
LEMMA LastOfTail ==
  ASSUME NEW S, NEW s \in Seq(S), s # <<>>
  PROVE  IF Tail(s) = <<>> THEN Last(s) = Head(s) ELSE Last(Tail(s)) = Last(s)
<1> DEFINE t == Tail(s)
           n == Len(s)
<1>1. n \in Nat \ {0} /\ s[1] = Head(s)
  BY EmptySeq
<1>2. t \in Seq(S) /\ Len(t) = n - 1 /\ \A i \in 1 .. Len(t) : t[i] = s[i + 1]
  BY HeadTailProperties
<1>3. t = <<>> <=> Len(t) = 0
  BY <1>2, EmptySeq
<1> HIDE DEF t, n
<1>4. CASE n = 1
  <2>1. t = <<>>
    BY <1>2, <1>3, <1>4
  <2>2. Last(s) = Head(s)
    BY <1>1, <1>4 DEF Last, n
  <2>3. QED
    BY <2>1, <2>2 DEF t
<1>5. CASE n > 1
  <2>1. t # <<>>
    BY <1>1, <1>2, <1>3, <1>5
  <2>2. n - 1 \in 1 .. Len(t) /\ n - 1 + 1 = n
    BY <1>1, <1>2, <1>5
  <2>3. t[n - 1] = s[n]
    BY <1>2, <2>2
  <2>4. Last(t) = Last(s)
    BY <1>2, <2>3 DEF Last, n
  <2>5. QED
    BY <2>1, <2>4 DEF t
<1>6. QED
  BY <1>1, <1>4, <1>5

LEMMA LastOfAppend ==
  ASSUME NEW S, NEW s \in Seq(S), NEW e
  PROVE  Append(s, e) # <<>> /\ Last(Append(s, e)) = e
  BY DEF Last

LEMMA PromoteKeepsActive ==
  ASSUME status = "VALID" => active # None,
         NEW v, NEW f, NEW p, NEW c, TryPromote(v, f, p, c)
  PROVE  status' = "VALID" => active' # None
<1>1. CASE UNCHANGED <<active, result>>
  BY <1>1 DEF result
<1>2. CASE Promotable(v, f, p, c) /\ active' = p
  BY <1>2 DEF Promotable
<1>3. CASE status' = "INPUT"
  BY <1>3
<1>4. QED
  BY <1>1, <1>2, <1>3 DEF TryPromote

LEMMA PlannerKeepsJoined ==
  ASSUME TypeOK, Joined, Planner
  PROVE  Joined'
<1>1. UNCHANGED timed
  BY PlannerLeavesTimed
<1>2. status' = "VALID" => active' # None
  BY <1>1 DEF Joined, timed, names, result
<1>3. CASE PublishPlan
  <2>1. valids' # <<>> /\ Last(valids') = (told' # None)
    <3>1. valids' = Append(valids, told' # None)
      BY <1>3 DEF PublishPlan
    <3>2. QED
      BY <3>1, LastOfAppend DEF TypeOK
  <2>2. statuses' # <<>> /\ Last(statuses') = told'
    <3>1. statuses' = Append(statuses, told')
      BY <1>3 DEF PublishPlan
    <3>2. QED
      BY <3>1, LastOfAppend DEF TypeOK
  <2>3. FlagIsTold'
    BY <2>1 DEF FlagIsTold, Last
  <2>4. NameIsTold'
    BY <2>2 DEF NameIsTold, Last
  <2>5. QED
    BY <1>2, <2>3, <2>4 DEF Joined
<1>4. CASE UNCHANGED <<told, topics>>
  <2>1. UNCHANGED <<told, valids, statuses, planValid, latest>>
    BY <1>1, <1>4 DEF topics, timed, names
  <2>2. FlagIsTold'
    BY <2>1 DEF Joined, FlagIsTold, Last
  <2>3. NameIsTold'
    BY <2>1 DEF Joined, NameIsTold, Last
  <2>4. QED
    BY <1>2, <2>2, <2>3 DEF Joined
<1>5. QED
  BY <1>3, <1>4 DEF Planner, HandleObjectPose, HandleObjectValid, InputAges

LEMMA FlagKeepsJoined ==
  ASSUME TypeOK, Joined, HandlePlanValid
  PROVE  Joined'
<1>1. /\ valids # <<>> /\ valids' = Tail(valids) /\ planValid' = Head(valids)
      /\ UNCHANGED <<told, statuses, latest>>
  BY DEF HandlePlanValid, planner
<1>2. FlagIsTold'
  <2>1. Last(valids) = (told # None)
    BY <1>1 DEF Joined, FlagIsTold
  <2>2. IF valids' = <<>> THEN Last(valids) = planValid' ELSE Last(valids') = Last(valids)
    BY <1>1, LastOfTail DEF TypeOK
  <2>3. QED
    BY <1>1, <2>1, <2>2 DEF FlagIsTold, Last
<1>3. NameIsTold'
  BY <1>1 DEF Joined, NameIsTold, Last
<1>4. status' = "VALID" => active' # None
  <2>1. CASE TryPromote(TRUE, fresh', pending, cache)
    BY <2>1, PromoteKeepsActive DEF Joined
  <2>2. CASE status' = "INVALID"
    BY <2>2
  <2>3. QED
    BY <2>1, <2>2 DEF HandlePlanValid
<1>5. QED
  BY <1>2, <1>3, <1>4 DEF Joined

LEMMA StatusKeepsJoined ==
  ASSUME TypeOK, Joined, HandleGraspPlanStatus
  PROVE  Joined'
<1>1. /\ statuses # <<>> /\ statuses' = Tail(statuses)
      /\ UNCHANGED <<told, valids, planValid>>
  BY DEF HandleGraspPlanStatus, planner
<1>2. FlagIsTold'
  BY <1>1 DEF Joined, FlagIsTold, Last
<1>3. NameIsTold'
  <2>1. Last(statuses) = told
    BY <1>1 DEF Joined, NameIsTold
  <2>2. IF statuses' = <<>> THEN Last(statuses) = Head(statuses)
                            ELSE Last(statuses') = Last(statuses)
    BY <1>1, LastOfTail DEF TypeOK
  <2>3. Head(statuses) # None => latest' = Head(statuses)
    BY DEF HandleGraspPlanStatus
  <2>4. QED
    BY <1>1, <2>1, <2>2, <2>3 DEF NameIsTold, Last
<1>4. status' = "VALID" => active' # None
  <2>1. CASE TryPromote(planValid, fresh', pending', cache)
    BY <2>1, PromoteKeepsActive DEF Joined
  <2>2. CASE UNCHANGED <<names, result>>
    BY <2>2 DEF names, result, Joined
  <2>3. QED
    BY <2>1, <2>2 DEF HandleGraspPlanStatus
<1>5. QED
  BY <1>2, <1>3, <1>4 DEF Joined

LEMMA OthersKeepJoined ==
  ASSUME Joined, UNCHANGED <<told, valids, statuses, planValid, latest>>,
         status' = "VALID" => active' # None
  PROVE  Joined'
<1>1. FlagIsTold'
  BY DEF Joined, FlagIsTold, Last
<1>2. NameIsTold'
  BY DEF Joined, NameIsTold, Last
<1>3. QED
  BY <1>1, <1>2 DEF Joined

LEMMA PublishSafeKeepsActive ==
  ASSUME Joined, PublishSafe
  PROVE  status' = "VALID" => active' # None
<1>1. UNCHANGED active
  BY DEF PublishSafe
<1>2. status' = "VALID" => status = "VALID"
  BY DEF PublishSafe, Holds
<1>3. QED
  BY <1>1, <1>2 DEF Joined

LEMMA NextKeepsJoined ==
  ASSUME TypeOK, Joined, [Next]_vars
  PROVE  Joined'
<1>1. ASSUME Planner PROVE Joined'
  BY <1>1, PlannerKeepsJoined
<1>2. ASSUME HandlePlanValid \/ HandleGraspPlanStatus PROVE Joined'
  BY <1>2, FlagKeepsJoined, StatusKeepsJoined
<1>3. ASSUME HandleSourceTrajectory PROVE Joined'
  <2>1. UNCHANGED <<told, valids, statuses, planValid, latest>>
    BY <1>3 DEF HandleSourceTrajectory, planner
  <2>2. TryPromote(planValid, fresh, pending, cache')
    BY <1>3 DEF HandleSourceTrajectory
  <2>3. status' = "VALID" => active' # None
    BY <2>2, PromoteKeepsActive DEF Joined
  <2>4. QED
    BY <2>1, <2>3, OthersKeepJoined
<1>4. ASSUME PublishSafe PROVE Joined'
  <2>1. UNCHANGED <<told, valids, statuses, planValid, latest>>
    BY <1>4 DEF PublishSafe, planner, topics
  <2>2. QED
    BY <1>4, <2>1, PublishSafeKeepsActive, OthersKeepJoined
<1>5. ASSUME ErrorAges PROVE Joined'
  <2>1. UNCHANGED <<told, valids, statuses, planValid, latest>> /\ status' = "INVALID"
    BY <1>5 DEF ErrorAges, planner, topics, names
  <2>2. QED
    BY <2>1, OthersKeepJoined
<1>6. ASSUME (\E i \in Heartbeats \cup {"pending"} : HeartbeatAges(i)) \/ UNCHANGED vars
      PROVE  Joined'
  <2>1. UNCHANGED <<told, valids, statuses, planValid, latest, active, status>>
    BY <1>6 DEF HeartbeatAges, vars, planner, topics, timed, names, result
  <2>2. QED
    BY <2>1, OthersKeepJoined DEF Joined
<1>7. QED
  BY <1>1, <1>2, <1>3, <1>4, <1>5, <1>6 DEF Next, Timed

\* With no flag and no status under way, the timed node would publish the plan
\* the planner told last, or none.
THEOREM SafePlanIsTold == Spec => []SafeIsTold
<1>1. Init => Joined
  BY DEF Init, Joined, FlagIsTold, NameIsTold
<1>2. TypeOK /\ Joined /\ [Next]_vars => Joined'
  BY NextKeepsJoined
<1>3. Joined => SafeIsTold
  BY DEF Joined, FlagIsTold, NameIsTold, SafeIsTold, Holds
<1>4. QED
  BY <1>1, <1>2, <1>3, TypeCorrect, PTL DEF Spec
=============================================================================
