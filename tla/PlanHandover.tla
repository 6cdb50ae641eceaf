---------------------------- MODULE PlanHandover ----------------------------
(***************************************************************************)
(* The archived planning pipeline.  visual_grasp_planner_node plans for    *)
(* the pose of the object and tells timed_trajectory_node on three topics: *)
(* a valid flag and a status (the name and hash of the plan) every 0.1 s,  *)
(* the path itself once per plan.  timed_trajectory_node joins the three,  *)
(* gives the path its times and publishes it as safe while the planner     *)
(* keeps saying that this plan is valid.                                   *)
(*                                                                         *)
(* A plan is named for the place of the object it is made for: name, hash  *)
(* and path are functions of the place.  Places lie farther apart than the *)
(* distance that makes the planner plan again.  Ages are flags that time   *)
(* may clear at any step.                                                  *)
(***************************************************************************)
EXTENDS Integers, Sequences, FiniteSets

CONSTANTS
  Places,      \* where the object may lie
  Reachable,   \* the places the planner finds a path for
  Acceptable,  \* the places whose path can be given its times
  CacheSize,   \* payloads kept (8 in the code)
  MaxLag,      \* bound: the planner's timer fires only while fewer messages wait
  None

ASSUME PlacesAssumption == Reachable \subseteq Places /\ Acceptable \subseteq Places
ASSUME CacheAssumption == CacheSize \in Nat \ {0}

VARIABLES
  posed,       \* planner: latest_pose_message,
  processed,   \* whether last_pose_stamp_key is its stamp,
  objectValid, \* object_pose_valid,
  young,       \* which of pose and valid flag it takes to be at most 0.5 s old,
  plan,        \* the plan of a VALID last_status, else None,
  needsPublish,     \* trajectory_needs_publish
  told,        \* the plan of the last status it published
  valids, statuses, payloads,      \* the three topics
  planValid,   \* timed node: plan_valid,
  fresh,       \* which heartbeats (and pending_status_time) are at most 0.8 s old,
  latest,      \* latest_upstream_plan_id,
  pending,     \* pending_plan_id,
  active,      \* active_plan_id,
  cache,       \* payload_cache, oldest first,
  lastPayload, \* latest_payload_hash,
  newer,       \* latest_payload_time >= pending_status_time
  status,      \* last_status: "VALID", "INVALID" or, for 0.5 s after a validation
               \* error, "INPUT"
  safe         \* the plan of the last safe status published, None if invalid

planner == <<posed, processed, objectValid, young, plan, needsPublish, told>>
topics  == <<valids, statuses, payloads>>
names   == <<latest, pending, active>>
store   == <<cache, lastPayload, newer>>
result  == <<status, safe>>
timed   == <<planValid, fresh, names, store, result>>
vars    == <<planner, topics, timed>>

Init ==
  /\ posed = None /\ processed = FALSE /\ objectValid = FALSE /\ young = {}
  /\ plan = None /\ needsPublish = FALSE /\ told = None
  /\ valids = <<>> /\ statuses = <<>> /\ payloads = <<>>
  /\ planValid = FALSE /\ fresh = {}
  /\ latest = None /\ pending = None /\ active = None
  /\ cache = <<>> /\ lastPayload = None /\ newer = FALSE
  /\ status = "INVALID" /\ safe = None

-----------------------------------------------------------------------------
(* The planner.                                                            *)

PlanForKeeping(p, y) ==
  \/ /\ p \in Reachable /\ plan # p
     /\ plan' = p /\ needsPublish' = TRUE /\ young' = {"pose", "valid"}
  \/ (p \in Reachable => plan = p) /\ young' = y /\ UNCHANGED <<plan, needsPublish>>

\* To invalidate the plan also makes the pose count as young again, unless it
\* is invalidated for its age.
Invalidate == plan' = None /\ needsPublish' = FALSE

\* y is what is young already; a new plan makes pose and flag young.
PlanForObject(p, y) ==
  \/ p \in Reachable /\ plan' = p /\ needsPublish' = TRUE /\ young' = {"pose", "valid"}
  \/ p \notin Reachable /\ Invalidate /\ young' = y

ProcessKeeping(p, y) ==
  \/ plan # p /\ p \in Reachable /\ PlanForObject(p, y)
  \/ (p \in Reachable => plan = p) /\ young' = y /\ UNCHANGED <<plan, needsPublish>>

\* A pose that was not processed yet.  A plan for the same place is kept.
ProcessObjectPose(p, y) ==
  \/ plan # p /\ PlanForObject(p, y)
  \/ plan = p /\ young' = y /\ UNCHANGED <<plan, needsPublish>>

HandleObjectPose(p) ==
  /\ posed' = p /\ processed' = objectValid
  /\ \/ objectValid /\ ProcessObjectPose(p, young \cup {"pose"})
     \/ ~objectValid /\ Invalidate /\ young' = young \cup {"pose"}
  /\ UNCHANGED <<objectValid, told, topics, timed>>

HandleObjectValid(v) ==
  /\ objectValid' = v
  /\ \/ ~v /\ Invalidate /\ young' = young \cup {"pose"} /\ UNCHANGED processed
     \/ /\ v /\ posed # None /\ "pose" \in young /\ ~processed
        /\ processed' = TRUE /\ ProcessObjectPose(posed, young \cup {"valid"})
     \/ /\ v /\ (posed = None \/ "pose" \notin young \/ processed)
        /\ young' = young \cup {"valid"} /\ UNCHANGED <<plan, needsPublish, processed>>
  /\ UNCHANGED <<posed, told, topics, timed>>

Keeping == Len(valids) < MaxLag /\ Len(statuses) < MaxLag /\ Len(payloads) < MaxLag

\* publish_status, every 0.1 s; the path goes out once.
PublishPlan ==
  /\ Keeping
  /\ plan' = IF young = {"pose", "valid"} THEN plan ELSE None
  /\ told' = plan' /\ needsPublish' = FALSE
  /\ valids' = Append(valids, plan' # None)
  /\ statuses' = Append(statuses, plan')
  /\ payloads' = IF plan' # None /\ needsPublish THEN Append(payloads, plan') ELSE payloads
  /\ UNCHANGED <<posed, processed, objectValid, young, timed>>

InputAges(i) ==
  /\ i \in young /\ young' = young \ {i}
  /\ UNCHANGED <<posed, processed, objectValid, plan, needsPublish, told, topics, timed>>

-----------------------------------------------------------------------------
(* The timed node.                                                         *)

Heartbeats == {"valid", "status"}

\* Where a path is in the cache.
Positions(c, p) == {i \in DOMAIN c : c[i] = p}

\* try_promote_pending_plan, with the values the handler has just stored: a
\* pending plan whose payload is there is given its times and published at
\* once, or refused.
Promotable(v, f, p, c) ==
  /\ v /\ Heartbeats \subseteq f /\ p # None
  /\ Positions(c, p) # {}
  /\ ~(active = p /\ status = "VALID")

TryPromote(v, f, p, c) ==
  \/ ~Promotable(v, f, p, c) /\ UNCHANGED <<active, result>>
  \/ /\ Promotable(v, f, p, c) /\ p \in Acceptable
     /\ active' = p /\ status' = "VALID" /\ safe' = p
  \/ /\ Promotable(v, f, p, c) /\ p \notin Acceptable
     /\ status' = "INPUT" /\ UNCHANGED <<active, safe>>

HandlePlanValid ==
  /\ valids # <<>> /\ valids' = Tail(valids)
  /\ planValid' = Head(valids)
  /\ IF planValid'
       THEN fresh' = fresh \cup {"valid"} /\ TryPromote(TRUE, fresh', pending, cache)
       ELSE status' = "INVALID" /\ UNCHANGED <<fresh, active, safe>>
  /\ UNCHANGED <<planner, statuses, payloads, latest, pending, store>>

HandleGraspPlanStatus ==
  /\ statuses # <<>> /\ statuses' = Tail(statuses)
  /\ \/ /\ Head(statuses) = None
        /\ fresh' = fresh \cup {"status"} /\ UNCHANGED <<names, newer, result>>
     \/ /\ Head(statuses) # None
        /\ latest' = Head(statuses) /\ pending' = Head(statuses)
        /\ fresh' = Heartbeats \cup {"pending"} /\ newer' = FALSE
        /\ TryPromote(planValid, fresh', pending', cache)
  /\ UNCHANGED <<planner, valids, payloads, planValid, cache, lastPayload>>

\* A path that comes again is the newest from then on; a new one evicts the
\* oldest when the cache is full.
Dropped(c, i) == [j \in 1 .. Len(c) - 1 |-> c[IF j < i THEN j ELSE j + 1]]

RememberAll(c, p) ==
  IF Positions(c, p) # {} THEN Append(Dropped(c, CHOOSE i \in Positions(c, p) : TRUE), p)
                          ELSE Append(c, p)

Remember(c, p) ==
  CASE Positions(c, p) # {} -> Append(Dropped(c, CHOOSE i \in Positions(c, p) : TRUE), p)
    [] Positions(c, p) = {} /\ Len(c) < CacheSize -> Append(c, p)
    [] OTHER -> Append(Tail(c), p)

HandleAwaitedTrajectory ==
  /\ payloads # <<>> /\ payloads' = Tail(payloads)
  /\ cache' = IF Head(payloads) = pending THEN Remember(cache, Head(payloads)) ELSE cache
  /\ lastPayload' = Head(payloads) /\ newer' = TRUE
  /\ TryPromote(planValid, fresh, pending, cache')
  /\ UNCHANGED <<planner, valids, statuses, planValid, fresh, latest, pending>>

HandleSourceTrajectory ==
  /\ payloads # <<>> /\ payloads' = Tail(payloads)
  /\ cache' = Remember(cache, Head(payloads))
  /\ lastPayload' = Head(payloads) /\ newer' = TRUE
  /\ TryPromote(planValid, fresh, pending, cache')
  /\ UNCHANGED <<planner, valids, statuses, planValid, fresh, latest, pending>>

PendingTimeout == planValid /\ pending # None /\ active # pending /\ "pending" \notin fresh

Mismatch ==
  /\ pending # None /\ lastPayload \notin {None, pending} /\ newer
  /\ Positions(cache, pending) = {}

HoldsUnmatched ==
  status = "VALID" /\ planValid /\ ~PendingTimeout /\ Heartbeats \subseteq fresh /\ ~Mismatch

Holds ==
  /\ status = "VALID" /\ planValid /\ ~PendingTimeout /\ Heartbeats \subseteq fresh /\ ~Mismatch
  /\ active # None => latest \in {None, active} /\ pending \in {None, active}

\* publish_status, every STATUS_PERIOD_S.  A recent validation error keeps its
\* reason.
PublishSafe ==
  /\ \/ status = "INPUT" /\ UNCHANGED <<status, pending>>
     \/ /\ status # "INPUT"
        /\ status' = IF Holds THEN "VALID" ELSE "INVALID"
        /\ pending' = IF PendingTimeout THEN None ELSE pending
  /\ safe' = IF status' = "VALID" THEN active ELSE None
  /\ UNCHANGED <<planner, topics, planValid, fresh, latest, active, store>>

\* A status with a plan is a heartbeat too.
HeartbeatAges(i) ==
  /\ i \in fresh /\ (i = "pending" \/ "pending" \notin fresh)
  /\ fresh' = fresh \ {i}
  /\ UNCHANGED <<planner, topics, planValid, names, store, result>>

ErrorAges ==
  /\ status = "INPUT" /\ status' = "INVALID"
  /\ UNCHANGED <<planner, topics, planValid, fresh, names, store, safe>>

-----------------------------------------------------------------------------
Planner ==
  \/ \E p \in Places : HandleObjectPose(p)
  \/ \E v \in BOOLEAN : HandleObjectValid(v)
  \/ PublishPlan \/ \E i \in {"pose", "valid"} : InputAges(i)

Timed ==
  \/ HandlePlanValid \/ HandleGraspPlanStatus \/ HandleSourceTrajectory \/ PublishSafe
  \/ ErrorAges \/ \E i \in Heartbeats \cup {"pending"} : HeartbeatAges(i)

Next == Planner \/ Timed

Spec == Init /\ [][Next]_vars

\* Both timers fire, and what is published arrives.
FairSpec ==
  /\ Spec
  /\ WF_vars(PublishPlan)
  /\ WF_vars(HandlePlanValid) /\ WF_vars(HandleGraspPlanStatus) /\ WF_vars(HandleSourceTrajectory)

-----------------------------------------------------------------------------
TypeOK ==
  /\ {posed, plan, told, latest, pending, active, lastPayload, safe} \subseteq Places \cup {None}
  /\ {processed, objectValid, needsPublish, planValid, newer} \subseteq BOOLEAN
  /\ young \subseteq {"pose", "valid"} /\ fresh \subseteq Heartbeats \cup {"pending"}
  /\ valids \in Seq(BOOLEAN) /\ statuses \in Seq(Places \cup {None}) /\ payloads \in Seq(Places)
  /\ cache \in Seq(Places) /\ Len(cache) <= CacheSize
  /\ status \in {"VALID", "INVALID", "INPUT"}

\* The planner never holds a plan for a place that is not the one of the last
\* pose: what it reports as valid was planned for, or confirmed by, that pose.
PlanFollowsPose == plan # None => plan = posed

\* When no flag and no status is on its way, the plan the timed node would
\* publish as safe is the one the planner told last: no plan that was replaced
\* or withdrawn survives in the joined copies of name, hash and path.
SafeIsTold == valids = <<>> /\ statuses = <<>> /\ Holds => active = told

\* A plan that the planner keeps is served as safe again and again, although
\* its path is sent once and may arrive before its name or after it.
PlanIsServed == \A p \in Reachable \cap Acceptable : <>[](plan = p) => []<>(safe = p)
=============================================================================
