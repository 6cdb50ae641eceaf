----------------------------- MODULE OneMotion -----------------------------
(***************************************************************************)
(* What the motion link promises, without sockets, threads or processes.   *)
(* Several clients may ask one arm to move.                                *)
(*                                                                         *)
(*   - the arm executes one request at a time;                             *)
(*   - a client posts a request only when no earlier one of its own can    *)
(*     still run, so a request is never repeated behind the caller's back; *)
(*   - a definite verdict is given for the caller's own request and after  *)
(*     it ended; a caller that gives up is told "unknown", and only then   *)
(*     may the request outlive the call.                                   *)
(***************************************************************************)
CONSTANT Clients

VARIABLES
  call,      \* call[b]: is b waiting for the outcome of a request
  request,   \* request[b]: b's request, until its answer is consumed or lost
  verdict    \* verdict[b]: the outcome of b's last call

vars == <<call, request, verdict>>

Requests == {"none", "posted", "running", "answered"}
Verdicts == {"none", "refused", "done", "failed", "not_sent", "unknown"}

Init ==
  /\ call = [b \in Clients |-> FALSE]
  /\ request = [b \in Clients |-> "none"]
  /\ verdict = [b \in Clients |-> "none"]

\* A request is posted, or lost on the way.
Post(b) ==
  /\ ~call[b]
  /\ request[b] = "none"
  /\ call' = [call EXCEPT ![b] = TRUE]
  /\ \E r \in {"posted", "none"} : request' = [request EXCEPT ![b] = r]
  /\ UNCHANGED verdict

\* The arm starts to move for b.
Run(b) ==
  /\ request[b] = "posted"
  /\ \A other \in Clients : request[other] # "running"
  /\ request' = [request EXCEPT ![b] = "running"]
  /\ UNCHANGED <<call, verdict>>

\* The request ended; nobody collects the answer of an abandoned one.
Answer(b) ==
  /\ request[b] \in {"posted", "running"}
  /\ request' = [request EXCEPT ![b] = IF call[b] THEN "answered" ELSE "none"]
  /\ UNCHANGED <<call, verdict>>

Return(b) ==
  /\ call[b]
  /\ request[b] = "answered"
  /\ call' = [call EXCEPT ![b] = FALSE]
  /\ request' = [request EXCEPT ![b] = "none"]
  /\ \E v \in {"done", "failed"} : verdict' = [verdict EXCEPT ![b] = v]

\* The caller stops waiting; an answer not yet collected is thrown away.
Abandon(b) ==
  /\ call' = [call EXCEPT ![b] = FALSE]
  /\ request' = [request EXCEPT ![b] = IF @ = "answered" THEN "none" ELSE @]

GiveUp(b) ==
  /\ call[b]
  /\ Abandon(b)
  /\ verdict' = [verdict EXCEPT ![b] = "unknown"]

\* The caller itself is restarted.
Restart(b) ==
  /\ Abandon(b)
  /\ verdict' = [verdict EXCEPT ![b] = "none"]

\* The verdict has been delivered.
Deliver(b) ==
  /\ verdict' = [verdict EXCEPT ![b] = "none"]
  /\ UNCHANGED <<call, request>>

\* The call ends before anything was posted.
Decline(b) ==
  /\ ~call[b]
  /\ \/ verdict' = [verdict EXCEPT ![b] = "refused"]
     \/ request[b] = "none" /\ verdict' = [verdict EXCEPT ![b] = "not_sent"]
  /\ UNCHANGED <<call, request>>

\* The server disappears with the requests of some clients.
Vanish(lost) ==
  /\ request' = [b \in Clients |-> IF b \in lost THEN "none" ELSE request[b]]
  /\ UNCHANGED <<call, verdict>>

Next ==
  \/ \E b \in Clients :
       \/ Post(b) \/ Run(b) \/ Answer(b) \/ Return(b)
       \/ GiveUp(b) \/ Restart(b) \/ Deliver(b) \/ Decline(b)
  \/ \E lost \in SUBSET Clients : Vanish(lost)

Spec == Init /\ [][Next]_vars
=============================================================================
