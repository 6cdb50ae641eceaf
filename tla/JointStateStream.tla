-------------------------- MODULE JointStateStream --------------------------
(***************************************************************************)
(* The archived source of real joint states: the read-only server owns the *)
(* motor bus and streams samples to one TCP client at a time; bridge nodes *)
(* read the stream in a network thread and report, from a timer, whether   *)
(* the joint state is valid.  Other clients come and go.                   *)
(*                                                                         *)
(*   server   scripts/so101_read_only_joint_state_server.py                *)
(*   bridge   so101_command_gate/real_joint_state_bridge_node.py           *)
(*                                                                         *)
(* Ages are flags.  A sample is inside the joint limits or not; mapping an *)
(* encoder value never yields one that is not finite.  A connection that   *)
(* both ends have left is used again.                                      *)
(***************************************************************************)
EXTENDS Naturals, Sequences, Functions

CONSTANTS
  Bridges,      \* bridge nodes (the probe of the repository is one more)
  Conns,        \* TCP connections that may exist at a time
  NoConn,
  MaxFailures,  \* maximum_consecutive_read_failures
  MaxNumber,    \* bound: samples a server process sends
  MaxLines      \* bound: lines under way on a connection

ASSUME StreamAssumption ==
  /\ NoConn \notin Conns
  /\ MaxFailures \in Nat \ {0} /\ MaxNumber \in Nat \ {0} /\ MaxLines \in Nat \ {0}

VARIABLES
  server,      \* "down", in accept(), or in stream_client
  client,      \* server: the connection it serves
  failures,    \* server: consecutive_failures
  start,       \* server: sequence of run_server
  next,        \* server: sequence of stream_client
  held,        \* wire: the server's end of a connection
  up,          \* wire: the connection is whole, and the bridge's end open
  lines,       \* wire: lines the bridge has not read
  sock,        \* bridge: the socket of its network thread
  expect,      \* bridge: _last_sequence + 1, or 0 for None
  latestValid, \* bridge: _latest_valid
  regression,  \* bridge: _latest_reason is sequence_regression
  age,         \* bridge: age of _last_message_time
  beat,        \* bridge: flag the timer has computed and not published
  heard,       \* the last message on /real_joint_state_valid
  rewound,     \* the server's numbers may be below the bridge's (history)
  fed          \* the last line of this connection was accepted (history)

serverVars == <<server, client, failures, start, next>>
wireVars   == <<held, up, lines>>
beliefVars == <<expect, latestValid, regression, age>>
history    == <<rewound, fed>>
vars == <<serverVars, wireVars, sock, beliefVars, beat, heard, history>>

\* A line is a status, or a sample inside or outside the joint limits.
Lines == [kind : {"inside", "outside", "status"}, number : 0 .. MaxNumber - 1]

TypeOK ==
  /\ server \in {"down", "accept", "stream"}
  /\ client \in Conns \cup {NoConn}
  /\ server = "stream" <=> client # NoConn
  /\ failures \in 0 .. MaxFailures - 1
  /\ start \in 0 .. MaxNumber /\ next \in start .. MaxNumber
  /\ held \in [Conns -> {"none", "backlog", "served"}]
  /\ up \in [Conns -> BOOLEAN]
  /\ lines \in [Conns -> Seq(Lines)]
  /\ sock \in [Bridges -> Conns \cup {NoConn}]
  /\ expect \in [Bridges -> 0 .. MaxNumber]
  /\ latestValid \in [Bridges -> BOOLEAN] /\ regression \in [Bridges -> BOOLEAN]
  /\ age \in [Bridges -> {"none", "recent", "old"}]
  /\ beat \in [Bridges -> {"idle", "true", "false"}]
  /\ heard \in BOOLEAN
  /\ rewound \in [Bridges -> BOOLEAN] /\ fed \in [Bridges -> BOOLEAN]

Init ==
  /\ server = "down" /\ client = NoConn /\ failures = 0 /\ start = 0 /\ next = 0
  /\ held = [c \in Conns |-> "none"] /\ up = [c \in Conns |-> FALSE]
  /\ lines = [c \in Conns |-> <<>>]
  /\ sock = [b \in Bridges |-> NoConn] /\ expect = [b \in Bridges |-> 0]
  /\ latestValid = [b \in Bridges |-> FALSE] /\ regression = latestValid
  /\ age = [b \in Bridges |-> "none"] /\ beat = [b \in Bridges |-> "idle"]
  /\ heard = FALSE
  /\ rewound = latestValid /\ fed = latestValid

-----------------------------------------------------------------------------
(* The server.                                                             *)

\* run_server after a preflight that passed.  A preflight that fails ends
\* the process, which is then still down.
StartServer ==
  /\ server = "down"
  /\ server' = "accept" /\ start' = 0 /\ next' = 0
  /\ rewound' = [b \in Bridges |-> expect[b] > 0 \/ sock[b] # NoConn]
  /\ UNCHANGED <<client, failures, wireVars, sock, beliefVars, beat, heard, fed>>

\* accept(), and the head of stream_client up to the open bus.
Accept(c) ==
  /\ server = "accept" /\ held[c] = "backlog"
  /\ server' = "stream" /\ client' = c
  /\ held' = [held EXCEPT ![c] = "served"]
  /\ UNCHANGED <<failures, start, next, up, lines, sock, beliefVars, beat, heard, history>>

\* send_json_line: what is sent to a peer that has gone is lost, or raises;
\* a client that is not a bridge just reads.
Send(line) ==
  /\ Len(lines[client]) < MaxLines
  /\ lines' = IF up[client] /\ client \in Range(sock) THEN [lines EXCEPT ![client] = Append(@, line)] ELSE lines

\* One turn of stream_client's loop in which read_joint_frame gave a frame.
SendSample(kind) ==
  /\ server = "stream" /\ next < MaxNumber
  /\ Send([kind |-> kind, number |-> next])
  /\ failures' = 0 /\ next' = next + 1
  /\ UNCHANGED <<server, client, start, held, up, sock, beliefVars, beat, heard, history>>

\* The stream ends and its connection is closed; the numbers of the next
\* stream begin at n.
EndStream(n) ==
  /\ server' = "accept" /\ client' = NoConn /\ failures' = 0
  /\ start' = n /\ next' = n
  /\ held' = [held EXCEPT ![client] = "none"]

\* Mutant: a bus that fails once too often is not given up.
ReadFailsOneMore ==
  /\ server = "stream"
  /\ Send([kind |-> "status", number |-> 0])
  /\ \/ /\ failures < MaxFailures
        /\ failures' = failures + 1
        /\ UNCHANGED <<server, client, start, next, held>>
     \/ failures = MaxFailures /\ EndStream(next)
  /\ UNCHANGED <<up, sock, beliefVars, beat, heard, history>>

\* Mutant: a fault takes the numbers back to the start of the stream.
ReadFailsBack ==
  /\ server = "stream"
  /\ Send([kind |-> "status", number |-> 0])
  /\ \/ /\ failures + 1 < MaxFailures
        /\ failures' = failures + 1
        /\ UNCHANGED <<server, client, start, next, held>>
     \/ failures + 1 = MaxFailures /\ EndStream(start)
  /\ UNCHANGED <<up, sock, beliefVars, beat, heard, history>>

\* read_joint_frame raised.  After too many in a row the stream ends, and the
\* next one goes on with its numbers (two statuses are sent then: one here).
ReadFails ==
  /\ server = "stream"
  /\ Send([kind |-> "status", number |-> 0])
  /\ \/ /\ failures + 1 < MaxFailures
        /\ failures' = failures + 1
        /\ UNCHANGED <<server, client, start, next, held>>
     \/ failures + 1 = MaxFailures /\ EndStream(next)
  /\ UNCHANGED <<up, sock, beliefVars, beat, heard, history>>

\* A send raises: run_server keeps the number this stream started with.
Broken ==
  /\ server = "stream" /\ ~up[client]
  /\ EndStream(start)
  /\ UNCHANGED <<up, lines, sock, beliefVars, beat, heard, history>>

\* Ctrl+C, a kill, or an exception that nobody catches (the bus does not open
\* for a new client).
ServerDies ==
  /\ server # "down"
  /\ server' = "down" /\ client' = NoConn /\ failures' = 0
  /\ held' = [c \in Conns |-> "none"]
  /\ UNCHANGED <<start, next, up, lines, sock, beliefVars, beat, heard, history>>

\* The network resets a connection; both ends find out when they use it.
Reset(c) ==
  /\ up[c] /\ up' = [up EXCEPT ![c] = FALSE]
  /\ rewound' = [b \in Bridges |-> rewound[b] \/ sock[b] = c]
  /\ UNCHANGED <<serverVars, held, lines, sock, beliefVars, beat, heard, fed>>

-----------------------------------------------------------------------------
(* The network thread of a bridge.                                         *)

Free(c) == held[c] = "none" /\ ~up[c] /\ c \notin Range(sock)

\* create_connection succeeds as soon as the server listens.
Connect(b, c) ==
  /\ sock[b] = NoConn /\ server # "down" /\ Free(c)
  /\ sock' = [sock EXCEPT ![b] = c]
  /\ held' = [held EXCEPT ![c] = "backlog"]
  /\ up' = [up EXCEPT ![c] = TRUE]
  /\ lines' = [lines EXCEPT ![c] = <<>>]
  /\ regression' = [regression EXCEPT ![b] = FALSE]
  /\ UNCHANGED <<serverVars, expect, latestValid, age, beat, heard, history>>

\* Mutant: what was heard last stays in force.
MarkDisconnectedKept(b) ==
  /\ regression' = [regression EXCEPT ![b] = FALSE]
  /\ fed' = [fed EXCEPT ![b] = FALSE]
  /\ heard' = FALSE
  /\ UNCHANGED <<latestValid, age>>

\* _mark_disconnected, and the flag it publishes.
MarkDisconnected(b) ==
  /\ latestValid' = [latestValid EXCEPT ![b] = FALSE]
  /\ age' = [age EXCEPT ![b] = "none"]
  /\ regression' = [regression EXCEPT ![b] = FALSE]
  /\ fed' = [fed EXCEPT ![b] = FALSE]
  /\ heard' = FALSE

\* Refused, or not completed in 0.25 s.
ConnectFails(b) ==
  /\ sock[b] = NoConn
  /\ MarkDisconnected(b)
  /\ UNCHANGED <<serverVars, wireVars, sock, expect, beat, rewound>>

\* The bridge's end of its connection is closed; unread lines are lost.
Drop(b) ==
  /\ sock' = [sock EXCEPT ![b] = NoConn]
  /\ up' = [c \in Conns |-> up[c] /\ c # sock[b]]
  /\ lines' = [c \in Conns |-> IF c = sock[b] THEN <<>> ELSE lines[c]]

\* recv returns b"" after the last line, or raises with lines unread.
PeerClosed(b) ==
  /\ sock[b] # NoConn /\ (held[sock[b]] = "none" \/ ~up[sock[b]])
  /\ Drop(b)
  /\ MarkDisconnected(b)
  /\ UNCHANGED <<serverVars, held, expect, beat, rewound>>

\* _handle_json_line of a sample that _validate_payload lets pass.
AcceptLine(b, line) ==
  /\ line.kind = "inside" /\ line.number >= expect[b]
  /\ expect' = [expect EXCEPT ![b] = line.number + 1]
  /\ age' = [age EXCEPT ![b] = "recent"]
  /\ latestValid' = [latestValid EXCEPT ![b] = TRUE]
  /\ regression' = [regression EXCEPT ![b] = FALSE]
  /\ rewound' = [rewound EXCEPT ![b] = @ /\ ~(held[sock[b]] = "served" /\ up[sock[b]])]
  /\ fed' = [fed EXCEPT ![b] = TRUE]

\* A status, or a sample that is rejected: the number is tested before the
\* limits.  The age of the last good sample runs on.
RejectLine(b, line) ==
  /\ line.kind # "inside" \/ line.number < expect[b]
  /\ latestValid' = [latestValid EXCEPT ![b] = FALSE]
  /\ regression' = [regression EXCEPT ![b] = line.kind # "status" /\ line.number < expect[b]]
  /\ fed' = [fed EXCEPT ![b] = FALSE]
  /\ UNCHANGED <<expect, age, rewound>>

ReadLine(b) ==
  /\ sock[b] # NoConn /\ lines[sock[b]] # <<>>
  /\ lines' = [lines EXCEPT ![sock[b]] = Tail(@)]
  /\ LET line == Head(lines[sock[b]]) IN AcceptLine(b, line) \/ RejectLine(b, line)
  /\ UNCHANGED <<serverVars, held, up, sock, beat, heard>>

-----------------------------------------------------------------------------
(* The timer of a bridge, and its end.                                     *)

\* Mutant: the age of the last sample is not looked at.
HeartbeatAgeless(b) ==
  /\ beat[b] = "idle"
  /\ beat' = [beat EXCEPT ![b] = IF age[b] # "none" /\ latestValid[b] THEN "true" ELSE "false"]
  /\ UNCHANGED <<serverVars, wireVars, sock, beliefVars, heard, history>>

\* publish_heartbeat, under the lock.
Heartbeat(b) ==
  /\ beat[b] = "idle"
  /\ beat' = [beat EXCEPT ![b] = IF age[b] = "recent" /\ latestValid[b] THEN "true" ELSE "false"]
  /\ latestValid' = [latestValid EXCEPT ![b] = @ /\ age[b] # "old"]
  /\ regression' = [regression EXCEPT ![b] = @ /\ age[b] # "old"]
  /\ UNCHANGED <<serverVars, wireVars, sock, expect, age, heard, history>>

\* publish_heartbeat, after the lock.
PublishBeat(b) ==
  /\ beat[b] # "idle"
  /\ heard' = (beat[b] = "true")
  /\ beat' = [beat EXCEPT ![b] = "idle"]
  /\ UNCHANGED <<serverVars, wireVars, sock, beliefVars, history>>

\* timeout_s passes since the last good sample.
Ages(b) ==
  /\ age[b] = "recent"
  /\ age' = [age EXCEPT ![b] = "old"]
  /\ UNCHANGED <<serverVars, wireVars, sock, expect, latestValid, regression, beat, heard, history>>

\* The node ends and is started again; nothing is published meanwhile.
RestartBridge(b) ==
  /\ Drop(b)
  /\ expect' = [expect EXCEPT ![b] = 0]
  /\ latestValid' = [latestValid EXCEPT ![b] = FALSE]
  /\ regression' = [regression EXCEPT ![b] = FALSE]
  /\ age' = [age EXCEPT ![b] = "none"]
  /\ beat' = [beat EXCEPT ![b] = "idle"]
  /\ rewound' = [rewound EXCEPT ![b] = FALSE]
  /\ fed' = [fed EXCEPT ![b] = FALSE]
  /\ UNCHANGED <<serverVars, held, heard>>

-----------------------------------------------------------------------------
(* Any other client of the server: one that looks, or a bridge elsewhere.  *)

OtherConnects(c) ==
  /\ server # "down" /\ Free(c)
  /\ held' = [held EXCEPT ![c] = "backlog"]
  /\ up' = [up EXCEPT ![c] = TRUE]
  /\ UNCHANGED <<serverVars, lines, sock, beliefVars, beat, heard, history>>

OtherLeaves(c) ==
  /\ up[c] /\ c \notin Range(sock)
  /\ up' = [up EXCEPT ![c] = FALSE]
  /\ UNCHANGED <<serverVars, held, lines, sock, beliefVars, beat, heard, history>>

-----------------------------------------------------------------------------
ServeStep == (\E kind \in {"inside", "outside"} : SendSample(kind)) \/ ReadFails \/ Broken

Next ==
  \/ StartServer \/ ServerDies \/ ServeStep
  \/ \E c \in Conns : Accept(c) \/ Reset(c) \/ OtherConnects(c) \/ OtherLeaves(c)
  \/ \E b \in Bridges :
       \/ \E c \in Conns : Connect(b, c)
       \/ ConnectFails(b) \/ PeerClosed(b) \/ ReadLine(b)
       \/ Heartbeat(b) \/ PublishBeat(b) \/ Ages(b) \/ RestartBridge(b)

Spec == Init /\ [][Next]_vars

\* A bridge's timer fires and time passes.  Nothing is assumed of the server,
\* of the network or of the bridge's network thread.
FairSpec ==
  /\ Spec
  /\ \A b \in Bridges : WF_vars(Heartbeat(b)) /\ WF_vars(PublishBeat(b)) /\ WF_vars(Ages(b))

-----------------------------------------------------------------------------
(* Properties.                                                             *)

\* A bridge rejects a sample as a regression only after the server started
\* anew or the network reset the bridge's own connection: bus faults,
\* and whatever becomes of other clients and their connections, never take
\* the numbers below what a bridge has accepted.
RegressionMeansRewind == \A b \in Bridges : regression[b] => rewound[b]

\* The timer reports a valid joint state only when the newest line of the
\* connection that is open now was a good sample and is recent: no sample of
\* an earlier connection stands in for it.
BeatIsBacked ==
  [][\A b \in Bridges : beat[b] = "idle" /\ beat'[b] = "true" =>
       sock[b] # NoConn /\ fed[b] /\ age[b] = "recent"]_vars

\* When no more good samples are read, for whatever reason, and no bridge is
\* restarted again before it has published, the topic ends at FALSE.
SilenceIsHeard ==
  <>[][\A b \in Bridges : ~RestartBridge(b) /\ ~(ReadLine(b) /\ fed'[b])]_vars => <>[](~heard)

-----------------------------------------------------------------------------
(* What the proofs use.                                                    *)

Samples(c) == {i \in DOMAIN lines[c] : lines[c][i].kind # "status"}

\* No two bridges share a connection.
OwnSock == \A a, b \in Bridges : sock[a] = sock[b] /\ sock[a] # NoConn => a = b

\* The server serves the connection it holds as served, and no other; between
\* two streams there is one number, where the next one starts.
OneServed ==
  /\ \A c \in Conns : held[c] = "served" <=> c = client
  /\ server = "accept" => start = next

\* Nothing is under way to nobody, nor before the connection is accepted.
Unsent == \A c \in Conns : c \notin Range(sock) \/ held[c] = "backlog" => lines[c] = <<>>

\* A connection carries the samples of one stream, in the order they were sent.
InOrder ==
  /\ \A c \in Conns : \A i, j \in Samples(c) : i < j => lines[c][i].number < lines[c][j].number
  /\ \A c \in Conns : c = client => \A i \in Samples(c) : lines[c][i].number < next

\* What the server will not go below for a bridge: the next number while it
\* serves the bridge over a whole connection, else the start of the stream.
Floor(b) == IF sock[b] # NoConn /\ sock[b] = client /\ up[client] THEN next ELSE start

\* A bridge that nothing took back has accepted only numbers below that, and
\* the samples under way to it go on from there.
NotBelow ==
  \A b \in Bridges : ~rewound[b] =>
    /\ server # "down" => expect[b] <= Floor(b)
    /\ sock[b] # NoConn => \A i \in Samples(sock[b]) :
         /\ expect[b] <= lines[sock[b]][i].number
         /\ server # "down" => lines[sock[b]][i].number < Floor(b)

\* What a bridge believes, it believes of the connection it has.
Believed ==
  \A b \in Bridges :
    /\ latestValid[b] => fed[b]
    /\ fed[b] \/ regression[b] => sock[b] # NoConn

StreamInv == TypeOK /\ OwnSock /\ OneServed /\ Unsent /\ InOrder /\ NotBelow /\ Believed
=============================================================================
