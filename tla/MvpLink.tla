------------------------------ MODULE MvpLink ------------------------------
(***************************************************************************)
(* The motion link of the MVP chain: the hardware bridge node (one         *)
(* MvpTcpClient per node, single-threaded callbacks) and the single-client *)
(* JSON-lines server that owns the arm.                                    *)
(*                                                                         *)
(*   bridge callbacks   mvp_hardware_bridge_node.py, mvp_tcp_client.py     *)
(*   server             scripts/mvp_so101_server.py (class MvpTcpServer)   *)
(*                                                                         *)
(* A connection is one member of Conns; a dead one is reused, so the       *)
(* number of reconnections is not bounded.  Time is abstracted: a timeout  *)
(* may expire whenever the awaited event has not happened yet.  A request  *)
(* is its command, an answer its command and success flag.  What the arm   *)
(* does during a motion is in module SequentialMotion.                     *)
(***************************************************************************)
EXTENDS Naturals, Sequences

CONSTANTS
  Clients,                \* users of MvpTcpClient: the bridge, a legacy probe
  Conns,                  \* TCP connections that may exist at a time
  NoConn,                 \* "no socket" / "no active client"
  HardwareMotionEnabled   \* the server runs with --enable-hardware-motion

ASSUME NoConnAssumption == NoConn \notin Conns
ASSUME MotionFlagAssumption == HardwareMotionEnabled \in BOOLEAN

VARIABLES
  pc,            \* client: where its current callback is
  kind,          \* client: command of the current request
  sock,          \* client: MvpTcpClient._socket
  sendCompleted, \* client: MvpTcpClient._last_send_completed
  tcpConnected,  \* bridge: tcp_connected, the guard of execute_target
  verdict,       \* bridge: the execute_target response, until the next callback
  owner,         \* wire: the client that opened the connection
  cliOpen,       \* wire: the client's end is open
  c2s, s2c,      \* wire: requests and answers in transit
  thread,        \* server: state of the connection and of its thread
  answer,        \* server: the result _serve_client is about to write
  phase,         \* server: process state
  active         \* server: active_client_id

clientVars == <<pc, kind, sock, sendCompleted, tcpConnected, verdict>>
wireVars   == <<owner, cliOpen, c2s, s2c>>
serverVars == <<thread, answer, phase, active>>
vars       == <<clientVars, wireVars, serverVars>>

Commands == {"state", "move"}
Answers  == [cmd : Commands, ok : BOOLEAN]
NoAnswer == [cmd |-> "state", ok |-> FALSE]

(* A served connection goes through the states of Serving; "release" is    *)
(* the gap in _client_thread between conn.close() and clearing the slot.   *)
Serving   == {"read", "state", "moving", "reply", "closing"}
HoldsSlot == Serving \cup {"release"}
Threads   == HoldsSlot \cup {"backlog", "ended"}

ServerEndOpen(c) == thread[c] \in Serving \cup {"backlog"}
Dead(c)          == thread[c] = "ended" /\ ~cliOpen[c]
ProcessAlive     == phase # "down"

TypeOK ==
  /\ pc \in [Clients -> {"idle", "connect", "send", "recv"}]
  /\ kind \in [Clients -> Commands]
  /\ sock \in [Clients -> Conns \cup {NoConn}]
  /\ sendCompleted \in [Clients -> BOOLEAN]
  /\ tcpConnected \in [Clients -> BOOLEAN]
  /\ verdict \in [Clients -> {"none", "refused", "done", "failed", "not_sent", "unknown"}]
  /\ owner \in [Conns -> Clients]
  /\ cliOpen \in [Conns -> BOOLEAN]
  /\ c2s \in [Conns -> Seq(Commands)]
  /\ s2c \in [Conns -> Seq(Answers)]
  /\ thread \in [Conns -> Threads]
  /\ answer \in [Conns -> Answers]
  /\ phase \in {"down", "up", "joining", "released"}
  /\ active \in Conns \cup {NoConn}

Init ==
  /\ pc = [b \in Clients |-> "idle"]
  /\ kind = [b \in Clients |-> "state"]
  /\ sock = [b \in Clients |-> NoConn]
  /\ sendCompleted = [b \in Clients |-> FALSE]
  /\ tcpConnected = [b \in Clients |-> FALSE]
  /\ verdict = [b \in Clients |-> "none"]
  /\ owner \in [Conns -> Clients]
  /\ cliOpen = [c \in Conns |-> FALSE]
  /\ c2s = [c \in Conns |-> <<>>]
  /\ s2c = [c \in Conns |-> <<>>]
  /\ thread = [c \in Conns |-> "ended"]
  /\ answer = [c \in Conns |-> NoAnswer]
  /\ phase = "down"
  /\ active = NoConn

-----------------------------------------------------------------------------
(* The client.  Callbacks of the bridge run one at a time on the executor  *)
(* of rclpy.spin, so a new request starts only when pc is "idle".          *)

\* get_client() and the entry of _request_once: connect() returns at once
\* when the socket exists.
StartRequest(b, cmd) ==
  /\ kind' = [kind EXCEPT ![b] = cmd]
  /\ pc' = [pc EXCEPT ![b] = IF sock[b] = NoConn THEN "connect" ELSE "send"]
  /\ verdict' = [verdict EXCEPT ![b] = "none"]
  /\ UNCHANGED <<sock, sendCompleted, tcpConnected, wireVars, serverVars>>

\* poll_state_once, up to the request.
PollState(b) ==
  /\ pc[b] = "idle"
  /\ StartRequest(b, "state")

\* handle_execute_target: refused unless the last poll succeeded.
ExecuteTarget(b) ==
  /\ pc[b] = "idle"
  /\ tcpConnected[b]
  /\ StartRequest(b, "move")

\* handle_execute_target: hardware_motion_disabled and no_valid_target
\* depend on inputs that are free here, tcp_not_ready on tcp_connected.
RefuseExecute(b) ==
  /\ pc[b] = "idle"
  /\ verdict' = [verdict EXCEPT ![b] = "refused"]
  /\ UNCHANGED <<pc, kind, sock, sendCompleted, tcpConnected, wireVars, serverVars>>

\* Mutant: the command is cleared to no command at all.
EndCallbackClears(b) ==
  /\ pc' = [pc EXCEPT ![b] = "idle"]
  /\ kind' = [kind EXCEPT ![b] = "none"]

EndCallback(b) ==
  /\ pc' = [pc EXCEPT ![b] = "idle"]
  /\ kind' = [kind EXCEPT ![b] = "state"]

\* Mutant: the connection is kept for the next request.
CloseSocketKept(b) == b \in Clients /\ UNCHANGED <<sock, cliOpen, s2c>>

\* MvpTcpClient.close(): unread answers go with the socket.
CloseSocket(b) ==
  /\ sock' = [sock EXCEPT ![b] = NoConn]
  /\ cliOpen' = [c \in Conns |-> IF c = sock[b] THEN FALSE ELSE cliOpen[c]]
  /\ s2c' = [c \in Conns |-> IF c = sock[b] THEN <<>> ELSE s2c[c]]

\* Mutant: tcp_connected is left as it was.
CloseAndReportConnected(b, sent) ==
  /\ CloseSocket(b)
  /\ EndCallback(b)
  /\ sendCompleted' = [sendCompleted EXCEPT ![b] = FALSE]
  /\ verdict' = IF kind[b] = "move"
                  THEN [verdict EXCEPT ![b] = IF sent THEN "unknown" ELSE "not_sent"]
                  ELSE verdict
  /\ UNCHANGED <<tcpConnected, owner, c2s, serverVars>>

\* Mutant: a motion request whose answer did not come is sent again.
CloseAndReportRetries(b, sent) ==
  /\ CloseSocket(b)
  /\ IF kind[b] = "move" /\ sent
       THEN pc' = [pc EXCEPT ![b] = "connect"] /\ UNCHANGED kind
       ELSE EndCallback(b)
  /\ sendCompleted' = [sendCompleted EXCEPT ![b] = FALSE]
  /\ tcpConnected' = [tcpConnected EXCEPT ![b] = FALSE]
  /\ UNCHANGED <<verdict, owner, c2s, serverVars>>

\* The error path shared by every exception of _request_once: close(), then
\* the bridge publishes "not connected" and drops the client object
\* (warn_tcp_failure, reset_client); a motion request is reported as
\* motion_result_unknown when its bytes had been written.
CloseAndReport(b, sent) ==
  /\ CloseSocket(b)
  /\ EndCallback(b)
  /\ sendCompleted' = [sendCompleted EXCEPT ![b] = FALSE]
  /\ tcpConnected' = [tcpConnected EXCEPT ![b] = FALSE]
  /\ verdict' = IF kind[b] = "move"
                  THEN [verdict EXCEPT ![b] = IF sent THEN "unknown" ELSE "not_sent"]
                  ELSE verdict
  /\ UNCHANGED <<owner, c2s, serverVars>>

\* connect(): the kernel completes the handshake as soon as the server
\* listens, before the accept loop has seen the connection.
Connect(b, c) ==
  /\ pc[b] = "connect"
  /\ phase \in {"up", "joining", "released"}
  /\ Dead(c)
  /\ sock' = [sock EXCEPT ![b] = c]
  /\ pc' = [pc EXCEPT ![b] = "send"]
  /\ owner' = [owner EXCEPT ![c] = b]
  /\ cliOpen' = [cliOpen EXCEPT ![c] = TRUE]
  /\ c2s' = [c2s EXCEPT ![c] = <<>>]
  /\ s2c' = [s2c EXCEPT ![c] = <<>>]
  /\ thread' = [thread EXCEPT ![c] = "backlog"]
  /\ UNCHANGED <<kind, sendCompleted, tcpConnected, verdict, answer, phase, active>>

\* Refused, or not completed within connect_timeout_s.
ConnectFails(b) ==
  /\ pc[b] = "connect"
  /\ CloseAndReport(b, sendCompleted[b])

\* sendall succeeds; on a connection the server has closed the bytes are lost.
Send(b) ==
  /\ pc[b] = "send"
  /\ pc' = [pc EXCEPT ![b] = "recv"]
  /\ sendCompleted' = [sendCompleted EXCEPT ![b] = TRUE]
  /\ c2s' = IF ServerEndOpen(sock[b])
              THEN [c2s EXCEPT ![sock[b]] = Append(@, kind[b])]
              ELSE c2s
  /\ UNCHANGED <<kind, sock, tcpConnected, verdict, owner, cliOpen, s2c, serverVars>>

\* sendall raises: possible only after the peer's end has gone.
SendFails(b) ==
  /\ pc[b] = "send"
  /\ ~ServerEndOpen(sock[b])
  /\ CloseAndReport(b, FALSE)

HasLine(b) == pc[b] = "recv" /\ s2c[sock[b]] # <<>>
Line(b)    == Head(s2c[sock[b]])

\* poll_state_once got a line: success publishes "connected", anything else
\* publishes "not connected" and resets the client.
ReceiveState(b) ==
  /\ HasLine(b)
  /\ kind[b] = "state"
  /\ tcpConnected' = [tcpConnected EXCEPT ![b] = Line(b).ok]
  /\ \/ /\ Line(b).ok
        /\ s2c' = [s2c EXCEPT ![sock[b]] = Tail(@)]
        /\ UNCHANGED <<sock, cliOpen, sendCompleted>>
     \/ /\ ~Line(b).ok
        /\ CloseSocket(b)
        /\ sendCompleted' = [sendCompleted EXCEPT ![b] = FALSE]
  /\ EndCallback(b)
  /\ UNCHANGED <<verdict, owner, c2s, serverVars>>

\* handle_execute_target got a line: it becomes the service response.
ReceiveMove(b) ==
  /\ HasLine(b)
  /\ kind[b] = "move"
  /\ s2c' = [s2c EXCEPT ![sock[b]] = Tail(@)]
  /\ verdict' = [verdict EXCEPT ![b] = IF Line(b).ok THEN "done" ELSE "failed"]
  /\ EndCallback(b)
  /\ UNCHANGED <<sock, cliOpen, sendCompleted, tcpConnected, owner, c2s, serverVars>>

\* state_request_timeout_s or motion_request_timeout_s expired.
ReceiveTimeout(b) ==
  /\ pc[b] = "recv"
  /\ s2c[sock[b]] = <<>>
  /\ CloseAndReport(b, sendCompleted[b])

\* recv returns b"" or raises ECONNRESET; a reset discards unread answers.
ReceiveClosed(b) ==
  /\ pc[b] = "recv"
  /\ ~ServerEndOpen(sock[b])
  /\ CloseAndReport(b, sendCompleted[b])

\* The client process is killed and started again; the kernel closes its
\* socket, the server keeps whatever it was doing.
RestartClient(b) ==
  /\ CloseSocket(b)
  /\ EndCallback(b)
  /\ sendCompleted' = [sendCompleted EXCEPT ![b] = FALSE]
  /\ tcpConnected' = [tcpConnected EXCEPT ![b] = FALSE]
  /\ verdict' = [verdict EXCEPT ![b] = "none"]
  /\ UNCHANGED <<owner, c2s, serverVars>>

-----------------------------------------------------------------------------
(* The server.  The accept loop and the client threads.                    *)

\* Mutant: the slot is claimed without a test.
AcceptClientUntested(c) ==
  /\ phase = "up"
  /\ thread[c] = "backlog"
  /\ active' = c
  /\ thread' = [thread EXCEPT ![c] = "read"]
  /\ UNCHANGED <<answer, phase, clientVars, wireVars>>

\* serve_forever: the slot is tested and claimed under active_client_lock.
AcceptClient(c) ==
  /\ phase = "up"
  /\ thread[c] = "backlog"
  /\ active = NoConn
  /\ active' = c
  /\ thread' = [thread EXCEPT ![c] = "read"]
  /\ UNCHANGED <<answer, phase, clientVars, wireVars>>

\* serve_forever: the slot is taken, the new connection is closed at once.
RejectClient(c) ==
  /\ phase = "up"
  /\ thread[c] = "backlog"
  /\ active # NoConn
  /\ thread' = [thread EXCEPT ![c] = "ended"]
  /\ c2s' = [c2s EXCEPT ![c] = <<>>]
  /\ UNCHANGED <<answer, phase, active, owner, cliOpen, s2c, clientVars>>

ReadRequest(c, cmd) ==
  /\ thread[c] = "read"
  /\ c2s[c] # <<>>
  /\ Head(c2s[c]) = cmd
  /\ c2s' = [c2s EXCEPT ![c] = Tail(@)]

\* handle_line: get_state reads the backend.
BeginGetState(c) ==
  /\ ReadRequest(c, "state")
  /\ thread' = [thread EXCEPT ![c] = "state"]
  /\ UNCHANGED <<answer, phase, active, owner, cliOpen, s2c, clientVars>>

SetAnswer(c, cmd, ok) ==
  /\ thread' = [thread EXCEPT ![c] = "reply"]
  /\ answer' = [answer EXCEPT ![c] = [cmd |-> cmd, ok |-> ok]]

\* get_state returned, or raised (server_state_error); once the backend has
\* been released there is no robot (backend_not_connected).
FinishGetState(c, ok) ==
  /\ thread[c] = "state"
  /\ ok => phase # "released"
  /\ SetAnswer(c, "state", ok)
  /\ UNCHANGED <<phase, active, clientVars, wireVars>>

\* _handle_move: a validation guard or the read-only mode answers at once.
RefuseMove(c) ==
  /\ ReadRequest(c, "move")
  /\ SetAnswer(c, "move", FALSE)
  /\ UNCHANGED <<phase, active, owner, cliOpen, s2c, clientVars>>

\* _handle_move: all guards passed, backend.move_joints_sequential runs in
\* this thread.
BeginMove(c) ==
  /\ HardwareMotionEnabled
  /\ phase # "released"
  /\ ReadRequest(c, "move")
  /\ thread' = [thread EXCEPT ![c] = "moving"]
  /\ UNCHANGED <<answer, phase, active, owner, cliOpen, s2c, clientVars>>

\* The motion returned success, a failure, or raised (server_motion_error);
\* after backend.close() only the latter two remain.
FinishMove(c, ok) ==
  /\ thread[c] = "moving"
  /\ ok => phase # "released"
  /\ SetAnswer(c, "move", ok)
  /\ UNCHANGED <<phase, active, clientVars, wireVars>>

\* _serve_client: write and flush the answer, then loop.
WriteAnswer(c) ==
  /\ thread[c] = "reply"
  /\ s2c' = IF cliOpen[c] THEN [s2c EXCEPT ![c] = Append(@, answer[c])] ELSE s2c
  /\ thread' = [thread EXCEPT ![c] = "read"]
  /\ answer' = [answer EXCEPT ![c] = NoAnswer]
  /\ UNCHANGED <<phase, active, owner, cliOpen, c2s, clientVars>>

\* _serve_client: the write or the next readline raises on a closed peer,
\* or readline returns EOF after the last request.
EndOfStream(c) ==
  /\ ~cliOpen[c]
  /\ \/ thread[c] = "reply"
     \/ thread[c] = "read" /\ c2s[c] = <<>>
  /\ thread' = [thread EXCEPT ![c] = "closing"]
  /\ answer' = [answer EXCEPT ![c] = NoAnswer]
  /\ UNCHANGED <<phase, active, clientVars, wireVars>>

\* _client_thread, finally: conn.close() drops the lines not read.
CloseConnection(c) ==
  /\ thread[c] = "closing"
  /\ thread' = [thread EXCEPT ![c] = "release"]
  /\ c2s' = [c2s EXCEPT ![c] = <<>>]
  /\ UNCHANGED <<answer, phase, active, owner, cliOpen, s2c, clientVars>>

\* Mutant: the slot is never cleared.
ReleaseSlotNever(c) ==
  /\ thread[c] = "release"
  /\ thread' = [thread EXCEPT ![c] = "ended"]
  /\ UNCHANGED <<answer, phase, active, clientVars, wireVars>>

\* _client_thread, finally: the slot is cleared if it is still ours.
ReleaseSlot(c) ==
  /\ thread[c] = "release"
  /\ active' = IF active = c THEN NoConn ELSE active
  /\ thread' = [thread EXCEPT ![c] = "ended"]
  /\ UNCHANGED <<answer, phase, clientVars, wireVars>>

\* main: backend.connect() succeeded and the socket listens.
StartServer ==
  /\ phase = "down"
  /\ phase' = "up"
  /\ active' = NoConn
  /\ UNCHANGED <<thread, answer, clientVars, wireVars>>

\* Ctrl+C in the accept loop: the finally block joins the client threads.
\* stop_event is not set yet, so they keep serving.
Interrupt ==
  /\ phase = "up"
  /\ phase' = "joining"
  /\ UNCHANGED <<thread, answer, active, clientVars, wireVars>>

\* The joins ended or timed out (1 s each); backend.close() drops the robot.
CloseBackend ==
  /\ phase = "joining"
  /\ phase' = "released"
  /\ UNCHANGED <<thread, answer, active, clientVars, wireVars>>

\* The process ends (after shutdown(), or killed at any time): the kernel
\* closes every socket, daemon threads vanish.
ExitServer ==
  /\ ProcessAlive
  /\ phase' = "down"
  /\ active' = NoConn
  /\ thread' = [c \in Conns |-> "ended"]
  /\ c2s' = [c \in Conns |-> <<>>]
  /\ answer' = [c \in Conns |-> NoAnswer]
  /\ UNCHANGED <<owner, cliOpen, s2c, clientVars>>

-----------------------------------------------------------------------------
ClientStep(b) ==
  \/ PollState(b)
  \/ ExecuteTarget(b)
  \/ RefuseExecute(b)
  \/ \E c \in Conns : Connect(b, c)
  \/ ConnectFails(b)
  \/ Send(b)
  \/ SendFails(b)
  \/ ReceiveState(b)
  \/ ReceiveMove(b)
  \/ ReceiveTimeout(b)
  \/ ReceiveClosed(b)
  \/ RestartClient(b)

ThreadStep(c) ==
  \/ BeginGetState(c)
  \/ \E ok \in BOOLEAN : FinishGetState(c, ok)
  \/ RefuseMove(c)
  \/ BeginMove(c)
  \/ \E ok \in BOOLEAN : FinishMove(c, ok)
  \/ WriteAnswer(c)
  \/ EndOfStream(c)
  \/ CloseConnection(c)
  \/ ReleaseSlot(c)

AcceptStep(c) == AcceptClient(c) \/ RejectClient(c)

ProcessStep == StartServer \/ Interrupt \/ CloseBackend \/ ExitServer

Next ==
  \/ \E b \in Clients : ClientStep(b)
  \/ \E c \in Conns : ThreadStep(c) \/ AcceptStep(c)
  \/ ProcessStep

(* The executor keeps calling the poll timer; blocking socket calls return *)
(* or time out; the accept loop and the threads are scheduled; a motion is *)
(* a finite loop.  Nothing is assumed of the operator's actions, of crashes*)
(* or of the order of connections in the backlog.                          *)
Fairness ==
  /\ \A b \in Clients :
       /\ WF_vars(PollState(b))
       /\ WF_vars((\E c \in Conns : Connect(b, c)) \/ ConnectFails(b))
       /\ WF_vars(Send(b) \/ SendFails(b))
       /\ WF_vars(ReceiveState(b) \/ ReceiveMove(b) \/ ReceiveTimeout(b) \/ ReceiveClosed(b))
  /\ \A c \in Conns : WF_vars(ThreadStep(c)) /\ WF_vars(AcceptStep(c))

Spec == Init /\ [][Next]_vars
FairSpec == Spec /\ Fairness

-----------------------------------------------------------------------------
(* Properties.                                                             *)

\* The single-client rule of the server (active_client_id): whatever the
\* order of accepts, rejections, disconnections and late releases, at most
\* one client thread is between accept and conn.close(), hence at most one
\* motion writes to the arm.
SingleClient ==
  \A c, d \in Conns : thread[c] \in Serving /\ thread[d] \in Serving => c = d

\* tcp_connected is the only thing execute_target looks at before it sends a
\* motion.  It must never be true while an earlier motion of the same bridge
\* (one whose call ended in motion_result_unknown, or that a restarted bridge
\* no longer knows about) is still queued or running.
ConnectedMeansSettled ==
  \A b \in Clients : tcpConnected[b] /\ pc[b] = "idle" =>
    \A c \in Conns : owner[c] = b =>
      /\ thread[c] # "moving"
      /\ ServerEndOpen(c) => \A i \in DOMAIN c2s[c] : c2s[c][i] # "move"

\* The persistent connection is reused for one request after the other: when
\* a request is about to be written nothing of an earlier one is left in
\* either direction or in the server, so the next line read is its answer.
CleanBeforeSend ==
  \A b \in Clients : pc[b] = "send" =>
    /\ c2s[sock[b]] = <<>>
    /\ s2c[sock[b]] = <<>>
    /\ thread[sock[b]] \notin {"state", "moving", "reply"}

\* The answer to a request is for that command.
AnswerMatches ==
  \A b \in Clients : pc[b] = "recv" /\ s2c[sock[b]] # <<>> =>
    Head(s2c[sock[b]]).cmd = kind[b]

-----------------------------------------------------------------------------
(* The inductive invariant behind these properties.                        *)

HasMove(c) == thread[c] = "moving" \/ c2s[c] = <<"move">>

\* A thread that may still touch the arm or the slot is the active client,
\* and there is none without a server process.
SlotInv ==
  /\ \A c \in Conns : thread[c] \in HoldsSlot => active = c
  /\ phase = "down" => \A c \in Conns : thread[c] = "ended"

\* Each open socket belongs to exactly the client that opened it.
SockInv ==
  /\ \A b \in Clients : sock[b] # NoConn => cliOpen[sock[b]] /\ owner[sock[b]] = b
  /\ \A c \in Conns : cliOpen[c] => sock[owner[c]] = c
  /\ \A b \in Clients : pc[b] \in {"send", "recv"} => sock[b] # NoConn
  /\ \A b \in Clients : pc[b] = "connect" => sock[b] = NoConn

\* One request at a time on an open connection, and where it is.
Quiet(c) == c2s[c] = <<>> /\ s2c[c] = <<>>
AwaitAt(b, c) ==
  /\ pc[b] \in {"idle", "send"} /\ c # NoConn =>
       Quiet(c) /\ thread[c] \in {"backlog", "read", "ended"}
  /\ pc[b] = "recv" =>
       \/ c2s[c] = <<kind[b]>> /\ s2c[c] = <<>> /\ thread[c] \in {"backlog", "read"}
       \/ Quiet(c) /\ thread[c] = "state" /\ kind[b] = "state"
       \/ Quiet(c) /\ thread[c] = "moving" /\ kind[b] = "move"
       \/ Quiet(c) /\ thread[c] = "reply" /\ answer[c].cmd = kind[b]
       \/ c2s[c] = <<>> /\ thread[c] \in {"read", "ended"}
            /\ \E a \in Answers : s2c[c] = <<a>> /\ a.cmd = kind[b]
       \/ Quiet(c) /\ thread[c] = "ended"
AwaitInv == \A b \in Clients : AwaitAt(b, sock[b])

\* What may be left on a connection its client has abandoned.
AbandonedAt(c) ==
  /\ thread[c] \in {"release", "ended"} => c2s[c] = <<>>
  /\ ~cliOpen[c] =>
       /\ s2c[c] = <<>>
       /\ c2s[c] # <<>> => /\ c2s[c] \in {<<"state">>, <<"move">>}
                           /\ thread[c] \in {"backlog", "read"}
AbandonedInv == \A c \in Conns : AbandonedAt(c)

\* A motion is only ever sent on a connection that the server has accepted
\* and that has carried an answer; then no other connection of the client
\* holds a motion.
MotionInv ==
  /\ \A c \in Conns : c2s[c] = <<"move">> => thread[c] # "backlog"
  /\ \A b \in Clients : kind[b] = "move" => tcpConnected[b] /\ pc[b] # "idle"
  /\ \A b \in Clients : tcpConnected[b] => sock[b] # NoConn /\ thread[sock[b]] # "backlog"
  /\ \A b \in Clients : sock[b] # NoConn /\ (tcpConnected[b] \/ s2c[sock[b]] # <<>>) =>
       \A c \in Conns : owner[c] = b /\ c # sock[b] => ~HasMove(c)

LinkInv == TypeOK /\ SlotInv /\ SockInv /\ AwaitInv /\ AbandonedInv /\ MotionInv

-----------------------------------------------------------------------------
(* The promise of module OneMotion.                                        *)
call == [b \in Clients |-> pc[b] = "recv" /\ kind[b] = "move"]

\* A "move" line that a live server has yet to read.
Unread(c) == thread[c] \in Serving \cup {"backlog"} /\ c2s[c] = <<"move">>

request ==
  [b \in Clients |->
     IF \E c \in Conns : owner[c] = b /\ thread[c] = "moving" THEN "running"
     ELSE IF \E c \in Conns : owner[c] = b /\ Unread(c) THEN "posted"
     ELSE IF call[b] /\ (thread[sock[b]] = "reply" \/ s2c[sock[b]] # <<>>) THEN "answered"
     ELSE "none"]

Promise ==
  INSTANCE OneMotion
    WITH Clients <- Clients, call <- call, request <- request, verdict <- verdict

\* The link keeps the promise: verdicts, repetitions and overlaps are those
\* of OneMotion, under crashes of either side, timeouts and reconnections.
KeepsPromise == Promise!Spec

\* Steps that may prevent a reconnection for as long as they recur: the
\* server stops or is interrupted; a client drops a connection that the
\* server still has open (a restart, a request that times out, an answer of
\* failure); a connection attempt fails although the server could take it.
Disturbance ==
  \/ phase' # "up"
  \/ \E b \in Clients : sock[b] # NoConn /\ sock'[b] # sock[b] /\ ServerEndOpen(sock[b])
  \/ \E b \in Clients : pc[b] = "connect" /\ pc'[b] = "idle" /\ \E c \in Conns : Dead(c)

\* Once the server stays up and answers in time, the bridge gets the slot
\* back and reports the connection ready again, even when an abandoned motion
\* kept the slot and its connections were rejected meanwhile.
Reconnects ==
  (<>[][~Disturbance]_vars /\ <>[](phase = "up"))
    => \A b \in Clients : []<>tcpConnected[b]
=============================================================================
