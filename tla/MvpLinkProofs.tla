--------------------------- MODULE MvpLinkProofs ---------------------------
(***************************************************************************)
(* Theorems about MvpLink for every set of clients and connections, and    *)
(* their proofs.  LinkInv is inductive: each action has a lemma (or shares *)
(* one) that it preserves LinkInv, given that it preserves TypeOK.  The    *)
(* last part shows that the link implements OneMotion: a step of the link  *)
(* is a step of OneMotion, or leaves call, request and verdict as they are.*)
(***************************************************************************)
EXTENDS MvpLink, TLAPS

-----------------------------------------------------------------------------
(* Sequences.                                                              *)

\* The wire holds sequences of at most one line.
LEMMA OneElement ==
  ASSUME NEW e
  PROVE  /\ Append(<<>>, e) = <<e>>
         /\ Head(<<e>>) = e
         /\ Tail(<<e>>) = <<>>
         /\ <<e>> # <<>>
  OBVIOUS

\* Appending keeps the type of a family of sequences.
LEMMA AppendTyped ==
  ASSUME NEW D, NEW S, NEW f \in [D -> Seq(S)], NEW d \in D, NEW e \in S
  PROVE  [f EXCEPT ![d] = Append(f[d], e)] \in [D -> Seq(S)]
<1>1. Append(f[d], e) \in Seq(S)
  <2>1. f[d] \in Seq(S)
    OBVIOUS
  <2> QED BY <2>1
<1> QED BY <1>1

\* So does taking the tail of one that is not empty.
LEMMA TailTyped ==
  ASSUME NEW D, NEW S, NEW f \in [D -> Seq(S)], NEW d \in D, f[d] # <<>>
  PROVE  [f EXCEPT ![d] = Tail(f[d])] \in [D -> Seq(S)]
<1>1. Tail(f[d]) \in Seq(S)
  <2>1. f[d] \in Seq(S)
    OBVIOUS
  <2> QED BY <2>1
<1> QED BY <1>1

-----------------------------------------------------------------------------
(* Type correctness.                                                       *)

\* Every variable has its type initially.
LEMMA TypeInit == Init => TypeOK
  BY MotionFlagAssumption DEF Init, TypeOK, Commands, Answers, NoAnswer, Threads, HoldsSlot, Serving

\* Sending appends a command to a connection, or to none.
LEMMA TypeSend == ASSUME TypeOK, NEW b \in Clients, Send(b) PROVE TypeOK'
<1> USE DEF Send, TypeOK, wireVars, serverVars, clientVars
<1>1. c2s' \in [Conns -> Seq(Commands)]
  <2>1. CASE ServerEndOpen(sock[b]) /\ sock[b] \in Conns
    BY <2>1, AppendTyped
  <2>2. CASE ~ServerEndOpen(sock[b])
    BY <2>2
  <2>3. CASE sock[b] \notin Conns
    BY <2>3
  <2> QED BY <2>1, <2>2, <2>3
<1> QED BY <1>1

\* The rest of the callback that consumes a line.
LEMMA TypeConsume ==
  ASSUME TypeOK, NEW b \in Clients, sock[b] \in Conns, HasLine(b)
  PROVE  /\ [s2c EXCEPT ![sock[b]] = Tail(@)] \in [Conns -> Seq(Answers)]
         /\ Line(b) \in Answers
<1>1. s2c \in [Conns -> Seq(Answers)] /\ s2c[sock[b]] # <<>>
  BY DEF TypeOK, HasLine
<1>2. [s2c EXCEPT ![sock[b]] = Tail(@)] \in [Conns -> Seq(Answers)]
  BY <1>1, TailTyped
<1>3. s2c[sock[b]] \in Seq(Answers)
  BY <1>1
<1> QED BY <1>1, <1>2, <1>3 DEF Line

\* A client that waits for an answer has a socket, so its lines have a type.
LEMMA TypeReceiveState ==
  ASSUME TypeOK, NEW b \in Clients, sock[b] \in Conns, ReceiveState(b) PROVE TypeOK'
<1> USE DEF ReceiveState, TypeOK
<1>1. s2c' \in [Conns -> Seq(Answers)]
  <2>1. CASE Line(b).ok
    BY <2>1, TypeConsume
  <2>2. CASE ~Line(b).ok
    <3>1. <<>> \in Seq(Answers)
      OBVIOUS
    <3> QED BY <2>2, <3>1 DEF CloseSocket
  <2> QED BY <2>1, <2>2
<1>2. tcpConnected' \in [Clients -> BOOLEAN]
  BY TypeConsume DEF Answers
<1>3. /\ sock' \in [Clients -> Conns \cup {NoConn}]
      /\ cliOpen' \in [Conns -> BOOLEAN]
      /\ sendCompleted' \in [Clients -> BOOLEAN]
  <2>1. CASE Line(b).ok
    BY <2>1
  <2>2. CASE ~Line(b).ok
    <3>1. sock' = [sock EXCEPT ![b] = NoConn] /\ sendCompleted' = [sendCompleted EXCEPT ![b] = FALSE]
      BY <2>2 DEF CloseSocket
    <3>2. cliOpen' = [c \in Conns |-> IF c = sock[b] THEN FALSE ELSE cliOpen[c]]
      BY <2>2 DEF CloseSocket
    <3> QED BY <3>1, <3>2
  <2> QED BY <2>1, <2>2
<1>4. /\ kind' \in [Clients -> Commands]
      /\ pc' \in [Clients -> {"idle", "connect", "send", "recv"}]
  BY DEF EndCallback, Commands
<1> QED BY <1>1, <1>2, <1>3, <1>4 DEF serverVars

\* The same for the answer to a motion.
LEMMA TypeReceiveMove ==
  ASSUME TypeOK, NEW b \in Clients, sock[b] \in Conns, ReceiveMove(b) PROVE TypeOK'
<1> USE DEF ReceiveMove, TypeOK
<1>1. s2c' \in [Conns -> Seq(Answers)]
  BY TypeConsume
<1>2. /\ kind' \in [Clients -> Commands]
      /\ pc' \in [Clients -> {"idle", "connect", "send", "recv"}]
  BY DEF EndCallback, Commands
<1> QED BY <1>1, <1>2 DEF serverVars

\* Giving up a connection.
LEMMA TypeDrop ==
  ASSUME TypeOK, NEW b \in Clients, CloseSocket(b), EndCallback(b)
  PROVE  /\ s2c' \in [Conns -> Seq(Answers)]
         /\ sock' \in [Clients -> Conns \cup {NoConn}]
         /\ cliOpen' \in [Conns -> BOOLEAN]
         /\ kind' \in [Clients -> Commands]
         /\ pc' \in [Clients -> {"idle", "connect", "send", "recv"}]
<1>1. <<>> \in Seq(Answers)
  OBVIOUS
<1>2. s2c' \in [Conns -> Seq(Answers)]
  BY <1>1 DEF TypeOK, CloseSocket
<1>3. kind' \in [Clients -> Commands] /\ pc' \in [Clients -> {"idle", "connect", "send", "recv"}]
  BY DEF TypeOK, EndCallback, Commands
<1> QED BY <1>2, <1>3 DEF TypeOK, CloseSocket

\* The rest of the error path.
LEMMA TypeFail ==
  ASSUME TypeOK, NEW b \in Clients, NEW sent, CloseAndReport(b, sent) PROVE TypeOK'
<1> USE DEF TypeOK, CloseAndReport
<1>1. verdict' \in [Clients -> {"none", "refused", "done", "failed", "not_sent", "unknown"}]
  OBVIOUS
<1>2. sendCompleted' \in [Clients -> BOOLEAN] /\ tcpConnected' \in [Clients -> BOOLEAN]
  OBVIOUS
<1> QED BY <1>1, <1>2, TypeDrop DEF serverVars

-----------------------------------------------------------------------------
(* The client's actions.                                                   *)

\* Sockets are not shared.
LEMMA OtherSock ==
  ASSUME LinkInv, NEW b \in Clients, sock[b] # NoConn, NEW d \in Clients, d # b
  PROVE  sock[d] # sock[b]
  BY DEF LinkInv, SockInv, TypeOK

\* A callback that ends with the connection closed, for whatever reason.
LEMMA DropInv ==
  ASSUME LinkInv, NEW b \in Clients, TypeOK',
         CloseSocket(b), EndCallback(b),
         tcpConnected' = [tcpConnected EXCEPT ![b] = FALSE],
         UNCHANGED <<owner, c2s, thread, answer, phase, active>>
  PROVE  LinkInv'
<1> USE NoConnAssumption DEF CloseSocket, EndCallback, Commands
<1>1. SlotInv'
  BY DEF LinkInv, SlotInv, TypeOK
<1>2. \A d \in Clients : sock'[d] = IF d = b THEN NoConn ELSE sock[d]
  BY DEF LinkInv, TypeOK
<1>3. \A d \in Clients : d # b /\ sock[d] # NoConn => sock[d] # sock[b]
  BY DEF LinkInv, SockInv, TypeOK
<1>4. \A d \in Clients : d # b => pc'[d] = pc[d] /\ kind'[d] = kind[d] /\ tcpConnected'[d] = tcpConnected[d]
  BY DEF LinkInv, TypeOK
<1>5. pc'[b] = "idle" /\ kind'[b] = "state" /\ tcpConnected'[b] = FALSE
  BY DEF LinkInv, TypeOK
<1>6. \A c \in Conns : /\ cliOpen'[c] = IF c = sock[b] THEN FALSE ELSE cliOpen[c]
                       /\ s2c'[c] = IF c = sock[b] THEN <<>> ELSE s2c[c]
  BY DEF LinkInv, TypeOK
<1>7. SockInv'
  <2>1. \A d \in Clients : sock'[d] # NoConn => cliOpen'[sock'[d]] /\ owner'[sock'[d]] = d
    BY <1>2, <1>3, <1>6 DEF LinkInv, SockInv, TypeOK
  <2>2. \A c \in Conns : cliOpen'[c] => sock'[owner'[c]] = c
    BY <1>2, <1>6 DEF LinkInv, SockInv, TypeOK
  <2>3. \A d \in Clients : /\ pc'[d] \in {"send", "recv"} => sock'[d] # NoConn
                           /\ pc'[d] = "connect" => sock'[d] = NoConn
    BY <1>2, <1>4, <1>5 DEF LinkInv, SockInv
  <2> QED BY <2>1, <2>2, <2>3 DEF SockInv
<1>8. AwaitInv'
  <2> SUFFICES ASSUME NEW d \in Clients PROVE AwaitAt(d, sock[d])'
    BY DEF AwaitInv
  <2>1. CASE d = b
    BY <2>1, <1>2, <1>5 DEF AwaitAt
  <2>2. CASE d # b
    <3>1. CASE sock[d] = NoConn
      BY <2>2, <3>1, <1>2, <1>4 DEF AwaitAt, LinkInv, SockInv
    <3>2. CASE sock[d] # NoConn
      <4>1. sock[d] \in Conns /\ sock[d] # sock[b] /\ sock'[d] = sock[d]
        BY <2>2, <3>2, <1>2, <1>3 DEF LinkInv, TypeOK
      <4>2. s2c'[sock[d]] = s2c[sock[d]]
        BY <4>1, <1>6
      <4>3. AwaitAt(d, sock[d]) /\ sock[d] # NoConn
        BY <3>2 DEF LinkInv, AwaitInv
      <4>4. UNCHANGED <<c2s, thread, answer>> /\ pc'[d] = pc[d] /\ kind'[d] = kind[d]
        BY <2>2, <1>4
      <4> QED BY <4>1, <4>2, <4>3, <4>4 DEF AwaitAt, Quiet
    <3> QED BY <3>1, <3>2
  <2> QED BY <2>1, <2>2
<1>9. AbandonedInv'
  <2> SUFFICES ASSUME NEW c \in Conns
               PROVE  AbandonedAt(c)'
    BY DEF AbandonedInv
  <2>1. CASE c # sock[b]
    BY <2>1, <1>6 DEF LinkInv, AbandonedInv, AbandonedAt
  <2>2. CASE c = sock[b]
    <3>1. AwaitAt(b, c) /\ c # NoConn /\ pc[b] # "connect"
      BY <2>2 DEF LinkInv, AwaitInv, SockInv
    <3>2. pc[b] \in {"idle", "send", "recv"} /\ kind[b] \in {"state", "move"}
      BY <3>1 DEF LinkInv, TypeOK
    <3>3. s2c'[c] = <<>>
      BY <2>2, <1>6
    <3> QED BY <3>1, <3>2, <3>3 DEF LinkInv, AbandonedInv, AbandonedAt, AwaitAt, Quiet
  <2> QED BY <2>1, <2>2
<1>10. MotionInv'
  BY <1>2, <1>3, <1>4, <1>5, <1>6 DEF LinkInv, MotionInv, HasMove, TypeOK
<1> QED
  BY <1>1, <1>7, <1>8, <1>9, <1>10 DEF LinkInv

\* A callback that ends with its line consumed.
LEMMA ConsumeInv ==
  ASSUME LinkInv, NEW b \in Clients, HasLine(b), TypeOK',
         EndCallback(b),
         s2c' = [s2c EXCEPT ![sock[b]] = Tail(@)],
         \/ tcpConnected' = [tcpConnected EXCEPT ![b] = TRUE]
         \/ tcpConnected' = tcpConnected,
         UNCHANGED <<sock, cliOpen, owner, c2s, thread, answer, phase, active>>
  PROVE  LinkInv'
<1> USE DEF EndCallback
<1> DEFINE c == sock[b]
<1>1. /\ c \in Conns /\ c # NoConn /\ cliOpen[c] /\ owner[c] = b /\ pc[b] = "recv"
      /\ c2s[c] = <<>> /\ thread[c] \in {"read", "ended"}
      /\ s2c[c] # <<>> /\ Tail(s2c[c]) = <<>>
  <2>1. c \in Conns /\ c # NoConn /\ cliOpen[c] /\ owner[c] = b /\ pc[b] = "recv" /\ s2c[c] # <<>>
    BY DEF LinkInv, SockInv, HasLine, TypeOK
  <2>2. AwaitAt(b, c)
    BY DEF LinkInv, AwaitInv
  <2> QED BY <2>1, <2>2, OneElement DEF AwaitAt, Quiet
<1>2. /\ pc'[b] = "idle" /\ kind'[b] = "state"
      /\ \A d \in Clients : d # b => pc'[d] = pc[d] /\ kind'[d] = kind[d] /\ tcpConnected'[d] = tcpConnected[d]
  BY DEF LinkInv, TypeOK
<1>3. /\ s2c'[c] = <<>>
      /\ \A d \in Conns : d # c => s2c'[d] = s2c[d]
  BY <1>1 DEF LinkInv, TypeOK
<1>4. SlotInv' /\ SockInv'
  BY <1>1, <1>2 DEF LinkInv, SlotInv, SockInv
<1>5. AwaitInv'
  <2> SUFFICES ASSUME NEW d \in Clients PROVE AwaitAt(d, sock[d])'
    BY DEF AwaitInv
  <2>1. AwaitAt(d, sock[d])
    BY DEF LinkInv, AwaitInv
  <2>2. CASE d = b
    BY <2>2, <1>1, <1>2, <1>3 DEF AwaitAt, Quiet
  <2>3. CASE d # b /\ sock[d] # NoConn
    <3>1. sock[d] \in Conns /\ sock[d] # c
      BY <2>3, <1>1, OtherSock DEF LinkInv, TypeOK
    <3> QED BY <2>1, <2>3, <3>1, <1>2, <1>3 DEF AwaitAt, Quiet
  <2>4. CASE d # b /\ sock[d] = NoConn
    BY <2>4, <1>2 DEF AwaitAt, LinkInv, SockInv
  <2> QED BY <2>2, <2>3, <2>4
<1>6. AbandonedInv'
  BY <1>1, <1>3 DEF LinkInv, AbandonedInv, AbandonedAt
<1>7. MotionInv'
  <2>1. \A d \in Conns : HasMove(d)' <=> HasMove(d)
    BY DEF HasMove
  <2>2. \A d \in Clients : kind'[d] = "move" => tcpConnected'[d] /\ pc'[d] # "idle"
    BY <1>2 DEF LinkInv, MotionInv
  <2>3. \A d \in Clients : tcpConnected'[d] => sock[d] # NoConn /\ thread[sock[d]] # "backlog"
    BY <1>1, <1>2 DEF LinkInv, MotionInv
  <2>4. ASSUME NEW e \in Clients, sock[e] # NoConn, tcpConnected'[e] \/ s2c'[sock[e]] # <<>>,
               NEW d \in Conns, owner[d] = e, d # sock[e]
        PROVE  ~HasMove(d)
    <3>1. CASE e = b
      BY <3>1, <2>4, <1>1 DEF LinkInv, MotionInv
    <3>2. CASE e # b
      <4>1. sock[e] # c /\ sock[e] \in Conns
        BY <3>2, <2>4, <1>1, OtherSock DEF LinkInv, TypeOK
      <4> QED BY <3>2, <4>1, <2>4, <1>2, <1>3 DEF LinkInv, MotionInv
    <3> QED BY <3>1, <3>2
  <2>5. \A d \in Conns : c2s'[d] = <<"move">> => thread'[d] # "backlog"
    BY DEF LinkInv, MotionInv
  <2> QED BY <2>1, <2>2, <2>3, <2>4, <2>5 DEF MotionInv
<1> QED
  BY <1>4, <1>5, <1>6, <1>7 DEF LinkInv

\* Sending fills a connection that was quiet.
LEMMA SendInv == ASSUME LinkInv, NEW b \in Clients, Send(b), TypeOK' PROVE LinkInv'
<1> USE DEF Send, serverVars
<1> DEFINE c == sock[b]
<1>1. /\ c \in Conns /\ c # NoConn /\ cliOpen[c] /\ owner[c] = b
      /\ Quiet(c) /\ thread[c] \in {"backlog", "read", "ended"}
  BY DEF LinkInv, SockInv, AwaitInv, AwaitAt, TypeOK
<1>2. /\ pc'[b] = "recv"
      /\ \A d \in Clients : d # b => pc'[d] = pc[d]
  BY DEF LinkInv, TypeOK
<1>3. /\ \A d \in Conns : d # c => c2s'[d] = c2s[d]
      /\ c2s'[c] = IF thread[c] = "ended" THEN <<>> ELSE <<kind[b]>>
  BY <1>1, OneElement DEF LinkInv, TypeOK, ServerEndOpen, Serving, Quiet
<1>4. SlotInv' /\ SockInv'
  BY <1>1, <1>2 DEF LinkInv, SlotInv, SockInv
<1>5. AwaitInv'
  <2> SUFFICES ASSUME NEW d \in Clients PROVE AwaitAt(d, sock[d])'
    BY DEF AwaitInv
  <2>1. AwaitAt(d, sock[d])
    BY DEF LinkInv, AwaitInv
  <2>2. CASE d = b
    BY <2>2, <1>1, <1>2, <1>3 DEF AwaitAt, Quiet
  <2>3. CASE d # b /\ sock[d] # NoConn
    <3>1. sock[d] \in Conns /\ sock[d] # c
      BY <2>3, <1>1, OtherSock DEF LinkInv, TypeOK
    <3> QED BY <2>1, <2>3, <3>1, <1>2, <1>3 DEF AwaitAt, Quiet
  <2>4. CASE d # b /\ sock[d] = NoConn
    BY <2>4, <1>2 DEF AwaitAt, LinkInv, SockInv
  <2> QED BY <2>2, <2>3, <2>4
<1>6. AbandonedInv'
  BY <1>1, <1>3 DEF LinkInv, AbandonedInv, AbandonedAt
<1>7. MotionInv'
  <2>1. ASSUME kind[b] = "move" PROVE thread[c] # "backlog"
    BY <2>1 DEF LinkInv, MotionInv
  <2>2. \A d \in Conns : c2s'[d] = <<"move">> => thread[d] # "backlog"
    BY <1>3, <2>1, OneElement DEF LinkInv, MotionInv
  <2>3. \A d \in Conns : d # c => (HasMove(d)' <=> HasMove(d))
    BY <1>3 DEF HasMove
  <2>4. \A d \in Clients : kind[d] = "move" => pc'[d] # "idle"
    BY <1>2 DEF LinkInv, MotionInv
  <2>5. ASSUME NEW e \in Clients, sock[e] # NoConn, tcpConnected[e] \/ s2c[sock[e]] # <<>>,
               NEW d \in Conns, owner[d] = e, d # sock[e]
        PROVE  ~HasMove(d)'
    <3>1. ~HasMove(d)
      BY <2>5 DEF LinkInv, MotionInv
    <3>2. d # c
      BY <2>5, <1>1
    <3> QED BY <3>1, <3>2, <2>3
  <2> QED BY <2>2, <2>4, <2>5 DEF LinkInv, MotionInv
<1> QED
  BY <1>4, <1>5, <1>6, <1>7 DEF LinkInv

\* A new connection is a fresh one: no client and no thread uses it.
LEMMA ConnectInv ==
  ASSUME LinkInv, NEW b \in Clients, NEW c \in Conns, Connect(b, c), TypeOK' PROVE LinkInv'
<1> USE NoConnAssumption DEF Connect, Dead
<1>1. /\ sock[b] = NoConn /\ ~tcpConnected[b] /\ c2s[c] = <<>> /\ c # NoConn
      /\ \A d \in Clients : sock[d] # c
  BY DEF LinkInv, SockInv, MotionInv, AbandonedInv, AbandonedAt
<1>2. /\ pc'[b] = "send" /\ sock'[b] = c
      /\ \A d \in Clients : d # b => pc'[d] = pc[d] /\ sock'[d] = sock[d]
      /\ owner'[c] = b /\ cliOpen'[c] = TRUE /\ c2s'[c] = <<>> /\ s2c'[c] = <<>> /\ thread'[c] = "backlog"
      /\ \A d \in Conns : d # c => /\ owner'[d] = owner[d] /\ cliOpen'[d] = cliOpen[d] /\ c2s'[d] = c2s[d]
                                   /\ s2c'[d] = s2c[d] /\ thread'[d] = thread[d]
  BY DEF LinkInv, TypeOK
<1>3. SlotInv'
  BY <1>2 DEF LinkInv, SlotInv, HoldsSlot, Serving
<1>4. SockInv'
  BY <1>1, <1>2 DEF LinkInv, SockInv, TypeOK
<1>5. AwaitInv'
  <2> SUFFICES ASSUME NEW d \in Clients PROVE AwaitAt(d, sock[d])'
    BY DEF AwaitInv
  <2>1. AwaitAt(d, sock[d])
    BY DEF LinkInv, AwaitInv
  <2>2. CASE d = b
    BY <2>2, <1>1, <1>2 DEF AwaitAt, Quiet
  <2>3. CASE d # b /\ sock[d] # NoConn
    <3>1. sock[d] \in Conns /\ sock[d] # c
      BY <2>3, <1>1 DEF LinkInv, TypeOK
    <3> QED BY <2>1, <2>3, <3>1, <1>2 DEF AwaitAt, Quiet
  <2>4. CASE d # b /\ sock[d] = NoConn
    BY <2>4, <1>2 DEF AwaitAt, LinkInv, SockInv
  <2> QED BY <2>2, <2>3, <2>4
<1>6. AbandonedInv'
  BY <1>2 DEF LinkInv, AbandonedInv, AbandonedAt
<1>7. MotionInv'
  <2>1. /\ ~HasMove(c)'
        /\ \A d \in Conns : d # c => (HasMove(d)' <=> HasMove(d))
    BY <1>2, OneElement DEF HasMove
  <2>2. \A d \in Conns : c2s'[d] = <<"move">> => thread'[d] # "backlog"
    <3>1. c2s'[c] # <<"move">>
      BY <1>2, OneElement
    <3>2. ASSUME NEW d \in Conns, d # c PROVE c2s'[d] = c2s[d] /\ thread'[d] = thread[d]
      BY <1>2, <3>2
    <3>3. \A d \in Conns : c2s[d] = <<"move">> => thread[d] # "backlog"
      BY DEF LinkInv, MotionInv
    <3> QED BY <3>1, <3>2, <3>3
  <2>3. \A d \in Clients : kind[d] = "move" => tcpConnected[d] /\ pc'[d] # "idle"
    BY <1>2 DEF LinkInv, MotionInv
  <2>4. \A d \in Clients : tcpConnected[d] => sock'[d] # NoConn /\ thread'[sock'[d]] # "backlog"
    BY <1>1, <1>2 DEF LinkInv, MotionInv, TypeOK
  <2>5. ASSUME NEW e \in Clients, sock'[e] # NoConn, tcpConnected[e] \/ s2c'[sock'[e]] # <<>>,
               NEW d \in Conns, owner'[d] = e, d # sock'[e]
        PROVE  ~HasMove(d)'
    <3>1. e # b
      BY <2>5, <1>1, <1>2
    <3>2. d # c /\ sock[e] # c /\ sock[e] \in Conns /\ owner[d] = e
      BY <3>1, <2>5, <1>1, <1>2 DEF LinkInv, TypeOK
    <3> QED BY <3>1, <3>2, <2>5, <2>1, <1>2 DEF LinkInv, MotionInv
  <2> QED BY <2>2, <2>3, <2>4, <2>5 DEF MotionInv
<1> QED
  BY <1>3, <1>4, <1>5, <1>6, <1>7 DEF LinkInv

\* A poll starts: nothing on the wire moves.
LEMMA PollStateInv == ASSUME LinkInv, NEW b \in Clients, PollState(b), TypeOK' PROVE LinkInv'
<1> USE NoConnAssumption DEF TypeOK, Commands, Answers, NoAnswer, Threads, HoldsSlot, Serving,
     ServerEndOpen, Quiet, HasMove, clientVars, wireVars, serverVars, PollState, StartRequest
<1>1. SlotInv'
  BY DEF LinkInv, SlotInv
<1>2. SockInv'
  BY DEF LinkInv, SockInv
<1>3. AwaitInv'
  BY DEF LinkInv, AwaitInv, AwaitAt, SockInv
<1>4. AbandonedInv'
  BY DEF LinkInv, AbandonedInv, AbandonedAt
<1>5. MotionInv'
  BY DEF LinkInv, MotionInv, SockInv, SlotInv, AbandonedInv, AbandonedAt
<1> QED BY <1>1, <1>2, <1>3, <1>4, <1>5 DEF LinkInv

\* A motion is requested only while tcp_connected is true.
LEMMA ExecuteTargetInv == ASSUME LinkInv, NEW b \in Clients, ExecuteTarget(b), TypeOK' PROVE LinkInv'
<1> USE NoConnAssumption DEF TypeOK, Commands, Answers, NoAnswer, Threads, HoldsSlot, Serving,
     ServerEndOpen, Quiet, HasMove, clientVars, wireVars, serverVars, ExecuteTarget, StartRequest
<1>1. SlotInv'
  BY DEF LinkInv, SlotInv
<1>2. SockInv'
  BY DEF LinkInv, SockInv
<1>3. AwaitInv'
  BY DEF LinkInv, AwaitInv, AwaitAt, SockInv
<1>4. AbandonedInv'
  BY DEF LinkInv, AbandonedInv, AbandonedAt
<1>5. MotionInv'
  BY DEF LinkInv, MotionInv, SockInv, SlotInv, AbandonedInv, AbandonedAt
<1> QED BY <1>1, <1>2, <1>3, <1>4, <1>5 DEF LinkInv

\* A refusal changes nothing but the verdict.
LEMMA RefuseExecuteInv == ASSUME LinkInv, NEW b \in Clients, RefuseExecute(b), TypeOK' PROVE LinkInv'
<1> USE NoConnAssumption DEF TypeOK, Commands, Answers, NoAnswer, Threads, HoldsSlot, Serving,
     ServerEndOpen, Quiet, HasMove, clientVars, wireVars, serverVars, RefuseExecute
<1>1. SlotInv'
  BY DEF LinkInv, SlotInv
<1>2. SockInv'
  BY DEF LinkInv, SockInv
<1>3. AwaitInv'
  BY DEF LinkInv, AwaitInv, AwaitAt, SockInv
<1>4. AbandonedInv'
  BY DEF LinkInv, AbandonedInv, AbandonedAt
<1>5. MotionInv'
  BY DEF LinkInv, MotionInv, SockInv, SlotInv, AbandonedInv, AbandonedAt
<1> QED BY <1>1, <1>2, <1>3, <1>4, <1>5 DEF LinkInv

-----------------------------------------------------------------------------
(* The server's actions.                                                   *)

\* A line that a thread may read is alone on its connection.
LEMMA OneLine ==
  ASSUME LinkInv, NEW c \in Conns, c2s[c] # <<>>
  PROVE  /\ c2s[c] \in {<<"state">>, <<"move">>}
         /\ s2c[c] = <<>>
         /\ thread[c] \in {"backlog", "read"}
<1>1. CASE cliOpen[c]
  <2>1. sock[owner[c]] = c /\ owner[c] \in Clients /\ c # NoConn
    BY <1>1, NoConnAssumption DEF LinkInv, SockInv, TypeOK
  <2>2. AwaitAt(owner[c], c) /\ pc[owner[c]] \in {"idle", "send", "recv"}
    BY <2>1 DEF LinkInv, AwaitInv, SockInv, TypeOK
  <2>3. kind[owner[c]] \in {"state", "move"}
    BY <2>1 DEF LinkInv, TypeOK, Commands
  <2> QED BY <2>1, <2>2, <2>3 DEF AwaitAt, Quiet
<1>2. CASE ~cliOpen[c]
  BY <1>2 DEF LinkInv, AbandonedInv, AbandonedAt
<1> QED BY <1>1, <1>2

\* So reading it empties the connection.
LEMMA ReadOne ==
  ASSUME LinkInv, NEW c \in Conns, NEW cmd \in Commands, ReadRequest(c, cmd)
  PROVE  /\ c2s[c] = <<cmd>>
         /\ c2s' = [c2s EXCEPT ![c] = <<>>]
  BY OneLine, OneElement DEF ReadRequest, Commands

\* Whatever the thread does with the line it read.
LEMMA ReadInv ==
  ASSUME LinkInv, NEW c \in Conns, NEW cmd \in Commands, ReadRequest(c, cmd), TypeOK',
         NEW t \in {"state", "moving", "reply"}, thread' = [thread EXCEPT ![c] = t],
         t \in {"moving", "reply"} => cmd = "move", t = "state" => cmd = "state", 
         t = "reply" => answer'[c].cmd = cmd,
         \A d \in Conns : d # c => answer'[d] = answer[d],
         UNCHANGED <<phase, active, owner, cliOpen, s2c, clientVars>>
  PROVE  LinkInv'
<1> USE DEF clientVars
<1>1. /\ c2s[c] = <<cmd>> /\ thread[c] = "read" /\ s2c[c] = <<>>
      /\ c2s' = [c2s EXCEPT ![c] = <<>>]
  BY ReadOne, OneLine, OneElement DEF ReadRequest
<1>2. /\ c2s'[c] = <<>> /\ thread'[c] = t
      /\ \A d \in Conns : d # c => c2s'[d] = c2s[d] /\ thread'[d] = thread[d]
  BY <1>1 DEF LinkInv, TypeOK
<1>3. SlotInv'
  BY <1>1, <1>2 DEF LinkInv, SlotInv, HoldsSlot, Serving
<1>4. SockInv'
  BY DEF LinkInv, SockInv
<1>5. AwaitInv'
  <2> SUFFICES ASSUME NEW b \in Clients PROVE AwaitAt(b, sock[b])'
    BY DEF AwaitInv
  <2>1. AwaitAt(b, sock[b])
    BY DEF LinkInv, AwaitInv
  <2>2. CASE sock[b] = c
    <3>1. c # NoConn
      BY NoConnAssumption
    <3>2. pc[b] = "recv" /\ kind[b] = cmd
      <4>1. c2s[c] # <<>>
        BY <1>1, OneElement
      <4>2. pc[b] = "recv"
        BY <2>1, <2>2, <3>1, <4>1 DEF AwaitAt, Quiet, LinkInv, SockInv, TypeOK
      <4>3. c2s[c] = <<kind[b]>>
        BY <2>1, <2>2, <4>1, <4>2 DEF AwaitAt, Quiet
      <4> QED BY <4>2, <4>3, <1>1, OneElement
    <3>3. pc'[b] = "recv" /\ kind'[b] = cmd /\ sock'[b] = c /\ s2c'[c] = <<>>
      BY <2>2, <3>2, <1>1
    <3>4. Quiet(c)'
      BY <3>3, <1>2 DEF Quiet
    <3>5. t \in {"state", "moving"} \/ (t = "reply" /\ answer'[c].cmd = cmd)
      OBVIOUS
    <3>6. t \in {"moving", "reply"} => kind'[b] = "move"
      BY <3>3
    <3>7. t = "state" => kind'[b] = "state"
      BY <3>3
    <3> QED BY <3>3, <3>4, <3>5, <3>6, <3>7, <1>2 DEF AwaitAt
  <2>3. CASE sock[b] # c /\ sock[b] # NoConn
    <3>1. sock[b] \in Conns
      BY <2>3 DEF LinkInv, TypeOK
    <3> QED BY <2>1, <2>3, <3>1, <1>2 DEF AwaitAt, Quiet
  <2>4. CASE sock[b] = NoConn
    BY <2>4 DEF AwaitAt, LinkInv, SockInv
  <2> QED BY <2>2, <2>3, <2>4
<1>6. AbandonedInv'
  BY <1>1, <1>2 DEF LinkInv, AbandonedInv, AbandonedAt
<1>7. MotionInv'
  <2>1. \A d \in Conns : HasMove(d)' => HasMove(d)
    BY <1>1, <1>2 DEF HasMove
  <2>2. \A d \in Conns : c2s'[d] = <<"move">> => thread'[d] # "backlog"
    BY <1>2 DEF LinkInv, MotionInv
  <2>3. \A b \in Clients : tcpConnected[b] => thread'[sock[b]] # "backlog"
    BY <1>2, NoConnAssumption DEF LinkInv, MotionInv, TypeOK
  <2> QED BY <2>1, <2>2, <2>3 DEF LinkInv, MotionInv
<1> QED
  BY <1>3, <1>4, <1>5, <1>6, <1>7 DEF LinkInv

\* get_state is read.
LEMMA BeginGetStateInv == ASSUME LinkInv, NEW c \in Conns, BeginGetState(c), TypeOK' PROVE LinkInv'
  BY ReadInv DEF BeginGetState, Commands

\* A motion is read and starts.
LEMMA BeginMoveInv == ASSUME LinkInv, NEW c \in Conns, BeginMove(c), TypeOK' PROVE LinkInv'
  BY ReadInv DEF BeginMove, Commands

\* A motion is read and refused.
LEMMA RefuseMoveInv == ASSUME LinkInv, NEW c \in Conns, RefuseMove(c), TypeOK' PROVE LinkInv'
<1>1. /\ answer'[c].cmd = "move"
      /\ \A d \in Conns : d # c => answer'[d] = answer[d]
  BY DEF RefuseMove, SetAnswer, LinkInv, TypeOK
<1> QED BY <1>1, ReadInv DEF RefuseMove, SetAnswer, Commands

\* The answer is written by the thread that holds the slot, so no other
\* connection holds a motion.
LEMMA WriteAnswerInv == ASSUME LinkInv, NEW c \in Conns, WriteAnswer(c), TypeOK' PROVE LinkInv'
<1> USE DEF WriteAnswer, clientVars
<1>1. /\ thread[c] = "reply" /\ thread'[c] = "read"
      /\ \A d \in Conns : d # c => thread'[d] = thread[d] /\ answer'[d] = answer[d] /\ s2c'[d] = s2c[d]
  BY DEF LinkInv, TypeOK
<1>2. SlotInv' /\ SockInv'
  BY <1>1 DEF LinkInv, SlotInv, SockInv, HoldsSlot, Serving
<1>3. ASSUME NEW b \in Clients, sock[b] = c
      PROVE  /\ c2s[c] = <<>> /\ pc[b] = "recv" /\ answer[c].cmd = kind[b] /\ answer[c] \in Answers
             /\ s2c' = [s2c EXCEPT ![c] = <<answer[c]>>]
  <2>1. c # NoConn /\ AwaitAt(b, c) /\ cliOpen[c]
    BY <1>3, NoConnAssumption DEF LinkInv, AwaitInv, SockInv
  <2>2. c2s[c] = <<>> /\ s2c[c] = <<>> /\ pc[b] = "recv" /\ answer[c].cmd = kind[b]
    BY <1>1, <1>3, <2>1, OneElement DEF AwaitAt, Quiet, LinkInv, SockInv, TypeOK
  <2> QED BY <2>1, <2>2, OneElement DEF LinkInv, TypeOK
<1>4. AwaitInv'
  <2> SUFFICES ASSUME NEW b \in Clients PROVE AwaitAt(b, sock[b])'
    BY DEF AwaitInv
  <2>1. AwaitAt(b, sock[b])
    BY DEF LinkInv, AwaitInv
  <2>2. CASE sock[b] = c
    <3>1. s2c'[c] = <<answer[c]>>
      BY <1>3, <2>2 DEF LinkInv, TypeOK
    <3> QED BY <1>1, <1>3, <2>2, <3>1 DEF AwaitAt
  <2>3. CASE sock[b] # c /\ sock[b] # NoConn
    <3>1. sock[b] \in Conns
      BY <2>3 DEF LinkInv, TypeOK
    <3> QED BY <2>1, <2>3, <3>1, <1>1 DEF AwaitAt, Quiet
  <2>4. CASE sock[b] = NoConn
    BY <2>4 DEF AwaitAt, LinkInv, SockInv
  <2> QED BY <2>2, <2>3, <2>4
<1>5. AbandonedInv'
  BY <1>1 DEF LinkInv, AbandonedInv, AbandonedAt, TypeOK
<1>6. MotionInv'
  <2>1. \A d \in Conns : HasMove(d)' => HasMove(d)
    BY <1>1 DEF HasMove
  <2>2. ASSUME NEW b \in Clients, sock[b] # NoConn, s2c'[sock[b]] # <<>>
        PROVE  \A d \in Conns : d # sock[b] => ~HasMove(d) \/ s2c[sock[b]] # <<>>
    <3>1. CASE sock[b] = c
      <4>1. active = c
        BY <1>1 DEF LinkInv, SlotInv, HoldsSlot, Serving
      <4>2. ASSUME NEW d \in Conns, d # c PROVE ~HasMove(d)
        <5>1. thread[d] \notin HoldsSlot
          BY <4>1, <4>2 DEF LinkInv, SlotInv
        <5>2. c2s[d] # <<"move">>
          BY <5>1, OneLine, OneElement DEF LinkInv, MotionInv, HoldsSlot, Serving
        <5> QED BY <5>1, <5>2 DEF HasMove, HoldsSlot, Serving
      <4> QED BY <3>1, <4>2
    <3>2. CASE sock[b] # c
      BY <1>1, <2>2, <3>2 DEF LinkInv, TypeOK
    <3> QED BY <3>1, <3>2
  <2>3. /\ \A d \in Conns : c2s'[d] = <<"move">> => thread'[d] # "backlog"
        /\ \A b \in Clients : tcpConnected[b] => thread'[sock[b]] # "backlog"
    BY <1>1, NoConnAssumption DEF LinkInv, MotionInv, TypeOK
  <2> QED BY <2>1, <2>2, <2>3 DEF LinkInv, MotionInv
<1> QED
  BY <1>2, <1>4, <1>5, <1>6 DEF LinkInv

\* The answer to get_state is ready.
LEMMA FinishGetStateInv == ASSUME LinkInv, NEW c \in Conns, NEW ok \in BOOLEAN, FinishGetState(c, ok), TypeOK' PROVE LinkInv'
<1> USE NoConnAssumption DEF TypeOK, Commands, Answers, NoAnswer, Threads, HoldsSlot, Serving,
     ServerEndOpen, Quiet, HasMove, clientVars, wireVars, serverVars, FinishGetState, SetAnswer
<1>1. SlotInv'
  BY DEF LinkInv, SlotInv
<1>2. SockInv'
  BY DEF LinkInv, SockInv
<1>3. AwaitInv'
  BY DEF LinkInv, AwaitInv, AwaitAt, SockInv
<1>4. AbandonedInv'
  BY DEF LinkInv, AbandonedInv, AbandonedAt
<1>5. MotionInv'
  BY DEF LinkInv, MotionInv, SockInv, SlotInv, AbandonedInv, AbandonedAt
<1> QED BY <1>1, <1>2, <1>3, <1>4, <1>5 DEF LinkInv

\* The motion is over, its answer is ready.
LEMMA FinishMoveInv == ASSUME LinkInv, NEW c \in Conns, NEW ok \in BOOLEAN, FinishMove(c, ok), TypeOK' PROVE LinkInv'
<1> USE NoConnAssumption DEF TypeOK, Commands, Answers, NoAnswer, Threads, HoldsSlot, Serving,
     ServerEndOpen, Quiet, HasMove, clientVars, wireVars, serverVars, FinishMove, SetAnswer
<1>1. SlotInv'
  BY DEF LinkInv, SlotInv
<1>2. SockInv'
  BY DEF LinkInv, SockInv
<1>3. AwaitInv'
  BY DEF LinkInv, AwaitInv, AwaitAt, SockInv
<1>4. AbandonedInv'
  BY DEF LinkInv, AbandonedInv, AbandonedAt
<1>5. MotionInv'
  BY DEF LinkInv, MotionInv, SockInv, SlotInv, AbandonedInv, AbandonedAt
<1> QED BY <1>1, <1>2, <1>3, <1>4, <1>5 DEF LinkInv

\* Only an abandoned connection reaches its end of stream.
LEMMA EndOfStreamInv == ASSUME LinkInv, NEW c \in Conns, EndOfStream(c), TypeOK' PROVE LinkInv'
<1> USE NoConnAssumption DEF TypeOK, Commands, Answers, NoAnswer, Threads, HoldsSlot, Serving,
     ServerEndOpen, Quiet, HasMove, clientVars, wireVars, serverVars, EndOfStream
<1>1. SlotInv'
  BY DEF LinkInv, SlotInv
<1>2. SockInv'
  BY DEF LinkInv, SockInv
<1>3. AwaitInv'
  BY DEF LinkInv, AwaitInv, AwaitAt, SockInv
<1>4. AbandonedInv'
  BY DEF LinkInv, AbandonedInv, AbandonedAt
<1>5. MotionInv'
  BY DEF LinkInv, MotionInv, SockInv, SlotInv, AbandonedInv, AbandonedAt
<1> QED BY <1>1, <1>2, <1>3, <1>4, <1>5 DEF LinkInv

\* Closing the server's end of a connection brings no motion anywhere.
LEMMA ClosedMotion ==
  ASSUME LinkInv, NEW c \in Conns, NEW t \in {"release", "ended"},
         c2s' = [c2s EXCEPT ![c] = <<>>], thread' = [thread EXCEPT ![c] = t],
         UNCHANGED <<phase, owner, cliOpen, s2c, clientVars>>
  PROVE  MotionInv'
<1> USE DEF clientVars
<1>1. /\ c2s'[c] = <<>> /\ thread'[c] = t
      /\ \A d \in Conns : d # c => c2s'[d] = c2s[d] /\ thread'[d] = thread[d]
  BY DEF LinkInv, TypeOK
<1>2. c2s'[c] # <<"move">> /\ thread'[c] \notin {"moving", "backlog"}
  BY <1>1, OneElement
<1>3. \A d \in Conns : HasMove(d)' => HasMove(d)
  BY <1>1, <1>2 DEF HasMove
<1>4. \A d \in Conns : c2s'[d] = <<"move">> => thread'[d] # "backlog"
  BY <1>1, <1>2 DEF LinkInv, MotionInv
<1>5. \A b \in Clients : tcpConnected[b] => sock[b] \in Conns
  BY DEF LinkInv, TypeOK, MotionInv
<1>6. \A b \in Clients : tcpConnected[b] => thread'[sock[b]] # "backlog"
  BY <1>1, <1>2, <1>5 DEF LinkInv, MotionInv
<1> QED BY <1>3, <1>4, <1>6 DEF LinkInv, MotionInv

\* The server's end is closed while the slot is still taken.
LEMMA CloseConnectionInv == ASSUME LinkInv, NEW c \in Conns, CloseConnection(c), TypeOK' PROVE LinkInv'
<1> USE NoConnAssumption DEF TypeOK, Commands, Answers, NoAnswer, Threads, HoldsSlot, Serving,
     ServerEndOpen, Quiet, HasMove, clientVars, wireVars, serverVars, CloseConnection
<1>1. SlotInv'
  BY DEF LinkInv, SlotInv
<1>2. SockInv'
  BY DEF LinkInv, SockInv
<1>3. AwaitInv'
  BY DEF LinkInv, AwaitInv, AwaitAt, SockInv
<1>4. AbandonedInv'
  BY DEF LinkInv, AbandonedInv, AbandonedAt
<1>5. MotionInv'
  BY ClosedMotion
<1> QED BY <1>1, <1>2, <1>3, <1>4, <1>5 DEF LinkInv

\* The slot is cleared by its holder, the last to use it.
LEMMA ReleaseSlotInv == ASSUME LinkInv, NEW c \in Conns, ReleaseSlot(c), TypeOK' PROVE LinkInv'
<1> USE NoConnAssumption DEF TypeOK, Commands, Answers, NoAnswer, Threads, HoldsSlot, Serving,
     ServerEndOpen, Quiet, HasMove, clientVars, wireVars, serverVars, ReleaseSlot
<1>1. SlotInv'
  BY DEF LinkInv, SlotInv
<1>2. SockInv'
  BY DEF LinkInv, SockInv
<1>3. AwaitInv'
  BY DEF LinkInv, AwaitInv, AwaitAt, SockInv
<1>4. AbandonedInv'
  BY DEF LinkInv, AbandonedInv, AbandonedAt
<1>5. MotionInv'
  BY DEF LinkInv, MotionInv, SockInv, SlotInv, AbandonedInv, AbandonedAt
<1> QED BY <1>1, <1>2, <1>3, <1>4, <1>5 DEF LinkInv

\* The slot is claimed when no thread holds it.
LEMMA AcceptClientInv == ASSUME LinkInv, NEW c \in Conns, AcceptClient(c), TypeOK' PROVE LinkInv'
<1> USE NoConnAssumption DEF TypeOK, Commands, Answers, NoAnswer, Threads, HoldsSlot, Serving,
     ServerEndOpen, Quiet, HasMove, clientVars, wireVars, serverVars, AcceptClient
<1>1. SlotInv'
  BY DEF LinkInv, SlotInv
<1>2. SockInv'
  BY DEF LinkInv, SockInv
<1>3. AwaitInv'
  BY DEF LinkInv, AwaitInv, AwaitAt, SockInv
<1>4. AbandonedInv'
  BY DEF LinkInv, AbandonedInv, AbandonedAt
<1>5. MotionInv'
  BY DEF LinkInv, MotionInv, SockInv, SlotInv, AbandonedInv, AbandonedAt
<1> QED BY <1>1, <1>2, <1>3, <1>4, <1>5 DEF LinkInv

\* A rejected connection carries no motion.
LEMMA RejectClientInv == ASSUME LinkInv, NEW c \in Conns, RejectClient(c), TypeOK' PROVE LinkInv'
<1> USE NoConnAssumption DEF TypeOK, Commands, Answers, NoAnswer, Threads, HoldsSlot, Serving,
     ServerEndOpen, Quiet, HasMove, clientVars, wireVars, serverVars, RejectClient
<1>1. SlotInv'
  BY DEF LinkInv, SlotInv
<1>2. SockInv'
  BY DEF LinkInv, SockInv
<1>3. AwaitInv'
  BY DEF LinkInv, AwaitInv, AwaitAt, SockInv
<1>4. AbandonedInv'
  BY DEF LinkInv, AbandonedInv, AbandonedAt
<1>5. MotionInv'
  BY ClosedMotion
<1> QED BY <1>1, <1>2, <1>3, <1>4, <1>5 DEF LinkInv

\* A new process finds no thread of the old one.
LEMMA StartServerInv == ASSUME LinkInv, StartServer, TypeOK' PROVE LinkInv'
<1> USE DEF StartServer, clientVars, wireVars
<1>1. SlotInv'
  BY DEF LinkInv, SlotInv, HoldsSlot, Serving
<1>2. SockInv' /\ AwaitInv' /\ AbandonedInv' /\ MotionInv'
  BY DEF LinkInv, SockInv, AwaitInv, AwaitAt, AbandonedInv, AbandonedAt, MotionInv, HasMove, Quiet
<1> QED BY <1>1, <1>2 DEF LinkInv

\* Ctrl+C does not stop the threads.
LEMMA InterruptInv == ASSUME LinkInv, Interrupt, TypeOK' PROVE LinkInv'
<1> USE NoConnAssumption DEF TypeOK, Commands, Answers, NoAnswer, Threads, HoldsSlot, Serving,
     ServerEndOpen, Quiet, HasMove, clientVars, wireVars, serverVars, Interrupt
<1>1. SlotInv'
  BY DEF LinkInv, SlotInv
<1>2. SockInv'
  BY DEF LinkInv, SockInv
<1>3. AwaitInv'
  BY DEF LinkInv, AwaitInv, AwaitAt, SockInv
<1>4. AbandonedInv'
  BY DEF LinkInv, AbandonedInv, AbandonedAt
<1>5. MotionInv'
  BY DEF LinkInv, MotionInv, SockInv, SlotInv, AbandonedInv, AbandonedAt
<1> QED BY <1>1, <1>2, <1>3, <1>4, <1>5 DEF LinkInv

\* Nor does releasing the backend.
LEMMA CloseBackendInv == ASSUME LinkInv, CloseBackend, TypeOK' PROVE LinkInv'
<1> USE NoConnAssumption DEF TypeOK, Commands, Answers, NoAnswer, Threads, HoldsSlot, Serving,
     ServerEndOpen, Quiet, HasMove, clientVars, wireVars, serverVars, CloseBackend
<1>1. SlotInv'
  BY DEF LinkInv, SlotInv
<1>2. SockInv'
  BY DEF LinkInv, SockInv
<1>3. AwaitInv'
  BY DEF LinkInv, AwaitInv, AwaitAt, SockInv
<1>4. AbandonedInv'
  BY DEF LinkInv, AbandonedInv, AbandonedAt
<1>5. MotionInv'
  BY DEF LinkInv, MotionInv, SockInv, SlotInv, AbandonedInv, AbandonedAt
<1> QED BY <1>1, <1>2, <1>3, <1>4, <1>5 DEF LinkInv

\* The end of the process ends them all.
LEMMA ExitServerInv == ASSUME LinkInv, ExitServer, TypeOK' PROVE LinkInv'
<1> USE NoConnAssumption DEF TypeOK, Commands, Answers, NoAnswer, Threads, HoldsSlot, Serving,
     ServerEndOpen, Quiet, HasMove, clientVars, wireVars, serverVars, ExitServer
<1>1. SlotInv'
  BY DEF LinkInv, SlotInv
<1>2. SockInv'
  BY DEF LinkInv, SockInv
<1>3. AwaitInv'
  BY DEF LinkInv, AwaitInv, AwaitAt, SockInv
<1>4. AbandonedInv'
  BY DEF LinkInv, AbandonedInv, AbandonedAt
<1>5. MotionInv'
  BY DEF LinkInv, MotionInv, SockInv, SlotInv, AbandonedInv, AbandonedAt
<1> QED BY <1>1, <1>2, <1>3, <1>4, <1>5 DEF LinkInv

-----------------------------------------------------------------------------
(* Every step.                                                             *)

\* Types, given that a client that waits has a socket.
LEMMA TypeStep == ASSUME LinkInv, [Next]_vars PROVE TypeOK'
<1>0. TypeOK /\ \A b \in Clients : pc[b] = "recv" => sock[b] \in Conns
  BY DEF LinkInv, SockInv, TypeOK
<1> USE <1>0 DEF Commands, Answers, NoAnswer, Threads, HoldsSlot, Serving
<1>1. ASSUME NEW b \in Clients, PollState(b) PROVE TypeOK'
  BY <1>1 DEF TypeOK, PollState, StartRequest, clientVars, wireVars, serverVars
<1>2. ASSUME NEW b \in Clients, ExecuteTarget(b) PROVE TypeOK'
  BY <1>2 DEF TypeOK, ExecuteTarget, StartRequest, clientVars, wireVars, serverVars
<1>3. ASSUME NEW b \in Clients, RefuseExecute(b) PROVE TypeOK'
  BY <1>3 DEF TypeOK, RefuseExecute, clientVars, wireVars, serverVars
<1>4. ASSUME NEW b \in Clients, ConnectFails(b) PROVE TypeOK'
  BY <1>4, TypeFail DEF ConnectFails
<1>5. ASSUME NEW b \in Clients, Send(b) PROVE TypeOK'
  BY <1>5, TypeSend
<1>6. ASSUME NEW b \in Clients, SendFails(b) PROVE TypeOK'
  BY <1>6, TypeFail DEF SendFails
<1>7. ASSUME NEW b \in Clients, ReceiveState(b) PROVE TypeOK'
  BY <1>7, TypeReceiveState DEF ReceiveState, HasLine
<1>8. ASSUME NEW b \in Clients, ReceiveMove(b) PROVE TypeOK'
  BY <1>8, TypeReceiveMove DEF ReceiveMove, HasLine
<1>9. ASSUME NEW b \in Clients, ReceiveTimeout(b) PROVE TypeOK'
  BY <1>9, TypeFail DEF ReceiveTimeout
<1>10. ASSUME NEW b \in Clients, ReceiveClosed(b) PROVE TypeOK'
  BY <1>10, TypeFail DEF ReceiveClosed
<1>11. ASSUME NEW b \in Clients, RestartClient(b) PROVE TypeOK'
  BY <1>11, TypeDrop DEF TypeOK, RestartClient, serverVars
<1>12. ASSUME NEW b \in Clients, NEW c \in Conns, Connect(b, c) PROVE TypeOK'
  BY <1>12 DEF TypeOK, Connect, clientVars, wireVars, serverVars
<1>13. ASSUME NEW c \in Conns, AcceptClient(c) PROVE TypeOK'
  BY <1>13 DEF TypeOK, AcceptClient, clientVars, wireVars, serverVars
<1>14. ASSUME NEW c \in Conns, RejectClient(c) PROVE TypeOK'
  BY <1>14 DEF TypeOK, RejectClient, clientVars, wireVars, serverVars
<1>15. ASSUME NEW c \in Conns, BeginGetState(c) PROVE TypeOK'
  BY <1>15 DEF TypeOK, BeginGetState, ReadRequest, clientVars, wireVars, serverVars
<1>16. ASSUME NEW c \in Conns, RefuseMove(c) PROVE TypeOK'
  BY <1>16 DEF TypeOK, RefuseMove, ReadRequest, SetAnswer, clientVars, wireVars, serverVars
<1>17. ASSUME NEW c \in Conns, BeginMove(c) PROVE TypeOK'
  BY <1>17 DEF TypeOK, BeginMove, ReadRequest, clientVars, wireVars, serverVars
<1>18. ASSUME NEW c \in Conns, WriteAnswer(c) PROVE TypeOK'
  BY <1>18 DEF TypeOK, WriteAnswer, clientVars, wireVars, serverVars
<1>19. ASSUME NEW c \in Conns, EndOfStream(c) PROVE TypeOK'
  BY <1>19 DEF TypeOK, EndOfStream, clientVars, wireVars, serverVars
<1>20. ASSUME NEW c \in Conns, CloseConnection(c) PROVE TypeOK'
  BY <1>20 DEF TypeOK, CloseConnection, clientVars, wireVars, serverVars
<1>21. ASSUME NEW c \in Conns, ReleaseSlot(c) PROVE TypeOK'
  BY <1>21 DEF TypeOK, ReleaseSlot, clientVars, wireVars, serverVars
<1>22. ASSUME NEW c \in Conns, NEW ok \in BOOLEAN, FinishGetState(c, ok) PROVE TypeOK'
  BY <1>22 DEF TypeOK, FinishGetState, SetAnswer, clientVars, wireVars, serverVars
<1>23. ASSUME NEW c \in Conns, NEW ok \in BOOLEAN, FinishMove(c, ok) PROVE TypeOK'
  BY <1>23 DEF TypeOK, FinishMove, SetAnswer, clientVars, wireVars, serverVars
<1>24. CASE StartServer
  BY <1>24 DEF TypeOK, StartServer, clientVars, wireVars, serverVars
<1>25. CASE Interrupt
  BY <1>25 DEF TypeOK, Interrupt, clientVars, wireVars, serverVars
<1>26. CASE CloseBackend
  BY <1>26 DEF TypeOK, CloseBackend, clientVars, wireVars, serverVars
<1>27. CASE ExitServer
  BY <1>27 DEF TypeOK, ExitServer, clientVars, wireVars, serverVars
<1>28. CASE UNCHANGED vars
  BY <1>28 DEF TypeOK, vars, clientVars, wireVars, serverVars
<1> QED
  BY <1>1, <1>2, <1>3, <1>4, <1>5, <1>6, <1>7, <1>8, <1>9, <1>10,
     <1>11, <1>12, <1>13, <1>14, <1>15, <1>16, <1>17, <1>18, <1>19, <1>20,
     <1>21, <1>22, <1>23, <1>24, <1>25, <1>26, <1>27, <1>28
  DEF Next, ClientStep, ThreadStep, AcceptStep, ProcessStep

\* The strengthened invariant holds initially: no sockets, no threads.
LEMMA LinkInit == Init => LinkInv
  BY TypeInit, NoConnAssumption
  DEF Init, LinkInv, SlotInv, SockInv, AwaitInv, AwaitAt, AbandonedInv, AbandonedAt, MotionInv,
      HasMove, Quiet, HoldsSlot, Serving

\* It is preserved by every step.
LEMMA LinkStep == LinkInv /\ [Next]_vars => LinkInv'
<1> SUFFICES ASSUME LinkInv, [Next]_vars PROVE LinkInv'
  OBVIOUS
<1>0. TypeOK'
  BY TypeStep
<1>1. ASSUME NEW b \in Clients, PollState(b) PROVE LinkInv'
  BY <1>0, <1>1, PollStateInv
<1>2. ASSUME NEW b \in Clients, ExecuteTarget(b) PROVE LinkInv'
  BY <1>0, <1>2, ExecuteTargetInv
<1>3. ASSUME NEW b \in Clients, RefuseExecute(b) PROVE LinkInv'
  BY <1>0, <1>3, RefuseExecuteInv
<1>4. ASSUME NEW b \in Clients, ConnectFails(b) PROVE LinkInv'
  BY <1>0, <1>4, DropInv DEF ConnectFails, CloseAndReport, serverVars
<1>5. ASSUME NEW b \in Clients, Send(b) PROVE LinkInv'
  BY <1>0, <1>5, SendInv
<1>6. ASSUME NEW b \in Clients, SendFails(b) PROVE LinkInv'
  BY <1>0, <1>6, DropInv DEF SendFails, CloseAndReport, serverVars
<1>7. ASSUME NEW b \in Clients, ReceiveState(b) PROVE LinkInv'
  <2>1. CASE Line(b).ok
    <3>1. Line(b).ok = TRUE
      BY <2>1, <1>7, TypeConsume DEF Answers, ReceiveState, HasLine, LinkInv, SockInv, TypeOK
    <3> QED BY <1>0, <1>7, <2>1, <3>1, ConsumeInv DEF ReceiveState, serverVars
  <2>2. CASE ~Line(b).ok
    <3>1. Line(b).ok = FALSE
      BY <2>2, <1>7, TypeConsume DEF Answers, ReceiveState, HasLine, LinkInv, SockInv, TypeOK
    <3> QED BY <1>0, <1>7, <2>2, <3>1, DropInv DEF ReceiveState, serverVars
  <2> QED BY <2>1, <2>2
<1>8. ASSUME NEW b \in Clients, ReceiveMove(b) PROVE LinkInv'
  BY <1>0, <1>8, ConsumeInv DEF ReceiveMove, serverVars
<1>9. ASSUME NEW b \in Clients, ReceiveTimeout(b) PROVE LinkInv'
  BY <1>0, <1>9, DropInv DEF ReceiveTimeout, CloseAndReport, serverVars
<1>10. ASSUME NEW b \in Clients, ReceiveClosed(b) PROVE LinkInv'
  BY <1>0, <1>10, DropInv DEF ReceiveClosed, CloseAndReport, serverVars
<1>11. ASSUME NEW b \in Clients, RestartClient(b) PROVE LinkInv'
  BY <1>0, <1>11, DropInv DEF RestartClient, serverVars
<1>12. ASSUME NEW b \in Clients, NEW c \in Conns, Connect(b, c) PROVE LinkInv'
  BY <1>0, <1>12, ConnectInv
<1>13. ASSUME NEW c \in Conns, AcceptClient(c) PROVE LinkInv'
  BY <1>0, <1>13, AcceptClientInv
<1>14. ASSUME NEW c \in Conns, RejectClient(c) PROVE LinkInv'
  BY <1>0, <1>14, RejectClientInv
<1>15. ASSUME NEW c \in Conns, BeginGetState(c) PROVE LinkInv'
  BY <1>0, <1>15, BeginGetStateInv
<1>16. ASSUME NEW c \in Conns, RefuseMove(c) PROVE LinkInv'
  BY <1>0, <1>16, RefuseMoveInv
<1>17. ASSUME NEW c \in Conns, BeginMove(c) PROVE LinkInv'
  BY <1>0, <1>17, BeginMoveInv
<1>18. ASSUME NEW c \in Conns, WriteAnswer(c) PROVE LinkInv'
  BY <1>0, <1>18, WriteAnswerInv
<1>19. ASSUME NEW c \in Conns, EndOfStream(c) PROVE LinkInv'
  BY <1>0, <1>19, EndOfStreamInv
<1>20. ASSUME NEW c \in Conns, CloseConnection(c) PROVE LinkInv'
  BY <1>0, <1>20, CloseConnectionInv
<1>21. ASSUME NEW c \in Conns, ReleaseSlot(c) PROVE LinkInv'
  BY <1>0, <1>21, ReleaseSlotInv
<1>22. ASSUME NEW c \in Conns, NEW ok \in BOOLEAN, FinishGetState(c, ok) PROVE LinkInv'
  BY <1>0, <1>22, FinishGetStateInv
<1>23. ASSUME NEW c \in Conns, NEW ok \in BOOLEAN, FinishMove(c, ok) PROVE LinkInv'
  BY <1>0, <1>23, FinishMoveInv
<1>24. CASE StartServer
  BY <1>0, <1>24, StartServerInv
<1>25. CASE Interrupt
  BY <1>0, <1>25, InterruptInv
<1>26. CASE CloseBackend
  BY <1>0, <1>26, CloseBackendInv
<1>27. CASE ExitServer
  BY <1>0, <1>27, ExitServerInv
<1>28. CASE UNCHANGED vars
  BY <1>28 DEF vars, clientVars, wireVars, serverVars, LinkInv, TypeOK, SlotInv, SockInv, AwaitInv, AwaitAt,
     AbandonedInv, AbandonedAt, MotionInv, HasMove, Quiet
<1> QED
  BY <1>1, <1>2, <1>3, <1>4, <1>5, <1>6, <1>7, <1>8, <1>9, <1>10,
     <1>11, <1>12, <1>13, <1>14, <1>15, <1>16, <1>17, <1>18, <1>19, <1>20,
     <1>21, <1>22, <1>23, <1>24, <1>25, <1>26, <1>27, <1>28
  DEF Next, ClientStep, ThreadStep, AcceptStep, ProcessStep

-----------------------------------------------------------------------------
(* Theorems.                                                               *)

\* LinkInv holds in every reachable state, whatever the number of clients
\* and connections, and with it the type of every variable.
THEOREM LinkInvariant == Spec => []LinkInv
<1>1. Init => LinkInv
  BY LinkInit
<1>2. LinkInv /\ [Next]_vars => LinkInv'
  BY LinkStep
<1> QED BY <1>1, <1>2, PTL DEF Spec

\* Every variable of the link keeps its type.
THEOREM TypeCorrect == Spec => []TypeOK
<1>1. LinkInv => TypeOK
  BY DEF LinkInv
<1> QED BY <1>1, LinkInvariant, PTL

\* The server serves one client at a time: no two client threads are ever
\* between accept and close, so no two motions write to the arm.
THEOREM SingleClientHolds == Spec => []SingleClient
<1>1. LinkInv => SingleClient
  BY DEF LinkInv, SlotInv, SingleClient, HoldsSlot
<1> QED BY <1>1, LinkInvariant, PTL

\* When the bridge reports the connection ready, none of its motions is
\* queued or running, not even one it has given up on.
THEOREM ConnectedMeansSettledHolds == Spec => []ConnectedMeansSettled
<1>1. LinkInv => ConnectedMeansSettled
  <2> SUFFICES ASSUME LinkInv, NEW b \in Clients, tcpConnected[b], pc[b] = "idle",
                      NEW c \in Conns, owner[c] = b
               PROVE  /\ thread[c] # "moving"
                      /\ \A i \in DOMAIN c2s[c] : c2s[c][i] # "move"
    BY DEF ConnectedMeansSettled
  <2>1. sock[b] # NoConn /\ AwaitAt(b, sock[b])
    BY DEF LinkInv, MotionInv, AwaitInv
  <2>2. ~HasMove(c)
    <3>1. CASE c = sock[b]
      BY <2>1, <3>1, OneElement DEF AwaitAt, Quiet, HasMove
    <3>2. CASE c # sock[b]
      BY <2>1, <3>2 DEF LinkInv, MotionInv
    <3> QED BY <3>1, <3>2
  <2>3. c2s[c] \in {<<>>, <<"state">>}
    BY <2>2, OneLine DEF HasMove
  <2>4. \A i \in DOMAIN c2s[c] : c2s[c][i] # "move"
    BY <2>3
  <2> QED BY <2>2, <2>4 DEF HasMove
<1> QED BY <1>1, LinkInvariant, PTL

\* Nothing of an earlier request is left when the next one is written, so
\* requests and answers never get out of step on the reused connection.
THEOREM CleanBeforeSendHolds == Spec => []CleanBeforeSend
<1>1. LinkInv => CleanBeforeSend
  BY DEF LinkInv, CleanBeforeSend, AwaitInv, AwaitAt, Quiet, SockInv
<1> QED BY <1>1, LinkInvariant, PTL

\* The line a callback reads answers its own request.
THEOREM AnswerMatchesHolds == Spec => []AnswerMatches
<1>1. LinkInv => AnswerMatches
  <2> SUFFICES ASSUME LinkInv, NEW b \in Clients, pc[b] = "recv", s2c[sock[b]] # <<>>
               PROVE  Head(s2c[sock[b]]).cmd = kind[b]
    BY DEF AnswerMatches
  <2>1. AwaitAt(b, sock[b])
    BY DEF LinkInv, AwaitInv
  <2>2. PICK a \in Answers : s2c[sock[b]] = <<a>> /\ a.cmd = kind[b]
    BY <2>1 DEF AwaitAt, Quiet
  <2> QED BY <2>2, OneElement
<1> QED BY <1>1, LinkInvariant, PTL

-----------------------------------------------------------------------------
(* The link implements OneMotion.                                          *)

AbstractVars == <<call, request, verdict>>

\* A client that waits for an answer has written its request, so a request
\* that is given up is reported as unknown, never as not sent.
SentInv == \A b \in Clients : pc[b] = "recv" => sendCompleted[b]

RefInv == LinkInv /\ SentInv

\* The three ways a request shows in the link.
Moves(b)    == \E c \in Conns : owner[c] = b /\ thread[c] = "moving"
Posts(b)    == \E c \in Conns : owner[c] = b /\ Unread(c)
Answered(b) == call[b] /\ (thread[sock[b]] = "reply" \/ s2c[sock[b]] # <<>>)

-----------------------------------------------------------------------------
(* Where a motion can be.                                                  *)

LEMMA RequestIs ==
  /\ request \in [Clients -> {"none", "posted", "running", "answered"}]
  /\ \A b \in Clients :
       request[b] = IF Moves(b) THEN "running" ELSE IF Posts(b) THEN "posted"
                    ELSE IF Answered(b) THEN "answered" ELSE "none"
  BY DEF request, Moves, Posts, Answered

LEMMA RequestIsNext ==
  /\ request' \in [Clients -> {"none", "posted", "running", "answered"}]
  /\ \A b \in Clients :
       request'[b] = IF Moves(b)' THEN "running" ELSE IF Posts(b)' THEN "posted"
                     ELSE IF Answered(b)' THEN "answered" ELSE "none"
  BY DEF request, Moves, Posts, Answered

\* A request to move that was not read yet is with a thread that reads.
LEMMA UnreadReads ==
  ASSUME LinkInv, NEW c \in Conns
  PROVE  /\ Unread(c) <=> c2s[c] = <<"move">>
         /\ Unread(c) => thread[c] = "read"
<1>1. CASE c2s[c] = <<"move">>
  <2>1. thread[c] = "read"
    BY <1>1, OneLine, OneElement DEF LinkInv, MotionInv
  <2> QED BY <1>1, <2>1 DEF Unread, Serving
<1>2. CASE c2s[c] # <<"move">>
  BY <1>2 DEF Unread
<1> QED BY <1>1, <1>2

\* The server holds one motion at a time, read or not.
LEMMA OneLive ==
  ASSUME LinkInv, NEW c \in Conns, NEW d \in Conns,
         Unread(c) \/ thread[c] = "moving" \/ thread[c] = "read" \/ thread[c] = "reply",
         Unread(d) \/ thread[d] = "moving" \/ thread[d] = "read" \/ thread[d] = "reply"
  PROVE  c = d
<1>1. thread[c] \in HoldsSlot /\ thread[d] \in HoldsSlot
  BY UnreadReads DEF HoldsSlot, Serving
<1> QED BY <1>1 DEF LinkInv, SlotInv

\* A caller's motion is on its socket.
LEMMA OwnMotion ==
  ASSUME LinkInv, NEW b \in Clients, kind[b] = "move",
         NEW c \in Conns, owner[c] = b, Unread(c) \/ thread[c] = "moving"
  PROVE  c = sock[b]
<1>1. tcpConnected[b] /\ sock[b] # NoConn
  BY DEF LinkInv, MotionInv
<1>2. HasMove(c)
  BY DEF HasMove, Unread
<1> QED BY <1>1, <1>2 DEF LinkInv, MotionInv

\* Two clients do not share a socket.
LEMMA OwnSocket ==
  ASSUME LinkInv, NEW b \in Clients, NEW x \in Clients, x # b, sock[b] # NoConn
  PROVE  sock[x] # sock[b]
  BY DEF LinkInv, SockInv

-----------------------------------------------------------------------------
(* What leaves the abstract variables of a client as they are.             *)

LEMMA SameRequest ==
  ASSUME NEW x \in Clients, Moves(x)' <=> Moves(x), Posts(x)' <=> Posts(x),
         Answered(x)' <=> Answered(x)
  PROVE  request'[x] = request[x]
<1> QED BY RequestIs, RequestIsNext

LEMMA SameRequests ==
  ASSUME \A x \in Clients : request'[x] = request[x]
  PROVE  request' = request
  BY RequestIs, RequestIsNext

LEMMA OneRequest ==
  ASSUME NEW b \in Clients, \A x \in Clients : x # b => request'[x] = request[x]
  PROVE  request' = [request EXCEPT ![b] = request'[b]]
  BY RequestIs, RequestIsNext

\* Nothing of the wire and the threads changes, nor who calls.
LEMMA QuietWire ==
  ASSUME NEW x \in Clients, UNCHANGED <<owner, c2s, thread>>, Answered(x)' <=> Answered(x)
  PROVE  request'[x] = request[x]
<1>1. Moves(x)' <=> Moves(x)
  BY DEF Moves
<1>2. Posts(x)' <=> Posts(x)
  BY DEF Posts, Unread, Serving
<1> QED BY <1>1, <1>2, SameRequest

LEMMA CallIs ==
  /\ call \in [Clients -> BOOLEAN]
  /\ \A b \in Clients : call[b] <=> pc[b] = "recv" /\ kind[b] = "move"
  BY DEF call

LEMMA CallIsNext ==
  /\ call' \in [Clients -> BOOLEAN]
  /\ \A b \in Clients : call'[b] <=> pc'[b] = "recv" /\ kind'[b] = "move"
  BY DEF call

\* A callback that ends waits for nothing any more.
LEMMA EndedCall ==
  ASSUME LinkInv, NEW b \in Clients, EndCallback(b)
  PROVE  call' = [call EXCEPT ![b] = FALSE]
<1>1. pc'[b] = "idle"
  BY DEF EndCallback, LinkInv, TypeOK
<1>2. \A x \in Clients : x # b => pc'[x] = pc[x] /\ kind'[x] = kind[x]
  BY DEF EndCallback, LinkInv, TypeOK
<1>3. \A x \in Clients : call'[x] = IF x = b THEN FALSE ELSE call[x]
  BY <1>1, <1>2 DEF call
<1> QED BY <1>3, CallIs, CallIsNext

LEMMA SameCalls ==
  ASSUME \A x \in Clients : pc'[x] = "recv" /\ kind'[x] = "move" <=> pc[x] = "recv" /\ kind[x] = "move"
  PROVE  call' = call
  BY CallIs, CallIsNext

\* A client that calls has a socket.
LEMMA CallerHasSocket ==
  ASSUME LinkInv, NEW b \in Clients, call[b]
  PROVE  sock[b] \in Conns /\ cliOpen[sock[b]] /\ owner[sock[b]] = b
  BY CallIs DEF LinkInv, TypeOK, SockInv

\* Closing the socket at the end of a callback abandons the call.
LEMMA DropAbandons ==
  ASSUME LinkInv, NEW b \in Clients, CloseSocket(b), EndCallback(b),
         UNCHANGED <<owner, c2s, thread>>
  PROVE  /\ call' = [call EXCEPT ![b] = FALSE]
         /\ request' = [request EXCEPT ![b] = IF @ = "answered" THEN "none" ELSE @]
<1>1. call' = [call EXCEPT ![b] = FALSE]
  BY EndedCall
<1>2. ASSUME NEW x \in Clients, x # b PROVE request'[x] = request[x]
  <2>1. call'[x] <=> call[x]
    BY <1>1, <1>2, CallIs
  <2>2. ASSUME call[x] PROVE sock'[x] = sock[x] /\ s2c'[sock[x]] = s2c[sock[x]]
    <3>1. sock[x] \in Conns /\ sock[x] # sock[b]
      BY <1>2, <2>2, CallerHasSocket, OwnSocket, NoConnAssumption
    <3>2. sock'[x] = sock[x]
      BY <1>2 DEF CloseSocket, LinkInv, TypeOK
    <3>3. s2c'[sock[x]] = s2c[sock[x]]
      BY <3>1 DEF CloseSocket
    <3> QED BY <3>2, <3>3
  <2>3. Answered(x)' <=> Answered(x)
    BY <2>1, <2>2 DEF Answered
  <2> QED BY <2>3, QuietWire
<1>3. request'[b] = IF request[b] = "answered" THEN "none" ELSE request[b]
  <2>1. ~Answered(b)'
    BY <1>1, CallIs DEF Answered
  <2>2. Moves(b)' <=> Moves(b)
    BY DEF Moves
  <2>3. Posts(b)' <=> Posts(b)
    BY DEF Posts, Unread, Serving
  <2> QED BY <2>1, <2>2, <2>3, RequestIs, RequestIsNext
<1>4. request' = [request EXCEPT ![b] = request'[b]]
  BY <1>2, OneRequest
<1> QED BY <1>1, <1>3, <1>4, RequestIs

\* Nothing is abandoned by a client that does not call.
LEMMA NothingAbandoned ==
  ASSUME NEW b \in Clients, ~call[b]
  PROVE  /\ [call EXCEPT ![b] = FALSE] = call
         /\ [request EXCEPT ![b] = IF @ = "answered" THEN "none" ELSE @] = request
<1>1. request[b] # "answered"
  BY RequestIs DEF Answered
<1> QED BY <1>1, CallIs, RequestIs
-----------------------------------------------------------------------------
(* The steps of a client.                                                  *)

AbstractStep == Promise!Next \/ UNCHANGED AbstractVars

\* The start of a request, or its refusal, shows in the verdict only.
LEMMA StartStep ==
  ASSUME LinkInv, NEW b \in Clients, PollState(b) \/ ExecuteTarget(b)
  PROVE  AbstractStep
<1>1. PICK cmd \in Commands : StartRequest(b, cmd) /\ pc[b] = "idle"
  BY DEF PollState, ExecuteTarget, Commands
<1>2. pc'[b] \in {"connect", "send"}
  BY <1>1 DEF StartRequest, LinkInv, TypeOK
<1>3. \A x \in Clients : x # b => pc'[x] = pc[x] /\ kind'[x] = kind[x]
  BY <1>1 DEF StartRequest, LinkInv, TypeOK
<1>4. call' = call
  BY <1>1, <1>2, <1>3, SameCalls
<1>5. request' = request
  <2>1. UNCHANGED <<owner, c2s, s2c, thread, sock>>
    BY <1>1 DEF StartRequest, wireVars, serverVars
  <2>2. \A x \in Clients : Answered(x)' <=> Answered(x)
    BY <1>4, <2>1 DEF Answered
  <2> QED BY <2>1, <2>2, QuietWire, SameRequests
<1>6. Promise!Deliver(b)
  BY <1>1, <1>4, <1>5 DEF StartRequest, Promise!Deliver
<1> QED BY <1>6 DEF AbstractStep, Promise!Next

LEMMA RefuseStep ==
  ASSUME LinkInv, NEW b \in Clients, RefuseExecute(b)
  PROVE  AbstractStep
<1>1. UNCHANGED <<pc, kind, owner, c2s, s2c, thread, sock>>
  BY DEF RefuseExecute, wireVars, serverVars
<1>2. call' = call
  BY <1>1, SameCalls
<1>3. request' = request
  <2>1. \A x \in Clients : Answered(x)' <=> Answered(x)
    BY <1>1, <1>2 DEF Answered
  <2> QED BY <1>1, <2>1, QuietWire, SameRequests
<1>4. ~call[b]
  BY CallIs DEF RefuseExecute
<1>5. Promise!Decline(b)
  BY <1>2, <1>3, <1>4 DEF RefuseExecute, Promise!Decline
<1> QED BY <1>5 DEF AbstractStep, Promise!Next

\* A new connection carries nothing yet.
LEMMA ConnectStep ==
  ASSUME LinkInv, NEW b \in Clients, NEW c \in Conns, Connect(b, c)
  PROVE  AbstractStep
<1>1. /\ thread[c] = "ended" /\ ~cliOpen[c] /\ thread'[c] = "backlog" /\ c2s'[c] = <<>>
      /\ pc[b] = "connect" /\ pc'[b] = "send" /\ UNCHANGED kind
  BY DEF Connect, Dead, LinkInv, TypeOK
<1>2. \A d \in Conns : d # c => /\ thread'[d] = thread[d] /\ c2s'[d] = c2s[d]
                               /\ owner'[d] = owner[d] /\ s2c'[d] = s2c[d]
  BY DEF Connect, LinkInv, TypeOK
<1>3. \A x \in Clients : x # b => pc'[x] = pc[x] /\ sock'[x] = sock[x]
  BY DEF Connect, LinkInv, TypeOK
<1>4. call' = call
  BY <1>1, <1>3, SameCalls
<1>5. ASSUME NEW x \in Clients PROVE request'[x] = request[x]
  <2>1. Moves(x)' <=> Moves(x)
    BY <1>1, <1>2 DEF Moves
  <2>2. ~Unread(c) /\ ~Unread(c)'
    BY <1>1, OneElement DEF Unread, Serving
  <2>3. \A d \in Conns : d # c => (Unread(d)' <=> Unread(d))
    BY <1>2 DEF Unread, Serving
  <2>4. Posts(x)' <=> Posts(x)
    BY <1>2, <2>2, <2>3 DEF Posts
  <2>5. ASSUME call[x] PROVE x # b /\ sock[x] \in Conns /\ sock[x] # c
    BY <1>1, <2>5, CallIs, CallerHasSocket
  <2>6. Answered(x)' <=> Answered(x)
    BY <1>2, <1>3, <1>4, <2>5 DEF Answered
  <2> QED BY <2>1, <2>4, <2>6, SameRequest
<1>6. UNCHANGED AbstractVars
  BY <1>4, <1>5, SameRequests DEF AbstractVars, Connect
<1> QED BY <1>6 DEF AbstractStep

\* Nothing of the caller is under way when it is about to send a motion.
LEMMA NothingPosted ==
  ASSUME LinkInv, NEW b \in Clients, pc[b] = "send", kind[b] = "move"
  PROVE  request[b] = "none"
<1>1. ~call[b]
  BY CallIs
<1>2. c2s[sock[b]] = <<>> /\ thread[sock[b]] # "moving"
  BY DEF LinkInv, AwaitInv, AwaitAt, Quiet, SockInv
<1>3. ~Moves(b)
  BY <1>2, OwnMotion DEF Moves
<1>4. ~Posts(b)
  BY <1>2, OwnMotion, OneElement DEF Posts, Unread
<1> QED BY <1>1, <1>3, <1>4, RequestIs DEF Answered

LEMMA SendStep ==
  ASSUME LinkInv, NEW b \in Clients, Send(b)
  PROVE  AbstractStep
<1> DEFINE s == sock[b]
<1>1. /\ pc[b] = "send" /\ pc'[b] = "recv" /\ s \in Conns
      /\ UNCHANGED <<kind, sock, owner, s2c, thread, verdict>>
      /\ \A x \in Clients : x # b => pc'[x] = pc[x]
  BY DEF Send, LinkInv, TypeOK, SockInv, serverVars
<1>2. /\ c2s[s] = <<>> /\ s2c[s] = <<>> /\ thread[s] \in {"backlog", "read", "ended"}
      /\ owner[s] = b
  BY <1>1 DEF LinkInv, AwaitInv, AwaitAt, Quiet, SockInv
<1>3. \A d \in Conns : d # s => c2s'[d] = c2s[d]
  BY <1>1 DEF Send, LinkInv, TypeOK
<1>4. c2s'[s] = IF thread[s] = "ended" THEN <<>> ELSE <<kind[b]>>
  BY <1>1, <1>2, OneElement DEF Send, ServerEndOpen, Serving, LinkInv, TypeOK
<1>5. ASSUME NEW x \in Clients, x # b PROVE request'[x] = request[x] /\ call'[x] = call[x]
  <2>1. call'[x] <=> call[x]
    BY <1>1, <1>5, CallIs, CallIsNext
  <2>2. Moves(x)' <=> Moves(x)
    BY <1>1 DEF Moves
  <2>3. Posts(x)' <=> Posts(x)
    BY <1>1, <1>2, <1>3, <1>5 DEF Posts, Unread, Serving
  <2>4. Answered(x)' <=> Answered(x)
    BY <1>1, <2>1 DEF Answered
  <2> QED BY <2>1, <2>2, <2>3, <2>4, SameRequest, CallIs, CallIsNext
<1>6. CASE kind[b] = "state"
  <2>1. call' = call
    BY <1>1, <1>6, SameCalls
  <2>2. ~Unread(s) /\ ~Unread(s)'
    <3>1. <<"state">> # <<"move">>
      OBVIOUS
    <3>2. s' = s /\ c2s'[s] # <<"move">>
      BY <1>1, <1>4, <1>6, <3>1, OneElement
    <3> QED BY <1>2, <3>2, OneElement DEF Unread
  <2>3. Posts(b)' <=> Posts(b)
    BY <1>1, <1>3, <2>2 DEF Posts, Unread, Serving
  <2>4. Moves(b)' <=> Moves(b)
    BY <1>1 DEF Moves
  <2>5. Answered(b)' <=> Answered(b)
    BY <1>1, <2>1 DEF Answered
  <2>6. request'[b] = request[b]
    BY <2>3, <2>4, <2>5, SameRequest
  <2>7. UNCHANGED AbstractVars
    BY <1>1, <1>5, <2>1, <2>6, SameRequests DEF AbstractVars
  <2> QED BY <2>7 DEF AbstractStep
<1>7. CASE kind[b] = "move"
  <2>1. request[b] = "none" /\ ~call[b]
    BY <1>1, <1>7, NothingPosted, CallIs
  <2>2. call' = [call EXCEPT ![b] = TRUE]
    BY <1>1, <1>5, <1>7, CallIs, CallIsNext
  <2>3. ~Moves(b)'
    BY <1>1, <2>1, RequestIs DEF Moves
  <2>4. ~Answered(b)'
    BY <1>1, <1>2 DEF Answered
  <2>5. request'[b] \in {"posted", "none"}
    BY <2>3, <2>4, RequestIsNext
  <2>6. request' = [request EXCEPT ![b] = request'[b]]
    BY <1>5, OneRequest
  <2>7. Promise!Post(b)
    BY <1>1, <2>1, <2>2, <2>5, <2>6 DEF Promise!Post
  <2> QED BY <2>7 DEF AbstractStep, Promise!Next
<1>8. kind[b] \in {"state", "move"}
  BY DEF LinkInv, TypeOK, Commands
<1> QED BY <1>6, <1>7, <1>8

\* A callback that never sent declines a motion, or was a poll.
LEMMA ConnectFailsStep ==
  ASSUME LinkInv, NEW b \in Clients, ConnectFails(b)
  PROVE  AbstractStep
<1>1. kind[b] = "state" /\ pc[b] = "connect"
  BY DEF ConnectFails, LinkInv, TypeOK, Commands, MotionInv, SockInv
<1>2. ~call[b]
  BY <1>1, CallIs
<1>3. UNCHANGED <<call, request>>
  BY <1>2, DropAbandons, NothingAbandoned DEF ConnectFails, CloseAndReport, serverVars
<1>4. UNCHANGED verdict
  BY <1>1 DEF ConnectFails, CloseAndReport
<1> QED BY <1>3, <1>4 DEF AbstractStep, AbstractVars

LEMMA SendFailsStep ==
  ASSUME LinkInv, NEW b \in Clients, SendFails(b)
  PROVE  AbstractStep
<1>1. pc[b] = "send" /\ ~call[b]
  BY CallIs DEF SendFails
<1>2. UNCHANGED <<call, request>>
  BY <1>1, DropAbandons, NothingAbandoned DEF SendFails, CloseAndReport, serverVars
<1>3. CASE kind[b] = "state"
  BY <1>2, <1>3 DEF SendFails, CloseAndReport, AbstractStep, AbstractVars
<1>4. CASE kind[b] = "move"
  <2>1. request[b] = "none"
    BY <1>1, <1>4, NothingPosted
  <2>2. Promise!Decline(b)
    BY <1>1, <1>2, <1>4, <2>1 DEF SendFails, CloseAndReport, Promise!Decline
  <2> QED BY <2>2 DEF AbstractStep, Promise!Next
<1>5. kind[b] \in {"state", "move"}
  BY DEF LinkInv, TypeOK, Commands
<1> QED BY <1>3, <1>4, <1>5

\* A call that ends without its answer is given up; a poll is not a call.
LEMMA GiveUpStep ==
  ASSUME LinkInv, SentInv, NEW b \in Clients, ReceiveTimeout(b) \/ ReceiveClosed(b)
  PROVE  AbstractStep
<1>1. pc[b] = "recv" /\ sendCompleted[b] /\ CloseAndReport(b, sendCompleted[b])
  BY DEF SentInv, ReceiveTimeout, ReceiveClosed
<1>2. /\ call' = [call EXCEPT ![b] = FALSE]
      /\ request' = [request EXCEPT ![b] = IF @ = "answered" THEN "none" ELSE @]
  BY <1>1, DropAbandons DEF CloseAndReport, serverVars
<1>3. CASE kind[b] = "state"
  <2>1. ~call[b]
    BY <1>3, CallIs
  <2> QED BY <1>1, <1>2, <1>3, <2>1, NothingAbandoned DEF CloseAndReport, AbstractStep, AbstractVars
<1>4. CASE kind[b] = "move"
  <2>1. call[b] /\ verdict' = [verdict EXCEPT ![b] = "unknown"]
    BY <1>1, <1>4, CallIs DEF CloseAndReport
  <2>2. Promise!GiveUp(b)
    BY <1>2, <2>1 DEF Promise!GiveUp, Promise!Abandon
  <2> QED BY <2>2 DEF AbstractStep, Promise!Next
<1>5. kind[b] \in {"state", "move"}
  BY DEF LinkInv, TypeOK, Commands
<1> QED BY <1>3, <1>4, <1>5

LEMMA RestartStep ==
  ASSUME LinkInv, NEW b \in Clients, RestartClient(b)
  PROVE  AbstractStep
<1>1. Promise!Abandon(b)
  BY DropAbandons DEF RestartClient, serverVars, Promise!Abandon
<1>2. Promise!Restart(b)
  BY <1>1 DEF RestartClient, Promise!Restart
<1> QED BY <1>2 DEF AbstractStep, Promise!Next

\* A line that is consumed.
LEMMA ConsumeOthers ==
  ASSUME LinkInv, NEW b \in Clients, HasLine(b), EndCallback(b),
         s2c' = [s2c EXCEPT ![sock[b]] = Tail(@)],
         UNCHANGED <<sock, owner, c2s, thread>>
  PROVE  /\ call' = [call EXCEPT ![b] = FALSE]
         /\ \A x \in Clients : x # b => request'[x] = request[x]
<1>1. call' = [call EXCEPT ![b] = FALSE]
  BY EndedCall
<1>2. sock[b] \in Conns
  BY DEF HasLine, LinkInv, SockInv, TypeOK
<1>3. ASSUME NEW x \in Clients, x # b PROVE request'[x] = request[x]
  <2>1. call'[x] <=> call[x]
    BY <1>1, <1>3, CallIs
  <2>2. ASSUME call[x] PROVE s2c'[sock[x]] = s2c[sock[x]]
    <3>1. sock[x] \in Conns /\ sock[x] # sock[b]
      BY <1>3, <2>2, <1>2, CallerHasSocket, OwnSocket, NoConnAssumption
    <3> QED BY <3>1 DEF LinkInv, TypeOK
  <2>3. Answered(x)' <=> Answered(x)
    BY <2>1, <2>2 DEF Answered
  <2> QED BY <2>3, QuietWire
<1> QED BY <1>1, <1>3

LEMMA ReceiveStateStep ==
  ASSUME LinkInv, NEW b \in Clients, ReceiveState(b)
  PROVE  AbstractStep
<1>1. ~call[b] /\ HasLine(b) /\ EndCallback(b) /\ UNCHANGED <<verdict, owner, c2s, thread>>
  BY CallIs DEF ReceiveState, serverVars
<1>2. CASE CloseSocket(b)
  BY <1>1, <1>2, DropAbandons, NothingAbandoned DEF AbstractStep, AbstractVars
<1>3. CASE s2c' = [s2c EXCEPT ![sock[b]] = Tail(@)] /\ UNCHANGED sock
  <2>1. /\ call' = [call EXCEPT ![b] = FALSE]
        /\ \A x \in Clients : x # b => request'[x] = request[x]
    BY <1>1, <1>3, ConsumeOthers
  <2>2. call' = call
    BY <1>1, <2>1, NothingAbandoned
  <2>3. ~Answered(b)' /\ ~Answered(b)
    BY <1>1, <2>2 DEF Answered
  <2>4. request'[b] = request[b]
    BY <1>1, <2>3, QuietWire
  <2> QED BY <1>1, <2>1, <2>2, <2>4, SameRequests DEF AbstractStep, AbstractVars
<1> QED BY <1>2, <1>3 DEF ReceiveState

\* The answer of a motion is returned by the call that waits for it.
LEMMA ReceiveMoveStep ==
  ASSUME LinkInv, NEW b \in Clients, ReceiveMove(b)
  PROVE  AbstractStep
<1>1. call[b] /\ kind[b] = "move" /\ s2c[sock[b]] # <<>>
  BY CallIs DEF ReceiveMove, HasLine
<1>2. c2s[sock[b]] = <<>> /\ thread[sock[b]] \in {"read", "ended"}
  BY <1>1 DEF ReceiveMove, HasLine, LinkInv, AwaitInv, AwaitAt, Quiet
<1>3. ~Moves(b) /\ ~Posts(b)
  BY <1>1, <1>2, OwnMotion, OneElement DEF Moves, Posts, Unread
<1>4. request[b] = "answered"
  BY <1>1, <1>3, RequestIs DEF Answered
<1>5. /\ call' = [call EXCEPT ![b] = FALSE]
      /\ \A x \in Clients : x # b => request'[x] = request[x]
  BY ConsumeOthers DEF ReceiveMove, serverVars
<1>6. request'[b] = "none"
  <2>1. ~Moves(b)' /\ ~Posts(b)'
    BY <1>3 DEF Moves, Posts, Unread, ReceiveMove, serverVars
  <2>2. ~Answered(b)'
    BY <1>5, CallIs DEF Answered
  <2> QED BY <2>1, <2>2, RequestIsNext
<1>7. request' = [request EXCEPT ![b] = "none"]
  BY <1>5, <1>6, OneRequest
<1>8. \E v \in {"done", "failed"} : verdict' = [verdict EXCEPT ![b] = v]
  BY DEF ReceiveMove
<1>9. Promise!Return(b)
  BY <1>1, <1>4, <1>5, <1>7, <1>8 DEF Promise!Return
<1> QED BY <1>9 DEF AbstractStep, Promise!Next

-----------------------------------------------------------------------------
(* The steps of a connection.                                              *)

\* A step of one connection shows in its owner's request alone.
LEMMA OthersKeepRequest ==
  ASSUME LinkInv, NEW c \in Conns, UNCHANGED <<owner, clientVars>>,
         \A d \in Conns : d # c => /\ thread'[d] = thread[d] /\ c2s'[d] = c2s[d]
                                   /\ s2c'[d] = s2c[d]
  PROVE  /\ UNCHANGED <<call, verdict>>
         /\ \A x \in Clients : x # owner[c] => request'[x] = request[x]
<1>1. call' = call
  BY SameCalls DEF clientVars
<1>2. ASSUME NEW x \in Clients, x # owner[c] PROVE request'[x] = request[x]
  <2>1. Moves(x)' <=> Moves(x)
    BY <1>2 DEF Moves
  <2>2. Posts(x)' <=> Posts(x)
    BY <1>2 DEF Posts, Unread
  <2>3. ASSUME call[x] PROVE sock[x] \in Conns /\ sock[x] # c
    BY <1>2, <2>3, CallerHasSocket
  <2>4. Answered(x)' <=> Answered(x)
    BY <1>1, <2>3 DEF Answered, clientVars
  <2> QED BY <2>1, <2>2, <2>4, SameRequest
<1> QED BY <1>1, <1>2 DEF clientVars

\* A step that neither starts nor ends a motion, nor brings its answer.
LEMMA QuietConnection ==
  ASSUME LinkInv, NEW c \in Conns, UNCHANGED <<owner, clientVars>>,
         \A d \in Conns : d # c => /\ thread'[d] = thread[d] /\ c2s'[d] = c2s[d]
                                   /\ s2c'[d] = s2c[d],
         thread'[c] = "moving" <=> thread[c] = "moving", Unread(c)' <=> Unread(c),
         cliOpen[c] /\ (\E b \in Clients : call[b] /\ sock[b] = c) =>
           (thread'[c] = "reply" \/ s2c'[c] # <<>> <=> thread[c] = "reply" \/ s2c[c] # <<>>)
  PROVE  AbstractStep
<1>1. /\ UNCHANGED <<call, verdict>>
      /\ \A x \in Clients : x # owner[c] => request'[x] = request[x]
  BY OthersKeepRequest
<1>2. ASSUME NEW x \in Clients PROVE request'[x] = request[x]
  <2>1. Moves(x)' <=> Moves(x)
    BY DEF Moves
  <2>2. \A d \in Conns : Unread(d)' <=> Unread(d)
    BY DEF Unread
  <2>3. Posts(x)' <=> Posts(x)
    BY <2>2 DEF Posts
  <2>4. ASSUME call[x]
        PROVE  thread'[sock[x]] = "reply" \/ s2c'[sock[x]] # <<>>
                 <=> thread[sock[x]] = "reply" \/ s2c[sock[x]] # <<>>
    <3>1. sock[x] \in Conns /\ cliOpen[sock[x]]
      BY <2>4, CallerHasSocket
    <3>2. CASE sock[x] = c
      BY <2>4, <3>1, <3>2
    <3>3. CASE sock[x] # c
      BY <3>1, <3>3
    <3> QED BY <3>2, <3>3
  <2>5. Answered(x)' <=> Answered(x)
    BY <1>1, <2>4 DEF Answered, clientVars
  <2> QED BY <2>1, <2>3, <2>5, SameRequest
<1> QED BY <1>1, <1>2, SameRequests DEF AbstractStep, AbstractVars

LEMMA AcceptStepRefines ==
  ASSUME LinkInv, NEW c \in Conns, AcceptClient(c) \/ RejectClient(c)
  PROVE  AbstractStep
<1>1. /\ UNCHANGED <<owner, clientVars, s2c>> /\ thread[c] = "backlog"
      /\ thread'[c] \in {"read", "ended"} /\ c2s'[c] \in {c2s[c], <<>>}
      /\ \A d \in Conns : d # c => thread'[d] = thread[d] /\ c2s'[d] = c2s[d]
  BY DEF AcceptClient, RejectClient, wireVars, LinkInv, TypeOK
<1>2. ~Unread(c) /\ ~Unread(c)'
  BY <1>1, OneElement DEF Unread, LinkInv, MotionInv
<1> QED BY <1>1, <1>2, QuietConnection

\* Reading and answering a poll.
LEMMA StateStepRefines ==
  ASSUME LinkInv, NEW c \in Conns,
         BeginGetState(c) \/ \E ok \in BOOLEAN : FinishGetState(c, ok)
  PROVE  AbstractStep
<1>1. <<"state">> # <<"move">>
  OBVIOUS
<1>2. CASE BeginGetState(c)
  <2>1. c2s[c] = <<"state">> /\ c2s' = [c2s EXCEPT ![c] = <<>>] /\ thread[c] = "read"
    BY <1>2, ReadOne DEF BeginGetState, Commands, ReadRequest
  <2>2. /\ UNCHANGED <<owner, clientVars, s2c>> /\ thread'[c] = "state" /\ c2s'[c] = <<>>
        /\ \A d \in Conns : d # c => thread'[d] = thread[d] /\ c2s'[d] = c2s[d]
    BY <1>2, <2>1 DEF BeginGetState, LinkInv, TypeOK
  <2>3. ~Unread(c) /\ ~Unread(c)'
    BY <1>1, <2>1, <2>2, OneElement DEF Unread
  <2> QED BY <2>1, <2>2, <2>3, QuietConnection
<1>3. CASE \E ok \in BOOLEAN : FinishGetState(c, ok)
  <2>1. /\ UNCHANGED <<owner, clientVars, s2c, c2s>> /\ thread[c] = "state"
        /\ thread'[c] = "reply"
        /\ \A d \in Conns : d # c => thread'[d] = thread[d]
    BY <1>3 DEF FinishGetState, SetAnswer, wireVars, LinkInv, TypeOK
  <2>2. ~Unread(c) /\ ~Unread(c)'
    BY <2>1, UnreadReads DEF Unread
  <2>3. ~\E b \in Clients : call[b] /\ sock[b] = c
    BY <2>1, CallIs DEF LinkInv, AwaitInv, AwaitAt
  <2> QED BY <2>1, <2>2, <2>3, QuietConnection
<1> QED BY <1>2, <1>3

\* Writing an answer, and the end of a connection.
LEMMA WriteAnswerStep ==
  ASSUME LinkInv, NEW c \in Conns, WriteAnswer(c)
  PROVE  AbstractStep
<1>1. /\ UNCHANGED <<owner, clientVars, c2s>> /\ thread[c] = "reply" /\ thread'[c] = "read"
      /\ \A d \in Conns : d # c => thread'[d] = thread[d] /\ s2c'[d] = s2c[d]
  BY DEF WriteAnswer, LinkInv, TypeOK
<1>2. ~Unread(c) /\ ~Unread(c)'
  BY <1>1, UnreadReads DEF Unread
<1>3. ASSUME cliOpen[c] PROVE s2c'[c] # <<>>
  BY <1>3 DEF WriteAnswer, LinkInv, TypeOK
<1> QED BY <1>1, <1>2, <1>3, QuietConnection

LEMMA EndStepRefines ==
  ASSUME LinkInv, NEW c \in Conns, EndOfStream(c) \/ CloseConnection(c) \/ ReleaseSlot(c)
  PROVE  AbstractStep
<1>1. /\ UNCHANGED <<owner, clientVars, s2c>> /\ c2s'[c] \in {c2s[c], <<>>}
      /\ thread'[c] \in {"closing", "release", "ended"}
      /\ \/ thread[c] = "reply" /\ ~cliOpen[c]
         \/ thread[c] = "read" /\ c2s[c] = <<>> /\ ~cliOpen[c]
         \/ thread[c] \in {"closing", "release"}
      /\ \A d \in Conns : d # c => thread'[d] = thread[d] /\ c2s'[d] = c2s[d]
  BY DEF EndOfStream, CloseConnection, ReleaseSlot, wireVars, LinkInv, TypeOK
<1>2. ~Unread(c) /\ ~Unread(c)'
  BY <1>1, UnreadReads, OneElement DEF Unread
<1> QED BY <1>1, <1>2, QuietConnection

\* The end of a motion, or its refusal: the owner's request is answered.
LEMMA AnswerStep ==
  ASSUME LinkInv, NEW c \in Conns, UNCHANGED <<owner, clientVars, s2c>>,
         Unread(c) \/ thread[c] = "moving", thread'[c] = "reply", c2s'[c] = <<>>,
         \A d \in Conns : d # c => thread'[d] = thread[d] /\ c2s'[d] = c2s[d]
  PROVE  AbstractStep
<1> DEFINE b == owner[c]
<1>1. b \in Clients /\ UNCHANGED <<call, verdict>>
      /\ \A x \in Clients : x # b => request'[x] = request[x]
  BY OthersKeepRequest DEF LinkInv, TypeOK
<1>2. request[b] \in {"posted", "running"}
  BY <1>1, RequestIs DEF Moves, Posts
<1>3. \A d \in Conns : d # c => ~Unread(d) /\ thread[d] # "moving"
  BY OneLive
<1>4. ~Moves(b)' /\ ~Posts(b)'
  <2>1. \A d \in Conns : ~Unread(d)' /\ thread'[d] # "moving"
    BY <1>3, OneElement DEF Unread
  <2> QED BY <2>1 DEF Moves, Posts
<1>5. CASE call[b]
  <2>1. c = sock[b]
    BY <1>1, <1>5, CallIs, OwnMotion
  <2>2. Answered(b)'
    BY <1>1, <1>5, <2>1 DEF Answered, clientVars
  <2>3. request'[b] = "answered"
    BY <1>1, <1>4, <2>2, RequestIsNext
  <2> QED BY <1>1, <1>2, <1>5, <2>3, OneRequest DEF Promise!Answer, AbstractStep, Promise!Next
<1>6. CASE ~call[b]
  <2>1. ~Answered(b)'
    BY <1>1, <1>6 DEF Answered
  <2>2. request'[b] = "none"
    BY <1>1, <1>4, <2>1, RequestIsNext
  <2> QED BY <1>1, <1>2, <1>6, <2>2, OneRequest DEF Promise!Answer, AbstractStep, Promise!Next
<1> QED BY <1>5, <1>6

LEMMA RefuseMoveStep ==
  ASSUME LinkInv, NEW c \in Conns, RefuseMove(c)
  PROVE  AbstractStep
<1>1. c2s[c] = <<"move">> /\ c2s' = [c2s EXCEPT ![c] = <<>>] /\ thread[c] = "read"
  BY ReadOne DEF RefuseMove, Commands, ReadRequest
<1>2. /\ UNCHANGED <<owner, clientVars, s2c>> /\ thread'[c] = "reply" /\ c2s'[c] = <<>>
      /\ \A d \in Conns : d # c => thread'[d] = thread[d] /\ c2s'[d] = c2s[d]
  BY <1>1 DEF RefuseMove, SetAnswer, LinkInv, TypeOK
<1>3. Unread(c)
  BY <1>1 DEF Unread, Serving
<1> QED BY <1>2, <1>3, AnswerStep

LEMMA FinishMoveStep ==
  ASSUME LinkInv, NEW c \in Conns, NEW ok \in BOOLEAN, FinishMove(c, ok)
  PROVE  AbstractStep
<1>1. thread[c] = "moving" /\ c2s[c] = <<>>
  BY OneLine DEF FinishMove
<1>2. /\ UNCHANGED <<owner, clientVars, s2c, c2s>> /\ thread'[c] = "reply"
      /\ \A d \in Conns : d # c => thread'[d] = thread[d]
  BY DEF FinishMove, SetAnswer, wireVars, LinkInv, TypeOK
<1> QED BY <1>1, <1>2, AnswerStep

\* The arm starts to move for the owner, and moves for nobody else.
LEMMA BeginMoveStep ==
  ASSUME LinkInv, NEW c \in Conns, BeginMove(c)
  PROVE  AbstractStep
<1> DEFINE b == owner[c]
<1>1. c2s[c] = <<"move">> /\ c2s' = [c2s EXCEPT ![c] = <<>>] /\ thread[c] = "read"
  BY ReadOne DEF BeginMove, Commands, ReadRequest
<1>2. /\ UNCHANGED <<owner, clientVars, s2c>> /\ thread'[c] = "moving"
      /\ \A d \in Conns : d # c => thread'[d] = thread[d] /\ c2s'[d] = c2s[d]
  BY <1>1 DEF BeginMove, LinkInv, TypeOK
<1>3. b \in Clients /\ UNCHANGED <<call, verdict>>
      /\ \A x \in Clients : x # b => request'[x] = request[x]
  BY <1>2, OthersKeepRequest DEF LinkInv, TypeOK
<1>4. Unread(c)
  BY <1>1 DEF Unread, Serving
<1>5. \A d \in Conns : thread[d] # "moving"
  BY <1>1, <1>4, OneLive
<1>6. request[b] = "posted" /\ \A x \in Clients : request[x] # "running"
  BY <1>3, <1>4, <1>5, RequestIs DEF Moves, Posts
<1>7. request'[b] = "running"
  BY <1>2, <1>3, RequestIsNext DEF Moves
<1>8. Promise!Run(b)
  BY <1>3, <1>6, <1>7, OneRequest DEF Promise!Run
<1> QED BY <1>3, <1>8 DEF AbstractStep, Promise!Next

\* The server process takes all its requests with it.
LEMMA ExitStep ==
  ASSUME LinkInv, ExitServer
  PROVE  AbstractStep
<1> DEFINE lost == {x \in Clients : request'[x] = "none"}
<1>1. /\ UNCHANGED <<owner, s2c, clientVars>>
      /\ \A d \in Conns : thread'[d] = "ended"
  BY DEF ExitServer
<1>2. UNCHANGED <<call, verdict>>
  BY <1>1, SameCalls DEF clientVars
<1>3. ASSUME NEW x \in Clients, x \notin lost PROVE request'[x] = request[x]
  <2>1. ~Moves(x)' /\ ~Posts(x)'
    BY <1>1 DEF Moves, Posts, Unread, Serving
  <2>2. Answered(x)' /\ request'[x] = "answered"
    BY <1>3, <2>1, RequestIsNext
  <2>3. call[x] /\ sock'[x] = sock[x]
    BY <1>1, <1>2, <2>2 DEF Answered, clientVars
  <2>4. sock[x] \in Conns
    BY <2>3, CallerHasSocket
  <2>5. s2c[sock[x]] # <<>>
    BY <1>1, <2>2, <2>3, <2>4 DEF Answered
  <2>6. c2s[sock[x]] = <<>> /\ thread[sock[x]] \in {"read", "ended"}
    BY <2>3, <2>5, CallIs DEF LinkInv, AwaitInv, AwaitAt, Quiet
  <2>7. ~Moves(x) /\ ~Posts(x)
    BY <2>3, <2>6, CallIs, OwnMotion, OneElement DEF Moves, Posts, Unread
  <2>8. request[x] = "answered"
    BY <2>3, <2>5, <2>7, RequestIs DEF Answered
  <2> QED BY <2>2, <2>8
<1>4. request' = [x \in Clients |-> IF x \in lost THEN "none" ELSE request[x]]
  BY <1>3, RequestIs, RequestIsNext
<1>5. Promise!Vanish(lost)
  BY <1>2, <1>4 DEF Promise!Vanish
<1>6. lost \in SUBSET Clients
  OBVIOUS
<1> HIDE DEF lost
<1> QED BY <1>5, <1>6 DEF AbstractStep, Promise!Next

\* The rest of the process shows in none of the abstract variables.
LEMMA ProcessStepRefines ==
  ASSUME LinkInv, StartServer \/ Interrupt \/ CloseBackend
  PROVE  AbstractStep
<1>1. UNCHANGED <<clientVars, wireVars, thread>>
  BY DEF StartServer, Interrupt, CloseBackend
<1>2. call' = call
  BY <1>1, SameCalls DEF clientVars
<1>3. request' = request
  <2>1. \A x \in Clients : Answered(x)' <=> Answered(x)
    BY <1>1, <1>2 DEF Answered, clientVars, wireVars
  <2> QED BY <1>1, <2>1, QuietWire, SameRequests DEF wireVars
<1> QED BY <1>1, <1>2, <1>3 DEF AbstractStep, AbstractVars, clientVars

-----------------------------------------------------------------------------
(* The refinement.                                                         *)

\* Only Send makes a client wait, and it records that it has sent.
LEMMA SentStep ==
  ASSUME LinkInv, SentInv, [Next]_vars
  PROVE  SentInv'
<1> SUFFICES ASSUME NEW x \in Clients, pc'[x] = "recv" PROVE sendCompleted'[x]
  BY DEF SentInv
<1>1. pc[x] = "recv" => sendCompleted[x]
  BY DEF SentInv
<1>2. /\ pc \in [Clients -> {"idle", "connect", "send", "recv"}]
      /\ sendCompleted \in [Clients -> BOOLEAN]
  BY DEF LinkInv, TypeOK
<1>3. CASE UNCHANGED <<pc, sendCompleted>>
  BY <1>1, <1>3
<1>4. ASSUME NEW b \in Clients, EndCallback(b),
             sendCompleted' \in {sendCompleted, [sendCompleted EXCEPT ![b] = FALSE]}
      PROVE  sendCompleted'[x]
  <2>1. x # b /\ pc[x] = "recv"
    BY <1>2, <1>4 DEF EndCallback
  <2> QED BY <1>1, <1>2, <1>4, <2>1
<1>5. ASSUME NEW b \in Clients, ClientStep(b) PROVE sendCompleted'[x]
  <2>1. CASE PollState(b) \/ ExecuteTarget(b)
    BY <1>1, <1>2, <2>1 DEF PollState, ExecuteTarget, StartRequest
  <2>2. CASE RefuseExecute(b)
    BY <1>1, <2>2 DEF RefuseExecute
  <2>3. CASE \E c \in Conns : Connect(b, c)
    BY <1>1, <1>2, <2>3 DEF Connect
  <2>4. CASE Send(b)
    BY <1>1, <1>2, <2>4 DEF Send
  <2>5. CASE ConnectFails(b) \/ SendFails(b) \/ ReceiveTimeout(b) \/ ReceiveClosed(b)
    BY <1>4, <2>5 DEF ConnectFails, SendFails, ReceiveTimeout, ReceiveClosed, CloseAndReport
  <2>6. CASE ReceiveState(b) \/ ReceiveMove(b) \/ RestartClient(b)
    BY <1>4, <2>6 DEF ReceiveState, ReceiveMove, RestartClient
  <2> QED BY <1>5, <2>1, <2>2, <2>3, <2>4, <2>5, <2>6 DEF ClientStep
<1>6. ASSUME NEW c \in Conns, ThreadStep(c) \/ AcceptStep(c) PROVE UNCHANGED <<pc, sendCompleted>>
  BY <1>6 DEF ThreadStep, AcceptStep, BeginGetState, FinishGetState, RefuseMove, BeginMove, FinishMove,
     WriteAnswer, EndOfStream, CloseConnection, ReleaseSlot, AcceptClient, RejectClient, clientVars
<1>7. ASSUME ProcessStep PROVE UNCHANGED <<pc, sendCompleted>>
  BY <1>7 DEF ProcessStep, StartServer, Interrupt, CloseBackend, ExitServer, clientVars
<1>8. ASSUME UNCHANGED vars PROVE UNCHANGED <<pc, sendCompleted>>
  BY <1>8 DEF vars, clientVars
<1> QED BY <1>3, <1>5, <1>6, <1>7, <1>8 DEF Next

LEMMA RefInvariant == Spec => []RefInv
<1>1. Init => RefInv
  BY LinkInit DEF RefInv, SentInv, Init
<1>2. RefInv /\ [Next]_vars => RefInv'
  BY LinkStep, SentStep DEF RefInv
<1> QED BY <1>1, <1>2, PTL DEF Spec

LEMMA PromiseInit == Init => Promise!Init
<1> SUFFICES ASSUME Init PROVE Promise!Init
  OBVIOUS
<1>1. \A b \in Clients : ~call[b]
  BY CallIs DEF Init
<1>2. \A b \in Clients : ~Moves(b) /\ ~Posts(b) /\ ~Answered(b)
  BY <1>1 DEF Init, Moves, Posts, Unread, Answered, Serving
<1>3. \A b \in Clients : request[b] = "none"
  BY <1>2, RequestIs
<1>4. call = [b \in Clients |-> FALSE]
  BY <1>1, CallIs
<1>5. request = [b \in Clients |-> "none"]
  BY <1>3, RequestIs
<1> QED BY <1>4, <1>5 DEF Init, Promise!Init

\* Every step of the link is a step of OneMotion or does not show in it.
LEMMA PromiseStep ==
  ASSUME RefInv, [Next]_vars
  PROVE  AbstractStep
<1>1. LinkInv /\ SentInv
  BY DEF RefInv
<1>2. ASSUME NEW b \in Clients, ClientStep(b) PROVE AbstractStep
  BY <1>1, <1>2, StartStep, RefuseStep, ConnectStep, ConnectFailsStep, SendStep, SendFailsStep,
     ReceiveStateStep, ReceiveMoveStep, GiveUpStep, RestartStep DEF ClientStep
<1>3. ASSUME NEW c \in Conns, ThreadStep(c) PROVE AbstractStep
  BY <1>1, <1>3, StateStepRefines, RefuseMoveStep, BeginMoveStep, FinishMoveStep,
     WriteAnswerStep, EndStepRefines DEF ThreadStep
<1>4. ASSUME NEW c \in Conns, AcceptStep(c) PROVE AbstractStep
  BY <1>1, <1>4, AcceptStepRefines DEF AcceptStep
<1>5. ASSUME ProcessStep PROVE AbstractStep
  BY <1>1, <1>5, ProcessStepRefines, ExitStep DEF ProcessStep
<1>6. ASSUME UNCHANGED vars PROVE AbstractStep
  <2>1. UNCHANGED <<clientVars, wireVars, thread>>
    BY <1>6 DEF vars, serverVars
  <2>2. call' = call
    BY <2>1, SameCalls DEF clientVars
  <2>3. \A x \in Clients : Answered(x)' <=> Answered(x)
    BY <2>1, <2>2 DEF Answered, clientVars, wireVars
  <2>4. request' = request
    BY <2>1, <2>3, QuietWire, SameRequests DEF wireVars
  <2> QED BY <2>1, <2>2, <2>4 DEF AbstractStep, AbstractVars, clientVars
<1> QED BY <1>2, <1>3, <1>4, <1>5, <1>6 DEF Next

\* The link implements OneMotion whatever the number of clients and
\* connections: bridge crashes, timeouts, reconnections, rejected clients and
\* server exits never make the arm execute two requests at once, repeat a
\* request, or give a definite verdict for a request that still runs.
THEOREM LinkKeepsPromise == Spec => KeepsPromise
<1>1. Init => Promise!Init
  BY PromiseInit
<1>2. RefInv /\ [Next]_vars => [Promise!Next]_(Promise!vars)
  BY PromiseStep DEF AbstractStep, AbstractVars, Promise!vars
<1> QED BY <1>1, <1>2, RefInvariant, PTL DEF Spec, KeepsPromise, Promise!Spec
=============================================================================
