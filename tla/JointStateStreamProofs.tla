----------------------- MODULE JointStateStreamProofs -----------------------
(***************************************************************************)
(* Theorems about JointStateStream for every set of bridges and            *)
(* connections, and their proofs.  StreamInv is inductive: what it says of *)
(* types has one lemma, and each action one for the rest.                  *)
(***************************************************************************)
EXTENDS JointStateStream, SequenceTheorems, TLAPS

-----------------------------------------------------------------------------
(* Lines, and the sequences of them on the wire.                           *)

\* A sample the server can send, and the status it sends for a fault.
LEMMA LineTyped ==
  /\ \A kind \in {"inside", "outside"}, n \in 0 .. MaxNumber :
       n < MaxNumber => [kind |-> kind, number |-> n] \in Lines
  /\ [kind |-> "status", number |-> 0] \in Lines
  BY StreamAssumption DEF Lines

\* A line as its fields.
LEMMA LineFields ==
  ASSUME NEW l \in Lines
  PROVE  /\ l.kind \in {"inside", "outside", "status"}
         /\ l.number \in Nat /\ l.number + 1 \in 0 .. MaxNumber
  BY StreamAssumption DEF Lines

\* A line is sent behind the others.
LEMMA Sent ==
  ASSUME NEW s \in Seq(Lines), NEW l \in Lines
  PROVE  /\ Append(s, l) \in Seq(Lines)
         /\ DOMAIN Append(s, l) = DOMAIN s \cup {Len(s) + 1}
         /\ \A i \in DOMAIN s : i \in Nat /\ i < Len(s) + 1 /\ Append(s, l)[i] = s[i]
         /\ Append(s, l)[Len(s) + 1] = l
         /\ Len(s) \in Nat
  OBVIOUS

\* The first line is read, the others move up.
LEMMA Read ==
  ASSUME NEW s \in Seq(Lines), s # <<>>
  PROVE  /\ Head(s) \in Lines /\ Head(s) = s[1] /\ 1 \in DOMAIN s
         /\ Tail(s) \in Seq(Lines)
         /\ \A i \in DOMAIN Tail(s) : i \in Nat /\ 1 < i + 1 /\ i + 1 \in DOMAIN s /\ Tail(s)[i] = s[i + 1]
  OBVIOUS

-----------------------------------------------------------------------------
(* Types.                                                                  *)

ServerTyped ==
  /\ server \in {"down", "accept", "stream"}
  /\ client \in Conns \cup {NoConn}
  /\ server = "stream" <=> client # NoConn
  /\ failures \in 0 .. MaxFailures - 1
  /\ start \in 0 .. MaxNumber /\ next \in start .. MaxNumber

WireTyped ==
  /\ held \in [Conns -> {"none", "backlog", "served"}]
  /\ up \in [Conns -> BOOLEAN]
  /\ lines \in [Conns -> Seq(Lines)]
  /\ sock \in [Bridges -> Conns \cup {NoConn}]

BeliefTyped ==
  /\ expect \in [Bridges -> 0 .. MaxNumber]
  /\ latestValid \in [Bridges -> BOOLEAN] /\ regression \in [Bridges -> BOOLEAN]
  /\ age \in [Bridges -> {"none", "recent", "old"}]
  /\ rewound \in [Bridges -> BOOLEAN] /\ fed \in [Bridges -> BOOLEAN]

BeatTyped == beat \in [Bridges -> {"idle", "true", "false"}] /\ heard \in BOOLEAN

LEMMA Typed == TypeOK <=> ServerTyped /\ WireTyped /\ BeliefTyped /\ BeatTyped
  BY DEF TypeOK, ServerTyped, WireTyped, BeliefTyped, BeatTyped

LEMMA TypedNext == TypeOK' <=> ServerTyped' /\ WireTyped' /\ BeliefTyped' /\ BeatTyped'
  BY DEF TypeOK, ServerTyped, WireTyped, BeliefTyped, BeatTyped

\* The numbers are naturals.
LEMMA Numbers ==
  ASSUME TypeOK
  PROVE  /\ start \in Nat /\ next \in Nat /\ start <= next /\ next <= MaxNumber
         /\ MaxNumber \in Nat /\ 0 < MaxNumber /\ MaxFailures \in Nat /\ 0 < MaxFailures
         /\ failures \in Nat /\ failures < MaxFailures
  BY StreamAssumption DEF TypeOK

\* What the server does with a line to send.
LEMMA SendTyped ==
  ASSUME WireTyped, NEW l \in Lines, client \in Conns, Send(l), UNCHANGED <<up, sock>>
  PROVE  lines' \in [Conns -> Seq(Lines)]
<1>1. lines \in [Conns -> Seq(Lines)]
  BY DEF WireTyped
<1>2. Append(lines[client], l) \in Seq(Lines)
  BY <1>1, Sent
<1> QED BY <1>1, <1>2 DEF Send

LEMMA EndStreamTyped ==
  ASSUME ServerTyped, WireTyped, NEW n \in 0 .. MaxNumber, EndStream(n)
  PROVE  ServerTyped' /\ held' \in [Conns -> {"none", "backlog", "served"}]
<1>1. ServerTyped'
  BY StreamAssumption DEF ServerTyped, EndStream
<1>2. held' \in [Conns -> {"none", "backlog", "served"}]
  BY DEF WireTyped, EndStream
<1> QED BY <1>1, <1>2

\* The steps of the server.
LEMMA ServerKeepsTypes ==
  ASSUME TypeOK, StartServer \/ ServerDies \/ ServeStep \/ \E c \in Conns : Accept(c)
  PROVE  TypeOK'
<1>0. /\ ServerTyped /\ WireTyped /\ BeliefTyped /\ BeatTyped
      /\ start \in 0 .. MaxNumber /\ next \in 0 .. MaxNumber
  BY Typed, Numbers DEF ServerTyped
<1>1. CASE StartServer
  <2>1. ServerTyped'
    BY <1>0, <1>1, StreamAssumption DEF StartServer, ServerTyped
  <2>2. WireTyped' /\ BeatTyped'
    BY <1>0, <1>1 DEF StartServer, wireVars, WireTyped, BeatTyped
  <2>3. BeliefTyped'
    BY <1>0, <1>1 DEF StartServer, beliefVars, BeliefTyped
  <2> QED BY <2>1, <2>2, <2>3, TypedNext
<1>2. CASE ServerDies
  <2>1. ServerTyped'
    BY <1>0, <1>2, StreamAssumption DEF ServerDies, ServerTyped
  <2>2. WireTyped' /\ BeatTyped'
    BY <1>0, <1>2 DEF ServerDies, WireTyped, BeatTyped
  <2>3. BeliefTyped'
    BY <1>0, <1>2 DEF ServerDies, beliefVars, history, BeliefTyped
  <2> QED BY <2>1, <2>2, <2>3, TypedNext
<1>3. CASE ServeStep
  <2>0. client \in Conns
    BY <1>0, <1>3 DEF ServeStep, SendSample, ReadFails, Broken, ServerTyped
  <2>1. UNCHANGED <<up, sock, beliefVars, beat, heard, history>>
    BY <1>3 DEF ServeStep, SendSample, ReadFails, Broken
  <2>2. BeliefTyped' /\ BeatTyped' /\ up' \in [Conns -> BOOLEAN]
        /\ sock' \in [Bridges -> Conns \cup {NoConn}]
    BY <1>0, <2>1 DEF beliefVars, history, BeliefTyped, BeatTyped, WireTyped
  <2>3. ASSUME NEW kind \in {"inside", "outside"}, SendSample(kind)
        PROVE  ServerTyped' /\ lines' \in [Conns -> Seq(Lines)]
                 /\ held' \in [Conns -> {"none", "backlog", "served"}]
    <3>1. ServerTyped'
      BY <1>0, <2>3, StreamAssumption DEF SendSample, ServerTyped
    <3>2. [kind |-> kind, number |-> next] \in Lines
      BY <1>0, <2>3, LineTyped DEF SendSample
    <3>3. lines' \in [Conns -> Seq(Lines)]
      BY <1>0, <2>0, <2>1, <2>3, <3>2, SendTyped DEF SendSample
    <3> QED BY <1>0, <2>3, <3>1, <3>3 DEF SendSample, WireTyped
  <2>4. ASSUME ReadFails
        PROVE  ServerTyped' /\ lines' \in [Conns -> Seq(Lines)]
                 /\ held' \in [Conns -> {"none", "backlog", "served"}]
    <3>1. lines' \in [Conns -> Seq(Lines)]
      BY <1>0, <2>0, <2>1, <2>4, LineTyped, SendTyped DEF ReadFails
    <3>2. CASE failures + 1 < MaxFailures /\ failures' = failures + 1
               /\ UNCHANGED <<server, client, start, next, held>>
      BY <1>0, <3>1, <3>2, StreamAssumption DEF ServerTyped, WireTyped
    <3>3. CASE EndStream(next)
      BY <1>0, <3>1, <3>3, EndStreamTyped
    <3> QED BY <2>4, <3>2, <3>3 DEF ReadFails
  <2>5. ASSUME Broken
        PROVE  ServerTyped' /\ lines' \in [Conns -> Seq(Lines)]
                 /\ held' \in [Conns -> {"none", "backlog", "served"}]
    BY <1>0, <2>5, EndStreamTyped DEF Broken, WireTyped
  <2>6. ServerTyped' /\ lines' \in [Conns -> Seq(Lines)]
          /\ held' \in [Conns -> {"none", "backlog", "served"}]
    BY <1>3, <2>3, <2>4, <2>5 DEF ServeStep
  <2> QED BY <2>2, <2>6, TypedNext DEF WireTyped
<1>4. ASSUME NEW c \in Conns, Accept(c) PROVE TypeOK'
  <2>1. ServerTyped'
    BY <1>0, <1>4, StreamAssumption DEF Accept, ServerTyped
  <2>2. WireTyped' /\ BeatTyped'
    BY <1>0, <1>4 DEF Accept, WireTyped, BeatTyped
  <2>3. BeliefTyped'
    BY <1>0, <1>4 DEF Accept, beliefVars, history, BeliefTyped
  <2> QED BY <2>1, <2>2, <2>3, TypedNext
<1> QED BY <1>1, <1>2, <1>3, <1>4

\* The network, and clients that are no bridge.
LEMMA OthersKeepTypes ==
  ASSUME TypeOK, NEW c \in Conns, Reset(c) \/ OtherConnects(c) \/ OtherLeaves(c)
  PROVE  TypeOK'
<1>0. ServerTyped /\ WireTyped /\ BeliefTyped /\ BeatTyped
  BY Typed
<1>1. ServerTyped' /\ BeatTyped'
  BY <1>0 DEF Reset, OtherConnects, OtherLeaves, serverVars, ServerTyped, BeatTyped
<1>2. WireTyped'
  BY <1>0 DEF Reset, OtherConnects, OtherLeaves, WireTyped
<1>3. BeliefTyped'
  BY <1>0 DEF Reset, OtherConnects, OtherLeaves, beliefVars, history, BeliefTyped
<1> QED BY <1>1, <1>2, <1>3, TypedNext

\* Closing the bridge's end.
LEMMA DropTyped ==
  ASSUME WireTyped, NEW b \in Bridges, Drop(b), UNCHANGED held
  PROVE  WireTyped'
<1>1. <<>> \in Seq(Lines)
  OBVIOUS
<1>2. lines' \in [Conns -> Seq(Lines)]
  BY <1>1 DEF WireTyped, Drop
<1>3. up' \in [Conns -> BOOLEAN]
  BY DEF WireTyped, Drop
<1> QED BY <1>2, <1>3 DEF WireTyped, Drop

\* The steps of a bridge.
LEMMA BridgeKeepsTypes ==
  ASSUME TypeOK, NEW b \in Bridges,
         \/ \E c \in Conns : Connect(b, c)
         \/ ConnectFails(b) \/ PeerClosed(b) \/ ReadLine(b)
         \/ Heartbeat(b) \/ PublishBeat(b) \/ Ages(b) \/ RestartBridge(b)
  PROVE  TypeOK'
<1>0. ServerTyped /\ WireTyped /\ BeliefTyped /\ BeatTyped
  BY Typed
<1>s. ServerTyped'
  BY <1>0 DEF Connect, ConnectFails, PeerClosed, ReadLine, Heartbeat, PublishBeat, Ages, RestartBridge,
              serverVars, ServerTyped
<1>1. ASSUME NEW c \in Conns, Connect(b, c) PROVE TypeOK'
  <2>1. <<>> \in Seq(Lines)
    OBVIOUS
  <2>2. WireTyped'
    BY <1>0, <1>1, <2>1 DEF Connect, WireTyped
  <2>3. BeliefTyped' /\ BeatTyped'
    BY <1>0, <1>1 DEF Connect, history, BeliefTyped, BeatTyped
  <2> QED BY <1>s, <2>2, <2>3, TypedNext
<1>2. CASE ConnectFails(b)
  <2>1. WireTyped'
    BY <1>0, <1>2 DEF ConnectFails, wireVars, WireTyped
  <2>2. BeliefTyped'
    BY <1>0, <1>2 DEF ConnectFails, MarkDisconnected, BeliefTyped
  <2>3. BeatTyped'
    BY <1>0, <1>2 DEF ConnectFails, MarkDisconnected, BeatTyped
  <2> QED BY <1>s, <2>1, <2>2, <2>3, TypedNext
<1>3. CASE PeerClosed(b)
  <2>1. WireTyped'
    BY <1>0, <1>3, DropTyped DEF PeerClosed
  <2>2. BeliefTyped'
    BY <1>0, <1>3 DEF PeerClosed, MarkDisconnected, BeliefTyped
  <2>3. BeatTyped'
    BY <1>0, <1>3 DEF PeerClosed, MarkDisconnected, BeatTyped
  <2> QED BY <1>s, <2>1, <2>2, <2>3, TypedNext
<1>4. CASE ReadLine(b)
  <2>1. /\ sock[b] \in Conns /\ lines[sock[b]] \in Seq(Lines) /\ lines[sock[b]] # <<>>
        /\ UNCHANGED <<held, up, sock, beat, heard>>
    BY <1>0, <1>4 DEF ReadLine, WireTyped
  <2>2. Head(lines[sock[b]]) \in Lines /\ Tail(lines[sock[b]]) \in Seq(Lines)
    BY <2>1, Read
  <2>3. WireTyped' /\ BeatTyped'
    BY <1>0, <1>4, <2>1, <2>2 DEF ReadLine, WireTyped, BeatTyped
  <2>4. ASSUME AcceptLine(b, Head(lines[sock[b]])) PROVE BeliefTyped'
    <3>1. Head(lines[sock[b]]).number + 1 \in 0 .. MaxNumber
      BY <2>2, LineFields
    <3>2. expect' \in [Bridges -> 0 .. MaxNumber]
      BY <1>0, <2>4, <3>1 DEF AcceptLine, BeliefTyped
    <3>3. rewound' \in [Bridges -> BOOLEAN]
      BY <1>0, <2>4 DEF AcceptLine, BeliefTyped
    <3> QED BY <1>0, <2>4, <3>2, <3>3 DEF AcceptLine, BeliefTyped
  <2>5. ASSUME RejectLine(b, Head(lines[sock[b]])) PROVE BeliefTyped'
    BY <1>0, <2>5 DEF RejectLine, BeliefTyped
  <2>6. BeliefTyped'
    BY <1>4, <2>4, <2>5 DEF ReadLine
  <2> QED BY <1>s, <2>3, <2>6, TypedNext
<1>5. CASE Heartbeat(b)
  <2>1. WireTyped'
    BY <1>0, <1>5 DEF Heartbeat, wireVars, WireTyped
  <2>2. BeliefTyped'
    BY <1>0, <1>5 DEF Heartbeat, history, BeliefTyped
  <2>3. BeatTyped'
    BY <1>0, <1>5 DEF Heartbeat, BeatTyped
  <2> QED BY <1>s, <2>1, <2>2, <2>3, TypedNext
<1>6. CASE PublishBeat(b) \/ Ages(b)
  <2>1. WireTyped'
    BY <1>0, <1>6 DEF PublishBeat, Ages, wireVars, WireTyped
  <2>2. BeliefTyped'
    BY <1>0, <1>6 DEF PublishBeat, Ages, beliefVars, history, BeliefTyped
  <2>3. BeatTyped'
    BY <1>0, <1>6 DEF PublishBeat, Ages, BeatTyped
  <2> QED BY <1>s, <2>1, <2>2, <2>3, TypedNext
<1>7. CASE RestartBridge(b)
  <2>1. WireTyped'
    BY <1>0, <1>7, DropTyped DEF RestartBridge
  <2>2. BeliefTyped'
    BY <1>0, <1>7, StreamAssumption DEF RestartBridge, BeliefTyped
  <2>3. BeatTyped'
    BY <1>0, <1>7 DEF RestartBridge, BeatTyped
  <2> QED BY <1>s, <2>1, <2>2, <2>3, TypedNext
<1> QED BY <1>1, <1>2, <1>3, <1>4, <1>5, <1>6, <1>7

LEMMA InitTyped == Init => TypeOK
<1> SUFFICES ASSUME Init PROVE TypeOK
  OBVIOUS
<1>1. <<>> \in Seq(Lines)
  OBVIOUS
<1>2. ServerTyped
  BY StreamAssumption DEF Init, ServerTyped
<1>3. WireTyped
  BY <1>1 DEF Init, WireTyped
<1>4. /\ expect = [b \in Bridges |-> 0] /\ 0 \in 0 .. MaxNumber
      /\ latestValid = [b \in Bridges |-> FALSE] /\ regression = latestValid
      /\ rewound = latestValid /\ fed = latestValid
      /\ age = [b \in Bridges |-> "none"]
  BY StreamAssumption DEF Init
<1>5. BeliefTyped
  BY <1>4 DEF BeliefTyped
<1>6. BeatTyped
  BY DEF Init, BeatTyped
<1> QED BY <1>2, <1>3, <1>5, <1>6, Typed

-----------------------------------------------------------------------------
(* The rest of the invariant.                                              *)

LEMMA InitRest == Init => OwnSock /\ OneServed /\ Unsent /\ InOrder /\ NotBelow /\ Believed
<1> SUFFICES ASSUME Init PROVE OwnSock /\ OneServed /\ Unsent /\ InOrder /\ NotBelow /\ Believed
  OBVIOUS
<1>1. \A b \in Bridges : sock[b] = NoConn /\ ~fed[b] /\ ~regression[b] /\ ~latestValid[b]
  BY DEF Init
<1>2. \A c \in Conns : held[c] = "none" /\ c # client /\ lines[c] = <<>>
  BY StreamAssumption DEF Init
<1>3. \A c \in Conns : Samples(c) = {}
  BY <1>2 DEF Samples
<1>4. OwnSock /\ Believed
  BY <1>1 DEF OwnSock, Believed
<1>5. OneServed /\ Unsent
  BY <1>2 DEF OneServed, Unsent, Init
<1>6. InOrder
  BY <1>2, <1>3 DEF InOrder
<1>7. NotBelow
  BY <1>1 DEF NotBelow, Init
<1> QED BY <1>4, <1>5, <1>6, <1>7

\* The connections of the bridges are connections, and lines are sequences.
LEMMA Ends ==
  ASSUME TypeOK
  PROVE  /\ \A b \in Bridges : sock[b] # NoConn => sock[b] \in Conns /\ sock[b] \in Range(sock)
         /\ \A c \in Conns : c \in Range(sock) => \E b \in Bridges : sock[b] = c
         /\ \A c \in Conns : lines[c] \in Seq(Lines)
         /\ \A c \in Conns : c # NoConn
         /\ \A b \in Bridges : expect[b] \in Nat
         /\ client # NoConn => client \in Conns
  BY StreamAssumption DEF TypeOK, Range

\* The samples on the wire have numbers.
LEMMA SampleNumbers ==
  ASSUME TypeOK, NEW c \in Conns, NEW i \in Samples(c)
  PROVE  i \in Nat /\ lines[c][i] \in Lines /\ lines[c][i].number \in Nat
<1>1. lines[c] \in Seq(Lines) /\ i \in DOMAIN lines[c]
  BY DEF TypeOK, Samples
<1>2. i \in Nat /\ lines[c][i] \in Lines
  BY <1>1
<1> QED BY <1>2, LineFields

\* The floor is a number the server has used or will use.
LEMMA FloorIs ==
  ASSUME TypeOK, NEW b \in Bridges
  PROVE  Floor(b) \in Nat /\ start <= Floor(b) /\ Floor(b) <= next
  BY Numbers DEF Floor

\* A step in which only what bridges believe changes.
LEMMA BeliefStep ==
  ASSUME StreamInv, UNCHANGED <<serverVars, wireVars, sock, expect, rewound>>, Believed'
  PROVE  OwnSock' /\ OneServed' /\ Unsent' /\ InOrder' /\ NotBelow' /\ Believed'
<1>1. UNCHANGED <<server, client, start, next, held, up, lines, sock>>
  BY DEF serverVars, wireVars
<1>2. OwnSock' /\ OneServed' /\ Unsent'
  BY <1>1 DEF StreamInv, OwnSock, OneServed, Unsent
<1>3. InOrder'
  BY <1>1 DEF StreamInv, InOrder, Samples
<1>4. NotBelow'
  BY <1>1 DEF StreamInv, NotBelow, Samples, Floor
<1> QED BY <1>2, <1>3, <1>4

LEMMA BeliefKeeps ==
  ASSUME StreamInv, NEW b \in Bridges,
         ConnectFails(b) \/ Heartbeat(b) \/ PublishBeat(b) \/ Ages(b)
  PROVE  OwnSock' /\ OneServed' /\ Unsent' /\ InOrder' /\ NotBelow' /\ Believed'
<1>1. UNCHANGED <<serverVars, wireVars, sock, expect, rewound>>
  BY DEF ConnectFails, Heartbeat, PublishBeat, Ages, beliefVars, history
<1>2. \A a \in Bridges :
        /\ latestValid'[a] => fed'[a]
        /\ fed'[a] \/ regression'[a] => sock[a] # NoConn
  <2>0. TypeOK /\ Believed
    BY DEF StreamInv
  <2>1. CASE ConnectFails(b)
    BY <2>0, <2>1 DEF ConnectFails, MarkDisconnected, Believed, TypeOK
  <2>2. CASE Heartbeat(b)
    BY <2>0, <2>2 DEF Heartbeat, history, Believed, TypeOK
  <2>3. CASE PublishBeat(b) \/ Ages(b)
    BY <2>0, <2>3 DEF PublishBeat, Ages, beliefVars, history, Believed
  <2> QED BY <2>1, <2>2, <2>3
<1>3. Believed'
  BY <1>1, <1>2 DEF Believed
<1> QED BY <1>1, <1>3, BeliefStep

\* The new numbers are the old ones for nobody who was not taken back.
LEMMA StartServerKeeps ==
  ASSUME StreamInv, StartServer
  PROVE  OwnSock' /\ OneServed' /\ Unsent' /\ InOrder' /\ NotBelow' /\ Believed'
<1>0. TypeOK /\ OwnSock /\ OneServed /\ Unsent /\ InOrder /\ NotBelow /\ Believed
  BY DEF StreamInv
<1>1. /\ server = "down" /\ server' = "accept" /\ start' = 0 /\ next' = 0 /\ client = NoConn
      /\ rewound' = [b \in Bridges |-> expect[b] > 0 \/ sock[b] # NoConn]
      /\ UNCHANGED <<client, held, up, lines, sock, expect, latestValid, regression, fed>>
  BY <1>0 DEF StartServer, wireVars, beliefVars, TypeOK
<1>2. OwnSock' /\ OneServed' /\ Unsent' /\ Believed'
  BY <1>0, <1>1 DEF OwnSock, OneServed, Unsent, Believed
<1>3. InOrder'
  BY <1>0, <1>1, Ends DEF InOrder, Samples
<1>4. ASSUME NEW b \in Bridges, ~rewound'[b] PROVE expect'[b] = 0 /\ sock'[b] = NoConn
  <2>1. rewound'[b] = (expect[b] > 0 \/ sock[b] # NoConn)
    BY <1>1
  <2>2. expect[b] \in Nat
    BY <1>0, Ends
  <2>3. ~(expect[b] > 0) /\ sock[b] = NoConn
    BY <1>4, <2>1, Zenon
  <2> QED BY <1>1, <2>2, <2>3
<1>5. \A b \in Bridges : ~rewound'[b] => Floor(b)' = 0
  BY <1>1, <1>4 DEF Floor
<1>6. NotBelow'
  BY <1>4, <1>5 DEF NotBelow
<1> QED BY <1>2, <1>3, <1>6

LEMMA ServerDiesKeeps ==
  ASSUME StreamInv, ServerDies
  PROVE  OwnSock' /\ OneServed' /\ Unsent' /\ InOrder' /\ NotBelow' /\ Believed'
<1>0. TypeOK /\ OwnSock /\ OneServed /\ Unsent /\ InOrder /\ NotBelow /\ Believed
  BY DEF StreamInv
<1>1. /\ server' = "down" /\ client' = NoConn /\ held' = [c \in Conns |-> "none"]
      /\ UNCHANGED <<start, next, up, lines, sock, expect, rewound, latestValid, regression, fed>>
  BY DEF ServerDies, beliefVars, history
<1>2. OwnSock' /\ OneServed' /\ Unsent' /\ Believed'
  BY <1>0, <1>1, Ends DEF OwnSock, OneServed, Unsent, Believed
<1>3. InOrder'
  BY <1>0, <1>1, Ends DEF InOrder, Samples
<1>4. NotBelow'
  BY <1>0, <1>1 DEF NotBelow, Samples
<1> QED BY <1>2, <1>3, <1>4

\* The next stream goes on where the numbers are.
LEMMA AcceptKeeps ==
  ASSUME StreamInv, NEW c \in Conns, Accept(c)
  PROVE  OwnSock' /\ OneServed' /\ Unsent' /\ InOrder' /\ NotBelow' /\ Believed'
<1>0. TypeOK /\ OwnSock /\ OneServed /\ Unsent /\ InOrder /\ NotBelow /\ Believed
  BY DEF StreamInv
<1>1. /\ server = "accept" /\ held[c] = "backlog" /\ server' = "stream" /\ client' = c
      /\ held' = [held EXCEPT ![c] = "served"]
      /\ UNCHANGED <<start, next, up, lines, sock, expect, rewound, latestValid, regression, fed>>
  BY DEF Accept, beliefVars, history
<1>2. client = NoConn /\ start = next /\ lines[c] = <<>>
  BY <1>0, <1>1 DEF TypeOK, OneServed, Unsent
<1>3. \A d \in Conns : held'[d] = IF d = c THEN "served" ELSE held[d]
  BY <1>0, <1>1 DEF TypeOK
<1>4. OwnSock' /\ OneServed' /\ Unsent' /\ Believed'
  BY <1>0, <1>1, <1>2, <1>3, Ends DEF OwnSock, OneServed, Unsent, Believed
<1>5. Samples(c) = {}
  BY <1>2 DEF Samples
<1>6. InOrder'
  BY <1>0, <1>1, <1>5 DEF InOrder, Samples
<1>7. \A b \in Bridges : Floor(b)' = start /\ Floor(b) = start
  BY <1>1, <1>2 DEF Floor
<1>8. NotBelow'
  BY <1>0, <1>1, <1>7 DEF NotBelow, Samples
<1> QED BY <1>4, <1>6, <1>8

\* A line that is sent is the last on its connection; it gets there only if
\* the connection is whole and a bridge has it.
LEMMA SendAdds ==
  ASSUME TypeOK, NEW l \in Lines, client \in Conns, Send(l)
  PROVE  /\ \A c \in Conns : c # client \/ client \notin Range(sock) => lines'[c] = lines[c]
         /\ \A c \in Conns : \A i \in Samples(c)' :
              \/ i \in Samples(c) /\ lines'[c][i] = lines[c][i] /\ i < Len(lines[c]) + 1
              \/ /\ c = client /\ up[client] /\ l.kind # "status"
                 /\ i = Len(lines[c]) + 1 /\ lines'[c][i] = l
<1>1. lines \in [Conns -> Seq(Lines)]
  BY DEF TypeOK
<1>2. CASE lines' = lines
  <2>1. ASSUME NEW c \in Conns, NEW i \in Samples(c)'
        PROVE  i \in Samples(c) /\ i < Len(lines[c]) + 1
    <3>1. i \in DOMAIN lines[c] /\ i \in Samples(c)
      BY <1>2, <2>1 DEF Samples
    <3> QED BY <1>1, <3>1
  <2> QED BY <1>2, <2>1
<1>3. CASE lines' # lines
  <2>1. up[client] /\ client \in Range(sock)
        /\ lines' = [lines EXCEPT ![client] = Append(lines[client], l)]
    BY <1>3 DEF Send
  <2>2. \A c \in Conns : lines'[c] = IF c = client THEN Append(lines[client], l) ELSE lines[c]
    BY <1>1, <2>1
  <2>3. ASSUME NEW c \in Conns, NEW i \in Samples(c)'
        PROVE  \/ i \in Samples(c) /\ lines'[c][i] = lines[c][i] /\ i < Len(lines[c]) + 1
               \/ /\ c = client /\ up[client] /\ l.kind # "status"
                  /\ i = Len(lines[c]) + 1 /\ lines'[c][i] = l
    <3>1. i \in DOMAIN lines'[c] /\ lines'[c][i].kind # "status"
      BY <2>3 DEF Samples
    <3>2. CASE c # client
      <4>1. lines'[c] = lines[c] /\ lines[c] \in Seq(Lines)
        BY <1>1, <2>2, <3>2
      <4>2. i \in Samples(c)
        BY <3>1, <4>1 DEF Samples
      <4>3. i < Len(lines[c]) + 1
        BY <3>1, <4>1
      <4> QED BY <4>1, <4>2, <4>3
    <3>3. CASE c = client
      <4>1. lines'[c] = Append(lines[c], l) /\ lines[c] \in Seq(Lines)
        BY <1>1, <2>2, <3>3
      <4>2. CASE i \in DOMAIN lines[c]
        <5>1. i < Len(lines[c]) + 1 /\ lines'[c][i] = lines[c][i]
          BY <4>1, <4>2, Sent
        <5>2. i \in Samples(c)
          BY <3>1, <4>2, <5>1 DEF Samples
        <5> QED BY <5>1, <5>2
      <4>3. CASE i = Len(lines[c]) + 1
        <5>1. lines'[c][i] = l
          BY <4>1, <4>3, Sent
        <5> QED BY <2>1, <3>1, <3>3, <4>3, <5>1
      <4>4. i \in DOMAIN lines[c] \/ i = Len(lines[c]) + 1
        BY <3>1, <4>1, Sent
      <4> QED BY <4>2, <4>3, <4>4
    <3> QED BY <3>2, <3>3
  <2> QED BY <2>2, <2>3, <2>1
<1> QED BY <1>2, <1>3

\* A sample is sent with the next number.
LEMMA SendSampleKeeps ==
  ASSUME StreamInv, NEW kind \in {"inside", "outside"}, SendSample(kind)
  PROVE  OwnSock' /\ OneServed' /\ Unsent' /\ InOrder' /\ NotBelow' /\ Believed'
<1>0. TypeOK /\ OwnSock /\ OneServed /\ Unsent /\ InOrder /\ NotBelow /\ Believed
  BY DEF StreamInv
<1> DEFINE line == [kind |-> kind, number |-> next]
<1>1. /\ server = "stream" /\ next < MaxNumber /\ next' = next + 1 /\ Send(line)
      /\ UNCHANGED <<server, client, start, held, up, sock, expect, rewound, latestValid, regression, fed>>
  BY DEF SendSample, beliefVars, history
<1>2. client \in Conns /\ held[client] = "served" /\ client # NoConn
  BY <1>0, <1>1, Ends DEF TypeOK, OneServed
<1>3. line \in Lines /\ line.number = next /\ start \in Nat /\ next \in Nat /\ start <= next
  BY <1>0, <1>1, LineTyped, Numbers
<1> HIDE DEF line
<1>4. /\ \A c \in Conns : c # client \/ client \notin Range(sock) => lines'[c] = lines[c]
      /\ \A c \in Conns : \A i \in Samples(c)' :
           \/ i \in Samples(c) /\ lines'[c][i] = lines[c][i] /\ i < Len(lines[c]) + 1
           \/ c = client /\ up[client] /\ i = Len(lines[c]) + 1 /\ lines'[c][i] = line
  BY <1>0, <1>1, <1>2, <1>3, SendAdds
<1>5. OwnSock' /\ OneServed' /\ Believed'
  BY <1>0, <1>1 DEF OwnSock, OneServed, Believed
<1>6. Unsent'
  BY <1>0, <1>1, <1>2, <1>4 DEF Unsent
<1>7. InOrder'
  <2>1. ASSUME NEW c \in Conns, c = client, NEW i \in Samples(c)'
        PROVE  lines'[c][i].number < next'
    <3>1. CASE i \in Samples(c) /\ lines'[c][i] = lines[c][i]
      BY <1>0, <1>1, <1>3, <2>1, <3>1, SampleNumbers DEF InOrder
    <3>2. CASE lines'[c][i] = line
      BY <1>1, <1>3, <3>2
    <3> QED BY <1>4, <3>1, <3>2
  <2>2. ASSUME NEW c \in Conns, NEW i \in Samples(c)', NEW j \in Samples(c)', i < j
        PROVE  lines'[c][i].number < lines'[c][j].number
    <3>0. Len(lines[c]) \in Nat
      BY <1>0, Ends
    <3>1. CASE i \in Samples(c) /\ lines'[c][i] = lines[c][i] /\ i < Len(lines[c]) + 1
      <4>1. i \in Nat /\ lines[c][i].number \in Nat
        BY <1>0, <3>1, SampleNumbers
      <4>2. CASE j \in Samples(c) /\ lines'[c][j] = lines[c][j]
        BY <1>0, <2>2, <3>1, <4>2 DEF InOrder
      <4>3. CASE c = client /\ lines'[c][j] = line
        BY <1>0, <1>3, <3>1, <4>1, <4>3 DEF InOrder
      <4> QED BY <1>4, <4>2, <4>3
    <3>2. CASE i = Len(lines[c]) + 1
      <4>1. (j \in Samples(c) /\ j < Len(lines[c]) + 1) \/ j = Len(lines[c]) + 1
        BY <1>4
      <4>2. j \in Nat
        BY <1>0, <3>0, <4>1, SampleNumbers
      <4> QED BY <2>2, <3>0, <3>2, <4>1, <4>2
    <3> QED BY <1>4, <3>1, <3>2
  <2> QED BY <1>1, <2>1, <2>2 DEF InOrder
<1>8. NotBelow'
  <2>1. ASSUME NEW b \in Bridges, ~rewound[b]
        PROVE  /\ Floor(b) <= Floor(b)' /\ expect[b] <= Floor(b)'
               /\ Floor(b) \in Nat /\ Floor(b)' \in Nat
               /\ sock[b] = client /\ up[client] => Floor(b) = next /\ Floor(b)' = next + 1
    <3>1. Floor(b)' = IF sock[b] # NoConn /\ sock[b] = client /\ up[client] THEN next + 1 ELSE start
      BY <1>1 DEF Floor
    <3>2. Floor(b) = IF sock[b] # NoConn /\ sock[b] = client /\ up[client] THEN next ELSE start
      BY DEF Floor
    <3>3. expect[b] <= Floor(b) /\ expect[b] \in Nat
      BY <1>0, <1>1, <2>1, Ends DEF NotBelow
    <3> QED BY <1>2, <1>3, <3>1, <3>2, <3>3
  <2>2. ASSUME NEW b \in Bridges, ~rewound[b], sock[b] # NoConn, NEW i \in Samples(sock[b])'
        PROVE  expect[b] <= lines'[sock[b]][i].number /\ lines'[sock[b]][i].number < Floor(b)'
    <3>1. sock[b] \in Conns /\ expect[b] \in Nat
      BY <1>0, <2>2, Ends
    <3>2. CASE i \in Samples(sock[b]) /\ lines'[sock[b]][i] = lines[sock[b]][i]
      <4>1. expect[b] <= lines[sock[b]][i].number /\ lines[sock[b]][i].number < Floor(b)
        BY <1>0, <1>1, <2>2, <3>2 DEF NotBelow
      <4>2. lines[sock[b]][i].number \in Nat
        BY <1>0, <3>1, <3>2, SampleNumbers
      <4> QED BY <2>1, <2>2, <3>1, <3>2, <4>1, <4>2
    <3>3. CASE sock[b] = client /\ up[client] /\ lines'[sock[b]][i] = line
      <4>1. expect[b] <= next
        BY <1>0, <1>1, <2>1, <2>2, <3>3 DEF NotBelow
      <4> QED BY <1>3, <2>1, <2>2, <3>3, <4>1
    <3> QED BY <1>1, <1>4, <3>1, <3>2, <3>3
  <2>3. UNCHANGED <<sock, expect, rewound>>
    BY <1>1
  <2> QED BY <2>1, <2>2, <2>3 DEF NotBelow
<1> QED BY <1>5, <1>6, <1>7, <1>8

\* A stream that ends leaves its numbers where they are, or, when its client
\* was cut off, takes them back to its start: below no bridge that goes on.
LEMMA EndStreamKeeps ==
  ASSUME StreamInv, server = "stream", NEW n, EndStream(n),
         n = next \/ (n = start /\ ~up[client]),
         \A c \in Conns : c # client \/ client \notin Range(sock) => lines'[c] = lines[c],
         \A c \in Conns : \A i \in Samples(c)' : i \in Samples(c) /\ lines'[c][i] = lines[c][i],
         UNCHANGED <<up, sock, expect, rewound, latestValid, regression, fed>>
  PROVE  OwnSock' /\ OneServed' /\ Unsent' /\ InOrder' /\ NotBelow' /\ Believed'
<1>0. TypeOK /\ OwnSock /\ OneServed /\ Unsent /\ InOrder /\ NotBelow /\ Believed
  BY DEF StreamInv
<1>1. /\ server' = "accept" /\ client' = NoConn /\ start' = n /\ next' = n
      /\ held' = [held EXCEPT ![client] = "none"]
  BY DEF EndStream
<1>2. client \in Conns
  BY <1>0, Ends DEF TypeOK
<1>3. \A c \in Conns : held'[c] = IF c = client THEN "none" ELSE held[c]
  BY <1>0, <1>1, <1>2 DEF TypeOK
<1>4. OwnSock' /\ Believed'
  BY <1>0 DEF OwnSock, Believed
<1>5. OneServed'
  BY <1>0, <1>1, <1>3, Ends DEF OneServed
<1>6. Unsent'
  BY <1>0, <1>3 DEF Unsent
<1>7. InOrder'
  <2>1. \A c \in Conns : c # client'
    BY <1>0, <1>1, Ends
  <2> QED BY <1>0, <2>1 DEF InOrder
<1>8. NotBelow'
  <2>1. ASSUME NEW b \in Bridges PROVE Floor(b) <= n /\ Floor(b)' = n /\ n \in Nat /\ Floor(b) \in Nat
    <3>1. Floor(b)' = n
      BY <1>1 DEF Floor
    <3>2. Floor(b) <= n
      BY <1>0, Numbers DEF Floor
    <3> QED BY <1>0, <3>1, <3>2, FloorIs, Numbers
  <2>2. ASSUME NEW b \in Bridges, ~rewound[b] PROVE expect[b] <= Floor(b)'
    <3>1. expect[b] <= Floor(b) /\ expect[b] \in Nat
      BY <1>0, <2>2, Ends DEF NotBelow
    <3> QED BY <2>1, <3>1
  <2>3. ASSUME NEW b \in Bridges, ~rewound[b], sock[b] # NoConn, NEW i \in Samples(sock[b])'
        PROVE  expect[b] <= lines'[sock[b]][i].number /\ lines'[sock[b]][i].number < Floor(b)'
    <3>1. sock[b] \in Conns
      BY <1>0, <2>3, Ends
    <3>2. i \in Samples(sock[b]) /\ lines'[sock[b]][i] = lines[sock[b]][i]
      BY <3>1
    <3>3. expect[b] <= lines[sock[b]][i].number /\ lines[sock[b]][i].number < Floor(b)
      BY <1>0, <2>3, <3>2 DEF NotBelow
    <3>4. lines[sock[b]][i].number \in Nat
      BY <1>0, <3>1, <3>2, SampleNumbers
    <3> QED BY <2>1, <3>2, <3>3, <3>4
  <2> QED BY <2>2, <2>3 DEF NotBelow
<1> QED BY <1>4, <1>5, <1>6, <1>7, <1>8

\* A bus fault sends a status, and ends the stream after too many.
LEMMA ReadFailsKeeps ==
  ASSUME StreamInv, ReadFails
  PROVE  OwnSock' /\ OneServed' /\ Unsent' /\ InOrder' /\ NotBelow' /\ Believed'
<1>0. TypeOK /\ OwnSock /\ OneServed /\ Unsent /\ InOrder /\ NotBelow /\ Believed
  BY DEF StreamInv
<1> DEFINE line == [kind |-> "status", number |-> 0]
<1>1. /\ server = "stream" /\ Send(line)
      /\ UNCHANGED <<up, sock, expect, rewound, latestValid, regression, fed>>
  BY DEF ReadFails, beliefVars, history
<1>2. client \in Conns /\ held[client] = "served"
  BY <1>0, <1>1, Ends DEF TypeOK, OneServed
<1>3. line \in Lines /\ line.kind = "status"
  BY LineTyped
<1> HIDE DEF line
<1>4. /\ \A c \in Conns : c # client \/ client \notin Range(sock) => lines'[c] = lines[c]
      /\ \A c \in Conns : \A i \in Samples(c)' : i \in Samples(c) /\ lines'[c][i] = lines[c][i]
  BY <1>0, <1>1, <1>2, <1>3, SendAdds
<1>5. CASE UNCHANGED <<server, client, start, next, held>>
  <2>1. OwnSock' /\ OneServed' /\ Believed'
    BY <1>0, <1>1, <1>5 DEF OwnSock, OneServed, Believed
  <2>2. Unsent'
    BY <1>0, <1>1, <1>2, <1>4, <1>5 DEF Unsent
  <2>3. InOrder'
    BY <1>0, <1>4, <1>5 DEF InOrder
  <2>4. \A b \in Bridges : Floor(b)' = Floor(b)
    BY <1>1, <1>5 DEF Floor
  <2>5. \A b \in Bridges : sock[b] # NoConn => sock[b] \in Conns
    BY <1>0, Ends
  <2>6. NotBelow'
    BY <1>0, <1>1, <1>4, <1>5, <2>4, <2>5 DEF NotBelow
  <2> QED BY <2>1, <2>2, <2>3, <2>6
<1>6. CASE EndStream(next)
  BY <1>1, <1>4, <1>6, EndStreamKeeps
<1> QED BY <1>5, <1>6 DEF ReadFails

LEMMA BrokenKeeps ==
  ASSUME StreamInv, Broken
  PROVE  OwnSock' /\ OneServed' /\ Unsent' /\ InOrder' /\ NotBelow' /\ Believed'
<1>1. /\ server = "stream" /\ ~up[client] /\ EndStream(start)
      /\ UNCHANGED <<up, lines, sock, expect, rewound, latestValid, regression, fed>>
  BY DEF Broken, beliefVars, history
<1>2. \A c \in Conns : \A i \in Samples(c)' : i \in Samples(c) /\ lines'[c][i] = lines[c][i]
  BY <1>1 DEF Samples
<1> QED BY <1>1, <1>2, EndStreamKeeps

-----------------------------------------------------------------------------
(* Connections that come and go.                                           *)

\* A connection that no bridge had is none of theirs; one that is cut off
\* takes the bridge on it back.
LEMMA OthersKeep ==
  ASSUME StreamInv, NEW c \in Conns, Reset(c) \/ OtherConnects(c) \/ OtherLeaves(c)
  PROVE  OwnSock' /\ OneServed' /\ Unsent' /\ InOrder' /\ NotBelow' /\ Believed'
<1>0. TypeOK /\ OwnSock /\ OneServed /\ Unsent /\ InOrder /\ NotBelow /\ Believed
  BY DEF StreamInv
<1>1. UNCHANGED <<server, client, start, next, lines, sock, expect, latestValid, regression, fed>>
  BY DEF Reset, OtherConnects, OtherLeaves, serverVars, beliefVars, history
<1>2. /\ \A d \in Conns : d # c => held'[d] = held[d] /\ up'[d] = up[d]
      /\ held'[c] = held[c] \/ (held[c] = "none" /\ held'[c] = "backlog" /\ c \notin Range(sock))
  BY <1>0 DEF Reset, OtherConnects, OtherLeaves, Free, TypeOK
<1>3. \A b \in Bridges : ~rewound'[b] => ~rewound[b] /\ sock[b] # c
  <2>1. CASE Reset(c)
    BY <2>1 DEF Reset
  <2>2. CASE OtherConnects(c) \/ OtherLeaves(c)
    <3>1. UNCHANGED rewound /\ c \notin Range(sock)
      BY <2>2 DEF OtherConnects, OtherLeaves, Free, history
    <3> QED BY <1>0, <3>1, Ends
  <2> QED BY <2>1, <2>2
<1>4. OwnSock' /\ Believed'
  BY <1>0, <1>1 DEF OwnSock, Believed
<1>5. OneServed'
  BY <1>0, <1>1, <1>2 DEF OneServed
<1>6. Unsent'
  BY <1>0, <1>1, <1>2 DEF Unsent
<1>7. InOrder'
  BY <1>0, <1>1 DEF InOrder, Samples
<1>8. \A b \in Bridges : ~rewound'[b] => Floor(b)' = Floor(b)
  BY <1>0, <1>1, <1>2, <1>3, Ends DEF Floor
<1>9. NotBelow'
  BY <1>0, <1>1, <1>3, <1>8 DEF NotBelow, Samples
<1> QED BY <1>4, <1>5, <1>6, <1>7, <1>9

\* A new connection carries nothing, and is not the one that is served.
LEMMA ConnectKeeps ==
  ASSUME StreamInv, NEW b \in Bridges, NEW c \in Conns, Connect(b, c)
  PROVE  OwnSock' /\ OneServed' /\ Unsent' /\ InOrder' /\ NotBelow' /\ Believed'
<1>0. TypeOK /\ OwnSock /\ OneServed /\ Unsent /\ InOrder /\ NotBelow /\ Believed
  BY DEF StreamInv
<1>1. /\ sock[b] = NoConn /\ held[c] = "none" /\ c \notin Range(sock)
      /\ UNCHANGED <<server, client, start, next, expect, rewound, latestValid, fed>>
  BY DEF Connect, Free, serverVars, history
<1>2. /\ \A a \in Bridges : sock'[a] = IF a = b THEN c ELSE sock[a]
      /\ \A a \in Bridges : regression'[a] = IF a = b THEN FALSE ELSE regression[a]
      /\ \A d \in Conns : held'[d] = IF d = c THEN "backlog" ELSE held[d]
      /\ \A d \in Conns : up'[d] = IF d = c THEN TRUE ELSE up[d]
      /\ \A d \in Conns : lines'[d] = IF d = c THEN <<>> ELSE lines[d]
  BY <1>0 DEF Connect, TypeOK
<1>3. c # NoConn /\ c # client /\ \A a \in Bridges : sock[a] # c
  BY <1>0, <1>1, Ends DEF OneServed, TypeOK, Range
<1>4. Samples(c)' = {} /\ \A d \in Conns : d # c => Samples(d)' = Samples(d)
  BY <1>2 DEF Samples
<1>5. OwnSock'
  BY <1>0, <1>2, <1>3 DEF OwnSock
<1>6. OneServed'
  BY <1>0, <1>1, <1>2, <1>3 DEF OneServed
<1>7. Unsent'
  <2>1. ASSUME NEW d \in Conns, d # c, d \in Range(sock) PROVE d \in Range(sock')
    <3>1. PICK a \in Bridges : sock[a] = d
      BY <1>0, <2>1, Ends
    <3>2. a # b /\ sock'[a] = d
      BY <1>0, <1>1, <1>2, <2>1, <3>1, Ends
    <3>3. sock' \in [Bridges -> Conns \cup {NoConn}]
      BY <1>0 DEF Connect, TypeOK
    <3> QED BY <3>2, <3>3 DEF Range
  <2> QED BY <1>0, <1>2, <2>1 DEF Unsent
<1>8. InOrder'
  BY <1>0, <1>1, <1>2, <1>3, <1>4 DEF InOrder
<1>9. NotBelow'
  <2>1. ASSUME NEW a \in Bridges PROVE Floor(a)' = Floor(a)
    <3>1. CASE a = b
      BY <1>1, <1>2, <1>3, <3>1 DEF Floor
    <3>2. CASE a # b
      <4>1. sock'[a] = sock[a] /\ (sock[a] # NoConn => up'[sock[a]] = up[sock[a]])
        BY <1>0, <1>2, <1>3, <3>2, Ends
      <4> QED BY <1>1, <4>1 DEF Floor
    <3> QED BY <3>1, <3>2
  <2>2. ASSUME NEW a \in Bridges, ~rewound[a], server # "down" PROVE expect[a] <= Floor(a)'
    BY <1>0, <2>1, <2>2 DEF NotBelow
  <2>3. ASSUME NEW a \in Bridges, ~rewound[a], sock'[a] # NoConn, NEW i \in Samples(sock[a])'
        PROVE  /\ expect[a] <= lines'[sock'[a]][i].number
               /\ server # "down" => lines'[sock'[a]][i].number < Floor(a)'
    <3>1. a # b /\ sock'[a] = sock[a] /\ sock[a] \in Conns /\ sock[a] # c
      BY <1>0, <1>2, <1>3, <1>4, <2>3, Ends
    <3>2. i \in Samples(sock[a]) /\ lines'[sock[a]] = lines[sock[a]]
      BY <1>2, <1>4, <2>3, <3>1
    <3> QED BY <1>0, <2>1, <2>3, <3>1, <3>2 DEF NotBelow
  <2> QED BY <1>1, <2>2, <2>3 DEF NotBelow
<1>10. Believed'
  BY <1>0, <1>1, <1>2 DEF Believed
<1> QED BY <1>5, <1>6, <1>7, <1>8, <1>9, <1>10

\* A bridge that closes its end, and what it forgets with it.
LEMMA DropKeeps ==
  ASSUME StreamInv, NEW b \in Bridges, Drop(b),
         UNCHANGED <<server, client, start, next, held>>,
         \/ expect' = [expect EXCEPT ![b] = 0] /\ rewound' = [rewound EXCEPT ![b] = FALSE]
         \/ /\ UNCHANGED <<expect, rewound>>
            /\ sock[b] # NoConn /\ (held[sock[b]] = "none" \/ ~up[sock[b]]),
         latestValid' = [latestValid EXCEPT ![b] = FALSE],
         regression' = [regression EXCEPT ![b] = FALSE],
         fed' = [fed EXCEPT ![b] = FALSE]
  PROVE  OwnSock' /\ OneServed' /\ Unsent' /\ InOrder' /\ NotBelow' /\ Believed'
<1>0. TypeOK /\ OwnSock /\ OneServed /\ Unsent /\ InOrder /\ NotBelow /\ Believed
  BY DEF StreamInv
<1>2. /\ \A a \in Bridges : sock'[a] = IF a = b THEN NoConn ELSE sock[a]
      /\ \A d \in Conns : up'[d] = (up[d] /\ d # sock[b])
      /\ \A d \in Conns : lines'[d] = IF d = sock[b] THEN <<>> ELSE lines[d]
      /\ sock' \in [Bridges -> Conns \cup {NoConn}]
  BY <1>0 DEF Drop, TypeOK
<1>3. \A d \in Conns : Samples(d)' = IF d = sock[b] THEN {} ELSE Samples(d)
  BY <1>2 DEF Samples
<1>4. OwnSock'
  BY <1>0, <1>2 DEF OwnSock
<1>5. OneServed'
  BY <1>0 DEF OneServed
<1>6. Unsent'
  <2>1. ASSUME NEW d \in Conns, d # sock[b], d \in Range(sock) PROVE d \in Range(sock')
    <3>1. PICK a \in Bridges : sock[a] = d
      BY <1>0, <2>1, Ends
    <3>2. sock'[a] = d
      BY <1>2, <2>1, <3>1
    <3> QED BY <1>2, <3>2 DEF Range
  <2> QED BY <1>0, <1>2, <2>1 DEF Unsent
<1>7. InOrder'
  BY <1>0, <1>2, <1>3 DEF InOrder
<1>8. NotBelow'
  <2>1. \A a \in Bridges : a # b /\ sock[a] # NoConn => sock[a] # sock[b]
    BY <1>0 DEF OwnSock
  <2>2. \A a \in Bridges : a # b => Floor(a)' = Floor(a)
    BY <1>0, <1>2, <2>1, Ends DEF Floor
  <2>3. Floor(b)' = start /\ start \in Nat
    BY <1>0, <1>2, Numbers DEF Floor
  <2>4. ASSUME ~rewound'[b], server # "down" PROVE expect'[b] <= Floor(b)'
    <3>1. CASE expect' = [expect EXCEPT ![b] = 0]
      BY <1>0, <2>3, <3>1 DEF TypeOK
    <3>2. CASE UNCHANGED <<expect, rewound>> /\ sock[b] # NoConn /\ (held[sock[b]] = "none" \/ ~up[sock[b]])
      <4>1. Floor(b) = start
        BY <1>0, <3>2, Ends DEF Floor, OneServed
      <4> QED BY <1>0, <2>3, <2>4, <3>2, <4>1 DEF NotBelow
    <3> QED BY <3>1, <3>2
  <2>5. \A a \in Bridges : a # b => expect'[a] = expect[a] /\ rewound'[a] = rewound[a]
    BY <1>0 DEF TypeOK
  <2>6. ASSUME NEW a \in Bridges, a # b, ~rewound'[a], server # "down" PROVE expect'[a] <= Floor(a)'
    BY <1>0, <2>2, <2>5, <2>6 DEF NotBelow
  <2>7. ASSUME NEW a \in Bridges, ~rewound'[a], sock'[a] # NoConn, NEW i \in Samples(sock[a])'
        PROVE  /\ expect'[a] <= lines'[sock'[a]][i].number
               /\ server # "down" => lines'[sock'[a]][i].number < Floor(a)'
    <3>1. a # b /\ sock'[a] = sock[a] /\ sock[a] \in Conns /\ sock[a] # sock[b]
      BY <1>0, <1>2, <2>1, <2>7, Ends
    <3>2. i \in Samples(sock[a]) /\ lines'[sock[a]] = lines[sock[a]]
      BY <1>2, <1>3, <2>7, <3>1
    <3> QED BY <1>0, <2>2, <2>5, <2>7, <3>1, <3>2 DEF NotBelow
  <2> QED BY <2>4, <2>6, <2>7 DEF NotBelow
<1>9. Believed'
  BY <1>0, <1>2 DEF Believed, TypeOK
<1> QED BY <1>4, <1>5, <1>6, <1>7, <1>8, <1>9

LEMMA LeavingKeeps ==
  ASSUME StreamInv, NEW b \in Bridges, PeerClosed(b) \/ RestartBridge(b)
  PROVE  OwnSock' /\ OneServed' /\ Unsent' /\ InOrder' /\ NotBelow' /\ Believed'
<1>1. CASE PeerClosed(b)
  BY <1>1, DropKeeps DEF PeerClosed, MarkDisconnected, serverVars
<1>2. CASE RestartBridge(b)
  BY <1>2, DropKeeps DEF RestartBridge, serverVars
<1> QED BY <1>1, <1>2

-----------------------------------------------------------------------------
(* Lines that are read.                                                    *)

\* What is left of the samples once the first line is read.
LEMMA ReadLeaves ==
  ASSUME TypeOK, NEW s \in Conns, lines[s] # <<>>, lines' = [lines EXCEPT ![s] = Tail(@)]
  PROVE  /\ \A d \in Conns : d # s => lines'[d] = lines[d] /\ Samples(d)' = Samples(d)
         /\ \A i \in Samples(s)' :
              i + 1 \in Samples(s) /\ lines'[s][i] = lines[s][i + 1] /\ 1 < i + 1 /\ i \in Nat
         /\ Head(lines[s]).kind # "status" => 1 \in Samples(s)
         /\ Head(lines[s]) = lines[s][1] /\ Head(lines[s]) \in Lines
<1>1. lines[s] \in Seq(Lines) /\ lines \in [Conns -> Seq(Lines)]
  BY DEF TypeOK
<1>2. lines'[s] = Tail(lines[s]) /\ \A d \in Conns : d # s => lines'[d] = lines[d]
  BY <1>1
<1>3. \A d \in Conns : d # s => Samples(d)' = Samples(d)
  BY <1>2 DEF Samples
<1>4. ASSUME NEW i \in Samples(s)'
      PROVE  i + 1 \in Samples(s) /\ lines'[s][i] = lines[s][i + 1] /\ 1 < i + 1 /\ i \in Nat
  <2>1. i \in DOMAIN Tail(lines[s]) /\ lines'[s][i].kind # "status"
    BY <1>2 DEF Samples
  <2>2. i + 1 \in DOMAIN lines[s] /\ lines'[s][i] = lines[s][i + 1] /\ 1 < i + 1 /\ i \in Nat
    BY <1>1, <1>2, <2>1, Read
  <2> QED BY <2>1, <2>2 DEF Samples
<1>5. Head(lines[s]) = lines[s][1] /\ Head(lines[s]) \in Lines /\ 1 \in DOMAIN lines[s]
  BY <1>1, Read
<1> QED BY <1>2, <1>3, <1>4, <1>5 DEF Samples

\* An accepted sample leaves the bridge just behind it, before all that follow
\* it; one that is rejected leaves the bridge where it is.
LEMMA ReadFromKeeps ==
  ASSUME StreamInv, NEW b \in Bridges, ReadLine(b),
         NEW s \in Conns, s = sock[b], NEW line, line = Head(lines[s])
  PROVE  OwnSock' /\ OneServed' /\ Unsent' /\ InOrder' /\ NotBelow' /\ Believed'
<1>0. TypeOK /\ OwnSock /\ OneServed /\ Unsent /\ InOrder /\ NotBelow /\ Believed
  BY DEF StreamInv
<1>1. /\ s # NoConn /\ s \in Conns /\ s \in Range(sock) /\ lines[s] # <<>>
      /\ lines' = [lines EXCEPT ![s] = Tail(@)]
      /\ AcceptLine(b, line) \/ RejectLine(b, line)
      /\ UNCHANGED <<server, client, start, next, held, up, sock>>
  BY <1>0, Ends DEF ReadLine, serverVars
<1>2. /\ \A d \in Conns : d # s => lines'[d] = lines[d] /\ Samples(d)' = Samples(d)
      /\ \A i \in Samples(s)' :
           i + 1 \in Samples(s) /\ lines'[s][i] = lines[s][i + 1] /\ 1 < i + 1 /\ i \in Nat
      /\ line.kind # "status" => 1 \in Samples(s)
      /\ line = lines[s][1] /\ line \in Lines
  BY <1>0, <1>1, ReadLeaves
<1>3. line.number \in Nat
  BY <1>2, LineFields
<1>4. \A a \in Bridges : a # b => sock[a] # s
  BY <1>0, <1>1 DEF OwnSock
<1>5. s = sock[b] /\ line = Head(lines[s])
  OBVIOUS
<1>6. OwnSock' /\ OneServed'
  BY <1>0, <1>1 DEF OwnSock, OneServed
<1>7. Unsent'
  BY <1>0, <1>1, <1>2 DEF Unsent
<1>8. InOrder'
  <2>1. ASSUME NEW c \in Conns, NEW i \in Samples(c)', NEW j \in Samples(c)', i < j
        PROVE  lines'[c][i].number < lines'[c][j].number
    <3>1. CASE c # s
      BY <1>0, <1>2, <2>1, <3>1 DEF InOrder
    <3>2. CASE c = s
      <4>1. i + 1 \in Samples(s) /\ j + 1 \in Samples(s) /\ i + 1 < j + 1
            /\ lines'[s][i] = lines[s][i + 1] /\ lines'[s][j] = lines[s][j + 1]
        BY <1>2, <2>1, <3>2
      <4> QED BY <1>0, <1>1, <3>2, <4>1 DEF InOrder
    <3> QED BY <3>1, <3>2
  <2>2. ASSUME NEW c \in Conns, c = client, NEW i \in Samples(c)' PROVE lines'[c][i].number < next
    <3>1. CASE c # s
      BY <1>0, <1>2, <2>2, <3>1 DEF InOrder
    <3>2. CASE c = s
      BY <1>0, <1>2, <2>2, <3>2 DEF InOrder
    <3> QED BY <3>1, <3>2
  <2> QED BY <1>1, <2>1, <2>2 DEF InOrder
<1>9. \A a \in Bridges : Floor(a)' = Floor(a)
  BY <1>1 DEF Floor
<1>10. ASSUME NEW a \in Bridges, a # b
       PROVE  /\ expect'[a] = expect[a] /\ rewound'[a] = rewound[a] /\ fed'[a] = fed[a]
              /\ latestValid'[a] = latestValid[a] /\ regression'[a] = regression[a]
  <2>1. CASE AcceptLine(b, line)
    BY <1>0, <1>10, <2>1 DEF AcceptLine, TypeOK
  <2>2. CASE RejectLine(b, line)
    BY <1>0, <1>10, <2>2 DEF RejectLine, TypeOK
  <2> QED BY <1>1, <2>1, <2>2
<1>11. ASSUME NEW a \in Bridges, a # b, ~rewound'[a]
       PROVE  /\ server' # "down" => expect'[a] <= Floor(a)'
              /\ sock'[a] # NoConn => \A i \in Samples(sock[a])' :
                   /\ expect'[a] <= lines'[sock'[a]][i].number
                   /\ server' # "down" => lines'[sock'[a]][i].number < Floor(a)'
  <2>1. sock[a] # s /\ (sock[a] # NoConn => sock[a] \in Conns)
    BY <1>0, <1>4, <1>11, Ends
  <2>2. sock[a] # NoConn => lines'[sock[a]] = lines[sock[a]] /\ Samples(sock[a])' = Samples(sock[a])
    BY <1>1, <1>2, <2>1
  <2> QED BY <1>0, <1>1, <1>9, <1>10, <1>11, <2>2 DEF NotBelow
<1>12. ASSUME ~rewound'[b]
       PROVE  /\ server' # "down" => expect'[b] <= Floor(b)'
              /\ \A i \in Samples(s)' :
                   /\ expect'[b] <= lines'[s][i].number
                   /\ server' # "down" => lines'[s][i].number < Floor(b)'
  <2>1. CASE AcceptLine(b, line)
    <3>1. expect'[b] = line.number + 1 /\ 1 \in Samples(s)
      BY <1>0, <1>2, <2>1 DEF AcceptLine, TypeOK
    <3>2. rewound[b] => held[s] = "served" /\ up[s]
      BY <1>0, <1>5, <1>12, <2>1 DEF AcceptLine, TypeOK
    <3>3. ASSUME NEW i \in Samples(s), server # "down" PROVE lines[s][i].number < Floor(b)
      <4>1. CASE rewound[b]
        <5>1. s = client
          BY <1>0, <1>1, <3>2, <4>1 DEF OneServed
        <5>2. Floor(b) = next
          BY <1>1, <1>5, <3>2, <4>1, <5>1 DEF Floor
        <5> QED BY <1>0, <1>1, <3>3, <5>1, <5>2 DEF InOrder
      <4>2. CASE ~rewound[b]
        BY <1>0, <1>1, <1>5, <3>3, <4>2 DEF NotBelow
      <4> QED BY <4>1, <4>2
    <3>4. server # "down" => expect'[b] <= Floor(b)
      BY <1>0, <1>2, <1>3, <3>1, <3>3, FloorIs
    <3>5. ASSUME NEW i \in Samples(s)'
          PROVE  /\ expect'[b] <= lines'[s][i].number
                 /\ server # "down" => lines'[s][i].number < Floor(b)
      <4>1. i + 1 \in Samples(s) /\ lines'[s][i] = lines[s][i + 1] /\ 1 < i + 1
        BY <1>2, <3>5
      <4>2. line.number < lines[s][i + 1].number
        BY <1>0, <1>1, <1>2, <3>1, <4>1 DEF InOrder
      <4>3. lines[s][i + 1].number \in Nat
        BY <1>0, <1>1, <4>1, SampleNumbers
      <4> QED BY <1>3, <3>1, <3>3, <4>1, <4>2, <4>3
    <3> QED BY <1>1, <1>9, <3>4, <3>5
  <2>2. CASE RejectLine(b, line)
    <3>1. ~rewound[b] /\ expect'[b] = expect[b]
      BY <1>12, <2>2 DEF RejectLine
    <3>2. \A i \in Samples(s) : /\ expect[b] <= lines[s][i].number
                                /\ server # "down" => lines[s][i].number < Floor(b)
      BY <1>0, <1>1, <1>5, <3>1 DEF NotBelow
    <3>3. server # "down" => expect[b] <= Floor(b)
      BY <1>0, <3>1 DEF NotBelow
    <3> QED BY <1>1, <1>2, <1>9, <3>1, <3>2, <3>3
  <2> QED BY <1>1, <2>1, <2>2
<1>13. NotBelow'
  <2>1. sock'[b] = s /\ Samples(sock[b])' = Samples(s)'
    BY <1>1, <1>5
  <2> QED BY <1>11, <1>12, <2>1 DEF NotBelow
<1>14. Believed'
  <2>1. (latestValid'[b] => fed'[b]) /\ sock'[b] # NoConn
    <3>1. CASE AcceptLine(b, line)
      BY <1>0, <1>1, <1>5, <3>1 DEF AcceptLine, TypeOK
    <3>2. CASE RejectLine(b, line)
      BY <1>0, <1>1, <1>5, <3>2 DEF RejectLine, TypeOK
    <3> QED BY <1>1, <3>1, <3>2
  <2> QED BY <1>0, <1>1, <1>10, <2>1 DEF Believed
<1> QED BY <1>6, <1>7, <1>8, <1>13, <1>14

LEMMA ReadLineKeeps ==
  ASSUME StreamInv, NEW b \in Bridges, ReadLine(b)
  PROVE  OwnSock' /\ OneServed' /\ Unsent' /\ InOrder' /\ NotBelow' /\ Believed'
<1>1. sock[b] \in Conns
  BY Ends DEF ReadLine, StreamInv
<1> QED BY <1>1, ReadFromKeeps

-----------------------------------------------------------------------------
(* The theorems.                                                           *)

\* Every step keeps the invariant.
LEMMA NextKeeps == ASSUME StreamInv, Next PROVE StreamInv'
<1>0. TypeOK
  BY DEF StreamInv
<1>1. TypeOK'
  BY <1>0, ServerKeepsTypes, OthersKeepTypes, BridgeKeepsTypes DEF Next
<1>2. OwnSock' /\ OneServed' /\ Unsent' /\ InOrder' /\ NotBelow' /\ Believed'
  <2>1. CASE StartServer \/ ServerDies
    BY <2>1, StartServerKeeps, ServerDiesKeeps
  <2>2. CASE ServeStep
    BY <2>2, SendSampleKeeps, ReadFailsKeeps, BrokenKeeps DEF ServeStep
  <2>3. CASE \E c \in Conns : Accept(c) \/ Reset(c) \/ OtherConnects(c) \/ OtherLeaves(c)
    BY <2>3, AcceptKeeps, OthersKeep
  <2>4. ASSUME NEW b \in Bridges,
               \/ \E c \in Conns : Connect(b, c)
               \/ ConnectFails(b) \/ PeerClosed(b) \/ ReadLine(b)
               \/ Heartbeat(b) \/ PublishBeat(b) \/ Ages(b) \/ RestartBridge(b)
        PROVE  OwnSock' /\ OneServed' /\ Unsent' /\ InOrder' /\ NotBelow' /\ Believed'
    BY <2>4, ConnectKeeps, BeliefKeeps, LeavingKeeps, ReadLineKeeps
  <2> QED BY <2>1, <2>2, <2>3, <2>4 DEF Next
<1> QED BY <1>1, <1>2 DEF StreamInv

LEMMA StutterKeeps == ASSUME StreamInv, UNCHANGED vars PROVE StreamInv'
<1>1. UNCHANGED <<serverVars, wireVars, sock, beliefVars, beat, heard, history>>
  BY DEF vars
<1>2. TypeOK'
  <2>1. TypeOK
    BY DEF StreamInv
  <2> QED BY <1>1, <2>1 DEF TypeOK, serverVars, wireVars, beliefVars, history
<1>3. Believed' /\ UNCHANGED <<serverVars, wireVars, sock, expect, rewound>>
  BY <1>1 DEF StreamInv, Believed, beliefVars, history
<1> QED BY <1>2, <1>3, BeliefStep DEF StreamInv

\* StreamInv holds in every reachable state.
THEOREM StreamInvariant == Spec => []StreamInv
<1>1. Init => StreamInv
  BY InitTyped, InitRest DEF StreamInv
<1>2. StreamInv /\ [Next]_vars => StreamInv'
  BY NextKeeps, StutterKeeps
<1> QED BY <1>1, <1>2, PTL DEF Spec

\* Type correctness of server, wire and bridges.
THEOREM StreamTypeCorrect == Spec => []TypeOK
<1>1. StreamInv => TypeOK
  BY DEF StreamInv
<1> QED BY <1>1, StreamInvariant, PTL

\* What a bridge calls a regression it calls so only while it may have been
\* taken back: a number that is too low is under way to no other bridge.
LEMMA RegressionStep ==
  ASSUME StreamInv, RegressionMeansRewind, [Next]_vars
  PROVE  RegressionMeansRewind'
<1>0. TypeOK /\ NotBelow /\ Believed
  BY DEF StreamInv
<1> SUFFICES ASSUME NEW b \in Bridges, regression'[b] PROVE rewound'[b]
  BY DEF RegressionMeansRewind
<1>1. CASE StartServer
  <2>1. sock[b] # NoConn
    BY <1>0, <1>1 DEF StartServer, beliefVars, Believed
  <2> QED BY <1>1, <2>1 DEF StartServer
<1>2. CASE UNCHANGED <<regression, rewound>>
  BY <1>2 DEF RegressionMeansRewind
<1>3. CASE \E c \in Conns : Reset(c)
  BY <1>3 DEF Reset, beliefVars, RegressionMeansRewind
<1>4. ASSUME NEW a \in Bridges,
             (\E c \in Conns : Connect(a, c)) \/ ConnectFails(a) \/ PeerClosed(a) \/ Heartbeat(a)
      PROVE  rewound'[b]
  <2>1. UNCHANGED rewound
    BY <1>4 DEF Connect, ConnectFails, PeerClosed, Heartbeat, history
  <2>2. regression'[b] => regression[b]
    BY <1>0, <1>4 DEF Connect, ConnectFails, PeerClosed, Heartbeat, MarkDisconnected, TypeOK
  <2> QED BY <2>1, <2>2 DEF RegressionMeansRewind
<1>5. ASSUME NEW a \in Bridges, RestartBridge(a) PROVE rewound'[b]
  <2>1. a # b
    BY <1>0, <1>5 DEF RestartBridge, TypeOK
  <2>2. regression'[b] = regression[b] /\ rewound'[b] = rewound[b]
    BY <1>0, <1>5, <2>1 DEF RestartBridge, TypeOK
  <2> QED BY <2>2 DEF RegressionMeansRewind
<1>6. ASSUME NEW a \in Bridges, ReadLine(a) PROVE rewound'[b]
  <2> DEFINE line == Head(lines[sock[a]])
  <2>1. CASE a # b
    <3>1. regression'[b] = regression[b] /\ rewound'[b] = rewound[b]
      BY <1>0, <1>6, <2>1 DEF ReadLine, AcceptLine, RejectLine, TypeOK
    <3> QED BY <3>1 DEF RegressionMeansRewind
  <2>2. CASE a = b
    <3>1. RejectLine(b, line)
      BY <1>0, <1>6, <2>2 DEF ReadLine, AcceptLine, TypeOK
    <3>2. UNCHANGED rewound /\ line.kind # "status" /\ line.number < expect[b]
      BY <1>0, <3>1 DEF RejectLine, TypeOK
    <3>3. sock[b] # NoConn /\ sock[b] \in Conns /\ lines[sock[b]] \in Seq(Lines) /\ lines[sock[b]] # <<>>
      BY <1>0, <1>6, <2>2, Ends DEF ReadLine
    <3>4. line = lines[sock[b]][1] /\ 1 \in DOMAIN lines[sock[b]] /\ line \in Lines
      BY <2>2, <3>3, Read
    <3>5. 1 \in Samples(sock[b])
      BY <3>2, <3>4 DEF Samples
    <3>6. line.number \in Nat /\ expect[b] \in Nat
      BY <1>0, <3>4, LineFields, Ends
    <3>7. ~rewound[b] => expect[b] <= line.number
      BY <1>0, <3>3, <3>4, <3>5 DEF NotBelow
    <3> QED BY <3>2, <3>6, <3>7
  <2> QED BY <2>1, <2>2
<1>7. CASE \/ ServerDies \/ ServeStep
           \/ \E c \in Conns : Accept(c) \/ OtherConnects(c) \/ OtherLeaves(c)
           \/ \E a \in Bridges : PublishBeat(a) \/ Ages(a)
           \/ UNCHANGED vars
  <2>1. UNCHANGED <<regression, rewound>>
    BY <1>7 DEF ServerDies, ServeStep, SendSample, ReadFails, Broken, Accept, OtherConnects, OtherLeaves,
                PublishBeat, Ages, vars, beliefVars, history
  <2> QED BY <1>2, <2>1
<1> QED BY <1>1, <1>3, <1>4, <1>5, <1>6, <1>7 DEF Next

\* Bus faults and other clients never take the numbers below a bridge's.
THEOREM RegressionMeansRewindHolds == Spec => []RegressionMeansRewind
<1>1. Init => RegressionMeansRewind
  BY DEF Init, RegressionMeansRewind
<1>2. StreamInv /\ RegressionMeansRewind /\ [Next]_vars => RegressionMeansRewind'
  BY RegressionStep
<1> QED BY <1>1, <1>2, StreamInvariant, PTL DEF Spec

\* What the timer calls valid.
Backed ==
  \A b \in Bridges : beat[b] = "idle" /\ beat'[b] = "true" =>
    sock[b] # NoConn /\ fed[b] /\ age[b] = "recent"

\* Only the timer of a bridge takes up a flag, from what the bridge believes.
LEMMA BeatStep == ASSUME StreamInv, [Next]_vars PROVE Backed
<1>0. TypeOK /\ Believed
  BY DEF StreamInv
<1> SUFFICES ASSUME NEW b \in Bridges, beat[b] = "idle", beat'[b] = "true"
             PROVE  sock[b] # NoConn /\ fed[b] /\ age[b] = "recent"
  BY DEF Backed
<1>1. ASSUME NEW a \in Bridges, Heartbeat(a)
      PROVE  sock[b] # NoConn /\ fed[b] /\ age[b] = "recent"
  <2>1. a = b
    BY <1>0, <1>1 DEF Heartbeat, TypeOK
  <2>2. age[b] = "recent" /\ latestValid[b]
    BY <1>0, <1>1, <2>1 DEF Heartbeat, TypeOK
  <2> QED BY <1>0, <2>2 DEF Believed
<1>2. ASSUME NEW a \in Bridges, PublishBeat(a) \/ RestartBridge(a) PROVE FALSE
  BY <1>0, <1>2 DEF PublishBeat, RestartBridge, TypeOK
<1>3. ASSUME UNCHANGED beat PROVE FALSE
  BY <1>3
<1>4. CASE \E a \in Bridges : \/ \E c \in Conns : Connect(a, c)
                              \/ ConnectFails(a) \/ PeerClosed(a) \/ ReadLine(a) \/ Ages(a)
  BY <1>3, <1>4 DEF Connect, ConnectFails, PeerClosed, ReadLine, Ages
<1>5. CASE \/ StartServer \/ ServerDies \/ ServeStep \/ UNCHANGED vars
           \/ \E c \in Conns : Accept(c) \/ Reset(c) \/ OtherConnects(c) \/ OtherLeaves(c)
  BY <1>3, <1>5 DEF StartServer, ServerDies, ServeStep, SendSample, ReadFails, Broken, vars,
                    Accept, Reset, OtherConnects, OtherLeaves
<1> QED BY <1>1, <1>2, <1>4, <1>5 DEF Next

\* A valid flag has a recent good sample of the open connection behind it.
THEOREM BeatIsBackedHolds == Spec => BeatIsBacked
<1>1. StreamInv /\ [Next]_vars => [Backed]_vars
  BY BeatStep
<1>2. Spec => [][Backed]_vars
  BY <1>1, StreamInvariant, PTL DEF Spec
<1> QED BY <1>2 DEF BeatIsBacked, Backed
=============================================================================
