------------------------------ MODULE Setup_proofs ----------------------------
(***************************************************************************)
(* Proofs about Setup, for any set of clients, any capacity of the channel *)
(* to accept, and any of the faults.                                       *)
(***************************************************************************)
EXTENDS Setup, SequenceTheorems, TLAPS

LEMMA OtherSide ==
  ASSUME NEW s \in Sides
  PROVE  Other(s) \in Sides /\ Other(s) # s /\ Other(Other(s)) = s
BY DEF Sides, Other

LEMMA SideOrOther ==
  ASSUME NEW s \in Sides, NEW t \in Sides
  PROVE  t = s \/ t = Other(s)
BY DEF Sides, Other

(* One side of one connection changes.                                     *)
LEMMA ExceptAt ==
  ASSUME NEW X, NEW f \in [Sides -> [Clients -> X]], NEW s \in Sides,
         NEW c \in Clients, NEW v \in X, NEW g, g = [f EXCEPT ![s][c] = v]
  PROVE  /\ g \in [Sides -> [Clients -> X]]
         /\ \A t \in Sides, d \in Clients :
              g[t][d] = IF t = s /\ d = c THEN v ELSE f[t][d]
OBVIOUS

(* What can be in a stream, and what becomes of it.                        *)
LEMMA Streams ==
  /\ Head(<<"endpoint">>) = "endpoint" /\ Tail(<<"endpoint">>) = <<>>
  /\ Head(<<"mr">>) = "mr" /\ Tail(<<"mr">>) = <<>>
  /\ Head(<<"endpoint", "mr">>) = "endpoint" /\ Tail(<<"endpoint", "mr">>) = <<"mr">>
  /\ <<>> \o <<"endpoint">> = <<"endpoint">>
  /\ <<>> \o <<"mr">> = <<"mr">>
  /\ <<"endpoint">> \o <<"mr">> = <<"endpoint", "mr">>
  /\ <<"endpoint">> # <<>> /\ <<"mr">> # <<>> /\ <<"endpoint", "mr">> # <<>>
<1>1. /\ <<"endpoint">> \in Seq({"endpoint", "mr"}) /\ <<"mr">> \in Seq({"endpoint", "mr"})
      /\ <<"endpoint", "mr">> \in Seq({"endpoint", "mr"})
  OBVIOUS
<1>2. /\ <<"endpoint">> # <<>> /\ <<"mr">> # <<>> /\ <<"endpoint", "mr">> # <<>>
  OBVIOUS
<1>3. Head(<<"endpoint">>) = "endpoint" /\ Head(<<"mr">>) = "mr"
      /\ Head(<<"endpoint", "mr">>) = "endpoint"
  OBVIOUS
<1>4. Tail(<<"endpoint">>) = <<>> /\ Tail(<<"mr">>) = <<>>
  OBVIOUS
<1>5. Tail(<<"endpoint", "mr">>) = <<"mr">>
  OBVIOUS
<1>6. <<>> \o <<"endpoint">> = <<"endpoint">> /\ <<>> \o <<"mr">> = <<"mr">>
  OBVIOUS
<1>7. <<"endpoint">> \o <<"mr">> = <<"endpoint", "mr">>
  <2> DEFINE q == <<"endpoint">> \o <<"mr">>
             r == <<"endpoint", "mr">>
  <2>1. q \in Seq({"endpoint", "mr"}) /\ Len(q) = 2 /\ q[1] = "endpoint" /\ q[2] = "mr"
    BY <1>1
  <2>2. r \in Seq({"endpoint", "mr"}) /\ Len(r) = 2 /\ r[1] = "endpoint" /\ r[2] = "mr"
    BY <1>1
  <2> HIDE DEF q, r
  <2>3. \A i \in 1..2 : q[i] = r[i]
    BY <2>1, <2>2
  <2>4. q = r
    BY <2>1, <2>2, <2>3, SeqEqual
  <2>5. QED
    BY <2>4 DEF q, r
<1>8. QED
  BY <1>2, <1>3, <1>4, <1>5, <1>6, <1>7

-----------------------------------------------------------------------------
(* Types.                                                                  *)
LEMMA DeviceStates == DeviceMay({"unready"}) \subseteq {"unready"}
BY DEF DeviceMay

Items == {"endpoint", "mr"}

LEMMA TypeInit == Init => TypeOK
BY SetupAssumption DEF Init, TypeOK, Steps

LEMMA MoveType ==
  ASSUME TypeOK, NEW s \in Sides, NEW c \in Clients, NEW to \in Steps,
         MoveTo(s, c, to)
  PROVE  /\ pc' \in [Sides -> [Clients -> Steps]]
         /\ \A t \in Sides, d \in Clients :
              pc'[t][d] = IF t = s /\ d = c THEN to ELSE pc[t][d]
BY ExceptAt DEF TypeOK, MoveTo

LEMMA ToPeerType ==
  ASSUME TypeOK, NEW s \in Sides, NEW c \in Clients, NEW what \in Seq(Items),
         ToPeer(s, c, what)
  PROVE  /\ stream' \in [Sides -> [Clients -> Seq(Items)]]
         /\ \A t \in Sides, d \in Clients :
              stream'[t][d] = IF t = Other(s) /\ d = c /\ ~PeerGone(s, c)
                              THEN stream[t][d] \o what ELSE stream[t][d]
<1>1. stream \in [Sides -> [Clients -> Seq(Items)]]
  BY DEF TypeOK, Items
<1>2. CASE PeerGone(s, c)
  BY <1>1, <1>2 DEF ToPeer
<1>3. CASE ~PeerGone(s, c)
  <2>1. Other(s) \in Sides
    BY OtherSide
  <2>2. stream' = [stream EXCEPT ![Other(s)][c] = stream[Other(s)][c] \o what]
    BY <1>3 DEF ToPeer
  <2>3. stream[Other(s)][c] \o what \in Seq(Items)
    BY <1>1, <2>1
  <2>4. /\ stream' \in [Sides -> [Clients -> Seq(Items)]]
        /\ \A t \in Sides, d \in Clients :
             stream'[t][d] = IF t = Other(s) /\ d = c THEN stream[Other(s)][c] \o what
                                                     ELSE stream[t][d]
    BY <1>1, <2>1, <2>2, <2>3, ExceptAt
  <2>5. QED
    BY <1>3, <2>4
<1>4. QED
  BY <1>2, <1>3

(* What reading does to the stream.                                        *)
LEMMA StreamTail ==
  ASSUME TypeOK, NEW s \in Sides, NEW c \in Clients, stream[s][c] # <<>>,
         stream' = [stream EXCEPT ![s][c] = Tail(@)]
  PROVE  /\ stream' \in [Sides -> [Clients -> Seq(Items)]]
         /\ \A t \in Sides, d \in Clients :
              stream'[t][d] = IF t = s /\ d = c THEN Tail(stream[s][c]) ELSE stream[t][d]
         /\ Head(stream[s][c]) \in Items
<1>1. stream \in [Sides -> [Clients -> Seq(Items)]]
  BY DEF TypeOK, Items
<1>2. stream[s][c] \in Seq(Items)
  BY <1>1
<1>3. Tail(stream[s][c]) \in Seq(Items) /\ Head(stream[s][c]) \in Items
  BY <1>2
<1>4. stream' = [stream EXCEPT ![s][c] = Tail(stream[s][c])]
  OBVIOUS
<1>5. QED
  BY ONLY <1>1, <1>3, <1>4, ExceptAt, s \in Sides, c \in Clients

LEMMA ExchangeType ==
  ASSUME TypeOK, NEW s \in Sides, NEW c \in Clients, Exchange(s, c)
  PROVE  TypeOK'
<1> USE DEF Items
<1>1. CASE SendEndpoint(s, c)
  <2>1. pc' \in [Sides -> [Clients -> Steps]]
    BY <1>1, MoveType DEF SendEndpoint, Steps
  <2>2. <<"endpoint">> \in Seq(Items)
    OBVIOUS
  <2>3. stream' \in [Sides -> [Clients -> Seq(Items)]]
    BY <1>1, <2>2, ToPeerType DEF SendEndpoint
  <2>4. QED
    BY <1>1, <2>1, <2>3 DEF TypeOK, SendEndpoint, cardVars, remoteVars, serverVars
<1>2. CASE RecvEndpoint(s, c)
  <2>1. pc' \in [Sides -> [Clients -> Steps]]
    BY <1>2, MoveType DEF RecvEndpoint, Steps
  <2>2. stream' \in [Sides -> [Clients -> Seq(Items)]] /\ Head(stream[s][c]) \in Items
    BY <1>2, StreamTail DEF RecvEndpoint, Read
  <2>3. remoteEnp' \in [Sides -> [Clients -> {"none", "zeroes", "endpoint", "mr"}]]
    BY <1>2, <2>2 DEF RecvEndpoint, Read, TypeOK
  <2>4. qp' \in [Sides -> [Clients -> {"none", "INIT", "unready", "RTS", "astray"}]]
    <3>1. PICK state \in Connected(qp[s][c]) : qp' = [qp EXCEPT ![s][c] = state]
      BY <1>2 DEF RecvEndpoint
    <3>2. qp[s][c] \in {"none", "INIT", "unready", "RTS", "astray"}
      BY DEF TypeOK
    <3>3. state \in {"none", "INIT", "unready", "RTS", "astray"}
      BY <3>1, <3>2, DeviceStates DEF Connected
    <3>4. QED
      BY <3>1, <3>3, ExceptAt DEF TypeOK
  <2>5. QED
    BY <1>2, <2>1, <2>2, <2>3, <2>4 DEF TypeOK, RecvEndpoint, serverVars
<1>3. CASE RecvEndpointFails(s, c)
  <2>1. pc' \in [Sides -> [Clients -> Steps]]
    BY <1>3, MoveType DEF RecvEndpointFails, Steps
  <2>2. stream' \in [Sides -> [Clients -> Seq(Items)]]
    BY <1>3 DEF RecvEndpointFails, TypeOK
  <2>3. remoteEnp' \in [Sides -> [Clients -> {"none", "zeroes", "endpoint", "mr"}]]
    BY <1>3 DEF RecvEndpointFails, TypeOK
  <2>4. qp' \in [Sides -> [Clients -> {"none", "INIT", "unready", "RTS", "astray"}]]
    <3>1. qp[s][c] \in {"none", "INIT", "unready", "RTS", "astray"}
      BY DEF TypeOK
    <3>2. QED
      BY <1>3, <3>1 DEF RecvEndpointFails, TypeOK
  <2>5. QED
    BY <1>3, <2>1, <2>2, <2>3, <2>4 DEF TypeOK, RecvEndpointFails, serverVars
<1>4. CASE SendMr(s, c)
  <2>1. pc' \in [Sides -> [Clients -> Steps]]
    BY <1>4, MoveType DEF SendMr, Steps
  <2>2. <<"mr">> \in Seq(Items)
    OBVIOUS
  <2>3. stream' \in [Sides -> [Clients -> Seq(Items)]]
    BY <1>4, <2>2, ToPeerType DEF SendMr
  <2>4. registered' \in [Sides -> [Clients -> BOOLEAN]]
    BY <1>4 DEF SendMr, TypeOK
  <2>5. QED
    BY <1>4, <2>1, <2>3, <2>4 DEF TypeOK, SendMr, remoteVars, serverVars
<1>5. CASE RecvMr(s, c)
  <2>1. pc' \in [Sides -> [Clients -> Steps]]
    BY <1>5, MoveType DEF RecvMr, Steps
  <2>2. stream' \in [Sides -> [Clients -> Seq(Items)]] /\ Head(stream[s][c]) \in Items
    BY <1>5, StreamTail DEF RecvMr, Read
  <2>3. remoteMr' \in [Sides -> [Clients -> {"none", "endpoint", "mr"}]]
    BY <1>5, <2>2 DEF RecvMr, Read, TypeOK
  <2>4. QED
    BY <1>5, <2>1, <2>2, <2>3 DEF TypeOK, RecvMr, cardVars, serverVars
<1>6. CASE ExchangePanics(s, c)
  <2>1. pc' \in [Sides -> [Clients -> Steps]]
    BY <1>6, MoveType DEF ExchangePanics, Steps
  <2>2. task' \in {"bind", "accept", "setup", "stopped"}
    BY <1>6 DEF ExchangePanics, TypeOK
  <2>3. QED
    BY <1>6, <2>1, <2>2 DEF TypeOK, ExchangePanics, cardVars, remoteVars
<1>7. CASE NewConn(s, c)
  <2>1. pc' \in [Sides -> [Clients -> Steps]]
    BY <1>7, MoveType DEF NewConn, Steps
  <2>2. posted' \in [Sides -> [Clients -> BOOLEAN]]
    <3>1. PICK all \in {TRUE} \union DeviceMay({FALSE}) :
            posted' = [posted EXCEPT ![s][c] = all]
      BY <1>7 DEF NewConn
    <3>2. all \in BOOLEAN
      BY <3>1 DEF DeviceMay
    <3>3. QED
      BY <3>1, <3>2, ExceptAt DEF TypeOK
  <2>3. QED
    BY <1>7, <2>1, <2>2 DEF TypeOK, NewConn, remoteVars, serverVars
<1>8. QED
  BY <1>1, <1>2, <1>3, <1>4, <1>5, <1>6, <1>7 DEF Exchange

LEMMA TypeNext == TypeOK /\ [Next]_vars => TypeOK'
<1> SUFFICES ASSUME TypeOK, [Next]_vars PROVE TypeOK'
  OBVIOUS
<1> "client" \in Sides /\ "server" \in Sides
  BY DEF Sides
<1>1. CASE UNCHANGED vars
  BY <1>1 DEF TypeOK, vars
<1>2. ASSUME NEW c \in Clients, Connect(c) PROVE TypeOK'
  <2>1. pc' \in [Sides -> [Clients -> Steps]]
    BY <1>2, MoveType DEF Connect, Steps
  <2>2. backlog' \in Seq(Clients)
    BY <1>2 DEF Connect, TypeOK
  <2>3. qp' \in [Sides -> [Clients -> {"none", "INIT", "unready", "RTS", "astray"}]]
    BY <1>2, DeviceStates DEF Connect, InitQp, TypeOK
  <2>4. QED
    BY <1>2, <2>1, <2>2, <2>3 DEF TypeOK, Connect, remoteVars
<1>3. ASSUME NEW c \in Clients, ConnectRefused(c) PROVE TypeOK'
  <2>1. pc' \in [Sides -> [Clients -> Steps]]
    BY <1>3, MoveType DEF ConnectRefused, Steps
  <2>2. QED
    BY <1>3, <2>1 DEF TypeOK, ConnectRefused, cardVars, remoteVars, serverVars
<1>4. ASSUME NEW c \in Clients, Die(c) PROVE TypeOK'
  <2>1. pc' \in [Sides -> [Clients -> Steps]]
    BY <1>4, MoveType DEF Die, Steps
  <2>2. QED
    BY <1>4, <2>1 DEF TypeOK, Die, cardVars, remoteVars, serverVars
<1>5. CASE Bind
  BY <1>5 DEF TypeOK, Bind, cardVars, remoteVars
<1>6. CASE Accept
  <2>1. backlog \in Seq(Clients) /\ backlog # <<>>
    BY <1>6 DEF Accept, TypeOK
  <2>2. Head(backlog) \in Clients /\ Tail(backlog) \in Seq(Clients)
    BY <2>1
  <2>3. pc' \in [Sides -> [Clients -> Steps]]
    BY <1>6, <2>2, MoveType DEF Accept, Steps
  <2>4. qp' \in [Sides -> [Clients -> {"none", "INIT", "unready", "RTS", "astray"}]]
    BY <1>6, <2>2, DeviceStates DEF Accept, InitQp, TypeOK
  <2>5. QED
    BY <1>6, <2>2, <2>3, <2>4 DEF TypeOK, Accept, remoteVars
<1>7. CASE ListenerFails
  BY <1>7 DEF TypeOK, ListenerFails, cardVars, remoteVars
<1>8. ASSUME NEW c \in Clients, Deliver(c) PROVE TypeOK'
  <2>1. pc' \in [Sides -> [Clients -> Steps]]
    BY <1>8, MoveType DEF Deliver, Steps
  <2>2. incoming \in Seq(Clients) /\ Len(incoming) < ChannelCap
        /\ incoming' = Append(incoming, c)
    BY <1>8 DEF Deliver, TypeOK
  <2>3. incoming' \in Seq(Clients) /\ Len(incoming') <= ChannelCap
    BY <2>2, SetupAssumption
  <2>4. QED
    BY <1>8, <2>1, <2>3 DEF TypeOK, Deliver, cardVars, remoteVars
<1>9. CASE AcceptConn
  <2>1. CASE incoming # <<>>
    <3>1. incoming \in Seq(Clients) /\ Len(incoming) <= ChannelCap
      BY DEF TypeOK
    <3>2. /\ Head(incoming) \in Clients /\ Tail(incoming) \in Seq(Clients)
          /\ Len(Tail(incoming)) <= ChannelCap
      BY <2>1, <3>1, SetupAssumption
    <3>3. /\ accepted' = accepted \union {Head(incoming)}
          /\ incoming' = Tail(incoming) /\ app' = app
      BY <1>9, <2>1 DEF AcceptConn
    <3>4. QED
      BY <1>9, <3>2, <3>3 DEF TypeOK, AcceptConn, cardVars, remoteVars
  <2>2. CASE incoming = <<>>
    BY <1>9, <2>2 DEF TypeOK, AcceptConn, cardVars, remoteVars
  <2>3. QED
    BY <2>1, <2>2
<1>10. ASSUME NEW c \in Clients, DeliverFails(c) PROVE TypeOK'
  <2>1. pc' \in [Sides -> [Clients -> Steps]]
    BY <1>10, MoveType DEF DeliverFails, Steps
  <2>2. registered' \in [Sides -> [Clients -> BOOLEAN]]
    BY <1>10 DEF DeliverFails, TypeOK
  <2>3. QED
    BY <1>10, <2>1, <2>2 DEF TypeOK, DeliverFails, remoteVars
<1>11. CASE DropServer
  <2>1. pc' \in [Sides -> [Clients -> Steps]]
    <3>1. [c \in Clients |-> IF InChannel(c) THEN "dropped" ELSE pc["server"][c]]
            \in [Clients -> Steps]
      BY DEF TypeOK, Steps
    <3>2. QED
      BY <1>11, <3>1 DEF DropServer, TypeOK
  <2>2. registered' \in [Sides -> [Clients -> BOOLEAN]]
    <3>1. [c \in Clients |-> registered["server"][c] /\ ~InChannel(c)]
            \in [Clients -> BOOLEAN]
      OBVIOUS
    <3>2. QED
      BY <1>11, <3>1 DEF DropServer, TypeOK
  <2>3. <<>> \in Seq(Clients) /\ Len(<<>>) <= ChannelCap
    BY SetupAssumption
  <2>4. QED
    BY <1>11, <2>1, <2>2, <2>3 DEF TypeOK, DropServer, remoteVars
<1>12. ASSUME NEW s \in Sides, NEW c \in Clients, DevicePanics(s, c) PROVE TypeOK'
  <2>1. pc' \in [Sides -> [Clients -> Steps]]
    BY <1>12, MoveType DEF DevicePanics, Steps
  <2>2. task' \in {"bind", "accept", "setup", "stopped"}
    BY <1>12 DEF DevicePanics, TypeOK
  <2>3. QED
    BY <1>12, <2>1, <2>2 DEF TypeOK, DevicePanics, cardVars, remoteVars
<1>13. QED
  BY <1>1, <1>2, <1>3, <1>4, <1>5, <1>6, <1>7, <1>8, <1>9, <1>10, <1>11, <1>12, ExchangeType
     DEF Next, ServerStep

(* Every state is well typed: in particular the channel to Server::accept  *)
(* never holds more Conns than it has places (conn.rs: run, server.rs).    *)
THEOREM TypeCorrect == Spec => []TypeOK
BY TypeInit, TypeNext, PTL DEF Spec

-----------------------------------------------------------------------------
(* The streams.  A connection a step does not touch.                       *)
Side(t, c) == StreamFits(t, c) /\ SideReady(t, c)

LEMMA SameSide ==
  ASSUME NEW t \in Sides, NEW d \in Clients, Side(t, d),
         \A u \in Sides : pc'[u][d] = pc[u][d],
         stream'[t][d] = stream[t][d], qp'[t][d] = qp[t][d],
         registered'[t][d] = registered[t][d],
         remoteEnp'[t][d] = remoteEnp[t][d], remoteMr'[t][d] = remoteMr[t][d],
         task = "stopped" => task' = "stopped"
  PROVE  Side(t, d)'
<1>1. Other(t) \in Sides /\ Other(Other(t)) = t /\ "server" \in Sides
  BY OtherSide DEF Sides
<1>2. \A u \in Sides : PeerGone(u, d) => PeerGone(u, d)'
  BY <1>1, OtherSide DEF PeerGone
<1>3. StreamFits(t, d)'
  BY <1>1, <1>2 DEF Side, StreamFits, Gone
<1>4. SideReady(t, d)'
  BY <1>1, <1>2 DEF Side, SideReady, Ready
<1>5. QED
  BY <1>3, <1>4 DEF Side

(* Both ends.                                                              *)
LEMMA Ends ==
  ASSUME NEW s \in Sides
  PROVE  /\ Other(s) \in Sides /\ Other(s) # s /\ Other(Other(s)) = s
         /\ s = "client" <=> Other(s) = "server"
         /\ s = "server" <=> Other(s) = "client"
BY DEF Sides, Other

(* The states a side can be in, by what it has sent and read.              *)
LEMMA StepSets ==
  /\ Unsent = {"none", "refused", "greet"} /\ SentEndpoint = {"peer", "register"}
  /\ SentBoth = {"remote", "rqe", "deliver", "open", "dropped"}
  /\ UnreadSteps = {"none", "refused", "greet", "peer"}
  /\ ReadEndpoint = {"register", "remote"} /\ ReadBoth = {"rqe", "deliver", "open", "dropped"}
BY DEF Unsent, SentEndpoint, SentBoth, UnreadSteps, ReadEndpoint, ReadBoth

LEMMA SendEndpointSides ==
  ASSUME TypeOK, NEW s \in Sides, NEW c \in Clients, SendEndpoint(s, c),
         Side(s, c), Side(Other(s), c)
  PROVE  Side(s, c)' /\ Side(Other(s), c)'
<1> DEFINE o == Other(s)
<1>1. /\ o \in Sides /\ o # s /\ Other(o) = s
      /\ s = "client" <=> o = "server"
      /\ s = "server" <=> o = "client"
  BY Ends
<1>2. pc[s][c] = "greet" /\ pc'[s][c] = "peer" /\ pc'[o][c] = pc[o][c]
  BY <1>1, MoveType DEF SendEndpoint, At, Steps
<1>3. <<"endpoint">> \in Seq(Items)
  BY DEF Items
<1>4. /\ stream'[s][c] = stream[s][c]
      /\ stream'[o][c] = IF ~PeerGone(s, c) THEN stream[o][c] \o <<"endpoint">> ELSE stream[o][c]
  <2>1. ToPeer(s, c, <<"endpoint">>)
    BY DEF SendEndpoint
  <2>2. \A t \in Sides, d \in Clients :
          stream'[t][d] = IF t = o /\ d = c /\ ~PeerGone(s, c)
                          THEN stream[t][d] \o <<"endpoint">> ELSE stream[t][d]
    BY <1>3, <2>1, ToPeerType
  <2>3. QED
    BY <1>1, <2>2
<1>5. task' = task /\ UNCHANGED <<qp, registered, remoteEnp, remoteMr>>
  BY DEF SendEndpoint, cardVars, remoteVars, serverVars
<1> HIDE DEF o
<1>6. /\ PeerGone(s, c)' <=> PeerGone(s, c)
      /\ ~PeerGone(o, c) /\ ~PeerGone(o, c)'
  BY <1>1, <1>2, <1>5 DEF PeerGone, o
<1>7. Side(s, c)'
  BY <1>1, <1>2, <1>4, <1>5, <1>6, StepSets DEF Side, StreamFits, SideReady, Ready, Gone, o
<1>8. CASE PeerGone(s, c)
  BY <1>1, <1>2, <1>4, <1>5, <1>6, <1>8, StepSets DEF Side, StreamFits, SideReady, Ready, Gone, o
<1>9. CASE ~PeerGone(s, c)
  <2>1. /\ pc[o][c] # "gone"
        /\ pc[o][c] \in UnreadSteps => stream[o][c] = <<>>
        /\ pc[o][c] \notin ReadEndpoint \union ReadBoth
    BY <1>1, <1>2, <1>6, <1>9, StepSets DEF Side, StreamFits, Gone, PeerGone, o
  <2>2. pc[o][c] \in UnreadSteps => stream'[o][c] = <<"endpoint">>
    BY <1>4, <1>9, <2>1, Streams
  <2>3. StreamFits(o, c)'
    BY <1>1, <1>2, <2>1, <2>2, StepSets DEF StreamFits, o
  <2>4. SideReady(o, c)'
    BY <1>1, <1>2, <1>5, <1>6, <2>1, StepSets DEF Side, SideReady, Ready, o
  <2>5. QED
    BY <1>7, <2>3, <2>4 DEF Side, o
<1>10. QED
  BY <1>7, <1>8, <1>9 DEF o

LEMMA RecvEndpointSides ==
  ASSUME TypeOK, NEW s \in Sides, NEW c \in Clients, RecvEndpoint(s, c),
         Side(s, c), Side(Other(s), c)
  PROVE  Side(s, c)' /\ Side(Other(s), c)'
<1> DEFINE o == Other(s)
<1>1. /\ o \in Sides /\ o # s /\ Other(o) = s
      /\ s = "client" <=> o = "server"
      /\ s = "server" <=> o = "client"
  BY Ends
<1>2. pc[s][c] = "peer" /\ pc'[s][c] = "register" /\ pc'[o][c] = pc[o][c]
  BY <1>1, MoveType DEF RecvEndpoint, At, Steps
<1>3. /\ stream[s][c] # <<>>
      /\ stream'[s][c] = Tail(stream[s][c]) /\ stream'[o][c] = stream[o][c]
  BY <1>1, StreamTail DEF RecvEndpoint, Read
<1>4. /\ remoteEnp'[s][c] = Head(stream[s][c]) /\ remoteEnp'[o][c] = remoteEnp[o][c]
      /\ Ready(s, c)' /\ qp'[o][c] = qp[o][c]
  <2>1. qp[s][c] \in {"INIT"} \union DeviceMay({"unready"})
    BY <1>2 DEF Side, SideReady
  <2>2. qp'[s][c] \in Connected(qp[s][c]) /\ qp'[o][c] = qp[o][c]
    BY <1>1 DEF RecvEndpoint, TypeOK
  <2>3. Ready(s, c)'
    BY <2>1, <2>2, DeviceStates DEF Connected, Ready
  <2>4. QED
    BY <1>1, <2>2, <2>3 DEF RecvEndpoint, Read, TypeOK
<1>5. UNCHANGED <<task, registered, remoteMr>>
  BY DEF RecvEndpoint, serverVars
<1> HIDE DEF o
<1>6. /\ PeerGone(s, c)' <=> PeerGone(s, c)
      /\ ~PeerGone(o, c) /\ ~PeerGone(o, c)'
  BY <1>1, <1>2, <1>5 DEF PeerGone, o
<1>7. Side(s, c)'
  BY <1>1, <1>2, <1>3, <1>4, <1>5, <1>6, StepSets, Streams DEF Side, StreamFits, SideReady, Ready, Gone, o
<1>8. Side(o, c)'
  BY <1>1, <1>2, <1>3, <1>4, <1>5, <1>6, StepSets DEF Side, StreamFits, SideReady, Ready, Gone, o
<1>9. QED
  BY <1>7, <1>8 DEF o

LEMMA RecvEndpointFailsSides ==
  ASSUME TypeOK, NEW s \in Sides, NEW c \in Clients, RecvEndpointFails(s, c),
         Side(s, c), Side(Other(s), c)
  PROVE  Side(s, c)' /\ Side(Other(s), c)'
<1> DEFINE o == Other(s)
<1>1. /\ o \in Sides /\ o # s /\ Other(o) = s
      /\ s = "client" <=> o = "server"
      /\ s = "server" <=> o = "client"
  BY Ends
<1>2. pc[s][c] = "peer" /\ pc'[s][c] = "register" /\ pc'[o][c] = pc[o][c]
  BY <1>1, MoveType DEF RecvEndpointFails, At, Steps
<1>3. PeerGone(s, c) /\ stream'[s][c] = <<>> /\ stream'[o][c] = stream[o][c]
  BY <1>1 DEF RecvEndpointFails, TypeOK
<1>4. /\ remoteEnp'[s][c] = "zeroes" /\ remoteEnp'[o][c] = remoteEnp[o][c]
      /\ qp'[o][c] = qp[o][c]
  BY <1>1 DEF RecvEndpointFails, TypeOK
<1>5. UNCHANGED <<task, registered, remoteMr>>
  BY DEF RecvEndpointFails, serverVars
<1> HIDE DEF o
<1>6. /\ PeerGone(s, c)'
      /\ ~PeerGone(o, c) /\ ~PeerGone(o, c)'
  BY <1>1, <1>2, <1>3, <1>5 DEF PeerGone, o
<1>7. Side(s, c)'
  BY <1>1, <1>2, <1>3, <1>4, <1>5, <1>6, StepSets DEF Side, StreamFits, SideReady, Ready, Gone, o
<1>8. Side(o, c)'
  BY <1>1, <1>2, <1>3, <1>4, <1>5, <1>6, StepSets DEF Side, StreamFits, SideReady, Ready, Gone, o
<1>9. QED
  BY <1>7, <1>8 DEF o

LEMMA SendMrSides ==
  ASSUME TypeOK, NEW s \in Sides, NEW c \in Clients, SendMr(s, c),
         Side(s, c), Side(Other(s), c)
  PROVE  Side(s, c)' /\ Side(Other(s), c)'
<1> DEFINE o == Other(s)
<1>1. /\ o \in Sides /\ o # s /\ Other(o) = s
      /\ s = "client" <=> o = "server"
      /\ s = "server" <=> o = "client"
  BY Ends
<1>2. pc[s][c] = "register" /\ pc'[s][c] = "remote" /\ pc'[o][c] = pc[o][c]
  BY <1>1, MoveType DEF SendMr, At, Steps
<1>3. <<"mr">> \in Seq(Items)
  BY DEF Items
<1>4. /\ stream'[s][c] = stream[s][c]
      /\ stream'[o][c] = IF ~PeerGone(s, c) THEN stream[o][c] \o <<"mr">> ELSE stream[o][c]
  <2>1. ToPeer(s, c, <<"mr">>)
    BY DEF SendMr
  <2>2. \A t \in Sides, d \in Clients :
          stream'[t][d] = IF t = o /\ d = c /\ ~PeerGone(s, c)
                          THEN stream[t][d] \o <<"mr">> ELSE stream[t][d]
    BY <1>3, <2>1, ToPeerType
  <2>3. QED
    BY <1>1, <2>2
<1>5. /\ UNCHANGED <<task, qp, remoteEnp, remoteMr>>
      /\ registered'[s][c] = TRUE /\ registered'[o][c] = registered[o][c]
  BY <1>1 DEF SendMr, remoteVars, serverVars, TypeOK
<1> HIDE DEF o
<1>6. /\ PeerGone(s, c)' <=> PeerGone(s, c)
      /\ ~PeerGone(o, c) /\ ~PeerGone(o, c)'
  BY <1>1, <1>2, <1>5 DEF PeerGone, o
<1>7. Side(s, c)'
  BY <1>1, <1>2, <1>4, <1>5, <1>6, StepSets DEF Side, StreamFits, SideReady, Ready, Gone, o
<1>8. CASE PeerGone(s, c)
  BY <1>1, <1>2, <1>4, <1>5, <1>6, <1>8, StepSets DEF Side, StreamFits, SideReady, Ready, Gone, o
<1>9. CASE ~PeerGone(s, c)
  <2>1. /\ pc[o][c] # "gone"
        /\ pc[o][c] \in UnreadSteps => stream[o][c] = <<"endpoint">>
        /\ pc[o][c] \in ReadEndpoint => stream[o][c] = <<>>
        /\ pc[o][c] \notin ReadBoth
    BY <1>1, <1>2, <1>6, <1>9, StepSets DEF Side, StreamFits, Gone, PeerGone, o
  <2>2. /\ pc[o][c] \in UnreadSteps => stream'[o][c] = <<"endpoint", "mr">>
        /\ pc[o][c] \in ReadEndpoint => stream'[o][c] = <<"mr">>
    BY <1>4, <1>9, <2>1, Streams
  <2>3. StreamFits(o, c)'
    BY <1>1, <1>2, <2>1, <2>2, StepSets DEF StreamFits, o
  <2>4. SideReady(o, c)'
    BY <1>1, <1>2, <1>5, <1>6, <2>1, StepSets DEF Side, SideReady, Ready, o
  <2>5. QED
    BY <1>7, <2>3, <2>4 DEF Side, o
<1>10. QED
  BY <1>7, <1>8, <1>9 DEF o

LEMMA RecvMrSides ==
  ASSUME TypeOK, NEW s \in Sides, NEW c \in Clients, RecvMr(s, c),
         Side(s, c), Side(Other(s), c)
  PROVE  Side(s, c)' /\ Side(Other(s), c)'
<1> DEFINE o == Other(s)
<1>1. /\ o \in Sides /\ o # s /\ Other(o) = s
      /\ s = "client" <=> o = "server"
      /\ s = "server" <=> o = "client"
  BY Ends
<1>2. pc[s][c] = "remote" /\ pc'[s][c] = "rqe" /\ pc'[o][c] = pc[o][c]
  BY <1>1, MoveType DEF RecvMr, At, Steps
<1>3. /\ stream[s][c] # <<>>
      /\ stream'[s][c] = Tail(stream[s][c]) /\ stream'[o][c] = stream[o][c]
  BY <1>1, StreamTail DEF RecvMr, Read
<1>4. remoteMr'[s][c] = Head(stream[s][c]) /\ remoteMr'[o][c] = remoteMr[o][c]
  BY <1>1 DEF RecvMr, Read, TypeOK
<1>5. UNCHANGED <<task, qp, registered, remoteEnp>>
  BY DEF RecvMr, serverVars, cardVars
<1> HIDE DEF o
<1>6. /\ PeerGone(s, c)' <=> PeerGone(s, c)
      /\ ~PeerGone(o, c) /\ ~PeerGone(o, c)'
  BY <1>1, <1>2, <1>5 DEF PeerGone, o
<1>7. Side(s, c)'
  BY <1>1, <1>2, <1>3, <1>4, <1>5, <1>6, StepSets, Streams DEF Side, StreamFits, SideReady, Ready, Gone, o
<1>8. Side(o, c)'
  BY <1>1, <1>2, <1>3, <1>4, <1>5, <1>6, StepSets DEF Side, StreamFits, SideReady, Ready, Gone, o
<1>9. QED
  BY <1>7, <1>8 DEF o

LEMMA ExchangePanicsSides ==
  ASSUME TypeOK, NEW s \in Sides, NEW c \in Clients, ExchangePanics(s, c),
         Side(s, c), Side(Other(s), c)
  PROVE  Side(s, c)' /\ Side(Other(s), c)'
<1> DEFINE o == Other(s)
<1>1. /\ o \in Sides /\ o # s /\ Other(o) = s
      /\ s = "client" <=> o = "server"
      /\ s = "server" <=> o = "client"
  BY Ends
<1>2. pc[s][c] \in {"register", "remote"} /\ pc'[s][c] = "gone" /\ pc'[o][c] = pc[o][c]
  BY <1>1, MoveType DEF ExchangePanics, At, Steps
<1>3. PeerGone(s, c) /\ (task = "stopped" => task' = "stopped")
  BY DEF ExchangePanics
<1>4. UNCHANGED <<stream, qp, registered, remoteEnp, remoteMr>>
  BY DEF ExchangePanics, cardVars, remoteVars
<1> HIDE DEF o
<1>5. PeerGone(s, c)' /\ ~PeerGone(o, c) /\ PeerGone(o, c)'
  BY <1>1, <1>2, <1>3 DEF PeerGone, o
<1>6. Side(s, c)'
  BY <1>1, <1>2, <1>4, <1>5, StepSets DEF Side, StreamFits, SideReady, Ready, Gone, o
<1>7. Side(o, c)'
  BY <1>1, <1>2, <1>3, <1>4, <1>5, StepSets DEF Side, StreamFits, SideReady, Ready, Gone, o
<1>8. QED
  BY <1>6, <1>7 DEF o

LEMMA DevicePanicsSides ==
  ASSUME TypeOK, NEW s \in Sides, NEW c \in Clients, DevicePanics(s, c),
         Side(s, c), Side(Other(s), c)
  PROVE  Side(s, c)' /\ Side(Other(s), c)'
<1> DEFINE o == Other(s)
<1>1. /\ o \in Sides /\ o # s /\ Other(o) = s
      /\ s = "client" <=> o = "server"
      /\ s = "server" <=> o = "client"
  BY Ends
<1>2. pc[s][c] = "greet" /\ pc'[s][c] = "gone" /\ pc'[o][c] = pc[o][c]
  BY <1>1, MoveType DEF DevicePanics, At, Steps
<1>3. task = "stopped" => task' = "stopped"
  BY DEF DevicePanics
<1>4. UNCHANGED <<stream, qp, registered, remoteEnp, remoteMr>>
  BY DEF DevicePanics, cardVars, remoteVars
<1> HIDE DEF o
<1>5. ~PeerGone(o, c) /\ PeerGone(o, c)' /\ (PeerGone(s, c) => PeerGone(s, c)')
  BY <1>1, <1>2, <1>3 DEF PeerGone, o
<1>6. Side(s, c)'
  BY <1>1, <1>2, <1>4, <1>5, StepSets DEF Side, StreamFits, SideReady, Ready, Gone, o
<1>7. SideReady(o, c)'
  BY <1>1, <1>2, <1>4, <1>5, StepSets DEF Side, SideReady, Ready, o
<1>8. StreamFits(o, c)'
  BY <1>1, <1>2, <1>4, <1>5, StepSets DEF Side, StreamFits, Gone, PeerGone, o
<1>9. QED
  BY <1>6, <1>7, <1>8 DEF Side, o

LEMMA NewConnSides ==
  ASSUME TypeOK, NEW s \in Sides, NEW c \in Clients, NewConn(s, c),
         Side(s, c), Side(Other(s), c)
  PROVE  Side(s, c)' /\ Side(Other(s), c)'
<1> DEFINE o == Other(s)
<1>1. /\ o \in Sides /\ o # s /\ Other(o) = s
      /\ s = "client" <=> o = "server"
      /\ s = "server" <=> o = "client"
  BY Ends
<1>2. pc[s][c] = "rqe" /\ pc'[s][c] \in {"open", "deliver"} /\ pc'[o][c] = pc[o][c]
  BY <1>1, MoveType DEF NewConn, At, Steps
<1>3. UNCHANGED <<task, stream, qp, registered, remoteEnp, remoteMr>>
  BY DEF NewConn, remoteVars, serverVars
<1> HIDE DEF o
<1>4. /\ PeerGone(s, c)' <=> PeerGone(s, c)
      /\ ~PeerGone(o, c) /\ ~PeerGone(o, c)'
  BY <1>1, <1>2, <1>3 DEF PeerGone, o
<1>5. Side(s, c)'
  BY <1>1, <1>2, <1>3, <1>4, StepSets DEF Side, StreamFits, SideReady, Ready, Gone, o
<1>6. Side(o, c)'
  BY <1>1, <1>2, <1>3, <1>4, StepSets DEF Side, StreamFits, SideReady, Ready, Gone, o
<1>7. QED
  BY <1>5, <1>6 DEF o

(* What every part of the exchange leaves alone, and where it leads.       *)
SideStep(s, c) == Exchange(s, c) \/ DevicePanics(s, c)

LEMMA ExchangeMoves ==
  ASSUME TypeOK, NEW s \in Sides, NEW c \in Clients, SideStep(s, c)
  PROVE  /\ pc[s][c] \in {"greet", "peer", "register", "remote", "rqe"}
         /\ pc'[s][c] \in {"peer", "register", "remote", "rqe", "deliver", "open", "gone"}
         /\ s = "server" => pc'[s][c] # "open"
         /\ \A t \in Sides, d \in Clients : t # s \/ d # c => pc'[t][d] = pc[t][d]
         /\ backlog' = backlog
         /\ s = "server" /\ pc'[s][c] = "gone" => task' = "stopped"
         /\ s = "client" \/ pc'[s][c] # "gone" => task' = task
         /\ task = "stopped" => task' = "stopped"
<1>1. CASE SendEndpoint(s, c)
  BY <1>1, MoveType DEF SendEndpoint, At, Steps, serverVars
<1>2. CASE RecvEndpoint(s, c)
  BY <1>2, MoveType DEF RecvEndpoint, At, Steps, serverVars
<1>3. CASE RecvEndpointFails(s, c)
  BY <1>3, MoveType DEF RecvEndpointFails, At, Steps, serverVars
<1>4. CASE SendMr(s, c)
  BY <1>4, MoveType DEF SendMr, At, Steps, serverVars
<1>5. CASE RecvMr(s, c)
  BY <1>5, MoveType DEF RecvMr, At, Steps, serverVars
<1>6. CASE ExchangePanics(s, c)
  BY <1>6, MoveType DEF ExchangePanics, At, Steps, Sides
<1>7. CASE NewConn(s, c)
  BY <1>7, MoveType DEF NewConn, At, Steps, serverVars, Sides
<1>8. CASE DevicePanics(s, c)
  BY <1>8, MoveType DEF DevicePanics, At, Steps, Sides
<1>9. QED
  BY <1>1, <1>2, <1>3, <1>4, <1>5, <1>6, <1>7, <1>8 DEF Exchange, SideStep

LEMMA ExchangeLocal ==
  ASSUME TypeOK, NEW s \in Sides, NEW c \in Clients, SideStep(s, c),
         NEW t \in Sides, NEW d \in Clients, d # c
  PROVE  /\ stream'[t][d] = stream[t][d] /\ qp'[t][d] = qp[t][d]
         /\ registered'[t][d] = registered[t][d]
         /\ remoteEnp'[t][d] = remoteEnp[t][d] /\ remoteMr'[t][d] = remoteMr[t][d]
<1> Other(s) \in Sides
  BY OtherSide
<1>1. CASE SendEndpoint(s, c)
  <2>1. <<"endpoint">> \in Seq(Items)
    BY DEF Items
  <2>2. ToPeer(s, c, <<"endpoint">>)
    BY <1>1 DEF SendEndpoint
  <2>3. stream'[t][d] = stream[t][d]
    <3>1. \A u \in Sides, e \in Clients :
            stream'[u][e] = IF u = Other(s) /\ e = c /\ ~PeerGone(s, c)
                            THEN stream[u][e] \o <<"endpoint">> ELSE stream[u][e]
      BY <2>1, <2>2, ToPeerType
    <3>2. QED
      BY <3>1
  <2>4. QED
    BY <1>1, <2>3 DEF SendEndpoint, cardVars, remoteVars
<1>2. CASE RecvEndpoint(s, c)
  BY <1>2 DEF RecvEndpoint, Read, TypeOK
<1>3. CASE RecvEndpointFails(s, c)
  BY <1>3 DEF RecvEndpointFails, TypeOK
<1>4. CASE SendMr(s, c)
  <2>1. <<"mr">> \in Seq(Items)
    BY DEF Items
  <2>2. ToPeer(s, c, <<"mr">>)
    BY <1>4 DEF SendMr
  <2>3. stream'[t][d] = stream[t][d]
    <3>1. \A u \in Sides, e \in Clients :
            stream'[u][e] = IF u = Other(s) /\ e = c /\ ~PeerGone(s, c)
                            THEN stream[u][e] \o <<"mr">> ELSE stream[u][e]
      BY <2>1, <2>2, ToPeerType
    <3>2. QED
      BY <3>1
  <2>4. QED
    BY <1>4, <2>3 DEF SendMr, remoteVars, TypeOK
<1>5. CASE RecvMr(s, c)
  BY <1>5 DEF RecvMr, Read, cardVars, TypeOK
<1>6. CASE ExchangePanics(s, c)
  BY <1>6 DEF ExchangePanics, cardVars, remoteVars
<1>7. CASE NewConn(s, c)
  BY <1>7 DEF NewConn, remoteVars
<1>8. CASE DevicePanics(s, c)
  BY <1>8 DEF DevicePanics, cardVars, remoteVars
<1>9. QED
  BY <1>1, <1>2, <1>3, <1>4, <1>5, <1>6, <1>7, <1>8 DEF Exchange, SideStep

AllSides == \A s \in Sides, c \in Clients : Side(s, c)

LEMMA ExchangeSides ==
  ASSUME TypeOK, AllSides, NEW s \in Sides, NEW c \in Clients, SideStep(s, c)
  PROVE  AllSides'
<1>1. Side(s, c)' /\ Side(Other(s), c)'
  <2>1. Side(s, c) /\ Side(Other(s), c)
    BY OtherSide DEF AllSides
  <2>2. QED
    BY <2>1, SendEndpointSides, RecvEndpointSides, RecvEndpointFailsSides, SendMrSides,
       RecvMrSides, ExchangePanicsSides, NewConnSides, DevicePanicsSides
       DEF Exchange, SideStep
<1>2. ASSUME NEW t \in Sides, NEW d \in Clients, d # c PROVE Side(t, d)'
  <2>1. Side(t, d)
    BY DEF AllSides
  <2>2. \A u \in Sides : pc'[u][d] = pc[u][d]
    BY <1>2, ExchangeMoves
  <2>3. task = "stopped" => task' = "stopped"
    BY ExchangeMoves
  <2>4. QED
    BY <1>2, <2>1, <2>2, <2>3, ExchangeLocal, SameSide
<1>3. QED
  BY <1>1, <1>2, SideOrOther DEF AllSides

LEMMA ExchangeOrder ==
  ASSUME TypeOK, OneSetup, BacklogWaits, NEW s \in Sides, NEW c \in Clients, SideStep(s, c)
  PROVE  OneSetup' /\ BacklogWaits'
<1> "client" \in Sides /\ "server" \in Sides
  BY DEF Sides
<1>1. backlog \in Seq(Clients)
  BY DEF TypeOK
<1>2. CASE s = "client"
  <2>1. /\ \A d \in Clients : pc'["server"][d] = pc["server"][d]
        /\ task' = task /\ backlog' = backlog
        /\ \A d \in Clients : pc'["client"][d] \in {"none", "refused"} =>
                                pc["client"][d] \in {"none", "refused"}
    BY <1>2, ExchangeMoves
  <2>2. QED
    BY <1>1, <2>1, ElementOfSeq DEF OneSetup, BacklogWaits, InSetup
<1>3. CASE s = "server"
  <2>1. /\ InSetup(c)
        /\ \A d \in Clients : InSetup(d)' => InSetup(d)
        /\ \A d \in Clients : pc["server"][d] = "none" => pc'["server"][d] = "none"
        /\ \A d \in Clients : pc'["client"][d] = pc["client"][d]
        /\ backlog' = backlog
        /\ InSetup(c)' => task' = task
        /\ task' = task \/ ~InSetup(c)'
    BY <1>3, ExchangeMoves DEF InSetup
  <2>2. OneSetup'
    BY <2>1 DEF OneSetup
  <2>3. BacklogWaits'
    BY <1>1, <2>1, ElementOfSeq DEF BacklogWaits
  <2>4. QED
    BY <2>2, <2>3
<1>4. QED
  BY <1>2, <1>3 DEF Sides

(* The other steps.                                                        *)
LEMMA ConnectSides ==
  ASSUME TypeOK, AllSides, OneSetup, BacklogWaits, NEW c \in Clients, Connect(c)
  PROVE  AllSides' /\ OneSetup' /\ BacklogWaits'
<1> "client" \in Sides /\ "server" \in Sides /\ Other("client") = "server"
    /\ Other("server") = "client"
  BY DEF Sides, Other
<1>1. /\ pc["client"][c] = "none"
      /\ \A t \in Sides, d \in Clients :
           pc'[t][d] = IF t = "client" /\ d = c THEN "greet" ELSE pc[t][d]
  BY MoveType DEF Connect, At, Steps
<1>2. backlog' = Append(backlog, c) /\ backlog \in Seq(Clients) /\ task' = task
      /\ UNCHANGED <<stream, registered, remoteEnp, remoteMr>>
  BY DEF Connect, remoteVars, TypeOK
<1>3. /\ \A t \in Sides, d \in Clients : t # "client" \/ d # c => qp'[t][d] = qp[t][d]
      /\ qp'["client"][c] \in {"INIT"} \union DeviceMay({"unready"})
  BY DEF Connect, InitQp, TypeOK
<1>4. ASSUME NEW t \in Sides, NEW d \in Clients PROVE Side(t, d)'
  <2>1. CASE d # c
    BY <1>1, <1>2, <1>3, <2>1, SameSide DEF AllSides
  <2>2. CASE d = c
    <3>1. Side("client", c) /\ Side("server", c)
      BY DEF AllSides
    <3>2. \A u \in Sides : PeerGone(u, c)' <=> PeerGone(u, c)
      BY <1>1, <1>2, OtherSide DEF PeerGone
    <3>3. Side("client", c)'
      BY <1>1, <1>2, <1>3, <3>1, <3>2, StepSets DEF Side, StreamFits, SideReady, Ready, Gone
    <3>4. Side("server", c)'
      BY <1>1, <1>2, <1>3, <3>1, <3>2, StepSets DEF Side, StreamFits, SideReady, Ready, Gone
    <3>5. QED
      BY <2>2, <3>3, <3>4 DEF Sides
  <2>3. QED
    BY <2>1, <2>2
<1>5. OneSetup'
  BY <1>1, <1>2 DEF OneSetup, InSetup
<1>6. BacklogWaits'
  <2>1. /\ Len(backlog') = Len(backlog) + 1 /\ DOMAIN backlog' = 1..(Len(backlog) + 1)
        /\ DOMAIN backlog = 1..Len(backlog) /\ Len(backlog) \in Nat
        /\ \A i \in 1..Len(backlog) : backlog'[i] = backlog[i] /\ backlog[i] \in Clients
        /\ backlog'[Len(backlog) + 1] = c
    BY <1>2
  <2>2. /\ pc["server"][c] = "none"
        /\ \A i \in 1..Len(backlog) : backlog[i] # c
    BY <1>1, <2>1 DEF BacklogWaits
  <2>3. \A i \in DOMAIN backlog' : i \in 1..Len(backlog) \/ i = Len(backlog) + 1
    BY <2>1
  <2>4. \A i \in DOMAIN backlog' : pc'["server"][backlog'[i]] = "none"
    BY <1>1, <2>1, <2>2, <2>3 DEF BacklogWaits
  <2>5. \A i, j \in DOMAIN backlog' : i # j => backlog'[i] # backlog'[j]
    BY <2>1, <2>2, <2>3 DEF BacklogWaits
  <2>6. ASSUME NEW d \in Clients, pc'["client"][d] \in {"none", "refused"}
        PROVE  /\ pc'["server"][d] = "none"
               /\ \A i \in DOMAIN backlog' : backlog'[i] # d
    <3>1. d # c /\ pc["client"][d] \in {"none", "refused"}
      BY <1>1, <2>6
    <3>2. QED
      BY <1>1, <2>1, <2>3, <3>1 DEF BacklogWaits
  <2>7. QED
    BY <2>4, <2>5, <2>6 DEF BacklogWaits
<1>7. QED
  BY <1>4, <1>5, <1>6 DEF AllSides

LEMMA AcceptSides ==
  ASSUME TypeOK, AllSides, OneSetup, BacklogWaits, Accept
  PROVE  AllSides' /\ OneSetup' /\ BacklogWaits'
<1> "client" \in Sides /\ "server" \in Sides /\ Other("client") = "server"
    /\ Other("server") = "client"
  BY DEF Sides, Other
<1>1. /\ backlog \in Seq(Clients) /\ backlog # <<>> /\ backlog' = Tail(backlog)
      /\ task = "accept" /\ task' = "setup"
      /\ UNCHANGED <<stream, registered, remoteEnp, remoteMr>>
  BY DEF Accept, remoteVars, TypeOK
<1>2. PICK c \in Clients : c = Head(backlog)
  BY <1>1
<1>3. /\ DOMAIN backlog = 1..Len(backlog) /\ Len(backlog) \in Nat /\ Len(backlog) > 0
      /\ \A i \in 1..Len(backlog) : backlog[i] \in Clients
      /\ c = backlog[1]
      /\ DOMAIN backlog' = 1..(Len(backlog) - 1)
      /\ \A i \in 1..(Len(backlog) - 1) : backlog'[i] = backlog[i + 1]
  BY <1>1, <1>2
<1>4. /\ pc["server"][c] = "none"
      /\ \A i \in 1..(Len(backlog) - 1) : backlog[i + 1] # c
      /\ pc["client"][c] \notin {"none", "refused"}
  BY <1>3 DEF BacklogWaits
<1>5. \A t \in Sides, d \in Clients :
        pc'[t][d] = IF t = "server" /\ d = c THEN "greet" ELSE pc[t][d]
  BY <1>2, MoveType DEF Accept, Steps
<1>6. /\ \A t \in Sides, d \in Clients : t # "server" \/ d # c => qp'[t][d] = qp[t][d]
      /\ qp'["server"][c] \in {"INIT"} \union DeviceMay({"unready"})
  BY <1>2 DEF Accept, InitQp, TypeOK
<1>7. ASSUME NEW t \in Sides, NEW d \in Clients PROVE Side(t, d)'
  <2>1. CASE d # c
    BY <1>1, <1>5, <1>6, <2>1, SameSide DEF AllSides
  <2>2. CASE d = c
    <3>1. Side("client", c) /\ Side("server", c)
      BY DEF AllSides
    <3>2. \A u \in Sides : PeerGone(u, c)' <=> PeerGone(u, c)
      BY <1>1, <1>4, <1>5, OtherSide DEF PeerGone
    <3>3. Side("client", c)'
      BY <1>1, <1>4, <1>5, <1>6, <3>1, <3>2, StepSets DEF Side, StreamFits, SideReady, Ready, Gone
    <3>4. Side("server", c)'
      BY <1>1, <1>4, <1>5, <1>6, <3>1, <3>2, StepSets DEF Side, StreamFits, SideReady, Ready, Gone
    <3>5. QED
      BY <2>2, <3>3, <3>4 DEF Sides
  <2>3. QED
    BY <2>1, <2>2
<1>8. OneSetup'
  BY <1>1, <1>5 DEF OneSetup, InSetup
<1>9. BacklogWaits'
  <2>1. \A i \in DOMAIN backlog' : i + 1 \in 1..Len(backlog) /\ backlog'[i] = backlog[i + 1]
    BY <1>3
  <2>2. \A i \in DOMAIN backlog' : pc'["server"][backlog'[i]] = "none"
    BY <1>3, <1>4, <1>5, <2>1 DEF BacklogWaits
  <2>3. \A i, j \in DOMAIN backlog' : i # j => backlog'[i] # backlog'[j]
    BY <1>3, <2>1 DEF BacklogWaits
  <2>4. ASSUME NEW d \in Clients, pc'["client"][d] \in {"none", "refused"}
        PROVE  /\ pc'["server"][d] = "none"
               /\ \A i \in DOMAIN backlog' : backlog'[i] # d
    BY <1>3, <1>4, <1>5, <2>1, <2>4 DEF BacklogWaits
  <2>5. QED
    BY <2>2, <2>3, <2>4 DEF BacklogWaits
<1>10. QED
  BY <1>7, <1>8, <1>9 DEF AllSides

LEMMA DeliverSides ==
  ASSUME TypeOK, AllSides, OneSetup, BacklogWaits, NEW c \in Clients, Deliver(c)
  PROVE  AllSides' /\ OneSetup' /\ BacklogWaits'
<1> "client" \in Sides /\ "server" \in Sides /\ Other("client") = "server"
    /\ Other("server") = "client"
  BY DEF Sides, Other
<1>1. /\ pc["server"][c] = "deliver"
      /\ \A t \in Sides, d \in Clients :
           pc'[t][d] = IF t = "server" /\ d = c THEN "open" ELSE pc[t][d]
  BY MoveType DEF Deliver, At, Steps
<1>2. task' = "accept" /\ task = "setup"
  BY <1>1 DEF Deliver, OneSetup, InSetup
<1>3. UNCHANGED <<stream, qp, registered, remoteEnp, remoteMr, backlog>>
  BY DEF Deliver, cardVars, remoteVars
<1>4. ASSUME NEW t \in Sides, NEW d \in Clients PROVE Side(t, d)'
  <2>1. CASE d # c
    BY <1>1, <1>2, <1>3, <2>1, SameSide DEF AllSides
  <2>2. CASE d = c
    <3>1. Side("client", c) /\ Side("server", c)
      BY DEF AllSides
    <3>2. \A u \in Sides : PeerGone(u, c)' <=> PeerGone(u, c)
      BY <1>1, <1>2, OtherSide DEF PeerGone
    <3>3. Side("client", c)'
      BY <1>1, <1>3, <3>1, <3>2, StepSets DEF Side, StreamFits, SideReady, Ready, Gone
    <3>4. Side("server", c)'
      BY <1>1, <1>3, <3>1, <3>2, StepSets DEF Side, StreamFits, SideReady, Ready, Gone
    <3>5. QED
      BY <2>2, <3>3, <3>4 DEF Sides
  <2>3. QED
    BY <2>1, <2>2
<1>5. OneSetup'
  BY <1>1, <1>2 DEF OneSetup, InSetup
<1>6. BacklogWaits'
  <2>1. backlog \in Seq(Clients)
    BY DEF TypeOK
  <2>2. QED
    BY <1>1, <1>3, <2>1, ElementOfSeq DEF BacklogWaits
<1>7. QED
  BY <1>4, <1>5, <1>6 DEF AllSides

LEMMA DeliverFailsSides ==
  ASSUME TypeOK, AllSides, OneSetup, BacklogWaits, NEW c \in Clients, DeliverFails(c)
  PROVE  AllSides' /\ OneSetup' /\ BacklogWaits'
<1> "client" \in Sides /\ "server" \in Sides /\ Other("client") = "server"
    /\ Other("server") = "client"
  BY DEF Sides, Other
<1>1. /\ pc["server"][c] = "deliver"
      /\ \A t \in Sides, d \in Clients :
           pc'[t][d] = IF t = "server" /\ d = c THEN "dropped" ELSE pc[t][d]
  BY MoveType DEF DeliverFails, At, Steps
<1>2. /\ task' = "stopped"
      /\ UNCHANGED <<stream, qp, remoteEnp, remoteMr, backlog>>
      /\ \A t \in Sides, d \in Clients :
           t # "server" \/ d # c => registered'[t][d] = registered[t][d]
  BY DEF DeliverFails, remoteVars, TypeOK
<1>3. ASSUME NEW t \in Sides, NEW d \in Clients PROVE Side(t, d)'
  <2>1. CASE d # c
    BY <1>1, <1>2, <2>1, SameSide DEF AllSides
  <2>2. CASE d = c
    <3>1. Side("client", c) /\ Side("server", c)
      BY DEF AllSides
    <3>2. \A u \in Sides : PeerGone(u, c)' <=> PeerGone(u, c)
      BY <1>1, <1>2, OtherSide DEF PeerGone
    <3>3. Side("client", c)'
      BY <1>1, <1>2, <3>1, <3>2, StepSets DEF Side, StreamFits, SideReady, Ready, Gone
    <3>4. Side("server", c)'
      BY <1>1, <1>2, <3>1, <3>2, StepSets DEF Side, StreamFits, SideReady, Ready, Gone
    <3>5. QED
      BY <2>2, <3>3, <3>4 DEF Sides
  <2>3. QED
    BY <2>1, <2>2
<1>4. OneSetup'
  BY <1>1 DEF OneSetup, InSetup
<1>5. BacklogWaits'
  <2>1. backlog \in Seq(Clients)
    BY DEF TypeOK
  <2>2. QED
    BY <1>1, <1>2, <2>1, ElementOfSeq DEF BacklogWaits
<1>6. QED
  BY <1>3, <1>4, <1>5 DEF AllSides

LEMMA DropServerSides ==
  ASSUME TypeOK, AllSides, OneSetup, BacklogWaits, ChannelHolds, DropServer
  PROVE  AllSides' /\ OneSetup' /\ BacklogWaits'
<1> "client" \in Sides /\ "server" \in Sides /\ Other("client") = "server"
    /\ Other("server") = "client" /\ "client" # "server"
  BY DEF Sides, Other
<1>1. /\ \A d \in Clients : pc'["client"][d] = pc["client"][d]
      /\ \A d \in Clients :
           pc'["server"][d] = IF InChannel(d) THEN "dropped" ELSE pc["server"][d]
  BY DEF DropServer, TypeOK
<1>2. /\ UNCHANGED <<stream, qp, remoteEnp, remoteMr, backlog, task>>
      /\ \A d \in Clients : registered'["client"][d] = registered["client"][d]
      /\ \A d \in Clients : ~InChannel(d) => registered'["server"][d] = registered["server"][d]
  BY DEF DropServer, remoteVars, TypeOK
<1>3. \A d \in Clients : InChannel(d) => pc["server"][d] = "open"
  BY DEF ChannelHolds
<1>4. ASSUME NEW t \in Sides, NEW d \in Clients PROVE Side(t, d)'
  <2>1. CASE ~InChannel(d)
    <3>1. \A u \in Sides : pc'[u][d] = pc[u][d] /\ registered'[u][d] = registered[u][d]
      BY <1>1, <1>2, <2>1 DEF Sides
    <3>2. QED
      BY <1>2, <3>1, SameSide DEF AllSides
  <2>2. CASE InChannel(d)
    <3>1. Side("client", d) /\ Side("server", d)
      BY DEF AllSides
    <3>2. pc["server"][d] = "open" /\ pc'["server"][d] = "dropped"
          /\ pc'["client"][d] = pc["client"][d]
      BY <1>1, <1>3, <2>2
    <3>3. \A u \in Sides : PeerGone(u, d)' <=> PeerGone(u, d)
      BY <3>2, OtherSide DEF PeerGone, Sides
    <3>4. Side("client", d)'
      BY <1>2, <3>1, <3>2, <3>3, StepSets DEF Side, StreamFits, SideReady, Ready, Gone
    <3>5. Side("server", d)'
      BY <1>2, <3>1, <3>2, <3>3, StepSets DEF Side, StreamFits, SideReady, Ready, Gone
    <3>6. QED
      BY <3>4, <3>5 DEF Sides
  <2>3. QED
    BY <2>1, <2>2
<1>5. OneSetup'
  BY <1>1, <1>2 DEF OneSetup, InSetup
<1>6. BacklogWaits'
  <2>1. \A d \in Clients : pc["server"][d] = "none" => pc'["server"][d] = "none"
    BY <1>1, <1>3
  <2>2. backlog \in Seq(Clients)
    BY DEF TypeOK
  <2>3. QED
    BY <1>1, <1>2, <2>1, <2>2, ElementOfSeq DEF BacklogWaits
<1>7. QED
  BY <1>4, <1>5, <1>6 DEF AllSides

(* A client whose connect is refused, or that dies.                        *)
LEMMA RefusedSides ==
  ASSUME TypeOK, AllSides, OneSetup, BacklogWaits, NEW c \in Clients,
         ConnectRefused(c) \/ Die(c)
  PROVE  AllSides' /\ OneSetup' /\ BacklogWaits'
<1> "client" \in Sides /\ "server" \in Sides /\ Other("client") = "server"
    /\ Other("server") = "client"
  BY DEF Sides, Other
<1>1. PICK to \in {"refused", "gone"} :
        /\ to = "refused" => pc["client"][c] = "none"
        /\ to = "gone" => pc["client"][c] \notin {"none", "refused"}
        /\ \A t \in Sides, d \in Clients :
             pc'[t][d] = IF t = "client" /\ d = c THEN to ELSE pc[t][d]
  BY MoveType DEF ConnectRefused, Die, At, Steps
<1>2. UNCHANGED <<stream, qp, registered, remoteEnp, remoteMr, backlog, task>>
  BY DEF ConnectRefused, Die, cardVars, remoteVars, serverVars
<1>3. ASSUME NEW t \in Sides, NEW d \in Clients PROVE Side(t, d)'
  <2>1. CASE d # c
    BY <1>1, <1>2, <2>1, SameSide DEF AllSides
  <2>2. CASE d = c
    <3>1. Side("client", c) /\ Side("server", c)
      BY DEF AllSides
    <3>2. /\ PeerGone("client", c)' <=> PeerGone("client", c)
          /\ PeerGone("server", c) => PeerGone("server", c)'
          /\ PeerGone("server", c)' <=> to = "gone"
      BY <1>1, <1>2 DEF PeerGone
    <3>3. Side("client", c)'
      BY <1>1, <1>2, <3>1, <3>2, StepSets DEF Side, StreamFits, SideReady, Ready, Gone
    <3>4. Side("server", c)'
      BY <1>1, <1>2, <3>1, <3>2, StepSets DEF Side, StreamFits, SideReady, Ready, Gone
    <3>5. QED
      BY <2>2, <3>3, <3>4 DEF Sides
  <2>3. QED
    BY <2>1, <2>2
<1>4. OneSetup'
  BY <1>1, <1>2 DEF OneSetup, InSetup
<1>5. BacklogWaits'
  <2>1. backlog \in Seq(Clients)
    BY DEF TypeOK
  <2>2. QED
    BY <1>1, <1>2, <2>1, ElementOfSeq DEF BacklogWaits
<1>6. QED
  BY <1>3, <1>4, <1>5 DEF AllSides

(* Only the task of the server moves, if anything of this does.            *)
LEMMA TaskSides ==
  ASSUME TypeOK, AllSides, OneSetup, BacklogWaits,
         UNCHANGED <<pc, stream, qp, registered, remoteEnp, remoteMr, backlog>>,
         task = "stopped" => task' = "stopped", task = "setup" => task' = "setup"
  PROVE  AllSides' /\ OneSetup' /\ BacklogWaits'
<1>1. AllSides'
  BY SameSide DEF AllSides
<1>2. OneSetup'
  BY DEF OneSetup, InSetup
<1>3. BacklogWaits'
  BY DEF BacklogWaits
<1>4. QED
  BY <1>1, <1>2, <1>3

(* The Conns in the channel.                                               *)
LEMMA ChannelSame ==
  ASSUME ChannelHolds, incoming' = incoming,
         \A d \in Clients : pc["server"][d] = "open" => pc'["server"][d] = "open"
  PROVE  ChannelHolds'
BY DEF ChannelHolds, InChannel

LEMMA ChannelNext == TypeOK /\ BacklogWaits /\ ChannelHolds /\ [Next]_vars => ChannelHolds'
<1> SUFFICES ASSUME TypeOK, BacklogWaits, ChannelHolds, [Next]_vars PROVE ChannelHolds'
  OBVIOUS
<1> "client" \in Sides /\ "server" \in Sides /\ "client" # "server"
  BY DEF Sides
<1>1. incoming \in Seq(Clients)
  BY DEF TypeOK
<1>2. ASSUME NEW s \in Sides, NEW c \in Clients, SideStep(s, c) PROVE ChannelHolds'
  <2>1. incoming' = incoming
    BY <1>2 DEF SideStep, Exchange, SendEndpoint, RecvEndpoint, RecvEndpointFails, SendMr,
       RecvMr, ExchangePanics, NewConn, DevicePanics, serverVars
  <2>2. /\ pc[s][c] # "open"
        /\ \A t \in Sides, d \in Clients : t # s \/ d # c => pc'[t][d] = pc[t][d]
    BY <1>2, ExchangeMoves
  <2>3. \A d \in Clients : pc["server"][d] = "open" => pc'["server"][d] = "open"
    BY <2>2
  <2>4. QED
    BY <2>1, <2>3, ChannelSame
<1>3. ASSUME NEW c \in Clients, Connect(c) \/ ConnectRefused(c) \/ Die(c)
      PROVE  ChannelHolds'
  <2>1. \A d \in Clients : pc'["server"][d] = pc["server"][d]
    BY <1>3, MoveType DEF Connect, ConnectRefused, Die, Steps
  <2>2. incoming' = incoming
    BY <1>3 DEF Connect, ConnectRefused, Die, serverVars
  <2>3. QED
    BY <2>1, <2>2, ChannelSame
<1>4. CASE Accept
  <2>1. Head(backlog) \in Clients /\ 1 \in DOMAIN backlog /\ Head(backlog) = backlog[1]
    BY <1>4 DEF Accept, TypeOK
  <2>2. pc["server"][Head(backlog)] = "none"
    BY <2>1 DEF BacklogWaits
  <2>3. \A d \in Clients : pc["server"][d] = "open" => pc'["server"][d] = "open"
    BY <1>4, <2>1, <2>2, MoveType DEF Accept, Steps
  <2>4. QED
    BY <1>4, <2>3, ChannelSame DEF Accept
<1>5. CASE Bind \/ ListenerFails \/ UNCHANGED vars
  <2>1. pc' = pc /\ incoming' = incoming
    BY <1>5 DEF Bind, ListenerFails, vars
  <2>2. QED
    BY <2>1, ChannelSame
<1>6. ASSUME NEW c \in Clients, Deliver(c) PROVE ChannelHolds'
  <2>1. \A d \in Clients : pc'["server"][d] = IF d = c THEN "open" ELSE pc["server"][d]
    BY <1>6, MoveType DEF Deliver, Steps
  <2>2. incoming' = Append(incoming, c)
    BY <1>6 DEF Deliver
  <2>3. ASSUME NEW d \in Clients, InChannel(d)' PROVE d = c \/ InChannel(d)
    <3>1. PICK i \in DOMAIN incoming' : incoming'[i] = d
      BY <2>3 DEF InChannel
    <3>2. /\ DOMAIN incoming = 1..Len(incoming) /\ Len(incoming) \in Nat
          /\ DOMAIN incoming' = 1..(Len(incoming) + 1)
          /\ incoming'[Len(incoming) + 1] = c
          /\ \A j \in 1..Len(incoming) : incoming'[j] = incoming[j]
      BY <1>1, <2>2
    <3>3. i \in 1..(Len(incoming) + 1) /\ incoming'[i] = d
      BY ONLY <3>1, <3>2
    <3>4. i = Len(incoming) + 1 \/ i \in 1..Len(incoming)
      BY <3>2, <3>3
    <3>5. QED
      BY <3>2, <3>3, <3>4 DEF InChannel
  <2>4. QED
    BY <2>1, <2>3 DEF ChannelHolds
<1>7. ASSUME NEW c \in Clients, DeliverFails(c) PROVE ChannelHolds'
  <2>1. pc["server"][c] = "deliver" /\ incoming' = incoming
    BY <1>7 DEF DeliverFails, At
  <2>2. \A d \in Clients : pc["server"][d] = "open" => pc'["server"][d] = "open"
    BY <1>7, <2>1, MoveType DEF DeliverFails, Steps
  <2>3. QED
    BY <2>1, <2>2, ChannelSame
<1>8. CASE AcceptConn
  <2>1. pc' = pc
    BY <1>8 DEF AcceptConn
  <2>2. CASE incoming # <<>> /\ incoming' = Tail(incoming)
    <3>1. ASSUME NEW d \in Clients, InChannel(d)' PROVE InChannel(d)
      <4>1. PICK i \in DOMAIN incoming' : incoming'[i] = d
        BY <3>1 DEF InChannel
      <4>2. i + 1 \in DOMAIN incoming /\ incoming[i + 1] = d
        BY <1>1, <2>2, <4>1
      <4>3. QED
        BY <4>2 DEF InChannel
    <3>2. QED
      BY <2>1, <3>1 DEF ChannelHolds
  <2>3. CASE incoming' = incoming
    BY <2>1, <2>3, ChannelSame
  <2>4. QED
    BY <1>8, <2>2, <2>3 DEF AcceptConn
<1>9. CASE DropServer
  BY <1>9 DEF DropServer, ChannelHolds, InChannel
<1>10. QED
  BY <1>2, <1>3, <1>4, <1>5, <1>6, <1>7, <1>8, <1>9 DEF Next, ServerStep, SideStep

LEMMA SetupInit == Init => SetupInv
<1> SUFFICES ASSUME Init PROVE SetupInv
  OBVIOUS
<1>1. ASSUME NEW s \in Sides, NEW c \in Clients PROVE StreamFits(s, c) /\ SideReady(s, c)
  BY OtherSide, StepSets DEF Init, StreamFits, SideReady
<1>2. OneSetup /\ BacklogWaits /\ ChannelHolds
  BY DEF Init, OneSetup, InSetup, BacklogWaits, ChannelHolds, InChannel, Sides
<1>3. QED
  BY <1>1, <1>2 DEF SetupInv

LEMMA SetupNext == TypeOK /\ SetupInv /\ [Next]_vars => SetupInv'
<1> SUFFICES ASSUME TypeOK, SetupInv, [Next]_vars PROVE SetupInv'
  OBVIOUS
<1> "client" \in Sides /\ "server" \in Sides
  BY DEF Sides
<1>1. AllSides /\ OneSetup /\ BacklogWaits /\ ChannelHolds
  BY DEF SetupInv, AllSides, Side
<1>2. ChannelHolds'
  BY <1>1, ChannelNext
<1>3. AllSides' /\ OneSetup' /\ BacklogWaits' => SetupInv'
  BY <1>2 DEF SetupInv, AllSides, Side
<1>4. ASSUME NEW s \in Sides, NEW c \in Clients, SideStep(s, c) PROVE SetupInv'
  BY <1>1, <1>3, <1>4, ExchangeSides, ExchangeOrder
<1>5. ASSUME NEW c \in Clients, Connect(c) PROVE SetupInv'
  BY <1>1, <1>3, <1>5, ConnectSides
<1>6. ASSUME NEW c \in Clients, ConnectRefused(c) \/ Die(c) PROVE SetupInv'
  BY <1>1, <1>3, <1>6, RefusedSides
<1>7. CASE Accept
  BY <1>1, <1>3, <1>7, AcceptSides
<1>8. ASSUME NEW c \in Clients, Deliver(c) \/ DeliverFails(c) PROVE SetupInv'
  BY <1>1, <1>3, <1>8, DeliverSides, DeliverFailsSides
<1>9. CASE DropServer
  BY <1>1, <1>3, <1>9, DropServerSides
<1>10. CASE Bind \/ ListenerFails \/ AcceptConn \/ UNCHANGED vars
  <2>1. /\ UNCHANGED <<pc, stream, qp, registered, remoteEnp, remoteMr, backlog>>
        /\ task = "stopped" => task' = "stopped"
        /\ task = "setup" => task' = "setup"
    BY <1>10 DEF Bind, ListenerFails, AcceptConn, vars, cardVars, remoteVars
  <2>2. QED
    BY <1>1, <1>3, <2>1, TaskSides
<1>11. QED
  BY <1>4, <1>5, <1>6, <1>7, <1>8, <1>9, <1>10 DEF Next, ServerStep, SideStep

LEMMA SetupAlways == Spec => [](TypeOK /\ SetupInv)
<1>1. Init => TypeOK /\ SetupInv
  BY TypeInit, SetupInit
<1>2. TypeOK /\ SetupInv /\ [Next]_vars => TypeOK' /\ SetupInv'
  BY TypeNext, SetupNext
<1>3. QED
  BY <1>1, <1>2, PTL DEF Spec

-----------------------------------------------------------------------------
(* How far the two sides of a set-up are tells what the stream holds, at   *)
(* every step of every client, and the server is in one set-up at a time   *)
(* (qp.rs: handshake and exchange; conn.rs: run).                          *)
THEOREM SetupKept == Spec => []SetupInv
BY SetupAlways, PTL

(* A Conn whose set-up has ended was made with the endpoint and the region *)
(* of its peer, whatever fails; its peer, unless it is gone or dropped, has *)
(* this side's endpoint and has registered the buffer this side writes to; *)
(* and both queue pairs are connected unless a device refused (conn.rs:    *)
(* connect, run; qp.rs: handshake, exchange_recv_buf).                     *)
THEOREM PeerIsReady == Spec => []OpenMeetsReadyPeer
<1>1. ASSUME SetupInv, NEW s \in Sides, NEW c \in Clients, At(s, c, "open")
      PROVE  /\ remoteEnp[s][c] = "endpoint" /\ remoteMr[s][c] = "mr"
             /\ Ready(s, c)
             /\ \/ pc[Other(s)][c] \in {"gone", "dropped"}
                \/ /\ remoteEnp[Other(s)][c] = "endpoint" /\ registered[Other(s)][c]
                   /\ Ready(Other(s), c)
  <2> DEFINE o == Other(s)
  <2>1. /\ o \in Sides /\ o # s /\ Other(o) = s
        /\ s = "client" <=> o = "server"
        /\ s = "server" <=> o = "client"
    BY Ends
  <2>2. pc[s][c] = "open"
    BY <1>1 DEF At
  <2>3. StreamFits(s, c) /\ SideReady(s, c) /\ StreamFits(o, c) /\ SideReady(o, c)
    BY <1>1, <2>1 DEF SetupInv
  <2> HIDE DEF o
  <2>4. remoteEnp[s][c] = "endpoint" /\ remoteMr[s][c] = "mr" /\ Ready(s, c)
    BY <2>2, <2>3, StepSets DEF SideReady
  <2>5. CASE pc[o][c] \notin {"gone", "dropped"}
    <3>1. ~PeerGone(o, c)
      BY <2>1, <2>2 DEF PeerGone, o
    <3>2. pc[o][c] \in SentBoth
      BY <2>2, <2>3, <2>5, <3>1, StepSets DEF StreamFits, Gone, o
    <3>3. ~PeerGone(s, c)
      BY <2>1, <2>2, <2>5, <3>2, StepSets DEF PeerGone, o
    <3>4. remoteEnp[o][c] = "endpoint" /\ Ready(o, c)
      BY <2>1, <2>2, <2>3, <3>1, <3>2, <3>3, StepSets DEF SideReady, StreamFits, Gone, o
    <3>5. registered[o][c]
      BY <2>3, <2>5, <3>2 DEF SideReady
    <3>6. QED
      BY <2>4, <3>4, <3>5 DEF o
  <2>6. QED
    BY <2>4, <2>5 DEF o
<1>2. SetupInv => OpenMeetsReadyPeer
  BY <1>1 DEF OpenMeetsReadyPeer
<1>3. QED
  BY <1>2, SetupAlways, PTL

===============================================================================
