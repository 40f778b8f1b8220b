--------------------------------- MODULE Setup --------------------------------
(***************************************************************************)
(* How connections come to be: connect and run (src/src/connection/        *)
(* conn.rs), Server (server.rs), the exchange of endpoints and memory      *)
(* regions over TCP (src/src/types/qp.rs) and Conn::new.                   *)
(*                                                                         *)
(* Both sides of a connection run the same code over its TCP stream: send  *)
(* the local endpoint, read the remote one, move the queue pair to RTR and *)
(* RTS, register the receive buffer, send its RemoteMR, read the remote    *)
(* one, make the Conn.  The clients do so independently; the server's task *)
(* does it for one client at a time, between two accepts.                  *)
(***************************************************************************)
EXTENDS Naturals, Sequences

CONSTANTS
  Clients,
  ChannelCap,   \* capacity of the channel to Server::accept (10)
  Faults        \* what may fail: "client" (a client dies), "listener",
                \* "device" (a call of the device), "application" (it drops
                \* its Server)

ASSUME SetupAssumption ==
  /\ ChannelCap \in Nat \ {0}
  /\ Faults \subseteq {"client", "listener", "device", "application"}

Sides == {"client", "server"}
Other(s) == IF s = "client" THEN "server" ELSE "client"

VARIABLES
  pc,          \* where a side is in setting up a connection
  qp,          \* state of its queue pair: "INIT", "RTS", "unready" when a
               \* call that leads there failed, "astray" when it was to be
               \* connected to the endpoint of a zeroed buffer
  stream,      \* TCP: what was sent to this side and not read
  remoteEnp,   \* what the side read as the remote endpoint
  remoteMr,    \* what it read as the remote memory region
  registered,  \* its receive buffer is registered
  posted,      \* its receive requests are posted, every one
  task,        \* the server's task: "bind", "accept", "setup", "stopped"
  backlog,     \* TCP connections that wait for listener.accept
  incoming,    \* the channel Server.incoming
  app,         \* the owner of the Server: "running", "panicked", "dropped"
  accepted     \* ghost: the clients whose Conn accept has returned

vars == <<pc, qp, stream, remoteEnp, remoteMr, registered, posted,
          task, backlog, incoming, app, accepted>>
cardVars   == <<qp, registered, posted>>
remoteVars == <<remoteEnp, remoteMr>>
serverVars == <<task, backlog, incoming, app, accepted>>

Steps == {"none", "refused", "greet", "peer", "register", "remote", "rqe",
          "deliver", "open", "dropped", "gone"}

At(s, c, step)   == pc[s][c] = step
MoveTo(s, c, to) == pc' = [pc EXCEPT ![s][c] = to]

(* The other end of the stream is closed: a client died, the task that set *)
(* the connection up panicked, or the listener is gone with its backlog.   *)
(* A Conn that is only dropped leaves its daemon, and with it the queue    *)
(* pair and the stream.                                                    *)
PeerGone(s, c) ==
  \/ pc[Other(s)][c] = "gone"
  \/ s = "client" /\ pc["server"][c] = "none" /\ task = "stopped"

Init ==
  /\ pc = [s \in Sides |-> [c \in Clients |-> "none"]]
  /\ qp = [s \in Sides |-> [c \in Clients |-> "none"]]
  /\ stream = [s \in Sides |-> [c \in Clients |-> <<>>]]
  /\ remoteEnp = [s \in Sides |-> [c \in Clients |-> "none"]]
  /\ remoteMr = [s \in Sides |-> [c \in Clients |-> "none"]]
  /\ registered = [s \in Sides |-> [c \in Clients |-> FALSE]]
  /\ posted = [s \in Sides |-> [c \in Clients |-> FALSE]]
  /\ task = "bind"
  /\ backlog = <<>>
  /\ incoming = <<>>
  /\ app = "running"
  /\ accepted = {}

-----------------------------------------------------------------------------
(* What else a call of the device can come to.                             *)
DeviceMay(states) == IF "device" \in Faults THEN states ELSE {}

(* Slip: the queue pair stays as it was made.                              *)
InitQpLeftOut(s, c) == UNCHANGED qp

(* QP::init, on a queue pair just made; its error is only logged.          *)
InitQp(s, c) ==
  \E state \in {"INIT"} \union DeviceMay({"unready"}) :
    qp' = [qp EXCEPT ![s][c] = state]

(* TcpStream::connect, then QP::new and QP::init.                          *)
Connect(c) ==
  /\ At("client", c, "none")
  /\ task \in {"accept", "setup"}
  /\ backlog' = Append(backlog, c)
  /\ InitQp("client", c)
  /\ MoveTo("client", c, "greet")
  /\ UNCHANGED <<stream, remoteVars, registered, posted, task, incoming, app, accepted>>

(* Nobody listens: connect returns the error.                              *)
ConnectRefused(c) ==
  /\ At("client", c, "none")
  /\ task \in {"bind", "stopped"}
  /\ MoveTo("client", c, "refused")
  /\ UNCHANGED <<cardVars, stream, remoteVars, serverVars>>

(* A client's process ends.                                                *)
Die(c) ==
  /\ "client" \in Faults
  /\ pc["client"][c] \notin {"none", "refused", "gone"}
  /\ MoveTo("client", c, "gone")
  /\ UNCHANGED <<cardVars, stream, remoteVars, serverVars>>

-----------------------------------------------------------------------------
(* The server's task, up to the handshake.                                 *)
Bind ==
  /\ task = "bind"
  /\ task' = "accept"
  /\ UNCHANGED <<pc, cardVars, stream, remoteVars, backlog, incoming, app, accepted>>

Accept ==
  /\ task = "accept"
  /\ backlog # <<>>
  /\ backlog' = Tail(backlog)
  /\ InitQp("server", Head(backlog))
  /\ MoveTo("server", Head(backlog), "greet")
  /\ task' = "setup"
  /\ UNCHANGED <<stream, remoteVars, registered, posted, incoming, app, accepted>>

(* bind or accept fails: the task ends.                                    *)
ListenerFails ==
  /\ "listener" \in Faults
  /\ task \in {"bind", "accept"}
  /\ task' = "stopped"
  /\ UNCHANGED <<pc, cardVars, stream, remoteVars, backlog, incoming, app, accepted>>

-----------------------------------------------------------------------------
(* One side's part of the exchange.  What is sent to a closed stream is    *)
(* lost, with an error or without.                                         *)
ToPeer(s, c, what) ==
  IF PeerGone(s, c) THEN UNCHANGED stream
  ELSE stream' = [stream EXCEPT ![Other(s)][c] = @ \o what]

(* tcp_recv: the next thing of the stream, into the buffer buf.            *)
Read(s, c, buf) ==
  /\ stream[s][c] # <<>>
  /\ stream' = [stream EXCEPT ![s][c] = Tail(@)]
  /\ buf' = [buf EXCEPT ![s][c] = Head(stream[s][c])]

(* Slip: the memory region is announced together with the endpoint.        *)
SendEndpointWithMr(s, c) ==
  /\ At(s, c, "greet")
  /\ ToPeer(s, c, <<"endpoint", "mr">>)
  /\ MoveTo(s, c, "peer")
  /\ UNCHANGED <<cardVars, remoteVars, serverVars>>

(* handshake, first half.  An error is logged and nothing else.            *)
SendEndpoint(s, c) ==
  /\ At(s, c, "greet")
  /\ ToPeer(s, c, <<"endpoint">>)
  /\ MoveTo(s, c, "peer")
  /\ UNCHANGED <<cardVars, remoteVars, serverVars>>

(* ready_to_receive and ready_to_send on a good endpoint: each needs what  *)
(* comes before it, and an error of either is only logged.                 *)
Connected(state) ==
  IF state = "INIT" THEN {"RTS"} \union DeviceMay({"unready"}) ELSE {state}

(* handshake, second half: tcp_recv, ready_to_receive, ready_to_send.      *)
RecvEndpoint(s, c) ==
  /\ At(s, c, "peer")
  /\ Read(s, c, remoteEnp)
  /\ \E state \in Connected(qp[s][c]) : qp' = [qp EXCEPT ![s][c] = state]
  /\ MoveTo(s, c, "register")
  /\ UNCHANGED <<remoteMr, registered, posted, serverVars>>

(* tcp_recv fails, at the end of the stream or by a reset that discards    *)
(* it: the error is logged, and the queue pair is given the endpoint of a  *)
(* zeroed buffer. Whether the device takes it is not told apart: either    *)
(* way the queue pair leads nowhere, and that too is only logged.          *)
RecvEndpointFails(s, c) ==
  /\ At(s, c, "peer")
  /\ PeerGone(s, c)
  /\ remoteEnp' = [remoteEnp EXCEPT ![s][c] = "zeroes"]
  /\ stream' = [stream EXCEPT ![s][c] = <<>>]
  /\ qp' = [qp EXCEPT ![s][c] = IF @ = "INIT" THEN "astray" ELSE @]
  /\ MoveTo(s, c, "register")
  /\ UNCHANGED <<remoteMr, registered, posted, serverVars>>

(* Slip: the memory region is sent in reply to the remote one.             *)
SendMrInReply(s, c) ==
  /\ At(s, c, "register")
  /\ stream[s][c] # <<>>
  /\ registered' = [registered EXCEPT ![s][c] = TRUE]
  /\ ToPeer(s, c, <<"mr">>)
  /\ MoveTo(s, c, "remote")
  /\ UNCHANGED <<qp, posted, remoteVars, serverVars>>

(* exchange_recv_buf: register the buffer, send_mr.                        *)
SendMr(s, c) ==
  /\ At(s, c, "register")
  /\ registered' = [registered EXCEPT ![s][c] = TRUE]
  /\ ToPeer(s, c, <<"mr">>)
  /\ MoveTo(s, c, "remote")
  /\ UNCHANGED <<qp, posted, remoteVars, serverVars>>

(* recv_mr.                                                                *)
RecvMr(s, c) ==
  /\ At(s, c, "remote")
  /\ Read(s, c, remoteMr)
  /\ MoveTo(s, c, "rqe")
  /\ UNCHANGED <<cardVars, remoteEnp, serverVars>>

(* The unwrap in send_mr or recv_mr panics: connect unwinds, or the        *)
(* server's task is gone.                                                  *)
ExchangePanics(s, c) ==
  /\ At(s, c, "register") \/ At(s, c, "remote")
  /\ PeerGone(s, c)
  /\ MoveTo(s, c, "gone")
  /\ task' = IF s = "server" THEN "stopped" ELSE task
  /\ UNCHANGED <<cardVars, stream, remoteVars, backlog, incoming, app, accepted>>

(* QP::new unwraps what the device gives it.                               *)
DevicePanics(s, c) ==
  /\ "device" \in Faults
  /\ At(s, c, "greet")
  /\ MoveTo(s, c, "gone")
  /\ task' = IF s = "server" THEN "stopped" ELSE task
  /\ UNCHANGED <<cardVars, stream, remoteVars, backlog, incoming, app, accepted>>

(* Conn::new: allocator and send buffer, the receive requests, of which    *)
(* one that is refused is not missed (post_to_qp returns Ok), the daemon.  *)
(* A client's connect returns.                                             *)
NewConn(s, c) ==
  /\ At(s, c, "rqe")
  /\ \E all \in {TRUE} \union DeviceMay({FALSE}) : posted' = [posted EXCEPT ![s][c] = all]
  /\ MoveTo(s, c, IF s = "client" THEN "open" ELSE "deliver")
  /\ UNCHANGED <<qp, registered, stream, remoteVars, serverVars>>

-----------------------------------------------------------------------------
(* Slip: the channel is never full.                                        *)
DeliverUnbounded(c) ==
  /\ At("server", c, "deliver")
  /\ app # "dropped"
  /\ incoming' = Append(incoming, c)
  /\ MoveTo("server", c, "open")
  /\ task' = "accept"
  /\ UNCHANGED <<cardVars, stream, remoteVars, backlog, app, accepted>>

(* Slip: a Conn that finds the channel full is dropped.                    *)
DeliverDropsWhenFull(c) ==
  /\ At("server", c, "deliver")
  /\ app # "dropped"
  /\ incoming' = IF Len(incoming) < ChannelCap THEN Append(incoming, c) ELSE incoming
  /\ MoveTo("server", c, "open")
  /\ task' = "accept"
  /\ UNCHANGED <<cardVars, stream, remoteVars, backlog, app, accepted>>

(* sender.send(conn).await, and the loop goes round.                       *)
Deliver(c) ==
  /\ At("server", c, "deliver")
  /\ app # "dropped"
  /\ Len(incoming) < ChannelCap
  /\ incoming' = Append(incoming, c)
  /\ MoveTo("server", c, "open")
  /\ task' = "accept"
  /\ UNCHANGED <<cardVars, stream, remoteVars, backlog, app, accepted>>

(* The channel is closed: the error gives the Conn back, which is dropped, *)
(* and the loop is left.                                                   *)
DeliverFails(c) ==
  /\ At("server", c, "deliver")
  /\ app = "dropped"
  /\ MoveTo("server", c, "dropped")
  /\ registered' = [registered EXCEPT !["server"][c] = FALSE]
  /\ task' = "stopped"
  /\ UNCHANGED <<qp, posted, stream, remoteVars, backlog, incoming, app, accepted>>

InChannel(c) == \E i \in DOMAIN incoming : incoming[i] = c

(* The application drops its Server, and with it the channel and the Conns *)
(* that wait there: their receive buffers are deregistered.                *)
DropServer ==
  /\ "application" \in Faults
  /\ app = "running"
  /\ app' = "dropped"
  /\ incoming' = <<>>
  /\ pc' = [pc EXCEPT !["server"] =
             [c \in Clients |-> IF InChannel(c) THEN "dropped" ELSE @[c]]]
  /\ registered' = [registered EXCEPT !["server"] =
                     [c \in Clients |-> @[c] /\ ~InChannel(c)]]
  /\ UNCHANGED <<qp, posted, stream, remoteVars, task, backlog, accepted>>

(* Server::accept: recv gives None once the task is gone and the channel   *)
(* is empty, and the unwrap panics.                                        *)
AcceptConn ==
  /\ app = "running"
  /\ \/ /\ incoming # <<>>
        /\ accepted' = accepted \union {Head(incoming)}
        /\ incoming' = Tail(incoming)
        /\ UNCHANGED app
     \/ /\ incoming = <<>>
        /\ task = "stopped"
        /\ app' = "panicked"
        /\ UNCHANGED <<incoming, accepted>>
  /\ UNCHANGED <<pc, cardVars, stream, remoteVars, task, backlog>>

-----------------------------------------------------------------------------
Exchange(s, c) ==
  \/ SendEndpoint(s, c)
  \/ RecvEndpoint(s, c)
  \/ RecvEndpointFails(s, c)
  \/ SendMr(s, c)
  \/ RecvMr(s, c)
  \/ ExchangePanics(s, c)
  \/ NewConn(s, c)

ServerStep ==
  \/ Bind
  \/ Accept
  \/ \E c \in Clients : Exchange("server", c) \/ Deliver(c) \/ DeliverFails(c)

Next ==
  \/ \E c \in Clients : Connect(c) \/ ConnectRefused(c) \/ Die(c)
  \/ \E c \in Clients : Exchange("client", c)
  \/ \E s \in Sides, c \in Clients : DevicePanics(s, c)
  \/ ServerStep
  \/ ListenerFails
  \/ AcceptConn
  \/ DropServer

Spec == Init /\ [][Next]_vars

(* Tasks run, and the application keeps accepting while it has its Server. *)
(* No client has to connect.                                               *)
FairSpec ==
  /\ Spec
  /\ \A c \in Clients : WF_vars(Exchange("client", c))
  /\ WF_vars(ServerStep)
  /\ WF_vars(AcceptConn)

-----------------------------------------------------------------------------
(* Types of the state.                                                     *)
TypeOK ==
  /\ pc \in [Sides -> [Clients -> Steps]]
  /\ qp \in [Sides -> [Clients -> {"none", "INIT", "unready", "RTS", "astray"}]]
  /\ stream \in [Sides -> [Clients -> Seq({"endpoint", "mr"})]]
  /\ remoteEnp \in [Sides -> [Clients -> {"none", "zeroes", "endpoint", "mr"}]]
  /\ remoteMr \in [Sides -> [Clients -> {"none", "endpoint", "mr"}]]
  /\ registered \in [Sides -> [Clients -> BOOLEAN]]
  /\ posted \in [Sides -> [Clients -> BOOLEAN]]
  /\ task \in {"bind", "accept", "setup", "stopped"}
  /\ backlog \in Seq(Clients)
  /\ incoming \in Seq(Clients) /\ Len(incoming) <= ChannelCap
  /\ app \in {"running", "panicked", "dropped"}
  /\ accepted \subseteq Clients

(* The queue pair is connected, unless the device refused a good endpoint. *)
Ready(s, c) == qp[s][c] \in {"RTS"} \union DeviceMay({"unready"})

(* A Conn that its side can use was set up with the endpoint and the       *)
(* memory region of its peer, never with zeroes or with one for the other, *)
(* although the stream has no framing and a failed read is only logged;    *)
(* and its peer, unless it is gone or dropped, has this side's endpoint    *)
(* and has registered the buffer this side writes to.  That the queue      *)
(* pairs are connected as well rests on the device: a failed               *)
(* ready_to_receive or ready_to_send does not keep a Conn from opening.    *)
OpenMeetsReadyPeer ==
  \A s \in Sides, c \in Clients :
    At(s, c, "open") =>
      /\ remoteEnp[s][c] = "endpoint" /\ remoteMr[s][c] = "mr"
      /\ Ready(s, c)
      /\ \/ pc[Other(s)][c] \in {"gone", "dropped"}
         \/ /\ remoteEnp[Other(s)][c] = "endpoint" /\ registered[Other(s)][c]
            /\ Ready(Other(s), c)

(* A client that has a TCP connection gets its Conn, or dies or panics     *)
(* when its server has stopped: neither a full channel, nor a place behind *)
(* other clients in the backlog, nor a failure halfway leaves connect      *)
(* waiting for ever.                                                       *)
ConnectEnds ==
  \A c \in Clients : At("client", c, "greet") ~> pc["client"][c] \in {"open", "gone"}

(* A Conn that connect returned to a client reaches the application of the *)
(* server, unless the client dies or the application has dropped its       *)
(* Server: other clients' deaths, which may end the server's task, and     *)
(* failures of the device do not lose it.                                  *)
ConnectedIsAccepted ==
  \A c \in Clients :
    At("client", c, "open") ~>
      \/ c \in accepted
      \/ At("client", c, "gone")
      \/ app = "dropped"

(* The unwrap in Server::accept: the channel of Conns is never closed.     *)
AcceptNeverPanics == app # "panicked"

-----------------------------------------------------------------------------
(* The inductive invariant behind the safety properties: how far a side is *)
(* tells what it has sent and what it has read, and the stream holds the   *)
(* difference.                                                             *)

Unsent       == {"none", "refused", "greet"}
SentEndpoint == {"peer", "register"}
SentBoth     == {"remote", "rqe", "deliver", "open", "dropped"}
UnreadSteps  == Unsent \union {"peer"}
ReadEndpoint == {"register", "remote"}
ReadBoth     == {"rqe", "deliver", "open", "dropped"}

Gone(s, c) == PeerGone(Other(s), c)

StreamFits(s, c) ==
  LET o == pc[Other(s)][c]
      q == stream[s][c]
  IN ~Gone(s, c) =>
       /\ pc[s][c] \in UnreadSteps =>
            \/ o \in Unsent /\ q = <<>>
            \/ o \in SentEndpoint /\ q = <<"endpoint">>
            \/ o \in SentBoth /\ q = <<"endpoint", "mr">>
            \/ o = "gone" /\ q \in {<<>>, <<"endpoint">>, <<"endpoint", "mr">>}
       /\ pc[s][c] \in ReadEndpoint =>
            \/ o \in SentEndpoint /\ q = <<>>
            \/ o \in SentBoth /\ q = <<"mr">>
            \/ o = "gone" /\ q \in {<<>>, <<"mr">>}
            \/ PeerGone(s, c) /\ q = <<>>
       /\ pc[s][c] \in ReadBoth => q = <<>> /\ (o \in SentBoth \/ o = "gone")

(* A side that could not read the endpoint gets no memory region either.   *)
SideReady(s, c) ==
  /\ pc[s][c] \in {"greet", "peer"} => qp[s][c] \in {"INIT"} \union DeviceMay({"unready"})
  /\ pc[s][c] \in ReadEndpoint =>
       \/ remoteEnp[s][c] = "endpoint" /\ Ready(s, c)
       \/ PeerGone(s, c) /\ stream[s][c] = <<>>
  /\ pc[s][c] \in ReadBoth =>
       remoteEnp[s][c] = "endpoint" /\ remoteMr[s][c] = "mr" /\ Ready(s, c)
  /\ pc[s][c] \in SentBoth \ {"dropped"} => registered[s][c]
  /\ remoteEnp[s][c] # "mr" /\ remoteMr[s][c] # "endpoint"

(* The server's task is in one set-up at a time, and each client waits in  *)
(* the backlog at most once, until its set-up begins.                      *)
InSetup(c) == pc["server"][c] \notin {"none", "open", "dropped", "gone"}

OneSetup ==
  /\ \A c \in Clients : InSetup(c) => task = "setup"
  /\ \A c, d \in Clients : InSetup(c) /\ InSetup(d) => c = d

BacklogWaits ==
  /\ \A i \in DOMAIN backlog : pc["server"][backlog[i]] = "none"
  /\ \A i, j \in DOMAIN backlog : i # j => backlog[i] # backlog[j]
  /\ \A c \in Clients : pc["client"][c] \in {"none", "refused"} =>
       /\ pc["server"][c] = "none"
       /\ \A i \in DOMAIN backlog : backlog[i] # c

(* What waits for accept is a Conn.                                        *)
ChannelHolds == \A c \in Clients : InChannel(c) => pc["server"][c] = "open"

(* The two sides of every set-up are as far apart as their stream says,    *)
(* each side has what its step needs, and the server's task is in one      *)
(* set-up, while the clients in the backlog wait for theirs and the Conns  *)
(* in the channel have had theirs.                                         *)
SetupInv ==
  /\ \A s \in Sides, c \in Clients : StreamFits(s, c) /\ SideReady(s, c)
  /\ OneSetup
  /\ BacklogWaits
  /\ ChannelHolds

===============================================================================
