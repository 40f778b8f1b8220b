------------------------------- MODULE Teardown -------------------------------
(***************************************************************************)
(* The life of what a process gets from the device: a Device shared by the *)
(* connections of a server, and for each connection a protection domain, a *)
(* completion queue, a queue pair and two registered buffers.              *)
(*                                                                         *)
(* Nothing of it is counted by the device.  That each thing goes after     *)
(* those that rest on it follows from Arcs, from the order of the fields   *)
(* of Conn, SendBuffer, RecvBuffer and QP, and from their Drop             *)
(* implementations, while the daemon of the connection, which has the      *)
(* queue pair too and is only detached, polls on.  It ends when it finds   *)
(* the channel to recv_msg closed, or when polling fails.                  *)
(***************************************************************************)
EXTENDS Naturals, Sequences, FiniteSets

CONSTANTS
  Conns,      \* connections
  Rqe,        \* DEFAULT_RQE_COUNT
  MaxRefs,    \* bound: clones of the Arc of a Conn
  MaxSends    \* max_send_wr

ASSUME TeardownAssumption ==
  /\ Rqe \in Nat \ {0}
  /\ MaxRefs \in Nat \ {0}
  /\ MaxSends \in Nat

VARIABLES
  device,     \* "open" or "closed"
  runner,     \* whether the task of run, which holds the Device, is alive
  phase,      \* "none", "pair", "buffer", "open", "dropping", "dropped"
  refs,       \* clones of the Arc<Conn> the application's tasks hold
  live,       \* what of the connection exists
  qpRefs,     \* who holds the Arc<QP>: "conn", "daemon", "app"
  daemon,     \* "none", "polling", "handing" a message on, "ended"
  card,       \* the queue pair at the card: "ready" or "error"
  rqe,        \* receive requests posted and not completed
  sends,      \* writes posted and not completed
  cq,         \* completions not polled
  crashed     \* the process has died of a null pointer

vars == <<device, runner, phase, refs, live, qpRefs, daemon, card, rqe, sends,
          cq, crashed>>
cardVars == <<card, rqe, sends, cq>>
appVars  == <<device, runner, phase, refs, crashed>>

(* Slip: a buffer is freed before it is deregistered.                      *)
ConnPartsFreeFirst == <<"rx", "recvMem", "recvMr", "sendMem", "sendMr">>

(* The parts of a Conn in the order they go, and then those of its QP:     *)
(* Drop::drop runs before the fields, and the fields go as declared.       *)
ConnParts == <<"rx", "recvMr", "recvMem", "sendMr", "sendMem">>
QpParts   == <<"qp", "pd", "cq">>
Parts     == {ConnParts[i] : i \in DOMAIN ConnParts} \union {QpParts[i] : i \in DOMAIN QpParts}

Completion == [kind : {"recv", "send"}, ok : BOOLEAN]
Many(n, k) == [i \in 1..n |-> [kind |-> k, ok |-> FALSE]]

(* Places taken in a queue of c: one is given back when its completion is  *)
(* polled.                                                                 *)
Unpolled(q, k) == Cardinality({i \in DOMAIN q : q[i].kind = k})

Init ==
  /\ device = "open"
  /\ runner = TRUE
  /\ phase = [c \in Conns |-> "none"]
  /\ refs = [c \in Conns |-> 0]
  /\ live = [c \in Conns |-> {}]
  /\ qpRefs = [c \in Conns |-> {}]
  /\ daemon = [c \in Conns |-> "none"]
  /\ card = [c \in Conns |-> "ready"]
  /\ rqe = [c \in Conns |-> 0]
  /\ sends = [c \in Conns |-> 0]
  /\ cq = [c \in Conns |-> <<>>]
  /\ crashed = FALSE

-----------------------------------------------------------------------------
(* QP::new: domain, completion queue, queue pair.                          *)
NewQp(c) ==
  /\ runner
  /\ phase[c] = "none"
  /\ phase' = [phase EXCEPT ![c] = "pair"]
  /\ live' = [live EXCEPT ![c] = {"pd", "cq", "qp"}]
  /\ qpRefs' = [qpRefs EXCEPT ![c] = {"conn"}]
  /\ UNCHANGED <<device, runner, refs, daemon, cardVars, crashed>>

(* exchange_recv_buf: the receive buffer is allocated and registered.      *)
NewRecvBuffer(c) ==
  /\ phase[c] = "pair"
  /\ phase' = [phase EXCEPT ![c] = "buffer"]
  /\ live' = [live EXCEPT ![c] = @ \union {"rx", "recvMr", "recvMem"}]
  /\ UNCHANGED <<device, runner, refs, qpRefs, daemon, cardVars, crashed>>

(* The peer is gone: an unwrap unwinds the task and drops what it has, the *)
(* Device among it.                                                        *)
ExchangePanics(c) ==
  /\ phase[c] = "buffer"
  /\ phase' = [phase EXCEPT ![c] = "dropping"]
  /\ runner' = FALSE
  /\ UNCHANGED <<device, refs, live, qpRefs, daemon, cardVars, crashed>>

(* Slip: the daemon polls a queue pair that only the Conn keeps.           *)
NewConnLends(c) ==
  /\ phase[c] = "buffer"
  /\ phase' = [phase EXCEPT ![c] = "open"]
  /\ refs' = [refs EXCEPT ![c] = 1]
  /\ live' = [live EXCEPT ![c] = @ \union {"sendMr", "sendMem"}]
  /\ daemon' = [daemon EXCEPT ![c] = "polling"]
  /\ rqe' = [rqe EXCEPT ![c] = Rqe]
  /\ UNCHANGED <<device, runner, qpRefs, card, sends, cq, crashed>>

(* Conn::new: the send buffer, the receive requests, the daemon.           *)
NewConn(c) ==
  /\ phase[c] = "buffer"
  /\ phase' = [phase EXCEPT ![c] = "open"]
  /\ refs' = [refs EXCEPT ![c] = 1]
  /\ live' = [live EXCEPT ![c] = @ \union {"sendMr", "sendMem"}]
  /\ qpRefs' = [qpRefs EXCEPT ![c] = @ \union {"daemon"}]
  /\ daemon' = [daemon EXCEPT ![c] = "polling"]
  /\ rqe' = [rqe EXCEPT ![c] = Rqe]
  /\ UNCHANGED <<device, runner, card, sends, cq, crashed>>

(* The task of run returns: the listener or the channel of Conns failed.   *)
RunEnds ==
  /\ runner
  /\ \A c \in Conns : phase[c] \notin {"pair", "buffer"}
  /\ runner' = FALSE
  /\ UNCHANGED <<device, phase, refs, live, qpRefs, daemon, cardVars, crashed>>

-----------------------------------------------------------------------------
(* The application: tasks clone the Arc of the Conn, send, and end.        *)
CloneConn(c) ==
  /\ refs[c] \in 1..(MaxRefs - 1)
  /\ refs' = [refs EXCEPT ![c] = @ + 1]
  /\ UNCHANGED <<device, runner, phase, live, qpRefs, daemon, cardVars, crashed>>

Send(c) ==
  /\ refs[c] > 0
  /\ sends[c] + Unpolled(cq[c], "send") < MaxSends
  /\ IF card[c] = "ready"
     THEN sends' = [sends EXCEPT ![c] = @ + 1] /\ UNCHANGED cq
     ELSE cq' = [cq EXCEPT ![c] = @ \o Many(1, "send")] /\ UNCHANGED sends
  /\ UNCHANGED <<appVars, live, qpRefs, daemon, card, rqe>>

(* Conn::qp gives the application the queue pair itself.                   *)
TakeQp(c) ==
  /\ refs[c] > 0
  /\ qpRefs' = [qpRefs EXCEPT ![c] = @ \union {"app"}]
  /\ UNCHANGED <<appVars, live, daemon, cardVars>>

DropQp(c) ==
  /\ "app" \in qpRefs[c]
  /\ qpRefs' = [qpRefs EXCEPT ![c] = @ \ {"app"}]
  /\ UNCHANGED <<appVars, live, daemon, cardVars>>

DropConn(c) ==
  /\ refs[c] > 0
  /\ refs' = [refs EXCEPT ![c] = @ - 1]
  /\ phase' = [phase EXCEPT ![c] = IF refs[c] = 1 THEN "dropping" ELSE @]
  /\ UNCHANGED <<device, runner, live, qpRefs, daemon, cardVars, crashed>>

-----------------------------------------------------------------------------
(* Drop, part by part, while daemon and card go on.                        *)

(* The parts of s that exist go in order.                                  *)
DropNext(c, s) ==
  \E i \in DOMAIN s :
    /\ s[i] \in live[c]
    /\ \A j \in 1..(i - 1) : s[j] \notin live[c]
    /\ live' = [live EXCEPT ![c] = @ \ {s[i]}]

DropPart(c) ==
  /\ phase[c] = "dropping"
  /\ DropNext(c, ConnParts)
  /\ UNCHANGED <<appVars, qpRefs, daemon, cardVars>>

(* Slip: the queue pair is declared before the buffers.                    *)
DetachFirst(c) ==
  /\ phase[c] = "dropping"
  /\ "conn" \in qpRefs[c]
  /\ UNCHANGED phase
  /\ qpRefs' = [qpRefs EXCEPT ![c] = @ \ {"conn"}]
  /\ UNCHANGED <<device, runner, refs, live, daemon, cardVars, crashed>>

(* The Arc of the queue pair goes last; JoinHandles only detach.           *)
Detach(c) ==
  /\ phase[c] = "dropping"
  /\ \A i \in DOMAIN ConnParts : ConnParts[i] \notin live[c]
  /\ phase' = [phase EXCEPT ![c] = "dropped"]
  /\ qpRefs' = [qpRefs EXCEPT ![c] = @ \ {"conn"}]
  /\ UNCHANGED <<device, runner, refs, live, daemon, cardVars, crashed>>

DropQpPart(c) ==
  /\ qpRefs[c] = {}
  /\ DropNext(c, QpParts)
  /\ UNCHANGED <<appVars, qpRefs, daemon, cardVars>>

(* PD and CQ hold the Device, and so does run.                             *)
CloseDevice ==
  /\ device = "open"
  /\ ~runner
  /\ \A c \in Conns : live[c] \intersect {"pd", "cq"} = {}
  /\ device' = "closed"
  /\ UNCHANGED <<runner, phase, refs, live, qpRefs, daemon, cardVars, crashed>>

-----------------------------------------------------------------------------
(* The card and the peer.                                                  *)

(* An error flushes everything posted to the queue pair.                   *)
Fail(c) ==
  /\ card' = [card EXCEPT ![c] = "error"]
  /\ cq' = [cq EXCEPT ![c] = @ \o Many(sends[c], "send") \o Many(rqe[c], "recv")]
  /\ sends' = [sends EXCEPT ![c] = 0]
  /\ rqe' = [rqe EXCEPT ![c] = 0]

(* A message of the peer: there is no writing into a buffer that is not    *)
(* registered any more.                                                    *)
Arrive(c) ==
  /\ card[c] = "ready" /\ rqe[c] > 0 /\ "qp" \in live[c]
  /\ IF "recvMr" \in live[c]
     THEN /\ cq' = [cq EXCEPT ![c] = Append(@, [kind |-> "recv", ok |-> TRUE])]
          /\ rqe' = [rqe EXCEPT ![c] = @ - 1]
          /\ UNCHANGED <<card, sends>>
     ELSE Fail(c)
  /\ UNCHANGED <<appVars, live, qpRefs, daemon>>

(* A write of this end; the peer may be gone, or this end's buffer.        *)
Execute(c) ==
  /\ card[c] = "ready" /\ sends[c] > 0 /\ "qp" \in live[c]
  /\ \/ /\ "sendMr" \in live[c]
        /\ cq' = [cq EXCEPT ![c] = Append(@, [kind |-> "send", ok |-> TRUE])]
        /\ sends' = [sends EXCEPT ![c] = @ - 1]
        /\ UNCHANGED <<card, rqe>>
     \/ Fail(c)
  /\ UNCHANGED <<appVars, live, qpRefs, daemon>>

-----------------------------------------------------------------------------
(* The opcode of a completion is undefined when its status is an error,    *)
(* which the daemon does not look at.                                      *)
Opcodes(w) ==
  IF ~w.ok THEN {"WriteWithImm", "Write", "other"}
  ELSE IF w.kind = "recv" THEN {"WriteWithImm"} ELSE {"Write"}

(* Slip: the limit of the receive queue is not kept.                       *)
PollMessageUnbounded(c) ==
  /\ cq' = [cq EXCEPT ![c] = Tail(@)]
  /\ rqe' = [rqe EXCEPT ![c] = @ + 1]
  /\ daemon' = [daemon EXCEPT ![c] = "handing"]
  /\ UNCHANGED crashed

(* post_null_recv, and the message is handed on.  In error the receive     *)
(* request is flushed at once; in a full queue it is not posted at all,    *)
(* which is reported as Ok.                                                *)
PollMessage(c) ==
  LET rest == Tail(cq[c])
      full == rqe[c] + Unpolled(rest, "recv") >= Rqe
  IN /\ cq' = [cq EXCEPT ![c] = IF card[c] = "error" /\ ~full THEN rest \o Many(1, "recv")
                                                              ELSE rest]
     /\ rqe' = [rqe EXCEPT ![c] = IF card[c] = "error" \/ full THEN @ ELSE @ + 1]
     /\ daemon' = [daemon EXCEPT ![c] = "handing"]
     /\ UNCHANGED crashed

(* wr_id is a flag's pointer for a write, and 0 for a receive request.     *)
PollFlag(c) ==
  /\ crashed' = (Head(cq[c]).kind = "recv")
  /\ cq' = [cq EXCEPT ![c] = Tail(@)]
  /\ UNCHANGED <<rqe, daemon>>

PollOther(c) ==
  /\ cq' = [cq EXCEPT ![c] = Tail(@)]
  /\ UNCHANGED <<rqe, daemon, crashed>>

Poll(c) ==
  /\ daemon[c] = "polling"
  /\ cq[c] # <<>>
  /\ \E op \in Opcodes(Head(cq[c])) :
       \/ op = "WriteWithImm" /\ PollMessage(c)
       \/ op = "Write" /\ PollFlag(c)
       \/ op = "other" /\ PollOther(c)
  /\ UNCHANGED <<device, runner, phase, refs, live, qpRefs, card, sends>>

(* Slip: an error of tx.send is ignored.                                   *)
HandOnIgnoresClosed(c) ==
  /\ daemon[c] = "handing"
  /\ daemon' = [daemon EXCEPT ![c] = "polling"]
  /\ UNCHANGED <<appVars, live, qpRefs, cardVars>>

(* tx.send(..).await.unwrap(): a closed channel makes the daemon panic,    *)
(* which gives its queue pair back.                                        *)
HandOn(c) ==
  /\ daemon[c] = "handing"
  /\ IF "rx" \in live[c]
     THEN daemon' = [daemon EXCEPT ![c] = "polling"] /\ UNCHANGED qpRefs
     ELSE /\ daemon' = [daemon EXCEPT ![c] = "ended"]
          /\ qpRefs' = [qpRefs EXCEPT ![c] = @ \ {"daemon"}]
  /\ UNCHANGED <<appVars, live, cardVars>>

(* ibv_poll_cq reports an error: the loop is left.                         *)
PollFails(c) ==
  /\ daemon[c] = "polling"
  /\ daemon' = [daemon EXCEPT ![c] = "ended"]
  /\ qpRefs' = [qpRefs EXCEPT ![c] = @ \ {"daemon"}]
  /\ UNCHANGED <<appVars, live, cardVars>>

-----------------------------------------------------------------------------
SetupStep(c) == NewQp(c) \/ NewRecvBuffer(c) \/ ExchangePanics(c) \/ NewConn(c)
AppStep(c)   == CloneConn(c) \/ Send(c) \/ TakeQp(c) \/ DropQp(c) \/ DropConn(c)
DropStep(c)  == DropPart(c) \/ Detach(c) \/ DropQpPart(c)
CardStep(c)  == Arrive(c) \/ Execute(c)
DaemonStep(c) == Poll(c) \/ HandOn(c)

Next ==
  /\ ~crashed
  /\ \/ \E c \in Conns :
          SetupStep(c) \/ AppStep(c) \/ DropStep(c) \/ CardStep(c)
            \/ DaemonStep(c) \/ PollFails(c)
     \/ RunEnds
     \/ CloseDevice

Spec == Init /\ [][Next]_vars

(* What has begun to be dropped is dropped, the daemon is run again.       *)
FairSpec ==
  Spec /\ \A c \in Conns : WF_vars(~crashed /\ DropStep(c)) /\ WF_vars(~crashed /\ DaemonStep(c))

-----------------------------------------------------------------------------
(* Types of the state.                                                     *)
TypeOK ==
  /\ device \in {"open", "closed"}
  /\ runner \in BOOLEAN
  /\ phase \in [Conns -> {"none", "pair", "buffer", "open", "dropping", "dropped"}]
  /\ refs \in [Conns -> 0..MaxRefs]
  /\ live \in [Conns -> SUBSET Parts]
  /\ qpRefs \in [Conns -> SUBSET {"conn", "daemon", "app"}]
  /\ daemon \in [Conns -> {"none", "polling", "handing", "ended"}]
  /\ card \in [Conns -> {"ready", "error"}]
  /\ rqe \in [Conns -> 0..Rqe]
  /\ sends \in [Conns -> 0..MaxSends]
  /\ cq \in [Conns -> Seq(Completion)]
  /\ crashed \in BOOLEAN

(* The card never has access to memory that has been given back: a buffer  *)
(* is registered only while it is allocated, also while requests that use  *)
(* it are under way.                                                       *)
RegionsBacked ==
  \A c \in Conns : /\ "recvMr" \in live[c] => "recvMem" \in live[c]
                   /\ "sendMr" \in live[c] => "sendMem" \in live[c]

(* Nothing is given back to the device before what rests on it, when the   *)
(* device would refuse and, nobody looking at the result, keep it: regions *)
(* and queue pair go before their domain, the queue pair before its        *)
(* completion queue, everything before the device.                         *)
DropsInOrder ==
  \A c \in Conns :
    /\ live[c] \intersect {"qp", "recvMr", "sendMr"} # {} => "pd" \in live[c]
    /\ "qp" \in live[c] => "cq" \in live[c]
    /\ live[c] # {} => device = "open" \/ live[c] \subseteq {"rx", "recvMem", "sendMem"}

(* The daemon of a Conn, which outlives it, and the application, which may *)
(* have taken the queue pair out of it, never use a queue pair or a        *)
(* completion queue that is destroyed.                                     *)
UsersHaveQp ==
  \A c \in Conns : daemon[c] \in {"polling", "handing"} \/ refs[c] > 0 \/ "app" \in qpRefs[c]
                     => {"qp", "cq", "pd"} \subseteq live[c]

(* A message that the daemon of a dropped Conn is left with ends it, and   *)
(* with it queue pair, completion queue and domain, unless the application *)
(* keeps the queue pair.                                                   *)
DetachedEnds ==
  \A c \in Conns :
    daemon[c] = "handing" /\ "rx" \notin live[c]
      ~> live[c] = {} \/ "app" \in qpRefs[c] \/ crashed

-----------------------------------------------------------------------------
(* The inductive invariant behind the three safety properties.             *)

ConnPartSet == {"rx", "recvMr", "recvMem", "sendMr", "sendMem"}
QpPartSet   == {"qp", "pd", "cq"}

(* Who holds the queue pair: the Conn from its first to its last part, the *)
(* daemon while it runs, and an Arc<Conn> is out only while the Conn is    *)
(* whole.                                                                  *)
HoldersKnown(c) ==
  /\ "conn" \in qpRefs[c] <=> phase[c] \notin {"none", "dropped"}
  /\ "daemon" \in qpRefs[c] <=> daemon[c] \in {"polling", "handing"}
  /\ refs[c] > 0 => phase[c] = "open"
  /\ phase[c] \in {"none", "pair", "buffer"} => daemon[c] = "none"

(* What exists: all of the queue pair while somebody holds it, nothing of  *)
(* the Conn's own before the buffers are made and after they are gone, and *)
(* of the rest only what comes late in the order of the drops.             *)
PartsKept(c) ==
  /\ qpRefs[c] # {} => QpPartSet \subseteq live[c]
  /\ phase[c] \in {"none", "pair", "dropped"} => live[c] \intersect ConnPartSet = {}
  /\ "qp" \in live[c] => "pd" \in live[c]
  /\ "pd" \in live[c] => "cq" \in live[c]

(* The device is closed for good, and nothing that holds it is left.       *)
ClosedLast ==
  device = "closed" => ~runner /\ \A c \in Conns : live[c] \intersect {"pd", "cq"} = {}

(* Whoever holds the queue pair has all of it, and of what a process has   *)
(* of the device, nothing is missing that something else rests on.         *)
LifeInv ==
  /\ \A c \in Conns : HoldersKnown(c) /\ PartsKept(c)
  /\ RegionsBacked
  /\ ClosedLast

===============================================================================
