-------------------------------- MODULE Conn ---------------------------------
(***************************************************************************)
(* The flow control of a connection: two endpoints, each with a Conn       *)
(* (src/src/connection/conn.rs), a polling daemon (daemon.rs), a queue     *)
(* pair and a completion queue.                                            *)
(*                                                                         *)
(* A send_msg goes through Conn.lock, the window (sending), the remote     *)
(* buffer (alloc) and the send queue; a message consumes a receive request *)
(* (RQE) of the peer and carries, as immediate data, one notice of what    *)
(* its sender has released.  So the window opens, and space comes back,    *)
(* only with messages of the other direction.                              *)
(*                                                                         *)
(* All messages have the same length, the unit of the offsets here, and    *)
(* alloc's wait is one test of index and done, as in AtomicRing, which     *)
(* both directions are shown to implement.                                 *)
(***************************************************************************)
EXTENDS Integers, Sequences, FiniteSets

CONSTANTS
  Rqe,          \* DEFAULT_RQE_COUNT = MAX_QP_WR, also MAX_SENDING
  Slots,        \* messages that fit in a receive buffer
  Batch,        \* messages that reach MIN_LENGTH_TO_NOTIFY_RELEASE
  Initiators,   \* the ends whose application sends on its own
  Requests,     \* bound: messages each of those sends
  Faults        \* "lag": the acknowledgement of a message may come late;
                \* "cancel": the future of a waiting send_msg may be dropped

Ends == {"client", "server"}
Other(e) == IF e = "client" THEN "server" ELSE "client"

ASSUME ConnAssumption ==
  /\ Rqe \in Nat \ {0}
  /\ Slots \in Nat \ {0}
  /\ Batch \in Nat \ {0}
  /\ Initiators \subseteq Ends
  /\ Requests \in Nat
  /\ Faults \subseteq {"lag", "cancel"}

MaxSending == Rqe   \* MAX_SENDING
SendDepth  == Rqe   \* max_send_wr
RxCap      == Rqe   \* channel from the daemon to recv_msg
NoticeCap  == Rqe   \* channel from release to send_msg

VARIABLES
  waiting,    \* send_msg calls that wait for Conn.lock
  holder,     \* the call that has it: "none", in the "window" wait, in "alloc"
  imm,        \* the notice that call took, 0 for none
  sending,    \* Conn.sending
  index,      \* RemoteBufManager.index
  done,       \* RemoteBufManager.done
  wire,       \* notices carried by the messages posted and not executed
  unacked,    \* messages executed at the peer and not acknowledged
  rqe,        \* receive requests posted and not consumed
  cq,         \* completion queue
  daemon,     \* <<the completion tx.send waits with>>, or <<>>
  rx,         \* the channel RecvBuffer.rx
  app,        \* the receiving task: "recv", "reading", "notify"
  notice,     \* the notice it is about to send to the channel release
  rDone,      \* RecvBuffer.done
  gathered,   \* RecvBuffer.released
  notices     \* the channel Conn.release

sendVars == <<waiting, holder, imm, index>>
netVars  == <<wire, unacked, rqe, cq>>
recvVars == <<app, notice, rDone, gathered, notices>>
vars == <<waiting, holder, imm, sending, index, done, wire, unacked, rqe, cq,
          daemon, rx, app, notice, rDone, gathered, notices>>

Received(n) == [opcode |-> "WriteWithImm", imm |-> n]
Written     == [opcode |-> "Write", imm |-> 0]
Counts      == 0..Slots   \* the messages a notice may count
Completion  == [opcode : {"WriteWithImm", "Write"}, imm : Counts]

IsReceived(c) == c.opcode = "WriteWithImm"
IsWritten(c)  == c.opcode = "Write"

(* The completions of one opcode a queue holds.                            *)
Unpolled(q, opcode) == Cardinality({i \in DOMAIN q : q[i].opcode = opcode})

(* Work requests that occupy a place in e's send queue: a place is given   *)
(* back when the completion is polled.                                     *)
SendQueue(e) == Len(wire[e]) + unacked[e] + Unpolled(cq[e], "Write")

-----------------------------------------------------------------------------
(* The application of an initiator spawns a task for every message.        *)
Spawned == [e \in Ends |-> IF e \in Initiators THEN Requests ELSE 0]

Init ==
  /\ waiting = Spawned
  /\ holder = [e \in Ends |-> "none"]
  /\ imm = [e \in Ends |-> 0]
  /\ sending = [e \in Ends |-> 0]
  /\ index = [e \in Ends |-> 0]
  /\ done = [e \in Ends |-> 0]
  /\ wire = [e \in Ends |-> <<>>]
  /\ unacked = [e \in Ends |-> 0]
  /\ rqe = [e \in Ends |-> Rqe]
  /\ cq = [e \in Ends |-> <<>>]
  /\ daemon = [e \in Ends |-> <<>>]
  /\ rx = [e \in Ends |-> <<>>]
  /\ app = [e \in Ends |-> "recv"]
  /\ notice = [e \in Ends |-> 0]
  /\ rDone = [e \in Ends |-> 0]
  /\ gathered = [e \in Ends |-> 0]
  /\ notices = [e \in Ends |-> <<>>]

(* send_msg: the message is in the send buffer, the call takes Conn.lock.  *)
TakeLock(e) ==
  /\ holder[e] = "none"
  /\ waiting[e] > 0
  /\ waiting' = [waiting EXCEPT ![e] = @ - 1]
  /\ holder' = [holder EXCEPT ![e] = "window"]
  /\ UNCHANGED <<imm, sending, index, done, netVars, daemon, rx, recvVars>>

(* get_release_length: one notice, or 0 when the channel is empty.         *)
TakeNotice(e) ==
  IF notices[e] = <<>>
  THEN /\ imm' = [imm EXCEPT ![e] = 0]
       /\ UNCHANGED notices
  ELSE /\ imm' = [imm EXCEPT ![e] = Head(notices[e])]
       /\ notices' = [notices EXCEPT ![e] = Tail(@)]

(* Slip: the window lets one message too many through.                     *)
PassWindowOffByOne(e) ==
  /\ holder[e] = "window"
  /\ sending[e] <= MaxSending
  /\ sending' = [sending EXCEPT ![e] = @ + 1]
  /\ TakeNotice(e)
  /\ holder' = [holder EXCEPT ![e] = "alloc"]
  /\ UNCHANGED <<waiting, index, done, netVars, daemon, rx, app, notice,
                 rDone, gathered>>

(* Slip: the notice is read but stays in the channel.                      *)
PassWindowPeeks(e) ==
  /\ holder[e] = "window"
  /\ sending[e] < MaxSending
  /\ sending' = [sending EXCEPT ![e] = @ + 1]
  /\ imm' = [imm EXCEPT ![e] = IF notices[e] = <<>> THEN 0 ELSE Head(notices[e])]
  /\ holder' = [holder EXCEPT ![e] = "alloc"]
  /\ UNCHANGED <<waiting, index, done, netVars, daemon, rx, recvVars>>

(* The window wait ends, the window shrinks, and get_release_length takes  *)
(* one notice, if there is any, before the remote buffer is allocated.     *)
PassWindow(e) ==
  /\ holder[e] = "window"
  /\ sending[e] < MaxSending
  /\ sending' = [sending EXCEPT ![e] = @ + 1]
  /\ TakeNotice(e)
  /\ holder' = [holder EXCEPT ![e] = "alloc"]
  /\ UNCHANGED <<waiting, index, done, netVars, daemon, rx, app, notice,
                 rDone, gathered>>

(* The wait conditions of RemoteBufManager::alloc, negated.                *)
HasSpace(e) ==
  IF index[e] + 1 > Slots
  THEN 1 < done[e] /\ done[e] <= index[e]
  ELSE index[e] + 1 < done[e] \/ done[e] <= index[e]

(* A full send queue refuses the request: write_with_imm logs the error,   *)
(* send_msg returns Ok, and the message and its notice are gone.           *)
Post(e) ==
  /\ holder[e] = "alloc"
  /\ HasSpace(e)
  /\ index' = [index EXCEPT ![e] = IF @ + 1 > Slots THEN 1 ELSE @ + 1]
  /\ \/ SendQueue(e) < SendDepth  /\ wire' = [wire EXCEPT ![e] = Append(@, imm[e])]
     \/ SendQueue(e) >= SendDepth /\ UNCHANGED wire
  /\ holder' = [holder EXCEPT ![e] = "none"]
  /\ imm' = [imm EXCEPT ![e] = 0]
  /\ UNCHANGED <<waiting, sending, done, unacked, rqe, cq, daemon, rx, recvVars>>

(* Slip: a place in the window is given back that was not taken yet.       *)
CancelReopensWindow(e) ==
  /\ "cancel" \in Faults
  /\ holder[e] \in {"window", "alloc"}
  /\ holder' = [holder EXCEPT ![e] = "none"]
  /\ imm' = [imm EXCEPT ![e] = 0]
  /\ sending' = [sending EXCEPT ![e] = @ - 1]
  /\ UNCHANGED <<waiting, index, done, netVars, daemon, rx, recvVars>>

(* A send_msg dropped while it sleeps, by a timeout say, gives the lock    *)
(* back.  In alloc it has its place in the window, and a notice, already:  *)
(* both are gone for good.                                                 *)
Cancel(e) ==
  /\ "cancel" \in Faults
  /\ holder[e] \in {"window", "alloc"}
  /\ holder' = [holder EXCEPT ![e] = "none"]
  /\ imm' = [imm EXCEPT ![e] = 0]
  /\ UNCHANGED <<waiting, index, sending, done, netVars, daemon, rx, recvVars>>

-----------------------------------------------------------------------------
(* The cards.  A write with immediate data consumes a receive request;     *)
(* without one it is retried.  The sender's completion follows the         *)
(* acknowledgement, which usually precedes any answer.                     *)
Execute(e) ==
  /\ wire[e] # <<>>
  /\ rqe[Other(e)] > 0
  /\ wire' = [wire EXCEPT ![e] = Tail(@)]
  /\ rqe' = [rqe EXCEPT ![Other(e)] = @ - 1]
  /\ LET arrived == [cq EXCEPT ![Other(e)] = Append(@, Received(Head(wire[e])))]
     IN IF "lag" \in Faults
        THEN /\ cq' = arrived
             /\ unacked' = [unacked EXCEPT ![e] = @ + 1]
        ELSE /\ cq' = [arrived EXCEPT ![e] = Append(@, Written)]
             /\ UNCHANGED unacked
  /\ UNCHANGED <<sendVars, sending, done, daemon, rx, recvVars>>

Acknowledge(e) ==
  /\ unacked[e] > 0
  /\ unacked' = [unacked EXCEPT ![e] = @ - 1]
  /\ cq' = [cq EXCEPT ![e] = Append(@, Written)]
  /\ UNCHANGED <<sendVars, sending, done, wire, rqe, daemon, rx, recvVars>>

(* The daemon takes the completions in order.  It polls up to 100 at a     *)
(* time and works through them, one step each here.                        *)
Poll(e) ==
  /\ daemon[e] = <<>>
  /\ cq[e] # <<>>
  /\ cq' = [cq EXCEPT ![e] = Tail(@)]

PostNullRecv(e) == rqe' = [rqe EXCEPT ![e] = @ + 1]

(* A received message is replaced by a new receive request before it is    *)
(* handed on.                                                              *)
PollReceived(e) ==
  /\ Poll(e)
  /\ IsReceived(Head(cq[e]))
  /\ PostNullRecv(e)
  /\ daemon' = [daemon EXCEPT ![e] = <<Head(cq[e]).imm>>]
  /\ UNCHANGED <<sendVars, sending, done, wire, unacked, rx, recvVars>>

(* The completion of a write frees its section of the send buffer          *)
(* (SendRing).                                                             *)
PollWritten(e) ==
  /\ Poll(e)
  /\ IsWritten(Head(cq[e]))
  /\ UNCHANGED <<sendVars, sending, done, wire, unacked, rqe, daemon, rx, recvVars>>

(* tx.send(..).await: the daemon polls nothing while the channel is full.  *)
Dispatch(e) ==
  /\ daemon[e] # <<>>
  /\ Len(rx[e]) < RxCap
  /\ rx' = [rx EXCEPT ![e] = @ \o daemon[e]]
  /\ daemon' = [daemon EXCEPT ![e] = <<>>]
  /\ UNCHANGED <<sendVars, sending, done, netVars, recvVars>>

-----------------------------------------------------------------------------
(* Slip: wrap-around forgotten.                                            *)
AdvanceNoWrap(e, n) == done[e] + n

(* RemoteBufManager::update, for a notice of n messages.                   *)
Advance(e, n) == IF done[e] + n > Slots THEN n ELSE done[e] + n

(* Slip: the notice a message carries is not applied.                      *)
RecvMsgDropsNotice(e) ==
  /\ app[e] = "recv"
  /\ rx[e] # <<>>
  /\ sending' = [sending EXCEPT ![e] = @ - 1]
  /\ rx' = [rx EXCEPT ![e] = Tail(@)]
  /\ app' = [app EXCEPT ![e] = "reading"]
  /\ UNCHANGED <<sendVars, done, netVars, daemon, notice, rDone, gathered, notices>>

RecvMsg(e) ==
  /\ app[e] = "recv"
  /\ rx[e] # <<>>
  /\ sending' = [sending EXCEPT ![e] = @ - 1]
  /\ done' = [done EXCEPT ![e] = Advance(e, Head(rx[e]))]
  /\ rx' = [rx EXCEPT ![e] = Tail(@)]
  /\ app' = [app EXCEPT ![e] = "reading"]
  /\ UNCHANGED <<sendVars, netVars, daemon, notice, rDone, gathered, notices>>

(* An end that does not send on its own spawns a task that sends an answer *)
(* once it has released the message (examples/server.rs).                  *)
Answered(e) == IF e \in Initiators THEN waiting
                                   ELSE [waiting EXCEPT ![e] = @ + 1]

(* release: notify_release either gathers, or has a notice to send.        *)
ReleaseGathered(e) ==
  /\ app[e] = "reading"
  /\ rDone[e] + gathered[e] + 1 <= Slots
  /\ gathered[e] + 1 < Batch
  /\ gathered' = [gathered EXCEPT ![e] = @ + 1]
  /\ app' = [app EXCEPT ![e] = "recv"]
  /\ waiting' = Answered(e)
  /\ UNCHANGED <<holder, imm, sending, index, done, netVars, daemon, rx,
                 notice, rDone, notices>>

ReleaseNotified(e) ==
  /\ app[e] = "reading"
  /\ \/ /\ rDone[e] + gathered[e] + 1 > Slots
        /\ notice' = [notice EXCEPT ![e] = gathered[e]]
        /\ gathered' = [gathered EXCEPT ![e] = 1]
        /\ rDone' = [rDone EXCEPT ![e] = 0]
     \/ /\ rDone[e] + gathered[e] + 1 <= Slots
        /\ gathered[e] + 1 >= Batch
        /\ notice' = [notice EXCEPT ![e] = gathered[e] + 1]
        /\ gathered' = [gathered EXCEPT ![e] = 0]
        /\ rDone' = [rDone EXCEPT ![e] = @ + gathered[e] + 1]
  /\ app' = [app EXCEPT ![e] = "notify"]
  /\ UNCHANGED <<sendVars, sending, done, netVars, daemon, rx, notices>>

(* The channel Conn.release: send waits while it is full.                  *)
SendNotice(e) ==
  /\ app[e] = "notify"
  /\ Len(notices[e]) < NoticeCap
  /\ notices' = [notices EXCEPT ![e] = Append(@, notice[e])]
  /\ notice' = [notice EXCEPT ![e] = 0]
  /\ app' = [app EXCEPT ![e] = "recv"]
  /\ waiting' = Answered(e)
  /\ UNCHANGED <<holder, imm, sending, index, done, netVars, daemon, rx,
                 rDone, gathered>>

-----------------------------------------------------------------------------
SendStep(e) == TakeLock(e) \/ PassWindow(e) \/ Post(e)
CardStep(e) == Execute(e) \/ Acknowledge(e)
PollStep(e) == PollReceived(e) \/ PollWritten(e) \/ Dispatch(e)

(* The receiving task loops over recv_msg and release.                     *)
AppStep(e) == RecvMsg(e) \/ ReleaseGathered(e) \/ ReleaseNotified(e) \/ SendNotice(e)

Next == \E e \in Ends : SendStep(e) \/ Cancel(e) \/ CardStep(e) \/ PollStep(e) \/ AppStep(e)

Spec == Init /\ [][Next]_vars

(* Each task of an endpoint sleeps and retries or awaits, and the cards    *)
(* make progress.                                                          *)
Fairness ==
  \A e \in Ends :
    /\ WF_vars(SendStep(e))
    /\ WF_vars(Execute(e))
    /\ WF_vars(Acknowledge(e))
    /\ WF_vars(PollStep(e))
    /\ WF_vars(AppStep(e))

FairSpec == Spec /\ Fairness

-----------------------------------------------------------------------------
(* Types of the state.                                                     *)
TypeOK ==
  /\ waiting \in [Ends -> Nat]
  /\ holder \in [Ends -> {"none", "window", "alloc"}]
  /\ imm \in [Ends -> Counts]
  /\ sending \in [Ends -> Int]
  /\ index \in [Ends -> 0..Slots]
  /\ done \in [Ends -> 0..Slots]
  /\ wire \in [Ends -> Seq(Counts)]
  /\ unacked \in [Ends -> Nat]
  /\ rqe \in [Ends -> 0..Rqe]
  /\ cq \in [Ends -> Seq(Completion)]
  /\ daemon \in [Ends -> Seq(Counts)]
  /\ rx \in [Ends -> Seq(Counts)]
  /\ app \in [Ends -> {"recv", "reading", "notify"}]
  /\ notice \in [Ends -> Counts]
  /\ rDone \in [Ends -> 0..Slots]
  /\ gathered \in [Ends -> Counts]
  /\ notices \in [Ends -> Seq(Counts)]

(* Messages of e that its peer has not handed to the application.          *)
InTransit(e) ==
  Len(wire[e]) + Unpolled(cq[Other(e)], "WriteWithImm")
    + Len(daemon[Other(e)]) + Len(rx[Other(e)])

(* A message that reaches the peer finds a receive request there: the      *)
(* window keeps the peer from running short of them, as the comment on     *)
(* MAX_SENDING wants.                                                      *)
RqeNeverShort == \A e \in Ends : wire[e] # <<>> => rqe[Other(e)] > 0

(* The daemon never waits for recv_msg: the channel always has room for    *)
(* the message it holds, so write completions behind it are not held up.   *)
DaemonNeverWaits == \A e \in Ends : daemon[e] # <<>> => Len(rx[e]) < RxCap

(* release waits for send_msg to take notices away only when no message is *)
(* on its way to this end: the receiving task never leaves one waiting     *)
(* behind a full channel of notices.                                       *)
ReleaseNeverStalls ==
  \A e \in Ends : app[e] = "notify" /\ Len(notices[e]) >= NoticeCap
                    => InTransit(Other(e)) = 0

(* ibv_post_send is never asked to exceed max_send_wr.                     *)
SendQueueNeverFull ==
  \A e \in Ends : holder[e] = "alloc" => SendQueue(e) < SendDepth

(* What the notices of a queue amount to.                                  *)
Total(q) ==
  LET upto[i \in 0..Len(q)] == IF i = 0 THEN 0 ELSE upto[i - 1] + q[i]
  IN  upto[Len(q)]

Imms(q) == [i \in DOMAIN q |-> q[i].imm]

(* Messages of e whose release has not been applied to done of e: those    *)
(* under way or being read, those the peer has released and gathered, and  *)
(* those counted by notices, which wait at the peer or travel with its     *)
(* messages.                                                               *)
Carried(e) ==
  LET o == Other(e)
  IN Total(wire[e]) + Total(Imms(cq[o])) + Total(daemon[o]) + Total(rx[o])

Reading(e) == IF app[Other(e)] = "reading" THEN 1 ELSE 0

Unreturned(e) ==
  LET o == Other(e)
  IN InTransit(e) + Reading(e) + gathered[o]
       + notice[o] + Total(notices[o]) + imm[o] + Carried(o)

(* Between the two ends no space is lost and none is given back twice: what *)
(* e's cursors take for used is exactly what was not returned to it.       *)
Used(e) == IF done[e] <= index[e] THEN index[e] - done[e]
                                  ELSE Slots + index[e] - done[e]

SpaceConserved == \A e \in Ends : Unreturned(e) = Used(e)

(* The ring of e's messages, between e and its peer o, as AtomicRing sees  *)
(* it.  The sections in use are taken to be where o will look for them, one *)
(* after another from what it has released; the notices for e are those    *)
(* that wait at o, travel with o's messages or wait at e, oldest first.    *)
SectionsFrom(e, k, n) ==
  LET o == Other(e)
  IN [i \in 1..n |-> [addr |-> (rDone[o] + gathered[o] + k + i - 1) % Slots, len |-> 1]]

NoticesFor(e) ==
  LET o == Other(e)
  IN SelectSeq(rx[e] \o daemon[e] \o Imms(SelectSeq(cq[e], IsReceived))
                 \o wire[o] \o <<imm[o]>> \o notices[o] \o <<notice[o]>>,
               LAMBDA n : n # 0)

Held(e) == Reading(e) + InTransit(e) - Len(wire[e])   \* arrived, not released

Ring(e) ==
  INSTANCE AtomicRing WITH
    Cap <- Slots, NotifyMin <- Batch, Lens <- {1},
    index <- index[e], done <- done[e],
    wire <- SectionsFrom(e, Held(e), Len(wire[e])),
    inbox <- SectionsFrom(e, Reading(e), Held(e) - Reading(e)),
    app <- IF Reading(e) = 1 THEN "reading" ELSE "free",
    slice <- IF Reading(e) = 1 THEN SectionsFrom(e, 0, 1)[1] ELSE [addr |-> 0, len |-> 0],
    rIndex <- IF Reading(e) = 1 THEN SectionsFrom(e, 0, 1)[1].addr + 1
                                ELSE rDone[Other(e)] + gathered[Other(e)],
    rDone <- rDone[Other(e)], released <- gathered[Other(e)],
    credits <- NoticesFor(e)

(* Both directions are rings, although the notices of each travel with the *)
(* messages of the other: none is lost, repeated or overtaken, and a       *)
(* message is written where the peer will read it.                         *)
BothAreRings ==
  /\ \A e \in Ends : Ring(e)!Init
  /\ [][\A e \in Ends : [Ring(e)!Next]_(Ring(e)!vars)]_vars

(* alloc "waits for remote to release the space": it is never so that both *)
(* ends wait for space although both applications have received and        *)
(* released every message, each end holding the notices the other needs.   *)
NoMutualWait ==
  ~ \A e \in Ends : /\ holder[e] = "alloc"
                    /\ ~HasSpace(e)
                    /\ InTransit(e) = 0
                    /\ app[e] = "recv"

(* Every send_msg gets through, provided the applications keep receiving:  *)
(* window, remote buffer and notices never wait for one another in a       *)
(* circle.                                                                 *)
SendsComplete ==
  \A e \in Ends : waiting[e] > 0 \/ holder[e] # "none"
                    ~> waiting[e] = 0 /\ holder[e] = "none"

-----------------------------------------------------------------------------
(* The inductive invariant behind the safety properties.                   *)

(* Of the receive requests of an end, those not posted are consumed by     *)
(* messages the daemon has not seen.                                       *)
RqesReplaced == \A e \in Ends : rqe[e] + Unpolled(cq[e], "WriteWithImm") = Rqe

(* What is gathered for the next notice lies in the buffer.                *)
GatheredFits == \A e \in Ends : rDone[e] + gathered[e] <= Slots

InAlloc(e)  == IF holder[e] = "alloc" THEN 1 ELSE 0
InWindow(e) == IF holder[e] = "window" THEN 1 ELSE 0
Busy(e)     == IF app[e] = "recv" THEN 0 ELSE 1

(* The windows of the two ends together count the messages under way: the  *)
(* same recv_msg that takes a message in gives its end a place back.       *)
WindowsCount ==
  InTransit("client") + InTransit("server") + InAlloc("client") + InAlloc("server")
    <= sending["client"] + sending["server"]

(* The window of an end that only answers never closes: each answer was a  *)
(* message received before.                                                *)
AnswersOnly ==
  \A e \in Ends \ Initiators : sending[e] + waiting[e] + InWindow(e) + Busy(e) <= 0

(* A send_msg takes a notice along, or there is none: so notices pile up   *)
(* only as the window opens, and every notice that waits at an end that    *)
(* only answers counts a message it has not answered.                      *)
NoticesWait ==
  \A e \in Ends : Len(notices[e]) + Busy(e) + sending[e]
                    <= IF e \in Initiators THEN NoticeCap + 1 ELSE 0

Windows ==
  /\ \A e \in Ends : sending[e] <= MaxSending /\ Len(daemon[e]) <= 1
  /\ WindowsCount
  /\ AnswersOnly
  /\ NoticesWait

(* The completion queue cut at i: the messages before the cut and the      *)
(* writes behind it.                                                       *)
CutAt(q, i) ==
  Cardinality({k \in DOMAIN q : q[k].opcode = IF k <= i THEN "WriteWithImm" ELSE "Write"})

(* When the peer acknowledges a message before it answers it, the answer   *)
(* finds the write completed: wherever the queue is cut, the messages      *)
(* taken in before the cut make room in the window for the writes that are *)
(* not completed then.                                                     *)
MaxOfPeer(e) == IF Other(e) \in Initiators THEN MaxSending ELSE 0

WritesFirst ==
  "lag" \notin Faults =>
    \A e \in Ends :
      /\ unacked[e] = 0
      /\ \A i \in 0..Len(cq[e]) :
           Len(wire[e]) + CutAt(cq[e], i) + InAlloc(e) + Len(rx[e]) + Len(daemon[e])
             <= sending[e] + MaxOfPeer(e)

(* The windows keep what they promise when one end answers the other, not  *)
(* when both send on their own.                                            *)
OneInitiator == \E e \in Ends : Initiators \subseteq {e}

(* What the flow control keeps: the receive requests, the batch of a       *)
(* notice, the two windows and, with prompt acknowledgements, the order of *)
(* completions.                                                            *)
ConnInv == RqesReplaced /\ GatheredFits /\ Windows /\ WritesFirst

===============================================================================
