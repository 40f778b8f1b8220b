----------------------------- MODULE RingChannel ------------------------------
(***************************************************************************)
(* One direction of a Conn with the bytes of both its buffers: SendRing at *)
(* the sender and RemoteRing between the two ends, put together by         *)
(* send_msg.  A message is copied into a section of the send buffer; the   *)
(* card reads it there when it executes the write, and writes it into the  *)
(* receive buffer; recv_msg lends a view of it, not a copy.  Shown to      *)
(* implement MsgChannel.                                                   *)
(***************************************************************************)
EXTENDS RemoteRing

CONSTANTS
  SendCap,    \* DEFAULT_SEND_BUFFER_SIZE
  QueueCap,   \* capacity of to_release
  Flags,      \* addresses of flags
  Faults,     \* "post": the card may refuse a request; "cancel": the future
              \* of a send_msg may be dropped where it waits
  Payloads,   \* contents of messages; a message is one of them in each byte
  None        \* what a byte holds before it is written

ASSUME ChannelAssumption ==
  /\ None \notin Payloads
  /\ SendCap \in Nat
  /\ QueueCap \in Nat \ {0}
  /\ Faults \subseteq {"post", "cancel"}

VARIABLES
  sIndex, sDone, sPc, sWant, fresh, toRelease, popped, using, owned, requests,
              \* the send ring; requests are its posted
  text,       \* by flag, the message of the send_msg that has the section,
              \* once it is copied there
  turn,       \* <<the section of the send_msg that holds Conn.lock>>, or <<>>
  sMemory,    \* the bytes of the send buffer
  memory,     \* the bytes of the receive buffer
  lost        \* a message was refused, or dropped where that leaves a gap

Local == INSTANCE SendRing WITH
  Cap <- SendCap, index <- sIndex, done <- sDone, pc <- sPc, want <- sWant,
  posted <- requests

localVars == <<sIndex, sDone, sPc, sWant, fresh, toRelease, popped, using,
               owned, requests>>
byteVars  == <<sMemory, memory>>
chanVars  == <<localVars, text, turn, byteVars, lost>>

Bytes(s) == s.addr .. (s.addr + s.len - 1)

ChanInit ==
  /\ Init
  /\ Local!Init
  /\ text = [f \in Flags |-> None]
  /\ turn = <<>>
  /\ sMemory = [a \in 0..(SendCap - 1) |-> None]
  /\ memory = [a \in 0..(right - 1) |-> None]
  /\ lost = FALSE

-----------------------------------------------------------------------------
(* SendBuffer::alloc for a send_msg, and the release task.                 *)
BufferStep ==
  /\ (\E l \in Lens : Local!AllocBegin(l)) \/ Local!AllocStep \/ Local!Pop \/ Local!ReleaseDone
  /\ UNCHANGED <<vars, text, turn, byteVars, lost>>

(* send_msg copies its message into the section it was given.              *)
Copy(e, p) ==
  /\ e \in owned
  /\ text[e.flag] = None
  /\ text' = [text EXCEPT ![e.flag] = p]
  /\ sMemory' = [a \in DOMAIN sMemory |-> IF a \in Bytes(e) THEN p ELSE sMemory[a]]
  /\ UNCHANGED <<vars, localVars, turn, memory, lost>>

(* Slip: the request is posted before the message is copied.               *)
TakeLockUncopied(e) ==
  /\ turn = <<>>
  /\ e \in owned
  /\ AllocBegin(e.len)
  /\ turn' = <<e>>
  /\ UNCHANGED <<localVars, text, byteVars, lost>>

(* It takes Conn.lock and asks for a section of the remote buffer.         *)
TakeLock(e) ==
  /\ turn = <<>>
  /\ e \in owned
  /\ text[e.flag] # None
  /\ AllocBegin(e.len)
  /\ turn' = <<e>>
  /\ UNCHANGED <<localVars, text, byteVars, lost>>

(* It waits there, or is given a section and posts the request.            *)
AllocOrPost ==
  /\ AllocStep
  /\ IF wire' = wire THEN UNCHANGED <<localVars, turn>>
                     ELSE Local!Post(turn[1]) /\ turn' = <<>>
  /\ UNCHANGED <<text, byteVars, lost>>

(* The task is gone: of its section only the flag remains, true for ever.  *)
Leave(e) ==
  /\ Local!Abandon(e)
  /\ text' = [text EXCEPT ![e.flag] = None]

(* Where alloc, when it ends its wait in this step, places the section.    *)
MayGrant(a) ==
  \/ pc = "wrapOrder" /\ done <= index /\ a = left
  \/ pc = "fitSpace" /\ index + want < done /\ a = index
  \/ pc = "fitOrder" /\ done <= index /\ a = index

(* The card refuses the request: index has moved, the error is logged, and *)
(* send_msg returns Ok.                                                    *)
Refuse ==
  /\ "post" \in Faults
  /\ \E a \in {left, index} : MayGrant(a) /\ index' = a + want
  /\ pc' = "idle" /\ want' = 0
  /\ Leave(turn[1])
  /\ turn' = <<>>
  /\ lost' = TRUE
  /\ UNCHANGED <<done, wire, inbox, receiverVars, credits, byteVars>>

(* A send_msg is dropped while it waits for Conn.lock or holds it; or in   *)
(* the send buffer's alloc, where, when it was about to push its section,  *)
(* the release task will never hear of it.                                 *)
Cancel(e) ==
  /\ "cancel" \in Faults
  /\ e \in owned
  /\ text[e.flag] # None
  /\ Leave(e)
  /\ IF turn = <<e>> THEN CancelAlloc /\ turn' = <<>>
                     ELSE UNCHANGED <<vars, turn>>
  /\ UNCHANGED <<byteVars, lost>>

CancelInBuffer ==
  /\ Local!CancelAlloc
  /\ lost' = (lost \/ sPc = "push")
  /\ UNCHANGED <<vars, text, turn, byteVars>>

-----------------------------------------------------------------------------
(* The request behind the i-th write on the wire.                          *)
Request(i) == requests[Len(requests) - Len(wire) + i]

(* The card executes a write: it reads the section of the send buffer, as  *)
(* it is then, and writes its bytes where the request says.                *)
DeliverBytes ==
  /\ Deliver
  /\ memory' = [a \in DOMAIN memory |->
                  IF a \in Bytes(Head(wire))
                  THEN sMemory[Request(1).addr + (a - Head(wire).addr)]
                  ELSE memory[a]]
  /\ UNCHANGED <<localVars, text, turn, sMemory, lost>>

(* The daemon polls the completion of a write that was executed.           *)
Complete ==
  /\ Len(requests) > Len(wire)
  /\ Local!Complete
  /\ text' = [text EXCEPT ![Head(requests).flag] = None]
  /\ UNCHANGED <<vars, turn, byteVars, lost>>

Receive == (RecvMsg \/ Release \/ Update) /\ UNCHANGED chanVars

ChanNext ==
  \/ BufferStep
  \/ \E e \in owned : TakeLock(e) \/ Cancel(e) \/ \E p \in Payloads : Copy(e, p)
  \/ AllocOrPost
  \/ Refuse
  \/ CancelInBuffer
  \/ DeliverBytes
  \/ Complete
  \/ Receive

ChanSpec == ChanInit /\ [][ChanNext]_<<vars, chanVars>>

-----------------------------------------------------------------------------
(* The bytes of a section, as the contents of one message, or as no        *)
(* message's when they are not all of one.                                 *)
Contents(s) ==
  IF \E p \in Payloads : \A a \in Bytes(s) : memory[a] = p
  THEN CHOOSE p \in Payloads : \A a \in Bytes(s) : memory[a] = p
  ELSE [torn |-> s]

(* What is on the wire is what was given to send_msg.                      *)
Channel == INSTANCE MsgChannel WITH
  queue <- [i \in DOMAIN inbox |-> Contents(inbox[i])]
             \o [i \in DOMAIN wire |-> text[Request(i).flag]],
  lent  <- IF app = "reading" THEN Contents(slice) ELSE None

(* What recv_msg lends is what send_msg was given, each message once and   *)
(* in order, and no later write changes it before release: until a message *)
(* is lost, which puts the two ends out of step.                           *)
MessagesIntact == Channel!Spec

-----------------------------------------------------------------------------
(* The inductive invariant behind it, given that neither ring overwrites.  *)

(* Every message has some byte by which it can be told.                    *)
NonEmpty == 0 \notin Lens

Sent == [addr : Nat, len : Lens]

Copied(s, p) == \A a \in Bytes(s) : a \in DOMAIN sMemory /\ sMemory[a] = p
Holds(s, p)  == \A a \in Bytes(s) : a \in DOMAIN memory /\ memory[a] = p

(* Until a message is lost: a message copied into the send buffer is whole *)
(* there until the card has read it, the writes on the wire are those of   *)
(* the latest requests, and every section that has arrived holds one       *)
(* message in all its bytes until it is released.                          *)
BytesKept ==
  \/ lost
  \/ /\ wire \in Seq(Sent) /\ inbox \in Seq(Sent)
     /\ memory \in [0..(right - 1) -> Payloads \union {None}]
     /\ sMemory \in [0..(SendCap - 1) -> Payloads \union {None}]
     /\ text \in [Flags -> Payloads \union {None}]
     /\ \A e \in owned : text[e.flag] # None => Copied(e, text[e.flag])
     /\ Len(wire) <= Len(requests)
     /\ \A i \in DOMAIN wire :
          /\ Request(i).len = wire[i].len
          /\ text[Request(i).flag] # None
          /\ Copied(Request(i), text[Request(i).flag])
     /\ \A i \in DOMAIN inbox : \E p \in Payloads : Holds(inbox[i], p)
     /\ app = "reading" => slice \in Sent /\ \E p \in Payloads : Holds(slice, p)

=============================================================================
