------------------------------ MODULE RemoteRing ------------------------------
(***************************************************************************)
(* One direction of a connection: the receive buffer of one endpoint and   *)
(* the view its peer keeps of it.                                          *)
(*                                                                         *)
(* The peer that sends owns a RemoteBufManager (src/src/types/mr.rs): it   *)
(* allocates a section of the remote buffer for every message, with two    *)
(* cursors, index (next free byte) and done (everything before it has been *)
(* given back).  The endpoint that receives owns a RecvBuffer: it is told  *)
(* only the LENGTH of each message and recomputes where the message lies   *)
(* (read), and it reports only the LENGTHS of what the application has     *)
(* released (notify_release), from which the sender recomputes done        *)
(* (update).  Nothing but lengths crosses the wire, so the two sides agree *)
(* only if all four computations wrap around at the same messages.         *)
(*                                                                         *)
(* Addresses are offsets from the start of the buffer: left = 0.           *)
(***************************************************************************)
EXTENDS Naturals, Sequences

CONSTANTS
  Cap,        \* DEFAULT_RECV_BUFFER_SIZE: right - left
  NotifyMin,  \* MIN_LENGTH_TO_NOTIFY_RELEASE
  Lens        \* the lengths of the messages the application sends

ASSUME RingAssumption ==
  /\ Cap \in Nat
  /\ NotifyMin \in Nat \ {0}
  /\ Lens \subseteq Nat

VARIABLES
  index,      \* RemoteBufManager.index
  done,       \* RemoteBufManager.done
  pc,         \* where the allocating task stands in RemoteBufManager::alloc
  want,       \* the length it asks for, 0 when there is none
  wire,       \* writes posted to the queue pair and not yet executed
  inbox,      \* messages in the receive buffer, recv_msg not yet called
  app,        \* the receiving application: "free", or "reading" a slice
  slice,      \* the slice recv_msg lent it
  rIndex,     \* RecvBuffer.index
  rDone,      \* RecvBuffer.done
  released,   \* RecvBuffer.released
  credits     \* release notices on their way back to the sender

senderVars   == <<index, done, pc, want>>
receiverVars == <<app, slice, rIndex, rDone, released>>
vars == <<index, done, pc, want, wire, inbox, app, slice, rIndex, rDone,
          released, credits>>

left  == 0
right == Cap

(* A section of the receive buffer, and the sections not yet released, in  *)
(* the order they were allocated.                                          *)
Section == [addr : Nat, len : Nat]
unread  == inbox \o wire
live    == IF app = "reading" THEN <<slice>> \o unread ELSE unread
NoSlice == [addr |-> left, len |-> 0]

Overlap(s, t) == s.addr < t.addr + t.len /\ t.addr < s.addr + s.len

-----------------------------------------------------------------------------
(* RemoteBufManager::alloc.  The caller holds Conn.lock, so one task is in *)
(* it at a time and only that task changes index; update runs concurrently *)
(* and changes done between the two loads each wait condition makes.       *)

Init ==
  /\ index = left
  /\ done = left
  /\ pc = "idle"
  /\ want = 0
  /\ wire = <<>>
  /\ inbox = <<>>
  /\ app = "free"
  /\ slice = NoSlice
  /\ rIndex = left
  /\ rDone = left
  /\ released = 0
  /\ credits = <<>>

(* The branch is taken once, before waiting.                               *)
AllocBegin(l) ==
  /\ pc = "idle"
  /\ want' = l
  /\ pc' = IF index + l > right THEN "wrapSpace" ELSE "fitSpace"
  /\ UNCHANGED <<index, done, wire, inbox, receiverVars, credits>>

(* The section starts at a; the write is posted before the lock is left.   *)
Grant(a) ==
  /\ index' = a + want
  /\ wire' = Append(wire, [addr |-> a, len |-> want])
  /\ want' = 0
  /\ pc' = "idle"
  /\ UNCHANGED <<done, inbox, receiverVars, credits>>

Goto(p) ==
  /\ pc' = p
  /\ UNCHANGED <<index, done, want, wire, inbox, receiverVars, credits>>

(* First operand of the wait condition of the wrapping branch: the first   *)
(* load of done.  While it is true the task sleeps.                        *)
WrapSpaceLoad ==
  /\ pc = "wrapSpace"
  /\ left + want < done
  /\ Goto("wrapOrder")

(* Slip: the order of done and index is not looked at.                     *)
WrapOrderLoadUnchecked ==
  /\ pc = "wrapOrder"
  /\ Grant(left)

(* Second operand: the second load of done.                                *)
WrapOrderLoad ==
  /\ pc = "wrapOrder"
  /\ \/ done > index  /\ Goto("wrapSpace")
     \/ done <= index /\ Grant(left)

(* Slip: index may catch up with done.                                     *)
FitSpaceLoadCatchesUp ==
  /\ pc = "fitSpace"
  /\ \/ index + want > done  /\ Goto("fitOrder")
     \/ index + want <= done /\ Grant(index)

FitSpaceLoad ==
  /\ pc = "fitSpace"
  /\ \/ index + want >= done /\ Goto("fitOrder")
     \/ index + want < done  /\ Grant(index)

(* Slip: an empty ring, done = index, is taken for a full one.             *)
FitOrderLoadEmptyIsFull ==
  /\ pc = "fitOrder"
  /\ \/ done >= index /\ Goto("fitSpace")
     \/ done < index  /\ Grant(index)

FitOrderLoad ==
  /\ pc = "fitOrder"
  /\ \/ done > index  /\ Goto("fitSpace")
     \/ done <= index /\ Grant(index)

(* The future of send_msg is dropped while alloc sleeps; no cursor moved.  *)
CancelAlloc ==
  /\ pc # "idle"
  /\ pc' = "idle"
  /\ want' = 0
  /\ UNCHANGED <<index, done, wire, inbox, receiverVars, credits>>

-----------------------------------------------------------------------------
(* The network card executes the writes of a queue pair in order; the      *)
(* completion reaches RecvBuffer.rx in that order too.                     *)
Deliver ==
  /\ wire # <<>>
  /\ inbox' = Append(inbox, Head(wire))
  /\ wire' = Tail(wire)
  /\ UNCHANGED <<senderVars, receiverVars, credits>>

-----------------------------------------------------------------------------
(* RecvBuffer.  The application calls release() between two recv_msg().    *)

(* Slip: a message that ends exactly at right is taken to wrap around.     *)
ReadAtWrapsEarly(l) == IF rIndex + l >= right THEN left ELSE rIndex

(* Where read() looks for a message of length l.                           *)
ReadAt(l) == IF rIndex + l > right THEN left ELSE rIndex

(* recv_msg: only the length of the message is known here.                 *)
RecvMsg ==
  /\ app = "free"
  /\ inbox # <<>>
  /\ app' = "reading"
  /\ LET l == Head(inbox).len IN
       /\ slice' = [addr |-> ReadAt(l), len |-> l]
       /\ rIndex' = ReadAt(l) + l
  /\ inbox' = Tail(inbox)
  /\ UNCHANGED <<senderVars, wire, rDone, released, credits>>

(* A notice carries the length only; upto remembers, for the properties,   *)
(* the offset in the ring up to which the application had released.        *)
Notify(n, end) == credits' = Append(credits, [amount |-> n, upto |-> end])

(* Slip: the message that wraps around is left out of the next batch.      *)
ReleaseWrappedLoses(l) ==
  /\ rDone + released + l > right
  /\ Notify(released, rDone + released)
  /\ released' = 0
  /\ rDone' = left

(* notify_release, first branch: the released message did not fit before   *)
(* right, so what was gathered is reported (possibly a length of 0).       *)
ReleaseWrapped(l) ==
  /\ rDone + released + l > right
  /\ Notify(released, rDone + released)
  /\ released' = l
  /\ rDone' = left

(* Slip: the notice leaves out the message that reached the threshold.     *)
ReleaseNotifiedForgets(l) ==
  /\ rDone + released + l <= right
  /\ released + l >= NotifyMin
  /\ Notify(released, rDone + released + l)
  /\ rDone' = rDone + (released + l)
  /\ released' = 0

ReleaseNotified(l) ==
  /\ rDone + released + l <= right
  /\ released + l >= NotifyMin
  /\ Notify(released + l, rDone + released + l)
  /\ rDone' = rDone + (released + l)
  /\ released' = 0

ReleaseGathered(l) ==
  /\ rDone + released + l <= right
  /\ released + l < NotifyMin
  /\ released' = released + l
  /\ UNCHANGED <<rDone, credits>>

Release ==
  /\ app = "reading"
  /\ app' = "free"
  /\ slice' = NoSlice
  /\ \/ ReleaseWrapped(slice.len)
     \/ ReleaseNotified(slice.len)
     \/ ReleaseGathered(slice.len)
  /\ UNCHANGED <<senderVars, wire, inbox, rIndex>>

-----------------------------------------------------------------------------
(* Slips: no wrap-around; wrap-around one byte early.                      *)
AdvanceNoWrap(n)    == done + n
AdvanceWrapsEarly(n) == IF done + n >= right THEN left + n ELSE done + n

(* RemoteBufManager::update: where done moves for a notice of length n.    *)
Advance(n) == IF done + n > right THEN left + n ELSE done + n

(* recv_msg at the sending endpoint: the notice came as immediate data,    *)
(* and 0 means there was none.                                             *)
Update ==
  /\ credits # <<>>
  /\ done' = IF Head(credits).amount # 0 THEN Advance(Head(credits).amount)
                                         ELSE done
  /\ credits' = Tail(credits)
  /\ UNCHANGED <<index, pc, want, wire, inbox, receiverVars>>

-----------------------------------------------------------------------------
AllocStep == WrapSpaceLoad \/ WrapOrderLoad \/ FitSpaceLoad \/ FitOrderLoad

Next ==
  \/ \E l \in Lens : AllocBegin(l)
  \/ AllocStep
  \/ CancelAlloc
  \/ Deliver
  \/ RecvMsg
  \/ Release
  \/ Update

Spec == Init /\ [][Next]_vars

(* The allocating task and the receiving application are tokio tasks that  *)
(* sleep and retry or await; the card and the return path make progress.   *)
Fairness ==
  /\ WF_vars(AllocStep)
  /\ WF_vars(Deliver)
  /\ WF_vars(RecvMsg)
  /\ WF_vars(Release)
  /\ WF_vars(Update)

FairSpec == Spec /\ Fairness

-----------------------------------------------------------------------------
(* Types of the state.                                                     *)
TypeOK ==
  /\ index \in 0..right
  /\ done \in 0..right
  /\ pc \in {"idle", "wrapSpace", "wrapOrder", "fitSpace", "fitOrder"}
  /\ want \in Lens \union {0}
  /\ wire \in Seq(Section)
  /\ inbox \in Seq(Section)
  /\ app \in {"free", "reading"}
  /\ slice \in Section
  /\ rIndex \in 0..right
  /\ rDone \in 0..right
  /\ released \in Nat
  /\ credits \in Seq([amount : Nat, upto : 0..right])

(* No two messages that are on the wire, waiting or lent to the            *)
(* application share a byte of the receive buffer: a write never lands on  *)
(* data the receiver has not released ("index cannot catch up done").      *)
NoOverwrite ==
  \A i, j \in DOMAIN live : i # j => ~Overlap(live[i], live[j])

(* recv_msg lends exactly the section the sender wrote: read() and alloc() *)
(* wrap around at the same messages although only lengths are exchanged.   *)
ReadsWhatWasWritten ==
  [][app = "free" /\ app' = "reading" => slice' = Head(inbox)]_vars

(* Each notice moves the sender's done to the very offset up to which the  *)
(* receiver had released when it issued the notice: the batching of        *)
(* notify_release and the wrap-around of update never drift apart.         *)
DoneFollowsReleases ==
  [][Len(credits') < Len(credits) => done' = Head(credits).upto]_vars

(* The condition alloc sleeps on, in the branch it is in.                  *)
LacksSpace ==
  \/ pc \in {"wrapSpace", "wrapOrder"} /\ (left + want >= done \/ done > index)
  \/ pc \in {"fitSpace", "fitOrder"} /\ index + want >= done /\ done > index

(* alloc "waits for remote to release the space": while it lacks space,    *)
(* the remote side still holds a message or a notice is on its way.  The   *)
(* sender never sleeps on space that has all been given back.              *)
WaitsOnlyForReleases ==
  LacksSpace => live # <<>> \/ credits # <<>>

(* A task that asks for space is served, if the application keeps calling  *)
(* recv_msg and release and the notices travel back.                       *)
AllocServed == pc # "idle" ~> pc = "idle"

(* The ring whose alloc tests index and done at once, seen through the     *)
(* lengths of the notices.                                                 *)
Atomic == INSTANCE AtomicRing
            WITH credits <- [i \in DOMAIN credits |-> credits[i].amount]

(* The two loads of done in each wait condition, with update in between,   *)
(* grant a section only where one test of the values at that moment would, *)
(* and every other operation is that of the ring with the single test.     *)
ImplementsAtomicRing == Atomic!Spec

=============================================================================
