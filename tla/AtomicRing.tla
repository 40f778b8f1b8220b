------------------------------ MODULE AtomicRing ------------------------------
(***************************************************************************)
(* What one direction of a connection promises: the ring of RemoteRing     *)
(* with the wait of RemoteBufManager::alloc as ONE test of index and done, *)
(* as if update could not move done in the middle of it.  RemoteRing and   *)
(* both directions of Conn are shown to implement this module.             *)
(***************************************************************************)
EXTENDS Naturals, Sequences

CONSTANTS
  Cap,        \* DEFAULT_RECV_BUFFER_SIZE: right - left, left being 0
  NotifyMin,  \* MIN_LENGTH_TO_NOTIFY_RELEASE
  Lens        \* the lengths of the messages the application sends

VARIABLES
  index, done,              \* RemoteBufManager
  wire, inbox,              \* sections written: under way, not yet received
  app, slice,               \* the receiving application and what it reads
  rIndex, rDone, released,  \* RecvBuffer
  credits                   \* lengths of the notices on their way back

receiverVars == <<app, slice, rIndex, rDone, released>>
vars == <<index, done, wire, inbox, receiverVars, credits>>

(* Where a message of length l lies that follows one that ended at p: the  *)
(* rule of alloc and of read.                                              *)
Place(p, l) == IF p + l > Cap THEN 0 ELSE p

Init ==
  /\ index = 0 /\ done = 0 /\ rIndex = 0 /\ rDone = 0 /\ released = 0
  /\ wire = <<>> /\ inbox = <<>> /\ credits = <<>>
  /\ app = "free"
  /\ slice = [addr |-> 0, len |-> 0]

(* The wait conditions of alloc, negated.                                  *)
HasSpace(l) ==
  IF index + l > Cap
  THEN l < done /\ done <= index
  ELSE index + l < done \/ done <= index

Alloc(l) ==
  /\ HasSpace(l)
  /\ index' = Place(index, l) + l
  /\ wire' = Append(wire, [addr |-> Place(index, l), len |-> l])
  /\ UNCHANGED <<done, inbox, receiverVars, credits>>

Deliver ==
  /\ wire # <<>>
  /\ inbox' = Append(inbox, Head(wire))
  /\ wire' = Tail(wire)
  /\ UNCHANGED <<index, done, receiverVars, credits>>

RecvMsg ==
  /\ app = "free"
  /\ inbox # <<>>
  /\ app' = "reading"
  /\ LET l == Head(inbox).len IN
       /\ slice' = [addr |-> Place(rIndex, l), len |-> l]
       /\ rIndex' = Place(rIndex, l) + l
  /\ inbox' = Tail(inbox)
  /\ UNCHANGED <<index, done, wire, rDone, released, credits>>

(* A notice of 0 tells the sender nothing and need not arrive.             *)
Notify(n) == credits' = Append(credits, n) \/ (n = 0 /\ UNCHANGED credits)

(* notify_release, by its three branches.                                  *)
Release ==
  LET l   == slice.len
      end == rDone + released + l
  IN /\ app = "reading"
     /\ app' = "free"
     /\ slice' = [addr |-> 0, len |-> 0]
     /\ \/ /\ end > Cap
           /\ Notify(released)
           /\ rDone' = 0 /\ released' = l
        \/ /\ end <= Cap /\ released + l >= NotifyMin
           /\ Notify(released + l)
           /\ rDone' = end /\ released' = 0
        \/ /\ end <= Cap /\ released + l < NotifyMin
           /\ released' = released + l
           /\ UNCHANGED <<rDone, credits>>
     /\ UNCHANGED <<index, done, wire, inbox, rIndex>>

Update ==
  /\ credits # <<>>
  /\ done' = Place(done, Head(credits)) + Head(credits)
  /\ credits' = Tail(credits)
  /\ UNCHANGED <<index, wire, inbox, receiverVars>>

Next == (\E l \in Lens : Alloc(l)) \/ Deliver \/ RecvMsg \/ Release \/ Update

Spec == Init /\ [][Next]_vars

=============================================================================
