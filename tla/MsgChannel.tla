------------------------------ MODULE MsgChannel ------------------------------
(***************************************************************************)
(* What the library promises an application, one direction of a Conn: the  *)
(* messages given to send_msg are lent by recv_msg once each, in order and *)
(* unchanged, and the bytes lent stay as they are until release.  It does  *)
(* so until a message is lost: a send_msg that was refused by the card,    *)
(* or dropped where that leaves a gap in a ring.                           *)
(***************************************************************************)
EXTENDS Sequences

CONSTANTS
  Payloads,   \* contents of messages
  None        \* nothing is lent

VARIABLES
  queue,      \* messages sent and not received
  lent,       \* the message the application reads
  lost        \* a message was lost

vars == <<queue, lent, lost>>

Init == queue = <<>> /\ lent = None /\ lost = FALSE

Send(p) ==
  /\ queue' = Append(queue, p)
  /\ UNCHANGED <<lent, lost>>

Recv ==
  /\ lent = None
  /\ queue # <<>>
  /\ lent' = Head(queue)
  /\ queue' = Tail(queue)
  /\ UNCHANGED lost

Release ==
  /\ lent # None
  /\ lent' = None
  /\ UNCHANGED <<queue, lost>>

(* Nothing is promised of what comes then.                                 *)
Lose == lost' = TRUE

Next == (\E p \in Payloads : Send(p)) \/ Recv \/ Release \/ Lose

Spec == Init /\ [][Next]_vars

=============================================================================
