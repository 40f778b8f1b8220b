---------------------------- MODULE RemoteRingInv -----------------------------
(***************************************************************************)
(* The inductive invariant behind the properties of RemoteRing: how the    *)
(* cursors, the sections in use and the notices under way hang together.   *)
(***************************************************************************)
EXTENDS RemoteRing

(* One past the last byte of a section; where a message of length l goes   *)
(* when the previous one ended at p.                                       *)
SectionEnd(s)  == s.addr + s.len
Place(p, l)    == IF p + l > right THEN left ELSE p

(* The offset up to which the application has released; where the section  *)
(* live[i] follows on; how far the notices under way will move done.       *)
releasedEnd    == rDone + released
StartOf(i)     == IF i = 1 THEN releasedEnd ELSE SectionEnd(live[i - 1])
NoticeStart(i) == IF i = 1 THEN done ELSE credits[i - 1].upto
noticedEnd     == NoticeStart(Len(credits) + 1)

(* The sections in use follow one another in the ring, from what has been  *)
(* released up to the sender's index, by the rule alloc and read share.    *)
SectionsChained ==
  /\ releasedEnd <= right
  /\ \A i \in 1..Len(live) :
       /\ live[i].addr = Place(StartOf(i), live[i].len)
       /\ SectionEnd(live[i]) <= right
  /\ index = StartOf(Len(live) + 1)
  /\ rIndex = IF app = "free" THEN releasedEnd ELSE SectionEnd(slice)

(* The branch alloc has taken stays the right one while it waits, and a    *)
(* message that passed the first test of the wrapping branch fits.         *)
BranchKept ==
  /\ pc \in {"wrapSpace", "wrapOrder"} => index + want > right
  /\ pc \in {"fitSpace", "fitOrder"}   => index + want <= right
  /\ pc = "wrapOrder" => want <= right

(* Applying the notices in turn leads from done to each upto, and a last   *)
(* one for what is gathered would lead to releasedEnd: either rDone is     *)
(* where the notices end, or the receiver has wrapped around since, with a *)
(* message that did not fit behind them.                                   *)
NoticesChained ==
  /\ \A i \in 1..Len(credits) :
       LET p == NoticeStart(i)
           c == credits[i]
       IN c.upto = IF c.amount = 0 THEN p
                   ELSE IF p + c.amount > right THEN c.amount
                   ELSE p + c.amount
  /\ \/ rDone = noticedEnd
     \/ rDone = left /\ noticedEnd + released > right

ChainInv == TypeOK /\ SectionsChained /\ BranchKept /\ NoticesChained

-----------------------------------------------------------------------------
(* Messages shorter than the length that triggers a notice, in a buffer    *)
(* that holds at least two such batches.                                   *)
ShortMessages ==
  /\ \A l \in Lens : l < NotifyMin
  /\ 2 * NotifyMin <= Cap

(* A buffer that holds three messages, each of a length the threshold      *)
(* allows: in a smaller one, what the receiver gathers without telling may *)
(* be the very space alloc waits for.                                      *)
RoomForThree == 3 * (NotifyMin - 1) <= Cap

(* Offsets ordered by how far they lie ahead of done around the ring.      *)
Ahead(p) == IF p >= done THEN p ELSE p + right + 1

(* Around the ring, starting from done: the notices under way in order,    *)
(* what has been released, the sections in use in order, index.            *)
RingOrder ==
  /\ \A i \in 1..Len(credits) : Ahead(credits[i].upto) <= Ahead(releasedEnd)
  /\ \A i, j \in 1..Len(credits) :
       i < j => Ahead(credits[i].upto) <= Ahead(credits[j].upto)
  /\ Ahead(releasedEnd) <= Ahead(index)
  /\ \A i \in 1..Len(live) :
       /\ Ahead(releasedEnd) <= Ahead(live[i].addr)
       /\ Ahead(live[i].addr) <= Ahead(SectionEnd(live[i]))
       /\ Ahead(SectionEnd(live[i])) <= Ahead(index)
  /\ \A i, j \in 1..Len(live) :
       i < j => Ahead(SectionEnd(live[i])) <= Ahead(live[j].addr)

(* A notice that makes done wrap around is never a short one, so the value *)
(* of done alloc found large enough stays large enough when done wraps.    *)
WrappingNoticeLong ==
  /\ released < NotifyMin
  /\ \A i \in 1..Len(credits) :
       credits[i].upto < NoticeStart(i) => credits[i].upto >= NotifyMin

SpaceKept == pc = "wrapOrder" => want < done

SectionsShort == \A i \in 1..Len(live) : live[i].len < NotifyMin

(* What both sides keep of the ring while messages are short: notices,     *)
(* sections and index follow one another from done, and the space alloc    *)
(* found stays.                                                            *)
RingInv ==
  ChainInv /\ RingOrder /\ WrappingNoticeLong /\ SpaceKept /\ SectionsShort

=============================================================================
