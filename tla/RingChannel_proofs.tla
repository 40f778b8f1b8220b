-------------------------- MODULE RingChannel_proofs --------------------------
(***************************************************************************)
(* Both buffers with their bytes implement the channel, for every size of  *)
(* them, threshold, set of short lengths and set of contents, whichever    *)
(* requests the card refuses and whichever send_msg is dropped.            *)
(***************************************************************************)
EXTENDS RingChannel, RemoteRing_proofs

P == INSTANCE SendRing_proofs WITH
  Cap <- SendCap, index <- sIndex, done <- sDone, pc <- sPc, want <- sWant,
  posted <- requests

(* The send ring of the channel is the one the proofs are about.           *)
LEMMA SendAssumed == P!SendRingAssumption
BY RingAssumption, ChannelAssumption DEF P!SendRingAssumption

LEMMA SameInit == Local!Init => P!Init
BY DEF Local!Init, P!Init, Local!left, P!left

LEMMA SameAlloc ==
  /\ \A l : Local!AllocBegin(l) => P!AllocBegin(l)
  /\ Local!Push => P!Push
  /\ Local!CancelAlloc => P!CancelAlloc
  /\ Local!AllocStep => P!AllocStep
<1> USE DEF Local!left, P!left, Local!right, P!right
<1>1. \A l : Local!AllocBegin(l) => P!AllocBegin(l)
  BY DEF Local!AllocBegin, P!AllocBegin
<1>2. \A p : Local!Goto(p) => P!Goto(p)
  BY DEF Local!Goto, P!Goto
<1>3. \A a : Local!Grant(a) => P!Grant(a)
  BY DEF Local!Grant, P!Grant, Local!alive, P!alive, Local!entries, P!entries
<1>4. Local!Push => P!Push
  BY DEF Local!Push, P!Push
<1>5. Local!WrapSpaceLoad => P!WrapSpaceLoad
  BY <1>2 DEF Local!WrapSpaceLoad, P!WrapSpaceLoad
<1>6. Local!WrapOrderLoad => P!WrapOrderLoad
  BY <1>2, <1>3 DEF Local!WrapOrderLoad, P!WrapOrderLoad
<1>7. Local!FitSpaceLoad => P!FitSpaceLoad
  BY <1>2, <1>3 DEF Local!FitSpaceLoad, P!FitSpaceLoad
<1>8. Local!FitOrderLoad => P!FitOrderLoad
  BY <1>2, <1>3 DEF Local!FitOrderLoad, P!FitOrderLoad
<1>9. Local!CancelAlloc => P!CancelAlloc
  BY DEF Local!CancelAlloc, P!CancelAlloc
<1>10. QED
  BY <1>1, <1>4, <1>5, <1>6, <1>7, <1>8, <1>9 DEF Local!AllocStep, P!AllocStep

LEMMA SameRelease ==
  /\ Local!Complete => P!Complete
  /\ Local!Pop => P!Pop
  /\ Local!ReleaseDone => P!ReleaseDone
  /\ \A e : Local!Post(e) => P!Post(e)
  /\ \A e : Local!Abandon(e) => P!Abandon(e)
BY DEF Local!Complete, P!Complete, Local!Pop, P!Pop, Local!ReleaseDone, P!ReleaseDone,
   Local!Advance, P!Advance, Local!left, P!left, Local!right, P!right, Local!Post, P!Post,
   Local!Abandon, P!Abandon, Local!allocVars, P!allocVars

LEMMA SameRoom == Local!RoomForQueue => P!RoomForQueue
BY DEF Local!RoomForQueue, P!RoomForQueue

-----------------------------------------------------------------------------
(* The invariant: both rings in order, and between them the send_msg that  *)
(* has Conn.lock; a text is that of a section in use.                      *)
Hands ==
  /\ turn = <<>> => pc = "idle"
  /\ turn # <<>> => /\ pc # "idle"
                    /\ \E e \in owned : turn = <<e>> /\ text[e.flag] # None /\ want = e.len
  /\ \A f \in Flags : text[f] # None =>
       \/ \E e \in owned : e.flag = f
       \/ \E i \in DOMAIN requests : requests[i].flag = f

RingsInOrder == RingInv /\ WantAsked /\ P!InOrder /\ Hands

ChanInv == lost \in BOOLEAN /\ BytesKept /\ (lost \/ RingsInOrder)

(* What a step below does to the send ring, where no message is lost.      *)
LEMMA RingSteps ==
  ASSUME RingsInOrder, [ChanNext]_<<vars, chanVars>>, ~lost'
  PROVE  /\ [Next]_vars
         /\ [P!Next]_(P!vars) /\ ~(P!CancelAlloc /\ sPc = "push")
<1>1. /\ \A e \in owned : e.len \in Lens
      /\ sPc = "push" => fresh[1] \notin owned
  BY SendAssumed, P!InOrderFacts DEF RingsInOrder
<1>2. /\ sPc = "push" => sPc' = "push" \/ owned' # owned
      /\ [P!Next]_(P!vars)
      /\ [Next]_vars
  <2>1. ASSUME UNCHANGED localVars
        PROVE  /\ sPc = "push" => sPc' = "push" \/ owned' # owned
               /\ [P!Next]_(P!vars)
    BY <2>1 DEF localVars, P!vars
  <2>2. CASE BufferStep
    <3>1. [Next]_vars
      BY <2>2 DEF BufferStep
    <3>2. [P!Next]_(P!vars)
      BY <2>2, SameAlloc, SameRelease DEF BufferStep, P!Next
    <3>3. ASSUME sPc = "push" PROVE sPc' = "push" \/ owned' # owned
      <4>1. \/ Local!Push \/ Local!Pop \/ Local!ReleaseDone
        BY <2>2, <3>3 DEF BufferStep, Local!AllocBegin, Local!AllocStep, Local!WrapSpaceLoad,
           Local!WrapOrderLoad, Local!FitSpaceLoad, Local!FitOrderLoad
      <4>2. CASE Local!Push
        BY <1>1, <3>3, <4>2 DEF Local!Push
      <4>3. QED
        BY <3>3, <4>1, <4>2 DEF Local!Pop, Local!ReleaseDone, Local!allocVars
    <3>4. QED
      BY <3>1, <3>2, <3>3
  <2>3. ASSUME NEW e \in owned, TakeLock(e)
        PROVE  [Next]_vars /\ UNCHANGED localVars
    BY <1>1, <2>3 DEF TakeLock, Next
  <2>4. ASSUME NEW e \in owned, Cancel(e)
        PROVE  /\ sPc = "push" => sPc' = "push" \/ owned' # owned
               /\ [P!Next]_(P!vars) /\ [Next]_vars
    <3>1. Local!Abandon(e) /\ (CancelAlloc \/ UNCHANGED vars)
      BY <2>4 DEF Cancel, Leave
    <3>2. sPc' = sPc
      BY <3>1 DEF Local!Abandon, Local!allocVars
    <3>3. QED
      BY <3>1, <3>2, SameRelease DEF P!Next, Next
  <2>5. ASSUME NEW e \in owned, NEW p \in Payloads, Copy(e, p)
        PROVE  [Next]_vars /\ UNCHANGED localVars
    BY <2>5 DEF Copy
  <2>6. CASE AllocOrPost
    <3>1. [Next]_vars
      BY <2>6 DEF AllocOrPost, Next
    <3>2. CASE wire' = wire
      BY <2>1, <2>6, <3>1, <3>2 DEF AllocOrPost
    <3>3. CASE wire' # wire
      <4>1. Local!Post(turn[1])
        BY <2>6, <3>3 DEF AllocOrPost
      <4>2. turn[1] \in owned /\ sPc' = sPc
        BY <4>1 DEF Local!Post, Local!allocVars
      <4>3. QED
        BY <3>1, <4>1, <4>2, SameRelease DEF P!Next
    <3>4. QED
      BY <3>2, <3>3
  <2>7. ~Refuse
    BY DEF Refuse
  <2>8. CASE CancelInBuffer
    <3>1. sPc # "push" /\ UNCHANGED vars /\ Local!CancelAlloc
      BY <2>8 DEF CancelInBuffer
    <3>2. QED
      BY <3>1, SameAlloc DEF P!Next
  <2>9. CASE DeliverBytes
    BY <2>1, <2>9 DEF DeliverBytes, Next
  <2>10. CASE Complete
    <3>1. Local!Complete /\ UNCHANGED vars
      BY <2>10 DEF Complete
    <3>2. sPc' = sPc
      BY <3>1 DEF Local!Complete, Local!allocVars
    <3>3. QED
      BY <3>1, <3>2, SameRelease DEF P!Next
  <2>11. CASE Receive
    BY <2>1, <2>11 DEF Receive, chanVars, Next
  <2>12. CASE UNCHANGED <<vars, chanVars>>
    BY <2>1, <2>12 DEF chanVars
  <2>13. QED
    BY <2>1, <2>2, <2>3, <2>4, <2>5, <2>6, <2>7, <2>8, <2>9, <2>10, <2>11, <2>12 DEF ChanNext
<1>3. ~(P!CancelAlloc /\ sPc = "push")
  BY <1>2 DEF P!CancelAlloc
<1>4. QED
  BY <1>2, <1>3

(* What is lost stays lost.                                                *)
LEMMA LostKept == lost /\ [ChanNext]_<<vars, chanVars>> => lost'
BY DEF ChanNext, BufferStep, TakeLock, Cancel, Copy, AllocOrPost, Refuse, CancelInBuffer,
   DeliverBytes, Complete, Receive, chanVars

-----------------------------------------------------------------------------
(* What tasks and requests may rely on: sections and flags of their own.   *)
UsedSection(s) ==
  /\ s.flag \in Flags /\ s.addr \in Nat /\ s.len \in Nat /\ s.len \in Lens
  /\ s.addr + s.len <= SendCap

LEMMA UseFacts ==
  ASSUME RingsInOrder
  PROVE  /\ \A e \in owned : UsedSection(e)
         /\ \A i \in DOMAIN requests : UsedSection(requests[i])
         /\ \A e, d \in owned : e # d => e.flag # d.flag /\ ~Overlap(d, e)
         /\ \A e \in owned, i \in DOMAIN requests :
              e.flag # requests[i].flag /\ ~Overlap(requests[i], e)
         /\ \A i, j \in DOMAIN requests : i # j => requests[i].flag # requests[j].flag
         /\ requests \in Seq(P!Entry)
         /\ DOMAIN requests = 1..Len(requests) /\ Len(requests) \in Nat
<1>1. P!InOrder
  BY DEF RingsInOrder
<1>2. /\ \A s \in P!inUse : UsedSection(s)
      /\ \A s, t \in P!inUse : s # t => s.flag # t.flag /\ ~Overlap(s, t)
      /\ \A e \in owned : e \in P!inUse
      /\ \A i \in DOMAIN requests : requests[i] \in P!inUse /\ requests[i] \notin owned
      /\ \A i, j \in DOMAIN requests : requests[i] = requests[j] => i = j
      /\ requests \in Seq(P!Entry)
  BY <1>1, SendAssumed, P!InOrderFacts DEF UsedSection, P!Overlap, Overlap
<1>3. DOMAIN requests = 1..Len(requests) /\ Len(requests) \in Nat
  BY <1>2
<1>4. QED
  BY <1>2, <1>3

(* A section about to be pushed has a flag that no text is kept under.     *)
LEMMA FreshSilent ==
  ASSUME RingsInOrder, Local!Push
  PROVE  text[fresh[1].flag] = None
<1>1. P!InOrder /\ sPc = "push"
  BY DEF RingsInOrder, Local!Push
<1>2. /\ \A s, t \in P!inUse : s # t => s.flag # t.flag
      /\ \A e \in owned : e \in P!inUse
      /\ \A i \in DOMAIN requests : requests[i] \in P!inUse
      /\ fresh[1] \in P!inUse /\ fresh[1] \notin owned
      /\ \A j \in DOMAIN requests : fresh[1] # requests[j]
      /\ fresh[1].flag \in Flags
  BY <1>1, SendAssumed, P!InOrderFacts
<1>3. QED
  BY <1>2 DEF RingsInOrder, Hands

(* Where alloc of the remote buffer ends.                                  *)
LEMMA AllocEnds ==
  ASSUME TypeOK, WantAsked, AllocStep
  PROVE  /\ pc # "idle"
         /\ \/ wire' = wire /\ UNCHANGED <<want, inbox, app, slice>> /\ pc' # "idle"
            \/ \E a \in Nat :
                 /\ wire' = Append(wire, [addr |-> a, len |-> want]) /\ want \in Lens
                 /\ wire' # wire /\ UNCHANGED <<inbox, app, slice>> /\ pc' = "idle"
<1>1. pc # "idle" /\ want \in Lens /\ index \in Nat /\ left \in Nat
  BY DEF AllocStep, WrapSpaceLoad, WrapOrderLoad, FitSpaceLoad, FitOrderLoad, WantAsked,
     TypeOK, left
<1>2. \/ \E p \in {"wrapSpace", "wrapOrder", "fitSpace", "fitOrder"} : Goto(p)
      \/ \E a \in Nat : Grant(a)
  BY <1>1 DEF AllocStep, WrapSpaceLoad, WrapOrderLoad, FitSpaceLoad, FitOrderLoad
<1>3. ASSUME NEW p \in {"wrapSpace", "wrapOrder", "fitSpace", "fitOrder"}, Goto(p)
      PROVE  wire' = wire /\ UNCHANGED <<want, inbox, app, slice>> /\ pc' # "idle"
  BY <1>3 DEF Goto, receiverVars
<1>4. ASSUME NEW a \in Nat, Grant(a)
      PROVE  /\ wire' = Append(wire, [addr |-> a, len |-> want])
             /\ wire' # wire /\ UNCHANGED <<inbox, app, slice>> /\ pc' = "idle"
  <2>1. /\ wire' = Append(wire, [addr |-> a, len |-> want])
        /\ UNCHANGED <<inbox, app, slice>> /\ pc' = "idle"
    BY <1>4 DEF Grant, receiverVars
  <2>2. [addr |-> a, len |-> want] \in Section /\ wire \in Seq(Section)
    BY <1>1, RingAssumption DEF TypeOK, Section
  <2>3. Len(wire') = Len(wire) + 1 /\ Len(wire) \in Nat
    BY <2>1, <2>2
  <2>4. QED
    BY <2>1, <2>3
<1>5. QED
  BY <1>1, <1>2, <1>3, <1>4

(* The send_msg that posts is the one that has the lock.                   *)
LEMMA PosterIs ==
  ASSUME RingsInOrder, AllocOrPost, wire' # wire
  PROVE  \E e \in owned : /\ turn = <<e>> /\ text[e.flag] # None /\ want = e.len
                          /\ Local!Post(e)
<1>1. Local!Post(turn[1]) /\ pc # "idle"
  BY DEF AllocOrPost, AllocStep, WrapSpaceLoad, WrapOrderLoad, FitSpaceLoad, FitOrderLoad
<1>2. turn # <<>>
  BY <1>1 DEF RingsInOrder, Hands
<1>3. PICK e \in owned : turn = <<e>> /\ text[e.flag] # None /\ want = e.len
  BY <1>2 DEF RingsInOrder, Hands
<1>4. turn[1] = e
  BY <1>3
<1>5. QED
  BY <1>1, <1>3, <1>4

LEMMA HandsInit == ChanInit => Hands
BY DEF ChanInit, Init, Hands

LEMMA HandsNext ==
  ASSUME RingsInOrder, BytesKept, [ChanNext]_<<vars, chanVars>>, ~lost, ~lost'
  PROVE  Hands'
<1>0. /\ Hands /\ TypeOK /\ WantAsked
      /\ text \in [Flags -> Payloads \union {None}]
  BY DEF RingsInOrder, RingInv, ChainInv, BytesKept
<1>1. ASSUME UNCHANGED <<turn, pc, want, text, requests>>, owned \subseteq owned'
      PROVE  Hands'
  BY <1>0, <1>1 DEF Hands
<1>2. CASE BufferStep
  <2>1. UNCHANGED <<turn, pc, want, text, requests>>
    BY <1>2 DEF BufferStep, vars, Local!AllocBegin, Local!AllocStep, Local!WrapSpaceLoad,
       Local!WrapOrderLoad, Local!FitSpaceLoad, Local!FitOrderLoad, Local!Goto,
       Local!Grant, Local!Push, Local!Pop, Local!ReleaseDone, Local!allocVars
  <2>2. owned \subseteq owned'
    BY <1>2 DEF BufferStep, Local!AllocBegin, Local!AllocStep, Local!WrapSpaceLoad,
       Local!WrapOrderLoad, Local!FitSpaceLoad, Local!FitOrderLoad, Local!Goto,
       Local!Grant, Local!Push, Local!Pop, Local!ReleaseDone, Local!allocVars
  <2>3. QED
    BY <1>1, <2>1, <2>2
<1>3. ASSUME NEW e \in owned, TakeLock(e) PROVE Hands'
  <2>1. /\ turn' = <<e>> /\ text[e.flag] # None /\ want' = e.len /\ pc' # "idle"
        /\ UNCHANGED <<owned, text, requests>>
    BY <1>3 DEF TakeLock, AllocBegin, localVars
  <2>2. QED
    BY <1>0, <2>1 DEF Hands
<1>4. ASSUME NEW e \in owned, Cancel(e) PROVE Hands'
  <2>1. /\ owned' = owned \ {e} /\ requests' = requests
        /\ text' = [text EXCEPT ![e.flag] = None]
    BY <1>4 DEF Cancel, Leave, Local!Abandon
  <2>2. e.flag \in Flags /\ \A d \in owned : d # e => d.flag # e.flag
    BY UseFacts DEF UsedSection
  <2>3. \A f \in Flags : text'[f] # None => f # e.flag /\ text[f] # None
    BY <1>0, <2>1, <2>2
  <2>4. \A f \in Flags : text'[f] # None =>
          \/ \E d \in owned' : d.flag = f
          \/ \E i \in DOMAIN requests' : requests'[i].flag = f
    BY <1>0, <2>1, <2>3 DEF Hands
  <2>5. CASE turn = <<e>>
    <3>1. turn' = <<>> /\ pc' = "idle"
      BY <1>4, <2>5 DEF Cancel, CancelAlloc
    <3>2. QED
      BY <2>4, <3>1 DEF Hands
  <2>6. CASE turn # <<e>>
    <3>1. UNCHANGED <<turn, pc, want>>
      BY <1>4, <2>6 DEF Cancel, vars
    <3>2. ASSUME turn # <<>>
          PROVE  \E d \in owned' : turn = <<d>> /\ text'[d.flag] # None /\ want = d.len
      <4>1. PICK d \in owned : turn = <<d>> /\ text[d.flag] # None /\ want = d.len
        BY <1>0, <3>2 DEF Hands
      <4>2. d # e /\ d.flag # e.flag /\ d.flag \in Flags
        BY <2>2, <2>6, <4>1, UseFacts DEF UsedSection
      <4>3. QED
        BY <1>0, <2>1, <4>1, <4>2
    <3>3. QED
      BY <1>0, <2>4, <3>1, <3>2 DEF Hands
  <2>7. QED
    BY <2>5, <2>6
<1>5. ASSUME NEW e \in owned, NEW p \in Payloads, Copy(e, p) PROVE Hands'
  <2>1. /\ text' = [text EXCEPT ![e.flag] = p]
        /\ UNCHANGED <<turn, pc, want, owned, requests>>
    BY <1>5 DEF Copy, vars, localVars
  <2>2. p # None /\ e.flag \in Flags
    BY ChannelAssumption, UseFacts DEF UsedSection
  <2>3. \A f \in Flags : text'[f] = IF f = e.flag THEN p ELSE text[f]
    BY <1>0, <2>1
  <2>4. \A d \in owned : text[d.flag] # None => text'[d.flag] # None
    BY <2>2, <2>3, UseFacts DEF UsedSection
  <2>5. \A f \in Flags : text'[f] # None => f = e.flag \/ text[f] # None
    BY <2>3
  <2>6. QED
    BY <1>0, <2>1, <2>4, <2>5 DEF Hands
<1>6. CASE AllocOrPost
  <2>1. AllocStep /\ text' = text
    BY <1>6 DEF AllocOrPost
  <2>2. CASE wire' = wire
    <3>1. UNCHANGED <<turn, owned, requests, want>> /\ pc # "idle" /\ pc' # "idle"
      BY <1>0, <1>6, <2>1, <2>2, AllocEnds DEF AllocOrPost, localVars
    <3>2. QED
      BY <1>0, <2>1, <3>1 DEF Hands
  <2>3. CASE wire' # wire
    <3>1. pc' = "idle" /\ turn' = <<>>
      BY <1>0, <1>6, <2>1, <2>3, AllocEnds DEF AllocOrPost
    <3>2. PICK e \in owned : Local!Post(e)
      BY <1>6, <2>3, PosterIs
    <3>3. owned' = owned \ {e} /\ requests' = Append(requests, e) /\ e \in P!inUse
      BY <3>2 DEF Local!Post, P!inUse
    <3>4. e \in P!Entry
      BY <3>3, SendAssumed, P!InOrderFacts DEF RingsInOrder
    <3>5. /\ \A i \in DOMAIN requests : i \in DOMAIN requests' /\ requests'[i] = requests[i]
          /\ \E i \in DOMAIN requests' : requests'[i] = e
      BY <3>3, <3>4, UseFacts
    <3>6. QED
      BY <1>0, <2>1, <3>1, <3>3, <3>5 DEF Hands
  <2>4. QED
    BY <2>2, <2>3
<1>7. CASE CancelInBuffer
  BY <1>1, <1>7 DEF CancelInBuffer, Local!CancelAlloc, vars
<1>8. CASE DeliverBytes
  BY <1>1, <1>8 DEF DeliverBytes, Deliver, senderVars, localVars
<1>9. CASE Complete
  <2>1. /\ requests # <<>> /\ requests' = Tail(requests)
        /\ text' = [text EXCEPT ![Head(requests).flag] = None]
        /\ UNCHANGED <<turn, pc, want, owned>>
    BY <1>9 DEF Complete, Local!Complete, vars
  <2>2. /\ Head(requests) = requests[1] /\ 1 \in DOMAIN requests
        /\ \A i \in DOMAIN requests : i = 1 \/ (i - 1 \in DOMAIN requests'
                                                /\ requests'[i - 1] = requests[i])
    BY <2>1, UseFacts
  <2>3. requests[1].flag \in Flags
    BY <2>2, UseFacts DEF UsedSection
  <2>4. \A f \in Flags : text'[f] = IF f = requests[1].flag THEN None ELSE text[f]
    BY <1>0, <2>1, <2>2, <2>3
  <2>5. \A d \in owned : text'[d.flag] = text[d.flag]
    BY <2>2, <2>4, UseFacts DEF UsedSection
  <2>6. ASSUME NEW f \in Flags, text'[f] # None
        PROVE  \/ \E e \in owned' : e.flag = f
               \/ \E i \in DOMAIN requests' : requests'[i].flag = f
    <3>1. text[f] # None /\ f # requests[1].flag
      BY <2>4, <2>6
    <3>2. QED
      BY <1>0, <2>1, <2>2, <3>1, ZenonT(40) DEF Hands
  <2>7. QED
    BY <1>0, <2>1, <2>5, <2>6 DEF Hands
<1>10. CASE Receive
  BY <1>1, <1>10 DEF Receive, chanVars, localVars, RecvMsg, Release, Update, senderVars
<1>11. CASE UNCHANGED <<vars, chanVars>>
  BY <1>1, <1>11 DEF vars, chanVars, localVars
<1>12. ~Refuse
  BY DEF Refuse
<1>13. QED
  BY <1>2, <1>3, <1>4, <1>5, <1>6, <1>7, <1>8, <1>9, <1>10, <1>11, <1>12 DEF ChanNext

-----------------------------------------------------------------------------
(* The bytes of the send buffer.                                           *)
LEMMA Requested ==
  ASSUME RingsInOrder, BytesKept, ~lost, NEW i \in DOMAIN wire
  PROVE  /\ Len(requests) - Len(wire) + i \in DOMAIN requests
         /\ i \in 1..Len(wire) /\ Len(wire) \in Nat
         /\ UsedSection(Request(i))
         /\ \A e \in owned : e.flag # Request(i).flag /\ ~Overlap(Request(i), e)
<1>1. /\ wire \in Seq(Sent) /\ Len(wire) <= Len(requests)
      /\ DOMAIN wire = 1..Len(wire) /\ Len(wire) \in Nat
  BY DEF BytesKept
<1>2. Len(requests) - Len(wire) + i \in DOMAIN requests
  BY <1>1, UseFacts
<1>3. QED
  BY <1>1, <1>2, UseFacts DEF Request

LEMMA KeptSame ==
  ASSUME BytesKept, ~lost,
         UNCHANGED <<memory, sMemory, text, requests, wire, inbox>>,
         app' = "reading" => app = "reading" /\ slice' = slice,
         \A e \in owned' : e \in owned \/ text[e.flag] = None
  PROVE  BytesKept'
BY SMTT(30) DEF BytesKept, Copied, Holds, Bytes, Request, right

(* A copy changes no byte of the other sections in use.                    *)
LEMMA CopyApart ==
  ASSUME RingsInOrder, BytesKept, ~lost, NEW e \in owned, NEW p \in Payloads, Copy(e, p)
  PROVE  /\ sMemory' \in [0..(SendCap - 1) -> Payloads \union {None}]
         /\ Copied(e, p)'
         /\ \A s, q : UsedSection(s) /\ ~Overlap(s, e) /\ Copied(s, q) => Copied(s, q)'
<1>1. /\ sMemory \in [0..(SendCap - 1) -> Payloads \union {None}]
      /\ sMemory' = [a \in DOMAIN sMemory |-> IF a \in Bytes(e) THEN p ELSE sMemory[a]]
  BY DEF BytesKept, Copy
<1>2. sMemory' = [a \in 0..(SendCap - 1) |-> IF a \in Bytes(e) THEN p ELSE sMemory[a]]
  BY <1>1
<1>3. /\ sMemory' \in [0..(SendCap - 1) -> Payloads \union {None}]
      /\ DOMAIN sMemory = 0..(SendCap - 1) /\ DOMAIN sMemory' = 0..(SendCap - 1)
  BY <1>1, <1>2
<1>4. e.addr \in Nat /\ e.len \in Nat /\ e.addr + e.len <= SendCap
  BY UseFacts DEF UsedSection
<1>5. \A a \in Bytes(e) : a \in 0..(SendCap - 1)
  BY <1>4, ChannelAssumption DEF Bytes
<1>6. Copied(e, p)'
  <2>1. \A a \in Bytes(e) : a \in DOMAIN sMemory' /\ sMemory'[a] = p
    BY <1>2, <1>3, <1>5
  <2>2. QED
    BY <2>1 DEF Copied, Bytes
<1>7. ASSUME NEW s, NEW q, UsedSection(s), ~Overlap(s, e), Copied(s, q)
      PROVE  Copied(s, q)'
  <2>1. \A a \in Bytes(s) : a \notin Bytes(e)
    BY <1>4, <1>7 DEF UsedSection, Bytes, Overlap
  <2>2. \A a \in Bytes(s) : a \in 0..(SendCap - 1) /\ sMemory[a] = q
    BY <1>3, <1>7 DEF Copied
  <2>3. \A a \in Bytes(s) : a \in DOMAIN sMemory' /\ sMemory'[a] = q
    BY <1>2, <1>3, <2>1, <2>2
  <2>4. QED
    BY <2>3 DEF Copied, Bytes
<1>8. QED
  BY <1>3, <1>6, <1>7

LEMMA KeptCopy ==
  ASSUME RingsInOrder, BytesKept, ~lost, NEW e \in owned, NEW p \in Payloads, Copy(e, p)
  PROVE  BytesKept'
<1>1. /\ text' = [text EXCEPT ![e.flag] = p]
      /\ UNCHANGED <<memory, owned, requests, wire, inbox, app, slice>>
  BY DEF Copy, localVars, vars
<1>2. /\ text \in [Flags -> Payloads \union {None}]
      /\ e.flag \in Flags
  BY UseFacts DEF BytesKept, UsedSection
<1>3. /\ text' \in [Flags -> Payloads \union {None}]
      /\ \A f \in Flags : text'[f] = IF f = e.flag THEN p ELSE text[f]
  BY <1>1, <1>2
<1>4. ASSUME NEW d \in owned, text'[d.flag] # None
      PROVE  Copied(d, text[d.flag])'
  <2>1. CASE d = e
    <3>1. text'[d.flag] = p
      BY <1>2, <1>3, <2>1
    <3>2. QED
      BY <2>1, <3>1, CopyApart DEF Copied, Bytes
  <2>2. CASE d # e
    <3>1. UsedSection(d) /\ ~Overlap(d, e) /\ d.flag # e.flag
      BY <2>2, UseFacts
    <3>2. text'[d.flag] = text[d.flag]
      BY <1>3, <3>1 DEF UsedSection
    <3>3. Copied(d, text[d.flag])
      BY <1>4, <3>2 DEF BytesKept
    <3>4. PICK q : q = text[d.flag]
      OBVIOUS
    <3>5. Copied(d, q)'
      BY <3>1, <3>3, <3>4, CopyApart
    <3>6. QED
      BY <3>2, <3>4, <3>5 DEF Copied, Bytes
  <2>3. QED
    BY <2>1, <2>2
<1>5. ASSUME NEW i \in DOMAIN wire
      PROVE  /\ Request(i).len = wire[i].len /\ text'[Request(i).flag] # None
             /\ Copied(Request(i), text[Request(i).flag])'
  <2>1. /\ UsedSection(Request(i)) /\ ~Overlap(Request(i), e)
        /\ e.flag # Request(i).flag
    BY Requested
  <2>2. text'[Request(i).flag] = text[Request(i).flag]
    BY <1>3, <2>1 DEF UsedSection
  <2>3. /\ Request(i).len = wire[i].len /\ text[Request(i).flag] # None
        /\ Copied(Request(i), text[Request(i).flag])
    BY DEF BytesKept
  <2>4. PICK q, s : q = text[Request(i).flag] /\ s = Request(i)
    OBVIOUS
  <2>5. Copied(s, q)'
    BY <2>1, <2>3, <2>4, CopyApart
  <2>6. Request(i)' = s /\ text'[s.flag] = q
    BY <1>1, <2>2, <2>4 DEF Request
  <2>7. QED
    BY <2>2, <2>3, <2>4, <2>5, <2>6 DEF Copied, Bytes
<1>6. sMemory' \in [0..(SendCap - 1) -> Payloads \union {None}]
  BY CopyApart
<1>7. \A i \in DOMAIN wire : Request(i)' = Request(i)
  BY <1>1 DEF Request
<1>8. QED
  BY <1>1, <1>3, <1>4, <1>5, <1>6, <1>7 DEF BytesKept, Holds, Copied, Bytes, right

(* A text goes with its section.                                           *)
LEMMA KeptLess ==
  ASSUME RingsInOrder, BytesKept, ~lost, NEW f \in Flags,
         text' = [text EXCEPT ![f] = None],
         UNCHANGED <<memory, sMemory, wire, inbox>>,
         app' = "reading" => app = "reading" /\ slice' = slice,
         \A e \in owned' : e \in owned /\ e.flag # f,
         Len(wire) <= Len(requests'),
         \A i \in DOMAIN wire : Request(i)' = Request(i) /\ Request(i).flag # f
  PROVE  BytesKept'
<1>1. text \in [Flags -> Payloads \union {None}]
  BY DEF BytesKept
<1>2. /\ text' \in [Flags -> Payloads \union {None}]
      /\ \A g \in Flags : g # f => text'[g] = text[g]
  BY <1>1
<1>3. ASSUME NEW e \in owned', text'[e.flag] # None
      PROVE  Copied(e, text[e.flag])'
  <2>1. e \in owned /\ e.flag # f /\ e.flag \in Flags
    BY UseFacts DEF UsedSection
  <2>2. text'[e.flag] = text[e.flag]
    BY <1>2, <2>1
  <2>3. Copied(e, text[e.flag])
    BY <1>3, <2>1, <2>2 DEF BytesKept
  <2>4. QED
    BY <2>2, <2>3 DEF Copied, Bytes
<1>4. ASSUME NEW i \in DOMAIN wire
      PROVE  /\ Request(i)'.len = wire[i].len /\ text'[Request(i)'.flag] # None
             /\ Copied(Request(i), text[Request(i).flag])'
  <2>1. /\ Request(i)' = Request(i) /\ Request(i).flag # f /\ Request(i).flag \in Flags
    BY Requested DEF UsedSection
  <2>2. text'[Request(i).flag] = text[Request(i).flag]
    BY <1>2, <2>1
  <2>3. /\ Request(i).len = wire[i].len /\ text[Request(i).flag] # None
        /\ Copied(Request(i), text[Request(i).flag])
    BY DEF BytesKept
  <2>4. QED
    BY <2>1, <2>2, <2>3 DEF Copied, Bytes
<1>5. QED
  BY <1>2, <1>3, <1>4 DEF BytesKept, Holds, Bytes, right

LEMMA KeptCancel ==
  ASSUME RingsInOrder, BytesKept, ~lost, NEW e \in owned, Cancel(e)
  PROVE  BytesKept'
<1>1. /\ owned' = owned \ {e} /\ requests' = requests
      /\ text' = [text EXCEPT ![e.flag] = None]
      /\ UNCHANGED <<memory, sMemory>>
  BY DEF Cancel, Leave, Local!Abandon, byteVars
<1>2. UNCHANGED <<wire, inbox, app, slice>>
  BY DEF Cancel, CancelAlloc, receiverVars, vars
<1>3. e.flag \in Flags /\ \A d \in owned' : d \in owned /\ d.flag # e.flag
  BY <1>1, UseFacts DEF UsedSection
<1>4. \A i \in DOMAIN wire : Request(i)' = Request(i) /\ Request(i).flag # e.flag
  BY <1>1, <1>2, Requested DEF Request
<1>5. Len(wire) <= Len(requests')
  BY <1>1 DEF BytesKept
<1>6. QED
  BY <1>1, <1>2, <1>3, <1>4, <1>5, KeptLess

LEMMA KeptComplete ==
  ASSUME RingsInOrder, BytesKept, ~lost, Complete
  PROVE  BytesKept' /\ \A i \in DOMAIN wire : /\ Request(i)' = Request(i)
                                              /\ text'[Request(i).flag] = text[Request(i).flag]
<1>1. /\ requests # <<>> /\ requests' = Tail(requests) /\ Len(requests) > Len(wire)
      /\ text' = [text EXCEPT ![Head(requests).flag] = None]
      /\ UNCHANGED <<memory, sMemory, owned, wire, inbox, app, slice>>
  BY DEF Complete, Local!Complete, byteVars, vars
<1>2. PICK f \in Flags : f = requests[1].flag
  BY <1>1, UseFacts DEF UsedSection
<1>3. /\ Head(requests).flag = f /\ 1 \in DOMAIN requests
      /\ Len(requests') = Len(requests) - 1
      /\ \A i \in 2..Len(requests) : requests'[i - 1] = requests[i]
  BY <1>1, <1>2, UseFacts
<1>4. ASSUME NEW i \in DOMAIN wire
      PROVE  Request(i)' = Request(i) /\ Request(i).flag # f
  <2>1. i \in 1..Len(wire) /\ Len(wire) \in Nat
    BY Requested
  <2>2. PICK k \in 2..Len(requests) : k = Len(requests) - Len(wire) + i
    BY <1>1, <2>1, UseFacts
  <2>3. Request(i) = requests[k]
    BY <2>2 DEF Request
  <2>4. Len(requests') - Len(wire') + i = k - 1
    BY <1>1, <1>3, <2>1, <2>2, UseFacts
  <2>5. Request(i)' = requests'[k - 1]
    BY <2>4 DEF Request
  <2>6. k # 1 /\ k \in DOMAIN requests
    BY <2>2, UseFacts
  <2>7. QED
    BY <1>2, <1>3, <2>2, <2>3, <2>5, <2>6, UseFacts
<1>5. \A d \in owned' : d \in owned /\ d.flag # f
  BY <1>1, <1>2, <1>3, UseFacts
<1>6. Len(wire) <= Len(requests')
  <2>1. Len(wire) \in Nat
    BY DEF BytesKept
  <2>2. QED
    BY <1>1, <1>3, <2>1, UseFacts
<1>7. BytesKept'
  BY <1>1, <1>3, <1>4, <1>5, <1>6, KeptLess
<1>8. \A i \in DOMAIN wire : text'[Request(i).flag] = text[Request(i).flag]
  <2>1. text \in [Flags -> Payloads \union {None}]
    BY DEF BytesKept
  <2>2. \A g \in Flags : g # f => text'[g] = text[g]
    BY <1>1, <1>3, <2>1
  <2>3. \A i \in DOMAIN wire : Request(i).flag \in Flags
    BY Requested DEF UsedSection
  <2>4. QED
    BY <1>4, <2>2, <2>3, Zenon
<1>9. QED
  BY <1>4, <1>7, <1>8

(* A write is posted for a section that is copied.                         *)
LEMMA Posted ==
  ASSUME RingsInOrder, BytesKept, ~lost, AllocOrPost, wire' # wire
  PROVE  \E e \in owned, a, n \in Nat :
           /\ turn = <<e>> /\ text[e.flag] # None /\ e.len \in Lens
           /\ n = Len(wire) /\ Request(n + 1)' = e
           /\ owned' = owned \ {e} /\ requests' = Append(requests, e)
           /\ wire' = Append(wire, [addr |-> a, len |-> e.len])
           /\ UNCHANGED <<memory, sMemory, text, inbox, app, slice>>
           /\ \A i \in DOMAIN wire : Request(i)' = Request(i)
           /\ DOMAIN wire' = 1..(n + 1) /\ DOMAIN wire = 1..n
           /\ Len(wire') <= Len(requests')
<1>1. PICK e \in owned : turn = <<e>> /\ text[e.flag] # None /\ want = e.len /\ Local!Post(e)
  BY PosterIs
<1>2. PICK a \in Nat : /\ wire' = Append(wire, [addr |-> a, len |-> want])
                       /\ want \in Lens /\ UNCHANGED <<inbox, app, slice>>
  BY AllocEnds DEF AllocOrPost, RingsInOrder, RingInv, ChainInv
<1>3. /\ owned' = owned \ {e} /\ requests' = Append(requests, e)
      /\ UNCHANGED <<memory, sMemory, text>>
  BY <1>1 DEF Local!Post, AllocOrPost, byteVars
<1>4. wire \in Seq(Sent) /\ Len(wire) <= Len(requests)
  BY DEF BytesKept
<1>5. e \in P!Entry
  <2>1. e \in P!inUse
    BY DEF P!inUse
  <2>2. QED
    BY <2>1, SendAssumed, P!InOrderFacts DEF RingsInOrder
<1>6. /\ Len(requests') = Len(requests) + 1
      /\ \A i \in 1..Len(requests) : requests'[i] = requests[i]
      /\ requests'[Len(requests) + 1] = e
  BY <1>3, <1>5, UseFacts
<1>7. [addr |-> a, len |-> want] \in Sent
  BY <1>2 DEF Sent
<1>8. /\ Len(wire') = Len(wire) + 1 /\ Len(wire) \in Nat /\ DOMAIN wire = 1..Len(wire)
      /\ DOMAIN wire' = 1..(Len(wire) + 1)
  BY <1>2, <1>4, <1>7
<1>9. ASSUME NEW i \in DOMAIN wire PROVE Request(i)' = Request(i)
  <2>1. PICK k \in 1..Len(requests) : k = Len(requests) - Len(wire) + i
    BY <1>4, <1>8, UseFacts
  <2>2. Len(requests') - Len(wire') + i = k
    BY <1>6, <1>8, <2>1, UseFacts
  <2>3. QED
    BY <1>6, <2>1, <2>2 DEF Request
<1>10. PICK n \in Nat : n = Len(wire) /\ Request(n + 1)' = e
  <2>1. PICK n \in Nat : n = Len(wire)
    BY <1>8
  <2>2. Len(requests') - Len(wire') + (n + 1) = Len(requests) + 1
    BY <1>6, <1>8, <2>1, UseFacts
  <2>3. Request(n + 1)' = requests'[Len(requests) + 1]
    BY <2>2 DEF Request
  <2>4. Request(n + 1)' = e
    BY <1>6, <2>3, Zenon
  <2>5. QED
    BY <2>1, <2>4, ZenonT(40)
<1>11. Len(wire') <= Len(requests')
  BY <1>4, <1>6, <1>8, UseFacts
<1>12. QED
  BY <1>1, <1>2, <1>3, <1>8, <1>9, <1>10, <1>11, Zenon

LEMMA KeptPost ==
  ASSUME RingsInOrder, BytesKept, ~lost, AllocOrPost, wire' # wire
  PROVE  BytesKept'
<1>1. PICK e \in owned, a, n \in Nat :
        /\ n = Len(wire) /\ Request(n + 1)' = e
        /\ text[e.flag] # None /\ e.len \in Lens
        /\ owned' = owned \ {e}
        /\ wire' = Append(wire, [addr |-> a, len |-> e.len])
        /\ UNCHANGED <<memory, sMemory, text, inbox, app, slice>>
        /\ \A i \in DOMAIN wire : Request(i)' = Request(i)
        /\ DOMAIN wire' = 1..(n + 1) /\ DOMAIN wire = 1..n
        /\ Len(wire') <= Len(requests')
  BY Posted
<1>2. wire \in Seq(Sent) /\ [addr |-> a, len |-> e.len] \in Sent
  BY <1>1 DEF BytesKept, Sent
<1>3. /\ wire' \in Seq(Sent)
      /\ \A i \in 1..n : wire'[i] = wire[i]
      /\ wire'[n + 1].len = e.len
  BY <1>1, <1>2
<1>4. ASSUME NEW i \in DOMAIN wire'
      PROVE  /\ Request(i)'.len = wire'[i].len /\ text'[Request(i)'.flag] # None
             /\ Copied(Request(i), text[Request(i).flag])'
  <2>1. CASE i \in 1..n
    <3>1. Request(i)' = Request(i) /\ wire'[i] = wire[i]
      BY <1>1, <1>3, <2>1
    <3>2. /\ Request(i).len = wire[i].len /\ text[Request(i).flag] # None
          /\ Copied(Request(i), text[Request(i).flag])
      BY <1>1, <2>1 DEF BytesKept
    <3>3. QED
      BY <1>1, <3>1, <3>2 DEF Copied, Bytes
  <2>2. CASE i = n + 1
    <3>1. Request(i)' = e /\ wire'[i].len = e.len
      BY <1>1, <1>3, <2>2
    <3>2. Copied(e, text[e.flag])
      BY <1>1 DEF BytesKept
    <3>3. QED
      BY <1>1, <3>1, <3>2 DEF Copied, Bytes
  <2>3. QED
    BY <1>1, <2>1, <2>2
<1>5. QED
  BY <1>1, <1>3, <1>4 DEF BytesKept, Copied, Holds, Bytes, right

-----------------------------------------------------------------------------
(* Sections and bytes of the receive buffer.                               *)
LEMMA SentIsSection == Sent \subseteq Section
BY RingAssumption DEF Sent, Section

(* The contents of a section that holds one message are that message, in a *)
(* state and in the next.                                                  *)
LEMMA ContentsHeld ==
  ASSUME NonEmpty, NEW s \in Sent, NEW p \in Payloads
  PROVE  /\ Holds(s, p) => Contents(s) = p
         /\ Holds(s, p)' => Contents(s)' = p
<1>1. s.addr \in Bytes(s)
  <2>1. s.addr \in Nat /\ s.len \in Nat /\ s.len # 0
    BY RingAssumption DEF Sent, NonEmpty
  <2>2. QED
    BY <2>1 DEF Bytes
<1>2. \A q : Holds(s, p) /\ Holds(s, q) => q = p
  BY <1>1 DEF Holds
<1>3. \A q : Holds(s, p)' /\ Holds(s, q)' => q = p
  BY <1>1 DEF Holds, Bytes
<1>4. Holds(s, p) => Contents(s) = p
  BY <1>2 DEF Contents, Holds
<1>5. Holds(s, p)' => Contents(s)' = p
  BY <1>3 DEF Contents, Holds
<1>6. QED
  BY <1>4, <1>5

(* The section the card writes next overlaps with none that has arrived.   *)
LEMMA NextApart ==
  ASSUME TypeOK, NoOverwrite, wire # <<>>
  PROVE  /\ \A i \in DOMAIN inbox : ~Overlap(inbox[i], Head(wire))
         /\ app = "reading" => ~Overlap(slice, Head(wire))
<1>1. inbox \in Seq(Section) /\ wire \in Seq(Section) /\ slice \in Section
  BY DEF TypeOK
<1>2. /\ unread \in Seq(Section) /\ live \in Seq(Section)
      /\ Len(unread) = Len(inbox) + Len(wire)
  BY <1>1, LiveType DEF unread
<1>3. /\ Len(inbox) \in Nat /\ Len(wire) \in Nat /\ Len(wire) > 0
      /\ Head(wire) = wire[1]
  BY <1>1
<1>4. /\ unread[Len(inbox) + 1] = Head(wire)
      /\ \A i \in 1..Len(inbox) : unread[i] = inbox[i]
  BY <1>1, <1>3 DEF unread
<1>5. DOMAIN live = 1..Len(live) /\ DOMAIN inbox = 1..Len(inbox)
  BY <1>1, <1>2
<1>6. CASE app = "reading"
  <2>1. live = <<slice>> \o unread
    BY <1>6 DEF live
  <2>2. /\ Len(live) = Len(unread) + 1
        /\ live[1] = slice
        /\ \A i \in 1..Len(unread) : live[i + 1] = unread[i]
    <3>1. <<slice>> \in Seq(Section) /\ Len(<<slice>>) = 1 /\ <<slice>>[1] = slice
      BY <1>1
    <3>2. Len(live) = Len(unread) + 1 /\ live[1] = slice
      BY <1>2, <2>1, <3>1
    <3>3. ASSUME NEW i \in 1..Len(unread) PROVE live[i + 1] = unread[i]
      BY <1>2, <2>1, <3>1
    <3>4. QED
      BY <3>2, <3>3
  <2>3. live[Len(inbox) + 2] = Head(wire)
    BY <1>2, <1>3, <1>4, <2>2
  <2>4. \A i \in 1..Len(inbox) : live[i + 1] = inbox[i]
    BY <1>2, <1>3, <1>4, <2>2
  <2>5. Len(inbox) + 2 \in 1..Len(live) /\ 1 \in 1..Len(live)
    BY <1>2, <1>3, <2>2
  <2>6. ASSUME NEW i \in 1..Len(inbox) PROVE ~Overlap(inbox[i], Head(wire))
    <3>1. i + 1 \in 1..Len(live) /\ i + 1 # Len(inbox) + 2
      BY <1>2, <1>3, <2>2
    <3>2. QED
      BY <1>5, <2>3, <2>4, <2>5, <3>1 DEF NoOverwrite
  <2>7. 1 # Len(inbox) + 2
    BY <1>3
  <2>8. ~Overlap(slice, Head(wire))
    BY <1>5, <2>2, <2>3, <2>5, <2>7 DEF NoOverwrite
  <2>9. QED
    BY <1>5, <2>6, <2>8
<1>7. CASE app # "reading"
  <2>1. live = unread
    BY <1>7 DEF live
  <2>2. Len(inbox) + 1 \in 1..Len(live)
    BY <1>2, <1>3, <2>1
  <2>3. ASSUME NEW i \in 1..Len(inbox) PROVE ~Overlap(inbox[i], Head(wire))
    <3>1. i \in 1..Len(live) /\ i # Len(inbox) + 1
      BY <1>2, <1>3, <2>1
    <3>2. QED
      BY <1>4, <1>5, <2>1, <2>2, <3>1 DEF NoOverwrite
  <2>4. QED
    BY <1>5, <1>7, <2>3
<1>8. QED
  BY <1>6, <1>7

(* The write puts its message where it belongs and changes no byte of a    *)
(* section apart from it.                                                  *)
LEMMA BytesWritten ==
  ASSUME RingsInOrder, BytesKept, ~lost, DeliverBytes
  PROVE  /\ Head(wire) \in Sent /\ text[Request(1).flag] \in Payloads
         /\ memory' \in [0..(right - 1) -> Payloads \union {None}]
         /\ \A a \in Bytes(Head(wire)) :
              a \in DOMAIN memory' /\ memory'[a] = text[Request(1).flag]
         /\ \A s \in Sent, p \in Payloads :
              Holds(s, p) /\ ~Overlap(s, Head(wire)) => Holds(s, p)'
<1> DEFINE h == wire[1]
           m == text[Request(1).flag]
<1>0. TypeOK /\ SectionsChained
  BY DEF RingsInOrder, RingInv, ChainInv
<1>1. /\ wire \in Seq(Sent) /\ wire # <<>> /\ DOMAIN wire = 1..Len(wire)
      /\ memory \in [0..(right - 1) -> Payloads \union {None}]
      /\ memory' = [a \in DOMAIN memory |->
                      IF a \in Bytes(Head(wire))
                      THEN sMemory[Request(1).addr + (a - Head(wire).addr)]
                      ELSE memory[a]]
  BY DEF BytesKept, DeliverBytes, Deliver
<1>2. Len(wire) > 0 /\ Head(wire) = h /\ h \in Sent /\ 1 \in DOMAIN wire
  BY <1>1
<1>3. m \in Payloads /\ Copied(Request(1), m) /\ Request(1).len = h.len
  <2>1. UsedSection(Request(1))
    BY <1>2, Requested
  <2>2. QED
    BY <1>2, <2>1 DEF BytesKept, UsedSection
<1>4. memory' = [a \in 0..(right - 1) |-> IF a \in Bytes(h) THEN m ELSE memory[a]]
  <2>1. \A a \in Bytes(h) : Request(1).addr + (a - h.addr) \in Bytes(Request(1))
    <3>1. h.addr \in Nat /\ h.len \in Nat /\ UsedSection(Request(1))
      BY <1>2, Requested, SentIsSection DEF Section
    <3>2. QED
      BY <1>3, <3>1 DEF Bytes, UsedSection
  <2>2. \A a \in Bytes(h) : sMemory[Request(1).addr + (a - h.addr)] = m
    BY <1>3, <2>1 DEF Copied
  <2>3. QED
    BY <1>1, <1>2, <2>2
<1> HIDE DEF m
<1>5. memory' \in [0..(right - 1) -> Payloads \union {None}]
  BY <1>1, <1>3, <1>4
<1>6. h.addr \in Nat /\ h.len \in Nat /\ h.addr + h.len <= right
  <2>1. \E j \in 1..Len(live) : live[j] = h
    <3>1. inbox \in Seq(Section) /\ wire \in Seq(Section) /\ slice \in Section
      BY <1>0 DEF TypeOK
    <3>2. unread \in Seq(Section) /\ Len(unread) = Len(inbox) + Len(wire)
      BY <3>1 DEF unread
    <3>3. unread[Len(inbox) + 1] = h /\ Len(inbox) + 1 \in 1..Len(unread)
      BY <1>2, <3>1, <3>2 DEF unread
    <3>4. CASE app = "reading"
      <4>1. live = <<slice>> \o unread
        BY <3>4 DEF live
      <4>2. live[Len(inbox) + 2] = h /\ Len(inbox) + 2 \in 1..Len(live)
        BY <3>1, <3>2, <3>3, <4>1
      <4>3. QED
        BY <4>2
    <3>5. QED
      BY <3>3, <3>4 DEF live
  <2>2. SectionEnd(h) <= right
    BY <1>0, <2>1 DEF SectionsChained
  <2>3. QED
    BY <1>2, <2>2, SentIsSection DEF Section, SectionEnd
<1>7. \A a \in Bytes(h) : a \in DOMAIN memory' /\ memory'[a] = m
  <2>1. \A a \in Bytes(h) : a \in 0..(right - 1)
    BY <1>6, RingAssumption DEF Bytes, right
  <2>2. QED
    BY <1>4, <2>1
<1>8. ASSUME NEW s \in Sent, NEW p \in Payloads, Holds(s, p), ~Overlap(s, h)
      PROVE  Holds(s, p)'
  <2>1. s.addr \in Nat /\ s.len \in Nat
    BY SentIsSection DEF Section
  <2>2. ASSUME NEW a \in Bytes(s) PROVE a \notin Bytes(h)
    BY <1>6, <1>8, <2>1 DEF Bytes, Overlap
  <2>3. \A a \in Bytes(s) : a \in 0..(right - 1) /\ memory[a] = p
    BY <1>1, <1>8 DEF Holds
  <2>4. \A a \in Bytes(s) : a \in 0..(right - 1) /\ memory'[a] = p
    BY <1>4, <2>2, <2>3
  <2>5. DOMAIN memory' = 0..(right - 1)
    BY <1>5
  <2>6. QED
    BY <2>4, <2>5 DEF Holds, Bytes
<1>9. QED
  BY <1>2, <1>3, <1>5, <1>7, <1>8 DEF m

-----------------------------------------------------------------------------
(* The request behind a write moves up when one is executed.               *)
Delivered ==
  /\ DOMAIN wire' = 1..(Len(wire) - 1) /\ DOMAIN wire = 1..Len(wire)
  /\ Len(wire) \in Nat \ {0} /\ Len(wire') = Len(wire) - 1
  /\ \A i \in DOMAIN wire' : Request(i)' = Request(i + 1) /\ wire'[i] = wire[i + 1]

LEMMA KeptDeliver ==
  ASSUME ShortMessages, RingsInOrder, BytesKept, ~lost, DeliverBytes
  PROVE  BytesKept' /\ Delivered
<1>0. TypeOK /\ SectionsChained /\ NoOverwrite
  BY RingNoOverwrite DEF RingsInOrder, RingInv, ChainInv
<1>1. wire \in Seq(Sent) /\ inbox \in Seq(Sent) /\ Len(wire) <= Len(requests)
  BY DEF BytesKept
<1>2. /\ wire # <<>> /\ wire' = Tail(wire) /\ inbox' = Append(inbox, Head(wire))
      /\ UNCHANGED <<app, slice, requests, owned, text, sMemory>>
  BY DEF DeliverBytes, Deliver, receiverVars, localVars
<1>3. wire' \in Seq(Sent) /\ Delivered
  <2>1. /\ wire' \in Seq(Sent) /\ Len(wire') = Len(wire) - 1 /\ Len(wire) \in Nat \ {0}
        /\ DOMAIN wire = 1..Len(wire) /\ DOMAIN wire' = 1..(Len(wire) - 1)
        /\ \A i \in 1..(Len(wire) - 1) : wire'[i] = wire[i + 1]
    BY <1>1, <1>2
  <2>2. ASSUME NEW i \in DOMAIN wire' PROVE Request(i)' = Request(i + 1)
    <3>1. Len(requests') - Len(wire') + i = Len(requests) - Len(wire) + (i + 1)
      BY <1>2, <2>1, UseFacts
    <3>2. QED
      BY <1>2, <3>1 DEF Request
  <2>3. QED
    BY <1>2, <2>1, <2>2 DEF Delivered
<1>4. PICK h \in Sent : h = Head(wire)
  BY BytesWritten
<1>5. PICK m \in Payloads : m = text[Request(1).flag]
  BY BytesWritten
<1>6. /\ inbox' \in Seq(Sent) /\ Len(inbox') = Len(inbox) + 1
      /\ \A i \in 1..Len(inbox) : inbox'[i] = inbox[i]
      /\ inbox'[Len(inbox) + 1] = h
  BY <1>1, <1>2, <1>4
<1>7. Holds(h, m)'
  BY <1>4, <1>5, BytesWritten DEF Holds, Bytes
<1>8. ASSUME NEW i \in 1..Len(inbox)
      PROVE  \E p \in Payloads : Holds(inbox[i], p) /\ ~Overlap(inbox[i], Head(wire))
  BY <1>0, <1>1, <1>2, NextApart DEF BytesKept
<1>9. ASSUME NEW i \in 1..Len(inbox')
      PROVE  \E p \in Payloads : Holds(inbox[i], p)'
  <2>1. CASE i = Len(inbox) + 1
    BY <1>6, <1>7, <2>1 DEF Holds, Bytes
  <2>2. CASE i \in 1..Len(inbox)
    <3>1. PICK s \in Sent : s = inbox[i]
      BY <1>1, <2>2
    <3>2. PICK p \in Payloads : Holds(s, p) /\ ~Overlap(s, Head(wire))
      BY <1>8, <2>2, <3>1
    <3>3. Holds(s, p)' /\ inbox'[i] = s
      BY <1>6, <2>2, <3>1, <3>2, BytesWritten
    <3>4. QED
      BY <3>3 DEF Holds, Bytes
  <2>3. QED
    BY <1>1, <1>6, <2>1, <2>2
<1>10. ASSUME app = "reading"
       PROVE  slice \in Sent /\ \E p \in Payloads : Holds(slice, p)'
  <2>1. PICK s \in Sent : s = slice
    BY <1>10 DEF BytesKept
  <2>2. PICK p \in Payloads : Holds(s, p)
    BY <1>10, <2>1 DEF BytesKept
  <2>3. Holds(s, p)' /\ slice' = s
    BY <1>0, <1>2, <1>10, <2>1, <2>2, NextApart, BytesWritten
  <2>4. QED
    BY <2>1, <2>3 DEF Holds, Bytes
<1>11. DOMAIN inbox' = 1..Len(inbox')
  BY <1>6
<1>12. memory' \in [0..(right' - 1) -> Payloads \union {None}]
  BY BytesWritten DEF right
<1>13. \A i \in DOMAIN inbox' : \E p \in Payloads : Holds(inbox[i], p)'
  BY <1>9, <1>11 DEF Holds, Bytes
<1>14. ASSUME NEW i \in DOMAIN wire'
       PROVE  /\ Request(i)'.len = wire'[i].len /\ text'[Request(i)'.flag] # None
              /\ Copied(Request(i), text[Request(i).flag])'
  <2>1. PICK k \in DOMAIN wire : k = i + 1
    BY <1>3 DEF Delivered
  <2>2. Request(i)' = Request(k) /\ wire'[i] = wire[k]
    BY <1>3, <2>1 DEF Delivered
  <2>3. /\ Request(k).len = wire[k].len /\ text[Request(k).flag] # None
        /\ Copied(Request(k), text[Request(k).flag])
    BY DEF BytesKept
  <2>4. QED
    BY <1>2, <2>2, <2>3 DEF Copied, Bytes
<1>15. Len(wire') <= Len(requests')
  BY <1>1, <1>2, <1>3, UseFacts DEF Delivered
<1>16. ASSUME NEW e \in owned', text'[e.flag] # None PROVE Copied(e, text[e.flag])'
  BY <1>2, <1>16 DEF BytesKept, Copied, Bytes
<1>17. /\ text' \in [Flags -> Payloads \union {None}]
       /\ sMemory' \in [0..(SendCap - 1) -> Payloads \union {None}]
  BY <1>2 DEF BytesKept
<1>18. BytesKept'
  BY <1>2, <1>3, <1>6, <1>10, <1>12, <1>13, <1>14, <1>15, <1>16, <1>17 DEF BytesKept
<1>19. QED
  BY <1>3, <1>18

LEMMA KeptRecv ==
  ASSUME RingsInOrder, BytesKept, ~lost, RecvMsg, UNCHANGED chanVars
  PROVE  BytesKept'
<1>0. TypeOK /\ SectionsChained
  BY DEF RingsInOrder, RingInv, ChainInv
<1>1. /\ wire \in Seq(Sent) /\ inbox \in Seq(Sent)
      /\ memory \in [0..(right - 1) -> Payloads \union {None}]
  BY DEF BytesKept
<1>2. /\ inbox # <<>> /\ inbox' = Tail(inbox) /\ wire' = wire
      /\ UNCHANGED <<memory, sMemory, text, owned, requests>>
  BY DEF RecvMsg, chanVars, byteVars, localVars
<1>3. slice' = inbox[1] /\ 1 \in 1..Len(inbox)
  BY <1>0, <1>1, <1>2, LiveRecvMsg
<1>4. /\ inbox' \in Seq(Sent) /\ DOMAIN inbox' = 1..(Len(inbox) - 1)
      /\ \A i \in 1..(Len(inbox) - 1) : inbox'[i] = inbox[i + 1]
  BY <1>1, <1>2
<1>5. \A i \in 1..Len(inbox) : inbox[i] \in Sent /\ \E p \in Payloads : Holds(inbox[i], p)
  BY <1>1 DEF BytesKept
<1>6. ASSUME NEW i \in DOMAIN inbox'
      PROVE  \E p \in Payloads : Holds(inbox[i], p)'
  <2>1. inbox'[i] = inbox[i + 1] /\ i + 1 \in 1..Len(inbox)
    BY <1>1, <1>4
  <2>2. QED
    BY <1>2, <1>5, <2>1, SMTT(30) DEF Holds, Bytes
<1>7. slice' \in Sent /\ \E p \in Payloads : Holds(slice, p)'
  BY <1>2, <1>3, <1>5 DEF Holds, Bytes
<1>8. \A i \in DOMAIN wire : Request(i)' = Request(i)
  BY <1>2 DEF Request
<1>9. QED
  BY <1>1, <1>2, <1>4, <1>6, <1>7, <1>8 DEF BytesKept, Copied, Bytes, right

LEMMA KeptNext ==
  ASSUME ShortMessages, RingsInOrder, BytesKept, [ChanNext]_<<vars, chanVars>>, ~lost, ~lost'
  PROVE  BytesKept'
<1>1. ASSUME UNCHANGED <<memory, sMemory, text, requests, wire, inbox, app, slice, owned>>
      PROVE  BytesKept'
  BY <1>1, KeptSame
<1>2. CASE BufferStep
  <2>1. /\ UNCHANGED <<memory, sMemory, text, requests, wire, inbox, app, slice>>
        /\ owned' = owned \/ Local!Push
    BY <1>2 DEF BufferStep, vars, byteVars, Local!AllocBegin, Local!AllocStep,
       Local!WrapSpaceLoad, Local!WrapOrderLoad, Local!FitSpaceLoad, Local!FitOrderLoad,
       Local!Goto, Local!Grant, Local!Push, Local!Pop, Local!ReleaseDone, Local!allocVars
  <2>2. \A e \in owned' : e \in owned \/ text[e.flag] = None
    BY <2>1, FreshSilent DEF Local!Push
  <2>3. QED
    BY <2>1, <2>2, KeptSame
<1>3. ASSUME NEW e \in owned, TakeLock(e) PROVE BytesKept'
  BY <1>1, <1>3 DEF TakeLock, AllocBegin, receiverVars, localVars, byteVars
<1>4. CASE AllocOrPost
  <2>1. CASE wire' = wire
    <3>1. UNCHANGED <<inbox, app, slice>>
      BY <1>4, <2>1, AllocEnds DEF AllocOrPost, RingsInOrder, RingInv, ChainInv
    <3>2. QED
      BY <1>1, <1>4, <2>1, <3>1 DEF AllocOrPost, localVars, byteVars
  <2>2. QED
    BY <1>4, <2>1, KeptPost
<1>5. CASE CancelInBuffer
  BY <1>1, <1>5 DEF CancelInBuffer, Local!CancelAlloc, vars, byteVars
<1>6. CASE Release /\ UNCHANGED chanVars
  <2>1. /\ UNCHANGED <<memory, sMemory, text, requests, wire, inbox, owned>>
        /\ app' # "reading"
    BY <1>6 DEF Release, senderVars, chanVars, localVars, byteVars
  <2>2. QED
    BY <2>1, KeptSame
<1>7. CASE Update /\ UNCHANGED chanVars
  BY <1>1, <1>7 DEF Update, receiverVars, chanVars, localVars, byteVars
<1>8. CASE UNCHANGED <<vars, chanVars>>
  BY <1>1, <1>8 DEF vars, chanVars, localVars, byteVars
<1>9. ~Refuse
  BY DEF Refuse
<1>10. QED
  BY <1>2, <1>3, <1>4, <1>5, <1>6, <1>7, <1>8, <1>9, KeptCancel, KeptCopy, KeptDeliver,
     KeptComplete, KeptRecv DEF ChanNext, Receive

LEMMA KeptInit == ChanInit => BytesKept
<1> SUFFICES ASSUME ChanInit PROVE BytesKept
  OBVIOUS
<1>1. /\ wire = <<>> /\ inbox = <<>> /\ app = "free" /\ owned = {} /\ requests = <<>>
      /\ memory = [a \in 0..(right - 1) |-> None]
      /\ sMemory = [a \in 0..(SendCap - 1) |-> None]
      /\ text = [f \in Flags |-> None]
  BY DEF ChanInit, Init, Local!Init
<1>2. DOMAIN inbox = {} /\ DOMAIN wire = {} /\ Len(wire) <= Len(requests)
  BY <1>1
<1>3. /\ memory \in [0..(right - 1) -> Payloads \union {None}]
      /\ sMemory \in [0..(SendCap - 1) -> Payloads \union {None}]
      /\ text \in [Flags -> Payloads \union {None}]
  BY <1>1
<1>4. QED
  BY <1>1, <1>2, <1>3 DEF BytesKept

LEMMA ChanAlways ==
  ShortMessages /\ Local!RoomForQueue => (ChanSpec => []ChanInv)
<1> SUFFICES ASSUME ShortMessages, Local!RoomForQueue PROVE ChanSpec => []ChanInv
  OBVIOUS
<1>1. ChanInit => ChanInv
  BY SendAssumed, SameInit, P!InOrderInit, RingInit, WantInit, HandsInit, KeptInit
     DEF ChanInv, RingsInOrder, ChanInit
<1>2. ChanInv /\ [ChanNext]_<<vars, chanVars>> => ChanInv'
  <2> SUFFICES ASSUME ChanInv, [ChanNext]_<<vars, chanVars>> PROVE ChanInv'
    OBVIOUS
  <2>1. lost' \in BOOLEAN
    BY DEF ChanInv, ChanNext, BufferStep, TakeLock, Cancel, Copy, AllocOrPost, Refuse,
       CancelInBuffer, DeliverBytes, Complete, Receive, chanVars
  <2>2. CASE lost'
    BY <2>1, <2>2 DEF ChanInv, BytesKept
  <2>3. CASE ~lost'
    <3>1. ~lost /\ RingsInOrder /\ BytesKept
      BY <2>3, LostKept DEF ChanInv
    <3>2. /\ [Next]_vars
          /\ [P!Next]_(P!vars) /\ ~(P!CancelAlloc /\ sPc = "push")
      BY <2>3, <3>1, RingSteps
    <3>3. RingInv' /\ WantAsked'
      BY <3>1, <3>2, RingNext, WantNext DEF RingsInOrder
    <3>4. P!InOrder'
      BY <3>1, <3>2, SendAssumed, SameRoom, P!InOrderNext DEF RingsInOrder
    <3>5. Hands' /\ BytesKept'
      BY <2>3, <3>1, HandsNext, KeptNext
    <3>6. QED
      BY <2>1, <3>3, <3>4, <3>5 DEF ChanInv, RingsInOrder
  <2>4. QED
    BY <2>2, <2>3
<1>3. QED
  BY <1>1, <1>2, PTL DEF ChanSpec

-----------------------------------------------------------------------------
(* The refinement.  The messages that have arrived, read out of the bytes; *)
(* those of the writes on the wire.                                        *)
Arrived == [i \in DOMAIN inbox |-> Contents(inbox[i])]
Texts   == [i \in DOMAIN wire |-> text[Request(i).flag]]
Lent    == IF app = "reading" THEN Contents(slice) ELSE None

LEMMA ArrivedRead ==
  ASSUME NonEmpty, BytesKept, ~lost
  PROVE  /\ Arrived \in Seq(Payloads) /\ Len(Arrived) = Len(inbox)
         /\ app = "reading" => Lent \in Payloads
<1>1. inbox \in Seq(Sent) /\ DOMAIN inbox = 1..Len(inbox) /\ Len(inbox) \in Nat
  BY DEF BytesKept
<1>2. ASSUME NEW i \in 1..Len(inbox) PROVE Contents(inbox[i]) \in Payloads
  <2>1. PICK s \in Sent : s = inbox[i]
    BY <1>1
  <2>2. PICK p \in Payloads : Holds(s, p)
    BY <1>1, <2>1 DEF BytesKept
  <2>3. QED
    BY <2>1, <2>2, ContentsHeld
<1>3. Arrived \in [1..Len(inbox) -> Payloads]
  BY <1>1, <1>2 DEF Arrived
<1>4. Arrived \in Seq(Payloads) /\ Len(Arrived) = Len(inbox)
  BY <1>1, <1>3, IsASeq, LenProperties DEF Arrived
<1>5. ASSUME app = "reading" PROVE Lent \in Payloads
  <2>1. PICK s \in Sent : s = slice
    BY <1>5 DEF BytesKept
  <2>2. PICK p \in Payloads : Holds(s, p)
    BY <1>5, <2>1 DEF BytesKept
  <2>3. QED
    BY <1>5, <2>1, <2>2, ContentsHeld DEF Lent
<1>6. QED
  BY <1>4, <1>5

LEMMA SeqAsFunction ==
  ASSUME NEW S, NEW q \in Seq(S), NEW n \in Nat, Len(q) = n
  PROVE  q = [i \in 1..n |-> q[i]]
BY LenProperties

(* What the sections that arrived hold is read the same way while bytes,   *)
(* sections and slice stay.                                                *)
LEMMA ReadSame ==
  ASSUME memory' = memory, inbox' = inbox, app' = app, slice' = slice
  PROVE  Arrived' = Arrived /\ Lent' = Lent
BY DEF Arrived, Lent, Contents, Bytes

LEMMA ReadDeliver ==
  ASSUME NonEmpty, ShortMessages, RingsInOrder, BytesKept, ~lost, DeliverBytes
  PROVE  Arrived' = Append(Arrived, text[Request(1).flag]) /\ Lent' = Lent
<1>0. TypeOK /\ SectionsChained /\ NoOverwrite
  BY RingNoOverwrite DEF RingsInOrder, RingInv, ChainInv
<1>1. /\ inbox \in Seq(Sent) /\ wire \in Seq(Sent) /\ wire # <<>>
      /\ inbox' = Append(inbox, Head(wire)) /\ app' = app /\ slice' = slice
  BY DEF BytesKept, DeliverBytes, Deliver, receiverVars
<1>2. PICK h \in Sent : h = Head(wire)
  BY BytesWritten
<1>3. PICK m \in Payloads : m = text[Request(1).flag]
  BY BytesWritten
<1>4. /\ DOMAIN inbox' = 1..(Len(inbox) + 1) /\ Len(inbox) \in Nat
      /\ \A i \in 1..Len(inbox) : inbox'[i] = inbox[i]
      /\ inbox'[Len(inbox) + 1] = h
  BY <1>1, <1>2
<1>5. Arrived \in Seq(Payloads) /\ Len(Arrived) = Len(inbox)
  BY ArrivedRead
<1>6. Contents(h)' = m
  <2>1. Holds(h, m)'
    BY <1>2, <1>3, BytesWritten DEF Holds, Bytes
  <2>2. QED
    BY <2>1, ContentsHeld
<1>7. ASSUME NEW i \in 1..Len(inbox) PROVE Contents(inbox[i])' = Arrived[i]
  <2>1. PICK s \in Sent : s = inbox[i] /\ s = inbox'[i]
    BY <1>1, <1>4
  <2>2. PICK p \in Payloads : Holds(s, p) /\ ~Overlap(s, Head(wire))
    BY <1>0, <1>1, <2>1, NextApart DEF BytesKept
  <2>3. Holds(s, p)'
    BY <2>2, BytesWritten
  <2>4. Contents(s) = p /\ Contents(s)' = p
    BY <2>2, <2>3, ContentsHeld
  <2>5. Arrived[i] = Contents(s)
    BY <1>1, <2>1 DEF Arrived
  <2>6. Contents(inbox[i])' = Contents(s)'
    BY <2>1 DEF Contents, Bytes
  <2>7. QED
    BY <2>4, <2>5, <2>6
<1>8. Arrived' = [i \in 1..(Len(inbox) + 1) |-> Contents(inbox[i])']
  BY <1>4 DEF Arrived, Contents, Bytes
<1>9. /\ Append(Arrived, m) \in Seq(Payloads)
      /\ Len(Append(Arrived, m)) = Len(inbox) + 1
      /\ \A i \in 1..Len(inbox) : Append(Arrived, m)[i] = Arrived[i]
      /\ Append(Arrived, m)[Len(inbox) + 1] = m
  BY <1>5
<1>10. ASSUME NEW i \in 1..(Len(inbox) + 1)
       PROVE  Contents(inbox[i])' = Append(Arrived, m)[i]
  <2>1. CASE i \in 1..Len(inbox)
    BY <1>7, <1>9, <2>1
  <2>2. CASE i = Len(inbox) + 1
    <3>1. Contents(inbox[i])' = Contents(h)'
      BY <1>4, <2>2 DEF Contents, Bytes
    <3>2. QED
      BY <1>6, <1>9, <2>2, <3>1
  <2>3. i \in 1..Len(inbox) \/ i = Len(inbox) + 1
    BY <1>4
  <2>4. QED
    BY <2>1, <2>2, <2>3
<1>11. Append(Arrived, m) = [i \in 1..(Len(inbox) + 1) |-> Append(Arrived, m)[i]]
  <2>1. Len(inbox) + 1 \in Nat
    BY <1>4
  <2>2. QED
    BY <1>9, <2>1, SeqAsFunction
<1>12. Arrived' = Append(Arrived, m)
  BY <1>8, <1>10, <1>11
<1>13. Lent' = Lent
  <2>1. CASE app = "reading"
    <3>1. PICK s \in Sent : s = slice /\ s = slice'
      BY <1>1, <2>1 DEF BytesKept
    <3>2. PICK p \in Payloads : Holds(s, p)
      BY <2>1, <3>1 DEF BytesKept
    <3>3. Holds(s, p)'
      BY <1>0, <1>1, <2>1, <3>1, <3>2, NextApart, BytesWritten
    <3>4. Contents(s) = p /\ Contents(s)' = p
      BY <3>2, <3>3, ContentsHeld
    <3>5. Contents(slice)' = Contents(s)'
      BY <3>1 DEF Contents, Bytes
    <3>6. QED
      BY <1>1, <2>1, <3>1, <3>4, <3>5 DEF Lent
  <2>2. CASE app # "reading"
    BY <1>1, <2>2 DEF Lent
  <2>3. QED
    BY <2>1, <2>2
<1>14. QED
  BY <1>3, <1>12, <1>13

LEMMA ReadRecv ==
  ASSUME NonEmpty, RingsInOrder, BytesKept, ~lost, RecvMsg, UNCHANGED chanVars
  PROVE  /\ Arrived # <<>> /\ Lent = None
         /\ Arrived' = Tail(Arrived) /\ Lent' = Head(Arrived)
<1>0. TypeOK /\ SectionsChained
  BY DEF RingsInOrder, RingInv, ChainInv
<1>1. /\ inbox \in Seq(Sent) /\ inbox # <<>> /\ inbox' = Tail(inbox)
      /\ memory' = memory /\ app = "free" /\ app' = "reading"
  BY DEF BytesKept, RecvMsg, chanVars, byteVars
<1>2. slice' = inbox[1] /\ 1 \in 1..Len(inbox) /\ Len(inbox) \in Nat
  BY <1>0, <1>1, LiveRecvMsg
<1>3. Arrived \in Seq(Payloads) /\ Len(Arrived) = Len(inbox)
  BY ArrivedRead
<1>4. \A i \in 1..Len(inbox) : Arrived[i] = Contents(inbox[i])
  BY <1>1 DEF Arrived
<1>5. /\ DOMAIN inbox' = 1..(Len(inbox) - 1)
      /\ \A i \in 1..(Len(inbox) - 1) : inbox'[i] = inbox[i + 1]
  BY <1>1, <1>2
<1>6. Arrived' = [i \in 1..(Len(inbox) - 1) |-> Contents(inbox[i + 1])]
  BY <1>1, <1>5 DEF Arrived, Contents, Bytes
<1>7. Tail(Arrived) = [i \in 1..(Len(inbox) - 1) |-> Arrived[i + 1]]
  <2>1. /\ Tail(Arrived) \in Seq(Payloads) /\ Len(Tail(Arrived)) = Len(inbox) - 1
        /\ \A i \in 1..(Len(inbox) - 1) : Tail(Arrived)[i] = Arrived[i + 1]
    BY <1>2, <1>3
  <2>2. Len(inbox) - 1 \in Nat
    BY <1>2
  <2>3. Tail(Arrived) = [i \in 1..(Len(inbox) - 1) |-> Tail(Arrived)[i]]
    BY <2>1, <2>2, SeqAsFunction
  <2>4. QED
    BY <2>1, <2>3
<1>8. \A i \in 1..(Len(inbox) - 1) : Arrived[i + 1] = Contents(inbox[i + 1])
  <2>1. \A i \in 1..(Len(inbox) - 1) : i + 1 \in 1..Len(inbox)
    BY <1>2
  <2>2. QED
    BY <1>4, <2>1
<1>9. Arrived' = Tail(Arrived)
  BY <1>6, <1>7, <1>8
<1>10. Lent' = Head(Arrived)
  <2>1. Head(Arrived) = Arrived[1]
    BY <1>2, <1>3
  <2>2. Contents(slice)' = Contents(inbox[1])
    BY <1>1, <1>2 DEF Contents, Bytes
  <2>3. QED
    BY <1>1, <1>2, <1>4, <2>1, <2>2 DEF Lent
<1>11. QED
  BY <1>1, <1>2, <1>3, <1>9, <1>10 DEF Lent

(* The messages of the writes on the wire.                                 *)
LEMMA TextsRead ==
  ASSUME RingsInOrder, BytesKept, ~lost
  PROVE  /\ Texts \in Seq(Payloads) /\ Len(Texts) = Len(wire) /\ Len(wire) \in Nat
         /\ \A i \in 1..Len(wire) : Texts[i] = text[Request(i).flag]
<1>1. DOMAIN wire = 1..Len(wire) /\ Len(wire) \in Nat
  BY DEF BytesKept
<1>2. ASSUME NEW i \in 1..Len(wire) PROVE text[Request(i).flag] \in Payloads
  <2>1. UsedSection(Request(i))
    BY <1>1, Requested
  <2>2. QED
    BY <1>1, <2>1 DEF BytesKept, UsedSection
<1>3. Texts = [i \in 1..Len(wire) |-> text[Request(i).flag]]
  BY <1>1 DEF Texts
<1>4. Texts \in [1..Len(wire) -> Payloads]
  BY <1>2, <1>3
<1>5. Texts \in Seq(Payloads) /\ Len(Texts) = Len(wire)
  BY <1>1, <1>3, <1>4, IsASeq, LenProperties
<1>6. QED
  BY <1>1, <1>3, <1>5

LEMMA TextsSame ==
  ASSUME RingsInOrder, wire' = wire,
         \A i \in DOMAIN wire : text[Request(i).flag]' = text[Request(i).flag]
  PROVE  Texts' = Texts
BY DEF Texts

LEMMA TextsPost ==
  ASSUME RingsInOrder, BytesKept, ~lost, AllocOrPost, wire' # wire
  PROVE  \E p \in Payloads : Texts' = Append(Texts, p)
<1>1. PICK e \in owned, a \in Nat, n \in Nat :
        /\ n = Len(wire) /\ Request(n + 1)' = e /\ text[e.flag] # None
        /\ \A i \in DOMAIN wire : Request(i)' = Request(i)
        /\ DOMAIN wire' = 1..(n + 1) /\ DOMAIN wire = 1..n /\ text' = text
  BY Posted
<1>2. PICK p \in Payloads : p = text[e.flag]
  BY <1>1, UseFacts DEF BytesKept, UsedSection
<1>3. Texts \in Seq(Payloads) /\ Len(Texts) = n /\ \A i \in 1..n : Texts[i] = text[Request(i).flag]
  BY <1>1, TextsRead
<1>4. Texts' = [i \in 1..(n + 1) |-> text[Request(i)'.flag]]
  BY <1>1 DEF Texts
<1>5. /\ Append(Texts, p) \in Seq(Payloads) /\ Len(Append(Texts, p)) = n + 1
      /\ \A i \in 1..n : Append(Texts, p)[i] = Texts[i]
      /\ Append(Texts, p)[n + 1] = p
  BY <1>3
<1>6. Append(Texts, p) = [i \in 1..(n + 1) |-> Append(Texts, p)[i]]
  <2>1. n + 1 \in Nat
    OBVIOUS
  <2>2. QED
    BY <1>5, <2>1, SeqAsFunction
<1>7. ASSUME NEW i \in 1..(n + 1) PROVE text[Request(i)'.flag] = Append(Texts, p)[i]
  <2>1. CASE i \in 1..n
    <3>1. Request(i)' = Request(i)
      BY <1>1, <2>1
    <3>2. Append(Texts, p)[i] = text[Request(i).flag]
      BY <1>3, <1>5, <2>1
    <3>3. QED
      BY <3>1, <3>2
  <2>2. CASE i = n + 1
    <3>1. Request(i)' = e /\ text[e.flag] = p
      BY <1>1, <1>2, <2>2
    <3>2. Append(Texts, p)[i] = p
      BY <1>5, <2>2
    <3>3. QED
      BY <3>1, <3>2
  <2>3. i \in 1..n \/ i = n + 1
    OBVIOUS
  <2>4. QED
    BY <2>1, <2>2, <2>3
<1>8. Texts' = Append(Texts, p)
  BY <1>4, <1>6, <1>7
<1>9. QED
  BY <1>8

LEMMA TextsDeliver ==
  ASSUME ShortMessages, RingsInOrder, BytesKept, ~lost, DeliverBytes
  PROVE  Texts # <<>> /\ Head(Texts) = text[Request(1).flag] /\ Texts' = Tail(Texts)
<1>1. Delivered /\ text' = text
  BY KeptDeliver, SMTT(30) DEF DeliverBytes
<1>2. PICK n \in Nat \ {0} : n = Len(wire)
  BY <1>1 DEF Delivered
<1>3. /\ Texts \in Seq(Payloads) /\ Len(Texts) = n
      /\ \A i \in 1..n : Texts[i] = text[Request(i).flag]
  BY <1>2, TextsRead
<1>4. Texts # <<>> /\ Head(Texts) = text[Request(1).flag]
  BY <1>2, <1>3
<1>5. Texts' = [i \in 1..(n - 1) |-> text[Request(i + 1).flag]]
  BY <1>1, <1>2 DEF Delivered, Texts
<1>6. /\ Tail(Texts) \in Seq(Payloads) /\ Len(Tail(Texts)) = n - 1 /\ n - 1 \in Nat
      /\ \A i \in 1..(n - 1) : Tail(Texts)[i] = Texts[i + 1]
  BY <1>2, <1>3
<1>7. Tail(Texts) = [i \in 1..(n - 1) |-> Tail(Texts)[i]]
  BY <1>6, SeqAsFunction
<1>8. \A i \in 1..(n - 1) : Tail(Texts)[i] = text[Request(i + 1).flag]
  <2>1. \A i \in 1..(n - 1) : i + 1 \in 1..n
    BY <1>2
  <2>2. QED
    BY <1>3, <1>6, <2>1
<1>9. Texts' = Tail(Texts)
  BY <1>5, <1>7, <1>8, Zenon
<1>10. QED
  BY <1>4, <1>9

-----------------------------------------------------------------------------
(* The steps of the rings are steps of the channel.                        *)
LEMMA ChannelInit == ChanInit => Channel!Init
<1> SUFFICES ASSUME ChanInit PROVE Channel!Init
  OBVIOUS
<1>1. inbox = <<>> /\ wire = <<>> /\ app = "free" /\ lost = FALSE
  BY DEF ChanInit, Init
<1>2. /\ [i \in DOMAIN inbox |-> Contents(inbox[i])] = <<>>
      /\ [i \in DOMAIN wire |-> text[Request(i).flag]] = <<>>
  BY <1>1
<1>3. QED
  BY <1>1, <1>2 DEF Channel!Init

LEMMA ChannelLose == lost' = TRUE => Channel!Next
BY DEF Channel!Next, Channel!Lose

LEMMA ChannelSend ==
  ASSUME NEW p \in Payloads, lost' = lost,
         (Arrived \o Texts)' = Append(Arrived \o Texts, p), Lent' = Lent
  PROVE  Channel!Next
BY DEF Arrived, Texts, Lent, Channel!Next, Channel!Send

LEMMA ChannelStutter ==
  ASSUME (Arrived \o Texts)' = Arrived \o Texts, Lent' = Lent, lost' = lost
  PROVE  UNCHANGED Channel!vars
BY DEF Arrived, Texts, Lent, Channel!vars

LEMMA ChannelRecv ==
  ASSUME Arrived \o Texts # <<>>, Lent = None,
         (Arrived \o Texts)' = Tail(Arrived \o Texts),
         Lent' = Head(Arrived \o Texts), lost' = lost
  PROVE  Channel!Next
BY DEF Arrived, Texts, Lent, Channel!Next, Channel!Recv

LEMMA ChannelRelease ==
  ASSUME (Arrived \o Texts)' = Arrived \o Texts, Lent # None, Lent' = None, lost' = lost
  PROVE  Channel!Next
BY DEF Arrived, Texts, Lent, Channel!Next, Channel!Release

LEMMA ChannelNext ==
  ASSUME NonEmpty, ShortMessages, ChanInv, [ChanNext]_<<vars, chanVars>>
  PROVE  [Channel!Next]_(Channel!vars)
<1>0. lost \in BOOLEAN /\ lost' \in BOOLEAN
  BY DEF ChanInv, ChanNext, BufferStep, TakeLock, Cancel, Copy, AllocOrPost, Refuse,
     CancelInBuffer, DeliverBytes, Complete, Receive, chanVars
<1> SUFFICES ASSUME ~lost' PROVE [Channel!Next]_(Channel!vars)
  BY <1>0, ChannelLose
<1>1. ~lost /\ RingsInOrder /\ BytesKept
  BY LostKept DEF ChanInv
<1>2. /\ Arrived \in Seq(Payloads) /\ Texts \in Seq(Payloads) /\ lost' = lost
      /\ app = "reading" => Lent \in Payloads
  BY <1>0, <1>1, ArrivedRead, TextsRead
<1>3. ASSUME UNCHANGED <<inbox, memory, app, slice, wire, requests>>,
             \A i \in DOMAIN wire : text'[Request(i).flag] = text[Request(i).flag]
      PROVE  UNCHANGED Channel!vars
  <2>1. Arrived' = Arrived /\ Lent' = Lent
    BY <1>3, ReadSame
  <2>2. \A i \in DOMAIN wire : text[Request(i).flag]' = text[Request(i).flag]
    BY <1>3 DEF Request
  <2>3. QED
    BY <1>1, <1>2, <1>3, <2>1, <2>2, TextsSame, ChannelStutter
<1>4. CASE BufferStep
  BY <1>3, <1>4 DEF BufferStep, vars, byteVars, Local!AllocBegin, Local!AllocStep,
     Local!WrapSpaceLoad, Local!WrapOrderLoad, Local!FitSpaceLoad, Local!FitOrderLoad,
     Local!Goto, Local!Grant, Local!Push, Local!Pop, Local!ReleaseDone, Local!allocVars
<1>5. ASSUME NEW e \in owned, TakeLock(e) PROVE UNCHANGED Channel!vars
  BY <1>3, <1>5 DEF TakeLock, AllocBegin, receiverVars, localVars, byteVars
<1>6. ASSUME NEW e \in owned, NEW f \in Payloads \union {None},
             text' = [text EXCEPT ![e.flag] = f],
             UNCHANGED <<inbox, memory, app, slice, wire, requests>>
      PROVE  UNCHANGED Channel!vars
  <2>1. \A i \in DOMAIN wire : e.flag # Request(i).flag /\ Request(i).flag \in Flags
    BY <1>1, Requested DEF UsedSection
  <2>2. text \in [Flags -> Payloads \union {None}]
    BY <1>1 DEF BytesKept
  <2>3. \A i \in DOMAIN wire : text'[Request(i).flag] = text[Request(i).flag]
    BY <1>6, <2>1, <2>2
  <2>4. QED
    BY <1>3, <1>6, <2>3
<1>7. ASSUME NEW e \in owned, Cancel(e) PROVE UNCHANGED Channel!vars
  <2>1. /\ text' = [text EXCEPT ![e.flag] = None]
        /\ UNCHANGED <<inbox, memory, app, slice, wire, requests>>
    BY <1>7 DEF Cancel, Leave, CancelAlloc, Local!Abandon, receiverVars, vars, byteVars
  <2>2. QED
    BY <1>6, <2>1
<1>8. ASSUME NEW e \in owned, NEW p \in Payloads, Copy(e, p) PROVE UNCHANGED Channel!vars
  BY <1>6, <1>8 DEF Copy, vars, localVars
<1>9. CASE AllocOrPost
  <2>1. UNCHANGED <<inbox, memory, app, slice, text>>
    BY <1>1, <1>9, AllocEnds DEF AllocOrPost, RingsInOrder, RingInv, ChainInv, byteVars
  <2>2. CASE wire' = wire
    BY <1>3, <1>9, <2>1, <2>2 DEF AllocOrPost, localVars
  <2>3. CASE wire' # wire
    <3>1. PICK p \in Payloads : Texts' = Append(Texts, p)
      BY <1>1, <1>9, <2>3, TextsPost
    <3>2. Arrived \o Append(Texts, p) = Append(Arrived \o Texts, p)
      BY <1>2, ConcatAppend
    <3>3. QED
      BY <1>2, <2>1, <3>1, <3>2, ReadSame, ChannelSend
  <2>4. QED
    BY <2>2, <2>3
<1>10. CASE CancelInBuffer
  BY <1>3, <1>10 DEF CancelInBuffer, Local!CancelAlloc, vars, byteVars
<1>11. CASE DeliverBytes
  <2>1. Arrived' = Append(Arrived, text[Request(1).flag]) /\ Lent' = Lent
    BY <1>1, <1>11, ReadDeliver
  <2>2. Texts # <<>> /\ Head(Texts) = text[Request(1).flag] /\ Texts' = Tail(Texts)
    BY <1>1, <1>11, TextsDeliver
  <2>3. Append(Arrived, Head(Texts)) \o Tail(Texts) = Arrived \o Texts
    BY <1>2, <2>2, MoveHead
  <2>4. QED
    BY <1>2, <2>1, <2>2, <2>3, ChannelStutter
<1>12. CASE Complete
  <2>1. \A i \in DOMAIN wire : text[Request(i).flag]' = text[Request(i).flag]
    BY <1>1, <1>12, KeptComplete
  <2>2. UNCHANGED <<inbox, memory, app, slice, wire>>
    BY <1>12 DEF Complete, vars, byteVars
  <2>3. QED
    BY <1>1, <1>2, <2>1, <2>2, ReadSame, TextsSame, ChannelStutter
<1>13. CASE RecvMsg /\ UNCHANGED chanVars
  <2>1. /\ Arrived # <<>> /\ Lent = None
        /\ Arrived' = Tail(Arrived) /\ Lent' = Head(Arrived)
    BY <1>1, <1>13, ReadRecv
  <2>2. Texts' = Texts
    BY <1>1, <1>13, TextsSame DEF RecvMsg, chanVars, localVars, Request
  <2>3. /\ Arrived \o Texts # <<>>
        /\ Head(Arrived \o Texts) = Head(Arrived)
        /\ Tail(Arrived \o Texts) = Tail(Arrived) \o Texts
    BY <1>2, <2>1, ConcatSimplifications, HeadTailProperties
  <2>4. QED
    BY <1>2, <2>1, <2>2, <2>3, ChannelRecv
<1>14. CASE Release /\ UNCHANGED chanVars
  <2>1. Lent \in Payloads /\ Lent' = None
    BY <1>2, <1>14 DEF Release, Lent
  <2>2. Arrived' = Arrived
    BY <1>14 DEF Release, chanVars, byteVars, Arrived, Contents, Bytes
  <2>3. Texts' = Texts
    BY <1>1, <1>14, TextsSame DEF Release, senderVars, chanVars, localVars, Request
  <2>4. QED
    BY <1>2, <2>1, <2>2, <2>3, ChannelAssumption, ChannelRelease
<1>15. CASE Update /\ UNCHANGED chanVars
  BY <1>3, <1>15 DEF Update, receiverVars, chanVars, localVars, byteVars
<1>16. CASE UNCHANGED <<vars, chanVars>>
  BY <1>3, <1>16 DEF vars, chanVars, localVars, byteVars
<1>17. ~Refuse
  BY DEF Refuse
<1>18. QED
  BY <1>4, <1>5, <1>7, <1>8, <1>9, <1>10, <1>11, <1>12, <1>13, <1>14, <1>15, <1>16, <1>17
     DEF ChanNext, Receive

(* Every message is received once, in order and unchanged, and stays as it *)
(* is until it is released, though it is copied into a buffer that others  *)
(* are given sections of, is read there by the card later, and is lent as  *)
(* a view of another such buffer; whatever requests the card refuses and   *)
(* whichever send_msg is dropped, until one of them leaves a gap in a      *)
(* ring.  Messages are not empty, are shorter than                         *)
(* MIN_LENGTH_TO_NOTIFY_RELEASE, and so short that the channel to the      *)
(* release task is full before the send buffer is (mr.rs: SendBuffer,      *)
(* RecvBuffer, RemoteBufManager; conn.rs: send_msg, recv_msg, release).    *)
THEOREM MessagesArrive ==
  ShortMessages /\ NonEmpty /\ Local!RoomForQueue => (ChanSpec => MessagesIntact)
<1> SUFFICES ASSUME ShortMessages, NonEmpty, Local!RoomForQueue
             PROVE  ChanSpec => MessagesIntact
  OBVIOUS
<1>1. ChanSpec => []ChanInv
  BY ChanAlways
<1>2. ChanInit => Channel!Init
  BY ChannelInit
<1>3. ChanInv /\ [ChanNext]_<<vars, chanVars>> => [Channel!Next]_(Channel!vars)
  BY ChannelNext
<1>4. QED
  BY <1>1, <1>2, <1>3, PTL DEF ChanSpec, MessagesIntact, Channel!Spec

(* Until a message is lost, one that is copied into the send buffer is     *)
(* whole there until the card has read it, and what has arrived is whole   *)
(* until it is released, in every state (conn.rs: send_msg, recv_msg).     *)
THEOREM ArrivedWhole ==
  ShortMessages /\ Local!RoomForQueue => (ChanSpec => []BytesKept)
<1>1. ChanInv => BytesKept
  BY DEF ChanInv
<1>2. QED
  BY <1>1, ChanAlways, PTL

=============================================================================
