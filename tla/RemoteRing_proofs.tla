-------------------------- MODULE RemoteRing_proofs ---------------------------
(***************************************************************************)
(* Proofs about RemoteRing, for every capacity, threshold and set of       *)
(* lengths.                                                                *)
(***************************************************************************)
EXTENDS RemoteRingInv, SequenceTheorems, TLAPS

(* Moving the head of one queue to the end of the previous one leaves the  *)
(* concatenation alone.                                                    *)
LEMMA MoveHead ==
  ASSUME NEW S, NEW q \in Seq(S), NEW s \in Seq(S), s # <<>>
  PROVE  Append(q, Head(s)) \o Tail(s) = q \o s
<1>1. Head(s) \in S /\ Tail(s) \in Seq(S) /\ Len(s) > 0
  OBVIOUS
<1>2. Append(q, Head(s)) \in Seq(S)
  BY <1>1
<1>3. Append(q, Head(s)) \o Tail(s) \in Seq(S) /\ q \o s \in Seq(S)
  BY <1>1, <1>2
<1>4. Len(Append(q, Head(s)) \o Tail(s)) = Len(q \o s)
  BY <1>1, <1>2
<1>5. \A i \in 1..Len(q \o s) : (Append(q, Head(s)) \o Tail(s))[i] = (q \o s)[i]
  BY <1>1, <1>2
<1>6. QED
  BY <1>3, <1>4, <1>5, SeqEqual

LEMMA ConcatAppend ==
  ASSUME NEW S, NEW q \in Seq(S), NEW s \in Seq(S), NEW e \in S
  PROVE  q \o Append(s, e) = Append(q \o s, e)
<1>1. q \o Append(s, e) \in Seq(S) /\ Append(q \o s, e) \in Seq(S)
  OBVIOUS
<1>2. Len(q \o Append(s, e)) = Len(Append(q \o s, e))
  OBVIOUS
<1>3. \A i \in 1..Len(q \o Append(s, e)) :
        (q \o Append(s, e))[i] = Append(q \o s, e)[i]
  OBVIOUS
<1>4. QED
  BY <1>1, <1>2, <1>3, SeqEqual

(* A one-element sequence in front.                                        *)
LEMMA ConcatUnit ==
  ASSUME NEW S, NEW e \in S, NEW s \in Seq(S)
  PROVE  /\ <<e>> \o s \in Seq(S)
         /\ Len(<<e>> \o s) = 1 + Len(s)
         /\ (<<e>> \o s)[1] = e
         /\ <<e>> \o s # <<>>
         /\ Tail(<<e>> \o s) = s
<1>1. <<e>> \o s \in Seq(S)
  OBVIOUS
<1>2. Len(<<e>> \o s) = 1 + Len(s)
  OBVIOUS
<1>3. (<<e>> \o s)[1] = e
  OBVIOUS
<1>4. <<e>> \o s # <<>>
  BY <1>1, <1>2
<1>5. Tail(<<e>> \o s) = s
  <2>1. Tail(<<e>> \o s) \in Seq(S) /\ Len(Tail(<<e>> \o s)) = Len(s)
    BY <1>1, <1>2, <1>4
  <2>2. \A i \in 1..Len(s) : Tail(<<e>> \o s)[i] = s[i]
    BY <1>1, <1>2, <1>4
  <2>3. QED
    BY <2>1, <2>2, SeqEqual
<1>6. QED
  BY <1>1, <1>2, <1>3, <1>4, <1>5

LEMMA HeadFirst ==
  ASSUME NEW S, NEW s \in Seq(S), s # <<>>
  PROVE  <<Head(s)>> \o Tail(s) = s
<1>1. Head(s) \in S /\ Tail(s) \in Seq(S) /\ Len(s) > 0
  OBVIOUS
<1>2. <<Head(s)>> \o Tail(s) \in Seq(S)
  BY <1>1
<1>3. Len(<<Head(s)>> \o Tail(s)) = Len(s)
  BY <1>1
<1>4. \A i \in 1..Len(s) : (<<Head(s)>> \o Tail(s))[i] = s[i]
  BY <1>1
<1>5. QED
  BY <1>2, <1>3, <1>4, SeqEqual

(* What each kind of step does to the sections in use.                     *)
LEMMA LiveType ==
  ASSUME TypeOK
  PROVE  unread \in Seq(Section) /\ live \in Seq(Section)
<1>1. unread \in Seq(Section)
  BY DEF TypeOK, unread
<1>2. <<slice>> \o unread \in Seq(Section)
  BY <1>1, ConcatUnit DEF TypeOK
<1>3. QED
  BY <1>1, <1>2 DEF live

LEMMA LiveDeliver ==
  ASSUME TypeOK, Deliver
  PROVE  /\ inbox' \in Seq(Section) /\ wire' \in Seq(Section)
         /\ live' = live
<1>1. inbox \in Seq(Section) /\ wire \in Seq(Section)
  BY DEF TypeOK
<1>2. wire # <<>> /\ inbox' = Append(inbox, Head(wire)) /\ wire' = Tail(wire)
      /\ app' = app /\ slice' = slice
  BY DEF Deliver, receiverVars
<1>3. inbox' \in Seq(Section) /\ wire' \in Seq(Section)
  BY <1>1, <1>2
<1>4. unread' = unread
  BY <1>1, <1>2, MoveHead DEF unread
<1>5. QED
  BY <1>2, <1>3, <1>4 DEF live

LEMMA LiveGrant ==
  ASSUME TypeOK, NEW a \in Nat, want \in Nat, Grant(a)
  PROVE  /\ wire' \in Seq(Section)
         /\ live' = Append(live, [addr |-> a, len |-> want])
<1> DEFINE s == [addr |-> a, len |-> want]
<1>1. inbox \in Seq(Section) /\ wire \in Seq(Section) /\ slice \in Section
  BY DEF TypeOK
<1>2. s \in Section
  BY DEF Section
<1>3. wire' = Append(wire, s) /\ inbox' = inbox /\ app' = app /\ slice' = slice
  BY DEF Grant, receiverVars
<1>4. wire' \in Seq(Section)
  BY <1>1, <1>2, <1>3
<1>5. unread' = Append(unread, s)
  BY <1>1, <1>2, <1>3, ConcatAppend DEF unread
<1>6. <<slice>> \o Append(unread, s) = Append(<<slice>> \o unread, s)
  <2>1. <<slice>> \in Seq(Section)
    BY <1>1
  <2>2. QED
    BY <1>2, <2>1, LiveType, ConcatAppend
<1>7. QED
  BY <1>3, <1>4, <1>5, <1>6 DEF live

LEMMA LiveRelease ==
  ASSUME TypeOK, Release
  PROVE  /\ live # <<>>
         /\ live[1] = slice
         /\ live' = Tail(live)
<1>1. unread \in Seq(Section) /\ slice \in Section
  BY LiveType DEF TypeOK
<1>2. app = "reading" /\ app' = "free" /\ inbox' = inbox /\ wire' = wire
  BY DEF Release, senderVars
<1>3. live = <<slice>> \o unread /\ live' = unread
  BY <1>2 DEF live, unread
<1>4. QED
  BY <1>1, <1>3, ConcatUnit

(* recv_msg lends the section the sender wrote, so nothing changes hands.  *)
LEMMA LiveRecvMsg ==
  ASSUME TypeOK, SectionsChained, RecvMsg
  PROVE  /\ slice' = Head(inbox)
         /\ Head(inbox) \in Section
         /\ inbox' \in Seq(Section)
         /\ live' = live
         /\ rIndex' = SectionEnd(Head(inbox))
         /\ SectionEnd(Head(inbox)) <= right
<1> DEFINE h == Head(inbox)
<1>1. inbox \in Seq(Section) /\ wire \in Seq(Section)
  BY DEF TypeOK
<1>2. app = "free" /\ app' = "reading" /\ inbox # <<>>
      /\ inbox' = Tail(inbox) /\ wire' = wire
  BY DEF RecvMsg
<1>3. h \in Section /\ inbox' \in Seq(Section)
  BY <1>1, <1>2
<1>4. live = unread /\ live' = <<slice'>> \o (inbox' \o wire)
  BY <1>2 DEF live, unread
<1>5. 1 \in 1..Len(live) /\ live[1] = h
  BY <1>1, <1>2, <1>4 DEF unread
<1>6. h.addr = Place(rIndex, h.len) /\ SectionEnd(h) <= right
  BY <1>2, <1>5 DEF SectionsChained, StartOf
<1>7. slice' = h /\ rIndex' = SectionEnd(h)
  <2>1. h.addr = ReadAt(h.len)
    BY <1>6 DEF ReadAt, Place
  <2>2. h = [addr |-> h.addr, len |-> h.len]
    BY <1>3 DEF Section
  <2>3. QED
    BY <2>1, <2>2 DEF RecvMsg, SectionEnd
<1>8. <<h>> \o (inbox' \o wire) = (<<h>> \o inbox') \o wire
  <2>1. <<h>> \in Seq(Section)
    BY <1>3
  <2>2. QED
    BY <1>1, <1>3, <2>1, ConcatAssociative
<1>9. <<h>> \o inbox' = inbox
  BY <1>1, <1>2, HeadFirst
<1>10. live' = live
  BY <1>4, <1>7, <1>8, <1>9 DEF unread
<1>11. QED
  BY <1>3, <1>6, <1>7, <1>10

-----------------------------------------------------------------------------
(* The chain of sections and the chain of notices depend on a few          *)
(* variables only.                                                         *)
LEMMA SameSections ==
  ASSUME SectionsChained, live' = live, index' = index,
         releasedEnd' = releasedEnd, app' = app, slice' = slice,
         rIndex' = rIndex
  PROVE  SectionsChained'
BY DEF SectionsChained, StartOf, Place, SectionEnd, right, left

LEMMA SameNotices ==
  ASSUME NoticesChained, credits' = credits, done' = done, rDone' = rDone,
         released' = released
  PROVE  NoticesChained'
BY DEF NoticesChained, NoticeStart, noticedEnd, right, left

LEMMA SameLive ==
  ASSUME app' = app, slice' = slice, inbox' = inbox, wire' = wire
  PROVE  live' = live
BY DEF live, unread

(* A granted section follows the last one.                                 *)
LEMMA ChainGrant ==
  ASSUME ChainInv, Grant(Place(index, want)),
         Place(index, want) + want <= right
  PROVE  ChainInv'
<1> DEFINE a == Place(index, want)
           s == [addr |-> a, len |-> want]
<1>1. TypeOK /\ SectionsChained /\ BranchKept /\ NoticesChained
  BY DEF ChainInv
<1>2. want \in Nat /\ index \in Nat /\ right \in Nat /\ a \in Nat
  BY <1>1, RingAssumption DEF TypeOK, right, left, Place
<1>3. wire' \in Seq(Section) /\ live' = Append(live, s)
  BY <1>1, <1>2, LiveGrant
<1>4. PICK n \in Nat : n = Len(live) /\ live \in Seq(Section)
  BY <1>1, LiveType
<1>5. /\ index' = a + want /\ want' = 0 /\ pc' = "idle"
      /\ done' = done /\ inbox' = inbox /\ credits' = credits
      /\ app' = app /\ slice' = slice /\ rIndex' = rIndex /\ rDone' = rDone
      /\ released' = released
  BY DEF Grant, receiverVars
<1>6. TypeOK'
  BY <1>1, <1>2, <1>3, <1>5 DEF TypeOK, right, left
<1>7. BranchKept'
  BY <1>5 DEF BranchKept
<1>8. NoticesChained'
  BY <1>1, <1>5, SameNotices
<1>9. SectionsChained'
  <2>1. releasedEnd' = releasedEnd
    BY <1>5 DEF releasedEnd
  <2>2. Len(live') = n + 1 /\ live'[n + 1] = s
        /\ \A i \in 1..n : live'[i] = live[i]
    BY <1>3, <1>4
  <2>3. \A i \in 1..n+1 : StartOf(i)' = StartOf(i)
    BY <1>4, <2>1, <2>2 DEF StartOf, SectionEnd
  <2>4. StartOf(n + 1) = index
    BY <1>1, <1>4 DEF SectionsChained
  <2>5. \A i \in 1..n : /\ live'[i].addr = Place(StartOf(i)', live'[i].len)
                        /\ SectionEnd(live'[i]) <= right
    BY <1>1, <1>4, <2>2, <2>3 DEF SectionsChained, Place, right, left
  <2>6. /\ s.addr = Place(StartOf(n + 1)', s.len)
        /\ SectionEnd(s) <= right
    <3>1. StartOf(n + 1)' = index
      BY <1>4, <2>3, <2>4, n + 1 \in 1..n+1
    <3>2. QED
      BY <3>1 DEF SectionEnd
  <2>7. StartOf(n + 2)' = SectionEnd(s)
    BY <1>4, <2>2 DEF StartOf, SectionEnd
  <2>8. index' = StartOf(Len(live) + 1)'
    <3>1. SectionEnd(s) = a + want
      BY DEF SectionEnd
    <3>2. Len(live') + 1 = n + 2
      BY <1>4, <2>2
    <3>3. QED
      BY <1>5, <2>7, <3>1, <3>2
  <2>9. \A i \in 1..Len(live') : /\ live'[i].addr = Place(StartOf(i)', live'[i].len)
                                 /\ SectionEnd(live'[i]) <= right
    <3>1. TAKE i \in 1..Len(live')
    <3>2. CASE i \in 1..n
      BY <2>5, <3>2
    <3>3. CASE i = n + 1
      BY <2>2, <2>6, <3>3
    <3>4. QED
      BY <1>4, <2>2, <3>2, <3>3
  <2>10. QED
    BY <1>1, <1>5, <2>1, <2>8, <2>9 DEF SectionsChained, Place, SectionEnd, right, left
<1>10. QED
  BY <1>6, <1>7, <1>8, <1>9 DEF ChainInv

(* A release takes the first section off the chain.                        *)
LEMMA ReleaseEnd ==
  ASSUME ChainInv, Release
  PROVE  /\ releasedEnd' = SectionEnd(slice)
         /\ SectionEnd(slice) <= right
         /\ rDone' \in 0..right /\ released' \in Nat
<1>1. TypeOK /\ SectionsChained
  BY DEF ChainInv
<1>2. live # <<>> /\ live[1] = slice /\ live \in Seq(Section)
  BY <1>1, LiveRelease, LiveType
<1>3. 1 \in 1..Len(live)
  BY <1>2
<1>4. slice.addr = Place(releasedEnd, slice.len) /\ SectionEnd(slice) <= right
  BY <1>1, <1>2, <1>3 DEF SectionsChained, StartOf
<1>5. /\ slice.len \in Nat /\ rDone \in Nat /\ released \in Nat
      /\ rDone <= right /\ right \in Nat
  BY <1>1, RingAssumption DEF TypeOK, Section, right
<1>6. \/ ReleaseWrapped(slice.len)
      \/ ReleaseNotified(slice.len)
      \/ ReleaseGathered(slice.len)
  BY DEF Release
<1>7. CASE ReleaseWrapped(slice.len)
  BY <1>4, <1>5, <1>7 DEF ReleaseWrapped, releasedEnd, SectionEnd, Place, left
<1>8. CASE ReleaseNotified(slice.len)
  BY <1>4, <1>5, <1>8 DEF ReleaseNotified, releasedEnd, SectionEnd, Place, left
<1>9. CASE ReleaseGathered(slice.len)
  BY <1>4, <1>5, <1>9 DEF ReleaseGathered, releasedEnd, SectionEnd, Place, left
<1>10. QED
  BY <1>4, <1>6, <1>7, <1>8, <1>9

LEMMA ReleaseSections ==
  ASSUME ChainInv, Release
  PROVE  SectionsChained'
<1>1. TypeOK /\ SectionsChained
  BY DEF ChainInv
<1>2. PICK n \in Nat : n = Len(live) /\ live \in Seq(Section)
  BY <1>1, LiveType
<1>3. live # <<>> /\ live[1] = slice /\ live' = Tail(live)
  BY <1>1, LiveRelease
<1>4. /\ app = "reading" /\ app' = "free" /\ index' = index
      /\ rIndex' = rIndex
  BY DEF Release, senderVars
<1>5. releasedEnd' = SectionEnd(slice) /\ SectionEnd(slice) <= right
  BY ReleaseEnd
<1>6. Len(live') = n - 1 /\ n >= 1 /\ \A i \in 1..n-1 : live'[i] = live[i + 1]
  BY <1>2, <1>3
<1>7. \A i \in 1..n : StartOf(i)' = StartOf(i + 1)
  <2>1. StartOf(1)' = SectionEnd(slice)
    BY <1>5 DEF StartOf
  <2>2. StartOf(2) = SectionEnd(slice)
    BY <1>3 DEF StartOf
  <2>3. \A i \in 2..n : StartOf(i)' = SectionEnd(live'[i - 1])
    BY <1>2 DEF StartOf, SectionEnd
  <2>4. \A i \in 2..n : StartOf(i + 1) = SectionEnd(live[i])
    BY <1>2 DEF StartOf, SectionEnd
  <2>5. \A i \in 2..n : live'[i - 1] = live[i]
    <3>1. TAKE i \in 2..n
    <3>2. i - 1 \in 1..n-1 /\ (i - 1) + 1 = i
      BY <1>2
    <3>3. QED
      BY <1>6, <3>2
  <2>6. QED
    BY <1>2, <2>1, <2>2, <2>3, <2>4, <2>5
<1>8. index' = StartOf(Len(live) + 1)'
  <2>1. index = StartOf(n + 1)
    BY <1>1, <1>2 DEF SectionsChained
  <2>2. StartOf(n)' = StartOf(n + 1)
    BY <1>2, <1>6, <1>7
  <2>3. Len(live') + 1 = n
    BY <1>2, <1>6
  <2>4. QED
    BY <1>4, <2>1, <2>2, <2>3
<1>9. \A i \in 1..Len(live') : /\ live'[i].addr = Place(StartOf(i)', live'[i].len)
                               /\ SectionEnd(live'[i]) <= right
  <2>1. TAKE i \in 1..Len(live')
  <2>2. i + 1 \in 1..n /\ i \in 1..n /\ live'[i] = live[i + 1]
    BY <1>2, <1>6
  <2>3. /\ live[i + 1].addr = Place(StartOf(i + 1), live[i + 1].len)
        /\ SectionEnd(live[i + 1]) <= right
    BY <1>1, <1>2, <2>2 DEF SectionsChained
  <2>4. StartOf(i)' = StartOf(i + 1)
    BY <1>7, <2>2
  <2>5. QED
    BY <2>2, <2>3, <2>4
<1>10. rIndex' = releasedEnd'
  BY <1>1, <1>4, <1>5 DEF SectionsChained
<1>11. QED
  BY <1>4, <1>5, <1>8, <1>9, <1>10 DEF SectionsChained, Place, SectionEnd, right, left

(* What a notice of length n moves an offset p to, by update's rule.       *)
Moved(p, n) == IF n = 0 THEN p ELSE IF p + n > right THEN n ELSE p + n

(* A notice appended behind the others continues their chain.              *)
LEMMA ChainNotice ==
  ASSUME TypeOK, NoticesChained, NEW n \in Nat, NEW e \in 0..right,
         credits' = Append(credits, [amount |-> n, upto |-> e]),
         done' = done, e = Moved(noticedEnd, n)
  PROVE  /\ \A i \in 1..Len(credits') :
              credits'[i].upto = Moved(NoticeStart(i)', credits'[i].amount)
         /\ noticedEnd' = e
<1> DEFINE c == [amount |-> n, upto |-> e]
<1>1. PICK k \in Nat : k = Len(credits)
  BY DEF TypeOK
<1>2. credits \in Seq([amount : Nat, upto : 0..right]) /\ c \in [amount : Nat, upto : 0..right]
  BY DEF TypeOK
<1>3. Len(credits') = k + 1 /\ credits'[k + 1] = c
      /\ \A i \in 1..k : credits'[i] = credits[i]
  BY <1>1, <1>2
<1>4. \A i \in 1..k+1 : NoticeStart(i)' = NoticeStart(i)
  BY <1>1, <1>3 DEF NoticeStart
<1>5. NoticeStart(k + 1)' = noticedEnd
  <2>1. NoticeStart(k + 1) = noticedEnd
    BY <1>1 DEF noticedEnd
  <2>2. QED
    BY <1>1, <1>4, <2>1, k + 1 \in 1..k+1
<1>6. noticedEnd' = e
  <2>1. NoticeStart(k + 2)' = credits'[k + 1].upto
    BY <1>1 DEF NoticeStart
  <2>2. Len(credits') + 1 = k + 2
    BY <1>1, <1>3
  <2>3. QED
    BY <1>3, <2>1, <2>2 DEF noticedEnd
<1>7. \A i \in 1..k : credits'[i].upto = Moved(NoticeStart(i)', credits'[i].amount)
  BY <1>1, <1>3, <1>4 DEF NoticesChained, Moved
<1>8. credits'[k + 1].upto = Moved(NoticeStart(k + 1)', credits'[k + 1].amount)
  BY <1>3, <1>5
<1>9. \A i \in 1..Len(credits') :
        credits'[i].upto = Moved(NoticeStart(i)', credits'[i].amount)
  <2>1. TAKE i \in 1..Len(credits')
  <2>2. i \in 1..k \/ i = k + 1
    BY <1>1, <1>3
  <2>3. QED
    BY <1>7, <1>8, <2>2
<1>10. QED
  BY <1>6, <1>9

LEMMA NoticedEndType ==
  ASSUME TypeOK
  PROVE  noticedEnd \in 0..right
<1>1. PICK k \in Nat : k = Len(credits)
  BY DEF TypeOK
<1>2. k # 0 => k \in 1..Len(credits)
  BY <1>1
<1>3. k # 0 => credits[k].upto \in 0..right
  <2>1. credits \in Seq([amount : Nat, upto : 0..right])
    BY DEF TypeOK
  <2>2. k # 0 => credits[k] \in [amount : Nat, upto : 0..right]
    BY <1>2, <2>1, ElementOfSeq
  <2>3. QED
    BY <2>2
<1>4. noticedEnd = IF k = 0 THEN done ELSE credits[k].upto
  BY <1>1 DEF noticedEnd, NoticeStart
<1>5. QED
  BY <1>3, <1>4 DEF TypeOK

(* Issuing a notice, or gathering, keeps the chain of notices.             *)
LEMMA ReleaseNotices ==
  ASSUME ChainInv, Release
  PROVE  /\ NoticesChained'
         /\ credits' \in Seq([amount : Nat, upto : 0..right])
<1> DEFINE l == slice.len
           Kept(r, d, p) == r = p \/ (r = left /\ p + d > right)
<1>1. TypeOK /\ NoticesChained /\ releasedEnd <= right
  BY DEF ChainInv, SectionsChained
<1>2. /\ l \in Nat /\ rDone \in Nat /\ released \in Nat
      /\ right \in Nat /\ noticedEnd \in Nat /\ noticedEnd <= right
      /\ releasedEnd = rDone + released
  BY <1>1, NoticedEndType, RingAssumption DEF TypeOK, Section, right, releasedEnd
<1>3. credits \in Seq([amount : Nat, upto : 0..right]) /\ done' = done
  BY <1>1 DEF TypeOK, Release, senderVars
<1>4. Kept(rDone, released, noticedEnd)
  BY <1>1 DEF NoticesChained
<1>5. ASSUME NEW n \in Nat, NEW e \in 0..right,
             credits' = Append(credits, [amount |-> n, upto |-> e]),
             e = Moved(noticedEnd, n),
             Kept(rDone', released', e)
      PROVE  NoticesChained' /\ credits' \in Seq([amount : Nat, upto : 0..right])
  <2>1. /\ \A i \in 1..Len(credits') :
             credits'[i].upto = Moved(NoticeStart(i)', credits'[i].amount)
        /\ noticedEnd' = e
    BY <1>1, <1>3, <1>5, ChainNotice
  <2>2. NoticesChained'
    BY <1>5, <2>1 DEF NoticesChained, Moved, right, left
  <2>3. [amount |-> n, upto |-> e] \in [amount : Nat, upto : 0..right]
    OBVIOUS
  <2>4. credits' \in Seq([amount : Nat, upto : 0..right])
    BY <1>3, <1>5, <2>3
  <2>5. QED
    BY <2>2, <2>4
<1>6. CASE ReleaseWrapped(l)
  <2> DEFINE e == rDone + released
  <2>1. /\ rDone + released + l > right
        /\ credits' = Append(credits, [amount |-> released, upto |-> e])
        /\ released' = l /\ rDone' = left
    BY <1>6 DEF ReleaseWrapped, Notify
  <2>2. e \in 0..right /\ e = Moved(noticedEnd, released)
    BY <1>1, <1>2, <1>4 DEF Moved, left
  <2>3. Kept(rDone', released', e)
    BY <2>1
  <2>4. QED
    BY <1>2, <1>5, <2>1, <2>2, <2>3
<1>7. CASE ReleaseNotified(l)
  <2> DEFINE e == rDone + released + l
  <2>1. /\ rDone + released + l <= right /\ released + l >= NotifyMin
        /\ credits' = Append(credits, [amount |-> released + l, upto |-> e])
        /\ released' = 0 /\ rDone' = rDone + (released + l)
    BY <1>7 DEF ReleaseNotified, Notify
  <2>2. e \in 0..right /\ e = Moved(noticedEnd, released + l)
        /\ released + l \in Nat /\ rDone' = e
    <3>1. NotifyMin \in Nat /\ NotifyMin > 0
      BY RingAssumption
    <3>2. e \in 0..right /\ released + l \in Nat /\ released + l # 0 /\ rDone' = e
      BY <1>2, <2>1, <3>1
    <3>3. CASE rDone = noticedEnd
      BY <1>2, <2>1, <3>2, <3>3 DEF Moved
    <3>4. CASE rDone = left /\ noticedEnd + released > right
      BY <1>2, <2>1, <3>2, <3>4 DEF Moved, left
    <3>5. QED
      BY <1>4, <3>2, <3>3, <3>4
  <2>3. Kept(rDone', released', e)
    BY <2>2
  <2>4. QED
    BY <1>5, <2>1, <2>2, <2>3
<1>8. CASE ReleaseGathered(l)
  <2>1. released' = released + l /\ rDone' = rDone /\ credits' = credits
    BY <1>8 DEF ReleaseGathered
  <2>2. noticedEnd' = noticedEnd /\ Kept(rDone', released', noticedEnd)
    <3>1. noticedEnd' = noticedEnd
      BY <1>3, <2>1 DEF noticedEnd, NoticeStart
    <3>2. QED
      BY <1>2, <1>4, <2>1, <3>1
  <2>3. NoticesChained'
    BY <1>1, <1>3, <2>1, <2>2 DEF NoticesChained, NoticeStart, right, left
  <2>4. QED
    BY <1>3, <2>1, <2>3
<1>9. QED
  BY <1>6, <1>7, <1>8 DEF Release

(* update moves done to the offset the notice was issued for.              *)
LEMMA UpdateMoves ==
  ASSUME TypeOK, NoticesChained, Update
  PROVE  done' = Head(credits).upto /\ done' \in 0..right
<1>1. credits \in Seq([amount : Nat, upto : 0..right]) /\ credits # <<>>
  BY DEF TypeOK, Update
<1>2. 1 \in 1..Len(credits) /\ Head(credits) = credits[1]
  BY <1>1
<1>3. credits[1] \in [amount : Nat, upto : 0..right]
  BY <1>1, <1>2, ElementOfSeq
<1>4. credits[1].upto = Moved(done, credits[1].amount)
  BY <1>2 DEF NoticesChained, NoticeStart, Moved
<1>5. done' = Moved(done, credits[1].amount)
  BY <1>2, <1>3 DEF Update, Advance, Moved, left
<1>6. QED
  BY <1>2, <1>3, <1>4, <1>5

LEMMA UpdateNotices ==
  ASSUME TypeOK, NoticesChained, Update
  PROVE  /\ NoticesChained'
         /\ credits' \in Seq([amount : Nat, upto : 0..right])
<1>1. credits \in Seq([amount : Nat, upto : 0..right]) /\ credits # <<>>
      /\ credits' = Tail(credits) /\ rDone' = rDone /\ released' = released
  BY DEF TypeOK, Update, receiverVars
<1>2. PICK k \in Nat : k = Len(credits)
  BY <1>1
<1>3. k >= 1 /\ Len(credits') = k - 1
      /\ \A i \in 1..k-1 : credits'[i] = credits[i + 1]
  BY <1>1, <1>2
<1>4. credits' \in Seq([amount : Nat, upto : 0..right])
  BY <1>1
<1>5. \A i \in 1..k : NoticeStart(i)' = NoticeStart(i + 1)
  <2>1. NoticeStart(1)' = NoticeStart(2)
    <3>1. done' = credits[1].upto
      BY <1>1, UpdateMoves
    <3>2. QED
      BY <3>1 DEF NoticeStart
  <2>2. ASSUME NEW i \in 2..k
        PROVE  NoticeStart(i)' = NoticeStart(i + 1)
    <3>1. i - 1 \in 1..k-1 /\ (i - 1) + 1 = i /\ i # 1 /\ i + 1 # 1
          /\ (i + 1) - 1 = i
      BY <1>2
    <3>2. credits'[i - 1] = credits[i]
      BY <1>3, <3>1
    <3>3. QED
      BY <3>1, <3>2 DEF NoticeStart
  <2>3. QED
    BY <1>2, <2>1, <2>2
<1>6. noticedEnd' = noticedEnd
  <2>1. Len(credits') + 1 = k /\ k \in 1..k
    BY <1>2, <1>3
  <2>2. noticedEnd' = NoticeStart(k)'
    BY <2>1 DEF noticedEnd
  <2>3. NoticeStart(k)' = NoticeStart(k + 1)
    BY <1>5, <2>1
  <2>4. QED
    BY <1>2, <2>2, <2>3 DEF noticedEnd
<1>7. ASSUME NEW i \in 1..Len(credits')
      PROVE  credits'[i].upto = Moved(NoticeStart(i)', credits'[i].amount)
  <2>1. i + 1 \in 1..k /\ i \in 1..k /\ credits'[i] = credits[i + 1]
    BY <1>2, <1>3
  <2>2. credits[i + 1].upto = Moved(NoticeStart(i + 1), credits[i + 1].amount)
    BY <1>2, <2>1 DEF NoticesChained, Moved
  <2>3. NoticeStart(i)' = NoticeStart(i + 1)
    BY <1>5, <2>1
  <2>4. QED
    BY <2>1, <2>2, <2>3
<1>8. NoticesChained'
  BY <1>1, <1>6, <1>7 DEF NoticesChained, Moved, right, left
<1>9. QED
  BY <1>4, <1>8

-----------------------------------------------------------------------------
LEMMA ChainInit == Init => ChainInv
<1> SUFFICES ASSUME Init PROVE ChainInv
  OBVIOUS
<1>1. TypeOK
  BY RingAssumption DEF Init, TypeOK, NoSlice, Section, left, right
<1>2. live = <<>>
  BY DEF Init, live, unread
<1>3. SectionsChained
  BY <1>2, RingAssumption DEF Init, SectionsChained, StartOf, releasedEnd, left, right
<1>4. BranchKept /\ NoticesChained
  BY DEF Init, BranchKept, NoticesChained, NoticeStart, noticedEnd, left
<1>5. QED
  BY <1>1, <1>3, <1>4 DEF ChainInv

(* ChainInv is inductive: one step per action.                             *)
LEMMA ChainNext == ChainInv /\ [Next]_vars => ChainInv'
<1> SUFFICES ASSUME ChainInv, [Next]_vars PROVE ChainInv'
  OBVIOUS
<1> USE RingAssumption
<1>1. TypeOK /\ SectionsChained /\ BranchKept /\ NoticesChained
  BY DEF ChainInv
<1>2. index \in 0..right /\ done \in 0..right /\ want \in Nat /\ right \in Nat
  BY <1>1 DEF TypeOK, right
<1>3. ASSUME NEW l \in Lens, AllocBegin(l)
      PROVE  ChainInv'
  <2>1. /\ pc = "idle" /\ want' = l
        /\ pc' = IF index + l > right THEN "wrapSpace" ELSE "fitSpace"
        /\ UNCHANGED <<index, done, wire, inbox, app, slice, rIndex, rDone,
                       released, credits>>
    BY <1>3 DEF AllocBegin, receiverVars
  <2>2. TypeOK'
    BY <1>1, <2>1 DEF TypeOK, right
  <2>3. SectionsChained'
    BY <1>1, <2>1, SameLive, SameSections DEF releasedEnd
  <2>4. NoticesChained'
    BY <1>1, <2>1, SameNotices
  <2>5. BranchKept'
    BY <1>2, <2>1 DEF BranchKept, right
  <2>6. QED
    BY <2>2, <2>3, <2>4, <2>5 DEF ChainInv
<1>4. ASSUME NEW p \in {"wrapSpace", "wrapOrder", "fitSpace", "fitOrder"}, Goto(p),
             p \in {"wrapSpace", "wrapOrder"} => index + want > right,
             p \in {"fitSpace", "fitOrder"} => index + want <= right,
             p = "wrapOrder" => want <= right
      PROVE  ChainInv'
  <2>1. /\ pc' = p
        /\ UNCHANGED <<index, done, want, wire, inbox, app, slice, rIndex,
                       rDone, released, credits>>
    BY <1>4 DEF Goto, receiverVars
  <2>2. TypeOK'
    BY <1>1, <2>1 DEF TypeOK, right
  <2>3. SectionsChained'
    BY <1>1, <2>1, SameLive, SameSections DEF releasedEnd
  <2>4. NoticesChained'
    BY <1>1, <2>1, SameNotices
  <2>5. BranchKept'
    BY <1>4, <2>1 DEF BranchKept, right
  <2>6. QED
    BY <2>2, <2>3, <2>4, <2>5 DEF ChainInv
<1>5. ASSUME Grant(index), index + want <= right
      PROVE  ChainInv'
  <2>1. Place(index, want) = index
    BY <1>2, <1>5 DEF Place
  <2>2. QED
    BY <1>5, <2>1, ChainGrant
<1>6. ASSUME Grant(left), index + want > right, want <= right
      PROVE  ChainInv'
  <2>1. Place(index, want) = left /\ left + want <= right
    BY <1>2, <1>6 DEF Place, left
  <2>2. QED
    BY <1>6, <2>1, ChainGrant
<1>7. CASE WrapSpaceLoad
  <2>1. pc = "wrapSpace" /\ want < done /\ Goto("wrapOrder")
    BY <1>2, <1>7 DEF WrapSpaceLoad, left
  <2>2. index + want > right /\ want <= right
    BY <1>1, <1>2, <2>1 DEF BranchKept
  <2>3. QED
    BY <1>4, <2>1, <2>2
<1>8. CASE WrapOrderLoad
  <2>1. pc = "wrapOrder" /\ (Goto("wrapSpace") \/ Grant(left))
    BY <1>8 DEF WrapOrderLoad
  <2>2. index + want > right /\ want <= right
    BY <1>1, <2>1 DEF BranchKept
  <2>3. QED
    BY <1>4, <1>6, <2>1, <2>2
<1>9. CASE FitSpaceLoad
  <2>1. pc = "fitSpace" /\ (Goto("fitOrder") \/ Grant(index))
    BY <1>9 DEF FitSpaceLoad
  <2>2. index + want <= right
    BY <1>1, <2>1 DEF BranchKept
  <2>3. QED
    BY <1>4, <1>5, <2>1, <2>2
<1>10. CASE FitOrderLoad
  <2>1. pc = "fitOrder" /\ (Goto("fitSpace") \/ Grant(index))
    BY <1>10 DEF FitOrderLoad
  <2>2. index + want <= right
    BY <1>1, <2>1 DEF BranchKept
  <2>3. QED
    BY <1>4, <1>5, <2>1, <2>2
<1>11. CASE Deliver
  <2>1. UNCHANGED <<index, done, pc, want, app, slice, rIndex, rDone,
                    released, credits>>
    BY <1>11 DEF Deliver, senderVars, receiverVars
  <2>2. inbox' \in Seq(Section) /\ wire' \in Seq(Section) /\ live' = live
    BY <1>1, <1>11, LiveDeliver
  <2>3. TypeOK'
    BY <1>1, <2>1, <2>2 DEF TypeOK, right
  <2>4. SectionsChained'
    BY <1>1, <2>1, <2>2, SameSections DEF releasedEnd
  <2>5. NoticesChained'
    BY <1>1, <2>1, SameNotices
  <2>6. BranchKept'
    BY <1>1, <2>1 DEF BranchKept, right
  <2>7. QED
    BY <2>3, <2>4, <2>5, <2>6 DEF ChainInv
<1>12. CASE RecvMsg
  <2>1. UNCHANGED <<index, done, pc, want, wire, rDone, released, credits>>
        /\ app = "free" /\ app' = "reading"
    BY <1>12 DEF RecvMsg, senderVars
  <2>2. /\ slice' = Head(inbox) /\ Head(inbox) \in Section
        /\ inbox' \in Seq(Section) /\ live' = live
        /\ rIndex' = SectionEnd(Head(inbox)) /\ SectionEnd(Head(inbox)) <= right
    BY <1>1, <1>12, LiveRecvMsg
  <2>3. SectionEnd(Head(inbox)) \in 0..right
    <3>1. Head(inbox).addr \in Nat /\ Head(inbox).len \in Nat
      BY <2>2 DEF Section
    <3>2. QED
      BY <1>2, <2>2, <3>1 DEF SectionEnd
  <2>4. TypeOK'
    BY <1>1, <2>1, <2>2, <2>3 DEF TypeOK, right
  <2>5. SectionsChained'
    <3>1. rIndex' = SectionEnd(slice')
      BY <2>2
    <3>2. \A i \in Nat : StartOf(i)' = StartOf(i)
      BY <2>1, <2>2 DEF StartOf, releasedEnd, SectionEnd
    <3>3. StartOf(Len(live) + 1)' = StartOf(Len(live) + 1)
      BY <2>1, <2>2 DEF StartOf, releasedEnd, SectionEnd
    <3>4. QED
      BY <1>1, <2>1, <2>2, <3>1, <3>2, <3>3
         DEF SectionsChained, releasedEnd, Place, SectionEnd, right, left
  <2>6. NoticesChained'
    BY <1>1, <2>1, SameNotices
  <2>7. BranchKept'
    BY <1>1, <2>1 DEF BranchKept, right
  <2>8. QED
    BY <2>4, <2>5, <2>6, <2>7 DEF ChainInv
<1>13. CASE Release
  <2>1. UNCHANGED <<index, done, pc, want, wire, inbox, rIndex>>
        /\ app' = "free" /\ slice' = NoSlice
    BY <1>13 DEF Release, senderVars
  <2>2. rDone' \in 0..right /\ released' \in Nat
    BY <1>13, ReleaseEnd
  <2>3. NoticesChained' /\ credits' \in Seq([amount : Nat, upto : 0..right])
    BY <1>13, ReleaseNotices
  <2>4. NoSlice \in Section
    BY DEF NoSlice, Section, left
  <2>5. TypeOK'
    BY <1>1, <2>1, <2>2, <2>3, <2>4 DEF TypeOK, right
  <2>6. SectionsChained'
    BY <1>13, ReleaseSections
  <2>7. BranchKept'
    BY <1>1, <2>1 DEF BranchKept, right
  <2>8. QED
    BY <2>3, <2>5, <2>6, <2>7 DEF ChainInv
<1>14. CASE Update
  <2>1. UNCHANGED <<index, pc, want, wire, inbox, app, slice, rIndex, rDone,
                    released>>
    BY <1>14 DEF Update, receiverVars
  <2>2. done' \in 0..right
    BY <1>1, <1>14, UpdateMoves
  <2>3. NoticesChained' /\ credits' \in Seq([amount : Nat, upto : 0..right])
    BY <1>1, <1>14, UpdateNotices
  <2>4. TypeOK'
    BY <1>1, <2>1, <2>2, <2>3 DEF TypeOK, right
  <2>5. SectionsChained'
    BY <1>1, <2>1, SameLive, SameSections DEF releasedEnd
  <2>6. BranchKept'
    BY <1>1, <2>1 DEF BranchKept, right
  <2>7. QED
    BY <2>3, <2>4, <2>5, <2>6 DEF ChainInv
<1>15. CASE UNCHANGED vars
  <2>1. UNCHANGED <<index, done, pc, want, wire, inbox, app, slice, rIndex,
                    rDone, released, credits>>
    BY <1>15 DEF vars
  <2>2. TypeOK'
    BY <1>1, <2>1 DEF TypeOK, right
  <2>3. SectionsChained'
    BY <1>1, <2>1, SameLive, SameSections DEF releasedEnd
  <2>4. NoticesChained'
    BY <1>1, <2>1, SameNotices
  <2>5. BranchKept'
    BY <1>1, <2>1 DEF BranchKept, right
  <2>6. QED
    BY <2>2, <2>3, <2>4, <2>5 DEF ChainInv
<1>16. CASE CancelAlloc
  <2>1. /\ pc' = "idle" /\ want' = 0
        /\ UNCHANGED <<index, done, wire, inbox, app, slice, rIndex, rDone,
                       released, credits>>
    BY <1>16 DEF CancelAlloc, receiverVars
  <2>2. TypeOK'
    BY <1>1, <2>1 DEF TypeOK, right
  <2>3. SectionsChained'
    BY <1>1, <2>1, SameLive, SameSections DEF releasedEnd
  <2>4. NoticesChained'
    BY <1>1, <2>1, SameNotices
  <2>5. BranchKept'
    BY <2>1 DEF BranchKept
  <2>6. QED
    BY <2>2, <2>3, <2>4, <2>5 DEF ChainInv
<1>17. QED
  BY <1>3, <1>7, <1>8, <1>9, <1>10, <1>11, <1>12, <1>13, <1>14, <1>15, <1>16
     DEF Next, AllocStep

-----------------------------------------------------------------------------
LEMMA ChainAlways == Spec => []ChainInv
BY ChainInit, ChainNext, PTL DEF Spec

(* Every state is well typed, whatever the lengths of the messages: in     *)
(* particular the cursors of both sides stay inside the buffer and read    *)
(* never takes a slice that ends beyond it (mr.rs: alloc, update, read,    *)
(* notify_release).                                                        *)
THEOREM TypeCorrect == Spec => []TypeOK
BY ChainAlways, PTL DEF ChainInv

(* recv_msg lends exactly the section the sender wrote, for every capacity *)
(* and every set of message lengths: alloc and read wrap around at the     *)
(* same messages.                                                          *)
THEOREM ReadsExactly == Spec => ReadsWhatWasWritten
<1>1. ASSUME ChainInv, [Next]_vars, app = "free", app' = "reading"
      PROVE  slice' = Head(inbox)
  <2>1. CASE RecvMsg
    BY <1>1, <2>1, LiveRecvMsg DEF ChainInv
  <2>2. ~RecvMsg => app' = app \/ app' = "free"
    BY <1>1 DEF Next, vars, AllocBegin, AllocStep, WrapSpaceLoad, WrapOrderLoad,
                FitSpaceLoad, FitOrderLoad, Goto, Grant, CancelAlloc, Deliver,
                Release, Update, receiverVars
  <2>3. QED
    BY <1>1, <2>1, <2>2
<1>2. QED
  BY <1>1, ChainAlways, PTL DEF Spec, ReadsWhatWasWritten

(* Each notice moves the sender's done to the very offset up to which the  *)
(* receiver had released when it issued it, for every threshold: batching  *)
(* and the two wrap-arounds (notify_release, update) never drift apart.    *)
THEOREM NoticesExact == Spec => DoneFollowsReleases
<1>1. ASSUME ChainInv, [Next]_vars, Len(credits') < Len(credits)
      PROVE  done' = Head(credits).upto
  <2>1. CASE Update
    BY <1>1, <2>1, UpdateMoves DEF ChainInv
  <2>2. credits \in Seq([amount : Nat, upto : 0..right])
    BY <1>1 DEF ChainInv, TypeOK
  <2>3. CASE Release
    <3>1. \/ credits' = credits
          \/ \E c : credits' = Append(credits, c)
      BY <2>3 DEF Release, ReleaseWrapped, ReleaseNotified, ReleaseGathered, Notify
    <3>2. ASSUME NEW c, credits' = Append(credits, c)
          PROVE  Len(credits') = Len(credits) + 1
      BY <2>2, <3>2
    <3>3. Len(credits') = Len(credits) \/ Len(credits') = Len(credits) + 1
      BY <3>1, <3>2
    <3>4. QED
      BY <1>1, <2>2, <3>3
  <2>4. ~Update /\ ~Release => credits' = credits
    BY <1>1 DEF Next, vars, AllocBegin, AllocStep, WrapSpaceLoad, WrapOrderLoad,
                FitSpaceLoad, FitOrderLoad, Goto, Grant, CancelAlloc, Deliver, RecvMsg
  <2>5. QED
    BY <1>1, <2>1, <2>2, <2>3, <2>4
<1>2. QED
  BY <1>1, ChainAlways, PTL DEF Spec, DoneFollowsReleases

-----------------------------------------------------------------------------
(* Messages shorter than the threshold: the order of positions around the  *)
(* ring.                                                                   *)
LEMMA SectionTypes ==
  ASSUME TypeOK, SectionsChained, NEW i \in 1..Len(live)
  PROVE  /\ live[i] \in Section
         /\ live[i].addr \in 0..right /\ live[i].len \in Nat
         /\ SectionEnd(live[i]) \in 0..right
         /\ SectionEnd(live[i]) = live[i].addr + live[i].len
<1>1. live[i] \in Section
  BY LiveType, ElementOfSeq
<1>2. live[i].addr \in Nat /\ live[i].len \in Nat
  BY <1>1 DEF Section
<1>3. SectionEnd(live[i]) <= right /\ right \in Nat
  BY RingAssumption DEF SectionsChained, right
<1>4. QED
  BY <1>1, <1>2, <1>3 DEF SectionEnd

LEMMA CreditTypes ==
  ASSUME TypeOK, NEW i \in 1..Len(credits)
  PROVE  credits[i].upto \in 0..right /\ credits[i].amount \in Nat
<1>1. credits[i] \in [amount : Nat, upto : 0..right]
  BY ElementOfSeq DEF TypeOK
<1>2. QED
  BY <1>1

LEMMA EndTypes ==
  ASSUME TypeOK, SectionsChained
  PROVE  /\ releasedEnd \in 0..right /\ index \in 0..right /\ done \in 0..right
         /\ right \in Nat
BY RingAssumption DEF TypeOK, SectionsChained, releasedEnd, right

(* Moving done forward, to a position that is not ahead of p and q, keeps  *)
(* the order of p and q.                                                   *)
AheadOf(d, p) == IF p >= d THEN p ELSE p + right + 1

LEMMA Rebase ==
  ASSUME right \in Nat, done \in 0..right, NEW d \in 0..right,
         NEW p \in 0..right, NEW q \in 0..right,
         Ahead(d) <= Ahead(p), Ahead(p) <= Ahead(q)
  PROVE  AheadOf(d, p) <= AheadOf(d, q)
BY DEF Ahead, AheadOf

(* Two sections in order around the ring share no byte.                    *)
LEMMA OrderedDisjoint ==
  ASSUME right \in Nat, done \in 0..right,
         NEW s \in Section, NEW t \in Section,
         SectionEnd(s) <= right, SectionEnd(t) <= right,
         Ahead(s.addr) <= Ahead(SectionEnd(s)),
         Ahead(SectionEnd(s)) <= Ahead(t.addr),
         Ahead(t.addr) <= Ahead(SectionEnd(t))
  PROVE  ~Overlap(s, t) /\ ~Overlap(t, s)
<1>1. /\ s.addr \in Nat /\ s.len \in Nat /\ t.addr \in Nat /\ t.len \in Nat
      /\ SectionEnd(s) = s.addr + s.len /\ SectionEnd(t) = t.addr + t.len
  BY DEF Section, SectionEnd
<1>2. QED
  BY <1>1 DEF Ahead, Overlap

LEMMA RingNoOverwrite ==
  ASSUME RingInv
  PROVE  NoOverwrite
<1>1. TypeOK /\ SectionsChained /\ RingOrder
  BY DEF RingInv, ChainInv
<1>2. right \in Nat /\ done \in 0..right
  BY <1>1, EndTypes
<1>3. DOMAIN live = 1..Len(live)
  BY <1>1, LiveType
<1>4. ASSUME NEW i \in 1..Len(live), NEW j \in 1..Len(live), i < j
      PROVE  ~Overlap(live[i], live[j]) /\ ~Overlap(live[j], live[i])
  <2>1. /\ live[i] \in Section /\ live[j] \in Section
        /\ SectionEnd(live[i]) <= right /\ SectionEnd(live[j]) <= right
    BY <1>1, <1>2, SectionTypes
  <2>2. /\ Ahead(live[i].addr) <= Ahead(SectionEnd(live[i]))
        /\ Ahead(SectionEnd(live[i])) <= Ahead(live[j].addr)
        /\ Ahead(live[j].addr) <= Ahead(SectionEnd(live[j]))
    BY <1>1, <1>4 DEF RingOrder
  <2>3. QED
    BY <1>2, <2>1, <2>2, OrderedDisjoint
<1>5. QED
  BY <1>3, <1>4 DEF NoOverwrite

(* What a step leaves of the order when the cursors and sections stay.     *)
LEMMA SameOrder ==
  ASSUME RingOrder, WrappingNoticeLong, SectionsShort,
         live' = live, index' = index, done' = done, credits' = credits,
         rDone' = rDone, released' = released
  PROVE  RingOrder' /\ WrappingNoticeLong' /\ SectionsShort'
<1>1. RingOrder'
  BY DEF RingOrder, Ahead, SectionEnd, releasedEnd, right
<1>2. WrappingNoticeLong'
  BY DEF WrappingNoticeLong, NoticeStart
<1>3. SectionsShort'
  BY DEF SectionsShort
<1>4. QED
  BY <1>1, <1>2, <1>3

(* A granted section lies ahead of index, and index moves to its end.      *)
LEMMA OrderGrant ==
  ASSUME ChainInv, RingOrder, WrappingNoticeLong, SectionsShort,
         NEW a \in Nat, Grant(a), a + want <= right, want < NotifyMin,
         Ahead(index) <= Ahead(a), Ahead(a) <= Ahead(a + want)
  PROVE  RingOrder' /\ WrappingNoticeLong' /\ SectionsShort'
<1> DEFINE s == [addr |-> a, len |-> want]
<1> USE RingAssumption
<1>1. TypeOK /\ SectionsChained
  BY DEF ChainInv
<1>2. want \in Nat /\ right \in Nat /\ done \in 0..right /\ index \in 0..right
      /\ releasedEnd \in 0..right
  BY <1>1, EndTypes DEF TypeOK
<1>3. PICK n \in Nat : n = Len(live) /\ live \in Seq(Section)
  BY <1>1, LiveType
<1>4. live' = Append(live, s)
  BY <1>1, <1>2, LiveGrant
<1>5. Len(live') = n + 1 /\ live'[n + 1] = s /\ \A i \in 1..n : live'[i] = live[i]
  BY <1>3, <1>4
<1>6. index' = a + want /\ done' = done /\ credits' = credits
      /\ rDone' = rDone /\ released' = released
  BY DEF Grant, receiverVars
<1>7. releasedEnd' = releasedEnd /\ (\A p : Ahead(p)' = Ahead(p))
  BY <1>6 DEF releasedEnd, Ahead, right
<1>8. SectionEnd(s) = a + want /\ s.addr = a /\ s.len = want
  BY DEF SectionEnd
<1>9. /\ Ahead(index) \in Nat /\ Ahead(a) \in Nat /\ Ahead(a + want) \in Nat
      /\ Ahead(releasedEnd) \in Nat
  BY <1>2 DEF Ahead
<1>10. \A i \in 1..n : /\ Ahead(live[i].addr) \in Nat
                       /\ Ahead(SectionEnd(live[i])) \in Nat
  BY <1>1, <1>2, <1>3, SectionTypes DEF Ahead
<1>11. RingOrder'
  <2>1. Ahead(releasedEnd) <= Ahead(a + want)
    BY <1>9 DEF RingOrder
  <2>2. \A i \in 1..n :
          /\ Ahead(releasedEnd) <= Ahead(live'[i].addr)
          /\ Ahead(live'[i].addr) <= Ahead(SectionEnd(live'[i]))
          /\ Ahead(SectionEnd(live'[i])) <= Ahead(a + want)
          /\ Ahead(SectionEnd(live'[i])) <= Ahead(a)
    <3>1. TAKE i \in 1..n
    <3>2. live'[i] = live[i]
      BY <1>5
    <3>3. /\ Ahead(releasedEnd) <= Ahead(live[i].addr)
          /\ Ahead(live[i].addr) <= Ahead(SectionEnd(live[i]))
          /\ Ahead(SectionEnd(live[i])) <= Ahead(index)
      BY <1>3 DEF RingOrder
    <3>4. Ahead(SectionEnd(live[i])) <= Ahead(a) /\ Ahead(a) <= Ahead(a + want)
      BY <1>2, <1>9, <1>10, <3>3 DEF Ahead
    <3>5. Ahead(SectionEnd(live[i])) <= Ahead(a + want)
      BY <1>9, <1>10, <3>4
    <3>6. QED
      BY <3>2, <3>3, <3>4, <3>5
  <2>3. \A i \in 1..Len(live') :
          /\ Ahead(releasedEnd) <= Ahead(live'[i].addr)
          /\ Ahead(live'[i].addr) <= Ahead(SectionEnd(live'[i]))
          /\ Ahead(SectionEnd(live'[i])) <= Ahead(a + want)
    <3>1. TAKE i \in 1..Len(live')
    <3>2. CASE i \in 1..n
      BY <2>2, <3>2
    <3>3. CASE i = n + 1
      BY <1>5, <1>8, <1>9, <3>3 DEF RingOrder
    <3>4. QED
      BY <1>3, <1>5, <3>2, <3>3
  <2>4. \A i, j \in 1..Len(live') :
          i < j => Ahead(SectionEnd(live'[i])) <= Ahead(live'[j].addr)
    <3>1. TAKE i, j \in 1..Len(live')
    <3>2. HAVE i < j
    <3>3. i \in 1..n /\ (j \in 1..n \/ j = n + 1)
      BY <1>3, <1>5, <3>2
    <3>4. CASE j \in 1..n
      BY <1>3, <1>5, <3>2, <3>3, <3>4 DEF RingOrder
    <3>5. CASE j = n + 1
      BY <1>5, <1>8, <2>2, <3>3, <3>5
    <3>6. QED
      BY <3>3, <3>4, <3>5
  <2>5. \A i \in 1..Len(credits) : Ahead(credits[i].upto) <= Ahead(releasedEnd)
    BY DEF RingOrder
  <2>6. \A i, j \in 1..Len(credits) :
          i < j => Ahead(credits[i].upto) <= Ahead(credits[j].upto)
    BY DEF RingOrder
  <2>7. QED
    BY <1>6, <1>7, <2>1, <2>3, <2>4, <2>5, <2>6 DEF RingOrder, SectionEnd
<1>12. WrappingNoticeLong'
  BY <1>6 DEF WrappingNoticeLong, NoticeStart
<1>13. SectionsShort'
  <2>1. ASSUME NEW i \in 1..Len(live') PROVE live'[i].len < NotifyMin
    <3>1. i \in 1..n \/ i = n + 1
      BY <1>3, <1>5
    <3>2. QED
      BY <1>3, <1>5, <1>8, <3>1 DEF SectionsShort
  <2>2. QED
    BY <2>1 DEF SectionsShort
<1>14. QED
  BY <1>11, <1>12, <1>13

(* The notice a release issues, if any: where it reports to, and that it   *)
(* is not a short one if it makes done wrap around.                        *)
LEMMA ReleaseNotice ==
  ASSUME ChainInv, WrappingNoticeLong, SectionsShort, 2 * NotifyMin <= Cap, Release
  PROVE  /\ released' < NotifyMin
         /\ \/ credits' = credits
            \/ \E n \in Nat, e \in {releasedEnd, releasedEnd'} :
                 /\ credits' = Append(credits, [amount |-> n, upto |-> e])
                 /\ e < noticedEnd => e >= NotifyMin
<1> DEFINE l == slice.len
<1> USE RingAssumption
<1>1. TypeOK /\ SectionsChained /\ NoticesChained
  BY DEF ChainInv
<1>2. /\ l \in Nat /\ rDone \in 0..right /\ released \in Nat /\ right \in Nat
      /\ noticedEnd \in 0..right /\ releasedEnd \in 0..right
      /\ releasedEnd = rDone + released /\ NotifyMin \in Nat /\ right = Cap
  BY <1>1, NoticedEndType, EndTypes DEF TypeOK, Section, releasedEnd, right
<1>3. live # <<>> /\ live[1] = slice /\ live \in Seq(Section)
  BY <1>1, LiveRelease, LiveType
<1>4. l < NotifyMin
  BY <1>3, 1 \in 1..Len(live) DEF SectionsShort
<1>5. released < NotifyMin
  BY DEF WrappingNoticeLong
<1>6. \/ rDone = noticedEnd
      \/ rDone = left /\ noticedEnd + released > right
  BY <1>1 DEF NoticesChained
<1>7. CASE ReleaseWrapped(l)
  <2>1. /\ rDone + released + l > right /\ released' = l
        /\ credits' = Append(credits, [amount |-> released, upto |-> rDone + released])
    BY <1>7 DEF ReleaseWrapped, Notify
  <2>2. rDone # left
    BY <1>2, <1>4, <1>5, <2>1 DEF left
  <2>3. ~(releasedEnd < noticedEnd)
    BY <1>2, <1>6, <2>2
  <2>4. QED
    BY <1>2, <1>4, <2>1, <2>3
<1>8. CASE ReleaseNotified(l)
  <2>1. /\ released + l >= NotifyMin
        /\ credits' = Append(credits, [amount |-> released + l, upto |-> rDone + released + l])
        /\ released' = 0 /\ rDone' = rDone + (released + l)
    BY <1>8 DEF ReleaseNotified, Notify
  <2>2. /\ releasedEnd' = rDone + released + l /\ released + l \in Nat
        /\ released' < NotifyMin /\ rDone + released + l >= NotifyMin
    BY <1>2, <2>1 DEF releasedEnd
  <2>3. QED
    BY <2>1, <2>2
<1>9. CASE ReleaseGathered(l)
  BY <1>9 DEF ReleaseGathered
<1>10. QED
  BY <1>7, <1>8, <1>9 DEF Release

LEMMA OrderRelease ==
  ASSUME ChainInv, RingOrder, WrappingNoticeLong, SectionsShort,
         2 * NotifyMin <= Cap, Release
  PROVE  RingOrder' /\ WrappingNoticeLong' /\ SectionsShort'
<1> USE RingAssumption
<1>1. TypeOK /\ SectionsChained /\ NoticesChained
  BY DEF ChainInv
<1>2. PICK n \in Nat : n = Len(live) /\ live \in Seq(Section)
  BY <1>1, LiveType
<1>3. live # <<>> /\ live[1] = slice /\ live' = Tail(live)
  BY <1>1, LiveRelease
<1>4. releasedEnd' = SectionEnd(slice) /\ index' = index /\ done' = done
  BY ReleaseEnd DEF Release, senderVars
<1>5. Len(live') = n - 1 /\ n >= 1 /\ \A i \in 1..n-1 : live'[i] = live[i + 1]
  BY <1>2, <1>3
<1>6. \A p : Ahead(p)' = Ahead(p)
  BY <1>4 DEF Ahead, right
<1>7. PICK e1 \in 0..right : e1 = SectionEnd(slice)
  BY <1>1, <1>2, <1>3, <1>5, SectionTypes, 1 \in 1..Len(live)
<1>8. \A i \in 1..n : /\ Ahead(live[i].addr) \in Nat
                      /\ Ahead(SectionEnd(live[i])) \in Nat
  <2>1. ASSUME NEW i \in 1..n
        PROVE  Ahead(live[i].addr) \in Nat /\ Ahead(SectionEnd(live[i])) \in Nat
    <3>1. /\ live[i].addr \in 0..right /\ SectionEnd(live[i]) \in 0..right
          /\ right \in Nat
      BY <1>1, <1>2, SectionTypes, EndTypes
    <3>2. QED
      BY <3>1 DEF Ahead
  <2>2. QED
    BY <2>1
<1>9. Ahead(releasedEnd) \in Nat /\ Ahead(index) \in Nat /\ Ahead(e1) \in Nat
  BY <1>1, EndTypes DEF Ahead
<1>10. /\ Ahead(releasedEnd) <= Ahead(e1) /\ Ahead(e1) <= Ahead(index)
       /\ \A i \in 2..n : Ahead(e1) <= Ahead(live[i].addr)
  <2>1. 1 \in 1..Len(live) /\ 2..n \subseteq 1..Len(live)
    BY <1>2, <1>5
  <2>2. /\ Ahead(releasedEnd) <= Ahead(live[1].addr)
        /\ Ahead(live[1].addr) <= Ahead(e1)
        /\ Ahead(e1) <= Ahead(index)
    BY <1>3, <1>7, <2>1 DEF RingOrder
  <2>3. \A i \in 2..n : Ahead(e1) <= Ahead(live[i].addr)
    BY <1>2, <1>3, <1>7, <2>1 DEF RingOrder
  <2>4. QED
    BY <1>2, <1>5, <1>8, <1>9, <2>2, <2>3
<1>11. /\ released' < NotifyMin
       /\ \/ credits' = credits
          \/ \E m \in Nat, e \in {releasedEnd, e1} :
               /\ credits' = Append(credits, [amount |-> m, upto |-> e])
               /\ e < noticedEnd => e >= NotifyMin
  BY <1>4, <1>7, ReleaseNotice
<1>12. PICK k \in Nat : k = Len(credits) /\ credits \in Seq([amount : Nat, upto : 0..right])
  BY <1>1 DEF TypeOK
<1>13. \A i \in 1..k : Ahead(credits[i].upto) \in Nat
  <2>1. ASSUME NEW i \in 1..k PROVE Ahead(credits[i].upto) \in Nat
    <3>1. credits[i].upto \in 0..right /\ right \in Nat
      BY <1>1, <1>12, CreditTypes, EndTypes
    <3>2. QED
      BY <3>1 DEF Ahead
  <2>2. QED
    BY <2>1
<1>14. \A i \in 1..k : Ahead(credits[i].upto) <= Ahead(releasedEnd)
  BY <1>12 DEF RingOrder
<1>15. /\ \A i \in 1..Len(credits') : Ahead(credits'[i].upto) <= Ahead(e1)
       /\ \A i, j \in 1..Len(credits') :
            i < j => Ahead(credits'[i].upto) <= Ahead(credits'[j].upto)
       /\ \A i \in 1..Len(credits') :
            credits'[i].upto < NoticeStart(i)' => credits'[i].upto >= NotifyMin
  <2>1. CASE credits' = credits
    <3>1. \A i \in 1..k : Ahead(credits[i].upto) <= Ahead(e1)
      BY <1>9, <1>10, <1>13, <1>14
    <3>2. QED
      BY <1>4, <1>12, <2>1, <3>1 DEF RingOrder, WrappingNoticeLong, NoticeStart
  <2>2. ASSUME NEW m \in Nat, NEW e \in {releasedEnd, e1},
               credits' = Append(credits, [amount |-> m, upto |-> e]),
               e < noticedEnd => e >= NotifyMin
        PROVE  <1>15!:
    <3>1. e \in 0..right
      BY <1>1, <2>2, EndTypes
    <3>2. [amount |-> m, upto |-> e] \in [amount : Nat, upto : 0..right]
      BY <3>1
    <3>3. Len(credits') = k + 1 /\ credits'[k + 1].upto = e
          /\ \A i \in 1..k : credits'[i] = credits[i]
      BY <1>12, <2>2, <3>2
    <3>4. Ahead(releasedEnd) <= Ahead(e) /\ Ahead(e) <= Ahead(e1)
      BY <1>9, <1>10
    <3>5. \A i \in 1..k : /\ Ahead(credits[i].upto) <= Ahead(e1)
                          /\ Ahead(credits[i].upto) <= Ahead(e)
      BY <1>9, <1>10, <1>13, <1>14
    <3>6. \A i \in 1..Len(credits') : Ahead(credits'[i].upto) <= Ahead(e1)
      BY <1>12, <3>3, <3>4, <3>5
    <3>7. ASSUME NEW i \in 1..Len(credits'), NEW j \in 1..Len(credits'), i < j
          PROVE  Ahead(credits'[i].upto) <= Ahead(credits'[j].upto)
      <4>1. i \in 1..k /\ (j \in 1..k \/ j = k + 1)
        BY <1>12, <3>3, <3>7
      <4>2. CASE j \in 1..k
        BY <1>12, <3>3, <3>7, <4>1, <4>2 DEF RingOrder
      <4>3. CASE j = k + 1
        BY <3>3, <3>5, <4>1, <4>3
      <4>4. QED
        BY <4>1, <4>2, <4>3
    <3>8. ASSUME NEW i \in 1..k+1 PROVE NoticeStart(i)' = NoticeStart(i)
      <4>1. i # 1 => credits'[i - 1] = credits[i - 1]
        BY <1>12, <3>3
      <4>2. QED
        BY <1>4, <4>1 DEF NoticeStart
    <3>9. NoticeStart(k + 1) = noticedEnd
      BY <1>12 DEF noticedEnd
    <3>10. ASSUME NEW i \in 1..Len(credits')
           PROVE  credits'[i].upto < NoticeStart(i)' => credits'[i].upto >= NotifyMin
      <4>1. NoticeStart(i)' = NoticeStart(i)
        BY <3>3, <3>8
      <4>2. CASE i \in 1..k
        BY <1>12, <3>3, <4>1, <4>2 DEF WrappingNoticeLong
      <4>3. CASE i = k + 1
        BY <2>2, <3>3, <3>9, <4>1, <4>3
      <4>4. QED
        BY <1>12, <3>3, <4>2, <4>3
    <3>11. QED
      BY <3>6, <3>7, <3>10
  <2>3. QED
    BY <1>11, <2>1, <2>2
<1>16. \A i \in 1..Len(live') : i + 1 \in 2..n /\ i \in 1..n-1 /\ i + 1 \in 1..Len(live)
  BY <1>2, <1>5
<1>17. \A i \in 1..Len(live') :
         /\ Ahead(e1) <= Ahead(live'[i].addr)
         /\ Ahead(live'[i].addr) <= Ahead(SectionEnd(live'[i]))
         /\ Ahead(SectionEnd(live'[i])) <= Ahead(index)
  BY <1>5, <1>10, <1>16 DEF RingOrder
<1>18. ASSUME NEW i \in 1..Len(live'), NEW j \in 1..Len(live'), i < j
       PROVE  Ahead(SectionEnd(live'[i])) <= Ahead(live'[j].addr)
  <2>1. live'[i] = live[i + 1] /\ live'[j] = live[j + 1]
    BY <1>5, <1>16
  <2>2. i + 1 \in 1..Len(live) /\ j + 1 \in 1..Len(live)
    BY <1>16
  <2>3. i + 1 < j + 1
    BY <1>2, <1>16, <1>18
  <2>4. QED
    BY <2>1, <2>2, <2>3 DEF RingOrder
<1>19. RingOrder'
  BY <1>4, <1>6, <1>7, <1>10, <1>15, <1>17, <1>18 DEF RingOrder, SectionEnd
<1>20. WrappingNoticeLong'
  BY <1>11, <1>15 DEF WrappingNoticeLong
<1>21. SectionsShort'
  BY <1>5, <1>16 DEF SectionsShort
<1>22. QED
  BY <1>19, <1>20, <1>21

(* A notice: positions are rebased to the new done.                        *)
LEMMA OrderUpdate ==
  ASSUME ChainInv, RingOrder, WrappingNoticeLong, SectionsShort, Update
  PROVE  RingOrder' /\ WrappingNoticeLong' /\ SectionsShort'
<1> USE RingAssumption
<1>1. TypeOK /\ SectionsChained /\ NoticesChained
  BY DEF ChainInv
<1>2. /\ credits \in Seq([amount : Nat, upto : 0..right]) /\ credits # <<>>
      /\ credits' = Tail(credits) /\ rDone' = rDone /\ released' = released
      /\ index' = index
  BY <1>1 DEF TypeOK, Update, receiverVars
<1>3. live' = live
  BY SameLive DEF Update, receiverVars
<1>4. PICK k \in Nat : k = Len(credits)
  BY <1>2
<1>5. k >= 1 /\ Len(credits') = k - 1
      /\ \A i \in 1..k-1 : credits'[i] = credits[i + 1]
  BY <1>2, <1>4
<1>6. PICK d \in 0..right : d = credits[1].upto /\ d = done'
  BY <1>1, <1>2, <1>4, <1>5, UpdateMoves
<1>7. \A p : Ahead(p)' = AheadOf(d, p)
  BY <1>6 DEF Ahead, AheadOf, right
<1>8. releasedEnd' = releasedEnd /\ right \in Nat /\ done \in 0..right
      /\ releasedEnd \in 0..right /\ index \in 0..right
  BY <1>1, <1>2, EndTypes DEF releasedEnd
<1>9. \A p \in 0..right : Ahead(p) \in Nat
  BY <1>8 DEF Ahead
<1>10. ASSUME NEW p \in 0..right, NEW q \in 0..right,
              Ahead(d) <= Ahead(p), Ahead(p) <= Ahead(q)
       PROVE  AheadOf(d, p) <= AheadOf(d, q)
  BY <1>8, <1>10, Rebase
<1>11. ASSUME NEW i \in 1..Len(live)
       PROVE  /\ live[i].addr \in 0..right /\ SectionEnd(live[i]) \in 0..right
              /\ Ahead(d) <= Ahead(live[i].addr)
              /\ Ahead(d) <= Ahead(SectionEnd(live[i]))
  <2>1. live[i].addr \in 0..right /\ SectionEnd(live[i]) \in 0..right
    BY <1>1, SectionTypes
  <2>2. Ahead(d) <= Ahead(releasedEnd)
    BY <1>4, <1>5, <1>6, 1 \in 1..Len(credits) DEF RingOrder
  <2>3. /\ Ahead(releasedEnd) <= Ahead(live[i].addr)
        /\ Ahead(live[i].addr) <= Ahead(SectionEnd(live[i]))
    BY DEF RingOrder
  <2>4. /\ Ahead(d) \in Nat /\ Ahead(releasedEnd) \in Nat
        /\ Ahead(live[i].addr) \in Nat /\ Ahead(SectionEnd(live[i])) \in Nat
    BY <1>6, <1>8, <1>9, <2>1
  <2>5. Ahead(d) <= Ahead(live[i].addr) /\ Ahead(d) <= Ahead(SectionEnd(live[i]))
    BY ONLY <2>2, <2>3, <2>4
  <2>6. QED
    BY <2>1, <2>5
<1>12. ASSUME NEW i \in 1..Len(credits')
       PROVE  /\ credits'[i] = credits[i + 1] /\ i + 1 \in 1..Len(credits)
              /\ i \in 1..k-1
              /\ credits'[i].upto \in 0..right
              /\ Ahead(d) <= Ahead(credits'[i].upto)
  <2>1. i \in 1..k-1 /\ i + 1 \in 1..Len(credits) /\ 1 \in 1..Len(credits)
        /\ 1 < i + 1
    BY <1>4, <1>5
  <2>2. credits'[i] = credits[i + 1]
    BY <1>5, <2>1
  <2>3. credits[i + 1].upto \in 0..right
    BY <1>1, <2>1, CreditTypes
  <2>4. Ahead(credits[1].upto) <= Ahead(credits[i + 1].upto)
    BY <2>1 DEF RingOrder
  <2>5. QED
    BY <1>6, <2>1, <2>2, <2>3, <2>4
<1>13. \A i \in 1..Len(credits') :
         AheadOf(d, credits'[i].upto) <= AheadOf(d, releasedEnd)
  <2>1. ASSUME NEW i \in 1..Len(credits')
        PROVE  AheadOf(d, credits'[i].upto) <= AheadOf(d, releasedEnd)
    <3>1. Ahead(credits'[i].upto) <= Ahead(releasedEnd)
      BY <1>12 DEF RingOrder
    <3>2. QED
      BY <1>8, <1>10, <1>12, <3>1
  <2>2. QED
    BY <2>1
<1>14. ASSUME NEW i \in 1..Len(credits'), NEW j \in 1..Len(credits'), i < j
       PROVE  AheadOf(d, credits'[i].upto) <= AheadOf(d, credits'[j].upto)
  <2>1. /\ credits'[i] = credits[i + 1] /\ credits'[j] = credits[j + 1]
        /\ i + 1 \in 1..Len(credits) /\ j + 1 \in 1..Len(credits)
    BY <1>12
  <2>2. i + 1 < j + 1
    BY <1>4, <1>12, <1>14
  <2>3. Ahead(credits'[i].upto) <= Ahead(credits'[j].upto)
    BY <2>1, <2>2 DEF RingOrder
  <2>4. QED
    BY <1>10, <1>12, <2>3
<1>15. AheadOf(d, releasedEnd) <= AheadOf(d, index)
  <2>1. Ahead(d) <= Ahead(releasedEnd)
    BY <1>4, <1>5, <1>6, 1 \in 1..Len(credits) DEF RingOrder
  <2>2. Ahead(releasedEnd) <= Ahead(index)
    BY DEF RingOrder
  <2>3. QED
    BY <1>8, <1>10, <2>1, <2>2
<1>16. ASSUME NEW i \in 1..Len(live)
       PROVE  /\ AheadOf(d, releasedEnd) <= AheadOf(d, live[i].addr)
              /\ AheadOf(d, live[i].addr) <= AheadOf(d, SectionEnd(live[i]))
              /\ AheadOf(d, SectionEnd(live[i])) <= AheadOf(d, index)
  <2>1. /\ Ahead(d) <= Ahead(releasedEnd)
        /\ Ahead(releasedEnd) <= Ahead(live[i].addr)
        /\ Ahead(live[i].addr) <= Ahead(SectionEnd(live[i]))
        /\ Ahead(SectionEnd(live[i])) <= Ahead(index)
    BY <1>4, <1>5, <1>6, 1 \in 1..Len(credits) DEF RingOrder
  <2>2. QED
    BY <1>8, <1>10, <1>11, <2>1
<1>17. ASSUME NEW i \in 1..Len(live), NEW j \in 1..Len(live), i < j
       PROVE  AheadOf(d, SectionEnd(live[i])) <= AheadOf(d, live[j].addr)
  <2>1. Ahead(SectionEnd(live[i])) <= Ahead(live[j].addr)
    BY <1>17 DEF RingOrder
  <2>2. QED
    BY <1>10, <1>11, <2>1
<1>18. RingOrder'
  BY <1>2, <1>3, <1>7, <1>8, <1>13, <1>14, <1>15, <1>16, <1>17
     DEF RingOrder, SectionEnd
<1>19. WrappingNoticeLong'
  <2>1. ASSUME NEW i \in 1..Len(credits')
        PROVE  credits'[i].upto < NoticeStart(i)' => credits'[i].upto >= NotifyMin
    <3>1. credits[i + 1].upto < NoticeStart(i + 1) => credits[i + 1].upto >= NotifyMin
      BY <1>12 DEF WrappingNoticeLong
    <3>2. NoticeStart(i)' = credits[i].upto
      <4>1. i # 1 => i - 1 \in 1..k-1 /\ (i - 1) + 1 = i
        BY <1>4, <1>12
      <4>2. i # 1 => credits'[i - 1] = credits[i]
        BY <1>5, <4>1
      <4>3. QED
        BY <1>6, <4>2 DEF NoticeStart
    <3>3. NoticeStart(i + 1) = credits[i].upto
      BY <1>12 DEF NoticeStart
    <3>4. QED
      BY <1>12, <3>1, <3>2, <3>3
  <2>2. QED
    BY <1>2, <2>1 DEF WrappingNoticeLong
<1>20. SectionsShort'
  BY <1>3 DEF SectionsShort
<1>21. QED
  BY <1>18, <1>19, <1>20

LEMMA RingInit == ShortMessages /\ Init => RingInv
<1> SUFFICES ASSUME ShortMessages, Init PROVE RingInv
  OBVIOUS
<1> USE RingAssumption
<1>1. live = <<>> /\ credits = <<>>
  BY DEF Init, live, unread
<1>2. RingOrder
  BY <1>1 DEF Init, RingOrder, releasedEnd, Ahead, left
<1>3. WrappingNoticeLong
  BY <1>1 DEF Init, WrappingNoticeLong
<1>4. SpaceKept /\ SectionsShort
  BY <1>1 DEF Init, SpaceKept, SectionsShort
<1>5. QED
  BY <1>2, <1>3, <1>4, ChainInit DEF RingInv

(* RingInv is inductive while messages are short: one step per action.     *)
LEMMA RingNext == ShortMessages /\ RingInv /\ [Next]_vars => RingInv'
<1> SUFFICES ASSUME ShortMessages, RingInv, [Next]_vars PROVE RingInv'
  OBVIOUS
<1> USE RingAssumption
<1>1. /\ TypeOK /\ SectionsChained /\ BranchKept /\ NoticesChained
      /\ ChainInv /\ RingOrder /\ WrappingNoticeLong /\ SpaceKept
      /\ SectionsShort
  BY DEF RingInv, ChainInv
<1>2. ChainInv'
  BY <1>1, ChainNext
<1>3. index \in 0..right /\ done \in 0..right /\ want \in Nat /\ right \in Nat
  BY <1>1 DEF TypeOK, right
<1>4. want < NotifyMin /\ 2 * NotifyMin <= Cap
  BY <1>1 DEF TypeOK, ShortMessages
<1>5. ASSUME RingOrder' /\ WrappingNoticeLong' /\ SectionsShort', SpaceKept'
      PROVE  RingInv'
  BY <1>2, <1>5 DEF RingInv
<1>6. ASSUME NEW p, Goto(p), p = "wrapOrder" => want < done
      PROVE  RingInv'
  <2>1. /\ pc' = p
        /\ UNCHANGED <<index, done, want, wire, inbox, app, slice, rIndex,
                       rDone, released, credits>>
    BY <1>6 DEF Goto, receiverVars
  <2>2. RingOrder' /\ WrappingNoticeLong' /\ SectionsShort'
    BY <1>1, <2>1, SameLive, SameOrder
  <2>3. SpaceKept'
    BY <1>6, <2>1 DEF SpaceKept
  <2>4. QED
    BY <1>5, <2>2, <2>3
<1>7. ASSUME NEW a \in Nat, Grant(a), a + want <= right,
             Ahead(index) <= Ahead(a), Ahead(a) <= Ahead(a + want)
      PROVE  RingInv'
  <2>1. RingOrder' /\ WrappingNoticeLong' /\ SectionsShort'
    BY <1>1, <1>4, <1>7, OrderGrant
  <2>2. SpaceKept'
    BY <1>7 DEF Grant, SpaceKept
  <2>3. QED
    BY <1>5, <2>1, <2>2
<1>8. ASSUME NEW l \in Lens, AllocBegin(l)
      PROVE  RingInv'
  <2>1. UNCHANGED <<index, done, wire, inbox, app, slice, rIndex, rDone,
                    released, credits>>
        /\ pc' # "wrapOrder"
    BY <1>8 DEF AllocBegin, receiverVars
  <2>2. RingOrder' /\ WrappingNoticeLong' /\ SectionsShort'
    BY <1>1, <2>1, SameLive, SameOrder
  <2>3. SpaceKept'
    BY <2>1 DEF SpaceKept
  <2>4. QED
    BY <1>5, <2>2, <2>3
<1>9. CASE WrapSpaceLoad
  <2>1. want < done /\ Goto("wrapOrder")
    BY <1>3, <1>9 DEF WrapSpaceLoad, left
  <2>2. QED
    BY <1>6, <2>1
<1>10. CASE WrapOrderLoad
  <2>1. CASE Goto("wrapSpace")
    BY <1>6, <2>1
  <2>2. CASE done <= index /\ Grant(left)
    <3>1. want < done /\ want <= right
      BY <1>1, <1>10 DEF SpaceKept, BranchKept, WrapOrderLoad
    <3>2. left \in Nat /\ left + want <= right
      BY <1>3, <3>1 DEF left
    <3>3. Ahead(index) <= Ahead(left) /\ Ahead(left) <= Ahead(left + want)
      BY <1>3, <2>2, <3>1 DEF Ahead, left
    <3>4. QED
      BY <1>7, <2>2, <3>2, <3>3
  <2>3. QED
    BY <1>10, <2>1, <2>2 DEF WrapOrderLoad
<1>11. ASSUME Grant(index), index + want <= right,
              index + want < done \/ done <= index
       PROVE  RingInv'
  <2>1. Ahead(index) <= Ahead(index + want) /\ Ahead(index) <= Ahead(index)
    BY <1>3, <1>11 DEF Ahead
  <2>2. QED
    BY <1>3, <1>7, <1>11, <2>1
<1>12. CASE FitSpaceLoad
  <2>1. index + want <= right
    BY <1>1, <1>12 DEF FitSpaceLoad, BranchKept
  <2>2. CASE Goto("fitOrder")
    BY <1>6, <2>2
  <2>3. CASE index + want < done /\ Grant(index)
    BY <1>11, <2>1, <2>3
  <2>4. QED
    BY <1>12, <2>2, <2>3 DEF FitSpaceLoad
<1>13. CASE FitOrderLoad
  <2>1. index + want <= right
    BY <1>1, <1>13 DEF FitOrderLoad, BranchKept
  <2>2. CASE Goto("fitSpace")
    BY <1>6, <2>2
  <2>3. CASE done <= index /\ Grant(index)
    BY <1>11, <2>1, <2>3
  <2>4. QED
    BY <1>13, <2>2, <2>3 DEF FitOrderLoad
<1>14. CASE Deliver
  <2>1. UNCHANGED <<index, done, pc, want, rDone, released, credits>>
    BY <1>14 DEF Deliver, senderVars, receiverVars
  <2>2. live' = live
    BY <1>1, <1>14, LiveDeliver
  <2>3. RingOrder' /\ WrappingNoticeLong' /\ SectionsShort'
    BY <1>1, <2>1, <2>2, SameOrder
  <2>4. QED
    BY <1>1, <1>5, <2>1, <2>3 DEF SpaceKept
<1>15. CASE RecvMsg
  <2>1. UNCHANGED <<index, done, pc, want, rDone, released, credits>>
    BY <1>15 DEF RecvMsg, senderVars
  <2>2. live' = live
    BY <1>1, <1>15, LiveRecvMsg
  <2>3. RingOrder' /\ WrappingNoticeLong' /\ SectionsShort'
    BY <1>1, <2>1, <2>2, SameOrder
  <2>4. QED
    BY <1>1, <1>5, <2>1, <2>3 DEF SpaceKept
<1>16. CASE Release
  <2>1. RingOrder' /\ WrappingNoticeLong' /\ SectionsShort'
    BY <1>1, <1>4, <1>16, OrderRelease
  <2>2. UNCHANGED <<done, pc, want>>
    BY <1>16 DEF Release, senderVars
  <2>3. QED
    BY <1>1, <1>5, <2>1, <2>2 DEF SpaceKept
<1>17. CASE Update
  <2>1. RingOrder' /\ WrappingNoticeLong' /\ SectionsShort'
    BY <1>1, <1>17, OrderUpdate
  <2>2. pc' = pc /\ want' = want /\ 1 \in 1..Len(credits)
        /\ credits[1].upto = Head(credits).upto
    BY <1>1, <1>17 DEF Update, TypeOK
  <2>3. done' = credits[1].upto /\ done' \in 0..right
    BY <1>1, <1>17, <2>2, UpdateMoves
  <2>4. done' < done => done' >= NotifyMin
    BY <1>1, <2>2, <2>3 DEF WrappingNoticeLong, NoticeStart
  <2>5. want < done => want < done'
    BY <1>3, <1>4, <2>3, <2>4
  <2>6. SpaceKept'
    BY <1>1, <2>2, <2>5 DEF SpaceKept
  <2>7. QED
    BY <1>5, <2>1, <2>6
<1>18. CASE UNCHANGED vars
  <2>1. UNCHANGED <<index, done, pc, want, wire, inbox, app, slice, rDone,
                    released, credits>>
    BY <1>18 DEF vars
  <2>2. RingOrder' /\ WrappingNoticeLong' /\ SectionsShort'
    BY <1>1, <2>1, SameLive, SameOrder
  <2>3. QED
    BY <1>1, <1>5, <2>1, <2>2 DEF SpaceKept
<1>19. CASE CancelAlloc
  <2>1. UNCHANGED <<index, done, wire, inbox, app, slice, rIndex, rDone,
                    released, credits>>
        /\ pc' # "wrapOrder"
    BY <1>19 DEF CancelAlloc, receiverVars
  <2>2. RingOrder' /\ WrappingNoticeLong' /\ SectionsShort'
    BY <1>1, <2>1, SameLive, SameOrder
  <2>3. SpaceKept'
    BY <2>1 DEF SpaceKept
  <2>4. QED
    BY <1>5, <2>2, <2>3
<1>20. QED
  BY <1>8, <1>9, <1>10, <1>12, <1>13, <1>14, <1>15, <1>16, <1>17, <1>18, <1>19
     DEF Next, AllocStep

(* While messages are short, every state keeps the order around the ring:  *)
(* the notices under way, what is released, the sections in use and index  *)
(* follow one another ahead of done (mr.rs: alloc, update, read,           *)
(* notify_release).                                                        *)
THEOREM RingOrdered == ShortMessages => (Spec => []RingInv)
<1> SUFFICES ASSUME ShortMessages PROVE Spec => []RingInv
  OBVIOUS
<1>1. Init => RingInv
  BY RingInit
<1>2. RingInv /\ [Next]_vars => RingInv'
  BY RingNext
<1>3. QED
  BY <1>1, <1>2, PTL DEF Spec

(* While every message is shorter than MIN_LENGTH_TO_NOTIFY_RELEASE, no    *)
(* write lands on data the receiver has not released, although alloc loads *)
(* done twice without a lock (mr.rs:161-162): a notice that makes done     *)
(* wrap around then never brings it below what alloc found sufficient.     *)
THEOREM NoOverwriteShort == ShortMessages => (Spec => []NoOverwrite)
<1> SUFFICES ASSUME ShortMessages PROVE Spec => []NoOverwrite
  OBVIOUS
<1>1. Spec => []RingInv
  BY RingOrdered
<1>2. RingInv => NoOverwrite
  BY RingNoOverwrite
<1>3. QED
  BY <1>1, <1>2, PTL

(* When nothing is in use and no notice is under way, done and index are   *)
(* apart by less than one batch, around the ring.                          *)
LEMMA NothingOut ==
  ASSUME RingInv, live = <<>>, credits = <<>>
  PROVE  /\ released \in Nat /\ released < NotifyMin
         /\ \/ index = done + released
            \/ index = released /\ done + released > right
<1>1. /\ index = releasedEnd
      /\ releasedEnd = rDone + released
  <2>1. index = StartOf(Len(live) + 1)
    BY DEF RingInv, ChainInv, SectionsChained
  <2>2. Len(live) + 1 = 1
    OBVIOUS
  <2>3. QED
    BY <2>1, <2>2 DEF StartOf, releasedEnd
<1>2. noticedEnd = done
  BY DEF noticedEnd, NoticeStart
<1>3. released \in Nat /\ rDone \in Nat /\ done \in Nat /\ released < NotifyMin
  BY DEF RingInv, ChainInv, TypeOK, WrappingNoticeLong
<1>4. \/ rDone = done
      \/ rDone = 0 /\ done + released > right
  BY <1>2 DEF RingInv, ChainInv, NoticesChained, left
<1>5. QED
  BY <1>1, <1>3, <1>4

(* alloc "waits for remote to release the space" (mr.rs:160, 169): while   *)
(* messages are short it never sleeps on space that has all been given     *)
(* back, although the receiver keeps up to a batch of it to itself.        *)
THEOREM WaitsForRemote ==
  ShortMessages /\ RoomForThree => (Spec => []WaitsOnlyForReleases)
<1> SUFFICES ASSUME ShortMessages, RoomForThree
             PROVE  Spec => []WaitsOnlyForReleases
  OBVIOUS
<1>1. Spec => []RingInv
  BY RingOrdered
<1>2. ASSUME RingInv, live = <<>>, credits = <<>> PROVE ~LacksSpace
  <2>1. /\ released \in Nat /\ released < NotifyMin
        /\ \/ index = done + released
           \/ index = released /\ done + released > right
    BY <1>2, NothingOut
  <2>2. want \in Nat /\ want < NotifyMin
    BY <1>2, RingAssumption DEF RingInv, ChainInv, TypeOK, ShortMessages
  <2>3. /\ done \in Nat /\ Cap \in Nat /\ NotifyMin \in Nat
        /\ 3 * (NotifyMin - 1) <= Cap
    BY <1>2, RingAssumption DEF RingInv, ChainInv, TypeOK, RoomForThree, right
  <2>4. /\ pc \in {"wrapSpace", "wrapOrder"} => index + want > right
        /\ pc \in {"fitSpace", "fitOrder"} => index + want <= right
    BY <1>2 DEF RingInv, ChainInv, BranchKept
  <2>5. CASE pc \in {"wrapSpace", "wrapOrder"}
    BY <2>1, <2>2, <2>3, <2>4, <2>5 DEF LacksSpace, left, right
  <2>6. CASE pc \in {"fitSpace", "fitOrder"}
    BY <2>1, <2>2, <2>3, <2>4, <2>6 DEF LacksSpace, left, right
  <2>7. QED
    BY <2>5, <2>6 DEF LacksSpace
<1>3. RingInv => WaitsOnlyForReleases
  BY <1>2 DEF WaitsOnlyForReleases
<1>4. QED
  BY <1>1, <1>3, PTL

-----------------------------------------------------------------------------
(* Refinement.  The task in alloc asks for the length of a message.        *)
WantAsked == pc # "idle" => want \in Lens

LEMMA WantInit == Init => WantAsked
BY DEF Init, WantAsked

LEMMA WantNext == WantAsked /\ [Next]_vars => WantAsked'
<1> SUFFICES ASSUME WantAsked, [Next]_vars PROVE WantAsked'
  OBVIOUS
<1>1. ASSUME NEW l \in Lens, AllocBegin(l)
      PROVE  WantAsked'
  BY <1>1 DEF AllocBegin, WantAsked
<1>2. ASSUME NEW p, Goto(p), pc # "idle"
      PROVE  WantAsked'
  BY <1>2 DEF Goto, WantAsked
<1>3. ASSUME NEW a, Grant(a)
      PROVE  WantAsked'
  BY <1>3 DEF Grant, WantAsked
<1>4. CASE AllocStep
  BY <1>2, <1>3, <1>4 DEF AllocStep, WrapSpaceLoad, WrapOrderLoad,
     FitSpaceLoad, FitOrderLoad
<1>5. CASE UNCHANGED <<pc, want>>
  BY <1>5 DEF WantAsked
<1>6. CASE CancelAlloc
  BY <1>6 DEF CancelAlloc, WantAsked
<1>7. QED
  BY <1>1, <1>4, <1>5, <1>6 DEF Next, Deliver, RecvMsg, Release, Update, senderVars, vars

(* The notices as the ring with the single test has them.                  *)
Amounts(q) == [i \in DOMAIN q |-> q[i].amount]
Notice     == [amount : Nat, upto : 0..right]

LEMMA AmountsEmpty == Amounts(<<>>) = <<>>
<1>1. Amounts(<<>>) \in Seq(Nat) /\ Len(Amounts(<<>>)) = 0
  BY DEF Amounts
<1>2. QED
  BY <1>1

LEMMA AmountsAppend ==
  ASSUME NEW q \in Seq(Notice), NEW c \in Notice
  PROVE  Amounts(Append(q, c)) = Append(Amounts(q), c.amount)
<1>1. PICK n \in Nat : n = Len(q) /\ DOMAIN q = 1..n
  OBVIOUS
<1>2. \A i \in 1..n : q[i] \in Notice
  BY <1>1, ElementOfSeq
<1>3. \A i \in 1..n : q[i].amount \in Nat
  BY <1>2 DEF Notice
<1>4. Amounts(q) \in Seq(Nat) /\ Len(Amounts(q)) = n
      /\ \A i \in 1..n : Amounts(q)[i] = q[i].amount
  BY <1>1, <1>3 DEF Amounts
<1>5. Append(q, c) \in Seq(Notice) /\ DOMAIN Append(q, c) = 1..n+1
      /\ Append(q, c)[n + 1] = c /\ \A i \in 1..n : Append(q, c)[i] = q[i]
  BY <1>1
<1>6. \A i \in 1..n+1 : Append(q, c)[i].amount \in Nat
  <2>1. c.amount \in Nat
    BY DEF Notice
  <2>2. ASSUME NEW i \in 1..n+1 PROVE Append(q, c)[i].amount \in Nat
    BY <1>1, <1>3, <1>5, <2>1, i \in 1..n \/ i = n + 1
  <2>3. QED
    BY <2>2
<1>7. Amounts(Append(q, c)) \in Seq(Nat) /\ Len(Amounts(Append(q, c))) = n + 1
      /\ \A i \in 1..n+1 : Amounts(Append(q, c))[i] = Append(q, c)[i].amount
  BY <1>1, <1>5, <1>6 DEF Amounts
<1>8. c.amount \in Nat
  BY DEF Notice
<1>9. Append(Amounts(q), c.amount) \in Seq(Nat)
      /\ Len(Append(Amounts(q), c.amount)) = n + 1
      /\ Append(Amounts(q), c.amount)[n + 1] = c.amount
      /\ \A i \in 1..n : Append(Amounts(q), c.amount)[i] = q[i].amount
  BY <1>4, <1>8
<1>10. \A i \in 1..n+1 :
         Amounts(Append(q, c))[i] = Append(Amounts(q), c.amount)[i]
  <2>1. ASSUME NEW i \in 1..n+1
        PROVE  Amounts(Append(q, c))[i] = Append(Amounts(q), c.amount)[i]
    <3>1. Amounts(Append(q, c))[i] = Append(q, c)[i].amount
      BY <1>7
    <3>2. CASE i \in 1..n
      BY <1>5, <1>9, <3>1, <3>2
    <3>3. CASE i = n + 1
      <4>1. Append(q, c)[i] = c /\ Append(Amounts(q), c.amount)[i] = c.amount
        BY ONLY <1>5, <1>9, <3>3
      <4>2. QED
        BY ONLY <3>1, <4>1
    <3>4. i \in 1..n \/ i = n + 1
      BY <1>1
    <3>5. QED
      BY <3>2, <3>3, <3>4
  <2>2. QED
    BY <2>1
<1>11. QED
  BY <1>7, <1>9, <1>10, SeqEqual

LEMMA AmountsTail ==
  ASSUME NEW q \in Seq(Notice), q # <<>>
  PROVE  /\ Amounts(q) # <<>>
         /\ Head(Amounts(q)) = Head(q).amount
         /\ Head(q).amount \in Nat
         /\ Amounts(Tail(q)) = Tail(Amounts(q))
<1>1. PICK n \in Nat : n = Len(q) /\ DOMAIN q = 1..n /\ n >= 1
  OBVIOUS
<1>2. \A i \in 1..n : q[i] \in Notice
  BY <1>1, ElementOfSeq
<1>3. \A i \in 1..n : q[i].amount \in Nat
  BY <1>2 DEF Notice
<1>4. Amounts(q) \in Seq(Nat) /\ Len(Amounts(q)) = n
      /\ \A i \in 1..n : Amounts(q)[i] = q[i].amount
  BY <1>1, <1>3 DEF Amounts
<1>5. Amounts(q) # <<>> /\ Head(Amounts(q)) = Amounts(q)[1] /\ Head(q) = q[1]
  BY <1>1, <1>4
<1>6. DOMAIN Tail(q) = 1..n-1 /\ Len(Tail(q)) = n - 1
      /\ \A i \in 1..n-1 : Tail(q)[i] = q[i + 1]
  BY <1>1
<1>7. \A i \in 1..n-1 : Tail(q)[i].amount = q[i + 1].amount /\ i + 1 \in 1..n
  BY <1>1, <1>6
<1>8. Amounts(Tail(q)) \in Seq(Nat) /\ Len(Amounts(Tail(q))) = n - 1
      /\ \A i \in 1..n-1 : Amounts(Tail(q))[i] = q[i + 1].amount
  <2>1. \A i \in 1..n-1 : Tail(q)[i].amount \in Nat
    BY <1>3, <1>7
  <2>2. n - 1 \in Nat
    BY <1>1
  <2>3. Amounts(Tail(q)) \in Seq(Nat) /\ Len(Amounts(Tail(q))) = n - 1
    BY <1>6, <2>1, <2>2 DEF Amounts
  <2>4. QED
    BY <1>6, <1>7, <2>3 DEF Amounts
<1>9. Tail(Amounts(q)) \in Seq(Nat) /\ Len(Tail(Amounts(q))) = n - 1
      /\ \A i \in 1..n-1 : Tail(Amounts(q))[i] = q[i + 1].amount
  <2>1. Tail(Amounts(q)) \in Seq(Nat) /\ Len(Tail(Amounts(q))) = n - 1
        /\ \A i \in 1..n-1 : Tail(Amounts(q))[i] = Amounts(q)[i + 1]
    BY <1>1, <1>4
  <2>2. QED
    BY <1>1, <1>4, <2>1, <1>7
<1>10. Amounts(Tail(q)) = Tail(Amounts(q))
  BY <1>8, <1>9, SeqEqual
<1>11. QED
  BY <1>1, <1>3, <1>4, <1>5, <1>10

(* A step that leaves the variables of the other ring alone.               *)
LEMMA AtomicStutter ==
  ASSUME UNCHANGED <<index, done, wire, inbox, receiverVars, credits>>
  PROVE  UNCHANGED Atomic!vars
BY DEF receiverVars, Atomic!vars, Atomic!receiverVars

(* Whatever alloc has found out with its two loads, at the second one of   *)
(* them a single test would find space too.                                *)
LEMMA AtomicAlloc ==
  ASSUME TypeOK, want \in Lens, Grant(Place(index, want)),
         IF index + want > right THEN want < done /\ done <= index
         ELSE index + want < done \/ done <= index
  PROVE  Atomic!Next
<1>1. Atomic!HasSpace(want)
  BY DEF Atomic!HasSpace, right
<1>2. Place(index, want) = Atomic!Place(index, want)
  BY DEF Place, Atomic!Place, right, left
<1>3. Atomic!Alloc(want)
  BY <1>1, <1>2 DEF Grant, receiverVars, Atomic!Alloc, Atomic!receiverVars
<1>4. QED
  BY <1>3 DEF Atomic!Next

LEMMA AtomicRelease ==
  ASSUME ChainInv, Release
  PROVE  Atomic!Next
<1> USE RingAssumption
<1>1. PICK l : l = slice.len
  OBVIOUS
<1>2. /\ credits \in Seq(Notice) /\ rDone \in Nat /\ released \in Nat
      /\ right \in Nat /\ rDone + released <= right /\ l \in Nat
      /\ NotifyMin \in Nat /\ right = Cap
  BY <1>1 DEF ChainInv, SectionsChained, releasedEnd, TypeOK, Section, Notice, right
<1>3. /\ app = "reading" /\ app' = "free"
      /\ slice' = [addr |-> 0, len |-> 0]
      /\ UNCHANGED <<index, done, wire, inbox, rIndex>>
  BY DEF Release, senderVars, NoSlice, left
<1>4. ASSUME NEW n \in Nat, NEW e \in 0..right,
             credits' = Append(credits, [amount |-> n, upto |-> e])
      PROVE  Amounts(credits') = Append(Amounts(credits), n)
  <2>1. [amount |-> n, upto |-> e] \in Notice
    BY DEF Notice
  <2>2. QED
    BY <1>2, <1>4, <2>1, AmountsAppend
<1>5. ASSUME \/ /\ rDone + released + l > Cap
                /\ Amounts(credits') = Append(Amounts(credits), released)
                /\ rDone' = 0 /\ released' = l
             \/ /\ rDone + released + l <= Cap /\ released + l >= NotifyMin
                /\ Amounts(credits') = Append(Amounts(credits), released + l)
                /\ rDone' = rDone + released + l /\ released' = 0
             \/ /\ rDone + released + l <= Cap /\ released + l < NotifyMin
                /\ released' = released + l
                /\ rDone' = rDone /\ Amounts(credits') = Amounts(credits)
      PROVE  Atomic!Next
  <2>1. Atomic!Release
    BY <1>1, <1>3, <1>5 DEF Atomic!Release, Atomic!Notify, Amounts
  <2>2. QED
    BY <2>1 DEF Atomic!Next
<1>6. CASE ReleaseWrapped(l)
  <2>1. /\ rDone + released + l > right
        /\ credits' = Append(credits, [amount |-> released, upto |-> rDone + released])
        /\ rDone' = 0 /\ released' = l
    BY <1>6 DEF ReleaseWrapped, Notify, left
  <2>2. rDone + released \in 0..right
    BY <1>2
  <2>3. Amounts(credits') = Append(Amounts(credits), released)
    BY <1>2, <1>4, <2>1, <2>2
  <2>4. QED
    BY <1>2, <1>5, <2>1, <2>3
<1>7. CASE ReleaseNotified(l)
  <2>1. /\ rDone + released + l <= right /\ released + l >= NotifyMin
        /\ credits' = Append(credits, [amount |-> released + l,
                                       upto |-> rDone + released + l])
        /\ rDone' = rDone + (released + l) /\ released' = 0
    BY <1>7 DEF ReleaseNotified, Notify
  <2>2. rDone + released + l \in 0..right /\ released + l \in Nat
        /\ rDone' = rDone + released + l
    BY <1>2, <2>1
  <2>3. Amounts(credits') = Append(Amounts(credits), released + l)
    BY <1>4, <2>1, <2>2
  <2>4. QED
    BY <1>2, <1>5, <2>1, <2>2, <2>3
<1>8. CASE ReleaseGathered(l)
  <2>1. /\ rDone + released + l <= right /\ released + l < NotifyMin
        /\ released' = released + l /\ rDone' = rDone /\ credits' = credits
    BY <1>8 DEF ReleaseGathered
  <2>2. QED
    BY <1>2, <1>5, <2>1
<1>9. QED
  BY <1>1, <1>6, <1>7, <1>8 DEF Release

LEMMA AtomicUpdate ==
  ASSUME TypeOK, Update
  PROVE  Atomic!Next
<1>1. PICK n : n = Head(credits).amount
  OBVIOUS
<1>2. credits \in Seq(Notice) /\ credits # <<>> /\ credits' = Tail(credits)
  BY DEF TypeOK, Notice, Update
<1>3. /\ Amounts(credits) # <<>> /\ Head(Amounts(credits)) = n /\ n \in Nat
      /\ Amounts(credits') = Tail(Amounts(credits))
  BY <1>1, <1>2, AmountsTail
<1>4. done \in Nat /\ done <= Cap /\ Cap \in Nat
  BY RingAssumption DEF TypeOK, right
<1>5. done' = IF done + n > Cap THEN n ELSE done + n
  BY <1>1, <1>3, <1>4 DEF Update, Advance, left, right
<1>6. done' = Atomic!Place(done, n) + n
  BY <1>3, <1>4, <1>5 DEF Atomic!Place
<1>7. UNCHANGED <<index, wire, inbox, app, slice, rIndex, rDone, released>>
  BY DEF Update, receiverVars
<1>8. Atomic!Update
  BY <1>3, <1>6, <1>7 DEF Atomic!Update, Atomic!receiverVars, Amounts
<1>9. QED
  BY <1>8 DEF Atomic!Next

LEMMA AtomicInit == Init => Atomic!Init
<1> SUFFICES ASSUME Init PROVE Atomic!Init
  OBVIOUS
<1>1. Amounts(credits) = <<>>
  BY AmountsEmpty DEF Init
<1>2. QED
  BY <1>1 DEF Init, Atomic!Init, Amounts, NoSlice, left

(* A step of RemoteRing is one of AtomicRing or leaves it alone.           *)
LEMMA AtomicNext ==
  RingInv /\ WantAsked /\ [Next]_vars => [Atomic!Next]_(Atomic!vars)
<1> SUFFICES ASSUME RingInv, WantAsked, [Next]_vars
             PROVE  Atomic!Next \/ UNCHANGED Atomic!vars
  OBVIOUS
<1> USE RingAssumption
<1>1. ChainInv /\ TypeOK /\ BranchKept /\ SpaceKept
  BY DEF RingInv, ChainInv
<1>2. index \in Nat /\ done \in Nat /\ right \in Nat /\ want \in Nat
  BY <1>1 DEF TypeOK, right
<1>3. ASSUME NEW l \in Lens, AllocBegin(l)
      PROVE  UNCHANGED Atomic!vars
  BY <1>3, AtomicStutter DEF AllocBegin
<1>4. ASSUME NEW p, Goto(p)
      PROVE  UNCHANGED Atomic!vars
  BY <1>4, AtomicStutter DEF Goto
<1>5. ASSUME pc \in {"fitSpace", "fitOrder"}, Grant(index),
             index + want < done \/ done <= index
      PROVE  Atomic!Next
  <2>1. want \in Lens /\ index + want <= right
    BY <1>1, <1>5 DEF WantAsked, BranchKept
  <2>2. ~(index + want > right) /\ Place(index, want) = index
    BY <1>2, <2>1 DEF Place
  <2>3. QED
    BY <1>1, <1>5, <2>1, <2>2, AtomicAlloc
<1>6. CASE WrapSpaceLoad
  BY <1>4, <1>6 DEF WrapSpaceLoad
<1>7. CASE WrapOrderLoad
  <2>1. CASE Goto("wrapSpace")
    BY <1>4, <2>1
  <2>2. CASE done <= index /\ Grant(left)
    <3>1. want \in Lens /\ index + want > right /\ want < done
      BY <1>1, <1>7 DEF WrapOrderLoad, WantAsked, BranchKept, SpaceKept
    <3>2. Place(index, want) = left
      BY <3>1 DEF Place
    <3>3. QED
      BY <1>1, <2>2, <3>1, <3>2, AtomicAlloc
  <2>3. QED
    BY <1>7, <2>1, <2>2 DEF WrapOrderLoad
<1>8. CASE FitSpaceLoad
  BY <1>4, <1>5, <1>8 DEF FitSpaceLoad
<1>9. CASE FitOrderLoad
  BY <1>4, <1>5, <1>9 DEF FitOrderLoad
<1>10. CASE Deliver
  <2>1. Atomic!Deliver
    BY <1>10 DEF Deliver, senderVars, receiverVars, Atomic!Deliver,
       Atomic!receiverVars
  <2>2. QED
    BY <2>1 DEF Atomic!Next
<1>11. CASE RecvMsg
  <2>1. Atomic!RecvMsg
    BY <1>11 DEF RecvMsg, ReadAt, senderVars, Atomic!RecvMsg, Atomic!Place,
       left, right
  <2>2. QED
    BY <2>1 DEF Atomic!Next
<1>12. CASE Release
  BY <1>1, <1>12, AtomicRelease
<1>13. CASE Update
  BY <1>1, <1>13, AtomicUpdate
<1>14. CASE UNCHANGED vars
  BY <1>14, AtomicStutter DEF vars, receiverVars
<1>15. CASE CancelAlloc
  BY <1>15, AtomicStutter DEF CancelAlloc
<1>16. QED
  BY <1>3, <1>6, <1>7, <1>8, <1>9, <1>10, <1>11, <1>12, <1>13, <1>14, <1>15
     DEF Next, AllocStep

(* While every message is shorter than MIN_LENGTH_TO_NOTIFY_RELEASE, the   *)
(* two loads of done in the wait conditions of alloc (mr.rs:161-162,       *)
(* 170-171) cannot be told from one test: the ring implements the ring in  *)
(* which alloc tests index and done at once.                               *)
THEOREM AllocAtomic == ShortMessages => (Spec => ImplementsAtomicRing)
<1>1. SUFFICES ASSUME ShortMessages PROVE Spec => ImplementsAtomicRing
  OBVIOUS
<1>2. Init => RingInv /\ WantAsked
  BY <1>1, RingInit, WantInit
<1>3. RingInv /\ WantAsked /\ [Next]_vars => RingInv' /\ WantAsked'
  BY <1>1, RingNext, WantNext
<1>4. Init => Atomic!Init
  BY AtomicInit
<1>5. RingInv /\ WantAsked /\ [Next]_vars => [Atomic!Next]_(Atomic!vars)
  BY AtomicNext
<1>6. QED
  BY <1>2, <1>3, <1>4, <1>5, PTL DEF Spec, ImplementsAtomicRing, Atomic!Spec

=============================================================================
