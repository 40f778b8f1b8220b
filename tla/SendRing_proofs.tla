---------------------------- MODULE SendRing_proofs ----------------------------
(***************************************************************************)
(* Proofs about SendRing, for every size of the buffer and the channel,    *)
(* every set of lengths and every kind of fault.                           *)
(***************************************************************************)
EXTENDS SendRing, SequenceTheorems, SetInduction, TLAPS

LEMMA EntriesType == TypeOK => entries \in Seq(Entry) /\ DOMAIN entries = 1..Len(entries)
BY DEF TypeOK, entries

(* A typed section, field by field.                                        *)
LEMMA EntryParts ==
  ASSUME NEW e \in Entry
  PROVE  /\ e.flag \in Flags /\ e.addr \in Nat
         /\ e.len \in Lens \union {0} /\ e.len \in Nat
<1>1. e.flag \in Flags /\ e.addr \in Nat /\ e.len \in Lens \union {0}
  BY DEF Entry
<1>2. \A l \in Lens \union {0} : l \in Nat
  BY SendRingAssumption
<1>3. QED
  BY <1>1, <1>2

(* A sequence that is a slot.                                              *)
LEMMA Slot ==
  ASSUME NEW S, NEW s \in Seq(S)
  PROVE  /\ s # <<>> /\ Len(s) <= 1 => Len(s) = 1
         /\ Len(s) = 1 => s[1] \in S /\ s = <<s[1]>>
         /\ Len(s) = 0 => s = <<>>
<1>1. ASSUME s # <<>>, Len(s) <= 1 PROVE Len(s) = 1
  <2>1. Len(s) \in Nat \ {0}
    BY <1>1, EmptySeq
  <2>2. QED
    BY <1>1, <2>1
<1>2. ASSUME Len(s) = 1 PROVE s[1] \in S /\ s = <<s[1]>>
  <2>1. s[1] \in S
    BY <1>2
  <2>2. <<s[1]>> \in Seq(S) /\ Len(<<s[1]>>) = 1 /\ <<s[1]>>[1] = s[1]
    BY <2>1
  <2>3. \A i \in 1..Len(s) : s[i] = <<s[1]>>[i]
    BY <1>2, <2>2
  <2>4. QED
    BY <1>2, <2>1, <2>2, <2>3, SeqEqual
<1>3. QED
  BY <1>1, <1>2

-----------------------------------------------------------------------------
(* What each kind of step does to the sections the release task has and    *)
(* will be sent.                                                           *)
LEMMA EntriesGrant ==
  ASSUME TypeOK, pc # "push", NEW e \in Entry, fresh' = <<e>>,
         UNCHANGED <<toRelease, popped>>
  PROVE  /\ entries' \in Seq(Entry) /\ DOMAIN entries' = 1..Len(entries')
         /\ Len(entries') = Len(entries) + 1
         /\ \A i \in 1..Len(entries) : entries'[i] = entries[i]
         /\ entries'[Len(entries) + 1] = e
<1> DEFINE q == popped \o toRelease
<1>1. q \in Seq(Entry) /\ <<e>> \in Seq(Entry)
  BY DEF TypeOK
<1>2. fresh = <<>>
  BY DEF TypeOK
<1>3. entries = q \o <<>> /\ entries' = (popped' \o toRelease') \o <<e>>
  BY <1>2 DEF entries
<1>4. entries = q \o <<>> /\ entries' = q \o <<e>>
  BY <1>3
<1> HIDE DEF q
<1>5. Len(entries) = Len(q) /\ \A i \in 1..Len(q) : entries[i] = q[i]
  BY <1>1, <1>4
<1>6. QED
  BY <1>1, <1>4, <1>5

LEMMA EntriesPush ==
  ASSUME TypeOK, Push
  PROVE  /\ entries' = entries
         /\ toRelease' \in Seq(Entry) /\ fresh[1] \in Entry /\ fresh = <<fresh[1]>>
<1>1. /\ popped \in Seq(Entry) /\ toRelease \in Seq(Entry)
      /\ fresh \in Seq(Entry) /\ Len(fresh) = 1
  BY DEF TypeOK, Push
<1>2. popped' = popped /\ toRelease' = toRelease \o fresh /\ fresh' = <<>>
  BY DEF Push
<1>3. entries' = popped \o (toRelease \o fresh) \o <<>>
  BY <1>2 DEF entries
<1>4. /\ entries' \in Seq(Entry) /\ entries \in Seq(Entry)
      /\ Len(entries') = Len(entries)
  BY <1>1, <1>3 DEF entries
<1>5. \A i \in 1..Len(entries) : entries'[i] = entries[i]
  BY <1>1, <1>3 DEF entries
<1>6. entries' = entries
  BY <1>4, <1>5, SeqEqual
<1>7. fresh[1] \in Entry /\ fresh = <<fresh[1]>>
  BY <1>1, Slot
<1>8. QED
  BY <1>1, <1>2, <1>6, <1>7

LEMMA EntriesCancel ==
  ASSUME TypeOK, CancelAlloc
  PROVE  /\ entries' \in Seq(Entry) /\ DOMAIN entries' = 1..Len(entries')
         /\ Len(entries') = Len(entries) - Len(fresh)
         /\ \A i \in 1..Len(entries') : entries'[i] = entries[i]
         /\ \A i \in 1..Len(fresh) : entries[Len(entries') + i] = fresh[i]
<1> DEFINE q == popped \o toRelease
<1>1. q \in Seq(Entry) /\ fresh \in Seq(Entry)
  BY DEF TypeOK
<1>2. entries = q \o fresh /\ entries' = q \o <<>>
  BY DEF CancelAlloc, entries
<1> HIDE DEF q
<1>3. Len(entries') = Len(q) /\ Len(entries) = Len(q) + Len(fresh)
  BY <1>1, <1>2
<1>4. \A i \in 1..Len(fresh) : entries[Len(q) + i] = fresh[i]
  BY <1>1, <1>2
<1>5. QED
  BY <1>1, <1>2, <1>3, <1>4

LEMMA EntriesPop ==
  ASSUME TypeOK, Pop
  PROVE  /\ entries' = entries
         /\ popped' \in Seq(Entry) /\ Len(popped') = 1
         /\ toRelease' \in Seq(Entry) /\ Len(toRelease') <= QueueCap
<1>1. /\ toRelease \in Seq(Entry) /\ fresh \in Seq(Entry)
      /\ toRelease # <<>> /\ Len(toRelease) <= QueueCap /\ popped = <<>>
  BY DEF TypeOK, Pop
<1>2. /\ popped' = <<Head(toRelease)>> /\ toRelease' = Tail(toRelease)
      /\ fresh' = fresh
  BY DEF Pop, allocVars
<1>3. /\ Head(toRelease) \in Entry /\ Tail(toRelease) \in Seq(Entry)
      /\ Len(Tail(toRelease)) = Len(toRelease) - 1 /\ Len(toRelease) \in Nat \ {0}
  BY <1>1
<1>4. /\ popped' \in Seq(Entry) /\ Len(popped') = 1
      /\ toRelease' \in Seq(Entry) /\ Len(toRelease') <= QueueCap
  BY <1>1, <1>2, <1>3, SendRingAssumption
<1>5. entries' = <<Head(toRelease)>> \o Tail(toRelease) \o fresh /\ entries = <<>> \o toRelease \o fresh
  BY <1>1, <1>2 DEF entries
<1>6. /\ entries' \in Seq(Entry) /\ entries \in Seq(Entry)
      /\ Len(entries') = Len(entries)
  BY <1>1, <1>3, <1>5
<1>7. \A i \in 1..Len(entries) : entries'[i] = entries[i]
  BY <1>1, <1>3, <1>5
<1>8. QED
  BY <1>4, <1>6, <1>7, SeqEqual

LEMMA EntriesRelease ==
  ASSUME TypeOK, popped # <<>>, popped' = <<>>, UNCHANGED <<toRelease, fresh>>
  PROVE  /\ entries' \in Seq(Entry) /\ DOMAIN entries' = 1..Len(entries')
         /\ Len(entries') = Len(entries) - 1 /\ Len(entries) >= 1
         /\ \A i \in 1..Len(entries') : entries'[i] = entries[i + 1]
         /\ popped[1] = entries[1] /\ popped[1] \in Entry
<1>1. /\ popped \in Seq(Entry) /\ Len(popped) = 1
      /\ toRelease \in Seq(Entry) /\ fresh \in Seq(Entry)
  BY Slot DEF TypeOK
<1>2. entries = popped \o toRelease \o fresh /\ entries' = <<>> \o toRelease \o fresh
  BY DEF entries
<1>3. entries' \in Seq(Entry) /\ Len(entries') = Len(toRelease) + Len(fresh)
  BY <1>1, <1>2
<1>4. Len(entries) = 1 + Len(toRelease) + Len(fresh)
  <2>1. popped \o toRelease \in Seq(Entry)
    BY <1>1, ConcatProperties
  <2>2. Len(popped \o toRelease) = Len(popped) + Len(toRelease)
    BY <1>1, ConcatProperties
  <2>3. Len((popped \o toRelease) \o fresh) = Len(popped \o toRelease) + Len(fresh)
    BY <1>1, <2>1, ConcatProperties
  <2>4. QED
    BY <1>1, <1>2, <2>2, <2>3
<1>5. \A i \in 1..Len(entries') : entries'[i] = entries[i + 1]
  BY <1>1, <1>2, <1>3, <1>4
<1>6. popped[1] = entries[1] /\ popped[1] \in Entry
  BY <1>1, <1>2
<1>7. QED
  BY <1>3, <1>4, <1>5, <1>6

-----------------------------------------------------------------------------
(* Types, and the sections inside the buffer.                              *)
Fits == TypeOK /\ BranchKept /\ SectionsFit

LEMMA FitsInit == Init => Fits
<1> SUFFICES ASSUME Init PROVE Fits
  OBVIOUS
<1>1. entries = <<>>
  BY DEF Init, entries
<1>2. TypeOK
  BY SendRingAssumption DEF Init, TypeOK, left, right
<1>3. BranchKept /\ SectionsFit
  BY <1>1 DEF Init, BranchKept, SectionsFit
<1>4. QED
  BY <1>2, <1>3 DEF Fits

(* A section that ends inside the buffer.                                  *)
LEMMA FitsGrant ==
  ASSUME Fits, pc \notin {"idle", "push"}, NEW a \in Nat, a + want <= right, Grant(a)
  PROVE  Fits' /\ \E f \in Flags \ alive :
           /\ fresh' = <<[flag |-> f, addr |-> a, len |-> want]>>
           /\ [flag |-> f, addr |-> a, len |-> want] \in Entry
           /\ using' = using \union {f}
<1> USE SendRingAssumption
<1>1. TypeOK /\ SectionsFit
  BY DEF Fits
<1>2. want \in Lens \union {0} /\ want \in Nat /\ right \in Nat
  BY <1>1 DEF TypeOK, right
<1>3. /\ index' = a + want /\ pc' = "push" /\ want' = 0
      /\ UNCHANGED <<done, toRelease, popped, owned, posted>>
  BY DEF Grant
<1>4. PICK f \in Flags \ alive :
        /\ fresh' = <<[flag |-> f, addr |-> a, len |-> want]>>
        /\ using' = using \union {f}
  BY DEF Grant
<1> DEFINE e == [flag |-> f, addr |-> a, len |-> want]
<1>5. e \in Entry /\ e.addr = a /\ e.len = want
  BY <1>2 DEF Entry
<1>6. fresh' = <<e>> /\ <<e>> \in Seq(Entry) /\ Len(<<e>>) = 1
  BY <1>4, <1>5
<1>7. TypeOK'
  BY <1>1, <1>2, <1>3, <1>4, <1>6 DEF TypeOK, right
<1>8. BranchKept'
  BY <1>3 DEF BranchKept
<1> HIDE DEF e
<1>9. SectionsFit'
  <2>1. /\ DOMAIN entries' = 1..(Len(entries) + 1) /\ DOMAIN entries = 1..Len(entries)
        /\ entries'[Len(entries) + 1] = e
        /\ \A i \in 1..Len(entries) : entries'[i] = entries[i]
        /\ Len(entries) \in Nat
    BY <1>1, <1>3, <1>5, <1>6, EntriesGrant, EntriesType
  <2>2. \A i \in 1..Len(entries) : entries'[i].addr + entries'[i].len <= right
    BY <1>1, <2>1 DEF SectionsFit
  <2>3. \A i \in 1..(Len(entries) + 1) : i \in 1..Len(entries) \/ i = Len(entries) + 1
    BY <2>1
  <2>4. QED
    BY <1>5, <2>1, <2>2, <2>3 DEF SectionsFit, right
<1>10. QED
  BY <1>4, <1>5, <1>7, <1>8, <1>9 DEF Fits, e

(* The steps of alloc that grant a section, and where.                     *)
LEMMA AllocLoads ==
  ASSUME Fits, WrapSpaceLoad \/ WrapOrderLoad \/ FitSpaceLoad \/ FitOrderLoad
  PROVE  \/ pc = "wrapSpace" /\ want < done /\ Goto("wrapOrder")
         \/ pc = "wrapOrder" /\ Goto("wrapSpace")
         \/ /\ pc \in {"fitSpace", "fitOrder"}
            /\ \E p \in {"fitSpace", "fitOrder"} : Goto(p)
         \/ /\ pc = "wrapOrder" /\ done <= index /\ Grant(left)
         \/ /\ pc = "fitSpace" /\ index + want < done /\ Grant(index)
         \/ /\ pc = "fitOrder" /\ done <= index /\ Grant(index)
<1>1. CASE WrapSpaceLoad
  <2>1. pc = "wrapSpace" /\ left + want < done /\ Goto("wrapOrder")
    BY <1>1 DEF WrapSpaceLoad
  <2>2. left + want = want
    BY SendRingAssumption DEF left, Fits, TypeOK
  <2>3. QED
    BY <2>1, <2>2
<1>2. CASE WrapOrderLoad
  BY <1>2 DEF WrapOrderLoad
<1>3. CASE FitSpaceLoad
  BY <1>3 DEF FitSpaceLoad
<1>4. CASE FitOrderLoad
  BY <1>4 DEF FitOrderLoad
<1>5. QED
  BY <1>1, <1>2, <1>3, <1>4

LEMMA GrantFits ==
  ASSUME Fits
  PROVE  /\ left \in Nat /\ index \in Nat /\ done \in Nat /\ want \in Nat /\ right \in Nat
         /\ done <= right /\ index <= right
         /\ pc = "wrapOrder" => left + want <= right
         /\ pc \in {"fitSpace", "fitOrder"} => index + want <= right
BY SendRingAssumption DEF Fits, TypeOK, BranchKept, left, right

LEMMA FitsNext == Fits /\ [Next]_vars => Fits'
<1> USE SendRingAssumption
<1> SUFFICES ASSUME Fits, [Next]_vars PROVE Fits'
  OBVIOUS
<1>0. TypeOK /\ BranchKept /\ SectionsFit
  BY DEF Fits
<1>1. CASE UNCHANGED vars
  <2>1. entries' = entries
    BY <1>1 DEF vars, entries
  <2>2. TypeOK' /\ BranchKept'
    BY <1>0, <1>1 DEF vars, TypeOK, BranchKept
  <2>3. QED
    BY <1>0, <2>1, <2>2 DEF Fits, SectionsFit
<1>2. ASSUME NEW l \in Lens, AllocBegin(l) PROVE Fits'
  <2>1. entries' = entries
    BY <1>2 DEF AllocBegin, entries
  <2>2. TypeOK'
    BY <1>0, <1>2 DEF AllocBegin, TypeOK
  <2>3. BranchKept'
    BY <1>0, <1>2 DEF AllocBegin, BranchKept, TypeOK, right
  <2>4. QED
    BY <1>0, <2>1, <2>2, <2>3 DEF Fits, SectionsFit
<1>3. ASSUME WrapSpaceLoad \/ WrapOrderLoad \/ FitSpaceLoad \/ FitOrderLoad PROVE Fits'
  <2>1. ASSUME NEW p, Goto(p),
               \/ pc \in {"wrapSpace", "wrapOrder"} /\ p = "wrapSpace"
               \/ pc = "wrapSpace" /\ p = "wrapOrder" /\ want < done
               \/ pc \in {"fitSpace", "fitOrder"} /\ p \in {"fitSpace", "fitOrder"}
        PROVE  Fits'
    <3>1. /\ pc' = p
          /\ UNCHANGED <<index, done, want, fresh, toRelease, popped, using, owned, posted>>
      BY <2>1 DEF Goto
    <3>2. entries' = entries
      BY <3>1 DEF entries
    <3>3. TypeOK'
      BY <1>0, <2>1, <3>1 DEF TypeOK
    <3>4. BranchKept'
      <4>1. p = "wrapOrder" => want < right
        BY <2>1, GrantFits
      <4>2. QED
        BY <1>0, <2>1, <3>1, <4>1 DEF BranchKept, right
    <3>5. QED
      BY <1>0, <3>2, <3>3, <3>4 DEF Fits, SectionsFit
  <2>2. \/ \E p : Goto(p) /\ (\/ pc \in {"wrapSpace", "wrapOrder"} /\ p = "wrapSpace"
                              \/ pc = "wrapSpace" /\ p = "wrapOrder" /\ want < done
                              \/ pc \in {"fitSpace", "fitOrder"} /\ p \in {"fitSpace", "fitOrder"})
        \/ pc = "wrapOrder" /\ Grant(left)
        \/ pc \in {"fitSpace", "fitOrder"} /\ Grant(index)
    BY <1>3, AllocLoads
  <2>3. QED
    BY <2>1, <2>2, GrantFits, FitsGrant
<1>4. CASE Push
  <2>1. entries' = entries /\ toRelease' \in Seq(Entry) /\ fresh[1] \in Entry
        /\ fresh = <<fresh[1]>>
    BY <1>0, <1>4, EntriesPush
  <2>2. Len(toRelease') = Len(toRelease) + 1 /\ Len(toRelease) < QueueCap
    <3>1. /\ toRelease \in Seq(Entry) /\ fresh \in Seq(Entry) /\ Len(fresh) = 1
          /\ toRelease' = toRelease \o fresh
      BY <1>0, <1>4 DEF Push, TypeOK
    <3>2. Len(toRelease \o fresh) = Len(toRelease) + Len(fresh)
      BY <3>1, ConcatProperties
    <3>3. QED
      BY <1>4, <3>1, <3>2 DEF Push
  <2>3. TypeOK'
    BY <1>0, <1>4, <2>1, <2>2 DEF Push, TypeOK
  <2>4. BranchKept'
    BY <1>4 DEF Push, BranchKept
  <2>5. QED
    BY <1>0, <2>1, <2>3, <2>4 DEF Fits, SectionsFit
<1>5. CASE CancelAlloc
  <2>1. /\ DOMAIN entries' \subseteq DOMAIN entries
        /\ \A i \in DOMAIN entries' : entries'[i] = entries[i]
    <3>1. Len(fresh) \in Nat
      BY <1>0 DEF TypeOK
    <3>2. /\ DOMAIN entries' = 1..Len(entries') /\ Len(entries') = Len(entries) - Len(fresh)
          /\ \A i \in 1..Len(entries') : entries'[i] = entries[i]
      BY <1>0, <1>5, EntriesCancel
    <3>3. DOMAIN entries = 1..Len(entries) /\ Len(entries) \in Nat
      BY <1>0, EntriesType
    <3>4. QED
      BY <3>1, <3>2, <3>3
  <2>2. TypeOK'
    BY <1>0, <1>5 DEF CancelAlloc, TypeOK
  <2>3. BranchKept'
    BY <1>5 DEF CancelAlloc, BranchKept
  <2>4. SectionsFit'
    BY <1>0, <2>1 DEF SectionsFit, right
  <2>5. QED
    BY <2>2, <2>3, <2>4 DEF Fits
<1>6. ASSUME NEW e \in owned, Post(e) \/ Abandon(e) PROVE Fits'
  <2>1. entries' = entries
    BY <1>6 DEF Post, Abandon, entries, allocVars
  <2>2. posted' \in Seq(Entry) /\ owned' \subseteq Entry
    <3>1. posted \in Seq(Entry) /\ owned \subseteq Entry /\ e \in Entry
      BY <1>0 DEF TypeOK
    <3>2. CASE Post(e)
      BY <3>1, <3>2, AppendProperties DEF Post
    <3>3. CASE Abandon(e)
      BY <3>1, <3>3 DEF Abandon
    <3>4. QED
      BY <1>6, <3>2, <3>3
  <2>3. UNCHANGED <<index, done, pc, want, fresh, toRelease, popped, using>>
    BY <1>6 DEF Post, Abandon, allocVars
  <2>4. TypeOK' /\ BranchKept'
    BY <1>0, <2>2, <2>3 DEF TypeOK, BranchKept
  <2>5. QED
    BY <1>0, <2>1, <2>4 DEF Fits, SectionsFit
<1>7. CASE Complete
  <2>1. entries' = entries
    BY <1>7 DEF Complete, entries, allocVars
  <2>2. TypeOK' /\ BranchKept'
    BY <1>0, <1>7 DEF Complete, allocVars, TypeOK, BranchKept
  <2>3. QED
    BY <1>0, <2>1, <2>2 DEF Fits, SectionsFit
<1>8. CASE Pop
  <2>1. /\ entries' = entries
        /\ popped' \in Seq(Entry) /\ Len(popped') = 1
        /\ toRelease' \in Seq(Entry) /\ Len(toRelease') <= QueueCap
    BY <1>0, <1>8, EntriesPop
  <2>2. UNCHANGED <<index, done, pc, want, fresh, using, owned, posted>>
    BY <1>8 DEF Pop, allocVars
  <2>3. TypeOK' /\ BranchKept'
    BY <1>0, <2>1, <2>2 DEF TypeOK, BranchKept
  <2>4. QED
    BY <1>0, <2>1, <2>3 DEF Fits, SectionsFit
<1>9. CASE ReleaseDone
  <2>1. /\ popped # <<>> /\ popped' = <<>> /\ done' = Advance(popped[1].len)
        /\ UNCHANGED <<index, pc, want, fresh, toRelease, using, owned, posted>>
    BY <1>9 DEF ReleaseDone, allocVars
  <2>2. /\ DOMAIN entries' = 1..Len(entries')
        /\ Len(entries') = Len(entries) - 1 /\ Len(entries) >= 1
        /\ \A i \in 1..Len(entries') : entries'[i] = entries[i + 1]
        /\ popped[1] = entries[1] /\ popped[1] \in Entry
    BY <1>0, <2>1, EntriesRelease
  <2>3. DOMAIN entries = 1..Len(entries) /\ Len(entries) \in Nat
    BY <1>0, EntriesType
  <2>4. popped[1].len \in Nat /\ popped[1].len <= right
    <3>1. popped[1].addr \in Nat /\ popped[1].len \in Nat
      BY <2>2, EntryParts
    <3>2. entries[1].addr + entries[1].len <= right
      BY <1>0, <2>2, <2>3 DEF SectionsFit
    <3>3. QED
      BY <2>2, <3>1, <3>2 DEF right
  <2>5. done' \in 0..right
    BY <1>0, <2>1, <2>4 DEF TypeOK, Advance, left, right
  <2>6. TypeOK' /\ BranchKept'
    BY <1>0, <2>1, <2>5 DEF TypeOK, BranchKept
  <2>7. SectionsFit'
    <3>1. \A i \in 1..Len(entries') : i + 1 \in DOMAIN entries
      BY <2>2, <2>3
    <3>2. QED
      BY <1>0, <2>2, <3>1 DEF SectionsFit, right
  <2>8. QED
    BY <2>6, <2>7 DEF Fits
<1>10. QED
  BY <1>1, <1>2, <1>3, <1>4, <1>5, <1>6, <1>7, <1>8, <1>9 DEF Next, AllocStep

(* Cursors, lengths and sections are what their types say: done never      *)
(* leaves the buffer, although it is moved by lengths only (mr.rs: alloc,  *)
(* release).                                                               *)
THEOREM TypeCorrect == Spec => []TypeOK
<1>1. Fits => TypeOK
  BY DEF Fits
<1>2. QED
  BY <1>1, FitsInit, FitsNext, PTL DEF Spec

-----------------------------------------------------------------------------
(* The release task comes to index.                                        *)
LEMMA InStepInit == Init => InStep
<1> SUFFICES ASSUME Init PROVE InStep
  OBVIOUS
<1>1. entries = <<>> /\ index = done
  BY DEF Init, entries
<1>2. QED
  BY <1>1 DEF InStep, StartOf

LEMMA EntriesCount ==
  ASSUME Fits PROVE \E n \in Nat : n = Len(entries)
<1>1. Len(entries) \in Nat
  BY EntriesType DEF Fits
<1>2. QED
  BY ONLY <1>1

LEMMA InStepSame ==
  ASSUME InStep, entries' = entries, UNCHANGED <<index, done>>
  PROVE  InStep'
BY DEF InStep, StartOf

(* alloc puts the section where the release task will look for it.         *)
LEMMA InStepGrant ==
  ASSUME Fits, InStep, pc \notin {"idle", "push"}, NEW a \in Nat, Grant(a),
         a + want <= right, a = IF index + want > right THEN left ELSE index
  PROVE  InStep'
<1>0. PICK n \in Nat : n = Len(entries)
  BY EntriesCount
<1>1. /\ index \in Nat /\ done \in Nat /\ want \in Nat /\ right \in Nat
      /\ entries \in Seq(Entry) /\ DOMAIN entries = 1..n /\ n \in Nat
  BY <1>0, GrantFits, EntriesType DEF Fits
<1>2. PICK f \in Flags :
        /\ fresh' = <<[flag |-> f, addr |-> a, len |-> want]>>
        /\ [flag |-> f, addr |-> a, len |-> want] \in Entry
  BY FitsGrant
<1> DEFINE e == [flag |-> f, addr |-> a, len |-> want]
<1>3. /\ index' = a + want /\ done' = done /\ e.addr = a /\ e.len = want
      /\ UNCHANGED <<toRelease, popped>>
  BY DEF Grant
<1> HIDE DEF e
<1>4. /\ DOMAIN entries' = 1..(n + 1) /\ Len(entries') = n + 1
      /\ \A i \in 1..n : entries'[i] = entries[i]
      /\ entries'[n + 1] = e
  BY <1>0, <1>2, <1>3, EntriesGrant DEF Fits, e
<1>5. \A i \in 1..(n + 1) : StartOf(i)' = StartOf(i)
  <2>1. \A i \in 1..(n + 1) : i # 1 => i - 1 \in 1..n
    BY <1>1
  <2>2. QED
    BY <1>3, <1>4, <2>1 DEF StartOf
<1>6. StartOf(n + 1) = index
  BY <1>0 DEF InStep
<1>7. \A i \in 1..n :
        entries'[i].addr = IF StartOf(i)' + entries'[i].len > right THEN left ELSE StartOf(i)'
  <2>1. \A i \in 1..n : i \in 1..(n + 1)
    BY <1>1
  <2>2. QED
    BY <1>1, <1>4, <1>5, <2>1 DEF InStep
<1>8. entries'[n + 1].addr =
        IF StartOf(n + 1)' + entries'[n + 1].len > right THEN left ELSE StartOf(n + 1)'
  <2>1. n + 1 \in 1..(n + 1)
    BY <1>1
  <2>2. QED
    BY <1>3, <1>4, <1>5, <1>6, <2>1
<1>9. index' = StartOf(Len(entries) + 1)'
  <2>1. n + 1 + 1 # 1 /\ n + 1 + 1 - 1 = n + 1
    BY <1>1
  <2>2. StartOf(n + 1 + 1)' = entries'[n + 1].addr + entries'[n + 1].len
    BY <2>1 DEF StartOf
  <2>3. QED
    BY <1>3, <1>4, <2>2
<1>10. \A i \in 1..(n + 1) : i \in 1..n \/ i = n + 1
  BY <1>1
<1>11. QED
  BY <1>4, <1>7, <1>8, <1>9, <1>10 DEF InStep, right, left

(* The release task comes to the end of the section it releases.           *)
LEMMA ReleasedEnd ==
  ASSUME Fits, InStep, ReleaseDone
  PROVE  done' = popped[1].addr + popped[1].len
<1>1. /\ popped # <<>> /\ popped' = <<>> /\ done' = Advance(popped[1].len)
      /\ UNCHANGED <<toRelease, fresh>>
  BY DEF ReleaseDone, allocVars
<1>2. /\ popped[1] = entries[1] /\ Len(entries) >= 1
      /\ Len(entries) \in Nat /\ DOMAIN entries = 1..Len(entries)
  BY <1>1, EntriesRelease, EntriesType DEF Fits
<1>3. 1 \in DOMAIN entries
  BY <1>2
<1>4. entries[1].addr = IF done + entries[1].len > right THEN left ELSE done
  BY <1>3 DEF InStep, StartOf
<1>5. QED
  BY <1>1, <1>2, <1>4 DEF Advance

LEMMA InStepRelease ==
  ASSUME Fits, InStep, ReleaseDone
  PROVE  InStep'
<1>0. PICK n \in Nat : n = Len(entries)
  BY EntriesCount
<1>1. /\ popped # <<>> /\ popped' = <<>>
      /\ UNCHANGED <<index, toRelease, fresh>>
  BY DEF ReleaseDone, allocVars
<1>2. /\ n \in Nat /\ DOMAIN entries = 1..n /\ n >= 1 /\ popped[1] = entries[1]
      /\ DOMAIN entries' = 1..(n - 1) /\ Len(entries') = n - 1
      /\ \A i \in 1..(n - 1) : entries'[i] = entries[i + 1]
  BY <1>0, <1>1, EntriesRelease, EntriesType DEF Fits
<1>3. done' = entries[1].addr + entries[1].len
  BY <1>2, ReleasedEnd
<1>4. index = StartOf(n + 1)
  BY <1>0 DEF InStep
<1>5. \A i \in 1..n : StartOf(i)' = StartOf(i + 1)
  <2>1. ASSUME NEW i \in 1..n PROVE StartOf(i)' = StartOf(i + 1)
    <3>0. i \in Nat /\ n \in Nat
      BY <1>2
    <3>1. i + 1 # 1 /\ (i + 1) - 1 = i
      BY <3>0
    <3>2. StartOf(i + 1) = entries[i].addr + entries[i].len
      BY <3>1 DEF StartOf
    <3>3. CASE i = 1
      BY <1>3, <3>2, <3>3 DEF StartOf
    <3>4. CASE i # 1
      <4>1. i - 1 \in 1..(n - 1) /\ (i - 1) + 1 = i
        BY <1>2, <3>0, <3>4
      <4>2. entries'[i - 1] = entries[i]
        BY <1>2, <4>1
      <4>3. QED
        BY <3>2, <3>4, <4>2 DEF StartOf
    <3>5. QED
      BY <3>3, <3>4
  <2>2. QED
    BY <2>1
<1>6. \A i \in 1..(n - 1) :
        entries'[i].addr = IF StartOf(i)' + entries'[i].len > right THEN left ELSE StartOf(i)'
  <2>1. \A i \in 1..(n - 1) : i \in 1..n /\ i + 1 \in DOMAIN entries
    BY <1>2
  <2>2. \A i \in 1..(n - 1) :
          entries[i + 1].addr = IF StartOf(i + 1) + entries[i + 1].len > right
                                THEN left ELSE StartOf(i + 1)
    BY <2>1 DEF InStep
  <2>3. QED
    BY <1>2, <1>5, <2>1, <2>2
<1>7. index' = StartOf(Len(entries) + 1)'
  <2>1. n \in 1..n /\ (n - 1) + 1 = n
    BY <1>2
  <2>2. QED
    BY <1>1, <1>2, <1>4, <1>5, <2>1
<1>8. QED
  BY <1>2, <1>6, <1>7 DEF InStep, right, left

(* Every step but a drop in push keeps them in step.                       *)
LEMMA InStepNext ==
  ASSUME Fits, InStep, [Next]_vars, ~(CancelAlloc /\ pc = "push")
  PROVE  InStep'
<1>0. TypeOK
  BY DEF Fits
<1>1. CASE UNCHANGED vars
  <2>1. entries' = entries /\ UNCHANGED <<index, done>>
    BY <1>1 DEF vars, entries
  <2>2. QED
    BY <2>1, InStepSame
<1>2. ASSUME NEW l \in Lens, AllocBegin(l) PROVE InStep'
  <2>1. entries' = entries /\ UNCHANGED <<index, done>>
    BY <1>2 DEF AllocBegin, entries
  <2>2. QED
    BY <2>1, InStepSame
<1>3. ASSUME WrapSpaceLoad \/ WrapOrderLoad \/ FitSpaceLoad \/ FitOrderLoad PROVE InStep'
  <2>1. ASSUME NEW p, Goto(p) PROVE InStep'
    <3>1. entries' = entries /\ UNCHANGED <<index, done>>
      BY <2>1 DEF Goto, entries
    <3>2. QED
      BY <3>1, InStepSame
  <2>2. ASSUME pc = "wrapOrder", Grant(left) PROVE InStep'
    <3>1. index + want > right
      BY <2>2 DEF Fits, BranchKept
    <3>2. QED
      BY <2>2, <3>1, GrantFits, InStepGrant
  <2>3. ASSUME pc \in {"fitSpace", "fitOrder"}, Grant(index) PROVE InStep'
    <3>1. index + want <= right /\ ~(index + want > right)
      BY <2>3, GrantFits
    <3>2. QED
      BY <2>3, <3>1, GrantFits, InStepGrant
  <2>4. QED
    BY <1>3, <2>1, <2>2, <2>3, AllocLoads
<1>4. CASE Push
  <2>1. entries' = entries /\ UNCHANGED <<index, done>>
    BY <1>0, <1>4, EntriesPush DEF Push
  <2>2. QED
    BY <2>1, InStepSame
<1>5. CASE CancelAlloc
  <2>1. fresh = <<>>
    BY <1>0, <1>5 DEF TypeOK
  <2>2. fresh' = <<>> /\ UNCHANGED <<index, done, toRelease, popped>>
    BY <1>5 DEF CancelAlloc
  <2>3. entries' = entries
    BY <2>1, <2>2 DEF entries
  <2>4. QED
    BY <2>2, <2>3, InStepSame
<1>6. ASSUME NEW e \in owned, Post(e) \/ Abandon(e) PROVE InStep'
  <2>1. entries' = entries /\ UNCHANGED <<index, done>>
    BY <1>6 DEF Post, Abandon, entries, allocVars
  <2>2. QED
    BY <2>1, InStepSame
<1>7. CASE Complete
  <2>1. entries' = entries /\ UNCHANGED <<index, done>>
    BY <1>7 DEF Complete, entries, allocVars
  <2>2. QED
    BY <2>1, InStepSame
<1>8. CASE Pop
  <2>1. entries' = entries /\ UNCHANGED <<index, done>>
    BY <1>0, <1>8, EntriesPop DEF Pop, allocVars
  <2>2. QED
    BY <2>1, InStepSame
<1>9. CASE ReleaseDone
  BY <1>9, InStepRelease
<1>10. QED
  BY <1>1, <1>2, <1>3, <1>4, <1>5, <1>6, <1>7, <1>8, <1>9 DEF Next, AllocStep

(* Of all that can happen to a send_msg, only one that is dropped while it *)
(* waits to push its section into the channel parts index from done        *)
(* (mr.rs: alloc, add_to_release).                                         *)
THEOREM OnlyPushLoses == Spec => StepKept
<1>1. Fits /\ [Next]_vars =>
        [InStep /\ ~InStep' => pc = "push" /\ pc' = "idle" /\ owned' = owned]_vars
  <2> SUFFICES ASSUME Fits, [Next]_vars, InStep, ~InStep'
               PROVE  pc = "push" /\ pc' = "idle" /\ owned' = owned
    OBVIOUS
  <2>1. CancelAlloc /\ pc = "push"
    BY InStepNext
  <2>2. QED
    BY <2>1 DEF CancelAlloc
<1>2. QED
  BY <1>1, FitsInit, FitsNext, PTL DEF Spec, StepKept

LEMMA InStepAlways == NoCancel => (Spec => [](Fits /\ InStep))
<1> SUFFICES ASSUME NoCancel PROVE Spec => [](Fits /\ InStep)
  OBVIOUS
<1>1. Init => Fits /\ InStep
  BY FitsInit, InStepInit
<1>2. Fits /\ InStep /\ [Next]_vars => Fits' /\ InStep'
  BY FitsNext, InStepNext DEF NoCancel, CancelAlloc
<1>3. QED
  BY <1>1, <1>2, PTL DEF Spec

(* The release task wraps around at the sections alloc wrapped around at,  *)
(* although it is told only lengths (mr.rs: the task in SendBuffer::new).  *)
THEOREM ReleasesExactly == NoCancel => (Spec => DoneFollowsSections)
<1> SUFFICES ASSUME NoCancel PROVE Spec => DoneFollowsSections
  OBVIOUS
<1>1. Fits /\ InStep /\ [Next]_vars =>
        [popped # <<>> /\ popped' = <<>> => done' = popped[1].addr + popped[1].len]_vars
  <2> SUFFICES ASSUME Fits, InStep, [Next]_vars, popped # <<>>, popped' = <<>>
               PROVE  done' = popped[1].addr + popped[1].len
    OBVIOUS
  <2>1. ReleaseDone
    <3>1. popped' # popped
      OBVIOUS
    <3>2. Next
      BY <3>1 DEF vars
    <3>3. CASE Pop
      BY <3>3 DEF Pop
    <3>4. ASSUME WrapSpaceLoad \/ WrapOrderLoad \/ FitSpaceLoad \/ FitOrderLoad PROVE FALSE
      BY <3>1, <3>4, AllocLoads DEF Goto, Grant
    <3>5. QED
      BY <3>1, <3>2, <3>3, <3>4
      DEF Next, AllocStep, AllocBegin, Push, CancelAlloc, Post, Abandon, Complete
  <2>2. QED
    BY <2>1, ReleasedEnd
<1>2. QED
  BY <1>1, InStepAlways, PTL DEF Spec, DoneFollowsSections

(* A message takes at most half of the buffer.                             *)
HalfEach == \A l \in Lens : 2 * l <= right

(* alloc never sleeps on a buffer that was given back whole (mr.rs:        *)
(* alloc, the two loops that sleep).                                       *)
THEOREM WaitsForSections == NoCancel /\ HalfEach => (Spec => []WaitsOnlyForSections)
<1> SUFFICES ASSUME NoCancel, HalfEach PROVE Spec => []WaitsOnlyForSections
  OBVIOUS
<1>1. Fits /\ InStep => WaitsOnlyForSections
  <2> SUFFICES ASSUME Fits, InStep, entries = <<>>, LacksSpace PROVE FALSE
    BY DEF WaitsOnlyForSections
  <2>1. index = done /\ Len(entries) = 0
    BY DEF InStep, StartOf
  <2>2. want \in Nat /\ index \in Nat /\ right \in Nat /\ 2 * want <= right
    BY SendRingAssumption, GrantFits DEF Fits, TypeOK, HalfEach, right
  <2>3. CASE pc \in {"wrapSpace", "wrapOrder"}
    <3>1. index + want > right /\ want >= index
      BY <2>1, <2>2, <2>3 DEF LacksSpace, Fits, BranchKept, left
    <3>2. QED
      BY <2>2, <3>1
  <2>4. CASE pc \in {"fitSpace", "fitOrder"}
    BY <2>1, <2>2, <2>4 DEF LacksSpace
  <2>5. QED
    BY <2>3, <2>4 DEF LacksSpace
<1>2. QED
  BY <1>1, InStepAlways, PTL

-----------------------------------------------------------------------------
(* Flags: one for each section, true while the section is in use.          *)
Flagged == Fits /\ OneFlagEach /\ UseKnown

LEMMA InUseAre ==
  /\ \A s : s \in inUse <=> \/ s \in owned
                            \/ \E i \in DOMAIN posted : posted[i] = s
                            \/ \E i \in DOMAIN fresh : fresh[i] = s
BY DEF inUse

LEMMA PostedType == TypeOK => posted \in Seq(Entry)
BY DEF TypeOK

LEMMA FlaggedInit == Init => Flagged
<1> SUFFICES ASSUME Init PROVE Flagged
  OBVIOUS
<1>1. entries = <<>> /\ inUse = {}
  BY DEF Init, entries, inUse
<1>2. OneFlagEach /\ UseKnown
  BY <1>1 DEF Init, OneFlagEach, UseKnown
<1>3. QED
  BY <1>2, FitsInit DEF Flagged

(* Steps that leave sections, flags and who has them alone.                *)
LEMMA FlaggedSame ==
  ASSUME Flagged, entries' = entries, UNCHANGED <<fresh, using, owned, posted>>
  PROVE  OneFlagEach' /\ UseKnown'
BY DEF Flagged, OneFlagEach, UseKnown, inUse

LEMMA FlaggedGrant ==
  ASSUME Flagged, pc \notin {"idle", "push"}, NEW a \in Nat, a + want <= right, Grant(a)
  PROVE  OneFlagEach' /\ UseKnown'
<1>0. Fits /\ TypeOK /\ OneFlagEach /\ UseKnown
  BY DEF Flagged, Fits
<1>1. PICK f \in Flags \ alive :
        /\ fresh' = <<[flag |-> f, addr |-> a, len |-> want]>>
        /\ [flag |-> f, addr |-> a, len |-> want] \in Entry
        /\ using' = using \union {f}
  BY <1>0, FitsGrant
<1> DEFINE e == [flag |-> f, addr |-> a, len |-> want]
<1>2. UNCHANGED <<toRelease, popped, owned, posted>> /\ e.flag = f /\ e \in Entry
  BY <1>1 DEF Grant
<1>3. fresh = <<>> /\ DOMAIN fresh = {}
  BY <1>0 DEF TypeOK
<1>4. fresh' = <<e>> /\ DOMAIN fresh' = {1} /\ fresh'[1] = e
  BY <1>1
<1> HIDE DEF e
<1>5. PICK n \in Nat : n = Len(entries)
  BY <1>0, EntriesCount
<1>6. /\ DOMAIN entries = 1..n /\ DOMAIN entries' = 1..(n + 1)
      /\ \A i \in 1..n : entries'[i] = entries[i]
      /\ entries'[n + 1] = e
  BY <1>0, <1>2, <1>4, <1>5, EntriesGrant, EntriesType
<1>7. \A i \in 1..n : entries'[i].flag # f
  BY <1>1, <1>6 DEF alive
<1>8. \A s \in inUse : s # e
  BY <1>0, <1>1, <1>2 DEF UseKnown, alive
<1>9. \A i \in 1..(n + 1) : i \in 1..n \/ i = n + 1
  OBVIOUS
<1>10. \A i \in 1..n : i \in 1..(n + 1)
  OBVIOUS
<1>11. OneFlagEach'
  <2>1. \A i, j \in DOMAIN entries' : entries'[i].flag = entries'[j].flag => i = j
    BY <1>0, <1>2, <1>6, <1>7, <1>9 DEF OneFlagEach
  <2>2. e \notin owned /\ \A j \in DOMAIN posted : e # posted[j]
    BY <1>8, InUseAre
  <2>3. QED
    BY <1>0, <1>2, <1>4, <2>1, <2>2 DEF OneFlagEach
<1>12. UseKnown'
  <2>1. \A s \in inUse' : s \in inUse \/ s = e
    BY <1>2, <1>4 DEF inUse
  <2>2. n + 1 \in DOMAIN entries'
    BY <1>6
  <2>3. ASSUME NEW s \in inUse PROVE s.flag \in using' /\ \E i \in DOMAIN entries' : entries'[i] = s
    BY <1>0, <1>1, <1>6, <1>10 DEF UseKnown
  <2>4. QED
    BY <1>1, <1>2, <1>6, <2>1, <2>2, <2>3 DEF UseKnown
<1>13. QED
  BY <1>11, <1>12

LEMMA FlaggedPush ==
  ASSUME Flagged, Push
  PROVE  OneFlagEach' /\ UseKnown'
<1>0. TypeOK /\ OneFlagEach /\ UseKnown
  BY DEF Flagged, Fits
<1>1. entries' = entries
  BY <1>0, EntriesPush
<1>2. /\ DOMAIN fresh = {1} /\ DOMAIN fresh' = {}
      /\ owned' = owned \union {fresh[1]} /\ UNCHANGED <<using, posted>>
  BY <1>0 DEF Push, TypeOK
<1>3. inUse' = inUse
  BY <1>2 DEF inUse
<1>4. QED
  BY <1>0, <1>1, <1>2, <1>3 DEF OneFlagEach, UseKnown

LEMMA FlaggedCancel ==
  ASSUME Flagged, CancelAlloc
  PROVE  OneFlagEach' /\ UseKnown'
<1>0. TypeOK /\ OneFlagEach /\ UseKnown
  BY DEF Flagged, Fits
<1>1. /\ using' = using \ {fresh[i].flag : i \in DOMAIN fresh}
      /\ fresh' = <<>> /\ DOMAIN fresh' = {} /\ UNCHANGED <<owned, posted>>
  BY DEF CancelAlloc
<1>2. Len(fresh) \in {0, 1} /\ DOMAIN fresh = 1..Len(fresh)
  <2>1. fresh \in Seq(Entry) /\ Len(fresh) = IF pc = "push" THEN 1 ELSE 0
    BY <1>0 DEF TypeOK
  <2>2. QED
    BY <2>1
<1>3. PICK n \in Nat : n = Len(entries)
  BY EntriesCount DEF Flagged
<1>4. /\ DOMAIN entries = 1..n /\ DOMAIN entries' = 1..(n - Len(fresh))
      /\ \A i \in DOMAIN entries' : entries'[i] = entries[i]
      /\ \A i \in DOMAIN fresh : entries[n] = fresh[i] /\ n \in DOMAIN entries
    <2>1. /\ DOMAIN entries = 1..n /\ DOMAIN entries' = 1..(n - Len(fresh))
          /\ Len(entries') = n - Len(fresh) /\ Len(entries') \in Nat
          /\ \A i \in 1..Len(entries') : entries'[i] = entries[i]
          /\ \A i \in 1..Len(fresh) : entries[Len(entries') + i] = fresh[i]
      BY <1>0, <1>3, EntriesCancel, EntriesType
    <2>2. \A i \in DOMAIN fresh : Len(entries') + i = n /\ n \in DOMAIN entries
      BY <1>2, <2>1
    <2>3. QED
      BY <1>2, <2>1, <2>2
<1>5. DOMAIN entries' \subseteq DOMAIN entries
  BY <1>2, <1>4
<1>6. ASSUME NEW s \in inUse'
      PROVE  s.flag \in using' /\ \E i \in DOMAIN entries' : entries'[i] = s
  <2>1. s \in inUse /\ \A i \in DOMAIN fresh : fresh[i] # s
    BY <1>0, <1>1 DEF inUse, OneFlagEach
  <2>2. PICK i \in DOMAIN entries : entries[i] = s /\ s.flag \in using
    BY <1>0, <2>1 DEF UseKnown
  <2>3. \A j \in DOMAIN fresh : i # n /\ fresh[j].flag # s.flag
    BY <1>0, <1>4, <2>1, <2>2 DEF OneFlagEach
  <2>4. i \in DOMAIN entries'
    <3>1. CASE Len(fresh) = 0
      BY <1>4, <2>2, <3>1
    <3>2. CASE Len(fresh) = 1
      <4>1. 1 \in DOMAIN fresh
        BY <1>2, <3>2
      <4>2. i \in 1..n /\ i # n
        BY <1>4, <2>2, <2>3, <4>1
      <4>3. QED
        BY <1>4, <3>2, <4>2
    <3>3. QED
      BY <1>2, <3>1, <3>2
  <2>5. QED
    BY <1>1, <1>4, <2>2, <2>3, <2>4
<1>7. OneFlagEach'
  BY <1>0, <1>1, <1>4, <1>5 DEF OneFlagEach
<1>8. QED
  BY <1>6, <1>7 DEF UseKnown

LEMMA FlaggedPost ==
  ASSUME Flagged, NEW e \in owned, Post(e)
  PROVE  OneFlagEach' /\ UseKnown'
<1>0. TypeOK /\ OneFlagEach /\ UseKnown
  BY DEF Flagged, Fits
<1>1. /\ owned' = owned \ {e} /\ posted' = Append(posted, e)
      /\ UNCHANGED <<fresh, using>> /\ entries' = entries
  BY DEF Post, allocVars, entries
<1>2. Len(posted) \in Nat /\ DOMAIN posted = 1..Len(posted)
  <2>1. posted \in Seq(Entry)
    BY <1>0, PostedType
  <2>2. QED
    BY ONLY <2>1, LenProperties
<1>3. PICK m \in Nat : m = Len(posted)
  BY <1>2
<1>4. /\ DOMAIN posted = 1..m /\ DOMAIN posted' = 1..(m + 1)
      /\ \A i \in 1..m : posted'[i] = posted[i]
      /\ posted'[m + 1] = e
  BY <1>0, <1>1, <1>3, AppendProperties DEF TypeOK
<1>5. \A i \in 1..(m + 1) : i \in 1..m \/ i = m + 1
  OBVIOUS
<1>6. \A i \in 1..m : i \in 1..(m + 1)
  OBVIOUS
<1>7. \A s : s \in inUse' <=> s \in inUse
  <2>1. \A s : (\E i \in DOMAIN posted' : posted'[i] = s)
                 <=> s = e \/ \E i \in DOMAIN posted : posted[i] = s
    BY <1>4, <1>5, <1>6
  <2>2. QED
    BY <1>1, <2>1 DEF inUse
<1>8. UseKnown'
  BY <1>0, <1>1, <1>7 DEF UseKnown
<1>9. OneFlagEach'
  <2>1. \A i \in 1..m : posted[i] # e /\ posted[i] \notin owned
    BY <1>0, <1>4 DEF OneFlagEach
  <2>2. \A i, j \in DOMAIN posted' : posted'[i] = posted'[j] => i = j
    BY <1>0, <1>4, <1>5, <2>1 DEF OneFlagEach
  <2>3. \A i \in DOMAIN posted' : posted'[i] \notin owned'
    BY <1>1, <1>4, <1>5, <2>1
  <2>4. \A i \in DOMAIN fresh : fresh[i] # e
    BY <1>0 DEF OneFlagEach
  <2>5. \A i \in DOMAIN fresh : /\ fresh[i] \notin owned'
                                /\ \A j \in DOMAIN posted' : fresh[i] # posted'[j]
    BY <1>0, <1>1, <1>4, <1>5, <2>4 DEF OneFlagEach
  <2>6. QED
    BY <1>0, <1>1, <2>2, <2>3, <2>5 DEF OneFlagEach
<1>10. QED
  BY <1>8, <1>9

LEMMA FlaggedAbandon ==
  ASSUME Flagged, NEW e \in owned, Abandon(e)
  PROVE  OneFlagEach' /\ UseKnown'
<1>1. /\ owned' = owned \ {e} /\ UNCHANGED <<fresh, using, posted>> /\ entries' = entries
  BY DEF Abandon, allocVars, entries
<1>2. inUse' \subseteq inUse
  BY <1>1 DEF inUse
<1>3. QED
  BY <1>1, <1>2 DEF Flagged, OneFlagEach, UseKnown

(* The flag that is cleared is that of no other section in use.            *)
LEMMA FlaggedComplete ==
  ASSUME Flagged, Complete
  PROVE  OneFlagEach' /\ UseKnown'
<1>0. TypeOK /\ OneFlagEach /\ UseKnown
  BY DEF Flagged, Fits
<1>1. /\ posted # <<>> /\ using' = using \ {Head(posted).flag} /\ posted' = Tail(posted)
      /\ UNCHANGED <<fresh, owned>> /\ entries' = entries
  BY DEF Complete, allocVars, entries
<1>2. /\ Len(posted) \in Nat \ {0} /\ DOMAIN posted = 1..Len(posted)
      /\ Head(posted) = posted[1] /\ DOMAIN posted' = 1..(Len(posted) - 1)
      /\ \A i \in DOMAIN posted' : posted'[i] = posted[i + 1]
  BY <1>0, <1>1, HeadTailProperties, EmptySeq DEF TypeOK
<1>3. 1 \in DOMAIN posted /\ \A i \in DOMAIN posted' : i + 1 \in DOMAIN posted /\ i + 1 # 1
  BY <1>2
<1>4. \A s \in inUse' : s \in inUse /\ s # posted[1]
  <2>1. \A s \in owned : s # posted[1]
    BY <1>0, <1>3 DEF OneFlagEach
  <2>2. \A i \in DOMAIN fresh : fresh[i] # posted[1]
    BY <1>0, <1>3 DEF OneFlagEach
  <2>3. \A i \in DOMAIN posted' : posted'[i] # posted[1]
    BY <1>0, <1>2, <1>3 DEF OneFlagEach
  <2>4. QED
    BY <1>1, <1>2, <1>3, <2>1, <2>2, <2>3 DEF inUse
<1>5. ASSUME NEW s \in inUse'
      PROVE  s.flag \in using' /\ \E i \in DOMAIN entries' : entries'[i] = s
  <2>1. PICK i \in DOMAIN entries : entries[i] = s /\ s.flag \in using
    BY <1>0, <1>4 DEF UseKnown
  <2>2. posted[1] \in inUse
    BY <1>3, InUseAre
  <2>3. PICK j \in DOMAIN entries : entries[j] = posted[1]
    BY <1>0, <2>2 DEF UseKnown
  <2>4. s.flag # posted[1].flag
    BY <1>0, <1>4, <2>1, <2>3 DEF OneFlagEach
  <2>5. QED
    BY <1>1, <1>2, <2>1, <2>4
<1>6. OneFlagEach'
  <2>1. \A i, j \in DOMAIN posted' : posted'[i] = posted'[j] => i = j
    <3>1. \A i, j \in DOMAIN posted' : i \in Int /\ j \in Int
      BY <1>2
    <3>2. \A i, j \in DOMAIN posted' : posted[i + 1] = posted[j + 1] => i + 1 = j + 1
      BY <1>0, <1>3 DEF OneFlagEach
    <3>3. QED
      BY <1>2, <3>1, <3>2
  <2>2. QED
    BY <1>0, <1>1, <1>2, <1>3, <2>1 DEF OneFlagEach
<1>7. QED
  BY <1>5, <1>6 DEF UseKnown

(* What is released is not in use.                                         *)
LEMMA FlaggedRelease ==
  ASSUME Flagged, ReleaseDone
  PROVE  OneFlagEach' /\ UseKnown'
<1>0. TypeOK /\ OneFlagEach /\ UseKnown
  BY DEF Flagged, Fits
<1>1. /\ popped # <<>> /\ popped' = <<>> /\ popped[1].flag \notin using
      /\ UNCHANGED <<toRelease, fresh, using, owned, posted>>
  BY DEF ReleaseDone, allocVars
<1>2. PICK n \in Nat : n = Len(entries)
  BY EntriesCount DEF Flagged
<1>3. /\ DOMAIN entries = 1..n /\ DOMAIN entries' = 1..(n - 1)
      /\ \A i \in 1..(n - 1) : entries'[i] = entries[i + 1]
      /\ popped[1] = entries[1]
  BY <1>0, <1>1, <1>2, EntriesRelease, EntriesType
<1>4. OneFlagEach'
  <2>1. \A i \in 1..(n - 1) : i + 1 \in 1..n
    OBVIOUS
  <2>2. \A i, j \in 1..(n - 1) : i + 1 = j + 1 => i = j
    OBVIOUS
  <2>3. \A i, j \in DOMAIN entries' : entries'[i].flag = entries'[j].flag => i = j
    BY <1>0, <1>3, <2>1, <2>2 DEF OneFlagEach
  <2>4. QED
    BY <1>0, <1>1, <2>3 DEF OneFlagEach
<1>5. ASSUME NEW s \in inUse
      PROVE  s.flag \in using /\ \E i \in DOMAIN entries' : entries'[i] = s
  <2>1. PICK i \in 1..n : entries[i] = s /\ s.flag \in using
    BY <1>0, <1>3 DEF UseKnown
  <2>2. i # 1
    BY <1>1, <1>3, <2>1
  <2>3. i - 1 \in 1..(n - 1) /\ (i - 1) + 1 = i
    BY <2>1, <2>2
  <2>4. QED
    BY <1>3, <2>1, <2>3
<1>6. inUse' = inUse
  BY <1>1 DEF inUse
<1>7. QED
  BY <1>1, <1>4, <1>5, <1>6 DEF UseKnown

LEMMA FlaggedNext == Flagged /\ [Next]_vars => Flagged'
<1> SUFFICES ASSUME Flagged, [Next]_vars PROVE OneFlagEach' /\ UseKnown'
  BY FitsNext DEF Flagged
<1>0. TypeOK /\ Fits
  BY DEF Flagged, Fits
<1>1. CASE UNCHANGED vars
  BY <1>1, FlaggedSame DEF vars, entries
<1>2. ASSUME NEW l \in Lens, AllocBegin(l) PROVE OneFlagEach' /\ UseKnown'
  BY <1>2, FlaggedSame DEF AllocBegin, entries
<1>3. ASSUME WrapSpaceLoad \/ WrapOrderLoad \/ FitSpaceLoad \/ FitOrderLoad
      PROVE  OneFlagEach' /\ UseKnown'
  <2>1. ASSUME NEW p, Goto(p) PROVE OneFlagEach' /\ UseKnown'
    BY <2>1, FlaggedSame DEF Goto, entries
  <2>2. QED
    BY <1>0, <1>3, <2>1, AllocLoads, GrantFits, FlaggedGrant
<1>4. CASE Pop
  BY <1>0, <1>4, EntriesPop, FlaggedSame DEF Pop, allocVars
<1>5. QED
  BY <1>1, <1>2, <1>3, <1>4, FlaggedPush, FlaggedCancel, FlaggedPost, FlaggedAbandon,
     FlaggedComplete, FlaggedRelease DEF Next, AllocStep

-----------------------------------------------------------------------------
(* Sections between done and index. Neither the drop of a send_msg nor the *)
(* lengths matter to the release task; the lengths do to alloc.            *)
LEMMA EntryBounds ==
  ASSUME Fits
  PROVE  \A i \in DOMAIN entries : /\ entries[i].addr \in Nat /\ entries[i].len \in Nat
                                   /\ entries[i].addr + entries[i].len <= right
<1>1. \A i \in DOMAIN entries : entries[i] \in Entry
  BY EntriesType, ElementOfSeq DEF Fits
<1>2. QED
  BY <1>1, EntryParts DEF Fits, SectionsFit

LEMMA LayoutSame ==
  ASSUME Layout, entries' = entries, UNCHANGED <<index, done>>
  PROVE  Layout'
BY DEF Layout, Above, Ahead

LEMMA LayoutFewer ==
  ASSUME Layout, DOMAIN entries' \subseteq DOMAIN entries,
         \A i \in DOMAIN entries' : entries'[i] = entries[i], UNCHANGED <<index, done>>
  PROVE  Layout'
BY DEF Layout, Above, Ahead

LEMMA LayoutGrant ==
  ASSUME Fits, Layout, pc \notin {"idle", "push"}, NEW a \in Nat, Grant(a), a + want <= right,
         \/ a = index /\ (done <= index \/ index + want < done)
         \/ a = left /\ done <= index /\ want < done
  PROVE  Layout'
<1>1. PICK n \in Nat : n = Len(entries)
  BY EntriesCount
<1>2. /\ index \in Nat /\ done \in Nat /\ want \in Nat /\ right \in Nat
      /\ DOMAIN entries = 1..n
  BY <1>1, GrantFits, EntriesType DEF Fits
<1>3. PICK f \in Flags :
        /\ fresh' = <<[flag |-> f, addr |-> a, len |-> want]>>
        /\ [flag |-> f, addr |-> a, len |-> want] \in Entry
  BY FitsGrant
<1> DEFINE e == [flag |-> f, addr |-> a, len |-> want]
<1>4. /\ index' = a + want /\ done' = done /\ e.addr = a /\ e.len = want
      /\ UNCHANGED <<toRelease, popped>>
  BY DEF Grant
<1> HIDE DEF e
<1>5. /\ DOMAIN entries' = 1..(n + 1)
      /\ \A i \in 1..n : entries'[i] = entries[i]
      /\ entries'[n + 1] = e
  BY <1>1, <1>3, <1>4, EntriesGrant DEF Fits, e
<1>6. \A i \in 1..n : entries[i].addr \in Nat /\ entries[i].len \in Nat
  BY <1>2, EntryBounds
<1>7. \A i \in 1..n :
        \/ done <= entries[i].addr /\ (done <= index => entries[i].addr + entries[i].len <= index)
        \/ done > index /\ entries[i].addr + entries[i].len <= index
  BY <1>2 DEF Layout, Above
<1>8. \A i \in 1..n :
        \/ done <= entries[i].addr /\ (done <= index' => entries[i].addr + entries[i].len <= index')
        \/ done > index' /\ entries[i].addr + entries[i].len <= index'
  BY <1>2, <1>4, <1>6, <1>7 DEF left
<1>9. \/ done <= a /\ (done <= index' => a + want <= index')
      \/ done > index' /\ a + want <= index'
  BY <1>2, <1>4 DEF left
<1>10. \A i \in 1..n :
         \/ done <= entries[i].addr /\ ~(done <= a)
         \/ (done <= entries[i].addr <=> done <= a) /\ entries[i].addr + entries[i].len <= a
  BY <1>2, <1>6, <1>7 DEF left
<1>11. \A i \in 1..(n + 1) : i \in 1..n \/ i = n + 1
  OBVIOUS
<1>12. \A i, j \in 1..(n + 1) : i < j => i \in 1..n /\ (j \in 1..n \/ j = n + 1)
  OBVIOUS
<1>13. \A i \in 1..(n + 1) :
         \/ Above(i)' /\ (done' <= index' => entries'[i].addr + entries'[i].len <= index')
         \/ done' > index' /\ entries'[i].addr + entries'[i].len <= index'
  BY <1>4, <1>5, <1>8, <1>9, <1>11 DEF Above
<1>14. ASSUME NEW i \in 1..(n + 1), NEW j \in 1..(n + 1), i < j
       PROVE  \/ Above(i)' /\ ~Above(j)'
              \/ (Above(i)' <=> Above(j)') /\ Ahead(i, j)'
  <2>1. CASE j \in 1..n
    <3>1. i \in 1..n
      BY <1>12, <1>14
    <3>2. \/ Above(i) /\ ~Above(j)
          \/ (Above(i) <=> Above(j)) /\ Ahead(i, j)
      BY <1>2, <1>14, <2>1, <3>1 DEF Layout
    <3>3. QED
      BY <1>4, <1>5, <2>1, <3>1, <3>2 DEF Above, Ahead
  <2>2. CASE j = n + 1
    <3>1. i \in 1..n
      BY <1>12, <1>14
    <3>2. QED
      BY <1>4, <1>5, <1>10, <2>2, <3>1 DEF Above, Ahead
  <2>3. QED
    BY <1>12, <1>14, <2>1, <2>2
<1>15. QED
  BY <1>5, <1>13, <1>14 DEF Layout

LEMMA LayoutRelease ==
  ASSUME Fits, Layout, ReleaseDone
  PROVE  Layout' /\ (done <= index => done <= done' /\ done' <= index)
<1>1. PICK n \in Nat : n = Len(entries)
  BY EntriesCount
<1>2. /\ popped # <<>> /\ popped' = <<>> /\ done' = Advance(popped[1].len)
      /\ UNCHANGED <<index, toRelease, fresh>>
  BY DEF ReleaseDone, allocVars
<1>3. /\ DOMAIN entries = 1..n /\ n >= 1 /\ DOMAIN entries' = 1..(n - 1)
      /\ \A i \in 1..(n - 1) : entries'[i] = entries[i + 1]
      /\ popped[1] = entries[1]
  BY <1>1, <1>2, EntriesRelease, EntriesType DEF Fits
<1>4. index \in Nat /\ done \in Nat /\ right \in Nat
  BY GrantFits
<1>5. \A i \in 1..n : /\ entries[i].addr \in Nat /\ entries[i].len \in Nat
                      /\ entries[i].addr + entries[i].len <= right
  BY <1>3, EntryBounds
<1>6. done' = IF done + entries[1].len > right THEN entries[1].len ELSE done + entries[1].len
  BY <1>2, <1>3, <1>4, <1>5 DEF Advance, left
<1>7. 1 \in 1..n /\ \A i \in 1..(n - 1) : i + 1 \in 1..n /\ 1 < i + 1
  BY <1>3
<1>8. \A i \in 1..n :
        \/ done <= entries[i].addr /\ (done <= index => entries[i].addr + entries[i].len <= index)
        \/ done > index /\ entries[i].addr + entries[i].len <= index
  BY <1>3 DEF Layout, Above
<1>9. \A i, j \in 1..n : i < j =>
        \/ done <= entries[i].addr /\ ~(done <= entries[j].addr)
        \/ /\ done <= entries[i].addr <=> done <= entries[j].addr
           /\ entries[i].addr + entries[i].len <= entries[j].addr
  BY <1>3 DEF Layout, Above, Ahead
<1>10. done <= index => done <= done' /\ done' <= index
  BY <1>4, <1>5, <1>6, <1>7, <1>8
<1>11. \A j \in 1..n : 1 < j =>
         \/ done' <= entries[j].addr /\ (done' <= index => entries[j].addr + entries[j].len <= index)
         \/ done' > index /\ entries[j].addr + entries[j].len <= index
  BY <1>4, <1>5, <1>6, <1>7, <1>8, <1>9
<1>12. ASSUME NEW i \in 1..n, NEW j \in 1..n, 1 < i, i < j
       PROVE  \/ done' <= entries[i].addr /\ ~(done' <= entries[j].addr)
              \/ /\ done' <= entries[i].addr <=> done' <= entries[j].addr
                 /\ entries[i].addr + entries[i].len <= entries[j].addr
  <2>1. 1 < j
    BY <1>12
  <2>2. CASE done <= entries[1].addr
    <3>1. done' = done + entries[1].len /\ done' <= entries[1].addr + entries[1].len
      BY <1>4, <1>5, <1>6, <1>7, <2>2
    <3>2. \A k \in 1..n : 1 < k => (done' <= entries[k].addr <=> done <= entries[k].addr)
      BY <1>4, <1>5, <1>7, <1>9, <2>2, <3>1
    <3>3. QED
      BY <1>9, <1>12, <2>1, <3>2
  <2>3. CASE ~(done <= entries[1].addr)
    <3>1. /\ done > index /\ entries[1].addr + entries[1].len <= index
          /\ \A k \in 1..n : 1 < k => /\ ~(done <= entries[k].addr)
                                      /\ entries[1].addr + entries[1].len <= entries[k].addr
      BY <1>7, <1>8, <1>9, <2>3
    <3>2. entries[i].addr + entries[i].len <= entries[j].addr
      BY <1>9, <1>12, <2>1, <3>1
    <3>3. CASE done + entries[1].len > right
      BY <1>4, <1>5, <1>6, <1>7, <1>12, <2>1, <3>1, <3>2, <3>3
    <3>4. CASE ~(done + entries[1].len > right)
      <4>1. \A k \in 1..n : 1 < k => ~(done' <= entries[k].addr)
        BY <1>4, <1>5, <1>6, <1>7, <3>1, <3>4
      <4>2. QED
        BY <1>12, <2>1, <3>2, <4>1
    <3>5. QED
      BY <3>3, <3>4
  <2>4. QED
    BY <2>2, <2>3
<1>13. \A i, j \in 1..(n - 1) : i < j => i + 1 < j + 1
  OBVIOUS
<1>14. \A i \in 1..(n - 1) :
         \/ Above(i)' /\ (done' <= index' => entries'[i].addr + entries'[i].len <= index')
         \/ done' > index' /\ entries'[i].addr + entries'[i].len <= index'
  BY <1>2, <1>3, <1>7, <1>11 DEF Above
<1>15. \A i, j \in 1..(n - 1) : i < j =>
         \/ Above(i)' /\ ~Above(j)'
         \/ (Above(i)' <=> Above(j)') /\ Ahead(i, j)'
  BY <1>3, <1>7, <1>12, <1>13 DEF Above, Ahead
<1>16. QED
  BY <1>3, <1>10, <1>14, <1>15 DEF Layout

(* Multiples of a length.                                                  *)
LEMMA GridNext ==
  ASSUME NEW l \in Nat, NEW r \in Nat, NEW x \in Nat, x + l <= r,
         \E m \in 0..r : x = m * l
  PROVE  \E m \in 0..r : x + l = m * l
<1>1. PICK m \in 0..r : x = m * l
  OBVIOUS
<1>2. CASE l = 0
  BY <1>1, <1>2
<1>3. CASE l > 0
  <2>1. x + l = (m + 1) * l
    BY <1>1
  <2>2. m <= m * l
    BY <1>3
  <2>3. m + 1 \in 0..r
    BY <1>1, <1>3, <2>2
  <2>4. QED
    BY <2>1, <2>3
<1>4. QED
  BY <1>2, <1>3

LEMMA GridLess ==
  ASSUME NEW l \in Nat, NEW a \in Nat, NEW b \in Nat, b * l < a * l + l
  PROVE  b * l <= a * l
<1>1. CASE b <= a
  BY <1>1
<1>2. CASE b > a
  <2>1. PICK c \in Nat : b = a + 1 + c
    BY <1>2
  <2>2. b * l = a * l + l + c * l /\ c * l >= 0
    BY <2>1
  <2>3. QED
    BY <2>2
<1>3. QED
  BY <1>1, <1>2

-----------------------------------------------------------------------------
(* Where alloc wraps around only when done is not ahead of index, the      *)
(* layout is kept, whatever the lengths.                                   *)
WrapsBehind == pc \in {"wrapSpace", "wrapOrder"} => done <= index

Laid == Fits /\ Layout /\ StillBehind

LEMMA LaidInit == Init => Laid
<1> SUFFICES ASSUME Init PROVE Laid
  OBVIOUS
<1>1. entries = <<>> /\ DOMAIN entries = {}
  BY DEF Init, entries
<1>2. Layout /\ StillBehind
  BY <1>1 DEF Init, Layout, StillBehind
<1>3. QED
  BY <1>2, FitsInit DEF Laid

LEMMA LaidSame ==
  ASSUME Laid, entries' = entries, UNCHANGED <<index, done>>,
         \/ pc' = pc /\ want' = want
         \/ pc' # "wrapOrder"
         \/ want' < done
  PROVE  Layout' /\ StillBehind'
BY LayoutSame DEF Laid, StillBehind

LEMMA LaidGrant ==
  ASSUME Laid, NEW a \in Nat, Grant(a),
         \/ pc = "wrapOrder" /\ done <= index /\ a = left
         \/ pc \in {"fitSpace", "fitOrder"} /\ a = index
            /\ (done <= index \/ index + want < done)
  PROVE  Layout' /\ StillBehind'
<1>1. Fits /\ Layout /\ (pc = "wrapOrder" => want < done)
  BY DEF Laid, StillBehind
<1>2. a + want <= right /\ pc \notin {"idle", "push"}
  BY <1>1, GrantFits
<1>3. Layout'
  BY <1>1, <1>2, LayoutGrant
<1>4. StillBehind'
  BY DEF Grant, StillBehind
<1>5. QED
  BY <1>3, <1>4

LEMMA CancelEntries ==
  ASSUME TypeOK, CancelAlloc
  PROVE  /\ DOMAIN entries' \subseteq DOMAIN entries
         /\ \A i \in DOMAIN entries' : entries'[i] = entries[i]
<1>1. Len(fresh) \in Nat
  BY DEF TypeOK
<1>2. /\ DOMAIN entries' = 1..Len(entries') /\ Len(entries') = Len(entries) - Len(fresh)
      /\ \A i \in 1..Len(entries') : entries'[i] = entries[i]
  BY EntriesCancel
<1>3. DOMAIN entries = 1..Len(entries) /\ Len(entries) \in Nat
  BY EntriesType
<1>4. QED
  BY <1>1, <1>2, <1>3

LEMMA LaidCancel ==
  ASSUME Laid, CancelAlloc
  PROVE  Layout' /\ StillBehind'
<1>1. TypeOK /\ Layout
  BY DEF Laid, Fits
<1>2. pc' = "idle" /\ UNCHANGED <<index, done>>
  BY DEF CancelAlloc
<1>3. Layout'
  BY <1>1, <1>2, CancelEntries, LayoutFewer
<1>4. QED
  BY <1>2, <1>3 DEF StillBehind

(* Before index done only grows, so what alloc saw of it stays true.       *)
LEMMA LaidRelease ==
  ASSUME Laid, WrapsBehind, ReleaseDone
  PROVE  Layout' /\ StillBehind'
<1>1. Fits /\ Layout /\ StillBehind
  BY DEF Laid
<1>2. Layout' /\ (done <= index => done <= done')
  BY <1>1, LayoutRelease
<1>3. UNCHANGED <<pc, want>>
  BY DEF ReleaseDone, allocVars
<1>4. want \in Nat /\ done \in Nat /\ done' \in Nat
  BY <1>1, FitsNext, GrantFits DEF Next, Fits, TypeOK
<1>5. StillBehind'
  BY <1>1, <1>2, <1>3, <1>4 DEF StillBehind, WrapsBehind
<1>6. QED
  BY <1>2, <1>5

LEMMA LaidNext ==
  ASSUME Laid, WrapsBehind, [Next]_vars
  PROVE  Laid'
<1> SUFFICES Layout' /\ StillBehind'
  BY FitsNext DEF Laid
<1>0. Fits /\ TypeOK
  BY DEF Laid, Fits
<1>1. CASE UNCHANGED vars
  BY <1>1, LaidSame DEF vars, entries
<1>2. ASSUME NEW k \in Lens, AllocBegin(k) PROVE Layout' /\ StillBehind'
  <2>1. entries' = entries /\ UNCHANGED <<index, done>> /\ pc' # "wrapOrder"
    BY <1>2 DEF AllocBegin, entries
  <2>2. QED
    BY <2>1, LaidSame
<1>3. ASSUME WrapSpaceLoad \/ WrapOrderLoad \/ FitSpaceLoad \/ FitOrderLoad
      PROVE  Layout' /\ StillBehind'
  <2>1. ASSUME NEW p, Goto(p), p = "wrapOrder" => want < done
        PROVE  Layout' /\ StillBehind'
    <3>1. pc' = p /\ UNCHANGED <<index, done, want>> /\ entries' = entries
      BY <2>1 DEF Goto, entries
    <3>2. QED
      BY <2>1, <3>1, LaidSame
  <2>2. QED
    BY <1>0, <1>3, <2>1, AllocLoads, GrantFits, LaidGrant
<1>4. CASE Push
  <2>1. entries' = entries /\ UNCHANGED <<index, done>> /\ pc' # "wrapOrder"
    BY <1>0, <1>4, EntriesPush DEF Push
  <2>2. QED
    BY <2>1, LaidSame
<1>5. ASSUME NEW e \in owned, Post(e) \/ Abandon(e) PROVE Layout' /\ StillBehind'
  BY <1>5, LaidSame DEF Post, Abandon, entries, allocVars
<1>6. CASE Complete
  BY <1>6, LaidSame DEF Complete, entries, allocVars
<1>7. CASE Pop
  BY <1>0, <1>7, EntriesPop, LaidSame DEF Pop, allocVars
<1>8. QED
  BY <1>1, <1>2, <1>3, <1>4, <1>5, <1>6, <1>7, LaidCancel, LaidRelease DEF Next, AllocStep

-----------------------------------------------------------------------------
(* Messages of one length.                                                 *)
OnLine(l, x) == \E m \in 0..right : x = m * l

Placed == Laid /\ OnGrid

LEMMA GridMore ==
  ASSUME NEW l \in Nat, NEW x \in Nat, OnLine(l, x), x + l <= right
  PROVE  OnLine(l, x + l) /\ OnLine(l, l)
<1>1. right \in Nat /\ l <= right /\ 0 + l <= right /\ 0 + l = l /\ 0 \in 0..right /\ 0 = 0 * l
  BY SendRingAssumption DEF right
<1>2. OnLine(l, x + l)
  BY <1>1, GridNext DEF OnLine
<1>3. \E m \in 0..right : 0 = m * l
  BY <1>1
<1>4. \E m \in 0..right : 0 + l = m * l
  BY <1>1, <1>3, GridNext
<1>5. QED
  BY <1>1, <1>2, <1>4 DEF OnLine

LEMMA GridFacts ==
  ASSUME NEW l \in Nat, Lens = {l}
  PROVE  OnGrid <=> /\ OnLine(l, index) /\ OnLine(l, done)
                    /\ \A i \in DOMAIN entries : entries[i].len = l
                    /\ pc \in {"wrapSpace", "wrapOrder", "fitSpace", "fitOrder"} => want = l
BY DEF OnGrid, OnLine

(* In the wrapping branch done is not ahead of index: no multiple of the   *)
(* length lies between index and the end of the buffer.                    *)
LEMMA GridBehind ==
  ASSUME NEW l \in Nat, Lens = {l}, Fits, OnGrid
  PROVE  WrapsBehind
<1> SUFFICES ASSUME pc \in {"wrapSpace", "wrapOrder"} PROVE done <= index
  BY DEF WrapsBehind
<1>1. OnLine(l, index) /\ OnLine(l, done) /\ want = l
  BY GridFacts
<1>2. PICK a \in 0..right : index = a * l
  BY <1>1 DEF OnLine
<1>3. PICK b \in 0..right : done = b * l
  BY <1>1 DEF OnLine
<1>4. /\ a \in Nat /\ b \in Nat /\ index + l > right /\ done <= right
      /\ index \in Nat /\ done \in Nat /\ right \in Nat
  BY <1>1, GrantFits DEF Fits, BranchKept
<1>5. done < index + l
  BY <1>4
<1>6. QED
  BY <1>2, <1>3, <1>4, <1>5, GridLess

LEMMA GridInit == ASSUME NEW l \in Nat, Lens = {l} PROVE Init => OnGrid
<1> SUFFICES ASSUME Init PROVE OnGrid
  OBVIOUS
<1>1. entries = <<>> /\ DOMAIN entries = {}
  BY DEF Init, entries
<1>2. 0 \in 0..right /\ 0 = 0 * l
  BY SendRingAssumption DEF right
<1>3. OnLine(l, 0)
  BY <1>2 DEF OnLine
<1>4. QED
  BY <1>1, <1>3, GridFacts DEF Init, left

LEMMA GridSame ==
  ASSUME OnGrid, entries' = entries, UNCHANGED <<index, done>>,
         \/ pc' = pc /\ want' = want
         \/ pc' \in {"idle", "push"}
         \/ want' \in Lens
  PROVE  OnGrid'
BY DEF OnGrid, right

LEMMA GridGrant ==
  ASSUME NEW l \in Nat, Lens = {l}, Fits, OnGrid, NEW a \in Nat, Grant(a),
         \/ pc = "wrapOrder" /\ a = left
         \/ pc \in {"fitSpace", "fitOrder"} /\ a = index
  PROVE  OnGrid'
<1>1. /\ OnLine(l, index) /\ OnLine(l, done) /\ want = l
      /\ \A i \in DOMAIN entries : entries[i].len = l
  BY GridFacts
<1>2. a + want <= right /\ pc \notin {"idle", "push"}
  BY GrantFits
<1>3. OnLine(l, a + l)
  <2>1. 0 \in 0..right /\ 0 = 0 * l
    BY SendRingAssumption DEF right
  <2>2. OnLine(l, 0)
    BY <2>1 DEF OnLine
  <2>3. OnLine(l, a)
    BY <1>1, <2>2 DEF left
  <2>4. QED
    BY <1>1, <1>2, <2>3, GridMore
<1>4. PICK f \in Flags :
        /\ fresh' = <<[flag |-> f, addr |-> a, len |-> want]>>
        /\ [flag |-> f, addr |-> a, len |-> want] \in Entry
  BY <1>2, FitsGrant
<1>5. index' = a + l /\ done' = done /\ pc' = "push" /\ UNCHANGED <<toRelease, popped>>
  BY <1>1 DEF Grant
<1>6. \A i \in DOMAIN entries' : entries'[i].len = l
  <2>1. PICK n \in Nat : n = Len(entries)
    BY EntriesCount
  <2>2. /\ DOMAIN entries = 1..n /\ DOMAIN entries' = 1..(n + 1)
        /\ \A i \in 1..n : entries'[i] = entries[i]
        /\ entries'[n + 1].len = want
    BY <1>2, <1>4, <1>5, <2>1, EntriesGrant, EntriesType DEF Fits
  <2>3. \A i \in 1..(n + 1) : i \in 1..n \/ i = n + 1
    OBVIOUS
  <2>4. QED
    BY <1>1, <2>2, <2>3
<1>7. QED
  BY <1>1, <1>3, <1>5, <1>6 DEF OnGrid, OnLine, right

LEMMA GridRelease ==
  ASSUME NEW l \in Nat, Lens = {l}, Fits, OnGrid, ReleaseDone
  PROVE  OnGrid'
<1>1. /\ OnLine(l, index) /\ OnLine(l, done)
      /\ \A i \in DOMAIN entries : entries[i].len = l
  BY GridFacts
<1>2. PICK n \in Nat : n = Len(entries)
  BY EntriesCount
<1>3. /\ popped # <<>> /\ popped' = <<>> /\ done' = Advance(popped[1].len)
      /\ UNCHANGED <<index, pc, want, toRelease, fresh>>
  BY DEF ReleaseDone, allocVars
<1>4. /\ DOMAIN entries = 1..n /\ n >= 1 /\ DOMAIN entries' = 1..(n - 1)
      /\ \A i \in 1..(n - 1) : entries'[i] = entries[i + 1]
      /\ popped[1] = entries[1]
  BY <1>2, <1>3, EntriesRelease, EntriesType DEF Fits
<1>5. 1 \in 1..n /\ \A i \in 1..(n - 1) : i + 1 \in 1..n
  BY <1>4
<1>6. \A i \in DOMAIN entries' : entries'[i].len = l
  BY <1>1, <1>4, <1>5
<1>7. /\ popped[1].len = l /\ l <= right /\ done \in Nat /\ right \in Nat
  BY <1>1, <1>4, <1>5, EntryBounds, GrantFits
<1>8. OnLine(l, done')
  <2>1. 0 \in 0..right /\ 0 = 0 * l /\ 0 + l = l
    BY <1>7
  <2>2. OnLine(l, 0)
    BY <2>1 DEF OnLine
  <2>3. OnLine(l, l)
    BY <1>7, <2>1, <2>2, GridMore
  <2>4. CASE done + l > right
    BY <1>3, <1>7, <2>1, <2>3, <2>4 DEF Advance, left
  <2>5. CASE ~(done + l > right)
    <3>1. OnLine(l, done + l)
      BY <1>1, <1>7, <2>5, GridMore
    <3>2. QED
      BY <1>3, <1>7, <2>5, <3>1 DEF Advance
  <2>6. QED
    BY <2>4, <2>5
<1>9. QED
  BY <1>1, <1>3, <1>6, <1>8 DEF OnGrid, OnLine, right

LEMMA OnGridNext ==
  ASSUME NEW l \in Nat, Lens = {l}, Fits, OnGrid, [Next]_vars
  PROVE  OnGrid'
<1>0. TypeOK
  BY DEF Fits
<1>1. CASE UNCHANGED vars
  BY <1>1, GridSame DEF vars, entries
<1>2. ASSUME NEW k \in Lens, AllocBegin(k) PROVE OnGrid'
  <2>1. entries' = entries /\ UNCHANGED <<index, done>> /\ want' \in Lens
    BY <1>2 DEF AllocBegin, entries
  <2>2. QED
    BY <2>1, GridSame
<1>3. ASSUME WrapSpaceLoad \/ WrapOrderLoad \/ FitSpaceLoad \/ FitOrderLoad PROVE OnGrid'
  <2>1. ASSUME NEW p, Goto(p), pc \in {"wrapSpace", "wrapOrder", "fitSpace", "fitOrder"}
        PROVE  OnGrid'
    <3>1. want \in Lens
      BY <2>1 DEF OnGrid
    <3>2. UNCHANGED <<index, done, want>> /\ entries' = entries
      BY <2>1 DEF Goto, entries
    <3>3. QED
      BY <3>1, <3>2, GridSame
  <2>2. QED
    BY <1>3, <2>1, AllocLoads, GrantFits, GridGrant
<1>4. CASE Push
  BY <1>0, <1>4, EntriesPush, GridSame DEF Push
<1>5. CASE CancelAlloc
  <2>1. pc' = "idle" /\ UNCHANGED <<index, done>>
    BY <1>5 DEF CancelAlloc
  <2>2. QED
    BY <1>0, <1>5, <2>1, CancelEntries DEF OnGrid, right
<1>6. ASSUME NEW e \in owned, Post(e) \/ Abandon(e) PROVE OnGrid'
  BY <1>6, GridSame DEF Post, Abandon, entries, allocVars
<1>7. CASE Complete
  BY <1>7, GridSame DEF Complete, entries, allocVars
<1>8. CASE Pop
  BY <1>0, <1>8, EntriesPop, GridSame DEF Pop, allocVars
<1>9. QED
  BY <1>1, <1>2, <1>3, <1>4, <1>5, <1>6, <1>7, <1>8, GridRelease DEF Next, AllocStep

LEMMA PlacedAlways == OneLength => (Spec => []Placed)
<1> SUFFICES ASSUME OneLength PROVE Spec => []Placed
  OBVIOUS
<1>1. PICK l \in Nat : Lens = {l}
  BY SendRingAssumption DEF OneLength
<1>2. Init => Placed
  BY <1>1, LaidInit, GridInit DEF Placed
<1>3. Placed /\ [Next]_vars => Placed'
  <2> SUFFICES ASSUME Placed, [Next]_vars PROVE Placed'
    OBVIOUS
  <2>1. Fits /\ Laid /\ OnGrid
    BY DEF Placed, Laid
  <2>2. WrapsBehind
    BY <1>1, <2>1, GridBehind
  <2>3. Laid'
    BY <2>1, <2>2, LaidNext
  <2>4. OnGrid'
    BY <1>1, <2>1, OnGridNext
  <2>5. QED
    BY <2>3, <2>4 DEF Placed
<1>4. QED
  BY <1>2, <1>3, PTL DEF Spec

-----------------------------------------------------------------------------
(* Messages of any length, where the channel is full before the buffer.    *)

(* From done, sections of at most m bytes come back below done only by     *)
(* wrapping around, and then the k-th ends at k * m at most.               *)
LEMMA ShortAfterWrap ==
  ASSUME Fits, InStep, NEW m \in Nat, \A l \in Lens : l <= m,
         NEW n \in Nat, n = Len(entries)
  PROVE  \A k \in 0..n : StartOf(k + 1) \in Nat
                         /\ (StartOf(k + 1) >= done \/ StartOf(k + 1) <= k * m)
<1> DEFINE Short(k) == /\ StartOf(k + 1) \in Nat
                       /\ StartOf(k + 1) >= done \/ StartOf(k + 1) <= k * m
           T == {k \in Nat : k <= n => Short(k)}
<1>1. done \in Nat /\ right \in Nat /\ DOMAIN entries = 1..n
  BY GrantFits, EntriesType DEF Fits
<1>2. 0 \in T
  BY <1>1 DEF StartOf
<1>3. ASSUME NEW k \in Nat, k + 1 <= n, Short(k)
      PROVE  Short(k + 1)
  <2>1. k + 1 \in DOMAIN entries
    BY <1>1, <1>3
  <2>2. PICK s \in Entry : s = entries[k + 1]
    BY <2>1, EntriesType, ElementOfSeq DEF Fits
  <2>3. s.addr \in Nat /\ s.len \in Nat /\ s.len <= m
    BY <2>2, EntryParts
  <2>4. s.addr = IF StartOf(k + 1) + s.len > right THEN 0 ELSE StartOf(k + 1)
    BY <2>1, <2>2 DEF InStep, left
  <2>5. StartOf(k + 1 + 1) = s.addr + s.len
    <3>1. k + 1 + 1 # 1 /\ (k + 1 + 1) - 1 = k + 1
      OBVIOUS
    <3>2. QED
      BY <2>2, <3>1 DEF StartOf
  <2>6. PICK b \in Nat : b = k * m
    OBVIOUS
  <2>7. (k + 1) * m = b + m
    BY <2>6
  <2>8. QED
    BY <1>1, <1>3, <2>3, <2>4, <2>5, <2>6, <2>7
<1> HIDE DEF Short
<1>4. \A k \in T : k \in Nat => k + 1 \in T
  BY <1>3
<1> HIDE DEF T
<1>5. Nat \subseteq T
  BY <1>2, <1>4, InductionOnNat
<1>6. \A k \in 0..n : Short(k)
  BY <1>5 DEF T
<1>7. QED
  BY <1>6 DEF Short

(* So done is never ahead of an index that needs to wrap around: there are *)
(* not that many sections between them.                                    *)
LEMMA RoomBehind ==
  ASSUME RoomForQueue, Fits, InStep
  PROVE  WrapsBehind
<1> SUFFICES ASSUME pc \in {"wrapSpace", "wrapOrder"}, done > index PROVE FALSE
  BY GrantFits DEF WrapsBehind
<1>1. PICK m \in 0..Cap : (QueueCap + 2) * m <= Cap /\ \A l \in Lens : l <= m
  BY DEF RoomForQueue
<1>2. PICK n \in Nat : n = Len(entries)
  BY EntriesCount
<1>3. m \in Nat /\ QueueCap \in Nat /\ Cap \in Nat /\ right = Cap
  BY SendRingAssumption DEF right
<1>4. n <= QueueCap + 1
  <2>1. /\ popped \in Seq(Entry) /\ toRelease \in Seq(Entry) /\ fresh \in Seq(Entry)
        /\ Len(popped) <= 1 /\ Len(toRelease) <= QueueCap /\ Len(fresh) = 0
    BY DEF Fits, TypeOK
  <2>2. /\ popped \o toRelease \in Seq(Entry)
        /\ Len(popped \o toRelease) = Len(popped) + Len(toRelease)
    BY <2>1, ConcatProperties
  <2>3. Len(entries) = Len(popped) + Len(toRelease) + Len(fresh)
    BY <2>1, <2>2, ConcatProperties DEF entries
  <2>4. Len(popped) \in Nat /\ Len(toRelease) \in Nat
    BY <2>1
  <2>5. QED
    BY <1>2, <1>3, <2>1, <2>3, <2>4
<1>5. /\ want \in Nat /\ want <= m /\ index \in Nat /\ done \in Nat
      /\ index + want > Cap
  BY <1>1, <1>3, GrantFits DEF Fits, TypeOK, BranchKept
<1>6. index = StartOf(n + 1)
  BY <1>2 DEF InStep
<1>7. index <= n * m
  <2>1. n \in 0..n
    OBVIOUS
  <2>2. index >= done \/ index <= n * m
    BY <1>1, <1>2, <1>3, <1>6, <2>1, ShortAfterWrap
  <2>3. QED
    BY <1>5, <2>2
<1>8. PICK k \in Nat : QueueCap + 1 = n + k
  BY <1>3, <1>4
<1>9. PICK b \in Nat, c \in Nat : b = n * m /\ c = k * m
  BY <1>3
<1>10. (QueueCap + 2) * m = b + c + m
  <2>1. QueueCap + 2 = n + k + 1
    BY <1>3, <1>8
  <2>2. (n + k + 1) * m = n * m + k * m + m
    BY <1>3
  <2>3. QED
    BY <1>9, <2>1, <2>2
<1>11. QED
  BY <1>1, <1>3, <1>5, <1>7, <1>9, <1>10

LEMMA LaidAlways == Orderly => (Spec => []Laid)
<1>1. CASE OneLength
  <2>1. Placed => Laid
    BY DEF Placed
  <2>2. QED
    BY <1>1, <2>1, PlacedAlways, PTL
<1>2. CASE RoomForQueue /\ NoCancel
  <2>1. Init => Laid /\ InStep
    BY LaidInit, InStepInit
  <2>2. Laid /\ InStep /\ [Next]_vars => Laid' /\ InStep'
    BY <1>2, RoomBehind, LaidNext, InStepNext DEF Laid, NoCancel, CancelAlloc
  <2>3. QED
    BY <2>1, <2>2, PTL DEF Spec
<1>3. QED
  BY <1>1, <1>2 DEF Orderly

LEMMA FlaggedAlways == Spec => []Flagged
<1>1. QED
  BY FlaggedInit, FlaggedNext, PTL DEF Spec

-----------------------------------------------------------------------------
(* The invariant the runs check, for every instance.                       *)
THEOREM SectionsOrdered == Spec => []SendInv
<1>1. Spec => [](Orderly => Laid)
  <2>1. CASE Orderly
    <3>1. Laid => (Orderly => Laid)
      OBVIOUS
    <3>2. QED
      BY <2>1, <3>1, LaidAlways, PTL
  <2>2. CASE ~Orderly
    <3>1. Orderly => Laid
      BY <2>2
    <3>2. QED
      BY <3>1, PTL
  <2>3. QED
    BY <2>1, <2>2
<1>2. Spec => [](OneLength => OnGrid)
  <2>1. CASE OneLength
    <3>1. Placed => (OneLength => OnGrid)
      BY DEF Placed
    <3>2. QED
      BY <2>1, <3>1, PlacedAlways, PTL
  <2>2. CASE ~OneLength
    <3>1. OneLength => OnGrid
      BY <2>2
    <3>2. QED
      BY <3>1, PTL
  <2>3. QED
    BY <2>1, <2>2
<1>3. Spec => [](NoCancel => InStep)
  <2>1. CASE NoCancel
    <3>1. Fits /\ InStep => (NoCancel => InStep)
      OBVIOUS
    <3>2. QED
      BY <2>1, <3>1, InStepAlways, PTL
  <2>2. CASE ~NoCancel
    <3>1. NoCancel => InStep
      BY <2>2
    <3>2. QED
      BY <3>1, PTL
  <2>3. QED
    BY <2>1, <2>2
<1>4. Flagged /\ (Orderly => Laid) /\ (OneLength => OnGrid) /\ (NoCancel => InStep) => SendInv
  BY DEF Fits, Flagged, Laid, SendInv
<1>5. QED
  BY <1>1, <1>2, <1>3, <1>4, FlaggedAlways, PTL

(* Sections laid out in order do not overlap.                              *)
LEMMA LaidApart == Flagged /\ Layout => NoOverwriteLocal
<1> SUFFICES ASSUME Flagged, Layout, NEW s \in inUse, NEW t \in inUse, s # t
             PROVE  ~Overlap(s, t)
  BY DEF NoOverwriteLocal
<1>0. Fits
  BY DEF Flagged
<1>1. PICK n \in Nat : n = Len(entries)
  BY <1>0, EntriesCount
<1>2. DOMAIN entries = 1..n /\ index \in Nat /\ done \in Nat
  BY <1>0, <1>1, EntriesType, GrantFits DEF Fits
<1>3. \A i \in 1..n : entries[i].addr \in Nat /\ entries[i].len \in Nat
  BY <1>0, <1>2, EntryBounds
<1>4. ASSUME NEW i \in 1..n, NEW j \in 1..n, i < j
      PROVE  /\ ~Overlap(entries[i], entries[j])
             /\ ~Overlap(entries[j], entries[i])
  <2>1. \/ Above(i) /\ ~Above(j)
        \/ (Above(i) <=> Above(j)) /\ Ahead(i, j)
    BY <1>2, <1>4 DEF Layout
  <2>2. ~Above(j) => done > index /\ entries[j].addr + entries[j].len <= index
    BY <1>2 DEF Layout
  <2>3. \/ entries[i].addr + entries[i].len <= entries[j].addr
        \/ entries[j].addr + entries[j].len <= entries[i].addr
    BY <1>2, <1>3, <2>1, <2>2 DEF Above, Ahead
  <2>4. QED
    BY <1>3, <2>3 DEF Overlap
<1>5. PICK i \in 1..n : entries[i] = s
  BY <1>2 DEF Flagged, UseKnown
<1>6. PICK j \in 1..n : entries[j] = t
  BY <1>2 DEF Flagged, UseKnown
<1>7. i < j \/ j < i
  BY <1>5, <1>6
<1>8. QED
  BY <1>4, <1>5, <1>6, <1>7

(* No section in use is given out again, in whatever order requests        *)
(* complete and whichever of them the card refuses: for messages of any    *)
(* lengths while the channel to the release task is full before the buffer *)
(* is, and for messages of one length without even that, and with sends    *)
(* dropped anywhere (mr.rs: SendBuffer; conn.rs: send_msg).                *)
THEOREM NoOverwriteOrderly == Orderly => (Spec => []NoOverwriteLocal)
<1> SUFFICES ASSUME Orderly PROVE Spec => []NoOverwriteLocal
  OBVIOUS
<1>1. Flagged /\ Laid => NoOverwriteLocal
  BY LaidApart DEF Laid
<1>2. QED
  BY <1>1, FlaggedAlways, LaidAlways, PTL

-----------------------------------------------------------------------------
(* For what the ring is a part of: what it keeps, while the channel is     *)
(* full before the buffer is and no send_msg is dropped in push.           *)

(* Sections are as long as some message.                                   *)
Asked ==
  /\ pc \in {"wrapSpace", "wrapOrder", "fitSpace", "fitOrder"} => want \in Lens
  /\ \A s \in inUse : s.len \in Lens

InOrder == Flagged /\ Laid /\ InStep /\ Asked

LEMMA AskedNext ==
  ASSUME Fits, Asked, [Next]_vars
  PROVE  Asked'
<1>0. TypeOK
  BY DEF Fits
<1>1. ASSUME inUse' \subseteq inUse, want' = want, pc' = pc \/ pc' = "idle"
      PROVE  Asked'
  BY <1>1 DEF Asked
<1>2. ASSUME NEW l \in Lens, AllocBegin(l) PROVE Asked'
  BY <1>2 DEF AllocBegin, Asked, inUse
<1>3. ASSUME NEW p, Goto(p), pc \in {"wrapSpace", "wrapOrder", "fitSpace", "fitOrder"}
      PROVE  Asked'
  BY <1>3 DEF Goto, Asked, inUse
<1>4. ASSUME NEW a, Grant(a), pc \in {"wrapSpace", "wrapOrder", "fitSpace", "fitOrder"}
      PROVE  Asked'
  <2>1. PICK f \in Flags : fresh' = <<[flag |-> f, addr |-> a, len |-> want]>>
    BY <1>4 DEF Grant
  <2>2. \A i \in DOMAIN fresh' : fresh'[i].len \in Lens
    BY <1>4, <2>1 DEF Asked
  <2>3. pc' = "push" /\ owned' = owned /\ posted' = posted
    BY <1>4 DEF Grant
  <2>4. QED
    BY <2>2, <2>3 DEF Asked, inUse
<1>5. CASE Push
  <2>1. fresh = <<fresh[1]>> /\ 1 \in DOMAIN fresh
    BY <1>0, <1>5, EntriesPush
  <2>2. /\ owned' = owned \union {fresh[1]} /\ fresh' = <<>> /\ posted' = posted
        /\ pc' = "idle"
    BY <1>5 DEF Push
  <2>3. inUse' \subseteq inUse
    BY <2>1, <2>2 DEF inUse
  <2>4. QED
    BY <2>2, <2>3 DEF Asked
<1>6. CASE CancelAlloc
  <2>1. pc' = "idle" /\ fresh' = <<>> /\ UNCHANGED <<owned, posted>>
    BY <1>6 DEF CancelAlloc
  <2>2. inUse' \subseteq inUse
    BY <2>1 DEF inUse
  <2>3. QED
    BY <2>1, <2>2 DEF Asked
<1>7. ASSUME NEW e \in owned, Post(e) PROVE Asked'
  <2>1. /\ owned' = owned \ {e} /\ posted' = Append(posted, e)
        /\ fresh' = fresh /\ pc' = pc /\ want' = want
    BY <1>7 DEF Post, allocVars
  <2>2. posted \in Seq(Entry) /\ e \in Entry
    BY <1>0 DEF TypeOK
  <2>3. /\ DOMAIN posted' = 1..(Len(posted) + 1) /\ Len(posted) \in Nat
        /\ \A i \in 1..Len(posted) : posted'[i] = posted[i] /\ i \in DOMAIN posted
        /\ posted'[Len(posted) + 1] = e
    BY <2>1, <2>2
  <2>4. \A i \in DOMAIN posted' : i \in 1..Len(posted) \/ i = Len(posted) + 1
    BY <2>3
  <2>5. inUse' \subseteq inUse
    BY <2>1, <2>3, <2>4 DEF inUse
  <2>6. QED
    BY <1>1, <2>1, <2>5
<1>8. ASSUME NEW e \in owned, Abandon(e) PROVE Asked'
  BY <1>8, <1>1 DEF Abandon, allocVars, inUse
<1>9. CASE Complete
  <2>1. posted \in Seq(Entry) /\ posted # <<>> /\ posted' = Tail(posted)
    BY <1>0, <1>9 DEF TypeOK, Complete
  <2>2. \A i \in DOMAIN posted' : i + 1 \in DOMAIN posted /\ posted'[i] = posted[i + 1]
    BY <2>1
  <2>3. inUse' \subseteq inUse
    BY <1>9, <2>2 DEF Complete, allocVars, inUse
  <2>4. QED
    BY <1>1, <1>9, <2>3 DEF Complete, allocVars
<1>10. CASE Pop \/ ReleaseDone \/ UNCHANGED vars
  BY <1>1, <1>10 DEF Pop, ReleaseDone, vars, allocVars, inUse
<1>11. QED
  BY <1>2, <1>3, <1>4, <1>5, <1>6, <1>7, <1>8, <1>9, <1>10, AllocLoads DEF Next, AllocStep

LEMMA InOrderInit == Init => InOrder
<1> SUFFICES ASSUME Init PROVE InOrder
  OBVIOUS
<1>1. inUse = {}
  BY DEF Init, inUse
<1>2. Asked
  BY <1>1 DEF Init, Asked
<1>3. QED
  BY <1>2, FlaggedInit, LaidInit, InStepInit DEF InOrder

LEMMA InOrderNext ==
  ASSUME RoomForQueue, InOrder, [Next]_vars, ~(CancelAlloc /\ pc = "push")
  PROVE  InOrder'
<1>1. Fits
  BY DEF InOrder, Laid
<1>2. Laid'
  BY <1>1, RoomBehind, LaidNext DEF InOrder
<1>3. InStep'
  BY <1>1, InStepNext DEF InOrder
<1>4. QED
  BY <1>1, <1>2, <1>3, FlaggedNext, AskedNext DEF InOrder

(* What tasks and requests may rely on.                                    *)
LEMMA InOrderFacts ==
  ASSUME InOrder
  PROVE  /\ \A s \in inUse : /\ s \in Entry /\ s.flag \in Flags /\ s.len \in Lens
                             /\ s.addr \in Nat /\ s.len \in Nat
                             /\ s.addr + s.len <= Cap
         /\ \A s, t \in inUse : s # t => s.flag # t.flag /\ ~Overlap(s, t)
         /\ posted \in Seq(Entry)
         /\ \A e \in owned : e \in inUse
         /\ \A i \in DOMAIN posted : posted[i] \in inUse /\ posted[i] \notin owned
         /\ \A i, j \in DOMAIN posted : posted[i] = posted[j] => i = j
         /\ pc = "push" => /\ fresh = <<fresh[1]>> /\ fresh[1] \in inUse
                           /\ fresh[1] \notin owned
                           /\ \A j \in DOMAIN posted : fresh[1] # posted[j]
<1>1. /\ TypeOK /\ SectionsFit /\ OneFlagEach /\ UseKnown /\ Asked
      /\ NoOverwriteLocal
  BY LaidApart DEF InOrder, Laid, Flagged, Fits
<1>2. ASSUME NEW s \in inUse
      PROVE  \E i \in DOMAIN entries : entries[i] = s /\ s \in Entry
  BY <1>1, EntriesType, ElementOfSeq DEF UseKnown
<1>3. \A s \in inUse : s.len \in Lens
  BY <1>1 DEF Asked
<1>4. \A s \in inUse : s \in Entry /\ s.flag \in Flags /\ s.addr \in Nat /\ s.len \in Nat
  BY <1>2, EntryParts
<1>5. \A s \in inUse : s.addr + s.len <= Cap
  BY <1>1, <1>2 DEF SectionsFit, right
<1>6. \A s, t \in inUse : s # t => s.flag # t.flag
  BY <1>1, <1>2 DEF OneFlagEach
<1>7. \A s, t \in inUse : s # t => ~Overlap(s, t)
  BY <1>1 DEF NoOverwriteLocal
<1>8. ASSUME pc = "push"
      PROVE  /\ fresh = <<fresh[1]>> /\ fresh[1] \in inUse
             /\ fresh[1] \notin owned
             /\ \A j \in DOMAIN posted : fresh[1] # posted[j]
  <2>1. fresh \in Seq(Entry) /\ Len(fresh) = 1
    BY <1>1, <1>8 DEF TypeOK
  <2>2. fresh = <<fresh[1]>> /\ 1 \in DOMAIN fresh
    BY <2>1, Slot
  <2>3. QED
    BY <1>1, <2>2 DEF OneFlagEach, inUse
<1>9. posted \in Seq(Entry)
  BY <1>1 DEF TypeOK
<1>10. \A i \in DOMAIN posted : posted[i] \in inUse /\ posted[i] \notin owned
  BY <1>1 DEF OneFlagEach, inUse
<1>11. \A i, j \in DOMAIN posted : posted[i] = posted[j] => i = j
  BY <1>1 DEF OneFlagEach
<1>12. \A e \in owned : e \in inUse
  BY DEF inUse
<1>13. QED
  BY <1>3, <1>4, <1>5, <1>6, <1>7, <1>8, <1>9, <1>10, <1>11, <1>12

===============================================================================
