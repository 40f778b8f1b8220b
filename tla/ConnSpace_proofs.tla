--------------------------- MODULE ConnSpace_proofs ---------------------------
(***************************************************************************)
(* That Conn loses no space of a receive buffer and gives none back twice, *)
(* for every size of the rings and of the windows.  The notices on their   *)
(* way to an end are laid out behind its done, one after another, up to    *)
(* where its peer has released: no notice reaches across the end of the    *)
(* buffer, which is what lets update find the wrap-around.                 *)
(***************************************************************************)
EXTENDS Conn_proofs, SetInduction

-----------------------------------------------------------------------------
(* Notices laid out from a place of the ring to a later one, counted on    *)
(* past the end of the buffer: a notice n goes from p to r, and not across *)
(* the end.                                                                *)
Hop(p, n, r) == r = p + n /\ (p < Slots => r <= Slots)

IsPath(f, q, p, r) ==
  /\ f \in [0..Len(q) -> Int] /\ f[0] = p /\ f[Len(q)] = r
  /\ \A i \in 1..Len(q) : Hop(f[i - 1], q[i], f[i])
  /\ \A i \in 0..Len(q) : f[i] <= r

Path(q, p, r) == \E f : IsPath(f, q, p, r)

LEMMA CountsAreNumbers ==
  ASSUME NEW q \in Seq(Counts)
  PROVE  \A i \in 1..Len(q) : q[i] \in Nat
<1>1. q \in [1..Len(q) -> Counts]
  BY LenProperties
<1>2. Counts \subseteq Nat
  BY ConnAssumption DEF Counts
<1>3. QED
  BY <1>1, <1>2

LEMMA PathEnds ==
  ASSUME NEW q \in Seq(Counts), NEW p, NEW r, Path(q, p, r)
  PROVE  p \in Int /\ r \in Int /\ p <= r
<1>1. PICK f : IsPath(f, q, p, r)
  BY DEF Path
<1>2. Len(q) \in Nat
  BY LenProperties
<1>3. QED
  BY <1>1, <1>2 DEF IsPath

LEMMA PathEmpty ==
  ASSUME NEW p \in Int, NEW r
  PROVE  Path(<<>>, p, r) <=> r = p
<1>1. Len(<<>>) = 0
  BY EmptySeq
<1>2. ASSUME Path(<<>>, p, r) PROVE r = p
  BY <1>1, <1>2 DEF Path, IsPath
<1>3. IsPath([i \in 0..0 |-> p], <<>>, p, p)
  BY <1>1 DEF IsPath
<1>4. QED
  BY <1>2, <1>3 DEF Path

LEMMA PathAppend ==
  ASSUME NEW q \in Seq(Counts), NEW n \in Counts, NEW p, NEW r, NEW s,
         Path(q, p, r), Hop(r, n, s)
  PROVE  Path(Append(q, n), p, s)
<1>1. PICK f : IsPath(f, q, p, r)
  BY DEF Path
<1>2. PICK k \in Nat : k = Len(q)
  BY LenProperties
<1>3. /\ Len(Append(q, n)) = k + 1
      /\ \A i \in 1..k : Append(q, n)[i] = q[i]
      /\ Append(q, n)[k + 1] = n
  BY <1>2, AppendProperties
<1>4. n \in Nat /\ r \in Int /\ s = r + n /\ s \in Int
  BY <1>1, <1>2 DEF IsPath, Hop, Counts
<1> DEFINE g == [i \in 0..(k + 1) |-> IF i = k + 1 THEN s ELSE f[i]]
<1>5. /\ f \in [0..k -> Int] /\ f[0] = p /\ f[k] = r
      /\ \A i \in 1..k : Hop(f[i - 1], q[i], f[i])
      /\ \A i \in 0..k : f[i] <= r
  BY <1>1, <1>2 DEF IsPath
<1>6. \A i \in 0..k : i \in 0..(k + 1) /\ i # k + 1
  OBVIOUS
<1>7. g \in [0..(k + 1) -> Int] /\ g[0] = p /\ g[k + 1] = s
  BY <1>4, <1>5
<1>8. ASSUME NEW i \in 1..(k + 1) PROVE Hop(g[i - 1], Append(q, n)[i], g[i])
  <2>1. CASE i \in 1..k
    <3>1. i - 1 \in 0..k /\ i \in 0..k
      BY <2>1
    <3>2. QED
      BY <1>3, <1>5, <1>6, <2>1, <3>1
  <2>2. CASE i = k + 1
    <3>1. i - 1 = k /\ k \in 0..k /\ k # k + 1 /\ k \in 0..(k + 1) /\ i \in 0..(k + 1)
      BY <2>2
    <3>2. g[i - 1] = r /\ g[i] = s
      BY <1>5, <2>2, <3>1
    <3>3. QED
      BY <1>3, <2>2, <3>2
  <2>3. i \in 1..k \/ i = k + 1
    OBVIOUS
  <2>4. QED
    BY <2>1, <2>2, <2>3, Zenon
<1>9. ASSUME NEW i \in 0..(k + 1) PROVE g[i] <= s
  <2>1. CASE i \in 0..k
    <3>1. g[i] = f[i] /\ f[i] \in Int /\ f[i] <= r
      BY <1>5, <1>6, <2>1
    <3>2. QED
      BY <1>4, <3>1
  <2>2. CASE i = k + 1
    BY <1>4, <2>2
  <2>3. QED
    BY <2>1, <2>2
<1>10. IsPath(g, Append(q, n), p, s)
  <2> HIDE DEF g
  <2>1. QED
    BY <1>3, <1>7, <1>8, <1>9, Zenon DEF IsPath
<1>11. QED
  BY <1>10 DEF Path

LEMMA PathTail ==
  ASSUME NEW q \in Seq(Counts), q # <<>>, NEW p, NEW r, Path(q, p, r)
  PROVE  \E s \in Int : Hop(p, Head(q), s) /\ Path(Tail(q), s, r)
<1>1. PICK f : IsPath(f, q, p, r)
  BY DEF Path
<1>2. PICK k \in Nat : Len(q) = k + 1
  <2>1. Len(q) \in Nat /\ Len(q) # 0
    BY LenProperties, EmptySeq
  <2>2. Len(q) - 1 \in Nat /\ Len(q) = (Len(q) - 1) + 1
    BY <2>1
  <2>3. QED
    BY <2>2, Zenon
<1>3. Len(Tail(q)) = k /\ \A i \in 1..k : Tail(q)[i] = q[i + 1]
  BY <1>2, HeadTailProperties
<1>h. Head(q) = q[1]
  BY HeadTailProperties
<1> DEFINE g == [i \in 0..k |-> f[i + 1]]
<1>4. /\ f \in [0..(k + 1) -> Int] /\ f[0] = p /\ f[k + 1] = r
      /\ \A i \in 1..(k + 1) : Hop(f[i - 1], q[i], f[i])
      /\ \A i \in 0..(k + 1) : f[i] <= r
  BY <1>1, <1>2 DEF IsPath
<1>5. \A i \in 0..k : i + 1 \in 0..(k + 1)
  OBVIOUS
<1>6. g \in [0..k -> Int] /\ g[0] = f[1] /\ g[k] = r
  BY <1>4, <1>5
<1>7. ASSUME NEW i \in 1..k PROVE Hop(g[i - 1], Tail(q)[i], g[i])
  <2>1. i + 1 \in 1..(k + 1) /\ (i + 1) - 1 = i /\ i - 1 \in 0..k /\ i \in 0..k /\ (i - 1) + 1 = i
    OBVIOUS
  <2>2. Hop(f[i], q[i + 1], f[i + 1])
    BY <1>4, <2>1
  <2>3. g[i - 1] = f[i] /\ g[i] = f[i + 1]
    BY <2>1
  <2>4. QED
    BY <1>3, <2>2, <2>3
<1>8. \A i \in 0..k : g[i] <= r
  BY <1>4, <1>5
<1>9. IsPath(g, Tail(q), f[1], r)
  <2> HIDE DEF g
  <2>1. QED
    BY <1>3, <1>6, <1>7, <1>8 DEF IsPath
<1>10. Hop(p, Head(q), f[1]) /\ f[1] \in Int
  <2>1. 1 \in 1..(k + 1) /\ 1 - 1 = 0 /\ 1 \in 0..(k + 1)
    OBVIOUS
  <2>2. QED
    BY <1>4, <1>h, <2>1
<1>11. QED
  BY <1>9, <1>10 DEF Path

(* The same path, one turn of the ring earlier.                            *)
LEMMA PathTurn ==
  ASSUME NEW q \in Seq(Counts), NEW p, NEW r, Path(q, p, r), r <= 2 * Slots
  PROVE  Path(q, p - Slots, r - Slots)
<1>1. PICK f : IsPath(f, q, p, r)
  BY DEF Path
<1>2. PICK k \in Nat : k = Len(q)
  BY LenProperties
<1>3. /\ f \in [0..k -> Int] /\ f[0] = p /\ f[k] = r
      /\ \A i \in 1..k : Hop(f[i - 1], q[i], f[i])
      /\ \A i \in 0..k : f[i] <= r
  BY <1>1, <1>2 DEF IsPath
<1> DEFINE g == [i \in 0..k |-> f[i] - Slots]
<1>s. Slots \in Nat
  BY ConnAssumption
<1>4. g \in [0..k -> Int] /\ g[0] = p - Slots /\ g[k] = r - Slots
  BY <1>3, <1>s
<1>5. ASSUME NEW i \in 1..k PROVE Hop(g[i - 1], q[i], g[i])
  <2>1. i - 1 \in 0..k /\ i \in 0..k
    OBVIOUS
  <2>2. PICK a \in Int, b \in Int : a = f[i - 1] /\ b = f[i]
    BY <1>3, <2>1
  <2>3. g[i - 1] = a - Slots /\ g[i] = b - Slots /\ b <= r
    BY <1>3, <2>1, <2>2
  <2>4. PICK n \in Int : n = q[i] /\ b = a + n
    BY <1>2, <1>3, <2>2, CountsAreNumbers DEF Hop
  <2>5. PICK e \in Int, s \in Nat : e = r /\ s = Slots /\ e <= 2 * s
    BY <1>3, <1>s
  <2>6. b - s = (a - s) + n /\ b - s <= s
    <3>1. b <= e
      BY <2>3, <2>5, Zenon
    <3>2. b = a + n
      BY <2>4
    <3>3. QED
      BY ONLY <3>1, <3>2, <2>5, a \in Int, b \in Int, n \in Int, e \in Int, s \in Nat
  <2>7. Hop(a - s, n, b - s)
    BY <2>5, <2>6, Zenon DEF Hop
  <2>8. QED
    BY <2>3, <2>4, <2>5, <2>7, Zenon
<1>6. \A i \in 0..k : g[i] <= r - Slots
  BY <1>3, <1>s
<1>7. IsPath(g, q, p - Slots, r - Slots)
  <2> HIDE DEF g
  <2>1. QED
    BY <1>2, <1>4, <1>5, <1>6 DEF IsPath
<1>8. QED
  BY <1>7 DEF Path

(* Total measures a path.                                                  *)
LEMMA PathTotal ==
  ASSUME NEW q \in Seq(Counts), NEW p, NEW r, Path(q, p, r)
  PROVE  Total(q) = r - p
<1>1. PICK f : IsPath(f, q, p, r)
  BY DEF Path
<1>2. PICK k \in Nat : k = Len(q)
  BY LenProperties
<1>3. /\ f \in [0..k -> Int] /\ f[0] = p /\ f[k] = r
      /\ \A i \in 1..k : f[i] = f[i - 1] + q[i]
  BY <1>1, <1>2 DEF IsPath, Hop
<1>q. \A i \in 1..k : q[i] \in Int
  BY <1>2, CountsAreNumbers
<1> DEFINE D(g) == [i \in 0..k |-> IF i = 0 THEN 0 ELSE g[i - 1] + q[i]]
           h    == [i \in 0..k |-> f[i] - p]
           u    == CHOOSE g : g = D(g)
<1>4. h = D(h)
  <2>1. ASSUME NEW i \in 0..k PROVE h[i] = IF i = 0 THEN 0 ELSE h[i - 1] + q[i]
    <3>1. CASE i = 0
      BY <1>3, <3>1
    <3>2. CASE i # 0
      <4>1. i \in 1..k /\ i - 1 \in 0..k
        BY <3>2
      <4>2. f[i] = f[i - 1] + q[i] /\ f[i - 1] \in Int /\ q[i] \in Int /\ p \in Int
        BY <1>3, <1>q, <4>1
      <4>3. QED
        BY <3>2, <4>1, <4>2
    <3>3. QED
      BY <3>1, <3>2
  <2>2. QED
    BY <2>1
<1>5. u = D(u)
  BY <1>4
<1>6. Total(q) = u[k]
  BY <1>2 DEF Total
<1> DEFINE T == {i \in Nat : i <= k => u[i] = h[i]}
<1>7. 0 \in T
  <2>1. 0 \in 0..k
    OBVIOUS
  <2>2. u[0] = 0 /\ h[0] = 0
    <3> HIDE DEF u, h
    <3>1. QED
      BY <1>4, <1>5, <2>1
  <2>3. QED
    BY <2>2
<1>8. ASSUME NEW i \in T PROVE i + 1 \in T
  <2>1. SUFFICES ASSUME i + 1 <= k PROVE u[i + 1] = h[i + 1]
    OBVIOUS
  <2>2. u[i] = h[i]
    BY <2>1
  <2>3. (i + 1) - 1 = i /\ i + 1 \in 0..k /\ i + 1 # 0
    BY <2>1
  <2>4. u[i + 1] = u[i] + q[i + 1] /\ h[i + 1] = h[i] + q[i + 1]
    <3> HIDE DEF u, h
    <3>1. QED
      BY <1>4, <1>5, <2>3
  <2>5. QED
    BY <2>2, <2>4
<1>9. Nat \subseteq T
  <2> HIDE DEF T
  <2>1. QED
    BY <1>7, <1>8, InductionOnNat
<1>10. u[k] = h[k]
  <2>1. k \in T
    BY <1>9, Zenon
  <2>2. k <= k
    OBVIOUS
  <2>3. QED
    BY <2>1, <2>2, Zenon
<1>11. QED
  BY <1>3, <1>6, <1>10

LEMMA HopStay ==
  ASSUME NEW p \in Int, NEW r
  PROVE  Hop(p, 0, r) <=> r = p
BY ConnAssumption DEF Hop

LEMMA PathOne ==
  ASSUME NEW n \in Counts, NEW p \in Int, NEW r
  PROVE  Path(<<n>>, p, r) <=> Hop(p, n, r)
<1>1. <<n>> = Append(<<>>, n) /\ <<>> \in Seq(Counts) /\ <<n>> \in Seq(Counts)
  BY AppendProperties, EmptySeq
<1>2. ASSUME Hop(p, n, r) PROVE Path(<<n>>, p, r)
  <2>1. Path(<<>>, p, p)
    BY PathEmpty
  <2>2. Path(Append(<<>>, n), p, r)
    BY <1>1, <1>2, <2>1, PathAppend
  <2>3. QED
    BY <1>1, <2>2
<1>3. ASSUME Path(<<n>>, p, r) PROVE Hop(p, n, r)
  <2>1. <<n>> # <<>> /\ Head(<<n>>) = n /\ Tail(<<n>>) = <<>>
    OBVIOUS
  <2>2. PICK s \in Int : Hop(p, Head(<<n>>), s) /\ Path(Tail(<<n>>), s, r)
    BY <1>1, <1>3, <2>1, PathTail
  <2>3. r = s
    BY <2>1, <2>2, PathEmpty
  <2>4. QED
    BY <2>1, <2>2, <2>3
<1>4. QED
  BY <1>2, <1>3

(* The notices in a completion queue, as one is appended and one polled.   *)
LEMMA ImmsOf ==
  ASSUME NEW q \in Seq(Completion)
  PROVE  /\ Imms(q) \in Seq(Counts)
         /\ \A c \in Completion : Imms(Append(q, c)) = Append(Imms(q), c.imm)
         /\ q # <<>> => /\ Imms(q) # <<>> /\ Head(Imms(q)) = Head(q).imm
                        /\ Imms(Tail(q)) = Tail(Imms(q))
<1>1. PICK k \in Nat : k = Len(q)
  BY LenProperties
<1>2. q \in [1..k -> Completion] /\ DOMAIN q = 1..k
  BY <1>1, LenProperties
<1>3. \A c \in Completion : c.imm \in Counts
  BY CompletionTypes
<1>4. Imms(q) = [i \in 1..k |-> q[i].imm]
  BY <1>2 DEF Imms
<1>5. Imms(q) \in Seq(Counts) /\ Len(Imms(q)) = k
  <2>1. \A i \in 1..k : q[i].imm \in Counts
    BY <1>2, <1>3
  <2>2. Imms(q) \in [1..k -> Counts]
    BY <1>4, <2>1
  <2>3. Imms(q) \in Seq(Counts)
    BY <2>2, SeqDef
  <2>4. Len(Imms(q)) \in Nat /\ DOMAIN Imms(q) = 1..Len(Imms(q)) /\ DOMAIN Imms(q) = 1..k
    <3>1. Len(Imms(q)) \in Nat /\ DOMAIN Imms(q) = 1..Len(Imms(q))
      BY <2>3, LenProperties
    <3>2. DOMAIN Imms(q) = 1..k
      BY <2>2
    <3>3. QED
      BY <3>1, <3>2, Zenon
  <2>5. PICK m \in Nat : m = Len(Imms(q)) /\ 1..m = 1..k
    BY <2>4
  <2>6. m = k
    <3>1. (m \in 1..m <=> m \in 1..k) /\ (k \in 1..k <=> k \in 1..m)
      BY <2>5
    <3>2. QED
      BY <3>1
  <2>7. QED
    BY <2>3, <2>5, <2>6
<1>6. ASSUME NEW c \in Completion PROVE Imms(Append(q, c)) = Append(Imms(q), c.imm)
  <2>1. /\ Append(q, c) \in Seq(Completion) /\ DOMAIN Append(q, c) = 1..(k + 1)
        /\ \A i \in 1..k : Append(q, c)[i] = q[i]
        /\ Append(q, c)[k + 1] = c
    BY <1>1, AppendProperties, LenProperties
  <2>2. /\ DOMAIN Append(Imms(q), c.imm) = 1..(k + 1)
        /\ \A i \in 1..k : Append(Imms(q), c.imm)[i] = q[i].imm
        /\ Append(Imms(q), c.imm)[k + 1] = c.imm
        /\ Append(Imms(q), c.imm) \in Seq(Counts)
    <3>1. c.imm \in Counts
      BY <1>3
    <3>2. QED
      BY <1>4, <1>5, <3>1, AppendProperties, LenProperties
  <2>3. Imms(Append(q, c)) = [i \in 1..(k + 1) |-> Append(q, c)[i].imm]
    BY <2>1 DEF Imms
  <2>4. ASSUME NEW i \in 1..(k + 1)
        PROVE  Append(q, c)[i].imm = Append(Imms(q), c.imm)[i]
    <3>1. i \in 1..k \/ i = k + 1
      OBVIOUS
    <3>2. QED
      BY <2>1, <2>2, <3>1
  <2>5. Append(Imms(q), c.imm) = [i \in 1..(k + 1) |-> Append(Imms(q), c.imm)[i]]
    BY <2>2, LenProperties
  <2>6. QED
    BY <2>3, <2>4, <2>5
<1>7. ASSUME q # <<>>
      PROVE  /\ Imms(q) # <<>> /\ Head(Imms(q)) = Head(q).imm
             /\ Imms(Tail(q)) = Tail(Imms(q))
  <2>1. k # 0
    BY <1>1, <1>7, EmptySeq
  <2>2. Imms(q) # <<>>
    BY <1>5, <2>1, EmptySeq
  <2>3. Head(q) = q[1] /\ Head(Imms(q)) = q[1].imm
    <3>1. 1 \in 1..k
      BY <2>1
    <3>2. Head(Imms(q)) = Imms(q)[1] /\ Head(q) = q[1]
      BY <1>5, <1>7, <2>2, HeadTailProperties
    <3>3. QED
      BY <1>4, <3>1, <3>2
  <2>4. /\ Tail(q) \in Seq(Completion) /\ DOMAIN Tail(q) = 1..(k - 1)
        /\ \A i \in 1..(k - 1) : Tail(q)[i] = q[i + 1]
    BY <1>1, <1>7, HeadTailProperties, LenProperties
  <2>5. /\ Tail(Imms(q)) \in Seq(Counts) /\ DOMAIN Tail(Imms(q)) = 1..(k - 1)
        /\ \A i \in 1..(k - 1) : Tail(Imms(q))[i] = Imms(q)[i + 1]
    BY <1>5, <2>2, HeadTailProperties, LenProperties
  <2>6. Imms(Tail(q)) = [i \in 1..(k - 1) |-> Tail(q)[i].imm]
    BY <2>4 DEF Imms
  <2>7. \A i \in 1..(k - 1) : Tail(q)[i].imm = Tail(Imms(q))[i]
    <3>1. \A i \in 1..(k - 1) : i + 1 \in 1..k
      OBVIOUS
    <3>2. QED
      BY <1>4, <2>4, <2>5, <3>1
  <2>8. Tail(Imms(q)) = [i \in 1..(k - 1) |-> Tail(Imms(q))[i]]
    BY <2>5, LenProperties
  <2>9. QED
    BY <2>2, <2>3, <2>6, <2>7, <2>8
<1>8. QED
  BY <1>5, <1>6, <1>7

-----------------------------------------------------------------------------
(* The notices for d: those that have reached d lie behind its done, up to *)
(* c; those still at its peer o, or under way from there, lie from c to k, *)
(* which is where o has released and reported.  From k on lie the messages *)
(* of d that o has gathered, is reading or has not received, up to where d *)
(* will put the next one.                                                  *)
Coming(d, c) ==
  \E a \in Int, b \in Int :
    /\ Path(rx[d], done[d], a)
    /\ Path(daemon[d], a, b)
    /\ Path(Imms(cq[d]), b, c)

Going(o, c, k) ==
  \E w \in Int, x \in Int, y \in Int :
    /\ Path(wire[o], c, w)
    /\ Hop(w, imm[o], x)
    /\ Path(notices[o], x, y)
    /\ Hop(y, notice[o], k)

InApp(o)  == IF app[o] = "reading" THEN 1 ELSE 0
Unread(o) == Unpolled(cq[o], "WriteWithImm") + Len(daemon[o]) + Len(rx[o])
Filled(d) == IF done[d] <= index[d] THEN index[d] ELSE Slots + index[d]

Landing(d, o, k) ==
  /\ k = rDone[o] \/ k = rDone[o] + Slots
  /\ k + gathered[o] + InApp(o) + Unread(o) + Len(wire[d]) = Filled(d)

At(d, o, c, k) == Coming(d, c) /\ Going(o, c, k) /\ Landing(d, o, k)

Placed == \A d \in Ends : \E c \in Int, k \in Int : At(d, Other(d), c, k)

(* No notice where none is held.                                           *)
Idle(d) ==
  /\ holder[d] # "alloc" => imm[d] = 0
  /\ app[d] # "notify" => notice[d] = 0
  /\ \A i \in 1..Len(cq[d]) : IsWritten(cq[d][i]) => cq[d][i].imm = 0

Space == Placed /\ \A d \in Ends : Idle(d)

(* The queues the notices and the messages are in, and the numbers.        *)
Queues(d) ==
  /\ rx[d] \in Seq(Counts) /\ daemon[d] \in Seq(Counts) /\ cq[d] \in Seq(Completion)
  /\ Imms(cq[d]) \in Seq(Counts)
  /\ wire[d] \in Seq(Counts) /\ notices[d] \in Seq(Counts)

Numeric(d) ==
  /\ imm[d] \in Nat /\ notice[d] \in Nat /\ gathered[d] \in Nat
  /\ index[d] \in Nat /\ done[d] \in Nat /\ rDone[d] \in Nat
  /\ index[d] <= Slots /\ done[d] <= Slots /\ rDone[d] <= Slots
  /\ InApp(d) \in Nat /\ Len(wire[d]) \in Nat /\ Unread(d) \in Nat
  /\ Filled(d) \in Nat /\ Filled(d) < 2 * Slots

LEMMA PartsOf == TypeOK => \A d \in Ends : Queues(d) /\ Numeric(d)
<1> SUFFICES ASSUME TypeOK, NEW d \in Ends PROVE Queues(d) /\ Numeric(d)
  OBVIOUS
<1>1. /\ rx[d] \in Seq(Counts) /\ daemon[d] \in Seq(Counts) /\ cq[d] \in Seq(Completion)
      /\ wire[d] \in Seq(Counts) /\ notices[d] \in Seq(Counts)
      /\ imm[d] \in Counts /\ notice[d] \in Counts /\ gathered[d] \in Counts
      /\ index[d] \in 0..Slots /\ done[d] \in 0..Slots /\ rDone[d] \in 0..Slots
  BY DEF TypeOK
<1>2. Imms(cq[d]) \in Seq(Counts)
  BY <1>1, ImmsOf
<1>3. InApp(d) \in 0..1 /\ Len(wire[d]) \in Nat
  BY <1>1, LenProperties DEF InApp
<1>4. Unread(d) \in Nat
  <2>1. PICK u \in Nat, n \in Nat, x \in Nat :
          u = Unpolled(cq[d], "WriteWithImm") /\ n = Len(daemon[d]) /\ x = Len(rx[d])
    BY <1>1, Arrived, LenProperties
  <2>2. QED
    BY <2>1 DEF Unread
<1>5. Filled(d) \in Nat /\ Filled(d) < 2 * Slots
  <2>1. PICK s \in Nat \ {0} : s = Slots
    BY ConnAssumption
  <2>2. PICK i \in 0..s, j \in 0..s : i = index[d] /\ j = done[d]
    BY <1>1, <2>1
  <2>3. Filled(d) = IF j <= i THEN i ELSE s + i
    BY <2>1, <2>2 DEF Filled
  <2>4. QED
    BY <2>1, <2>3
<1>6. Queues(d)
  BY <1>1, <1>2 DEF Queues
<1>7. /\ imm[d] \in Nat /\ notice[d] \in Nat /\ gathered[d] \in Nat
      /\ index[d] \in Nat /\ done[d] \in Nat /\ rDone[d] \in Nat
      /\ index[d] <= Slots /\ done[d] <= Slots /\ rDone[d] <= Slots
  <2>1. \A n \in 0..Slots : n \in Nat /\ n <= Slots
    BY ConnAssumption
  <2>2. QED
    BY <1>1, <2>1, Zenon DEF Counts
<1>8. InApp(d) \in Nat
  BY <1>3
<1>9. QED
  BY <1>3, <1>4, <1>5, <1>6, <1>7, <1>8 DEF Numeric

(* Where the notices for d go, when a step leaves them alone.              *)
LEMMA ComingStays ==
  ASSUME NEW d \in Ends, NEW c, Coming(d, c),
         rx'[d] = rx[d], daemon'[d] = daemon[d], cq'[d] = cq[d], done'[d] = done[d]
  PROVE  Coming(d, c)'
BY DEF Coming

LEMMA GoingStays ==
  ASSUME NEW o \in Ends, NEW c, NEW k, Going(o, c, k),
         wire'[o] = wire[o], imm'[o] = imm[o], notices'[o] = notices[o], notice'[o] = notice[o]
  PROVE  Going(o, c, k)'
BY DEF Going

LEMMA LandingStays ==
  ASSUME NEW d \in Ends, NEW o \in Ends, NEW k, Landing(d, o, k),
         rDone'[o] = rDone[o], gathered'[o] = gathered[o], app'[o] = app[o],
         Unread(o)' = Unread(o), Len(wire[d])' = Len(wire[d]),
         index'[d] = index[d], done'[d] = done[d]
  PROVE  Landing(d, o, k)'
<1>1. InApp(o)' = InApp(o) /\ Filled(d)' = Filled(d)
  BY DEF InApp, Filled
<1>2. QED
  BY <1>1 DEF Landing

LEMMA PlacedNext ==
  ASSUME NEW e \in Ends, NEW o \in Ends, o = Other(e), Placed,
         \A c \in Int, k \in Int :
           At(e, o, c, k) => \E c2 \in Int, k2 \in Int : At(e, o, c2, k2)',
         \A c \in Int, k \in Int :
           At(o, e, c, k) => \E c2 \in Int, k2 \in Int : At(o, e, c2, k2)'
  PROVE  Placed'
<1>1. Other(o) = e /\ \A d \in Ends : d = e \/ d = o
  BY TwoEnds
<1>2. (\E c \in Int, k \in Int : At(e, o, c, k)) /\ (\E c \in Int, k \in Int : At(o, e, c, k))
  BY <1>1 DEF Placed
<1>3. /\ \E c \in Int, k \in Int : At(e, o, c, k)'
      /\ \E c \in Int, k \in Int : At(o, e, c, k)'
  BY <1>2
<1>4. ASSUME NEW d \in Ends PROVE \E c \in Int, k \in Int : At(d, Other(d), c, k)'
  BY <1>1, <1>3
<1>5. QED
  BY <1>4 DEF Placed

LEMMA SpaceInit == Init => Space
<1> SUFFICES ASSUME Init PROVE Space
  OBVIOUS
<1>1. ASSUME NEW d \in Ends
      PROVE  /\ holder[d] = "none" /\ imm[d] = 0 /\ index[d] = 0 /\ done[d] = 0
             /\ wire[d] = <<>> /\ cq[d] = <<>> /\ daemon[d] = <<>> /\ rx[d] = <<>>
             /\ app[d] = "recv" /\ notice[d] = 0 /\ rDone[d] = 0 /\ gathered[d] = 0
             /\ notices[d] = <<>>
  BY <1>1 DEF Init
<1>2. Len(<<>>) = 0 /\ <<>> \in Seq(Completion)
  BY EmptySeq
<1>3. Imms(<<>>) = <<>>
  BY DEF Imms
<1>4. Unpolled(<<>>, "WriteWithImm") = 0
  <2>1. {i \in DOMAIN <<>> : <<>>[i].opcode = "WriteWithImm"} = {}
    OBVIOUS
  <2>2. QED
    BY <2>1, FS_EmptySet DEF Unpolled
<1>5. ASSUME NEW d \in Ends PROVE Idle(d)
  BY <1>1, <1>2 DEF Idle
<1>6. ASSUME NEW d \in Ends PROVE At(d, Other(d), 0, 0)
  <2>1. PICK o \in Ends : o = Other(d)
    BY TwoEnds
  <2>2. Path(<<>>, 0, 0) /\ Hop(0, 0, 0)
    BY PathEmpty, HopStay
  <2>3. Coming(d, 0) /\ Going(o, 0, 0)
    <3>1. /\ Path(rx[d], done[d], 0) /\ Path(daemon[d], 0, 0) /\ Path(Imms(cq[d]), 0, 0)
          /\ Path(wire[o], 0, 0) /\ Hop(0, imm[o], 0)
          /\ Path(notices[o], 0, 0) /\ Hop(0, notice[o], 0)
      BY <1>1, <1>3, <2>2, Zenon
    <3>2. 0 \in Int
      OBVIOUS
    <3>3. QED
      BY <3>1, <3>2, Zenon DEF Coming, Going
  <2>4. Landing(d, o, 0)
    BY <1>1, <1>2, <1>4 DEF Landing, InApp, Unread, Filled
  <2>5. QED
    BY <2>1, <2>3, <2>4 DEF At
<1>7. QED
  BY <1>5, <1>6 DEF Space, Placed

(* What is laid out adds up to the space e's cursors take for used.        *)
LEMMA PlacedIsConserved == TypeOK /\ Placed => SpaceConserved
<1> SUFFICES ASSUME TypeOK, Placed, NEW d \in Ends PROVE Unreturned(d) = Used(d)
  BY DEF SpaceConserved
<1>1. PICK o \in Ends : o = Other(d) /\ Other(o) = d
  BY TwoEnds
<1>2. Queues(d) /\ Queues(o) /\ Numeric(d) /\ Numeric(o)
  BY PartsOf
<1>3. PICK c \in Int, k \in Int : Coming(d, c) /\ Going(o, c, k) /\ Landing(d, o, k)
  BY <1>1 DEF Placed, At
<1>4. PICK a \in Int, b \in Int :
        Path(rx[d], done[d], a) /\ Path(daemon[d], a, b) /\ Path(Imms(cq[d]), b, c)
  BY <1>3 DEF Coming
<1>5. PICK w \in Int, x \in Int, y \in Int :
        /\ Path(wire[o], c, w) /\ Hop(w, imm[o], x)
        /\ Path(notices[o], x, y) /\ Hop(y, notice[o], k)
  BY <1>3 DEF Going
<1>6. /\ Total(rx[d]) = a - done[d] /\ Total(daemon[d]) = b - a
      /\ Total(Imms(cq[d])) = c - b /\ Total(wire[o]) = w - c /\ Total(notices[o]) = y - x
  BY <1>2, <1>4, <1>5, PathTotal DEF Queues
<1>7. imm[o] = x - w /\ notice[o] = k - y
  <2>1. imm[o] \in Nat /\ notice[o] \in Nat
    BY <1>2, Zenon DEF Numeric
  <2>2. x = w + imm[o] /\ k = y + notice[o]
    BY <1>5 DEF Hop
  <2>3. QED
    BY <2>1, <2>2
<1>8. Carried(o) = (w - c) + (c - b) + (b - a) + (a - done[d])
  BY <1>1, <1>6 DEF Carried
<1>9. InTransit(d) + Reading(d) = InApp(o) + Unread(o) + Len(wire[d])
  <2>1. InTransit(d) = Len(wire[d]) + Unread(o)
    <3>1. PICK l \in Nat, u \in Nat, n \in Nat, i \in Nat :
            /\ l = Len(wire[d]) /\ u = Unpolled(cq[o], "WriteWithImm")
            /\ n = Len(daemon[o]) /\ i = Len(rx[o])
      BY <1>2, Arrived, LenProperties DEF Queues
    <3>2. InTransit(d) = l + u + n + i /\ Unread(o) = u + n + i
      BY <1>1, <3>1 DEF InTransit, Unread
    <3>3. l + u + n + i = l + (u + n + i)
      OBVIOUS
    <3>4. QED
      BY <3>1, <3>2, <3>3, Zenon
  <2>2. Reading(d) = InApp(o)
    BY <1>1, Zenon DEF Reading, InApp
  <2>3. QED
    BY <1>2, <2>1, <2>2 DEF Numeric
<1>10. PICK p \in Nat, q \in Nat, g \in Nat, l \in Nat, dn \in Nat, f \in Nat :
         /\ p = InApp(o) /\ q = Unread(o) /\ g = gathered[o] /\ l = Len(wire[d])
         /\ dn = done[d] /\ f = Filled(d)
  BY <1>2, Zenon DEF Numeric
<1>11. k + g + p + q + l = f
  BY <1>3, <1>10 DEF Landing
<1>12. Used(d) = f - dn
  <2>1. index[d] \in Nat /\ Slots \in Nat
    BY <1>2, ConnAssumption DEF Numeric
  <2>2. QED
    BY <1>10, <2>1 DEF Used, Filled
<1>13. InTransit(d) \in Int /\ Reading(d) \in Int /\ InTransit(d) + Reading(d) = p + q + l
  <2>1. PICK i \in Nat, u \in Nat, n \in Nat, j \in Nat :
            /\ i = Len(wire[d]) /\ u = Unpolled(cq[o], "WriteWithImm")
            /\ n = Len(daemon[o]) /\ j = Len(rx[o])
    BY <1>2, Arrived, LenProperties DEF Queues
  <2>2. InTransit(d) = i + u + n + j
    BY <1>1, <2>1, Zenon DEF InTransit
  <2>3. InTransit(d) \in Int
    BY <2>2
  <2>4. QED
    BY <1>9, <1>10, <2>3 DEF Reading
<1>14. PICK s \in Int, t \in Int : s = InTransit(d) /\ t = Reading(d) /\ s + t = p + q + l
  BY <1>13
<1>15. Unreturned(d) = s + t + g + (k - y) + (y - x) + (x - w)
                         + ((w - c) + (c - b) + (b - a) + (a - dn))
  BY <1>1, <1>6, <1>7, <1>8, <1>10, <1>14 DEF Unreturned
<1>16. QED
  BY <1>11, <1>12, <1>14, <1>15

-----------------------------------------------------------------------------
(* An end a step leaves as it is.                                          *)
Still(d) ==
  /\ holder'[d] = holder[d] /\ imm'[d] = imm[d] /\ index'[d] = index[d] /\ done'[d] = done[d]
  /\ wire'[d] = wire[d] /\ cq'[d] = cq[d] /\ daemon'[d] = daemon[d] /\ rx'[d] = rx[d]
  /\ app'[d] = app[d] /\ notice'[d] = notice[d] /\ rDone'[d] = rDone[d]
  /\ gathered'[d] = gathered[d] /\ notices'[d] = notices[d]

LEMMA StillEnd ==
  ASSUME NEW d \in Ends, Still(d)
  PROVE  /\ Idle(d) => Idle(d)'
         /\ InApp(d)' = InApp(d) /\ Unread(d)' = Unread(d) /\ Filled(d)' = Filled(d)
         /\ Len(wire[d])' = Len(wire[d])
         /\ \A c \in Int : Coming(d, c) => Coming(d, c)'
         /\ \A c \in Int, k \in Int : Going(d, c, k) => Going(d, c, k)'
<1>1. Idle(d) => Idle(d)'
  BY DEF Still, Idle
<1>2. InApp(d)' = InApp(d) /\ Unread(d)' = Unread(d) /\ Filled(d)' = Filled(d)
         /\ Len(wire[d])' = Len(wire[d])
  BY DEF Still, InApp, Unread, Filled
<1>3. \A c \in Int : Coming(d, c) => Coming(d, c)'
  BY ComingStays DEF Still
<1>4. \A c \in Int, k \in Int : Going(d, c, k) => Going(d, c, k)'
  BY GoingStays DEF Still
<1>5. QED
  BY <1>1, <1>2, <1>3, <1>4

(* The places along the way of the notices for an end, and the same way    *)
(* one turn of the ring earlier.                                           *)
LEMMA ComingEnds ==
  ASSUME NEW d \in Ends, Queues(d), NEW p, NEW a \in Int, NEW b \in Int, NEW c \in Int,
         Path(rx[d], p, a), Path(daemon[d], a, b), Path(Imms(cq[d]), b, c)
  PROVE  p \in Int /\ p <= a /\ a <= b /\ b <= c
BY PathEnds DEF Queues

LEMMA GoingEnds ==
  ASSUME NEW o \in Ends, Queues(o), Numeric(o),
         NEW c \in Int, NEW k \in Int, NEW w \in Int, NEW x \in Int, NEW y \in Int,
         Path(wire[o], c, w), Hop(w, imm[o], x), Path(notices[o], x, y), Hop(y, notice[o], k)
  PROVE  c <= w /\ w <= x /\ x <= y /\ y <= k
<1>1. c <= w /\ x <= y
  BY PathEnds DEF Queues
<1>2. PICK n \in Nat, m \in Nat : n = imm[o] /\ m = notice[o]
  BY Zenon DEF Numeric
<1>3. x = w + n /\ k = y + m
  BY <1>2 DEF Hop
<1>4. QED
  BY <1>1, <1>3

LEMMA GoingTurn ==
  ASSUME NEW o \in Ends, Queues(o), Numeric(o), NEW c \in Int, NEW k \in Int, Going(o, c, k)
  PROVE  c <= k /\ (k <= 2 * Slots => Going(o, c - Slots, k - Slots))
<1>s. Slots \in Nat
  BY ConnAssumption
<1>1. PICK w \in Int, x \in Int, y \in Int :
        /\ Path(wire[o], c, w) /\ Hop(w, imm[o], x)
        /\ Path(notices[o], x, y) /\ Hop(y, notice[o], k)
  BY DEF Going
<1>2. c <= w /\ w <= x /\ x <= y /\ y <= k
  BY <1>1, GoingEnds
<1>3. ASSUME k <= 2 * Slots PROVE Going(o, c - Slots, k - Slots)
  <2>1. w <= 2 * Slots /\ x <= 2 * Slots /\ y <= 2 * Slots
    BY <1>s, <1>2, <1>3
  <2>2. Path(wire[o], c - Slots, w - Slots) /\ Path(notices[o], x - Slots, y - Slots)
    BY <1>1, <2>1, PathTurn DEF Queues
  <2>3. PICK n \in Nat, m \in Nat : n = imm[o] /\ m = notice[o]
    BY Zenon DEF Numeric
  <2>4. Hop(w - Slots, n, x - Slots) /\ Hop(y - Slots, m, k - Slots)
    <3>1. x = w + n /\ k = y + m
      BY <1>1, <2>3 DEF Hop
    <3>2. QED
      BY <1>s, <1>3, <2>1, <3>1 DEF Hop
  <2>5. w - Slots \in Int /\ x - Slots \in Int /\ y - Slots \in Int
    BY <1>s
  <2>6. QED
    BY <2>2, <2>3, <2>4, <2>5 DEF Going
<1>4. QED
  BY <1>2, <1>3

(* A completion of a write carries no notice.                              *)
Bare(q) == \A i \in 1..Len(q) : IsWritten(q[i]) => q[i].imm = 0

LEMMA BareQueue ==
  ASSUME NEW q \in Seq(Completion), Bare(q)
  PROVE  /\ \A c \in Completion : (IsWritten(c) => c.imm = 0) => Bare(Append(q, c))
         /\ q # <<>> => Bare(Tail(q)) /\ (IsWritten(Head(q)) => Head(q).imm = 0)
<1>1. PICK k \in Nat : k = Len(q)
  BY LenProperties
<1>2. ASSUME NEW c \in Completion, IsWritten(c) => c.imm = 0 PROVE Bare(Append(q, c))
  <2>1. /\ Len(Append(q, c)) = k + 1 /\ Append(q, c)[k + 1] = c
        /\ \A i \in 1..k : Append(q, c)[i] = q[i]
    BY <1>1, AppendProperties
  <2>2. \A i \in 1..(k + 1) : i \in 1..k \/ i = k + 1
    OBVIOUS
  <2>3. QED
    BY <1>1, <1>2, <2>1, <2>2 DEF Bare
<1>3. ASSUME q # <<>>
      PROVE  Bare(Tail(q)) /\ (IsWritten(Head(q)) => Head(q).imm = 0)
  <2>1. k # 0
    BY <1>1, <1>3, EmptySeq
  <2>2. /\ Len(Tail(q)) = k - 1 /\ Head(q) = q[1]
        /\ \A i \in 1..(k - 1) : Tail(q)[i] = q[i + 1]
    BY <1>1, <1>3, HeadTailProperties
  <2>3. 1 \in 1..k /\ \A i \in 1..(k - 1) : i + 1 \in 1..k
    BY <2>1
  <2>4. QED
    BY <1>1, <2>2, <2>3 DEF Bare
<1>4. QED
  BY <1>2, <1>3

(* How a step changes the terms of Landing, and when they stay balanced.   *)
Change(d, o, g, a, u, l, f) ==
  /\ gathered'[o] = gathered[o] + g /\ InApp(o)' = InApp(o) + a
  /\ Unread(o)' = Unread(o) + u /\ Len(wire[d])' = Len(wire[d]) + l
  /\ Filled(d)' = Filled(d) + f

LEMMA Balanced ==
  ASSUME NEW d \in Ends, NEW o \in Ends, Numeric(d), Numeric(o), Numeric(d)', Numeric(o)',
         NEW g \in Int, NEW a \in Int, NEW u \in Int, NEW l \in Int, NEW f \in Int,
         Change(d, o, g, a, u, l, f),
         NEW k \in Int, NEW k2 \in Int, Landing(d, o, k),
         k2 + g + a + u + l = k + f,
         k2 = rDone'[o] \/ k2 = rDone'[o] + Slots
  PROVE  Landing(d, o, k2)'
<1>1. PICK n \in Nat, p \in Nat, q \in Nat, r \in Nat, s \in Nat :
        /\ n = gathered[o] /\ p = InApp(o) /\ q = Unread(o) /\ r = Len(wire[d])
        /\ s = Filled(d)
  BY Zenon DEF Numeric
<1>2. k + n + p + q + r = s
  BY <1>1 DEF Landing
<1>3. k2 + (n + g) + (p + a) + (q + u) + (r + l) = s + f
  BY <1>2
<1>4. k2 + gathered'[o] + InApp(o)' + Unread(o)' + Len(wire[d])' = Filled(d)'
  BY <1>1, <1>3 DEF Change
<1>5. QED
  BY <1>4 DEF Landing

LEMMA SpaceStep ==
  Faults = {} /\ TypeOK /\ TypeOK' /\ ConnInv /\ SendQueueNeverFull /\ Space /\ [Next]_vars
    => Space'
<1> SUFFICES ASSUME Faults = {}, TypeOK, TypeOK', ConnInv, SendQueueNeverFull, Space, [Next]_vars
             PROVE  Space'
  OBVIOUS
<1>s. Slots \in Nat \ {0}
  BY ConnAssumption
<1>d. \A d \in Ends :
        /\ d \in DOMAIN holder /\ d \in DOMAIN imm /\ d \in DOMAIN index /\ d \in DOMAIN done
        /\ d \in DOMAIN wire /\ d \in DOMAIN cq /\ d \in DOMAIN daemon /\ d \in DOMAIN rx
        /\ d \in DOMAIN app /\ d \in DOMAIN notice /\ d \in DOMAIN rDone
        /\ d \in DOMAIN gathered /\ d \in DOMAIN notices
  BY DEF TypeOK
<1>p. \A d \in Ends : Queues(d) /\ Numeric(d)
  BY PartsOf
<1>q. (\A d \in Ends : Queues(d) /\ Numeric(d))'
  <2>1. TypeOK' => (\A d \in Ends : Queues(d) /\ Numeric(d))'
    BY PartsOf, PTL
  <2>2. QED
    BY <2>1
<1>i. Placed /\ \A d \in Ends : Idle(d)
  BY DEF Space
<1>1. CASE UNCHANGED vars
  <2>1. \A d \in Ends : Still(d)
    BY <1>1 DEF vars, Still
  <2>2. ASSUME NEW d \in Ends, NEW c \in Int, NEW k \in Int, At(d, Other(d), c, k)
        PROVE  At(d, Other(d), c, k)'
    <3>1. PICK o \in Ends : o = Other(d)
      BY TwoEnds
    <3>2. Coming(d, c) /\ Going(o, c, k) /\ Landing(d, o, k)
      BY <2>2, <3>1 DEF At
    <3>3. Coming(d, c)' /\ Going(o, c, k)'
      BY <2>1, <3>2, StillEnd
    <3>4. Landing(d, o, k)'
      BY <2>1, <3>2, LandingStays, StillEnd DEF Still
    <3>5. QED
      BY <3>1, <3>3, <3>4 DEF At
  <2>3. Placed'
    BY <1>i, <2>2 DEF Placed
  <2>4. \A d \in Ends : Idle(d)'
    BY <1>i, <2>1, StillEnd
  <2>5. QED
    BY <2>3, <2>4 DEF Space
<1>2. ASSUME NEW e \in Ends
      PROVE  SendStep(e) \/ Cancel(e) \/ CardStep(e) \/ PollStep(e) \/ AppStep(e) => Space'
  <2>o. PICK o \in Ends : o = Other(e) /\ o # e /\ Other(o) = e /\ \A d \in Ends : d = e \/ d = o
    BY TwoEnds
  <2>i. Idle(e)
    BY <1>i
  <2>n. Numeric(e) /\ Numeric(o) /\ Numeric(e)' /\ Numeric(o)'
    BY <1>p, <1>q
  <2>q. Queues(e) /\ Queues(o)
    BY <1>p
  <2>z. /\ gathered[e] + 0 = gathered[e] /\ InApp(e) + 0 = InApp(e)
        /\ Unread(e) + 0 = Unread(e) /\ Len(wire[e]) + 0 = Len(wire[e])
        /\ Filled(e) + 0 = Filled(e)
        /\ gathered[o] + 0 = gathered[o] /\ InApp(o) + 0 = InApp(o)
        /\ Unread(o) + 0 = Unread(o) /\ Len(wire[o]) + 0 = Len(wire[o])
        /\ Filled(o) + 0 = Filled(o)
    <3>1. \A n \in Nat : n + 0 = n
      OBVIOUS
    <3>2. QED
      BY <2>n, <3>1, Zenon DEF Numeric
(* A step at e alone: what it does to the notices for e that have reached  *)
(* e, and to the notices for its peer that have not left e.                *)
  <2>1. ASSUME Still(o), Idle(e)',
               \A c \in Int, k \in Int :
                 Coming(e, c) /\ Going(o, c, k) /\ Landing(e, o, k) =>
                   \E c2 \in Int, k2 \in Int :
                     Coming(e, c2)' /\ Going(o, c2, k2) /\ Landing(e, o, k2)',
               \A c \in Int, k \in Int :
                 Going(e, c, k) /\ Landing(o, e, k) =>
                   \E k2 \in Int : Going(e, c, k2)' /\ Landing(o, e, k2)'
        PROVE  Space'
    <3>1. ASSUME NEW c \in Int, NEW k \in Int, At(e, o, c, k)
          PROVE  \E c2 \in Int, k2 \in Int : At(e, o, c2, k2)'
      <4>1. PICK c2 \in Int, k2 \in Int :
              Coming(e, c2)' /\ Going(o, c2, k2) /\ Landing(e, o, k2)'
        BY <2>1, <3>1 DEF At
      <4>2. Going(o, c2, k2)'
        BY <2>1, <4>1, StillEnd
      <4>3. QED
        BY <4>1, <4>2 DEF At
    <3>2. ASSUME NEW c \in Int, NEW k \in Int, At(o, e, c, k)
          PROVE  \E c2 \in Int, k2 \in Int : At(o, e, c2, k2)'
      <4>1. Coming(o, c)'
        BY <2>1, <3>2, StillEnd DEF At
      <4>2. PICK k2 \in Int : Going(e, c, k2)' /\ Landing(o, e, k2)'
        BY <2>1, <3>2 DEF At
      <4>3. QED
        BY <4>1, <4>2 DEF At
    <3>3. Placed'
      BY <1>i, <2>o, <3>1, <3>2, PlacedNext
    <3>4. Idle(o)'
      BY <1>i, <2>1, StillEnd
    <3>5. QED
      BY <2>o, <2>1, <3>3, <3>4 DEF Space
(* A step that leaves one of the two alone.                                *)
  <2>2. ASSUME rx'[e] = rx[e], daemon'[e] = daemon[e], cq'[e] = cq[e], done'[e] = done[e]
        PROVE  (\A c \in Int : Coming(e, c) => Coming(e, c)') /\ Unread(e)' = Unread(e)
    BY <2>2, ComingStays DEF Unread
  <2>3. ASSUME wire'[e] = wire[e], index'[e] = index[e], done'[e] = done[e], Still(o),
               NEW k \in Int, Landing(e, o, k)
        PROVE  Landing(e, o, k)'
    BY <2>3, LandingStays, StillEnd DEF Still
  <2>4. ASSUME wire'[e] = wire[e], imm'[e] = imm[e], notices'[e] = notices[e],
               notice'[e] = notice[e]
        PROVE  \A c \in Int, k \in Int : Going(e, c, k) => Going(e, c, k)'
    BY <2>4, GoingStays
  <2>5. ASSUME rDone'[e] = rDone[e], gathered'[e] = gathered[e], app'[e] = app[e],
               Unread(e)' = Unread(e), Still(o), NEW k \in Int, Landing(o, e, k)
        PROVE  Landing(o, e, k)'
    BY <2>5, LandingStays, StillEnd DEF Still
  <2>6. CASE TakeLock(e)
    <3>1. Still(o)
      BY <1>d, <2>o, <2>6 DEF TakeLock, Still, netVars, recvVars
    <3>2. /\ rx'[e] = rx[e] /\ daemon'[e] = daemon[e] /\ cq'[e] = cq[e] /\ done'[e] = done[e]
          /\ wire'[e] = wire[e] /\ index'[e] = index[e] /\ imm'[e] = imm[e]
          /\ notices'[e] = notices[e] /\ notice'[e] = notice[e]
          /\ rDone'[e] = rDone[e] /\ gathered'[e] = gathered[e] /\ app'[e] = app[e]
      BY <2>6 DEF TakeLock, netVars, recvVars
    <3>3. Idle(e)'
      BY <2>i, <2>6, <3>2 DEF TakeLock, Idle
    <3>4. QED
      BY <2>1, <2>2, <2>3, <2>4, <2>5, <3>1, <3>2, <3>3
  <2>7. CASE PassWindow(e)
    <3>1. Still(o)
      BY <1>d, <2>o, <2>7 DEF PassWindow, TakeNotice, Still, netVars
    <3>2. /\ rx'[e] = rx[e] /\ daemon'[e] = daemon[e] /\ cq'[e] = cq[e] /\ done'[e] = done[e]
          /\ wire'[e] = wire[e] /\ index'[e] = index[e]
          /\ notice'[e] = notice[e] /\ holder'[e] = "alloc"
          /\ rDone'[e] = rDone[e] /\ gathered'[e] = gathered[e] /\ app'[e] = app[e]
      BY <1>d, <2>7 DEF PassWindow, netVars
    <3>3. Idle(e)'
      BY <2>i, <3>2 DEF Idle
    <3>4. imm[e] = 0
      BY <2>i, <2>7 DEF PassWindow, Idle
    <3>5. ASSUME NEW c \in Int, NEW k \in Int, Going(e, c, k) PROVE Going(e, c, k)'
      <4>1. CASE notices[e] = <<>>
        <5>1. imm'[e] = 0 /\ notices'[e] = notices[e]
          BY <1>d, <2>7, <4>1 DEF PassWindow, TakeNotice
        <5>2. QED
          BY <3>2, <3>4, <3>5, <5>1, GoingStays
      <4>2. CASE notices[e] # <<>>
        <5>1. imm'[e] = Head(notices[e]) /\ notices'[e] = Tail(notices[e])
          BY <1>d, <2>7, <4>2 DEF PassWindow, TakeNotice
        <5>2. PICK w \in Int, x \in Int, y \in Int :
                /\ Path(wire[e], c, w) /\ Hop(w, imm[e], x)
                /\ Path(notices[e], x, y) /\ Hop(y, notice[e], k)
          BY <3>5 DEF Going
        <5>3. x = w
          BY <3>4, <5>2, HopStay
        <5>4. PICK s \in Int : Hop(w, Head(notices[e]), s) /\ Path(Tail(notices[e]), s, y)
          BY <2>q, <4>2, <5>2, <5>3, PathTail DEF Queues
        <5>5. /\ Path(wire'[e], c, w) /\ Hop(w, imm'[e], s)
              /\ Path(notices'[e], s, y) /\ Hop(y, notice'[e], k)
          BY <3>2, <5>1, <5>2, <5>4
        <5>6. QED
          BY <5>5 DEF Going
      <4>3. QED
        BY <4>1, <4>2
    <3>6. QED
      BY <2>1, <2>2, <2>3, <2>5, <3>1, <3>2, <3>3, <3>5
  <2>8. CASE Post(e)
    <3>1. SendQueue(e) < SendDepth /\ SendQueue(e) \in Int /\ SendDepth \in Int
      <4>1. PICK w \in Nat, a \in Nat, u \in Nat :
              w = Len(wire[e]) /\ a = unacked[e] /\ u = Unpolled(cq[e], "Write")
        BY <2>q, CutEnds, CutType, LenProperties DEF Queues, TypeOK
      <4>2. SendQueue(e) \in Int
        BY <4>1 DEF SendQueue
      <4>3. QED
        BY <2>8, <4>2, ConnAssumption DEF Post, SendQueueNeverFull, SendDepth
    <3>2. wire' = [wire EXCEPT ![e] = Append(@, imm[e])]
      BY <2>8, <3>1 DEF Post
    <3>3. Still(o)
      BY <1>d, <2>o, <2>8, <3>2 DEF Post, Still, recvVars
    <3>4. /\ rx'[e] = rx[e] /\ daemon'[e] = daemon[e] /\ cq'[e] = cq[e] /\ done'[e] = done[e]
          /\ wire'[e] = Append(wire[e], imm[e]) /\ imm'[e] = 0
          /\ notices'[e] = notices[e] /\ notice'[e] = notice[e]
          /\ rDone'[e] = rDone[e] /\ gathered'[e] = gathered[e] /\ app'[e] = app[e]
          /\ index'[e] = (IF index[e] + 1 > Slots THEN 1 ELSE index[e] + 1)
      BY <1>d, <2>8, <3>2 DEF Post, recvVars
    <3>5. Idle(e)'
      BY <2>i, <3>4 DEF Idle
    <3>6. imm[e] \in Counts /\ wire[e] \in Seq(Counts)
      BY <2>q DEF Queues, TypeOK
    <3>7. ASSUME NEW c \in Int, NEW k \in Int, Going(e, c, k) PROVE Going(e, c, k)'
      <4>1. PICK w \in Int, x \in Int, y \in Int :
              /\ Path(wire[e], c, w) /\ Hop(w, imm[e], x)
              /\ Path(notices[e], x, y) /\ Hop(y, notice[e], k)
        BY <3>7 DEF Going
      <4>2. Path(Append(wire[e], imm[e]), c, x)
        BY <3>6, <4>1, PathAppend
      <4>3. Hop(x, 0, x)
        BY HopStay
      <4>4. /\ Path(wire'[e], c, x) /\ Hop(x, imm'[e], x)
            /\ Path(notices'[e], x, y) /\ Hop(y, notice'[e], k)
        BY <3>4, <4>1, <4>2, <4>3
      <4>5. QED
        BY <4>4 DEF Going
    <3>8. Filled(e)' = Filled(e) + 1
      <4>1. PICK i \in Nat, j \in Nat : i = index[e] /\ j = done[e] /\ i <= Slots /\ j <= Slots
        BY <2>n DEF Numeric
      <4>2. IF i + 1 > Slots THEN 1 < j /\ j <= i ELSE i + 1 < j \/ j <= i
        BY <2>8, <4>1 DEF Post, HasSpace
      <4>3. Filled(e) = IF j <= i THEN i ELSE Slots + i
        BY <4>1 DEF Filled
      <4>4. CASE i + 1 > Slots
        <5>1. Filled(e)' = IF j <= 1 THEN 1 ELSE Slots + 1
          BY <3>4, <4>1, <4>4 DEF Filled
        <5>2. QED
          BY <1>s, <4>1, <4>2, <4>3, <4>4, <5>1
      <4>5. CASE i + 1 <= Slots
        <5>1. Filled(e)' = IF j <= i + 1 THEN i + 1 ELSE Slots + (i + 1)
          BY <1>s, <3>4, <4>1, <4>5 DEF Filled
        <5>2. QED
          BY <1>s, <4>1, <4>2, <4>3, <4>5, <5>1
      <4>6. QED
        BY <1>s, <4>1, <4>4, <4>5
    <3>9. Len(wire[e])' = Len(wire[e]) + 1
      BY <3>4, <3>6, AppendProperties
    <3>10. ASSUME NEW k \in Int, Landing(e, o, k) PROVE Landing(e, o, k)'
      <4>1. /\ rDone'[o] = rDone[o] /\ gathered'[o] = gathered[o]
            /\ InApp(o)' = InApp(o) /\ Unread(o)' = Unread(o)
        BY <3>3, StillEnd DEF Still
      <4>2. Change(e, o, 0, 0, 0, 1, 1)
        BY <2>z, <3>8, <3>9, <4>1, Zenon DEF Change
      <4>3. QED
        BY <2>n, <3>10, <4>1, <4>2, Balanced DEF Landing
    <3>11. QED
      BY <2>1, <2>2, <2>5, <3>3, <3>4, <3>5, <3>7, <3>10
  <2>9. CASE Cancel(e)
    BY <2>9 DEF Cancel
  <2>10. CASE Acknowledge(e)
    <3>1. unacked[e] = 0
      BY DEF ConnInv, WritesFirst
    <3>2. QED
      BY <2>10, <3>1 DEF Acknowledge
  <2>11. CASE Execute(e)
    <3>1. /\ wire[e] # <<>> /\ Head(wire[e]) \in Counts /\ Tail(wire[e]) \in Seq(Counts)
          /\ Len(Tail(wire[e])) = Len(wire[e]) - 1
      BY <2>q, <2>11, HeadTailProperties DEF Execute, Queues
    <3>2. cq' = [[cq EXCEPT ![o] = Append(@, Received(Head(wire[e])))]
                   EXCEPT ![e] = Append(@, Written)]
      BY <2>o, <2>11 DEF Execute
    <3>3. cq'[e] = Append(cq[e], Written) /\ cq'[o] = Append(cq[o], Received(Head(wire[e])))
      BY <1>d, <2>o, <3>2
    <3>4. /\ wire'[e] = Tail(wire[e]) /\ wire'[o] = wire[o]
          /\ \A d \in Ends :
               /\ rx'[d] = rx[d] /\ daemon'[d] = daemon[d] /\ done'[d] = done[d]
               /\ index'[d] = index[d] /\ holder'[d] = holder[d]
               /\ imm'[d] = imm[d] /\ notices'[d] = notices[d] /\ notice'[d] = notice[d]
               /\ rDone'[d] = rDone[d] /\ gathered'[d] = gathered[d] /\ app'[d] = app[d]
      BY <1>d, <2>o, <2>11 DEF Execute, sendVars, recvVars
    <3>5. PICK r \in Completion :
            /\ r = Received(Head(wire[e])) /\ IsReceived(r) /\ ~ IsWritten(r)
            /\ r.imm = Head(wire[e])
      BY <3>1, CompletionTypes DEF Received
    <3>6. Written \in Completion /\ ~ IsReceived(Written) /\ Written.imm = 0
      BY CompletionTypes DEF Written
    <3>7. cq[e] \in Seq(Completion) /\ cq[o] \in Seq(Completion)
      BY <2>q DEF Queues
    <3>8. ASSUME NEW d \in Ends PROVE Idle(d)'
      <4>1. Bare(cq[e]) /\ Bare(cq[o])
        BY <1>i DEF Idle, Bare
      <4>2. Bare(Append(cq[e], Written)) /\ Bare(Append(cq[o], r))
        BY <3>5, <3>6, <3>7, <4>1, BareQueue
      <4>3. Bare(cq'[d])
        BY <2>o, <3>3, <3>5, <4>2
      <4>4. Idle(d)
        BY <1>i
      <4>5. QED
        BY <3>4, <4>3, <4>4 DEF Idle, Bare
    <3>9. Unread(e)' = Unread(e) /\ Unread(o)' = Unread(o) + 1
      <4>1. PICK u \in Nat, n \in Nat, x \in Nat :
              u = Unpolled(cq[e], "WriteWithImm") /\ n = Len(daemon[e]) /\ x = Len(rx[e])
        BY <2>q, <3>7, Arrived, LenProperties DEF Queues
      <4>2. Unpolled(Append(cq[e], Written), "WriteWithImm") = u + 0
        BY <3>6, <3>7, <4>1, Arrived
      <4>3. PICK v \in Nat, m \in Nat, y \in Nat :
              v = Unpolled(cq[o], "WriteWithImm") /\ m = Len(daemon[o]) /\ y = Len(rx[o])
        BY <2>q, <3>7, Arrived, LenProperties DEF Queues
      <4>4. Unpolled(Append(cq[o], r), "WriteWithImm") = v + 1
        BY <3>5, <3>7, <4>3, Arrived
      <4>5. Unread(e) = u + n + x /\ Unread(e)' = (u + 0) + n + x
        BY <3>3, <3>4, <4>1, <4>2 DEF Unread
      <4>6. Unread(o) = v + m + y /\ Unread(o)' = (v + 1) + m + y
        BY <3>3, <3>4, <3>5, <4>3, <4>4 DEF Unread
      <4>7. QED
        BY <4>5, <4>6
    <3>10. /\ Filled(e)' = Filled(e) /\ Filled(o)' = Filled(o)
           /\ InApp(e)' = InApp(e) /\ InApp(o)' = InApp(o)
      BY <3>4 DEF Filled, InApp
    <3>11. ASSUME NEW c \in Int, NEW k \in Int, At(e, o, c, k)
           PROVE  \E c2 \in Int, k2 \in Int : At(e, o, c2, k2)'
      <4>1. PICK a \in Int, b \in Int :
              Path(rx[e], done[e], a) /\ Path(daemon[e], a, b) /\ Path(Imms(cq[e]), b, c)
        BY <3>11 DEF At, Coming
      <4>2. Imms(cq[e]) \in Seq(Counts) /\ Imms(Append(cq[e], Written)) = Append(Imms(cq[e]), 0)
        BY <3>6, <3>7, ImmsOf
      <4>3. Hop(c, 0, c) /\ 0 \in Counts
        BY HopStay, CompletionTypes
      <4>4. Path(Append(Imms(cq[e]), 0), b, c)
        BY <4>1, <4>2, <4>3, PathAppend
      <4>5. Path(rx'[e], done'[e], a) /\ Path(daemon'[e], a, b) /\ Path(Imms(cq'[e]), b, c)
        BY <3>3, <3>4, <4>1, <4>2, <4>4
      <4>6. Coming(e, c)'
        BY <4>5 DEF Coming
      <4>7. Going(o, c, k)'
        BY <3>4, <3>11, GoingStays DEF At
      <4>8. Change(e, o, 0, 0, 1, -1, 0)
        <5>1. Len(wire[e])' = Len(wire[e]) + (-1)
          <6>1. Len(wire[e]) \in Nat
            BY <2>n, Zenon DEF Numeric
          <6>2. QED
            BY <3>1, <3>4, <6>1
        <5>2. QED
          BY <2>z, <3>4, <3>9, <3>10, <5>1, Zenon DEF Change
      <4>9. Landing(e, o, k)'
        <5>1. Landing(e, o, k) /\ (k = rDone'[o] \/ k = rDone'[o] + Slots)
          BY <3>4, <3>11 DEF At, Landing
        <5>2. k + 0 + 0 + 1 + (-1) = k + 0
          OBVIOUS
        <5>3. QED
          BY <2>n, <4>8, <5>1, <5>2, Balanced
      <4>10. QED
        BY <4>6, <4>7, <4>9 DEF At
    <3>12. ASSUME NEW c \in Int, NEW k \in Int, At(o, e, c, k)
           PROVE  \E c2 \in Int, k2 \in Int : At(o, e, c2, k2)'
      <4>1. PICK a \in Int, b \in Int :
              Path(rx[o], done[o], a) /\ Path(daemon[o], a, b) /\ Path(Imms(cq[o]), b, c)
        BY <3>12 DEF At, Coming
      <4>2. PICK w \in Int, x \in Int, y \in Int :
              /\ Path(wire[e], c, w) /\ Hop(w, imm[e], x)
              /\ Path(notices[e], x, y) /\ Hop(y, notice[e], k)
        BY <3>12 DEF At, Going
      <4>3. PICK s \in Int : Hop(c, Head(wire[e]), s) /\ Path(Tail(wire[e]), s, w)
        BY <2>q, <3>1, <4>2, PathTail DEF Queues
      <4>4. Imms(cq[o]) \in Seq(Counts) /\ Imms(Append(cq[o], r)) = Append(Imms(cq[o]), Head(wire[e]))
        BY <3>5, <3>7, ImmsOf
      <4>5. Path(Append(Imms(cq[o]), Head(wire[e])), b, s)
        BY <3>1, <4>1, <4>3, <4>4, PathAppend
      <4>6. Path(rx'[o], done'[o], a) /\ Path(daemon'[o], a, b) /\ Path(Imms(cq'[o]), b, s)
        BY <3>3, <3>4, <3>5, <4>1, <4>4, <4>5
      <4>7. Coming(o, s)'
        BY <4>6 DEF Coming
      <4>8. /\ Path(wire'[e], s, w) /\ Hop(w, imm'[e], x)
            /\ Path(notices'[e], x, y) /\ Hop(y, notice'[e], k)
        BY <3>4, <4>2, <4>3
      <4>9. Going(e, s, k)'
        BY <4>8 DEF Going
      <4>10. Landing(o, e, k)'
        BY <3>4, <3>9, <3>12, LandingStays DEF At
      <4>11. QED
        BY <4>7, <4>9, <4>10 DEF At
    <3>13. Placed'
      BY <1>i, <2>o, <3>11, <3>12, PlacedNext
    <3>14. QED
      BY <3>8, <3>13 DEF Space
  <2>12. CASE PollReceived(e)
    <3>1. /\ cq[e] \in Seq(Completion) /\ cq[e] # <<>> /\ IsReceived(Head(cq[e]))
          /\ Head(cq[e]) \in Completion /\ daemon[e] = <<>>
      BY <2>q, <2>12, HeadTailProperties DEF PollReceived, Poll, Queues
    <3>2. Still(o)
      BY <1>d, <2>o, <2>12 DEF PollReceived, Poll, Still, sendVars, recvVars
    <3>3. /\ cq'[e] = Tail(cq[e]) /\ daemon'[e] = <<Head(cq[e]).imm>>
          /\ rx'[e] = rx[e] /\ done'[e] = done[e]
          /\ wire'[e] = wire[e] /\ index'[e] = index[e] /\ imm'[e] = imm[e]
          /\ notices'[e] = notices[e] /\ notice'[e] = notice[e] /\ holder'[e] = holder[e]
          /\ rDone'[e] = rDone[e] /\ gathered'[e] = gathered[e] /\ app'[e] = app[e]
      BY <1>d, <2>12 DEF PollReceived, Poll, sendVars, recvVars
    <3>4. Idle(e)'
      <4>1. Bare(Tail(cq[e]))
        BY <2>i, <3>1, BareQueue DEF Idle, Bare
      <4>2. QED
        BY <2>i, <3>3, <4>1 DEF Idle, Bare
    <3>5. PICK n \in Counts : n = Head(cq[e]).imm
      BY <3>1, CompletionTypes
    <3>6. Unread(e)' = Unread(e)
      <4>1. PICK u \in Nat, x \in Nat : u = Unpolled(cq[e], "WriteWithImm") /\ x = Len(rx[e])
        BY <2>q, <3>1, Arrived, LenProperties DEF Queues
      <4>2. Unpolled(Tail(cq[e]), "WriteWithImm") = u - 1
        BY <3>1, <4>1, Arrived
      <4>3. Len(daemon[e]) = 0 /\ Len(daemon'[e]) = 1
        BY <3>1, <3>3
      <4>4. Unread(e) = u + 0 + x /\ Unread(e)' = (u - 1) + 1 + x
        BY <3>3, <4>1, <4>2, <4>3 DEF Unread
      <4>5. QED
        BY <4>4
    <3>7. ASSUME NEW c \in Int, Coming(e, c) PROVE Coming(e, c)'
      <4>1. PICK a \in Int, b \in Int :
              Path(rx[e], done[e], a) /\ Path(daemon[e], a, b) /\ Path(Imms(cq[e]), b, c)
        BY <3>7 DEF Coming
      <4>2. b = a
        BY <3>1, <4>1, PathEmpty
      <4>3. /\ Imms(cq[e]) \in Seq(Counts) /\ Imms(cq[e]) # <<>> /\ Head(Imms(cq[e])) = n
            /\ Imms(Tail(cq[e])) = Tail(Imms(cq[e]))
        BY <3>1, <3>5, ImmsOf
      <4>4. PICK s \in Int : Hop(a, n, s) /\ Path(Imms(Tail(cq[e])), s, c)
        BY <4>1, <4>2, <4>3, PathTail
      <4>5. Path(<<n>>, a, s)
        BY <4>4, PathOne
      <4>6. Path(rx'[e], done'[e], a) /\ Path(daemon'[e], a, s) /\ Path(Imms(cq'[e]), s, c)
        BY <3>3, <3>5, <4>1, <4>4, <4>5
      <4>7. QED
        BY <4>6 DEF Coming
    <3>8. QED
      BY <2>1, <2>3, <2>4, <2>5, <3>2, <3>3, <3>4, <3>6, <3>7
  <2>13. CASE PollWritten(e)
    <3>1. /\ cq[e] \in Seq(Completion) /\ cq[e] # <<>> /\ IsWritten(Head(cq[e]))
          /\ Head(cq[e]) \in Completion
      BY <2>q, <2>13, HeadTailProperties DEF PollWritten, Poll, Queues
    <3>2. Still(o)
      BY <1>d, <2>o, <2>13 DEF PollWritten, Poll, Still, sendVars, recvVars
    <3>3. /\ cq'[e] = Tail(cq[e]) /\ daemon'[e] = daemon[e]
          /\ rx'[e] = rx[e] /\ done'[e] = done[e]
          /\ wire'[e] = wire[e] /\ index'[e] = index[e] /\ imm'[e] = imm[e]
          /\ notices'[e] = notices[e] /\ notice'[e] = notice[e] /\ holder'[e] = holder[e]
          /\ rDone'[e] = rDone[e] /\ gathered'[e] = gathered[e] /\ app'[e] = app[e]
      BY <1>d, <2>13 DEF PollWritten, Poll, sendVars, recvVars
    <3>4. Bare(Tail(cq[e])) /\ Head(cq[e]).imm = 0
      BY <2>i, <3>1, BareQueue DEF Idle, Bare
    <3>5. Idle(e)'
      BY <2>i, <3>3, <3>4 DEF Idle, Bare
    <3>6. Unread(e)' = Unread(e)
      <4>1. ~ IsReceived(Head(cq[e]))
        BY <3>1, CompletionTypes
      <4>2. Unpolled(Tail(cq[e]), "WriteWithImm") = Unpolled(cq[e], "WriteWithImm")
        BY <3>1, <4>1, Arrived
      <4>3. QED
        BY <3>3, <4>2 DEF Unread
    <3>7. ASSUME NEW c \in Int, Coming(e, c) PROVE Coming(e, c)'
      <4>1. PICK a \in Int, b \in Int :
              Path(rx[e], done[e], a) /\ Path(daemon[e], a, b) /\ Path(Imms(cq[e]), b, c)
        BY <3>7 DEF Coming
      <4>2. /\ Imms(cq[e]) \in Seq(Counts) /\ Imms(cq[e]) # <<>> /\ Head(Imms(cq[e])) = 0
            /\ Imms(Tail(cq[e])) = Tail(Imms(cq[e]))
        BY <3>1, <3>4, ImmsOf
      <4>3. PICK s \in Int : Hop(b, 0, s) /\ Path(Imms(Tail(cq[e])), s, c)
        BY <4>1, <4>2, PathTail
      <4>4. s = b
        BY <4>3, HopStay
      <4>5. Path(rx'[e], done'[e], a) /\ Path(daemon'[e], a, b) /\ Path(Imms(cq'[e]), b, c)
        BY <3>3, <4>1, <4>3, <4>4
      <4>6. QED
        BY <4>5 DEF Coming
    <3>8. QED
      BY <2>1, <2>3, <2>4, <2>5, <3>2, <3>3, <3>5, <3>6, <3>7
  <2>14. CASE Dispatch(e)
    <3>1. Still(o)
      BY <1>d, <2>o, <2>14 DEF Dispatch, Still, sendVars, netVars, recvVars
    <3>2. /\ cq'[e] = cq[e] /\ daemon'[e] = <<>>
          /\ rx'[e] = rx[e] \o daemon[e] /\ done'[e] = done[e]
          /\ wire'[e] = wire[e] /\ index'[e] = index[e] /\ imm'[e] = imm[e]
          /\ notices'[e] = notices[e] /\ notice'[e] = notice[e] /\ holder'[e] = holder[e]
          /\ rDone'[e] = rDone[e] /\ gathered'[e] = gathered[e] /\ app'[e] = app[e]
      BY <1>d, <2>14 DEF Dispatch, sendVars, netVars, recvVars
    <3>3. PICK n \in Counts : daemon[e] = <<n>>
      <4>1. daemon[e] \in Seq(Counts) /\ daemon[e] # <<>> /\ Len(daemon[e]) <= 1
        BY <2>q, <2>14 DEF Dispatch, Queues, ConnInv, Windows
      <4>2. Len(daemon[e]) = 1
        <5>1. PICK m \in Nat \ {0} : m = Len(daemon[e])
          BY <4>1, EmptySeq
        <5>2. m <= 1
          BY <4>1, <5>1
        <5>3. m = 1
          BY <5>2
        <5>4. QED
          BY <5>1, <5>3, Zenon
      <4>3. daemon[e][1] \in Counts
        BY <4>1, <4>2, ElementOfSeq
      <4>4. daemon[e] = <<daemon[e][1]>>
        BY <4>1, <4>2
      <4>5. QED
        BY <4>3, <4>4
    <3>4. rx[e] \in Seq(Counts) /\ rx'[e] = Append(rx[e], n)
      BY <2>q, <3>2, <3>3, AppendIsConcat DEF Queues
    <3>5. Idle(e)'
      BY <2>i, <3>2 DEF Idle
    <3>6. Unread(e)' = Unread(e)
      <4>1. PICK u \in Nat, x \in Nat : u = Unpolled(cq[e], "WriteWithImm") /\ x = Len(rx[e])
        BY <2>q, Arrived, LenProperties DEF Queues
      <4>2. Len(daemon[e]) = 1 /\ Len(daemon'[e]) = 0 /\ Len(rx'[e]) = x + 1
        BY <3>2, <3>3, <3>4, <4>1, AppendProperties
      <4>3. Unread(e) = u + 1 + x /\ Unread(e)' = u + 0 + (x + 1)
        BY <3>2, <4>1, <4>2 DEF Unread
      <4>4. QED
        BY <4>3
    <3>7. ASSUME NEW c \in Int, Coming(e, c) PROVE Coming(e, c)'
      <4>1. PICK a \in Int, b \in Int :
              Path(rx[e], done[e], a) /\ Path(daemon[e], a, b) /\ Path(Imms(cq[e]), b, c)
        BY <3>7 DEF Coming
      <4>2. Hop(a, n, b)
        BY <3>3, <4>1, PathOne
      <4>3. Path(Append(rx[e], n), done[e], b) /\ Path(<<>>, b, b)
        BY <3>4, <4>1, <4>2, PathAppend, PathEmpty
      <4>4. Path(rx'[e], done'[e], b) /\ Path(daemon'[e], b, b) /\ Path(Imms(cq'[e]), b, c)
        BY <3>2, <3>4, <4>1, <4>3
      <4>5. QED
        BY <4>4 DEF Coming
    <3>8. QED
      BY <2>1, <2>3, <2>4, <2>5, <3>1, <3>2, <3>5, <3>6, <3>7
  <2>15. CASE RecvMsg(e)
    <3>1. Still(o)
      BY <1>d, <2>o, <2>15 DEF RecvMsg, Still, sendVars, netVars
    <3>2. /\ cq'[e] = cq[e] /\ daemon'[e] = daemon[e] /\ rx'[e] = Tail(rx[e]) /\ rx[e] # <<>>
          /\ done'[e] = Advance(e, Head(rx[e]))
          /\ wire'[e] = wire[e] /\ index'[e] = index[e] /\ imm'[e] = imm[e]
          /\ notices'[e] = notices[e] /\ notice'[e] = notice[e] /\ holder'[e] = holder[e]
          /\ rDone'[e] = rDone[e] /\ gathered'[e] = gathered[e]
          /\ app[e] = "recv" /\ app'[e] = "reading"
      BY <1>d, <2>15 DEF RecvMsg, sendVars, netVars
    <3>3. Idle(e)'
      BY <2>i, <3>2 DEF Idle
    <3>4. rx[e] \in Seq(Counts) /\ Tail(rx[e]) \in Seq(Counts) /\ Len(Tail(rx[e])) = Len(rx[e]) - 1
      BY <2>q, <3>2, HeadTailProperties DEF Queues
    <3>5. PICK h \in Nat : h = Head(rx[e])
      BY <1>s, <3>2, <3>4, HeadTailProperties DEF Counts
    <3>6. PICK i \in Nat, dn \in Nat : i = index[e] /\ dn = done[e] /\ i <= Slots /\ dn <= Slots
      BY <2>n DEF Numeric
    <3>7. ASSUME NEW c \in Int, NEW k \in Int, Coming(e, c), Going(o, c, k), Landing(e, o, k)
          PROVE  \E c2 \in Int, k2 \in Int :
                   Coming(e, c2)' /\ Going(o, c2, k2) /\ Landing(e, o, k2)'
      <4>1. PICK a \in Int, b \in Int :
              Path(rx[e], dn, a) /\ Path(daemon[e], a, b) /\ Path(Imms(cq[e]), b, c)
        BY <3>6, <3>7 DEF Coming
      <4>2. PICK s \in Int : Hop(dn, h, s) /\ Path(Tail(rx[e]), s, a)
        BY <3>2, <3>4, <3>5, <4>1, PathTail
      <4>3. s = dn + h /\ (dn < Slots => s <= Slots)
        BY <4>2 DEF Hop
      <4>4. s <= a /\ a <= b /\ b <= c /\ c <= k
        <5>1. s <= a
          BY <3>4, <4>2, PathEnds
        <5>2. QED
          BY <2>n, <2>q, <3>7, <4>1, <5>1, ComingEnds, GoingTurn
      <4>5. PICK f \in Nat : f = Filled(e) /\ f < 2 * Slots /\ f = IF dn <= i THEN i ELSE Slots + i
        BY <2>n, <3>6 DEF Numeric, Filled
      <4>6. k <= f
        <5>1. PICK g \in Nat, p \in Nat, u \in Nat, l \in Nat :
                g = gathered[o] /\ p = InApp(o) /\ u = Unread(o) /\ l = Len(wire[e])
          BY <2>n, Zenon DEF Numeric
        <5>2. k + g + p + u + l = f
          BY <3>7, <4>5, <5>1 DEF Landing
        <5>3. QED
          BY <5>2
      <4>7. /\ gathered'[o] = gathered[o] /\ InApp(o)' = InApp(o) /\ Unread(o)' = Unread(o)
            /\ Len(wire[e])' = Len(wire[e]) /\ rDone'[o] = rDone[o]
        BY <3>1, <3>2, StillEnd DEF Still
      <4>8. k = rDone[o] \/ k = rDone[o] + Slots
        BY <3>7 DEF Landing
      <4>9. CASE dn + h <= Slots
        <5>1. done'[e] = s
          <6>1. Advance(e, h) = dn + h
            BY <1>s, <3>6, <4>9 DEF Advance
          <6>2. QED
            BY <3>2, <3>5, <4>3, <6>1, Zenon
        <5>2. Path(rx'[e], done'[e], a) /\ Path(daemon'[e], a, b) /\ Path(Imms(cq'[e]), b, c)
          BY <3>2, <4>1, <4>2, <5>1
        <5>3. Filled(e)' = f
          <6>1. Filled(e)' = IF s <= i THEN i ELSE Slots + i
            BY <3>2, <3>6, <5>1 DEF Filled
          <6>2. s <= i <=> dn <= i
            BY <1>s, <4>3, <4>4, <4>5, <4>6
          <6>3. QED
            BY <4>5, <6>1, <6>2
        <5>4. Change(e, o, 0, 0, 0, 0, 0)
          BY <2>z, <4>5, <4>7, <5>3, Zenon DEF Change
        <5>5. k + 0 + 0 + 0 + 0 = k + 0
          OBVIOUS
        <5>6. Landing(e, o, k)'
          <6>1. k = rDone'[o] \/ k = rDone'[o] + Slots
            BY <4>7, <4>8, Zenon
          <6>2. QED
            BY <2>n, <3>7, <5>4, <5>5, <6>1, Balanced
        <5>7. Coming(e, c)'
          BY <5>2 DEF Coming
        <5>8. QED
          BY <3>7, <5>6, <5>7
      <4>10. CASE dn + h > Slots
        <5>1. dn = Slots /\ s = Slots + h
          BY <1>s, <3>6, <4>3, <4>10
        <5>2. done'[e] = h /\ h = s - Slots
          BY <1>s, <3>2, <3>5, <3>6, <4>10, <5>1 DEF Advance
        <5>3. f = Slots + i /\ h <= i
          BY <1>s, <3>6, <4>4, <4>5, <4>6, <4>10, <5>1
        <5>4. Filled(e)' = i
          BY <3>2, <3>6, <5>2, <5>3 DEF Filled
        <5>5. a <= 2 * Slots /\ b <= 2 * Slots /\ c <= 2 * Slots /\ k <= 2 * Slots
          BY <1>s, <4>4, <4>5, <4>6
        <5>6. Path(Tail(rx[e]), s - Slots, a - Slots)
          BY <3>4, <4>2, <5>5, PathTurn
        <5>7. Path(daemon[e], a - Slots, b - Slots) /\ Path(Imms(cq[e]), b - Slots, c - Slots)
          BY <2>q, <4>1, <5>5, PathTurn DEF Queues
        <5>8. a - Slots \in Int /\ b - Slots \in Int /\ c - Slots \in Int /\ k - Slots \in Int
          BY <1>s
        <5>9. Coming(e, c - Slots)'
          <6>1. /\ Path(rx'[e], done'[e], a - Slots) /\ Path(daemon'[e], a - Slots, b - Slots)
                /\ Path(Imms(cq'[e]), b - Slots, c - Slots)
            BY <3>2, <5>2, <5>6, <5>7
          <6>2. QED
            BY <5>8, <6>1 DEF Coming
        <5>10. Going(o, c - Slots, k - Slots)
          BY <2>n, <2>q, <3>7, <5>5, GoingTurn
        <5>11. Landing(e, o, k - Slots)'
          <6>1. k - Slots = rDone'[o]
            <7>1. PICK r \in Nat : r = rDone[o] /\ r <= Slots
              BY <2>n DEF Numeric
            <7>2. k > Slots
              BY <1>s, <3>6, <4>3, <4>4, <4>10
            <7>3. QED
              BY <1>s, <4>7, <4>8, <7>1, <7>2
          <6>2. Change(e, o, 0, 0, 0, 0, - Slots)
            <7>1. Filled(e)' = Filled(e) + (- Slots)
              BY <1>s, <4>5, <5>3, <5>4
            <7>2. QED
              BY <2>z, <4>7, <7>1, Zenon DEF Change
          <6>3. (k - Slots) + 0 + 0 + 0 + 0 = k + (- Slots) /\ - Slots \in Int
            BY <1>s
          <6>4. QED
            BY <2>n, <3>7, <5>8, <6>1, <6>2, <6>3, Balanced
        <5>12. QED
          BY <5>8, <5>9, <5>10, <5>11
      <4>11. QED
        BY <1>s, <3>6, <4>9, <4>10
    <3>8. ASSUME NEW k \in Int, Landing(o, e, k) PROVE Landing(o, e, k)'
      <4>1. InApp(e)' = InApp(e) + 1
        BY <3>2 DEF InApp
      <4>2. Unread(e)' = Unread(e) + (-1)
        <5>1. PICK u \in Nat, n \in Nat, x \in Nat :
                u = Unpolled(cq[e], "WriteWithImm") /\ n = Len(daemon[e]) /\ x = Len(rx[e])
          BY <2>q, Arrived, LenProperties DEF Queues
        <5>2. Unread(e) = u + n + x /\ Unread(e)' = u + n + (x - 1)
          BY <3>2, <3>4, <5>1 DEF Unread
        <5>3. QED
          BY <5>2
      <4>3. Change(o, e, 0, 1, -1, 0, 0)
        <5>1. Len(wire[o])' = Len(wire[o]) /\ Filled(o)' = Filled(o)
          BY <3>1, StillEnd
        <5>2. QED
          BY <2>z, <3>2, <4>1, <4>2, <5>1, Zenon DEF Change
      <4>4. k = rDone'[e] \/ k = rDone'[e] + Slots
        BY <3>2, <3>8 DEF Landing
      <4>5. k + 0 + 1 + (-1) + 0 = k + 0
        OBVIOUS
      <4>6. QED
        BY <2>n, <3>8, <4>3, <4>4, <4>5, Balanced
    <3>9. QED
      BY <2>1, <2>4, <3>1, <3>2, <3>3, <3>7, <3>8
  <2>16. CASE ReleaseGathered(e)
    <3>1. Still(o)
      BY <1>d, <2>o, <2>16 DEF ReleaseGathered, Still, netVars
    <3>2. /\ rx'[e] = rx[e] /\ daemon'[e] = daemon[e] /\ cq'[e] = cq[e] /\ done'[e] = done[e]
          /\ wire'[e] = wire[e] /\ index'[e] = index[e] /\ imm'[e] = imm[e]
          /\ notices'[e] = notices[e] /\ notice'[e] = notice[e] /\ holder'[e] = holder[e]
          /\ rDone'[e] = rDone[e] /\ gathered'[e] = gathered[e] + 1
          /\ app[e] = "reading" /\ app'[e] = "recv"
      BY <1>d, <2>16 DEF ReleaseGathered, netVars
    <3>3. Idle(e)'
      BY <2>i, <3>2 DEF Idle
    <3>4. ASSUME NEW k \in Int, Landing(o, e, k) PROVE Landing(o, e, k)'
      <4>1. InApp(e)' = InApp(e) + (-1)
        BY <3>2 DEF InApp
      <4>2. Unread(e)' = Unread(e)
        BY <2>2, <3>2
      <4>3. Change(o, e, 1, -1, 0, 0, 0)
        <5>1. Len(wire[o])' = Len(wire[o]) /\ Filled(o)' = Filled(o)
          BY <3>1, StillEnd
        <5>2. QED
          BY <2>z, <3>2, <4>1, <4>2, <5>1, Zenon DEF Change
      <4>4. k = rDone'[e] \/ k = rDone'[e] + Slots
        BY <3>2, <3>4 DEF Landing
      <4>5. k + 1 + (-1) + 0 + 0 = k + 0
        OBVIOUS
      <4>6. QED
        BY <2>n, <3>4, <4>3, <4>4, <4>5, Balanced
    <3>5. QED
      BY <2>1, <2>2, <2>3, <2>4, <3>1, <3>2, <3>3, <3>4
  <2>17. CASE ReleaseNotified(e)
    <3>1. Still(o)
      BY <1>d, <2>o, <2>17 DEF ReleaseNotified, Still, sendVars, netVars
    <3>2. /\ rx'[e] = rx[e] /\ daemon'[e] = daemon[e] /\ cq'[e] = cq[e] /\ done'[e] = done[e]
          /\ wire'[e] = wire[e] /\ index'[e] = index[e] /\ imm'[e] = imm[e]
          /\ notices'[e] = notices[e] /\ holder'[e] = holder[e]
          /\ app[e] = "reading" /\ app'[e] = "notify"
      BY <1>d, <2>17 DEF ReleaseNotified, sendVars, netVars
    <3>3. Idle(e)' /\ notice[e] = 0
      BY <2>i, <3>2 DEF Idle
    <3>4. PICK r \in Nat, g \in Nat : r = rDone[e] /\ g = gathered[e] /\ r <= Slots /\ r + g <= Slots
      BY <2>n DEF Numeric, ConnInv, GatheredFits
    <3>5. \/ /\ r + g + 1 > Slots
             /\ notice'[e] = g /\ gathered'[e] = 1 /\ rDone'[e] = 0
          \/ /\ r + g + 1 <= Slots
             /\ notice'[e] = g + 1 /\ gathered'[e] = 0 /\ rDone'[e] = r + g + 1
      BY <1>d, <2>17, <3>4 DEF ReleaseNotified
    <3>6. InApp(e)' = InApp(e) + (-1) /\ InApp(e) = 1
      BY <3>2 DEF InApp
    <3>7. Unread(e)' = Unread(e) /\ Len(wire[o])' = Len(wire[o]) /\ Filled(o)' = Filled(o)
      BY <2>2, <3>1, <3>2, StillEnd
    <3>8. ASSUME NEW c \in Int, NEW k \in Int, Going(e, c, k), Landing(o, e, k)
          PROVE  \E k2 \in Int : Going(e, c, k2)' /\ Landing(o, e, k2)'
      <4>1. PICK w \in Int, x \in Int, y \in Int :
              /\ Path(wire[e], c, w) /\ Hop(w, imm[e], x)
              /\ Path(notices[e], x, y) /\ Hop(y, notice[e], k)
        BY <3>8 DEF Going
      <4>2. y = k
        BY <3>3, <4>1, HopStay
      <4>3. ASSUME NEW k2 \in Int, Hop(k, notice'[e], k2) PROVE Going(e, c, k2)'
        <5>1. /\ Path(wire'[e], c, w) /\ Hop(w, imm'[e], x)
              /\ Path(notices'[e], x, k) /\ Hop(k, notice'[e], k2)
          BY <3>2, <4>1, <4>2, <4>3
        <5>2. QED
          BY <5>1 DEF Going
      <4>4. k = r \/ k = r + Slots
        BY <3>4, <3>8 DEF Landing
      <4>5. k + g + 1 < 2 * Slots
        <5>1. PICK u \in Nat, l \in Nat, f \in Nat :
                u = Unread(e) /\ l = Len(wire[o]) /\ f = Filled(o) /\ f < 2 * Slots
          BY <2>n, Zenon DEF Numeric
        <5>2. k + g + 1 + u + l = f
          BY <3>4, <3>6, <3>8, <5>1 DEF Landing
        <5>3. QED
          BY <1>s, <5>1, <5>2
      <4>6. CASE r + g + 1 > Slots
        <5>1. notice'[e] = g /\ gathered'[e] = 1 /\ rDone'[e] = 0
          BY <1>s, <3>5, <4>6
        <5>2. k + g = Slots
          BY <1>s, <3>4, <4>4, <4>5, <4>6
        <5>3. Hop(k, g, Slots)
          BY <1>s, <5>2 DEF Hop
        <5>4. Change(o, e, 1 - g, -1, 0, 0, 0)
          <6>1. gathered'[e] = gathered[e] + (1 - g)
            BY <3>4, <5>1
          <6>2. QED
            BY <2>z, <3>6, <3>7, <6>1, Zenon DEF Change
        <5>5. Slots + (1 - g) + (-1) + 0 + 0 = k + 0 /\ 1 - g \in Int /\ Slots \in Int
          BY <1>s, <5>2
        <5>6. Slots = rDone'[e] + Slots
          BY <1>s, <5>1
        <5>7. Landing(o, e, Slots)'
          BY <2>n, <3>8, <5>4, <5>5, <5>6, Balanced
        <5>8. QED
          BY <4>3, <5>1, <5>3, <5>5, <5>7
      <4>7. CASE r + g + 1 <= Slots
        <5>1. notice'[e] = g + 1 /\ gathered'[e] = 0 /\ rDone'[e] = r + g + 1
          BY <1>s, <3>5, <4>7
        <5>2. PICK k2 \in Int : k2 = k + (g + 1)
          OBVIOUS
        <5>3. Hop(k, g + 1, k2)
          BY <1>s, <4>4, <4>7, <5>2 DEF Hop
        <5>4. Change(o, e, - g, -1, 0, 0, 0)
          <6>1. gathered'[e] = gathered[e] + (- g)
            BY <3>4, <5>1
          <6>2. QED
            BY <2>z, <3>6, <3>7, <6>1, Zenon DEF Change
        <5>5. k2 + (- g) + (-1) + 0 + 0 = k + 0 /\ - g \in Int
          BY <5>2
        <5>6. k2 = rDone'[e] \/ k2 = rDone'[e] + Slots
          BY <1>s, <4>4, <5>1, <5>2
        <5>7. Landing(o, e, k2)'
          BY <2>n, <3>8, <5>4, <5>5, <5>6, Balanced
        <5>8. QED
          BY <4>3, <5>1, <5>3, <5>7
      <4>8. QED
        BY <1>s, <4>6, <4>7
    <3>9. QED
      BY <2>1, <2>2, <2>3, <3>1, <3>2, <3>3, <3>8
  <2>18. CASE SendNotice(e)
    <3>1. Still(o)
      BY <1>d, <2>o, <2>18 DEF SendNotice, Still, netVars
    <3>2. /\ rx'[e] = rx[e] /\ daemon'[e] = daemon[e] /\ cq'[e] = cq[e] /\ done'[e] = done[e]
          /\ wire'[e] = wire[e] /\ index'[e] = index[e] /\ imm'[e] = imm[e]
          /\ notices'[e] = Append(notices[e], notice[e]) /\ notice'[e] = 0
          /\ holder'[e] = holder[e]
          /\ rDone'[e] = rDone[e] /\ gathered'[e] = gathered[e]
          /\ app[e] = "notify" /\ app'[e] = "recv"
      BY <1>d, <2>18 DEF SendNotice, netVars
    <3>3. Idle(e)'
      BY <2>i, <3>2 DEF Idle
    <3>4. ASSUME NEW c \in Int, NEW k \in Int, Going(e, c, k) PROVE Going(e, c, k)'
      <4>1. PICK w \in Int, x \in Int, y \in Int :
              /\ Path(wire[e], c, w) /\ Hop(w, imm[e], x)
              /\ Path(notices[e], x, y) /\ Hop(y, notice[e], k)
        BY <3>4 DEF Going
      <4>2. notices[e] \in Seq(Counts) /\ notice[e] \in Counts
        BY <2>q DEF Queues, TypeOK
      <4>3. Path(Append(notices[e], notice[e]), x, k) /\ Hop(k, 0, k)
        BY <4>1, <4>2, PathAppend, HopStay
      <4>4. /\ Path(wire'[e], c, w) /\ Hop(w, imm'[e], x)
            /\ Path(notices'[e], x, k) /\ Hop(k, notice'[e], k)
        BY <3>2, <4>1, <4>3
      <4>5. QED
        BY <4>4 DEF Going
    <3>5. ASSUME NEW k \in Int, Landing(o, e, k) PROVE Landing(o, e, k)'
      <4>1. InApp(e)' = InApp(e)
        BY <3>2 DEF InApp
      <4>2. Unread(e)' = Unread(e)
        BY <2>2, <3>2
      <4>3. Change(o, e, 0, 0, 0, 0, 0)
        <5>1. Len(wire[o])' = Len(wire[o]) /\ Filled(o)' = Filled(o)
          BY <3>1, StillEnd
        <5>2. QED
          BY <2>z, <3>2, <4>1, <4>2, <5>1, Zenon DEF Change
      <4>4. k = rDone'[e] \/ k = rDone'[e] + Slots
        BY <3>2, <3>5 DEF Landing
      <4>5. k + 0 + 0 + 0 + 0 = k + 0
        OBVIOUS
      <4>6. QED
        BY <2>n, <3>5, <4>3, <4>4, <4>5, Balanced
    <3>6. QED
      BY <2>1, <2>2, <2>3, <3>1, <3>2, <3>3, <3>4, <3>5
  <2>19. QED
    BY <2>6, <2>7, <2>8, <2>9, <2>10, <2>11, <2>12, <2>13, <2>14, <2>15, <2>16, <2>17, <2>18
       DEF SendStep, CardStep, PollStep, AppStep
<1>3. QED
  BY <1>1, <1>2 DEF Next

-----------------------------------------------------------------------------
(* Between the two ends no space of a receive buffer is lost and none is   *)
(* given back twice (alloc, update, notify_release and what carries their  *)
(* numbers): when one end answers the other, messages are acknowledged     *)
(* before they are answered and no waiting send_msg is dropped, what the   *)
(* cursors of an end take for used is exactly what its peer has not        *)
(* returned, at any size.                                                  *)
THEOREM NoSpaceLost == OneInitiator /\ Faults = {} => (Spec => []SpaceConserved)
<1> SUFFICES ASSUME OneInitiator, Faults = {} PROVE Spec => []SpaceConserved
  OBVIOUS
<1>1. Init => Space
  BY SpaceInit
<1>2. TypeOK /\ TypeOK' /\ ConnInv /\ SendQueueNeverFull /\ Space /\ [Next]_vars => Space'
  BY SpaceStep
<1>3. TypeOK /\ Space => SpaceConserved
  BY PlacedIsConserved DEF Space
<1>4. Spec => [](TypeOK /\ ConnInv)
  BY Always
<1>5. Spec => []SendQueueNeverFull
  BY QueueSuffices
<1>6. QED
  BY <1>1, <1>2, <1>3, <1>4, <1>5, PTL DEF Spec

===============================================================================
