------------------------------ MODULE Conn_proofs ------------------------------
(***************************************************************************)
(* Proofs about Conn, for every number of receive requests, every size of  *)
(* the ring and every batch of notices, and any number of messages.        *)
(***************************************************************************)
EXTENDS Conn, FiniteSetTheorems, SequenceTheorems, TLAPS

LEMMA TwoEnds ==
  ASSUME NEW e \in Ends
  PROVE  /\ Other(e) \in Ends /\ Other(e) # e /\ Other(Other(e)) = e
         /\ \A d \in Ends : d = e \/ d = Other(e)
BY DEF Ends, Other

-----------------------------------------------------------------------------
(* Counting the completions of a queue.                                    *)
LEMMA Shifted ==
  ASSUME NEW n \in Nat, NEW K \in SUBSET (1..n), NEW J \in SUBSET (1..n),
         \A k \in Int : k \in J <=> k + 1 \in K /\ k >= 1
  PROVE  Cardinality(J) = Cardinality(K) - (IF 1 \in K THEN 1 ELSE 0)
<1> DEFINE f == [k \in J |-> k + 1]
<1>1. IsFiniteSet(J) /\ IsFiniteSet(K)
  <2>1. IsFiniteSet(1..n)
    BY FS_Interval
  <2>2. IsFiniteSet(J)
    BY <2>1, FS_Subset
  <2>3. IsFiniteSet(K)
    BY <2>1, FS_Subset
  <2>4. QED
    BY <2>2, <2>3
<1>2. f \in Bijection(J, K \ {1})
  <2>1. f \in [J -> K \ {1}]
    <3>1. ASSUME NEW k \in J PROVE k + 1 \in K \ {1}
      BY k \in Int
    <3>2. QED
      BY <3>1
  <2>2. f \in Injection(J, K \ {1})
    <3>1. ASSUME NEW a \in J, NEW b \in J, f[a] = f[b] PROVE a = b
      <4>1. a \in Int /\ b \in Int /\ a + 1 = b + 1
        BY <3>1
      <4>2. QED
        BY <4>1
    <3>2. QED
      BY <2>1, <3>1, Zenon DEF Injection, IsInjective
  <2>3. f \in Surjection(J, K \ {1})
    <3>1. ASSUME NEW b \in K \ {1} PROVE \E a \in J : f[a] = b
      <4>1. b - 1 \in Int /\ (b - 1) + 1 = b /\ b - 1 >= 1
        BY b \in 1..n
      <4>2. b - 1 \in J
        BY <4>1
      <4>3. f[b - 1] = b
        BY <4>1, <4>2
      <4>4. QED
        BY <4>2, <4>3
    <3>2. QED
      BY <2>1, <3>1, Zenon DEF Surjection
  <2>4. QED
    BY <2>2, <2>3 DEF Bijection
<1> HIDE DEF f
<1>3. Cardinality(J) = Cardinality(K \ {1})
  BY <1>1, <1>2, FS_Bijection DEF ExistsBijection
<1>4. Cardinality(K) \in Nat
  BY <1>1, FS_CardinalityType
<1>5. Cardinality(K \ {1}) = IF 1 \in K THEN Cardinality(K) - 1 ELSE Cardinality(K)
  BY <1>1, FS_RemoveElement
<1>6. QED
  BY <1>3, <1>4, <1>5

Cut(q, i) == {k \in DOMAIN q : q[k].opcode = IF k <= i THEN "WriteWithImm" ELSE "Write"}

LEMMA CutType ==
  ASSUME NEW q \in Seq(Completion), NEW i
  PROVE  /\ Cut(q, i) \in SUBSET (1..Len(q)) /\ IsFiniteSet(Cut(q, i))
         /\ CutAt(q, i) = Cardinality(Cut(q, i)) /\ CutAt(q, i) \in Nat
<1>1. Cut(q, i) \in SUBSET (1..Len(q))
  BY DEF Cut
<1>2. IsFiniteSet(Cut(q, i))
  BY <1>1, FS_Interval, FS_Subset
<1>3. CutAt(q, i) = Cardinality(Cut(q, i))
  BY DEF CutAt, Cut
<1>4. QED
  BY <1>1, <1>2, <1>3, FS_CardinalityType

LEMMA CutEnds ==
  ASSUME NEW q \in Seq(Completion)
  PROVE  /\ Unpolled(q, "Write") = CutAt(q, 0)
         /\ Unpolled(q, "WriteWithImm") = CutAt(q, Len(q))
<1>1. {k \in DOMAIN q : q[k].opcode = "Write"} = Cut(q, 0)
  BY DEF Cut
<1>2. {k \in DOMAIN q : q[k].opcode = "WriteWithImm"} = Cut(q, Len(q))
  BY DEF Cut
<1>3. QED
  BY <1>1, <1>2, CutType DEF Unpolled

LEMMA CutAppend ==
  ASSUME NEW q \in Seq(Completion), NEW c \in Completion
  PROVE  /\ \A i \in 0..Len(q) : CutAt(Append(q, c), i)
               = CutAt(q, i) + (IF c.opcode = "Write" THEN 1 ELSE 0)
         /\ CutAt(Append(q, c), Len(q) + 1)
               = CutAt(q, Len(q)) + (IF c.opcode = "WriteWithImm" THEN 1 ELSE 0)
<1> DEFINE r == Append(q, c)
           n == Len(q)
<1>1. /\ r \in Seq(Completion) /\ n \in Nat /\ DOMAIN q = 1..n /\ DOMAIN r = 1..(n + 1)
      /\ \A k \in 1..n : r[k] = q[k]
      /\ r[n + 1] = c
  BY AppendProperties
<1> HIDE DEF r, n
<1>2. ASSUME NEW i \in 0..(n + 1), NEW j \in 0..n, i <= n => j = i, i > n => j = n,
             NEW o, o = IF n + 1 <= i THEN "WriteWithImm" ELSE "Write"
      PROVE  CutAt(r, i) = CutAt(q, j) + (IF c.opcode = o THEN 1 ELSE 0)
  <2>1. \A k \in 1..n : k \in Cut(r, i) <=> k \in Cut(q, j)
    <3>1. \A k \in 1..n : k \in 1..(n + 1) /\ (k <= i <=> k <= j)
      BY <1>1, <1>2
    <3>2. QED
      BY <1>1, <3>1 DEF Cut
  <2>2. n + 1 \in Cut(r, i) <=> c.opcode = o
    BY <1>1, <1>2 DEF Cut
  <2>3. Cut(r, i) \subseteq 1..(n + 1) /\ Cut(q, j) \subseteq 1..n
    BY <1>1 DEF Cut
  <2>4. n + 1 \notin Cut(q, j) /\ \A k \in 1..(n + 1) : k \in 1..n \/ k = n + 1
    BY <1>1, <2>3
  <2>5. CASE c.opcode = o
    <3>1. Cut(r, i) = Cut(q, j) \union {n + 1}
      <4>1. \A k : k \in Cut(r, i) => k \in Cut(q, j) \/ k = n + 1
        BY <2>1, <2>3, <2>4
      <4>2. \A k : k \in Cut(q, j) => k \in Cut(r, i)
        BY <2>1, <2>3
      <4>3. QED
        BY <2>2, <2>5, <4>1, <4>2
    <3>2. Cardinality(Cut(r, i)) = Cardinality(Cut(q, j)) + 1
      <4>1. IsFiniteSet(Cut(q, j)) /\ Cardinality(Cut(q, j)) \in Nat
        BY <1>1, CutType
      <4>2. Cardinality(Cut(q, j) \union {n + 1}) = Cardinality(Cut(q, j)) + 1
        BY <2>4, <4>1, FS_AddElement
      <4>3. QED
        BY <3>1, <4>2
    <3>3. QED
      BY <1>1, <2>5, <3>2, CutType
  <2>6. CASE c.opcode # o
    <3>1. Cut(r, i) = Cut(q, j)
      <4>1. \A k : k \in Cut(r, i) => k \in Cut(q, j)
        BY <2>1, <2>2, <2>3, <2>4, <2>6
      <4>2. \A k : k \in Cut(q, j) => k \in Cut(r, i)
        BY <2>1, <2>3
      <4>3. QED
        BY <4>1, <4>2
    <3>2. CutAt(q, j) \in Nat /\ CutAt(r, i) = CutAt(q, j)
      BY <1>1, <3>1, CutType
    <3>3. QED
      BY <2>6, <3>2
  <2>7. QED
    BY <2>5, <2>6
<1>3. ASSUME NEW i \in 0..n
      PROVE  CutAt(r, i) = CutAt(q, i) + (IF c.opcode = "Write" THEN 1 ELSE 0)
  BY <1>1, <1>2
<1>4. CutAt(r, n + 1) = CutAt(q, n) + (IF c.opcode = "WriteWithImm" THEN 1 ELSE 0)
  BY <1>1, <1>2
<1>5. QED
  BY <1>3, <1>4 DEF r, n

LEMMA CutTail ==
  ASSUME NEW q \in Seq(Completion), q # <<>>
  PROVE  \A i \in 0..(Len(q) - 1) : CutAt(Tail(q), i)
           = CutAt(q, i + 1) - (IF Head(q).opcode = "WriteWithImm" THEN 1 ELSE 0)
<1> DEFINE t == Tail(q)
           n == Len(q)
<1>1. /\ t \in Seq(Completion) /\ n \in Nat \ {0} /\ DOMAIN q = 1..n /\ DOMAIN t = 1..(n - 1)
      /\ \A k \in 1..(n - 1) : t[k] = q[k + 1]
      /\ Head(q) = q[1]
  BY HeadTailProperties, EmptySeq
<1> SUFFICES ASSUME NEW i \in 0..(n - 1)
             PROVE  CutAt(t, i) = CutAt(q, i + 1) - (IF q[1].opcode = "WriteWithImm" THEN 1 ELSE 0)
  BY <1>1
<1> HIDE DEF t, n
<1>2. \A k \in Int : k \in Cut(t, i) <=> k + 1 \in Cut(q, i + 1) /\ k >= 1
  <2>1. \A k \in Int : /\ k \in 1..(n - 1) <=> k + 1 \in 1..n /\ k >= 1
                       /\ k <= i <=> k + 1 <= i + 1
    BY <1>1
  <2>2. QED
    BY <1>1, <2>1 DEF Cut
<1>3. 1 \in Cut(q, i + 1) <=> q[1].opcode = "WriteWithImm"
  BY <1>1 DEF Cut
<1>4. Cut(t, i) \in SUBSET (1..n) /\ Cut(q, i + 1) \in SUBSET (1..n)
  BY <1>1 DEF Cut
<1>5. Cardinality(Cut(t, i)) = Cardinality(Cut(q, i + 1)) - (IF 1 \in Cut(q, i + 1) THEN 1 ELSE 0)
  BY <1>1, <1>2, <1>4, Shifted
<1>6. QED
  BY <1>1, <1>3, <1>5, CutType

(* The received messages in a queue, as one is appended and one polled.    *)
LEMMA Arrived ==
  ASSUME NEW q \in Seq(Completion)
  PROVE  /\ Unpolled(q, "WriteWithImm") \in Nat
         /\ \A c \in Completion : Unpolled(Append(q, c), "WriteWithImm")
              = Unpolled(q, "WriteWithImm") + (IF IsReceived(c) THEN 1 ELSE 0)
         /\ q # <<>> => Unpolled(Tail(q), "WriteWithImm")
              = Unpolled(q, "WriteWithImm") - (IF IsReceived(Head(q)) THEN 1 ELSE 0)
<1>1. Unpolled(q, "WriteWithImm") \in Nat
  BY CutEnds, CutType
<1>2. ASSUME NEW c \in Completion
      PROVE  Unpolled(Append(q, c), "WriteWithImm")
               = Unpolled(q, "WriteWithImm") + (IF IsReceived(c) THEN 1 ELSE 0)
  <2>1. Append(q, c) \in Seq(Completion) /\ Len(Append(q, c)) = Len(q) + 1
    BY AppendProperties
  <2>2. Unpolled(Append(q, c), "WriteWithImm") = CutAt(Append(q, c), Len(q) + 1)
    BY <2>1, CutEnds
  <2>3. QED
    BY <2>2, CutEnds, CutAppend DEF IsReceived
<1>3. ASSUME q # <<>>
      PROVE  Unpolled(Tail(q), "WriteWithImm")
               = Unpolled(q, "WriteWithImm") - (IF IsReceived(Head(q)) THEN 1 ELSE 0)
  <2>1. Tail(q) \in Seq(Completion) /\ Len(Tail(q)) = Len(q) - 1 /\ Len(q) \in Nat \ {0}
    BY <1>3, HeadTailProperties, EmptySeq
  <2>2. Unpolled(Tail(q), "WriteWithImm") = CutAt(Tail(q), Len(q) - 1)
    BY <2>1, CutEnds
  <2>3. Len(q) - 1 \in 0..(Len(q) - 1) /\ (Len(q) - 1) + 1 = Len(q)
    BY <2>1
  <2>4. CutAt(Tail(q), Len(q) - 1)
          = CutAt(q, Len(q)) - (IF Head(q).opcode = "WriteWithImm" THEN 1 ELSE 0)
    BY <1>3, <2>3, CutTail
  <2>5. QED
    BY <2>2, <2>4, CutEnds DEF IsReceived
<1>4. QED
  BY <1>1, <1>2, <1>3

(* A received message that is polled is one of those a receive request     *)
(* was consumed for.                                                       *)
LEMMA PolledCounts ==
  ASSUME NEW q \in Seq(Completion), q # <<>>, IsReceived(Head(q))
  PROVE  Unpolled(q, "WriteWithImm") >= 1
<1>1. Tail(q) \in Seq(Completion)
  BY HeadTailProperties
<1>2. Unpolled(Tail(q), "WriteWithImm") \in Nat /\ Unpolled(q, "WriteWithImm") \in Nat
  BY <1>1, Arrived
<1>3. Unpolled(Tail(q), "WriteWithImm") = Unpolled(q, "WriteWithImm") - 1
  BY Arrived
<1>4. QED
  BY <1>2, <1>3

LEMMA CompletionTypes ==
  /\ \A n \in Counts : Received(n) \in Completion /\ IsReceived(Received(n))
                         /\ Received(n).opcode = "WriteWithImm"
  /\ Written \in Completion /\ ~ IsReceived(Written) /\ Written.opcode = "Write"
  /\ \A c \in Completion : c.imm \in Counts /\ (IsReceived(c) <=> ~ IsWritten(c))
  /\ 0 \in Counts
BY ConnAssumption DEF Received, Written, Completion, Counts, IsReceived, IsWritten

-----------------------------------------------------------------------------
(* Types: the receive requests stay below Rqe because every one consumed   *)
(* has a completion that is not polled, a notice stays below Slots because *)
(* what is gathered for it lies in the buffer.                             *)
Typed == TypeOK /\ RqesReplaced /\ GatheredFits

(* TypeOK in groups: the sender, the cards, the daemon, the receiver.      *)
SendTypes ==
  /\ waiting \in [Ends -> Nat]
  /\ holder \in [Ends -> {"none", "window", "alloc"}]
  /\ imm \in [Ends -> Counts]
  /\ sending \in [Ends -> Int]
  /\ index \in [Ends -> 0..Slots]
  /\ done \in [Ends -> 0..Slots]
NetTypes ==
  /\ wire \in [Ends -> Seq(Counts)]
  /\ unacked \in [Ends -> Nat]
  /\ rqe \in [Ends -> 0..Rqe]
  /\ cq \in [Ends -> Seq(Completion)]
PollTypes ==
  /\ daemon \in [Ends -> Seq(Counts)]
  /\ rx \in [Ends -> Seq(Counts)]
RecvTypes ==
  /\ app \in [Ends -> {"recv", "reading", "notify"}]
  /\ notice \in [Ends -> Counts]
  /\ rDone \in [Ends -> 0..Slots]
  /\ gathered \in [Ends -> Counts]
  /\ notices \in [Ends -> Seq(Counts)]

LEMMA Groups == TypeOK <=> SendTypes /\ NetTypes /\ PollTypes /\ RecvTypes
BY DEF TypeOK, SendTypes, NetTypes, PollTypes, RecvTypes

(* The effect of an update at one end on a function of the ends.           *)
LEMMA UpdateAt ==
  ASSUME NEW S, NEW f \in [Ends -> S], NEW e \in Ends, NEW v \in S
  PROVE  /\ [f EXCEPT ![e] = v] \in [Ends -> S]
         /\ [f EXCEPT ![e] = v][e] = v
         /\ \A d \in Ends : d # e => [f EXCEPT ![e] = v][d] = f[d]
OBVIOUS

LEMMA TypedInit == Init => Typed
<1> SUFFICES ASSUME Init PROVE Typed
  OBVIOUS
<1> USE ConnAssumption
<1>1. TypeOK
  <2>1. Spawned \in [Ends -> Nat]
    BY DEF Spawned
  <2>2. QED
    BY <2>1 DEF Init, TypeOK, Counts
<1>2. ASSUME NEW e \in Ends PROVE rqe[e] + Unpolled(cq[e], "WriteWithImm") = Rqe
  <2>1. cq[e] = <<>> /\ rqe[e] = Rqe
    BY <1>2 DEF Init
  <2>2. DOMAIN cq[e] = {}
    BY <2>1
  <2>3. {i \in DOMAIN cq[e] : cq[e][i].opcode = "WriteWithImm"} = {}
    BY <2>2
  <2>4. Unpolled(cq[e], "WriteWithImm") = 0
    BY <2>3, FS_EmptySet DEF Unpolled
  <2>5. QED
    BY <2>1, <2>4
<1>3. GatheredFits
  BY DEF Init, GatheredFits
<1>4. QED
  BY <1>1, <1>2, <1>3 DEF Typed, RqesReplaced

LEMMA TypedStep == Typed /\ [Next]_vars => Typed'
<1> SUFFICES ASSUME Typed, [Next]_vars PROVE Typed'
  OBVIOUS
<1> USE ConnAssumption
<1>t. TypeOK /\ RqesReplaced /\ GatheredFits
  BY DEF Typed
<1>S. SendTypes
  BY <1>t, Groups
<1>N. NetTypes
  BY <1>t, Groups
<1>P. PollTypes
  BY <1>t, Groups
<1>R. RecvTypes
  BY <1>t, Groups
<1>G. SendTypes' /\ NetTypes' /\ PollTypes' /\ RecvTypes' => TypeOK'
  BY DEF TypeOK, SendTypes, NetTypes, PollTypes, RecvTypes
(* Steps that leave a group of variables alone.                            *)
<1>s. ASSUME UNCHANGED <<sendVars, sending, done>> PROVE SendTypes'
  BY <1>S, <1>s DEF SendTypes, sendVars
<1>n. ASSUME UNCHANGED netVars PROVE NetTypes' /\ RqesReplaced'
  BY <1>N, <1>t, <1>n DEF NetTypes, RqesReplaced, netVars
<1>p. ASSUME UNCHANGED <<daemon, rx>> PROVE PollTypes'
  BY <1>P, <1>p DEF PollTypes
<1>r. ASSUME UNCHANGED recvVars PROVE RecvTypes'
  BY <1>R, <1>r DEF RecvTypes, recvVars
<1>g. ASSUME UNCHANGED <<rDone, gathered>> PROVE GatheredFits'
  BY <1>t, <1>g DEF GatheredFits
<1>1. CASE UNCHANGED vars
  <2>1. UNCHANGED <<sendVars, sending, done>> /\ UNCHANGED netVars /\ UNCHANGED <<daemon, rx>>
          /\ UNCHANGED recvVars /\ UNCHANGED <<rDone, gathered>>
    BY <1>1 DEF vars, sendVars, netVars, recvVars
  <2>2. QED
    BY <1>s, <1>n, <1>p, <1>r, <1>g, <1>G, <2>1 DEF Typed
<1>2. ASSUME NEW e \in Ends, TakeLock(e) PROVE Typed'
  <2>1. SendTypes'
    BY <1>S, <1>2 DEF TakeLock, SendTypes
  <2>2. UNCHANGED netVars /\ UNCHANGED <<daemon, rx>> /\ UNCHANGED recvVars
          /\ UNCHANGED <<rDone, gathered>>
    BY <1>2 DEF TakeLock, recvVars
  <2>3. QED
    BY <1>n, <1>p, <1>r, <1>g, <1>G, <2>1, <2>2 DEF Typed
<1>3. ASSUME NEW e \in Ends, PassWindow(e) PROVE Typed'
  <2>1. imm' \in [Ends -> Counts] /\ notices' \in [Ends -> Seq(Counts)]
    <3>1. CASE notices[e] = <<>>
      <4>1. imm' = [imm EXCEPT ![e] = 0] /\ notices' = notices
        BY <1>3, <3>1 DEF PassWindow, TakeNotice
      <4>2. QED
        BY <1>S, <1>R, <4>1, CompletionTypes DEF SendTypes, RecvTypes
    <3>2. CASE notices[e] # <<>>
      <4>1. Head(notices[e]) \in Counts /\ Tail(notices[e]) \in Seq(Counts)
        BY <1>R, <3>2, HeadTailProperties DEF RecvTypes
      <4>2. imm' = [imm EXCEPT ![e] = Head(notices[e])]
              /\ notices' = [notices EXCEPT ![e] = Tail(@)]
        BY <1>3, <3>2 DEF PassWindow, TakeNotice
      <4>3. QED
        BY <1>S, <1>R, <4>1, <4>2 DEF SendTypes, RecvTypes
    <3>3. QED
      BY <3>1, <3>2
  <2>2. SendTypes'
    <3>1. holder' \in [Ends -> {"none", "window", "alloc"}] /\ sending' \in [Ends -> Int]
      BY <1>S, <1>3 DEF PassWindow, SendTypes
    <3>2. UNCHANGED <<waiting, index, done>>
      BY <1>3 DEF PassWindow
    <3>3. QED
      BY <1>S, <2>1, <3>1, <3>2 DEF SendTypes
  <2>3. RecvTypes'
    BY <1>R, <1>3, <2>1 DEF PassWindow, RecvTypes
  <2>4. UNCHANGED netVars /\ UNCHANGED <<daemon, rx>> /\ UNCHANGED <<rDone, gathered>>
    BY <1>3 DEF PassWindow
  <2>5. QED
    BY <1>n, <1>p, <1>g, <1>G, <2>2, <2>3, <2>4 DEF Typed
<1>4. ASSUME NEW e \in Ends, Post(e) PROVE Typed'
  <2>1. SendTypes'
    <3>1. (IF index[e] + 1 > Slots THEN 1 ELSE index[e] + 1) \in 0..Slots
      BY <1>S DEF SendTypes
    <3>2. index' \in [Ends -> 0..Slots]
      BY <1>S, <1>4, <3>1 DEF Post, SendTypes
    <3>3. imm' \in [Ends -> Counts] /\ holder' \in [Ends -> {"none", "window", "alloc"}]
      BY <1>S, <1>4, CompletionTypes DEF Post, SendTypes
    <3>4. QED
      BY <1>S, <1>4, <3>2, <3>3 DEF Post, SendTypes
  <2>2. NetTypes' /\ RqesReplaced'
    <3>1. Append(wire[e], imm[e]) \in Seq(Counts)
      BY <1>S, <1>N, AppendProperties DEF SendTypes, NetTypes
    <3>2. wire' \in [Ends -> Seq(Counts)]
      <4>1. wire' = wire \/ wire' = [wire EXCEPT ![e] = Append(@, imm[e])]
        BY <1>4 DEF Post
      <4>2. QED
        BY <1>N, <3>1, <4>1 DEF NetTypes
    <3>3. QED
      BY <1>N, <1>t, <1>4, <3>2 DEF Post, NetTypes, RqesReplaced
  <2>3. UNCHANGED <<daemon, rx>> /\ UNCHANGED recvVars /\ UNCHANGED <<rDone, gathered>>
    BY <1>4 DEF Post, recvVars
  <2>4. QED
    BY <1>p, <1>r, <1>g, <1>G, <2>1, <2>2, <2>3 DEF Typed
<1>5. ASSUME NEW e \in Ends, Cancel(e) PROVE Typed'
  <2>1. SendTypes'
    BY <1>S, <1>5, CompletionTypes DEF Cancel, SendTypes
  <2>2. UNCHANGED netVars /\ UNCHANGED <<daemon, rx>> /\ UNCHANGED recvVars
          /\ UNCHANGED <<rDone, gathered>>
    BY <1>5 DEF Cancel, recvVars
  <2>3. QED
    BY <1>n, <1>p, <1>r, <1>g, <1>G, <2>1, <2>2 DEF Typed
<1>6. ASSUME NEW e \in Ends, Execute(e) PROVE Typed'
  <2> DEFINE o == Other(e)
  <2>o. o \in Ends /\ o # e /\ \A d \in Ends : d = e \/ d = o
    BY TwoEnds
  <2>c. Received(Head(wire[e])) \in Completion /\ IsReceived(Received(Head(wire[e])))
          /\ Tail(wire[e]) \in Seq(Counts)
    BY <1>N, <1>6, HeadTailProperties, CompletionTypes DEF Execute, NetTypes
  <2>w. Written \in Completion /\ ~ IsReceived(Written)
    BY CompletionTypes
  <2>1. /\ cq'[o] = Append(cq[o], Received(Head(wire[e])))
        /\ cq'[e] = cq[e] \/ cq'[e] = Append(cq[e], Written)
        /\ cq' = [d \in Ends |-> cq'[d]]
    BY <1>N, <1>6, <2>o DEF Execute, NetTypes
  <2>2. /\ rqe' = [rqe EXCEPT ![o] = @ - 1] /\ rqe[o] > 0
        /\ rqe'[e] = rqe[e] /\ rqe'[o] = rqe[o] - 1
    BY <1>N, <1>6, <2>o DEF Execute, NetTypes
  <2> HIDE DEF o
  <2>q. cq[e] \in Seq(Completion) /\ cq[o] \in Seq(Completion)
    BY <1>N, <2>o DEF NetTypes
  <2>r. PICK r \in Completion : IsReceived(r) /\ cq'[o] = Append(cq[o], r)
    BY <2>c, <2>1
  <2>3. /\ cq'[o] \in Seq(Completion)
        /\ Unpolled(cq'[o], "WriteWithImm") = Unpolled(cq[o], "WriteWithImm") + 1
    BY <2>q, <2>r, Arrived, AppendProperties
  <2>e. /\ cq'[e] \in Seq(Completion)
        /\ Unpolled(cq'[e], "WriteWithImm") = Unpolled(cq[e], "WriteWithImm")
    <3>1. CASE cq'[e] = cq[e]
      BY <2>q, <3>1
    <3>2. CASE cq'[e] = Append(cq[e], Written)
      <4>1. Append(cq[e], Written) \in Seq(Completion)
        BY <2>q, <2>w, AppendProperties
      <4>2. Unpolled(cq[e], "WriteWithImm") \in Nat
              /\ Unpolled(Append(cq[e], Written), "WriteWithImm") = Unpolled(cq[e], "WriteWithImm") + 0
        BY <2>q, <2>w, Arrived
      <4>3. QED
        BY <3>2, <4>1, <4>2
    <3>3. QED
      BY <2>1, <3>1, <3>2
  <2>4. NetTypes'
    <3>1. cq' \in [Ends -> Seq(Completion)]
      BY <2>o, <2>1, <2>3, <2>e
    <3>2. rqe' \in [Ends -> 0..Rqe]
      BY <1>N, <2>o, <2>2 DEF NetTypes
    <3>3. wire' \in [Ends -> Seq(Counts)]
      BY <1>N, <1>6, <2>c DEF Execute, NetTypes
    <3>4. unacked' \in [Ends -> Nat]
      BY <1>N, <1>6 DEF Execute, NetTypes
    <3>5. QED
      BY <3>1, <3>2, <3>3, <3>4 DEF NetTypes
  <2>5. RqesReplaced'
    <3>1. /\ Unpolled(cq'[o], "WriteWithImm") = Unpolled(cq[o], "WriteWithImm") + 1
          /\ Unpolled(cq'[e], "WriteWithImm") = Unpolled(cq[e], "WriteWithImm")
          /\ Unpolled(cq[o], "WriteWithImm") \in Nat /\ Unpolled(cq[e], "WriteWithImm") \in Nat
      BY <2>q, <2>3, <2>e, Arrived
    <3>2. /\ rqe[e] + Unpolled(cq[e], "WriteWithImm") = Rqe
          /\ rqe[o] + Unpolled(cq[o], "WriteWithImm") = Rqe
          /\ rqe[e] \in Int /\ rqe[o] \in Int
      BY <1>t, <1>N, <2>o DEF RqesReplaced, NetTypes
    <3>3. /\ rqe'[e] + Unpolled(cq'[e], "WriteWithImm") = Rqe
          /\ rqe'[o] + Unpolled(cq'[o], "WriteWithImm") = Rqe
      BY <2>2, <3>1, <3>2
    <3>4. QED
      BY <2>o, <3>3 DEF RqesReplaced
  <2>6. UNCHANGED <<sendVars, sending, done>> /\ UNCHANGED <<daemon, rx>> /\ UNCHANGED recvVars
          /\ UNCHANGED <<rDone, gathered>>
    BY <1>6 DEF Execute, recvVars
  <2>7. QED
    BY <1>s, <1>p, <1>r, <1>g, <1>G, <2>4, <2>5, <2>6 DEF Typed
<1>7. ASSUME NEW e \in Ends, Acknowledge(e) PROVE Typed'
  <2>w. Written \in Completion /\ ~ IsReceived(Written)
    BY CompletionTypes
  <2>q. cq[e] \in Seq(Completion) /\ Append(cq[e], Written) \in Seq(Completion)
    BY <1>N, <2>w, AppendProperties DEF NetTypes
  <2>1. NetTypes'
    BY <1>N, <1>7, <2>q DEF Acknowledge, NetTypes
  <2>2. RqesReplaced'
    <3>1. Unpolled(Append(cq[e], Written), "WriteWithImm") = Unpolled(cq[e], "WriteWithImm")
      BY <2>w, <2>q, Arrived
    <3>2. ASSUME NEW d \in Ends PROVE rqe'[d] + Unpolled(cq'[d], "WriteWithImm") = Rqe
      BY <1>t, <1>N, <1>7, <3>1 DEF Acknowledge, RqesReplaced, NetTypes
    <3>3. QED
      BY <3>2 DEF RqesReplaced
  <2>3. UNCHANGED <<sendVars, sending, done>> /\ UNCHANGED <<daemon, rx>> /\ UNCHANGED recvVars
          /\ UNCHANGED <<rDone, gathered>>
    BY <1>7 DEF Acknowledge, recvVars
  <2>4. QED
    BY <1>s, <1>p, <1>r, <1>g, <1>G, <2>1, <2>2, <2>3 DEF Typed
<1>8. ASSUME NEW e \in Ends, PollReceived(e) PROVE Typed'
  <2>1. /\ cq[e] \in Seq(Completion) /\ cq[e] # <<>> /\ IsReceived(Head(cq[e]))
        /\ Head(cq[e]) \in Completion /\ Tail(cq[e]) \in Seq(Completion)
        /\ cq' = [cq EXCEPT ![e] = Tail(cq[e])] /\ rqe' = [rqe EXCEPT ![e] = @ + 1]
    BY <1>N, <1>8, HeadTailProperties DEF PollReceived, Poll, PostNullRecv, NetTypes
  <2>2. <<Head(cq[e]).imm>> \in Seq(Counts)
    BY <2>1, CompletionTypes
  <2>3. /\ Unpolled(Tail(cq[e]), "WriteWithImm") = Unpolled(cq[e], "WriteWithImm") - 1
        /\ Unpolled(cq[e], "WriteWithImm") \in Nat
        /\ Unpolled(cq[e], "WriteWithImm") >= 1
    BY <2>1, Arrived, PolledCounts
  <2>4. rqe[e] \in 0..Rqe /\ rqe[e] + Unpolled(cq[e], "WriteWithImm") = Rqe
    BY <1>t, <1>N DEF RqesReplaced, NetTypes
  <2>5. rqe[e] + 1 \in 0..Rqe
          /\ (rqe[e] + 1) + Unpolled(Tail(cq[e]), "WriteWithImm") = Rqe
    BY <2>3, <2>4
  <2>6. NetTypes'
    <3>1. cq' \in [Ends -> Seq(Completion)] /\ rqe' \in [Ends -> 0..Rqe]
      BY <1>N, <2>1, <2>5 DEF NetTypes
    <3>2. QED
      BY <1>N, <1>8, <3>1 DEF PollReceived, NetTypes
  <2>7. PollTypes'
    BY <1>P, <1>8, <2>2 DEF PollReceived, PollTypes
  <2>8. RqesReplaced'
    <3>1. ASSUME NEW d \in Ends PROVE rqe'[d] + Unpolled(cq'[d], "WriteWithImm") = Rqe
      BY <1>t, <1>N, <2>1, <2>5 DEF RqesReplaced, NetTypes
    <3>2. QED
      BY <3>1 DEF RqesReplaced
  <2>9. UNCHANGED <<sendVars, sending, done>> /\ UNCHANGED recvVars /\ UNCHANGED <<rDone, gathered>>
    BY <1>8 DEF PollReceived, recvVars
  <2>10. QED
    BY <1>s, <1>r, <1>g, <1>G, <2>6, <2>7, <2>8, <2>9 DEF Typed
<1>9. ASSUME NEW e \in Ends, PollWritten(e) PROVE Typed'
  <2>1. /\ cq[e] \in Seq(Completion) /\ cq[e] # <<>> /\ Head(cq[e]) \in Completion
        /\ Tail(cq[e]) \in Seq(Completion) /\ cq' = [cq EXCEPT ![e] = Tail(cq[e])]
    BY <1>N, <1>9, HeadTailProperties DEF PollWritten, Poll, NetTypes
  <2>2. ~ IsReceived(Head(cq[e]))
    BY <1>9, <2>1, CompletionTypes DEF PollWritten
  <2>3. Unpolled(Tail(cq[e]), "WriteWithImm") = Unpolled(cq[e], "WriteWithImm")
    BY <2>1, <2>2, Arrived
  <2>4. NetTypes'
    BY <1>N, <1>9, <2>1 DEF PollWritten, NetTypes
  <2>5. RqesReplaced'
    <3>1. ASSUME NEW d \in Ends PROVE rqe'[d] + Unpolled(cq'[d], "WriteWithImm") = Rqe
      BY <1>t, <1>N, <1>9, <2>1, <2>3 DEF PollWritten, RqesReplaced, NetTypes
    <3>2. QED
      BY <3>1 DEF RqesReplaced
  <2>6. UNCHANGED <<sendVars, sending, done>> /\ UNCHANGED <<daemon, rx>> /\ UNCHANGED recvVars
          /\ UNCHANGED <<rDone, gathered>>
    BY <1>9 DEF PollWritten, recvVars
  <2>7. QED
    BY <1>s, <1>p, <1>r, <1>g, <1>G, <2>4, <2>5, <2>6 DEF Typed
<1>10. ASSUME NEW e \in Ends, Dispatch(e) PROVE Typed'
  <2>1. rx[e] \o daemon[e] \in Seq(Counts) /\ <<>> \in Seq(Counts)
    BY <1>P, ConcatProperties, EmptySeq DEF PollTypes
  <2>2. PollTypes'
    BY <1>P, <1>10, <2>1 DEF Dispatch, PollTypes
  <2>3. UNCHANGED <<sendVars, sending, done>> /\ UNCHANGED netVars /\ UNCHANGED recvVars
          /\ UNCHANGED <<rDone, gathered>>
    BY <1>10 DEF Dispatch, recvVars
  <2>4. QED
    BY <1>s, <1>n, <1>r, <1>g, <1>G, <2>2, <2>3 DEF Typed
<1>11. ASSUME NEW e \in Ends, RecvMsg(e) PROVE Typed'
  <2>1. Head(rx[e]) \in Counts /\ Tail(rx[e]) \in Seq(Counts)
    BY <1>P, <1>11, HeadTailProperties DEF RecvMsg, PollTypes
  <2>2. Advance(e, Head(rx[e])) \in 0..Slots
    BY <1>S, <2>1 DEF Advance, SendTypes, Counts
  <2>3. SendTypes'
    BY <1>S, <1>11, <2>2 DEF RecvMsg, SendTypes, sendVars
  <2>4. PollTypes'
    BY <1>P, <1>11, <2>1 DEF RecvMsg, PollTypes
  <2>5. RecvTypes'
    BY <1>R, <1>11 DEF RecvMsg, RecvTypes
  <2>6. UNCHANGED netVars /\ UNCHANGED <<rDone, gathered>>
    BY <1>11 DEF RecvMsg
  <2>7. QED
    BY <1>n, <1>g, <1>G, <2>3, <2>4, <2>5, <2>6 DEF Typed
<1>a. ASSUME NEW e \in Ends PROVE Answered(e) \in [Ends -> Nat]
  BY <1>S, <1>a DEF Answered, SendTypes
<1>12. ASSUME NEW e \in Ends, ReleaseGathered(e) PROVE Typed'
  <2>1. gathered[e] + 1 \in Counts /\ rDone[e] + (gathered[e] + 1) <= Slots
    BY <1>R, <1>12 DEF ReleaseGathered, RecvTypes, Counts
  <2>2. SendTypes'
    BY <1>S, <1>12, <1>a DEF ReleaseGathered, SendTypes
  <2>3. RecvTypes'
    BY <1>R, <1>12, <2>1 DEF ReleaseGathered, RecvTypes
  <2>4. GatheredFits'
    BY <1>R, <1>t, <1>12, <2>1 DEF ReleaseGathered, GatheredFits, RecvTypes
  <2>5. UNCHANGED netVars /\ UNCHANGED <<daemon, rx>>
    BY <1>12 DEF ReleaseGathered
  <2>6. QED
    BY <1>n, <1>p, <1>G, <2>2, <2>3, <2>4, <2>5 DEF Typed
<1>13. ASSUME NEW e \in Ends, ReleaseNotified(e) PROVE Typed'
  <2>1. PICK k \in Counts, g \in Counts, r \in 0..Slots :
          /\ notice' = [notice EXCEPT ![e] = k]
          /\ gathered' = [gathered EXCEPT ![e] = g]
          /\ rDone' = [rDone EXCEPT ![e] = r]
          /\ r + g <= Slots
    <3>1. gathered[e] \in Counts /\ rDone[e] \in 0..Slots
      BY <1>R DEF RecvTypes
    <3>2. CASE rDone[e] + gathered[e] + 1 > Slots
      <4>1. /\ notice' = [notice EXCEPT ![e] = gathered[e]]
            /\ gathered' = [gathered EXCEPT ![e] = 1]
            /\ rDone' = [rDone EXCEPT ![e] = 0]
        BY <1>13, <3>1, <3>2 DEF ReleaseNotified, Counts
      <4>2. 1 \in Counts /\ 0 \in 0..Slots /\ 0 + 1 <= Slots
        BY DEF Counts
      <4>3. QED
        BY <3>1, <4>1, <4>2
    <3>3. CASE rDone[e] + gathered[e] + 1 <= Slots
      <4>1. /\ notice' = [notice EXCEPT ![e] = gathered[e] + 1]
            /\ gathered' = [gathered EXCEPT ![e] = 0]
            /\ rDone' = [rDone EXCEPT ![e] = rDone[e] + gathered[e] + 1]
        BY <1>13, <3>1, <3>3 DEF ReleaseNotified, Counts
      <4>2. gathered[e] + 1 \in Counts /\ 0 \in Counts
              /\ rDone[e] + gathered[e] + 1 \in 0..Slots /\ (rDone[e] + gathered[e] + 1) + 0 <= Slots
        BY <3>1, <3>3 DEF Counts
      <4>3. QED
        BY <4>1, <4>2
    <3>4. QED
      BY <3>1, <3>2, <3>3 DEF Counts
  <2>2. RecvTypes'
    BY <1>R, <1>13, <2>1 DEF ReleaseNotified, RecvTypes
  <2>3. GatheredFits'
    <3>1. ASSUME NEW d \in Ends PROVE rDone'[d] + gathered'[d] <= Slots
      BY <1>R, <1>t, <2>1 DEF GatheredFits, RecvTypes
    <3>2. QED
      BY <3>1 DEF GatheredFits
  <2>4. UNCHANGED <<sendVars, sending, done>> /\ UNCHANGED netVars /\ UNCHANGED <<daemon, rx>>
    BY <1>13 DEF ReleaseNotified
  <2>5. QED
    BY <1>s, <1>n, <1>p, <1>G, <2>2, <2>3, <2>4 DEF Typed
<1>14. ASSUME NEW e \in Ends, SendNotice(e) PROVE Typed'
  <2>1. Append(notices[e], notice[e]) \in Seq(Counts)
    BY <1>R, AppendProperties DEF RecvTypes
  <2>2. SendTypes'
    BY <1>S, <1>14, <1>a DEF SendNotice, SendTypes
  <2>3. RecvTypes'
    BY <1>R, <1>14, <2>1, CompletionTypes DEF SendNotice, RecvTypes
  <2>4. UNCHANGED netVars /\ UNCHANGED <<daemon, rx>> /\ UNCHANGED <<rDone, gathered>>
    BY <1>14 DEF SendNotice
  <2>5. QED
    BY <1>n, <1>p, <1>g, <1>G, <2>2, <2>3, <2>4 DEF Typed
<1>15. QED
  BY <1>1, <1>2, <1>3, <1>4, <1>5, <1>6, <1>7, <1>8, <1>9, <1>10, <1>11, <1>12, <1>13, <1>14
     DEF Next, SendStep, CardStep, PollStep, AppStep

(* Types of the state, whatever the faults and whoever sends: a notice     *)
(* never counts more messages than the buffer holds, and post_null_recv    *)
(* never posts more than max_recv_wr.                                      *)
THEOREM TypeCorrect == Spec => []TypeOK
<1>1. Init => Typed
  BY TypedInit
<1>2. Typed /\ [Next]_vars => Typed'
  BY TypedStep
<1>3. Typed => TypeOK
  BY DEF Typed
<1>4. QED
  BY <1>1, <1>2, <1>3, PTL DEF Spec

-----------------------------------------------------------------------------
(* The windows, one end at a time.                                         *)
Local(d) ==
  /\ sending[d] <= MaxSending /\ Len(daemon[d]) <= 1
  /\ d \notin Initiators => sending[d] + waiting[d] + InWindow(d) + Busy(d) <= 0
  /\ Len(notices[d]) + Busy(d) + sending[d] <= IF d \in Initiators THEN NoticeCap + 1 ELSE 0

(* What weighs on the window of d besides the completion queue.            *)
Load(d) == Len(wire[d]) + InAlloc(d) + Len(rx[d]) + Len(daemon[d]) - sending[d]

Flow(d) == Load(d) + Unpolled(cq[d], "WriteWithImm")

Cuts(d) ==
  "lag" \notin Faults =>
    /\ unacked[d] = 0
    /\ \A i \in 0..Len(cq[d]) : Load(d) + CutAt(cq[d], i) <= MaxOfPeer(d)

(* The numbers of one end.                                                 *)
Numbers(d) ==
  /\ waiting[d] \in Nat /\ sending[d] \in Int /\ holder[d] \in {"none", "window", "alloc"}
  /\ Len(wire[d]) \in Nat /\ unacked[d] \in Nat /\ Len(cq[d]) \in Nat
  /\ cq[d] \in Seq(Completion) /\ Unpolled(cq[d], "WriteWithImm") \in Nat
  /\ Len(daemon[d]) \in Nat /\ Len(rx[d]) \in Nat /\ Len(notices[d]) \in Nat
  /\ app[d] \in {"recv", "reading", "notify"}
  /\ Load(d) \in Int /\ Flow(d) \in Int /\ InAlloc(d) \in 0..1 /\ InWindow(d) \in 0..1
  /\ Busy(d) \in 0..1 /\ MaxOfPeer(d) \in Nat

LEMMA NumbersOf == TypeOK => \A d \in Ends : Numbers(d)
<1> SUFFICES ASSUME TypeOK, NEW d \in Ends PROVE Numbers(d)
  OBVIOUS
<1>1. /\ waiting[d] \in Nat /\ sending[d] \in Int /\ holder[d] \in {"none", "window", "alloc"}
      /\ unacked[d] \in Nat /\ app[d] \in {"recv", "reading", "notify"}
  BY DEF TypeOK
<1>2. /\ wire[d] \in Seq(Counts) /\ daemon[d] \in Seq(Counts) /\ rx[d] \in Seq(Counts)
      /\ notices[d] \in Seq(Counts) /\ cq[d] \in Seq(Completion)
  BY DEF TypeOK
<1>3. Unpolled(cq[d], "WriteWithImm") \in Nat
  BY <1>2, Arrived
<1>4. /\ Len(wire[d]) \in Nat /\ Len(cq[d]) \in Nat /\ Len(daemon[d]) \in Nat
      /\ Len(rx[d]) \in Nat /\ Len(notices[d]) \in Nat
  BY <1>2, LenProperties
<1>5. InAlloc(d) \in 0..1 /\ InWindow(d) \in 0..1 /\ Busy(d) \in 0..1 /\ MaxOfPeer(d) \in Nat
  <2>1. InAlloc(d) \in 0..1 /\ InWindow(d) \in 0..1 /\ Busy(d) \in 0..1
    BY DEF InAlloc, InWindow, Busy
  <2>2. MaxOfPeer(d) \in Nat
    BY ConnAssumption DEF MaxOfPeer, MaxSending
  <2>3. QED
    BY <2>1, <2>2
<1>6. Load(d) \in Int
  <2>1. PICK w \in Nat, a \in 0..1, x \in Nat, n \in Nat, s \in Int :
          /\ w = Len(wire[d]) /\ a = InAlloc(d) /\ x = Len(rx[d])
          /\ n = Len(daemon[d]) /\ s = sending[d]
    BY <1>1, <1>4, <1>5, Zenon
  <2>2. Load(d) = w + a + x + n - s
    BY <2>1 DEF Load
  <2>3. QED
    BY <2>2
<1>7. Flow(d) \in Int
  BY <1>3, <1>6 DEF Flow
<1>8. QED
  BY <1>1, <1>2, <1>3, <1>4, <1>5, <1>6, <1>7 DEF Numbers

LEMMA PerEnd ==
  TypeOK => /\ Windows <=> Flow("client") + Flow("server") <= 0 /\ \A d \in Ends : Local(d)
            /\ WritesFirst <=> \A d \in Ends : Cuts(d)
<1> SUFFICES ASSUME TypeOK
             PROVE  /\ Windows <=> Flow("client") + Flow("server") <= 0 /\ \A d \in Ends : Local(d)
                    /\ WritesFirst <=> \A d \in Ends : Cuts(d)
  OBVIOUS
<1>1. \A d \in Ends : Numbers(d)
  BY NumbersOf
<1>2. "client" \in Ends /\ "server" \in Ends /\ Other("client") = "server" /\ Other("server") = "client"
  BY DEF Ends, Other
<1>3. WindowsCount <=> Flow("client") + Flow("server") <= 0
  <2>1. /\ InTransit("client") = Len(wire["client"]) + Unpolled(cq["server"], "WriteWithImm")
                                    + Len(daemon["server"]) + Len(rx["server"])
        /\ InTransit("server") = Len(wire["server"]) + Unpolled(cq["client"], "WriteWithImm")
                                    + Len(daemon["client"]) + Len(rx["client"])
    BY <1>2 DEF InTransit
  <2>2. PICK w \in Nat, u \in Nat, n \in Nat, x \in Nat, a \in 0..1, s \in Int :
          /\ w = Len(wire["client"]) /\ u = Unpolled(cq["client"], "WriteWithImm")
          /\ n = Len(daemon["client"]) /\ x = Len(rx["client"])
          /\ a = InAlloc("client") /\ s = sending["client"]
    BY <1>1, <1>2, Zenon DEF Numbers
  <2>3. PICK w2 \in Nat, u2 \in Nat, n2 \in Nat, x2 \in Nat, a2 \in 0..1, s2 \in Int :
          /\ w2 = Len(wire["server"]) /\ u2 = Unpolled(cq["server"], "WriteWithImm")
          /\ n2 = Len(daemon["server"]) /\ x2 = Len(rx["server"])
          /\ a2 = InAlloc("server") /\ s2 = sending["server"]
    BY <1>1, <1>2, Zenon DEF Numbers
  <2>4. WindowsCount <=> (w + u2 + n2 + x2) + (w2 + u + n + x) + a + a2 <= s + s2
    BY <2>1, <2>2, <2>3 DEF WindowsCount
  <2>5. Flow("client") = (w + a + x + n - s) + u /\ Flow("server") = (w2 + a2 + x2 + n2 - s2) + u2
    BY <2>2, <2>3 DEF Flow, Load
  <2>6. QED
    BY <2>4, <2>5
<1>4. (\A d \in Ends : Local(d))
        <=> (\A d \in Ends : sending[d] <= MaxSending /\ Len(daemon[d]) <= 1) /\ AnswersOnly /\ NoticesWait
  BY DEF Local, AnswersOnly, NoticesWait
<1>5. WritesFirst <=> \A d \in Ends : Cuts(d)
  <2>1. ASSUME NEW d \in Ends, NEW i \in 0..Len(cq[d])
        PROVE  (Len(wire[d]) + CutAt(cq[d], i) + InAlloc(d) + Len(rx[d]) + Len(daemon[d])
                  <= sending[d] + MaxOfPeer(d))
                 <=> Load(d) + CutAt(cq[d], i) <= MaxOfPeer(d)
    <3>1. Numbers(d)
      BY <1>1
    <3>2. CutAt(cq[d], i) \in Nat
      BY <3>1, CutType DEF Numbers
    <3>3. PICK w \in Nat, a \in 0..1, x \in Nat, n \in Nat, s \in Int, m \in Nat, c \in Nat :
            /\ w = Len(wire[d]) /\ a = InAlloc(d) /\ x = Len(rx[d]) /\ n = Len(daemon[d])
            /\ s = sending[d] /\ m = MaxOfPeer(d) /\ c = CutAt(cq[d], i)
      BY <3>1, <3>2, Zenon DEF Numbers
    <3>4. Load(d) = w + a + x + n - s
      BY <3>3 DEF Load
    <3>5. w + c + a + x + n <= s + m <=> (w + a + x + n - s) + c <= m
      OBVIOUS
    <3>6. QED
      BY <3>3, <3>4, <3>5
  <2>2. QED
    BY <2>1 DEF WritesFirst, Cuts
<1>6. QED
  BY <1>3, <1>4, <1>5 DEF Windows

(* A step of one end leaves the other end as it is, unless it executes a   *)
(* message there.                                                          *)
Same(d) ==
  /\ waiting'[d] = waiting[d] /\ holder'[d] = holder[d] /\ sending'[d] = sending[d]
  /\ wire'[d] = wire[d] /\ unacked'[d] = unacked[d] /\ cq'[d] = cq[d]
  /\ daemon'[d] = daemon[d] /\ rx'[d] = rx[d]
  /\ app'[d] = app[d] /\ notices'[d] = notices[d]

LEMMA SameEnd ==
  ASSUME NEW d \in Ends, Same(d)
  PROVE  (Local(d) => Local(d)') /\ Flow(d)' = Flow(d) /\ (Cuts(d) => Cuts(d)')
<1>1. Load(d)' = Load(d)
  BY DEF Same, Load, InAlloc
<1>2. Flow(d)' = Flow(d)
  BY <1>1 DEF Same, Flow
<1>3. Local(d) => Local(d)'
  BY DEF Same, Local, InWindow, Busy
<1>4. Cuts(d) => Cuts(d)'
  BY <1>1 DEF Same, Cuts
<1>5. QED
  BY <1>2, <1>3, <1>4

(* The numbers of an end in one state, under short names.                  *)
Short(d, w, a, x, n, s, t, v, b, k) ==
  /\ w = Len(wire[d]) /\ a = InAlloc(d) /\ x = Len(rx[d]) /\ n = Len(daemon[d])
  /\ s = sending[d] /\ t = waiting[d] /\ v = InWindow(d) /\ b = Busy(d)
  /\ k = Len(notices[d])

LEMMA ShortNames ==
  TypeOK => \A d \in Ends :
    \E w \in Nat, a \in 0..1, x \in Nat, n \in Nat, s \in Int, t \in Nat, v \in 0..1,
       b \in 0..1, k \in Nat : Short(d, w, a, x, n, s, t, v, b, k)
<1> SUFFICES ASSUME TypeOK, NEW d \in Ends
             PROVE  \E w \in Nat, a \in 0..1, x \in Nat, n \in Nat, s \in Int, t \in Nat, v \in 0..1,
                       b \in 0..1, k \in Nat : Short(d, w, a, x, n, s, t, v, b, k)
  OBVIOUS
<1>1. Numbers(d)
  BY NumbersOf
<1>2. QED
  BY <1>1, Zenon DEF Numbers, Short

LEMMA WindowsStep ==
  TypeOK /\ TypeOK' /\ Windows /\ WritesFirst /\ [Next]_vars => Windows' /\ WritesFirst'
<1> SUFFICES ASSUME TypeOK, TypeOK', Windows, WritesFirst, [Next]_vars
             PROVE  Windows' /\ WritesFirst'
  OBVIOUS
<1>r. Rqe \in Nat \ {0}
  BY ConnAssumption
<1>h. Flow("client") + Flow("server") <= 0 /\ \A d \in Ends : Local(d) /\ Cuts(d) /\ Numbers(d)
  BY PerEnd, NumbersOf
<1>i. (\A d \in Ends : Numbers(d))'
  <2>1. TypeOK' => (\A d \in Ends : Numbers(d))'
    BY NumbersOf, PTL
  <2>2. QED
    BY <2>1
<1>j. (Flow("client") + Flow("server") <= 0 /\ \A d \in Ends : Local(d) /\ Cuts(d))'
        => Windows' /\ WritesFirst'
  <2>1. TypeOK' =>
          (/\ Windows <=> Flow("client") + Flow("server") <= 0 /\ \A d \in Ends : Local(d)
           /\ WritesFirst <=> \A d \in Ends : Cuts(d))'
    BY PerEnd, PTL
  <2>2. QED
    BY <2>1
<1>k. ASSUME NEW e \in Ends, Flow(e)' + Flow(Other(e))' <= Flow(e) + Flow(Other(e))
      PROVE  (Flow("client") + Flow("server") <= 0)'
  <2>1. "client" \in Ends /\ "server" \in Ends
          /\ ((e = "client" /\ Other(e) = "server") \/ (e = "server" /\ Other(e) = "client"))
    BY DEF Ends, Other
  <2>2. /\ Flow("client") \in Int /\ Flow("server") \in Int
        /\ Flow("client")' \in Int /\ Flow("server")' \in Int
    BY <1>h, <1>i, <2>1 DEF Numbers
  <2>3. QED
    BY <1>h, <1>k, <2>1, <2>2
<1>s. (\A d \in Ends :
         \E w \in Nat, a \in 0..1, x \in Nat, n \in Nat, s \in Int, t \in Nat, v \in 0..1,
            b \in 0..1, k \in Nat : Short(d, w, a, x, n, s, t, v, b, k))'
  <2>1. TypeOK' =>
          (\A d \in Ends :
             \E w \in Nat, a \in 0..1, x \in Nat, n \in Nat, s \in Int, t \in Nat, v \in 0..1,
                b \in 0..1, k \in Nat : Short(d, w, a, x, n, s, t, v, b, k))'
    BY ShortNames, PTL
  <2>2. QED
    BY <2>1
<1>1. CASE UNCHANGED vars
  <2>1. \A d \in Ends : Same(d)
    BY <1>1 DEF vars, Same
  <2>2. ASSUME NEW d \in Ends PROVE Local(d)' /\ Cuts(d)' /\ Flow(d)' = Flow(d)
    BY <1>h, <2>1, SameEnd
  <2>3. (Flow("client") + Flow("server") <= 0)'
    BY <1>h, <2>2 DEF Ends
  <2>4. QED
    BY <1>j, <2>2, <2>3
<1>2. ASSUME NEW e \in Ends
      PROVE  SendStep(e) \/ Cancel(e) \/ CardStep(e) \/ PollStep(e) \/ AppStep(e)
               => Windows' /\ WritesFirst'
  <2>o. PICK o \in Ends : o = Other(e) /\ o # e /\ \A d \in Ends : d = e \/ d = o
    BY TwoEnds
  <2> DEFINE B == IF e \in Initiators THEN NoticeCap + 1 ELSE 0
  <2>b. B \in Nat /\ (e \in Initiators => B = Rqe + 1) /\ (e \notin Initiators => B = 0)
    BY <1>r DEF NoticeCap
  <2> HIDE DEF B
  <2>1. PICK w \in Nat, a \in 0..1, x \in Nat, n \in Nat, s \in Int, t \in Nat, v \in 0..1,
             b \in 0..1, k \in Nat : Short(e, w, a, x, n, s, t, v, b, k)
    BY ShortNames
  <2>2. PICK w1 \in Nat, a1 \in 0..1, x1 \in Nat, n1 \in Nat, s1 \in Int, t1 \in Nat, v1 \in 0..1,
             b1 \in 0..1, k1 \in Nat : Short(e, w1, a1, x1, n1, s1, t1, v1, b1, k1)'
    BY <1>s
  <2>3. /\ s <= Rqe /\ n <= 1 /\ (e \notin Initiators => s + t + v + b <= 0) /\ k + b + s <= B
        /\ Load(e) = w + a + x + n - s
    BY <1>h, <2>1 DEF Local, Short, Load, MaxSending, B
  <2>4. ASSUME s1 <= Rqe, n1 <= 1, e \notin Initiators => s1 + t1 + v1 + b1 <= 0, k1 + b1 + s1 <= B
        PROVE  Local(e)'
    BY <2>2, <2>4 DEF Local, Short, MaxSending, B
  <2>5. Load(e)' = w1 + a1 + x1 + n1 - s1
    BY <2>2 DEF Short, Load
(* What a step leaves alone keeps its number.                              *)
  <2>6. /\ wire'[e] = wire[e] => w1 = w
        /\ holder'[e] = holder[e] => a1 = a /\ v1 = v
        /\ rx'[e] = rx[e] => x1 = x
        /\ daemon'[e] = daemon[e] => n1 = n
        /\ sending'[e] = sending[e] => s1 = s
        /\ waiting'[e] = waiting[e] => t1 = t
        /\ app'[e] = app[e] => b1 = b
        /\ notices'[e] = notices[e] => k1 = k
    BY <2>1, <2>2 DEF Short, InAlloc, InWindow, Busy
  <2>7. ASSUME Local(e)', Flow(e)' <= Flow(e), Cuts(e)', Same(o)
        PROVE  Windows' /\ WritesFirst'
    <3>1. Local(o)' /\ Cuts(o)' /\ Flow(o)' = Flow(o)
      BY <1>h, <2>7, SameEnd
    <3>2. Flow(e)' + Flow(o)' <= Flow(e) + Flow(o)
      <4>1. Flow(e)' \in Int /\ Flow(e) \in Int /\ Flow(o) \in Int
        BY <1>h, <1>i DEF Numbers
      <4>2. QED
        BY <2>7, <3>1, <4>1
    <3>3. (Flow("client") + Flow("server") <= 0)'
      BY <1>k, <2>o, <3>2
    <3>4. (\A d \in Ends : Local(d) /\ Cuts(d))'
      BY <2>o, <2>7, <3>1
    <3>5. QED
      BY <1>j, <3>3, <3>4
  <2>8. ASSUME cq'[e] = cq[e], unacked'[e] = unacked[e], Local(e)', Same(o),
               w1 + a1 + x1 + n1 - s1 <= w + a + x + n - s
        PROVE  Windows' /\ WritesFirst'
    <3>1. Load(e)' <= Load(e) /\ Load(e)' \in Int /\ Load(e) \in Int
      BY <2>3, <2>5, <2>8
    <3>2. Flow(e)' <= Flow(e)
      <4>1. Unpolled(cq[e], "WriteWithImm") \in Nat
        BY <1>h DEF Numbers
      <4>2. Flow(e)' = Load(e)' + Unpolled(cq[e], "WriteWithImm")
        BY <2>8 DEF Flow
      <4>3. Flow(e) = Load(e) + Unpolled(cq[e], "WriteWithImm")
        BY DEF Flow
      <4>4. QED
        BY <3>1, <4>1, <4>2, <4>3
    <3>3. Cuts(e)'
      <4>1. ASSUME "lag" \notin Faults, NEW i \in 0..Len(cq[e])
            PROVE  Load(e)' + CutAt(cq[e], i) <= MaxOfPeer(e)
        <5>1. Load(e) + CutAt(cq[e], i) <= MaxOfPeer(e)
          BY <1>h, <4>1 DEF Cuts
        <5>2. CutAt(cq[e], i) \in Nat /\ MaxOfPeer(e) \in Nat
          BY <1>h, CutType DEF Numbers
        <5>3. QED
          BY <3>1, <5>1, <5>2
      <4>2. Cuts(e)
        BY <1>h
      <4>3. QED
        BY <2>8, <4>1, <4>2 DEF Cuts, MaxOfPeer
    <3>4. QED
      BY <2>7, <2>8, <3>2, <3>3
  <2>d. \A d \in Ends :
          /\ d \in DOMAIN waiting /\ d \in DOMAIN holder /\ d \in DOMAIN sending /\ d \in DOMAIN wire
          /\ d \in DOMAIN unacked /\ d \in DOMAIN cq /\ d \in DOMAIN daemon /\ d \in DOMAIN rx
          /\ d \in DOMAIN app /\ d \in DOMAIN notices
    BY DEF TypeOK
  <2>t. CASE TakeLock(e)
    <3>1. t1 = t - 1 /\ v = 0 /\ v1 = 1 /\ a = 0 /\ a1 = 0
      BY <2>1, <2>2, <2>d, <2>t DEF TakeLock, Short, InAlloc, InWindow
    <3>2. /\ w1 = w /\ x1 = x /\ n1 = n /\ s1 = s /\ b1 = b /\ k1 = k
          /\ cq'[e] = cq[e] /\ unacked'[e] = unacked[e]
      BY <2>6, <2>t DEF TakeLock, netVars, recvVars
    <3>3. Same(o)
      BY <2>o, <2>d, <2>t DEF TakeLock, Same, netVars, recvVars
    <3>4. Local(e)'
      BY <2>3, <2>4, <3>1, <3>2
    <3>5. QED
      BY <2>8, <3>1, <3>2, <3>3, <3>4
  <2>p. CASE PassWindow(e)
    <3>1. s < Rqe /\ s1 = s + 1 /\ v = 1 /\ v1 = 0 /\ a = 0 /\ a1 = 1
      BY <2>1, <2>2, <2>d, <2>p DEF PassWindow, Short, InAlloc, InWindow, MaxSending
    <3>2. /\ w1 = w /\ x1 = x /\ n1 = n /\ t1 = t /\ b1 = b
          /\ cq'[e] = cq[e] /\ unacked'[e] = unacked[e]
      BY <2>6, <2>p DEF PassWindow, netVars
    <3>3. k1 = k - 1 \/ k1 = 0
      <4>1. CASE notices[e] = <<>>
        BY <2>p, <2>2, <4>1 DEF PassWindow, TakeNotice, Short
      <4>2. CASE notices[e] # <<>>
        <5>1. notices'[e] = Tail(notices[e]) /\ notices[e] \in Seq(Counts)
          BY <2>p, <2>d, <4>2 DEF PassWindow, TakeNotice, TypeOK
        <5>2. Len(Tail(notices[e])) = Len(notices[e]) - 1
          BY <4>2, <5>1, HeadTailProperties
        <5>3. QED
          BY <2>1, <2>2, <5>1, <5>2 DEF Short
      <4>3. QED
        BY <4>1, <4>2
    <3>4. Same(o)
      <4>1. notices'[o] = notices[o]
        BY <2>o, <2>d, <2>p DEF PassWindow, TakeNotice
      <4>2. QED
        BY <2>o, <2>d, <2>p, <4>1 DEF PassWindow, Same, netVars
    <3>5. k1 + b1 + s1 <= B
      <4>1. CASE k1 = k - 1
        BY <2>3, <3>1, <3>2, <4>1
      <4>2. CASE k1 = 0 /\ e \in Initiators
        BY <1>r, <2>b, <3>1, <3>2, <4>2
      <4>3. CASE k1 = 0 /\ e \notin Initiators
        <5>1. s + t + v + b <= 0 /\ B = 0
          BY <2>3, <2>b, <4>3
        <5>2. QED
          BY <3>1, <3>2, <4>3, <5>1
      <4>4. QED
        BY <3>3, <4>1, <4>2, <4>3
    <3>6. Local(e)'
      <4>1. s1 <= Rqe /\ n1 <= 1
        BY <1>r, <2>3, <3>1, <3>2
      <4>2. ASSUME e \notin Initiators PROVE s1 + t1 + v1 + b1 <= 0
        <5>1. s + t + v + b <= 0
          BY <2>3, <4>2
        <5>2. QED
          BY <3>1, <3>2, <5>1
      <4>3. QED
        BY <2>4, <3>5, <4>1, <4>2
    <3>7. QED
      BY <2>8, <3>1, <3>2, <3>4, <3>6
  <2>q. CASE Post(e)
    <3>1. a = 1 /\ v = 0 /\ a1 = 0 /\ v1 = 0
      BY <2>1, <2>2, <2>d, <2>q DEF Post, Short, InAlloc, InWindow
    <3>2. w1 <= w + 1
      <4>1. wire'[e] = wire[e] \/ wire'[e] = Append(wire[e], imm[e])
        BY <2>d, <2>q DEF Post
      <4>2. Len(Append(wire[e], imm[e])) = Len(wire[e]) + 1
        BY AppendProperties DEF TypeOK
      <4>3. QED
        BY <2>1, <2>2, <4>1, <4>2 DEF Short
    <3>3. /\ x1 = x /\ n1 = n /\ s1 = s /\ t1 = t /\ b1 = b /\ k1 = k
          /\ cq'[e] = cq[e] /\ unacked'[e] = unacked[e]
      BY <2>6, <2>q DEF Post, recvVars
    <3>4. Same(o)
      <4>1. wire'[o] = wire[o] /\ holder'[o] = holder[o]
        BY <2>o, <2>d, <2>q DEF Post
      <4>2. QED
        BY <2>q, <4>1 DEF Post, Same, recvVars
    <3>5. Local(e)'
      BY <2>3, <2>4, <3>1, <3>3
    <3>6. QED
      BY <2>8, <3>1, <3>2, <3>3, <3>4, <3>5
  <2>c. CASE Cancel(e)
    <3>1. a1 = 0 /\ v1 = 0
      BY <2>2, <2>d, <2>c DEF Cancel, Short, InAlloc, InWindow
    <3>2. /\ w1 = w /\ x1 = x /\ n1 = n /\ s1 = s /\ t1 = t /\ b1 = b /\ k1 = k
          /\ cq'[e] = cq[e] /\ unacked'[e] = unacked[e]
      BY <2>6, <2>c DEF Cancel, netVars, recvVars
    <3>3. Same(o)
      BY <2>o, <2>d, <2>c DEF Cancel, Same, netVars, recvVars
    <3>4. Local(e)'
      BY <2>3, <2>4, <3>1, <3>2
    <3>5. QED
      BY <2>8, <3>1, <3>2, <3>3, <3>4
(* The steps that change a completion queue.  Only a message that arrives  *)
(* adds to the flow of the end it arrives at, and it leaves the flow of    *)
(* its sender; the cut behind it is what WindowsCount bounds.              *)
  <2>x. CASE Execute(e)
    <3>1. /\ wire[e] \in Seq(Counts) /\ wire[e] # <<>> /\ wire'[e] = Tail(wire[e])
          /\ cq[e] \in Seq(Completion) /\ cq[o] \in Seq(Completion)
      BY <2>o, <2>d, <2>x DEF Execute, TypeOK
    <3>2. w1 = w - 1
      <4>1. Len(Tail(wire[e])) = Len(wire[e]) - 1
        BY <3>1, HeadTailProperties
      <4>2. QED
        BY <2>1, <2>2, <3>1, <4>1 DEF Short
    <3>3. a1 = a /\ v1 = v /\ n1 = n /\ x1 = x /\ s1 = s /\ t1 = t /\ b1 = b /\ k1 = k
      BY <2>6, <2>x DEF Execute, sendVars, recvVars
    <3>4. Load(e)' = Load(e) - 1
      BY <2>3, <2>5, <3>2, <3>3
    <3>5. Local(e)'
      BY <2>3, <2>4, <3>3
    <3>6. Load(o)' = Load(o) /\ Local(o)'
      <4>1. wire'[o] = wire[o]
        BY <2>o, <2>d, <2>x DEF Execute
      <4>2. /\ holder'[o] = holder[o] /\ rx'[o] = rx[o] /\ daemon'[o] = daemon[o]
            /\ sending'[o] = sending[o] /\ waiting'[o] = waiting[o] /\ app'[o] = app[o]
            /\ notices'[o] = notices[o]
        BY <2>x DEF Execute, sendVars, recvVars
      <4>3. Load(o)' = Load(o)
        BY <4>1, <4>2 DEF Load, InAlloc
      <4>4. Local(o)
        BY <1>h
      <4>5. QED
        BY <4>2, <4>3, <4>4 DEF Local, InWindow, Busy
    <3>7. PICK r \in Completion : IsReceived(r) /\ r.opcode = "WriteWithImm" /\ cq'[o] = Append(cq[o], r)
      <4>1. Head(wire[e]) \in Counts
        BY <3>1, HeadTailProperties
      <4>2. cq'[o] = Append(cq[o], Received(Head(wire[e])))
        BY <2>o, <2>d, <2>x DEF Execute
      <4>3. QED
        BY <4>1, <4>2, CompletionTypes
    <3>8. Flow(o)' = Flow(o) + 1
      <4>1. Unpolled(Append(cq[o], r), "WriteWithImm") = Unpolled(cq[o], "WriteWithImm") + 1
        BY <3>1, <3>7, Arrived
      <4>2. Flow(o)' = Load(o) + Unpolled(Append(cq[o], r), "WriteWithImm")
        BY <3>6, <3>7 DEF Flow
      <4>3. Load(o) \in Int /\ Unpolled(cq[o], "WriteWithImm") \in Nat
        BY <1>h DEF Numbers
      <4>4. QED
        BY <4>1, <4>2, <4>3 DEF Flow
    <3>9. Flow(e)' = Flow(e) - 1
      <4>1. cq'[e] = cq[e] \/ cq'[e] = Append(cq[e], Written)
        BY <2>o, <2>d, <2>x DEF Execute
      <4>2. Unpolled(Append(cq[e], Written), "WriteWithImm") = Unpolled(cq[e], "WriteWithImm") + 0
        BY <3>1, Arrived, CompletionTypes
      <4>3. Load(e) \in Int /\ Unpolled(cq[e], "WriteWithImm") \in Nat
        BY <1>h DEF Numbers
      <4>4. Unpolled(cq'[e], "WriteWithImm") = Unpolled(cq[e], "WriteWithImm")
        <5>1. CASE cq'[e] = cq[e]
          BY <5>1
        <5>2. CASE cq'[e] = Append(cq[e], Written)
          <6>1. Unpolled(Append(cq[e], Written), "WriteWithImm") = Unpolled(cq[e], "WriteWithImm")
            BY <4>2, <4>3
          <6>2. QED
            BY <5>2, <6>1
        <5>3. QED
          BY <4>1, <5>1, <5>2
      <4>5. Flow(e)' = Load(e) - 1 + Unpolled(cq[e], "WriteWithImm")
        BY <3>4, <4>4 DEF Flow
      <4>6. QED
        BY <4>3, <4>5 DEF Flow
    <3>10. (Flow("client") + Flow("server") <= 0)'
      <4>1. Flow(e) \in Int /\ Flow(o) \in Int
        BY <1>h DEF Numbers
      <4>2. Flow(e)' + Flow(o)' <= Flow(e) + Flow(o)
        BY <3>8, <3>9, <4>1
      <4>3. QED
        BY <1>k, <2>o, <4>2
    <3>11. Cuts(e)'
      <4>1. SUFFICES ASSUME "lag" \notin Faults PROVE Cuts(e)'
        BY DEF Cuts
      <4>2. /\ unacked'[e] = unacked[e] /\ cq'[e] = Append(cq[e], Written)
            /\ unacked[e] = 0
        <5>1. unacked' = unacked
          BY <2>x, <4>1 DEF Execute
        <5>2. cq' = [[cq EXCEPT ![o] = Append(@, Received(Head(wire[e])))]
                       EXCEPT ![e] = Append(@, Written)]
          BY <2>o, <2>x, <4>1 DEF Execute
        <5>3. cq'[e] = Append(cq[e], Written)
          BY <2>o, <2>d, <5>2
        <5>4. unacked[e] = 0
          BY <1>h, <4>1 DEF Cuts
        <5>5. QED
          BY <5>1, <5>3, <5>4
      <4>3. Len(cq'[e]) = Len(cq[e]) + 1 /\ Len(cq[e]) \in Nat
        BY <3>1, <4>2, AppendProperties
      <4>4. ASSUME NEW i \in 0..(Len(cq[e]) + 1)
            PROVE  Load(e) - 1 + CutAt(cq'[e], i) <= MaxOfPeer(e)
        <5>1. PICK j \in 0..Len(cq[e]) : i = j \/ (i = Len(cq[e]) + 1 /\ j = Len(cq[e]))
          BY <4>3
        <5>2. CutAt(cq[e], j) \in Nat
          BY <3>1, CutType
        <5>3. CutAt(cq'[e], i) <= CutAt(cq[e], j) + 1 /\ CutAt(cq'[e], i) \in Int
          <6>1. /\ CutAt(Append(cq[e], Written), j) = CutAt(cq[e], j) + 1
                /\ CutAt(Append(cq[e], Written), Len(cq[e]) + 1) = CutAt(cq[e], Len(cq[e])) + 0
            BY <3>1, CutAppend, CompletionTypes
          <6>2. QED
            BY <4>2, <5>1, <5>2, <6>1
        <5>4. Load(e) + CutAt(cq[e], j) <= MaxOfPeer(e) /\ Load(e) \in Int /\ MaxOfPeer(e) \in Nat
          BY <1>h, <4>1 DEF Cuts, Numbers
        <5>5. QED
          BY <5>2, <5>3, <5>4
      <4>5. QED
        BY <3>4, <4>2, <4>3, <4>4 DEF Cuts, MaxOfPeer
    <3>12. Cuts(o)'
      <4>1. SUFFICES ASSUME "lag" \notin Faults PROVE Cuts(o)'
        BY DEF Cuts
      <4>2. unacked'[o] = 0
        BY <1>h, <2>x, <4>1 DEF Execute, Cuts
      <4>3. Len(cq'[o]) = Len(cq[o]) + 1 /\ Len(cq[o]) \in Nat /\ cq'[o] \in Seq(Completion)
        BY <3>1, <3>7, AppendProperties
      <4>4. ASSUME NEW i \in 0..Len(cq[o])
            PROVE  Load(o) + CutAt(cq'[o], i) <= MaxOfPeer(o)
        <5>1. CutAt(Append(cq[o], r), i) = CutAt(cq[o], i) + 0 /\ CutAt(cq[o], i) \in Nat
          BY <3>1, <3>7, CutAppend, CutType
        <5>2. Load(o) + CutAt(cq[o], i) <= MaxOfPeer(o)
          BY <1>h, <4>1 DEF Cuts
        <5>3. QED
          BY <3>7, <5>1, <5>2
      <4>5. Load(o) + CutAt(cq'[o], Len(cq[o]) + 1) <= MaxOfPeer(o)
        <5>1. CutAt(cq'[o], Len(cq[o]) + 1) = Unpolled(cq'[o], "WriteWithImm")
          BY <4>3, CutEnds
        <5>2. Load(o) + CutAt(cq'[o], Len(cq[o]) + 1) = Flow(o)'
          BY <3>6, <5>1 DEF Flow
        <5>3. Flow(o)' + Flow(e)' <= 0 /\ Flow(o)' \in Int /\ Flow(e)' \in Int
          <6>1. Flow(o)' \in Int /\ Flow(e)' \in Int
            BY <1>i DEF Numbers
          <6>2. Flow(o)' + Flow(e)' <= 0
            BY <2>o, <3>10, <6>1 DEF Ends
          <6>3. QED
            BY <6>1, <6>2
        <5>4. - s <= Flow(e)'
          <6>1. Flow(e) = Load(e) + Unpolled(cq[e], "WriteWithImm")
            BY DEF Flow
          <6>2. Unpolled(cq[e], "WriteWithImm") \in Nat
            BY <1>h DEF Numbers
          <6>3. QED
            BY <2>3, <3>2, <3>9, <6>1, <6>2
        <5>5. s <= MaxOfPeer(o) /\ MaxOfPeer(o) \in Nat
          <6>1. MaxOfPeer(o) = IF e \in Initiators THEN Rqe ELSE 0
            BY <2>o, TwoEnds DEF MaxOfPeer, MaxSending
          <6>2. QED
            BY <1>r, <2>3, <6>1
        <5>6. QED
          BY <5>2, <5>3, <5>4, <5>5
      <4>6. \A i \in 0..(Len(cq[o]) + 1) : i \in 0..Len(cq[o]) \/ i = Len(cq[o]) + 1
        BY <4>3
      <4>7. \A i \in 0..Len(cq'[o]) : Load(o)' + CutAt(cq'[o], i) <= MaxOfPeer(o)
        BY <3>6, <4>3, <4>4, <4>5, <4>6
      <4>8. QED
        BY <4>2, <4>7 DEF Cuts, MaxOfPeer
    <3>13. (\A d \in Ends : Local(d) /\ Cuts(d))'
      BY <2>o, <3>5, <3>6, <3>11, <3>12
    <3>14. QED
      BY <1>j, <3>10, <3>13
  <2>a. CASE Acknowledge(e)
    <3>1. cq'[e] = Append(cq[e], Written) /\ cq[e] \in Seq(Completion) /\ unacked[e] > 0
      BY <2>d, <2>a DEF Acknowledge, TypeOK
    <3>2. /\ w1 = w /\ a1 = a /\ v1 = v /\ n1 = n /\ x1 = x /\ s1 = s /\ t1 = t /\ b1 = b /\ k1 = k
      BY <2>6, <2>a DEF Acknowledge, sendVars, recvVars
    <3>3. Flow(e)' <= Flow(e)
      <4>1. Unpolled(Append(cq[e], Written), "WriteWithImm") = Unpolled(cq[e], "WriteWithImm") + 0
        BY <3>1, Arrived, CompletionTypes
      <4>2. Load(e)' = Load(e) /\ Load(e) \in Int /\ Unpolled(cq[e], "WriteWithImm") \in Nat
        BY <1>h, <2>3, <2>5, <3>2 DEF Numbers
      <4>3. Flow(e)' = Load(e) + Unpolled(Append(cq[e], Written), "WriteWithImm")
        BY <3>1, <4>2 DEF Flow
      <4>4. QED
        BY <4>1, <4>2, <4>3 DEF Flow
    <3>4. "lag" \in Faults
      BY <1>h, <3>1 DEF Cuts, Numbers
    <3>5. Cuts(e)'
      BY <3>4 DEF Cuts
    <3>6. Same(o)
      BY <2>o, <2>d, <2>a DEF Acknowledge, Same, sendVars, recvVars
    <3>7. Local(e)'
      BY <2>3, <2>4, <3>2
    <3>8. QED
      BY <2>7, <3>3, <3>5, <3>6, <3>7
(* Both polls: the queue loses its head h, which weighs on the daemon      *)
(* instead when it is a received message.                                  *)
  <2>h. ASSUME NEW m \in 0..1, cq[e] # <<>>, cq'[e] = Tail(cq[e]), unacked'[e] = unacked[e],
               IsReceived(Head(cq[e])) <=> m = 1,
               w1 = w, a1 = a, x1 = x, n1 = n + m, s1 = s
        PROVE  Flow(e)' <= Flow(e) /\ Cuts(e)'
    <3>1. cq[e] \in Seq(Completion) /\ Head(cq[e]) \in Completion
      <4>1. cq[e] \in Seq(Completion)
        BY <1>h DEF Numbers
      <4>2. QED
        BY <2>h, <4>1, HeadTailProperties
    <3>2. Load(e)' = Load(e) + m /\ Load(e) \in Int
      <4>1. w1 = w /\ a1 = a /\ x1 = x /\ n1 = n + m /\ s1 = s
        BY <2>h
      <4>2. w1 + a1 + x1 + n1 - s1 = (w + a + x + n - s) + m
        BY <4>1
      <4>3. QED
        BY <2>3, <2>5, <4>2
    <3>3. Flow(e)' <= Flow(e)
      <4>1. Unpolled(Tail(cq[e]), "WriteWithImm") = Unpolled(cq[e], "WriteWithImm") - m
        BY <2>h, <3>1, Arrived
      <4>2. Unpolled(cq[e], "WriteWithImm") \in Nat
        BY <3>1, Arrived
      <4>3. Flow(e)' = Load(e) + m + Unpolled(Tail(cq[e]), "WriteWithImm")
        BY <2>h, <3>2 DEF Flow
      <4>4. QED
        BY <3>2, <4>1, <4>2, <4>3 DEF Flow
    <3>4. ASSUME "lag" \notin Faults, NEW i \in 0..(Len(cq[e]) - 1)
          PROVE  Load(e)' + CutAt(Tail(cq[e]), i) <= MaxOfPeer(e)
      <4>1. i + 1 \in 0..Len(cq[e]) /\ Len(cq[e]) \in Nat
        BY <3>1, LenProperties
      <4>2. CutAt(Tail(cq[e]), i) = CutAt(cq[e], i + 1) - m
        <5>1. IsReceived(Head(cq[e])) <=> Head(cq[e]).opcode = "WriteWithImm"
          BY DEF IsReceived
        <5>2. QED
          BY <2>h, <3>1, <5>1, CutTail
      <4>3. CutAt(cq[e], i + 1) \in Nat
        BY <3>1, CutType
      <4>4. Load(e) + CutAt(cq[e], i + 1) <= MaxOfPeer(e) /\ MaxOfPeer(e) \in Nat
        BY <1>h, <3>4, <4>1 DEF Cuts, Numbers
      <4>5. QED
        BY <3>2, <4>2, <4>3, <4>4
    <3>5. Len(cq'[e]) = Len(cq[e]) - 1
      BY <2>h, <3>1, HeadTailProperties
    <3>6. Cuts(e)'
      BY <1>h, <2>h, <3>4, <3>5 DEF Cuts, MaxOfPeer
    <3>7. QED
      BY <3>3, <3>6
  <2>r. CASE PollReceived(e)
    <3>1. /\ cq[e] # <<>> /\ cq'[e] = Tail(cq[e]) /\ unacked'[e] = unacked[e]
          /\ IsReceived(Head(cq[e]))
      BY <2>d, <2>r DEF PollReceived, Poll
    <3>2. n = 0 /\ n1 = 1
      <4>1. daemon[e] = <<>> /\ daemon'[e] = <<Head(cq[e]).imm>>
        BY <2>d, <2>r DEF PollReceived, Poll
      <4>2. QED
        BY <2>1, <2>2, <4>1 DEF Short
    <3>3. /\ w1 = w /\ a1 = a /\ v1 = v /\ x1 = x /\ s1 = s /\ t1 = t /\ b1 = b /\ k1 = k
      BY <2>6, <2>r DEF PollReceived, sendVars, recvVars
    <3>4. Flow(e)' <= Flow(e) /\ Cuts(e)'
      <4>1. n1 = n + 1
        BY <3>2
      <4>2. QED
        BY <2>h, <3>1, <3>3, <4>1
    <3>5. Same(o)
      <4>1. cq'[o] = cq[o] /\ daemon'[o] = daemon[o]
        BY <2>o, <2>d, <2>r DEF PollReceived, Poll
      <4>2. QED
        BY <2>r, <4>1 DEF PollReceived, Same, sendVars, recvVars
    <3>6. Local(e)'
      BY <2>3, <2>4, <3>2, <3>3
    <3>7. QED
      BY <2>7, <3>4, <3>5, <3>6
  <2>w. CASE PollWritten(e)
    <3>1. cq[e] # <<>> /\ cq'[e] = Tail(cq[e]) /\ unacked'[e] = unacked[e]
      BY <2>d, <2>w DEF PollWritten, Poll
    <3>2. ~ IsReceived(Head(cq[e]))
      BY <2>w DEF PollWritten, IsWritten, IsReceived
    <3>3. /\ w1 = w /\ a1 = a /\ v1 = v /\ n1 = n /\ x1 = x /\ s1 = s /\ t1 = t /\ b1 = b /\ k1 = k
      BY <2>6, <2>w DEF PollWritten, sendVars, recvVars
    <3>4. Flow(e)' <= Flow(e) /\ Cuts(e)'
      <4>1. n1 = n + 0
        BY <3>3
      <4>2. QED
        BY <2>h, <3>1, <3>2, <3>3, <4>1
    <3>5. Same(o)
      <4>1. cq'[o] = cq[o]
        BY <2>o, <2>d, <2>w DEF PollWritten, Poll
      <4>2. QED
        BY <2>w, <4>1 DEF PollWritten, Same, sendVars, recvVars
    <3>6. Local(e)'
      BY <2>3, <2>4, <3>3
    <3>7. QED
      BY <2>7, <3>4, <3>5, <3>6
  <2>s. CASE Dispatch(e)
    <3>1. daemon'[e] = <<>> /\ rx'[e] = rx[e] \o daemon[e]
      BY <2>d, <2>s DEF Dispatch
    <3>2. n1 = 0 /\ x1 = x + n
      <4>1. Len(rx[e] \o daemon[e]) = Len(rx[e]) + Len(daemon[e])
        BY ConcatProperties DEF TypeOK
      <4>2. QED
        BY <2>1, <2>2, <3>1, <4>1 DEF Short
    <3>3. /\ w1 = w /\ a1 = a /\ v1 = v /\ s1 = s /\ t1 = t /\ b1 = b /\ k1 = k
          /\ cq'[e] = cq[e] /\ unacked'[e] = unacked[e]
      BY <2>6, <2>s DEF Dispatch, netVars, sendVars, recvVars
    <3>4. Same(o)
      BY <2>o, <2>d, <2>s DEF Dispatch, Same, netVars, sendVars, recvVars
    <3>5. Local(e)'
      BY <2>3, <2>4, <3>2, <3>3
    <3>6. QED
      BY <2>8, <3>2, <3>3, <3>4, <3>5
  <2>m. CASE RecvMsg(e)
    <3>1. s1 = s - 1 /\ b = 0 /\ b1 = 1
      BY <2>1, <2>2, <2>d, <2>m DEF RecvMsg, Short, Busy
    <3>2. x1 = x - 1
      <4>1. rx'[e] = Tail(rx[e]) /\ rx[e] # <<>> /\ rx[e] \in Seq(Counts)
        BY <2>d, <2>m DEF RecvMsg, TypeOK
      <4>2. Len(Tail(rx[e])) = Len(rx[e]) - 1
        BY <4>1, HeadTailProperties
      <4>3. QED
        BY <2>1, <2>2, <4>1, <4>2 DEF Short
    <3>3. /\ w1 = w /\ a1 = a /\ v1 = v /\ n1 = n /\ t1 = t /\ k1 = k
          /\ cq'[e] = cq[e] /\ unacked'[e] = unacked[e]
      BY <2>6, <2>m DEF RecvMsg, netVars, sendVars
    <3>4. Same(o)
      BY <2>o, <2>d, <2>m DEF RecvMsg, Same, netVars, sendVars
    <3>5. Local(e)'
      <4>1. s1 <= Rqe /\ n1 <= 1 /\ k1 + b1 + s1 <= B
        BY <1>r, <2>b, <2>3, <3>1, <3>3
      <4>2. ASSUME e \notin Initiators PROVE s1 + t1 + v1 + b1 <= 0
        BY <2>3, <3>1, <3>3, <4>2
      <4>3. QED
        BY <2>4, <4>1, <4>2
    <3>6. QED
      BY <2>8, <3>1, <3>2, <3>3, <3>4, <3>5
  <2>y. ASSUME waiting' = Answered(e)
        PROVE  /\ e \notin Initiators => t1 = t + 1
               /\ waiting'[o] = waiting[o]
    BY <2>1, <2>2, <2>o, <2>d, <2>y DEF Answered, Short
  <2>g. CASE ReleaseGathered(e)
    <3>1. b = 1 /\ b1 = 0
      BY <2>1, <2>2, <2>d, <2>g DEF ReleaseGathered, Short, Busy
    <3>2. /\ w1 = w /\ a1 = a /\ v1 = v /\ n1 = n /\ x1 = x /\ s1 = s /\ k1 = k
          /\ cq'[e] = cq[e] /\ unacked'[e] = unacked[e]
      BY <2>6, <2>g DEF ReleaseGathered, netVars
    <3>3. (e \notin Initiators => t1 = t + 1) /\ waiting'[o] = waiting[o]
      BY <2>g, <2>y DEF ReleaseGathered
    <3>4. Same(o)
      BY <2>o, <2>d, <2>g, <3>3 DEF ReleaseGathered, Same, netVars
    <3>5. Local(e)'
      <4>1. s1 <= Rqe /\ n1 <= 1 /\ k1 + b1 + s1 <= B
        BY <1>r, <2>b, <2>3, <3>1, <3>2
      <4>2. ASSUME e \notin Initiators PROVE s1 + t1 + v1 + b1 <= 0
        <5>1. s + t + v + b <= 0 /\ t1 = t + 1
          BY <2>3, <3>3, <4>2
        <5>2. QED
          BY <3>1, <3>2, <3>3, <5>1
      <4>3. QED
        BY <2>4, <4>1, <4>2
    <3>6. QED
      BY <2>8, <3>2, <3>4, <3>5
  <2>n. CASE ReleaseNotified(e)
    <3>1. b = 1 /\ b1 = 1
      BY <2>1, <2>2, <2>d, <2>n DEF ReleaseNotified, Short, Busy
    <3>2. /\ w1 = w /\ a1 = a /\ v1 = v /\ n1 = n /\ x1 = x /\ s1 = s /\ t1 = t /\ k1 = k
          /\ cq'[e] = cq[e] /\ unacked'[e] = unacked[e]
      BY <2>6, <2>n DEF ReleaseNotified, netVars, sendVars
    <3>3. Same(o)
      BY <2>o, <2>d, <2>n DEF ReleaseNotified, Same, netVars, sendVars
    <3>4. Local(e)'
      BY <2>3, <2>4, <3>1, <3>2
    <3>5. QED
      BY <2>8, <3>2, <3>3, <3>4
  <2>z. CASE SendNotice(e)
    <3>1. b = 1 /\ b1 = 0
      BY <2>1, <2>2, <2>d, <2>z DEF SendNotice, Short, Busy
    <3>2. k1 = k + 1
      <4>1. notices'[e] = Append(notices[e], notice[e])
        BY <2>d, <2>z DEF SendNotice
      <4>2. Len(Append(notices[e], notice[e])) = Len(notices[e]) + 1
        BY AppendProperties DEF TypeOK
      <4>3. QED
        BY <2>1, <2>2, <4>1, <4>2 DEF Short
    <3>3. /\ w1 = w /\ a1 = a /\ v1 = v /\ n1 = n /\ x1 = x /\ s1 = s
          /\ cq'[e] = cq[e] /\ unacked'[e] = unacked[e]
      BY <2>6, <2>z DEF SendNotice, netVars
    <3>4. (e \notin Initiators => t1 = t + 1) /\ waiting'[o] = waiting[o]
      BY <2>z, <2>y DEF SendNotice
    <3>5. Same(o)
      BY <2>o, <2>d, <2>z, <3>4 DEF SendNotice, Same, netVars
    <3>6. Local(e)'
      <4>1. s1 <= Rqe /\ n1 <= 1 /\ k1 + b1 + s1 <= B
        BY <1>r, <2>b, <2>3, <3>1, <3>2, <3>3
      <4>2. ASSUME e \notin Initiators PROVE s1 + t1 + v1 + b1 <= 0
        <5>1. s + t + v + b <= 0 /\ t1 = t + 1
          BY <2>3, <3>4, <4>2
        <5>2. QED
          BY <3>1, <3>2, <3>3, <5>1
      <4>3. QED
        BY <2>4, <4>1, <4>2
    <3>7. QED
      BY <2>8, <3>3, <3>5, <3>6
  <2> QED
    BY <2>t, <2>p, <2>q, <2>c, <2>x, <2>a, <2>r, <2>w, <2>s, <2>m, <2>g, <2>n, <2>z
       DEF SendStep, CardStep, PollStep, AppStep
<1>3. QED
  BY <1>1, <1>2 DEF Next

LEMMA ConnInvInit == Init => Windows /\ WritesFirst
<1> SUFFICES ASSUME Init PROVE Windows /\ WritesFirst
  OBVIOUS
<1>1. TypeOK
  BY TypedInit DEF Typed
<1>2. ASSUME NEW d \in Ends PROVE Flow(d) = 0 /\ Local(d) /\ Cuts(d)
  <2>1. /\ sending[d] = 0 /\ waiting[d] = Spawned[d] /\ holder[d] = "none" /\ app[d] = "recv"
        /\ daemon[d] = <<>> /\ notices[d] = <<>> /\ wire[d] = <<>> /\ rx[d] = <<>>
        /\ cq[d] = <<>> /\ unacked[d] = 0 /\ rqe[d] = Rqe
    BY <1>2 DEF Init
  <2>2. Rqe \in Nat \ {0} /\ (d \notin Initiators => Spawned[d] = 0)
    BY ConnAssumption DEF Spawned
  <2>3. Load(d) = 0
    BY <2>1 DEF Load, InAlloc
  <2>4. Unpolled(cq[d], "WriteWithImm") = 0
    <3>1. RqesReplaced
      BY TypedInit DEF Typed
    <3>2. Unpolled(cq[d], "WriteWithImm") \in Nat
      BY <1>1, NumbersOf DEF Numbers
    <3>3. QED
      BY <2>1, <2>2, <3>1, <3>2 DEF RqesReplaced
  <2>5. Local(d)
    BY <2>1, <2>2 DEF Local, InWindow, Busy, MaxSending, NoticeCap
  <2>6. Cuts(d)
    <3>1. Unpolled(cq[d], "WriteWithImm") = CutAt(cq[d], 0) /\ Len(cq[d]) = 0
      <4>1. CutAt(cq[d], 0) = Unpolled(cq[d], "WriteWithImm")
        <5>1. cq[d] \in Seq(Completion)
          BY <1>1, NumbersOf DEF Numbers
        <5>2. Unpolled(cq[d], "WriteWithImm") = CutAt(cq[d], Len(cq[d])) /\ Len(cq[d]) = 0
          BY <2>1, <5>1, CutEnds
        <5>3. QED
          BY <5>2
      <4>2. QED
        BY <2>1, <4>1
    <3>2. MaxOfPeer(d) \in Nat
      BY <1>1, NumbersOf DEF Numbers
    <3>3. \A i \in 0..Len(cq[d]) : i = 0
      BY <3>1
    <3>4. QED
      BY <2>1, <2>3, <2>4, <3>1, <3>2, <3>3 DEF Cuts
  <2>7. QED
    BY <2>3, <2>4, <2>5, <2>6 DEF Flow
<1>3. Flow("client") + Flow("server") <= 0
  BY <1>2 DEF Ends
<1>4. QED
  BY <1>1, <1>2, <1>3, PerEnd

(* Whatever the faults and whoever sends: the windows count the messages   *)
(* under way, receive requests are replaced as they are polled, and when   *)
(* acknowledgements do not lag, writes are completed before the answers    *)
(* that reopen the window come in.                                         *)
THEOREM WindowsKept == Spec => []ConnInv
<1>1. Init => Typed /\ Windows /\ WritesFirst
  BY TypedInit, ConnInvInit
<1>2. Typed /\ Windows /\ WritesFirst /\ [Next]_vars => (Typed /\ Windows /\ WritesFirst)'
  <2>1. Typed /\ [Next]_vars => Typed'
    BY TypedStep
  <2>2. Typed /\ Typed' => TypeOK /\ TypeOK'
    BY DEF Typed
  <2>3. QED
    BY <2>1, <2>2, WindowsStep
<1>3. Typed /\ Windows /\ WritesFirst => ConnInv
  BY DEF Typed, ConnInv
<1>4. QED
  BY <1>1, <1>2, <1>3, PTL DEF Spec

-----------------------------------------------------------------------------
(* What the windows keep from happening.                                   *)

(* When one end answers the other, no more messages are under way than     *)
(* the window of that other end lets through.                              *)
LEMMA AtMostWindow ==
  TypeOK /\ ConnInv /\ OneInitiator =>
    \A e \in Ends :
      /\ InTransit(e) \in Nat /\ InTransit(Other(e)) \in Nat
      /\ InTransit(e) + InTransit(Other(e)) + InAlloc(e) + InAlloc(Other(e))
           <= sending[e] + sending[Other(e)]
      /\ sending[e] + sending[Other(e)] <= Rqe
<1> SUFFICES ASSUME TypeOK, ConnInv, OneInitiator, NEW e \in Ends
             PROVE  /\ InTransit(e) \in Nat /\ InTransit(Other(e)) \in Nat
                    /\ InTransit(e) + InTransit(Other(e)) + InAlloc(e) + InAlloc(Other(e))
                         <= sending[e] + sending[Other(e)]
                    /\ sending[e] + sending[Other(e)] <= Rqe
  OBVIOUS
<1>1. Windows
  BY DEF ConnInv
<1>2. Rqe \in Nat \ {0}
  BY ConnAssumption
<1>3. \A d \in Ends : Numbers(d)
  BY NumbersOf
<1>4. PICK o \in Ends : o = Other(e) /\ Other(o) = e /\ o # e
  BY TwoEnds
<1>5. ASSUME NEW d \in Ends PROVE InTransit(d) \in Nat
  <2>1. Other(d) \in Ends
    BY TwoEnds
  <2>2. /\ Len(wire[d]) \in Nat /\ Unpolled(cq[Other(d)], "WriteWithImm") \in Nat
        /\ Len(daemon[Other(d)]) \in Nat /\ Len(rx[Other(d)]) \in Nat
    BY <1>3, <2>1 DEF Numbers
  <2>3. PICK w \in Nat, u \in Nat, n \in Nat, x \in Nat :
          /\ w = Len(wire[d]) /\ u = Unpolled(cq[Other(d)], "WriteWithImm")
          /\ n = Len(daemon[Other(d)]) /\ x = Len(rx[Other(d)])
    BY <2>2, Zenon
  <2>4. InTransit(d) = w + u + n + x
    BY <2>3 DEF InTransit
  <2>5. QED
    BY <2>4
<1>6. sending[e] + sending[o] <= Rqe
  <2>1. ASSUME NEW d \in Ends PROVE sending[d] <= Rqe /\ (d \notin Initiators => sending[d] <= 0)
    <3>1. sending[d] <= Rqe /\ sending[d] \in Int
      BY <1>1, <1>3 DEF Windows, MaxSending, Numbers
    <3>2. CASE d \notin Initiators
      <4>1. sending[d] + waiting[d] + InWindow(d) + Busy(d) <= 0
        BY <1>1, <3>2 DEF Windows, AnswersOnly
      <4>2. waiting[d] \in Nat /\ InWindow(d) \in 0..1 /\ Busy(d) \in 0..1
        BY <1>3 DEF Numbers
      <4>3. QED
        BY <3>1, <4>1, <4>2
    <3>3. QED
      BY <3>1, <3>2
  <2>2. e \notin Initiators \/ o \notin Initiators
    BY <1>4 DEF OneInitiator
  <2>3. sending[e] \in Int /\ sending[o] \in Int
    BY <1>3 DEF Numbers
  <2>4. QED
    BY <1>2, <2>1, <2>2, <2>3
<1>7. InTransit(e) + InTransit(o) + InAlloc(e) + InAlloc(o) <= sending[e] + sending[o]
  <2>1. /\ (e = "client" /\ o = "server") \/ (e = "server" /\ o = "client")
    BY <1>4 DEF Ends
  <2>2. PICK p \in Nat, q \in Nat, a \in 0..1, b \in 0..1, s \in Int, t \in Int :
          /\ p = InTransit(e) /\ q = InTransit(o) /\ a = InAlloc(e) /\ b = InAlloc(o)
          /\ s = sending[e] /\ t = sending[o]
    BY <1>3, <1>5, Zenon DEF Numbers
  <2>3. WindowsCount
    BY <1>1 DEF Windows
  <2>4. p + q + a + b <= s + t
    BY <2>1, <2>2, <2>3 DEF WindowsCount
  <2>5. QED
    BY <2>2, <2>4
<1>8. QED
  BY <1>4, <1>5, <1>6, <1>7

LEMMA Always == Spec => [](TypeOK /\ ConnInv)
<1>1. QED
  BY TypeCorrect, WindowsKept, PTL

(* A message finds a receive request at the peer, whatever the faults, for *)
(* every depth of the queues, when one end answers the other.              *)
THEOREM RequestsSuffice == OneInitiator => (Spec => []RqeNeverShort)
<1> SUFFICES ASSUME OneInitiator PROVE Spec => []RqeNeverShort
  OBVIOUS
<1>1. ASSUME TypeOK, ConnInv PROVE RqeNeverShort
  <2> SUFFICES ASSUME NEW e \in Ends, wire[e] # <<>> PROVE rqe[Other(e)] > 0
    BY DEF RqeNeverShort
  <2>1. PICK o \in Ends : o = Other(e)
    BY TwoEnds
  <2>2. Numbers(e) /\ Numbers(o)
    BY <1>1, NumbersOf
  <2>3. PICK w \in Nat, u \in Nat, n \in Nat, x \in Nat :
          w = Len(wire[e]) /\ u = Unpolled(cq[o], "WriteWithImm") /\ n = Len(daemon[o]) /\ x = Len(rx[o])
    BY <2>2, Zenon DEF Numbers
  <2>4. w > 0
    BY <1>1, <2>3, EmptySeq DEF TypeOK
  <2>5. InTransit(e) = w + u + n + x
    BY <2>1, <2>3 DEF InTransit
  <2>6. /\ InTransit(o) \in Nat /\ InAlloc(e) \in 0..1 /\ InAlloc(o) \in 0..1 /\ sending[e] \in Int
        /\ sending[o] \in Int /\ Rqe \in Nat
    BY <1>1, <2>1, <2>2, AtMostWindow, ConnAssumption DEF Numbers
  <2>7. InTransit(e) + InTransit(o) + InAlloc(e) + InAlloc(o) <= sending[e] + sending[o]
          /\ sending[e] + sending[o] <= Rqe
    BY <1>1, <2>1, AtMostWindow
  <2>8. w + u <= Rqe
    BY <2>5, <2>6, <2>7
  <2>9. rqe[o] + u = Rqe /\ rqe[o] \in Int
    BY <1>1, <2>3 DEF ConnInv, RqesReplaced, TypeOK
  <2>10. QED
    BY <2>1, <2>4, <2>6, <2>8, <2>9
<1>2. QED
  BY <1>1, Always, PTL

(* The daemon never waits for recv_msg, so no write completion is held up  *)
(* behind a message the application has not taken.                         *)
THEOREM DaemonRuns == OneInitiator => (Spec => []DaemonNeverWaits)
<1> SUFFICES ASSUME OneInitiator PROVE Spec => []DaemonNeverWaits
  OBVIOUS
<1>1. ASSUME TypeOK, ConnInv PROVE DaemonNeverWaits
  <2> SUFFICES ASSUME NEW e \in Ends, daemon[e] # <<>> PROVE Len(rx[e]) < Rqe
    BY DEF DaemonNeverWaits, RxCap
  <2>1. PICK o \in Ends : o = Other(e) /\ Other(o) = e
    BY TwoEnds
  <2>2. Numbers(e) /\ Numbers(o)
    BY <1>1, NumbersOf
  <2>3. PICK w \in Nat, u \in Nat, n \in Nat, x \in Nat :
          w = Len(wire[o]) /\ u = Unpolled(cq[e], "WriteWithImm") /\ n = Len(daemon[e]) /\ x = Len(rx[e])
    BY <2>2, Zenon DEF Numbers
  <2>4. n > 0
    BY <1>1, <2>3, EmptySeq DEF TypeOK
  <2>5. InTransit(o) = w + u + n + x
    BY <2>1, <2>3 DEF InTransit
  <2>6. /\ InTransit(e) \in Nat /\ InAlloc(e) \in 0..1 /\ InAlloc(o) \in 0..1 /\ sending[e] \in Int
        /\ sending[o] \in Int /\ Rqe \in Nat
    BY <1>1, <2>1, <2>2, AtMostWindow, ConnAssumption DEF Numbers
  <2>7. InTransit(e) + InTransit(o) + InAlloc(e) + InAlloc(o) <= sending[e] + sending[o]
          /\ sending[e] + sending[o] <= Rqe
    BY <1>1, <2>1, AtMostWindow
  <2>8. n + x <= Rqe
    BY <2>5, <2>6, <2>7
  <2>9. x < Rqe
    BY <2>4, <2>6, <2>8
  <2>10. QED
    BY <2>3, <2>9
<1>2. QED
  BY <1>1, Always, PTL

(* A full channel of notices makes release wait only when no message is on *)
(* its way to this end: as many messages as the window lets through lie    *)
(* unanswered there.                                                       *)
THEOREM ReleaseRuns == OneInitiator => (Spec => []ReleaseNeverStalls)
<1> SUFFICES ASSUME OneInitiator PROVE Spec => []ReleaseNeverStalls
  OBVIOUS
<1>1. ASSUME TypeOK, ConnInv PROVE ReleaseNeverStalls
  <2> SUFFICES ASSUME NEW e \in Ends, app[e] = "notify", Len(notices[e]) >= Rqe
               PROVE  InTransit(Other(e)) = 0
    BY DEF ReleaseNeverStalls, NoticeCap
  <2>1. PICK o \in Ends : o = Other(e) /\ o # e
    BY TwoEnds
  <2>2. Numbers(e) /\ Numbers(o)
    BY <1>1, NumbersOf
  <2>3. PICK k \in Nat, b \in 0..1, s \in Int, z \in Int :
          k = Len(notices[e]) /\ b = Busy(e) /\ s = sending[e] /\ z = sending[o]
    BY <2>2, Zenon DEF Numbers
  <2>4. b = 1 /\ k >= Rqe /\ Rqe \in Nat \ {0}
    BY <2>3, ConnAssumption DEF Busy
  <2>5. k + b + s <= IF e \in Initiators THEN Rqe + 1 ELSE 0
    BY <1>1, <2>3 DEF ConnInv, Windows, NoticesWait, NoticeCap
  <2>6. s + z <= 0
    <3>1. CASE e \in Initiators
      <4>1. o \notin Initiators
        BY <2>1, <3>1 DEF OneInitiator
      <4>2. z + waiting[o] + InWindow(o) + Busy(o) <= 0
        BY <1>1, <2>3, <4>1 DEF ConnInv, Windows, AnswersOnly
      <4>3. waiting[o] \in Nat /\ InWindow(o) \in 0..1 /\ Busy(o) \in 0..1
        BY <2>2 DEF Numbers
      <4>4. z <= 0
        BY <4>2, <4>3
      <4>5. s <= 0
        BY <2>4, <2>5, <3>1
      <4>6. QED
        BY <4>4, <4>5
    <3>2. CASE e \notin Initiators
      <4>1. s <= 0 - Rqe
        BY <2>4, <2>5, <3>2
      <4>2. z <= Rqe
        BY <1>1, <2>3 DEF ConnInv, Windows, MaxSending
      <4>3. QED
        BY <2>4, <4>1, <4>2
    <3>3. QED
      BY <3>1, <3>2
  <2>7. /\ InTransit(e) \in Nat /\ InTransit(o) \in Nat /\ InAlloc(e) \in 0..1 /\ InAlloc(o) \in 0..1
        /\ InTransit(e) + InTransit(o) + InAlloc(e) + InAlloc(o) <= s + z
    BY <1>1, <2>1, <2>2, <2>3, AtMostWindow DEF Numbers
  <2>8. QED
    BY <2>1, <2>6, <2>7
<1>2. QED
  BY <1>1, Always, PTL

(* ibv_post_send is never asked to exceed max_send_wr, when one end        *)
(* answers the other and acknowledgements come before the answers.         *)
THEOREM QueueSuffices ==
  OneInitiator /\ "lag" \notin Faults => (Spec => []SendQueueNeverFull)
<1> SUFFICES ASSUME OneInitiator, "lag" \notin Faults PROVE Spec => []SendQueueNeverFull
  OBVIOUS
<1>1. ASSUME TypeOK, ConnInv PROVE SendQueueNeverFull
  <2> SUFFICES ASSUME NEW e \in Ends, holder[e] = "alloc" PROVE SendQueue(e) < Rqe
    BY DEF SendQueueNeverFull, SendDepth
  <2>1. PICK o \in Ends : o = Other(e) /\ o # e
    BY TwoEnds
  <2>2. Numbers(e) /\ cq[e] \in Seq(Completion)
    BY <1>1, NumbersOf DEF Numbers
  <2>3. CutAt(cq[e], 0) \in Nat /\ Unpolled(cq[e], "Write") = CutAt(cq[e], 0)
    BY <2>2, CutType, CutEnds
  <2>4. PICK w \in Nat, c \in Nat, a \in 0..1, x \in Nat, n \in Nat, s \in Int, m \in Nat :
          /\ w = Len(wire[e]) /\ c = CutAt(cq[e], 0) /\ a = InAlloc(e) /\ x = Len(rx[e])
          /\ n = Len(daemon[e]) /\ s = sending[e] /\ m = MaxOfPeer(e)
    BY <2>2, <2>3, Zenon DEF Numbers
  <2>5. unacked[e] = 0 /\ w + c + a + x + n <= s + m
    <3>1. 0 \in 0..Len(cq[e])
      BY <2>2 DEF Numbers
    <3>2. QED
      BY <1>1, <2>4, <3>1 DEF ConnInv, WritesFirst
  <2>6. a = 1
    BY <2>4 DEF InAlloc
  <2>7. s + m <= Rqe
    <3>1. Rqe \in Nat /\ s <= Rqe
      BY <1>1, <2>4, ConnAssumption DEF ConnInv, Windows, MaxSending
    <3>2. CASE e \in Initiators
      <4>1. m = 0
        BY <2>1, <2>4, <3>2 DEF OneInitiator, MaxOfPeer
      <4>2. QED
        BY <3>1, <4>1
    <3>3. CASE e \notin Initiators
      <4>1. s + waiting[e] + InWindow(e) + Busy(e) <= 0
        BY <1>1, <2>4, <3>3 DEF ConnInv, Windows, AnswersOnly
      <4>2. waiting[e] \in Nat /\ InWindow(e) \in 0..1 /\ Busy(e) \in 0..1
        BY <2>2 DEF Numbers
      <4>3. m <= Rqe
        BY <2>4, <3>1 DEF MaxOfPeer, MaxSending
      <4>4. QED
        BY <3>1, <4>1, <4>2, <4>3
    <3>4. QED
      BY <3>2, <3>3
  <2>8. SendQueue(e) = w + 0 + c
    BY <2>3, <2>4, <2>5 DEF SendQueue
  <2>9. QED
    BY <2>5, <2>6, <2>7, <2>8, ConnAssumption
<1>2. QED
  BY <1>1, Always, PTL

===============================================================================
