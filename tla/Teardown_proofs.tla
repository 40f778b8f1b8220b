---------------------------- MODULE Teardown_proofs ---------------------------
(***************************************************************************)
(* Proofs about Teardown, for any number of connections and any bounds.    *)
(***************************************************************************)
EXTENDS Teardown, FiniteSetTheorems, TLAPS

(* What one step of dropping takes away.                                   *)
LEMMA ConnPartGoes ==
  ASSUME NEW c \in Conns, DropNext(c, ConnParts)
  PROVE  \/ live' = [live EXCEPT ![c] = @ \ {"rx"}]
         \/ live' = [live EXCEPT ![c] = @ \ {"recvMr"}]
         \/ live' = [live EXCEPT ![c] = @ \ {"recvMem"}] /\ "recvMr" \notin live[c]
         \/ live' = [live EXCEPT ![c] = @ \ {"sendMr"}]
         \/ live' = [live EXCEPT ![c] = @ \ {"sendMem"}] /\ "sendMr" \notin live[c]
<1>1. DOMAIN ConnParts = 1..5
  BY DEF ConnParts
<1>2. /\ ConnParts[1] = "rx" /\ ConnParts[2] = "recvMr" /\ ConnParts[3] = "recvMem"
      /\ ConnParts[4] = "sendMr" /\ ConnParts[5] = "sendMem"
  BY DEF ConnParts
<1>3. PICK i \in 1..5 : /\ live' = [live EXCEPT ![c] = @ \ {ConnParts[i]}]
                        /\ \A j \in 1..(i - 1) : ConnParts[j] \notin live[c]
  BY <1>1 DEF DropNext
<1>4. i = 1 \/ i = 2 \/ i = 3 \/ i = 4 \/ i = 5
  OBVIOUS
<1>5. CASE i = 3
  <2>1. 2 \in 1..(i - 1)
    BY <1>5
  <2>2. QED
    BY <1>2, <1>3, <1>5, <2>1
<1>6. CASE i = 5
  <2>1. 4 \in 1..(i - 1)
    BY <1>6
  <2>2. QED
    BY <1>2, <1>3, <1>6, <2>1
<1>7. QED
  BY <1>2, <1>3, <1>4, <1>5, <1>6

LEMMA QpPartGoes ==
  ASSUME NEW c \in Conns, DropNext(c, QpParts)
  PROVE  \/ live' = [live EXCEPT ![c] = @ \ {"qp"}]
         \/ live' = [live EXCEPT ![c] = @ \ {"pd"}] /\ "qp" \notin live[c]
         \/ /\ live' = [live EXCEPT ![c] = @ \ {"cq"}]
            /\ "qp" \notin live[c] /\ "pd" \notin live[c]
<1>1. DOMAIN QpParts = 1..3
  BY DEF QpParts
<1>2. QpParts[1] = "qp" /\ QpParts[2] = "pd" /\ QpParts[3] = "cq"
  BY DEF QpParts
<1>3. PICK i \in 1..3 : /\ live' = [live EXCEPT ![c] = @ \ {QpParts[i]}]
                        /\ \A j \in 1..(i - 1) : QpParts[j] \notin live[c]
  BY <1>1 DEF DropNext
<1>4. i = 1 \/ i = 2 \/ i = 3
  OBVIOUS
<1>5. CASE i = 2
  <2>1. 1 \in 1..(i - 1)
    BY <1>5
  <2>2. QED
    BY <1>2, <1>3, <1>5, <2>1
<1>6. CASE i = 3
  <2>1. 1 \in 1..(i - 1) /\ 2 \in 1..(i - 1)
    BY <1>6
  <2>2. QED
    BY <1>2, <1>3, <1>6, <2>1
<1>7. QED
  BY <1>2, <1>3, <1>4, <1>5, <1>6

(* The parts there are.                                                    *)
LEMMA ConnPartsAre == {ConnParts[i] : i \in DOMAIN ConnParts} = ConnPartSet
<1>1. DOMAIN ConnParts = 1..5
  BY DEF ConnParts
<1>2. /\ ConnParts[1] = "rx" /\ ConnParts[2] = "recvMr" /\ ConnParts[3] = "recvMem"
      /\ ConnParts[4] = "sendMr" /\ ConnParts[5] = "sendMem"
  BY DEF ConnParts
<1>3. 1..5 = {1, 2, 3, 4, 5}
  OBVIOUS
<1>4. QED
  BY <1>1, <1>2, <1>3 DEF ConnPartSet

LEMMA PartsAre == Parts = ConnPartSet \union QpPartSet
<1>1. DOMAIN QpParts = 1..3
  BY DEF QpParts
<1>2. QpParts[1] = "qp" /\ QpParts[2] = "pd" /\ QpParts[3] = "cq"
  BY DEF QpParts
<1>3. 1..3 = {1, 2, 3}
  OBVIOUS
<1>4. {QpParts[i] : i \in DOMAIN QpParts} = QpPartSet
  BY <1>1, <1>2, <1>3 DEF QpPartSet
<1>5. QED
  BY <1>4, ConnPartsAre DEF Parts

-----------------------------------------------------------------------------
(* Types.                                                                  *)
LEMMA ManyType ==
  ASSUME NEW n \in Nat, NEW k \in {"recv", "send"}
  PROVE  Many(n, k) \in Seq(Completion)
BY DEF Many, Completion

LEMMA UnpolledType ==
  ASSUME NEW q \in Seq(Completion), NEW k
  PROVE  Unpolled(q, k) \in Nat
<1>1. IsFiniteSet(1..Len(q))
  BY FS_Interval
<1>2. {i \in DOMAIN q : q[i].kind = k} \subseteq 1..Len(q)
  OBVIOUS
<1>3. IsFiniteSet({i \in DOMAIN q : q[i].kind = k})
  BY <1>1, <1>2, FS_Subset
<1>4. QED
  BY <1>3, FS_CardinalityType DEF Unpolled

LEMMA TypeInit == Init => TypeOK
<1> SUFFICES ASSUME Init PROVE TypeOK
  OBVIOUS
<1>1. 0 \in 0..MaxRefs /\ 0 \in 0..Rqe /\ 0 \in 0..MaxSends
  BY TeardownAssumption
<1>2. <<>> \in Seq(Completion)
  OBVIOUS
<1>3. cq \in [Conns -> Seq(Completion)]
  BY <1>2 DEF Init
<1>4. QED
  BY <1>1, <1>3 DEF Init, TypeOK

(* One place of a function changes.                                        *)
LEMMA ExceptType ==
  ASSUME NEW S, NEW T, NEW f \in [S -> T], NEW x \in S, NEW v \in T
  PROVE  [f EXCEPT ![x] = v] \in [S -> T]
OBVIOUS

(* An error of the queue pair keeps the types of what the card works on.   *)
LEMMA FailType ==
  ASSUME TypeOK, NEW c \in Conns, Fail(c)
  PROVE  /\ card' \in [Conns -> {"ready", "error"}]
         /\ cq' \in [Conns -> Seq(Completion)]
         /\ sends' \in [Conns -> 0..MaxSends]
         /\ rqe' \in [Conns -> 0..Rqe]
<1>1. sends[c] \in Nat /\ rqe[c] \in Nat /\ cq[c] \in Seq(Completion)
  BY TeardownAssumption DEF TypeOK
<1>2. cq[c] \o Many(sends[c], "send") \o Many(rqe[c], "recv") \in Seq(Completion)
  <2>1. Many(sends[c], "send") \in Seq(Completion)
    BY <1>1, ManyType
  <2>2. Many(rqe[c], "recv") \in Seq(Completion)
    BY <1>1, ManyType
  <2>3. QED
    BY <1>1, <2>1, <2>2
<1>3. cq' \in [Conns -> Seq(Completion)]
  <2>1. cq' = [cq EXCEPT ![c] = cq[c] \o Many(sends[c], "send") \o Many(rqe[c], "recv")]
    BY DEF Fail
  <2>2. cq \in [Conns -> Seq(Completion)]
    BY DEF TypeOK
  <2>3. QED
    BY ONLY <1>2, <2>1, <2>2, ExceptType
<1>4. QED
  BY <1>3, TeardownAssumption DEF TypeOK, Fail

LEMMA TypeNext == TypeOK /\ [Next]_vars => TypeOK'
<1> SUFFICES ASSUME TypeOK, [Next]_vars PROVE TypeOK'
  OBVIOUS
<1> USE TeardownAssumption
<1>1. CASE UNCHANGED vars
  BY <1>1 DEF TypeOK, vars
<1>2. ASSUME NEW c \in Conns, SetupStep(c) PROVE TypeOK'
  <2>1. {"pd", "cq", "qp"} \subseteq Parts /\ {"rx", "recvMr", "recvMem"} \subseteq Parts
        /\ {"sendMr", "sendMem"} \subseteq Parts
    BY PartsAre DEF ConnPartSet, QpPartSet
  <2>2. CASE NewQp(c)
    BY <2>1, <2>2 DEF TypeOK, NewQp, cardVars
  <2>3. CASE NewRecvBuffer(c)
    BY <2>1, <2>3 DEF TypeOK, NewRecvBuffer, cardVars
  <2>4. CASE ExchangePanics(c)
    BY <2>4 DEF TypeOK, ExchangePanics, cardVars
  <2>5. CASE NewConn(c)
    BY <2>1, <2>5 DEF TypeOK, NewConn
  <2>6. QED
    BY <1>2, <2>2, <2>3, <2>4, <2>5 DEF SetupStep
<1>3. ASSUME NEW c \in Conns, AppStep(c) PROVE TypeOK'
  <2>1. CASE CloneConn(c)
    BY <2>1 DEF TypeOK, CloneConn, cardVars
  <2>2. CASE Send(c)
    <3>1. Unpolled(cq[c], "send") \in Nat
      BY UnpolledType DEF TypeOK
    <3>2. Many(1, "send") \in Seq(Completion)
      BY ManyType
    <3>3. cq' \in [Conns -> Seq(Completion)]
      <4>1. cq \in [Conns -> Seq(Completion)] /\ cq[c] \o Many(1, "send") \in Seq(Completion)
        BY <3>2 DEF TypeOK
      <4>2. cq' = cq \/ cq' = [cq EXCEPT ![c] = cq[c] \o Many(1, "send")]
        BY <2>2 DEF Send
      <4>3. QED
        BY <4>1, <4>2, ExceptType
    <3>4. sends' \in [Conns -> 0..MaxSends]
      <4>1. sends \in [Conns -> 0..MaxSends] /\ MaxSends \in Nat
        BY TeardownAssumption DEF TypeOK
      <4>2. sends[c] + 1 \in 0..MaxSends
        <5>1. sends[c] + Unpolled(cq[c], "send") < MaxSends
          BY <2>2 DEF Send
        <5>2. QED
          BY <3>1, <4>1, <5>1
      <4>3. sends' = sends \/ sends' = [sends EXCEPT ![c] = sends[c] + 1]
        BY <2>2 DEF Send
      <4>4. QED
        BY <4>1, <4>2, <4>3, ExceptType
    <3>5. UNCHANGED <<appVars, live, qpRefs, daemon, card, rqe>>
      BY <2>2 DEF Send
    <3>6. QED
      BY <3>3, <3>4, <3>5 DEF TypeOK, appVars
  <2>3. CASE TakeQp(c)
    BY <2>3 DEF TypeOK, TakeQp, cardVars, appVars
  <2>4. CASE DropQp(c)
    BY <2>4 DEF TypeOK, DropQp, cardVars, appVars
  <2>5. CASE DropConn(c)
    BY <2>5 DEF TypeOK, DropConn, cardVars
  <2>6. QED
    BY <1>3, <2>1, <2>2, <2>3, <2>4, <2>5 DEF AppStep
<1>4. ASSUME NEW c \in Conns, DropStep(c) PROVE TypeOK'
  <2>1. CASE DropPart(c)
    <3>1. live' \in [Conns -> SUBSET Parts]
      <4>1. \E x : live' = [live EXCEPT ![c] = live[c] \ {x}]
        BY <2>1, ConnPartGoes DEF DropPart
      <4>2. live \in [Conns -> SUBSET Parts] /\ \A x : live[c] \ {x} \in SUBSET Parts
        BY DEF TypeOK
      <4>3. QED
        BY <4>1, <4>2, ExceptType
    <3>2. QED
      BY <2>1, <3>1 DEF TypeOK, DropPart, cardVars, appVars
  <2>2. CASE Detach(c)
    BY <2>2 DEF TypeOK, Detach, cardVars
  <2>3. CASE DropQpPart(c)
    <3>1. live' \in [Conns -> SUBSET Parts]
      <4>1. \E x : live' = [live EXCEPT ![c] = live[c] \ {x}]
        BY <2>3, QpPartGoes DEF DropQpPart
      <4>2. live \in [Conns -> SUBSET Parts] /\ \A x : live[c] \ {x} \in SUBSET Parts
        BY DEF TypeOK
      <4>3. QED
        BY <4>1, <4>2, ExceptType
    <3>2. QED
      BY <2>3, <3>1 DEF TypeOK, DropQpPart, cardVars, appVars
  <2>4. QED
    BY <1>4, <2>1, <2>2, <2>3 DEF DropStep
<1>5. ASSUME NEW c \in Conns, CardStep(c) PROVE TypeOK'
  <2>1. /\ card' \in [Conns -> {"ready", "error"}]
        /\ cq' \in [Conns -> Seq(Completion)]
        /\ sends' \in [Conns -> 0..MaxSends]
        /\ rqe' \in [Conns -> 0..Rqe]
    <3>1. CASE Fail(c)
      BY <3>1, FailType
    <3>2. CASE Arrive(c) /\ ~Fail(c)
      <4>1. [kind |-> "recv", ok |-> TRUE] \in Completion
        BY DEF Completion
      <4>2. cq \in [Conns -> Seq(Completion)]
            /\ Append(cq[c], [kind |-> "recv", ok |-> TRUE]) \in Seq(Completion)
        BY <4>1 DEF TypeOK
      <4>3. cq' = [cq EXCEPT ![c] = Append(cq[c], [kind |-> "recv", ok |-> TRUE])]
        BY <3>2 DEF Arrive
      <4>4. cq' \in [Conns -> Seq(Completion)]
        BY <4>2, <4>3, ExceptType
      <4>5. rqe' = [rqe EXCEPT ![c] = @ - 1] /\ rqe[c] > 0 /\ UNCHANGED <<card, sends>>
        BY <3>2 DEF Arrive
      <4>6. QED
        BY <4>4, <4>5 DEF TypeOK
    <3>3. CASE Execute(c) /\ ~Fail(c)
      <4>1. [kind |-> "send", ok |-> TRUE] \in Completion
        BY DEF Completion
      <4>2. cq \in [Conns -> Seq(Completion)]
            /\ Append(cq[c], [kind |-> "send", ok |-> TRUE]) \in Seq(Completion)
        BY <4>1 DEF TypeOK
      <4>3. cq' = [cq EXCEPT ![c] = Append(cq[c], [kind |-> "send", ok |-> TRUE])]
        BY <3>3 DEF Execute
      <4>4. cq' \in [Conns -> Seq(Completion)]
        BY <4>2, <4>3, ExceptType
      <4>5. sends' = [sends EXCEPT ![c] = @ - 1] /\ sends[c] > 0 /\ UNCHANGED <<card, rqe>>
        BY <3>3 DEF Execute
      <4>6. QED
        BY <4>4, <4>5 DEF TypeOK
    <3>4. QED
      BY <1>5, <3>1, <3>2, <3>3 DEF CardStep
  <2>2. UNCHANGED <<appVars, live, qpRefs, daemon>>
    BY <1>5 DEF CardStep, Arrive, Execute
  <2>3. QED
    BY <2>1, <2>2 DEF TypeOK, appVars
<1>6. ASSUME NEW c \in Conns, Poll(c) PROVE TypeOK'
  <2>1. cq[c] \in Seq(Completion) /\ cq[c] # <<>>
    BY <1>6 DEF TypeOK, Poll
  <2>2. Tail(cq[c]) \in Seq(Completion)
    BY <2>1
  <2>3. /\ cq' \in [Conns -> Seq(Completion)]
        /\ rqe' \in [Conns -> 0..Rqe]
        /\ daemon' \in [Conns -> {"none", "polling", "handing", "ended"}]
        /\ crashed' \in BOOLEAN
    <3>1. CASE PollMessage(c)
      <4>1. Unpolled(Tail(cq[c]), "recv") \in Nat
        BY <2>2, UnpolledType
      <4>2. Tail(cq[c]) \o Many(1, "recv") \in Seq(Completion)
        BY <2>2, ManyType
      <4>3. cq' \in [Conns -> Seq(Completion)]
        BY <2>2, <3>1, <4>2 DEF TypeOK, PollMessage
      <4>4. rqe' \in [Conns -> 0..Rqe]
        BY <3>1, <4>1 DEF TypeOK, PollMessage
      <4>5. QED
        BY <3>1, <4>3, <4>4 DEF TypeOK, PollMessage
    <3>2. CASE PollFlag(c)
      BY <2>2, <3>2 DEF TypeOK, PollFlag
    <3>3. CASE PollOther(c)
      BY <2>2, <3>3 DEF TypeOK, PollOther
    <3>4. QED
      BY <1>6, <3>1, <3>2, <3>3 DEF Poll
  <2>4. UNCHANGED <<device, runner, phase, refs, live, qpRefs, card, sends>>
    BY <1>6 DEF Poll
  <2>5. QED
    BY <2>3, <2>4 DEF TypeOK
<1>7. ASSUME NEW c \in Conns, HandOn(c) PROVE TypeOK'
  <2>1. daemon' \in [Conns -> {"none", "polling", "handing", "ended"}]
        /\ qpRefs' \in [Conns -> SUBSET {"conn", "daemon", "app"}]
    <3>1. CASE "rx" \in live[c]
      BY <1>7, <3>1 DEF TypeOK, HandOn
    <3>2. CASE "rx" \notin live[c]
      <4>1. qpRefs \in [Conns -> SUBSET {"conn", "daemon", "app"}]
            /\ qpRefs[c] \ {"daemon"} \in SUBSET {"conn", "daemon", "app"}
        BY DEF TypeOK
      <4>2. /\ qpRefs' = [qpRefs EXCEPT ![c] = qpRefs[c] \ {"daemon"}]
            /\ daemon' = [daemon EXCEPT ![c] = "ended"]
        BY <1>7, <3>2 DEF HandOn
      <4>3. daemon' \in [Conns -> {"none", "polling", "handing", "ended"}]
        BY <4>2 DEF TypeOK
      <4>4. qpRefs' \in [Conns -> SUBSET {"conn", "daemon", "app"}]
        BY <4>1, <4>2, ExceptType
      <4>5. QED
        BY <4>3, <4>4
    <3>3. QED
      BY <3>1, <3>2
  <2>2. UNCHANGED <<appVars, live, cardVars>>
    BY <1>7 DEF HandOn
  <2>3. QED
    BY <2>1, <2>2 DEF TypeOK, cardVars, appVars
<1>8. ASSUME NEW c \in Conns, PollFails(c) PROVE TypeOK'
  BY <1>8 DEF TypeOK, PollFails, cardVars, appVars
<1>9. CASE RunEnds
  BY <1>9 DEF TypeOK, RunEnds, cardVars
<1>10. CASE CloseDevice
  BY <1>10 DEF TypeOK, CloseDevice, cardVars
<1>11. QED
  BY <1>1, <1>2, <1>3, <1>4, <1>5, <1>6, <1>7, <1>8, <1>9, <1>10
     DEF Next, DaemonStep

(* Every state is well typed: in particular the receive queue never holds  *)
(* more than DEFAULT_RQE_COUNT requests, also when an error flushes it     *)
(* while the daemon posts on (daemon.rs: polling; qp.rs: post_null_recv).  *)
THEOREM TypeCorrect == Spec => []TypeOK
BY TypeInit, TypeNext, PTL DEF Spec

-----------------------------------------------------------------------------
(* Lives and parts.  A step of one connection leaves the others alone.     *)
LEMMA OthersLive ==
  ASSUME NEW c \in Conns, NEW d \in Conns, HoldersKnown(d), PartsKept(d),
         /\ phase'[d] = phase[d] /\ refs'[d] = refs[d] /\ live'[d] = live[d]
         /\ qpRefs'[d] = qpRefs[d] /\ daemon'[d] = daemon[d]
  PROVE  HoldersKnown(d)' /\ PartsKept(d)'
BY DEF HoldersKnown, PartsKept

LEMMA LifeInit == Init => LifeInv
BY DEF Init, LifeInv, HoldersKnown, PartsKept, RegionsBacked, ClosedLast

(* The invariant, and a step of one connection that keeps it.  In a step   *)
(* of c the invariant is needed for c only, and of the device that what    *)
(* rests on it comes only while it is open.                                *)
LEMMA LifeStep ==
  ASSUME TypeOK, LifeInv, NEW c \in Conns,
         \A d \in Conns \ {c} :
           /\ phase'[d] = phase[d] /\ refs'[d] = refs[d] /\ live'[d] = live[d]
           /\ qpRefs'[d] = qpRefs[d] /\ daemon'[d] = daemon[d],
         device' = device,
         runner' => runner,
         live'[c] \intersect {"pd", "cq"} # {} => live[c] \intersect {"pd", "cq"} # {} \/ runner,
         HoldersKnown(c)', PartsKept(c)',
         "recvMr" \in live'[c] => "recvMem" \in live'[c],
         "sendMr" \in live'[c] => "sendMem" \in live'[c]
  PROVE  LifeInv'
<1>1. ASSUME NEW d \in Conns PROVE HoldersKnown(d)' /\ PartsKept(d)'
  <2>1. CASE d = c
    BY <2>1
  <2>2. CASE d # c
    BY <2>2, OthersLive DEF LifeInv
  <2>3. QED
    BY <2>1, <2>2
<1>2. RegionsBacked'
  <2>1. ASSUME NEW d \in Conns
        PROVE  /\ "recvMr" \in live'[d] => "recvMem" \in live'[d]
               /\ "sendMr" \in live'[d] => "sendMem" \in live'[d]
    BY DEF LifeInv, RegionsBacked
  <2>2. QED
    BY <2>1 DEF RegionsBacked
<1>3. ClosedLast'
  <2>1. ASSUME NEW d \in Conns, device = "closed"
        PROVE  ~runner' /\ live'[d] \intersect {"pd", "cq"} = {}
    BY <2>1 DEF LifeInv, ClosedLast
  <2>2. ASSUME device = "closed" PROVE ~runner'
    BY <2>2 DEF LifeInv, ClosedLast
  <2>3. QED
    BY <2>1, <2>2 DEF ClosedLast
<1>4. QED
  BY <1>1, <1>2, <1>3 DEF LifeInv

(* A step of a connection keeps the invariant: what it does to that        *)
(* connection, and that it leaves the others alone.                        *)
LEMMA LifeSetup ==
  ASSUME TypeOK, LifeInv, NEW c \in Conns, SetupStep(c)
  PROVE  LifeInv'
<1> HoldersKnown(c) /\ PartsKept(c) /\ RegionsBacked
  BY DEF LifeInv
<1>1. CASE NewQp(c)
  <2>1. /\ \A d \in Conns \ {c} :
             /\ phase'[d] = phase[d] /\ refs'[d] = refs[d] /\ live'[d] = live[d]
             /\ qpRefs'[d] = qpRefs[d] /\ daemon'[d] = daemon[d]
        /\ device' = device
        /\ runner' => runner
    BY <1>1 DEF TypeOK, NewQp, cardVars
  <2>2. /\ live'[c] = {"pd", "cq", "qp"} /\ qpRefs'[c] = {"conn"} /\ phase'[c] = "pair"
          /\ refs'[c] = refs[c] /\ daemon'[c] = daemon[c] /\ phase[c] = "none" /\ runner
    BY <1>1 DEF TypeOK, NewQp
  <2>3. HoldersKnown(c)' /\ PartsKept(c)'
    BY <2>2 DEF HoldersKnown, PartsKept, QpPartSet, ConnPartSet
  <2>4. QED
    BY <2>1, <2>2, <2>3, LifeStep DEF RegionsBacked
<1>2. CASE NewRecvBuffer(c)
  <2>1. /\ \A d \in Conns \ {c} :
             /\ phase'[d] = phase[d] /\ refs'[d] = refs[d] /\ live'[d] = live[d]
             /\ qpRefs'[d] = qpRefs[d] /\ daemon'[d] = daemon[d]
        /\ device' = device
        /\ runner' => runner
    BY <1>2 DEF TypeOK, NewRecvBuffer, cardVars
  <2>2. /\ live'[c] = live[c] \union {"rx", "recvMr", "recvMem"} /\ qpRefs'[c] = qpRefs[c]
          /\ phase[c] = "pair" /\ phase'[c] = "buffer" /\ refs'[c] = refs[c]
          /\ daemon'[c] = daemon[c]
    BY <1>2 DEF TypeOK, NewRecvBuffer
  <2>3. HoldersKnown(c)' /\ PartsKept(c)'
    BY <2>2 DEF HoldersKnown, PartsKept, QpPartSet, ConnPartSet
  <2>4. QED
    BY <2>1, <2>2, <2>3, LifeStep DEF RegionsBacked
<1>3. CASE ExchangePanics(c)
  <2>1. /\ \A d \in Conns \ {c} :
             /\ phase'[d] = phase[d] /\ refs'[d] = refs[d] /\ live'[d] = live[d]
             /\ qpRefs'[d] = qpRefs[d] /\ daemon'[d] = daemon[d]
        /\ device' = device
        /\ runner' => runner
    BY <1>3 DEF TypeOK, ExchangePanics, cardVars
  <2>2. /\ live'[c] = live[c] /\ qpRefs'[c] = qpRefs[c] /\ phase[c] = "buffer"
          /\ phase'[c] = "dropping" /\ refs'[c] = refs[c] /\ daemon'[c] = daemon[c]
    BY <1>3 DEF TypeOK, ExchangePanics
  <2>3. HoldersKnown(c)' /\ PartsKept(c)'
    BY <2>2 DEF HoldersKnown, PartsKept, QpPartSet, ConnPartSet
  <2>4. QED
    BY <2>1, <2>2, <2>3, LifeStep DEF RegionsBacked
<1>4. CASE NewConn(c)
  <2>1. /\ \A d \in Conns \ {c} :
             /\ phase'[d] = phase[d] /\ refs'[d] = refs[d] /\ live'[d] = live[d]
             /\ qpRefs'[d] = qpRefs[d] /\ daemon'[d] = daemon[d]
        /\ device' = device
        /\ runner' => runner
    BY <1>4 DEF TypeOK, NewConn, cardVars
  <2>2. /\ live'[c] = live[c] \union {"sendMr", "sendMem"} /\ phase[c] = "buffer"
          /\ qpRefs'[c] = qpRefs[c] \union {"daemon"} /\ phase'[c] = "open"
          /\ refs'[c] = 1 /\ daemon'[c] = "polling"
    BY <1>4 DEF TypeOK, NewConn
  <2>3. HoldersKnown(c)' /\ PartsKept(c)'
    BY <2>2 DEF HoldersKnown, PartsKept, QpPartSet, ConnPartSet
  <2>4. QED
    BY <2>1, <2>2, <2>3, LifeStep DEF RegionsBacked
<1>5. QED
  BY <1>1, <1>2, <1>3, <1>4 DEF SetupStep

LEMMA LifeApp ==
  ASSUME TypeOK, LifeInv, NEW c \in Conns, AppStep(c)
  PROVE  LifeInv'
<1> HoldersKnown(c) /\ PartsKept(c) /\ RegionsBacked
  BY DEF LifeInv
<1>1. CASE CloneConn(c)
  <2>1. /\ \A d \in Conns \ {c} :
             /\ phase'[d] = phase[d] /\ refs'[d] = refs[d] /\ live'[d] = live[d]
             /\ qpRefs'[d] = qpRefs[d] /\ daemon'[d] = daemon[d]
        /\ device' = device
        /\ runner' => runner
    BY <1>1 DEF TypeOK, CloneConn, cardVars
  <2>2. /\ refs[c] > 0
        /\ phase'[c] = phase[c] /\ live'[c] = live[c]
        /\ qpRefs'[c] = qpRefs[c] /\ daemon'[c] = daemon[c]
    BY <1>1 DEF TypeOK, CloneConn, cardVars
  <2>3. HoldersKnown(c)' /\ PartsKept(c)'
    BY <2>2, TeardownAssumption DEF TypeOK, HoldersKnown, PartsKept, QpPartSet, ConnPartSet
  <2>4. QED
    BY <2>1, <2>2, <2>3, LifeStep DEF RegionsBacked
<1>2. CASE Send(c)
  <2>1. /\ \A d \in Conns \ {c} :
             /\ phase'[d] = phase[d] /\ refs'[d] = refs[d] /\ live'[d] = live[d]
             /\ qpRefs'[d] = qpRefs[d] /\ daemon'[d] = daemon[d]
        /\ device' = device
        /\ runner' => runner
    BY <1>2 DEF TypeOK, Send, appVars
  <2>2. /\ phase'[c] = phase[c] /\ refs'[c] = refs[c] /\ live'[c] = live[c]
        /\ qpRefs'[c] = qpRefs[c] /\ daemon'[c] = daemon[c]
    BY <1>2 DEF TypeOK, Send, appVars
  <2>3. HoldersKnown(c)' /\ PartsKept(c)'
    BY <2>2, TeardownAssumption DEF TypeOK, HoldersKnown, PartsKept, QpPartSet, ConnPartSet
  <2>4. QED
    BY <2>1, <2>2, <2>3, LifeStep DEF RegionsBacked
<1>3. CASE TakeQp(c)
  <2>1. /\ \A d \in Conns \ {c} :
             /\ phase'[d] = phase[d] /\ refs'[d] = refs[d] /\ live'[d] = live[d]
             /\ qpRefs'[d] = qpRefs[d] /\ daemon'[d] = daemon[d]
        /\ device' = device
        /\ runner' => runner
    BY <1>3 DEF TypeOK, TakeQp, appVars
  <2>2. /\ refs[c] > 0
        /\ phase'[c] = phase[c] /\ refs'[c] = refs[c] /\ live'[c] = live[c]
        /\ qpRefs'[c] = qpRefs[c] \union {"app"} /\ daemon'[c] = daemon[c]
    BY <1>3 DEF TypeOK, TakeQp, appVars
  <2>3. HoldersKnown(c)' /\ PartsKept(c)'
    BY <2>2, TeardownAssumption DEF TypeOK, HoldersKnown, PartsKept, QpPartSet, ConnPartSet
  <2>4. QED
    BY <2>1, <2>2, <2>3, LifeStep DEF RegionsBacked
<1>4. CASE DropQp(c)
  <2>1. /\ \A d \in Conns \ {c} :
             /\ phase'[d] = phase[d] /\ refs'[d] = refs[d] /\ live'[d] = live[d]
             /\ qpRefs'[d] = qpRefs[d] /\ daemon'[d] = daemon[d]
        /\ device' = device
        /\ runner' => runner
    BY <1>4 DEF TypeOK, DropQp, appVars
  <2>2. /\ phase'[c] = phase[c] /\ refs'[c] = refs[c] /\ live'[c] = live[c]
        /\ qpRefs'[c] = qpRefs[c] \ {"app"} /\ daemon'[c] = daemon[c]
    BY <1>4 DEF TypeOK, DropQp, appVars
  <2>3. HoldersKnown(c)' /\ PartsKept(c)'
    BY <2>2, TeardownAssumption DEF TypeOK, HoldersKnown, PartsKept, QpPartSet, ConnPartSet
  <2>4. QED
    BY <2>1, <2>2, <2>3, LifeStep DEF RegionsBacked
<1>5. CASE DropConn(c)
  <2>1. /\ \A d \in Conns \ {c} :
             /\ phase'[d] = phase[d] /\ refs'[d] = refs[d] /\ live'[d] = live[d]
             /\ qpRefs'[d] = qpRefs[d] /\ daemon'[d] = daemon[d]
        /\ device' = device
        /\ runner' => runner
    BY <1>5 DEF TypeOK, DropConn, cardVars
  <2>2. /\ refs[c] > 0 /\ refs'[c] = refs[c] - 1 /\ refs[c] \in Nat
        /\ phase'[c] = IF refs[c] = 1 THEN "dropping" ELSE phase[c]
        /\ live'[c] = live[c] /\ qpRefs'[c] = qpRefs[c] /\ daemon'[c] = daemon[c]
    BY <1>5 DEF TypeOK, DropConn, cardVars
  <2>3. HoldersKnown(c)' /\ PartsKept(c)'
    BY <2>2, TeardownAssumption DEF TypeOK, HoldersKnown, PartsKept, QpPartSet, ConnPartSet
  <2>4. QED
    BY <2>1, <2>2, <2>3, LifeStep DEF RegionsBacked
<1>6. QED
  BY <1>1, <1>2, <1>3, <1>4, <1>5 DEF AppStep

LEMMA LifeDrop ==
  ASSUME TypeOK, LifeInv, NEW c \in Conns, DropStep(c)
  PROVE  LifeInv'
<1> HoldersKnown(c) /\ PartsKept(c) /\ RegionsBacked
  BY DEF LifeInv
<1>1. CASE DropPart(c)
  <2>1. /\ \A d \in Conns \ {c} :
             /\ phase'[d] = phase[d] /\ refs'[d] = refs[d] /\ live'[d] = live[d]
             /\ qpRefs'[d] = qpRefs[d] /\ daemon'[d] = daemon[d]
        /\ device' = device
        /\ runner' => runner
    BY <1>1, ConnPartGoes DEF TypeOK, DropPart, appVars
  <2>2. /\ phase[c] = "dropping"
        /\ phase'[c] = phase[c] /\ refs'[c] = refs[c]
        /\ qpRefs'[c] = qpRefs[c] /\ daemon'[c] = daemon[c]
        /\ \/ live'[c] = live[c] \ {"rx"} \/ live'[c] = live[c] \ {"recvMr"}
           \/ live'[c] = live[c] \ {"recvMem"} /\ "recvMr" \notin live[c]
           \/ live'[c] = live[c] \ {"sendMr"}
           \/ live'[c] = live[c] \ {"sendMem"} /\ "sendMr" \notin live[c]
    BY <1>1, ConnPartGoes DEF TypeOK, DropPart, appVars
  <2>3. HoldersKnown(c)' /\ PartsKept(c)'
    BY <2>2, TeardownAssumption DEF TypeOK, HoldersKnown, PartsKept, QpPartSet, ConnPartSet
  <2>4. QED
    BY <2>1, <2>2, <2>3, LifeStep DEF RegionsBacked
<1>2. CASE Detach(c)
  <2>1. /\ \A d \in Conns \ {c} :
             /\ phase'[d] = phase[d] /\ refs'[d] = refs[d] /\ live'[d] = live[d]
             /\ qpRefs'[d] = qpRefs[d] /\ daemon'[d] = daemon[d]
        /\ device' = device
        /\ runner' => runner
    BY <1>2 DEF TypeOK, Detach
  <2>2. /\ phase'[c] = "dropped"
        /\ refs'[c] = refs[c] /\ live'[c] = live[c] /\ daemon'[c] = daemon[c]
        /\ qpRefs'[c] = qpRefs[c] \ {"conn"}
        /\ \A i \in DOMAIN ConnParts : ConnParts[i] \notin live[c]
        /\ phase[c] = "dropping"
    BY <1>2 DEF TypeOK, Detach
  <2> live[c] \intersect ConnPartSet = {}
    BY <2>2, ConnPartsAre
  <2>3. HoldersKnown(c)' /\ PartsKept(c)'
    BY <2>2 DEF HoldersKnown, PartsKept
  <2>4. QED
    BY <2>1, <2>2, <2>3, LifeStep DEF RegionsBacked
<1>3. CASE DropQpPart(c)
  <2>1. /\ \A d \in Conns \ {c} :
             /\ phase'[d] = phase[d] /\ refs'[d] = refs[d] /\ live'[d] = live[d]
             /\ qpRefs'[d] = qpRefs[d] /\ daemon'[d] = daemon[d]
        /\ device' = device
        /\ runner' => runner
    BY <1>3, QpPartGoes DEF TypeOK, DropQpPart, appVars
  <2>2. /\ qpRefs[c] = {}
        /\ phase'[c] = phase[c] /\ refs'[c] = refs[c]
        /\ qpRefs'[c] = qpRefs[c] /\ daemon'[c] = daemon[c]
        /\ \/ live'[c] = live[c] \ {"qp"}
           \/ live'[c] = live[c] \ {"pd"} /\ "qp" \notin live[c]
           \/ live'[c] = live[c] \ {"cq"} /\ "qp" \notin live[c] /\ "pd" \notin live[c]
    BY <1>3, QpPartGoes DEF TypeOK, DropQpPart, appVars
  <2>3. HoldersKnown(c)' /\ PartsKept(c)'
    BY <2>2, TeardownAssumption DEF TypeOK, HoldersKnown, PartsKept, QpPartSet, ConnPartSet
  <2>4. QED
    BY <2>1, <2>2, <2>3, LifeStep DEF RegionsBacked
<1>4. QED
  BY <1>1, <1>2, <1>3 DEF DropStep

LEMMA LifeCard ==
  ASSUME TypeOK, LifeInv, NEW c \in Conns, CardStep(c)
  PROVE  LifeInv'
<1> HoldersKnown(c) /\ PartsKept(c) /\ RegionsBacked
  BY DEF LifeInv
<1>1. UNCHANGED <<appVars, live, qpRefs, daemon>>
  BY DEF CardStep, Arrive, Execute
<1>2. QED
  BY <1>1 DEF appVars, LifeInv, HoldersKnown, PartsKept, RegionsBacked, ClosedLast

LEMMA LifeDaemon ==
  ASSUME TypeOK, LifeInv, NEW c \in Conns, DaemonStep(c) \/ PollFails(c)
  PROVE  LifeInv'
<1> HoldersKnown(c) /\ PartsKept(c) /\ RegionsBacked
  BY DEF LifeInv
<1>1. CASE Poll(c)
  <2>1. /\ \A d \in Conns \ {c} :
             /\ phase'[d] = phase[d] /\ refs'[d] = refs[d] /\ live'[d] = live[d]
             /\ qpRefs'[d] = qpRefs[d] /\ daemon'[d] = daemon[d]
        /\ device' = device
        /\ runner' => runner
    BY <1>1 DEF TypeOK, Poll, PollMessage, PollFlag, PollOther
  <2>2. /\ daemon[c] = "polling" /\ (daemon'[c] = "polling" \/ daemon'[c] = "handing")
        /\ phase'[c] = phase[c] /\ refs'[c] = refs[c]
        /\ live'[c] = live[c] /\ qpRefs'[c] = qpRefs[c]
    BY <1>1 DEF TypeOK, Poll, PollMessage, PollFlag, PollOther
  <2>3. HoldersKnown(c)' /\ PartsKept(c)'
    BY <2>2, TeardownAssumption DEF TypeOK, HoldersKnown, PartsKept, QpPartSet, ConnPartSet
  <2>4. QED
    BY <2>1, <2>2, <2>3, LifeStep DEF RegionsBacked
<1>2. CASE HandOn(c)
  <2>1. /\ \A d \in Conns \ {c} :
             /\ phase'[d] = phase[d] /\ refs'[d] = refs[d] /\ live'[d] = live[d]
             /\ qpRefs'[d] = qpRefs[d] /\ daemon'[d] = daemon[d]
        /\ device' = device
        /\ runner' => runner
    BY <1>2 DEF TypeOK, HandOn, appVars
  <2>2. /\ phase'[c] = phase[c] /\ refs'[c] = refs[c] /\ live'[c] = live[c] /\ daemon[c] = "handing"
        /\ \/ daemon'[c] = "polling" /\ qpRefs'[c] = qpRefs[c]
           \/ daemon'[c] = "ended" /\ qpRefs'[c] = qpRefs[c] \ {"daemon"}
    BY <1>2 DEF TypeOK, HandOn, appVars
  <2>3. HoldersKnown(c)' /\ PartsKept(c)'
    BY <2>2, TeardownAssumption DEF TypeOK, HoldersKnown, PartsKept, QpPartSet, ConnPartSet
  <2>4. QED
    BY <2>1, <2>2, <2>3, LifeStep DEF RegionsBacked
<1>3. CASE PollFails(c)
  <2>1. /\ \A d \in Conns \ {c} :
             /\ phase'[d] = phase[d] /\ refs'[d] = refs[d] /\ live'[d] = live[d]
             /\ qpRefs'[d] = qpRefs[d] /\ daemon'[d] = daemon[d]
        /\ device' = device
        /\ runner' => runner
    BY <1>3 DEF TypeOK, PollFails, appVars
  <2>2. /\ phase'[c] = phase[c] /\ refs'[c] = refs[c] /\ live'[c] = live[c] /\ daemon[c] = "polling"
        /\ daemon'[c] = "ended" /\ qpRefs'[c] = qpRefs[c] \ {"daemon"}
    BY <1>3 DEF TypeOK, PollFails, appVars
  <2>3. HoldersKnown(c)' /\ PartsKept(c)'
    BY <2>2, TeardownAssumption DEF TypeOK, HoldersKnown, PartsKept, QpPartSet, ConnPartSet
  <2>4. QED
    BY <2>1, <2>2, <2>3, LifeStep DEF RegionsBacked
<1>4. QED
  BY <1>1, <1>2, <1>3 DEF DaemonStep

LEMMA LifeNext == TypeOK /\ LifeInv /\ [Next]_vars => LifeInv'
<1> SUFFICES ASSUME TypeOK, LifeInv, [Next]_vars PROVE LifeInv'
  OBVIOUS
<1>1. CASE UNCHANGED vars
  BY <1>1 DEF vars, LifeInv, HoldersKnown, PartsKept, RegionsBacked, ClosedLast
<1>2. CASE RunEnds
  BY <1>2 DEF RunEnds, cardVars, LifeInv, HoldersKnown, PartsKept, RegionsBacked, ClosedLast
<1>3. CASE CloseDevice
  BY <1>3 DEF CloseDevice, cardVars, LifeInv, HoldersKnown, PartsKept, RegionsBacked, ClosedLast
<1>4. QED
  BY <1>1, <1>2, <1>3, LifeSetup, LifeApp, LifeDrop, LifeCard, LifeDaemon DEF Next

LEMMA LifeAlways == Spec => [](TypeOK /\ LifeInv)
<1>1. Init => TypeOK /\ LifeInv
  BY TypeInit, LifeInit
<1>2. TypeOK /\ LifeInv /\ [Next]_vars => TypeOK' /\ LifeInv'
  BY TypeNext, LifeNext
<1>3. QED
  BY <1>1, <1>2, PTL DEF Spec

-----------------------------------------------------------------------------
(* Whoever holds the queue pair keeps it, and of what a process has of the *)
(* device the later parts are never missing under the earlier ones         *)
(* (conn.rs, qp.rs, cq.rs, pd.rs, device.rs, mr.rs: the Drops).            *)
THEOREM LifeKept == Spec => []LifeInv
BY LifeAlways, PTL

(* A buffer is registered only while it is allocated, whatever is under    *)
(* way: RecvBuffer and SendBuffer deregister before they free (mr.rs).     *)
THEOREM RegistrationsBacked == Spec => []RegionsBacked
<1>1. LifeInv => RegionsBacked
  BY DEF LifeInv
<1>2. QED
  BY <1>1, LifeAlways, PTL

(* Nothing is given back to the device before what rests on it (conn.rs,   *)
(* mr.rs, qp.rs: the order of the fields and the Drop implementations),    *)
(* for any number of connections of one device.                            *)
THEOREM GoInOrder == Spec => []DropsInOrder
<1>1. TypeOK /\ LifeInv => DropsInOrder
  <2> SUFFICES ASSUME TypeOK, LifeInv, NEW c \in Conns
               PROVE  /\ live[c] \intersect {"qp", "recvMr", "sendMr"} # {} => "pd" \in live[c]
                      /\ "qp" \in live[c] => "cq" \in live[c]
                      /\ live[c] # {} => device = "open" \/ live[c] \subseteq {"rx", "recvMem", "sendMem"}
    BY DEF DropsInOrder
  <2>1. HoldersKnown(c) /\ PartsKept(c) /\ ClosedLast
    BY DEF LifeInv
  <2>2. live[c] \intersect ConnPartSet # {} => "pd" \in live[c]
    BY <2>1 DEF HoldersKnown, PartsKept, QpPartSet
  <2>3. live[c] \intersect {"qp", "recvMr", "sendMr"} # {} => "pd" \in live[c]
    BY <2>1, <2>2 DEF PartsKept, ConnPartSet
  <2>4. device = "open" \/ live[c] \intersect {"pd", "cq"} = {}
    BY <2>1 DEF ClosedLast, TypeOK
  <2>5. live[c] \subseteq ConnPartSet \union QpPartSet
    BY PartsAre DEF TypeOK
  <2>6. QED
    BY <2>1, <2>3, <2>4, <2>5 DEF PartsKept, ConnPartSet, QpPartSet
<1>2. QED
  BY <1>1, LifeAlways, PTL

(* The daemon, which outlives its Conn, and an application that has taken  *)
(* the queue pair out of it never use what is destroyed: the Arc<QP> of    *)
(* each keeps queue pair, completion queue and domain (conn.rs: Conn::new, *)
(* qp; daemon.rs: polling).                                                *)
THEOREM UsersKeepQp == Spec => []UsersHaveQp
<1>1. LifeInv => UsersHaveQp
  BY DEF LifeInv, HoldersKnown, PartsKept, QpPartSet, UsersHaveQp
<1>2. QED
  BY <1>1, LifeAlways, PTL

===============================================================================
