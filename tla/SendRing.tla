------------------------------- MODULE SendRing -------------------------------
(***************************************************************************)
(* The send buffer of one endpoint (SendBuffer, src/src/types/mr.rs).      *)
(*                                                                         *)
(* Every send_msg allocates a section of it, copies the message there and  *)
(* posts a work request that makes the card read it.  With a section goes  *)
(* a flag, an Arc<AtomicBool> that is true while the section is in use:    *)
(* its pointer is the work request's wr_id, and the polling daemon clears  *)
(* it when the request completes.  A background task takes the sections in *)
(* the order they were allocated, waits for the flag of each, and moves    *)
(* done past it.  Requests are posted under another lock than the one      *)
(* sections are allocated under, so they complete in another order.        *)
(*                                                                         *)
(* Addresses are offsets from the start of the buffer: left = 0.           *)
(***************************************************************************)
EXTENDS Naturals, Sequences

CONSTANTS
  Cap,        \* DEFAULT_SEND_BUFFER_SIZE: right - left
  Lens,       \* the lengths of the messages
  QueueCap,   \* capacity of to_release: 2 * MAX_SENDING
  Flags,      \* addresses of flags; QueueCap + 2 are ever alive
  Faults      \* "post": ibv_post_send may fail; "cancel": the future of a
              \* send_msg may be dropped where it waits

ASSUME SendRingAssumption ==
  /\ Cap \in Nat
  /\ Lens \subseteq Nat
  /\ QueueCap \in Nat \ {0}
  /\ Faults \subseteq {"post", "cancel"}

VARIABLES
  index,      \* SendBuffer.index, a number behind a Mutex
  done,       \* SendBuffer.done
  pc,         \* the task that holds the Mutex: where it stands in alloc
  want,       \* the length it asks for, 0 when there is none
  fresh,      \* <<the section it is about to push>>, or <<>>
  toRelease,  \* the channel to the release task, MyQueue
  popped,     \* <<what the release task took last>>, or <<>>
  using,      \* the flags that are true
  owned,      \* sections send_msg tasks have and copy into, not posted yet
  posted      \* sections of the requests under way, in the order posted

allocVars == <<index, pc, want, fresh>>
vars == <<index, done, pc, want, fresh, toRelease, popped, using, owned, posted>>

left  == 0
right == Cap

(* A section with its flag; the address is not sent through the channel,   *)
(* it is remembered for the properties.                                    *)
Entry   == [flag : Flags, addr : Nat, len : Lens \union {0}]
entries == popped \o toRelease \o fresh
alive   == {entries[i].flag : i \in DOMAIN entries} \union using
inUse   == owned \union {posted[i] : i \in DOMAIN posted}
                 \union {fresh[i] : i \in DOMAIN fresh}

Overlap(s, t) == s.addr < t.addr + t.len /\ t.addr < s.addr + s.len

-----------------------------------------------------------------------------
Init ==
  /\ index = left
  /\ done = left
  /\ pc = "idle"
  /\ want = 0
  /\ fresh = <<>>
  /\ toRelease = <<>>
  /\ popped = <<>>
  /\ using = {}
  /\ owned = {}
  /\ posted = <<>>

(* Slip: the wrapping branch moves index before it waits.                  *)
AllocBeginMovesIndex(l) ==
  /\ pc = "idle"
  /\ want' = l
  /\ \/ index + l > right  /\ pc' = "wrapSpace" /\ index' = left
     \/ index + l <= right /\ pc' = "fitSpace"  /\ UNCHANGED index
  /\ UNCHANGED <<done, fresh, toRelease, popped, using, owned, posted>>

(* alloc: the Mutex is taken and the branch chosen, once, before waiting.  *)
AllocBegin(l) ==
  /\ pc = "idle"
  /\ want' = l
  /\ pc' = IF index + l > right THEN "wrapSpace" ELSE "fitSpace"
  /\ UNCHANGED <<index, done, fresh, toRelease, popped, using, owned, posted>>

(* The section starts at a; add_to_release makes its flag, set to true.    *)
Grant(a) ==
  /\ index' = a + want
  /\ \E f \in Flags \ alive :
       /\ fresh' = <<[flag |-> f, addr |-> a, len |-> want]>>
       /\ using' = using \union {f}
  /\ pc' = "push"
  /\ want' = 0
  /\ UNCHANGED <<done, toRelease, popped, owned, posted>>

Goto(p) ==
  /\ pc' = p
  /\ UNCHANGED <<index, done, want, fresh, toRelease, popped, using, owned, posted>>

(* The two operands of each wait condition load done one after the other;  *)
(* the release task may move done in between.                              *)
WrapSpaceLoad ==
  /\ pc = "wrapSpace"
  /\ left + want < done
  /\ Goto("wrapOrder")

WrapOrderLoad ==
  /\ pc = "wrapOrder"
  /\ \/ done > index  /\ Goto("wrapSpace")
     \/ done <= index /\ Grant(left)

FitSpaceLoad ==
  /\ pc = "fitSpace"
  /\ \/ index + want >= done /\ Goto("fitOrder")
     \/ index + want < done  /\ Grant(index)

(* Slip: an empty buffer, done = index, is taken for a full one.           *)
FitOrderLoadEmptyIsFull ==
  /\ pc = "fitOrder"
  /\ \/ done >= index /\ Goto("fitSpace")
     \/ done < index  /\ Grant(index)

FitOrderLoad ==
  /\ pc = "fitOrder"
  /\ \/ done > index  /\ Goto("fitSpace")
     \/ done <= index /\ Grant(index)

(* MyQueue::push waits while the channel is full, the Mutex still held.    *)
Push ==
  /\ pc = "push"
  /\ Len(toRelease) < QueueCap
  /\ toRelease' = toRelease \o fresh
  /\ owned' = owned \union {fresh[1]}
  /\ fresh' = <<>>
  /\ pc' = "idle"
  /\ UNCHANGED <<index, done, want, popped, using, posted>>

(* The future is dropped in alloc, which gives the Mutex back.  In push    *)
(* the section and its flag are gone, but index has moved past it, and the *)
(* release task will not hear of it.                                       *)
CancelAlloc ==
  /\ "cancel" \in Faults
  /\ pc # "idle"
  /\ pc' = "idle"
  /\ want' = 0
  /\ using' = using \ {fresh[i].flag : i \in DOMAIN fresh}
  /\ fresh' = <<>>
  /\ UNCHANGED <<index, done, toRelease, popped, owned, posted>>

-----------------------------------------------------------------------------
(* send_msg: the tasks that have a section post in the order they get      *)
(* Conn.lock, which is not the order they were given sections in.          *)
Post(e) ==
  /\ e \in owned
  /\ owned' = owned \ {e}
  /\ posted' = Append(posted, e)
  /\ UNCHANGED <<allocVars, done, toRelease, popped, using>>

(* An error of ibv_post_send is logged by write_with_imm, and send_msg     *)
(* returns Ok; or the future is dropped while it waits for Conn.lock, the  *)
(* window or the remote buffer.  No completion will ever clear the flag.   *)
Abandon(e) ==
  /\ Faults # {}
  /\ e \in owned
  /\ owned' = owned \ {e}
  /\ UNCHANGED <<allocVars, done, toRelease, popped, using, posted>>

(* The daemon polls the completion of the oldest request: Arc::from_raw of *)
(* the wr_id, and the flag becomes false.                                  *)
Complete ==
  /\ posted # <<>>
  /\ using' = using \ {Head(posted).flag}
  /\ posted' = Tail(posted)
  /\ UNCHANGED <<allocVars, done, toRelease, popped, owned>>

-----------------------------------------------------------------------------
(* The release task: pop, wait for the flag, move done.                    *)
Pop ==
  /\ popped = <<>>
  /\ toRelease # <<>>
  /\ popped' = <<Head(toRelease)>>
  /\ toRelease' = Tail(toRelease)
  /\ UNCHANGED <<allocVars, done, using, owned, posted>>

(* Slips: wrap-around forgotten, or one byte early.                        *)
AdvanceNoWrap(n)     == done + n
AdvanceWrapsEarly(n) == IF done + n >= right THEN left + n ELSE done + n

Advance(n) == IF done + n > right THEN left + n ELSE done + n

(* Slip: the flag is not waited for.                                       *)
ReleaseDoneUnasked ==
  /\ popped # <<>>
  /\ done' = Advance(popped[1].len)
  /\ popped' = <<>>
  /\ UNCHANGED <<allocVars, toRelease, using, owned, posted>>

ReleaseDone ==
  /\ popped # <<>>
  /\ popped[1].flag \notin using
  /\ done' = Advance(popped[1].len)
  /\ popped' = <<>>
  /\ UNCHANGED <<allocVars, toRelease, using, owned, posted>>

-----------------------------------------------------------------------------
AllocStep == WrapSpaceLoad \/ WrapOrderLoad \/ FitSpaceLoad \/ FitOrderLoad \/ Push

Next ==
  \/ \E l \in Lens : AllocBegin(l)
  \/ AllocStep
  \/ CancelAlloc
  \/ \E e \in owned : Post(e) \/ Abandon(e)
  \/ Complete
  \/ Pop
  \/ ReleaseDone

Spec == Init /\ [][Next]_vars

(* The allocating task and the release task sleep and retry or await; one  *)
(* or another of the tasks that own a section gets Conn.lock; the card and *)
(* the daemon make progress.                                               *)
Fairness ==
  /\ WF_vars(AllocStep)
  /\ WF_vars(\E e \in owned : Post(e))
  /\ WF_vars(Complete)
  /\ WF_vars(Pop)
  /\ WF_vars(ReleaseDone)

FairSpec == Spec /\ Fairness

-----------------------------------------------------------------------------
(* Types of the state.                                                     *)
TypeOK ==
  /\ index \in 0..right
  /\ done \in 0..right
  /\ pc \in {"idle", "wrapSpace", "wrapOrder", "fitSpace", "fitOrder", "push"}
  /\ want \in Lens \union {0}
  /\ fresh \in Seq(Entry) /\ Len(fresh) = IF pc = "push" THEN 1 ELSE 0
  /\ toRelease \in Seq(Entry) /\ Len(toRelease) <= QueueCap
  /\ popped \in Seq(Entry) /\ Len(popped) <= 1
  /\ using \subseteq Flags
  /\ owned \subseteq Entry
  /\ posted \in Seq(Entry)

(* The sections that tasks copy into or the card may read are pairwise     *)
(* disjoint: no message is copied over one that is not sent, although      *)
(* requests complete in another order than sections were given out, and    *)
(* only flags and lengths tell the release task what it may give back.     *)
NoOverwriteLocal == \A s, t \in inUse : s # t => ~Overlap(s, t)

(* The release task, which is told only lengths, moves done to the very    *)
(* end of the section it releases: its wrap-around is the one alloc made.  *)
DoneFollowsSections ==
  [][popped # <<>> /\ popped' = <<>>
       => done' = popped[1].addr + popped[1].len]_vars

(* The condition alloc sleeps on, in the branch it is in.                  *)
LacksSpace ==
  \/ pc \in {"wrapSpace", "wrapOrder"} /\ (left + want >= done \/ done > index)
  \/ pc \in {"fitSpace", "fitOrder"} /\ index + want >= done /\ done > index

(* The release task will come to index: moving done past the sections it   *)
(* has and will be sent, by their lengths, ends there.                     *)
StartOf(i) == IF i = 1 THEN done ELSE entries[i - 1].addr + entries[i - 1].len

InStep ==
  /\ \A i \in DOMAIN entries :
       entries[i].addr = IF StartOf(i) + entries[i].len > right THEN left
                                                                ELSE StartOf(i)
  /\ index = StartOf(Len(entries) + 1)

(* Only a send_msg dropped while push waits for the channel puts index and *)
(* done out of step; one dropped in any other place, or whose post fails,  *)
(* does not.                                                               *)
StepKept ==
  [][InStep /\ ~InStep' => pc = "push" /\ pc' = "idle" /\ owned' = owned]_vars

(* While alloc lacks space, some section remains to be released: it never  *)
(* sleeps on a buffer that has been given back whole.                      *)
WaitsOnlyForSections == LacksSpace => entries # <<>>

(* Flags that are true and that no task or request will ever clear.        *)
leaked == using \ {s.flag : s \in inUse}

(* A task that asks for a section gets it, in whatever order requests are  *)
(* posted and complete and however full the channel to the release task    *)
(* is, unless a send_msg was abandoned with its section.                   *)
SectionServed == pc # "idle" ~> pc = "idle" \/ leaked # {} \/ ~InStep

-----------------------------------------------------------------------------
(* The inductive invariant behind the safety properties.                   *)

(* Nobody else moves index while alloc sleeps in the branch it chose.      *)
BranchKept ==
  /\ pc \in {"wrapSpace", "wrapOrder"} => index + want > right
  /\ pc \in {"fitSpace", "fitOrder"} => index + want <= right
  /\ pc = "wrapOrder" => want < right

SectionsFit == \A i \in DOMAIN entries : entries[i].addr + entries[i].len <= right

(* A flag tells one section, and a section in use keeps its flag true and  *)
(* stays with the release task.                                            *)
OneFlagEach ==
  /\ \A i, j \in DOMAIN entries : entries[i].flag = entries[j].flag => i = j
  /\ \A i, j \in DOMAIN posted : posted[i] = posted[j] => i = j
  /\ \A i \in DOMAIN posted : posted[i] \notin owned
  /\ \A i \in DOMAIN fresh : /\ fresh[i] \notin owned
                             /\ \A j \in DOMAIN posted : fresh[i] # posted[j]

UseKnown == \A s \in inUse : s.flag \in using /\ \E i \in DOMAIN entries : entries[i] = s

(* The sections the release task has and will be sent lie between done and *)
(* index, in the order they were given out; where alloc has wrapped around *)
(* those above done come first. Gaps are sections dropped in push.         *)
Above(i) == done <= entries[i].addr
Ahead(i, j) == entries[i].addr + entries[i].len <= entries[j].addr

Layout ==
  /\ \A i \in DOMAIN entries :
       \/ Above(i) /\ (done <= index => entries[i].addr + entries[i].len <= index)
       \/ done > index /\ entries[i].addr + entries[i].len <= index
  /\ \A i, j \in DOMAIN entries : i < j =>
       \/ Above(i) /\ ~Above(j)
       \/ (Above(i) <=> Above(j)) /\ Ahead(i, j)

(* The first load of done in the wrapping branch still tells the truth at  *)
(* the second: done has not wrapped around in between.                     *)
StillBehind == pc = "wrapOrder" => want < done

(* With messages of one length both cursors stand at its multiples.        *)
OneLength == \E l \in Lens : Lens = {l}

OnGrid ==
  /\ \A l \in Lens : /\ \E m \in 0..right : index = m * l
                     /\ \E m \in 0..right : done = m * l
                     /\ \A i \in DOMAIN entries : entries[i].len = l
  /\ pc \in {"wrapSpace", "wrapOrder", "fitSpace", "fitOrder"} => want \in Lens

(* The channel is full before the buffer is: as many sections as the       *)
(* release task can know of, and one more, fit in.  With the constants of  *)
(* the program, messages of less than 2 KiB.                               *)
RoomForQueue ==
  \E m \in 0..Cap : (QueueCap + 2) * m <= Cap /\ \A l \in Lens : l <= m

(* No send_msg is dropped where it waits.                                  *)
NoCancel == "cancel" \notin Faults

(* Where the race of the two loads of done cannot happen.                  *)
Orderly == OneLength \/ (RoomForQueue /\ NoCancel)

(* What alloc, the tasks that post and the release task keep between them: *)
(* sections fit and are told apart by their flags; those of one length, or *)
(* of any where the channel is full before the buffer, lie in order from   *)
(* done to index; without drops done will come to index.                   *)
SendInv ==
  /\ BranchKept
  /\ SectionsFit
  /\ OneFlagEach
  /\ UseKnown
  /\ Orderly => Layout /\ StillBehind
  /\ OneLength => OnGrid
  /\ NoCancel => InStep

===============================================================================
