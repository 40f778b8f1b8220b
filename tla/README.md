# A TLA+ model of ibv

`ibv` is a message library over RDMA: a `Conn` sends and receives byte slices
through write-with-immediate requests into ring buffers, with asynchronous
tokio tasks on both ends. This directory holds a model of its control, TLC
runs that check it on small instances, the abstract specifications it implements,
and TLAPS proofs of the safety properties for every size. Paths below are relative
to the repository's root.

## The system

| part | code | state | operations |
|---|---|---|---|
| remote ring, sending side | `src/types/mr.rs` `RemoteBufManager` | `index`, `done` | `alloc`, `update` |
| remote ring, receiving side | `mr.rs` `RecvBuffer` | `index`, `done`, `released`, channel `rx` | `recv`, `read`, `notify_release` |
| send ring | `mr.rs` `SendBuffer`, `MyQueue` | `index` (Mutex), `done`, channel `to_release`, a flag per section | `alloc`, `add_to_release`, the release task |
| connection | `src/connection/conn.rs` `Conn` | `lock`, `sending`, channel `release` | `send_msg`, `recv_msg`, `release`, `get_release_length` |
| daemon | `src/connection/daemon.rs` `polling` | the completion it hands on | repost, dispatch, clear flag |
| queue pair, completion queue | `src/types/qp.rs`, `wr.rs`, `cq.rs` | in the device | post, poll, state changes |
| set-up | `conn.rs` `connect`, `run`; `server.rs`; `qp.rs` handshake and exchange | position, TCP stream, backlog, channel of Conns | connect, accept, exchange |
| teardown | the `Drop` implementations | who holds which `Arc`, order of fields | drop, detach, panic of the daemon |
| device, domain | `device.rs`, `pd.rs` | shared by `Arc` | create, drop |
| unused | `notify`, `new_ah`, `build_*_wr`, `client.rs` | | |

How they interact. `send_msg` takes a section of the send ring (Mutex of
`SendBuffer`), copies, takes `Conn.lock`, waits for the window (`sending` below
`MAX_SENDING`), takes one release notice from the channel `release`, waits for a
section of the remote ring, and posts. The peer's card consumes a receive
request; its daemon posts a new one and passes length and immediate data through
a channel to `recv_msg`, which opens the window, applies the notice to `done` of
its own remote ring, and lends the slice. The application calls `release`, and
now and then that puts a notice into the channel for the next `send_msg`. The
sender's daemon sees the completion and clears the section's flag, for which the
release task waits.

What is hard here:

* only *lengths* cross the wire. Where a message lies, where `done` goes and
  where the release task moves are computed on each side anew, with a
  wrap-around each;
* wait conditions load an atomic twice while another task moves it;
* sections are given out under one lock and posted under another;
* space and window come back only with traffic of the other direction, and four
  bounded channels or queues can each make somebody wait;
* the window counts messages received, the send queue counts completions, the
  receive queue counts messages the peer has polled: three limits, one counter;
* two sides set up a connection at their own pace, with errors that are logged
  and errors that panic;
* any of the futures may be dropped where it waits, and leaves behind what it had
  done;
* a dropped `Conn` leaves a daemon that polls on and a card that goes on writing,
  and nothing but the order of fields keeps memory, regions and queue pair in order.

Correct means, per part. To the application: a channel that delivers each message
once, in order and unchanged. Remote ring: no write lands on data not yet released,
the two sides compute the same places, `done` never passes what was released, an
`alloc` is served. Send ring: no section is given out while in use, the release
task follows `alloc` exactly, an `alloc` is served. Connection: no queue, channel
or buffer is exceeded and no circle of waiting arises. Set-up: a `Conn` that
exists has a ready peer, and everybody is served. Teardown: nothing is given back
before what rests on it, and nobody uses what is gone.

## Modules

| module | models |
|---|---|
| `MsgChannel` | abstract: the messages of one direction, a queue |
| `AtomicRing` | abstract: the ring of one direction, `alloc` waiting on a single test |
| `RemoteRing` | one receive buffer and the peer's view of it |
| `RingChannel` | one direction from `send_msg` to `recv_msg`: `SendRing` and `RemoteRing` with the bytes of both buffers |
| `RemoteRingInv` | its inductive invariant, in named parts |
| `SendRing` | the send buffer of one endpoint and its release task |
| `Conn` | two endpoints: window, notices, queues, daemons |
| `Setup` | clients, the server's task, the exchange over TCP |
| `Teardown` | what a process holds of the device, its drop, the daemon that outlives it |
| `MC*` | what TLC runs |
| `*_proofs` | theorems about `RemoteRing`, `RingChannel`, `SendRing`, `Conn` (`Conn_proofs`, `ConnSpace_proofs`), `Setup`, `Teardown` |
| `SetInduction` | induction over the naturals with a set, for two of the proofs |

The inductive invariant of a module stands at its end, in named parts, below the
properties it proves (`RemoteRing` has a module for it).

A definition whose comment begins with *Slip* is a variant of the definition
below it with a mistake that is easy to make there. No specification uses it.
Each property is checked to fail when the slip takes the place of the right
definition (`mutants` in `PROJECT.json`), so every property depends on the code
it is about.

### RemoteRing

State: the two cursors of `RemoteBufManager`, the three of `RecvBuffer`, and
sequences for what is between them: `wire` (posted), `inbox` (in the channel to
`recv_msg`), `slice` (lent), `credits` (notices on their way back). Addresses are
offsets. Sections carry their address so that properties can speak of it; the
receiver's actions use the length alone, and a notice's `upto` is likewise only
for the properties.

`alloc` is five actions: the choice of the branch, and one action per load of
`done` in each branch (`WrapSpaceLoad`, `WrapOrderLoad`, `FitSpaceLoad`,
`FitOrderLoad`), because `update` runs in another task. While the first operand
says "wait" the task sleeps; this is a disabled action. The caller holds
`Conn.lock`, so one task allocates at a time, and the last load, the new index
and the post are one step. `read` and `notify_release` have a single caller and
are one step each, with `notify_release`'s three branches as three disjuncts.

The way back of notices is a queue without bound and without condition here; that
a notice needs a message of the other direction is `Conn`'s subject.

### What the ring implements: AtomicRing, MsgChannel

```
MsgChannel  <--MessagesIntact--  RingChannel  (SendRing and RemoteRing with bytes)
AtomicRing  <--ImplementsAtomicRing--  RemoteRing
AtomicRing  <--BothAreRings--  Conn, once for each direction
```

`AtomicRing` is the ring whose `alloc` tests `index` and `done` at once. `RemoteRing`
maps to it by forgetting where `alloc` stands and where a notice's amount leads:
the choice of the branch and a load that waits are stutters, the load that grants
is `Alloc`. That this is a refinement is not a matter of course: between the two loads
`update` may move `done`. It holds for short messages (checked and proved), and in
`ring_race` it is what fails.

`RingChannel` extends `RemoteRing`, takes a `SendRing` as an instance (`Local`), and adds
the bytes of both buffers. `send_msg` is a path through the two: a section of the send
buffer (`BufferStep`), the copy into it outside every lock (`Copy`), `Conn.lock` in any
order of the tasks (`TakeLock`), a section of the remote buffer and the post
(`AllocOrPost`). The card reads the section only when it executes the write
(`DeliverBytes`), and writes what it finds there then; `recv_msg` lends a view. The
mapping takes what is on the wire to be what was given to `send_msg`, and reads the
messages of the channel out of the memory once they have arrived (`Contents`). So a byte
overwritten in either buffer, a message read from the wrong place or a torn slice is a
step `MsgChannel` does not have.

A request the card refuses (`Refuse`) has moved `index`, its error is only logged, and the
peer reads what follows from the wrong place; a `send_msg` dropped in `push` leaves a gap
in the send ring. `MsgChannel` promises nothing after either: `Lose` is the step that
says so, and it asks for a refusal or such a drop (`lost`). A `send_msg` dropped anywhere
else (`Cancel`) is one that never sent. An abandoned section blocks the release task, so
new sections run out; what was posted before still arrives whole.

In `Conn` the notices of a direction wait at one end, travel with messages of the
other direction and wait again at the other end. `Ring(e)` puts them in one sequence
(`NoticesFor`) and takes the sections in use to be where the receiver will look for
them. `BothAreRings` then says that every step of the whole is, for each direction, a
step of `AtomicRing` or a stutter. A notice of 0 may vanish, in `AtomicRing` too
(`Notify`): it is not told from no notice.

### SendRing

`alloc` in the same five steps, then `Push` into the bounded channel with the
Mutex still held. `Post` picks any section a task owns: the tasks queue again for
`Conn.lock`. `Complete` clears the flag of the oldest posted request, the card's
queue being in order. `Pop` and `ReleaseDone` are the release task. A flag is an
address, reused once no entry refers to it.

With `"post"` among `Faults`, `Abandon` is the error that `write_with_imm` only
logs; with `"cancel"`, it is a `send_msg` that is dropped while it waits for
`Conn.lock`, the window or the remote buffer (the section is lost in the same way),
and `CancelAlloc` one that is dropped in `alloc` itself. In `push` that leaves a
section behind `index` that the release task is never told of: `done` stays that much
behind for good. `StepKept` says that no other step puts the two out of step.
`WaitsOnlyForSections` and `DoneFollowsSections` hold only without this fault, so they
are checked by `send_mixed`.

The two loads of `done` race with the release task as they do in `RemoteRing`, and here
no threshold stands between: with two lengths a section in use may be given out
again (see below). What prevents it is the channel to the release task. It holds
2 * `MAX_SENDING` entries, and `alloc` waits when it is full, so while as many sections
(and the one popped, and the one to be pushed) fit in the buffer, whatever their
lengths, `done` is never ahead of an `index` that has to wrap: `RoomForQueue`. For the
program, 32770 sections in 64 MiB, this is messages of less than 2 KiB. `send_mixed`
has two lengths and such a channel.

### Conn

All messages have one length, and the unit of offsets is that length; the
concurrent loads do no harm then (the same lengths below the threshold, `ring`), and `alloc`'s wait is
one guard, `HasSpace` (`RemoteRing` with `Cap = 4`, `NotifyMin = 1`, `Lens = {1}` is
the ring of `conn_echo`). The copy into the send ring is left to `RingChannel`: a
`send_msg` starts as one of the `waiting` calls. `Execute` is the card: it needs a
receive request at the peer, or retries. The completion of a write is there when the
peer has the message, unless `"lag"` is among `Faults`: then it may come any time
later. With `"cancel"`, a `send_msg` may be dropped while it sleeps (`Cancel`); in
`alloc` its place in the window and its notice are gone. `Post` loses message and notice when the send queue is full, as the code
does. An end outside `Initiators` answers each message after releasing it, in a
new task, like the examples.

### Setup

Both sides run the same actions, `Exchange(s, c)`, one per call that may wait:
send endpoint, read endpoint (and move the queue pair), register and send the
region, read the region, `Conn::new`. The server's task does so for the head of
the backlog, then delivers through a bounded channel. `Die` ends a client's
process at any step; what the peer then does follows the code: an error in
`handshake` is logged and the zeroed buffer taken for an endpoint, an error in
`send_mr` or `recv_mr` panics. `ListenerFails` covers `bind` and `accept`. The
effect of a closed TCP connection (end of stream, reset that discards what was
unread, writes that vanish) is external.

With `"device"` among `Faults`, a call of the device may fail. `QP::new` unwraps
(`DevicePanics`); an error of `QP::init`, `ready_to_receive` or `ready_to_send` is only
logged, and set-up goes on with a queue pair that stays `"unready"`; a receive request
that is refused is not missed (`posted` stays false). So the code may open a `Conn` that can
neither send nor receive. `OpenMeetsReadyPeer` says what holds of every open `Conn` all
the same: endpoint and region are the peer's, the peer has this side's endpoint and has
registered the buffer that is written to, and no queue pair is connected to an endpoint of
zeroes. A queue pair that is not connected is one for which a device call failed
(`Ready`); without device faults both are in RTS. Whether the device takes an endpoint of
zeroes is not told apart: `"astray"` is both.

With `"application"`, the owner of the `Server` may drop it (`DropServer`), and the
channel with the `Conn`s in it. The task finds out when it next delivers: the `Conn` comes
back in the error and is dropped, and the loop is left (`DeliverFails`).

A client may be `open`, and send, while its server has not posted its receive
requests: `Conn::new` posts them after the exchange. The card then retries a limited
number of times. `Setup` has those states, and what the card does in them is outside it.

### Teardown

For each connection, what of it exists (`live`), who holds the `Arc` of the queue pair
(`qpRefs`: the `Conn`, its daemon, the application through `Conn::qp`), how many
clones of the `Arc<Conn>` there are, and the daemon's position. The device is shared by
the connections of a server and by the task of `run`. A `Conn` is dropped part by part
in the order of its fields (`ConnParts`), and the queue pair, completion queue and
domain (`QpParts`) when the last holder is gone. In between the card executes and the
daemon polls: a write of the peer into a region that is no longer registered puts the
queue pair into error, which flushes what was posted. The card and the peer (`Arrive`,
`Execute`, `Fail`) are external.

The daemon does not look at the status of a completion, and the opcode of a failed
one is undefined: `Opcodes` allows a message, a write, or neither. Taken for a
message, a new receive request is posted, flushed at once or refused by a full queue,
and something is handed on to a channel that may be closed; taken for a write, `wr_id`
is followed, and for a receive request that is a null pointer: the process dies
(`crashed`). A process that has died takes no further step.

Two things never end, and the model has them so: a daemon that gets no further
completion, and the release task of a send buffer, which holds both ends of its
channel (it has no action here, for it holds nothing of the device).

## Runs

| run | instance | shows |
|---|---|---|
| `ring` | Cap 8, threshold 3, lengths 1 and 2, fair | lengths below the threshold: all properties of the ring, `RingInv`, and that it implements `AtomicRing` |
| `ring_race` | Cap 10, threshold 2, lengths 1 and 3 | **violated** `NoOverwrite` |
| `channel` | remote ring of 7, threshold 3, length 2, send buffer of 6, channel of 1, two contents, posts may be refused, sends may be dropped | both rings together implement `MsgChannel`; what is copied or has arrived stays whole |
| `send` | Cap 9, length 2, channel of 2, posts may fail, sends may be dropped, fair | no overwriting, `SendInv` with gaps, every `alloc` served unless a section was abandoned, only a drop in `push` leaks space |
| `send_mixed` | Cap 8, lengths 1 and 2, channel of 2, posts may fail | the channel keeps two lengths from overwriting, the release task's wrap-around is `alloc`'s, no idle waiting |
| `conn_echo` | queues of 2, buffer of 4, batch 1, 14 requests, fair | no limit is exceeded, `ConnInv`, no space is lost, every `send_msg` ends, both directions are rings |
| `conn_lost` | queues of 2, buffer of 8, batch 2, 7 requests, late acknowledgements, dropped sends | receive requests suffice with lost messages too |
| `conn_circle` | queues of 3, buffer of 3, batch 1 | **violated** `NoMutualWait` |
| `conn_peers` | queues of 2, buffer of 8, batch 2, both ends send on their own, prompt acknowledgements | **violated** `RqeNeverShort` |
| `setup` | 2 clients, channel of 1, all faults, fair | an open `Conn` and its peer know each other and are connected unless the device refused, `SetupInv`, every `connect` ends, an open client is accepted |
| `setup_death` | 1 client that may die | **violated** `AcceptNeverPanics` |
| `teardown` | 1 connection, 2 clones, queues of 2, fair | `LifeInv`: memory, regions, queue pair, domain and device go in order, nobody uses what is gone, the daemon ends on a message |

Why the bounds are enough. A ring matters through the relations of its cursors: the
capacities above let messages end at, before and beyond the right edge, let the
ring go round without end (the offsets are the state, no counter grows), and let
several notices be under way. `channel` has one length: with two, and both rings with
their bytes, there are millions of states. Two lengths are in `ring` and `send_mixed`, one
for each half, and the theorem about `RingChannel` has any. Two contents tell a message from its neighbour, and the
contents are symmetric because they are only compared. The queues of 2 fill up and
empty; 14 requests go
more than three times round a buffer of 4, 7 requests nearly fill one of 8 and are
three and a half windows. In `conn_echo` (buffer of two windows, each message
reported by itself) `send_msg` does wait for space, and is served; with batches of 2
in the same buffer the circle of `conn_circle` closes, and in a buffer of 5 nobody
ever waits for space, the window being tighter. In the real program two windows of
16384 messages fill 64 MiB at 2 KiB a message. Two
clients and a channel of 1 suffice for one to wait in the backlog while the other is
set up, and for one to wait for the channel that holds the other. Connections meet in
`Teardown` only in the device; an instance with two of them (queues, clones and sends
of 1; 981,818 states, 2.5 minutes) also passes and is left out for its time.
Violating runs use the smallest instance that shows the behaviour.

`CHECK_DEADLOCK FALSE` stands where the system really stops: `Requests` is a bound
(`Conn`), an abandoned section blocks the release task (`send`, `send_mixed`,
`channel`), all clients are
connected (`Setup`), everything is dropped or the process has died (`Teardown`).

Fairness is weak and per task: a task that sleeps and retries or awaits a channel
is run again by tokio, one or another owner of a section gets `Conn.lock`, the cards make
progress, the application keeps receiving, releasing and, while it has its `Server`,
accepting. In `Teardown`, what has begun
to be dropped is dropped, and the daemon is run again; nothing makes a message arrive
or a `Conn` be dropped. Nothing makes an application send, drop a future or its `Server`,
a device call fail or a client connect.

### What the violated runs show

* `ring_race`: the wait condition judges space by one value of `done` and order by a
  later one. When `done` has wrapped around in between, a section in use is granted
  again. It takes messages at least as long as the notice threshold, of more than
  one length, and a nearly full ring.
* `conn_circle`: `send_msg` takes the notice before it waits for space.
* `conn_peers`: `sending` falls with every message received. It
  bounds the peer's receive requests only when each message received answers one
  that was sent.
* `setup_death`: the death of one client during set-up ends the server.

Three more that can be seen by changing an instance, and have no run of their own:

* `NoOverwriteLocal` holds in `send_mixed` and fails with `Cap = 6`: the two loads of
  `ring_race`, in `SendBuffer::alloc` (`src/src/types/mr.rs:249`). With `index = 5` and a
  message of 2, the first load finds `done = 6` and judges that 2 bytes from the left are
  free; the release task wraps `done` to 1; the second load finds it not above `index`,
  and the section at 0 is given out over one that is in use. Any mix of lengths will
  do, as long as the channel to the release task takes more sections than fit in the
  buffer.
* `SendQueueNeverFull` holds in `conn_echo` and fails in the instance of `conn_lost`.
  The window counts answers, the send queue counts completions: an answer received
  before the completion of its request is polled lets `send_msg` post beyond
  `max_send_wr`, although "too much sending will cause device error"
  (`src/src/connection/conn.rs:103`). The refused message has moved the sender's `index` and
  not the receiver's, so what follows is read from the wrong place.
* `WaitsOnlyForReleases` holds in `ring` and fails with `Cap = 4`, `NotifyMin = 1`,
  `Lens = {3}`: an empty ring with `done = index` away from the left edge is not empty
  for the wrapping branch, so a message longer than half the ring waits for ever,
  although `done` at `index` "means the space is empty" (`src/src/types/mr.rs:134`). With
  `Cap = 10`, `NotifyMin = 2`, `Lens = {4}` it fails in another way: `notify_release`
  reports the batch before a message that wraps and keeps that message, whatever its
  length, for the next.

## Proofs

A theorem holds for every value of the constants that its module's `ASSUME` allows,
and under the hypotheses it names, all of them on constants. Every safety
property and action property of a passing run has one, except `BothAreRings`.

| theorem | property | hypotheses |
|---|---|---|
| `RemoteRing_proofs` `TypeCorrect`, `ReadsExactly`, `NoticesExact` | `TypeOK`, `ReadsWhatWasWritten`, `DoneFollowsReleases` | |
| `RingOrdered`, `NoOverwriteShort`, `AllocAtomic` | `RingInv`, `NoOverwrite`, `ImplementsAtomicRing` | `ShortMessages` |
| `WaitsForRemote` | `WaitsOnlyForReleases` | `ShortMessages`, `RoomForThree` |
| `RingChannel_proofs` `ArrivedWhole` | `BytesKept` | `ShortMessages`, `RoomForQueue` |
| `MessagesArrive` | `MessagesIntact` | `ShortMessages`, `RoomForQueue`, `NonEmpty` |
| `SendRing_proofs` `TypeCorrect`, `SectionsOrdered`, `OnlyPushLoses` | `TypeOK`, `SendInv`, `StepKept` | |
| `ReleasesExactly` | `DoneFollowsSections` | `NoCancel` |
| `WaitsForSections` | `WaitsOnlyForSections` | `NoCancel`, `HalfEach` |
| `NoOverwriteOrderly` | `NoOverwriteLocal` | `Orderly` |
| `Conn_proofs` `TypeCorrect`, `WindowsKept` | `TypeOK`, `ConnInv` | |
| `RequestsSuffice`, `DaemonRuns`, `ReleaseRuns` | `RqeNeverShort`, `DaemonNeverWaits`, `ReleaseNeverStalls` | `OneInitiator` |
| `QueueSuffices` | `SendQueueNeverFull` | `OneInitiator`, `"lag" \notin Faults` |
| `ConnSpace_proofs` `NoSpaceLost` | `SpaceConserved` | `OneInitiator`, `Faults = {}` |
| `Setup_proofs` `TypeCorrect`, `SetupKept`, `PeerIsReady` | `TypeOK`, `SetupInv`, `OpenMeetsReadyPeer` | |
| `Teardown_proofs` `TypeCorrect`, `LifeKept`, `RegistrationsBacked`, `GoInOrder`, `UsersKeepQp` | `TypeOK`, `LifeInv`, `RegionsBacked`, `DropsInOrder`, `UsersHaveQp` | |

The hypotheses, and what happens without them:

* `ShortMessages`: every message is shorter than the notice threshold, and the ring
  holds two thresholds. The program's constants (64 MiB and 8 KiB) satisfy it for
  messages below 8 KiB. `ring_race` shows `NoOverwrite` fail without it.
* `RoomForThree`: the ring holds three messages just below the threshold. In a smaller
  one, what the receiver has gathered and not told may be what `alloc` waits for.
* `NonEmpty`: no message of length 0, whose contents no byte of the buffer tells.
* `NoCancel`: no `send_msg` is dropped where it waits. `OnlyPushLoses` says which
  drop does the harm.
* `HalfEach`: a message takes at most half of the send buffer. Beyond that `alloc`
  waits for ever on an empty buffer, as `RemoteBufManager::alloc` does (see above).
* `RoomForQueue`: the channel to the release task is full before the send buffer is. The
  program's constants (64 MiB, 32768 entries) satisfy it for messages below 2 KiB of
  whatever lengths.
* `Orderly`: `RoomForQueue` and `NoCancel`, or all messages have one length. With neither,
  `NoOverwriteLocal` fails (`Cap = 6`, `Lens = {1, 2}`, see above). Sections dropped in
  `push` take room that the channel does not count, so for mixed lengths such drops
  are excluded.
* `OneInitiator`: one end sends and the other answers, as in the examples.
  `conn_peers` shows `RqeNeverShort` fail without it. The answering end sends
  nothing of its own, so its window never closes.
* `"lag" \notin Faults`: acknowledgements come before answers. Without it
  `SendQueueNeverFull` fails in the instance of `conn_lost`.
* `Faults = {}`: in addition no `send_msg` is dropped. One dropped while it waits for
  room to write has taken its notice from the channel, and a message refused by a full
  send queue (which late acknowledgements allow) never brings its notice: in both
  cases what the notice counts is lost to the peer, and `SpaceConserved` fails in the
  instance of `conn_lost`, with either fault alone.

### The remote ring

`TypeOK` is not inductive: `done <= right` depends on what notices
say, these on what was released, and that on where sections lie. `ChainInv` says
how all hang together: the sections in use follow each other by one rule, `Place`,
from `rDone + released` to `index` (`SectionsChained`); applying the notices in
turn leads from `done` to each notice's `upto`, and the last leads to `rDone`, or
the receiver has wrapped around with a message that did not fit behind
(`NoticesChained`); the branch chosen stays right (`BranchKept`). The theorems
without hypotheses follow from `ChainInv` alone, which holds although `NoOverwrite`
may not: the two sides agree about places even then.

For `NoOverwriteShort`, `RingOrder` adds that around the ring, starting from
`done`, come the notices, what has been released, the sections in use and `index`, in
this order (`Ahead` is the distance from `done`, folded into a comparison). The
step that could break it is the second load in `alloc`. A notice that makes `done`
wrap covers at least a threshold (`WrappingNoticeLong`), so if `done` was large
enough at the first load it is still so after it wrapped (`SpaceKept`): the window
between the loads does no harm to messages shorter than the threshold.

`WaitsForRemote`: with nothing in use and no notice under way, `index` and `done` are
apart by what the receiver gathers, which is less than one batch (`NothingOut`).

`AllocAtomic` needs `SpaceKept` and `BranchKept` at the load that grants: the space
test, made on an older `done`, is true of the present one, so the single test would
grant too. It also needs that a task in `alloc` asks for the length of a message
(`WantAsked`). The other steps map one to one, once `Amounts` (a notice seen as its
length) is moved past `Append` and `Tail`.

`MessagesArrive` is the promise to the application: for messages of any lengths within the
hypotheses, whatever the card refuses and whoever drops a `send_msg`, what `recv_msg` lends
is what `send_msg` was given, until a message is lost. Each step of `RingChannel` is a
step of `RemoteRing` or leaves it alone, and a step of `SendRing` or leaves that alone
(`RingSteps`), so neither ring overwrites. A copy into the send buffer overlaps with no section
that another task has copied into or whose request is under way (`CopyApart`), and the
task that holds `Conn.lock` is one that has copied (`Hands`), so a request posted finds its
message in all its bytes until the card reads them. A write lands in `Head(wire)`, which
overlaps with no section that has arrived or is lent (`NextApart`), so every such section
keeps the one message that is in all its bytes (`BytesKept`). With that, what the mapping
reads out of texts and memory moves through the queue of `MsgChannel` as the messages
given to `send_msg` do. `NoCancel` is not needed: until a `send_msg` is
dropped in `push` the send ring stays in step, and after it nothing is promised.

### The send ring

With drops and failed posts allowed, entries of the release task lie in the buffer, in
bounds and with a flag each (`SectionsFit`, `OneFlagEach`), and a section in use keeps
its flag true and its entry (`UseKnown`). `InStep` is kept by every step but the drop
in `push`, which leaves a gap (`StepKept`). `NoOverwriteLocal` needs the entries to stay in order between `done` and `index`
(`Layout`), and for that the space test of the branch that wraps to be still true at its
second load (`StillBehind`). It is when `done` is not ahead of `index` in that branch
(`WrapsBehind`, in the proofs): the release task then only moves `done` up towards
`index`. There are two reasons for that. With one length every position is a multiple of
it, and none lies between `index` and the end of the buffer (`OnGrid`); this is so with
gaps too. With several, `RoomForQueue`: without gaps the entries follow each other from
`done` to `index`, and come to lie below `done` only by wrapping around, so the k-th ends at
most k times the greatest length from the left edge (`ShortAfterWrap`). There are at most
`QueueCap + 1` of them, and behind so many there is room for one more: `alloc` does not wrap.

### The connection

The two windows together count the messages under way (`WindowsCount`): the same
`recv_msg` that takes a message in gives its end a place back, so `sending` of one end
alone bounds nothing. An end that only answers has sent at most as many messages
as it received, so its own `sending` is never positive (`AnswersOnly`), and what is under
way is at most `MAX_SENDING`. From it follow the receive requests (with
`RqesReplaced`: those not posted are consumed by messages not polled) and the room in
the channel to `recv_msg`. A `send_msg` takes a notice along if there
is one, so notices pile up only as the window opens (`NoticesWait`): when `release` waits
on a full channel of them, nothing is under way. These hold with lost and dropped messages, which only close the window.

`QueueSuffices` looks at the order of completions. The send queue holds the writes whose
completion is not polled; wherever the completion queue is cut, the messages before the
cut and the writes behind it are at most the messages that closed the window
(`WritesFirst`, `CutAt`). Cut at 0, this bounds the send queue. With late
acknowledgements it is false, and so is the property.

`NoSpaceLost` (`ConnSpace_proofs`) compares two cursors of one end, `index` and `done`, with
what the other end has not returned, across everything a notice passes through:
the channel of notices, the caller, the send queue, the completion queue, the daemon and the
channel to `recv_msg`. That the sums agree is not inductive, for `update` adds a
notice to `done` or starts again from the left edge, and only its place decides which is right.
`Space` therefore says where every notice lies: in the order in which they travel, they
follow each other from `done` up to the `rDone` of the peer, and none reaches across the
end of the buffer (`Hop`, `Path`, `Placed`). Numbers are counted on past the end and
turned back when `update` wraps (`PathTurn`). `notify_release` keeps it, since it sends
what it gathered before it starts at the left again. `Post` must not be refused, which is
`QueueSuffices`. `Total`, a sum over a queue, is the length of its path
(`PathTotal`), by an induction done with a set and its least element (`InductionOnNat`, from
`WFMin`), as the library's induction theorems take an operator.

### Set-up and teardown

`SetupInv` compares the two sides: the stream holds what one has sent and the other has
not read, by the steps they have reached (`StreamFits`), or less if the sender died; and
a step past an exchange has what the exchange gives (`SideReady`), with a queue pair that is
connected unless the device refused (`Ready`). What waits for `accept` is a `Conn`
(`ChannelHolds`), so a dropped `Server` drops nothing else. The server's task is in
one set-up, and a client waits in the backlog once (`OneSetup`, `BacklogWaits`), which
says that what a step of the server does to one client leaves the others alone.

`LifeInv` says who holds the queue pair (`HoldersKnown`), that it is whole while somebody
does, that a part is there as long as anything rests on it (`PartsKept`), and
that the device goes last (`ClosedLast`), for any number of connections of one device.

### Model-checked only

* Liveness, which is outside the prover's reach: `AllocServed`, `SectionServed`,
  `SendsComplete`, `ConnectEnds`, `ConnectedIsAccepted`, `DetachedEnds`.
* `BothAreRings`: its mapping drops the empty notices by `SelectSeq`, which is recursive.

## Not modelled

Errors in work completions while a `Conn` is in use, beyond what `Teardown` does with
them: what an application would be lent for a message that never came is not followed
into the ring. What follows in either ring after a message was refused by the card or dropped
in `push`: the two ends are out of step for good, and nothing is promised. A failed
registration of a buffer: `MR::new` dereferences the null pointer it is given
(`src/src/types/mr.rs:39`), which has no meaning to model. Two tasks that receive at once, which the interface forbids. Addresses as 64-bit
and lengths as 32-bit numbers: a buffer is 64 MiB and no sum comes near the width. The
attributes of a queue pair, the wrappers of device queries, printing of statuses and
events. Dead code as listed above.

## Plan

Done, in this order: the remote ring with its proofs, the send ring, flow control,
set-up, the abstract ring and channel with their refinements, cancellation, teardown,
the proofs listed above. Next, a proof of `BothAreRings`: the places of the notices are now
known from `Space`; what is missing is the order of the messages of one direction, and a
mapping written without `SelectSeq`.
