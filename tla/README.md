# shm-ipc: TLA+ models and proofs

shm-ipc lets a parent and a child process talk through two rings in shared
memory. This directory models it in TLA+: TLC checks the models on small
instances, and TLAPS proves the most important properties for every value of
the constants.

Contents: [the system](#the-system), [the modules](#the-modules),
[runs](#runs-bounds-and-what-they-show), [fairness](#fairness),
[proofs](#proofs), [where the code does otherwise](#where-the-code-does-something-else),
[what is left out](#what-is-not-modelled), [plan](#plan).

## The system

| Component | State it keeps | Operations | Hard behaviours |
|---|---|---|---|
| **Channel** `ipc/channel.{h,cc}` | in shared memory: `m_read_offset`, `m_write_offset`, the ring `m_addr`, `m_consumer_state`; the writer's `m_write_threshold` | `initialize`, `write`, `read_header`, `consume_header`, `available_write`, `can_write` | two processes without a lock; a read offset that is old when it is used; wrapping, splitting, a full ring that must not look empty |
| **Router** `ipc/router.{h,cc}` | handlers by id, `m_next_id`, two channels, three descriptors | `register_handler`, `close`, `write`, `process_reads_pre_polling`, `process_reads_post_polling` | the flag that decides about a wakeup; half-closed ids; messages for ids not yet known |
| **WakeupFd** `ipc/wakeup_fd.{h,cc}` | one end of a socketpair, or an eventfd | `send_interrupt`, `event_read`, `open`, `close` | late wakeups, bytes that pile up, end of file |
| **ControlFd** `ipc/control_fd.{h,cc}` | one end of a stream socket, slots for messages, shutdown and close | `send_*`, `event_read` | framing over partial reads and sends, end of file |
| **Poll** `poll.h`, `poll_kqueue.cc` | the event table, masks, a list of changes, the batch being processed | `open`, `close`, `insert_*`, `remove_*`, `do_poll`, `do_interrupt`, `process` | events closed inside a batch, exceptions from handlers, a signal just before the poll |
| **Processes** `parent.cc`, `child.cc`, `main.cc` | four flags, the shutdown timestamp, the loop | signal handlers, control handlers, the two loops | both stop at once, time-outs against late answers, crashes |
| **RouterFactory**, **Segment** | the segments and descriptors before `fork()` | `initialize`, `create_*_router`; `create`, `destroy` | each side must close the other's ends, and a step may fail when the other process is already there |
| **fd**, **socket_address** | none | opening sockets with options; predicates, comparisons, conversions and copies of addresses | clean-up after a failed step; byte orders |

How they interact: a process's `Router::write` copies a payload into the ring
it writes and publishes the new write offset. Then it looks at the
`consumer_state` word of that ring. If the peer has announced there that it is
polling, a compare-and-swap marks it as interrupted and one byte goes to the
wakeup socket. The peer's loop reads its ring before and after it sets the
announcement, sleeps in `kevent()`, handles what was returned (`WakeupFd` and
`ControlFd` read their descriptors in callbacks), reads its ring, clears the
announcement and reads its ring once more. Handlers work on the payload in the
ring itself; the record is freed when they return. Stopping is agreed on over
the control socket; its end of file says that the peer is gone.

What makes each part correct:

* Channel: a FIFO of records. Nothing unread or being worked on is overwritten,
  the reader always finds a header, `EAGAIN` means lack of room, the checks that
  throw never do.
* Wakeup: nobody sleeps over an unread message; wakeups do not pile up.
* Shutdown: whatever is published before the end is consumed; nobody writes to
  a closed descriptor; both processes come to an end.
* Router: a message finds its handler, because its announcement is ahead of it
  in the same ring; both processes mean the same channel by "the i-th".
* Poll: what the kernel watches is what the masks say, whatever handlers do in
  the middle of a batch; no pointer of the kernel, the list or the batch dangles;
  a closed event gets no callback.
* Sockets and addresses: a failed step loses no descriptor; comparisons are total
  orders; an IPv4 address means the same in its IPv6 form.
* ControlFd: however the stream is divided, the messages that were sent come out
  of it; what is left of a message that was cut never becomes a shutdown.
* RouterFactory: each process keeps its own ends and no others, so that an end of
  file means that the peer is gone.

## The modules

| Module | Models | Extends |
|---|---|---|
| `ChannelLayout` | the arithmetic of `channel.cc`, as operators | |
| `Channel` | a ring with its writer and its reader | `ChannelLayout` |
| `MessageFifo` | what a channel promises: a queue of records | |
| `ChannelInvariant` | the inductive invariants of a channel | `Channel` |
| `ChannelProofs` | types, `write()` never throws, `can_write()` and `EAGAIN` mean what they say, for every ring | `ChannelInvariant` |
| `ChannelSafetyProofs` | no overwriting, record boundaries, intact payload; a channel implements `MessageFifo` | `ChannelProofs` |
| `Wakeup` | the two event loops, `consumer_state` and the wakeup descriptor | |
| `WakeupProofs` | no lost wakeup, bounded wakeups | `Wakeup` |
| `Startup` | `RouterFactory`, `fork()` and the descriptors of both processes | |
| `Shutdown` | flags, signals, control messages, ends of file, crashes | `Startup` |
| `ShutdownInvariant` | the inductive invariant of the two processes | `Shutdown` |
| `ShutdownProofs` | nothing is lost, ends of file are true, who may throw | `ShutdownInvariant` |
| `ControlLink` | what a direction of the control socket promises | |
| `ControlStream` | `ControlFd` over a stream of bytes | |
| `ControlStreamInvariant` | the inductive invariant of the stream | `ControlStream` |
| `ControlStreamProofs` | nothing whole is refused, and the stream implements the link | `ControlStreamInvariant` |
| `Router` | handlers and ids of both processes over a ring | `Channel` |
| `RouterInvariant` | the inductive invariant of the two Routers | `Router`, `ChannelInvariant` |
| `RouterProofs` | every message finds its handler, for any number of channels | `RouterInvariant`, `ChannelSafetyProofs` |
| `PollTable` | the event table, masks, list of changes and batch of `Poll`, and the kernel's filters | |
| `PollProofs` | the poll stays consistent, no callback on a closed event | `PollTable` |
| `SocketAddress` | `socket_address.cc`, as operators on bytes | |
| `Sockets` | a caller of `fd_open`, `fd_connect_with_family` and the address functions | `SocketAddress` |
| `SocketsProofs` | orders, mapping, union, `connect()`, descriptors, for every address | `Sockets` |
| `MCChannel`, `MCWakeup`, `MCShutdown`, `MCControlStream`, `MCRouter`, `MCPollTable`, `MCSockets` | values for the constants, symmetry | |

### ChannelLayout and Channel

Offsets are byte offsets, as in the code; `Size` is `m_size`. A line of the ring
(`cache_line_size`, 64 bytes) holds the record it belongs to and whether the
record's header is on it. A payload is abstracted to the message's id and the
range `[from, from + size)` of the caller's buffer, which is enough to tell apart
lost, repeated, reordered and overwritten data.

`write()` is taken apart where the reader can see a difference: `BeginWrite`
samples both offsets and decides on the placement (`Placement`, with the
conditions for `EAGAIN` in `Refuses` and every `throw` in `WriteFails`);
`CopyFirst` and `CopySecond` are the two calls of `write_to_header`; `Publish`
stores the write offset. `ReadHeader` and `ConsumeHeader` are the reader's
calls; the handler runs between them, while `held` is the record it was given.
`consume_header()` looks at the header in shared memory again, and so does the
action. The reader is `"garbage"` when it takes payload bytes for a header and
`"failed"` when a check throws. Refused writes and reads of an empty ring
change nothing.

The offsets are single atomic words with acquire loads and release stores, and
the payload is written before the offset is stored, so that steps on shared
memory in a single order lose no behaviour of one writer and one reader.

**`Spec` and `SafeSpec`.** A record that ends exactly at the end of the ring
leaves `m_write_offset` at `m_size`. When the reader consumes it, its offset
wraps to 0, and the two offsets of an empty ring are different: the reader
finds the old records again and the writer is refused. `Spec` has these
behaviours, and `MCChannelReplay` shows them. `SafeSpec` is `Spec`
without that one step (`DrainsAtEnd`): it describes every behaviour up to the
first time the reader drains such a ring, and the FIFO properties are stated
for it. Types and `WriterNeverFails` hold for `Spec` itself.

### MessageFifo

`Accept` appends a nonempty prefix of one message as one record or two, `Take`
hands the oldest record to the reader, `Release` removes it. `Channel` implements
it under `RecordsInRing`, the records whose headers are on unread lines, in the order in
which a reader comes to them (`Distance`), computed from shared memory alone.

### Wakeup

Each process is at a label of its loop (`pc`). Publishing, the compare-and-swap,
the write to the wakeup descriptor, every look at the channel, the two stores to
`consumer_state`, the return of `kevent()` and the read of the descriptor are
steps. A channel is two counters here. `StoresDelayed` lets a store to
`consumer_state` wait in `delayedStore` while the process's later loads already
happen: C++ allows it for a release store before an acquire load of another
word, and x86 processors do it. A read-modify-write makes the process's earlier
store visible first. `SharedEventFd` is the build with `USE_EVENT_FD`, where
both processes are given the same eventfd. `build.sh` builds the socketpair
variant. The second `process()` after the poll finds no events left and is
omitted; so is `EINTR`, which ends a poll as a timeout does.

### Startup

`held` says which ends of the three socket pairs are among the descriptors of each
process. `Initialize` makes all six in the parent, `Fork` copies them, `CreateRouter`
closes the peer's ends of the control and keepalive sockets and `OpenWakeup` that
of the wakeup socket. `PeerOpen` looks at both processes, because the kernel
reports an end of file only when nobody has the other end any more. With
`StartMayFail`, any step ends the process by an exception that nobody catches;
`PollFails` is caught by `main()`, which closes nothing and, in the parent,
waits for the child. The order of the system calls inside one step is left out:
no other process sees them, or it sees only that its own sockets stay open.

### Shutdown

`Shutdown` goes on where `Startup` ends, with the same two variables. One record per process holds the flags of `main.cc`, the timestamp (`timer`),
the batch of events that `kevent()` returned and, when it has left its loop, why.
The top of the loop is one action per way out, in the code's order (closed,
told, start, give up, carry on); the poll returns what is readable in any
order and each event is handled in a step; `ControlClosed` closes both
descriptors in the middle of a batch, and `ClosedEvent` is the poll skipping an
event that was closed so. `written` in a control message is there for the
properties only. Crashes can come at any step; `do_panic` may send its message.
`exit(220)` runs the destructors of static objects; `g_poll` still has the control
descriptor in its table, and the assertion of `~Poll` (`poll_kqueue.cc:180`) turns
the exit into an abort: `ExitLate` ends as a crash does.

### ControlStream and ControlLink

The stream is a sequence of bytes. `SendPart` is one `send()`, which takes what
fits; `SendFails` is its time-out on a full buffer or the closed peer, which throws
and leaves a part of a message behind; `Panic` is a fatal signal, whose report goes
out even between two parts of another message. `EventRead`, `ReadPart`, `LengthRead`
and `PayloadRead` are `event_read()` up to its slots, and `ReadEnd`, `ReadNothing` and
`ReadTimesOut` its three ways to find the stream empty, of which `platform` decides
(on Linux, the loop of `read_fn` tries again after the first byte). Of a payload only
this matters: what it starts with, and that no byte of a text is as small as the
first byte of a length.

`ControlLink` is what the users of `ControlFd` rely on: posted messages are handed
over in order, once and unchanged, until the link is closed; after something was
cut nothing more is promised but that no shutdown is made of it.
`ControlStream` implements it, with what is posted and not yet delivered as the
queue. `Shutdown` uses the messages of that link, one element each: a control
message is far smaller than the buffer of a socket.

### Router

`Router` extends `Channel` with what each line's payload says (`contents`) and with
the two Routers. The parent announces its channels on id 1 and then writes texts
to them; the child is `process_reads()` taken apart at its calls of the channel:
`FindHeader`, `Dispatch` (the handler's work) and `Consume`. `FreshId` is the search
of `register_handler()`. Everything the child writes goes back in a queue
(`replies`), which is what `MessageFifo` promises. Messages are shorter than a
line. `close()` is not there: nothing calls it, and it cannot succeed, because
`Channel::write` throws for its empty message. `RouterSafeSpec` leaves out the step
`DrainsAtEnd`, as `SafeSpec` does; with that step, the child is told its ids a second
time and its `register_handler()` throws (`router.cc:80`).

### PollTable

An `Event` has a descriptor and may point to a PollEvent. A PollEvent is memory:
it lives as long as a `shared_ptr` to it does (the event's, the table's or that of
`m_closed_events`), and memory that was freed may be taken again, which is when a
plain pointer to it would become wrong. The kernel keeps the filters with their
`udata`; `Applied` is what `kevent()` does with a list of changes, in which the last
one about a descriptor and a filter decides. While `process()` runs, `handling` is
the event whose handler is called, and any operation of the poll may come from
there, on any event; it may also throw, which leaves `processing` set until the
next batch ends. One assumption comes from `poll.h:26`: a descriptor does not
change between `open` and `close`. The branch of `process()` for `EV_ERROR` is out:
the kernel sets it for a change it refuses, and `ChangesSucceed` says that none is.

### SocketAddress and Sockets

An address is its bytes in memory, and an integer the sequence of its bytes from
the most significant one on; `InHostOrder` says how the host lays it out, and
`SwapOrder` is `htonl` and its kin, so that a missing or doubled conversion gives
another value, as it does in the program. `sa_inet_union` is memory that two kinds
of addresses share, field by field. `Sockets` is a caller that holds a descriptor,
an address on the heap and a union, and calls every function in any order; each
system call in `fd_open` fails or not. The processes of this repository do not call
these functions; the module states what they promise to any caller. `Listen`,
`Accept` and `SapAccept` give the caller a second descriptor, that of a connection;
on a local socket `fd_sap_accept` throws after it has accepted (see the remarks),
and the caller does not use it there.

## Runs, bounds and what they show

| Run | Instance | Shows |
|---|---|---|
| `MCChannel` | 8 lines, one id, payloads of 56, 57, 248, 376, 504, 505 bytes, sums below 640, `Spec` | types; no check in `write()` throws; `can_write()` never promises too much |
| `MCChannelSafe` | 4 lines, ids 1 and 2, payloads of 56, 57, 184, 248 bytes, thresholds 64 and 120, `FairSafeSpec` | `FifoInv`, `ReaderNeverFails`, `NoOverwrite`, `HeldIntact`, `RefusesOnlyWhenShort`; refinement of `MessageFifo`, with every record delivered; refused for ever only behind a record at the end |
| `MCChannelReplay` | 4 lines, payloads of 56 and 184 bytes, `Spec` | *violation*, see below |
| `MCWakeup` | 4 messages each way, ordered stores, socketpair | `NoSleepWithUnread`, `WakeupsBounded`, every message read without any timeout |
| `MCWakeupTimeout` | 3 messages each way, delayed stores and eventfd | every message read thanks to the timeouts |
| `MCWakeupReordered` | 2 messages each way | *violation* |
| `MCShutdown` | 2 messages each way, signals and crashes of both at any time, each step of the start failing or not | `TypeOK`, `NothingLost`, `CleanUnlessLate`, `EndOfFileIsTrue`, `BothEnd` |
| `MCShutdownEof` | 1 message each way | *violation* |
| `MCControlStream` | bytes below 5, messages of up to 6 bytes, a buffer of 7, 3 messages and a report, either platform | `RefusesOnlyJunk`; refinement of `ControlLink`; every message handed over (`LinkServes`) |
| `MCRouter` | 4 lines, 2 channels, 5 texts, 2 replies under way, `RouterSafeSpec` | `NobodyThrows`, `AnnouncedAhead`, `SameChannels`, `TextsInOrder`, `ChannelsOpen` |
| `MCPollTable` | 2 events on 2 descriptors, memory for 4 PollEvents, a list of 2 changes, batches of up to 3 | the inductive invariant `PollInv` and of its parts `KernelAgrees`, `ChangesSucceed`, `UdataLive`; `CallsOpenEvents` |
| `MCSockets` | 5 IPv4 and 4 IPv6 addresses and all that conversions make of them, 1 port besides 0, 6 combinations of flags, a socket and a connection, 2 descriptors, little-endian | `NoLeak`, `FamilyAsAsked`, `OrderIsTotal`, `MappingKeepsMeaning`, `UnionIsSource`, `ConnectReachesHost` |

Why these bounds are enough. The channel's decisions depend on the free lines
at the end, the free lines at the start, and how a payload compares with them.
56 bytes are the most a line can hold, 57 the first size that needs two, 184
needs three and 248 fills the ring; a ring of four lines meets every branch of
`write()`: whole at the tail, cut at the tail, split, wrapped after a record at
the end, between writer and reader, refused for each reason. Only
`available_write()` compares with `split_threshold`, 256 bytes, hence the 8
lines of `MCChannel`: 376 bytes fit its tail and head only if the second header
is counted. For 504 bytes `can_write()` computes with 576, the largest sum below `Word` (640
there), for 505 with 0. The channel's state space is finite without a bound on the number of
writes. In `Wakeup` four messages are one more than the wakeups that can be under
way, and three wakeups are reached. In `Shutdown` two messages let one be
published before and one after the shutdown message. In `ControlStream` lengths need
both of their bytes (`Base` is 5, the longest message 6 bytes), a message of 8 bytes
with its length does not fit the buffer of 7, shorter ones share it with a part of
the next, and a report of 7 bytes is too long to be sent. The bytes keep the one
relation that matters between those of the program: 1024 / 256 is below every
letter, as 6 / 5 is below 2. Five texts and two
announcements go around `Router`'s ring of four lines almost twice. Two events in
`PollTable` are one that is handled and one that its handler closes; four PollEvents
let two closed ones wait while both events are open again; two changes fill the
list in the middle of an operation. The addresses of `MCSockets` are one for each
answer of the predicates, and two that are each other's bytes in reverse.

`MCPollTable` and `MCSockets` use symmetry, the first of events, descriptors and
PollEvents, the second of descriptors: no definition distinguishes them, and these
runs check no liveness.

`MCShutdown` and `MCShutdownEof` turn deadlock checking off because the two
processes really stop, `MCControlStream` because both ends are closed at last,
`MCRouter` because the number of texts is bounded and a behaviour that would drain
the ring at its end stops before it.

## Fairness

* `Channel!FairSafeSpec`: a `write()` that has begun runs to its end, and the reader
  keeps calling `process_reads()`, as both loops do in every round. Writers need
  not write.
* `Wakeup!WakeupFairSpec`: a process that is not asleep is scheduled, and a delayed
  store becomes visible. A poll need not time out: this is what makes
  `EveryMessageRead` a statement about wakeups. `TimeoutFairSpec` adds that a poll
  ends at its timeout; both loops pass at most one and five seconds
  (`message_interval`).
* `Router!RouterSafeSpec`: the parent creates its channels, as `parent_process()` does
  before its loop, a `write()` runs to its end, and the child's loop reads. Nobody
  need write texts or replies.
* `Shutdown!FairSpec`: both processes are scheduled and a poll returns. Signals,
  crashes and the five seconds of the shutdown are free to happen or not.
* `ControlStream!FairSpec`: a `send_message_internal()` and an `event_read()` that have
  begun run on, and the receiver's loop polls, as it does in every round. Nobody
  need send, leave or crash.

## Proofs

All proofs are checked by TLAPS with Z3, Zenon and LS4. The assumptions are the
named `ASSUME`s of the modules:

* `SizeAssumption`: the ring is a multiple of the line size (`initialize()` throws
  otherwise) with at least three lines (segments are whole pages).
* `IdsAssumption`, `SizesAssumption`: ids and sizes are positive (`write()` throws
  otherwise). There is no upper bound on a payload.
* `WordAssumption`: `Word` is 2^32, or any other multiple of the line size above the size
  of the ring. As `write()` takes the least of a payload and what fits, every sum in it
  and in the reader's calls stays within the ring; only the one in `can_write()` wraps.
* `ThresholdsAssumption`: a threshold is positive and no more than an empty ring
  takes when its offsets are in its middle. `initialize()` sets an eighth of the
  ring and nothing in the repository sets another.
* `PeersAssumption`, `BoundAssumption`, `OptionAssumption`: two processes, any
  number of messages, any of the four variants.
* `NoneAssumption`, `BoundAssumption` (of `PollTable`): `None` is no event, descriptor
  or PollEvent, and the list of changes has room for one at least
  (`m_max_events` is 1024 in the program). Any numbers of events, descriptors and
  PollEvents, finite or not.
* `RouterAssumption`, `ChannelsAssumption` (of `Router`): any number of channels, texts
  and replies; the ids that are given out may be written to, and the ring has a line
  for each announcement, because nobody reads while `create_new_channel()` is called.
* `PeersAssumption`, `FailureAssumption` (of `Startup`), `CrashAssumption`,
  `BoundAssumption` (of `Shutdown`): two processes, any of which may crash, any step
  of the start failing or none, any number of messages.
* `BytesAssumption`, `TextAssumption`, `WordsAssumption`, `JunkAssumption`,
  `ReportAssumption`, `CapacityAssumption`, `PlatformAssumption` (of `ControlStream`): any
  base of the bytes and any limit of a message's length that two bytes can hold, any
  buffer of a byte or more, and reports of two bytes or more (one byte that comes late
  would leave `event_read()` in its loop). Of the texts it is assumed that no byte of
  them is as small as the first byte of a length (1024 / 256 is below every letter), and
  that the words of a shutdown are no words of a report.
* `ByteOrderAssumption`, `NumericAssumption`, `PortsAssumption`, `NoneAssumption` (of
  `SocketAddress` and `Sockets`): a host of either byte order, any set of IPv4 and
  IPv6 addresses and ports, any descriptors. Nothing is assumed of the flags.

`ChannelProofs`:

* `TypeCorrect`: `Spec => []TypeOK`, and `WriterIsSafe`:
  `Spec => []WriterNeverFails`. Types alone are not inductive, because `Publish`
  copies an offset that was computed earlier; nor is `WriterNeverFails`, because
  what is thrown depends on the offsets at the start. The invariant `WellFormed`
  adds `PlacementInv`: while a write is going on, its local variables are a
  placement for the read offset it sampled. The arithmetic is in lemmas about
  rounding (`AlignRoundsUp`, `AlignStaysBelow`, `RecordEndStaysBelow`), in
  `PlacementIsWellPlaced` (any payload that is not refused is placed in the free
  part that the sample shows) and in `WriteDoesNotFail`.
* `CanWriteKeepsItsPromise`: `Spec => []CanWriteIsEnough`. What `available_write()`
  returns is compared with what `write()` would place, case by case of the two
  offsets (`CanWriteAccepts`). It holds up to `LargestSize`; `CanWriteWraps` shows that this
  bound is exact, as `can_write()` answers true to the next larger size whatever the
  ring holds.
* `RefusalsAreJustified`: `Spec => []RefusesOnlyWhenShort`. The lines of a stretch are
  counted by a bijection (`LinesOfStretch`), so that the room of `RefusesOnlyWhenShort`,
  a number of free lines, becomes the bytes that `write()` computes (`FreeLines`).

`ChannelSafetyProofs`:

* `SafeInvariant`: `SafeSpec => []SafeInv`, where `SafeInv` adds to `WellFormed`
  - `SampleInv`: the reader only moved forward, through lines that were unread
    when the writer sampled its offset, so that the sample errs on the safe side;
  - `ChainInv`: every header among the unread lines is followed by the rest of
    its record and then by the next header or the end of the unread part;
  - `CopiedInv`: what was copied and not yet published is complete;
  - `HeldInv`: what the reader holds is the first unread record.

  The steps that need all of it are `Publish`, which makes unread what was
  copied (`PublishedRecords`, `PublishedLines`, `PublishedEnds`), and
  `ConsumeHeader`, which may move to the start of the ring.
* `NeverOverwrites`, `ReaderIsSafe` and `HeldStaysIntact` follow from it.
* `ChannelImplementsFifo`: `SafeSpec => ImplementsFifo`. It needs three things more
  (`QueueInvariance`): what is being written was asked for (`RequestInv`), so is every
  record in the ring (`NamedInv`), and an idle reader holds nothing (`IdleInv`). The queue
  is no recursive walk from header to header but the finite set of headers, ordered
  by distance, so that no induction is needed: the elements before one number it
  (`Ranks`, `InOrderNumbers`), one more behind all others comes last (`OneMore`), and without
  the first one the others move up, whatever happens to the distances as long as they
  keep their order (`OneLess`). What remains is the ring:
  - `PublishedHeaders`: publishing adds one header or two, farther from the reader than
    all others, on either side of the end of the ring;
  - `ConsumedHeaders`: consuming takes away the header at the read offset and no other,
    as the lines the reader skips hold none, and brings all others nearer by the
    same number of bytes;
  - `WritingIsInvisible`: copying touches no unread line, so that `SameQueue` applies.

`WakeupProofs`:

* `WakeupTypeCorrect`, for all four variants.
* `NoLostWakeup`: for ordered stores on a socketpair, `[]NoSleepWithUnread`. The
  invariant ties `consumer_state` to the label of its process (`StateInv`) and
  says that a process marked as interrupted before its poll has its wakeup coming
  (`InterruptInv`).
* `WakeupsStayBounded`: at most two wakeups are left when a process goes back to
  its loop, three while it polls. Each round of the loop grants its peer one
  successful compare-and-swap (`Credit`), and a poll that finds nothing to read
  had at most one wakeup pending (`PendingInv`).

`PollProofs`:

* `PollConsistent`: `Spec => []PollInv`. `KernelAgrees` says that the kernel's
  filters, once the pending changes are applied, are those that the masks ask for;
  to keep it, an operation must find the table and the masks in order
  (`TableMatches`, `MaskInv`), two events must not have a descriptor in common
  (`FdsInv`), and what is pending must be about events in the table
  (`PendingInv`). `UdataLive` needs to know when `process()` keeps closed PollEvents
  (`PhaseInv`). What a list of changes does is in `NothingApplied` and `LastApplied`,
  without induction: only the last change about a filter counts. There is one
  lemma for each operation, and one for each half of `modify()`, which may flush the
  list before it adds to it.
* `PollTypeCorrect`, `LookUpsSucceed`, `KernelStaysInAgreement`, `NoChangeRefused`,
  `NoPointerDangles` and `OnlyOpenEventsCalled` follow from it.

`ShutdownProofs`:

* `Invariance`: `Spec => []ShutdownInv`, from which `ShutdownLosesNothing`,
  `EndOfFileMeansGone`, `OnlyTheLateThrow` and `TypeCorrect` follow. What a process
  concludes about its peer must be tied to what the peer has done:
  - `HeldInv`: what a process holds follows from where it is and whether it has
    seen the end of file;
  - `GoneInv`: who has seen an end of file is right, the peer has left its loop or
    saw one itself, and such a peer never writes again;
  - `EventInv`: a readable descriptor of the batch has data, or its peer is gone;
  - `PollingInv`: `flag_polling` is set only while its reader polls, or was killed
    there, so that the wakeup of a writer finds an open socket;
  - `ToldInv`: the child is told to stop only by a parent that is already waiting;
  - `HeardInv`: a control message follows no more than was published, and that much
    is consumed before the flags are looked at.

  Two processes share the state, so that each step has two sides. `StepOf` and
  `SharedStep` say what a step of one process may do to the other, and
  `PeerUndisturbed` keeps the other's part of the invariant under them, once and
  for all; each action then has a lemma about its own process.

`RouterProofs`:

* `RouterInvariance`: `RouterSafeSpec => []RouterInv`, from which `NeitherThrows`,
  `ChannelsAgree`, `AnnouncementsComeFirst` and `TextsComeInOrder` follow. A step of a
  Router is a step of its channel (`RouterStepsAreSafe`, and `RouterUsesChannel` for whole
  behaviours), so that all of `SafeInv` can be used and the channel between two Routers
  is a queue (`RouterChannelIsFifo`), and a message of the program takes one line (`SmallPlacement`). What is added
  says where in the ring both processes are:
  - `IdsInv`: the i-th channel of either process has the id i + 1, and the child has
    no more of them than the parent;
  - `MessageInv`: what is being written is the parent's message, on one line;
  - `ProgressInv`: until the last announcement is consumed, the read offset is the
    number of announcements consumed (`Consumed`) times the line size; the
    write offset likewise (`Published`). The distance of the two offsets
    counts the messages between them, announcements and texts;
  - `ContentsInv`: an unread line holds the announcement whose turn it is at this place,
    or else the text that its distance from the reader tells.

  `WriteTextKeeps` and `PublishKeeps` show that a new line takes its place at the
  end of the order, `DispatchKeeps` that the id it carries is registered or, on id 1,
  free, and `ConsumeKeeps` that all distances shrink by one line.

`ControlStreamProofs`:

* `ControlInvariance`: `Spec => []ControlInv`. The stream has no boundaries, so that
  the invariant speaks of bytes that are in no variable any more: there are all the bytes
  that were ever given to the socket, a place where each message starts, and the
  places that both ends have reached, such that
  - `SentInv`: these bytes are those of the messages posted, of what is left of one that
    was cut, and of the message being sent;
  - `StreamInv`: the socket holds those between the receiver's place and the sender's;
  - `ReadInv`: what the receiver has got lies just before its place;
  - `PlaceInv`: it began to read at the start of the next message (`AtMessage`), or too
    late, at that of its text (`AtText`), or behind a fragment (`AtJunk`).

  TLC cannot evaluate these quantifiers; they hold of the states of the small instance
  with witnesses computed from them. A message that is begun comes behind all others
  (`NewBytes`, `OldBytes`), and one that is torn out leaves a fragment of a known length
  (`TornOut`). A text taken for a length is too long (`LargerIsTooLong`).
* `NothingSentIsRefused` (`RefusesOnlyJunk`) follows from it.
* `StreamImplementsLink`: `Spec => ImplementsLink`. Each action is a step of the link or a
  stutter (`SendPartLinks`, `PanicLinks`, `ReadNothingLinks`, `PayloadReadLinks`). That junk
  never becomes a shutdown is in `JunkText`: what is read over a fragment contains
  the length of the report that followed, which is no letter, or only bytes of that
  report.

`SocketsProofs`:

* `LessIsTotalOrder`: `sa_less` is a strict total order over both families that
  agrees with `sa_equal`. The orders of host and network cancel (`OrdersCancel`), and
  comparing bytes is total (`BelowIsTotal`: the first byte that differs, by the
  well-foundedness of the naturals).
* `MappedMeansTheSame`: the twelve bytes of the mapping are worked out one by one
  (`MappedBytes`, `MappedMeans`); before equal bytes the order of the others is
  unchanged (`MappedOrder`).
* `UnionReadsBack` (`UnionKeeps`), `ConnectsToTheHost`, `NothingLeaks` and `FamilyIsAllowed`
  follow from an invariant in two halves, one about descriptors (`SocketInv`) and
  one about addresses (`AddressInv`).

Model-checked only: everything under fairness (`DeliversEverything`,
`RefusedForeverOnlyAtEnd`, `EveryMessageRead`, `BothEnd`, `ChannelsOpen`, `LinkServes`). All other
properties of the passing runs are theorems.

## Where the code does something else

Each of these is a run that TLC ends with a counterexample.

* `MCChannelReplay`: after the reader drains a ring whose last record ends at its
  end, it reads all old records again and `write()` answers `EAGAIN`
  (`channel.cc:285` and `:153`). If a write was going on meanwhile, the reader may
  also find payload in place of a header. In the program the old records include
  announcements, and `register_handler()` throws in the child.
* `MCWakeupReordered`: the release store of `flag_polling` does not precede the second
  look at the channel (`router.cc:203`), which `router.cc:148` asks to verify. The
  message waits for the timeout. A sequentially consistent store, or a fence
  after it, would give the order that `NoLostWakeup` assumes.
* `MCShutdownEof`: the end of file on the wakeup socket makes `event_read()` wait for
  its own exit thread (`wakeup_fd.cc:144`): five seconds, then `exit(220)`, which the
  assertion in `~Poll` turns into an abort; a parent does not wait for its child. This takes no odd order of events: a control
  message and both ends of file pending at once are enough, as `ControlFd` reads one
  message per poll.

Smaller remarks, without a run: a write from an empty ring may leave every line
unread, although `channel.h:38` keeps one free; `write()` splits a payload over
fewer than `split_threshold` bytes at the end, contrary to `channel.h:12`;
`wake_reader` is documented in `channel.h:51` and never set to true;
`channel.cc:116` speaks of a zero-sized write, which throws; the sum in `can_write()` wraps
for sizes above 2^32 - 136, so that it promises what no ring can take (`CanWriteWraps`;
nothing in the repository calls it).

With `USE_EVENT_FD` both processes are given the same eventfd, and a process may read
the wakeup that it sent itself: TLC refutes `NoSleepWithUnread` when `SharedEventFd` is
`TRUE`, which is why `NoLostWakeup` assumes the socketpair.

A parent whose `Poll::create()` or `create_new_channel()` throws goes to `wait()` without
closing its descriptors, while the child waits for the end of file of the control
socket: each waits for the other (`WaitsForEachOther`, which `BothEnd` allows).

When the length of a control message was read and its payload is not there yet,
`event_read()` returns as if nothing had been read (`control_fd.cc:158`), although the
comments at lines 161 and 167 treat a message as one unit; the next call takes the
payload for a length. `late` in `ControlStream` marks it, and the refinement shows
that no shutdown comes of it. On Linux a payload of one byte that comes late would leave
`event_read()` in its loop until another byte comes;
reports are assumed to have two bytes or more.

`fd_sap_accept` copies the peer's address with `sa_copy`, which throws for a local one:
on a local socket the descriptor of the connection is lost.

## What is not modelled

* Padding records: `write_padding_header()` is never called, so that the padding
  branch of `read_header()` is not taken.
* Contents and wording of messages; logging; names of errors.
* `wait_is_alive()`, `check_is_alive()`, `check_socket_closed()`, the keepalive
  descriptor: nothing calls or polls them.
* `do_interrupt()` and the second `process()` after a poll, which finds no waiting
  events; `EINTR`, after which a call is repeated or ends as at its timeout.
* The texts of addresses and `getaddrinfo()`; the functions of `fd.cc` that are one
  system call; `exceptions.cc`, `common.h`, `thread.h`: stubs.
* The close-on-exec flags: nothing is executed. `Segment::destroy()`: nothing calls it.

## Plan

Done, in this order: Channel, Wakeup, Shutdown, Router, PollTable and Sockets; then
Startup, ControlStream, and the proofs for Shutdown, Sockets, Router and
ControlStream; then the refinement of `MessageFifo` by a channel, alone and between two
Routers. Next:

1. A composition of `Wakeup` with `do_interrupt()` and `m_polling_state`, for signals.
