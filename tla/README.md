# Qlaster in TLA+

Qlaster fans account, transaction and slot updates out from one sender to local
consumers. Each consumer has a slot in the sender's table, a ring in shared
memory and an eventfd; a Unix-domain socket carries subscriptions and pings.
Nothing on the data path takes a lock: tasks of the sender, and the consumer's
reader, work on the same state by single atomic operations. That is what these
modules are about.

## The parts of the system

| Part | Source | Module |
| --- | --- | --- |
| Subscription filter: what a consumer asked for, and the shortcuts that keep matching cheap | `src/sender/mod.rs` 116-216 | `SubscriptionFilter` |
| Connection manager: slot table, tokens, idle timeout, slot search, eviction; the socket tasks and the three dispatchers that use it | `src/sender/mod.rs`, `src/sender/shm.rs` | `ConnectionManager`, `SlotScan`, `EntryOfTable` |
| The life of one entry of the table, as the other parts rely on it | | `EntryLife` (abstract) |
| Start-up, end and restart of senders: socket path, pids, ring files | `src/sender/mod.rs`, `src/sender/shm.rs`, `src/shm/ring.rs` | `Restart` |
| Slot sink and ring: frames, close sentinel, unlinking of the ring file | `src/transport.rs`, `src/shm/ring.rs` | `Delivery` |
| Wakeups: eventfd, self-pipe and tokio's `AsyncFd` | `src/shm/eventfd.rs` | `EventFd`, `Wakeup` (abstract), `Delivery` |
| Consumer reader and the queues of the application | `src/consumer/shm.rs` 199-321 | `Delivery` |
| Consumer control plane: handshake, subscribe, ping | `src/consumer/shm.rs` 55-197, `src/sender/shm.rs` | `ControlPlane` |
| Descriptor passing and stream framing | `src/shm/uds.rs`, `src/wire.rs` | `Framing`, `ControlPlane` |
| Messages: encoders, decoders, compression | `src/types.rs` | `Codec` |
| Latency and event counters | `src/metrics.rs` | `Metrics` |

`PROJECT.json` has the same inventory with what is left out of each part, the
source lines behind every definition, and the hazards: the places where an
order of steps that no test exercises could go wrong.

A subscription travels from the socket task through `upsert_shm` into the
table; a dispatcher loads the slot, asks the filter, and pushes to the sink; the
sink writes to the ring and signals the eventfd; the reader wakes up, drains
the ring and queues the update. Eviction goes the other way: whoever finds a
slot idle for too long, or its ring without room, closes the sink and swaps the
entry out.

## The modules

**SubscriptionFilter.** `from_sets`, `with_request` and `matches_account` are
operators. `Bloom::random` chooses its hash keys at random, so building a filter
yields a *set* of filters, one per set of false positives. The state machine
applies requests to one filter; `asked` remembers the requests themselves.

**ConnectionManager.** The variables are the slot table (`connections`), the id
counter, the fields of each entry by id, the wall clock, and for every task its
program counter, the slot it works on and the `Arc` it holds. Tasks are
*handlers* (one per control socket) and *dispatchers* (one per kind of update).
An action is one atomic operation on shared state with the private computation
around it:

| Code | Actions |
| --- | --- |
| `maybe_cleanup_stale_slot`, `cleanup_if_same` | `CheckStale`, `EvictLoad`, `Close`, `SwapOut` |
| `run_listener`, `handle_uds_connection` | `Accept`, `Eof`, `ReceiveSubscription`, `ReceivePing` |
| `lookup_by_token`, `touch_ping`, `apply_request` | `LookupLoad`, `Touch`, `LoadFilter`, `StoreFilter` |
| `upsert_shm`, `find_free_slot` | `AllocateId`, `ScanLoad`, `ScanReload`, `CreateEntry`, `CreateFails`, `Install` |
| `dispatch_*_update`, `push_to_entry` | `ReceiveUpdate`, `VisitLoad`, `MatchFilter`, `Push` |

`now_ms()` is read together with the operation next to it; since the clock may
jump at any moment this loses no behaviour. A filter is the set of topics it
selects, which `SubscriptionFilter` shows to be exact. Whether a push succeeds
is left open here. A reply that cannot be sent is an `Eof` right after the
operation. A consumer whose token is no longer good is given a new slot, refuses
the reply and keeps the old token, as `send_subscription` does.

**SlotScan** adds to ConnectionManager what each scan for a free slot could have
had: the slots that were free and untouched since it began. **EntryOfTable**
looks at one entry only: whether it is new, in the table or out of it (`Place`),
and how far each task is with it (`Stage`).

**EntryLife** is the abstract specification of an entry. It is installed once;
tasks load it while it is installed and may keep their reference; a task that
decides to remove it checks that it is still there, closes its sink and takes it
out, and does so in the end. It is what ConnectionManager promises about each
entry (`TableKeepsEntries`) and what Delivery assumes of the one it is about
(`FollowsEntryLife`): the two models, written from two parts of the source,
meet there.

**Delivery.** One slot from its installation on. Sender tasks load the entry,
skip it, push to it, find it stale or evict it; the ring is a sequence of frames
with sizes, because what fits matters; its file is unlinked when the entry has
left the table and the last task drops it. The reader opens, registers, reads a
prefix, reads a body, checks, waits, drains; an error of its eventfd ends it at
any of the points where it uses it (`ReaderFails`). External parts are modelled from
their use: shaq's queue writes a slice whole or not at all and hands bytes out
in order; `AsyncFd` caches readiness, which `clear_ready` resets unless a newer
event was collected; epoll reports an edge per signal and the state at
registration; `ArrayQueue::force_push` overwrites the oldest.

**EventFd** has both backends, by the constant `Linux`: a counter that one read
empties, and a pipe that `drain()` empties `BufLen` bytes at a time while others
write, both with a limit at which `notify` succeeds without an effect. Either
implements **Wakeup**, a flag that `wait()` takes down, which is how Delivery
treats it.

**Framing** is one direction of the socket: positions in a byte stream that
writes and reads cut anywhere, the prefix and the payload of `write_framed` and
`read_framed`, the limit only the reader has, and, where the frames are replies
(`direction`), a first frame by one `sendmsg` and one `recvmsg` into a buffer of
fixed size, with no second one on its way. Each frame is kept with
the position behind it (`frames`), which is all that the proof needs to know of the
sum of the frames before it.

**Codec.** A message is a list of fields with widths and a payload with a
length; the encoders and decoders of `types.rs` are operators on them, with the
real tags, widths and limits. A parser takes its fields where its cursor stands
(`AccountCursor` and the like, from the widths of the reads before it), so a
field that an encoder writes with another width or in another order is lost. How
far LZ4 compresses is a choice, as is what it makes of bytes that it did not
write. Between encoding and decoding a frame may be cut or lengthened, or altered
in its version, in a flag (to neither of its values) or in a length; another
legal value of a flag or of a plain field would be another message. As encoders
and decoders keep nothing between messages, a behaviour is that of one message.

**Metrics.** `record` and `flush` take one relaxed atomic operation per step, in
any order, as the memory model allows for operations on different locations; the
history has what was recorded and reported, and whether a flush overlapped
anything.

**Restart.** Several senders with one socket path and one ring directory: they
start (`Start` removes the socket file, `Bind` makes a new one), hand out slots
whose ring file is named by pid, slot and id, stop in order, or die and leave
everything behind; a pid may be used again after the death of its owner.
Consumers connect, are told a path and open it later. The files are a function
from paths to rings, so that it is visible whose ring a consumer opens.

**ControlPlane.** One consumer, the sender's task for its socket, and the two
directions of the socket between them. A reply is a prefix and a payload, which
the consumer reads one after the other; the reply that announces a new slot
carries a descriptor and is sent in one piece. The consumer shakes hands,
subscribes, pings, may give up a subscribe that waits (`Cancel`) and may
disappear; the task serves a request, replies, forwards it, in that order; slots
are evicted at any time, and the sender, or whoever receives what it forwards
(`upstream`), may end. Slots go by their generation, and `upsert_shm` is one
step. A request is written in one step.

A subscribe given up between size and payload of its reply leaves the payload in
the socket, and `read_framed` knows no boundaries: the next one takes four bytes
of that payload for its size (`GoAstray`). From there on the model goes by bytes,
those of `ConnectionReady` and `ConnectionReadyShm`: a size is refused
(`TakeSize`), or as many bytes are awaited (`ReadAstray`) and decoded
(`TakeBytes`), and the call may end anywhere inside a later frame (`skip`) or not
at all. `accepted`, `refused`, `forwarded`, `lost`, `cancelled`, `cut` (one was
given up between size and payload) and `astray` (one read on from there) are
history.

**MC modules** give the constants small values. In `MCConnectionManager` each
behaviour has a *cast*, the tasks to which consumers and updates come, so that
one run covers several small line-ups; `MCTransport` puts Codec, Framing and
EventFd side by side, one of them per behaviour, as they share no state. The
`*_proofs` modules hold the proofs. A
definition introduced by "Fault:" is a plausible mistake in the code; putting it
in the place of the definition it stands before breaks the property that
`PROJECT.json` pairs it with.

## What is model-checked

| Run | Shows |
| --- | --- |
| `filter` | After any sequence of requests, whatever shortcut is taken, an update matches iff a request named it (`MatchesExactlyWhatWasAsked`), and the filter, its transaction switch included, is the one of all requests together (`FilterIsUnion`). |
| `manager_reuse` | Two consumers and a dispatcher, or one and two dispatchers, on one slot. Only condemned entries are closed (`JustifiedClose`), none is dropped without a close (`RemovedIsClosed`), a filter is what was acknowledged to its consumer although `apply_request` is not atomic (`FilterIsWhatWasAcked`), and a slot changes hands only through `None` (`SlotChangesHandsCleanly`). |
| `manager_slots` | Two consumers, or one and a dispatcher, on two slots. A fan-out misses no entry that stays and wants the update (`DispatchReachesAll`) and ends (`FanOutsEnd`); a consumer is refused only if no slot was free all along (`RefusalIsJustified`); a request ends in spite of lost races for its slot (`RequestsEnd`); silent entries are removed while updates come (`SilentIsEvicted`); the table implements `EntryLife` (`TableKeepsEntries`); `Inv` holds. |
| `delivery` | `NoLostWakeup`, `DeliveredInOrder` (in order, once, nothing behind a sentinel), `NewestKept`, a reader that does not fail ends only with its entry (`EndsOnlyWhenEvicted`), and `Inv`; every frame is read unless the reader ends (`EveryFrameIsRead`), a sentinel ends the reader (`SentinelStopsReader`), and the tasks treat the entry as `EntryLife` says (`FollowsEntryLife`). |
| `lost_close` | **Violated**: `EvictedReaderStops`. |
| `oversized` | **Violated**: `RefusedOnlyWhenFull`. |
| `transport` | Messages are decoded to themselves (`RoundTrip`) and damaged ones refused (`DamageIsRefused`); frames arrive whole and in order (`FramesInOrder`) and do arrive (`EveryFrameIsReturned`); both wakeup backends implement `Wakeup` (`ImplementsWakeup`). |
| `metrics` | Every sample is reported exactly once (`NothingLost`), no peak is lost (`PeakIsReported`), a flush that overlaps nothing is exact (`QuietFlushIsExact`), delays are rounded up (`DelayIsRoundedUp`), and `Inv`. |
| `restart` | A leftover file refuses at most one consumer (`LeftoverBlocksOnce`), the file of a ring in use is there and is its own (`RingsHaveTheirFiles`), and a consumer opens the ring it was told of as long as its sender runs (`OpensOwnRing`). |
| `control` | With evictions, departures, a sender that may end and callers that may give up. Until one does: what subscribe acknowledged is in the filter of the slot that is read (`AppliedUntilCancelled`), no reply outlives its call (`NoStaleReply`), acknowledged requests are forwarded while somebody receives them (`AcceptedIsForwarded`), and slots without a reader are due to calls that returned an error (`OrphansAreReported`). A call reads on where no frame begins only if one was given up between size and payload (`InStepUnlessCut`); as long as none does, every call returns (`CallsReturn`), also with stale replies about. |
| `stale_reply` | **Violated**: `OkMeansApplied`, once a caller has given up. |
| `dropped_descriptor` | **Violated**: `DescriptorIsRetrieved`. |

The violations are disagreements between code and comments:

* `close()` says it marks the queue closed by publishing a sentinel, and ignores
  that the sentinel may not fit. The notify comes before the swap and the
  unlinking, and there is none after. With the ring filled to its last bytes the
  reader drains it, sees the file still there and sleeps for good, on a slot
  that no longer exists.
* `shm_ring_full` is documented to count frames dropped because the ring was
  full. A frame larger than the ring takes the same path: the consumer is
  evicted as a slow one while its ring is empty.
* `send_subscription` says it drains the reply so that the next call does not
  pick it up. A caller that drops the future while it waits leaves the reply in
  the socket: the next subscribe returns Ok on it, before its own request was
  applied.
* `send_frame_with_fd` says its receiver must use `recv_frame_with_fd`. A
  subscribe after an eviction is answered with a descriptor and read with
  `read_framed`: the descriptor is dropped and the new slot has no reader.

Seen on the way, and denied by no document:

* A subscribe given up between size and payload of its reply may make a later one
  wait for ever while the sender lives: that one takes the payload's first four
  bytes for a size. They include the low byte of the generation; if it is 0 the
  size is below the limit, and as many bytes need not come, else it is refused and
  the call after it goes on with the bytes behind them. Without `astray`,
  `CallsReturn` is violated. The bytes of later frames would pass for a
  reply only if a generation held the bytes of version and tag.
* A reader that fails on its eventfd tells nobody. The consumer lives on and its
  slot is served until the ring is full.
* A sender that dies leaves its ring files and writes no sentinel. Its readers
  find the file in place and sleep; a consumer learns of it only when it pings or
  subscribes (`Restart`, `Crash` while a consumer is open).
* The name of a ring is unique while its sender runs, not beyond: a consumer that
  is slow to open may find, under the name it was told, the ring of a later
  sender with the same pid. `OpensOwnRing` is stated accordingly.
* `bind_listener` removes the socket of a sender that is still running; that
  sender goes on serving those it has and gets no more.
* When the write end of a self-pipe is closed, its read end stays readable:
  `wait()` goes round without sleeping until its task is aborted.
* The end of a control connection frees nothing: its slot is held until the idle
  timeout, and then until a scan or a fan-out comes by (`SilentIsEvicted` needs
  updates that keep coming).

**Bounds.** One slot, two handlers and two ids are enough for a slot to be
cleaned up and taken over while the first owner's token and references are
alive; two slots and three ids for a scan to be overtaken, to lose its slot and
to find both taken, and for a fan-out to be overtaken on either side. An idle
timeout of 0 with two clock values makes entries go stale; in `manager_reuse` the
clock moves both ways and entries recover, in `manager_slots` it only advances.
Three keys with a Bloom threshold of 2 reach all four arms of `matches_account`.
In `Delivery` the ring takes one or two frames, so that it is empty, partly
filled, full to less than a sentinel, and too small for a frame; queues of one
element overflow at the second update (that longer ones stay in order is left to
the proof of `NewestKept`). In `ControlPlane` three generations allow
two evictions with a new slot each, and three calls a subscribe before, between
and after them, or two that are given up and one that follows. The generations
are 256 to 258, since the counter may stand anywhere when a consumer comes and a
reader out of step goes by their bytes: the low one is 0 or not. In `transport` a
pipe of 5 bytes is drained 2 at a time, so that the last read is short, empty or
followed by another write, and eight calls of notify reach its limit; payloads of
0, 1, 3 and 4 bytes are below, at and above the limit of 3, and the socket holds
less than the largest frame. Codec has payloads of 0 and 1 byte and on either side of the
compression threshold and of the size limit, with the code's own numbers; it is
cut to at most 2 bytes, to its header and one byte less, and by one byte, or
lengthened by one. In
`Metrics` the clock has 16 values and a microsecond 4, two recorders record two
samples between them against one flusher. In `Restart` three senders with two
pids let one live next to another and a third inherit the pid of a dead one.
`MaxWrites`, `MaxConnectionId`, `MaxTime`, `MaxRequests`, `MaxGeneration`,
`MaxCalls`, `MaxNotifies`, `MaxFrames`, `MaxRecords`, `MaxEvents` and `MaxId` only
bound the state space.

**Deadlock.** Not a question these models ask. In the filter, the metrics and
`manager_reuse` a request, a flush or a tick of the clock is always possible, so
that the check, though left on, says nothing; elsewhere the system may stop: a
handler that needs an id when the bound is reached (`manager_slots`), a slot whose
entry is gone and whose reader has ended, a control connection of which both sides
have ended, frames and notifies that are used up, senders that are all gone. That
nobody waits in vain is what the liveness properties say.

**Fairness.** A sender task between loading an entry and dropping it has no
await, so it always finishes, and so does a fan-out or a request between two
frames (`Fairness` in `ConnectionManager`); the runtime polls a woken reader and
collects epoll's events (`Delivery`, `EventFd`), and a task whose socket is
readable or writable is polled (`ControlPlane`, `Framing`). Nothing is assumed
about new consumers, frames or updates, about the application taking what was
queued, or about the end of either side; calls, cancellations, evictions and
failures need never happen. `SilentIsEvicted` has updates that keep coming as its premise.
`RequestsEnd` speaks of requests that have their id, because the bound on ids is
not the code's. `CallsReturn` speaks of calls until one starts out of step, which
`InStepUnlessCut` says needs a call given up between size and payload.

## What is proved

All theorems hold for any values of the constants that satisfy the named
assumptions `FilterAssumption`, `ManagerAssumption`, `EntryAssumption`,
`DeliveryAssumption`, `MetricsAssumption`, `ControlAssumption`,
`FramingAssumption` and `CodecAssumption`. `Restart` needs none; `EventFd` needs that the
length of the drain buffer is a natural number.

Every safety theorem but those of `SubscriptionFilter` rests on an inductive
invariant. Most are proved in one lemma per action and conjunct; that of `Codec`,
whose actions are few and whose messages are many, in one lemma per message.

* `FilterMetrics_proofs`, of the filter. `FilterIsExact`: every arm of
  `matches_account` agrees with membership in the two sets, by cases on the arms;
  a one-element set equals its `Option`, and a Bloom filter without false
  negatives rejects only what is in neither set. With the inductive `FilterIsUnion` this gives
  `MatchesExactlyWhatWasAsked`, and `TransactionsStayOn`: transactions are
  selected iff a request opted in.
* `ConnectionManager_proofs`. `Invariance` proves `Inv`, from which seven properties follow: those of the runs, and that a closed
  entry is about to leave (`ClosedIsLeaving`) and that pushes are wanted
  (`OnlyWantedUpdates`). They are not inductive on their own: that the right
  entry is closed needs that the `Arc` in a task's hands belongs to the slot it
  works on (`TaskInv`), that ids in the hands of one handler are unknown to all
  others (`Published`, `Distinct`), and that an entry that left the table never
  returns (`Grow`). `FilterIsWhatWasAcked` needs that the only task that stores a
  filter is the handler whose token names it (`HandlerInv`), and
  `DispatchReachesAll` a count of how far the fan-out has come (`ProgressInv`).
  First come the types of each action, what a step that does not concern a
  conjunct leaves alone, and the shared cleanup; then the actions of handlers and
  dispatchers.
* `SlotTable_proofs`, `RefusalsAreJustified`: `find_free_slot` passes over
  no slot that is free all along. `ScanInv` says that whatever was there for the
  taking since the scan began lies ahead of it, or is the entry it is about to
  clean up. It is kept because every step of every task either leaves a scan where
  it is, begins it, ends it, or brings it one stage further (`Advances`), and a
  step of someone else takes the slots it touches out of the account.
* `SlotTable_proofs`, `TableImplementsEntryLife`: for any entry, every step
  of the table is a step of `EntryLife` or leaves `Place` and `Stage` alone. One
  lemma per action says what it does to the two; that a task which evicts or
  swaps an entry finds it where `EntryLife` has it comes from `Inv` of the table
  (`TaskInv`, `TableInv`, and `Grow` for entries of other tasks).
* `Delivery_proofs`. `Invariance` proves `Inv`: from the moment the reader finds
  the ring empty, whatever is written is signalled or about to be, and a signal
  is known to the runtime or about to be, also across `clear_ready` (`WakeInv`);
  sentinels and the missing file come only from tasks that remove the entry
  (`CloseInv`); the ring is the part of the log that was not yet delivered
  (`OrderInv`, `SizeInv`). `NoLostWakeup`, `DeliveredInOrder` and
  `EndsOnlyWhenEvicted`, which speaks of readers that took their ring for closed and
  not of those that failed, follow. `NewestKept` is inductive with `OrderInv`: an
  update that is queued is newer than all before it, and a queue that loses its
  oldest still holds everything from its new oldest on (`NewestTail`,
  `NewestAppend`). `TasksFollowEntryLife`: the tasks of `Delivery` keep to
  `EntryLife`.
* `FilterMetrics_proofs`, of the metrics. `Invariance` proves `Inv`: what was
  recorded is in the aggregate, in a snapshot, or in the hands of a recorder that has not come to it
  yet, separately for count, total, peak and events; and as long as no flush
  overlapped anything (`AloneInv`) the aggregate is the batch recorded since the
  last flush, less what the flush has taken. `NothingLost`, `PeakIsReported` and
  `QuietFlushIsExact` follow; `DelayIsRoundedUp` holds for any unit and width of
  the clock, also where adding the unit saturates.
* `ControlPlane_proofs`. `AppliedUntilCancelled`, `NoStaleReply`,
  `AcceptedIsForwarded`, `OrphansAreReported`, `InStepUnlessCut` and the action
  property `TokenIsStable`, for any topics, any number of evictions and of calls,
  and any generations and rings. `Inv` claims nothing of a consumer that is out of
  step but that a call was cut; of any other it has two parts, `Sound` and `InStep`.
  In `Sound`, `Exchange` lists the situations an exchange can be in while nobody
  has given up: not yet asked, quiet, a request in the socket, one taken by the
  sender with its answer on the way in one, two or no pieces, and severed; in each
  it says what is in either direction of the socket, what the answer will mean to
  the call that waits (`Honoured`) and how many slots have no reader. That tokens
  in messages are those the consumer has, or older than the next to be given out
  (`TokenInv`), keeps a reply from naming a slot by accident; it holds also after
  a cancellation, and `TokenIsStable` rests on it and the types alone. `InStep`
  holds after cancellations as well, whatever stale replies are about: the parts
  in the socket alternate between size and payload, from the one the caller reads
  next to the one before which the sender's task writes (`Chain`). Reading takes
  off its first part and writing adds a last (`ChainRead`, `ChainWrite`), so that a
  call which begins finds the size of a frame (`ReadersKeepStep`).
* `Restart_proofs`. `RingsHaveTheirFiles`, `LeftoverBlocksOnce` and the action
  property `OpensOwnRing`, for any number of senders, pids, slots and consumers.
  The invariant: running processes have different pids (`PidInv`); the files of a
  sender that has not died are those of the rings it holds, under ids it has used
  up (`RingsInv`); under the pid of a process there are only its own files and
  those it found when it started (`FilesInv`); a path that a consumer was told is
  under a used id, so that it is never made again (`ConsumerInv`); and the
  requests refused are no more than the found files whose ids are used up
  (`RefusedInv`), which is where the number of requests and a set of files meet.
* `Transport_proofs`. `FramesComeInOrder` (`FramesInOrder`, in either direction of
  the socket): the reader is always in the frame it counts,
  as many bytes before the end of its prefix or payload as it still wants
  (`ReaderInv`), and what is written ends inside the last frame (`WriterInv`).
  `EventFdImplementsWakeup`: each step of either backend is a step of `Wakeup` or
  none, and `NoWakeupIsLost`: a reader that waits while something is unread is
  ready or has an event coming, which is where `clear_ready` and a drain in
  several reads could have gone wrong.

* `Codec_proofs`. `MessagesRoundTrip` (`RoundTrip`) and `SpoiltMessagesRefused`
  (`DamageIsRefused`), for any values of the fields, any payloads up to the limits,
  any sizes that LZ4 gives them, any lists of keys, and damage to any length. For
  each kind of message, `...Header` says what the encoder writes and that its
  fields lie where the cursor of the parser stands, `...ComesBack` that it is
  decoded to itself, and `Spoilt...Refused` what becomes of it otherwise: the three
  parsers add up the lengths, so that a cut or another length is a misfit; a raw
  length that LZ4 was not given leaves no payload. `CodecAssumption` has what this
  needs of the senders: their slot indices are below the unset one, a ring has a
  name, and an id stands for the bytes of one payload. The invariant `CodecInv`
  keeps what the two properties do not mention, that the bytes at hand are an
  encoding of what was sent or one that was spoilt once. `DecodersNeverPanic`: the
  slice of the payload, by a length from the header, never reaches past the end.

Only model-checked: the liveness properties (`FanOutsEnd`, `RequestsEnd`,
`SilentIsEvicted`, `EveryFrameIsRead`, `SentinelStopsReader`,
`EveryFrameIsReturned`, `CallsReturn`) and the fairness part of the three
refinements (`TableKeepsEntries`, `FollowsEntryLife`, `ImplementsWakeup`), which
are out of the prover's reach. Every invariant and every action property of a
passing run has its theorem.

## Not modelled

Logging, failing notifies, `peek` and the averages of the metrics, configuration
checks (they come before any effect), the layout of ancillary data, and the
bytes inside a queue of shaq: its source is not part of this repository, and a
slice is taken to be written and read whole. LZ4, tokio, epoll, crossbeam and
the file system are taken as described above.

Left out for the sake of size:

* a request with so many keys that `write_all` has to wait for the socket, and a
  caller that gives it up half way (`ControlPlane`); `Framing` has the partial
  writes, without the giving up;
* tokens that the table did not give out or that two consumers share: an index
  outside the table finds nothing, and two handlers that apply requests to one
  entry could lose one of them (`ConnectionManager`);
* in `Restart`, the ring that is made for a slot which another request takes
  first, unlinked and made again under the same id, as part of `Provide`; and the
  lossy conversion of the path in the reply, which is the identity for paths in
  UTF-8;
* sums and counts of the metrics that reach 2^64, where `fetch_add` wraps.

## Plan

1. Composition of `ControlPlane` with `Restart`: a consumer across a restart of
   its sender.
2. Several consumers in `ControlPlane`, with slots held by departed ones until
   the timeout.
