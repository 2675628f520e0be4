------------------------------ MODULE Delivery ------------------------------
(***************************************************************************)
(* The data plane of one slot, from the moment its entry is installed: the *)
(* sender's tasks write frames to the ring and signal the eventfd          *)
(* (SlotSink), the consumer's reader task sleeps on the eventfd, drains    *)
(* the ring and queues the updates for the application (run_reader).       *)
(*                                                                         *)
(* The ring is a byte queue shared by processes; a frame occupies its      *)
(* length prefix and its body.  What is used of shaq's queue: a slice is   *)
(* written whole or not at all, and bytes are read in the order in which   *)
(* they were written.  tokio's AsyncFd is modelled down to its cached      *)
(* readiness, because that is where a wakeup could be lost.                *)
(***************************************************************************)
EXTENDS Naturals, SequencesExt

CONSTANTS
    Tasks,              \* sender tasks that come across the slot
    Kinds,              \* "account", "transaction", "slot" in the code
    Frames,             \* [kind, size] of the frames to push
    Capacity,           \* of the ring, in units of size
    FRAME_LEN_BYTES,    \* the length prefix; also the size of a sentinel
    QueueCapacity,      \* CONSUMER_UPDATE_QUEUE_CAPACITY, 2048 in the code
    MaxWrites           \* bound on the frames written to the ring

ASSUME DeliveryAssumption ==
    /\ {FRAME_LEN_BYTES, Capacity, QueueCapacity, MaxWrites} \subseteq Nat \ {0}
    /\ Frames \subseteq [kind : Kinds, size : Nat]
    /\ \A f \in Frames : f.size > FRAME_LEN_BYTES
    /\ "close" \notin Kinds

VARIABLES
    installed,          \* the table still holds the entry
    linked,             \* the ring file exists
    ring,               \* what is in the ring
    task,               \* what each sender task does next with the entry
    wakeup,             \* the eventfd's counter is not zero
    edge,               \* epoll has an event for the runtime to collect
    ready,              \* AsyncFd's cached readiness
    fresh,              \* an event was collected since the guard was taken
    reader,             \* what the reader task does next
    closed,             \* ShmRingConsumer.closed
    queue,              \* kind -> the ArrayQueue the application pops
    gone,               \* the consumer was dropped or has crashed
    log,                \* history: what was written to the ring, by kind
    delivered           \* history: what was queued for the application

senderVars == <<installed, linked, task>>
eventVars == <<wakeup, edge, ready, fresh>>
readerVars == <<reader, closed, queue, gone, delivered>>
vars == <<senderVars, ring, log, eventVars, readerVars>>

Init ==
    /\ installed = TRUE /\ linked = TRUE
    /\ ring = <<>> /\ log = <<>>
    /\ task = [t \in Tasks |-> "idle"]
    /\ wakeup = FALSE /\ edge = FALSE /\ ready = FALSE /\ fresh = FALSE
    /\ reader = "handshake" /\ closed = FALSE /\ gone = FALSE
    /\ queue = [k \in Kinds |-> <<>>] /\ delivered = <<>>

-----------------------------------------------------------------------------
(* Sender tasks.  Between Load and its release a task holds the Arc.       *)

Goto(t, label) == task' = [task EXCEPT ![t] = label]

\* Fault: the file goes with any reference, not with the last one.
ReleaseUnlinks(t, inTable) ==
    /\ Goto(t, "idle")
    /\ linked' = (linked /\ \E u \in Tasks \ {t} : task[u] # "idle")

\* Dropping the last Arc of an entry that left the table removes the ring file.
Release(t, inTable) ==
    /\ Goto(t, "idle")
    /\ linked' = (linked /\ (inTable \/ \E u \in Tasks \ {t} : task[u] # "idle"))

Load(t) ==
    /\ task[t] = "idle" /\ installed
    /\ Goto(t, "loaded")
    /\ UNCHANGED <<installed, linked, ring, log, eventVars, readerVars>>

\* The filter does not select the update.
Skip(t) ==
    /\ task[t] = "loaded"
    /\ Release(t, installed)
    /\ UNCHANGED <<installed, ring, log, eventVars, readerVars>>

\* maybe_cleanup_stale_slot found the entry idle for too long.
Stale(t) ==
    /\ task[t] = "loaded"
    /\ Goto(t, "close")
    /\ UNCHANGED <<installed, linked, ring, log, eventVars, readerVars>>

Used == FoldSeq(LAMBDA f, n : f.size + n, 0, ring)

\* try_write_slice: all of it or nothing.
Fits(size) == Used + size <= Capacity

Written == Len(SelectSeq(log, LAMBDA k : k # "close"))

Frame == [kind : Kinds \cup {"close"}, size : Nat, id : Nat]

Append1(kind, size) ==
    /\ ring' = Append(ring, [kind |-> kind, size |-> size, id |-> Len(log) + 1])
    /\ log' = Append(log, kind)

\* push_to_entry: a frame that is not written, because the ring has no room for
\* it now or never can have, makes the consumer a slow one.
Push(t, f) ==
    /\ task[t] = "loaded"
    /\ \/ /\ Fits(f.size) /\ Written < MaxWrites
          /\ Append1(f.kind, f.size)
          /\ Goto(t, "notify")
       \/ /\ ~Fits(f.size)
          /\ Goto(t, "evict")
          /\ UNCHANGED <<ring, log>>
    /\ UNCHANGED <<installed, linked, eventVars, readerVars>>

Registered == {"pop", "body", "check", "wait", "drain", "clear"}

\* EventFd::notify: the counter goes up and, once the fd is registered, epoll
\* reports an edge.
Signal ==
    /\ wakeup' = TRUE
    /\ edge' = (reader \in Registered)
    /\ UNCHANGED <<ready, fresh>>

Notify(t) ==
    /\ task[t] = "notify"
    /\ Signal
    /\ Release(t, installed)
    /\ UNCHANGED <<installed, ring, log, readerVars>>

\* Fault: the entry is closed without asking whether it is still in the table.
EvictBlindly(t) ==
    /\ task[t] = "evict"
    /\ Goto(t, "close")
    /\ UNCHANGED <<installed, linked, ring, log, eventVars, readerVars>>

\* cleanup_if_same: someone else may have removed the entry.
EvictLoad(t) ==
    /\ task[t] = "evict"
    /\ \/ installed /\ Goto(t, "close") /\ UNCHANGED linked
       \/ ~installed /\ Release(t, installed)
    /\ UNCHANGED <<installed, ring, log, eventVars, readerVars>>

\* SlotSink::close: the sentinel is dropped silently if it does not fit.
CloseRing(t) ==
    /\ task[t] = "close"
    /\ \/ Fits(FRAME_LEN_BYTES) /\ Append1("close", FRAME_LEN_BYTES)
       \/ ~Fits(FRAME_LEN_BYTES) /\ UNCHANGED <<ring, log>>
    /\ Goto(t, "close_notify")
    /\ UNCHANGED <<installed, linked, eventVars, readerVars>>

CloseNotify(t) ==
    /\ task[t] = "close_notify"
    /\ Signal
    /\ Goto(t, "swap")
    /\ UNCHANGED <<installed, linked, ring, log, readerVars>>

\* compare_and_swap(entry -> None) and the end of the visit.
SwapOut(t) ==
    /\ task[t] = "swap"
    /\ installed' = FALSE
    /\ Release(t, FALSE)
    /\ UNCHANGED <<ring, log, eventVars, readerVars>>

-----------------------------------------------------------------------------
(* The consumer.                                                           *)

\* The end of the handshake: the ring file is opened, unless it is gone already.
Open ==
    /\ reader = "handshake"
    /\ reader' = IF linked THEN "register" ELSE "done"
    /\ UNCHANGED <<senderVars, ring, log, eventVars, closed, queue, gone, delivered>>

\* Fault: a counter that is not zero when the fd is registered goes unreported.
RegisterBlind ==
    /\ reader = "register"
    /\ reader' = "pop"
    /\ edge' = FALSE
    /\ UNCHANGED <<senderVars, ring, log, wakeup, ready, fresh, closed, queue, gone, delivered>>

\* AsyncEventFd::new: epoll reports a counter that is not zero already.
Register ==
    /\ reader = "register"
    /\ reader' = "pop"
    /\ edge' = wakeup
    /\ UNCHANGED <<senderVars, ring, log, wakeup, ready, fresh, closed, queue, gone, delivered>>

\* Fault: the sentinel is skipped, like an empty ring.
PopHeaderForgets ==
    /\ reader = "pop"
    /\ \/ /\ ring = <<>>
          /\ reader' = "check" /\ UNCHANGED <<ring, closed>>
       \/ /\ ring # <<>> /\ Head(ring).kind = "close"
          /\ ring' = Tail(ring) /\ reader' = "check" /\ UNCHANGED closed
       \/ /\ ring # <<>> /\ Head(ring).kind # "close"
          /\ ring' = [ring EXCEPT ![1].size = @ - FRAME_LEN_BYTES]
          /\ reader' = "body" /\ UNCHANGED closed
    /\ UNCHANGED <<senderVars, log, eventVars, queue, gone, delivered>>

\* try_pop reads the length prefix, which frees its bytes: nothing there, the
\* sentinel, or a frame whose body comes next.
PopHeader ==
    /\ reader = "pop"
    /\ \/ /\ ring = <<>>
          /\ reader' = "check" /\ UNCHANGED <<ring, closed>>
       \/ /\ ring # <<>> /\ Head(ring).kind = "close"
          /\ closed' = TRUE /\ ring' = Tail(ring) /\ reader' = "check"
       \/ /\ ring # <<>> /\ Head(ring).kind # "close"
          /\ ring' = [ring EXCEPT ![1].size = @ - FRAME_LEN_BYTES]
          /\ reader' = "body" /\ UNCHANGED closed
    /\ UNCHANGED <<senderVars, log, eventVars, queue, gone, delivered>>

\* Fault: a full queue refuses the new element.
push(q, e) == IF Len(q) < QueueCapacity THEN Append(q, e) ELSE q

\* ArrayQueue::force_push: a full queue loses its oldest element.
force_push(q, e) ==
    IF Len(q) < QueueCapacity THEN Append(q, e) ELSE Append(Tail(q), e)

\* The body is read, decoded and queued by its kind.
PopBody ==
    /\ reader = "body"
    /\ ring' = Tail(ring)
    /\ queue' = [queue EXCEPT ![Head(ring).kind] = force_push(@, Head(ring).id)]
    /\ delivered' = Append(delivered, Head(ring).id)
    /\ reader' = "pop"
    /\ UNCHANGED <<senderVars, log, eventVars, closed, gone>>

\* is_closed: the sentinel was seen, or the ring file is no longer there.
Check ==
    /\ reader = "check"
    /\ reader' = IF closed \/ ~linked THEN "done" ELSE "wait"
    /\ UNCHANGED <<senderVars, ring, log, eventVars, closed, queue, gone, delivered>>

\* AsyncEventFd::wait: readable().await, drain(), and clear_ready() if there was
\* nothing to drain; clear_ready spares an event newer than its guard.
Wait ==
    /\ reader = "wait" /\ ready
    /\ reader' = "drain"
    /\ fresh' = FALSE
    /\ UNCHANGED <<senderVars, ring, log, wakeup, edge, ready, closed, queue, gone, delivered>>

\* Fault: the reader sleeps again before it looks at the ring.
DrainSleeps ==
    /\ reader = "drain"
    /\ wakeup' = FALSE
    /\ reader' = IF wakeup THEN "wait" ELSE "clear"
    /\ UNCHANGED <<senderVars, ring, log, edge, ready, fresh, closed, queue, gone, delivered>>

Drain ==
    /\ reader = "drain"
    /\ wakeup' = FALSE
    /\ reader' = IF wakeup THEN "pop" ELSE "clear"
    /\ UNCHANGED <<senderVars, ring, log, edge, ready, fresh, closed, queue, gone, delivered>>

\* Fault: readiness is cleared whatever happened since the guard was taken.
ClearAll ==
    /\ reader = "clear"
    /\ ready' = FALSE
    /\ reader' = "wait"
    /\ UNCHANGED <<senderVars, ring, log, wakeup, edge, fresh, closed, queue, gone, delivered>>

Clear ==
    /\ reader = "clear"
    /\ ready' = fresh
    /\ reader' = "wait"
    /\ UNCHANGED <<senderVars, ring, log, wakeup, edge, fresh, closed, queue, gone, delivered>>

\* The runtime collects epoll's event; epoll may have withdrawn it, if the
\* counter was drained before it was asked.
Collect ==
    /\ edge /\ edge' = FALSE
    /\ \/ ready' = TRUE /\ fresh' = TRUE
       \/ ~wakeup /\ UNCHANGED <<ready, fresh>>
    /\ UNCHANGED <<senderVars, ring, log, wakeup, readerVars>>

\* try_next_update and its siblings.
Take(k) ==
    /\ queue[k] # <<>>
    /\ queue' = [queue EXCEPT ![k] = Tail(@)]
    /\ UNCHANGED <<senderVars, ring, log, eventVars, reader, closed, gone, delivered>>

\* The consumer is dropped, which aborts the reader, or its process dies.
Disappear ==
    /\ reader # "done"
    /\ reader' = "done" /\ gone' = TRUE /\ edge' = FALSE
    /\ UNCHANGED <<senderVars, ring, log, wakeup, ready, fresh, closed, queue, delivered>>

\* run_reader returns on an error of its eventfd: AsyncFd::new refuses it, or
\* wait() fails, in readable() or in drain().  Nobody is told: the consumer lives
\* on, and so does the entry, until its ring is full or it goes stale.
ReaderFails ==
    /\ reader \in {"register", "wait", "drain"}
    /\ reader' = "failed"
    /\ UNCHANGED <<senderVars, ring, log, eventVars, closed, queue, gone, delivered>>

-----------------------------------------------------------------------------
\* A sender task does not wait for anyone between Load and its release.
TaskStep(t) ==
    \/ Skip(t) \/ Stale(t) \/ Notify(t) \/ EvictLoad(t)
    \/ CloseRing(t) \/ CloseNotify(t) \/ SwapOut(t)
    \/ \E f \in Frames : Push(t, f)

ReaderStep ==
    Open \/ Register \/ PopHeader \/ PopBody \/ Check \/ Wait \/ Drain \/ Clear

Next ==
    \/ \E t \in Tasks : Load(t) \/ TaskStep(t)
    \/ ReaderStep
    \/ Collect
    \/ \E k \in Kinds : Take(k)
    \/ Disappear \/ ReaderFails

Spec == Init /\ [][Next]_vars

(* Tasks are polled to their next await, the runtime polls a task that was *)
(* woken and collects epoll's events; nobody has to load the slot, the     *)
(* application need not take anything, nor the consumer disappear or its   *)
(* eventfd fail.                                                           *)
FairSpec ==
    /\ Spec
    /\ \A t \in Tasks : WF_vars(TaskStep(t))
    /\ WF_vars(ReaderStep) /\ WF_vars(Collect)

-----------------------------------------------------------------------------
\* run_reader has returned, for whatever reason.
Ended == reader \in {"done", "failed"}

(***************************************************************************)
(* TypeOK: every variable has its type.                                    *)
(***************************************************************************)
TypeOK ==
    /\ {installed, linked, wakeup, edge, ready, fresh, closed, gone} \subseteq BOOLEAN
    /\ ring \in Seq(Frame)
    /\ task \in [Tasks -> {"idle", "loaded", "notify", "evict", "close", "close_notify",
                           "swap"}]
    /\ reader \in {"handshake", "register", "done", "failed"} \cup Registered
    /\ queue \in [Kinds -> Seq(Nat)]
    /\ log \in Seq(Kinds \cup {"close"}) /\ delivered \in Seq(Nat)

(***************************************************************************)
(* NoLostWakeup: while the reader sleeps and the ring is not empty, the    *)
(* wakeup is on its way: a task is between its write and its notify, or    *)
(* the eventfd is signalled and the runtime knows or is about to.          *)
(***************************************************************************)
NoLostWakeup ==
    reader = "wait" /\ ring # <<>> =>
        \/ \E t \in Tasks : task[t] \in {"notify", "close_notify"}
        \/ wakeup /\ (ready \/ edge)

(***************************************************************************)
(* DeliveredInOrder: the application is given the frames in the order of   *)
(* the ring, each once, up to the first sentinel; a reader that has seen   *)
(* a sentinel has delivered everything written before it.                  *)
(***************************************************************************)
DeliveredInOrder ==
    LET n == Len(delivered)
    IN  /\ delivered = [i \in 1 .. n |-> i]
        /\ n <= Len(log) /\ \A i \in 1 .. n : log[i] # "close"
        /\ closed => n < Len(log) /\ log[n + 1] = "close"

(***************************************************************************)
(* NewestKept: a queue holds the most recent of the updates of its kind,   *)
(* in order and each once: force_push gives up the oldest, never a newer   *)
(* one, and nothing newer than an update that was kept is missing.         *)
(***************************************************************************)
Newest(q, S) ==
    /\ \A i, j \in DOMAIN q : i < j => q[i] < q[j]
    /\ Range(q) = {e \in S : \E old \in Range(q) : old <= e}

NewestKept ==
    \A k \in Kinds : Newest(queue[k], {e \in Range(delivered) : log[e] = k})

(***************************************************************************)
(* EndsOnlyWhenEvicted: a reader that takes its ring for closed, or finds  *)
(* no file to open, is right: its entry was closed, and a task is about to *)
(* remove it or it is removed.  Short of an error of its eventfd (then it  *)
(* is "failed") no live consumer stops reading a slot that is still        *)
(* served.                                                                 *)
(***************************************************************************)
EndsOnlyWhenEvicted ==
    reader = "done" /\ ~gone =>
        ~installed \/ \E t \in Tasks : task[t] \in {"close_notify", "swap"}

(***************************************************************************)
(* EveryFrameIsRead: whatever is written to the ring is read, unless the   *)
(* reader ends: "Drain whatever's in the ring before sleeping on the       *)
(* eventfd ... we don't want to miss a wake".                              *)
(***************************************************************************)
EveryFrameIsRead ==
    \A n \in 1 .. MaxWrites + 1 :
        Len(log) >= n ~> Len(log) - Len(ring) >= n \/ Ended

(***************************************************************************)
(* SentinelStopsReader: once a close sentinel is in the ring the reader    *)
(* ends, however the close races with pushes, wakeups and the unlinking.   *)
(***************************************************************************)
SentinelStopsReader == Contains(log, "close") ~> Ended

(***************************************************************************)
(* EvictedReaderStops: once its entry was closed and removed, the          *)
(* consumer's reader ends.  This is what close() is documented to be for:  *)
(* "Mark the queue closed for the consumer by publishing a sentinel        *)
(* frame."                                                                 *)
(***************************************************************************)
EvictedReaderStops == ~installed ~> Ended

(***************************************************************************)
(* FollowsEntryLife: the sender tasks of this slot do with its entry what  *)
(* the connection table lets tasks do with any entry (EntryOfTable shows   *)
(* that): what holds here of one slot holds of the whole sender.           *)
(***************************************************************************)
Stage(label) ==
    CASE label = "idle" -> "none"
      [] label \in {"loaded", "notify"} -> "loaded"
      [] label \in {"close_notify", "swap"} -> "swap"
      [] OTHER -> label

Life == INSTANCE EntryLife WITH
            place <- IF installed THEN "table" ELSE "out",
            hold <- [t \in Tasks |-> Stage(task[t])]

FollowsEntryLife == Life!FairSpec

(***************************************************************************)
(* RefusedOnlyWhenFull: a push is refused, and the consumer evicted as a   *)
(* slow one, only while the ring holds something the consumer has yet to   *)
(* read: "frames dropped because the per-slot ring was full".              *)
(***************************************************************************)
RefusedOnlyWhenFull ==
    [][\A t \in Tasks : task[t] = "loaded" /\ task'[t] = "evict" => ring # <<>>]_vars

-----------------------------------------------------------------------------
(* The inductive invariant.                                                *)

Closing == {t \in Tasks : task[t] \in {"close_notify", "swap"}}

\* From the moment the reader has found the ring empty, whatever is written is
\* announced; and what is announced reaches the runtime, in spite of clear_ready.
WakeInv ==
    /\ reader \in {"wait", "drain", "clear"} => ~closed
    /\ reader \in {"check", "wait", "drain", "clear"} /\ ring # <<>> /\ ~closed =>
           wakeup \/ \E t \in Tasks : task[t] \in {"notify", "close_notify"}
    /\ wakeup /\ reader \in Registered \ {"clear"} => ready \/ edge
    /\ wakeup /\ reader = "clear" => fresh \/ edge

\* Everything that makes the reader end comes from a task that removes the entry.
CloseInv ==
    /\ ~linked => ~installed
    /\ closed \/ (\E i \in 1 .. Len(ring) : ring[i].kind = "close") =>
           ~installed \/ Closing # {}
    /\ EndsOnlyWhenEvicted

\* A frame in the ring has a body, also while the reader has its prefix only.
SizeInv ==
    \A i \in 1 .. Len(ring) :
        ring[i].kind # "close" /\ (i > 1 \/ reader \notin {"body", "done"}) =>
            ring[i].size > FRAME_LEN_BYTES

\* The ring holds what was written and not yet read; a sentinel stops the reader.
OrderInv ==
    /\ closed => reader \in {"check", "done"}
    /\ reader = "body" => ring # <<>> /\ Head(ring).kind # "close"
    /\ ~closed =>
           /\ Len(log) = Len(delivered) + Len(ring)
           /\ \A i \in 1 .. Len(ring) : /\ ring[i].id = Len(delivered) + i
                                        /\ ring[i].kind = log[Len(delivered) + i]
    /\ DeliveredInOrder

Inv == TypeOK /\ SizeInv /\ WakeInv /\ CloseInv /\ OrderInv /\ NewestKept
=============================================================================
