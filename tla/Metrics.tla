------------------------------ MODULE Metrics ------------------------------
(***************************************************************************)
(* The metrics shared by the tasks of a process and whoever pulls them     *)
(* (metrics.rs): one LatencyAggregator and one CounterAggregator.          *)
(*                                                                         *)
(* record and flush are four relaxed atomic operations each, on four       *)
(* atomics: nothing makes the four one, and nothing orders them, so that   *)
(* every action below is a single operation on one of the atomics and the  *)
(* operations of one call come in any order.  What is reported is compared *)
(* with history variables that no flush takes anything from.               *)
(***************************************************************************)
EXTENDS Integers, FiniteSets

CONSTANTS
    Recorders,          \* tasks that record samples
    Flushers,           \* tasks that pull snapshots
    Times,              \* readings of the wall clock, in nanoseconds
    NANOS_PER_US,       \* 1000 in the code
    U64_MAX,
    MaxRecords,         \* bound on the samples recorded
    MaxEvents           \* bound on the events counted

ASSUME MetricsAssumption ==
    /\ U64_MAX \in Nat /\ NANOS_PER_US \in Nat \ {0}
    /\ Times \subseteq 0 .. U64_MAX
    /\ MaxRecords \in Nat /\ MaxEvents \in Nat
    /\ Recorders \cap Flushers = {}

VARIABLES
    sum_us, count, min_us, max_us,      \* LatencyAggregator
    value,              \* CounterAggregator
    rec,                \* recorder -> its sample, and what is left of its record
    flush,              \* flusher -> what is left of its flush
    snapshot            \* flusher -> what it has read so far

(* History.                                                                *)
VARIABLES
    seen,               \* what was recorded so far
    pulled,             \* what was flushed so far
    batch,              \* what was recorded since the last flush that ran alone
    clean,              \* that flush was the last one
    alone               \* a flush is going on, and nothing else was since it began

aggregate == <<sum_us, count, min_us, max_us>>
history == <<seen, pulled, batch, clean, alone>>
vars == <<aggregate, value, rec, flush, snapshot, history>>

Atomics == {"sum", "count", "min", "max"}

greater(a, b) == IF a >= b THEN a ELSE b
lesser(a, b) == IF a <= b THEN a ELSE b

\* Fault: rounded down.
elapsed_us_floor(start, now) ==
    IF start = 0 \/ now <= start THEN 0 ELSE (now - start) \div NANOS_PER_US

\* elapsed_since_unix_time_nanos_us: saturating, in microseconds rounded up.
elapsed_us(start, now) ==
    IF start = 0 \/ now <= start THEN 0
    ELSE lesser(now - start + NANOS_PER_US - 1, U64_MAX) \div NANOS_PER_US

Snapshot == [count : Nat, total_us : Nat, min_us : Nat, max_us : Nat]
Empty == [count |-> 0, total_us |-> 0, min_us |-> U64_MAX, max_us |-> 0]

NoSample == [todo |-> {}, start |-> 0, end |-> 0]
Totals == [counted : Nat, total : Nat, peak : 0 .. U64_MAX, events : Nat]

\* LatencyAggregator::default and CounterAggregator::default.
Init ==
    /\ sum_us = 0 /\ count = 0 /\ min_us = U64_MAX /\ max_us = 0
    /\ value = 0
    /\ rec = [r \in Recorders |-> NoSample]
    /\ flush = [f \in Flushers |-> Atomics]
    /\ snapshot = [f \in Flushers |-> Empty]
    /\ seen = [counted |-> 0, total |-> 0, peak |-> 0, events |-> 0]
    /\ pulled = seen
    /\ batch = Empty /\ clean = TRUE /\ alone = FALSE

Recording == {r \in Recorders : rec[r].todo # {}}
Flushing == {f \in Flushers : flush[f] # Atomics}

-----------------------------------------------------------------------------
(* LatencyAggregator::record of the time between two readings of the clock.*)

Record(r, start, now) ==
    /\ rec[r].todo = {} /\ seen.counted + Cardinality(Recording) < MaxRecords
    /\ rec' = [rec EXCEPT ![r] = [todo |-> Atomics, start |-> start, end |-> now]]
    /\ alone' = FALSE
    /\ UNCHANGED <<aggregate, value, flush, snapshot, seen, pulled, batch, clean>>

Sample(r) == elapsed_us(rec[r].start, rec[r].end)

\* One of the four operations; the sample is forgotten with the last.
Done(r, op) ==
    /\ op \in rec[r].todo
    /\ LET left == rec[r].todo \ {op}
       IN  rec' = [rec EXCEPT ![r] = IF left = {} THEN NoSample ELSE [rec[r] EXCEPT !.todo = left]]
    /\ UNCHANGED <<value, flush, snapshot, pulled, clean, alone>>

\* sum and count stay below 2^64, where fetch_add would wrap.
RecordSum(r) ==
    /\ Done(r, "sum")
    /\ sum_us' = sum_us + Sample(r)
    /\ seen' = [seen EXCEPT !.total = @ + Sample(r)]
    /\ batch' = [batch EXCEPT !.total_us = @ + Sample(r)]
    /\ UNCHANGED <<count, min_us, max_us>>

RecordCount(r) ==
    /\ Done(r, "count")
    /\ count' = count + 1
    /\ seen' = [seen EXCEPT !.counted = @ + 1]
    /\ batch' = [batch EXCEPT !.count = @ + 1]
    /\ UNCHANGED <<sum_us, min_us, max_us>>

RecordMin(r) ==
    /\ Done(r, "min")
    /\ min_us' = lesser(min_us, Sample(r))
    /\ batch' = [batch EXCEPT !.min_us = lesser(@, Sample(r))]
    /\ UNCHANGED <<sum_us, count, max_us, seen>>

\* Fault: the latest sample is stored, whatever was there.
RecordLatest(r) ==
    /\ Done(r, "max")
    /\ max_us' = Sample(r)
    /\ seen' = [seen EXCEPT !.peak = greater(@, Sample(r))]
    /\ batch' = [batch EXCEPT !.max_us = greater(@, Sample(r))]
    /\ UNCHANGED <<sum_us, count, min_us>>

RecordMax(r) ==
    /\ Done(r, "max")
    /\ max_us' = greater(max_us, Sample(r))
    /\ seen' = [seen EXCEPT !.peak = greater(@, Sample(r))]
    /\ batch' = [batch EXCEPT !.max_us = greater(@, Sample(r))]
    /\ UNCHANGED <<sum_us, count, min_us>>

-----------------------------------------------------------------------------
(* LatencyAggregator::flush.                                               *)

\* One of the four swaps; the first of a flush finds out whether it is alone.
Swap(f, op) ==
    /\ op \in flush[f]
    /\ flush' = [flush EXCEPT ![f] = @ \ {op}]
    /\ alone' = IF f \in Flushing THEN alone ELSE Recording = {} /\ Flushing = {}
    /\ UNCHANGED <<value, rec, seen, batch, clean>>

\* Fault: the count is read and not zeroed.
SwapCountKeeps(f) ==
    /\ Swap(f, "count")
    /\ snapshot' = [snapshot EXCEPT ![f].count = count]
    /\ pulled' = [pulled EXCEPT !.counted = @ + count]
    /\ UNCHANGED aggregate

SwapCount(f) ==
    /\ Swap(f, "count")
    /\ count' = 0
    /\ snapshot' = [snapshot EXCEPT ![f].count = count]
    /\ pulled' = [pulled EXCEPT !.counted = @ + count]
    /\ UNCHANGED <<sum_us, min_us, max_us>>

SwapSum(f) ==
    /\ Swap(f, "sum")
    /\ sum_us' = 0
    /\ snapshot' = [snapshot EXCEPT ![f].total_us = sum_us]
    /\ pulled' = [pulled EXCEPT !.total = @ + sum_us]
    /\ UNCHANGED <<count, min_us, max_us>>

\* Fault: the minimum is reset to zero like the others.
SwapMinToZero(f) ==
    /\ Swap(f, "min")
    /\ min_us' = 0
    /\ snapshot' = [snapshot EXCEPT ![f].min_us = min_us]
    /\ UNCHANGED <<sum_us, count, max_us, pulled>>

SwapMin(f) ==
    /\ Swap(f, "min")
    /\ min_us' = U64_MAX
    /\ snapshot' = [snapshot EXCEPT ![f].min_us = min_us]
    /\ UNCHANGED <<sum_us, count, max_us, pulled>>

SwapMax(f) ==
    /\ Swap(f, "max")
    /\ max_us' = 0
    /\ snapshot' = [snapshot EXCEPT ![f].max_us = max_us]
    /\ pulled' = [pulled EXCEPT !.peak = greater(@, max_us)]
    /\ UNCHANGED <<sum_us, count, min_us>>

\* What flush returns: an empty snapshot has the minimum 0, not the initial u64::MAX.
Reported(s) == [s EXCEPT !.min_us = IF s.count = 0 THEN 0 ELSE @]

Return(f) ==
    /\ flush[f] = {}
    /\ flush' = [flush EXCEPT ![f] = Atomics]
    /\ snapshot' = [snapshot EXCEPT ![f] = Reported(@)]
    /\ batch' = IF alone THEN Empty ELSE batch
    /\ clean' = alone /\ alone' = FALSE
    /\ UNCHANGED <<aggregate, value, rec, seen, pulled>>

-----------------------------------------------------------------------------
(* CounterAggregator.                                                      *)

\* inc and add.
CounterAdd(n) ==
    /\ seen.events + n <= MaxEvents
    /\ value' = value + n
    /\ seen' = [seen EXCEPT !.events = @ + n]
    /\ UNCHANGED <<aggregate, rec, flush, snapshot, pulled, batch, clean, alone>>

CounterFlush ==
    /\ value' = 0
    /\ pulled' = [pulled EXCEPT !.events = @ + value]
    /\ UNCHANGED <<aggregate, rec, flush, snapshot, seen, batch, clean, alone>>

-----------------------------------------------------------------------------
Next ==
    \/ \E r \in Recorders :
          \/ \E start, now \in Times : Record(r, start, now)
          \/ RecordSum(r) \/ RecordCount(r) \/ RecordMin(r) \/ RecordMax(r)
    \/ \E f \in Flushers :
          SwapCount(f) \/ SwapSum(f) \/ SwapMin(f) \/ SwapMax(f) \/ Return(f)
    \/ \E n \in 1 .. MaxEvents : CounterAdd(n)
    \/ CounterFlush

Spec == Init /\ [][Next]_vars

-----------------------------------------------------------------------------
(* Every variable holds a value of its type.                               *)
TypeOK ==
    /\ sum_us \in Nat /\ count \in Nat /\ min_us \in 0 .. U64_MAX /\ max_us \in 0 .. U64_MAX
    /\ value \in Nat
    /\ rec \in [Recorders -> [todo : SUBSET Atomics, start : 0 .. U64_MAX, end : 0 .. U64_MAX]]
    /\ flush \in [Flushers -> SUBSET Atomics]
    /\ snapshot \in [Flushers -> Snapshot]
    /\ {seen, pulled} \subseteq Totals
    /\ batch \in Snapshot
    /\ clean \in BOOLEAN /\ alone \in BOOLEAN

(* However flushes and records interleave, every sample is counted in      *)
(* exactly one snapshot, its time is in exactly one snapshot (maybe not    *)
(* the same), and every event is in one flush of the counter: "without     *)
(* compounding" (metrics.rs:95).                                           *)
NothingLost ==
    /\ count + pulled.counted = seen.counted
    /\ sum_us + pulled.total = seen.total
    /\ value + pulled.events = seen.events

(* The greatest sample ever recorded is the greatest max_us ever reported, *)
(* unless it is still to be pulled: no race of fetch_max and swap drops it.*)
PeakIsReported == greater(pulled.peak, max_us) = seen.peak

(* A recorded delay is the time between the two clock readings in whole    *)
(* microseconds, rounded up, and 0 if the clocks run backwards or the      *)
(* start was never stamped; only within a microsecond of u64::MAX is it    *)
(* rounded down.                                                           *)
DelayIsRoundedUp ==
    \A r \in Recorders :
       LET d == rec[r].end - rec[r].start
       IN  IF rec[r].start = 0 \/ d <= 0 THEN Sample(r) = 0
           ELSE /\ (Sample(r) - 1) * NANOS_PER_US < d
                /\ \/ Sample(r) * NANOS_PER_US >= d
                   \/ d + NANOS_PER_US - 1 > U64_MAX

QuietFlush(f) == flush[f] = {} /\ flush'[f] = Atomics /\ alone /\ clean

(* A flush that overlaps no record and no other flush, after one that did  *)
(* not either, reports exactly the samples recorded since: the count, the  *)
(* total, the least and the greatest.                                      *)
QuietFlushIsExact ==
    [][\A f \in Flushers : QuietFlush(f) => snapshot'[f] = Reported(batch)]_vars

-----------------------------------------------------------------------------
(* The inductive invariant: as long as no flush overlapped anything, the   *)
(* aggregate is the batch; and a flush that is alone finds the atomics it  *)
(* has not come to as they were, and leaves the others empty.              *)

BatchIsThere ==
    /\ count = batch.count /\ sum_us = batch.total_us
    /\ min_us = batch.min_us /\ max_us = batch.max_us

\* One atomic, for a flush that is alone: what it holds, held, gave and is left with.
Taken(f, op, now, was, read, empty) ==
    IF op \in flush[f] THEN clean => now = was
    ELSE now = empty /\ (clean => read = was)

AloneInv ==
    /\ alone => Recording = {} /\ \E f \in Flushers : Flushing = {f}
    /\ clean /\ Flushing = {} => BatchIsThere
    /\ alone => \A f \in Flushing :
          /\ Taken(f, "count", count, batch.count, snapshot[f].count, 0)
          /\ Taken(f, "sum", sum_us, batch.total_us, snapshot[f].total_us, 0)
          /\ Taken(f, "min", min_us, batch.min_us, snapshot[f].min_us, U64_MAX)
          /\ Taken(f, "max", max_us, batch.max_us, snapshot[f].max_us, 0)

Inv == TypeOK /\ NothingLost /\ PeakIsReported /\ AloneInv
=============================================================================
