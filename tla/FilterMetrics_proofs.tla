------------------------ MODULE FilterMetrics_proofs ------------------------
(***************************************************************************)
(* Proofs about two components that stand for themselves.                  *)
(*                                                                         *)
(* The subscription filter: every shortcut of matches_account agrees with  *)
(* plain set membership, for any set of keys, any threshold and any false  *)
(* positives of the Bloom filter.                                          *)
(*                                                                         *)
(* Metrics, for any number of recorders and flushers: nothing is lost, the *)
(* peak is reported, and a flush that nothing overlaps is exact.           *)
(***************************************************************************)
EXTENDS SubscriptionFilter, Metrics, FiniteSetTheorems, TLAPS

-----------------------------------------------------------------------------
(* The filter.                                                             *)

(***************************************************************************)
(* A one-element set: Single returns it, and it has a known element.       *)
(***************************************************************************)
LEMMA SingleIsNoneOrAll ==
    ASSUME NEW S, IsFiniteSet(S)
    PROVE  /\ Single(S) # {} => Single(S) = S
           /\ Single(S) = {} => Cardinality(S) # 1
<1>1. CASE Cardinality(S) = 1
  <2>1. PICK x : S = {x}
    BY <1>1, FS_Singleton, Zenon
  <2>. QED BY <1>1, <2>1, Zenon DEF Single
<1>2. CASE Cardinality(S) # 1
  BY <1>2, Zenon DEF Single
<1>. QED BY <1>1, <1>2, Zenon

(***************************************************************************)
(* FilterIsExact: any filter from_sets can build matches an account update *)
(* iff the update's pubkey or owner is in the sets it was built from; the  *)
(* single-key arms and the Bloom pre-reject of matches_account never       *)
(* change the answer.                                                      *)
(***************************************************************************)
THEOREM FilterIsExact ==
    ASSUME NEW P \in SUBSET Keys, NEW O \in SUBSET Keys, NEW t \in BOOLEAN,
           IsFiniteSet(P), IsFiniteSet(O),
           NEW f \in from_sets(P, O, t), NEW u \in AccountUpdate
    PROVE  matches_account(f, u) <=> (u.account_pubkey \in P \/ u.account_owner \in O)
<1>1. PICK maybe \in BloomOver(P \cup O) :
        f = [account_pubkeys |-> P, account_owners |-> O, bloom |-> maybe,
             include_transactions |-> t, single_pubkey |-> Single(P),
             single_owner |-> Single(O),
             use_bloom_fast_reject |-> UseBloom(Cardinality(P) + Cardinality(O))]
  BY SMTT(30) DEF from_sets
<1>2. /\ f.account_pubkeys = P /\ f.account_owners = O /\ f.bloom = maybe
      /\ f.single_pubkey = Single(P) /\ f.single_owner = Single(O)
  BY <1>1, Zenon
<1>3. /\ Single(P) # {} => Single(P) = P
      /\ Single(O) # {} => Single(O) = O
  BY SingleIsNoneOrAll, Zenon
<1>4. CASE OnlyPubkey(f)
  <2>1. matches_account(f, u) <=> u.account_pubkey \in f.single_pubkey
    BY <1>4, Zenon DEF matches_account, OnlyPubkey, OnlyOwner, OneOfEach
  <2>. QED BY <1>2, <1>3, <1>4, <2>1, Zenon DEF OnlyPubkey
<1>5. CASE OnlyOwner(f)
  <2>1. matches_account(f, u) <=> u.account_owner \in f.single_owner
    BY <1>5, Zenon DEF matches_account, OnlyPubkey, OnlyOwner, OneOfEach
  <2>. QED BY <1>2, <1>3, <1>5, <2>1, Zenon DEF OnlyOwner
<1>6. CASE OneOfEach(f)
  <2>1. matches_account(f, u) <=> \/ u.account_pubkey \in f.single_pubkey
                                  \/ u.account_owner \in f.single_owner
    BY <1>6, Zenon DEF matches_account, OnlyPubkey, OnlyOwner, OneOfEach
  <2>. QED BY <1>2, <1>3, <1>6, <2>1, Zenon DEF OneOfEach
<1>7. CASE ~OnlyPubkey(f) /\ ~OnlyOwner(f) /\ ~OneOfEach(f)
  <2>1. matches_account(f, u) <=> /\ ~BloomRejects(f, u)
                                  /\ \/ u.account_pubkey \in f.account_pubkeys
                                     \/ u.account_owner \in f.account_owners
    BY <1>7, Zenon DEF matches_account
  <2>2. u.account_pubkey \in P \/ u.account_owner \in O => ~BloomRejects(f, u)
    BY <1>2, Zenon DEF BloomRejects, BloomOver
  <2>. QED BY <1>2, <2>1, <2>2, Zenon
<1>. QED BY <1>4, <1>5, <1>6, <1>7, Zenon

-----------------------------------------------------------------------------
(***************************************************************************)
(* A filter built by from_sets keeps the sets and the flag it was given.   *)
(***************************************************************************)
LEMMA FromSetsFields ==
    ASSUME NEW P, NEW O, NEW t, NEW f \in from_sets(P, O, t)
    PROVE  f.account_pubkeys = P /\ f.account_owners = O /\ f.include_transactions = t
BY DEF from_sets

(***************************************************************************)
(* The filter is at all times the union of the requests applied to it:     *)
(* from_request starts the union and with_request extends it.              *)
(***************************************************************************)
THEOREM FilterInductive == FilterSpec => []FilterIsUnion
<1>1. FilterInit => FilterIsUnion
  <2>. SUFFICES ASSUME NEW req \in Request, filter \in from_request(req), asked = {req}
                PROVE  FilterIsUnion
    BY Zenon DEF FilterInit
  <2>1. AskedPubkeys = req.account_pubkeys /\ AskedOwners = req.account_owners
    BY Zenon DEF AskedPubkeys, AskedOwners
  <2>2. AskedTransactions = req.include_transactions
    BY Zenon DEF AskedTransactions, Request
  <2>. QED BY <2>1, <2>2, Zenon DEF FilterIsUnion, from_request
<1>2. FilterIsUnion /\ [FilterNext]_filterVars => FilterIsUnion'
  <2>. SUFFICES ASSUME FilterIsUnion, [FilterNext]_filterVars PROVE FilterIsUnion'
    BY Zenon
  <2>1. ASSUME NEW req \in Request, ApplyRequest(req) PROVE FilterIsUnion'
    <3>1. /\ filter.account_pubkeys = AskedPubkeys /\ filter.account_owners = AskedOwners
          /\ filter.include_transactions = AskedTransactions
      BY FromSetsFields DEF FilterIsUnion
    <3>2. asked' = asked \cup {req} /\ filter' \in with_request(filter, req)
      BY <2>1, Zenon DEF ApplyRequest
    <3>3. /\ AskedPubkeys' = AskedPubkeys \cup req.account_pubkeys
          /\ AskedOwners' = AskedOwners \cup req.account_owners
      BY <3>2, Zenon DEF AskedPubkeys, AskedOwners
    <3>4. AskedTransactions' <=> (AskedTransactions \/ req.include_transactions)
      BY <3>2, Zenon DEF AskedTransactions
    <3>5. AskedTransactions' = (AskedTransactions \/ req.include_transactions)
      BY <3>4, Zenon DEF AskedTransactions
    <3>6. filter' \in from_sets(AskedPubkeys', AskedOwners', AskedTransactions')
      BY <3>1, <3>2, <3>3, <3>5, Zenon DEF with_request
    <3>. QED BY <3>2, <3>6, Zenon DEF FilterIsUnion
  <2>2. CASE UNCHANGED filterVars
    BY <2>2, Zenon DEF filterVars, FilterIsUnion, AskedPubkeys, AskedOwners, AskedTransactions
  <2>. QED BY <2>1, <2>2, Zenon DEF FilterNext
<1>. QED BY <1>1, <1>2, PTL DEF FilterSpec

(***************************************************************************)
(* MatchIsCorrect: whatever the requests, matches_account answers for the  *)
(* union of what they asked for.                                           *)
(***************************************************************************)
THEOREM MatchIsCorrect == FilterSpec => []MatchesExactlyWhatWasAsked
<1>1. FilterIsUnion => MatchesExactlyWhatWasAsked
  <2>. SUFFICES ASSUME FilterIsUnion, NEW u \in AccountUpdate
                PROVE  matches_account(filter, u) <=> AskedFor(u)
    BY Zenon DEF MatchesExactlyWhatWasAsked
  <2>1. AskedPubkeys \in SUBSET Keys /\ AskedOwners \in SUBSET Keys
    BY Zenon DEF FilterIsUnion, AskedPubkeys, AskedOwners, Request
  <2>2. IsFiniteSet(AskedPubkeys) /\ IsFiniteSet(AskedOwners)
    BY <2>1, FilterAssumption, FS_Subset, Zenon
  <2>3. AskedTransactions \in BOOLEAN
    BY Zenon DEF AskedTransactions
  <2>4. matches_account(filter, u) <=>
          (u.account_pubkey \in AskedPubkeys \/ u.account_owner \in AskedOwners)
    BY <2>1, <2>2, <2>3, FilterIsExact, Zenon DEF FilterIsUnion
  <2>5. AskedFor(u) <=> (u.account_pubkey \in AskedPubkeys \/ u.account_owner \in AskedOwners)
    BY Zenon DEF AskedFor, Wants, AskedPubkeys, AskedOwners
  <2>. QED BY <2>4, <2>5, Zenon
<1>. QED BY <1>1, FilterInductive, PTL

(***************************************************************************)
(* TransactionOptIn: include_transactions is the disjunction of the        *)
(* requests' flags, so a later request never switches transactions off.    *)
(***************************************************************************)
THEOREM TransactionOptIn == FilterSpec => []TransactionsStayOn
<1>1. FilterIsUnion => TransactionsStayOn
  BY FromSetsFields DEF FilterIsUnion, TransactionsStayOn, matches_transaction
<1>. QED BY <1>1, FilterInductive, PTL

-----------------------------------------------------------------------------
(* elapsed_since_unix_time_nanos_us.                                       *)

\* Division by a positive number.
LEMMA Division ==
    ASSUME NEW a \in Nat, NEW n \in Nat \ {0}
    PROVE  /\ a \div n \in 0 .. a
           /\ (a \div n) * n <= a
           /\ a < (a \div n) * n + n
  OBVIOUS

\* A delay is a u64.
LEMMA ElapsedType ==
    ASSUME NEW start \in 0 .. U64_MAX, NEW now \in 0 .. U64_MAX
    PROVE  elapsed_us(start, now) \in 0 .. U64_MAX
  <1>1. U64_MAX \in Nat /\ NANOS_PER_US \in Nat \ {0}
    BY MetricsAssumption, Zenon
  <1>2. CASE start = 0 \/ now <= start
    BY <1>1, <1>2 DEF elapsed_us
  <1>3. CASE ~(start = 0 \/ now <= start)
    <2> DEFINE d == lesser(now - start + NANOS_PER_US - 1, U64_MAX)
    <2>1. d \in 0 .. U64_MAX
      BY <1>1, <1>3 DEF lesser
    <2> HIDE DEF d
    <2>2. d \div NANOS_PER_US \in 0 .. d
      BY <1>1, <2>1, Division
    <2>3. d \div NANOS_PER_US \in 0 .. U64_MAX
      BY <1>1, <2>1, <2>2
    <2> QED
      BY <1>3, <2>3, Zenon DEF elapsed_us, d
  <1> QED
    BY <1>2, <1>3, Zenon

\* A delay in whole microseconds, rounded up unless u64::MAX is in the way.
LEMMA ElapsedRounds ==
    ASSUME NEW start \in 0 .. U64_MAX, NEW now \in 0 .. U64_MAX, start # 0, now > start
    PROVE  LET d == now - start
               e == elapsed_us(start, now)
           IN  /\ (e - 1) * NANOS_PER_US < d
               /\ e * NANOS_PER_US >= d \/ d + NANOS_PER_US - 1 > U64_MAX
  <1> DEFINE x == lesser(now - start + NANOS_PER_US - 1, U64_MAX)
             e == x \div NANOS_PER_US
             d == now - start
  <1>1. U64_MAX \in Nat /\ NANOS_PER_US \in Nat \ {0} /\ d \in Nat /\ d > 0
    BY MetricsAssumption
  <1>2. /\ x \in Nat /\ x <= d + NANOS_PER_US - 1
        /\ x = d + NANOS_PER_US - 1 \/ d + NANOS_PER_US - 1 > U64_MAX
    BY <1>1 DEF lesser
  <1> HIDE DEF x, d
  <1>3. e \in Nat /\ e * NANOS_PER_US <= x /\ x < e * NANOS_PER_US + NANOS_PER_US
    BY <1>1, <1>2, Division
  <1> HIDE DEF e
  <1>4. e * NANOS_PER_US \in Nat /\ (e - 1) * NANOS_PER_US = e * NANOS_PER_US - NANOS_PER_US
    BY <1>1, <1>3
  <1>5. (e - 1) * NANOS_PER_US < d
    BY <1>1, <1>2, <1>3, <1>4
  <1>6. e * NANOS_PER_US >= d \/ d + NANOS_PER_US - 1 > U64_MAX
    BY <1>1, <1>2, <1>3, <1>4
  <1>7. elapsed_us(start, now) = e
    BY DEF elapsed_us, e, x
  <1> QED
    BY <1>5, <1>6, <1>7, Zenon DEF d

\* The greater and the lesser of two values of a range.
LEMMA Extremes ==
    ASSUME NEW a \in 0 .. U64_MAX, NEW b \in 0 .. U64_MAX
    PROVE  greater(a, b) \in 0 .. U64_MAX /\ lesser(a, b) \in 0 .. U64_MAX
  BY Zenon DEF greater, lesser

\* The sample of a recorder is a u64.
LEMMA SampleType ==
    ASSUME TypeOK, NEW r \in Recorders
    PROVE  Sample(r) \in 0 .. U64_MAX
  <1>1. rec[r].start \in 0 .. U64_MAX /\ rec[r].end \in 0 .. U64_MAX
    BY Zenon DEF TypeOK
  <1> QED
    BY <1>1, ElapsedType, Zenon DEF Sample

-----------------------------------------------------------------------------
(* Types.                                                                  *)

\* One operation less to do.
LEMMA DoneType ==
    ASSUME TypeOK, NEW r \in Recorders, NEW op \in Atomics, Done(r, op)
    PROVE  rec' \in [Recorders -> [todo : SUBSET Atomics, start : 0 .. U64_MAX, end : 0 .. U64_MAX]]
  <1> DEFINE Job == [todo : SUBSET Atomics, start : 0 .. U64_MAX, end : 0 .. U64_MAX]
             left == rec[r].todo \ {op}
             job == IF left = {} THEN NoSample ELSE [rec[r] EXCEPT !.todo = left]
  <1>1. rec \in [Recorders -> Job] /\ rec[r] \in Job
    BY Zenon DEF TypeOK
  <1>2. job \in Job
    BY <1>1, MetricsAssumption DEF NoSample
  <1>3. rec' = [rec EXCEPT ![r] = job]
    BY Zenon DEF Done
  <1> QED
    BY <1>1, <1>2, <1>3, Zenon

\* The operations of record keep the types.
LEMMA RecordTypes ==
    ASSUME TypeOK, NEW r \in Recorders,
           RecordSum(r) \/ RecordCount(r) \/ RecordMin(r) \/ RecordMax(r)
    PROVE  TypeOK'
  <1>1. PICK op \in Atomics : Done(r, op)
    BY Zenon DEF RecordSum, RecordCount, RecordMin, RecordMax, Atomics
  <1>2. /\ rec' \in [Recorders -> [todo : SUBSET Atomics, start : 0 .. U64_MAX, end : 0 .. U64_MAX]]
        /\ UNCHANGED <<value, flush, snapshot, pulled, clean, alone>>
    BY <1>1, DoneType, Zenon DEF Done
  <1>3. Sample(r) \in 0 .. U64_MAX /\ Sample(r) \in Nat
    BY SampleType, MetricsAssumption
  <1>4. seen \in Totals /\ batch \in Snapshot
    BY Zenon DEF TypeOK
  <1>5. /\ min_us' \in 0 .. U64_MAX /\ max_us' \in 0 .. U64_MAX
        /\ sum_us' \in Nat /\ count' \in Nat
    BY <1>3, Extremes DEF TypeOK, RecordSum, RecordCount, RecordMin, RecordMax
  <1>6. seen' \in Totals
    <2>1. seen.total + Sample(r) \in Nat /\ seen.counted + 1 \in Nat
      BY <1>3, <1>4 DEF Totals
    <2>2. greater(seen.peak, Sample(r)) \in 0 .. U64_MAX
      BY <1>3, <1>4, Extremes, Zenon DEF Totals
    <2> QED
      BY <1>4, <2>1, <2>2, Zenon DEF Totals, RecordSum, RecordCount, RecordMin, RecordMax
  <1>7. batch' \in Snapshot
    <2>1. /\ batch.total_us + Sample(r) \in Nat /\ batch.count + 1 \in Nat
          /\ greater(batch.max_us, Sample(r)) \in Nat /\ lesser(batch.min_us, Sample(r)) \in Nat
      BY <1>3, <1>4 DEF Snapshot, greater, lesser
    <2> QED
      BY <1>4, <2>1, Zenon DEF Snapshot, RecordSum, RecordCount, RecordMin, RecordMax
  <1> QED
    BY <1>2, <1>5, <1>6, <1>7, Zenon DEF TypeOK

\* The operations of flush keep the types.
LEMMA FlushTypes ==
    ASSUME TypeOK, NEW f \in Flushers,
           SwapCount(f) \/ SwapSum(f) \/ SwapMin(f) \/ SwapMax(f) \/ Return(f)
    PROVE  TypeOK'
  <1>1. U64_MAX \in Nat /\ pulled \in Totals /\ batch \in Snapshot /\ snapshot[f] \in Snapshot
    BY MetricsAssumption, Zenon DEF TypeOK
  <1>2. /\ UNCHANGED <<value, rec, seen>> /\ flush' \in [Flushers -> SUBSET Atomics]
        /\ clean' \in BOOLEAN /\ alone' \in BOOLEAN
    <2>1. ASSUME NEW op \in Atomics, Swap(f, op)
          PROVE  /\ UNCHANGED <<value, rec, seen>> /\ flush' \in [Flushers -> SUBSET Atomics]
                 /\ clean' \in BOOLEAN
      BY <2>1, Zenon DEF TypeOK, Swap
    <2>2. ASSUME NEW op \in Atomics, Swap(f, op) PROVE alone' \in BOOLEAN
      BY <2>2, Zenon DEF TypeOK, Swap
    <2>3. CASE Return(f)
      <3>1. UNCHANGED <<value, rec, seen>> /\ flush' \in [Flushers -> SUBSET Atomics]
        BY <2>3, Zenon DEF TypeOK, Return
      <3>2. clean' \in BOOLEAN /\ alone' \in BOOLEAN
        BY <2>3, Zenon DEF TypeOK, Return
      <3> QED
        BY <3>1, <3>2, Zenon
    <2>4. Return(f) \/ \E op \in Atomics : Swap(f, op)
      BY Zenon DEF SwapCount, SwapSum, SwapMin, SwapMax, Atomics
    <2> QED
      BY <2>1, <2>2, <2>3, <2>4, Zenon
  <1>3. batch' \in Snapshot
    BY <1>1 DEF SwapCount, SwapSum, SwapMin, SwapMax, Return, Swap, Empty, Snapshot
  <1>4. /\ sum_us' \in Nat /\ count' \in Nat
        /\ min_us' \in 0 .. U64_MAX /\ max_us' \in 0 .. U64_MAX
    BY <1>1 DEF TypeOK, SwapCount, SwapSum, SwapMin, SwapMax, Return, aggregate
  <1>5. snapshot' \in [Flushers -> Snapshot]
    <2>1. /\ [snapshot[f] EXCEPT !.count = count] \in Snapshot
          /\ [snapshot[f] EXCEPT !.total_us = sum_us] \in Snapshot
          /\ [snapshot[f] EXCEPT !.min_us = min_us] \in Snapshot
          /\ [snapshot[f] EXCEPT !.max_us = max_us] \in Snapshot
          /\ Reported(snapshot[f]) \in Snapshot
      BY <1>1 DEF TypeOK, Snapshot, Reported
    <2> QED
      BY <2>1, Zenon DEF TypeOK, SwapCount, SwapSum, SwapMin, SwapMax, Return
  <1>6. pulled' \in Totals
    <2>1. pulled.counted + count \in Nat /\ pulled.total + sum_us \in Nat
      BY <1>1 DEF TypeOK, Totals
    <2>2. greater(pulled.peak, max_us) \in 0 .. U64_MAX
      BY <1>1, Extremes, Zenon DEF TypeOK, Totals
    <2> QED
      BY <1>1, <2>1, <2>2, Zenon DEF Totals, SwapCount, SwapSum, SwapMin, SwapMax, Return
  <1> QED
    BY <1>2, <1>3, <1>4, <1>5, <1>6, Zenon DEF TypeOK

LEMMA TypeStep ==
    ASSUME TypeOK, Next
    PROVE  TypeOK'
  <1>1. ASSUME NEW r \in Recorders, NEW start \in Times, NEW now \in Times, Record(r, start, now)
        PROVE  TypeOK'
    <2>1. start \in 0 .. U64_MAX /\ now \in 0 .. U64_MAX
      BY MetricsAssumption, Zenon
    <2>2. rec' \in [Recorders -> [todo : SUBSET Atomics, start : 0 .. U64_MAX, end : 0 .. U64_MAX]]
      BY <1>1, <2>1, Zenon DEF Record, TypeOK
    <2> QED
      BY <1>1, <2>2, Zenon DEF Record, TypeOK, aggregate
  <1>2. ASSUME NEW n \in 1 .. MaxEvents, CounterAdd(n) PROVE TypeOK'
    <2>1. n \in Nat /\ value' \in Nat
      BY <1>2, MetricsAssumption DEF CounterAdd, TypeOK
    <2>2. seen \in Totals
      BY Zenon DEF TypeOK
    <2>3. seen' \in Totals
      BY <1>2, <2>1, <2>2 DEF CounterAdd, Totals
    <2> QED
      BY <1>2, <2>1, <2>3, Zenon DEF CounterAdd, TypeOK, aggregate
  <1>3. CASE CounterFlush
    <2>1. pulled \in Totals /\ value \in Nat
      BY Zenon DEF TypeOK
    <2>2. pulled' \in Totals
      BY <1>3, <2>1 DEF CounterFlush, Totals
    <2> QED
      BY <1>3, <2>2, Zenon DEF CounterFlush, TypeOK, aggregate
  <1> QED
    BY <1>1, <1>2, <1>3, RecordTypes, FlushTypes, Zenon DEF Next

-----------------------------------------------------------------------------
(* Totals.                                                                 *)

\* Whatever is added to an atomic is there or was swapped out.
LEMMA TotalsStep ==
    ASSUME TypeOK, NothingLost, PeakIsReported, Next
    PROVE  NothingLost' /\ PeakIsReported'
  <1>1. /\ seen \in Totals /\ pulled \in Totals /\ value \in Nat /\ U64_MAX \in Nat
        /\ sum_us \in Nat /\ count \in Nat /\ max_us \in 0 .. U64_MAX
    BY MetricsAssumption, Zenon DEF TypeOK
  <1>2. ASSUME NEW r \in Recorders, RecordSum(r) \/ RecordCount(r) \/ RecordMin(r) \/ RecordMax(r)
        PROVE  NothingLost' /\ PeakIsReported'
    <2>1. Sample(r) \in 0 .. U64_MAX
      BY SampleType, Zenon
    <2>2. UNCHANGED <<value, pulled>>
      BY <1>2, Zenon DEF RecordSum, RecordCount, RecordMin, RecordMax, Done
    <2>3. CASE RecordSum(r)
      <3>1. sum_us' = sum_us + Sample(r) /\ seen'.total = seen.total + Sample(r)
        BY <1>1, <2>3, Zenon DEF RecordSum, Totals
      <3>2. seen'.counted = seen.counted /\ seen'.events = seen.events /\ seen'.peak = seen.peak
        BY <1>1, <2>3, Zenon DEF RecordSum, Totals
      <3> QED
        BY <1>1, <2>1, <2>2, <2>3, <3>1, <3>2 DEF RecordSum, NothingLost, PeakIsReported, Totals
    <2>4. CASE RecordCount(r)
      <3>1. count' = count + 1 /\ seen'.counted = seen.counted + 1
        BY <1>1, <2>4, Zenon DEF RecordCount, Totals
      <3>2. seen'.total = seen.total /\ seen'.events = seen.events /\ seen'.peak = seen.peak
        BY <1>1, <2>4, Zenon DEF RecordCount, Totals
      <3> QED
        BY <1>1, <2>2, <2>4, <3>1, <3>2 DEF RecordCount, NothingLost, PeakIsReported, Totals
    <2>5. CASE RecordMin(r)
      BY <2>2, <2>5, Zenon DEF RecordMin, NothingLost, PeakIsReported
    <2>6. CASE RecordMax(r)
      <3>1. max_us' = greater(max_us, Sample(r)) /\ seen'.peak = greater(seen.peak, Sample(r))
        BY <1>1, <2>6, Zenon DEF RecordMax, Totals
      <3>2. seen'.total = seen.total /\ seen'.events = seen.events /\ seen'.counted = seen.counted
        BY <1>1, <2>6, Zenon DEF RecordMax, Totals
      <3>3. PeakIsReported'
        BY <1>1, <2>1, <2>2, <3>1 DEF PeakIsReported, Totals, greater
      <3> QED
        BY <2>2, <2>6, <3>2, <3>3, Zenon DEF RecordMax, NothingLost
    <2> QED
      BY <1>2, <2>3, <2>4, <2>5, <2>6, Zenon
  <1>3. ASSUME NEW f \in Flushers, SwapCount(f) \/ SwapSum(f) \/ SwapMin(f) \/ SwapMax(f) \/ Return(f)
        PROVE  NothingLost' /\ PeakIsReported'
    <2>1. UNCHANGED <<value, seen>>
      BY <1>3, Zenon DEF SwapCount, SwapSum, SwapMin, SwapMax, Return, Swap
    <2>2. CASE SwapCount(f)
      <3>1. /\ pulled'.counted = pulled.counted + count /\ pulled'.total = pulled.total
            /\ pulled'.events = pulled.events /\ pulled'.peak = pulled.peak
        BY <1>1, <2>2, Zenon DEF SwapCount, Totals
      <3> QED
        BY <1>1, <2>1, <2>2, <3>1 DEF SwapCount, NothingLost, PeakIsReported, Totals
    <2>3. CASE SwapSum(f)
      <3>1. /\ pulled'.total = pulled.total + sum_us /\ pulled'.counted = pulled.counted
            /\ pulled'.events = pulled.events /\ pulled'.peak = pulled.peak
        BY <1>1, <2>3, Zenon DEF SwapSum, Totals
      <3> QED
        BY <1>1, <2>1, <2>3, <3>1 DEF SwapSum, NothingLost, PeakIsReported, Totals
    <2>4. CASE SwapMin(f) \/ Return(f)
      BY <2>1, <2>4, Zenon DEF SwapMin, Return, aggregate, NothingLost, PeakIsReported
    <2>5. CASE SwapMax(f)
      <3>1. /\ pulled'.peak = greater(pulled.peak, max_us) /\ pulled'.counted = pulled.counted
            /\ pulled'.total = pulled.total /\ pulled'.events = pulled.events
        BY <1>1, <2>5, Zenon DEF SwapMax, Totals
      <3>2. PeakIsReported'
        BY <1>1, <2>1, <2>5, <3>1 DEF SwapMax, PeakIsReported, Totals, greater
      <3> QED
        BY <2>1, <2>5, <3>1, <3>2, Zenon DEF SwapMax, NothingLost
    <2> QED
      BY <1>3, <2>2, <2>3, <2>4, <2>5, Zenon
  <1>4. ASSUME NEW n \in 1 .. MaxEvents, CounterAdd(n) PROVE NothingLost' /\ PeakIsReported'
    <2>1. n \in Nat
      BY MetricsAssumption
    <2>2. /\ seen'.events = seen.events + n /\ seen'.total = seen.total
          /\ seen'.counted = seen.counted /\ seen'.peak = seen.peak
      BY <1>1, <1>4, Zenon DEF CounterAdd, Totals
    <2> QED
      BY <1>1, <1>4, <2>1, <2>2 DEF CounterAdd, aggregate, NothingLost, PeakIsReported, Totals
  <1>5. CASE CounterFlush
    <2>1. /\ pulled'.events = pulled.events + value /\ pulled'.total = pulled.total
          /\ pulled'.counted = pulled.counted /\ pulled'.peak = pulled.peak
      BY <1>1, <1>5, Zenon DEF CounterFlush, Totals
    <2> QED
      BY <1>1, <1>5, <2>1 DEF CounterFlush, aggregate, NothingLost, PeakIsReported, Totals
  <1>6. ASSUME NEW r \in Recorders, NEW start \in Times, NEW now \in Times, Record(r, start, now)
        PROVE  NothingLost' /\ PeakIsReported'
    BY <1>6, Zenon DEF Record, aggregate, NothingLost, PeakIsReported
  <1> QED
    BY <1>2, <1>3, <1>4, <1>5, <1>6, Zenon DEF Next
-----------------------------------------------------------------------------
(* A flush that is alone.                                                  *)

\* An operation of record: no flush is alone, and the batch gets what the atomic gets.
LEMMA AloneRecord ==
    ASSUME TypeOK, AloneInv, NEW r \in Recorders,
           RecordSum(r) \/ RecordCount(r) \/ RecordMin(r) \/ RecordMax(r)
    PROVE  AloneInv'
  <1>1. PICK op \in Atomics : Done(r, op)
    BY Zenon DEF RecordSum, RecordCount, RecordMin, RecordMax, Atomics
  <1>2. r \in Recording
    BY <1>1, Zenon DEF Done, Recording
  <1>3. ~alone /\ ~alone' /\ clean' = clean /\ Flushing' = Flushing
    BY <1>1, <1>2, Zenon DEF AloneInv, Done, Flushing
  <1>4. batch \in Snapshot
    BY Zenon DEF TypeOK
  <1>5. BatchIsThere => BatchIsThere'
    <2>1. CASE RecordSum(r)
      BY <1>4, <2>1, Zenon DEF RecordSum, BatchIsThere, Snapshot
    <2>2. CASE RecordCount(r)
      BY <1>4, <2>2, Zenon DEF RecordCount, BatchIsThere, Snapshot
    <2>3. CASE RecordMin(r)
      BY <1>4, <2>3, Zenon DEF RecordMin, BatchIsThere, Snapshot
    <2>4. CASE RecordMax(r)
      BY <1>4, <2>4, Zenon DEF RecordMax, BatchIsThere, Snapshot
    <2> QED
      BY <2>1, <2>2, <2>3, <2>4, Zenon
  <1> QED
    BY <1>3, <1>5, Zenon DEF AloneInv

\* Who is flushing after a swap, and that it is alone only if it was or is the first.
LEMMA SwapAlone ==
    ASSUME TypeOK, AloneInv, NEW f \in Flushers, NEW op \in Atomics, Swap(f, op)
    PROVE  /\ f \in Flushing' /\ flush'[f] = flush[f] \ {op}
           /\ UNCHANGED <<rec, batch, clean>>
           /\ alone' => /\ Recording' = {} /\ Flushing' = {f}
                        /\ \/ alone /\ f \in Flushing
                           \/ Flushing = {} /\ flush[f] = Atomics
  <1>1. flush' = [flush EXCEPT ![f] = flush[f] \ {op}] /\ flush \in [Flushers -> SUBSET Atomics]
    BY Zenon DEF Swap, TypeOK
  <1>2. flush'[f] = flush[f] \ {op} /\ \A g \in Flushers : g # f => flush'[g] = flush[g]
    BY <1>1, Zenon
  <1>3. UNCHANGED <<rec, batch, clean>>
    BY Zenon DEF Swap
  <1>4. Flushing' = Flushing \cup {f}
    BY <1>2, Zenon DEF Flushing
  <1>5. Recording' = Recording
    BY <1>3, Zenon DEF Recording
  <1>6. ASSUME alone' PROVE /\ Recording' = {} /\ Flushing' = {f}
                            /\ \/ alone /\ f \in Flushing
                               \/ Flushing = {} /\ flush[f] = Atomics
    <2>1. CASE f \in Flushing
      <3>1. alone
        BY <1>6, <2>1, Zenon DEF Swap
      <3> QED
        BY <1>4, <1>5, <2>1, <3>1, Zenon DEF AloneInv
    <2>2. CASE f \notin Flushing
      <3>1. Recording = {} /\ Flushing = {}
        BY <1>6, <2>2, Zenon DEF Swap
      <3>2. flush[f] = Atomics
        BY <2>2, Zenon DEF Flushing
      <3> QED
        BY <1>4, <1>5, <3>1, <3>2, Zenon
    <2> QED
      BY <2>1, <2>2, Zenon
  <1> QED
    BY <1>2, <1>3, <1>4, <1>6, Zenon

\* What a flush that is alone after its swap found before it.
LEMMA TakenBefore ==
    ASSUME AloneInv, NEW f \in Flushers,
           \/ alone /\ f \in Flushing
           \/ Flushing = {} /\ flush[f] = Atomics
    PROVE  /\ Taken(f, "count", count, batch.count, snapshot[f].count, 0)
           /\ Taken(f, "sum", sum_us, batch.total_us, snapshot[f].total_us, 0)
           /\ Taken(f, "min", min_us, batch.min_us, snapshot[f].min_us, U64_MAX)
           /\ Taken(f, "max", max_us, batch.max_us, snapshot[f].max_us, 0)
  <1>1. CASE alone /\ f \in Flushing
    BY <1>1, Zenon DEF AloneInv
  <1>2. CASE Flushing = {} /\ flush[f] = Atomics
    BY <1>2, SMTT(30) DEF AloneInv, BatchIsThere, Taken, Atomics
  <1> QED
    BY <1>1, <1>2, Zenon

\* A swap takes one atomic of the batch and leaves it empty.
LEMMA AloneSwap ==
    ASSUME TypeOK, AloneInv, NEW f \in Flushers,
           SwapCount(f) \/ SwapSum(f) \/ SwapMin(f) \/ SwapMax(f)
    PROVE  AloneInv'
  <1>1. PICK op \in Atomics : Swap(f, op)
    BY SMTT(30) DEF SwapCount, SwapSum, SwapMin, SwapMax, Atomics
  <1>2. f \in Flushing' /\ UNCHANGED <<rec, batch, clean>>
    BY <1>1, SwapAlone, SMTT(30)
  <1>3. SUFFICES ASSUME alone'
                 PROVE  /\ Taken(f, "count", count, batch.count, snapshot[f].count, 0)'
                        /\ Taken(f, "sum", sum_us, batch.total_us, snapshot[f].total_us, 0)'
                        /\ Taken(f, "min", min_us, batch.min_us, snapshot[f].min_us, U64_MAX)'
                        /\ Taken(f, "max", max_us, batch.max_us, snapshot[f].max_us, 0)'
    <2>1. alone' => Recording' = {} /\ Flushing' = {f}
      BY <1>1, SwapAlone, SMTT(30)
    <2> QED
      BY <1>2, <2>1, Zenon DEF AloneInv
  <1>4. /\ Taken(f, "count", count, batch.count, snapshot[f].count, 0)
        /\ Taken(f, "sum", sum_us, batch.total_us, snapshot[f].total_us, 0)
        /\ Taken(f, "min", min_us, batch.min_us, snapshot[f].min_us, U64_MAX)
        /\ Taken(f, "max", max_us, batch.max_us, snapshot[f].max_us, 0)
    BY <1>1, <1>3, SwapAlone, TakenBefore, Zenon
  <1>5. snapshot[f] \in Snapshot /\ f \in DOMAIN snapshot
    BY Zenon DEF TypeOK
  <1>6. CASE SwapCount(f)
    <2>1. flush'[f] = flush[f] \ {"count"} /\ "count" \in flush[f]
      BY <1>6, SwapAlone, Zenon DEF SwapCount, Swap, Atomics
    <2>2. snapshot'[f] = [snapshot[f] EXCEPT !.count = count]
      BY <1>5, <1>6, Zenon DEF SwapCount
    <2> QED
      BY <1>2, <1>4, <1>5, <1>6, <2>1, <2>2, Zenon DEF SwapCount, Taken, Snapshot
  <1>7. CASE SwapSum(f)
    <2>1. flush'[f] = flush[f] \ {"sum"} /\ "sum" \in flush[f]
      BY <1>7, SwapAlone, Zenon DEF SwapSum, Swap, Atomics
    <2>2. snapshot'[f] = [snapshot[f] EXCEPT !.total_us = sum_us]
      BY <1>5, <1>7, Zenon DEF SwapSum
    <2> QED
      BY <1>2, <1>4, <1>5, <1>7, <2>1, <2>2, Zenon DEF SwapSum, Taken, Snapshot
  <1>8. CASE SwapMin(f)
    <2>1. flush'[f] = flush[f] \ {"min"} /\ "min" \in flush[f]
      BY <1>8, SwapAlone, Zenon DEF SwapMin, Swap, Atomics
    <2>2. snapshot'[f] = [snapshot[f] EXCEPT !.min_us = min_us]
      BY <1>5, <1>8, Zenon DEF SwapMin
    <2> QED
      BY <1>2, <1>4, <1>5, <1>8, <2>1, <2>2, Zenon DEF SwapMin, Taken, Snapshot
  <1>9. CASE SwapMax(f)
    <2>1. flush'[f] = flush[f] \ {"max"} /\ "max" \in flush[f]
      BY <1>9, SwapAlone, Zenon DEF SwapMax, Swap, Atomics
    <2>2. snapshot'[f] = [snapshot[f] EXCEPT !.max_us = max_us]
      BY <1>5, <1>9, Zenon DEF SwapMax
    <2> QED
      BY <1>2, <1>4, <1>5, <1>9, <2>1, <2>2, Zenon DEF SwapMax, Taken, Snapshot
  <1> QED
    BY <1>6, <1>7, <1>8, <1>9, Zenon
\* A flush that returns: if it was alone, it leaves nothing and a new batch begins.
LEMMA AloneReturn ==
    ASSUME TypeOK, AloneInv, NEW f \in Flushers, Return(f)
    PROVE  AloneInv'
  <1>1. flush[f] = {} /\ f \in Flushing
    BY Zenon DEF Return, Flushing, Atomics
  <1>2. ~alone' /\ clean' = alone
    BY Zenon DEF Return
  <1>3. ASSUME clean' PROVE BatchIsThere'
    <2>1. alone /\ batch' = Empty /\ UNCHANGED aggregate
      BY <1>2, <1>3, Zenon DEF Return
    <2>2. count = 0 /\ sum_us = 0 /\ min_us = U64_MAX /\ max_us = 0
      BY <1>1, <2>1, Zenon DEF AloneInv, Taken
    <2> QED
      BY <2>1, <2>2, Zenon DEF BatchIsThere, Empty, aggregate
  <1> QED
    BY <1>2, <1>3, Zenon DEF AloneInv

LEMMA AloneStep ==
    ASSUME TypeOK, AloneInv, Next
    PROVE  AloneInv'
  <1>1. ASSUME NEW r \in Recorders, NEW start \in Times, NEW now \in Times, Record(r, start, now)
        PROVE  AloneInv'
    BY <1>1, Zenon DEF Record, AloneInv, aggregate, Flushing, BatchIsThere
  <1>2. ASSUME CounterFlush \/ \E n \in 1 .. MaxEvents : CounterAdd(n) PROVE AloneInv'
    <2>1. UNCHANGED <<aggregate, rec, flush, snapshot, batch, clean, alone>>
      BY <1>2, Zenon DEF CounterFlush, CounterAdd
    <2> QED
      BY <2>1, Zenon DEF aggregate, AloneInv, BatchIsThere, Taken, Recording, Flushing
  <1> QED
    BY <1>1, <1>2, AloneRecord, AloneSwap, AloneReturn, SMTT(30) DEF Next

-----------------------------------------------------------------------------
(* Theorems.                                                               *)

(* The inductive invariant holds however many tasks record and flush       *)
(* (LatencyAggregator, CounterAggregator).                                 *)
THEOREM Invariance == Spec => []Inv
  <1>1. Init => Inv
    <2> SUFFICES ASSUME Init PROVE Inv
      BY Zenon
    <2>1. U64_MAX \in Nat
      BY MetricsAssumption, Zenon
    <2>2. TypeOK
      <3>1. Empty \in Snapshot
        BY <2>1, Zenon DEF Empty, Snapshot
      <3>2. seen \in Totals /\ pulled \in Totals
        BY <2>1 DEF Init, Totals
      <3>3. NoSample \in [todo : SUBSET Atomics, start : 0 .. U64_MAX, end : 0 .. U64_MAX]
        BY <2>1 DEF NoSample
      <3>4. flush \in [Flushers -> SUBSET Atomics] /\ snapshot \in [Flushers -> Snapshot]
        BY <3>1, Zenon DEF Init
      <3>5. rec \in [Recorders -> [todo : SUBSET Atomics, start : 0 .. U64_MAX, end : 0 .. U64_MAX]]
        BY <3>3, Zenon DEF Init
      <3>6. /\ sum_us \in Nat /\ count \in Nat /\ value \in Nat
            /\ min_us \in 0 .. U64_MAX /\ max_us \in 0 .. U64_MAX
        BY <2>1 DEF Init
      <3>7. batch \in Snapshot /\ clean \in BOOLEAN /\ alone \in BOOLEAN
        BY <3>1, Zenon DEF Init
      <3> QED
        BY <3>2, <3>4, <3>5, <3>6, <3>7, Zenon DEF TypeOK
    <2>3. NothingLost /\ PeakIsReported
      BY DEF Init, NothingLost, PeakIsReported, greater
    <2>4. AloneInv
      BY Zenon DEF Init, AloneInv, BatchIsThere, Empty
    <2> QED
      BY <2>2, <2>3, <2>4, Zenon DEF Inv
  <1>2. Inv /\ [Next]_vars => Inv'
    <2> SUFFICES ASSUME Inv, [Next]_vars PROVE Inv'
      BY Zenon
    <2>1. CASE Next
      BY <2>1, TypeStep, TotalsStep, AloneStep, Zenon DEF Inv
    <2>2. CASE UNCHANGED vars
      <3>1. UNCHANGED <<sum_us, count, min_us, max_us, value, rec, flush, snapshot, seen, pulled,
                        batch, clean, alone>>
        BY <2>2, Zenon DEF vars, aggregate, history
      <3>2. TypeOK' /\ NothingLost' /\ PeakIsReported'
        BY <3>1, Zenon DEF Inv, TypeOK, NothingLost, PeakIsReported
      <3>3. AloneInv'
        BY <3>1, Zenon DEF Inv, AloneInv, BatchIsThere, Taken, Recording, Flushing
      <3> QED
        BY <3>2, <3>3, Zenon DEF Inv
    <2> QED
      BY <2>1, <2>2, Zenon
  <1> QED
    BY <1>1, <1>2, PTL DEF Spec

(* Type correctness: a recorded delay is always a u64 (elapsed_us), and    *)
(* so are the extremes.                                                    *)
THEOREM TypeCorrectness == Spec => []TypeOK
  <1>1. Inv => TypeOK
    BY Zenon DEF Inv
  <1> QED
    BY <1>1, Invariance, PTL

(* Every sample and every event is in one flush and not in two, however    *)
(* the relaxed operations of record, add and flush interleave.             *)
THEOREM EverythingIsReportedOnce == Spec => []NothingLost
  <1>1. Inv => NothingLost
    BY Zenon DEF Inv
  <1> QED
    BY <1>1, Invariance, PTL

(* No race of fetch_max in record with swap in flush drops the peak.       *)
THEOREM PeaksSurvive == Spec => []PeakIsReported
  <1>1. Inv => PeakIsReported
    BY Zenon DEF Inv
  <1> QED
    BY <1>1, Invariance, PTL

(* elapsed_since_unix_time_nanos_us rounds up, for any unit and any width  *)
(* of the clock.                                                           *)
THEOREM DelaysAreRoundedUp == Spec => []DelayIsRoundedUp
  <1>1. TypeOK => DelayIsRoundedUp
    <2> SUFFICES ASSUME TypeOK, NEW r \in Recorders
                 PROVE  LET d == rec[r].end - rec[r].start
                        IN  IF rec[r].start = 0 \/ d <= 0 THEN Sample(r) = 0
                            ELSE /\ (Sample(r) - 1) * NANOS_PER_US < d
                                 /\ \/ Sample(r) * NANOS_PER_US >= d
                                    \/ d + NANOS_PER_US - 1 > U64_MAX
      BY Zenon DEF DelayIsRoundedUp
    <2>1. /\ rec[r].start \in 0 .. U64_MAX /\ rec[r].end \in 0 .. U64_MAX
          /\ rec[r].start \in Int /\ rec[r].end \in Int
      BY MetricsAssumption DEF TypeOK
    <2> DEFINE s == rec[r].start
               n == rec[r].end
    <2>2. Sample(r) = elapsed_us(s, n)
      BY Zenon DEF Sample
    <2> HIDE DEF s, n
    <2>3. CASE s = 0 \/ n - s <= 0
      <3>1. s = 0 \/ n <= s
        BY <2>1, <2>3 DEF s, n
      <3>2. Sample(r) = 0
        BY <2>2, <3>1, Zenon DEF elapsed_us
      <3> QED
        BY <2>3, <3>2, Zenon DEF s, n
    <2>4. CASE ~(s = 0 \/ n - s <= 0)
      <3>1. s # 0 /\ n > s
        BY <2>1, <2>4 DEF s, n
      <3>2. /\ (Sample(r) - 1) * NANOS_PER_US < n - s
            /\ Sample(r) * NANOS_PER_US >= n - s \/ n - s + NANOS_PER_US - 1 > U64_MAX
        BY <2>1, <2>2, <3>1, ElapsedRounds, Zenon DEF s, n
      <3> QED
        BY <2>4, <3>2, Zenon DEF s, n
    <2> QED
      BY <2>3, <2>4, Zenon
  <1> QED
    BY <1>1, TypeCorrectness, PTL

(* A flush that overlaps nothing, after another such, reports exactly what *)
(* was recorded in between, whoever else records and flushes before.       *)
THEOREM QuietFlushesAreExact == Spec => QuietFlushIsExact
  <1>1. ASSUME Inv, Next, NEW f \in Flushers, QuietFlush(f)
        PROVE  snapshot'[f] = Reported(batch)
    <2>1. flush[f] = {} /\ f \in Flushing /\ alone /\ clean
      BY <1>1, Zenon DEF QuietFlush, Flushing, Atomics
    <2>2. snapshot[f].count = batch.count /\ snapshot[f].total_us = batch.total_us
      BY <1>1, <2>1, Zenon DEF Inv, AloneInv, Taken
    <2>3. snapshot[f].min_us = batch.min_us /\ snapshot[f].max_us = batch.max_us
      BY <1>1, <2>1, Zenon DEF Inv, AloneInv, Taken
    <2>4. snapshot[f] \in Snapshot /\ batch \in Snapshot /\ f \in DOMAIN snapshot
      BY <1>1, Zenon DEF Inv, TypeOK
    <2>5. snapshot[f] = batch
      BY <2>2, <2>3, <2>4 DEF Snapshot
    <2>6. snapshot' = [snapshot EXCEPT ![f] = Reported(snapshot[f])]
      <3>1. flush'[f] = Atomics /\ flush \in [Flushers -> SUBSET Atomics]
        BY <1>1, Zenon DEF QuietFlush, Inv, TypeOK
      <3>2. ASSUME NEW g \in Flushers, NEW op \in Atomics, Swap(g, op) PROVE FALSE
        BY <2>1, <3>1, <3>2, Zenon DEF Swap, Atomics
      <3>3. ASSUME NEW g \in Flushers, Return(g) PROVE g = f
        BY <2>1, <3>1, <3>3, Zenon DEF Return, Atomics
      <3>4. flush' # flush
        BY <2>1, <3>1, Zenon DEF Atomics
      <3>5. \E g \in Flushers : Return(g)
        BY <1>1, <3>2, <3>4, Zenon DEF Next, Record, RecordSum, RecordCount, RecordMin,
           RecordMax, Done,
           SwapCount, SwapSum, SwapMin, SwapMax, CounterAdd, CounterFlush, Atomics
      <3> QED
        BY <3>3, <3>5, Zenon DEF Return
    <2> QED
      BY <2>4, <2>5, <2>6, Zenon
  <1>2. Inv /\ [Next]_vars => [\A f \in Flushers : QuietFlush(f) => snapshot'[f] = Reported(batch)]_vars
    BY <1>1, Zenon
  <1> QED
    BY <1>2, Invariance, PTL DEF Spec, QuietFlushIsExact
=============================================================================
