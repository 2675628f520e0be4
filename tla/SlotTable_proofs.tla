-------------------------- MODULE SlotTable_proofs --------------------------
(***************************************************************************)
(* More about the table of ConnectionManager, from its inductive invariant *)
(* and for any number of slots and tasks: a consumer is refused only when  *)
(* it has to be (SlotScan); and what happens to one entry of the table is  *)
(* a behaviour of EntryLife, whose fairness is left to TLC.                *)
(***************************************************************************)
EXTENDS ConnectionManager_proofs, SlotScan, EntryOfTable

-----------------------------------------------------------------------------
(* find_free_slot misses no slot that is free all along.                   *)

\* How far a scan has come: what was there for the taking all the time is ahead
\* of it, or is the entry it is about to clean up.
Ahead(h) ==
    cid[h] # None => \A i \in vacant[h] :
        /\ pc[h] = "scan" => i >= idx[h]
        /\ pc[h] \in {"stale", "close", "swap"} =>
               i > idx[h] \/ (i = idx[h] /\ connections[i] = ent[h])
        /\ pc[h] = "reload" => i > idx[h]

ScanInv == \A h \in Handlers : vacant[h] \subseteq {i \in Slots : Free(i)} /\ Ahead(h)

\* The handler does not move in this step.
Rests(h) == pc'[h] = pc[h] /\ idx'[h] = idx[h] /\ ent'[h] = ent[h] /\ cid'[h] = cid[h]

\* What a step may do to a scan: nothing, begin it, end it, or bring it from one
\* stage to the next.
Advances(h) ==
    \/ Rests(h)
    \/ pc'[h] = "scan" /\ idx'[h] = 0
    \/ /\ pc'[h] \notin {"scan", "reload"}
       /\ pc'[h] \in {"stale", "close", "swap"} => cid'[h] = None
       /\ pc[h] = "scan" /\ pc'[h] = "gone" => idx[h] \notin Slots
    \/ /\ pc[h] = "scan" /\ pc'[h] = "stale"
       /\ idx'[h] = idx[h] /\ ent'[h] = connections[idx[h]] /\ cid'[h] = cid[h]
    \/ /\ pc[h] = "stale" /\ pc'[h] = "scan" /\ ~is_stale(ent[h])
       /\ idx'[h] = idx[h] + 1 /\ ent[h] # None /\ cid'[h] = cid[h]
    \/ /\ pc[h] \in {"stale", "close"} /\ pc'[h] \in {"close", "swap"}
       /\ idx'[h] = idx[h] /\ ent'[h] = ent[h] /\ cid'[h] = cid[h]
    \/ /\ pc[h] = "swap" /\ pc'[h] = "reload"
       /\ idx'[h] = idx[h] /\ cid'[h] = cid[h] /\ connections'[idx[h]] # ent[h]
    \/ /\ pc[h] = "reload" /\ pc'[h] = "scan"
       /\ idx'[h] = idx[h] + 1 /\ cid'[h] = cid[h]

\* A scan that advances keeps ahead of it what was free all the time.
LEMMA AdvanceKeeps ==
    ASSUME Inv, Inv', ScanInv, NEW h \in Handlers, Advances(h),
           vacant'[h] = {i \in Slots : Free(i)' /\ (Begins(h) \/ (i \in vacant[h] /\ Unchanged(i)))}
    PROVE  vacant'[h] \subseteq {i \in Slots : Free(i)'} /\ Ahead(h)'
<1>1. /\ Ahead(h) /\ h \in Tasks /\ idx[h] \in Nat /\ idx'[h] \in Nat
      /\ \A i \in vacant[h] : i \in Slots /\ Free(i)
      /\ \A i \in Slots : i \in Nat /\ i >= 0
  BY ManagerAssumption DEF Inv, TypeOK, ScanInv, Tasks, Slots
<1>2. vacant'[h] \subseteq {i \in Slots : Free(i)'}
  BY Zenon
<1>3. ~ Begins(h) => \A i \in vacant'[h] : i \in vacant[h] /\ connections'[i] = connections[i]
  BY Zenon DEF Unchanged
<1>4. Ahead(h)'
  <2>1. CASE Rests(h)
    BY <1>1, <1>3, <2>1, Zenon DEF Rests, Ahead, Begins
  <2>2. CASE pc'[h] = "scan" /\ idx'[h] = 0
    BY <1>1, <1>2, <2>2, Zenon DEF Ahead
  <2>3. CASE /\ pc'[h] \notin {"scan", "reload"}
             /\ pc'[h] \in {"stale", "close", "swap"} => cid'[h] = None
    BY <2>3, Zenon DEF Ahead
  <2>4. CASE /\ pc[h] = "scan" /\ pc'[h] = "stale"
             /\ idx'[h] = idx[h] /\ ent'[h] = connections[idx[h]] /\ cid'[h] = cid[h]
    <3>1. ASSUME NEW i \in vacant'[h], cid'[h] # None
          PROVE  i > idx'[h] \/ (i = idx'[h] /\ connections'[i] = ent'[h])
      <4>1. i \in vacant[h] /\ connections'[i] = connections[i]
        BY <1>3, <2>4, <3>1, Zenon DEF Begins
      <4>2. i \in Nat /\ i >= idx[h]
        BY <1>1, <2>4, <3>1, <4>1, Zenon DEF Ahead
      <4>3. i > idx[h] \/ i = idx[h]
        BY <1>1, <4>2
      <4>4. QED
        BY <2>4, <4>1, <4>3, Zenon
    <3>2. QED
      BY <2>4, <3>1, Zenon DEF Ahead
  <2>5. CASE /\ pc[h] = "stale" /\ pc'[h] = "scan" /\ ~is_stale(ent[h])
             /\ idx'[h] = idx[h] + 1 /\ ent[h] # None /\ cid'[h] = cid[h]
    <3>1. ASSUME NEW i \in vacant'[h], cid'[h] # None
          PROVE  i >= idx'[h]
      <4>1. i \in vacant[h] /\ Free(i) /\ (i > idx[h] \/ connections[i] = ent[h])
        BY <1>1, <1>3, <2>5, <3>1, Zenon DEF Ahead, Begins
      <4>2. i > idx[h]
        BY <2>5, <4>1, Zenon DEF Free
      <4>3. QED
        BY <1>1, <2>5, <4>1, <4>2
    <3>2. QED
      BY <2>5, <3>1, Zenon DEF Ahead
  <2>6. CASE /\ pc[h] \in {"stale", "close"} /\ pc'[h] \in {"close", "swap"}
             /\ idx'[h] = idx[h] /\ ent'[h] = ent[h] /\ cid'[h] = cid[h]
    <3>1. ASSUME NEW i \in vacant'[h], cid'[h] # None
          PROVE  i > idx'[h] \/ (i = idx'[h] /\ connections'[i] = ent'[h])
      <4>1. i \in vacant[h] /\ connections'[i] = connections[i]
        BY <1>3, <2>6, <3>1, Zenon DEF Begins
      <4>2. i > idx[h] \/ (i = idx[h] /\ connections[i] = ent[h])
        BY <1>1, <2>6, <3>1, <4>1, Zenon DEF Ahead
      <4>3. QED
        BY <2>6, <4>1, <4>2, Zenon
    <3>2. QED
      BY <2>6, <3>1, Zenon DEF Ahead
  <2>7. CASE /\ pc[h] = "swap" /\ pc'[h] = "reload"
             /\ idx'[h] = idx[h] /\ cid'[h] = cid[h] /\ connections'[idx[h]] # ent[h]
    <3>1. ASSUME NEW i \in vacant'[h], cid'[h] # None
          PROVE  i > idx'[h]
      <4>1. i \in vacant[h] /\ connections'[i] = connections[i]
        BY <1>3, <2>7, <3>1, Zenon DEF Begins
      <4>2. i > idx[h] \/ (i = idx[h] /\ connections[i] = ent[h])
        BY <1>1, <2>7, <3>1, <4>1, Zenon DEF Ahead
      <4>3. QED
        BY <2>7, <4>1, <4>2, Zenon
    <3>2. QED
      BY <2>7, <3>1, Zenon DEF Ahead
  <2>8. CASE /\ pc[h] = "reload" /\ pc'[h] = "scan"
             /\ idx'[h] = idx[h] + 1 /\ cid'[h] = cid[h]
    <3>1. ASSUME NEW i \in vacant'[h], cid'[h] # None
          PROVE  i >= idx'[h]
      <4>1. i \in Nat /\ i > idx[h]
        BY <1>1, <1>3, <2>8, <3>1, Zenon DEF Ahead, Begins
      <4>2. QED
        BY <1>1, <2>8, <4>1
    <3>2. QED
      BY <2>8, <3>1, Zenon DEF Ahead
  <2>9. QED
    BY <2>1, <2>2, <2>3, <2>4, <2>5, <2>6, <2>7, <2>8, Zenon DEF Advances
<1>5. QED
  BY <1>2, <1>4, Zenon

\* The steps of the cleanup advance the scan they belong to.
LEMMA TaskStepAdvances ==
    ASSUME Inv, NEW t \in Tasks, TaskStep(t), NEW h \in Handlers
    PROVE  Advances(h)
<1>1. TypeOK /\ TaskInv(t) /\ h \in Tasks
  BY Zenon DEF Inv, Tasks
<1>2. CASE t # h
  <2>1. UNCHANGED cid /\ Rests(h)
    BY <1>1, <1>2, Zenon
    DEF TaskStep, CheckStale, Close, SwapOut, NotFound, Served, NextSlot, Goto, At, Hold,
        handlerVars, Rests, TypeOK
  <2>2. QED
    BY <2>1, Zenon DEF Advances
<1>3. CASE t = h
  <2>1. HandlerInv(h) /\ h \notin Dispatchers
    BY Apart, Zenon DEF Inv
  <2>2. CASE CheckStale(h)
    <3>1. cid' = cid /\ pc[h] = "stale" /\ ent[h] # None
      BY <1>1, <1>3, <2>2, Zenon DEF CheckStale, handlerVars, TaskInv, Holding
    <3>2. \/ pc'[h] = "close" /\ idx'[h] = idx[h] /\ ent'[h] = ent[h]
          \/ ~is_stale(ent[h]) /\ pc'[h] = "scan" /\ idx'[h] = idx[h] + 1
          \/ pc'[h] = "touch"
      BY <1>1, <2>1, <2>2, Zenon DEF CheckStale, Goto, At, NextSlot, TypeOK
    <3>3. QED
      BY <3>1, <3>2, Zenon DEF Advances
  <2>3. CASE Close(h)
    BY <1>1, <2>3, Zenon DEF Close, Goto, handlerVars, Advances, TypeOK
  <2>4. CASE SwapOut(h)
    <3>1. cid' = cid /\ pc[h] = "swap" /\ ent[h] # None /\ idx[h] \in Slots
      BY <1>1, <1>3, <2>4, Held, Zenon DEF SwapOut, TaskInv, Holding
    <3>2. connections'[idx[h]] # ent[h]
      BY <1>1, <2>4, <3>1, Zenon DEF SwapOut, TypeOK
    <3>3. \/ pc'[h] = "reload" /\ idx'[h] = idx[h]
          \/ pc'[h] \in {"idle", "alloc"}
      BY <1>1, <2>1, <2>4, Zenon DEF SwapOut, NotFound, Served, Goto, At, TypeOK
    <3>4. QED
      BY <3>1, <3>2, <3>3, Zenon DEF Advances
  <2>5. QED
    BY <1>3, <2>2, <2>3, <2>4, Zenon DEF TaskStep
<1>4. QED
  BY <1>2, <1>3, Zenon

\* So do the steps of a control-socket task; those of another leave it alone.
LEMMA HandlerStepAdvances ==
    ASSUME Inv, NEW g \in Handlers, HandlerStep(g), NEW h \in Handlers
    PROVE  Advances(h)
<1>1. TypeOK /\ g \in Tasks /\ h \in Tasks
  BY Zenon DEF Inv, Tasks
<1>2. CASE g # h
  <2>1. /\ pc'[h] = pc[h] /\ cid'[h] = cid[h]
    BY <1>1, <1>2, ZenonT(30)
    DEF HandlerStep, Accept, Eof, ReceivePing, ReceiveSubscription, LookupLoad, Touch, LoadFilter,
        StoreFilter, AllocateId, ScanLoad, ScanReload, CreateEntry, CreateFails, Install, Leave,
        NotFound, Served, Goto, handlerVars, TypeOK
  <2>2. /\ idx'[h] = idx[h] /\ ent'[h] = ent[h]
    BY <1>1, <1>2, Zenon
    DEF HandlerStep, Accept, Eof, ReceivePing, ReceiveSubscription, LookupLoad, Touch, LoadFilter,
        StoreFilter, AllocateId, ScanLoad, ScanReload, CreateEntry, CreateFails, Install, Leave,
        NotFound, Served, At, Hold, handlerVars, TypeOK
  <2>3. QED
    BY <2>1, <2>2, Zenon DEF Advances, Rests
<1>3. CASE g = h
  <2>1. HandlerInv(h) /\ \A i \in Slots : connections[i] \in Ids \cup {None}
    BY <1>1, ZenonT(30) DEF Inv, TypeOK
  <2>2. CASE Accept(h) \/ Eof(h) \/ ReceivePing(h)
             \/ \E topics \in SUBSET Topics : ReceiveSubscription(h, topics)
    BY <1>1, <2>2, ZenonT(30)
    DEF Accept, Eof, ReceivePing, ReceiveSubscription, Leave, Goto, Advances, TypeOK
  <2>3. CASE LookupLoad(h)
    <3>1. cid[h] = None /\ cid' = cid /\ pc'[h] \in {"stale", "idle", "alloc"} /\ pc[h] = "lookup"
      BY <1>1, <2>1, <2>3, Zenon DEF LookupLoad, NotFound, Served, Goto, HandlerInv, TypeOK
    <3>2. QED
      BY <3>1, Zenon DEF Advances
  <2>4. CASE Touch(h) \/ LoadFilter(h) \/ StoreFilter(h) \/ CreateEntry(h) \/ CreateFails(h)
    BY <1>1, <2>4, ZenonT(30)
    DEF Touch, LoadFilter, StoreFilter, CreateEntry, CreateFails, Leave, Served, Goto, Advances,
        TypeOK
  <2>5. CASE AllocateId(h)
    BY <1>1, <2>5, Zenon DEF AllocateId, Goto, At, Advances, TypeOK
  <2>6. CASE ScanLoad(h)
    BY <1>1, <2>6, ZenonT(30) DEF ScanLoad, Leave, Goto, Hold, Advances, TypeOK
  <2>7. CASE ScanReload(h)
    BY <1>1, <2>7, Zenon DEF ScanReload, Goto, At, handlerVars, Advances, TypeOK
  <2>8. CASE Install(h)
    BY <1>1, <2>8, Zenon DEF Install, Served, Goto, At, Advances, TypeOK
  <2>9. QED
    BY <1>3, <2>2, <2>3, <2>4, <2>5, <2>6, <2>7, <2>8, Zenon DEF HandlerStep
<1>4. QED
  BY <1>2, <1>3, Zenon

LEMMA NextAdvances ==
    ASSUME Inv, Next, NEW h \in Handlers
    PROVE  Advances(h)
<1>1. CASE \E t \in Tasks : TaskStep(t)
  BY <1>1, TaskStepAdvances, Zenon
<1>2. CASE \E g \in Handlers : HandlerStep(g)
  BY <1>2, HandlerStepAdvances, Zenon
<1>3. ASSUME NEW d \in Dispatchers, DispatcherStep(d)
      PROVE  Advances(h)
  <2>1. TypeOK /\ h \in Tasks /\ d \in Tasks /\ h # d
    BY Apart, Zenon DEF Inv, Tasks
  <2>2. Rests(h)
    BY <1>3, <2>1, Zenon
    DEF DispatcherStep, ReceiveUpdate, VisitLoad, MatchFilter, Push, EvictLoad, Finish, NextSlot,
        Goto, At, Hold, handlerVars, Rests, TypeOK
  <2>3. QED
    BY <2>2, Zenon DEF Advances
<1>4. CASE \E t \in 0 .. MaxTime : ClockStep(t)
  BY <1>4, Zenon DEF ClockStep, handlerVars, Advances, Rests
<1>5. QED
  BY <1>1, <1>2, <1>3, <1>4, Zenon DEF Next

(***************************************************************************)
(* A consumer is refused only if no slot was free during the whole scan of *)
(* find_free_slot: for any number of slots and tasks, and also when the    *)
(* wall clock is set back.                                                 *)
(***************************************************************************)
THEOREM RefusalsAreJustified == ScanSpec => RefusalIsJustified
<1>1. ScanInit => ScanInv
  BY Zenon DEF ScanInit, ScanInv, Ahead
<1>2. ASSUME Inv, Inv', ScanInv, ScanNext
      PROVE  ScanInv'
  <2> SUFFICES ASSUME NEW h \in Handlers
               PROVE  vacant'[h] \subseteq {i \in Slots : Free(i)'} /\ Ahead(h)'
    BY Zenon DEF ScanInv
  <2>1. Advances(h)
    BY <1>2, NextAdvances, Zenon DEF ScanNext
  <2>2. vacant'[h] = {i \in Slots : Free(i)' /\ (Begins(h) \/ (i \in vacant[h] /\ Unchanged(i)))}
    BY <1>2, Zenon DEF ScanNext
  <2>3. QED
    BY <1>2, <2>1, <2>2, AdvanceKeeps, Zenon
<1>3. ASSUME ScanInv, UNCHANGED scanVars
      PROVE  ScanInv'
  <2>1. UNCHANGED <<connections, last_seen_ms, now, pc, idx, ent, cid, vacant>>
    BY <1>3, Zenon DEF scanVars, vars, shared, entryVars, handlerVars
  <2>2. QED
    BY <1>3, <2>1, Zenon DEF ScanInv, Ahead, Free, is_stale
<1>4. ScanSpec => Spec
  <2>1. ScanInit => Init
    BY Zenon DEF ScanInit
  <2>2. [ScanNext]_scanVars => [Next]_vars
    BY Zenon DEF ScanNext, scanVars
  <2>3. QED
    BY <2>1, <2>2, PTL DEF ScanSpec, Spec
<1>5. ASSUME Inv, ScanInv, ScanNext, NEW h \in Handlers, pc[h] = "scan", pc'[h] = "gone"
      PROVE  vacant[h] = {}
  <2>1. Advances(h)
    BY <1>5, NextAdvances, Zenon DEF ScanNext
  <2>2. idx[h] \notin Slots
    BY <1>5, <2>1, ZenonT(30) DEF Advances, Rests
  <2>3. idx[h] \in 0 .. MAX_CONNECTION_SLOTS /\ cid[h] # None
    BY <1>5, ZenonT(30) DEF Inv, TypeOK, Tasks, HandlerInv
  <2>4. \A i \in vacant[h] : i \in Slots /\ i >= idx[h]
    BY <1>5, <2>3, Zenon DEF ScanInv, Ahead
  <2>5. QED
    BY <2>2, <2>3, <2>4, ManagerAssumption DEF Slots
<1>6. ScanSpec => [](Inv /\ ScanInv)
  BY <1>1, <1>2, <1>3, <1>4, Invariance, PTL DEF ScanSpec
<1>7. Inv /\ ScanInv /\ [ScanNext]_scanVars =>
         [\A h \in Handlers : pc[h] = "scan" /\ pc'[h] = "gone" => vacant[h] = {}]_scanVars
  BY <1>5, Zenon
<1>8. QED
  BY <1>6, <1>7, PTL DEF ScanSpec, RefusalIsJustified

-----------------------------------------------------------------------------
(* The table implements EntryLife.                                         *)

\* The tasks other than t do nothing with their Arcs.
OthersRest(t) == \A u \in Tasks : u # t => pc'[u] = pc[u] /\ ent'[u] = ent[u]

\* No slot, id or allocation changes.
TableRests == UNCHANGED <<connections, next_connection_id, cid>>

InUse == {"stale", "touch", "load_filter", "store_filter", "match", "push"}

\* What a task may do with the Arc in its hands, short of removing the entry.
Handles(t) ==
    \/ ent[t] = None /\ ent'[t] = None
    \/ ent[t] = None /\ ent'[t] \in Installed /\ pc'[t] = "stale"
    \/ ent'[t] = ent[t] /\ pc[t] \in InUse /\ pc'[t] \in InUse \cup {"close", "evict"}
    \/ ent'[t] = None /\ pc[t] \in InUse \cup {"reload"}

-----------------------------------------------------------------------------
(* Facts about the mapping.                                                *)

\* No Arc is None.
LEMMA EntryIsSome == entry \in Ids /\ entry # None
  BY EntryAssumption, ManagerAssumption, Zenon

\* The step of one task moves that task's stage.
LEMMA StageMoves ==
    ASSUME NEW t \in Tasks, OthersRest(t), NEW stage, Stage(t)' = stage
    PROVE  L!Move(t, stage)
  <1>1. \A u \in Tasks : u # t => Stage(u)' = Stage(u)
    BY Zenon DEF OthersRest, Stage
  <1> QED
    BY <1>1, Zenon DEF L!Move

\* If no stage moves, hold stays.
LEMMA StageRests ==
    ASSUME NEW t \in Tasks, OthersRest(t), Stage(t)' = Stage(t)
    PROVE  UNCHANGED [u \in Tasks |-> Stage(u)]
  <1>1. \A u \in Tasks : Stage(u)' = Stage(u)
    BY Zenon DEF OthersRest, Stage
  <1> QED
    BY <1>1, Zenon

\* An entry moves only if the table, the counter or an allocation changes.
LEMMA PlaceRests ==
    ASSUME TableRests
    PROVE  UNCHANGED Place
  BY Zenon DEF TableRests, Place, Installed, Published

\* The slot an entry sits in is the one it was made for.
LEMMA InstalledIn ==
    ASSUME Inv, NEW t \in Tasks, ent[t] = entry
    PROVE  /\ entry \in Published /\ slot_index[entry] = idx[t] /\ idx[t] \in Slots
           /\ entry \in Installed <=> connections[idx[t]] = entry
  <1>1. TaskInv(t) /\ TableInv /\ slot_index \in [Ids -> Slots]
    BY Zenon DEF Inv, TypeOK
  <1>2. entry \in Published /\ slot_index[entry] = idx[t] /\ idx[t] \in Slots
    BY <1>1, EntryIsSome, Zenon DEF TaskInv
  <1>3. \A i \in Slots : connections[i] = entry => i = idx[t]
    BY <1>1, <1>2, EntryIsSome, Zenon DEF TableInv
  <1> QED
    BY <1>2, <1>3, EntryIsSome, Zenon DEF Installed

-----------------------------------------------------------------------------
(* Steps that leave the table alone.                                       *)

LEMMA HandlesLife ==
    ASSUME Inv, NEW t \in Tasks, OthersRest(t), TableRests, Handles(t)
    PROVE  [L!Next]_(L!vars)
  <1>1. UNCHANGED Place
    BY PlaceRests, Zenon
  <1>2. ASSUME Stage(t)' = Stage(t) PROVE UNCHANGED L!vars
    BY <1>1, <1>2, StageRests, Zenon DEF L!vars
  <1>3. L!Step(t) => L!Next
    BY Zenon DEF L!Next
  <1>4. CASE ent[t] # entry /\ ent'[t] # entry
    BY <1>2, <1>4, Zenon DEF Stage
  <1>5. CASE ent[t] = None /\ ent'[t] \in Installed /\ pc'[t] = "stale" /\ ent'[t] = entry
    <2>1. Stage(t) = "none" /\ Stage(t)' = "loaded" /\ Place = "table"
      BY <1>5, EntryIsSome, Zenon DEF Stage, Place
    <2>2. L!Move(t, "loaded")
      BY <2>1, StageMoves, Zenon
    <2>3. L!Load(t)
      BY <1>1, <2>1, <2>2, Zenon DEF L!Load
    <2> QED
      BY <1>3, <2>3, Zenon DEF L!Step
  <1>6. CASE ent[t] = entry /\ ent'[t] = entry /\ pc[t] \in InUse /\ pc'[t] \in InUse
    BY <1>2, <1>6, Zenon DEF Stage, InUse
  <1>7. CASE ent[t] = entry /\ ent'[t] = entry /\ pc[t] \in InUse /\ pc'[t] = "close"
    <2>1. Stage(t) = "loaded" /\ Stage(t)' = "close"
      BY <1>7, Zenon DEF Stage, InUse
    <2>2. L!Condemn(t)
      BY <1>1, <2>1, StageMoves, Zenon DEF L!Condemn
    <2> QED
      BY <1>3, <2>2, Zenon DEF L!Step
  <1>8. CASE ent[t] = entry /\ ent'[t] = entry /\ pc[t] \in InUse /\ pc'[t] = "evict"
    <2>1. Stage(t) = "loaded" /\ Stage(t)' = "evict"
      BY <1>8, Zenon DEF Stage, InUse
    <2>2. L!Refuse(t)
      BY <1>1, <2>1, StageMoves, Zenon DEF L!Refuse
    <2> QED
      BY <1>3, <2>2, Zenon DEF L!Step
  <1>9. CASE ent[t] = entry /\ ent'[t] = None /\ pc[t] \in InUse \cup {"reload"}
    <2>1. Stage(t) \in {"loaded", "done"} /\ Stage(t)' = "none"
      BY <1>9, EntryIsSome, Zenon DEF Stage, InUse
    <2>2. L!Release(t)
      BY <1>1, <2>1, StageMoves, Zenon DEF L!Release
    <2> QED
      BY <1>3, <2>2, Zenon DEF L!Step
  <1> QED
    BY <1>4, <1>5, <1>6, <1>7, <1>8, <1>9, EntryIsSome DEF Handles

\* The steps of a control-socket task up to the allocation of an id, and the scan.
LEMMA HandlerLife ==
    ASSUME Inv, NEW h \in Handlers,
           \/ Accept(h) \/ Eof(h) \/ ReceivePing(h)
           \/ \E topics \in SUBSET Topics : ReceiveSubscription(h, topics)
           \/ LookupLoad(h) \/ Touch(h) \/ LoadFilter(h) \/ StoreFilter(h)
           \/ ScanReload(h) \/ CreateEntry(h)
    PROVE  [L!Next]_(L!vars)
  <1>1. /\ TypeOK /\ h \in Tasks /\ TaskInv(h) /\ HandlerInv(h)
        /\ pc \in [Tasks -> Labels] /\ ent \in [Tasks -> Ids \cup {None}]
    BY Zenon DEF Inv, TypeOK, Tasks
  <1>2. CASE Accept(h)
    <2>1. OthersRest(h) /\ TableRests
      BY <1>1, <1>2, Zenon DEF Accept, OthersRest, TableRests, Goto, shared, handlerVars
    <2>2. Handles(h)
      BY <1>1, <1>2, Zenon DEF Accept, Handles, TaskInv, Holding
    <2> QED
      BY <1>1, <2>1, <2>2, HandlesLife, Zenon
  <1>3. CASE Eof(h)
    <2>1. cid[h] = None
      BY <1>1, <1>3, Zenon DEF Eof, HandlerInv
    <2>2. cid' = cid
      BY <1>3, <2>1, ZenonT(30) DEF Eof, Leave, Inv, TypeOK
    <2>3. OthersRest(h) /\ TableRests
      BY <1>1, <1>3, <2>2, Zenon DEF Eof, Leave, OthersRest, TableRests, Goto, shared
    <2>4. Handles(h)
      BY <1>1, <1>3, Zenon DEF Eof, Handles, TaskInv, Holding
    <2> QED
      BY <1>1, <2>3, <2>4, HandlesLife, Zenon
  <1>4. CASE ReceivePing(h) \/ \E topics \in SUBSET Topics : ReceiveSubscription(h, topics)
    <2>1. OthersRest(h) /\ TableRests
      BY <1>1, <1>4, Zenon DEF ReceivePing, ReceiveSubscription, OthersRest, TableRests, Goto,
         shared
    <2>2. Handles(h)
      BY <1>1, <1>4, Zenon DEF ReceivePing, ReceiveSubscription, Handles, TaskInv, Holding
    <2> QED
      BY <1>1, <2>1, <2>2, HandlesLife, Zenon
  <1>5. CASE LookupLoad(h)
    <2>1. OthersRest(h) /\ TableRests
      BY <1>1, <1>5, Zenon
      DEF LookupLoad, NotFound, Served, OthersRest, TableRests, Goto, Hold, shared
    <2>2. ent[h] = None /\ token[h] \in Token
      BY <1>1, <1>5, Zenon DEF LookupLoad, TaskInv, HandlerInv, Holding, TypeOK
    <2>3. token[h].slot_index \in Slots /\ token[h].generation # None
      BY <2>2, ManagerAssumption, Zenon DEF Token
    <2>4. Handles(h)
      BY <1>1, <1>5, <2>2, <2>3, Zenon
      DEF LookupLoad, TokenMatches, NotFound, Served, Handles, Installed, Goto, Hold
    <2> QED
      BY <1>1, <2>1, <2>4, HandlesLife, Zenon
  <1>6. CASE Touch(h)
    <2>1. OthersRest(h) /\ TableRests
      BY <1>1, <1>6, Zenon DEF Touch, Served, OthersRest, TableRests, Goto, Hold
    <2>2. Handles(h)
      BY <1>1, <1>6, Zenon DEF Touch, Served, Handles, InUse, Goto, Hold
    <2> QED
      BY <1>1, <2>1, <2>2, HandlesLife, Zenon
  <1>7. CASE LoadFilter(h) \/ StoreFilter(h)
    <2>1. OthersRest(h) /\ TableRests
      BY <1>1, <1>7, Zenon DEF LoadFilter, StoreFilter, Served, OthersRest, TableRests, Goto,
         Hold, shared
    <2>2. Handles(h)
      BY <1>1, <1>7, Zenon DEF LoadFilter, StoreFilter, Served, Handles, InUse, Goto, Hold
    <2> QED
      BY <1>1, <2>1, <2>2, HandlesLife, Zenon
  <1>8. CASE ScanReload(h)
    <2>1. OthersRest(h) /\ TableRests
      BY <1>1, <1>8, Zenon DEF ScanReload, OthersRest, TableRests, Goto, Hold, shared, handlerVars
    <2>2. Handles(h)
      BY <1>1, <1>8, Zenon DEF ScanReload, Handles, Hold
    <2> QED
      BY <1>1, <2>1, <2>2, HandlesLife, Zenon
  <1>9. CASE CreateEntry(h)
    <2>1. OthersRest(h) /\ TableRests
      BY <1>1, <1>9, Zenon DEF CreateEntry, OthersRest, TableRests, Goto, handlerVars
    <2>2. Handles(h)
      BY <1>1, <1>9, Zenon DEF CreateEntry, Handles, TaskInv, Holding
    <2> QED
      BY <1>1, <2>1, <2>2, HandlesLife, Zenon
  <1> QED
    BY <1>2, <1>3, <1>4, <1>5, <1>6, <1>7, <1>8, <1>9, ZenonT(30)

\* The steps of a fan-out, up to the eviction of an entry.
LEMMA DispatcherLife ==
    ASSUME Inv, NEW d \in Dispatchers,
           \/ \E u \in Updates : ReceiveUpdate(d, u)
           \/ VisitLoad(d) \/ MatchFilter(d) \/ Push(d)
    PROVE  [L!Next]_(L!vars)
  <1>1. /\ TypeOK /\ d \in Tasks /\ TaskInv(d)
        /\ pc \in [Tasks -> Labels] /\ ent \in [Tasks -> Ids \cup {None}]
    BY Zenon DEF Inv, TypeOK, Tasks
  <1>2. CASE \E u \in Updates : ReceiveUpdate(d, u)
    <2>1. OthersRest(d) /\ TableRests
      BY <1>1, <1>2, Zenon DEF ReceiveUpdate, OthersRest, TableRests, Goto, shared, handlerVars
    <2>2. Handles(d)
      BY <1>1, <1>2, Zenon DEF ReceiveUpdate, Handles, TaskInv, Holding
    <2> QED
      BY <1>1, <2>1, <2>2, HandlesLife, Zenon
  <1>3. CASE VisitLoad(d)
    <2>1. OthersRest(d) /\ TableRests
      BY <1>1, <1>3, Zenon
      DEF VisitLoad, Finish, NextSlot, OthersRest, TableRests, Goto, Hold, shared, handlerVars
    <2>2. ent[d] = None
      BY <1>1, <1>3, Zenon DEF VisitLoad, TaskInv, Holding
    <2>3. Handles(d)
      BY <1>1, <1>3, <2>2, ZenonT(30) DEF VisitLoad, Finish, NextSlot, Handles, Installed, Goto,
         Hold
    <2> QED
      BY <1>1, <2>1, <2>3, HandlesLife, Zenon
  <1>4. CASE MatchFilter(d)
    <2>1. OthersRest(d) /\ TableRests
      BY <1>1, <1>4, Zenon
      DEF MatchFilter, Finish, NextSlot, OthersRest, TableRests, Goto, Hold, shared, handlerVars
    <2>2. Handles(d)
      BY <1>1, <1>4, Zenon DEF MatchFilter, Finish, NextSlot, Handles, InUse, Goto, Hold
    <2> QED
      BY <1>1, <2>1, <2>2, HandlesLife, Zenon
  <1>5. CASE Push(d)
    <2>1. OthersRest(d) /\ TableRests
      BY <1>1, <1>5, Zenon
      DEF Push, NextSlot, OthersRest, TableRests, Goto, Hold, shared, handlerVars
    <2>2. Handles(d)
      BY <1>1, <1>5, Zenon DEF Push, NextSlot, Handles, InUse, Goto, Hold
    <2> QED
      BY <1>1, <2>1, <2>2, HandlesLife, Zenon
  <1> QED
    BY <1>2, <1>3, <1>4, <1>5, Zenon

\* CheckStale keeps the entry, lets it go or condemns it.
LEMMA CheckStaleLife ==
    ASSUME Inv, NEW t \in Tasks, CheckStale(t)
    PROVE  [L!Next]_(L!vars)
  <1>1. TypeOK /\ pc \in [Tasks -> Labels] /\ ent \in [Tasks -> Ids \cup {None}]
    BY Zenon DEF Inv, TypeOK
  <1>2. OthersRest(t) /\ TableRests
    BY <1>1, Zenon DEF CheckStale, NextSlot, OthersRest, TableRests, Goto, Hold, shared, handlerVars
  <1>3. Handles(t)
    BY <1>1, Zenon DEF CheckStale, NextSlot, Handles, InUse, Goto, Hold
  <1> QED
    BY <1>2, <1>3, HandlesLife, Zenon

-----------------------------------------------------------------------------
(* The removal of an entry.                                                *)

\* cleanup_if_same goes on only if the entry in hand is the one in the table.
LEMMA EvictLoadLife ==
    ASSUME Inv, NEW d \in Dispatchers, EvictLoad(d)
    PROVE  [L!Next]_(L!vars)
  <1>1. /\ d \in Tasks /\ pc \in [Tasks -> Labels] /\ ent \in [Tasks -> Ids \cup {None}]
        /\ pc[d] = "evict"
    BY Zenon DEF Inv, TypeOK, Tasks, EvictLoad
  <1>2. OthersRest(d) /\ TableRests
    BY <1>1, Zenon DEF EvictLoad, NextSlot, OthersRest, TableRests, Goto, Hold, shared, handlerVars
  <1>3. UNCHANGED Place
    BY <1>2, PlaceRests, Zenon
  <1>4. CASE ent[d] # entry
    <2>1. Stage(d) = "none" /\ Stage(d)' = "none"
      BY <1>1, <1>4, EntryIsSome, Zenon DEF EvictLoad, NextSlot, Hold, Stage
    <2> QED
      BY <1>1, <1>2, <1>3, <2>1, StageRests, Zenon DEF L!vars
  <1>5. CASE ent[d] = entry
    <2>1. /\ entry \in Published /\ slot_index[entry] = idx[d]
          /\ entry \in Installed <=> connections[idx[d]] = entry
      BY <1>1, <1>5, InstalledIn, Zenon
    <2>2. Stage(d) = "evict" /\ (Place = "table" <=> connections[idx[d]] = entry)
      BY <1>1, <1>5, <2>1, Zenon DEF Stage, Place
    <2>3. Stage(d)' = IF connections[idx[d]] = entry THEN "close" ELSE "none"
      BY <1>1, <1>5, <2>1, EntryIsSome, Zenon DEF EvictLoad, NextSlot, Goto, Hold, Stage
    <2>4. L!Move(d, IF Place = "table" THEN "close" ELSE "none")
      BY <1>1, <1>2, <2>2, <2>3, StageMoves
    <2>5. L!EvictLoad(d)
      BY <1>1, <1>3, <2>2, <2>4, Zenon DEF L!EvictLoad
    <2> QED
      BY <1>1, <2>5, Zenon DEF L!Step, L!Next
  <1> QED
    BY <1>4, <1>5, Zenon

\* sink.close()
LEMMA CloseLife ==
    ASSUME Inv, NEW t \in Tasks, Close(t)
    PROVE  [L!Next]_(L!vars)
  <1>1. /\ pc \in [Tasks -> Labels] /\ pc[t] = "close" /\ pc'[t] = "swap"
        /\ OthersRest(t) /\ TableRests /\ ent' = ent
    BY Zenon DEF Inv, TypeOK, Close, OthersRest, TableRests, Goto, shared, handlerVars
  <1>2. UNCHANGED Place
    BY <1>1, PlaceRests, Zenon
  <1>3. CASE ent[t] # entry
    <2>1. Stage(t)' = Stage(t)
      BY <1>1, <1>3, Zenon DEF Stage
    <2> QED
      BY <1>1, <1>2, <2>1, StageRests, Zenon DEF L!vars
  <1>4. CASE ent[t] = entry
    <2>1. Stage(t) = "close" /\ Stage(t)' = "swap"
      BY <1>1, <1>4, Zenon DEF Stage
    <2>2. L!Close(t)
      BY <1>1, <1>2, <2>1, StageMoves, Zenon DEF L!Close
    <2> QED
      BY <2>2, Zenon DEF L!Step, L!Next
  <1> QED
    BY <1>3, <1>4, Zenon

\* compare_and_swap takes out the entry in hand, and no other.
LEMMA SwapOutLife ==
    ASSUME Inv, NEW t \in Tasks, SwapOut(t)
    PROVE  [L!Next]_(L!vars)
  <1>1. /\ pc \in [Tasks -> Labels] /\ ent \in [Tasks -> Ids \cup {None}]
        /\ connections \in [Slots -> Ids \cup {None}]
        /\ pc[t] = "swap" /\ UNCHANGED <<next_connection_id, cid>> /\ TableInv
    BY Zenon DEF Inv, TypeOK, SwapOut
  <1>2. OthersRest(t)
    BY <1>1, Zenon DEF SwapOut, NextSlot, NotFound, Served, OthersRest, Goto, Hold
  <1>3. /\ ent'[t] = None \/ (ent'[t] = ent[t] /\ pc'[t] = "reload")
        /\ \A i \in Slots : connections'[i] =
               IF i = idx[t] /\ connections[i] = ent[t] THEN None ELSE connections[i]
    BY <1>1, Zenon DEF SwapOut, NextSlot, NotFound, Served, Goto, Hold
  <1>4. Published' = Published
    BY <1>1, Zenon DEF Published
  <1>5. CASE ent[t] # entry
    <2>1. Stage(t)' = Stage(t)
      BY <1>3, <1>5, EntryIsSome, Zenon DEF Stage
    <2>2. \A i \in Slots : connections'[i] = entry <=> connections[i] = entry
      BY <1>3, <1>5, EntryIsSome, Zenon
    <2>3. entry \in Installed' <=> entry \in Installed
      BY <2>2, EntryIsSome, Zenon DEF Installed
    <2>4. UNCHANGED Place
      BY <1>4, <2>3, Zenon DEF Place
    <2> QED
      BY <1>2, <2>1, <2>4, StageRests, Zenon DEF L!vars
  <1>6. CASE ent[t] = entry
    <2>1. entry \in Published /\ slot_index[entry] = idx[t] /\ idx[t] \in Slots
      BY <1>6, InstalledIn, Zenon
    <2>2. \A i \in Slots : connections'[i] # entry
      BY <1>1, <1>3, <1>6, <2>1, EntryIsSome DEF TableInv
    <2>3. Place' = "out"
      BY <1>4, <2>1, <2>2, Zenon DEF Place, Installed
    <2>4. Stage(t) = "swap" /\ Stage(t)' \in {"none", "done"}
      BY <1>1, <1>3, <1>6, EntryIsSome, Zenon DEF Stage
    <2>5. L!Move(t, "none") \/ L!Move(t, "done")
      BY <1>2, <2>4, StageMoves, Zenon
    <2>6. L!Swap(t)
      BY <2>3, <2>4, <2>5, Zenon DEF L!Swap
    <2> QED
      BY <2>6, Zenon DEF L!Step, L!Next
  <1> QED
    BY <1>5, <1>6, Zenon

-----------------------------------------------------------------------------
(* How an entry comes into the table, or does not.                         *)

\* A control-socket task that has no Arc in hand does not disturb hold.
LEMMA EmptyHanded ==
    ASSUME NEW h \in Tasks, OthersRest(h), ent[h] = None, ent' = ent
    PROVE  UNCHANGED [u \in Tasks |-> Stage(u)]
  <1>1. Stage(h)' = Stage(h)
    BY EntryIsSome, Zenon DEF Stage
  <1> QED
    BY <1>1, StageRests, Zenon

\* fetch_add: an id that is handed out is not yet known to anyone.
LEMMA AllocateLife ==
    ASSUME Inv, NEW h \in Handlers, AllocateId(h)
    PROVE  UNCHANGED L!vars
  <1>1. /\ h \in Tasks /\ TaskInv(h) /\ HandlerInv(h) /\ pc \in [Tasks -> Labels]
        /\ cid \in [Handlers -> Ids \cup {None}] /\ next_connection_id \in Nat
        /\ pc[h] = "alloc" /\ ent' = ent /\ connections' = connections
    BY DEF Inv, TypeOK, Tasks, AllocateId
  <1>2. OthersRest(h) /\ ent[h] = None
    BY <1>1, Zenon DEF AllocateId, OthersRest, Goto, TaskInv, Holding
  <1>3. /\ cid[h] = None /\ cid'[h] = next_connection_id
        /\ \A g \in Handlers : g # h => cid'[g] = cid[g]
        /\ next_connection_id' = next_connection_id + 1
    BY <1>1, Zenon DEF AllocateId, HandlerInv
  <1>4. entry \in Published' <=> entry \in Published
    <2>1. entry \in Nat
      BY EntryIsSome, ManagerAssumption DEF Ids
    <2> QED
      BY <1>1, <1>3, <2>1, EntryIsSome DEF Published
  <1>5. UNCHANGED Place
    BY <1>1, <1>4, Zenon DEF Place, Installed
  <1> QED
    BY <1>1, <1>2, <1>5, EmptyHanded, Zenon DEF L!vars

\* A task that ends gives up the id it allocated: no slot, or no ring.
LEMMA GiveUpLife ==
    ASSUME Inv, NEW h \in Handlers, Leave(h), UNCHANGED <<ent, shared>>, cid[h] # None,
           pc[h] \in {"scan", "create"}
    PROVE  [L!Next]_(L!vars)
  <1>1. /\ h \in Tasks /\ TaskInv(h) /\ HandlerInv(h) /\ Distinct /\ TableInv
        /\ pc \in [Tasks -> Labels] /\ cid \in [Handlers -> Ids \cup {None}]
        /\ UNCHANGED <<connections, next_connection_id>>
    BY Zenon DEF Inv, TypeOK, Tasks, shared
  <1>2. OthersRest(h) /\ ent[h] = None
    BY <1>1, Zenon DEF Leave, OthersRest, Goto, TaskInv, Holding
  <1>3. cid'[h] = None /\ \A g \in Handlers : g # h => cid'[g] = cid[g]
    BY <1>1, Zenon DEF Leave
  <1>4. UNCHANGED [u \in Tasks |-> Stage(u)]
    BY <1>1, <1>2, EmptyHanded, Zenon
  <1>5. Installed' = Installed /\ Installed \subseteq Published
    BY <1>1 DEF Installed, TableInv
  <1>6. CASE cid[h] # entry
    <2>1. entry \in Published' <=> entry \in Published
      BY <1>1, <1>3, <1>6, EntryIsSome, Zenon DEF Published
    <2> QED
      BY <1>4, <1>5, <2>1, Zenon DEF Place, L!vars
  <1>7. CASE cid[h] = entry
    <2>1. entry \notin Published
      BY <1>7, Zenon DEF Published
    <2>2. \A g \in Handlers : cid'[g] # entry
      BY <1>1, <1>3, <1>7, EntryIsSome, Zenon DEF Distinct
    <2>3. entry \in Published'
      BY <1>1, <1>7, <2>2, EntryIsSome, Zenon DEF Published, HandlerInv
    <2>4. Place = "new" /\ Place' = "out"
      BY <1>5, <2>1, <2>3, Zenon DEF Place
    <2>5. L!Abandon
      BY <1>4, <2>4, Zenon DEF L!Abandon
    <2> QED
      BY <2>5, Zenon DEF L!Next
  <1> QED
    BY <1>6, <1>7, Zenon

\* find_free_slot, one slot.
LEMMA ScanLoadLife ==
    ASSUME Inv, NEW h \in Handlers, ScanLoad(h)
    PROVE  [L!Next]_(L!vars)
  <1>1. /\ h \in Tasks /\ TaskInv(h) /\ HandlerInv(h) /\ pc[h] = "scan"
        /\ pc \in [Tasks -> Labels] /\ ent \in [Tasks -> Ids \cup {None}]
    BY Zenon DEF Inv, TypeOK, Tasks, ScanLoad
  <1>2. ent[h] = None /\ cid[h] # None
    BY <1>1, Zenon DEF TaskInv, HandlerInv, Holding
  <1>3. CASE idx[h] \notin Slots
    BY <1>1, <1>2, <1>3, GiveUpLife, Zenon DEF ScanLoad
  <1>4. CASE idx[h] \in Slots
    <2>1. OthersRest(h) /\ TableRests
      BY <1>1, <1>4, Zenon DEF ScanLoad, OthersRest, TableRests, Goto, Hold, shared
    <2>2. Handles(h)
      BY <1>1, <1>2, <1>4, ZenonT(30) DEF ScanLoad, Handles, Installed, Goto, Hold
    <2> QED
      BY <1>1, <2>1, <2>2, HandlesLife, Zenon
  <1> QED
    BY <1>3, <1>4, Zenon

\* compare_and_swap(None -> entry): an entry that was never in the table, or nothing.
LEMMA InstallLife ==
    ASSUME Inv, NEW h \in Handlers, Install(h)
    PROVE  [L!Next]_(L!vars)
  <1>1. /\ h \in Tasks /\ TaskInv(h) /\ HandlerInv(h) /\ TableInv /\ pc[h] = "install"
        /\ pc \in [Tasks -> Labels] /\ cid \in [Handlers -> Ids \cup {None}]
        /\ connections \in [Slots -> Ids \cup {None}]
        /\ UNCHANGED <<ent, next_connection_id>>
    BY Zenon DEF Inv, TypeOK, Tasks, Install
  <1>2. OthersRest(h) /\ ent[h] = None /\ cid[h] # None /\ idx[h] \in Slots
    BY <1>1, Zenon DEF Install, Served, OthersRest, Goto, TaskInv, HandlerInv, Holding
  <1>3. UNCHANGED [u \in Tasks |-> Stage(u)]
    BY <1>1, <1>2, EmptyHanded, Zenon
  <1>4. CASE connections[idx[h]] # None
    <2>1. TableRests
      BY <1>1, <1>4, Zenon DEF Install, TableRests
    <2> QED
      BY <1>3, <2>1, PlaceRests, Zenon DEF L!vars
  <1>5. CASE connections[idx[h]] = None
    <2>1. /\ \A i \in Slots : connections'[i] = IF i = idx[h] THEN cid[h] ELSE connections[i]
          /\ cid'[h] = None /\ \A g \in Handlers : g # h => cid'[g] = cid[g]
      BY <1>1, <1>5, Zenon DEF Install
    <2>2. CASE cid[h] # entry
      <3>1. \A i \in Slots : connections'[i] = entry <=> connections[i] = entry
        BY <1>5, <2>1, <2>2, EntryIsSome, Zenon
      <3>2. entry \in Installed' <=> entry \in Installed
        BY <3>1, EntryIsSome DEF Installed
      <3>3. entry \in Published' <=> entry \in Published
        BY <1>1, <2>1, <2>2, EntryIsSome, Zenon DEF Published
      <3> QED
        BY <1>3, <3>2, <3>3, Zenon DEF Place, L!vars
    <2>3. CASE cid[h] = entry
      <3>1. entry \notin Published /\ Installed \subseteq Published
        BY <1>1, <2>3 DEF Published, Installed, TableInv
      <3>2. entry \in Installed'
        BY <1>2, <2>1, <2>3, EntryIsSome, Zenon DEF Installed
      <3>3. Place = "new" /\ Place' = "table"
        BY <3>1, <3>2, Zenon DEF Place
      <3>4. L!Install
        BY <1>3, <3>3, Zenon DEF L!Install
      <3> QED
        BY <3>4, Zenon DEF L!Next
    <2> QED
      BY <2>2, <2>3, Zenon
  <1> QED
    BY <1>4, <1>5, Zenon

-----------------------------------------------------------------------------
\* Every step of the table is a step of EntryLife or leaves its variables alone.
LEMMA TableLife ==
    ASSUME Inv, Next
    PROVE  [L!Next]_(L!vars)
  <1>1. CASE \E t \in Tasks : TaskStep(t)
    BY <1>1, CheckStaleLife, CloseLife, SwapOutLife, Zenon DEF TaskStep
  <1>2. CASE \E h \in Handlers : HandlerStep(h)
    <2>1. PICK h \in Handlers : HandlerStep(h)
      BY <1>2, Zenon
    <2>2. CASE AllocateId(h)
      BY <2>2, AllocateLife, Zenon
    <2>3. CASE CreateFails(h)
      <3>1. pc[h] = "create" /\ cid[h] # None
        BY <2>3, ZenonT(30) DEF CreateFails, Inv, HandlerInv
      <3> QED
        BY <2>3, <3>1, GiveUpLife, Zenon DEF CreateFails
    <2>4. CASE ScanLoad(h) \/ Install(h)
      BY <2>4, ScanLoadLife, InstallLife, Zenon
    <2> QED
      BY <2>1, <2>2, <2>3, <2>4, HandlerLife, Zenon DEF HandlerStep
  <1>3. CASE \E d \in Dispatchers : DispatcherStep(d)
    <2>1. PICK d \in Dispatchers : DispatcherStep(d)
      BY <1>3, Zenon
    <2> QED
      BY <2>1, EvictLoadLife, DispatcherLife, Zenon DEF DispatcherStep
  <1>4. CASE \E t \in 0 .. MaxTime : ClockStep(t)
    <2>1. UNCHANGED <<connections, next_connection_id, cid, pc, ent>>
      BY <1>4, Zenon DEF ClockStep, handlerVars
    <2>2. \A u \in Tasks : Stage(u)' = Stage(u)
      BY <2>1, Zenon DEF Stage
    <2>3. UNCHANGED [u \in Tasks |-> Stage(u)]
      BY <2>2, Zenon
    <2> QED
      BY <2>1, <2>3, PlaceRests, Zenon DEF TableRests, L!vars
  <1> QED
    BY <1>1, <1>2, <1>3, <1>4, Zenon DEF Next

(***************************************************************************)
(* The table keeps EntryLife for each of its entries: whatever the tasks   *)
(* of dispatch_*_update, upsert_shm and touch_ping do to a slot and in     *)
(* which order, an entry is installed at most once, found only while it is *)
(* installed, and leaves only through sink.close() and a compare_and_swap  *)
(* by a task that holds it.                                                *)
(***************************************************************************)
THEOREM TableImplementsEntryLife == Spec => L!Spec
  <1>1. Init => L!Init
    <2> SUFFICES ASSUME Init PROVE L!Init
      BY Zenon
    <2>1. \A u \in Tasks : Stage(u) = "none"
      BY EntryIsSome, Zenon DEF Init, Stage
    <2>2. [u \in Tasks |-> Stage(u)] = [u \in Tasks |-> "none"]
      BY <2>1, Zenon
    <2>3. Place = "new"
      <3>1. entry \notin Installed
        BY Zenon DEF Init, Installed
      <3>2. entry \notin Published
        BY EntryIsSome DEF Init, Published, Ids
      <3> QED
        BY <3>1, <3>2, Zenon DEF Place
    <2> QED
      BY <2>2, <2>3, Zenon DEF L!Init
  <1>2. Inv /\ [Next]_vars => [L!Next]_(L!vars)
    <2>1. ASSUME UNCHANGED vars PROVE UNCHANGED L!vars
      <3>1. UNCHANGED <<connections, next_connection_id, cid, pc, ent>>
        BY <2>1, Zenon DEF vars, shared, handlerVars
      <3>2. \A u \in Tasks : Stage(u)' = Stage(u)
        BY <3>1, Zenon DEF Stage
      <3>3. UNCHANGED [u \in Tasks |-> Stage(u)]
        BY <3>2, Zenon
      <3> QED
        BY <3>1, <3>3, PlaceRests, Zenon DEF TableRests, L!vars
    <2> QED
      BY <2>1, TableLife, Zenon
  <1> QED
    BY <1>1, <1>2, Invariance, PTL DEF Spec, L!Spec
=============================================================================
