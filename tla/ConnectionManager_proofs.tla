---------------------- MODULE ConnectionManager_proofs ----------------------
(***************************************************************************)
(* Inv of ConnectionManager is inductive, for any number of slots, control *)
(* sockets, fan-outs and connections, and the safety properties follow.    *)
(* Every action keeps the types; what a step leaves of the invariant of    *)
(* the tasks that do not take it; then one lemma for each action.          *)
(***************************************************************************)
EXTENDS ConnectionManager, TLAPS

-----------------------------------------------------------------------------
(* The types.                                                              *)

\* A task is a handler or a dispatcher, never both.
LEMMA Apart == \A h \in Handlers, d \in Dispatchers : h # d
BY ManagerAssumption, Zenon

\* The slot index of a scan or a fan-out ends one past the last slot.
LEMMA SlotSteps ==
    /\ 0 \in 0 .. MAX_CONNECTION_SLOTS
    /\ \A i \in Slots : i \in 0 .. MAX_CONNECTION_SLOTS /\ i + 1 \in 0 .. MAX_CONNECTION_SLOTS
BY ManagerAssumption DEF Slots

\* The frame of a handler that serves none.
LEMMA NoRequestType == NoRequest \in Request
BY Zenon DEF NoRequest, Request

\* A task that holds an Arc holds that of a published entry.
LEMMA Held ==
    ASSUME Inv, NEW t \in Tasks, pc[t] \in Holding
    PROVE  ent[t] \in Ids /\ idx[t] \in Slots /\ ent[t] \in Published
<1>1. TaskInv(t) /\ ent[t] \in Ids \cup {None} /\ slot_index \in [Ids -> Slots]
  BY Zenon DEF Inv, TypeOK
<1>2. QED
  BY <1>1, Zenon DEF TaskInv

\* What a handler has between allocating an id and installing it.
LEMMA Owned ==
    ASSUME Inv, NEW h \in Handlers
    PROVE  /\ pc[h] \in {"scan", "reload", "create", "install"} => cid[h] \in Ids
           /\ pc[h] \in {"create", "install"} => idx[h] \in Slots
           /\ pc[h] = "lookup" => token[h] \in Token
<1>1. HandlerInv(h) /\ cid[h] \in Ids \cup {None} /\ token[h] \in Token \cup {None}
  BY Zenon DEF Inv, TypeOK
<1>2. QED
  BY <1>1, Zenon DEF HandlerInv

\* CheckStale keeps the types.
LEMMA CheckStaleTypes ==
    ASSUME Inv, NEW t \in Tasks, CheckStale(t)
    PROVE  TypeOK'
<1>1. TypeOK
  BY Zenon DEF Inv
<1>2. pc[t] \in Holding => ent[t] \in Ids /\ idx[t] \in Slots
  BY Held, Zenon
<1>3. /\ pc' \in [Tasks -> Labels]
      /\ idx' \in [Tasks -> 0 .. MAX_CONNECTION_SLOTS]
      /\ ent' \in [Tasks -> Ids \cup {None}]
  BY <1>1, <1>2, SlotSteps
  DEF TypeOK, Holding, CheckStale, Labels, Goto, Hold, At, NextSlot
<1>4. condemned' \subseteq Ids
  BY <1>1, <1>2, Zenon
  DEF TypeOK, Holding, CheckStale, NextSlot
<1>5. QED
  BY <1>1, <1>3, <1>4, Zenon DEF TypeOK, CheckStale, shared, entryVars, handlerVars, dispatcherVars

\* Close keeps the types.
LEMMA CloseTypes ==
    ASSUME Inv, NEW t \in Tasks, Close(t)
    PROVE  TypeOK'
<1>1. TypeOK
  BY Zenon DEF Inv
<1>2. pc[t] \in Holding => ent[t] \in Ids /\ idx[t] \in Slots
  BY Held, Zenon
<1>3. pc' \in [Tasks -> Labels]
  BY <1>1, <1>2, Zenon
  DEF TypeOK, Holding, Close, Labels, Goto
<1>4. closed' \subseteq Ids
  BY <1>1, <1>2, Zenon
  DEF TypeOK, Holding, Close
<1>5. QED
  BY <1>1, <1>3, <1>4, Zenon DEF TypeOK, Close, shared, entryVars, handlerVars, dispatcherVars

\* SwapOut keeps the types.
LEMMA SwapOutTypes ==
    ASSUME Inv, NEW t \in Tasks, SwapOut(t)
    PROVE  TypeOK'
<1>1. TypeOK
  BY Zenon DEF Inv
<1>2. pc[t] \in Holding => ent[t] \in Ids /\ idx[t] \in Slots
  BY Held, Zenon
<1>3. connections' \in [Slots -> Ids \cup {None}]
  BY <1>1, <1>2, Zenon
  DEF TypeOK, Holding, SwapOut, NextSlot, Served, NotFound, Resolving, Scanning
<1>4. pc' \in [Tasks -> Labels]
  BY <1>1, <1>2
  DEF TypeOK, Holding, SwapOut, Labels, Goto, NextSlot, Served, NotFound, Resolving,
      Scanning
<1>5. idx' \in [Tasks -> 0 .. MAX_CONNECTION_SLOTS]
  BY <1>1, <1>2, SlotSteps
  DEF TypeOK, Holding, SwapOut, At, NextSlot, Served, NotFound, Resolving, Scanning
<1>6. ent' \in [Tasks -> Ids \cup {None}]
  BY <1>1, <1>2, Zenon
  DEF TypeOK, Holding, SwapOut, Hold, NextSlot, Served, NotFound, Resolving, Scanning
<1>7. request' \in [Handlers -> Request]
  BY <1>1, <1>2, NoRequestType, Apart, Zenon
  DEF TypeOK, Holding, SwapOut, handlerVars, Tasks, NextSlot, Served, NotFound, Resolving,
      Scanning
<1>8. QED
  BY <1>1, <1>3, <1>4, <1>5, <1>6, <1>7, Zenon
  DEF TypeOK, SwapOut, shared, entryVars, handlerVars, dispatcherVars, NextSlot, Served,
      NotFound, Resolving, Scanning

\* Accept keeps the types.
LEMMA AcceptTypes ==
    ASSUME Inv, NEW h \in Handlers, Accept(h)
    PROVE  TypeOK'
<1>1. TypeOK
  BY Zenon DEF Inv
<1>2. h \in Tasks
  BY Zenon DEF Tasks
<1>3. pc[h] \in Holding => ent[h] \in Ids /\ idx[h] \in Slots
  BY <1>2, Held, Zenon
<1>4. pc' \in [Tasks -> Labels]
  BY <1>1, <1>2, <1>3, Zenon
  DEF TypeOK, Holding, Accept, Labels, Goto
<1>5. QED
  BY <1>1, <1>4, Zenon DEF TypeOK, Accept, shared, entryVars, handlerVars, dispatcherVars

\* Eof keeps the types.
LEMMA EofTypes ==
    ASSUME Inv, NEW h \in Handlers, Eof(h)
    PROVE  TypeOK'
<1>1. TypeOK
  BY Zenon DEF Inv
<1>2. h \in Tasks
  BY Zenon DEF Tasks
<1>3. pc[h] \in Holding => ent[h] \in Ids /\ idx[h] \in Slots
  BY <1>2, Held, Zenon
<1>4. /\ pc' \in [Tasks -> Labels]
      /\ idx' \in [Tasks -> 0 .. MAX_CONNECTION_SLOTS]
  BY <1>1, <1>2, <1>3, SlotSteps, Zenon
  DEF TypeOK, Holding, Eof, Labels, Goto, At, Leave
<1>5. /\ request' \in [Handlers -> Request]
      /\ token' \in [Handlers -> Token \cup {None}]
      /\ cid' \in [Handlers -> Ids \cup {None}]
      /\ asked' \in [Handlers -> SUBSET Topics]
  BY <1>1, <1>2, <1>3, NoRequestType, Zenon
  DEF TypeOK, Holding, Eof, Token, Leave
<1>6. QED
  BY <1>1, <1>4, <1>5, Zenon DEF TypeOK, Eof, shared, entryVars, handlerVars, dispatcherVars, Leave

\* ReceiveSubscription keeps the types.
LEMMA ReceiveSubscriptionTypes ==
    ASSUME Inv, NEW h \in Handlers, NEW topics \in SUBSET Topics, ReceiveSubscription(h, topics)
    PROVE  TypeOK'
<1>1. TypeOK
  BY Zenon DEF Inv
<1>2. h \in Tasks
  BY Zenon DEF Tasks
<1>3. pc[h] \in Holding => ent[h] \in Ids /\ idx[h] \in Slots
  BY <1>2, Held, Zenon
<1>4. pc' \in [Tasks -> Labels]
  BY <1>1, <1>2, <1>3, Zenon
  DEF TypeOK, Holding, ReceiveSubscription, Labels, Goto
<1>5. request' \in [Handlers -> Request]
  BY <1>1, <1>2, <1>3, Zenon
  DEF TypeOK, Holding, ReceiveSubscription, Request
<1>6. QED
  BY <1>1, <1>4, <1>5, Zenon
  DEF TypeOK, ReceiveSubscription, shared, entryVars, handlerVars, dispatcherVars

\* ReceivePing keeps the types.
LEMMA ReceivePingTypes ==
    ASSUME Inv, NEW h \in Handlers, ReceivePing(h)
    PROVE  TypeOK'
<1>1. TypeOK
  BY Zenon DEF Inv
<1>2. h \in Tasks
  BY Zenon DEF Tasks
<1>3. pc[h] \in Holding => ent[h] \in Ids /\ idx[h] \in Slots
  BY <1>2, Held, Zenon
<1>4. pc' \in [Tasks -> Labels]
  BY <1>1, <1>2, <1>3, Zenon
  DEF TypeOK, Holding, ReceivePing, Labels, Goto
<1>5. request' \in [Handlers -> Request]
  BY <1>1, <1>2, <1>3, Zenon
  DEF TypeOK, Holding, ReceivePing, Request
<1>6. QED
  BY <1>1, <1>4, <1>5, Zenon
  DEF TypeOK, ReceivePing, shared, entryVars, handlerVars, dispatcherVars

\* LookupLoad keeps the types.
LEMMA LookupLoadTypes ==
    ASSUME Inv, NEW h \in Handlers, LookupLoad(h)
    PROVE  TypeOK'
<1>1. TypeOK
  BY Zenon DEF Inv
<1>2. h \in Tasks
  BY Zenon DEF Tasks
<1>3. pc[h] \in Holding => ent[h] \in Ids /\ idx[h] \in Slots
  BY <1>2, Held, Zenon
<1>4. /\ pc[h] \in {"scan", "reload", "create", "install"} => cid[h] \in Ids
      /\ pc[h] \in {"create", "install"} => idx[h] \in Slots
      /\ pc[h] = "lookup" => token[h] \in Token
  BY Owned, Zenon
<1>5. /\ pc' \in [Tasks -> Labels]
      /\ ent' \in [Tasks -> Ids \cup {None}]
  BY <1>1, <1>2, <1>3, <1>4, SMTT(30)
  DEF TypeOK, Holding, LookupLoad, Labels, Goto, Hold, Token, NotFound, Served
<1>6. idx' \in [Tasks -> 0 .. MAX_CONNECTION_SLOTS]
  BY <1>1, <1>2, <1>3, <1>4, SlotSteps, Zenon
  DEF TypeOK, Holding, LookupLoad, At, Token, NotFound, Served
<1>7. request' \in [Handlers -> Request]
  BY <1>1, <1>2, <1>3, <1>4, NoRequestType, Zenon
  DEF TypeOK, Holding, LookupLoad, Token, NotFound, Served
<1>8. QED
  BY <1>1, <1>5, <1>6, <1>7, Zenon
  DEF TypeOK, LookupLoad, shared, entryVars, handlerVars, dispatcherVars, NotFound, Served

\* Touch keeps the types.
LEMMA TouchTypes ==
    ASSUME Inv, NEW h \in Handlers, Touch(h)
    PROVE  TypeOK'
<1>1. TypeOK
  BY Zenon DEF Inv
<1>2. h \in Tasks
  BY Zenon DEF Tasks
<1>3. pc[h] \in Holding => ent[h] \in Ids /\ idx[h] \in Slots
  BY <1>2, Held, Zenon
<1>4. last_seen_ms' \in [Ids -> Nat]
  BY <1>1, <1>2, <1>3, Zenon
  DEF TypeOK, Holding, Touch, Served
<1>5. /\ pc' \in [Tasks -> Labels]
      /\ idx' \in [Tasks -> 0 .. MAX_CONNECTION_SLOTS]
      /\ ent' \in [Tasks -> Ids \cup {None}]
  BY <1>1, <1>2, <1>3, SlotSteps
  DEF TypeOK, Holding, Touch, Labels, Goto, Hold, At, Served
<1>6. request' \in [Handlers -> Request]
  BY <1>1, <1>2, <1>3, NoRequestType, Zenon
  DEF TypeOK, Holding, Touch, Served
<1>7. QED
  BY <1>1, <1>4, <1>5, <1>6, Zenon
  DEF TypeOK, Touch, shared, entryVars, handlerVars, dispatcherVars, Served

\* LoadFilter keeps the types.
LEMMA LoadFilterTypes ==
    ASSUME Inv, NEW h \in Handlers, LoadFilter(h)
    PROVE  TypeOK'
<1>1. TypeOK
  BY Zenon DEF Inv
<1>2. h \in Tasks
  BY Zenon DEF Tasks
<1>3. pc[h] \in Holding => ent[h] \in Ids /\ idx[h] \in Slots
  BY <1>2, Held, Zenon
<1>4. pc' \in [Tasks -> Labels]
  BY <1>1, <1>2, <1>3, Zenon
  DEF TypeOK, Holding, LoadFilter, Labels, Goto
<1>5. loaded' \in [Handlers -> SUBSET Topics]
  BY <1>1, <1>2, <1>3, Zenon
  DEF TypeOK, Holding, LoadFilter
<1>6. QED
  BY <1>1, <1>4, <1>5, Zenon DEF TypeOK, LoadFilter, shared, entryVars, handlerVars, dispatcherVars

\* StoreFilter keeps the types.
LEMMA StoreFilterTypes ==
    ASSUME Inv, NEW h \in Handlers, StoreFilter(h)
    PROVE  TypeOK'
<1>1. TypeOK
  BY Zenon DEF Inv
<1>2. h \in Tasks
  BY Zenon DEF Tasks
<1>3. pc[h] \in Holding => ent[h] \in Ids /\ idx[h] \in Slots
  BY <1>2, Held, Zenon
<1>4. filter' \in [Ids -> SUBSET Topics]
  BY <1>1, <1>2, <1>3, Zenon
  DEF TypeOK, Holding, StoreFilter, Request, Served
<1>5. /\ pc' \in [Tasks -> Labels]
      /\ idx' \in [Tasks -> 0 .. MAX_CONNECTION_SLOTS]
      /\ ent' \in [Tasks -> Ids \cup {None}]
  BY <1>1, <1>2, <1>3, SlotSteps, Zenon
  DEF TypeOK, Holding, StoreFilter, Labels, Goto, Hold, At, Served
<1>6. /\ asked' \in [Handlers -> SUBSET Topics]
      /\ loaded' \in [Handlers -> SUBSET Topics]
  BY <1>1, <1>2, <1>3, Zenon
  DEF TypeOK, Holding, StoreFilter, Request, Served
<1>7. request' \in [Handlers -> Request]
  BY <1>1, <1>2, <1>3, NoRequestType, Zenon
  DEF TypeOK, Holding, StoreFilter, Served
<1>8. QED
  BY <1>1, <1>4, <1>5, <1>6, <1>7, Zenon
  DEF TypeOK, StoreFilter, shared, entryVars, handlerVars, dispatcherVars, Served

\* AllocateId keeps the types.
LEMMA AllocateIdTypes ==
    ASSUME Inv, NEW h \in Handlers, AllocateId(h)
    PROVE  TypeOK'
<1>1. TypeOK
  BY Zenon DEF Inv
<1>2. h \in Tasks
  BY Zenon DEF Tasks
<1>3. pc[h] \in Holding => ent[h] \in Ids /\ idx[h] \in Slots
  BY <1>2, Held, Zenon
<1>4. /\ pc[h] \in {"scan", "reload", "create", "install"} => cid[h] \in Ids
      /\ pc[h] \in {"create", "install"} => idx[h] \in Slots
      /\ pc[h] = "lookup" => token[h] \in Token
  BY Owned, Zenon
<1>5. /\ next_connection_id' \in 1 .. MaxConnectionId + 1
      /\ cid' \in [Handlers -> Ids \cup {None}]
  BY <1>1, <1>2, <1>3, <1>4, ManagerAssumption
  DEF TypeOK, Holding, AllocateId, Ids
<1>6. /\ pc' \in [Tasks -> Labels]
      /\ idx' \in [Tasks -> 0 .. MAX_CONNECTION_SLOTS]
  BY <1>1, <1>2, <1>3, <1>4, SlotSteps, Zenon
  DEF TypeOK, Holding, AllocateId, Labels, Goto, At
<1>7. QED
  BY <1>1, <1>5, <1>6, Zenon DEF TypeOK, AllocateId, shared, entryVars, handlerVars, dispatcherVars

\* ScanLoad keeps the types.
LEMMA ScanLoadTypes ==
    ASSUME Inv, NEW h \in Handlers, ScanLoad(h)
    PROVE  TypeOK'
<1>1. TypeOK
  BY Zenon DEF Inv
<1>2. h \in Tasks
  BY Zenon DEF Tasks
<1>3. pc[h] \in Holding => ent[h] \in Ids /\ idx[h] \in Slots
  BY <1>2, Held, Zenon
<1>4. /\ pc[h] \in {"scan", "reload", "create", "install"} => cid[h] \in Ids
      /\ pc[h] \in {"create", "install"} => idx[h] \in Slots
      /\ pc[h] = "lookup" => token[h] \in Token
  BY Owned, Zenon
<1>5. /\ pc' \in [Tasks -> Labels]
      /\ idx' \in [Tasks -> 0 .. MAX_CONNECTION_SLOTS]
      /\ ent' \in [Tasks -> Ids \cup {None}]
  BY <1>1, <1>2, <1>3, <1>4, SlotSteps, SMTT(30)
  DEF TypeOK, Holding, ScanLoad, Labels, Goto, Hold, At, Leave
<1>6. request' \in [Handlers -> Request]
  BY <1>1, <1>2, <1>3, <1>4, NoRequestType, Zenon
  DEF TypeOK, Holding, ScanLoad, Leave
<1>7. /\ token' \in [Handlers -> Token \cup {None}]
      /\ cid' \in [Handlers -> Ids \cup {None}]
  BY <1>1, <1>2, <1>3, <1>4, Zenon
  DEF TypeOK, Holding, ScanLoad, Token, Leave
<1>8. asked' \in [Handlers -> SUBSET Topics]
  BY <1>1, <1>2, <1>3, <1>4, Zenon
  DEF TypeOK, Holding, ScanLoad, Request, Leave
<1>9. QED
  BY <1>1, <1>5, <1>6, <1>7, <1>8, Zenon
  DEF TypeOK, ScanLoad, shared, entryVars, handlerVars, dispatcherVars, Leave

\* ScanReload keeps the types.
LEMMA ScanReloadTypes ==
    ASSUME Inv, NEW h \in Handlers, ScanReload(h)
    PROVE  TypeOK'
<1>1. TypeOK
  BY Zenon DEF Inv
<1>2. h \in Tasks
  BY Zenon DEF Tasks
<1>3. pc[h] \in Holding => ent[h] \in Ids /\ idx[h] \in Slots
  BY <1>2, Held, Zenon
<1>4. /\ pc' \in [Tasks -> Labels]
      /\ idx' \in [Tasks -> 0 .. MAX_CONNECTION_SLOTS]
      /\ ent' \in [Tasks -> Ids \cup {None}]
  BY <1>1, <1>2, <1>3, SlotSteps
  DEF TypeOK, Holding, ScanReload, Labels, Goto, Hold, At
<1>5. QED
  BY <1>1, <1>4, Zenon DEF TypeOK, ScanReload, shared, entryVars, handlerVars, dispatcherVars

\* CreateEntry keeps the types.
LEMMA CreateEntryTypes ==
    ASSUME Inv, NEW h \in Handlers, CreateEntry(h)
    PROVE  TypeOK'
<1>1. TypeOK
  BY Zenon DEF Inv
<1>2. h \in Tasks
  BY Zenon DEF Tasks
<1>3. pc[h] \in Holding => ent[h] \in Ids /\ idx[h] \in Slots
  BY <1>2, Held, Zenon
<1>4. /\ pc[h] \in {"scan", "reload", "create", "install"} => cid[h] \in Ids
      /\ pc[h] \in {"create", "install"} => idx[h] \in Slots
      /\ pc[h] = "lookup" => token[h] \in Token
  BY Owned, Zenon
<1>5. slot_index' \in [Ids -> Slots]
  BY <1>1, <1>2, <1>3, <1>4, Zenon
  DEF TypeOK, Holding, CreateEntry
<1>6. filter' \in [Ids -> SUBSET Topics]
  BY <1>1, <1>2, <1>3, <1>4, Zenon
  DEF TypeOK, Holding, CreateEntry, Request
<1>7. last_seen_ms' \in [Ids -> Nat]
  BY <1>1, <1>2, <1>3, <1>4, Zenon
  DEF TypeOK, Holding, CreateEntry
<1>8. pc' \in [Tasks -> Labels]
  BY <1>1, <1>2, <1>3, <1>4, Zenon
  DEF TypeOK, Holding, CreateEntry, Labels, Goto
<1>9. QED
  BY <1>1, <1>5, <1>6, <1>7, <1>8, Zenon
  DEF TypeOK, CreateEntry, shared, entryVars, handlerVars, dispatcherVars

\* CreateFails keeps the types.
LEMMA CreateFailsTypes ==
    ASSUME Inv, NEW h \in Handlers, CreateFails(h)
    PROVE  TypeOK'
<1>1. TypeOK
  BY Zenon DEF Inv
<1>2. h \in Tasks
  BY Zenon DEF Tasks
<1>3. pc[h] \in Holding => ent[h] \in Ids /\ idx[h] \in Slots
  BY <1>2, Held, Zenon
<1>4. /\ pc' \in [Tasks -> Labels]
      /\ idx' \in [Tasks -> 0 .. MAX_CONNECTION_SLOTS]
  BY <1>1, <1>2, <1>3, SlotSteps, Zenon
  DEF TypeOK, Holding, CreateFails, Labels, Goto, At, Leave
<1>5. /\ request' \in [Handlers -> Request]
      /\ token' \in [Handlers -> Token \cup {None}]
      /\ cid' \in [Handlers -> Ids \cup {None}]
      /\ asked' \in [Handlers -> SUBSET Topics]
  BY <1>1, <1>2, <1>3, NoRequestType, Zenon
  DEF TypeOK, Holding, CreateFails, Token, Leave
<1>6. QED
  BY <1>1, <1>4, <1>5, Zenon
  DEF TypeOK, CreateFails, shared, entryVars, handlerVars, dispatcherVars, Leave

\* Install keeps the types.
LEMMA InstallTypes ==
    ASSUME Inv, NEW h \in Handlers, Install(h)
    PROVE  TypeOK'
<1>1. TypeOK
  BY Zenon DEF Inv
<1>2. h \in Tasks
  BY Zenon DEF Tasks
<1>3. pc[h] \in Holding => ent[h] \in Ids /\ idx[h] \in Slots
  BY <1>2, Held, Zenon
<1>4. /\ pc[h] \in {"scan", "reload", "create", "install"} => cid[h] \in Ids
      /\ pc[h] \in {"create", "install"} => idx[h] \in Slots
      /\ pc[h] = "lookup" => token[h] \in Token
  BY Owned, Zenon
<1>5. connections' \in [Slots -> Ids \cup {None}]
  BY <1>1, <1>2, <1>3, <1>4, Zenon
  DEF TypeOK, Holding, Install, Served
<1>6. /\ pc' \in [Tasks -> Labels]
      /\ idx' \in [Tasks -> 0 .. MAX_CONNECTION_SLOTS]
  <2>1. pc' \in [Tasks -> Labels]
    BY <1>1, <1>2 DEF TypeOK, Install, Labels, Goto, Served
  <2>2. idx' = [idx EXCEPT ![h] = 0] /\ 0 \in 0 .. MAX_CONNECTION_SLOTS
    BY SlotSteps, ManagerAssumption, Zenon DEF Install, At, Served
  <2>3. QED
    BY <1>1, <1>2, <2>1, <2>2, Zenon DEF TypeOK
<1>7. /\ token' \in [Handlers -> Token \cup {None}]
      /\ cid' \in [Handlers -> Ids \cup {None}]
  <2>1. pc[h] = "install" /\ cid[h] \in Ids /\ idx[h] \in Slots
    BY <1>4, Zenon DEF Install
  <2>2. [slot_index |-> idx[h], generation |-> cid[h]] \in Token
    BY <2>1, Zenon DEF Token
  <2>3. /\ \/ token' = token
           \/ token' = [token EXCEPT ![h] = [slot_index |-> idx[h], generation |-> cid[h]]]
        /\ cid' = cid \/ cid' = [cid EXCEPT ![h] = None]
    BY Zenon DEF Install
  <2>4. token \in [Handlers -> Token \cup {None}] /\ cid \in [Handlers -> Ids \cup {None}]
    BY <1>1, Zenon DEF TypeOK
  <2>5. QED
    BY <2>2, <2>3, <2>4, Zenon
<1>8. asked' \in [Handlers -> SUBSET Topics]
  <2>1. request[h].topics \in SUBSET Topics
    BY <1>1, Zenon DEF TypeOK, Request
  <2>2. asked \in [Handlers -> SUBSET Topics]
    BY <1>1, Zenon DEF TypeOK
  <2>3. asked' = asked \/ asked' = [asked EXCEPT ![h] = request[h].topics]
    BY Zenon DEF Install
  <2>4. QED
    BY <2>1, <2>2, <2>3, Zenon
<1>9. request' \in [Handlers -> Request]
  BY <1>1, <1>2, <1>3, <1>4, NoRequestType, Zenon
  DEF TypeOK, Holding, Install, Served
<1>10. QED
  BY <1>1, <1>5, <1>6, <1>7, <1>8, <1>9, Zenon
  DEF TypeOK, Install, shared, entryVars, handlerVars, dispatcherVars, Served

\* ReceiveUpdate keeps the types.
LEMMA ReceiveUpdateTypes ==
    ASSUME Inv, NEW d \in Dispatchers, NEW u \in Updates, ReceiveUpdate(d, u)
    PROVE  TypeOK'
<1>1. TypeOK
  BY Zenon DEF Inv
<1>2. d \in Tasks
  BY Zenon DEF Tasks
<1>3. pc[d] \in Holding => ent[d] \in Ids /\ idx[d] \in Slots
  BY <1>2, Held, Zenon
<1>4. /\ pc' \in [Tasks -> Labels]
      /\ idx' \in [Tasks -> 0 .. MAX_CONNECTION_SLOTS]
  BY <1>1, <1>2, <1>3, SlotSteps, Zenon
  DEF TypeOK, Holding, ReceiveUpdate, Labels, Goto, At, Wanting, Installed
<1>5. /\ update' \in [Dispatchers -> Updates \cup {None}]
      /\ due' \in [Dispatchers -> SUBSET Ids]
  BY <1>1, <1>2, <1>3
  DEF TypeOK, Holding, ReceiveUpdate, dispatcherVars, Wanting, Installed
<1>6. QED
  BY <1>1, <1>4, <1>5, Zenon
  DEF TypeOK, ReceiveUpdate, shared, entryVars, handlerVars, dispatcherVars

\* VisitLoad keeps the types.
LEMMA VisitLoadTypes ==
    ASSUME Inv, NEW d \in Dispatchers, VisitLoad(d)
    PROVE  TypeOK'
<1>1. TypeOK
  BY Zenon DEF Inv
<1>2. d \in Tasks
  BY Zenon DEF Tasks
<1>3. pc[d] \in Holding => ent[d] \in Ids /\ idx[d] \in Slots
  BY <1>2, Held, Zenon
<1>4. pc' \in [Tasks -> Labels]
  <2>1. \E label \in {"idle", "visit", "stale"} : pc' = [pc EXCEPT ![d] = label]
    BY Zenon DEF VisitLoad, Goto, NextSlot, Finish
  <2>2. \E label \in Labels : pc' = [pc EXCEPT ![d] = label]
    BY <2>1, Zenon DEF Labels
  <2>3. QED
    BY <1>1, <1>2, <2>2, Zenon DEF TypeOK
<1>5. idx' \in [Tasks -> 0 .. MAX_CONNECTION_SLOTS]
  BY <1>1, <1>2, <1>3, SlotSteps
  DEF TypeOK, Holding, VisitLoad, At, NextSlot, Finish
<1>6. ent' \in [Tasks -> Ids \cup {None}]
  BY <1>1, <1>2, <1>3, Zenon
  DEF TypeOK, Holding, VisitLoad, Hold, NextSlot, Finish
<1>7. /\ update' \in [Dispatchers -> Updates \cup {None}]
      /\ due' \in [Dispatchers -> SUBSET Ids]
      /\ hit' \in [Dispatchers -> SUBSET Ids]
  BY <1>1, <1>2, <1>3, Zenon
  DEF TypeOK, Holding, VisitLoad, dispatcherVars, NextSlot, Finish
<1>8. QED
  BY <1>1, <1>4, <1>5, <1>6, <1>7, Zenon
  DEF TypeOK, VisitLoad, shared, entryVars, handlerVars, dispatcherVars

\* MatchFilter keeps the types.
LEMMA MatchFilterTypes ==
    ASSUME Inv, NEW d \in Dispatchers, MatchFilter(d)
    PROVE  TypeOK'
<1>1. TypeOK
  BY Zenon DEF Inv
<1>2. d \in Tasks
  BY Zenon DEF Tasks
<1>3. pc[d] \in Holding => ent[d] \in Ids /\ idx[d] \in Slots
  BY <1>2, Held, Zenon
<1>4. pc' \in [Tasks -> Labels]
  BY <1>1, <1>2, <1>3, Zenon
  DEF TypeOK, Holding, MatchFilter, Labels, Goto, NextSlot, Finish
<1>5. idx' \in [Tasks -> 0 .. MAX_CONNECTION_SLOTS]
  BY <1>1, <1>2, <1>3, SlotSteps
  DEF TypeOK, Holding, MatchFilter, At, NextSlot, Finish
<1>6. ent' \in [Tasks -> Ids \cup {None}]
  BY <1>1, <1>2, <1>3, Zenon
  DEF TypeOK, Holding, MatchFilter, Hold, NextSlot, Finish
<1>7. /\ update' \in [Dispatchers -> Updates \cup {None}]
      /\ due' \in [Dispatchers -> SUBSET Ids]
      /\ hit' \in [Dispatchers -> SUBSET Ids]
  BY <1>1, <1>2, <1>3, Zenon
  DEF TypeOK, Holding, MatchFilter, dispatcherVars, NextSlot, Finish
<1>8. QED
  BY <1>1, <1>4, <1>5, <1>6, <1>7, Zenon
  DEF TypeOK, MatchFilter, shared, entryVars, handlerVars, dispatcherVars

\* Push keeps the types.
LEMMA PushTypes ==
    ASSUME Inv, NEW d \in Dispatchers, Push(d)
    PROVE  TypeOK'
<1>1. TypeOK
  BY Zenon DEF Inv
<1>2. d \in Tasks
  BY Zenon DEF Tasks
<1>3. pc[d] \in Holding => ent[d] \in Ids /\ idx[d] \in Slots
  BY <1>2, Held, Zenon
<1>4. /\ pc' \in [Tasks -> Labels]
      /\ idx' \in [Tasks -> 0 .. MAX_CONNECTION_SLOTS]
      /\ ent' \in [Tasks -> Ids \cup {None}]
  BY <1>1, <1>2, <1>3, SlotSteps
  DEF TypeOK, Holding, Push, Labels, Goto, Hold, At, NextSlot
<1>5. hit' \in [Dispatchers -> SUBSET Ids]
  BY <1>1, <1>2, <1>3
  DEF TypeOK, Holding, Push, dispatcherVars, NextSlot
<1>6. condemned' \subseteq Ids
  BY <1>1, <1>2, <1>3, Zenon
  DEF TypeOK, Holding, Push, NextSlot
<1>7. QED
  BY <1>1, <1>4, <1>5, <1>6, Zenon DEF TypeOK, Push, shared, entryVars, handlerVars, dispatcherVars

\* EvictLoad keeps the types.
LEMMA EvictLoadTypes ==
    ASSUME Inv, NEW d \in Dispatchers, EvictLoad(d)
    PROVE  TypeOK'
<1>1. TypeOK
  BY Zenon DEF Inv
<1>2. d \in Tasks
  BY Zenon DEF Tasks
<1>3. pc[d] \in Holding => ent[d] \in Ids /\ idx[d] \in Slots
  BY <1>2, Held, Zenon
<1>4. /\ pc' \in [Tasks -> Labels]
      /\ idx' \in [Tasks -> 0 .. MAX_CONNECTION_SLOTS]
      /\ ent' \in [Tasks -> Ids \cup {None}]
  BY <1>1, <1>2, <1>3, SlotSteps
  DEF TypeOK, Holding, EvictLoad, Labels, Goto, Hold, At, NextSlot
<1>5. QED
  BY <1>1, <1>4, Zenon DEF TypeOK, EvictLoad, shared, entryVars, handlerVars, dispatcherVars

-----------------------------------------------------------------------------
(* The tasks that do not take a step, and the steps of the cleanup that    *)
(* handlers and dispatchers share.                                         *)

SameTask(t) == pc'[t] = pc[t] /\ idx'[t] = idx[t] /\ ent'[t] = ent[t]

SameHandler(h) ==
    /\ SameTask(h)
    /\ request'[h] = request[h] /\ token'[h] = token[h] /\ cid'[h] = cid[h]
    /\ loaded'[h] = loaded[h] /\ asked'[h] = asked[h]

SameDispatcher(d) ==
    SameTask(d) /\ update'[d] = update[d] /\ due'[d] = due[d] /\ hit'[d] = hit[d]

\* A step that touches neither the table nor the entries only grows.
LEMMA QuietGrows ==
    ASSUME UNCHANGED <<connections, next_connection_id, slot_index, filter, cid>>,
           condemned \subseteq condemned', closed \subseteq closed'
    PROVE  Grow
BY Zenon DEF Grow, Published

\* The other tasks keep their hold on entries, because entries only grow.
LEMMA TaskFrame ==
    ASSUME Inv, Grow, NEW t \in Tasks, SameTask(t)
    PROVE  TaskInv(t)'
<1>1. TaskInv(t)
  BY Zenon DEF Inv
<1>2. QED
  BY <1>1, Zenon DEF TaskInv, SameTask, Grow

\* A handler's invariant survives the steps of others.
LEMMA HandlerFrame ==
    ASSUME Inv, Grow, NEW h \in Handlers, SameHandler(h),
           next_connection_id' >= next_connection_id, TypeOK',
           pc[h] = "install" => /\ slot_index'[cid[h]] = slot_index[cid[h]]
                                /\ filter'[cid[h]] = filter[cid[h]],
           token[h] # None => filter'[token[h].generation] = filter[token[h].generation]
    PROVE  HandlerInv(h)'
<1>1. HandlerInv(h) /\ token[h] \in Token \cup {None} /\ cid[h] \in Ids \cup {None}
  BY DEF Inv, TypeOK
<1>2. token[h] # None =>
         /\ token[h].generation \in Published'
         /\ slot_index'[token[h].generation] = token[h].slot_index
         /\ filter'[token[h].generation] = asked[h]
         /\ \/ connections'[token[h].slot_index] = token[h].generation
            \/ token[h].generation \in closed'
  BY <1>1, ManagerAssumption DEF HandlerInv, Grow, Token
<1>3. cid[h] # None => cid[h] < next_connection_id'
  <2>1. next_connection_id \in Nat /\ next_connection_id' \in Nat
    BY ManagerAssumption DEF Inv, TypeOK
  <2>2. cid[h] # None => cid[h] \in Ids /\ cid[h] < next_connection_id
    BY <1>1, Zenon DEF HandlerInv
  <2>3. QED
    BY <2>1, <2>2 DEF Ids
<1>4. QED
  BY <1>1, <1>2, <1>3, Zenon DEF HandlerInv, SameHandler, SameTask

\* A dispatcher's invariant survives the steps of others: filters only grow.
LEMMA DispatcherFrame ==
    ASSUME Inv, Grow, NEW d \in Dispatchers, SameDispatcher(d)
    PROVE  DispatcherInv(d)'
<1>1. DispatcherInv(d) /\ TaskInv(d)
  BY Zenon DEF Inv, Tasks
<1>2. \A c \in Published : matches(filter[c], update[d]) => matches(filter'[c], update[d])
  BY Zenon DEF Grow, matches
<1>3. pc[d] = "push" => ent[d] \in Published
  BY <1>1, Zenon DEF TaskInv, Holding
<1>4. QED
  BY <1>1, <1>2, <1>3, Zenon DEF DispatcherInv, SameDispatcher, SameTask, Grow

\* A fan-out's progress survives the steps of others: what left the table
\* does not come back, and what comes is not due.
LEMMA ProgressFrame ==
    ASSUME Inv, Grow, NEW d \in Dispatchers, SameDispatcher(d)
    PROVE  ProgressInv(d)'
<1>1. DispatcherInv(d) /\ ProgressInv(d) /\ slot_index \in [Ids -> Slots]
  BY Zenon DEF Inv, TypeOK
<1>2. \A c \in due[d] : c \in Published /\ slot_index[c] \in Slots /\ c # None
  BY <1>1, ManagerAssumption, Zenon DEF DispatcherInv, Published
<1>3. \A c \in due[d] : connections'[slot_index'[c]] = c =>
          connections[slot_index[c]] = c /\ slot_index'[c] = slot_index[c]
  BY <1>2, Zenon DEF Grow
<1>4. QED
  BY <1>1, <1>3, Zenon DEF ProgressInv, SameDispatcher, SameTask

\* A fan-out goes on to the next slot once it is through with the entry in hand.
LEMMA SlotDone ==
    ASSUME Inv, NEW d \in Dispatchers, pc[d] \in Holding, NextSlot(d, "visit"),
           due' = due, hit[d] \subseteq hit'[d], UNCHANGED slot_index,
           \A i \in Slots : connections'[i] \in {connections[i], None},
           connections'[idx[d]] = ent[d] /\ ent[d] \in due[d] => ent[d] \in hit'[d]
    PROVE  ProgressInv(d)'
<1>1. /\ DispatcherInv(d) /\ ProgressInv(d) /\ slot_index \in [Ids -> Slots]
      /\ d \in Tasks /\ idx \in [Tasks -> 0 .. MAX_CONNECTION_SLOTS]
      /\ pc[d] # "visit"
  BY Zenon DEF Inv, TypeOK, Tasks, Holding
<1>2. \A c \in due[d] : slot_index[c] \in Slots /\ c # None
  BY <1>1, ManagerAssumption, Zenon DEF DispatcherInv, Published
<1>3. idx'[d] = idx[d] + 1
  BY <1>1, Zenon DEF NextSlot, At
<1>4. ASSUME NEW c \in due[d], connections'[slot_index[c]] = c, slot_index[c] < idx[d] + 1
      PROVE  c \in hit'[d]
  <2>1. connections[slot_index[c]] = c
    BY <1>2, <1>4, Zenon
  <2>2. slot_index[c] < idx[d] \/ slot_index[c] = idx[d]
    BY <1>1, <1>2, <1>4, ManagerAssumption DEF Slots
  <2>3. QED
    BY <1>1, <1>4, <2>1, <2>2, Zenon DEF ProgressInv
<1>5. pc'[d] = "visit"
  BY <1>1, Zenon DEF NextSlot, Goto, Inv, TypeOK
<1>6. QED
  BY <1>3, <1>4, <1>5, Zenon DEF ProgressInv

\* Emptying slots keeps the table in order.
LEMMA TableFrame ==
    ASSUME Inv, Grow, \A i \in Slots : connections'[i] \in {connections[i], None}
    PROVE  TableInv'
<1>1. TableInv
  BY Zenon DEF Inv
<1>2. QED
  BY <1>1, Zenon DEF TableInv, Grow

\* A closed entry stays in the hands of the task about to swap it out.
LEMMA LeavingFrame ==
    ASSUME Inv, UNCHANGED <<connections, closed>>,
           \A t \in Tasks : pc[t] = "swap" => SameTask(t)
    PROVE  ClosedIsLeaving'
<1>1. ClosedIsLeaving
  BY Zenon DEF Inv
<1>2. QED
  BY <1>1 DEF ClosedIsLeaving, SameTask

\* Dropping ids and tokens keeps the others distinct.
LEMMA DistinctFrame ==
    ASSUME Inv,
           \A h \in Handlers : cid'[h] \in {cid[h], None} /\ token'[h] \in {token[h], None}
    PROVE  Distinct'
<1>1. Distinct
  BY Zenon DEF Inv
<1>2. QED
  BY <1>1, Zenon DEF Distinct

\* Every other task is where it was.
OnlyTask(t) == \A u \in Tasks : u # t => SameTask(u)

OnlyHandler(h) ==
    /\ \A g \in Handlers : g # h => SameHandler(g)
    /\ \A d \in Dispatchers : SameDispatcher(d)

OnlyDispatcher(d) ==
    /\ \A h \in Handlers : SameHandler(h)
    /\ \A e \in Dispatchers : e # d => SameDispatcher(e)

\* What a handler's step has to establish: its own part and the table's.
LEMMA HandlerActs ==
    ASSUME Inv, TypeOK', Grow, NEW h \in Handlers, OnlyHandler(h),
           next_connection_id' >= next_connection_id,
           \A g \in Handlers : g # h =>
               /\ cid[g] # None => /\ slot_index'[cid[g]] = slot_index[cid[g]]
                                   /\ filter'[cid[g]] = filter[cid[g]]
               /\ token[g] # None =>
                      filter'[token[g].generation] = filter[token[g].generation],
           TaskInv(h)', HandlerInv(h)', TableInv', ClosedIsLeaving', Distinct',
           UNCHANGED <<condemned, closed>>
    PROVE  Inv'
<1>1. \A g \in Handlers : HandlerInv(g)'
  <2>1. ASSUME NEW g \in Handlers, g # h
        PROVE  HandlerInv(g)'
    <3>1. HandlerInv(g) /\ SameHandler(g)
      BY <2>1, Zenon DEF Inv, OnlyHandler
    <3>2. pc[g] = "install" => cid[g] # None
      BY <3>1, Zenon DEF HandlerInv
    <3>3. QED
      BY <2>1, <3>1, <3>2, HandlerFrame, ZenonT(30)
  <2>2. QED
    BY <2>1, Zenon
<1>2. \A t \in Tasks : TaskInv(t)'
  <2>1. \A t \in Tasks : t # h => SameTask(t)
    BY Zenon DEF OnlyHandler, SameHandler, SameDispatcher, Tasks
  <2>2. QED
    BY <2>1, TaskFrame, Zenon
<1>3. \A d \in Dispatchers : DispatcherInv(d)' /\ ProgressInv(d)'
  BY DispatcherFrame, ProgressFrame, Zenon DEF OnlyHandler
<1>4. condemned' \subseteq Published' /\ closed' \subseteq condemned'
  BY ZenonT(30) DEF Inv, Grow
<1>5. QED
  BY <1>1, <1>2, <1>3, <1>4, Zenon DEF Inv

\* The same for a step that leaves the table and the entries alone.
LEMMA QuietHandlerActs ==
    ASSUME Inv, TypeOK', NEW h \in Handlers, OnlyHandler(h),
           UNCHANGED <<connections, next_connection_id, slot_index, filter, cid, condemned,
                       closed>>,
           pc[h] # "swap", token'[h] \in {token[h], None}, TaskInv(h)', HandlerInv(h)'
    PROVE  Inv'
<1>1. Grow
  BY QuietGrows, Zenon
<1>2. TableInv'
  BY <1>1, TableFrame, Zenon
<1>3. ClosedIsLeaving'
  <2>1. \A t \in Tasks : pc[t] = "swap" => SameTask(t)
    BY ZenonT(30) DEF OnlyHandler, SameHandler, SameDispatcher, Tasks
  <2>2. QED
    BY <2>1, LeavingFrame, Zenon
<1>4. Distinct'
  <2>1. \A g \in Handlers : cid'[g] \in {cid[g], None} /\ token'[g] \in {token[g], None}
    BY Zenon DEF OnlyHandler, SameHandler
  <2>2. QED
    BY <2>1, DistinctFrame, Zenon
<1>5. next_connection_id' >= next_connection_id
  BY DEF Inv, TypeOK
<1>6. QED
  BY <1>1, <1>2, <1>3, <1>4, <1>5, HandlerActs, Zenon

\* The same for a dispatcher.
LEMMA QuietDispatcherActs ==
    ASSUME Inv, TypeOK', NEW d \in Dispatchers, OnlyDispatcher(d),
           UNCHANGED <<connections, next_connection_id, slot_index, filter, cid, closed>>,
           condemned \subseteq condemned', condemned' \subseteq Published,
           pc[d] # "swap", TaskInv(d)', DispatcherInv(d)', ProgressInv(d)'
    PROVE  Inv'
<1>1. Grow
  BY QuietGrows, Zenon
<1>2. TableInv'
  BY <1>1, TableFrame, Zenon
<1>3. ClosedIsLeaving'
  <2>1. \A t \in Tasks : pc[t] = "swap" => SameTask(t)
    BY Zenon DEF OnlyDispatcher, SameHandler, SameDispatcher, Tasks
  <2>2. QED
    BY <2>1, LeavingFrame, Zenon
<1>4. Distinct'
  <2>1. \A g \in Handlers : cid'[g] \in {cid[g], None} /\ token'[g] \in {token[g], None}
    BY Zenon DEF OnlyDispatcher, SameHandler
  <2>2. QED
    BY <2>1, DistinctFrame, Zenon
<1>5. \A h \in Handlers : HandlerInv(h)'
  <2>1. next_connection_id' >= next_connection_id
    BY DEF Inv, TypeOK
  <2>2. QED
    BY <1>1, <2>1, HandlerFrame, Zenon DEF OnlyDispatcher
<1>6. \A e \in Dispatchers : DispatcherInv(e)' /\ ProgressInv(e)'
  BY <1>1, DispatcherFrame, ProgressFrame, Zenon DEF OnlyDispatcher
<1>7. \A t \in Tasks : TaskInv(t)'
  <2>1. \A t \in Tasks : t # d => SameTask(t)
    BY Zenon DEF OnlyDispatcher, SameHandler, SameDispatcher, Tasks
  <2>2. QED
    BY <1>1, <2>1, TaskFrame, Zenon
<1>8. condemned' \subseteq Published' /\ closed' \subseteq condemned'
  BY <1>1, Zenon DEF Inv, Grow
<1>9. QED
  BY <1>2, <1>3, <1>4, <1>5, <1>6, <1>7, <1>8, Zenon DEF Inv

\* The same for a step of the shared cleanup.
LEMMA TaskActs ==
    ASSUME Inv, TypeOK', Grow, NEW t \in Tasks, OnlyTask(t),
           UNCHANGED <<next_connection_id, slot_index, filter, token, cid, loaded, asked,
                       update, due, hit>>,
           \A h \in Handlers : h # t => request'[h] = request[h],
           TaskInv(t)', t \in Handlers => HandlerInv(t)',
           t \in Dispatchers => DispatcherInv(t)' /\ ProgressInv(t)',
           TableInv', ClosedIsLeaving', condemned' \subseteq Published', closed' \subseteq condemned'
    PROVE  Inv'
<1>1. \A u \in Tasks : TaskInv(u)'
  BY TaskFrame, Zenon DEF OnlyTask
<1>2. \A h \in Handlers : HandlerInv(h)'
  <2>1. \A h \in Handlers : h # t => SameHandler(h)
    BY Zenon DEF OnlyTask, SameHandler, Tasks
  <2>2. next_connection_id' >= next_connection_id
    BY DEF Inv, TypeOK
  <2>3. QED
    BY <2>1, <2>2, HandlerFrame, Zenon
<1>3. \A d \in Dispatchers : DispatcherInv(d)' /\ ProgressInv(d)'
  <2>1. \A d \in Dispatchers : d # t => SameDispatcher(d)
    BY ZenonT(30) DEF OnlyTask, SameDispatcher, Tasks
  <2>2. QED
    BY <2>1, DispatcherFrame, ProgressFrame, Zenon
<1>4. Distinct'
  BY DistinctFrame, ZenonT(30)
<1>5. QED
  BY <1>1, <1>2, <1>3, <1>4, Zenon DEF Inv

\* CheckStale keeps the invariant.
LEMMA CheckStaleKeeps ==
    ASSUME Inv, TypeOK', NEW t \in Tasks, CheckStale(t)
    PROVE  Inv'
<1>1. /\ TypeOK /\ TaskInv(t) /\ condemned \subseteq Published /\ closed \subseteq condemned
      /\ pc[t] = "stale" /\ ent[t] \in Published
  BY Zenon DEF Inv, TaskInv, Holding, CheckStale
<1>2. /\ UNCHANGED <<connections, next_connection_id, slot_index, filter, request, token, cid,
                     loaded, asked, update, due, hit, closed>>
      /\ condemned \subseteq condemned' /\ condemned' \subseteq condemned \cup {ent[t]}
  BY Zenon DEF CheckStale, shared, entryVars, handlerVars, dispatcherVars
<1>3. OnlyTask(t)
  BY <1>1, Zenon DEF OnlyTask, SameTask, TypeOK, CheckStale, NextSlot, Goto, Hold, At
<1>4. Grow
  BY <1>2, QuietGrows, Zenon
<1>5. TaskInv(t)'
  <2>1. \/ pc'[t] = "scan" /\ ent'[t] = None
        \/ /\ pc'[t] \in {"touch", "match"} /\ ent'[t] = ent[t] /\ idx'[t] = idx[t]
        \/ /\ pc'[t] = "close" /\ ent'[t] = ent[t] /\ idx'[t] = idx[t]
           /\ ent[t] \in condemned'
    BY <1>1, Zenon DEF TypeOK, CheckStale, NextSlot, Goto, Hold
  <2>2. Published' = Published
    BY <1>2, Zenon DEF Published
  <2>3. QED
    BY <1>1, <1>2, <2>1, <2>2, ZenonT(30) DEF TaskInv, Holding
<1>6. ASSUME t \in Handlers
      PROVE  HandlerInv(t)'
  <2>1. HandlerInv(t) /\ t \notin Dispatchers
    BY <1>6, Apart, Zenon DEF Inv
  <2>2. /\ pc'[t] \in {"close", "scan", "touch"} /\ ent'[t] \in {ent[t], None}
        /\ pc'[t] = "scan" => cid[t] # None
        /\ pc'[t] = "touch" => cid[t] = None
    BY <1>1, <2>1, Zenon DEF TypeOK, CheckStale, NextSlot, Goto, Hold, Scanning, Resolving
  <2>3. Published' = Published
    BY <1>2, Zenon DEF Published
  <2>4. ent[t] # None
    BY <1>1, Zenon DEF TaskInv, Holding
  <2>5. QED
    BY <1>2, <2>1, <2>2, <2>3, <2>4, Zenon DEF HandlerInv
<1>7. ASSUME t \in Dispatchers
      PROVE  DispatcherInv(t)' /\ ProgressInv(t)'
  <2>1. DispatcherInv(t) /\ ProgressInv(t) /\ t \notin Handlers
    BY <1>7, Apart, Zenon DEF Inv
  <2>2. DispatcherInv(t)'
    <3>1. pc'[t] \in {"close", "match"}
      BY <1>1, <2>1, Zenon DEF TypeOK, CheckStale, Goto, Scanning, Resolving
    <3>2. Published' = Published
      BY <1>2, Zenon DEF Published
    <3>3. QED
      BY <1>1, <1>2, <2>1, <3>1, <3>2, ZenonT(30) DEF DispatcherInv
  <2>3. ProgressInv(t)'
    BY <1>1, <1>2, <2>1, Zenon DEF ProgressInv, CheckStale, Scanning, Resolving
  <2>4. QED
    BY <2>2, <2>3, Zenon
<1>8. TableInv'
  BY <1>2, <1>4, TableFrame, Zenon
<1>9. ClosedIsLeaving'
  BY <1>1, <1>2, <1>3, LeavingFrame, Zenon DEF OnlyTask
<1>10. condemned' \subseteq Published' /\ closed' \subseteq condemned'
  BY <1>1, <1>2, <1>4, Zenon DEF Grow
<1>11. QED
  BY <1>2, <1>3, <1>4, <1>5, <1>6, <1>7, <1>8, <1>9, <1>10, TaskActs, Zenon

\* Close keeps the invariant.
LEMMA CloseKeeps ==
    ASSUME Inv, TypeOK', NEW t \in Tasks, Close(t)
    PROVE  Inv'
<1>1. /\ TypeOK /\ TaskInv(t) /\ condemned \subseteq Published /\ closed \subseteq condemned
      /\ pc[t] = "close" /\ ent[t] \in condemned /\ ent[t] \in Published
  BY Zenon DEF Inv, TaskInv, Holding, Close
<1>2. /\ UNCHANGED <<connections, next_connection_id, slot_index, filter, request, token, cid,
                     loaded, asked, update, due, hit, condemned, idx, ent>>
      /\ closed' = closed \cup {ent[t]}
  BY Zenon DEF Close, shared, entryVars, handlerVars, dispatcherVars
<1>3. OnlyTask(t)
  BY <1>1, <1>2, Zenon DEF OnlyTask, SameTask, TypeOK, Close, Goto
<1>4. Grow
  BY <1>2, QuietGrows, Zenon
<1>5. pc'[t] = "swap"
  BY <1>1, Zenon DEF TypeOK, Close, Goto
<1>6. TaskInv(t)'
  BY <1>1, <1>2, <1>5, Zenon DEF TaskInv, Holding, Published
<1>7. ASSUME t \in Handlers
      PROVE  HandlerInv(t)'
  <2>1. HandlerInv(t)
    BY <1>7, Zenon DEF Inv
  <2>2. QED
    BY <1>1, <1>2, <1>5, <2>1, Zenon DEF HandlerInv, Published
<1>8. ASSUME t \in Dispatchers
      PROVE  DispatcherInv(t)' /\ ProgressInv(t)'
  <2>1. DispatcherInv(t) /\ ProgressInv(t)
    BY <1>8, Zenon DEF Inv
  <2>2. QED
    BY <1>1, <1>2, <1>5, <2>1, Zenon DEF DispatcherInv, ProgressInv, Published
<1>9. TableInv'
  BY <1>2, <1>4, TableFrame, Zenon
<1>10. ClosedIsLeaving'
  <2>1. ClosedIsLeaving /\ TableInv
    BY Zenon DEF Inv
  <2>2. ASSUME NEW i \in Slots, connections[i] = ent[t]
        PROVE  idx'[t] = i /\ ent'[t] = connections'[i]
    BY <1>1, <1>2, <2>1, <2>2, ManagerAssumption, Zenon DEF TableInv, TaskInv, Published
  <2>3. \A u \in Tasks : pc[u] = "swap" => SameTask(u)
    BY <1>1, <1>3, Zenon DEF OnlyTask
  <2>4. ASSUME NEW i \in Slots, connections'[i] \in closed'
        PROVE  \E u \in Tasks : pc'[u] = "swap" /\ ent'[u] = connections'[i] /\ idx'[u] = i
    <3>1. CASE connections[i] = ent[t]
      BY <1>5, <2>2, <3>1, Zenon
    <3>2. CASE connections[i] # ent[t]
      <4>1. PICK u \in Tasks : pc[u] = "swap" /\ ent[u] = connections[i] /\ idx[u] = i
        BY <1>2, <2>1, <2>4, <3>2, Zenon DEF ClosedIsLeaving
      <4>2. QED
        BY <1>2, <2>3, <4>1, Zenon DEF SameTask
    <3>3. QED
      BY <3>1, <3>2, Zenon
  <2>5. QED
    BY <2>4, Zenon DEF ClosedIsLeaving
<1>11. condemned' \subseteq Published' /\ closed' \subseteq condemned'
  BY <1>1, <1>2, <1>4, Zenon DEF Grow
<1>12. QED
  BY <1>2, <1>3, <1>4, <1>6, <1>7, <1>8, <1>9, <1>10, <1>11, TaskActs, Zenon

\* SwapOut keeps the invariant.
LEMMA SwapOutKeeps ==
    ASSUME Inv, TypeOK', NEW t \in Tasks, SwapOut(t)
    PROVE  Inv'
<1>1. /\ TypeOK /\ TaskInv(t) /\ condemned \subseteq Published /\ closed \subseteq condemned
      /\ pc[t] = "swap" /\ ent[t] \in closed /\ ent[t] \in Published /\ ent[t] # None
      /\ slot_index[ent[t]] = idx[t] /\ idx[t] \in Slots
  <2>1. TypeOK /\ TaskInv(t) /\ condemned \subseteq Published /\ closed \subseteq condemned
    BY Zenon DEF Inv
  <2>2. pc[t] = "swap" /\ ent[t] \in closed /\ ent[t] \in Published /\ ent[t] # None
        /\ slot_index[ent[t]] = idx[t]
    BY <2>1, Zenon DEF TaskInv, Holding, SwapOut
  <2>3. QED
    BY <2>1, <2>2, Zenon DEF TypeOK, Published
<1>2. UNCHANGED <<next_connection_id, slot_index, filter, token, cid, loaded, asked, update,
                  due, hit, condemned, closed>>
  BY ZenonT(30) DEF SwapOut, entryVars, dispatcherVars
<1>3. /\ connections'[idx[t]] # ent[t]
      /\ connections[idx[t]] # ent[t] => connections' = connections
      /\ \A i \in Slots : i # idx[t] => connections'[i] = connections[i]
      /\ \A i \in Slots : connections'[i] \in {connections[i], None}
      /\ connections'[idx[t]] # connections[idx[t]] =>
             connections[idx[t]] = ent[t] /\ connections'[idx[t]] = None
  BY <1>1, Zenon DEF TypeOK, SwapOut
<1>4. OnlyTask(t) /\ \A h \in Handlers : h # t => request'[h] = request[h]
  BY <1>1, ZenonT(30)
  DEF OnlyTask, SameTask, TypeOK, SwapOut, NextSlot, NotFound, Served, Goto, Hold, At
<1>5. Grow
  BY <1>1, <1>2, <1>3, Zenon DEF Grow, Published
<1>6. TaskInv(t)'
  <2>1. \/ pc'[t] \in {"visit", "idle", "alloc"} /\ ent'[t] = None
        \/ pc'[t] = "reload" /\ ent'[t] = ent[t] /\ idx'[t] = idx[t]
    BY <1>1, Zenon DEF TypeOK, SwapOut, NextSlot, NotFound, Served, Goto, Hold
  <2>2. Published' = Published
    BY <1>2, Zenon DEF Published
  <2>3. QED
    BY <1>1, <1>2, <2>1, <2>2, ZenonT(30) DEF TaskInv, Holding
<1>7. ASSUME t \in Handlers
      PROVE  HandlerInv(t)'
  <2>1. HandlerInv(t) /\ t \notin Dispatchers
    BY <1>7, Apart, Zenon DEF Inv
  <2>2. token[t] # None =>
           \/ connections'[token[t].slot_index] = token[t].generation
           \/ token[t].generation \in closed
    <3>1. token[t] \in Token \cup {None}
      BY <1>1, <1>7, Zenon DEF TypeOK
    <3>2. QED
      BY <1>1, <1>3, <2>1, <3>1, ZenonT(30) DEF HandlerInv, Token
  <2>3. Published' = Published
    BY <1>2, Zenon DEF Published
  <2>4. /\ pc'[t] \in {"idle", "alloc", "reload"} /\ ent'[t] \in {ent[t], None}
        /\ pc'[t] \in {"idle", "alloc"} => cid[t] = None /\ ent'[t] = None
        /\ pc'[t] = "reload" => cid[t] # None
    BY <1>1, <2>1, Zenon
    DEF TypeOK, SwapOut, NextSlot, NotFound, Served, Goto, Hold, Scanning, Resolving
  <2>5. QED
    BY <1>1, <1>2, <2>1, <2>2, <2>3, <2>4, Zenon DEF HandlerInv
<1>8. ASSUME t \in Dispatchers
      PROVE  DispatcherInv(t)' /\ ProgressInv(t)'
  <2>1. DispatcherInv(t) /\ ProgressInv(t) /\ t \notin Handlers
    BY <1>8, Apart, Zenon DEF Inv
  <2>2. NextSlot(t, "visit")
    BY <2>1, Zenon DEF SwapOut, Scanning, Resolving
  <2>3. pc'[t] = "visit"
    BY <1>1, <2>2, ZenonT(30) DEF TypeOK, NextSlot, Goto
  <2>4. DispatcherInv(t)'
    BY <1>1, <1>2, <2>1, <2>3, Zenon DEF DispatcherInv, Published
  <2>5. ProgressInv(t)'
    BY <1>1, <1>2, <1>3, <1>8, <2>2, SlotDone, ZenonT(30) DEF Holding
  <2>6. QED
    BY <2>4, <2>5, Zenon
<1>9. TableInv'
  BY <1>3, <1>5, TableFrame, Zenon
<1>10. ClosedIsLeaving'
  <2>1. ClosedIsLeaving
    BY Zenon DEF Inv
  <2>2. ASSUME NEW i \in Slots, connections'[i] \in closed'
        PROVE  \E u \in Tasks : pc'[u] = "swap" /\ ent'[u] = connections'[i] /\ idx'[u] = i
    <3>1. connections'[i] = connections[i] /\ connections[i] \in closed
      BY <1>1, <1>2, <1>3, <2>2, ManagerAssumption, Zenon DEF Published
    <3>2. PICK u \in Tasks : pc[u] = "swap" /\ ent[u] = connections[i] /\ idx[u] = i
      BY <2>1, <3>1, Zenon DEF ClosedIsLeaving
    <3>3. u # t
      BY <1>3, <3>1, <3>2, Zenon
    <3>4. QED
      BY <1>4, <3>1, <3>2, <3>3, Zenon DEF OnlyTask, SameTask
  <2>3. QED
    BY <2>2, Zenon DEF ClosedIsLeaving
<1>11. condemned' \subseteq Published' /\ closed' \subseteq condemned'
  BY <1>1, <1>2, <1>5, Zenon DEF Grow
<1>12. QED
  BY <1>2, <1>4, <1>5, <1>6, <1>7, <1>8, <1>9, <1>10, <1>11, TaskActs, ZenonT(30)


-----------------------------------------------------------------------------
(* The steps of the handlers: first those that leave the table and its     *)
(* entries alone, then those that write them.                              *)

\* Accept keeps the invariant.
LEMMA AcceptKeeps ==
    ASSUME Inv, TypeOK', NEW h \in Handlers, Accept(h)
    PROVE  Inv'
<1>1. TypeOK /\ TaskInv(h) /\ HandlerInv(h) /\ h \in Tasks
  BY Zenon DEF Inv, Tasks
<1>2. OnlyHandler(h)
  BY <1>1, Apart, ZenonT(30)
  DEF OnlyHandler, SameHandler, SameDispatcher, SameTask, Tasks, TypeOK, Accept, Goto, Hold,
      At, shared, entryVars, handlerVars, dispatcherVars
<1>3. /\ UNCHANGED <<connections, next_connection_id, slot_index, filter, cid, condemned, closed>>
      /\ pc[h] # "swap" /\ token'[h] \in {token[h], None}
  BY <1>1, Zenon DEF TypeOK, HandlerInv, Accept, shared, entryVars, handlerVars, dispatcherVars
<1>4. TaskInv(h)'
  BY <1>1, <1>3, Zenon
  DEF TypeOK, TaskInv, HandlerInv, Holding, Published, Accept, Goto, Hold, At, shared,
      entryVars, handlerVars, dispatcherVars
<1>5. HandlerInv(h)'
  BY <1>1, <1>3, Zenon
  DEF TypeOK, TaskInv, HandlerInv, Holding, Published, Accept, Goto, Hold, At, shared,
      entryVars, handlerVars, dispatcherVars
<1>6. QED
  BY <1>2, <1>3, <1>4, <1>5, QuietHandlerActs, Zenon

\* Eof keeps the invariant.
LEMMA EofKeeps ==
    ASSUME Inv, TypeOK', NEW h \in Handlers, Eof(h)
    PROVE  Inv'
<1>1. TypeOK /\ TaskInv(h) /\ HandlerInv(h) /\ h \in Tasks
  BY Zenon DEF Inv, Tasks
<1>2. OnlyHandler(h)
  BY <1>1, Apart, ZenonT(30)
  DEF OnlyHandler, SameHandler, SameDispatcher, SameTask, Tasks, TypeOK, Eof, Goto, Hold,
      At, Leave, shared, entryVars, handlerVars, dispatcherVars
<1>3. /\ UNCHANGED <<connections, next_connection_id, slot_index, filter, cid, condemned, closed>>
      /\ pc[h] # "swap" /\ token'[h] \in {token[h], None}
  <2>1. UNCHANGED <<connections, next_connection_id, slot_index, filter, condemned, closed>>
    BY Zenon DEF Eof, Leave, shared, entryVars
  <2>2. /\ pc[h] = "idle" /\ token' = [token EXCEPT ![h] = None]
        /\ cid' = [cid EXCEPT ![h] = None]
    BY Zenon DEF Eof, Leave
  <2>3. token'[h] = None
    BY <1>1, <2>2, Zenon DEF TypeOK
  <2>4. cid[h] = None
    BY <1>1, <2>2, Zenon DEF HandlerInv
  <2>5. cid \in [Handlers -> Ids \cup {None}]
    BY <1>1, Zenon DEF TypeOK
  <2>6. UNCHANGED cid
    BY <2>2, <2>4, <2>5, Zenon
  <2>7. QED
    BY <2>1, <2>2, <2>3, <2>6, Zenon
<1>4. TaskInv(h)'
  BY <1>1, <1>3, Zenon
  DEF TypeOK, TaskInv, HandlerInv, Holding, Published, Eof, Goto, Hold, At, Leave, shared,
      entryVars, handlerVars, dispatcherVars
<1>5. HandlerInv(h)'
  BY <1>1, <1>3, Zenon
  DEF TypeOK, TaskInv, HandlerInv, Holding, Published, Eof, Goto, Hold, At, Leave, shared,
      entryVars, handlerVars, dispatcherVars
<1>6. QED
  BY <1>2, <1>3, <1>4, <1>5, QuietHandlerActs, Zenon

\* ReceiveSubscription keeps the invariant.
LEMMA ReceiveSubscriptionKeeps ==
    ASSUME Inv, TypeOK', NEW h \in Handlers, NEW topics \in SUBSET Topics, ReceiveSubscription(h, topics)
    PROVE  Inv'
<1>1. TypeOK /\ TaskInv(h) /\ HandlerInv(h) /\ h \in Tasks
  BY Zenon DEF Inv, Tasks
<1>2. OnlyHandler(h)
  BY <1>1, Apart, ZenonT(30)
  DEF OnlyHandler, SameHandler, SameDispatcher, SameTask, Tasks, TypeOK,
      ReceiveSubscription, Goto, Hold, At, shared, entryVars, handlerVars, dispatcherVars
<1>3. /\ UNCHANGED <<connections, next_connection_id, slot_index, filter, cid, condemned, closed>>
      /\ pc[h] # "swap" /\ token'[h] \in {token[h], None}
  BY <1>1, Zenon
  DEF TypeOK, HandlerInv, ReceiveSubscription, shared, entryVars, handlerVars,
      dispatcherVars
<1>4. TaskInv(h)'
  BY <1>1, <1>3, Zenon
  DEF TypeOK, TaskInv, HandlerInv, Holding, Published, ReceiveSubscription, Goto, Hold, At,
      shared, entryVars, handlerVars, dispatcherVars
<1>5. HandlerInv(h)'
  BY <1>1, <1>3, Zenon
  DEF TypeOK, TaskInv, HandlerInv, Holding, Published, ReceiveSubscription, Goto, Hold, At,
      shared, entryVars, handlerVars, dispatcherVars
<1>6. QED
  BY <1>2, <1>3, <1>4, <1>5, QuietHandlerActs, Zenon

\* ReceivePing keeps the invariant.
LEMMA ReceivePingKeeps ==
    ASSUME Inv, TypeOK', NEW h \in Handlers, ReceivePing(h)
    PROVE  Inv'
<1>1. TypeOK /\ TaskInv(h) /\ HandlerInv(h) /\ h \in Tasks
  BY Zenon DEF Inv, Tasks
<1>2. OnlyHandler(h)
  BY <1>1, Apart, ZenonT(30)
  DEF OnlyHandler, SameHandler, SameDispatcher, SameTask, Tasks, TypeOK, ReceivePing, Goto,
      Hold, At, shared, entryVars, handlerVars, dispatcherVars
<1>3. /\ UNCHANGED <<connections, next_connection_id, slot_index, filter, cid, condemned, closed>>
      /\ pc[h] # "swap" /\ token'[h] \in {token[h], None}
  BY <1>1, Zenon
  DEF TypeOK, HandlerInv, ReceivePing, shared, entryVars, handlerVars, dispatcherVars
<1>4. TaskInv(h)'
  BY <1>1, <1>3, Zenon
  DEF TypeOK, TaskInv, HandlerInv, Holding, Published, ReceivePing, Goto, Hold, At, shared,
      entryVars, handlerVars, dispatcherVars
<1>5. HandlerInv(h)'
  BY <1>1, <1>3, Zenon
  DEF TypeOK, TaskInv, HandlerInv, Holding, Published, ReceivePing, Goto, Hold, At, shared,
      entryVars, handlerVars, dispatcherVars
<1>6. QED
  BY <1>2, <1>3, <1>4, <1>5, QuietHandlerActs, Zenon

\* LookupLoad keeps the invariant.
LEMMA LookupLoadKeeps ==
    ASSUME Inv, TypeOK', NEW h \in Handlers, LookupLoad(h)
    PROVE  Inv'
<1>1. TypeOK /\ TaskInv(h) /\ HandlerInv(h) /\ h \in Tasks
  BY Zenon DEF Inv, Tasks
<1>2. OnlyHandler(h)
  <2>1. \A t \in Tasks : t # h => SameTask(t)
    BY <1>1, Zenon DEF SameTask, TypeOK, LookupLoad, Goto, Hold, At, NotFound, Served
  <2>2. \A g \in Handlers : g # h =>
            /\ request'[g] = request[g] /\ token'[g] = token[g] /\ cid'[g] = cid[g]
            /\ loaded'[g] = loaded[g] /\ asked'[g] = asked[g]
    BY <1>1, Zenon DEF TypeOK, LookupLoad, NotFound, Served
  <2>3. UNCHANGED dispatcherVars
    BY Zenon DEF LookupLoad
  <2>4. QED
    BY <2>1, <2>2, <2>3, Apart, Zenon
    DEF OnlyHandler, SameHandler, SameDispatcher, Tasks, dispatcherVars
<1>3. /\ UNCHANGED <<connections, next_connection_id, slot_index, filter, cid, condemned, closed>>
      /\ pc[h] # "swap" /\ token'[h] \in {token[h], None}
  BY <1>1, Zenon
  DEF TypeOK, HandlerInv, LookupLoad, NotFound, Served, TokenMatches, Token, shared,
      entryVars, handlerVars, dispatcherVars
<1>4. TaskInv(h)'
  <2>1. CASE TokenMatches(h)
    BY <1>1, <1>3, <2>1
    DEF TypeOK, TaskInv, HandlerInv, Holding, Published, LookupLoad, Goto, Hold, At,
        TokenMatches, Token
  <2>2. CASE ~TokenMatches(h)
    <3>1. pc'[h] \in {"idle", "alloc"} /\ pc[h] = "lookup" /\ UNCHANGED ent
      BY <1>1, <2>2, Zenon DEF TypeOK, LookupLoad, NotFound, Served, Goto
    <3>2. QED
      BY <1>1, <3>1, Zenon DEF TaskInv, Holding
  <2>3. QED
    BY <2>1, <2>2, ZenonT(30)
<1>5. HandlerInv(h)'
  BY <1>1, <1>3, ZenonT(30)
  DEF TypeOK, TaskInv, HandlerInv, Holding, Published, LookupLoad, Goto, Hold, At, NotFound,
      Served, TokenMatches, Token, shared, entryVars, handlerVars, dispatcherVars
<1>6. QED
  BY <1>2, <1>3, <1>4, <1>5, QuietHandlerActs, Zenon

\* Touch keeps the invariant.
LEMMA TouchKeeps ==
    ASSUME Inv, TypeOK', NEW h \in Handlers, Touch(h)
    PROVE  Inv'
<1>1. TypeOK /\ TaskInv(h) /\ HandlerInv(h) /\ h \in Tasks
  BY Zenon DEF Inv, Tasks
<1>2. OnlyHandler(h)
  <2>1. \A t \in Tasks : t # h => SameTask(t)
    BY <1>1, Zenon DEF SameTask, TypeOK, Touch, Goto, Hold, At, Served
  <2>2. \A g \in Handlers : g # h =>
            /\ request'[g] = request[g] /\ token'[g] = token[g] /\ cid'[g] = cid[g]
            /\ loaded'[g] = loaded[g] /\ asked'[g] = asked[g]
    BY <1>1, Zenon DEF TypeOK, Touch, NotFound, Served
  <2>3. UNCHANGED dispatcherVars
    BY Zenon DEF Touch
  <2>4. QED
    BY <2>1, <2>2, <2>3, Apart, Zenon
    DEF OnlyHandler, SameHandler, SameDispatcher, Tasks, dispatcherVars
<1>3. /\ UNCHANGED <<connections, next_connection_id, slot_index, filter, cid, condemned, closed>>
      /\ pc[h] # "swap" /\ token'[h] \in {token[h], None}
  BY <1>1, Zenon
  DEF TypeOK, HandlerInv, Touch, Served, shared, entryVars, handlerVars, dispatcherVars
<1>4. /\ pc[h] = "touch" /\ UNCHANGED <<token, cid, asked>>
      /\ \/ pc'[h] = "idle" /\ ent'[h] = None
         \/ pc'[h] = "load_filter" /\ ent'[h] = ent[h] /\ idx'[h] = idx[h]
  BY <1>1, ZenonT(30) DEF TypeOK, Touch, Goto, Hold, Served
<1>5. Published' = Published
  BY <1>3, Zenon DEF Published
<1>6. TaskInv(h)'
  BY <1>1, <1>3, <1>4, <1>5, Zenon DEF TaskInv, Holding
<1>7. HandlerInv(h)'
  BY <1>1, <1>3, <1>4, <1>5, Zenon DEF HandlerInv
<1>8. QED
  BY <1>2, <1>3, <1>6, <1>7, QuietHandlerActs, Zenon

\* LoadFilter keeps the invariant.
LEMMA LoadFilterKeeps ==
    ASSUME Inv, TypeOK', NEW h \in Handlers, LoadFilter(h)
    PROVE  Inv'
<1>1. TypeOK /\ TaskInv(h) /\ HandlerInv(h) /\ h \in Tasks
  BY Zenon DEF Inv, Tasks
<1>2. OnlyHandler(h)
  BY <1>1, Apart, ZenonT(30)
  DEF OnlyHandler, SameHandler, SameDispatcher, SameTask, Tasks, TypeOK, LoadFilter, Goto,
      Hold, At, shared, entryVars, handlerVars, dispatcherVars
<1>3. /\ UNCHANGED <<connections, next_connection_id, slot_index, filter, cid, condemned, closed>>
      /\ pc[h] # "swap" /\ token'[h] \in {token[h], None}
  BY <1>1, Zenon DEF TypeOK, HandlerInv, LoadFilter, shared, entryVars, handlerVars, dispatcherVars
<1>4. /\ pc[h] = "load_filter" /\ pc'[h] = "store_filter" /\ loaded'[h] = filter[ent[h]]
      /\ UNCHANGED <<idx, ent, request, token, asked>>
  BY <1>1, Zenon DEF TypeOK, LoadFilter, Goto
<1>5. Published' = Published
  BY <1>3, Zenon DEF Published
<1>6. TaskInv(h)'
  BY <1>1, <1>3, <1>4, <1>5, Zenon DEF TaskInv, Holding
<1>7. HandlerInv(h)'
  <2>1. ent[h] # None
    BY <1>1, <1>4, Zenon DEF TaskInv, Holding
  <2>2. QED
    BY <1>1, <1>3, <1>4, <1>5, <2>1, Zenon DEF HandlerInv
<1>8. QED
  BY <1>2, <1>3, <1>6, <1>7, QuietHandlerActs, Zenon

\* ScanReload keeps the invariant.
LEMMA ScanReloadKeeps ==
    ASSUME Inv, TypeOK', NEW h \in Handlers, ScanReload(h)
    PROVE  Inv'
<1>1. TypeOK /\ TaskInv(h) /\ HandlerInv(h) /\ h \in Tasks
  BY Zenon DEF Inv, Tasks
<1>2. OnlyHandler(h)
  BY <1>1, Apart
  DEF OnlyHandler, SameHandler, SameDispatcher, SameTask, Tasks, TypeOK, ScanReload, Goto,
      Hold, At, shared, entryVars, handlerVars, dispatcherVars
<1>3. /\ UNCHANGED <<connections, next_connection_id, slot_index, filter, cid, condemned, closed>>
      /\ pc[h] # "swap" /\ token'[h] \in {token[h], None}
  BY <1>1, Zenon DEF TypeOK, HandlerInv, ScanReload, shared, entryVars, handlerVars, dispatcherVars
<1>4. /\ pc[h] = "reload" /\ ent'[h] = None /\ UNCHANGED handlerVars
      /\ \/ pc'[h] = "create" /\ idx'[h] = idx[h]
         \/ pc'[h] = "scan"
  BY <1>1, Zenon DEF TypeOK, ScanReload, Goto, Hold
<1>5. Published' = Published
  BY <1>3, Zenon DEF Published
<1>6. TaskInv(h)'
  BY <1>4, Zenon DEF TaskInv, Holding
<1>7. HandlerInv(h)'
  <2>1. idx[h] \in Slots
    BY <1>1, <1>4, Zenon DEF TaskInv, Holding, TypeOK, Published
  <2>2. QED
    BY <1>1, <1>3, <1>4, <1>5, <2>1, Zenon DEF HandlerInv, handlerVars
<1>8. QED
  BY <1>2, <1>3, <1>6, <1>7, QuietHandlerActs, Zenon

\* StoreFilter keeps the invariant.
LEMMA StoreFilterKeeps ==
    ASSUME Inv, TypeOK', NEW h \in Handlers, StoreFilter(h)
    PROVE  Inv'
<1>1. TypeOK /\ TaskInv(h) /\ HandlerInv(h) /\ Distinct /\ h \in Tasks
  BY Zenon DEF Inv, Tasks
<1>2. OnlyHandler(h)
  BY <1>1, Apart, ZenonT(30)
  DEF OnlyHandler, SameHandler, SameDispatcher, SameTask, Tasks, TypeOK, StoreFilter,
      Served,
      Goto, Hold, At, dispatcherVars
<1>3. UNCHANGED <<connections, next_connection_id, slot_index, token, cid, condemned, closed>>
  BY Zenon DEF StoreFilter
<1>4. /\ pc[h] = "store_filter" /\ cid[h] = None /\ ent[h] \in Published
      /\ token[h] # None /\ token[h] \in Token /\ ent[h] = token[h].generation
      /\ loaded[h] = asked[h] /\ filter[ent[h]] = asked[h]
  BY <1>1, Zenon DEF TypeOK, TaskInv, HandlerInv, Holding, StoreFilter
<1>5. filter' = [filter EXCEPT ![ent[h]] = filter[ent[h]] \cup request[h].topics]
  BY <1>4, Zenon DEF StoreFilter
<1>6. Grow
  BY <1>1, <1>3, <1>4, <1>5, Zenon DEF Grow, Published, TypeOK
<1>7. \A g \in Handlers : g # h =>
          /\ cid[g] # None => /\ slot_index'[cid[g]] = slot_index[cid[g]]
                              /\ filter'[cid[g]] = filter[cid[g]]
          /\ token[g] # None =>
                 filter'[token[g].generation] = filter[token[g].generation]
  <2>1. \A c \in Ids : c # ent[h] => filter'[c] = filter[c]
    BY <1>1, <1>5, Zenon DEF TypeOK
  <2>2. ASSUME NEW g \in Handlers, g # h, cid[g] # None
        PROVE  cid[g] \in Ids /\ cid[g] # ent[h]
    BY <1>1, <1>4, <2>2, Zenon DEF TypeOK, Published
  <2>3. ASSUME NEW g \in Handlers, g # h, token[g] # None
        PROVE  token[g].generation \in Ids /\ token[g].generation # ent[h]
    <3>1. token[g] \in Token
      BY <1>1, <2>3, Zenon DEF TypeOK
    <3>2. QED
      BY <1>1, <1>4, <2>3, <3>1, Zenon DEF Distinct, Token
  <2>4. QED
    BY <1>3, <2>1, <2>2, <2>3, Zenon
<1>8. /\ pc'[h] = "idle" /\ ent'[h] = None /\ asked'[h] = asked[h] \cup request[h].topics
      /\ filter'[ent[h]] = asked'[h]
  <2>1. pc'[h] = "idle" /\ ent'[h] = None
    BY <1>1, Zenon DEF TypeOK, StoreFilter, Served, Goto, Hold
  <2>2. asked'[h] = asked[h] \cup request[h].topics
    BY <1>1, Zenon DEF TypeOK, StoreFilter
  <2>3. filter'[ent[h]] = filter[ent[h]] \cup request[h].topics
    BY <1>1, <1>4, <1>5, Zenon DEF TypeOK, Published
  <2>4. QED
    BY <1>4, <2>1, <2>2, <2>3, Zenon
<1>9. TaskInv(h)'
  BY <1>8, Zenon DEF TaskInv, Holding
<1>10. HandlerInv(h)'
  BY <1>1, <1>3, <1>4, <1>8, Zenon DEF HandlerInv, Published
<1>11. TableInv'
  BY <1>3, <1>6, TableFrame, Zenon
<1>12. ClosedIsLeaving'
  <2>1. \A t \in Tasks : pc[t] = "swap" => SameTask(t)
    BY <1>2, <1>4, Zenon DEF OnlyHandler, SameHandler, SameDispatcher, Tasks
  <2>2. QED
    BY <1>3, <2>1, LeavingFrame, Zenon
<1>13. Distinct'
  BY <1>3, DistinctFrame, Zenon
<1>14. next_connection_id' >= next_connection_id
  BY <1>1, <1>3 DEF TypeOK
<1>15. QED
  BY <1>2, <1>3, <1>6, <1>7, <1>9, <1>10, <1>11, <1>12, <1>13, <1>14, HandlerActs, Zenon

\* AllocateId keeps the invariant.
LEMMA AllocateIdKeeps ==
    ASSUME Inv, TypeOK', NEW h \in Handlers, AllocateId(h)
    PROVE  Inv'
<1>1. TypeOK /\ TaskInv(h) /\ HandlerInv(h) /\ Distinct /\ h \in Tasks
  BY Zenon DEF Inv, Tasks
<1>2. OnlyHandler(h)
  <2>1. \A t \in Tasks : t # h => SameTask(t)
    BY <1>1, Zenon DEF SameTask, TypeOK, AllocateId, Goto, At
  <2>2. \A g \in Handlers : g # h =>
            /\ request'[g] = request[g] /\ token'[g] = token[g] /\ cid'[g] = cid[g]
            /\ loaded'[g] = loaded[g] /\ asked'[g] = asked[g]
    BY <1>1, Zenon DEF TypeOK, AllocateId
  <2>3. UNCHANGED dispatcherVars
    BY Zenon DEF AllocateId
  <2>4. QED
    BY <2>1, <2>2, <2>3, Apart, Zenon
    DEF OnlyHandler, SameHandler, SameDispatcher, Tasks, dispatcherVars
<1>3. UNCHANGED <<connections, slot_index, filter, token, condemned, closed, ent>>
  BY Zenon DEF AllocateId, entryVars
<1>4. /\ pc[h] = "alloc" /\ cid[h] = None /\ ent[h] = None
      /\ pc'[h] = "scan" /\ cid'[h] = next_connection_id /\ next_connection_id \in Ids
      /\ next_connection_id' = next_connection_id + 1
  BY <1>1, Zenon DEF TypeOK, TaskInv, HandlerInv, Holding, AllocateId, Goto
<1>5. \A c \in Ids : c < next_connection_id => c < next_connection_id' /\ c # next_connection_id
  BY <1>4 DEF Ids
<1>6. Published \subseteq Published'
  <2>1. \A g \in Handlers : cid'[g] \in {cid[g], next_connection_id}
    BY <1>2, <1>4, Zenon DEF OnlyHandler, SameHandler
  <2>2. QED
    BY <1>5, <2>1, Zenon DEF Published
<1>7. Grow
  BY <1>3, <1>6, Zenon DEF Grow
<1>8. TaskInv(h)'
  BY <1>1, <1>3, <1>4, Zenon DEF TaskInv, Holding
<1>9. HandlerInv(h)'
  <2>1. token'[h] = token[h] /\ asked'[h] = asked[h] /\ cid'[h] # None /\ ent'[h] = None
    BY <1>3, <1>4, ManagerAssumption, Zenon DEF AllocateId
  <2>2. cid'[h] < next_connection_id'
    BY <1>4 DEF Ids
  <2>3. QED
    BY <1>1, <1>3, <1>4, <1>6, <2>1, <2>2, Zenon DEF HandlerInv
<1>10. TableInv'
  BY <1>3, <1>7, TableFrame, Zenon
<1>11. ClosedIsLeaving'
  <2>1. \A t \in Tasks : pc[t] = "swap" => SameTask(t)
    BY <1>2, <1>4, Zenon DEF OnlyHandler, SameHandler, SameDispatcher, Tasks
  <2>2. QED
    BY <1>3, <2>1, LeavingFrame, Zenon
<1>12. Distinct'
  <2>1. \A g \in Handlers : HandlerInv(g) /\ cid[g] \in Ids \cup {None}
    BY <1>1, Zenon DEF Inv, TypeOK
  <2>2. \A g \in Handlers : g # h => cid'[g] = cid[g] /\ cid[g] # next_connection_id
    BY <1>2, <1>4, <1>5, <2>1, ManagerAssumption, Zenon DEF OnlyHandler, SameHandler, HandlerInv
  <2>3. QED
    BY <1>1, <1>3, <1>4, <2>2, ZenonT(30) DEF Distinct
<1>13. next_connection_id' >= next_connection_id
  BY <1>4 DEF Ids
<1>14. UNCHANGED <<condemned, closed>>
  BY <1>3, Zenon
<1>15. QED
  BY <1>2, <1>3, <1>7, <1>8, <1>9, <1>10, <1>11, <1>12, <1>13, <1>14, HandlerActs, Zenon

\* A task that ends, whatever it was doing, leaves the table alone.
LEMMA LeaveKeeps ==
    ASSUME Inv, TypeOK', NEW h \in Handlers, Leave(h), ent[h] = None,
           UNCHANGED <<shared, ent, loaded, dispatcherVars, condemned, closed>>
    PROVE  Inv'
<1>1. TypeOK /\ TaskInv(h) /\ HandlerInv(h) /\ Distinct /\ h \in Tasks
  BY Zenon DEF Inv, Tasks
<1>2. OnlyHandler(h)
  <2>1. \A t \in Tasks : t # h => SameTask(t)
    BY <1>1, Zenon DEF SameTask, TypeOK, Leave, Goto, At
  <2>2. \A g \in Handlers : g # h =>
            /\ request'[g] = request[g] /\ token'[g] = token[g] /\ cid'[g] = cid[g]
            /\ loaded'[g] = loaded[g] /\ asked'[g] = asked[g]
    BY <1>1, Zenon DEF TypeOK, Leave
  <2>3. QED
    BY <2>1, <2>2, Apart, Zenon
    DEF OnlyHandler, SameHandler, SameDispatcher, Tasks, dispatcherVars
<1>3. UNCHANGED <<connections, next_connection_id, slot_index, filter, condemned, closed, ent>>
  BY Zenon DEF shared, entryVars
<1>4. pc'[h] = "gone" /\ cid'[h] = None /\ token'[h] = None /\ ent'[h] = None
  BY <1>1, <1>3, Zenon DEF TypeOK, Leave, Goto
<1>5. \A g \in Handlers : cid'[g] \in {cid[g], None} /\ token'[g] \in {token[g], None}
  BY <1>2, <1>4, Zenon DEF OnlyHandler, SameHandler
<1>6. Grow
  <2>1. Published \subseteq Published'
    BY <1>3, <1>5, ManagerAssumption, Zenon DEF Published
  <2>2. QED
    BY <1>3, <2>1, Zenon DEF Grow
<1>7. TaskInv(h)'
  BY <1>4, Zenon DEF TaskInv, Holding
<1>8. HandlerInv(h)'
  BY <1>4, Zenon DEF HandlerInv
<1>9. TableInv'
  BY <1>3, <1>6, TableFrame, Zenon
<1>10. ClosedIsLeaving'
  <2>1. \A t \in Tasks : pc[t] = "swap" => SameTask(t)
    BY <1>1, <1>2, Zenon DEF OnlyHandler, SameHandler, SameDispatcher, Tasks, TaskInv, Holding
  <2>2. QED
    BY <1>3, <2>1, LeavingFrame, Zenon
<1>11. Distinct'
  BY <1>5, DistinctFrame, Zenon
<1>12. next_connection_id' >= next_connection_id
  BY <1>1, <1>3 DEF TypeOK
<1>13. QED
  BY <1>2, <1>3, <1>6, <1>7, <1>8, <1>9, <1>10, <1>11, <1>12, HandlerActs, Zenon

\* CreateFails keeps the invariant.
LEMMA CreateFailsKeeps ==
    ASSUME Inv, TypeOK', NEW h \in Handlers, CreateFails(h)
    PROVE  Inv'
<1>1. TaskInv(h)
  BY Zenon DEF Inv, Tasks
<1>2. QED
  BY <1>1, LeaveKeeps, Zenon DEF CreateFails, TaskInv, Holding

\* ScanLoad keeps the invariant.
LEMMA ScanLoadKeeps ==
    ASSUME Inv, TypeOK', NEW h \in Handlers, ScanLoad(h)
    PROVE  Inv'
<1>1. TypeOK /\ TaskInv(h) /\ HandlerInv(h) /\ TableInv /\ h \in Tasks
  BY Zenon DEF Inv, Tasks
<1>2. pc[h] = "scan" /\ ent[h] = None /\ cid[h] # None
  BY <1>1, Zenon DEF ScanLoad, TaskInv, HandlerInv, Holding
<1>3. CASE idx[h] \notin Slots
  BY <1>2, <1>3, LeaveKeeps, Zenon DEF ScanLoad
<1>4. CASE idx[h] \in Slots
  <2>1. /\ UNCHANGED <<connections, next_connection_id, slot_index, filter, cid, token, asked,
                       request, loaded, condemned, closed, idx>>
        /\ ent'[h] = connections[idx[h]]
        /\ pc'[h] = IF connections[idx[h]] = None THEN "create" ELSE "stale"
    BY <1>1, <1>4, Zenon DEF TypeOK, ScanLoad, Goto, Hold, shared, entryVars
  <2>2. OnlyHandler(h)
    <3>1. \A t \in Tasks : t # h => SameTask(t)
      BY <1>1, <1>4, <2>1, Zenon DEF SameTask, TypeOK, ScanLoad, Goto, Hold
    <3>2. UNCHANGED dispatcherVars
      BY Zenon DEF ScanLoad
    <3>3. QED
      BY <2>1, <3>1, <3>2, Apart, Zenon
      DEF OnlyHandler, SameHandler, SameDispatcher, Tasks, dispatcherVars
  <2>3. TaskInv(h)'
    BY <1>1, <1>4, <2>1, Zenon DEF TaskInv, TableInv, Holding, Published
  <2>4. HandlerInv(h)'
    BY <1>1, <1>2, <1>4, <2>1, Zenon DEF HandlerInv, Published
  <2>5. QED
    BY <1>2, <2>1, <2>2, <2>3, <2>4, QuietHandlerActs, Zenon
<1>5. QED
  BY <1>3, <1>4, Zenon

\* CreateEntry keeps the invariant.
LEMMA CreateEntryKeeps ==
    ASSUME Inv, TypeOK', NEW h \in Handlers, CreateEntry(h)
    PROVE  Inv'
<1>1. TypeOK /\ TaskInv(h) /\ HandlerInv(h) /\ Distinct /\ h \in Tasks
  BY Zenon DEF Inv, Tasks
<1>2. OnlyHandler(h)
  BY <1>1, Apart, ZenonT(30)
  DEF OnlyHandler, SameHandler, SameDispatcher, SameTask, Tasks, TypeOK, CreateEntry,
      Goto, handlerVars, dispatcherVars
<1>3. UNCHANGED <<connections, next_connection_id, request, token, cid, asked, condemned, closed,
                  ent, idx>>
  BY Zenon DEF CreateEntry, handlerVars
<1>4. /\ pc[h] = "create" /\ pc'[h] = "install" /\ cid[h] \in Ids /\ cid[h] # None
      /\ idx[h] \in Slots /\ ent[h] = None
  <2>1. pc[h] = "create" /\ pc'[h] = "install"
    BY <1>1, Zenon DEF TypeOK, CreateEntry, Goto
  <2>2. cid[h] # None /\ idx[h] \in Slots
    BY <1>1, <2>1, Zenon DEF HandlerInv
  <2>3. ent[h] = None
    BY <1>1, <2>1, Zenon DEF TaskInv, Holding
  <2>4. cid[h] \in Ids
    BY <1>1, <2>2, Zenon DEF TypeOK
  <2>5. QED
    BY <2>1, <2>2, <2>3, <2>4, Zenon
<1>5. /\ slot_index'[cid[h]] = idx[h] /\ filter'[cid[h]] = request[h].topics
      /\ \A c \in Ids : c # cid[h] => slot_index'[c] = slot_index[c] /\ filter'[c] = filter[c]
  BY <1>1, <1>4, Zenon DEF TypeOK, CreateEntry
<1>6. Published' = Published /\ cid[h] \notin Published
  BY <1>3, Zenon DEF Published
<1>7. Grow
  BY <1>3, <1>5, <1>6, Zenon DEF Grow, Published
<1>8. \A g \in Handlers : g # h =>
          /\ cid[g] # None => /\ slot_index'[cid[g]] = slot_index[cid[g]]
                              /\ filter'[cid[g]] = filter[cid[g]]
          /\ token[g] # None =>
                 filter'[token[g].generation] = filter[token[g].generation]
  <2>1. ASSUME NEW g \in Handlers, g # h
        PROVE  /\ cid[g] # None => cid[g] \in Ids /\ cid[g] # cid[h]
               /\ token[g] # None => token[g].generation \in Published
    <3>1. HandlerInv(g)
      BY Zenon DEF Inv
    <3>2. QED
      BY <1>1, <1>4, <2>1, <3>1, Zenon DEF TypeOK, Distinct, HandlerInv
  <2>2. QED
    BY <1>5, <1>6, <2>1, Zenon DEF Published
<1>9. TaskInv(h)'
  BY <1>3, <1>4, Zenon DEF TaskInv, Holding
<1>10. HandlerInv(h)'
  <2>1. token[h] # None =>
            /\ slot_index'[token[h].generation] = slot_index[token[h].generation]
            /\ filter'[token[h].generation] = filter[token[h].generation]
    BY <1>1, <1>5, <1>6, Zenon DEF HandlerInv, Published
  <2>2. QED
    BY <1>1, <1>3, <1>4, <1>5, <1>6, <2>1, Zenon DEF HandlerInv
<1>11. TableInv'
  BY <1>3, <1>7, TableFrame, Zenon
<1>12. ClosedIsLeaving'
  <2>1. \A t \in Tasks : pc[t] = "swap" => SameTask(t)
    BY <1>2, <1>4, Zenon DEF OnlyHandler, SameHandler, SameDispatcher, Tasks
  <2>2. QED
    BY <1>3, <2>1, LeavingFrame, Zenon
<1>13. Distinct'
  BY <1>3, DistinctFrame, Zenon
<1>14. next_connection_id' >= next_connection_id
  BY <1>1, <1>3 DEF TypeOK
<1>15. QED
  BY <1>2, <1>3, <1>7, <1>8, <1>9, <1>10, <1>11, <1>12, <1>13, <1>14, HandlerActs, Zenon

\* Install keeps the invariant.
LEMMA InstallKeeps ==
    ASSUME Inv, TypeOK', NEW h \in Handlers, Install(h)
    PROVE  Inv'
<1>1. TypeOK /\ TaskInv(h) /\ HandlerInv(h) /\ Distinct /\ TableInv /\ h \in Tasks
  BY Zenon DEF Inv, Tasks
<1>2. OnlyHandler(h)
  BY <1>1, Apart
  DEF OnlyHandler, SameHandler, SameDispatcher, SameTask, Tasks, TypeOK, Install, Served,
      Goto, At, dispatcherVars
<1>3. UNCHANGED <<next_connection_id, slot_index, filter, condemned, closed, ent>>
  BY Zenon DEF Install, entryVars
<1>4. /\ pc[h] = "install" /\ cid[h] \in Ids /\ cid[h] # None /\ cid[h] < next_connection_id
      /\ idx[h] \in Slots /\ ent[h] = None /\ slot_index[cid[h]] = idx[h]
      /\ filter[cid[h]] = request[h].topics
  BY <1>1, ZenonT(30) DEF TypeOK, TaskInv, HandlerInv, Holding, Install
<1>5. CASE connections[idx[h]] # None
  <2>1. /\ UNCHANGED <<connections, request, cid, token, asked>>
        /\ pc'[h] = "scan"
    BY <1>1, <1>5, ZenonT(30) DEF TypeOK, Install, Goto
  <2>2. TaskInv(h)'
    BY <1>3, <1>4, <2>1, Zenon DEF TaskInv, Holding
  <2>3. HandlerInv(h)'
    BY <1>1, <1>3, <1>4, <2>1, ZenonT(30) DEF HandlerInv, Published
  <2>4. QED
    BY <1>2, <1>3, <1>4, <2>1, <2>2, <2>3, QuietHandlerActs, ZenonT(30)
<1>6. CASE connections[idx[h]] = None
  <2>1. /\ connections' = [connections EXCEPT ![idx[h]] = cid[h]]
        /\ cid' = [cid EXCEPT ![h] = None] /\ pc'[h] = "idle" /\ ent'[h] = None
    BY <1>1, <1>3, <1>4, <1>6, Zenon DEF TypeOK, Install, Served, Goto
  <2>2. \/ /\ token[h] = None /\ asked'[h] = request[h].topics
           /\ token'[h] = [slot_index |-> idx[h], generation |-> cid[h]]
        \/ token[h] # None /\ token'[h] = token[h] /\ asked'[h] = asked[h]
    BY <1>1, <1>6, ZenonT(30) DEF TypeOK, Install
  <2>3. /\ connections'[idx[h]] = cid[h]
        /\ \A i \in Slots : i # idx[h] => connections'[i] = connections[i]
        /\ cid'[h] = None /\ \A g \in Handlers : g # h => cid'[g] = cid[g]
    BY <1>1, <1>4, <2>1, Zenon DEF TypeOK
  <2>4. cid[h] \notin Published /\ cid[h] \in Published' /\ Published \subseteq Published'
    BY <1>1, <1>3, <1>4, <2>3, ManagerAssumption DEF Published, Distinct
  <2>5. Grow
    BY <1>3, <1>4, <1>6, <2>3, <2>4, Zenon DEF Grow
  <2>6. \A g \in Handlers : token[g] # None => token[g].generation \in Published
    BY Zenon DEF Inv, HandlerInv
  <2>7. TaskInv(h)'
    BY <2>1, Zenon DEF TaskInv, Holding
  <2>8. HandlerInv(h)'
    <3>1. CASE token[h] = None
      <4>1. /\ token'[h].generation = cid[h] /\ token'[h].slot_index = idx[h]
            /\ asked'[h] = request[h].topics
        BY <2>2, <3>1
      <4>2. QED
        BY <1>3, <1>4, <2>1, <2>3, <2>4, <4>1, ZenonT(30) DEF HandlerInv
    <3>2. CASE token[h] # None
      <4>1. token[h] \in Token
        BY <1>1, <3>2, Zenon DEF TypeOK
      <4>2. \/ connections'[token[h].slot_index] = token[h].generation
            \/ token[h].generation \in closed
        BY <1>1, <1>6, <2>3, <3>2, <4>1, ManagerAssumption DEF HandlerInv, Token
      <4>3. QED
        BY <1>1, <1>3, <2>1, <2>2, <2>3, <2>4, <3>2, <4>2, Zenon DEF HandlerInv
    <3>3. QED
      BY <3>1, <3>2, Zenon
  <2>9. TableInv'
    BY <1>1, <1>3, <1>4, <2>3, <2>4, Zenon DEF TableInv
  <2>10. ClosedIsLeaving'
    <3>1. ClosedIsLeaving /\ closed \subseteq Published
      BY Zenon DEF Inv
    <3>2. \A t \in Tasks : pc[t] = "swap" => SameTask(t)
      BY <1>2, <1>4, ZenonT(30) DEF OnlyHandler, SameHandler, SameDispatcher, Tasks
    <3>3. \A i \in Slots : connections'[i] \in closed' =>
              connections'[i] = connections[i] /\ connections[i] \in closed
      BY <1>3, <2>3, <2>4, <3>1, Zenon
    <3>4. QED
      BY <3>1, <3>2, <3>3 DEF ClosedIsLeaving, SameTask
  <2>11. Distinct'
    <3>1. \A g \in Handlers : g # h => token'[g] = token[g]
      BY <1>2, Zenon DEF OnlyHandler, SameHandler
    <3>2. \A g \in Handlers : g # h /\ token'[g] # None /\ token'[h] # None =>
              token'[g].generation # token'[h].generation
      BY <1>1, <2>2, <2>4, <2>6, <3>1 DEF Distinct
    <3>3. QED
      BY <1>1, <2>3, <3>1, <3>2 DEF Distinct
  <2>12. next_connection_id' >= next_connection_id
    BY <1>1, <1>3 DEF TypeOK
  <2>13. QED
    BY <1>2, <1>3, <2>5, <2>7, <2>8, <2>9, <2>10, <2>11, <2>12, HandlerActs, ZenonT(30)
<1>7. QED
  BY <1>5, <1>6, Zenon

\* ReceiveUpdate keeps the invariant.
LEMMA ReceiveUpdateKeeps ==
    ASSUME Inv, TypeOK', NEW d \in Dispatchers, NEW u \in Updates, ReceiveUpdate(d, u)
    PROVE  Inv'
<1>1. TypeOK /\ TaskInv(d) /\ DispatcherInv(d) /\ TableInv /\ d \in Tasks
  BY ZenonT(30) DEF Inv, Tasks
<1>2. OnlyDispatcher(d)
  BY <1>1, Apart
  DEF OnlyDispatcher, SameHandler, SameDispatcher, SameTask, Tasks, TypeOK, ReceiveUpdate,
      Goto, At, shared, entryVars, handlerVars
<1>3. UNCHANGED <<connections, next_connection_id, slot_index, filter, cid, condemned, closed>>
  BY ZenonT(30) DEF ReceiveUpdate, shared, entryVars, handlerVars
<1>4. TaskInv(d)'
  BY <1>1, <1>3, Zenon DEF TypeOK, TaskInv, Holding, ReceiveUpdate, Goto, At
<1>5. /\ pc[d] = "idle" /\ pc'[d] = "visit" /\ idx'[d] = 0 /\ update'[d] = u
      /\ hit'[d] = {} /\ due'[d] = Wanting(u)
  BY <1>1, Zenon DEF TypeOK, DispatcherInv, ReceiveUpdate, Goto, At
<1>6. \A c \in Wanting(u) : c \in Published /\ matches(filter[c], u) /\ slot_index[c] \in Slots
  BY <1>1 DEF Wanting, Installed, TableInv, TypeOK, Published
<1>7. DispatcherInv(d)'
  <2>1. Published' = Published
    BY <1>3, Zenon DEF Published
  <2>2. QED
    BY <1>3, <1>5, <1>6, <2>1, Zenon DEF DispatcherInv
<1>8. ProgressInv(d)'
  <2>1. \A c \in Wanting(u) : ~(slot_index[c] < 0)
    BY <1>6, ManagerAssumption DEF Slots
  <2>2. QED
    BY <1>3, <1>5, <2>1, Zenon DEF ProgressInv
<1>9. condemned \subseteq Published
  BY Zenon DEF Inv
<1>10. QED
  BY <1>2, <1>3, <1>4, <1>5, <1>7, <1>8, <1>9, QuietDispatcherActs, Zenon

\* VisitLoad keeps the invariant.
LEMMA VisitLoadKeeps ==
    ASSUME Inv, TypeOK', NEW d \in Dispatchers, VisitLoad(d)
    PROVE  Inv'
<1>1. TypeOK /\ TaskInv(d) /\ DispatcherInv(d) /\ ProgressInv(d) /\ TableInv /\ d \in Tasks
  BY Zenon DEF Inv, Tasks
<1>2. OnlyDispatcher(d)
  BY <1>1, Apart
  DEF OnlyDispatcher, SameHandler, SameDispatcher, SameTask, Tasks, TypeOK, VisitLoad,
      NextSlot,
      Finish, Goto, Hold, At, handlerVars, dispatcherVars
<1>3. UNCHANGED <<connections, next_connection_id, slot_index, filter, cid, condemned, closed>>
  BY Zenon DEF VisitLoad, shared, entryVars, handlerVars
<1>4. TaskInv(d)'
  <2>1. \/ pc'[d] \in {"idle", "visit"} /\ ent'[d] = None
        \/ /\ pc'[d] = "stale" /\ idx[d] \in Slots /\ idx'[d] = idx[d]
           /\ connections[idx[d]] # None /\ ent'[d] = connections[idx[d]]
    BY <1>1, Zenon DEF TypeOK, VisitLoad, NextSlot, Finish, Goto, Hold
  <2>2. Published' = Published
    BY <1>3, Zenon DEF Published
  <2>3. QED
    BY <1>1, <1>3, <2>1, <2>2, Zenon DEF TaskInv, TableInv, Holding
<1>5. DispatcherInv(d)'
  <2>1. /\ pc[d] = "visit" /\ pc'[d] \in {"idle", "visit", "stale"}
        /\ \/ pc'[d] = "idle" /\ due'[d] = {} /\ hit'[d] = {}
           \/ pc'[d] # "idle" /\ UNCHANGED dispatcherVars
    BY <1>1, Zenon DEF TypeOK, VisitLoad, NextSlot, Finish, Goto
  <2>2. Published' = Published
    BY <1>3, Zenon DEF Published
  <2>3. QED
    BY <1>1, <1>3, <2>1, <2>2, Zenon DEF DispatcherInv, dispatcherVars
<1>6. pc[d] = "visit"
  BY Zenon DEF VisitLoad
<1>7. \A c \in due[d] : slot_index[c] \in Slots /\ c # None
  <2>1. due[d] \subseteq Published
    BY <1>1, Zenon DEF DispatcherInv
  <2>2. \A c \in Ids : slot_index[c] \in Slots /\ c # None
    BY <1>1, ManagerAssumption, Zenon DEF TypeOK
  <2>3. QED
    BY <2>1, <2>2, Zenon DEF Published
<1>8. ProgressInv(d)'
  <2>1. CASE Finish(d)
    BY <1>1, <2>1, Zenon DEF Finish, ProgressInv, TypeOK
  <2>2. CASE connections[idx[d]] = None /\ NextSlot(d, "visit") /\ UNCHANGED dispatcherVars
    <3>1. idx'[d] = idx[d] + 1 /\ pc'[d] = "visit" /\ due' = due /\ hit' = hit
      BY <1>1, <2>2, Zenon DEF TypeOK, NextSlot, Goto, At, dispatcherVars
    <3>2. \A c \in due[d] : slot_index[c] < idx[d] + 1 =>
              slot_index[c] < idx[d] \/ slot_index[c] = idx[d]
      <4>1. idx[d] \in Nat
        <5>1. idx \in [Tasks -> 0 .. MAX_CONNECTION_SLOTS] /\ d \in Tasks
          BY <1>1, Zenon DEF TypeOK
        <5>2. idx[d] \in 0 .. MAX_CONNECTION_SLOTS
          BY <5>1, Zenon
        <5>3. QED
          BY <5>2
      <4>2. \A c \in due[d] : slot_index[c] \in Nat
        BY <1>7, ManagerAssumption DEF Slots
      <4>3. \A i, j \in Nat : i < j + 1 => i < j \/ i = j
        OBVIOUS
      <4>4. QED
        BY <4>1, <4>2, <4>3, Zenon
    <3>3. QED
      BY <1>1, <1>3, <1>7, <2>2, <3>1, <3>2, ZenonT(30) DEF ProgressInv
  <2>3. CASE /\ Hold(d, connections[idx[d]]) /\ Goto(d, "stale")
             /\ UNCHANGED <<idx, dispatcherVars>>
    BY <1>1, <1>3, <2>3, Zenon DEF TypeOK, ProgressInv, Hold, dispatcherVars
  <2>4. QED
    BY <2>1, <2>2, <2>3, Zenon DEF VisitLoad
<1>9. condemned \subseteq Published
  BY Zenon DEF Inv
<1>10. QED
  BY <1>2, <1>3, <1>4, <1>5, <1>6, <1>8, <1>9, QuietDispatcherActs, Zenon

\* MatchFilter keeps the invariant.
LEMMA MatchFilterKeeps ==
    ASSUME Inv, TypeOK', NEW d \in Dispatchers, MatchFilter(d)
    PROVE  Inv'
<1>1. TypeOK /\ TaskInv(d) /\ DispatcherInv(d) /\ ProgressInv(d) /\ d \in Tasks
  BY Zenon DEF Inv, Tasks
<1>2. OnlyDispatcher(d)
  BY <1>1, Apart
  DEF OnlyDispatcher, SameHandler, SameDispatcher, SameTask, Tasks, TypeOK, MatchFilter,
      NextSlot,
      Finish, Goto, Hold, At, handlerVars, dispatcherVars
<1>3. UNCHANGED <<connections, next_connection_id, slot_index, filter, cid, condemned, closed>>
  BY Zenon DEF MatchFilter, shared, entryVars, handlerVars
<1>4. TaskInv(d)'
  <2>1. /\ pc[d] = "match"
        /\ \/ pc'[d] \in {"idle", "visit"} /\ ent'[d] = None
           \/ pc'[d] = "push" /\ ent'[d] = ent[d] /\ idx'[d] = idx[d]
    BY <1>1, Zenon DEF TypeOK, MatchFilter, NextSlot, Finish, Goto, Hold
  <2>2. Published' = Published
    BY <1>3, Zenon DEF Published
  <2>3. QED
    BY <1>1, <1>3, <2>1, <2>2, Zenon DEF TaskInv, Holding
<1>5. DispatcherInv(d)'
  <2>1. /\ pc[d] = "match" /\ pc'[d] \in {"idle", "visit", "push"}
        /\ \/ pc'[d] = "idle" /\ due'[d] = {} /\ hit'[d] = {}
           \/ pc'[d] = "visit" /\ UNCHANGED dispatcherVars
           \/ /\ pc'[d] = "push" /\ UNCHANGED <<ent, dispatcherVars>>
              /\ matches(filter[ent[d]], update[d])
    BY <1>1, Zenon DEF TypeOK, MatchFilter, NextSlot, Finish, Goto
  <2>2. Published' = Published
    BY <1>3, Zenon DEF Published
  <2>3. QED
    BY <1>1, <1>3, <2>1, <2>2, Zenon DEF DispatcherInv, dispatcherVars
<1>6. pc[d] = "match"
  BY Zenon DEF MatchFilter
<1>7. ProgressInv(d)'
  <2>1. CASE Finish(d)
    BY <1>1, <2>1, Zenon DEF Finish, ProgressInv, TypeOK
  <2>2. CASE /\ ~matches(filter[ent[d]], update[d])
             /\ NextSlot(d, "visit") /\ UNCHANGED dispatcherVars
    <3>1. ent[d] \notin due[d]
      BY <1>1, <2>2, ZenonT(30) DEF DispatcherInv
    <3>2. QED
      BY <1>3, <1>6, <2>2, <3>1, SlotDone, Zenon DEF dispatcherVars, Holding
  <2>3. CASE Goto(d, "push") /\ UNCHANGED <<idx, ent, dispatcherVars>>
    BY <1>1, <1>3, <1>6, <2>3, Zenon DEF ProgressInv, dispatcherVars
  <2>4. QED
    BY <2>1, <2>2, <2>3, Zenon DEF MatchFilter
<1>8. condemned \subseteq Published
  BY Zenon DEF Inv
<1>9. QED
  BY <1>2, <1>3, <1>4, <1>5, <1>6, <1>7, <1>8, QuietDispatcherActs, Zenon

\* Push keeps the invariant.
LEMMA PushKeeps ==
    ASSUME Inv, TypeOK', NEW d \in Dispatchers, Push(d)
    PROVE  Inv'
<1>1. /\ TypeOK /\ TaskInv(d) /\ DispatcherInv(d) /\ ProgressInv(d) /\ d \in Tasks
      /\ condemned \subseteq Published
  BY Zenon DEF Inv, Tasks
<1>2. OnlyDispatcher(d)
  BY <1>1, Apart
  DEF OnlyDispatcher, SameHandler, SameDispatcher, SameTask, Tasks, TypeOK, Push, NextSlot,
      Goto, Hold, At, handlerVars
<1>3. UNCHANGED <<connections, next_connection_id, slot_index, filter, cid, closed>>
  BY Zenon DEF Push, shared, entryVars, handlerVars
<1>4. pc[d] = "push" /\ ent[d] \in Published
  BY <1>1, Zenon DEF Push, TaskInv, Holding
<1>5. TaskInv(d)'
  BY <1>1, <1>3, <1>4, ZenonT(30)
  DEF TypeOK, TaskInv, Holding, Published, Push, NextSlot, Goto, Hold, At
<1>6. DispatcherInv(d)'
  <2>1. /\ pc'[d] \in {"visit", "evict"} /\ UNCHANGED <<update, due>>
        /\ hit'[d] \subseteq hit[d] \cup {ent[d]}
    BY <1>1, Zenon DEF TypeOK, Push, NextSlot, Goto
  <2>2. Published' = Published
    BY <1>3, Zenon DEF Published
  <2>3. matches(filter[ent[d]], update[d])
    BY <1>1, <1>4, Zenon DEF DispatcherInv
  <2>4. QED
    BY <1>1, <1>3, <1>4, <2>1, <2>2, <2>3, Zenon DEF DispatcherInv
<1>7. ProgressInv(d)'
  <2>1. CASE hit' = [hit EXCEPT ![d] = @ \cup {ent[d]}] /\ NextSlot(d, "visit")
    <3>1. hit'[d] = hit[d] \cup {ent[d]} /\ due' = due
      BY <1>1, <2>1, Zenon DEF TypeOK, Push
    <3>2. QED
      BY <1>3, <1>4, <2>1, <3>1, SlotDone, Zenon DEF Holding
  <2>2. CASE Goto(d, "evict") /\ UNCHANGED <<hit, idx, ent>>
    BY <1>1, <1>3, <1>4, <2>2, Zenon DEF ProgressInv, Push
  <2>3. QED
    BY <2>1, <2>2, Zenon DEF Push
<1>8. condemned \subseteq condemned' /\ condemned' \subseteq Published
  BY <1>1, <1>4, Zenon DEF Push
<1>9. QED
  BY <1>2, <1>3, <1>4, <1>5, <1>6, <1>7, <1>8, QuietDispatcherActs

\* EvictLoad keeps the invariant.
LEMMA EvictLoadKeeps ==
    ASSUME Inv, TypeOK', NEW d \in Dispatchers, EvictLoad(d)
    PROVE  Inv'
<1>1. TypeOK /\ TaskInv(d) /\ DispatcherInv(d) /\ ProgressInv(d) /\ d \in Tasks
  BY Zenon DEF Inv, Tasks
<1>2. OnlyDispatcher(d)
  BY <1>1, Apart
  DEF OnlyDispatcher, SameHandler, SameDispatcher, SameTask, Tasks, TypeOK, EvictLoad,
      NextSlot,
      Goto, Hold, At, handlerVars, dispatcherVars
<1>3. UNCHANGED <<connections, next_connection_id, slot_index, filter, cid, condemned, closed>>
  BY Zenon DEF EvictLoad, shared, entryVars, handlerVars
<1>4. TaskInv(d)'
  BY <1>1, <1>3, Zenon DEF TypeOK, TaskInv, Holding, Published, EvictLoad, NextSlot, Goto, Hold, At
<1>5. DispatcherInv(d)'
  BY <1>1, <1>3, ZenonT(30)
  DEF TypeOK, DispatcherInv, Published, EvictLoad, NextSlot, Goto, dispatcherVars
<1>6. pc[d] = "evict" /\ ent[d] # None /\ slot_index[ent[d]] = idx[d] /\ UNCHANGED <<due, hit>>
  BY <1>1, Zenon DEF EvictLoad, TaskInv, Holding, dispatcherVars
<1>7. ProgressInv(d)'
  <2>1. CASE connections[slot_index[ent[d]]] # ent[d] /\ NextSlot(d, "visit")
    BY <1>3, <1>6, <2>1, SlotDone, ZenonT(30) DEF Holding
  <2>2. CASE Goto(d, "close") /\ UNCHANGED <<idx, ent>>
    BY <1>1, <1>3, <1>6, <2>2, Zenon DEF ProgressInv
  <2>3. QED
    BY <2>1, <2>2, ZenonT(30) DEF EvictLoad
<1>8. condemned \subseteq Published
  BY Zenon DEF Inv
<1>9. QED
  BY <1>2, <1>3, <1>4, <1>5, <1>6, <1>7, <1>8, QuietDispatcherActs, ZenonT(30)

\* A step that leaves all but the clock alone.
LEMMA SameKeeps ==
    ASSUME Inv, TypeOK',
           UNCHANGED <<connections, next_connection_id, slot_index, filter, pc, idx, ent, request,
                       token, cid, loaded, asked, update, due, hit, condemned, closed>>
    PROVE  Inv'
<1>1. Grow
  BY QuietGrows, Zenon
<1>2. \A t \in Tasks : TaskInv(t)'
  BY <1>1, TaskFrame, ZenonT(30) DEF SameTask
<1>3. \A h \in Handlers : HandlerInv(h)'
  <2>1. next_connection_id' >= next_connection_id
    BY DEF Inv, TypeOK
  <2>2. QED
    BY <1>1, <2>1, HandlerFrame DEF SameHandler, SameTask
<1>4. \A d \in Dispatchers : DispatcherInv(d)' /\ ProgressInv(d)'
  BY <1>1, DispatcherFrame, ProgressFrame, Zenon DEF SameDispatcher, SameTask
<1>5. TableInv' /\ ClosedIsLeaving' /\ Distinct'
  BY <1>1, TableFrame, LeavingFrame, DistinctFrame, Zenon DEF SameTask
<1>6. condemned' \subseteq Published' /\ closed' \subseteq condemned'
  BY <1>1, Zenon DEF Inv, Grow
<1>7. QED
  BY <1>2, <1>3, <1>4, <1>5, <1>6, Zenon DEF Inv

\* The clock only matters to the staleness test.
LEMMA ClockStepKeeps ==
    ASSUME Inv, NEW t \in 0 .. MaxTime, ClockStep(t)
    PROVE  Inv'
<1>1. TypeOK'
  BY ManagerAssumption
  DEF Inv, TypeOK, ClockStep, entryVars, handlerVars, dispatcherVars
<1>2. QED
  BY <1>1, SameKeeps, Zenon DEF ClockStep, entryVars, handlerVars, dispatcherVars

-----------------------------------------------------------------------------
(* The invariant and what it gives.                                        *)

\* The sender starts with an empty table and idle tasks.
LEMMA InitInv == Init => Inv
<1> SUFFICES ASSUME Init
             PROVE  Inv
  BY Zenon
<1>1. 1 \in 1 .. MaxConnectionId + 1 /\ 0 \in Slots /\ 0 \in 0 .. MAX_CONNECTION_SLOTS
  BY ManagerAssumption DEF Slots
<1>2. NoRequest \in Request
  BY NoRequestType, Zenon
<1>3. TypeOK
  BY <1>1, <1>2, Zenon DEF Init, TypeOK, Labels
<1>4. \A t \in Tasks : TaskInv(t)
  BY Zenon DEF Init, TaskInv, Holding
<1>5. \A h \in Handlers : HandlerInv(h)
  BY Zenon DEF Init, HandlerInv, Tasks
<1>6. \A d \in Dispatchers : DispatcherInv(d) /\ ProgressInv(d)
  BY Zenon DEF Init, DispatcherInv, ProgressInv, Tasks
<1>7. TableInv /\ ClosedIsLeaving /\ Distinct
  BY Zenon DEF Init, TableInv, ClosedIsLeaving, Distinct
<1>8. QED
  BY <1>3, <1>4, <1>5, <1>6, <1>7, Zenon DEF Inv, Init

\* A step of the environment that touches none of the variables.
LEMMA StutterKeeps ==
    ASSUME Inv, UNCHANGED vars
    PROVE  Inv'
<1>1. UNCHANGED <<connections, next_connection_id, slot_index, filter, last_seen_ms, now, pc, idx,
                  ent, request, token, cid, loaded, asked, update, due, hit, condemned, closed>>
  BY Zenon DEF vars, shared, entryVars, handlerVars, dispatcherVars
<1>2. TypeOK'
  BY <1>1, Zenon DEF Inv, TypeOK
<1>3. QED
  BY <1>1, <1>2, SameKeeps, Zenon

\* Every step of every task, and of the clock, keeps Inv.
LEMMA NextInv == Inv /\ [Next]_vars => Inv'
<1> SUFFICES ASSUME Inv, [Next]_vars
             PROVE  Inv'
  BY Zenon
<1>1. CASE \E t \in Tasks : TaskStep(t)
  <2>1. PICK t \in Tasks : TaskStep(t)
    BY <1>1, Zenon
  <2>2. CASE CheckStale(t)
    BY <2>2, CheckStaleTypes, CheckStaleKeeps, Zenon
  <2>3. CASE Close(t)
    BY <2>3, CloseTypes, CloseKeeps, Zenon
  <2>4. CASE SwapOut(t)
    BY <2>4, SwapOutTypes, SwapOutKeeps, Zenon
  <2>5. QED
    BY <2>1, <2>2, <2>3, <2>4, Zenon DEF TaskStep
<1>2. CASE \E h \in Handlers : HandlerStep(h)
  <2>1. PICK h \in Handlers : HandlerStep(h)
    BY <1>2, Zenon
  <2>2. CASE Accept(h)
    BY <2>2, AcceptTypes, AcceptKeeps, Zenon
  <2>3. CASE Eof(h)
    BY <2>3, EofTypes, EofKeeps, Zenon
  <2>4. CASE ReceivePing(h)
    BY <2>4, ReceivePingTypes, ReceivePingKeeps, Zenon
  <2>5. CASE \E topics \in SUBSET Topics : ReceiveSubscription(h, topics)
    BY <2>5, ReceiveSubscriptionTypes, ReceiveSubscriptionKeeps, ZenonT(30)
  <2>6. CASE LookupLoad(h)
    BY <2>6, LookupLoadTypes, LookupLoadKeeps, Zenon
  <2>7. CASE Touch(h)
    BY <2>7, TouchTypes, TouchKeeps, Zenon
  <2>8. CASE LoadFilter(h)
    BY <2>8, LoadFilterTypes, LoadFilterKeeps, Zenon
  <2>9. CASE StoreFilter(h)
    BY <2>9, StoreFilterTypes, StoreFilterKeeps, Zenon
  <2>10. CASE AllocateId(h)
    BY <2>10, AllocateIdTypes, AllocateIdKeeps, Zenon
  <2>11. CASE ScanLoad(h)
    BY <2>11, ScanLoadTypes, ScanLoadKeeps, Zenon
  <2>12. CASE ScanReload(h)
    BY <2>12, ScanReloadTypes, ScanReloadKeeps, Zenon
  <2>13. CASE CreateEntry(h)
    BY <2>13, CreateEntryTypes, CreateEntryKeeps, Zenon
  <2>14. CASE CreateFails(h)
    BY <2>14, CreateFailsTypes, CreateFailsKeeps, Zenon
  <2>15. CASE Install(h)
    BY <2>15, InstallTypes, InstallKeeps, Zenon
  <2>16. QED
    BY <2>1, <2>2, <2>3, <2>4, <2>5, <2>6, <2>7, <2>8, <2>9, <2>10, <2>11, <2>12, <2>13,
       <2>14, <2>15, Zenon DEF HandlerStep
<1>3. CASE \E d \in Dispatchers : DispatcherStep(d)
  <2>1. PICK d \in Dispatchers : DispatcherStep(d)
    BY <1>3, Zenon
  <2>2. CASE \E u \in Updates : ReceiveUpdate(d, u)
    BY <2>2, ReceiveUpdateTypes, ReceiveUpdateKeeps, Zenon
  <2>3. CASE VisitLoad(d)
    BY <2>3, VisitLoadTypes, VisitLoadKeeps, Zenon
  <2>4. CASE MatchFilter(d)
    BY <2>4, MatchFilterTypes, MatchFilterKeeps, Zenon
  <2>5. CASE Push(d)
    BY <2>5, PushTypes, PushKeeps, Zenon
  <2>6. CASE EvictLoad(d)
    BY <2>6, EvictLoadTypes, EvictLoadKeeps, Zenon
  <2>7. QED
    BY <2>1, <2>2, <2>3, <2>4, <2>5, <2>6, Zenon DEF DispatcherStep
<1>4. CASE \E t \in 0 .. MaxTime : ClockStep(t)
  BY <1>4, ClockStepKeeps, Zenon
<1>5. CASE UNCHANGED vars
  BY <1>5, StutterKeeps, Zenon
<1>6. QED
  BY <1>1, <1>2, <1>3, <1>4, <1>5, Zenon DEF Next

(***************************************************************************)
(* Inv holds of every state the sender reaches.                            *)
(***************************************************************************)
THEOREM Invariance == Spec => []Inv
BY InitInv, NextInv, PTL DEF Spec

(***************************************************************************)
(* Every variable keeps its type; in particular a slot index read from the *)
(* table or a token is one of the table's.                                 *)
(***************************************************************************)
THEOREM TypeCorrectness == Spec => []TypeOK
<1>1. Inv => TypeOK
  BY Zenon DEF Inv
<1>2. QED
  BY <1>1, Invariance, PTL

(***************************************************************************)
(* cleanup_if_same and maybe_cleanup_stale_slot close only the entry that  *)
(* was found stale or full, never one that took its slot over.             *)
(***************************************************************************)
THEOREM CloseIsJustified == Spec => []JustifiedClose
<1>1. Inv => JustifiedClose
  BY Zenon DEF Inv, JustifiedClose
<1>2. QED
  BY <1>1, Invariance, PTL

(***************************************************************************)
(* A consumer's entry leaves the table only after its sink was closed.     *)
(***************************************************************************)
THEOREM RemovalFollowsClose == Spec => []RemovedIsClosed
<1>1. Inv => RemovedIsClosed
  <2> SUFFICES ASSUME Inv, NEW h \in Handlers, token[h] # None
               PROVE  token[h].generation \in Installed \cup closed
    BY Zenon DEF RemovedIsClosed
  <2>1. HandlerInv(h) /\ token[h] \in Token
    BY Zenon DEF Inv, TypeOK
  <2>2. token[h].slot_index \in Slots /\ token[h].generation # None
    BY <2>1, ManagerAssumption, Zenon DEF Token
  <2>3. QED
    BY <2>1, <2>2, Zenon DEF HandlerInv, Installed
<1>2. QED
  BY <1>1, Invariance, PTL

(***************************************************************************)
(* A closed entry is in the table only while the task that closed it has   *)
(* its compare_and_swap to do.                                             *)
(***************************************************************************)
THEOREM ClosedEntriesLeave == Spec => []ClosedIsLeaving
<1>1. Inv => ClosedIsLeaving
  BY Zenon DEF Inv
<1>2. QED
  BY <1>1, Invariance, PTL

(***************************************************************************)
(* apply_request's load and store lose no request and touch no filter but  *)
(* the caller's.                                                           *)
(***************************************************************************)
THEOREM FiltersAreAcked == Spec => []FilterIsWhatWasAcked
<1>1. Inv => FilterIsWhatWasAcked
  BY Zenon DEF Inv, HandlerInv, FilterIsWhatWasAcked
<1>2. QED
  BY <1>1, Invariance, PTL

(***************************************************************************)
(* dispatch_*_update pushes only to entries whose filter selects the       *)
(* update.                                                                 *)
(***************************************************************************)
THEOREM PushesAreWanted == Spec => []OnlyWantedUpdates
<1>1. Inv => OnlyWantedUpdates
  BY Zenon DEF Inv, DispatcherInv, OnlyWantedUpdates
<1>2. QED
  BY <1>1, Invariance, PTL

(***************************************************************************)
(* A fan-out reaches every entry that wanted its update when it began,     *)
(* unless the entry was removed.                                           *)
(***************************************************************************)
THEOREM FanOutIsComplete == Spec => []DispatchReachesAll
<1>1. Inv => DispatchReachesAll
  <2> SUFFICES ASSUME Inv, NEW d \in Dispatchers, idx[d] = MAX_CONNECTION_SLOTS,
                      NEW c \in due[d] \cap Installed
               PROVE  c \in hit[d]
    BY Zenon DEF DispatchReachesAll
  <2>1. ProgressInv(d) /\ TableInv /\ slot_index \in [Ids -> Slots]
    BY ZenonT(30) DEF Inv, TypeOK
  <2>2. connections[slot_index[c]] = c /\ slot_index[c] \in Slots
    BY <2>1 DEF Installed, TableInv, Published
  <2>3. slot_index[c] < MAX_CONNECTION_SLOTS
    BY <2>2, ManagerAssumption DEF Slots
  <2>4. QED
    BY <2>1, <2>2, <2>3, Zenon DEF ProgressInv
<1>2. QED
  BY <1>1, Invariance, PTL

(***************************************************************************)
(* compare_and_swap hands a slot over only through None, and to an entry   *)
(* that was never in the table.                                            *)
(***************************************************************************)
THEOREM SlotHandOver == Spec => SlotChangesHandsCleanly
<1>1. Inv /\ [Next]_vars =>
          [\A i \in Slots : connections'[i] \notin {None, connections[i]} =>
               /\ connections[i] = None
               /\ connections'[i] \notin closed \cup Installed]_connections
  <2> SUFFICES ASSUME Inv, Next, NEW i \in Slots,
                      connections'[i] \notin {None, connections[i]}
               PROVE  /\ connections[i] = None
                      /\ connections'[i] \notin closed \cup Installed
    BY Zenon DEF vars, shared
  <2>1. TypeOK /\ TableInv /\ closed \subseteq Published
    BY Zenon DEF Inv
  <2>2. PICK h \in Handlers : Install(h)
    <3>1. \A t \in Tasks : TaskStep(t) => connections'[i] \in {None, connections[i]}
      BY <2>1, Zenon DEF TaskStep, CheckStale, Close, SwapOut, TypeOK, shared
    <3>2. \A h \in Handlers : HandlerStep(h) => connections' = connections \/ Install(h)
      BY ZenonT(30) DEF HandlerStep, Accept, Eof, ReceivePing, ReceiveSubscription, LookupLoad,
         Touch,
             LoadFilter, StoreFilter, AllocateId, ScanLoad, ScanReload, CreateEntry,
             CreateFails, shared
    <3>3. \A d \in Dispatchers : DispatcherStep(d) => connections' = connections
      BY Zenon DEF DispatcherStep, ReceiveUpdate, VisitLoad, MatchFilter, Push, EvictLoad, shared
    <3>4. \A t \in 0 .. MaxTime : ClockStep(t) => connections' = connections
      BY Zenon DEF ClockStep
    <3>5. QED
      BY <3>1, <3>2, <3>3, <3>4, Zenon DEF Next
  <2>3. cid[h] \notin Published
    BY Zenon DEF Published
  <2>4. connections[i] = None /\ connections'[i] = cid[h]
    BY <2>1, <2>2, Zenon DEF Install, TypeOK
  <2>5. Installed \subseteq Published
    BY <2>1, Zenon DEF Installed, TableInv
  <2>6. QED
    BY <2>1, <2>3, <2>4, <2>5, Zenon
<1>2. QED
  BY <1>1, Invariance, PTL DEF Spec, SlotChangesHandsCleanly
=============================================================================
