-------------------------- MODULE ConnectionManager --------------------------
(***************************************************************************)
(* The sender's table of consumer connections (sender/mod.rs), shared by   *)
(* the tasks that serve the control sockets (handle_uds_connection, here   *)
(* Handlers) and the tasks that fan updates out (Dispatchers).             *)
(*                                                                         *)
(* Nothing is locked: every task works by single atomic operations on the  *)
(* table (an ArcSwap load or compare_and_swap of one slot), the id         *)
(* counter, an entry's filter and last_seen_ms, and an entry's ring.  Each *)
(* action below is one of them with the private computation around it, so  *)
(* any interleaving the code has is a behaviour here.                      *)
(*                                                                         *)
(* An Arc<ManagedConnection> is named by its connection_id.  A filter is   *)
(* the set of topics it selects (a pubkey, an owner, all transactions);    *)
(* SubscriptionFilter shows that matching is exactly that.                 *)
(***************************************************************************)
EXTENDS Naturals, FiniteSets

CONSTANTS
    MAX_CONNECTION_SLOTS,   \* 10 in the code
    SLOT_IDLE_TIMEOUT,      \* 30 s in the code
    Handlers,               \* control-socket tasks, each with its consumer
    Dispatchers,            \* fan-out tasks, named by the kind of update
    Topics,                 \* what a request can select
    Updates,                \* [kind, topics, encodes] records to fan out
    MaxConnectionId,        \* bound on the ids handed out
    MaxTime,                \* bound on the wall clock
    None

Slots == 0 .. MAX_CONNECTION_SLOTS - 1
Ids == 1 .. MaxConnectionId
Tasks == Handlers \cup Dispatchers
Token == [slot_index : Slots, generation : Ids]
Request == [op : {"none", "subscribe", "ping"}, topics : SUBSET Topics]

ASSUME ManagerAssumption ==
    /\ MAX_CONNECTION_SLOTS \in Nat \ {0}
    /\ {SLOT_IDLE_TIMEOUT, MaxConnectionId, MaxTime} \subseteq Nat
    /\ Dispatchers \subseteq {"account", "transaction", "slot"}
    /\ Handlers \cap Dispatchers = {}
    /\ Updates \subseteq [kind : Dispatchers, topics : SUBSET Topics, encodes : BOOLEAN]
    /\ None \notin Ids /\ None \notin Token /\ None \notin Updates

VARIABLES
    connections,            \* slot -> installed entry or None
    next_connection_id,
    slot_index, filter, last_seen_ms,   \* id -> fields of its entry
    now,                    \* the wall clock
    pc,                     \* what each task does next
    idx,                    \* the slot each task is working on
    ent,                    \* the Arc each task holds, or None
    request,                \* handler: the frame it serves, [op, topics]
    token,                  \* handler: the token its consumer holds
    cid,                    \* handler: the id it allocated
    loaded,                 \* handler: filter read by apply_request
    update                  \* dispatcher: the update in hand

(* History: what the properties talk about and the code does not store.    *)
VARIABLES
    condemned,              \* entries seen stale, or whose ring refused a push
    closed,                 \* entries whose sink was closed
    asked,                  \* handler: topics acknowledged to its consumer
    due,                    \* dispatcher: entries that wanted its update
                            \* when it started
    hit                     \* dispatcher: entries it pushed its update to

entryVars == <<slot_index, filter, last_seen_ms>>
shared == <<connections, next_connection_id, entryVars, now>>
handlerVars == <<request, token, cid, loaded, asked>>
dispatcherVars == <<update, due, hit>>
vars == <<shared, pc, idx, ent, handlerVars, dispatcherVars, condemned, closed>>

NoRequest == [op |-> "none", topics |-> {}]

Installed == {connections[i] : i \in Slots} \ {None}

Init ==
    /\ connections = [i \in Slots |-> None]
    /\ next_connection_id = 1
    /\ slot_index = [c \in Ids |-> 0]
    /\ filter = [c \in Ids |-> {}]
    /\ last_seen_ms = [c \in Ids |-> 0]
    /\ now = 0
    /\ pc = [t \in Tasks |-> "idle"]
    /\ idx = [t \in Tasks |-> 0]
    /\ ent = [t \in Tasks |-> None]
    /\ request = [h \in Handlers |-> NoRequest]
    /\ token = [h \in Handlers |-> None]
    /\ cid = [h \in Handlers |-> None]
    /\ loaded = [h \in Handlers |-> {}]
    /\ update = [d \in Dispatchers |-> None]
    /\ condemned = {} /\ closed = {}
    /\ asked = [h \in Handlers |-> {}]
    /\ due = [d \in Dispatchers |-> {}]
    /\ hit = [d \in Dispatchers |-> {}]

-----------------------------------------------------------------------------
(* Pieces shared by the tasks.                                             *)

\* now.saturating_sub(last_seen) > timeout
is_stale(c) == now > last_seen_ms[c] + SLOT_IDLE_TIMEOUT

matches(topics, u) == u.kind = "slot" \/ topics \cap u.topics # {}

Goto(t, label) == pc' = [pc EXCEPT ![t] = label]
Hold(t, c) == ent' = [ent EXCEPT ![t] = c]
At(t, i) == idx' = [idx EXCEPT ![t] = i]

\* The task is over and its socket closed; what its consumer held is void.
Leave(h) ==
    /\ Goto(h, "gone")
    /\ At(h, 0)
    /\ request' = [request EXCEPT ![h] = NoRequest]
    /\ token' = [token EXCEPT ![h] = None]
    /\ cid' = [cid EXCEPT ![h] = None]
    /\ asked' = [asked EXCEPT ![h] = {}]

\* The frame is served; the task reads the next one.
Served(h) == Goto(h, "idle") /\ At(h, 0) /\ request' = [request EXCEPT ![h] = NoRequest]

\* lookup_by_token returned None: a ping is ignored, a subscription gets a slot.
NotFound(h) ==
    \/ request[h].op = "ping" /\ Served(h)
    \/ request[h].op # "ping" /\ Goto(h, "alloc") /\ UNCHANGED <<idx, request>>

\* Fault: every other slot is skipped.
NextSlotSkips(t, loop) == Goto(t, loop) /\ At(t, idx[t] + 2) /\ Hold(t, None)

\* The next iteration of a scan (a handler's) or of a fan-out (a dispatcher's).
NextSlot(t, loop) == Goto(t, loop) /\ At(t, idx[t] + 1) /\ Hold(t, None)

\* A handler cleans a slot up while it resolves a token, or, once it has
\* allocated an id, while it looks for a free slot.
Resolving(t) == t \in Handlers /\ cid[t] = None
Scanning(t) == t \in Handlers /\ cid[t] # None

-----------------------------------------------------------------------------
(* maybe_cleanup_stale_slot and cleanup_if_same: test, close, swap out.    *)

\* Fault: a stale entry is swapped out without closing its sink.
CheckStaleSilently(t) ==
    /\ pc[t] = "stale"
    /\ \/ /\ is_stale(ent[t])
          /\ condemned' = condemned \cup {ent[t]}
          /\ Goto(t, "swap") /\ UNCHANGED <<idx, ent>>
       \/ /\ ~is_stale(ent[t])
          /\ \/ Scanning(t) /\ NextSlot(t, "scan")
             \/ Resolving(t) /\ Goto(t, "touch") /\ UNCHANGED <<idx, ent>>
             \/ t \in Dispatchers /\ Goto(t, "match") /\ UNCHANGED <<idx, ent>>
          /\ UNCHANGED condemned
    /\ UNCHANGED <<shared, handlerVars, dispatcherVars, closed>>

\* Fault: a scan waits at an occupied slot, where the code goes to the next one.
CheckStaleWaits(t) ==
    /\ pc[t] = "stale"
    /\ \/ /\ is_stale(ent[t])
          /\ condemned' = condemned \cup {ent[t]}
          /\ Goto(t, "close") /\ UNCHANGED <<idx, ent>>
       \/ /\ ~is_stale(ent[t])
          /\ \/ Scanning(t) /\ Goto(t, "scan") /\ Hold(t, None) /\ UNCHANGED idx
             \/ Resolving(t) /\ Goto(t, "touch") /\ UNCHANGED <<idx, ent>>
             \/ t \in Dispatchers /\ Goto(t, "match") /\ UNCHANGED <<idx, ent>>
          /\ UNCHANGED condemned
    /\ UNCHANGED <<shared, handlerVars, dispatcherVars, closed>>

CheckStale(t) ==
    /\ pc[t] = "stale"
    /\ \/ /\ is_stale(ent[t])
          /\ condemned' = condemned \cup {ent[t]}
          /\ Goto(t, "close") /\ UNCHANGED <<idx, ent>>
       \/ /\ ~is_stale(ent[t])
          /\ \/ Scanning(t) /\ NextSlot(t, "scan")
             \/ Resolving(t) /\ Goto(t, "touch") /\ UNCHANGED <<idx, ent>>
             \/ t \in Dispatchers /\ Goto(t, "match") /\ UNCHANGED <<idx, ent>>
          /\ UNCHANGED condemned
    /\ UNCHANGED <<shared, handlerVars, dispatcherVars, closed>>

\* sink.close(): what the consumer sees of it is the subject of Delivery.
Close(t) ==
    /\ pc[t] = "close"
    /\ closed' = closed \cup {ent[t]}
    /\ Goto(t, "swap")
    /\ UNCHANGED <<shared, idx, ent, handlerVars, dispatcherVars, condemned>>

\* Fault: the closed entry is left in the table.
SwapOutForgets(t) ==
    /\ pc[t] = "swap"
    /\ \/ t \in Dispatchers /\ NextSlot(t, "visit") /\ UNCHANGED request
       \/ Scanning(t) /\ Goto(t, "reload") /\ UNCHANGED <<idx, ent, request>>
       \/ Resolving(t) /\ NotFound(t) /\ Hold(t, None)
    /\ UNCHANGED <<shared, token, cid, loaded, asked, dispatcherVars, condemned, closed>>

\* compare_and_swap(entry in hand -> None), and back to the caller.
SwapOut(t) ==
    /\ pc[t] = "swap"
    /\ \/ /\ connections[idx[t]] = ent[t]
          /\ connections' = [connections EXCEPT ![idx[t]] = None]
       \/ connections[idx[t]] # ent[t] /\ UNCHANGED connections
    /\ \/ t \in Dispatchers /\ NextSlot(t, "visit") /\ UNCHANGED request
       \/ Scanning(t) /\ Goto(t, "reload") /\ UNCHANGED <<idx, ent, request>>
       \/ Resolving(t) /\ NotFound(t) /\ Hold(t, None)
    /\ UNCHANGED <<next_connection_id, entryVars, now, token, cid, loaded, asked,
                   dispatcherVars, condemned, closed>>

-----------------------------------------------------------------------------
(* Handlers: frames of one control socket, served one after the other.     *)

\* run_listener accepts a consumer, which has no token yet.
Accept(h) ==
    /\ pc[h] = "gone"
    /\ Goto(h, "idle")
    /\ UNCHANGED <<shared, idx, ent, handlerVars, dispatcherVars, condemned, closed>>

\* The consumer hangs up or its frame does not decode: the task returns and the
\* slot stays as it is.
Eof(h) ==
    /\ pc[h] = "idle"
    /\ Leave(h)
    /\ UNCHANGED <<shared, ent, loaded, dispatcherVars, condemned, closed>>

ReceiveSubscription(h, topics) ==
    /\ pc[h] = "idle"
    /\ request' = [request EXCEPT ![h] = [op |-> "subscribe", topics |-> topics]]
    /\ Goto(h, IF token[h] = None THEN "alloc" ELSE "lookup")
    /\ UNCHANGED <<shared, idx, ent, token, cid, loaded, asked, dispatcherVars,
                   condemned, closed>>

ReceivePing(h) ==
    /\ pc[h] = "idle" /\ token[h] # None
    /\ request' = [request EXCEPT ![h] = [op |-> "ping", topics |-> {}]]
    /\ Goto(h, "lookup")
    /\ UNCHANGED <<shared, idx, ent, token, cid, loaded, asked, dispatcherVars,
                   condemned, closed>>

\* Fault: any entry in the slot will do, whatever its generation.
TokenMatchesAny(h) == connections[token[h].slot_index] # None

\* lookup_by_token: load the slot the token names and compare generations.  (An
\* index outside the table finds nothing; a handler's consumer has a token that
\* this table gave it, and no other consumer presents it.)
TokenMatches(h) == connections[token[h].slot_index] = token[h].generation

LookupLoad(h) ==
    /\ pc[h] = "lookup"
    /\ \/ /\ TokenMatches(h)
          /\ At(h, token[h].slot_index)
          /\ Hold(h, connections[token[h].slot_index])
          /\ Goto(h, "stale") /\ UNCHANGED request
       \/ /\ ~TokenMatches(h)
          /\ NotFound(h) /\ UNCHANGED ent
    /\ UNCHANGED <<shared, token, cid, loaded, asked, dispatcherVars, condemned, closed>>

\* last_seen_ms.store(now_ms()): all a ping does; a subscription goes on.
Touch(h) ==
    /\ pc[h] = "touch"
    /\ last_seen_ms' = [last_seen_ms EXCEPT ![ent[h]] = now]
    /\ \/ request[h].op = "ping" /\ Hold(h, None) /\ Served(h)
       \/ /\ request[h].op # "ping"
          /\ Goto(h, "load_filter") /\ UNCHANGED <<idx, ent, request>>
    /\ UNCHANGED <<connections, next_connection_id, slot_index, filter, now, token,
                   cid, loaded, asked, dispatcherVars, condemned, closed>>

\* apply_request is a load and a later store, not a read-modify-write.
LoadFilter(h) ==
    /\ pc[h] = "load_filter"
    /\ loaded' = [loaded EXCEPT ![h] = filter[ent[h]]]
    /\ Goto(h, "store_filter")
    /\ UNCHANGED <<shared, idx, ent, request, token, cid, asked, dispatcherVars,
                   condemned, closed>>

\* The store, and the Existing reply that acknowledges the request.
StoreFilter(h) ==
    /\ pc[h] = "store_filter"
    /\ filter' = [filter EXCEPT ![ent[h]] = loaded[h] \cup request[h].topics]
    /\ asked' = [asked EXCEPT ![h] = @ \cup request[h].topics]
    /\ loaded' = [loaded EXCEPT ![h] = {}]
    /\ Hold(h, None)
    /\ Served(h)
    /\ UNCHANGED <<connections, next_connection_id, slot_index, last_seen_ms, now,
                   token, cid, dispatcherVars, condemned, closed>>

\* Fault: the id is read and the counter not advanced.
AllocateSameId(h) ==
    /\ pc[h] = "alloc" /\ next_connection_id \in Ids
    /\ cid' = [cid EXCEPT ![h] = next_connection_id]
    /\ At(h, 0)
    /\ Goto(h, "scan")
    /\ UNCHANGED <<shared, ent, request, token, loaded, asked, dispatcherVars,
                   condemned, closed>>

\* No slot of its own: next_connection_id.fetch_add, then look for a free slot.
AllocateId(h) ==
    /\ pc[h] = "alloc" /\ next_connection_id \in Ids
    /\ cid' = [cid EXCEPT ![h] = next_connection_id]
    /\ next_connection_id' = next_connection_id + 1
    /\ At(h, 0)
    /\ Goto(h, "scan")
    /\ UNCHANGED <<connections, entryVars, now, ent, request, token, loaded, asked,
                   dispatcherVars, condemned, closed>>

\* find_free_slot, one slot: take it if empty, else see whether it is stale.
\* Past the last slot the request fails and the task ends.
ScanLoad(h) ==
    /\ pc[h] = "scan"
    /\ \/ /\ idx[h] \notin Slots
          /\ Leave(h) /\ UNCHANGED ent
       \/ /\ idx[h] \in Slots
          /\ Hold(h, connections[idx[h]])
          /\ Goto(h, IF connections[idx[h]] = None THEN "create" ELSE "stale")
          /\ UNCHANGED <<idx, request, token, cid, asked>>
    /\ UNCHANGED <<shared, loaded, dispatcherVars, condemned, closed>>

\* The slot just cleaned is taken only if it is still empty.
ScanReload(h) ==
    /\ pc[h] = "reload"
    /\ Hold(h, None)
    /\ \/ connections[idx[h]] = None /\ Goto(h, "create") /\ UNCHANGED idx
       \/ connections[idx[h]] # None /\ Goto(h, "scan") /\ At(h, idx[h] + 1)
    /\ UNCHANGED <<shared, handlerVars, dispatcherVars, condemned, closed>>

\* A fresh ring, eventfd and entry, not yet visible to anyone.
CreateEntry(h) ==
    /\ pc[h] = "create"
    /\ slot_index' = [slot_index EXCEPT ![cid[h]] = idx[h]]
    /\ filter' = [filter EXCEPT ![cid[h]] = request[h].topics]
    /\ last_seen_ms' = [last_seen_ms EXCEPT ![cid[h]] = now]
    /\ Goto(h, "install")
    /\ UNCHANGED <<connections, next_connection_id, now, idx, ent, handlerVars,
                   dispatcherVars, condemned, closed>>

\* The ring file or the eventfd cannot be created: the task ends, its id is spent.
CreateFails(h) ==
    /\ pc[h] = "create"
    /\ Leave(h)
    /\ UNCHANGED <<shared, ent, loaded, dispatcherVars, condemned, closed>>

\* Fault: a store where the code compares and swaps.
InstallOver(h) ==
    /\ pc[h] = "install"
    /\ connections' = [connections EXCEPT ![idx[h]] = cid[h]]
    /\ token' = [token EXCEPT ![h] = [slot_index |-> idx[h], generation |-> cid[h]]]
    /\ asked' = [asked EXCEPT ![h] = request[h].topics]
    /\ cid' = [cid EXCEPT ![h] = None]
    /\ Served(h)
    /\ UNCHANGED <<next_connection_id, entryVars, now, ent, loaded, dispatcherVars,
                   condemned, closed>>

\* compare_and_swap(None -> entry).  The winner answers Created; a consumer that
\* already has a token refuses that reply and keeps the old one.  The loser
\* drops its ring and scans again with the same id.
Install(h) ==
    /\ pc[h] = "install"
    /\ \/ /\ connections[idx[h]] = None
          /\ connections' = [connections EXCEPT ![idx[h]] = cid[h]]
          /\ \/ /\ token[h] = None
                /\ token' = [token EXCEPT ![h] =
                       [slot_index |-> idx[h], generation |-> cid[h]]]
                /\ asked' = [asked EXCEPT ![h] = request[h].topics]
             \/ token[h] # None /\ UNCHANGED <<token, asked>>
          /\ cid' = [cid EXCEPT ![h] = None]
          /\ Served(h)
       \/ /\ connections[idx[h]] # None
          /\ Goto(h, "scan") /\ At(h, 0)
          /\ UNCHANGED <<connections, request, cid, token, asked>>
    /\ UNCHANGED <<next_connection_id, entryVars, now, ent, loaded, dispatcherVars,
                   condemned, closed>>

-----------------------------------------------------------------------------
(* Dispatchers: fan one update out to every slot that wants it.            *)

Wanting(u) == {c \in Installed : matches(filter[c], u)}

ReceiveUpdate(d, u) ==
    /\ pc[d] = "idle" /\ u.kind = d
    /\ update' = [update EXCEPT ![d] = u]
    /\ due' = [due EXCEPT ![d] = Wanting(u)]
    /\ At(d, 0)
    /\ Goto(d, "visit")
    /\ UNCHANGED <<shared, ent, handlerVars, hit, condemned, closed>>

\* The end of a fan-out, after the last slot or at a frame that fails to encode.
Finish(d) ==
    /\ Goto(d, "idle")
    /\ At(d, 0)
    /\ Hold(d, None)
    /\ update' = [update EXCEPT ![d] = None]
    /\ due' = [due EXCEPT ![d] = {}]
    /\ hit' = [hit EXCEPT ![d] = {}]

\* Fault: break at an empty slot, where the code continues.
VisitStopsAtGap(d) ==
    /\ pc[d] = "visit"
    /\ \/ /\ idx[d] \notin Slots
          /\ Finish(d)
       \/ /\ idx[d] \in Slots /\ connections[idx[d]] = None
          /\ At(d, MAX_CONNECTION_SLOTS) /\ UNCHANGED <<pc, ent, dispatcherVars>>
       \/ /\ idx[d] \in Slots /\ connections[idx[d]] # None
          /\ Hold(d, connections[idx[d]]) /\ Goto(d, "stale")
          /\ UNCHANGED <<idx, dispatcherVars>>
    /\ UNCHANGED <<shared, handlerVars, condemned, closed>>

VisitLoad(d) ==
    /\ pc[d] = "visit"
    /\ \/ /\ idx[d] \notin Slots
          /\ Finish(d)
       \/ /\ idx[d] \in Slots /\ connections[idx[d]] = None
          /\ NextSlot(d, "visit") /\ UNCHANGED dispatcherVars
       \/ /\ idx[d] \in Slots /\ connections[idx[d]] # None
          /\ Hold(d, connections[idx[d]]) /\ Goto(d, "stale")
          /\ UNCHANGED <<idx, dispatcherVars>>
    /\ UNCHANGED <<shared, handlerVars, condemned, closed>>

\* entry.filter.load().matches_*, then the frame is encoded once for all slots.
MatchFilter(d) ==
    /\ pc[d] = "match"
    /\ \/ /\ ~matches(filter[ent[d]], update[d])
          /\ NextSlot(d, "visit") /\ UNCHANGED dispatcherVars
       \/ /\ matches(filter[ent[d]], update[d])
          /\ ~update[d].encodes
          /\ Finish(d)
       \/ /\ matches(filter[ent[d]], update[d])
          /\ update[d].encodes
          /\ Goto(d, "push") /\ UNCHANGED <<idx, ent, dispatcherVars>>
    /\ UNCHANGED <<shared, handlerVars, condemned, closed>>

\* sink.try_push: whether the ring has room is up to the consumer's reading
\* (see Delivery); any failure makes the consumer a slow one.
Push(d) ==
    /\ pc[d] = "push"
    /\ \/ /\ hit' = [hit EXCEPT ![d] = @ \cup {ent[d]}]
          /\ NextSlot(d, "visit")
          /\ UNCHANGED condemned
       \/ /\ condemned' = condemned \cup {ent[d]}
          /\ Goto(d, "evict")
          /\ UNCHANGED <<hit, idx, ent>>
    /\ UNCHANGED <<shared, handlerVars, update, due, closed>>

\* Fault: whoever is in the slot now is evicted.
EvictWhoeverIsThere(d) ==
    /\ pc[d] = "evict"
    /\ \/ /\ connections[slot_index[ent[d]]] # None
          /\ Hold(d, connections[slot_index[ent[d]]])
          /\ Goto(d, "close") /\ UNCHANGED idx
       \/ /\ connections[slot_index[ent[d]]] = None
          /\ NextSlot(d, "visit")
    /\ UNCHANGED <<shared, handlerVars, dispatcherVars, condemned, closed>>

\* Fault: the ring is tried again until there is room.
EvictLoadRetries(d) ==
    /\ pc[d] = "evict"
    /\ \/ /\ connections[slot_index[ent[d]]] = ent[d]
          /\ Goto(d, "push") /\ UNCHANGED <<idx, ent>>
       \/ /\ connections[slot_index[ent[d]]] # ent[d]
          /\ NextSlot(d, "visit")
    /\ UNCHANGED <<shared, handlerVars, dispatcherVars, condemned, closed>>

\* cleanup_if_same: the slot may have changed hands since it was loaded.
EvictLoad(d) ==
    /\ pc[d] = "evict"
    /\ \/ /\ connections[slot_index[ent[d]]] = ent[d]
          /\ Goto(d, "close") /\ UNCHANGED <<idx, ent>>
       \/ /\ connections[slot_index[ent[d]]] # ent[d]
          /\ NextSlot(d, "visit")
    /\ UNCHANGED <<shared, handlerVars, dispatcherVars, condemned, closed>>

-----------------------------------------------------------------------------
(* The environment.                                                        *)

\* SystemTime is not monotonic: it advances, and may be set back.
ClockStep(t) ==
    /\ t # now
    /\ now' = t
    /\ UNCHANGED <<connections, next_connection_id, entryVars, pc, idx, ent,
                   handlerVars, dispatcherVars, condemned, closed>>

TaskStep(t) == CheckStale(t) \/ Close(t) \/ SwapOut(t)

HandlerStep(h) ==
    \/ Accept(h) \/ Eof(h) \/ ReceivePing(h)
    \/ \E topics \in SUBSET Topics : ReceiveSubscription(h, topics)
    \/ LookupLoad(h) \/ Touch(h) \/ LoadFilter(h) \/ StoreFilter(h)
    \/ AllocateId(h) \/ ScanLoad(h) \/ ScanReload(h)
    \/ CreateEntry(h) \/ CreateFails(h) \/ Install(h)

DispatcherStep(d) ==
    \/ \E u \in Updates : ReceiveUpdate(d, u)
    \/ VisitLoad(d) \/ MatchFilter(d) \/ Push(d) \/ EvictLoad(d)

Next ==
    \/ \E t \in Tasks : TaskStep(t)
    \/ \E h \in Handlers : HandlerStep(h)
    \/ \E d \in Dispatchers : DispatcherStep(d)
    \/ \E t \in 0 .. MaxTime : ClockStep(t)

Spec == Init /\ [][Next]_vars

(* Between two frames, and between two updates, a task waits for nobody:   *)
(* what it has begun it goes on with.  Nobody has to connect, to hang up,  *)
(* to send a frame or to publish an update.                                *)
Serve(h) ==
    \/ LookupLoad(h) \/ Touch(h) \/ LoadFilter(h) \/ StoreFilter(h)
    \/ AllocateId(h) \/ ScanLoad(h) \/ ScanReload(h)
    \/ CreateEntry(h) \/ CreateFails(h) \/ Install(h)

FanOut(d) == VisitLoad(d) \/ MatchFilter(d) \/ Push(d) \/ EvictLoad(d)

Fairness ==
    /\ \A t \in Tasks : WF_vars(TaskStep(t))
    /\ \A h \in Handlers : WF_vars(Serve(h))
    /\ \A d \in Dispatchers : WF_vars(FanOut(d))

-----------------------------------------------------------------------------
Labels ==
    {"idle", "gone", "lookup", "touch", "load_filter", "store_filter", "alloc",
     "scan", "reload", "create", "install", "visit", "match", "push", "evict",
     "stale", "close", "swap"}

(***************************************************************************)
(* TypeOK: every variable has its type.                                    *)
(***************************************************************************)
TypeOK ==
    /\ connections \in [Slots -> Ids \cup {None}]
    /\ next_connection_id \in 1 .. MaxConnectionId + 1
    /\ slot_index \in [Ids -> Slots]
    /\ filter \in [Ids -> SUBSET Topics]
    /\ last_seen_ms \in [Ids -> Nat]
    /\ now \in Nat
    /\ pc \in [Tasks -> Labels]
    /\ idx \in [Tasks -> 0 .. MAX_CONNECTION_SLOTS]
    /\ ent \in [Tasks -> Ids \cup {None}]
    /\ request \in [Handlers -> Request]
    /\ token \in [Handlers -> Token \cup {None}]
    /\ cid \in [Handlers -> Ids \cup {None}]
    /\ loaded \in [Handlers -> SUBSET Topics]
    /\ update \in [Dispatchers -> Updates \cup {None}]
    /\ condemned \subseteq Ids /\ closed \subseteq Ids
    /\ asked \in [Handlers -> SUBSET Topics]
    /\ due \in [Dispatchers -> SUBSET Ids]
    /\ hit \in [Dispatchers -> SUBSET Ids]

(***************************************************************************)
(* JustifiedClose: only an entry that some task saw stale, or whose ring   *)
(* refused a push, is ever closed: cleanup never hits the entry that took  *)
(* the slot over in the meantime.                                          *)
(***************************************************************************)
JustifiedClose == closed \subseteq condemned

(***************************************************************************)
(* RemovedIsClosed: an entry that was handed to a consumer and is no       *)
(* longer in the table was closed first, so the consumer is never dropped  *)
(* without the close of its sink having run.                               *)
(***************************************************************************)
RemovedIsClosed ==
    \A h \in Handlers :
        token[h] # None => token[h].generation \in Installed \cup closed

(***************************************************************************)
(* ClosedIsLeaving: an entry that is closed and still in the table is in   *)
(* the hands of a task whose next step swaps it out; no slot is left       *)
(* occupied by a closed entry.                                             *)
(***************************************************************************)
ClosedIsLeaving ==
    \A i \in Slots : connections[i] \in closed =>
        \E t \in Tasks :
            pc[t] = "swap" /\ ent[t] = connections[i] /\ idx[t] = i

(***************************************************************************)
(* FilterIsWhatWasAcked: the filter of a consumer's entry is the union of  *)
(* the requests that were acknowledged to that consumer: no request is     *)
(* lost to the load/store in apply_request, and none lands on the filter   *)
(* of a consumer that got the same slot earlier or later.                  *)
(***************************************************************************)
FilterIsWhatWasAcked ==
    \A h \in Handlers :
        token[h] # None => filter[token[h].generation] = asked[h]

(***************************************************************************)
(* OnlyWantedUpdates: an update is pushed only to entries whose filter     *)
(* selects it.                                                             *)
(***************************************************************************)
OnlyWantedUpdates ==
    \A d \in Dispatchers : \A c \in hit[d] : matches(filter[c], update[d])

(***************************************************************************)
(* DispatchReachesAll: once a fan-out has visited every slot, each entry   *)
(* that was installed and wanted the update when the fan-out began has     *)
(* received it or has been removed, however subscriptions, pings and       *)
(* evictions moved in between.                                             *)
(***************************************************************************)
DispatchReachesAll ==
    \A d \in Dispatchers :
        pc[d] = "visit" /\ idx[d] = MAX_CONNECTION_SLOTS =>
            due[d] \cap Installed \subseteq hit[d]

(***************************************************************************)
(* SlotChangesHandsCleanly: a slot passes from one entry to another only   *)
(* through None, and what is installed is an entry that was never closed   *)
(* and sits in no other slot: no removed connection comes back.            *)
(***************************************************************************)
SlotChangesHandsCleanly ==
    [][\A i \in Slots : connections'[i] \notin {None, connections[i]} =>
           /\ connections[i] = None
           /\ connections'[i] \notin closed \cup Installed]_connections

(***************************************************************************)
(* RequestsEnd: a request that has its id, or needs none, is answered or   *)
(* refused, however often the slots it finds are taken before it installs  *)
(* its entry: the retry loop of upsert_shm is left as long as only         *)
(* finitely many consumers connect.                                        *)
(***************************************************************************)
RequestsEnd ==
    \A h \in Handlers :
        pc[h] \notin {"idle", "gone", "alloc"} ~> pc[h] \in {"idle", "gone", "alloc"}

(***************************************************************************)
(* FanOutsEnd: a dispatcher comes to the end of every fan-out, whatever it *)
(* has to evict on the way.                                                *)
(***************************************************************************)
FanOutsEnd == \A d \in Dispatchers : pc[d] # "idle" ~> pc[d] = "idle"

(***************************************************************************)
(* SilentIsEvicted: as long as updates of some kind keep coming, no entry  *)
(* stays in the table stale for ever: the slot of a consumer that is gone  *)
(* is given back although the end of its connection frees nothing.         *)
(***************************************************************************)
SilentIsEvicted ==
    (\E d \in Dispatchers : []<>(pc[d] = "visit")) =>
        \A c \in Ids : ~<>[](c \in Installed /\ is_stale(c))

-----------------------------------------------------------------------------
(* The inductive invariant.                                                *)

\* Ids that a task other than the one that allocated them may know.
Published == {c \in Ids : c < next_connection_id /\ \A h \in Handlers : cid[h] # c}

Holding == {"stale", "close", "swap", "touch", "load_filter", "store_filter",
            "reload", "match", "push", "evict"}

\* The Arc in a task's hands: a published entry of the slot it works on.
TaskInv(t) ==
    /\ pc[t] \in Holding <=> ent[t] # None
    /\ ent[t] # None => ent[t] \in Published /\ slot_index[ent[t]] = idx[t]
    /\ pc[t] \in {"close", "evict"} => ent[t] \in condemned
    /\ pc[t] = "swap" => ent[t] \in closed

\* A handler's own id is known to no one else; its token names an entry of its own.
HandlerInv(h) ==
    /\ pc[h] \notin {"visit", "match", "push", "evict"}
    /\ pc[h] \in {"scan", "reload", "create", "install"} => cid[h] # None
    /\ pc[h] \in {"idle", "gone", "alloc", "lookup", "touch", "load_filter",
                  "store_filter"} => cid[h] = None
    /\ pc[h] = "lookup" \/ (ent[h] # None /\ cid[h] = None) => token[h] # None
    /\ ent[h] # None /\ cid[h] = None => ent[h] = token[h].generation
    /\ pc[h] \in {"create", "install"} => idx[h] \in Slots
    /\ pc[h] = "install" => /\ slot_index[cid[h]] = idx[h]
                            /\ filter[cid[h]] = request[h].topics
    /\ cid[h] # None => cid[h] < next_connection_id
    /\ token[h] # None =>
           /\ token[h].generation \in Published
           /\ \/ connections[token[h].slot_index] = token[h].generation
              \/ token[h].generation \in closed
           /\ slot_index[token[h].generation] = token[h].slot_index
           /\ filter[token[h].generation] = asked[h]
    /\ pc[h] = "store_filter" => loaded[h] = asked[h]

\* No two handlers share an id or a token.
Distinct ==
    \A g, h \in Handlers : g # h =>
        /\ cid[g] # None => cid[g] # cid[h]
        /\ token[g] # None /\ token[h] # None => token[g].generation # token[h].generation

\* What a fan-out is about: entries that others know and that want the update.
DispatcherInv(d) ==
    /\ pc[d] \in {"idle", "visit", "match", "push", "evict", "stale", "close", "swap"}
    /\ pc[d] # "idle" => update[d] \in Updates
    /\ pc[d] = "idle" => hit[d] = {}
    /\ due[d] \cup hit[d] \subseteq Published
    /\ \A c \in due[d] \cup hit[d] : matches(filter[c], update[d])
    /\ pc[d] = "push" => matches(filter[ent[d]], update[d])

\* How far it has come: the slots before idx are done, and past the load of a
\* slot the entry in hand is the one that was due there.
ProgressInv(d) ==
    \A c \in due[d] : connections[slot_index[c]] = c =>
        /\ slot_index[c] < idx[d] => c \in hit[d]
        /\ slot_index[c] = idx[d] /\ pc[d] # "visit" => ent[d] = c

\* An installed entry knows its slot.
TableInv ==
    \A i \in Slots : connections[i] # None =>
        connections[i] \in Published /\ slot_index[connections[i]] = i

\* What every step keeps of the entries that other tasks may know: their slot,
\* their filter or more, and that one which left the table does not come back.
Grow ==
    /\ Published \subseteq Published'
    /\ condemned \subseteq condemned' /\ closed \subseteq closed'
    /\ \A c \in Published : slot_index'[c] = slot_index[c] /\ filter[c] \subseteq filter'[c]
    /\ \A i \in Slots : connections'[i] # connections[i] =>
           \/ connections[i] = None /\ connections'[i] \notin Published \cup {None}
           \/ connections[i] \in closed /\ connections'[i] = None

Inv ==
    /\ TypeOK
    /\ condemned \subseteq Published /\ closed \subseteq condemned
    /\ TableInv
    /\ ClosedIsLeaving
    /\ Distinct
    /\ \A t \in Tasks : TaskInv(t)
    /\ \A h \in Handlers : HandlerInv(h)
    /\ \A d \in Dispatchers : DispatcherInv(d) /\ ProgressInv(d)
=============================================================================
