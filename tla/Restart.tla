------------------------------ MODULE Restart ------------------------------
(***************************************************************************)
(* What senders share through the file system: the control socket, and the *)
(* directory with the ring files (setup_sender, bind_listener, and the     *)
(* part of upsert_shm that names and creates a ring).  Senders start, also *)
(* next to each other, stop in order or die and leave their files behind,  *)
(* and a later one may be given the pid of one that is gone.               *)
(*                                                                         *)
(* The table of a sender is the subject of ConnectionManager; here a slot  *)
(* is taken and left in one step, and the ring of an entry that left lives *)
(* until the last task drops it.                                           *)
(***************************************************************************)
EXTENDS Naturals, FiniteSets, FiniteSetsExt, Functions

CONSTANTS
    Senders,            \* processes that call setup_sender
    Pids,
    Consumers,
    NSlots,             \* MAX_CONNECTION_SLOTS
    MaxId,              \* bound on the connection ids of one sender
    None

VARIABLES
    proc,               \* sender -> "off", "cleared", "up" or "dead"
    pid,                \* sender -> its pid
    socket,             \* the sender whose listener uds_path leads to, dead or not
    files,              \* ring path -> the ring in that file, for every file there is
    next_connection_id, \* sender -> the next id
    table,              \* sender -> slot -> the id of its entry
    rings,              \* sender -> the <<slot, id>> of the ShmRingProducers it holds
    con                 \* consumer -> how far setup_shm_consumer is

(* History.                                                                *)
VARIABLES
    leftover,           \* sender -> the ring files under its pid when it started
    refused             \* sender -> how many rings it could not create

vars == <<proc, pid, socket, files, next_connection_id, table, rings, con, leftover, refused>>

Slots == 0 .. NSlots - 1

\* A ring is known by its sender and connection id.
Ring(s, id) == <<s, id>>

\* Fault: the connection id is not part of the name.
RingPathOfSlot(s, i, id) == <<pid[s], i, 0>>

\* {pid}-{slot_index}-{connection_id}.
RingPath(s, i, id) == <<pid[s], i, id>>

Without(paths) == Restrict(files, DOMAIN files \ paths)

Idle == [at |-> "idle", peer |-> None, path |-> None, token |-> None, ring |-> None]

Init ==
    /\ proc = [s \in Senders |-> "off"] /\ pid = [s \in Senders |-> None]
    /\ socket = None
    /\ files = << >>
    /\ next_connection_id = [s \in Senders |-> 1]
    /\ table = [s \in Senders |-> [i \in Slots |-> None]]
    /\ rings = [s \in Senders |-> {}]
    /\ con = [c \in Consumers |-> Idle]
    /\ leftover = [s \in Senders |-> {}] /\ refused = [s \in Senders |-> 0]

-----------------------------------------------------------------------------
(* Senders.                                                                *)

Started(s, p) ==
    /\ proc[s] = "off" /\ \A t \in Senders : proc[t] \in {"cleared", "up"} => pid[t] # p
    /\ proc' = [proc EXCEPT ![s] = "cleared"]
    /\ pid' = [pid EXCEPT ![s] = p]
    /\ socket' = None
    /\ leftover' = [leftover EXCEPT ![s] = {f \in DOMAIN files : f[1] = p}]
    /\ UNCHANGED <<next_connection_id, table, rings, con, refused>>

\* Fault: the directory is emptied, as the socket is removed.
StartAfresh(s, p) == Started(s, p) /\ files' = << >>

\* bind_listener removes whatever is at uds_path.
Start(s, p) == Started(s, p) /\ UNCHANGED files

\* It binds: refused if another sender did so since, and in vain if the
\* directory cannot be created after it.
Bind(s) ==
    /\ proc[s] = "cleared"
    /\ \/ socket = None /\ socket' = s /\ proc' = [proc EXCEPT ![s] = "up"]
       \/ socket = None /\ socket' = s /\ proc' = [proc EXCEPT ![s] = "dead"]
       \/ socket # None /\ proc' = [proc EXCEPT ![s] = "dead"] /\ UNCHANGED socket
    /\ UNCHANGED <<pid, files, next_connection_id, table, rings, con, leftover, refused>>

\* The process ends: in order, when every ring is dropped, or not.
End(s) ==
    /\ proc[s] \in {"cleared", "up"}
    /\ proc' = [proc EXCEPT ![s] = "dead"]
    /\ table' = [table EXCEPT ![s] = [i \in Slots |-> None]]
    /\ rings' = [rings EXCEPT ![s] = {}]
    /\ con' = [c \in Consumers |-> IF con[c].at = "sent" /\ con[c].peer = s THEN Idle ELSE con[c]]
    /\ UNCHANGED <<pid, socket, next_connection_id, leftover, refused>>

Stop(s) == End(s) /\ files' = Without({RingPath(s, r[1], r[2]) : r \in rings[s]})

Crash(s) == End(s) /\ UNCHANGED files

\* cleanup_if_same or maybe_cleanup_stale_slot: the entry leaves the table.
Evict(s, i) ==
    /\ table[s][i] # None
    /\ table' = [table EXCEPT ![s][i] = None]
    /\ UNCHANGED <<proc, pid, socket, files, next_connection_id, rings, con, leftover, refused>>

\* The last task drops the entry: Drop for ShmRingProducer, by path.
Release(s, i, id) ==
    /\ <<i, id>> \in rings[s] /\ table[s][i] # id
    /\ rings' = [rings EXCEPT ![s] = @ \ {<<i, id>>}]
    /\ files' = Without({RingPath(s, i, id)})
    /\ UNCHANGED <<proc, pid, socket, next_connection_id, table, con, leftover, refused>>

-----------------------------------------------------------------------------
(* A consumer and the task that serves it.                                 *)

\* setup_shm_consumer connects and sends its first request.
Connect(c) ==
    /\ con[c].at = "idle" /\ socket # None /\ proc[socket] = "up"
    /\ con' = [con EXCEPT ![c].at = "sent", ![c].peer = socket]
    /\ UNCHANGED <<proc, pid, socket, files, next_connection_id, table, rings, leftover, refused>>

\* upsert_shm, once it has an id.  The connection is closed if no slot is free or
\* the eventfd cannot be made, when the new ring is dropped again; or if the file
\* is there already (create_new).
Created(s, c, id) ==
    LET free == {i \in Slots : table[s][i] = None}
        i    == Min(free)
        path == RingPath(s, i, id)
    IN  \/ /\ free # {} => path \notin DOMAIN files
           /\ con' = [con EXCEPT ![c] = Idle]
           /\ UNCHANGED <<files, table, rings, refused>>
        \/ /\ free # {} /\ path \in DOMAIN files
           /\ con' = [con EXCEPT ![c] = Idle]
           /\ refused' = [refused EXCEPT ![s] = @ + 1]
           /\ UNCHANGED <<files, table, rings>>
        \/ /\ free # {} /\ path \notin DOMAIN files
           /\ files' = [p \in DOMAIN files \cup {path} |->
                           IF p = path THEN Ring(s, id) ELSE files[p]]
           /\ table' = [table EXCEPT ![s][i] = id]
           /\ rings' = [rings EXCEPT ![s] = @ \cup {<<i, id>>}]
           /\ con' = [con EXCEPT ![c].at = "told", ![c].path = path, ![c].token = id]
           /\ UNCHANGED refused

Serving(s, c) ==
    /\ con[c].at = "sent" /\ con[c].peer = s /\ next_connection_id[s] <= MaxId
    /\ UNCHANGED <<proc, pid, socket, leftover>>

\* Fault: the id is used up only when a slot is provided.
ProvideThenCount(s, c) ==
    /\ Serving(s, c)
    /\ Created(s, c, next_connection_id[s])
    /\ next_connection_id' = [next_connection_id EXCEPT ![s] = IF con'[c].at = "told" THEN @ + 1 ELSE @]

\* fetch_add comes first, so that a request that fails uses up its id.  A ring
\* whose slot was taken by another request in the meantime is unlinked and made
\* again for the next free slot, with the same id; that is part of this step.
Provide(s, c) ==
    /\ Serving(s, c)
    /\ Created(s, c, next_connection_id[s])
    /\ next_connection_id' = [next_connection_id EXCEPT ![s] = @ + 1]

\* ShmRingConsumer::open, of whatever has that name by now.
Open(c) ==
    /\ con[c].at = "told"
    /\ con' = [con EXCEPT ![c] = IF con[c].path \in DOMAIN files
                                 THEN [con[c] EXCEPT !.at = "open", !.ring = files[con[c].path]]
                                 ELSE Idle]
    /\ UNCHANGED <<proc, pid, socket, files, next_connection_id, table, rings, leftover, refused>>

\* The consumer is dropped, and the application sets up another.  (Its task serves
\* a request that was sent also when nobody waits for the reply.)
Quit(c) ==
    /\ con[c].at \in {"told", "open"}
    /\ con' = [con EXCEPT ![c] = Idle]
    /\ UNCHANGED <<proc, pid, socket, files, next_connection_id, table, rings, leftover, refused>>

-----------------------------------------------------------------------------
Next ==
    \/ \E s \in Senders :
          \/ \E p \in Pids : Start(s, p)
          \/ Bind(s) \/ Stop(s) \/ Crash(s)
          \/ \E i \in Slots : Evict(s, i) \/ \E id \in 1 .. MaxId : Release(s, i, id)
          \/ \E c \in Consumers : Provide(s, c)
    \/ \E c \in Consumers : Connect(c) \/ Open(c) \/ Quit(c)

Spec == Init /\ [][Next]_vars

-----------------------------------------------------------------------------
(* While its sender runs, a consumer that opens the path it was told opens *)
(* the ring made for it or none: not that of the next owner of the slot,   *)
(* of another sender, or of a dead one (upsert_shm, ShmRingConsumer::open).*)
OpensOwnRing ==
    [][\A c \in Consumers :
          con[c].at = "told" /\ con'[c].at = "open" /\ proc[con[c].peer] = "up" =>
             con'[c].ring = Ring(con[c].peer, con[c].token)]_vars

(* A file that a dead sender with the same pid left behind fails at most   *)
(* one request: the failed request has used up its id, and the sender      *)
(* never comes back to that name (ShmRingProducer::create, create_new).    *)
LeftoverBlocksOnce == \A s \in Senders : refused[s] <= Cardinality(leftover[s])

(* The files of a running sender are those of the rings it holds, each in  *)
(* place as long as the ring is held, whichever senders start, stop or die *)
(* around it: is_closed takes a missing file for the end of the ring.      *)
RingsHaveTheirFiles ==
    \A s \in Senders : proc[s] = "up" =>
       {f \in DOMAIN files : files[f][1] = s} = {RingPath(s, r[1], r[2]) : r \in rings[s]}
=============================================================================
