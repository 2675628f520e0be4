--------------------------- MODULE Restart_proofs ---------------------------
(***************************************************************************)
(* Senders that share a directory, for any number of senders, pids,        *)
(* consumers, slots and connections: whose files are whose, what a dead    *)
(* sender's files can do to a later one, and which ring a consumer opens.  *)
(***************************************************************************)
EXTENDS Restart, FiniteSetTheorems, WellFoundedInduction, TLAPS

-----------------------------------------------------------------------------
(* The inductive invariant.                                                *)

Paths == Pids \X Slots \X Nat
Rings == Senders \X Nat

Types ==
    /\ proc \in [Senders -> {"off", "cleared", "up", "dead"}]
    /\ pid \in [Senders -> Pids \cup {None}]
    /\ socket \in Senders \cup {None}
    /\ files \in [DOMAIN files -> Rings] /\ DOMAIN files \in SUBSET Paths
    /\ IsFiniteSet(DOMAIN files)
    /\ next_connection_id \in [Senders -> Nat]
    /\ table \in [Senders -> [Slots -> Nat \cup {None}]]
    /\ rings \in [Senders -> SUBSET (Slots \X Nat)]
    /\ con \in [Consumers -> [at : {"idle", "sent", "told", "open"}, peer : Senders \cup {None},
                              path : Paths \cup {None}, token : Nat \cup {None},
                              ring : Rings \cup {None}]]
    /\ leftover \in [Senders -> SUBSET Paths] /\ \A s \in Senders : IsFiniteSet(leftover[s])
    /\ refused \in [Senders -> Nat]

Active(s) == proc[s] \in {"cleared", "up"}
Owned(s) == {f \in DOMAIN files : files[f][1] = s}

\* A process has a pid, which no other has at the time.
PidInv ==
    /\ \A s \in Senders : Active(s) => pid[s] \in Pids
    /\ \A s, t \in Senders : Active(s) /\ Active(t) /\ pid[s] = pid[t] => s = t

\* The rings a sender holds are made by it, under the ids it has used.
RingsInv ==
    \A s \in Senders :
        /\ proc[s] # "up" => rings[s] = {}
        /\ proc[s] # "dead" => Owned(s) = {RingPath(s, r[1], r[2]) : r \in rings[s]}
        /\ \A r \in rings[s] : r[2] < next_connection_id[s]

\* A file says which id its ring has; under the pid of a process there are its
\* own files and those it found.
FilesInv ==
    /\ \A f \in DOMAIN files : files[f][2] = f[3]
    /\ \A s \in Senders : Active(s) =>
          \A f \in DOMAIN files : f[1] = pid[s] => f \in leftover[s] \/ files[f][1] = s

\* A request that was sent is served by a process that runs; the path that a
\* consumer was told is under an id that is used up.
ConsumerInv ==
    \A c \in Consumers :
        /\ con[c].at = "sent" => con[c].peer \in Senders /\ proc[con[c].peer] = "up"
        /\ con[c].at = "told" =>
              /\ con[c].peer \in Senders /\ proc[con[c].peer] \in {"up", "dead"}
              /\ con[c].path \in Paths /\ con[c].token \in Nat
              /\ con[c].path[1] = pid[con[c].peer] /\ con[c].path[3] = con[c].token
              /\ con[c].token < next_connection_id[con[c].peer]
              /\ proc[con[c].peer] = "up" /\ con[c].path \in DOMAIN files =>
                    files[con[c].path] = Ring(con[c].peer, con[c].token)

\* The files it found whose ids are used up: each refused at most one request.
Met(s) == {f \in leftover[s] : f[3] < next_connection_id[s]}
RefusedInv ==
    \A s \in Senders :
        /\ proc[s] = "off" => refused[s] = 0
        /\ refused[s] <= Cardinality(Met(s))

Inv == Types /\ PidInv /\ RingsInv /\ FilesInv /\ ConsumerInv /\ RefusedInv

-----------------------------------------------------------------------------
(* Facts about finite sets of slots and of files.                          *)

\* The naturals are well ordered.
Before == {ss \in Nat \X Nat : ss[1] < ss[2]}

LEMMA BeforeIsWellFounded == IsWellFoundedOn(Before, Nat)
<1>1. OpToRel(<, Nat) = Before
  BY Zenon DEF OpToRel, Before
<1>2. QED
  BY <1>1, NatLessThanWellFounded, Zenon

\* find_free_slot finds one if there is one.
LEMMA MinIsIn ==
    ASSUME NEW S, S \subseteq Nat, S # {}
    PROVE  Min(S) \in S
<1>1. PICK x \in S : \A y \in S : ~ (<<y, x>> \in Before)
  BY BeforeIsWellFounded, WFMin, Zenon
<1>2. ASSUME NEW y \in S
      PROVE  x <= y
  <2>1. x \in Nat /\ y \in Nat /\ ~ (<<y, x>> \in Before)
    BY <1>1, Zenon
  <2>2. ~ (y < x)
    BY <2>1, Zenon DEF Before
  <2>3. QED
    BY <2>1, <2>2
<1>3. QED
  BY <1>2, Zenon DEF Min

LEMMA SlotsAreNaturals == Slots \subseteq Nat
BY DEF Slots

\* A path is known by its parts.
LEMMA PathParts ==
    ASSUME NEW s, NEW i, NEW id
    PROVE  /\ RingPath(s, i, id)[1] = pid[s] /\ RingPath(s, i, id)[2] = i
           /\ RingPath(s, i, id)[3] = id
BY Zenon DEF RingPath

LEMMA InitInv == Init => Inv
<1> SUFFICES ASSUME Init PROVE Inv
  BY Zenon
<1>1. DOMAIN files = {} /\ files \in [DOMAIN files -> Rings] /\ IsFiniteSet({})
  BY FS_EmptySet DEF Init
<1>2. con \in [Consumers -> [at : {"idle", "sent", "told", "open"}, peer : Senders \cup {None},
                             path : Paths \cup {None}, token : Nat \cup {None},
                             ring : Rings \cup {None}]]
  BY Zenon DEF Init, Idle
<1>3. Types
  BY <1>1, <1>2, Zenon DEF Init, Types
<1>4. PidInv /\ RingsInv /\ FilesInv /\ ConsumerInv
  BY <1>1, Zenon DEF Init, PidInv, RingsInv, FilesInv, ConsumerInv, Active, Owned, Idle
<1>5. RefusedInv
  <2>1. ASSUME NEW s \in Senders
        PROVE  refused[s] = 0 /\ refused[s] <= Cardinality(Met(s))
    <3>1. refused[s] = 0 /\ Met(s) = {}
      BY Zenon DEF Init, Met
    <3>2. QED
      BY <3>1, FS_EmptySet
  <2>2. QED
    BY <2>1, Zenon DEF RefusedInv
<1>6. QED
  BY <1>3, <1>4, <1>5, Zenon DEF Inv

-----------------------------------------------------------------------------
(* The steps of senders.                                                   *)

\* A sender starts, under a pid no process has.
LEMMA StartKeeps ==
    ASSUME Inv, NEW s \in Senders, NEW p \in Pids, Start(s, p)
    PROVE  Inv'
<1> DEFINE found == {f \in DOMAIN files : f[1] = p}
<1>1. /\ proc[s] = "off" /\ \A t \in Senders : Active(t) => pid[t] # p
      /\ proc' = [proc EXCEPT ![s] = "cleared"] /\ pid' = [pid EXCEPT ![s] = p]
      /\ socket' = None /\ leftover' = [leftover EXCEPT ![s] = found]
      /\ UNCHANGED <<files, next_connection_id, table, rings, con, refused>>
  BY Zenon DEF Start, Started, Active
<1>2. found \in SUBSET Paths /\ IsFiniteSet(found)
  BY FS_Subset, Zenon DEF Inv, Types
<1> HIDE DEF found
<1>3. Types'
  BY <1>1, <1>2, Zenon DEF Inv, Types
<1>4. PidInv'
  BY <1>1, Zenon DEF Inv, Types, PidInv, Active
<1>5. RingsInv'
  BY <1>1 DEF Inv, Types, RingsInv, Owned, RingPath
<1>6. FilesInv'
  BY <1>1, Zenon DEF Inv, Types, FilesInv, Active, found
<1>7. ConsumerInv'
  BY <1>1, Zenon DEF Inv, Types, ConsumerInv
<1>8. RefusedInv'
  <2>1. ASSUME NEW t \in Senders, t # s
        PROVE  refused'[t] <= Cardinality(Met(t)') /\ proc'[t] = proc[t]
    BY <1>1, <2>1, Zenon DEF Inv, Types, RefusedInv, Met
  <2>2. refused'[s] <= Cardinality(Met(s)') /\ proc'[s] # "off"
    <3>1. Met(s)' \in SUBSET found
      BY <1>1, Zenon DEF Inv, Types, Met
    <3>2. Cardinality(Met(s)') \in Nat
      BY <1>2, <3>1, FS_Subset, FS_CardinalityType, Zenon
    <3>3. QED
      BY <1>1, <3>2 DEF Inv, Types, RefusedInv
  <2>3. QED
    BY <1>1, <2>1, <2>2, Zenon DEF Inv, RefusedInv
<1>9. QED
  BY <1>3, <1>4, <1>5, <1>6, <1>7, <1>8, Zenon DEF Inv

\* It binds its socket, or gives up.
LEMMA BindKeeps ==
    ASSUME Inv, NEW s \in Senders, Bind(s)
    PROVE  Inv'
<1>1. /\ proc[s] = "cleared" /\ socket' \in Senders \cup {None}
      /\ proc' = [proc EXCEPT ![s] = "up"] \/ proc' = [proc EXCEPT ![s] = "dead"]
      /\ UNCHANGED <<pid, files, next_connection_id, table, rings, con, leftover, refused>>
  BY Zenon DEF Bind, Inv, Types
<1>2. Types'
  BY <1>1, Zenon DEF Inv, Types
<1>3. PidInv' /\ FilesInv'
  <2>1. \A t \in Senders : Active(t)' => Active(t)
    BY <1>1, Zenon DEF Inv, Types, Active
  <2>2. PidInv'
    BY <1>1, <2>1, Zenon DEF Inv, PidInv
  <2>3. FilesInv'
    BY <1>1, <2>1, Zenon DEF Inv, FilesInv
  <2>4. QED
    BY <2>2, <2>3, Zenon
<1>4. RingsInv'
  BY <1>1 DEF Inv, Types, RingsInv, Owned, RingPath
<1>5. ConsumerInv'
  BY <1>1, ZenonT(30) DEF Inv, Types, ConsumerInv
<1>6. RefusedInv'
  BY <1>1, Zenon DEF Inv, Types, RefusedInv, Met
<1>7. QED
  BY <1>2, <1>3, <1>4, <1>5, <1>6, Zenon DEF Inv

\* Taking files away leaves the others as they are.
LEMMA WithoutFiles ==
    ASSUME Types, NEW gone, files' = Without(gone)
    PROVE  /\ DOMAIN files' = DOMAIN files \ gone
           /\ \A f \in DOMAIN files' : files'[f] = files[f]
           /\ files' \in [DOMAIN files' -> Rings] /\ DOMAIN files' \in SUBSET Paths
           /\ IsFiniteSet(DOMAIN files')
<1>1. /\ DOMAIN files' = DOMAIN files \ gone
      /\ \A f \in DOMAIN files' : files'[f] = files[f]
      /\ files' \in [DOMAIN files' -> Rings] /\ DOMAIN files' \in SUBSET Paths
  BY Zenon DEF Without, Restrict, Types
<1>2. IsFiniteSet(DOMAIN files')
  <2>1. IsFiniteSet(DOMAIN files)
    BY Zenon DEF Types
  <2>2. QED
    BY <1>1, <2>1, FS_Subset, Zenon
<1>3. QED
  BY <1>1, <1>2, Zenon

\* The process ends, with the files of the rings it held or without.
LEMMA EndKeeps ==
    ASSUME Inv, NEW s \in Senders, Stop(s) \/ Crash(s)
    PROVE  Inv'
<1> DEFINE gone == IF Stop(s) THEN {RingPath(s, r[1], r[2]) : r \in rings[s]} ELSE {}
<1>1. /\ proc[s] \in {"cleared", "up"} /\ proc' = [proc EXCEPT ![s] = "dead"]
      /\ table' = [table EXCEPT ![s] = [i \in Slots |-> None]]
      /\ rings' = [rings EXCEPT ![s] = {}]
      /\ con' = [c \in Consumers |-> IF con[c].at = "sent" /\ con[c].peer = s THEN Idle ELSE con[c]]
      /\ UNCHANGED <<pid, socket, next_connection_id, leftover, refused>>
  BY Zenon DEF Stop, Crash, End
<1>2. gone \subseteq Owned(s)
  BY <1>1, Zenon DEF Inv, RingsInv
<1>3. /\ DOMAIN files' = DOMAIN files \ gone
      /\ \A f \in DOMAIN files' : files'[f] = files[f]
      /\ files' \in [DOMAIN files' -> Rings] /\ DOMAIN files' \in SUBSET Paths
      /\ IsFiniteSet(DOMAIN files')
  <2>1. CASE Stop(s)
    BY <2>1, WithoutFiles, Zenon DEF Stop, Inv
  <2>2. CASE ~Stop(s)
    BY <2>2, Zenon DEF Crash, Inv, Types
  <2>3. QED
    BY <2>1, <2>2, Zenon
<1> HIDE DEF gone
<1>4. Types'
  <2>1. con' \in [Consumers -> [at : {"idle", "sent", "told", "open"}, peer : Senders \cup {None},
                                path : Paths \cup {None}, token : Nat \cup {None},
                                ring : Rings \cup {None}]]
    BY <1>1, Zenon DEF Inv, Types, Idle
  <2>2. QED
    BY <1>1, <1>3, <2>1, Zenon DEF Inv, Types
<1>5. PidInv'
  BY <1>1, Zenon DEF Inv, Types, PidInv, Active
<1>6. RingsInv'
  <2>1. \A t \in Senders : t # s => Owned(t)' = Owned(t)
    BY <1>2, <1>3, ZenonT(30) DEF Owned
  <2>2. QED
    BY <1>1, <2>1 DEF Inv, Types, RingsInv, RingPath
<1>7. FilesInv'
  BY <1>1, <1>3, SMTT(30) DEF Inv, Types, FilesInv, Active
<1>8. ConsumerInv'
  <2>1. ASSUME NEW c \in Consumers
        PROVE  \/ con'[c] = con[c] /\ ~(con[c].at = "sent" /\ con[c].peer = s)
               \/ con'[c].at = "idle"
    BY <1>1, Zenon DEF Idle
  <2>2. QED
    BY <1>1, <1>3, <2>1, SMTT(30) DEF Inv, Types, ConsumerInv
<1>9. RefusedInv'
  BY <1>1, Zenon DEF Inv, Types, RefusedInv, Met
<1>10. QED
  BY <1>4, <1>5, <1>6, <1>7, <1>8, <1>9, Zenon DEF Inv

\* An entry leaves the table.
LEMMA EvictKeeps ==
    ASSUME Inv, NEW s \in Senders, NEW i \in Slots, Evict(s, i)
    PROVE  Inv'
<1>1. /\ table' = [table EXCEPT ![s][i] = None]
      /\ UNCHANGED <<proc, pid, socket, files, next_connection_id, rings, con, leftover, refused>>
  BY Zenon DEF Evict
<1>2. Types'
  BY <1>1, Zenon DEF Inv, Types
<1>3. PidInv' /\ FilesInv' /\ ConsumerInv'
  BY <1>1, Zenon DEF Inv, PidInv, FilesInv, ConsumerInv, Active
<1>4. RingsInv' /\ RefusedInv'
  BY <1>1 DEF Inv, RingsInv, Owned, RingPath, RefusedInv, Met
<1>5. QED
  BY <1>2, <1>3, <1>4, Zenon DEF Inv

\* A ring is dropped, and its file with it.
LEMMA ReleaseKeeps ==
    ASSUME Inv, NEW s \in Senders, NEW i \in Slots, NEW id \in 1 .. MaxId, Release(s, i, id)
    PROVE  Inv'
<1> DEFINE path == RingPath(s, i, id)
<1>1. /\ <<i, id>> \in rings[s] /\ rings' = [rings EXCEPT ![s] = @ \ {<<i, id>>}]
      /\ files' = Without({path})
      /\ UNCHANGED <<proc, pid, socket, next_connection_id, table, con, leftover, refused>>
  BY Zenon DEF Release
<1>2. proc[s] = "up" /\ path \in Owned(s)
  <2>1. proc[s] = "up"
    BY <1>1, Zenon DEF Inv, RingsInv
  <2>2. path = RingPath(s, <<i, id>>[1], <<i, id>>[2])
    BY Zenon
  <2>3. QED
    BY <1>1, <2>1, <2>2, Zenon DEF Inv, RingsInv
<1>3. /\ DOMAIN files' = DOMAIN files \ {path}
      /\ \A f \in DOMAIN files' : files'[f] = files[f]
      /\ files' \in [DOMAIN files' -> Rings] /\ DOMAIN files' \in SUBSET Paths
      /\ IsFiniteSet(DOMAIN files')
  BY <1>1, WithoutFiles, Zenon DEF Inv
<1>4. Types'
  BY <1>1, <1>3, Zenon DEF Inv, Types
<1> HIDE DEF path
<1>5. PidInv' /\ FilesInv' /\ ConsumerInv'
  <2>1. PidInv' /\ FilesInv'
    BY <1>1, <1>3, ZenonT(30) DEF Inv, PidInv, FilesInv, Active
  <2>2. ConsumerInv'
    BY <1>1, <1>3, Zenon DEF Inv, ConsumerInv
  <2>3. QED
    BY <2>1, <2>2, Zenon
<1>6. RingsInv'
  <2>1. \A t \in Senders : t # s => Owned(t)' = Owned(t)
    BY <1>2, <1>3 DEF Owned
  <2>2. Owned(s)' = Owned(s) \ {path}
    BY <1>3, Zenon DEF Owned
  <2>3. \A r \in rings[s] : RingPath(s, r[1], r[2]) = path => r = <<i, id>>
    BY DEF Inv, Types, RingPath, path
  <2>4. Owned(s)' = {RingPath(s, r[1], r[2]) : r \in rings[s] \ {<<i, id>>}}
    BY <1>2, <2>2, <2>3 DEF Inv, RingsInv
  <2>5. QED
    BY <1>1, <2>1, <2>4 DEF Inv, Types, RingsInv, RingPath
<1>7. RefusedInv'
  BY <1>1, Zenon DEF Inv, RefusedInv, Met
<1>8. QED
  BY <1>4, <1>5, <1>6, <1>7, Zenon DEF Inv

-----------------------------------------------------------------------------
(* The steps of consumers and of the task that serves one.                 *)

\* A file in the way of a new ring was there when the sender started.
LEMMA InTheWayIsLeftover ==
    ASSUME Inv, NEW s \in Senders, proc[s] = "up", NEW i \in Slots,
           RingPath(s, i, next_connection_id[s]) \in DOMAIN files
    PROVE  RingPath(s, i, next_connection_id[s]) \in leftover[s]
<1> DEFINE path == RingPath(s, i, next_connection_id[s])
<1>1. path[1] = pid[s] /\ path[3] = next_connection_id[s]
  BY Zenon DEF RingPath
<1>2. path \in leftover[s] \/ path \in Owned(s)
  BY <1>1, Zenon DEF Inv, FilesInv, Active, Owned
<1>3. ASSUME path \in Owned(s)
      PROVE  FALSE
  <2>1. PICK r \in rings[s] : path = RingPath(s, r[1], r[2])
    BY <1>3 DEF Inv, RingsInv
  <2>2. r[2] = next_connection_id[s] /\ r[2] < next_connection_id[s]
    BY <1>1, <2>1, Zenon DEF Inv, RingsInv, RingPath
  <2>3. next_connection_id[s] \in Nat
    BY Zenon DEF Inv, Types
  <2>4. QED
    BY <2>2, <2>3
<1>4. QED
  BY <1>2, <1>3, Zenon

\* An id is used up: what was met stays so, and what is in the way of it is added.
LEMMA MetGrows ==
    ASSUME Inv, NEW s \in Senders,
           next_connection_id' = [next_connection_id EXCEPT ![s] = @ + 1], leftover' = leftover
    PROVE  /\ \A t \in Senders : Cardinality(Met(t)) <= Cardinality(Met(t)')
           /\ \A f \in leftover[s] : f[3] = next_connection_id[s] =>
                 Cardinality(Met(s)) + 1 <= Cardinality(Met(s)')
<1>1. ASSUME NEW t \in Senders
      PROVE  /\ Met(t) \subseteq Met(t)' /\ Met(t)' \subseteq leftover[t]
             /\ IsFiniteSet(leftover[t])
  <2>1. next_connection_id[t] \in Nat /\ next_connection_id'[t] \in Nat
        /\ next_connection_id[t] <= next_connection_id'[t] /\ leftover[t] \in SUBSET Paths
        /\ leftover'[t] = leftover[t] /\ IsFiniteSet(leftover[t])
    BY DEF Inv, Types
  <2>2. \A f \in leftover[t] : f[3] \in Nat
    BY <2>1, Zenon DEF Paths
  <2>3. QED
    BY <2>1, <2>2 DEF Met
<1>2. \A t \in Senders : IsFiniteSet(Met(t)) /\ IsFiniteSet(Met(t)')
  BY <1>1, FS_Subset, Zenon
<1>3. \A t \in Senders : Cardinality(Met(t)) <= Cardinality(Met(t)')
  BY <1>1, <1>2, FS_Subset, Zenon
<1>4. ASSUME NEW f \in leftover[s], f[3] = next_connection_id[s]
      PROVE  Cardinality(Met(s)) + 1 <= Cardinality(Met(s)')
  <2>1. next_connection_id[s] \in Nat /\ next_connection_id'[s] = next_connection_id[s] + 1
        /\ leftover'[s] = leftover[s]
    BY Zenon DEF Inv, Types
  <2>2. f \notin Met(s) /\ f \in Met(s)'
    BY <1>4, <2>1 DEF Met
  <2>3. Met(s) \cup {f} \subseteq Met(s)'
    BY <1>1, <2>2, Zenon
  <2>4. IsFiniteSet(Met(s) \cup {f}) /\ Cardinality(Met(s) \cup {f}) = Cardinality(Met(s)) + 1
    BY <1>2, <2>2, FS_AddElement, SMTT(30)
  <2>5. Cardinality(Met(s) \cup {f}) <= Cardinality(Met(s)')
    BY <1>2, <2>3, FS_Subset, Zenon
  <2>6. QED
    BY <2>4, <2>5, Zenon
<1>5. QED
  BY <1>3, <1>4, Zenon

\* A request fails: its id is used up, and nothing else changes.
LEMMA FailedKeeps ==
    ASSUME Inv, NEW s \in Senders, NEW c \in Consumers,
           next_connection_id' = [next_connection_id EXCEPT ![s] = @ + 1],
           con' = [con EXCEPT ![c] = Idle],
           UNCHANGED <<proc, pid, socket, leftover, files, table, rings>>,
           refused' \in [Senders -> Nat], RefusedInv'
    PROVE  Inv'
<1>1. Idle \in [at : {"idle", "sent", "told", "open"}, peer : Senders \cup {None},
                path : Paths \cup {None}, token : Nat \cup {None}, ring : Rings \cup {None}]
  BY Zenon DEF Idle
<1>2. Types'
  <2>1. con' \in [Consumers -> [at : {"idle", "sent", "told", "open"}, peer : Senders \cup {None},
                                path : Paths \cup {None}, token : Nat \cup {None},
                                ring : Rings \cup {None}]]
    BY <1>1, Zenon DEF Inv, Types
  <2>2. next_connection_id' \in [Senders -> Nat]
    BY DEF Inv, Types
  <2>3. QED
    BY <2>1, <2>2, Zenon DEF Inv, Types
<1>3. PidInv' /\ FilesInv'
  BY Zenon DEF Inv, PidInv, FilesInv, Active
<1>4. \A t \in Senders : /\ next_connection_id[t] \in Nat /\ next_connection_id'[t] \in Nat
                         /\ next_connection_id[t] <= next_connection_id'[t]
  BY DEF Inv, Types
<1>5. RingsInv'
  <2>1. \A t \in Senders : Owned(t)' = Owned(t) /\ rings'[t] = rings[t] /\ proc'[t] = proc[t]
    BY Zenon DEF Owned
  <2>2. ASSUME NEW t \in Senders, NEW r \in rings[t]
        PROVE  r[2] < next_connection_id'[t]
    <3>1. r[2] \in Nat /\ r[2] < next_connection_id[t]
      BY DEF Inv, Types, RingsInv
    <3>2. QED
      BY <1>4, <3>1
  <2>3. QED
    BY <2>1, <2>2 DEF Inv, RingsInv, RingPath
<1>6. ConsumerInv'
  <2>1. \A d \in Consumers : (d # c /\ con'[d] = con[d]) \/ con'[d].at = "idle"
    BY Zenon DEF Inv, Types, Idle
  <2>2. \A d \in Consumers : con[d].at = "told" => con[d].token < next_connection_id'[con[d].peer]
    BY <1>4 DEF Inv, ConsumerInv
  <2>3. QED
    BY <2>1, <2>2 DEF Inv, ConsumerInv
<1>7. QED
  BY <1>2, <1>3, <1>5, <1>6, Zenon DEF Inv

\* A ring is made in slot i and the consumer is told its path.
Made(s, c, i, id, path) ==
    /\ path \notin DOMAIN files
    /\ files' = [p \in DOMAIN files \cup {path} |-> IF p = path THEN Ring(s, id) ELSE files[p]]
    /\ table' = [table EXCEPT ![s][i] = id]
    /\ rings' = [rings EXCEPT ![s] = @ \cup {<<i, id>>}]
    /\ con' = [con EXCEPT ![c].at = "told", ![c].path = path, ![c].token = id]
    /\ next_connection_id' = [next_connection_id EXCEPT ![s] = @ + 1]
    /\ UNCHANGED <<proc, pid, socket, leftover, refused>>

LEMMA MadeKeeps ==
    ASSUME Inv, NEW s \in Senders, NEW c \in Consumers, NEW i \in Slots, NEW id, NEW path,
           id = next_connection_id[s], path = RingPath(s, i, id),
           con[c].at = "sent", con[c].peer = s, Made(s, c, i, id, path), RefusedInv'
    PROVE  Inv'
<1> USE DEF Made
<1>1. /\ id \in Nat /\ proc[s] = "up" /\ pid[s] \in Pids
      /\ path = <<pid[s], i, id>> /\ path \in Paths /\ Ring(s, id) \in Rings
  <2>1. id \in Nat /\ proc[s] = "up" /\ pid[s] \in Pids
    BY Zenon DEF Inv, Types, ConsumerInv, PidInv, Active
  <2>2. QED
    BY <2>1, Zenon DEF RingPath, Ring, Paths, Rings
<1>2. /\ DOMAIN files' = DOMAIN files \cup {path}
      /\ \A f \in DOMAIN files : files'[f] = files[f]
      /\ files'[path] = Ring(s, id)
  BY Zenon
<1>3. Types'
  <2>1. files' \in [DOMAIN files' -> Rings] /\ DOMAIN files' \in SUBSET Paths
    BY <1>1, <1>2, Zenon DEF Inv, Types
  <2>2. IsFiniteSet(DOMAIN files')
    BY <1>2, FS_AddElement, Zenon DEF Inv, Types
  <2>3. con' \in [Consumers -> [at : {"idle", "sent", "told", "open"}, peer : Senders \cup {None},
                                path : Paths \cup {None}, token : Nat \cup {None},
                                ring : Rings \cup {None}]]
    <3>1. con[c] \in [at : {"idle", "sent", "told", "open"}, peer : Senders \cup {None},
                      path : Paths \cup {None}, token : Nat \cup {None}, ring : Rings \cup {None}]
      BY Zenon DEF Inv, Types
    <3>2. [con[c] EXCEPT !.at = "told", !.path = path, !.token = id] \in
              [at : {"idle", "sent", "told", "open"}, peer : Senders \cup {None},
               path : Paths \cup {None}, token : Nat \cup {None}, ring : Rings \cup {None}]
      BY <1>1, <3>1, Zenon
    <3>3. con' = [con EXCEPT ![c] = [con[c] EXCEPT !.at = "told", !.path = path, !.token = id]]
      BY Zenon DEF Inv, Types
    <3>4. QED
      BY <3>2, <3>3 DEF Inv, Types
  <2>4. next_connection_id' \in [Senders -> Nat] /\ rings' \in [Senders -> SUBSET (Slots \X Nat)]
    BY <1>1 DEF Inv, Types
  <2>5. table' \in [Senders -> [Slots -> Nat \cup {None}]]
    <3>1. table[s] \in [Slots -> Nat \cup {None}] /\ table \in [Senders -> [Slots -> Nat \cup {None}]]
      BY Zenon DEF Inv, Types
    <3>2. [table[s] EXCEPT ![i] = id] \in [Slots -> Nat \cup {None}]
      BY <1>1, <3>1, Zenon
    <3>3. table' = [table EXCEPT ![s] = [table[s] EXCEPT ![i] = id]]
      BY Zenon
    <3>4. QED
      BY <3>1, <3>2, <3>3, Zenon
  <2>6. QED
    BY <2>1, <2>2, <2>3, <2>4, <2>5, Zenon DEF Inv, Types
<1>4. PidInv'
  BY Zenon DEF Inv, PidInv, Active
<1>5. \A t \in Senders : /\ next_connection_id[t] \in Nat /\ next_connection_id'[t] \in Nat
                         /\ next_connection_id[t] <= next_connection_id'[t]
      /\ id < next_connection_id'[s]
  BY DEF Inv, Types
<1>6. RingsInv'
  <2>1. \A t \in Senders : Owned(t)' = IF t = s THEN Owned(t) \cup {path} ELSE Owned(t)
    BY <1>2, Zenon DEF Owned, Ring
  <2>2. \A t \in Senders : rings'[t] = IF t = s THEN rings[t] \cup {<<i, id>>} ELSE rings[t]
    BY Zenon DEF Inv, Types
  <2>3. ASSUME NEW t \in Senders, NEW r \in rings'[t]
        PROVE  r[2] < next_connection_id'[t]
    <3>1. CASE r \in rings[t]
      <4>1. r[2] \in Nat /\ r[2] < next_connection_id[t]
        BY <3>1 DEF Inv, Types, RingsInv
      <4>2. QED
        BY <1>5, <4>1
    <3>2. CASE r \notin rings[t]
      BY <1>5, <2>2, <2>3, <3>2
    <3>3. QED
      BY <3>1, <3>2, Zenon
  <2>4. Owned(s)' = {RingPath(s, r[1], r[2]) : r \in rings'[s]}
    <3>1. Owned(s) = {RingPath(s, r[1], r[2]) : r \in rings[s]}
      BY <1>1, Zenon DEF Inv, RingsInv
    <3>2. path = RingPath(s, <<i, id>>[1], <<i, id>>[2])
      BY Zenon
    <3>3. Owned(s)' = Owned(s) \cup {path} /\ rings'[s] = rings[s] \cup {<<i, id>>}
      BY <2>1, <2>2, Zenon
    <3>4. \A r \in rings'[s] : RingPath(s, r[1], r[2]) \in Owned(s)'
      BY <3>1, <3>2, <3>3, Zenon
    <3>5. ASSUME NEW f \in Owned(s)'
          PROVE  \E r \in rings'[s] : f = RingPath(s, r[1], r[2])
      BY <3>1, <3>2, <3>3, Zenon
    <3>6. QED
      BY <3>4, <3>5, ZenonT(30)
  <2>5. QED
    BY <1>1, <2>1, <2>2, <2>3, <2>4 DEF Inv, RingsInv, RingPath
<1>7. FilesInv'
  <2>1. path[3] = id /\ path[1] = pid[s] /\ Ring(s, id)[1] = s /\ Ring(s, id)[2] = id
    BY <1>1 DEF Ring
  <2>2. \A t \in Senders : Active(t) /\ pid[t] = pid[s] => t = s
    BY <1>1, Zenon DEF Inv, PidInv, Active
  <2>3. QED
    BY <1>2, <2>1, <2>2 DEF Inv, FilesInv, Active
<1>8. ConsumerInv'
  <2>1. /\ con'[c].at = "told" /\ con'[c].peer = s /\ con'[c].path = path /\ con'[c].token = id
        /\ \A d \in Consumers \ {c} : con'[d] = con[d]
    BY ZenonT(30) DEF Inv, Types
  <2>2. path[1] = pid[s] /\ path[3] = id
    BY <1>1
  <2>3. ASSUME NEW d \in Consumers, d # c, con[d].at = "told"
        PROVE  /\ con[d].token < next_connection_id'[con[d].peer]
               /\ proc[con[d].peer] = "up" => con[d].path # path
    <3>1. /\ con[d].token \in Nat /\ con[d].peer \in Senders
          /\ con[d].token < next_connection_id[con[d].peer]
          /\ con[d].path[1] = pid[con[d].peer] /\ con[d].path[3] = con[d].token
      BY <2>3, Zenon DEF Inv, ConsumerInv
    <3>2. con[d].token < next_connection_id'[con[d].peer]
      BY <1>5, <3>1
    <3>3. ASSUME proc[con[d].peer] = "up", con[d].path = path
          PROVE  FALSE
      <4>1. con[d].peer = s
        BY <1>1, <2>2, <3>1, <3>3, SMTT(30) DEF Inv, PidInv, Active
      <4>2. QED
        BY <1>1, <2>2, <3>1, <3>3, <4>1
    <3>4. QED
      BY <3>2, <3>3, Zenon
  <2>4. ASSUME NEW d \in Consumers, d # c
        PROVE  /\ con[d].at = "sent" => con[d].peer \in Senders /\ proc[con[d].peer] = "up"
               /\ con[d].at = "told" =>
                     /\ con[d].peer \in Senders /\ proc[con[d].peer] \in {"up", "dead"}
                     /\ con[d].path \in Paths /\ con[d].token \in Nat
                     /\ con[d].path[1] = pid[con[d].peer] /\ con[d].path[3] = con[d].token
                     /\ con[d].token < next_connection_id'[con[d].peer]
                     /\ proc[con[d].peer] = "up" /\ con[d].path \in DOMAIN files' =>
                           files'[con[d].path] = Ring(con[d].peer, con[d].token)
    BY <1>2, <2>3, <2>4, Zenon DEF Inv, ConsumerInv
  <2>5. /\ proc[s] = "up" /\ id \in Nat /\ path \in Paths /\ id < next_connection_id'[s]
        /\ files'[path] = Ring(s, id) /\ proc' = proc /\ pid' = pid
    BY <1>1, <1>2, <1>5, Zenon
  <2>6. QED
    <3> SUFFICES ASSUME NEW d \in Consumers
                 PROVE  /\ con'[d].at = "sent" => con'[d].peer \in Senders /\ proc'[con'[d].peer] = "up"
                        /\ con'[d].at = "told" =>
                             /\ con'[d].peer \in Senders /\ proc'[con'[d].peer] \in {"up", "dead"}
                             /\ con'[d].path \in Paths /\ con'[d].token \in Nat
                             /\ con'[d].path[1] = pid'[con'[d].peer]
                             /\ con'[d].path[3] = con'[d].token
                             /\ con'[d].token < next_connection_id'[con'[d].peer]
                             /\ proc'[con'[d].peer] = "up" /\ con'[d].path \in DOMAIN files' =>
                                   files'[con'[d].path] = Ring(con'[d].peer, con'[d].token)
      BY Zenon DEF ConsumerInv, Ring
    <3>1. CASE d = c
      BY <2>1, <2>2, <2>5, <3>1
    <3>2. CASE d # c
      <4>1. con'[d] = con[d] /\ proc' = proc /\ pid' = pid
        BY <2>1, <2>5, <3>2, Zenon
      <4>2. QED
        BY <2>4, <3>2, <4>1, ZenonT(30)
    <3>3. QED
      BY <3>1, <3>2, Zenon
<1>9. QED
  BY <1>3, <1>4, <1>6, <1>7, <1>8, Zenon DEF Inv

\* A request is served.
LEMMA ProvideKeeps ==
    ASSUME Inv, NEW s \in Senders, NEW c \in Consumers, Provide(s, c)
    PROVE  Inv'
<1> DEFINE id   == next_connection_id[s]
           free == {i \in Slots : table[s][i] = None}
           path == RingPath(s, Min(free), id)
<1>1. /\ con[c].at = "sent" /\ con[c].peer = s
      /\ next_connection_id' = [next_connection_id EXCEPT ![s] = @ + 1]
      /\ UNCHANGED <<proc, pid, socket, leftover>>
  BY Zenon DEF Provide, Serving
<1>2. /\ \A t \in Senders : Cardinality(Met(t)) <= Cardinality(Met(t)')
      /\ \A f \in leftover[s] : f[3] = id => Cardinality(Met(s)) + 1 <= Cardinality(Met(s)')
  BY <1>1, MetGrows, Zenon
<1>3. \A t \in Senders : Cardinality(Met(t)) \in Nat /\ Cardinality(Met(t)') \in Nat
  <2>1. ASSUME NEW t \in Senders
        PROVE  IsFiniteSet(leftover[t]) /\ Met(t) \subseteq leftover[t] /\ Met(t)' \subseteq leftover[t]
    BY <1>1, Zenon DEF Inv, Types, Met
  <2>2. QED
    BY <2>1, FS_Subset, FS_CardinalityType, Zenon
<1>4. refused \in [Senders -> Nat] /\ \A t \in Senders : refused[t] <= Cardinality(Met(t))
  BY Zenon DEF Inv, Types, RefusedInv
<1>5. proc[s] = "up"
  BY <1>1, Zenon DEF Inv, ConsumerInv
<1>6. ASSUME UNCHANGED refused
      PROVE  RefusedInv'
  <2>1. \A t \in Senders : refused'[t] <= Cardinality(Met(t)')
    BY <1>2, <1>3, <1>4, <1>6
  <2>2. QED
    BY <1>1, <1>6, <2>1, Zenon DEF Inv, RefusedInv
<1>7. CASE con' = [con EXCEPT ![c] = Idle] /\ UNCHANGED <<files, table, rings, refused>>
  BY <1>1, <1>4, <1>6, <1>7, FailedKeeps, Zenon
<1>8. CASE /\ free # {} /\ path \in DOMAIN files
           /\ con' = [con EXCEPT ![c] = Idle]
           /\ refused' = [refused EXCEPT ![s] = @ + 1]
           /\ UNCHANGED <<files, table, rings>>
  <2>1. Min(free) \in Slots
    BY <1>8, MinIsIn, SlotsAreNaturals, Zenon
  <2>2. path \in leftover[s] /\ path[3] = id
    BY <1>5, <1>8, <2>1, InTheWayIsLeftover, PathParts
  <2>3. Cardinality(Met(s)) + 1 <= Cardinality(Met(s)')
    BY <1>2, <2>2, Zenon
  <2>4. refused' \in [Senders -> Nat]
    BY <1>4, <1>8
  <2>5. ASSUME NEW t \in Senders
        PROVE  refused'[t] <= Cardinality(Met(t)')
    <3>1. CASE t = s
      BY <1>3, <1>4, <1>8, <2>3, <3>1
    <3>2. CASE t # s
      BY <1>2, <1>3, <1>4, <1>8, <3>2
    <3>3. QED
      BY <3>1, <3>2, Zenon
  <2>6. \A t \in Senders : proc'[t] = "off" => refused'[t] = 0
    BY <1>1, <1>4, <1>5, <1>8, Zenon DEF Inv, RefusedInv
  <2>7. RefusedInv'
    BY <2>5, <2>6, Zenon DEF RefusedInv
  <2>8. QED
    BY <1>1, <1>8, <2>4, <2>7, FailedKeeps, Zenon
<1>9. CASE /\ free # {} /\ path \notin DOMAIN files
           /\ files' = [p \in DOMAIN files \cup {path} |->
                           IF p = path THEN Ring(s, id) ELSE files[p]]
           /\ table' = [table EXCEPT ![s][Min(free)] = id]
           /\ rings' = [rings EXCEPT ![s] = @ \cup {<<Min(free), id>>}]
           /\ con' = [con EXCEPT ![c].at = "told", ![c].path = path, ![c].token = id]
           /\ UNCHANGED refused
  <2>1. Min(free) \in Slots
    BY <1>9, MinIsIn, SlotsAreNaturals, Zenon
  <2>2. RefusedInv'
    BY <1>6, <1>9, Zenon
  <2> HIDE DEF free
  <2>3. UNCHANGED <<proc, pid, socket, leftover, refused>>
    BY <1>1, <1>9, Zenon
  <2> HIDE DEF id, path
  <2>4. id = next_connection_id[s] /\ path = RingPath(s, Min(free), id)
    BY Zenon DEF id, path
  <2>5. Made(s, c, Min(free), id, path)
    BY <1>1, <1>9, <2>3, Zenon DEF Made
  <2>6. QED
    BY <1>1, <2>1, <2>2, <2>4, <2>5, MadeKeeps, Zenon
<1>10. QED
  BY <1>7, <1>8, <1>9, Zenon DEF Provide, Created

\* A consumer goes on, and no sender is touched: what is left to show is ConsumerInv.
LEMMA ConsumerStepKeeps ==
    ASSUME Inv, NEW c \in Consumers, NEW r,
           r \in [at : {"idle", "sent", "told", "open"}, peer : Senders \cup {None},
                  path : Paths \cup {None}, token : Nat \cup {None}, ring : Rings \cup {None}],
           con' = [con EXCEPT ![c] = r],
           r.at \in {"idle", "open"} \/ (r.at = "sent" /\ r.peer \in Senders /\ proc[r.peer] = "up"),
           UNCHANGED <<proc, pid, socket, files, next_connection_id, table, rings, leftover, refused>>
    PROVE  Inv'
<1>1. Types'
  BY Zenon DEF Inv, Types
<1>2. PidInv' /\ FilesInv'
  BY Zenon DEF Inv, PidInv, FilesInv, Active
<1>3. RingsInv' /\ RefusedInv'
  BY SMTT(30) DEF Inv, RingsInv, Owned, RingPath, RefusedInv, Met
<1>4. ConsumerInv'
  <2>1. con'[c] = r /\ \A d \in Consumers \ {c} : con'[d] = con[d]
    BY Zenon DEF Inv, Types
  <2>2. QED
    BY <2>1 DEF Inv, ConsumerInv
<1>5. QED
  BY <1>1, <1>2, <1>3, <1>4, Zenon DEF Inv

LEMMA ConnectKeeps ==
    ASSUME Inv, NEW c \in Consumers, Connect(c)
    PROVE  Inv'
<1> DEFINE r == [con[c] EXCEPT !.at = "sent", !.peer = socket]
<1>1. socket \in Senders /\ proc[socket] = "up"
  BY Zenon DEF Connect, Inv, Types
<1>2. con[c] \in [at : {"idle", "sent", "told", "open"}, peer : Senders \cup {None},
                  path : Paths \cup {None}, token : Nat \cup {None}, ring : Rings \cup {None}]
  BY Zenon DEF Inv, Types
<1>3. /\ r \in [at : {"idle", "sent", "told", "open"}, peer : Senders \cup {None},
                path : Paths \cup {None}, token : Nat \cup {None}, ring : Rings \cup {None}]
      /\ r.at = "sent" /\ r.peer = socket
  BY <1>1, <1>2, Zenon
<1>4. con' = [con EXCEPT ![c] = r]
  BY Zenon DEF Connect
<1>5. UNCHANGED <<proc, pid, socket, files, next_connection_id, table, rings, leftover, refused>>
  BY Zenon DEF Connect
<1> HIDE DEF r
<1>6. r.at \in {"idle", "open"} \/ (r.at = "sent" /\ r.peer \in Senders /\ proc[r.peer] = "up")
  BY <1>1, <1>3, Zenon
<1>7. QED
  BY <1>3, <1>4, <1>5, <1>6, ConsumerStepKeeps, Zenon

LEMMA OpenKeeps ==
    ASSUME Inv, NEW c \in Consumers, Open(c)
    PROVE  Inv'
<1> DEFINE r == IF con[c].path \in DOMAIN files
                THEN [con[c] EXCEPT !.at = "open", !.ring = files[con[c].path]] ELSE Idle
<1>1. con[c] \in [at : {"idle", "sent", "told", "open"}, peer : Senders \cup {None},
                  path : Paths \cup {None}, token : Nat \cup {None}, ring : Rings \cup {None}]
      /\ files \in [DOMAIN files -> Rings]
  BY Zenon DEF Inv, Types
<1>2. /\ r \in [at : {"idle", "sent", "told", "open"}, peer : Senders \cup {None},
                path : Paths \cup {None}, token : Nat \cup {None}, ring : Rings \cup {None}]
      /\ r.at \in {"idle", "open"}
  BY <1>1, Zenon DEF Idle
<1>3. con' = [con EXCEPT ![c] = r]
      /\ UNCHANGED <<proc, pid, socket, files, next_connection_id, table, rings, leftover, refused>>
  BY Zenon DEF Open
<1> HIDE DEF r
<1>4. QED
  BY <1>2, <1>3, ConsumerStepKeeps, Zenon

LEMMA QuitKeeps ==
    ASSUME Inv, NEW c \in Consumers, Quit(c)
    PROVE  Inv'
<1>1. /\ Idle \in [at : {"idle", "sent", "told", "open"}, peer : Senders \cup {None},
                   path : Paths \cup {None}, token : Nat \cup {None}, ring : Rings \cup {None}]
      /\ Idle.at = "idle"
  BY Zenon DEF Idle
<1>2. QED
  BY <1>1, ConsumerStepKeeps, Zenon DEF Quit

LEMMA NextInv == Inv /\ [Next]_vars => Inv'
<1> SUFFICES ASSUME Inv, [Next]_vars PROVE Inv'
  BY SMTT(30)
<1>1. CASE UNCHANGED vars
  BY <1>1 DEF Inv, Types, PidInv, RingsInv, FilesInv, ConsumerInv, RefusedInv, Active, Owned,
              RingPath, Met, vars
<1>2. ASSUME NEW s \in Senders, NEW p \in Pids, Start(s, p)
      PROVE  Inv'
  BY <1>2, StartKeeps, Zenon
<1>3. ASSUME NEW s \in Senders, Bind(s) \/ Stop(s) \/ Crash(s)
      PROVE  Inv'
  BY <1>3, BindKeeps, EndKeeps, Zenon
<1>4. ASSUME NEW s \in Senders, NEW i \in Slots,
             Evict(s, i) \/ \E id \in 1 .. MaxId : Release(s, i, id)
      PROVE  Inv'
  BY <1>4, EvictKeeps, ReleaseKeeps, Zenon
<1>5. ASSUME NEW s \in Senders, NEW c \in Consumers, Provide(s, c)
      PROVE  Inv'
  BY <1>5, ProvideKeeps, Zenon
<1>6. ASSUME NEW c \in Consumers, Connect(c) \/ Open(c) \/ Quit(c)
      PROVE  Inv'
  BY <1>6, ConnectKeeps, OpenKeeps, QuitKeeps, Zenon
<1>7. QED
  BY <1>1, <1>2, <1>3, <1>4, <1>5, <1>6, Zenon DEF Next

-----------------------------------------------------------------------------
(* The theorems.                                                           *)

(* The invariant holds for every number of senders, pids, consumers, slots *)
(* and connections: setup_sender, upsert_shm and Drop for ShmRingProducer. *)
THEOREM Invariance == Spec => []Inv
<1>1. QED
  BY InitInv, NextInv, PTL DEF Spec

(* Whatever senders start, stop or die around it, a running sender has a   *)
(* file for each ring it holds and no other: unlinking by path takes away  *)
(* no file but its own (Drop for ShmRingProducer, is_closed).              *)
THEOREM FilesAreThoseOfTheRings == Spec => []RingsHaveTheirFiles
<1>1. Inv => RingsHaveTheirFiles
  BY Zenon DEF Inv, RingsInv, RingsHaveTheirFiles, Owned
<1>2. QED
  BY Invariance, <1>1, PTL

(* A file that a dead process left under the same pid refuses at most one  *)
(* request, since fetch_add has used up the id when create_new fails.      *)
THEOREM LeftoversBlockOnce == Spec => []LeftoverBlocksOnce
<1>1. ASSUME Inv
      PROVE  LeftoverBlocksOnce
  <2> SUFFICES ASSUME NEW s \in Senders
               PROVE  refused[s] <= Cardinality(leftover[s])
    BY Zenon DEF LeftoverBlocksOnce
  <2>1. IsFiniteSet(leftover[s]) /\ Met(s) \subseteq leftover[s]
    BY <1>1, Zenon DEF Inv, Types, Met
  <2>2. /\ Cardinality(Met(s)) <= Cardinality(leftover[s])
        /\ Cardinality(Met(s)) \in Nat /\ Cardinality(leftover[s]) \in Nat
    BY <2>1, FS_Subset, FS_CardinalityType, Zenon
  <2>3. refused[s] \in Nat /\ refused[s] <= Cardinality(Met(s))
    BY <1>1, Zenon DEF Inv, Types, RefusedInv
  <2>4. QED
    BY <2>2, <2>3
<1>2. QED
  BY Invariance, <1>1, PTL

(* A consumer that opens what it was told while its sender runs opens its  *)
(* own ring: the name has the pid, and an id that is given once            *)
(* (ShmRingConsumer::open).                                                *)
THEOREM ConsumersOpenTheirRing == Spec => OpensOwnRing
<1> DEFINE A == \A c \in Consumers :
                   con[c].at = "told" /\ con'[c].at = "open" /\ proc[con[c].peer] = "up" =>
                      con'[c].ring = Ring(con[c].peer, con[c].token)
<1>1. ASSUME Inv, [Next]_vars
      PROVE  [A]_vars
  <2> SUFFICES ASSUME NEW c \in Consumers, Next, con[c].at = "told", con'[c].at = "open",
                      proc[con[c].peer] = "up"
               PROVE  con'[c].ring = Ring(con[c].peer, con[c].token)
    BY <1>1, Zenon
  <2>0. \A d \in Consumers : con'[d] = con[d] => con'[d].at # "open" \/ d # c
    BY Zenon
  <2>1. ASSUME Open(c)
        PROVE  con'[c].ring = Ring(con[c].peer, con[c].token)
    <3>1. con'[c] = IF con[c].path \in DOMAIN files
                    THEN [con[c] EXCEPT !.at = "open", !.ring = files[con[c].path]] ELSE Idle
      BY <1>1, <2>1, Zenon DEF Open, Inv, Types
    <3>2. con[c].path \in DOMAIN files
      BY <3>1 DEF Idle
    <3>3. con'[c].ring = files[con[c].path]
      BY <1>1, <3>1, <3>2, Zenon DEF Inv, Types
    <3>4. QED
      BY <1>1, <3>2, <3>3, Zenon DEF Inv, ConsumerInv
  <2>2. ASSUME NEW d \in Consumers, d # c, Open(d)
        PROVE  FALSE
    BY <1>1, <2>0, <2>2, Zenon DEF Open, Inv, Types
  <2>3. ASSUME NEW d \in Consumers, Connect(d) \/ Quit(d)
        PROVE  FALSE
    BY <1>1, <2>0, <2>3 DEF Connect, Quit, Idle, Inv, Types
  <2>4. ASSUME NEW s \in Senders, NEW d \in Consumers, Provide(s, d)
        PROVE  FALSE
    <3>1. con'[c].at \in {"idle", "told"} \/ con'[c] = con[c]
      <4>1. con[d] \in [at : {"idle", "sent", "told", "open"}, peer : Senders \cup {None},
                        path : Paths \cup {None}, token : Nat \cup {None}, ring : Rings \cup {None}]
            /\ DOMAIN con = Consumers
        BY <1>1, Zenon DEF Inv, Types
      <4> DEFINE i == Min({j \in Slots : table[s][j] = None})
      <4>2. CASE con' = [con EXCEPT ![d] = Idle]
        BY <4>1, <4>2, Zenon DEF Idle
      <4>3. CASE con' = [con EXCEPT ![d].at = "told",
                                    ![d].path = RingPath(s, i, next_connection_id[s]),
                                    ![d].token = next_connection_id[s]]
        <5> HIDE DEF i
        <5>1. QED
          BY <4>1, <4>3, Zenon
      <4>4. QED
        BY <2>4, <4>2, <4>3, Zenon DEF Provide, Created
    <3>2. QED
      BY <2>0, <3>1, Zenon
  <2>5. ASSUME NEW s \in Senders,
               \/ \E p \in Pids : Start(s, p)
               \/ Bind(s)
               \/ \E i \in Slots : Evict(s, i) \/ \E id \in 1 .. MaxId : Release(s, i, id)
        PROVE  FALSE
    BY <2>0, <2>5, ZenonT(30) DEF Start, Started, Bind, Evict, Release
  <2>6. ASSUME NEW s \in Senders, Stop(s) \/ Crash(s)
        PROVE  FALSE
    BY <2>0, <2>6, Zenon DEF Stop, Crash, End, Idle
  <2>7. QED
    BY <2>1, <2>2, <2>3, <2>4, <2>5, <2>6, Zenon DEF Next
<1>2. QED
  BY Invariance, <1>1, PTL DEF Spec, OpensOwnRing
=============================================================================
