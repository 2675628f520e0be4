------------------------------ MODULE SlotScan ------------------------------
(***************************************************************************)
(* When the sender refuses a consumer: find_free_slot goes over the slots  *)
(* one by one, without a snapshot of the table, while others take slots    *)
(* and give them back.  A history variable follows, for each scan, the     *)
(* slots that were there for the taking all the time.                      *)
(***************************************************************************)
EXTENDS ConnectionManager

VARIABLE vacant             \* handler -> slots that did not change since its
                            \* scan began and are free

scanVars == <<vars, vacant>>

\* Empty, or held by an entry that find_free_slot itself would clean up.
Free(i) == connections[i] = None \/ is_stale(connections[i])

ScanInit == Init /\ vacant = [h \in Handlers |-> {}]

\* A scan begins with the allocation of the id, and again after a lost race.
Begins(h) == pc[h] \in {"alloc", "install"} /\ pc'[h] = "scan"

Unchanged(i) == connections'[i] = connections[i]

ScanNext ==
    /\ Next
    /\ vacant' = [h \in Handlers |->
            {i \in Slots : Free(i)' /\ (Begins(h) \/ (i \in vacant[h] /\ Unchanged(i)))}]

ScanSpec == ScanInit /\ [][ScanNext]_scanVars

(* RefusalIsJustified: a consumer is told that there are no free slots     *)
(* only if each of them was taken by an entry that was not stale, or       *)
(* changed hands, during the scan: no slot that was there for the taking   *)
(* all the time is passed over.                                            *)
RefusalIsJustified ==
    [][\A h \in Handlers : pc[h] = "scan" /\ pc'[h] = "gone" => vacant[h] = {}]_scanVars
=============================================================================
