------------------------- MODULE MCConnectionManager -------------------------
(* Small instances of the connection table.  In each behaviour only the     *)
(* tasks of one cast have anything to do: to the others no consumer comes,  *)
(* and no update.                                                           *)
EXTENDS SlotScan, EntryOfTable, TLC

CONSTANT Casts

VARIABLE cast

AccountUpdate == [kind |-> "account", topics |-> Topics, encodes |-> TRUE]
UnencodableUpdate == [kind |-> "account", topics |-> Topics, encodes |-> FALSE]
SlotUpdate == [kind |-> "slot", topics |-> {}, encodes |-> TRUE]

MCUpdates == {u \in {AccountUpdate, UnencodableUpdate, SlotUpdate} : u.kind \in Dispatchers}

\* Both consumers and one dispatcher, or one consumer and both dispatchers.
ReuseCasts == {Handlers \cup {"account"}} \cup {{h} \cup Dispatchers : h \in Handlers}
\* Both consumers, or one of them and the dispatcher.
SlotsCasts == {Handlers, {CHOOSE h \in Handlers : TRUE} \cup Dispatchers}

CastInit == ScanInit /\ cast \in Casts

Keeps == UNCHANGED cast /\ \A t \in Tasks \ cast : pc'[t] = pc[t]

ReuseSpec == CastInit /\ [][Next /\ Keeps /\ UNCHANGED vacant]_<<scanVars, cast>>

\* With the history of the scans, fair tasks and a clock that is not set back.
SlotsSpec == CastInit /\ [][ScanNext /\ Keeps /\ now' >= now]_<<scanVars, cast>> /\ Fairness

HandlerSymmetry == Permutations(Handlers)
=============================================================================
