----------------------------- MODULE EntryLife -----------------------------
(***************************************************************************)
(* What the connection table promises about one entry, and what the data   *)
(* plane of its slot assumes: how an entry comes into the table, who may   *)
(* hold it, and that the one way out leads through the close of its sink.  *)
(* EntryOfTable shows that ConnectionManager keeps this promise for every  *)
(* entry, FollowsEntryLife that the tasks of Delivery ask for no more.     *)
(***************************************************************************)
CONSTANT Tasks

VARIABLES
    place,          \* "new", in the "table", or "out" of it for good
    hold            \* what each task is doing with the entry

vars == <<place, hold>>

Stages == {"none", "loaded", "evict", "close", "swap", "done"}

Move(t, stage) == hold' = [hold EXCEPT ![t] = stage]

Init ==
    /\ place \in {"new", "table"}
    /\ hold = [t \in Tasks |-> "none"]

\* compare_and_swap(None -> entry)
Install == place = "new" /\ place' = "table" /\ UNCHANGED hold

\* The id is spent, its entry never installed.
Abandon == place = "new" /\ place' = "out" /\ UNCHANGED hold

\* An entry is found only in the table.
Load(t) == place = "table" /\ hold[t] = "none" /\ Move(t, "loaded") /\ UNCHANGED place

Release(t) == hold[t] \in {"loaded", "done"} /\ Move(t, "none") /\ UNCHANGED place

\* It is stale.
Condemn(t) == hold[t] = "loaded" /\ Move(t, "close") /\ UNCHANGED place

\* Its ring refuses a frame.
Refuse(t) == hold[t] = "loaded" /\ Move(t, "evict") /\ UNCHANGED place

\* cleanup_if_same goes on only if the entry is still in the table.
EvictLoad(t) ==
    /\ hold[t] = "evict"
    /\ Move(t, IF place = "table" THEN "close" ELSE "none")
    /\ UNCHANGED place

\* sink.close()
Close(t) == hold[t] = "close" /\ Move(t, "swap") /\ UNCHANGED place

\* compare_and_swap(entry -> None): the entry is out, whoever was faster.
Swap(t) ==
    /\ hold[t] = "swap"
    /\ Move(t, "none") \/ Move(t, "done")
    /\ place' = "out"

Step(t) ==
    \/ Load(t) \/ Release(t) \/ Condemn(t) \/ Refuse(t)
    \/ EvictLoad(t) \/ Close(t) \/ Swap(t)

Next == Install \/ Abandon \/ \E t \in Tasks : Step(t)

Spec == Init /\ [][Next]_vars

(* A task that has begun to remove an entry goes on to the end.            *)
Removal(t) == EvictLoad(t) \/ Close(t) \/ Swap(t)
FairSpec == Spec /\ \A t \in Tasks : WF_vars(Removal(t))
=============================================================================
