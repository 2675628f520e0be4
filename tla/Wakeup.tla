------------------------------- MODULE Wakeup -------------------------------
(***************************************************************************)
(* What the reader of a ring relies on: "count > 0 means a wakeup is       *)
(* pending", and no wakeup is ever lost (eventfd.rs:17-19).  A wakeup is a *)
(* flag; wait() returns when it is up, and takes it down.                  *)
(***************************************************************************)
VARIABLES pending, waiting

vars == <<pending, waiting>>

Init == pending = FALSE /\ waiting = FALSE

Notify == pending' = TRUE /\ UNCHANGED waiting

Wait == ~waiting /\ waiting' = TRUE /\ UNCHANGED pending

Wake == waiting /\ pending /\ waiting' = FALSE /\ pending' = FALSE

Next == Notify \/ Wait \/ Wake

Spec == Init /\ [][Next]_vars

FairSpec == Spec /\ WF_vars(Wake)
=============================================================================
