------------------------------ MODULE EventFd ------------------------------
(***************************************************************************)
(* EventFd and AsyncEventFd (shm/eventfd.rs), with both backends: the      *)
(* Linux eventfd, a counter that one read empties, and the self-pipe of    *)
(* other systems, which drain() empties 64 bytes at a time while others    *)
(* write.  The kernel's event queue and tokio's cached readiness are as in *)
(* Delivery, where the wakeup is a flag: ImplementsWakeup is what makes    *)
(* that sound for either backend.                                          *)
(***************************************************************************)
EXTENDS Naturals

CONSTANTS
    Linux,          \* which backend is compiled in
    Limit,          \* of the counter, or the bytes a pipe holds
    BufLen,         \* bytes drain() reads at a time, 64 in the code
    MaxNotifies     \* bound on the calls of notify

VARIABLES
    level,          \* the counter, or the bytes in the pipe
    hup,            \* the sender has dropped its EventFd
    at,             \* where the consumer is in AsyncEventFd::wait
    total,          \* what drain() has counted so far
    edge,           \* the kernel has an event for the runtime to collect
    ready,          \* AsyncFd's cached readiness
    fresh,          \* an event was collected since the guard was taken
    notified        \* calls of notify so far

vars == <<level, hup, at, total, edge, ready, fresh, notified>>

Init ==
    /\ level = 0 /\ hup = FALSE
    /\ at = "handshake" /\ total = 0
    /\ edge = FALSE /\ ready = FALSE /\ fresh = FALSE
    /\ notified = 0

-----------------------------------------------------------------------------
\* EventFd::notify: EAGAIN, when nothing more fits, is a success; EINTR is
\* another try.
Notify ==
    /\ ~hup /\ notified < MaxNotifies
    /\ notified' = notified + 1
    /\ \/ /\ level < Limit
          /\ level' = level + 1
          /\ edge' = (edge \/ at # "handshake")
       \/ level = Limit /\ UNCHANGED <<level, edge>>
    /\ UNCHANGED <<hup, at, total, ready, fresh>>

\* The sender's EventFd is dropped: to the pipe this is the end of the stream.
DropSender ==
    /\ ~hup /\ hup' = TRUE
    /\ edge' = (edge \/ (~Linux /\ at # "handshake"))
    /\ UNCHANGED <<level, at, total, ready, fresh, notified>>

-----------------------------------------------------------------------------
\* from_owned_fd and AsyncEventFd::new.
Register ==
    /\ at = "handshake" /\ at' = "awake"
    /\ edge' = (level > 0 \/ (~Linux /\ hup))
    /\ UNCHANGED <<level, hup, total, ready, fresh, notified>>

Wait ==
    /\ at = "awake" /\ at' = "readable"
    /\ UNCHANGED <<level, hup, total, edge, ready, fresh, notified>>

\* readable().await
Readable ==
    /\ at = "readable" /\ ready
    /\ at' = "drain" /\ total' = 0 /\ fresh' = FALSE
    /\ UNCHANGED <<level, hup, edge, ready, notified>>

\* wait() returns what drain() counted, or clears the readiness if that is 0.
Drained(n) ==
    /\ total' = 0
    /\ at' = IF n > 0 THEN "awake" ELSE "clear"

\* One read of the eventfd takes the whole counter.
DrainCounter ==
    /\ Linux /\ at = "drain"
    /\ level' = 0
    /\ Drained(level)
    /\ UNCHANGED <<hup, edge, ready, fresh, notified>>

\* One read of the pipe: a full buffer asks for another; a short one, nothing
\* (WouldBlock) or the end of the stream is the last.
DrainPipe ==
    LET n == IF level < BufLen THEN level ELSE BufLen
    IN  /\ ~Linux /\ at = "drain"
        /\ level' = level - n
        /\ \/ n < BufLen /\ Drained(total + n)
           \/ n = BufLen /\ total' = total + n /\ UNCHANGED at
        /\ UNCHANGED <<hup, edge, ready, fresh, notified>>

\* Fault: readiness is cleared whatever happened since the guard was taken.
ClearAll ==
    /\ at = "clear" /\ at' = "readable"
    /\ ready' = FALSE
    /\ UNCHANGED <<level, hup, total, edge, fresh, notified>>

\* guard.clear_ready(): tokio keeps a newer event, and the end of a stream.
Clear ==
    /\ at = "clear" /\ at' = "readable"
    /\ ready' = (fresh \/ (~Linux /\ hup))
    /\ UNCHANGED <<level, hup, total, edge, fresh, notified>>

\* The runtime collects the kernel's event, which may have been withdrawn.
Collect ==
    /\ edge /\ edge' = FALSE
    /\ \/ ready' = TRUE /\ fresh' = TRUE
       \/ level = 0 /\ (Linux \/ ~hup) /\ UNCHANGED <<ready, fresh>>
    /\ UNCHANGED <<level, hup, at, total, notified>>

-----------------------------------------------------------------------------
Drain == DrainCounter \/ DrainPipe

\* What the runtime does for a consumer that waits.
Reader == Readable \/ Drain \/ Clear

Next ==
    \/ Notify \/ DropSender
    \/ Register \/ Wait \/ Reader
    \/ Collect

Spec == Init /\ [][Next]_vars

(* The runtime polls a consumer that can go on and collects the kernel's   *)
(* events; nobody has to notify, and the reader need not call wait again.  *)
FairSpec == Spec /\ WF_vars(Reader) /\ WF_vars(Collect)

-----------------------------------------------------------------------------
(* The wakeup is pending while it is unread, or read by a drain() that has *)
(* not returned.                                                           *)
W == INSTANCE Wakeup WITH
        pending <- level > 0 \/ total > 0,
        waiting <- at \in {"readable", "drain", "clear"}

(* Either backend implements Wakeup: wait() returns only for a notify it   *)
(* has not returned for yet, and returns if there is one, however notify,  *)
(* the reads of drain() and clear_ready interleave.                        *)
ImplementsWakeup == W!FairSpec
=============================================================================
