---------------------------- MODULE MCTransport ----------------------------
(***************************************************************************)
(* The parts under the control plane and the rings that keep no state in   *)
(* common: messages (Codec), frames in either direction of the control     *)
(* socket (Framing), and both backends of the wakeup (EventFd).  Each      *)
(* behaviour is one of one part.                                           *)
(***************************************************************************)
EXTENDS Codec, Framing

CONSTANTS
    Limit, BufLen, MaxNotifies

VARIABLES
    part,
    level, hup, at, total, edge, ready, fresh, notified

Counter == INSTANCE EventFd WITH Linux <- TRUE
Pipe == INSTANCE EventFd WITH Linux <- FALSE

\* Payloads around the compression threshold and the limit, and LZ4 results
\* around the required gain and the size of the input.
MCPayloads ==
    {[id |-> 1, len |-> 0], [id |-> 2, len |-> 1],
     [id |-> 3, len |-> COMPRESSION_THRESHOLD_BYTES - 1],
     [id |-> 4, len |-> COMPRESSION_THRESHOLD_BYTES],
     [id |-> 5, len |-> MAX_ACCOUNT_PAYLOAD_BYTES],
     [id |-> 6, len |-> MAX_ACCOUNT_PAYLOAD_BYTES + 1]}
MCLz4Sizes ==
    {1, 8130, 8131, COMPRESSION_SAMPLE_BYTES, COMPRESSION_THRESHOLD_BYTES - 1,
     COMPRESSION_THRESHOLD_BYTES, MAX_ACCOUNT_PAYLOAD_BYTES + 40}
MCWords == {1, 2}
MCKeys == {12, 13}
MCTokens == {[slot_index |-> 0, generation |-> 1], [slot_index |-> 9, generation |-> 3]}
MCKeyLists == {<<>>, <<12>>, <<12, 13>>}
MCRingPaths == {[id |-> 1, len |-> 30]}
MCGarbage == -1
MCOthers == {0, 1, 2, MAX_ACCOUNT_PAYLOAD_BYTES + 1}

wakeup == <<level, hup, at, total, edge, ready, fresh, notified>>
allVars == <<part, codecVars, wakeup, streamVars>>

TransportInit ==
    /\ part \in {"messages", "counter", "pipe", "stream"}
    /\ CodecInit /\ Counter!Init /\ StreamInit
    /\ direction = "replies" => part = "stream"

TransportNext ==
    \/ part = "messages" /\ CodecNext /\ UNCHANGED <<part, wakeup, streamVars>>
    \/ part = "counter" /\ Counter!Next /\ UNCHANGED <<part, codecVars, streamVars>>
    \/ part = "pipe" /\ Pipe!Next /\ UNCHANGED <<part, codecVars, streamVars>>
    \/ part = "stream" /\ StreamNext /\ UNCHANGED <<part, codecVars, wakeup>>

(* The fairness of EventFd and of Framing.                                 *)
TransportSpec ==
    /\ TransportInit /\ [][TransportNext]_allVars
    /\ WF_wakeup(part = "counter" /\ Counter!Reader) /\ WF_wakeup(part = "pipe" /\ Pipe!Reader)
    /\ WF_wakeup(part = "counter" /\ Counter!Collect) /\ WF_wakeup(part = "pipe" /\ Pipe!Collect)
    /\ WF_streamVars(part = "stream" /\ WriteSome) /\ WF_streamVars(part = "stream" /\ Read)

(* Either backend of EventFd implements Wakeup: wait() returns only for a  *)
(* notify it has not returned for yet, and returns if there is one.        *)
ImplementsWakeup == Counter!ImplementsWakeup
=============================================================================
