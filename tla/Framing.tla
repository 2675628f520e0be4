------------------------------ MODULE Framing ------------------------------
(***************************************************************************)
(* One direction of a control socket: length-prefixed frames over a byte   *)
(* stream (wire.rs), the first of them with a descriptor if the direction  *)
(* is the one of the replies (shm/uds.rs).                                 *)
(*                                                                         *)
(* The stream is counted, not stored: `written' and `read' are positions   *)
(* in it, and where frames end is kept with `frames'. Writes and reads are *)
(* cut anywhere by the kernel; a reader that is not at the beginning of a  *)
(* frame when it reads a prefix finds some number there.                   *)
(***************************************************************************)
EXTENDS Naturals, Sequences

CONSTANTS
    Lengths,            \* payload lengths, in bytes
    FRAME_LEN_BYTES,    \* of the length prefix, 4 in the code
    MAX_FRAME_SIZE,     \* of read_framed
    ANCILLARY_RECV_BUF, \* of recv_frame_with_fd
    Buffer,             \* what the socket holds
    Window,             \* requests on their way at a time
    MaxFrames           \* bound on the frames sent

ASSUME FramingAssumption ==
    /\ Lengths \subseteq Nat /\ FRAME_LEN_BYTES \in Nat \ {0}
    /\ {MAX_FRAME_SIZE, ANCILLARY_RECV_BUF, Buffer, Window} \subseteq Nat

VARIABLES
    direction,          \* "requests" of the consumer, or "replies" to it
    frames,             \* [len, end] of the frames, in order: the length of the payload
                        \* and the position behind the frame
    written, read,      \* positions in the stream
    writer,             \* "idle", "writing" or "closed"
    reader,             \* what read_framed waits for: [at, need, size]
    received            \* [from, len] of the payloads returned, in order

streamVars == <<direction, frames, written, read, writer, reader, received>>

\* The first frame goes through sendmsg and recvmsg.
WithFd == direction = "replies"

\* The consumer makes its calls one by one, each after the reply to the last.
Outstanding == IF WithFd THEN 1 ELSE Window

Minimum(a, b) == IF a <= b THEN a ELSE b

Size(len) == FRAME_LEN_BYTES + len
\* The position behind the k-th frame.
End(k) == IF k = 0 THEN 0 ELSE frames[k].end

Sent(len) == frames' = Append(frames, [len |-> len, end |-> End(Len(frames)) + Size(len)])

AtPrefix == [at |-> "prefix", need |-> FRAME_LEN_BYTES, size |-> 0]
Failed == [at |-> "failed", need |-> 0, size |-> 0]

StreamInit ==
    /\ direction \in {"requests", "replies"}
    /\ frames = <<>> /\ written = 0 /\ read = 0 /\ received = <<>>
    /\ writer = "idle" /\ reader = AtPrefix

Room == Buffer - (written - read)
Available == written - read

-----------------------------------------------------------------------------
MaySend == writer = "idle" /\ Len(frames) < MaxFrames /\ Len(frames) < Len(received) + Outstanding

\* write_framed; its two write_all are the steps below.
WriteFramed(len) ==
    /\ MaySend /\ ~(WithFd /\ frames = <<>>)
    /\ Sent(len)
    /\ writer' = "writing"
    /\ UNCHANGED <<direction, written, read, reader, received>>

\* A write of some of what is left of the prefix, or of the payload.
WriteSome ==
    LET start == End(Len(frames) - 1)
        prefix == start + FRAME_LEN_BYTES
        target == IF written < prefix THEN prefix ELSE End(Len(frames))
    IN  /\ writer = "writing" /\ reader # Failed
        /\ \/ \E n \in 1 .. Minimum(Room, target - written) : written' = written + n
           \/ written = target /\ UNCHANGED written
        /\ writer' = IF written' = End(Len(frames)) THEN "idle" ELSE "writing"
        /\ UNCHANGED <<direction, frames, read, reader, received>>

\* send_frame_with_fd: prefix, payload and descriptor in one sendmsg, and an
\* error if the kernel takes only a part.
SendFrameWithFd(len) ==
    /\ MaySend /\ WithFd /\ frames = <<>>
    /\ Sent(len)
    /\ written' = Minimum(Room, Size(len))
    /\ writer' = IF written' = Size(len) THEN "idle" ELSE "closed"
    /\ UNCHANGED <<direction, read, reader, received>>

\* The peer's end is closed (EPIPE), or the task or process ends.
CloseWriter ==
    /\ writer # "closed" /\ writer' = "closed"
    /\ UNCHANGED <<direction, frames, written, read, reader, received>>

-----------------------------------------------------------------------------
\* Fault: the length counts the prefix.
PrefixInclusive(position) ==
    {Size(frames[k].len) : k \in {k \in 1 .. Len(frames) : position = End(k - 1)}}

\* What a prefix read from this position says: the length of the payload.
Prefix(position) ==
    {frames[k].len : k \in {k \in 1 .. Len(frames) : position = End(k - 1)}}
PrefixOrNoise(position) == IF Prefix(position) = {} THEN Lengths ELSE Prefix(position)

Return(from, len) == received' = Append(received, [from |-> from, len |-> len])

ReadsFd == WithFd /\ received = <<>>

\* Fault: a frame that is too large is left where it is.
TooLargeIsSkipped(size) ==
    /\ size > MAX_FRAME_SIZE
    /\ reader' = AtPrefix /\ UNCHANGED received

\* FrameTooLarge: the sender's task ends with its connection, so nothing more is
\* read.  (A consumer could go on, but replies are far below the limit.)
TooLarge(size) ==
    /\ size > MAX_FRAME_SIZE
    /\ reader' = Failed /\ UNCHANGED received

\* read_exact of the length prefix.
ReadPrefix ==
    /\ reader.at = "prefix" /\ ~ReadsFd
    /\ \E n \in 1 .. Minimum(Available, reader.need) :
          /\ read' = read + n
          /\ \/ /\ n < reader.need
                /\ reader' = [reader EXCEPT !.need = @ - n] /\ UNCHANGED received
             \/ /\ n = reader.need
                /\ \E size \in PrefixOrNoise(read' - FRAME_LEN_BYTES) :
                      \/ TooLarge(size)
                      \/ /\ 0 < size /\ size <= MAX_FRAME_SIZE
                         /\ reader' = [at |-> "payload", need |-> size, size |-> size]
                         /\ UNCHANGED received
                      \/ size = 0 /\ reader' = AtPrefix /\ Return(read', 0)
    /\ UNCHANGED <<direction, frames, written, writer>>

\* read_exact of the payload.
ReadPayload ==
    /\ reader.at = "payload"
    /\ \E n \in 1 .. Minimum(Available, reader.need) :
          /\ read' = read + n
          /\ \/ /\ n < reader.need
                /\ reader' = [reader EXCEPT !.need = @ - n] /\ UNCHANGED received
             \/ /\ n = reader.need
                /\ reader' = AtPrefix /\ Return(read' - reader.size, reader.size)
    /\ UNCHANGED <<direction, frames, written, writer>>

\* recv_frame_with_fd: one recvmsg must bring the whole frame.
RecvFrameWithFd ==
    /\ ReadsFd /\ reader.at = "prefix" /\ Available > 0
    /\ LET n == Minimum(Available, ANCILLARY_RECV_BUF)
       IN  /\ read' = read + n
           /\ \/ /\ n < FRAME_LEN_BYTES \/ Size(frames[1].len) > n
                 /\ reader' = Failed /\ UNCHANGED received
              \/ /\ n >= FRAME_LEN_BYTES /\ Size(frames[1].len) <= n
                 /\ reader' = AtPrefix /\ Return(read + FRAME_LEN_BYTES, frames[1].len)
    /\ UNCHANGED <<direction, frames, written, writer>>

\* UnexpectedEof, or no bytes from recvmsg.
ReadEof ==
    /\ reader # Failed /\ writer = "closed" /\ Available = 0
    /\ reader' = Failed
    /\ UNCHANGED <<direction, frames, written, read, writer, received>>

-----------------------------------------------------------------------------
Read == ReadPrefix \/ ReadPayload \/ RecvFrameWithFd \/ ReadEof

StreamNext ==
    \/ \E len \in Lengths : WriteFramed(len) \/ SendFrameWithFd(len)
    \/ WriteSome \/ CloseWriter
    \/ Read

StreamSpec == StreamInit /\ [][StreamNext]_streamVars

(* A task whose socket is readable or writable is polled.                  *)
FairStreamSpec == StreamSpec /\ WF_streamVars(WriteSome) /\ WF_streamVars(Read)

-----------------------------------------------------------------------------
(* However the kernel cuts the bytes, and wherever one side stops: the     *)
(* frames returned are the frames written, in order, each from its first   *)
(* byte to its last; one that is too large for its reader, or was cut, is  *)
(* not returned, nor is anything behind it.                                *)
FramesInOrder ==
    /\ Len(received) <= Len(frames)
    /\ \A k \in 1 .. Len(received) :
          /\ received[k] = [from |-> End(k - 1) + FRAME_LEN_BYTES, len |-> frames[k].len]
          /\ frames[k].len <= MAX_FRAME_SIZE \/ (WithFd /\ k = 1)
          /\ End(k) <= read

TooLargeForReader(k) ==
    IF WithFd /\ k = 1 THEN Size(frames[k].len) > ANCILLARY_RECV_BUF ELSE frames[k].len > MAX_FRAME_SIZE

(* A frame is returned, unless the writer is closed, or it or one before   *)
(* it is too large for its reader: read_framed, or the buffer of           *)
(* recv_frame_with_fd.                                                     *)
EveryFrameIsReturned ==
    \A k \in 1 .. MaxFrames :
        Len(frames) >= k ~>
            \/ Len(received) >= k \/ writer = "closed"
            \/ \E j \in 1 .. Minimum(k, Len(frames)) : TooLargeForReader(j)
=============================================================================
