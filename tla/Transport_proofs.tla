-------------------------- MODULE Transport_proofs --------------------------
(***************************************************************************)
(* What carries the messages and the wakeups: frames come out of a control *)
(* socket as they went in (Framing), and either backend of EventFd is the  *)
(* flag that a reader takes it for (Wakeup), with no wakeup lost.  For any *)
(* lengths, limits and numbers of frames and of notifications.  Whether    *)
(* the reader gets to see a frame or a wakeup in the end is left to TLC.   *)
(***************************************************************************)
EXTENDS Framing, SequenceTheorems, TLAPS

-----------------------------------------------------------------------------
(* EventFd.                                                                *)

CONSTANTS Linux, Limit, BufLen, MaxNotifies
VARIABLES level, hup, at, total, edge, ready, fresh, notified

Fd == INSTANCE EventFd

\* drain() counts only while it reads, and leaves nothing behind.  The unread is
\* announced by an event, or by readiness that clear_ready will not take away.
FdInv ==
    /\ level \in Nat /\ total \in Nat
    /\ total > 0 => at = "drain" /\ ~Linux
    /\ at \in {"drain", "clear"} => ready
    /\ (level > 0 \/ (~Linux /\ hup)) /\ at # "handshake" => edge \/ ready
    /\ level > 0 /\ at = "clear" => edge \/ fresh

LEMMA FdInitInv == Fd!Init => FdInv
BY DEF Fd!Init, FdInv

LEMMA FdNextInv ==
    ASSUME BufLen \in Nat, FdInv, [Fd!Next]_(Fd!vars)
    PROVE  FdInv'
<1>1. CASE Fd!Notify \/ Fd!DropSender
  <2>1. UNCHANGED <<at, total, ready, fresh>> /\ level' \in Nat
    BY <1>1 DEF Fd!Notify, Fd!DropSender, FdInv
  <2>2. at # "handshake" => edge' \/ (level' = level /\ (edge' <=> edge) /\ (~Linux /\ hup' => hup))
    BY <1>1, Zenon DEF Fd!Notify, Fd!DropSender
  <2>3. QED
    BY <2>1, <2>2, Zenon DEF FdInv
<1>2. CASE Fd!Register \/ Fd!Wait \/ Fd!Readable
  <2>1. UNCHANGED <<level, hup, ready>> /\ total' \in {total, 0} /\ (total' > 0 => total' = total)
    BY <1>2 DEF Fd!Register, Fd!Wait, Fd!Readable
  <2>2. \/ at' \in {"awake", "readable"} /\ at # "handshake" /\ (edge' <=> edge) /\ at # "drain"
        \/ at' = "awake" /\ at = "handshake" /\ (edge' <=> level > 0 \/ (~Linux /\ hup))
        \/ at' = "drain" /\ ready /\ (edge' <=> edge) /\ at = "readable"
    BY <1>2, Zenon DEF Fd!Register, Fd!Wait, Fd!Readable
  <2>3. QED
    BY <2>1, <2>2 DEF FdInv
<1>3. CASE Fd!DrainCounter
  BY <1>3 DEF Fd!DrainCounter, Fd!Drained, FdInv
<1>4. CASE Fd!DrainPipe
  BY <1>4 DEF Fd!DrainPipe, Fd!Drained, FdInv
<1>5. CASE Fd!Clear
  BY <1>5, Zenon DEF Fd!Clear, FdInv
<1>6. CASE Fd!Collect
  BY <1>6 DEF Fd!Collect, FdInv
<1>7. CASE UNCHANGED Fd!vars
  BY <1>7, Zenon DEF Fd!vars, FdInv
<1>8. QED
  BY <1>1, <1>2, <1>3, <1>4, <1>5, <1>6, <1>7, Zenon DEF Fd!Next, Fd!Reader, Fd!Drain

\* A step of EventFd is a step of Wakeup or none.
LEMMA FdStepIsWakeup ==
    ASSUME BufLen \in Nat, FdInv, Fd!Next
    PROVE  [Fd!W!Next]_(Fd!W!vars)
<1>1. CASE Fd!Notify
  BY <1>1 DEF Fd!Notify, FdInv, Fd!W!Next, Fd!W!Notify, Fd!W!vars
<1>2. CASE Fd!DropSender \/ Fd!Register \/ Fd!Collect \/ Fd!Clear
  BY <1>2 DEF Fd!DropSender, Fd!Register, Fd!Collect, Fd!Clear, Fd!W!vars
<1>3. CASE Fd!Wait
  BY <1>3, Zenon DEF Fd!Wait, FdInv, Fd!W!Next, Fd!W!Wait
<1>4. CASE Fd!Readable
  BY <1>4 DEF Fd!Readable, FdInv, Fd!W!vars
<1>5. CASE Fd!DrainCounter
  <2>1. total = 0 /\ level \in Nat /\ at = "drain" /\ level' = 0 /\ total' = 0
        /\ at' = IF level > 0 THEN "awake" ELSE "clear"
    BY <1>5 DEF Fd!DrainCounter, Fd!Drained, FdInv
  <2>2. CASE level > 0
    BY <2>1, <2>2 DEF Fd!W!Next, Fd!W!Wake
  <2>3. CASE ~(level > 0)
    BY <2>1, <2>3 DEF Fd!W!vars
  <2>4. QED
    BY <2>2, <2>3, Zenon
<1>6. CASE Fd!DrainPipe
  BY <1>6 DEF Fd!DrainPipe, Fd!Drained, FdInv, Fd!W!Next, Fd!W!Wake, Fd!W!vars
<1>7. QED
  BY <1>1, <1>2, <1>3, <1>4, <1>5, <1>6, Zenon DEF Fd!Next, Fd!Reader, Fd!Drain

(* Either backend is the flag that the reader of a ring takes it for,      *)
(* however notify, the reads of drain() and clear_ready interleave: wait() *)
(* returns only for a notify it has not returned for yet (the safety part  *)
(* of ImplementsWakeup; AsyncEventFd::wait).                               *)
THEOREM EventFdImplementsWakeup ==
    ASSUME BufLen \in Nat
    PROVE  Fd!Spec => Fd!W!Spec
<1>1. Fd!Init => Fd!W!Init
  BY DEF Fd!Init, Fd!W!Init
<1>2. FdInv /\ [Fd!Next]_(Fd!vars) => [Fd!W!Next]_(Fd!W!vars)
  <2>1. UNCHANGED Fd!vars => UNCHANGED Fd!W!vars
    BY Zenon DEF Fd!vars, Fd!W!vars
  <2>2. QED
    BY <2>1, FdStepIsWakeup, Zenon
<1>3. FdInv /\ [Fd!Next]_(Fd!vars) => FdInv'
  BY FdNextInv, Zenon
<1>4. QED
  BY <1>1, <1>2, <1>3, FdInitInv, PTL DEF Fd!Spec, Fd!W!Spec

\* A reader that waits has what is unread, or the end of the stream, announced.
UnreadIsAnnounced ==
    at = "readable" /\ (level > 0 \/ (~Linux /\ hup)) => ready \/ edge

(* No wakeup is lost between drain() and clear_ready, whichever backend:   *)
(* while something is unread, or the pipe is at its end, a waiting reader  *)
(* is ready or the runtime has an event to collect (AsyncEventFd::wait).   *)
THEOREM NoWakeupIsLost ==
    ASSUME BufLen \in Nat
    PROVE  Fd!Spec => []UnreadIsAnnounced
<1>1. FdInv => UnreadIsAnnounced
  BY Zenon DEF FdInv, UnreadIsAnnounced
<1>2. FdInv /\ [Fd!Next]_(Fd!vars) => FdInv'
  BY FdNextInv, Zenon
<1>3. QED
  BY <1>1, <1>2, FdInitInv, PTL DEF Fd!Spec

-----------------------------------------------------------------------------
(* Framing: the inductive invariant.                                       *)

FrameTypes ==
    /\ frames \in Seq([len : Nat, end : Nat])
    /\ received \in Seq([from : Nat, len : Nat])
    /\ written \in Nat /\ read \in Nat
    /\ writer \in {"idle", "writing", "closed"}
    /\ reader \in [at : {"prefix", "payload", "failed"}, need : Nat, size : Nat]

\* Frames lie one behind the other.
Ends ==
    /\ \A k \in 1 .. Len(frames) : End(k) = End(k - 1) + Size(frames[k].len)
    /\ \A i, j \in 0 .. Len(frames) : i < j => End(i) < End(j)

\* The writer is in the last frame, or behind it.
WriterInv ==
    /\ written <= End(Len(frames))
    /\ writer = "idle" => written = End(Len(frames))
    /\ writer = "writing" => Len(frames) > 0 /\ End(Len(frames) - 1) <= written

\* The reader is in the frame behind the last one it returned, and knows where.
ReaderInv ==
    /\ read <= written /\ End(Len(received)) <= read
    /\ reader.at = "prefix" =>
           /\ reader.need \in 1 .. FRAME_LEN_BYTES
           /\ read + reader.need = End(Len(received)) + FRAME_LEN_BYTES
    /\ reader.at = "payload" =>
           /\ Len(received) < Len(frames)
           /\ reader.size = frames[Len(received) + 1].len /\ reader.size <= MAX_FRAME_SIZE
           /\ reader.need \in 1 .. reader.size
           /\ read + reader.need = End(Len(received) + 1)
    /\ ReadsFd => reader \in {AtPrefix, Failed} /\ Len(frames) <= 1

FrameInv == FrameTypes /\ Ends /\ WriterInv /\ ReaderInv /\ FramesInOrder

LEMMA FrameInitInv == StreamInit => FrameInv
<1> SUFFICES ASSUME StreamInit PROVE FrameInv
  BY Zenon
<1>1. Len(frames) = 0 /\ Len(received) = 0 /\ frames \in Seq([len : Nat, end : Nat])
      /\ received \in Seq([from : Nat, len : Nat])
  BY DEF StreamInit
<1>2. FRAME_LEN_BYTES \in Nat \ {0}
  BY FramingAssumption, Zenon
<1>3. FrameTypes
  BY <1>1, <1>2, Zenon DEF StreamInit, FrameTypes, AtPrefix
<1>4. Ends /\ WriterInv /\ FramesInOrder
  BY <1>1 DEF StreamInit, Ends, WriterInv, FramesInOrder, End
<1>5. ReaderInv
  BY <1>1, <1>2 DEF StreamInit, ReaderInv, End, AtPrefix, ReadsFd, WithFd
<1>6. QED
  BY <1>3, <1>4, <1>5, Zenon DEF FrameInv

\* Positions are numbers.
LEMMA EndIsNat ==
    ASSUME FrameTypes, NEW k \in 0 .. Len(frames)
    PROVE  End(k) \in Nat
<1>1. k # 0 => frames[k] \in [len : Nat, end : Nat]
  <2>1. Len(frames) \in Nat /\ (k # 0 => k \in 1 .. Len(frames))
    BY LenProperties DEF FrameTypes
  <2>2. QED
    BY <2>1, ElementOfSeq, Zenon DEF FrameTypes
<1>2. QED
  BY <1>1, Zenon DEF End

\* A frame that is sent lies behind the others, which stay where they are.
LEMMA SentGrows ==
    ASSUME FrameTypes, Ends, NEW len \in Lengths, Sent(len)
    PROVE  /\ frames' \in Seq([len : Nat, end : Nat]) /\ Len(frames') = Len(frames) + 1
           /\ \A k \in 1 .. Len(frames) : frames'[k] = frames[k]
           /\ \A k \in 0 .. Len(frames) : End(k)' = End(k)
           /\ End(Len(frames))' = End(Len(frames)) + Size(len) /\ Size(len) \in Nat \ {0}
           /\ frames'[Len(frames) + 1].len = len
           /\ Ends'
<1>0. PICK n \in Nat : n = Len(frames)
  BY LenProperties, Zenon DEF FrameTypes
<1> DEFINE f == [len |-> len, end |-> End(n) + Size(len)]
<1>1. n \in Nat /\ End(n) \in Nat /\ Size(len) \in Nat \ {0}
  BY <1>0, EndIsNat, FramingAssumption DEF FrameTypes, Size
<1>2. f \in [len : Nat, end : Nat] /\ f.len = len /\ f.end = End(n) + Size(len)
  <2>1. len \in Nat /\ End(n) + Size(len) \in Nat
    BY <1>1, FramingAssumption
  <2>2. QED
    BY <2>1, Zenon
<1>3. frames' = Append(frames, f)
  BY <1>0, Zenon DEF Sent
<1> HIDE DEF f
<1>4. /\ frames' \in Seq([len : Nat, end : Nat]) /\ Len(frames') = n + 1
      /\ \A k \in 1 .. n : frames'[k] = frames[k]
      /\ frames'[n + 1] = f
  BY <1>0, <1>2, <1>3, AppendProperties DEF FrameTypes
<1>5. \A k \in 0 .. n : End(k)' = End(k)
  BY <1>1, <1>4, SMTT(30) DEF End
<1>6. End(n + 1)' = End(n) + Size(len)
  BY <1>1, <1>2, <1>4 DEF End
<1>7. ASSUME NEW k \in 1 .. n + 1
      PROVE  End(k)' = End(k - 1)' + Size(frames'[k].len)
  <2>1. CASE k = n + 1
    BY <1>1, <1>2, <1>4, <1>5, <1>6, <2>1 DEF Size
  <2>2. CASE k # n + 1
    <3>1. k \in 1 .. n /\ k \in 0 .. n /\ k - 1 \in 0 .. n
      BY <1>1, <2>2
    <3>2. End(k) = End(k - 1) + Size(frames[k].len)
      BY <1>0, <3>1, Zenon DEF Ends
    <3>3. QED
      BY <1>4, <1>5, <3>1, <3>2, Zenon DEF Size
  <2>3. QED
    BY <2>1, <2>2, Zenon
<1>8. ASSUME NEW i \in 0 .. n + 1, NEW j \in 0 .. n + 1, i < j
      PROVE  End(i)' < End(j)'
  <2>1. i \in 0 .. n /\ End(i)' = End(i) /\ End(i) \in Nat
    BY <1>0, <1>1, <1>5, <1>8, EndIsNat
  <2>2. CASE j = n + 1
    <3>1. End(i) <= End(n)
      BY <1>0, <1>1, <2>1 DEF Ends
    <3>2. QED
      BY <1>1, <1>6, <2>1, <2>2, <3>1
  <2>3. CASE j # n + 1
    <3>1. j \in 0 .. n
      BY <1>1, <2>3
    <3>2. QED
      BY <1>0, <1>5, <1>8, <2>1, <3>1, Zenon DEF Ends
  <2>4. QED
    BY <2>2, <2>3, Zenon
<1>9. Ends'
  BY <1>4, <1>7, <1>8, Zenon DEF Ends
<1>10. QED
  BY <1>0, <1>1, <1>2, <1>4, <1>5, <1>6, <1>9, Zenon

-----------------------------------------------------------------------------
(* The steps of the writer.                                                *)

\* What FramesInOrder and ReaderInv say is about frames that are there already.
LEMMA SentKeepsReader ==
    ASSUME FrameInv, NEW len \in Lengths, Sent(len),
           Len(frames) < Len(received) + Outstanding, UNCHANGED <<direction, read, reader, received>>,
           written' \in Nat, written <= written'
    PROVE  ReaderInv' /\ FramesInOrder'
<1>1. /\ FrameTypes /\ Ends /\ ReaderInv /\ FramesInOrder
      /\ Len(frames) \in Nat /\ Len(received) \in Nat /\ Len(received) <= Len(frames)
  BY LenProperties, Zenon DEF FrameInv, FramesInOrder, FrameTypes
<1>2. /\ Len(frames') = Len(frames) + 1
      /\ \A k \in 1 .. Len(frames) : frames'[k] = frames[k]
      /\ \A k \in 0 .. Len(frames) : End(k)' = End(k)
  BY <1>1, SentGrows, Zenon
<1>3. PICK m \in Nat : m = Len(received) /\ m <= Len(frames) /\ Len(received') = m
  BY <1>1, Zenon
<1>4. End(m)' = End(m) /\ End(m) \in Nat
  BY <1>1, <1>2, <1>3, EndIsNat
<1>5. m + 1 \in 1 .. Len(frames) => /\ frames'[m + 1] = frames[m + 1] /\ End(m + 1)' = End(m + 1)
                                  /\ m + 1 <= Len(frames')
  BY <1>1, <1>2, <1>3
<1>6. ReaderInv'
  <2>1. read' <= written' /\ End(m)' <= read'
    BY <1>1, <1>3, <1>4 DEF ReaderInv, FrameTypes
  <2>2. reader.at = "prefix" =>
           /\ reader.need \in 1 .. FRAME_LEN_BYTES
           /\ read + reader.need = End(m)' + FRAME_LEN_BYTES
    BY <1>1, <1>3, <1>4, Zenon DEF ReaderInv
  <2>3. reader.at = "payload" =>
           /\ m < Len(frames')
           /\ reader.size = frames'[m + 1].len /\ reader.size <= MAX_FRAME_SIZE
           /\ reader.need \in 1 .. reader.size
           /\ read + reader.need = End(m + 1)'
    BY <1>1, <1>2, <1>3, <1>5 DEF ReaderInv
  <2>4. ReadsFd => reader \in {AtPrefix, Failed} /\ Len(frames') <= 1
    BY <1>1, <1>2, <1>3, FramingAssumption DEF ReaderInv, ReadsFd, WithFd, Outstanding
  <2>5. QED
    BY <1>3, <2>1, <2>2, <2>3, <2>4, Zenon DEF ReaderInv, ReadsFd, WithFd
<1>7. FramesInOrder'
  <2>1. ASSUME NEW k \in 1 .. m
        PROVE  /\ received[k] = [from |-> End(k - 1)' + FRAME_LEN_BYTES, len |-> frames'[k].len]
               /\ frames'[k].len <= MAX_FRAME_SIZE \/ (WithFd /\ k = 1)
               /\ End(k)' <= read
    <3>1. k \in 1 .. Len(frames) /\ k \in 0 .. Len(frames) /\ k - 1 \in 0 .. Len(frames)
      BY <1>1, <1>3
    <3>2. QED
      BY <1>1, <1>2, <1>3, <3>1, Zenon DEF FramesInOrder
  <2>2. QED
    BY <1>1, <1>2, <1>3, <2>1 DEF FramesInOrder, WithFd
<1>8. QED
  BY <1>6, <1>7, Zenon

LEMMA SendKeeps ==
    ASSUME FrameInv, NEW len \in Lengths,
           WriteFramed(len) \/ SendFrameWithFd(len)
    PROVE  FrameInv'
<1>1. /\ Sent(len) /\ Len(frames) < Len(received) + Outstanding /\ writer = "idle"
      /\ UNCHANGED <<direction, read, reader, received>>
  BY Zenon DEF WriteFramed, SendFrameWithFd, MaySend
<1>2. FrameTypes /\ Ends /\ WriterInv /\ Len(frames) \in Nat
  BY LenProperties, Zenon DEF FrameInv, FrameTypes
<1>3. /\ frames' \in Seq([len : Nat, end : Nat]) /\ Len(frames') = Len(frames) + 1
      /\ \A k \in 0 .. Len(frames) : End(k)' = End(k)
      /\ End(Len(frames))' = End(Len(frames)) + Size(len) /\ Size(len) \in Nat \ {0}
      /\ Ends'
  BY <1>1, <1>2, SentGrows, Zenon
<1>4. PICK n \in Nat : n = Len(frames) /\ Len(frames') = n + 1
  BY <1>2, <1>3, Zenon
<1>5. End(n) \in Nat /\ End(n)' = End(n) /\ End(n + 1)' = End(n) + Size(len) /\ written = End(n)
  <2>1. End(n + 1)' = End(Len(frames))'
    BY <1>4, Zenon DEF End
  <2>2. QED
    BY <1>1, <1>2, <1>3, <1>4, <2>1, EndIsNat DEF WriterInv
<1>6. /\ written' \in Nat /\ written <= written' /\ written' <= End(n + 1)'
      /\ writer' \in {"idle", "writing", "closed"}
      /\ writer' = "idle" => written' = End(n + 1)'
  <2>1. CASE WriteFramed(len)
    <3>1. written' = written /\ writer' = "writing" /\ written \in Nat
      BY <1>2, <2>1, Zenon DEF WriteFramed, FrameTypes
    <3>2. QED
      BY <1>3, <1>5, <3>1
  <2>2. CASE SendFrameWithFd(len)
    <3>1. n = 0 /\ End(n) = 0 /\ written = 0 /\ read = 0 /\ Room = Buffer
      <4>1. n = 0 /\ End(n) = 0
        BY <1>2, <1>4, <2>2, EmptySeq, Zenon DEF SendFrameWithFd, End
      <4>2. read \in Nat /\ read <= written /\ Buffer \in Nat
        BY FramingAssumption, Zenon DEF FrameInv, FrameTypes, ReaderInv
      <4>3. QED
        BY <1>5, <4>1, <4>2 DEF Room
    <3>2. /\ written' = IF Buffer <= Size(len) THEN Buffer ELSE Size(len)
          /\ writer' = IF written' = Size(len) THEN "idle" ELSE "closed"
      BY <2>2, <3>1, Zenon DEF SendFrameWithFd, Minimum
    <3>3. Buffer \in Nat
      BY FramingAssumption, Zenon
    <3>4. QED
      BY <1>3, <1>5, <3>1, <3>2, <3>3
  <2>3. QED
    BY <2>1, <2>2, Zenon
<1>7. WriterInv'
  <2>1. writer' = "writing" => written' = End(n)
    BY <1>5, Zenon DEF WriteFramed, SendFrameWithFd
  <2>2. QED
    BY <1>4, <1>5, <1>6, <2>1 DEF WriterInv
<1>8. FrameTypes'
  BY <1>1, <1>2, <1>3, <1>6, Zenon DEF FrameTypes
<1>9. ReaderInv' /\ FramesInOrder'
  BY <1>1, <1>6, SentKeepsReader, Zenon
<1>10. QED
  BY <1>3, <1>7, <1>8, <1>9, Zenon DEF FrameInv

\* While no frame is frames, frames stay where they are.
LEMMA EndRests ==
    ASSUME UNCHANGED frames
    PROVE  Len(frames') = Len(frames) /\ \A k : End(k)' = End(k)
BY Zenon DEF End

LEMMA WriteSomeKeeps ==
    ASSUME FrameInv, WriteSome
    PROVE  FrameInv'
<1> DEFINE prefix == End(Len(frames) - 1) + FRAME_LEN_BYTES
           target == IF written < prefix THEN prefix ELSE End(Len(frames))
<1>1. /\ UNCHANGED <<direction, frames, read, reader, received>> /\ writer = "writing"
      /\ \/ \E n \in 1 .. Minimum(Room, target - written) : written' = written + n
         \/ written' = written
      /\ writer' = IF written' = End(Len(frames)) THEN "idle" ELSE "writing"
  BY Zenon DEF WriteSome
<1>2. FrameTypes /\ Ends /\ WriterInv /\ ReaderInv /\ FramesInOrder /\ Len(frames) \in Nat
  BY LenProperties, Zenon DEF FrameInv, FrameTypes
<1>3. Len(frames') = Len(frames) /\ \A k : End(k)' = End(k)
  BY <1>1, EndRests, Zenon
<1>4. PICK n \in Nat : n = Len(frames)
  BY <1>2, Zenon
<1>5. /\ n > 0 /\ End(n - 1) \in Nat /\ End(n) \in Nat /\ End(n - 1) <= written /\ written <= End(n)
      /\ End(n - 1) + FRAME_LEN_BYTES <= End(n)
  <2>1. n > 0 /\ n \in 1 .. Len(frames) /\ n - 1 \in 0 .. Len(frames) /\ n \in 0 .. Len(frames)
    BY <1>1, <1>2, <1>4 DEF WriterInv
  <2>2. End(n - 1) \in Nat /\ End(n) \in Nat
    BY <1>2, <2>1, EndIsNat, Zenon
  <2>3. End(n) = End(n - 1) + (FRAME_LEN_BYTES + frames[n].len) /\ frames[n].len \in Nat
    <3>1. frames[n] \in [len : Nat, end : Nat]
      BY <1>2, <2>1, ElementOfSeq, Zenon DEF FrameTypes
    <3>2. End(n) = End(n - 1) + (FRAME_LEN_BYTES + frames[n].len)
      BY <1>2, <2>1, Zenon DEF Ends, Size
    <3>3. QED
      BY <3>1, <3>2, Zenon
  <2>4. FRAME_LEN_BYTES \in Nat
    BY FramingAssumption, Zenon
  <2>5. QED
    BY <1>1, <1>2, <1>4, <2>1, <2>2, <2>3, <2>4 DEF WriterInv
<1>6. written' \in Nat /\ written <= written' /\ written' <= End(n)
  <2>1. written \in Nat /\ read \in Nat /\ read <= written /\ FRAME_LEN_BYTES \in Nat /\ Buffer \in Nat
    BY <1>2, FramingAssumption, Zenon DEF FrameTypes, ReaderInv
  <2>2. target \in Nat /\ target <= End(n)
    BY <1>4, <1>5, <2>1
  <2>3. CASE written' = written
    BY <1>5, <2>1, <2>3
  <2>4. ASSUME NEW m \in 1 .. Minimum(Room, target - written), written' = written + m
        PROVE  written' \in Nat /\ written <= written' /\ written' <= End(n)
    <3>1. m \in Nat /\ m <= target - written
      <4> HIDE DEF target
      <4>1. Room \in Int /\ target - written \in Int
        BY <2>1, <2>2 DEF Room
      <4>2. QED
        BY <2>4, <4>1 DEF Minimum
    <3> HIDE DEF target
    <3>2. QED
      BY <1>5, <2>1, <2>2, <2>4, <3>1
  <2>5. QED
    BY <1>1, <2>3, <2>4, Zenon
<1>7. FrameTypes'
  BY <1>1, <1>2, <1>6, Zenon DEF FrameTypes
<1>8. Ends'
  BY <1>1, <1>2, <1>3, Zenon DEF Ends, Size
<1>9. WriterInv'
  <2>1. Len(frames') = n /\ End(n)' = End(n) /\ End(n - 1)' = End(n - 1) /\ n > 0
        /\ writer' = IF written' = End(n) THEN "idle" ELSE "writing"
    BY <1>1, <1>3, <1>4, <1>5, Zenon
  <2>2. End(n - 1) <= written'
    BY <1>2, <1>5, <1>6 DEF FrameTypes
  <2>3. QED
    BY <1>6, <2>1, <2>2, Zenon DEF WriterInv
<1>10. ReaderInv'
  <2>1. read' <= written'
    BY <1>1, <1>2, <1>6 DEF ReaderInv, FrameTypes
  <2>2. QED
    BY <1>1, <1>2, <1>3, <2>1, Zenon DEF ReaderInv, ReadsFd, WithFd
<1>11. FramesInOrder'
  BY <1>1, <1>2, <1>3, Zenon DEF FramesInOrder, WithFd
<1>12. QED
  BY <1>7, <1>8, <1>9, <1>10, <1>11, Zenon DEF FrameInv

LEMMA CloseWriterKeeps ==
    ASSUME FrameInv, CloseWriter
    PROVE  FrameInv'
<1>1. UNCHANGED <<direction, frames, written, read, reader, received>> /\ writer' = "closed"
  BY Zenon DEF CloseWriter
<1>2. Len(frames') = Len(frames) /\ \A k : End(k)' = End(k)
  BY <1>1, EndRests, Zenon
<1>3. FrameTypes' /\ WriterInv'
  BY <1>1, <1>2, Zenon DEF FrameInv, FrameTypes, WriterInv
<1>4. Ends' /\ FramesInOrder'
  BY <1>1, <1>2, Zenon DEF FrameInv, Ends, Size, FramesInOrder, WithFd
<1>5. ReaderInv'
  BY <1>1, <1>2, Zenon DEF FrameInv, ReaderInv, ReadsFd, WithFd
<1>6. QED
  BY <1>3, <1>4, <1>5, Zenon DEF FrameInv

-----------------------------------------------------------------------------
(* The steps of the reader.                                                *)

\* The next frame is returned: it was read to its end, and no further.
LEMMA ReturnKeeps ==
    ASSUME FrameInv, NEW m \in Nat, m = Len(received), m < Len(frames),
           UNCHANGED <<direction, frames, written, writer>>, reader' = AtPrefix,
           read' = End(m + 1), read' <= written,
           Return(End(m) + FRAME_LEN_BYTES, frames[m + 1].len),
           frames[m + 1].len <= MAX_FRAME_SIZE \/ (WithFd /\ m = 0)
    PROVE  FrameInv'
<1> DEFINE r == [from |-> End(m) + FRAME_LEN_BYTES, len |-> frames[m + 1].len]
<1>1. FrameTypes /\ Ends /\ WriterInv /\ ReaderInv /\ FramesInOrder /\ Len(frames) \in Nat
      /\ FRAME_LEN_BYTES \in Nat \ {0}
  BY LenProperties, FramingAssumption, Zenon DEF FrameInv, FrameTypes
<1>2. m + 1 \in 1 .. Len(frames) /\ m \in 0 .. Len(frames) /\ m + 1 \in 0 .. Len(frames)
  BY <1>1
<1>3. /\ End(m) \in Nat /\ End(m + 1) \in Nat /\ frames[m + 1] \in [len : Nat, end : Nat]
      /\ End(m) < End(m + 1)
  <2>1. frames[m + 1] \in [len : Nat, end : Nat]
    BY <1>1, <1>2, ElementOfSeq, Zenon DEF FrameTypes
  <2>2. QED
    BY <1>1, <1>2, <2>1, EndIsNat DEF Ends
<1>4. r \in [from : Nat, len : Nat]
  BY <1>1, <1>3
<1>5. received' = Append(received, r)
  BY Zenon DEF Return
<1> HIDE DEF r
<1>6. /\ received' \in Seq([from : Nat, len : Nat]) /\ Len(received') = m + 1
      /\ \A k \in 1 .. m : received'[k] = received[k]
      /\ received'[m + 1] = r
  BY <1>1, <1>4, <1>5, AppendProperties DEF FrameTypes
<1>7. Len(frames') = Len(frames) /\ \A k : End(k)' = End(k)
  BY EndRests, Zenon
<1>8. FrameTypes' /\ WriterInv'
  <2>1. AtPrefix \in [at : {"prefix", "payload", "failed"}, need : Nat, size : Nat]
    BY <1>1, Zenon DEF AtPrefix
  <2>2. QED
    BY <1>1, <1>3, <1>6, <1>7, <2>1, Zenon DEF FrameTypes, WriterInv
<1>9. Ends'
  BY <1>1, <1>7, Zenon DEF Ends, Size
<1>10. ReaderInv'
  <2>1. AtPrefix.at = "prefix" /\ AtPrefix.need = FRAME_LEN_BYTES
    BY Zenon DEF AtPrefix
  <2>2. received' # << >>
    BY <1>6
  <2>3. End(Len(received))' = End(m + 1)
    BY <1>6, <1>7, Zenon
  <2>4. QED
    BY <1>1, <1>3, <2>1, <2>2, <2>3 DEF ReaderInv, ReadsFd, WithFd
<1>11. FramesInOrder'
  <2>1. ASSUME NEW k \in 1 .. m + 1
        PROVE  /\ received'[k] = [from |-> End(k - 1) + FRAME_LEN_BYTES, len |-> frames[k].len]
               /\ frames[k].len <= MAX_FRAME_SIZE \/ (WithFd /\ k = 1)
               /\ End(k) <= read'
    <3>1. CASE k = m + 1
      BY <1>3, <1>6, <3>1 DEF r
    <3>2. CASE k # m + 1
      <4>1. k \in 1 .. m
        BY <3>2
      <4>2. k \in 0 .. Len(frames) /\ k < m + 1
        BY <1>1, <4>1
      <4>3. End(k) < End(m + 1) /\ End(k) \in Nat
        BY <1>1, <1>2, <4>2, EndIsNat, Zenon DEF Ends
      <4>4. /\ received[k] = [from |-> End(k - 1) + FRAME_LEN_BYTES, len |-> frames[k].len]
            /\ frames[k].len <= MAX_FRAME_SIZE \/ (WithFd /\ k = 1)
        BY <1>1, <4>1, Zenon DEF FramesInOrder
      <4>5. End(k) <= read'
        BY <1>3, <4>3
      <4>6. QED
        BY <1>6, <4>1, <4>4, <4>5, Zenon
    <3>3. QED
      BY <3>1, <3>2, Zenon
  <2>2. m + 1 <= Len(frames)
    BY <1>2
  <2>3. QED
    BY <1>6, <1>7, <2>1, <2>2, Zenon DEF FramesInOrder, WithFd
<1>12. QED
  BY <1>8, <1>9, <1>10, <1>11, Zenon DEF FrameInv

\* The reader goes on, or fails, and returns nothing.
LEMMA ReadOnKeeps ==
    ASSUME FrameInv, UNCHANGED <<direction, frames, written, writer, received>>,
           read' \in Nat, read <= read', read' <= written,
           reader' \in [at : {"prefix", "payload", "failed"}, need : Nat, size : Nat],
           reader'.at = "prefix" =>
               /\ reader'.need \in 1 .. FRAME_LEN_BYTES
               /\ read' + reader'.need = End(Len(received)) + FRAME_LEN_BYTES,
           reader'.at = "payload" =>
               /\ Len(received) < Len(frames)
               /\ reader'.size = frames[Len(received) + 1].len /\ reader'.size <= MAX_FRAME_SIZE
               /\ reader'.need \in 1 .. reader'.size
               /\ read' + reader'.need = End(Len(received) + 1),
           ReadsFd => reader' = Failed
    PROVE  FrameInv'
<1>1. FrameTypes /\ Ends /\ WriterInv /\ ReaderInv /\ FramesInOrder /\ Len(frames) \in Nat
      /\ Len(received) \in Nat /\ Len(received) <= Len(frames) /\ read \in Nat
  BY LenProperties, Zenon DEF FrameInv, FrameTypes, FramesInOrder
<1>2. Len(frames') = Len(frames) /\ \A k : End(k)' = End(k)
  BY EndRests, Zenon
<1>3. \A k \in 0 .. Len(frames) : End(k) \in Nat
  BY <1>1, EndIsNat, Zenon
<1>4. FrameTypes' /\ WriterInv'
  BY <1>1, <1>2, Zenon DEF FrameTypes, WriterInv
<1>5. Ends'
  BY <1>1, <1>2, Zenon DEF Ends, Size
<1>6. ReaderInv'
  <2>1. End(Len(received)) <= read'
    BY <1>1, <1>3 DEF ReaderInv
  <2>2. QED
    BY <1>1, <1>2, <2>1, Zenon DEF ReaderInv, ReadsFd, WithFd
<1>7. FramesInOrder'
  <2>1. ASSUME NEW k \in 1 .. Len(received)
        PROVE  End(k) <= read'
    <3>1. k \in 0 .. Len(frames)
      BY <1>1
    <3>2. End(k) <= read
      BY <1>1, Zenon DEF FramesInOrder
    <3>3. QED
      BY <1>1, <1>3, <3>1, <3>2
  <2>2. QED
    BY <1>1, <1>2, <2>1, Zenon DEF FramesInOrder, WithFd
<1>8. QED
  BY <1>4, <1>5, <1>6, <1>7, Zenon DEF FrameInv

\* The reader counts only what was written.
LEMMA ReadCount ==
    ASSUME FrameInv, NEW need \in Nat, NEW n \in 1 .. Minimum(Available, need)
    PROVE  /\ n \in Nat \ {0} /\ n <= need /\ read + n <= written
           /\ read \in Nat /\ written \in Nat /\ read + n \in Nat
<1>1. read \in Nat /\ written \in Nat /\ read <= written
  BY Zenon DEF FrameInv, FrameTypes, ReaderInv
<1>2. QED
  BY <1>1 DEF Minimum, Available

\* A reader past the last frame it returned is in a frame that was sent; the
\* prefix of that one is all it can take for a prefix.
LEMMA NextPrefix ==
    ASSUME FrameInv, NEW m \in Nat, m = Len(received), End(m) < written
    PROVE  m < Len(frames) /\ PrefixOrNoise(End(m)) = {frames[m + 1].len}
<1>1. FrameTypes /\ Ends /\ WriterInv /\ Len(frames) \in Nat /\ m <= Len(frames)
  BY LenProperties, Zenon DEF FrameInv, FrameTypes, FramesInOrder
<1>2. m < Len(frames)
  <2>1. ASSUME m = Len(frames)
        PROVE  FALSE
    <3>1. written <= End(m) /\ End(m) \in Nat /\ written \in Nat
      BY <1>1, <2>1, EndIsNat DEF WriterInv, FrameTypes
    <3>2. QED
      BY <3>1
  <2>2. QED
    BY <1>1, <2>1
<1>3. ASSUME NEW k \in 1 .. Len(frames)
      PROVE  End(m) = End(k - 1) <=> k = m + 1
  <2>1. k - 1 \in 0 .. Len(frames) /\ m \in 0 .. Len(frames)
    BY <1>1, <1>2
  <2>2. End(k - 1) \in Nat /\ End(m) \in Nat
    BY <1>1, <2>1, EndIsNat, Zenon
  <2>3. (k - 1 < m => End(k - 1) < End(m)) /\ (m < k - 1 => End(m) < End(k - 1))
    BY <1>1, <2>1, Zenon DEF Ends
  <2>4. QED
    BY <2>1, <2>2, <2>3
<1>4. {k \in 1 .. Len(frames) : End(m) = End(k - 1)} = {m + 1}
  BY <1>1, <1>2, <1>3
<1>5. Prefix(End(m)) = {frames[m + 1].len}
  BY <1>4, Zenon DEF Prefix
<1>6. QED
  BY <1>2, <1>5, SMTT(30) DEF PrefixOrNoise

LEMMA ReadPrefixKeeps ==
    ASSUME FrameInv, ReadPrefix
    PROVE  FrameInv'
<1>1. reader.at = "prefix" /\ ~ReadsFd /\ UNCHANGED <<direction, frames, written, writer>>
  BY Zenon DEF ReadPrefix
<1>2. PICK n \in 1 .. Minimum(Available, reader.need) :
          /\ read' = read + n
          /\ \/ /\ n < reader.need
                /\ reader' = [reader EXCEPT !.need = @ - n] /\ UNCHANGED received
             \/ /\ n = reader.need
                /\ \E size \in PrefixOrNoise(read' - FRAME_LEN_BYTES) :
                      \/ TooLarge(size)
                      \/ /\ 0 < size /\ size <= MAX_FRAME_SIZE
                         /\ reader' = [at |-> "payload", need |-> size, size |-> size]
                         /\ UNCHANGED received
                      \/ size = 0 /\ reader' = AtPrefix /\ Return(read', 0)
  BY Zenon DEF ReadPrefix
<1>3. PICK m \in Nat : m = Len(received)
  BY LenProperties, Zenon DEF FrameInv, FrameTypes
<1>4. /\ reader \in [at : {"prefix", "payload", "failed"}, need : Nat, size : Nat]
      /\ reader.need \in 1 .. FRAME_LEN_BYTES /\ FRAME_LEN_BYTES \in Nat \ {0}
      /\ MAX_FRAME_SIZE \in Nat
      /\ read + reader.need = End(m) + FRAME_LEN_BYTES
      /\ m \in 0 .. Len(frames)
  BY <1>1, <1>3, LenProperties, FramingAssumption
  DEF FrameInv, FrameTypes, ReaderInv, FramesInOrder
<1>5. End(m) \in Nat
  BY <1>4, EndIsNat, Zenon DEF FrameInv
<1>6. /\ n \in Nat \ {0} /\ n <= reader.need /\ read + n <= written
      /\ read \in Nat /\ written \in Nat /\ read + n \in Nat
  BY <1>4, ReadCount, Zenon
<1>7. CASE n < reader.need /\ reader' = [reader EXCEPT !.need = @ - n] /\ UNCHANGED received
  <2>1. /\ reader'.at = "prefix" /\ reader'.need = reader.need - n
        /\ reader' \in [at : {"prefix", "payload", "failed"}, need : Nat, size : Nat]
    <3>1. reader.need - n \in Nat
      BY <1>4, <1>6, <1>7, SMTT(30)
    <3>2. QED
      BY <1>1, <1>4, <1>7, <3>1, Zenon
  <2>2. reader'.need \in 1 .. FRAME_LEN_BYTES /\ read' + reader'.need = End(m) + FRAME_LEN_BYTES
    <3>1. reader.need \in Nat /\ reader.need <= FRAME_LEN_BYTES /\ FRAME_LEN_BYTES \in Nat
      BY <1>4, FramingAssumption
    <3>2. n \in Nat /\ n < reader.need /\ read \in Nat /\ read' = read + n
      BY <1>2, <1>6, <1>7, Zenon
    <3>3. reader.need - n \in 1 .. FRAME_LEN_BYTES
      BY <3>1, <3>2
    <3>4. (read + n) + (reader.need - n) = read + reader.need
      BY <3>1, <3>2
    <3>5. QED
      BY <1>4, <2>1, <3>2, <3>3, <3>4, Zenon
  <2>3. read' \in Nat /\ read <= read' /\ read' <= written
    BY <1>2, <1>6
  <2>4. QED
    BY <1>1, <1>3, <1>7, <2>1, <2>2, <2>3, ReadOnKeeps, Zenon
<1>8. CASE /\ n = reader.need
           /\ \E size \in PrefixOrNoise(read' - FRAME_LEN_BYTES) :
                 \/ TooLarge(size)
                 \/ /\ 0 < size /\ size <= MAX_FRAME_SIZE
                    /\ reader' = [at |-> "payload", need |-> size, size |-> size]
                    /\ UNCHANGED received
                 \/ size = 0 /\ reader' = AtPrefix /\ Return(read', 0)
  <2> DEFINE size == frames[m + 1].len
  <2>1. read' = End(m) + FRAME_LEN_BYTES /\ read' - FRAME_LEN_BYTES = End(m) /\ End(m) < written
        /\ read' \in Nat /\ read <= read' /\ read' <= written
    BY <1>2, <1>4, <1>5, <1>6, <1>8
  <2>2. m < Len(frames) /\ PrefixOrNoise(End(m)) = {size}
    BY <1>3, <2>1, NextPrefix, Zenon
  <2>3. size \in Nat /\ End(m + 1) = End(m) + FRAME_LEN_BYTES + size
    <3>1. m + 1 \in 1 .. Len(frames) /\ (m + 1) - 1 = m
      BY <1>4, <2>2
    <3>2. frames[m + 1] \in [len : Nat, end : Nat]
      BY <3>1, ElementOfSeq, Zenon DEF FrameInv, FrameTypes
    <3>3. End(m + 1) = End(m) + (FRAME_LEN_BYTES + size)
      BY <3>1, Zenon DEF FrameInv, Ends, Size
    <3>4. QED
      BY <1>4, <1>5, <3>2, <3>3
  <2> HIDE DEF size
  <2>4. CASE TooLarge(size)
    <3>1. Failed \in [at : {"prefix", "payload", "failed"}, need : Nat, size : Nat]
          /\ Failed.at = "failed"
      BY Zenon DEF Failed
    <3>2. QED
      BY <1>1, <2>1, <2>4, <3>1, ReadOnKeeps, Zenon DEF TooLarge
  <2>5. CASE /\ 0 < size /\ size <= MAX_FRAME_SIZE
             /\ reader' = [at |-> "payload", need |-> size, size |-> size]
             /\ UNCHANGED received
    <3>1. /\ reader'.at = "payload" /\ reader'.need = size /\ reader'.size = size
          /\ reader' \in [at : {"prefix", "payload", "failed"}, need : Nat, size : Nat]
      BY <2>3, <2>5, Zenon
    <3>2. reader'.need \in 1 .. reader'.size /\ read' + reader'.need = End(m + 1)
      BY <2>1, <2>3, <2>5, <3>1
    <3>3. reader'.size = frames[Len(received) + 1].len /\ Len(received) < Len(frames)
      BY <1>3, <2>2, <3>1, Zenon DEF size
    <3>4. QED
      BY <1>1, <1>3, <2>1, <2>5, <3>1, <3>2, <3>3, ReadOnKeeps, Zenon
  <2>6. CASE size = 0 /\ reader' = AtPrefix /\ Return(read', 0)
    <3>1. read' = End(m + 1) /\ Return(End(m) + FRAME_LEN_BYTES, size) /\ size <= MAX_FRAME_SIZE
      BY <1>4, <1>5, <2>1, <2>3, <2>6
    <3>2. QED
      BY <1>1, <1>3, <2>1, <2>2, <2>6, <3>1, ReturnKeeps, Zenon DEF size
  <2>7. QED
    BY <1>8, <2>1, <2>2, <2>4, <2>5, <2>6, Zenon
<1>9. QED
  BY <1>2, <1>7, <1>8, Zenon

LEMMA ReadPayloadKeeps ==
    ASSUME FrameInv, ReadPayload
    PROVE  FrameInv'
<1>1. reader.at = "payload" /\ UNCHANGED <<direction, frames, written, writer>>
  BY Zenon DEF ReadPayload
<1>2. PICK n \in 1 .. Minimum(Available, reader.need) :
          /\ read' = read + n
          /\ \/ /\ n < reader.need
                /\ reader' = [reader EXCEPT !.need = @ - n] /\ UNCHANGED received
             \/ /\ n = reader.need
                /\ reader' = AtPrefix /\ Return(read' - reader.size, reader.size)
  BY Zenon DEF ReadPayload
<1>3. PICK m \in Nat : m = Len(received)
  BY LenProperties, Zenon DEF FrameInv, FrameTypes
<1>4. /\ reader \in [at : {"prefix", "payload", "failed"}, need : Nat, size : Nat]
      /\ m < Len(frames) /\ Len(frames) \in Nat
      /\ reader.size = frames[m + 1].len /\ reader.size <= MAX_FRAME_SIZE
      /\ reader.need \in 1 .. reader.size
      /\ read + reader.need = End(m + 1)
  BY <1>1, <1>3, LenProperties, Zenon DEF FrameInv, FrameTypes, ReaderInv
<1>5. ~ReadsFd
  BY <1>1 DEF FrameInv, ReaderInv, AtPrefix, Failed
<1>6. /\ n \in Nat \ {0} /\ n <= reader.need /\ read + n <= written
      /\ read \in Nat /\ written \in Nat /\ read + n \in Nat
  BY <1>4, ReadCount, Zenon
<1>7. read' \in Nat /\ read <= read' /\ read' <= written
  BY <1>2, <1>6
<1>8. CASE n < reader.need /\ reader' = [reader EXCEPT !.need = @ - n] /\ UNCHANGED received
  <2>1. /\ reader'.at = "payload" /\ reader'.need = reader.need - n /\ reader'.size = reader.size
        /\ reader' \in [at : {"prefix", "payload", "failed"}, need : Nat, size : Nat]
    <3>1. reader.need - n \in Nat
      BY <1>4, <1>6, <1>8, SMTT(30)
    <3>2. QED
      BY <1>1, <1>4, <1>8, <3>1, Zenon
  <2>2. reader'.need \in 1 .. reader'.size /\ read' + reader'.need = End(m + 1)
    <3>1. reader.need \in Nat /\ reader.size \in Nat /\ reader.need <= reader.size
      BY <1>4
    <3>2. n \in Nat /\ n < reader.need /\ read \in Nat /\ read' = read + n
      BY <1>2, <1>6, <1>8, Zenon
    <3>3. reader.need - n \in 1 .. reader.size
      BY <3>1, <3>2
    <3>4. (read + n) + (reader.need - n) = read + reader.need
      BY <3>1, <3>2
    <3>5. QED
      BY <1>4, <2>1, <3>2, <3>3, <3>4, Zenon
  <2>3. reader'.size = frames[Len(received) + 1].len /\ Len(received) < Len(frames)
        /\ reader'.size <= MAX_FRAME_SIZE
    BY <1>3, <1>4, <2>1, Zenon
  <2>4. QED
    BY <1>1, <1>3, <1>5, <1>7, <1>8, <2>1, <2>2, <2>3, ReadOnKeeps, Zenon
<1>9. CASE n = reader.need /\ reader' = AtPrefix /\ Return(read' - reader.size, reader.size)
  <2>1. read' = End(m + 1)
    BY <1>2, <1>4, <1>9, Zenon
  <2>2. read' - reader.size = End(m) + FRAME_LEN_BYTES
    <3>1. m + 1 \in 1 .. Len(frames) /\ (m + 1) - 1 = m /\ m \in 0 .. Len(frames)
      BY <1>4
    <3>2. End(m + 1) = End(m) + (FRAME_LEN_BYTES + reader.size)
      BY <1>4, <3>1, Zenon DEF FrameInv, Ends, Size
    <3>3. End(m) \in Nat /\ FRAME_LEN_BYTES \in Nat /\ reader.size \in Nat
      BY <1>4, <3>1, EndIsNat, FramingAssumption, SMTT(30) DEF FrameInv
    <3>4. QED
      BY <2>1, <3>2, <3>3
  <2>3. QED
    BY <1>1, <1>3, <1>4, <1>7, <1>9, <2>1, <2>2, ReturnKeeps, Zenon
<1>10. QED
  BY <1>2, <1>8, <1>9, Zenon

\* recvmsg takes no more than the first frame: no other is sent before it is read.
LEMMA RecvFrameWithFdKeeps ==
    ASSUME FrameInv, RecvFrameWithFd
    PROVE  FrameInv'
<1> DEFINE n == Minimum(Available, ANCILLARY_RECV_BUF)
<1>1. /\ ReadsFd /\ reader.at = "prefix" /\ Available > 0 /\ read' = read + n
      /\ UNCHANGED <<direction, frames, written, writer>>
      /\ \/ reader' = Failed /\ UNCHANGED received
         \/ /\ Size(frames[1].len) <= n
            /\ reader' = AtPrefix /\ Return(read + FRAME_LEN_BYTES, frames[1].len)
  BY Zenon DEF RecvFrameWithFd
<1>2. /\ Len(received) = 0 /\ WithFd /\ End(0) = 0
      /\ Len(frames) \in Nat /\ Len(frames) <= 1 /\ FRAME_LEN_BYTES \in Nat
      /\ ANCILLARY_RECV_BUF \in Nat
  BY <1>1, LenProperties, EmptySeq, FramingAssumption, Zenon
  DEF ReadsFd, WithFd, End, FrameInv, FrameTypes, ReaderInv
<1>3. read = 0 /\ written \in Nat
  <2>1. reader.need = FRAME_LEN_BYTES
    BY <1>1 DEF FrameInv, ReaderInv, AtPrefix, Failed
  <2>2. read + reader.need = End(0) + FRAME_LEN_BYTES /\ read \in Nat /\ written \in Nat
    BY <1>1, <1>2, Zenon DEF FrameInv, ReaderInv, FrameTypes
  <2>3. QED
    BY <1>2, <2>1, <2>2
<1>4. n \in Nat /\ n <= written /\ read' = n /\ written > 0
  BY <1>1, <1>2, <1>3 DEF Minimum, Available
<1> HIDE DEF n
<1>5. Len(frames) = 1
  <2>1. End(0) < written
    BY <1>2, <1>4, Zenon
  <2>2. 0 < Len(frames)
    BY <1>2, <2>1, NextPrefix
  <2>3. \A x \in Nat : x <= 1 /\ 0 < x => x = 1
    OBVIOUS
  <2>4. QED
    BY <1>2, <2>2, <2>3, Zenon
<1>6. End(1) = Size(frames[1].len) /\ End(1) \in Nat /\ written <= End(1)
  <2>1. 1 \in 1 .. Len(frames) /\ 1 \in 0 .. Len(frames) /\ 1 - 1 = 0
    BY <1>5
  <2>2. End(1) = End(0) + Size(frames[1].len) /\ End(1) \in Nat /\ written <= End(1)
    BY <1>5, <2>1, EndIsNat, Zenon DEF FrameInv, Ends, WriterInv
  <2>3. Size(frames[1].len) \in Nat
    <3>1. frames[1] \in [len : Nat, end : Nat]
      BY <2>1, ElementOfSeq, Zenon DEF FrameInv, FrameTypes
    <3>2. QED
      BY <1>2, <3>1 DEF Size
  <2>4. QED
    BY <1>2, <2>2, <2>3
<1>7. CASE reader' = Failed /\ UNCHANGED received
  <2>1. Failed \in [at : {"prefix", "payload", "failed"}, need : Nat, size : Nat]
        /\ Failed.at = "failed"
    BY Zenon DEF Failed
  <2>2. QED
    BY <1>1, <1>3, <1>4, <1>7, <2>1, ReadOnKeeps
<1>8. CASE /\ Size(frames[1].len) <= n
           /\ reader' = AtPrefix /\ Return(read + FRAME_LEN_BYTES, frames[1].len)
  <2>1. read' = End(1) /\ read' <= written
    BY <1>3, <1>4, <1>6, <1>8
  <2>2. Return(End(0) + FRAME_LEN_BYTES, frames[0 + 1].len) /\ read' = End(0 + 1)
        /\ 0 = Len(received) /\ 0 < Len(frames) /\ 0 \in Nat
    BY <1>2, <1>3, <1>5, <1>8, <2>1
  <2>3. QED
    BY <1>1, <1>2, <1>8, <2>1, <2>2, ReturnKeeps, Zenon
<1>9. QED
  BY <1>1, <1>7, <1>8, Zenon

LEMMA ReadEofKeeps ==
    ASSUME FrameInv, ReadEof
    PROVE  FrameInv'
<1>1. reader' = Failed /\ UNCHANGED <<direction, frames, written, read, writer, received>>
  BY Zenon DEF ReadEof
<1>2. Failed \in [at : {"prefix", "payload", "failed"}, need : Nat, size : Nat]
      /\ Failed.at = "failed"
  BY Zenon DEF Failed
<1>3. read' \in Nat /\ read <= read' /\ read' <= written
  <2>1. read' = read /\ read \in Nat /\ read <= written
    BY <1>1, Zenon DEF FrameInv, FrameTypes, ReaderInv
  <2>2. QED
    BY <2>1
<1>4. QED
  BY <1>1, <1>2, <1>3, ReadOnKeeps, Zenon

LEMMA FrameNextInv ==
    ASSUME FrameInv, [StreamNext]_streamVars
    PROVE  FrameInv'
<1>1. CASE UNCHANGED streamVars
  <2>1. UNCHANGED <<direction, frames, written, read, writer, reader, received>>
    BY <1>1, Zenon DEF streamVars
  <2>2. \A k : End(k)' = End(k)
    BY <2>1, EndRests, Zenon
  <2>3. FrameTypes' /\ Ends' /\ WriterInv'
    BY <2>1, <2>2, SMTT(30) DEF FrameInv, FrameTypes, Ends, Size, WriterInv
  <2>4. ReaderInv' /\ FramesInOrder'
    BY <2>1, <2>2, Zenon DEF FrameInv, ReaderInv, ReadsFd, WithFd, FramesInOrder
  <2>5. QED
    BY <2>3, <2>4, Zenon DEF FrameInv
<1>2. CASE \E len \in Lengths : WriteFramed(len) \/ SendFrameWithFd(len)
  BY <1>2, SendKeeps, Zenon
<1>3. CASE WriteSome \/ CloseWriter
  BY <1>3, WriteSomeKeeps, CloseWriterKeeps, Zenon
<1>4. CASE Read
  BY <1>4, ReadPrefixKeeps, ReadPayloadKeeps, RecvFrameWithFdKeeps, ReadEofKeeps, Zenon DEF Read
<1>5. QED
  BY <1>1, <1>2, <1>3, <1>4, Zenon DEF StreamNext

(* Frames come out of the socket as they went in, each once, whole and in  *)
(* order, however the kernel cuts the bytes and wherever a side stops; one *)
(* that is too large is not returned, nor is any behind it (write_framed   *)
(* and read_framed; send_frame_with_fd and recv_frame_with_fd for the      *)
(* first reply).                                                           *)
THEOREM FramesComeInOrder == StreamSpec => []FramesInOrder
<1>1. StreamInit => FrameInv
  BY FrameInitInv, Zenon
<1>2. FrameInv /\ [StreamNext]_streamVars => FrameInv'
  BY FrameNextInv, Zenon
<1>3. FrameInv => FramesInOrder
  BY Zenon DEF FrameInv
<1>4. QED
  BY <1>1, <1>2, <1>3, PTL DEF StreamSpec
=============================================================================
