-------------------------- MODULE Delivery_proofs ---------------------------
(***************************************************************************)
(* Proofs about Delivery: no wakeup is lost, frames are delivered in       *)
(* order, the queues keep the newest updates, and a reader takes its ring  *)
(* for closed only when its entry is removed, for any number of tasks, any *)
(* frames, any ring and queue capacity.                                    *)
(***************************************************************************)
EXTENDS Delivery, TLAPS

(* Facts about the three ways in which the ring changes.                   *)

\* Append: one element more at the end, the others stay.
LEMMA AppendFacts ==
    ASSUME NEW S, NEW s \in Seq(S), NEW e \in S
    PROVE  /\ Append(s, e) \in Seq(S)
           /\ Len(Append(s, e)) = Len(s) + 1
           /\ Append(s, e) # <<>>
           /\ \A i \in 1 .. Len(s) : Append(s, e)[i] = s[i]
           /\ Append(s, e)[Len(s) + 1] = e
  OBVIOUS

\* Tail: the first element gone, the others one place earlier.
LEMMA TailFacts ==
    ASSUME NEW S, NEW s \in Seq(S), s # <<>>
    PROVE  /\ Tail(s) \in Seq(S)
           /\ Len(s) \in Nat \ {0} /\ Len(Tail(s)) = Len(s) - 1
           /\ Head(s) = s[1] /\ Head(s) \in S
           /\ \A i \in 1 .. Len(Tail(s)) : Tail(s)[i] = s[i + 1]
  OBVIOUS

\* try_pop's first half, applied to the ring: the frames stay what they were.
LEMMA PrefixRead ==
    ASSUME DeliveryAssumption, TypeOK, SizeInv, reader = "pop",
           ring # <<>>, Head(ring).kind # "close",
           ring' = [ring EXCEPT ![1].size = @ - FRAME_LEN_BYTES]
    PROVE  /\ ring' \in Seq(Frame) /\ Len(ring') = Len(ring) /\ ring' # <<>>
           /\ \A i \in 1 .. Len(ring) : ring'[i].kind = ring[i].kind /\ ring'[i].id = ring[i].id
           /\ \A i \in 1 .. Len(ring) : i > 1 => ring'[i] = ring[i]
           /\ Head(ring').kind # "close"
  <1>1. ring \in Seq(Frame) /\ FRAME_LEN_BYTES \in Nat
    BY Zenon DEF TypeOK, DeliveryAssumption
  <1>2. Head(ring) = ring[1] /\ ring[1] \in Frame /\ Len(ring) \in Nat \ {0}
    BY <1>1, TailFacts, Zenon
  <1>3. ring[1].size > FRAME_LEN_BYTES
    BY <1>2 DEF SizeInv
  <1>4. ring[1].size >= FRAME_LEN_BYTES
    BY <1>1, <1>2, <1>3 DEF Frame
  <1>5. [ring[1] EXCEPT !.size = @ - FRAME_LEN_BYTES] \in Frame
    BY <1>1, <1>2, <1>4, SMTT(40) DEF Frame
  <1>6. /\ DOMAIN ring = 1 .. Len(ring) /\ DOMAIN ring' = 1 .. Len(ring)
        /\ ring'[1] = [ring[1] EXCEPT !.size = @ - FRAME_LEN_BYTES]
        /\ 1 \in 1 .. Len(ring)
    BY <1>1, <1>2
  <1>7. \A i \in 1 .. Len(ring) : i > 1 => ring'[i] = ring[i]
    BY <1>1, <1>6
  <1>8. ring'[1].kind = ring[1].kind /\ ring'[1].id = ring[1].id
    BY <1>2, <1>6, Zenon DEF Frame
  <1>9. ring' \in [1 .. Len(ring) -> Frame]
    BY <1>1, <1>5, <1>6, <1>7
  <1>10. ring' \in Seq(Frame) /\ Len(ring') = Len(ring) /\ ring' # <<>>
    BY <1>2, <1>9
  <1>11. Head(ring').kind # "close"
    BY <1>2, <1>8, <1>10, TailFacts, Zenon
  <1> QED
    BY <1>2, <1>7, <1>8, <1>10, <1>11

-----------------------------------------------------------------------------
(* Types.                                                                  *)

\* Writing a frame or a sentinel keeps the types and the sizes in the ring.
LEMMA WriteType ==
    ASSUME TypeOK, SizeInv, NEW kind \in Kinds \cup {"close"}, NEW size \in Nat,
           kind # "close" => size > FRAME_LEN_BYTES,
           Append1(kind, size), UNCHANGED reader
    PROVE  /\ ring' \in Seq(Frame) /\ log' \in Seq(Kinds \cup {"close"})
           /\ SizeInv'
  <1> DEFINE e == [kind |-> kind, size |-> size, id |-> Len(log) + 1]
  <1>1. ring \in Seq(Frame) /\ log \in Seq(Kinds \cup {"close"}) /\ e \in Frame
    BY DEF TypeOK, Frame
  <1>2. /\ ring' = Append(ring, e) /\ ring' \in Seq(Frame)
        /\ Len(ring') = Len(ring) + 1 /\ ring'[Len(ring) + 1] = e
        /\ \A i \in 1 .. Len(ring) : ring'[i] = ring[i]
    BY <1>1, AppendFacts DEF Append1
  <1>3. log' \in Seq(Kinds \cup {"close"})
    BY <1>1, AppendFacts, Zenon DEF Append1
  <1>4. SizeInv'
    <2> SUFFICES ASSUME NEW i \in 1 .. Len(ring'), ring'[i].kind # "close",
                        i > 1 \/ reader' \notin {"body", "done"}
                 PROVE  ring'[i].size > FRAME_LEN_BYTES
      BY Zenon DEF SizeInv
    <2>1. Len(ring) \in Nat /\ (i \in 1 .. Len(ring) \/ i = Len(ring) + 1)
      BY <1>1, <1>2
    <2>2. CASE i \in 1 .. Len(ring)
      BY <1>2, <2>2, Zenon DEF SizeInv
    <2>3. CASE i = Len(ring) + 1
      BY <1>2, <2>3
    <2> QED
      BY <2>1, <2>2, <2>3, Zenon
  <1> QED
    BY <1>2, <1>3, <1>4, Zenon

\* Every step keeps TypeOK and SizeInv.
LEMMA TypeStep ==
    ASSUME DeliveryAssumption, TypeOK, SizeInv, OrderInv, Next
    PROVE  TypeOK' /\ SizeInv'
  <1>1. ASSUME NEW t \in Tasks, Load(t) PROVE TypeOK' /\ SizeInv'
    BY <1>1, Zenon DEF Load, TypeOK, SizeInv, Goto, Release, Signal, eventVars, readerVars,
       Registered
  <1>2. ASSUME NEW t \in Tasks, Skip(t) PROVE TypeOK' /\ SizeInv'
    BY <1>2, Zenon DEF Skip, TypeOK, SizeInv, Goto, Release, Signal, eventVars, readerVars,
       Registered
  <1>3. ASSUME NEW t \in Tasks, Stale(t) PROVE TypeOK' /\ SizeInv'
    BY <1>3, Zenon DEF Stale, TypeOK, SizeInv, Goto, Release, Signal, eventVars, readerVars,
       Registered
  <1>4. ASSUME NEW t \in Tasks, Notify(t) PROVE TypeOK' /\ SizeInv'
    BY <1>4 DEF Notify, TypeOK, SizeInv, Goto, Release, Signal, eventVars, readerVars, Registered
  <1>5. ASSUME NEW t \in Tasks, EvictLoad(t) PROVE TypeOK' /\ SizeInv'
    BY <1>5, Zenon DEF EvictLoad, TypeOK, SizeInv, Goto, Release, Signal, eventVars, readerVars,
       Registered
  <1>6. ASSUME NEW t \in Tasks, CloseNotify(t) PROVE TypeOK' /\ SizeInv'
    BY <1>6 DEF CloseNotify, TypeOK, SizeInv, Goto, Release, Signal, eventVars, readerVars,
       Registered
  <1>7. ASSUME NEW t \in Tasks, SwapOut(t) PROVE TypeOK' /\ SizeInv'
    BY <1>7, Zenon DEF SwapOut, TypeOK, SizeInv, Goto, Release, Signal, eventVars, readerVars,
       Registered
  <1>8. ASSUME Open PROVE TypeOK' /\ SizeInv'
    BY <1>8, Zenon DEF Open, TypeOK, SizeInv, senderVars, eventVars, readerVars, Registered
  <1>9. ASSUME Register PROVE TypeOK' /\ SizeInv'
    BY <1>9, Zenon DEF Register, TypeOK, SizeInv, senderVars, eventVars, readerVars, Registered
  <1>10. ASSUME Check PROVE TypeOK' /\ SizeInv'
    BY <1>10, Zenon DEF Check, TypeOK, SizeInv, senderVars, eventVars, readerVars, Registered
  <1>11. ASSUME Wait PROVE TypeOK' /\ SizeInv'
    BY <1>11, Zenon DEF Wait, TypeOK, SizeInv, senderVars, eventVars, readerVars, Registered
  <1>12. ASSUME Drain PROVE TypeOK' /\ SizeInv'
    BY <1>12, Zenon DEF Drain, TypeOK, SizeInv, senderVars, eventVars, readerVars, Registered
  <1>13. ASSUME Clear PROVE TypeOK' /\ SizeInv'
    BY <1>13, Zenon DEF Clear, TypeOK, SizeInv, senderVars, eventVars, readerVars, Registered
  <1>14. ASSUME Collect PROVE TypeOK' /\ SizeInv'
    BY <1>14, Zenon DEF Collect, TypeOK, SizeInv, senderVars, eventVars, readerVars, Registered
  <1>15. ASSUME Disappear PROVE TypeOK' /\ SizeInv'
    BY <1>15, Zenon DEF Disappear, TypeOK, SizeInv, senderVars, eventVars, readerVars, Registered
  <1>16. ASSUME NEW t \in Tasks, NEW f \in Frames, Push(t, f) PROVE TypeOK' /\ SizeInv'
    <2>1. f.kind \in Kinds /\ f.kind # "close" /\ f.size \in Nat /\ f.size > FRAME_LEN_BYTES
      BY Zenon DEF DeliveryAssumption
    <2>2. UNCHANGED reader
      BY <1>16, Zenon DEF Push, readerVars
    <2>3. ring' \in Seq(Frame) /\ log' \in Seq(Kinds \cup {"close"}) /\ SizeInv'
      <3>1. CASE Append1(f.kind, f.size)
        BY <2>1, <2>2, <3>1, WriteType, Zenon
      <3>2. CASE UNCHANGED <<ring, log>>
        BY <2>2, <3>2, Zenon DEF TypeOK, SizeInv
      <3> QED
        BY <1>16, <3>1, <3>2, Zenon DEF Push
    <2> QED
      BY <1>16, <2>3, SMTT(30) DEF Push, TypeOK, Goto, eventVars, readerVars
  <1>17. ASSUME NEW t \in Tasks, CloseRing(t) PROVE TypeOK' /\ SizeInv'
    <2>1. UNCHANGED reader /\ FRAME_LEN_BYTES \in Nat
      BY <1>17, Zenon DEF CloseRing, readerVars, DeliveryAssumption
    <2>2. ring' \in Seq(Frame) /\ log' \in Seq(Kinds \cup {"close"}) /\ SizeInv'
      <3>1. CASE Append1("close", FRAME_LEN_BYTES)
        BY <2>1, <3>1, WriteType, Zenon
      <3>2. CASE UNCHANGED <<ring, log>>
        BY <2>1, <3>2, Zenon DEF TypeOK, SizeInv
      <3> QED
        BY <1>17, <3>1, <3>2, Zenon DEF CloseRing
    <2> QED
      BY <1>17, <2>2, Zenon DEF CloseRing, TypeOK, Goto, eventVars, readerVars
  <1>18. ASSUME PopHeader PROVE TypeOK' /\ SizeInv'
    <2>1. CASE ring = <<>> /\ UNCHANGED <<ring, closed>> /\ reader' = "check"
      BY <1>18, <2>1, Zenon DEF PopHeader, TypeOK, SizeInv, senderVars, eventVars, Registered
    <2>2. CASE ring # <<>> /\ ring' = Tail(ring) /\ closed' = TRUE /\ reader' = "check"
      <3>1. reader = "pop" /\ ring \in Seq(Frame)
        BY <1>18, Zenon DEF PopHeader, TypeOK
      <3>2. /\ ring' \in Seq(Frame) /\ Len(ring) \in Nat /\ Len(ring') = Len(ring) - 1
            /\ \A i \in 1 .. Len(ring') : ring'[i] = ring[i + 1]
        BY <2>2, <3>1, TailFacts, Zenon
      <3>3. SizeInv'
        BY <3>1, <3>2, <2>2 DEF SizeInv
      <3> QED
        BY <1>18, <2>2, <3>2, <3>3, Zenon DEF PopHeader, TypeOK, senderVars, eventVars, Registered
    <2>3. CASE /\ ring # <<>> /\ Head(ring).kind # "close" /\ UNCHANGED closed
               /\ ring' = [ring EXCEPT ![1].size = @ - FRAME_LEN_BYTES]
               /\ reader' = "body"
      <3>1. reader = "pop" /\ ring \in Seq(Frame) /\ Len(ring) \in Nat
        BY <1>18 DEF PopHeader, TypeOK
      <3>2. /\ ring' \in Seq(Frame) /\ Len(ring') = Len(ring)
            /\ \A i \in 1 .. Len(ring) : i > 1 => ring'[i] = ring[i]
        BY <2>3, <3>1, PrefixRead, Zenon
      <3>3. SizeInv'
        BY <2>3, <3>1, <3>2, Zenon DEF SizeInv
      <3> QED
        BY <1>18, <2>3, <3>2, <3>3, Zenon DEF PopHeader, TypeOK, senderVars, eventVars, Registered
    <2> QED
      BY <1>18, <2>1, <2>2, <2>3, Zenon DEF PopHeader
  <1>19. ASSUME PopBody PROVE TypeOK' /\ SizeInv'
    <2>1. reader = "body" /\ ring # <<>> /\ Head(ring).kind # "close" /\ ring \in Seq(Frame)
      BY <1>19, Zenon DEF PopBody, OrderInv, TypeOK
    <2>2. /\ ring' \in Seq(Frame) /\ Len(ring) \in Nat /\ Len(ring') = Len(ring) - 1
          /\ \A i \in 1 .. Len(ring') : ring'[i] = ring[i + 1]
          /\ Head(ring) \in Frame
      BY <1>19, <2>1, TailFacts, Zenon DEF PopBody
    <2>3. Head(ring).id \in Nat /\ Head(ring).kind \in Kinds
      BY <2>1, <2>2, Zenon DEF Frame
    <2>4. SizeInv'
      BY <1>19, <2>1, <2>2 DEF SizeInv, PopBody
    <2>5. delivered' \in Seq(Nat)
      BY <1>19, <2>3, AppendFacts, Zenon DEF PopBody, TypeOK
    <2>6. queue' \in [Kinds -> Seq(Nat)]
      <3>1. ASSUME NEW q \in Seq(Nat), NEW e \in Nat PROVE force_push(q, e) \in Seq(Nat)
        <4>1. CASE Len(q) < QueueCapacity
          BY <4>1, AppendFacts, Zenon DEF force_push
        <4>2. CASE ~(Len(q) < QueueCapacity)
          <5>1. q # <<>>
            BY <4>2 DEF DeliveryAssumption
          <5>2. Tail(q) \in Seq(Nat)
            BY <5>1, TailFacts, Zenon
          <5> QED
            BY <4>2, <5>2, AppendFacts, Zenon DEF force_push
        <4> QED
          BY <4>1, <4>2, Zenon
      <3> QED
        BY <1>19, <2>3, <3>1, Zenon DEF PopBody, TypeOK
    <2> QED
      BY <1>19, <2>2, <2>4, <2>5, <2>6, ZenonT(30) DEF PopBody, TypeOK, senderVars, eventVars,
         Registered
  <1>20. ASSUME NEW k \in Kinds, Take(k) PROVE TypeOK' /\ SizeInv'
    <2>1. queue' \in [Kinds -> Seq(Nat)]
      BY <1>20, TailFacts, Zenon DEF Take, TypeOK
    <2> QED
      BY <1>20, <2>1 DEF Take, TypeOK, SizeInv, senderVars, eventVars
  <1>21. ASSUME ReaderFails PROVE TypeOK' /\ SizeInv'
    BY <1>21, Zenon DEF ReaderFails, TypeOK, SizeInv, senderVars, eventVars, Registered
  <1> QED
    BY <1>1, <1>2, <1>3, <1>4, <1>5, <1>6, <1>7, <1>8, <1>9, <1>10, <1>11, <1>12, <1>13,
       <1>14, <1>15, <1>16, <1>17, <1>18, <1>19, <1>20, <1>21, ZenonT(30)
    DEF Next, TaskStep, ReaderStep
-----------------------------------------------------------------------------
(* One lemma per conjunct of the invariant, one step per action.           *)

\* Every step keeps the wakeup on its way.
LEMMA WakeStep ==
    ASSUME DeliveryAssumption, TypeOK, SizeInv, WakeInv, CloseInv, OrderInv, Next
    PROVE  WakeInv'
  <1>1. ASSUME NEW t \in Tasks, Load(t) PROVE WakeInv'
    BY <1>1, Zenon DEF Load, WakeInv, Goto, Release, Signal, Registered, senderVars, eventVars,
       readerVars, TypeOK
  <1>2. ASSUME NEW t \in Tasks, Skip(t) PROVE WakeInv'
    BY <1>2, Zenon DEF Skip, WakeInv, Goto, Release, Signal, Registered, senderVars, eventVars,
       readerVars, TypeOK
  <1>3. ASSUME NEW t \in Tasks, Stale(t) PROVE WakeInv'
    BY <1>3, Zenon DEF Stale, WakeInv, Goto, Release, Signal, Registered, senderVars, eventVars,
       readerVars, TypeOK
  <1>4. ASSUME NEW t \in Tasks, Notify(t) PROVE WakeInv'
    BY <1>4, Zenon DEF Notify, WakeInv, Goto, Release, Signal, Registered, senderVars, eventVars,
       readerVars, TypeOK
  <1>5. ASSUME NEW t \in Tasks, EvictLoad(t) PROVE WakeInv'
    BY <1>5, Zenon DEF EvictLoad, WakeInv, Goto, Release, Signal, Registered, senderVars,
       eventVars, readerVars, TypeOK
  <1>6. ASSUME NEW t \in Tasks, CloseRing(t) PROVE WakeInv'
    BY <1>6, Zenon DEF CloseRing, WakeInv, Goto, Release, Signal, Registered, senderVars,
       eventVars, readerVars, TypeOK
  <1>7. ASSUME NEW t \in Tasks, CloseNotify(t) PROVE WakeInv'
    BY <1>7, Zenon DEF CloseNotify, WakeInv, Goto, Release, Signal, Registered, senderVars,
       eventVars, readerVars, TypeOK
  <1>8. ASSUME NEW t \in Tasks, SwapOut(t) PROVE WakeInv'
    BY <1>8, Zenon DEF SwapOut, WakeInv, Goto, Release, Signal, Registered, senderVars,
       eventVars, readerVars, TypeOK
  <1>9. ASSUME NEW t \in Tasks, NEW f \in Frames, Push(t, f) PROVE WakeInv'
    BY <1>9, Zenon DEF Push, WakeInv, Goto, Release, Signal, Registered, senderVars, eventVars,
       readerVars, TypeOK
  <1>10. ASSUME Open PROVE WakeInv'
    BY <1>10, Zenon DEF Open, WakeInv, Goto, Release, Signal, Registered, senderVars, eventVars,
       readerVars, TypeOK
  <1>11. ASSUME Register PROVE WakeInv'
    BY <1>11, Zenon DEF Register, WakeInv, Goto, Release, Signal, Registered, senderVars,
       eventVars, readerVars, TypeOK
  <1>12. ASSUME PopHeader PROVE WakeInv'
    BY <1>12, Zenon DEF PopHeader, WakeInv, Goto, Release, Signal, Registered, senderVars,
       eventVars, readerVars, TypeOK
  <1>13. ASSUME PopBody PROVE WakeInv'
    BY <1>13, Zenon DEF PopBody, WakeInv, Goto, Release, Signal, Registered, senderVars,
       eventVars, readerVars, TypeOK
  <1>14. ASSUME Check PROVE WakeInv'
    BY <1>14, Zenon DEF Check, WakeInv, Goto, Release, Signal, Registered, senderVars, eventVars,
       readerVars, TypeOK
  <1>15. ASSUME Wait PROVE WakeInv'
    BY <1>15, Zenon DEF Wait, WakeInv, Goto, Release, Signal, Registered, senderVars, eventVars,
       readerVars, TypeOK
  <1>16. ASSUME Drain PROVE WakeInv'
    BY <1>16, Zenon DEF Drain, WakeInv, Goto, Release, Signal, Registered, senderVars, eventVars,
       readerVars, TypeOK
  <1>17. ASSUME Clear PROVE WakeInv'
    BY <1>17, Zenon DEF Clear, WakeInv, Goto, Release, Signal, Registered, senderVars, eventVars,
       readerVars, TypeOK
  <1>18. ASSUME Collect PROVE WakeInv'
    BY <1>18, Zenon DEF Collect, WakeInv, Goto, Release, Signal, Registered, senderVars,
       eventVars, readerVars, TypeOK
  <1>19. ASSUME Disappear PROVE WakeInv'
    BY <1>19, Zenon DEF Disappear, WakeInv, Goto, Release, Signal, Registered, senderVars,
       eventVars, readerVars, TypeOK
  <1>20. ASSUME NEW k \in Kinds, Take(k) PROVE WakeInv'
    BY <1>20, Zenon DEF Take, WakeInv, Goto, Release, Signal, Registered, senderVars, eventVars,
       readerVars, TypeOK
  <1>21. ASSUME ReaderFails PROVE WakeInv'
    BY <1>21, Zenon DEF ReaderFails, WakeInv, Registered, senderVars, eventVars
  <1> QED
    BY <1>1, <1>2, <1>3, <1>4, <1>5, <1>6, <1>7, <1>8, <1>9, <1>10, <1>11, <1>12, <1>13,
       <1>14, <1>15, <1>16, <1>17, <1>18, <1>19, <1>20, <1>21, ZenonT(30)
    DEF Next, TaskStep, ReaderStep

\* Every step that could end the reader is one of a task that removes the entry.
LEMMA CloseStep ==
    ASSUME DeliveryAssumption, TypeOK, SizeInv, WakeInv, CloseInv, OrderInv, Next
    PROVE  CloseInv'
  <1>1. ASSUME NEW t \in Tasks, Load(t) PROVE CloseInv'
    BY <1>1, Zenon DEF Load, CloseInv, EndsOnlyWhenEvicted, Closing, Goto, Release, Signal,
       Registered, senderVars, eventVars, readerVars, TypeOK
  <1>2. ASSUME NEW t \in Tasks, Skip(t) PROVE CloseInv'
    BY <1>2, Zenon DEF Skip, CloseInv, EndsOnlyWhenEvicted, Closing, Goto, Release, Signal,
       Registered, senderVars, eventVars, readerVars, TypeOK
  <1>3. ASSUME NEW t \in Tasks, Stale(t) PROVE CloseInv'
    BY <1>3, Zenon DEF Stale, CloseInv, EndsOnlyWhenEvicted, Closing, Goto, Release, Signal,
       Registered, senderVars, eventVars, readerVars, TypeOK
  <1>4. ASSUME NEW t \in Tasks, Notify(t) PROVE CloseInv'
    BY <1>4, Zenon DEF Notify, CloseInv, EndsOnlyWhenEvicted, Closing, Goto, Release, Signal,
       Registered, senderVars, eventVars, readerVars, TypeOK
  <1>5. ASSUME NEW t \in Tasks, EvictLoad(t) PROVE CloseInv'
    BY <1>5, Zenon DEF EvictLoad, CloseInv, EndsOnlyWhenEvicted, Closing, Goto, Release, Signal,
       Registered, senderVars, eventVars, readerVars, TypeOK
  <1>6. ASSUME NEW t \in Tasks, CloseRing(t) PROVE CloseInv'
    BY <1>6, Zenon DEF CloseRing, CloseInv, EndsOnlyWhenEvicted, Closing, Goto, Release, Signal,
       Registered, senderVars, eventVars, readerVars, TypeOK
  <1>7. ASSUME NEW t \in Tasks, CloseNotify(t) PROVE CloseInv'
    BY <1>7, Zenon DEF CloseNotify, CloseInv, EndsOnlyWhenEvicted, Closing, Goto, Release,
       Signal, Registered, senderVars, eventVars, readerVars, TypeOK
  <1>8. ASSUME NEW t \in Tasks, SwapOut(t) PROVE CloseInv'
    BY <1>8, Zenon DEF SwapOut, CloseInv, EndsOnlyWhenEvicted, Closing, Goto, Release, Signal,
       Registered, senderVars, eventVars, readerVars, TypeOK
  <1>9. ASSUME NEW t \in Tasks, NEW f \in Frames, Push(t, f) PROVE CloseInv'
    <2>1. UNCHANGED <<installed, linked, reader, closed, gone>> /\ Closing \subseteq Closing'
      BY <1>9, Zenon DEF Push, Goto, Closing, readerVars, TypeOK
    <2>2. ASSUME NEW i \in 1 .. Len(ring'), ring'[i].kind = "close"
          PROVE  \E j \in 1 .. Len(ring) : ring[j].kind = "close"
      <3>1. CASE UNCHANGED ring
        BY <2>2, <3>1, Zenon
      <3>2. CASE Append1(f.kind, f.size)
        <4> DEFINE e == [kind |-> f.kind, size |-> f.size, id |-> Len(log) + 1]
        <4>1. ring \in Seq(Frame) /\ e \in Frame /\ e.kind # "close" /\ ring' = Append(ring, e)
          BY <3>2 DEF TypeOK, Frame, DeliveryAssumption, Append1
        <4>2. /\ Len(ring') = Len(ring) + 1 /\ ring'[Len(ring) + 1] = e
              /\ \A j \in 1 .. Len(ring) : ring'[j] = ring[j]
          BY <4>1, AppendFacts
        <4>3. Len(ring) \in Nat /\ i # Len(ring) + 1
          BY <2>2, <4>1, <4>2
        <4> QED
          BY <2>2, <4>2, <4>3
      <3> QED
        BY <1>9, <3>1, <3>2, Zenon DEF Push
    <2> QED
      BY <2>1, <2>2, Zenon DEF CloseInv, EndsOnlyWhenEvicted, Closing
  <1>10. ASSUME Open PROVE CloseInv'
    BY <1>10, Zenon DEF Open, CloseInv, EndsOnlyWhenEvicted, Closing, Goto, Release, Signal,
       Registered, senderVars, eventVars, readerVars, TypeOK
  <1>11. ASSUME Register PROVE CloseInv'
    BY <1>11, Zenon DEF Register, CloseInv, EndsOnlyWhenEvicted, Closing, Goto, Release, Signal,
       Registered, senderVars, eventVars, readerVars, TypeOK
  <1>12. ASSUME PopHeader PROVE CloseInv'
    <2>1. /\ UNCHANGED <<installed, linked, task, gone>>
          /\ reader = "pop" /\ reader' # "done" /\ ring \in Seq(Frame)
      BY <1>12, Zenon DEF PopHeader, senderVars, TypeOK
    <2>2. ASSUME closed' \/ \E i \in 1 .. Len(ring') : ring'[i].kind = "close"
          PROVE  closed \/ \E i \in 1 .. Len(ring) : ring[i].kind = "close"
      <3>1. CASE UNCHANGED <<ring, closed>>
        BY <2>2, <3>1, Zenon
      <3>2. CASE ring # <<>> /\ Head(ring).kind = "close"
        <4>1. Head(ring) = ring[1] /\ Len(ring) \in Nat \ {0}
          BY <2>1, <3>2, TailFacts, Zenon
        <4> QED
          BY <3>2, <4>1
      <3>3. CASE /\ ring # <<>> /\ Head(ring).kind # "close" /\ UNCHANGED closed
                 /\ ring' = [ring EXCEPT ![1].size = @ - FRAME_LEN_BYTES]
        <4>1. /\ Len(ring') = Len(ring)
              /\ \A i \in 1 .. Len(ring) : ring'[i].kind = ring[i].kind
          BY <2>1, <3>3, PrefixRead, Zenon
        <4> QED
          BY <2>2, <3>3, <4>1, Zenon
      <3> QED
        BY <1>12, <3>1, <3>2, <3>3, ZenonT(30) DEF PopHeader
    <2> QED
      BY <2>1, <2>2, Zenon DEF CloseInv, EndsOnlyWhenEvicted, Closing
  <1>13. ASSUME PopBody PROVE CloseInv'
    BY <1>13 DEF PopBody, CloseInv, EndsOnlyWhenEvicted, Closing, Goto, Release, Signal,
       Registered, senderVars, eventVars, readerVars, TypeOK
  <1>14. ASSUME Check PROVE CloseInv'
    BY <1>14, Zenon DEF Check, CloseInv, EndsOnlyWhenEvicted, Closing, Goto, Release, Signal,
       Registered, senderVars, eventVars, readerVars, TypeOK
  <1>15. ASSUME Wait PROVE CloseInv'
    BY <1>15, Zenon DEF Wait, CloseInv, EndsOnlyWhenEvicted, Closing, Goto, Release, Signal,
       Registered, senderVars, eventVars, readerVars, TypeOK
  <1>16. ASSUME Drain PROVE CloseInv'
    BY <1>16, Zenon DEF Drain, CloseInv, EndsOnlyWhenEvicted, Closing, Goto, Release, Signal,
       Registered, senderVars, eventVars, readerVars, TypeOK
  <1>17. ASSUME Clear PROVE CloseInv'
    BY <1>17, Zenon DEF Clear, CloseInv, EndsOnlyWhenEvicted, Closing, Goto, Release, Signal,
       Registered, senderVars, eventVars, readerVars, TypeOK
  <1>18. ASSUME Collect PROVE CloseInv'
    BY <1>18, Zenon DEF Collect, CloseInv, EndsOnlyWhenEvicted, Closing, Goto, Release, Signal,
       Registered, senderVars, eventVars, readerVars, TypeOK
  <1>19. ASSUME Disappear PROVE CloseInv'
    BY <1>19, Zenon DEF Disappear, CloseInv, EndsOnlyWhenEvicted, Closing, Goto, Release, Signal,
       Registered, senderVars, eventVars, readerVars, TypeOK
  <1>20. ASSUME NEW k \in Kinds, Take(k) PROVE CloseInv'
    BY <1>20, Zenon DEF Take, CloseInv, EndsOnlyWhenEvicted, Closing, Goto, Release, Signal,
       Registered, senderVars, eventVars, readerVars, TypeOK
  <1>21. ASSUME ReaderFails PROVE CloseInv'
    BY <1>21, Zenon DEF ReaderFails, CloseInv, EndsOnlyWhenEvicted, Closing, senderVars
  <1> QED
    BY <1>1, <1>2, <1>3, <1>4, <1>5, <1>6, <1>7, <1>8, <1>9, <1>10, <1>11, <1>12, <1>13,
       <1>14, <1>15, <1>16, <1>17, <1>18, <1>19, <1>20, <1>21, SMTT(30)
    DEF Next, TaskStep, ReaderStep
-----------------------------------------------------------------------------
(* The order of delivery.                                                  *)

\* A step that neither writes nor reads keeps the order.
LEMMA OrderFrame ==
    ASSUME OrderInv, UNCHANGED <<ring, log, delivered, closed>>,
           reader' = "body" => reader = "body",
           closed => reader' \in {"check", "done"}
    PROVE  OrderInv'
  BY Zenon DEF OrderInv, DeliveredInOrder

\* A write adds to the end of the ring and of the log.
LEMMA WriteOrder ==
    ASSUME TypeOK, OrderInv, NEW kind \in Kinds \cup {"close"}, NEW size \in Nat,
           Append1(kind, size), UNCHANGED <<reader, closed, delivered>>
    PROVE  OrderInv'
  <1> DEFINE e == [kind |-> kind, size |-> size, id |-> Len(log) + 1]
  <1>1. /\ ring \in Seq(Frame) /\ log \in Seq(Kinds \cup {"close"}) /\ e \in Frame
        /\ delivered \in Seq(Nat)
        /\ e.kind = kind /\ e.id = Len(log) + 1
    BY DEF TypeOK, Frame
  <1>2. /\ ring' = Append(ring, e) /\ Len(ring') = Len(ring) + 1 /\ ring' # <<>>
        /\ ring'[Len(ring) + 1] = e /\ \A i \in 1 .. Len(ring) : ring'[i] = ring[i]
        /\ Len(ring) \in Nat
    BY <1>1, AppendFacts DEF Append1
  <1>3. /\ Len(log') = Len(log) + 1 /\ log'[Len(log) + 1] = kind
        /\ \A i \in 1 .. Len(log) : log'[i] = log[i]
        /\ Len(log) \in Nat /\ Len(delivered) \in Nat
    BY <1>1, AppendFacts DEF Append1
  <1>4. reader' = "body" => ring' # <<>> /\ Head(ring').kind # "close"
    BY <1>1, <1>2, SMTT(40) DEF OrderInv
  <1>5. ASSUME ~closed
        PROVE  /\ Len(log') = Len(delivered) + Len(ring')
               /\ \A i \in 1 .. Len(ring') : /\ ring'[i].id = Len(delivered) + i
                                             /\ ring'[i].kind = log'[Len(delivered) + i]
    <2>1. Len(log) = Len(delivered) + Len(ring)
      BY <1>5, Zenon DEF OrderInv
    <2>2. ASSUME NEW i \in 1 .. Len(ring')
          PROVE  ring'[i].id = Len(delivered) + i /\ ring'[i].kind = log'[Len(delivered) + i]
      <3>1. CASE i \in 1 .. Len(ring)
        <4>1. ring[i].id = Len(delivered) + i /\ ring[i].kind = log[Len(delivered) + i]
          BY <1>5, <3>1, Zenon DEF OrderInv
        <4>2. Len(delivered) + i \in 1 .. Len(log)
          BY <1>2, <1>3, <2>1, <3>1
        <4> QED
          BY <1>2, <1>3, <3>1, <4>1, <4>2, ZenonT(30)
      <3>2. CASE i = Len(ring) + 1
        BY <1>1, <1>2, <1>3, <2>1, <3>2, SMTT(30)
      <3> QED
        BY <1>2, <3>1, <3>2
    <2> QED
      BY <1>2, <1>3, <2>1, <2>2
  <1>6. DeliveredInOrder'
    <2>1. DeliveredInOrder
      BY Zenon DEF OrderInv
    <2> QED
      BY <1>3, <2>1 DEF DeliveredInOrder
  <1> QED
    BY <1>4, <1>5, <1>6, Zenon DEF OrderInv

\* Every step keeps the order: writes add at one end, the reader takes at the other.
LEMMA OrderStep ==
    ASSUME DeliveryAssumption, TypeOK, SizeInv, WakeInv, OrderInv, Next
    PROVE  OrderInv'
  <1>1. ASSUME NEW t \in Tasks, Load(t) PROVE OrderInv'
    <2>1. UNCHANGED <<ring, log, delivered, closed, reader>>
      BY <1>1, ZenonT(30) DEF Load, eventVars, readerVars
    <2> QED
      BY <2>1, OrderFrame, Zenon DEF OrderInv
  <1>2. ASSUME NEW t \in Tasks, Skip(t) PROVE OrderInv'
    <2>1. UNCHANGED <<ring, log, delivered, closed, reader>>
      BY <1>2, Zenon DEF Skip, eventVars, readerVars
    <2> QED
      BY <2>1, OrderFrame, Zenon DEF OrderInv
  <1>3. ASSUME NEW t \in Tasks, Stale(t) PROVE OrderInv'
    <2>1. UNCHANGED <<ring, log, delivered, closed, reader>>
      BY <1>3, ZenonT(30) DEF Stale, eventVars, readerVars
    <2> QED
      BY <2>1, OrderFrame, Zenon DEF OrderInv
  <1>4. ASSUME NEW t \in Tasks, Notify(t) PROVE OrderInv'
    <2>1. UNCHANGED <<ring, log, delivered, closed, reader>>
      BY <1>4, Zenon DEF Notify, eventVars, readerVars
    <2> QED
      BY <2>1, OrderFrame, Zenon DEF OrderInv
  <1>5. ASSUME NEW t \in Tasks, EvictLoad(t) PROVE OrderInv'
    <2>1. UNCHANGED <<ring, log, delivered, closed, reader>>
      BY <1>5, Zenon DEF EvictLoad, eventVars, readerVars
    <2> QED
      BY <2>1, OrderFrame, Zenon DEF OrderInv
  <1>6. ASSUME NEW t \in Tasks, CloseNotify(t) PROVE OrderInv'
    <2>1. UNCHANGED <<ring, log, delivered, closed, reader>>
      BY <1>6, ZenonT(30) DEF CloseNotify, eventVars, readerVars
    <2> QED
      BY <2>1, OrderFrame, Zenon DEF OrderInv
  <1>7. ASSUME NEW t \in Tasks, SwapOut(t) PROVE OrderInv'
    <2>1. UNCHANGED <<ring, log, delivered, closed, reader>>
      BY <1>7, Zenon DEF SwapOut, eventVars, readerVars
    <2> QED
      BY <2>1, OrderFrame, Zenon DEF OrderInv
  <1>8. ASSUME Open PROVE OrderInv'
    <2>1. UNCHANGED <<ring, log, delivered, closed>>
      BY <1>8, Zenon DEF Open, readerVars
    <2> QED
      BY <1>8, <2>1, OrderFrame, Zenon DEF Open, OrderInv, readerVars
  <1>9. ASSUME Register PROVE OrderInv'
    <2>1. UNCHANGED <<ring, log, delivered, closed>>
      BY <1>9, Zenon DEF Register, readerVars
    <2> QED
      BY <1>9, <2>1, OrderFrame, Zenon DEF Register, OrderInv, readerVars
  <1>10. ASSUME Check PROVE OrderInv'
    <2>1. UNCHANGED <<ring, log, delivered, closed>>
      BY <1>10, Zenon DEF Check, readerVars
    <2> QED
      BY <1>10, <2>1, OrderFrame, Zenon DEF Check, OrderInv, readerVars
  <1>11. ASSUME Wait PROVE OrderInv'
    <2>1. UNCHANGED <<ring, log, delivered, closed>>
      BY <1>11, Zenon DEF Wait, readerVars
    <2> QED
      BY <1>11, <2>1, OrderFrame, Zenon DEF Wait, OrderInv, readerVars
  <1>12. ASSUME Drain PROVE OrderInv'
    <2>1. UNCHANGED <<ring, log, delivered, closed>>
      BY <1>12, Zenon DEF Drain, readerVars
    <2> QED
      BY <1>12, <2>1, OrderFrame, Zenon DEF Drain, OrderInv, readerVars
  <1>13. ASSUME Clear PROVE OrderInv'
    <2>1. UNCHANGED <<ring, log, delivered, closed>>
      BY <1>13, Zenon DEF Clear, readerVars
    <2> QED
      BY <1>13, <2>1, OrderFrame, Zenon DEF Clear, OrderInv, readerVars
  <1>14. ASSUME Collect PROVE OrderInv'
    <2>1. UNCHANGED <<ring, log, delivered, closed>>
      BY <1>14, Zenon DEF Collect, readerVars
    <2> QED
      BY <1>14, <2>1, OrderFrame, Zenon DEF Collect, OrderInv, readerVars
  <1>15. ASSUME Disappear PROVE OrderInv'
    <2>1. UNCHANGED <<ring, log, delivered, closed>>
      BY <1>15, Zenon DEF Disappear, readerVars
    <2> QED
      BY <1>15, <2>1, OrderFrame, Zenon DEF Disappear, OrderInv, readerVars
  <1>16. ASSUME NEW t \in Tasks, NEW f \in Frames, Push(t, f) PROVE OrderInv'
    <2>1. UNCHANGED <<reader, closed, delivered>>
      BY <1>16, Zenon DEF Push, readerVars
    <2>2. CASE Append1(f.kind, f.size)
      BY <2>1, <2>2, WriteOrder, Zenon DEF DeliveryAssumption
    <2>3. CASE UNCHANGED <<ring, log>>
      BY <2>1, <2>3, OrderFrame, Zenon DEF OrderInv
    <2> QED
      BY <1>16, <2>2, <2>3, Zenon DEF Push
  <1>17. ASSUME NEW t \in Tasks, CloseRing(t) PROVE OrderInv'
    <2>1. UNCHANGED <<reader, closed, delivered>>
      BY <1>17, Zenon DEF CloseRing, readerVars
    <2>2. CASE Append1("close", FRAME_LEN_BYTES)
      BY <2>1, <2>2, WriteOrder, Zenon DEF DeliveryAssumption
    <2>3. CASE UNCHANGED <<ring, log>>
      BY <2>1, <2>3, OrderFrame, Zenon DEF OrderInv
    <2> QED
      BY <1>17, <2>2, <2>3, Zenon DEF CloseRing
  <1>18. ASSUME PopHeader PROVE OrderInv'
    <2>1. /\ reader = "pop" /\ ~closed /\ ring \in Seq(Frame)
          /\ UNCHANGED <<log, delivered>>
          /\ Len(log) \in Nat /\ Len(delivered) \in Nat
          /\ Len(log) = Len(delivered) + Len(ring)
          /\ \A i \in 1 .. Len(ring) : /\ ring[i].id = Len(delivered) + i
                                       /\ ring[i].kind = log[Len(delivered) + i]
          /\ DeliveredInOrder
      BY <1>18 DEF PopHeader, OrderInv, TypeOK
    <2>2. CASE UNCHANGED <<ring, closed>> /\ reader' = "check"
      BY <2>1, <2>2, OrderFrame, Zenon
    <2>3. CASE /\ ring # <<>> /\ Head(ring).kind = "close"
               /\ closed' = TRUE /\ reader' = "check"
      <3>1. Head(ring) = ring[1] /\ Len(ring) \in Nat \ {0}
        BY <2>1, <2>3, TailFacts, Zenon
      <3>2. log[Len(delivered) + 1] = "close" /\ Len(delivered) < Len(log)
        BY <2>1, <2>3, <3>1
      <3> QED
        BY <2>1, <2>3, <3>2, Zenon DEF OrderInv, DeliveredInOrder
    <2>4. CASE /\ ring # <<>> /\ Head(ring).kind # "close" /\ UNCHANGED closed
               /\ ring' = [ring EXCEPT ![1].size = @ - FRAME_LEN_BYTES]
      <3>1. /\ Len(ring') = Len(ring) /\ ring' # <<>> /\ Head(ring').kind # "close"
            /\ \A i \in 1 .. Len(ring) : ring'[i].kind = ring[i].kind /\ ring'[i].id = ring[i].id
        BY <2>1, <2>4, PrefixRead, Zenon
      <3> QED
        BY <2>1, <2>4, <3>1, Zenon DEF OrderInv, DeliveredInOrder
    <2> QED
      BY <1>18, <2>2, <2>3, <2>4, ZenonT(30) DEF PopHeader
  <1>19. ASSUME PopBody PROVE OrderInv'
    <2>1. /\ reader = "body" /\ reader' = "pop" /\ ~closed /\ UNCHANGED <<closed, log>>
          /\ ring \in Seq(Frame) /\ delivered \in Seq(Nat)
          /\ ring # <<>> /\ Head(ring).kind # "close"
          /\ Len(log) = Len(delivered) + Len(ring)
          /\ \A i \in 1 .. Len(ring) : /\ ring[i].id = Len(delivered) + i
                                       /\ ring[i].kind = log[Len(delivered) + i]
          /\ DeliveredInOrder
      BY <1>19, Zenon DEF PopBody, OrderInv, TypeOK
    <2>2. /\ Len(ring) \in Nat \ {0} /\ Len(ring') = Len(ring) - 1 /\ Head(ring) = ring[1]
          /\ \A i \in 1 .. Len(ring') : ring'[i] = ring[i + 1]
      BY <1>19, <2>1, TailFacts, ZenonT(30) DEF PopBody
    <2>3. Head(ring).id = Len(delivered) + 1 /\ Len(delivered) \in Nat
      BY <2>1, <2>2
    <2>4. /\ delivered' \in Seq(Nat)
          /\ Len(delivered') = Len(delivered) + 1
          /\ delivered'[Len(delivered) + 1] = Len(delivered) + 1
          /\ \A i \in 1 .. Len(delivered) : delivered'[i] = delivered[i]
      BY <1>19, <2>1, <2>3, AppendFacts DEF PopBody
    <2>5. /\ Len(log) = Len(delivered') + Len(ring')
          /\ \A i \in 1 .. Len(ring') : /\ ring'[i].id = Len(delivered') + i
                                        /\ ring'[i].kind = log[Len(delivered') + i]
      <3>1. Len(log) = Len(delivered') + Len(ring')
        BY <2>1, <2>2, <2>3, <2>4
      <3>2. ASSUME NEW i \in 1 .. Len(ring')
            PROVE  ring'[i].id = Len(delivered') + i /\ ring'[i].kind = log[Len(delivered') + i]
        <4>1. i + 1 \in 1 .. Len(ring) /\ Len(delivered) + (i + 1) = Len(delivered') + i
          BY <2>2, <2>3, <2>4
        <4> QED
          BY <2>1, <2>2, <4>1, Zenon
      <3> QED
        BY <3>1, <3>2, Zenon
    <2>6. DeliveredInOrder'
      <3>1. /\ delivered = [i \in 1 .. Len(delivered) |-> i]
            /\ \A i \in 1 .. Len(delivered) : log[i] # "close"
        BY <2>1, Zenon DEF DeliveredInOrder
      <3>2. delivered' = [i \in 1 .. Len(delivered') |-> i]
        <4>1. ASSUME NEW i \in 1 .. Len(delivered')
              PROVE  delivered'[i] = i
          <5>1. i \in 1 .. Len(delivered) \/ i = Len(delivered) + 1
            BY <2>3, <2>4
          <5>2. i \in 1 .. Len(delivered) => delivered[i] = i
            BY <3>1, Zenon
          <5>3. QED
            BY <2>4, <5>1, <5>2, Zenon
        <4>2. delivered' = [i \in 1 .. Len(delivered') |-> delivered'[i]]
          BY <2>4
        <4>3. QED
          BY <4>1, <4>2, Zenon
      <3>3. log[Len(delivered) + 1] # "close" /\ Len(delivered') <= Len(log)
        BY <2>1, <2>2, <2>3, <2>4
      <3> QED
        BY <2>1, <2>3, <2>4, <3>1, <3>2, <3>3, SMTT(30) DEF DeliveredInOrder
    <2> QED
      BY <2>1, <2>5, <2>6, Zenon DEF OrderInv
  <1>20. ASSUME NEW k \in Kinds, Take(k) PROVE OrderInv'
    <2>1. UNCHANGED <<ring, log, delivered, closed, reader>>
      BY <1>20, Zenon DEF Take
    <2> QED
      BY <2>1, OrderFrame, Zenon DEF OrderInv
  <1>21. ASSUME ReaderFails PROVE OrderInv'
    <2>1. UNCHANGED <<ring, log, delivered, closed>>
      BY <1>21, Zenon DEF ReaderFails
    <2> QED
      BY <1>21, <2>1, OrderFrame, Zenon DEF ReaderFails, OrderInv
  <1> QED
    BY <1>1, <1>2, <1>3, <1>4, <1>5, <1>6, <1>7, <1>8, <1>9, <1>10, <1>11, <1>12, <1>13,
       <1>14, <1>15, <1>16, <1>17, <1>18, <1>19, <1>20, <1>21, ZenonT(30)
    DEF Next, TaskStep, ReaderStep

-----------------------------------------------------------------------------
(* What the application finds in its queues.                               *)

\* ArrayQueue::pop leaves the newest of what was there.
LEMMA NewestTail ==
    ASSUME NEW q \in Seq(Nat), q # <<>>, NEW S \in SUBSET Nat, Newest(q, S)
    PROVE  Newest(Tail(q), S)
  <1>1. /\ Tail(q) \in Seq(Nat) /\ Len(q) \in Nat \ {0} /\ Len(Tail(q)) = Len(q) - 1
        /\ \A i \in 1 .. Len(Tail(q)) : Tail(q)[i] = q[i + 1]
    BY TailFacts, Zenon
  <1>2. /\ DOMAIN q = 1 .. Len(q) /\ DOMAIN Tail(q) = 1 .. Len(Tail(q))
        /\ \A i \in 1 .. Len(q) : q[i] \in Nat
    BY <1>1
  <1>3. \A i, j \in DOMAIN q : i < j => q[i] < q[j]
    BY Zenon DEF Newest
  <1>4. \A e : e \in Range(q) <=> e \in S /\ \E old \in Range(q) : old <= e
    BY DEF Newest
  <1>5. ASSUME NEW i \in DOMAIN Tail(q), NEW j \in DOMAIN Tail(q), i < j
        PROVE  Tail(q)[i] < Tail(q)[j]
    BY <1>1, <1>2, <1>3, <1>5, SMTT(30)
  <1>6. ASSUME NEW i \in DOMAIN Tail(q)
        PROVE  Tail(q)[i] \in S /\ Tail(q)[i] \in Nat
    <2>1. i + 1 \in DOMAIN q /\ Tail(q)[i] = q[i + 1]
      BY <1>1, <1>2
    <2>2. q[i + 1] \in Range(q)
      BY <2>1, Zenon DEF Range
    <2> QED
      BY <1>2, <1>4, <2>1, <2>2, Zenon
  <1>7. ASSUME NEW e \in S, NEW i \in DOMAIN Tail(q), Tail(q)[i] <= e
        PROVE  e \in Range(Tail(q))
    <2>1. i + 1 \in DOMAIN q /\ Tail(q)[i] = q[i + 1] /\ 1 \in DOMAIN q /\ 1 < i + 1
      BY <1>1, <1>2
    <2>2. q[i + 1] \in Range(q)
      BY <2>1, Zenon DEF Range
    <2>3. e \in Range(q)
      BY <1>4, <1>7, <2>1, <2>2, Zenon
    <2>4. PICK j \in DOMAIN q : q[j] = e
      BY <2>3, Zenon DEF Range
    <2>5. q[1] < q[i + 1] /\ q[1] \in Nat /\ q[i + 1] \in Nat
      BY <1>2, <1>3, <2>1, Zenon
    <2>6. j # 1
      BY <1>7, <2>1, <2>4, <2>5
    <2>7. j - 1 \in DOMAIN Tail(q) /\ Tail(q)[j - 1] = e
      BY <1>1, <1>2, <2>4, <2>6
    <2> QED
      BY <2>7, Zenon DEF Range
  <1>8. Range(Tail(q)) = {e \in S : \E old \in Range(Tail(q)) : old <= e}
    <2>1. ASSUME NEW e \in Range(Tail(q))
          PROVE  e \in S /\ \E old \in Range(Tail(q)) : old <= e
      <3>1. e \in S /\ e \in Nat
        BY <1>6, Zenon DEF Range
      <3> QED
        BY <3>1
    <2>2. ASSUME NEW e \in S, NEW old \in Range(Tail(q)), old <= e
          PROVE  e \in Range(Tail(q))
      <3>1. PICK i \in DOMAIN Tail(q) : old = Tail(q)[i]
        BY Zenon DEF Range
      <3> QED
        BY <1>7, <2>2, <3>1, Zenon
    <2> QED
      BY <2>1, <2>2, Zenon
  <1> QED
    BY <1>5, <1>8, Zenon DEF Newest

\* An update newer than all the others goes to the end.
LEMMA NewestAppend ==
    ASSUME NEW q \in Seq(Nat), NEW S \in SUBSET Nat, Newest(q, S),
           NEW new \in Nat, \A e \in S : e < new
    PROVE  Newest(Append(q, new), S \cup {new})
  <1> DEFINE a == Append(q, new)
  <1>1. /\ a \in Seq(Nat) /\ Len(q) \in Nat /\ Len(a) = Len(q) + 1
        /\ a[Len(q) + 1] = new /\ \A i \in 1 .. Len(q) : a[i] = q[i]
    BY AppendFacts
  <1>2. /\ DOMAIN q = 1 .. Len(q) /\ DOMAIN a = 1 .. Len(q) + 1
    BY <1>1
  <1> HIDE DEF a
  <1>3. \A i, j \in DOMAIN q : i < j => q[i] < q[j]
    BY Zenon DEF Newest
  <1>4. \A e : e \in Range(q) <=> e \in S /\ \E old \in Range(q) : old <= e
    BY DEF Newest
  <1>5. \A i \in DOMAIN q : q[i] \in S /\ q[i] < new
    BY <1>4, Zenon DEF Range
  <1>6. ASSUME NEW i \in DOMAIN a, NEW j \in DOMAIN a, i < j PROVE a[i] < a[j]
    <2>1. i \in DOMAIN q /\ (j \in DOMAIN q \/ j = Len(q) + 1)
      BY <1>1, <1>2, <1>6
    <2> QED
      BY <1>1, <1>2, <1>3, <1>5, <1>6, <2>1, ZenonT(30)
  <1>7. Range(a) = Range(q) \cup {new}
    <2>1. ASSUME NEW i \in DOMAIN a PROVE a[i] \in Range(q) \cup {new}
      <3>1. i \in DOMAIN q \/ i = Len(q) + 1
        BY <1>1, <1>2
      <3> QED
        BY <1>1, <1>2, <3>1, Zenon DEF Range
    <2>2. ASSUME NEW i \in DOMAIN q PROVE q[i] \in Range(a)
      <3>1. i \in DOMAIN a /\ a[i] = q[i]
        BY <1>1, <1>2
      <3> QED
        BY <3>1, Zenon DEF Range
    <2>3. new \in Range(a)
      <3>1. Len(q) + 1 \in DOMAIN a
        BY <1>1, <1>2
      <3> QED
        BY <1>1, <3>1, Zenon DEF Range
    <2> QED
      BY <2>1, <2>2, <2>3, Zenon DEF Range
  <1>8. Range(q) \subseteq S
    BY <1>4, Zenon
  <1>9. ASSUME NEW e PROVE e \in Range(a) <=> /\ e \in S \cup {new}
                                              /\ \E old \in Range(a) : old <= e
    <2>1. CASE e = new
      <3>1. new \in Range(a) /\ new <= new
        BY <1>7
      <3> QED
        BY <2>1, <3>1, Zenon
    <2>2. CASE e # new /\ e \in S
      <3>1. ~(new <= e)
        BY <2>2
      <3> QED
        BY <1>4, <1>7, <2>2, <3>1, ZenonT(30)
    <2>3. CASE e # new /\ e \notin S
      BY <1>7, <1>8, <2>3, Zenon
    <2> QED
      BY <2>1, <2>2, <2>3, Zenon
  <1>10. Range(a) = {e \in S \cup {new} : \E old \in Range(a) : old <= e}
    BY <1>9, Zenon
  <1> QED
    BY <1>6, <1>10, Zenon DEF Newest, a

\* A step that does not touch the queues keeps them, also when the log grows.
LEMMA QueueFrame ==
    ASSUME TypeOK, OrderInv, NewestKept, UNCHANGED <<queue, delivered>>,
           \A i \in 1 .. Len(log) : log'[i] = log[i]
    PROVE  NewestKept'
  <1>1. Range(delivered) \subseteq 1 .. Len(log)
    <2>1. /\ delivered = [i \in 1 .. Len(delivered) |-> i] /\ Len(delivered) <= Len(log)
          /\ Len(delivered) \in Nat /\ Len(log) \in Nat
      BY DEF OrderInv, DeliveredInOrder, TypeOK
    <2> QED
      BY <2>1 DEF Range
  <1>2. \A k : {e \in Range(delivered) : log[e] = k} = {e \in Range(delivered) : log'[e] = k}
    BY <1>1, Zenon
  <1> QED
    BY <1>2, Zenon DEF NewestKept

\* Every step keeps the newest: only PopBody and Take change a queue.
LEMMA QueueStep ==
    ASSUME DeliveryAssumption, TypeOK, SizeInv, OrderInv, NewestKept, Next
    PROVE  NewestKept'
  <1>1. log \in Seq(Kinds \cup {"close"}) /\ delivered \in Seq(Nat) /\ queue \in [Kinds -> Seq(Nat)]
    BY Zenon DEF TypeOK
  <1>2. ASSUME UNCHANGED <<queue, delivered, log>> PROVE NewestKept'
    BY <1>2, QueueFrame, Zenon
  <1>3. ASSUME NEW kind, NEW size, Append1(kind, size), kind \in Kinds \cup {"close"},
               UNCHANGED <<queue, delivered>>
        PROVE  NewestKept'
    <2>1. \A i \in 1 .. Len(log) : log'[i] = log[i]
      BY <1>1, <1>3, AppendFacts DEF Append1
    <2> QED
      BY <1>3, <2>1, QueueFrame, Zenon
  <1>4. ASSUME NEW t \in Tasks, Load(t) \/ TaskStep(t) PROVE NewestKept'
    <2>1. UNCHANGED <<queue, delivered>>
      BY <1>4, Zenon DEF Load, TaskStep, Skip, Stale, Notify, EvictLoad, CloseRing, CloseNotify,
         SwapOut, Push, readerVars
    <2>2. ASSUME NEW f \in Frames, Push(t, f) PROVE NewestKept'
      <3>1. f.kind \in Kinds
        BY Zenon DEF DeliveryAssumption
      <3> QED
        BY <1>2, <1>3, <2>1, <2>2, <3>1, ZenonT(30) DEF Push
    <2>3. CASE CloseRing(t)
      BY <1>2, <1>3, <2>1, <2>3, ZenonT(30) DEF CloseRing
    <2>4. CASE \/ Load(t) \/ Skip(t) \/ Stale(t) \/ Notify(t) \/ EvictLoad(t)
               \/ CloseNotify(t) \/ SwapOut(t)
      BY <1>2, <2>1, <2>4, Zenon DEF Load, Skip, Stale, Notify, EvictLoad, CloseNotify, SwapOut
    <2> QED
      BY <1>4, <2>2, <2>3, <2>4, ZenonT(30) DEF TaskStep
  <1>5. CASE Open \/ Register \/ PopHeader \/ Check \/ Wait \/ Drain \/ Clear \/ Collect
            \/ Disappear \/ ReaderFails
    BY <1>2, <1>5, Zenon DEF Open, Register, PopHeader, Check, Wait, Drain, Clear, Collect,
       Disappear, ReaderFails, readerVars
  <1>6. CASE PopBody
    <2> DEFINE n == Len(delivered)
               kind == Head(ring).kind
               Of(k) == {e \in Range(delivered) : log[e] = k}
    <2>1. /\ ring \in Seq(Frame) /\ ring # <<>> /\ kind # "close" /\ UNCHANGED log
          /\ n \in Nat /\ delivered = [i \in 1 .. n |-> i]
          /\ \A i \in 1 .. Len(ring) : ring[i].id = n + i /\ ring[i].kind = log[n + i]
      BY <1>1, <1>6 DEF PopBody, OrderInv, DeliveredInOrder, TypeOK
    <2>2. /\ Head(ring).id = n + 1 /\ kind = log[n + 1] /\ kind \in Kinds
      <3>1. Head(ring) = ring[1] /\ Head(ring) \in Frame /\ Len(ring) \in Nat \ {0}
        BY <2>1, TailFacts, Zenon
      <3>2. ring[1].id = n + 1 /\ ring[1].kind = log[n + 1]
        BY <2>1, <3>1
      <3>3. kind \in Kinds \cup {"close"}
        BY <3>1, Zenon DEF Frame
      <3> QED
        BY <2>1, <3>1, <3>2, <3>3, ZenonT(30)
    <2>3. /\ delivered' = Append(delivered, n + 1)
          /\ queue' = [queue EXCEPT ![kind] = force_push(queue[kind], n + 1)]
      BY <1>6, <2>2, Zenon DEF PopBody
    <2>4. Range(delivered) = 1 .. n
      BY <2>1 DEF Range
    <2>5. Range(delivered') = 1 .. n \cup {n + 1}
      <3>1. /\ DOMAIN delivered' = 1 .. n + 1 /\ delivered'[n + 1] = n + 1
            /\ \A i \in 1 .. n : delivered'[i] = i
        BY <1>1, <2>1, <2>3, AppendFacts, SMTT(30)
      <3>2. \A i \in 1 .. n + 1 : delivered'[i] = i
        BY <2>1, <3>1
      <3>3. Range(delivered') = {delivered'[i] : i \in 1 .. n + 1}
        BY <3>1, Zenon DEF Range
      <3>4. \A e : e \in Range(delivered') <=> e \in 1 .. n + 1
        BY <3>2, <3>3
      <3>5. 1 .. n + 1 = 1 .. n \cup {n + 1}
        BY <2>1
      <3> QED
        BY <3>4, <3>5, Zenon
    <2> HIDE DEF n, kind
    <2>6. ASSUME NEW k \in Kinds
          PROVE  Newest(queue'[k], {e \in Range(delivered') : log[e] = k})
      <3>1. Newest(queue[k], Of(k)) /\ queue[k] \in Seq(Nat) /\ Of(k) \in SUBSET Nat
        BY <1>1, <2>4 DEF NewestKept
      <3>2. CASE k = kind
        <4>1. {e \in Range(delivered') : log[e] = k} = Of(k) \cup {n + 1}
          BY <2>2, <2>4, <2>5, <3>2, ZenonT(30)
        <4>2. \A e \in Of(k) : e < n + 1
          BY <2>1, <2>4
        <4>3. queue'[k] = force_push(queue[k], n + 1) /\ n + 1 \in Nat
          BY <1>1, <2>1, <2>3, <3>2
        <4> HIDE DEF Of
        <4>4. Newest(Append(queue[k], n + 1), Of(k) \cup {n + 1})
          BY <3>1, <4>2, <4>3, NewestAppend, ZenonT(30)
        <4>5. ASSUME ~(Len(queue[k]) < QueueCapacity)
              PROVE  Newest(Append(Tail(queue[k]), n + 1), Of(k) \cup {n + 1})
          <5>1. queue[k] # <<>>
            BY <3>1, <4>5 DEF DeliveryAssumption
          <5>2. Newest(Tail(queue[k]), Of(k)) /\ Tail(queue[k]) \in Seq(Nat)
            BY <3>1, <5>1, NewestTail, TailFacts, ZenonT(30)
          <5> QED
            BY <3>1, <4>2, <4>3, <5>2, NewestAppend, ZenonT(30)
        <4> QED
          BY <4>1, <4>3, <4>4, <4>5, ZenonT(30) DEF force_push
      <3>3. CASE k # kind
        <4>1. {e \in Range(delivered') : log[e] = k} = Of(k)
          BY <2>2, <2>4, <2>5, <3>3, ZenonT(30)
        <4>2. queue'[k] = queue[k]
          BY <1>1, <2>3, <3>3, ZenonT(30)
        <4> QED
          BY <3>1, <4>1, <4>2, Zenon
      <3> QED
        BY <3>2, <3>3, Zenon
    <2> QED
      BY <2>1, <2>6, Zenon DEF NewestKept
  <1>7. ASSUME NEW c \in Kinds, Take(c) PROVE NewestKept'
    <2>1. /\ queue[c] # <<>> /\ queue' = [queue EXCEPT ![c] = Tail(queue[c])]
          /\ UNCHANGED <<delivered, log>>
      BY <1>7, Zenon DEF Take
    <2>2. ASSUME NEW k \in Kinds
          PROVE  Newest(queue'[k], {e \in Range(delivered) : log[e] = k})
      <3>1. /\ Newest(queue[k], {e \in Range(delivered) : log[e] = k})
            /\ queue[k] \in Seq(Nat) /\ {e \in Range(delivered) : log[e] = k} \in SUBSET Nat
        <4>1. Range(delivered) \in SUBSET Nat
          BY <1>1 DEF Range
        <4> QED
          BY <1>1, <4>1, Zenon DEF NewestKept
      <3>2. queue'[k] = IF k = c THEN Tail(queue[k]) ELSE queue[k]
        BY <1>1, <2>1, Zenon
      <3> QED
        BY <2>1, <3>1, <3>2, NewestTail, ZenonT(30)
    <2> QED
      BY <2>1, <2>2, Zenon DEF NewestKept
  <1> QED
    BY <1>4, <1>5, <1>6, <1>7, ZenonT(30) DEF Next, ReaderStep

-----------------------------------------------------------------------------
\* Invariance: the inductive invariant holds in every reachable state, however
\* pushes, closes, wakeups, reads and the unlinking interleave.
THEOREM Invariance == Spec => []Inv
  <1>1. Init => Inv
    <2> SUFFICES ASSUME Init PROVE Inv
      BY Zenon
    <2>1. Len(ring) = 0 /\ Len(log) = 0 /\ Len(delivered) = 0 /\ delivered = <<>>
      BY Zenon DEF Init
    <2>2. TypeOK /\ SizeInv
      <3>1. /\ ring \in Seq(Frame) /\ log \in Seq(Kinds \cup {"close"})
            /\ delivered \in Seq(Nat) /\ queue \in [Kinds -> Seq(Nat)]
        BY DEF Init
      <3>2. {installed, linked, wakeup, edge, ready, fresh, closed, gone} \subseteq BOOLEAN
        BY Zenon DEF Init
      <3>3. SizeInv
        BY <2>1 DEF SizeInv
      <3> QED
        BY <3>1, <3>2, <3>3, Zenon DEF Init, TypeOK
    <2>3. WakeInv /\ CloseInv
      BY <2>1 DEF Init, WakeInv, CloseInv, EndsOnlyWhenEvicted, Registered
    <2>4. DeliveredInOrder
      BY <2>1 DEF Init, DeliveredInOrder
    <2>5. OrderInv
      BY <2>1, <2>4 DEF Init, OrderInv
    <2>6. NewestKept
      <3>1. \A k \in Kinds : queue[k] = <<>>
        BY Zenon DEF Init
      <3> QED
        BY <3>1 DEF NewestKept, Newest, Range
    <2> QED
      BY <2>2, <2>3, <2>5, <2>6, ZenonT(30) DEF Inv
  <1>2. Inv /\ [Next]_vars => Inv'
    <2>1. ASSUME Inv, Next PROVE Inv'
      BY <2>1, DeliveryAssumption, TypeStep, WakeStep, CloseStep, OrderStep, QueueStep,
         SMTT(30) DEF Inv
    <2>2. ASSUME Inv, UNCHANGED vars PROVE Inv'
      BY <2>2 DEF Inv, TypeOK, SizeInv, WakeInv, CloseInv, OrderInv, DeliveredInOrder,
         NewestKept, EndsOnlyWhenEvicted, Closing, vars, senderVars, eventVars, readerVars
    <2> QED
      BY <2>1, <2>2, Zenon
  <1> QED
    BY <1>1, <1>2, PTL DEF Spec

\* TypeCorrectness: every variable keeps its type.
THEOREM TypeCorrectness == Spec => []TypeOK
  BY Invariance, PTL DEF Inv

\* WakeupsArrive: AsyncEventFd::wait never sleeps through a notify while the ring
\* holds something, for any number of tasks that push to it.
THEOREM WakeupsArrive == Spec => []NoLostWakeup
  <1>1. Inv => NoLostWakeup
    BY Zenon DEF Inv, WakeInv, NoLostWakeup, Registered
  <1> QED
    BY <1>1, Invariance, PTL

\* DeliveryIsInOrder: try_pop hands the frames over in the order in which try_push
\* wrote them, none lost, none twice, none after a sentinel.
THEOREM DeliveryIsInOrder == Spec => []DeliveredInOrder
  BY Invariance, PTL DEF Inv, OrderInv

\* QueuesKeepTheNewest: whatever the application takes and however far it falls
\* behind, force_push leaves in each queue the newest updates of its kind, in order
\* and without a gap.
THEOREM QueuesKeepTheNewest == Spec => []NewestKept
  BY Invariance, PTL DEF Inv

\* ReadersEndWithTheirEntry: run_reader takes its ring for closed only when the sender
\* has removed, or is about to remove, the slot it reads.  The other way out of it, an
\* error of its eventfd, leaves the reader "failed" and the slot served.
THEOREM ReadersEndWithTheirEntry == Spec => []EndsOnlyWhenEvicted
  BY Invariance, PTL DEF Inv, CloseInv

-----------------------------------------------------------------------------
(* The tasks of one slot keep to the life of an entry.                     *)

\* Moving a task moves its stage.
LEMMA StageMoves ==
    ASSUME TypeOK, NEW t \in Tasks, NEW label, Goto(t, label)
    PROVE  Life!Move(t, Stage(label))
  BY Zenon DEF TypeOK, Goto, Life!Move

\* Every step of the slot is a step of EntryLife or leaves its variables alone.
LEMMA LifeStep ==
    ASSUME TypeOK, Next
    PROVE  [Life!Next]_(Life!vars)
  <1>1. ASSUME UNCHANGED <<installed, task>> PROVE UNCHANGED Life!vars
    BY <1>1, Zenon DEF Life!vars
  <1>2. ASSUME ReaderStep \/ Collect \/ (\E k \in Kinds : Take(k)) \/ Disappear \/ ReaderFails
        PROVE  UNCHANGED Life!vars
    <2>1. UNCHANGED <<installed, task>>
      BY <1>2, Zenon DEF ReaderStep, Open, Register, PopHeader, PopBody, Check, Wait, Drain,
         Clear, Collect, Take, Disappear, ReaderFails, senderVars
    <2> QED
      BY <1>1, <2>1, Zenon
  <1>3. ASSUME NEW t \in Tasks, Load(t) \/ TaskStep(t)
        PROVE  Life!Step(t) \/ UNCHANGED Life!vars
    <2>1. CASE Load(t)
      <3>1. Life!Move(t, "loaded")
        BY <2>1, StageMoves, Zenon DEF Load, Stage
      <3> QED
        BY <2>1, <3>1, Zenon DEF Load, Stage, Life!Step, Life!Load
    <2>2. CASE Skip(t)
      <3>1. Life!Move(t, "none")
        BY <2>2, StageMoves, Zenon DEF Skip, Release, Stage
      <3> QED
        BY <2>2, <3>1, Zenon DEF Skip, Stage, Life!Step, Life!Release
    <2>3. CASE Stale(t)
      <3>1. Life!Move(t, "close")
        BY <2>3, StageMoves, Zenon DEF Stale, Stage
      <3> QED
        BY <2>3, <3>1, Zenon DEF Stale, Stage, Life!Step, Life!Condemn
    <2>4. CASE Notify(t)
      <3>1. Life!Move(t, "none")
        BY <2>4, StageMoves, Zenon DEF Notify, Release, Stage
      <3> QED
        BY <2>4, <3>1, Zenon DEF Notify, Stage, Life!Step, Life!Release
    <2>5. CASE EvictLoad(t)
      <3>1. CASE installed /\ Goto(t, "close")
        <4>1. Life!Move(t, "close")
          BY <3>1, StageMoves, Zenon DEF Stage
        <4>2. Stage(task[t]) = "evict" /\ installed /\ installed'
          BY <2>5, <3>1, Zenon DEF EvictLoad, Stage
        <4>3. Life!EvictLoad(t)
          BY <4>1, <4>2, ZenonT(30) DEF Life!EvictLoad
        <4> QED
          BY <4>3, Zenon DEF Life!Step
      <3>2. CASE ~installed /\ Release(t, installed)
        <4>1. Life!Move(t, "none")
          BY <3>2, StageMoves, Zenon DEF Release, Stage
        <4>2. Stage(task[t]) = "evict" /\ ~installed /\ ~installed'
          BY <2>5, <3>2, Zenon DEF EvictLoad, Stage
        <4>3. Life!EvictLoad(t)
          BY <4>1, <4>2, Zenon DEF Life!EvictLoad
        <4> QED
          BY <4>3, Zenon DEF Life!Step
      <3> QED
        BY <2>5, <3>1, <3>2, Zenon DEF EvictLoad
    <2>6. CASE CloseRing(t)
      <3>1. Life!Move(t, "swap")
        BY <2>6, StageMoves, Zenon DEF CloseRing, Stage
      <3> QED
        BY <2>6, <3>1, Zenon DEF CloseRing, Stage, Life!Step, Life!Close
    <2>7. CASE CloseNotify(t)
      <3>1. UNCHANGED installed /\ [u \in Tasks |-> Stage(task'[u])] = [u \in Tasks |-> Stage(task[u])]
        BY <2>7, Zenon DEF CloseNotify, Goto, Stage, TypeOK
      <3> QED
        BY <3>1, Zenon DEF Life!vars
    <2>8. CASE SwapOut(t)
      <3>1. Life!Move(t, "none")
        BY <2>8, StageMoves, Zenon DEF SwapOut, Release, Stage
      <3> QED
        BY <2>8, <3>1, Zenon DEF SwapOut, Stage, Life!Step, Life!Swap
    <2>9. ASSUME NEW f \in Frames, Push(t, f)
          PROVE  Life!Step(t) \/ UNCHANGED Life!vars
      <3>1. CASE Goto(t, "notify")
        <4>1. UNCHANGED installed /\ [u \in Tasks |-> Stage(task'[u])] = [u \in Tasks |-> Stage(task[u])]
          BY <2>9, <3>1, Zenon DEF Push, Goto, Stage, TypeOK
        <4> QED
          BY <4>1, Zenon DEF Life!vars
      <3>2. CASE Goto(t, "evict")
        <4>1. Life!Move(t, "evict")
          BY <3>2, StageMoves, Zenon DEF Stage
        <4> QED
          BY <2>9, <3>2, <4>1, Zenon DEF Push, Stage, Life!Step, Life!Refuse
      <3> QED
        BY <2>9, <3>1, <3>2, Zenon DEF Push
    <2> QED
      BY <1>3, <2>1, <2>2, <2>3, <2>4, <2>5, <2>6, <2>7, <2>8, <2>9, SMTT(30) DEF TaskStep
  <1>4. CASE \E t \in Tasks : Load(t) \/ TaskStep(t)
    <2>1. PICK t \in Tasks : Load(t) \/ TaskStep(t)
      BY <1>4, Zenon
    <2>2. Life!Step(t) \/ UNCHANGED Life!vars
      BY <1>3, <2>1, Zenon
    <2>3. Life!Step(t) => Life!Next
      BY Zenon DEF Life!Next
    <2> QED
      BY <2>2, <2>3, Zenon
  <1> QED
    BY <1>2, <1>4, Zenon DEF Next

\* TasksFollowEntryLife: what dispatch and cleanup tasks do with the entry of a slot
\* is what EntryLife allows, for any number of them (its fairness is left to TLC).
THEOREM TasksFollowEntryLife == Spec => Life!Spec
  <1>1. Init => Life!Init
    BY Zenon DEF Init, Life!Init, Stage
  <1>2. TypeOK /\ [Next]_vars => [Life!Next]_(Life!vars)
    <2>1. ASSUME UNCHANGED vars PROVE UNCHANGED Life!vars
      BY <2>1, Zenon DEF vars, senderVars, Life!vars
    <2> QED
      BY <2>1, LifeStep, Zenon
  <1> QED
    BY <1>1, <1>2, TypeCorrectness, PTL DEF Spec, Life!Spec
=============================================================================
