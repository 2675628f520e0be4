------------------------ MODULE ControlPlane_proofs ------------------------
(***************************************************************************)
(* The control socket, for any set of topics and any number of calls and   *)
(* slots: what a subscribe that returned Ok stands for, what the sender    *)
(* passes on, which slots nobody reads, that a token never changes, and    *)
(* what it takes for a reader to lose its place between the frames.        *)
(***************************************************************************)
EXTENDS ControlPlane, FiniteSetTheorems, SequenceTheorems, TLAPS

-----------------------------------------------------------------------------
(* The inductive invariant: first what holds whatever is given up, as long *)
(* as nobody reads where no frame begins.                                  *)

Tokens == Generations \cup {None}
Request == [op : {"subscribe", "ping"}, token : Tokens, topics : SUBSET Topics]
Kinds == {"ready", "ready_shm"}
Part == [part : {"prefix", "payload"}, kind : Kinds, generation : Generations]
Provision == [kind : Kinds, generation : Generations]

\* A request carries the consumer's token, or none if it is the first.
OwnRequests == {r \in Request : r.token \in {None, token}}

\* A reply names a slot that was made; one without a descriptor repeats the
\* token of its request.
Own(answer) == answer.generation < next /\ (answer.kind = "ready" => answer.generation = token)
OwnReplies == {p \in Part : Own(p)}
OwnProvisions == {p \in Provision : Own(p)}

Types ==
    /\ caller \in {"start", "hello", "idle", "prefix", "payload", "gone"}
    /\ calling \in SUBSET Topics
    /\ token \in Tokens /\ eventfd \in Tokens
    /\ c2s \in Seq(OwnRequests) /\ s2c \in Seq(OwnReplies)
    /\ handler \in {"read", "reply", "reply_payload", "forward", "done"}
    /\ request \in Request \cup {None} /\ provision \in OwnProvisions \cup {None}
    /\ slots \in SUBSET Generations
    /\ filter \in [Generations -> SUBSET Topics]
    /\ next \in FirstGeneration .. MaxGeneration + 1
    /\ calls \in Nat /\ refused \in Nat
    /\ accepted \in SUBSET Topics /\ forwarded \in SUBSET Topics
    /\ lost \in SUBSET Generations

\* The token is that of the slot whose eventfd the consumer waits on; slots and
\* tokens are older than the next generation.
TokenInv ==
    /\ \A g \in slots \cup {token} : g # None => g < next
    /\ caller \in {"start", "hello"} =>
          token = None /\ eventfd = None /\ calling = {} /\ accepted = {} /\ ~cancelled
    /\ caller \in {"idle", "prefix", "payload"} => token # None /\ eventfd = token
    /\ handler \in {"reply", "reply_payload", "forward"} =>
          request \in Request /\ provision \in OwnProvisions
    /\ handler = "reply_payload" => provision.kind = "ready"

-----------------------------------------------------------------------------
(* Then the exchange of requests and replies, as long as none is given up. *)

Orphans == Cardinality(slots \ {token})
Answer == Frame(provision.kind, provision.generation)
OnlyPings(n) == \A i \in 1 .. n : c2s[i].op = "ping"

\* What the answer means to the call that waits for it.
Honoured ==
    /\ provision \in OwnProvisions
    /\ provision.kind = "ready" => calling \subseteq filter[token] /\ Orphans <= refused
    /\ caller = "hello" => slots \subseteq {provision.generation}

\* Nothing was asked yet.
Unasked == caller = "start" /\ c2s = <<>> /\ s2c = <<>> /\ slots = {} /\ handler \in {"read", "done"}

\* No call is in progress, and no answer on its way.
Quiet ==
    /\ caller = "idle" /\ s2c = <<>> /\ Orphans <= refused
    /\ handler \in {"read", "forward", "done"}
    /\ handler # "done" => OnlyPings(Len(c2s))

\* The request of the call is the last one the task will read.
Queued ==
    /\ caller \in {"hello", "prefix"} /\ s2c = <<>> /\ Orphans <= refused
    /\ handler \in {"read", "forward"}
    /\ c2s # <<>> /\ OnlyPings(Len(c2s) - 1)
    /\ c2s[Len(c2s)] = [op |-> "subscribe", token |-> token, topics |-> calling]
    /\ caller = "hello" => slots = {}

\* The task has taken it, and its answer is where the caller looks for it.
Taken ==
    /\ caller \in {"hello", "prefix", "payload"} /\ c2s = <<>>
    /\ \/ handler = "reply" /\ caller # "payload" /\ s2c = <<>>
       \/ handler = "reply_payload" /\ caller = "prefix" /\ s2c = <<Answer[1]>>
       \/ handler = "reply_payload" /\ caller = "payload" /\ s2c = <<>>
       \/ handler \in {"forward", "read"} /\ caller # "payload" /\ s2c = Answer
       \/ handler \in {"forward", "read"} /\ caller = "payload" /\ s2c = <<Answer[2]>>
    /\ Honoured /\ Orphans <= refused + 1
    /\ IF handler = "read" THEN upstream => calling \subseteq forwarded ELSE request.topics = calling

\* The task has ended and left of its answer what it had written.
Severed ==
    /\ caller \in {"hello", "prefix", "payload"} /\ handler = "done"
    /\ \/ s2c = <<>>
       \/ caller = "prefix" /\ s2c = <<Answer[1]>> /\ provision.kind = "ready"
       \/ caller # "payload" /\ s2c = Answer
       \/ caller = "payload" /\ s2c = <<Answer[2]>>
    /\ s2c # <<>> => Honoured
    /\ Orphans <= refused + 1

Exchange ==
    ~cancelled =>
        \/ Unasked \/ Quiet \/ Queued \/ Taken \/ Severed
        \/ caller = "gone"

\* What was accepted has arrived.
Accepted == ~cancelled /\ token # None => accepted \subseteq filter[token]

Sound == Types /\ TokenInv /\ Exchange /\ Accepted /\ AcceptedIsForwarded

Base == Types /\ TokenInv

-----------------------------------------------------------------------------
(* Last the order of the parts, as long as no call is given up between the *)
(* two parts of a frame.                                                   *)

Other(part) == IF part = "prefix" THEN "payload" ELSE "prefix"

\* Prefixes and payloads alternate in s, from first up to the one before after.
Chain(s, first, after) ==
    /\ s = <<>> => first = after
    /\ s # <<>> => s[1].part = first /\ s[Len(s)].part = Other(after)
    /\ \A i \in 1 .. Len(s) : i # Len(s) => s[i + 1].part = Other(s[i].part)

\* What the caller reads next, and what the task writes next.
DueToRead == IF caller = "payload" THEN "payload" ELSE "prefix"
DueToWrite == IF handler = "reply_payload" THEN "payload" ELSE "prefix"

InStep ==
    /\ skip = 0
    /\ \/ cut \/ caller = "gone"
       \/ \E after \in {"prefix", "payload"} :
             Chain(s2c, DueToRead, after) /\ (handler # "done" => after = DueToWrite)

\* Out of step nothing is claimed, but that a call was given up to get there.
Inv ==
    /\ cut => cancelled
    /\ astray => cut
    /\ ~astray => Sound /\ InStep

-----------------------------------------------------------------------------
(* Types and tokens.                                                       *)

\* What was a proper message stays one: tokens are set once, and generations
\* are counted upwards.
LEMMA MessagesStay ==
    ASSUME Base, next' \in Nat, next <= next', token' = token \/ token = None
    PROVE  /\ OwnRequests \subseteq OwnRequests' /\ c2s \in Seq(OwnRequests')
           /\ OwnReplies \subseteq OwnReplies' /\ s2c \in Seq(OwnReplies')
           /\ OwnProvisions \subseteq OwnProvisions'
<1>1. OwnRequests \subseteq OwnRequests'
  BY Zenon DEF OwnRequests
<1>2. \A a : a.generation \in Generations /\ Own(a) => Own(a)'
  BY ControlAssumption DEF Base, Types, Own, Generations, Tokens
<1>3. OwnReplies \subseteq OwnReplies'
  BY <1>2, Zenon DEF OwnReplies, Part
<1>4. OwnProvisions \subseteq OwnProvisions'
  BY <1>2, Zenon DEF OwnProvisions, Provision
<1>5. c2s \in Seq(OwnRequests') /\ s2c \in Seq(OwnReplies')
  BY <1>1, <1>3, SeqMonotonic, Zenon DEF Base, Types
<1>6. QED
  BY <1>1, <1>3, <1>4, <1>5, Zenon

\* The same of a step that draws no new generation.
LEMMA MessagesKeep ==
    ASSUME Base, UNCHANGED next, token' = token \/ token = None
    PROVE  /\ OwnRequests \subseteq OwnRequests' /\ c2s \in Seq(OwnRequests')
           /\ OwnReplies \subseteq OwnReplies' /\ s2c \in Seq(OwnReplies')
           /\ OwnProvisions \subseteq OwnProvisions'
<1>1. next' \in Nat /\ next <= next'
  BY ControlAssumption DEF Base, Types
<1>2. QED
  BY <1>1, MessagesStay, Zenon

\* A frame for a proper answer consists of proper parts.
LEMMA FrameParts ==
    ASSUME NEW kind \in Kinds, NEW g \in Generations, g < next, kind = "ready" => g = token
    PROVE  /\ Frame(kind, g)[1] \in OwnReplies /\ Frame(kind, g)[2] \in OwnReplies
           /\ Frame(kind, g) \in Seq(OwnReplies) /\ Len(Frame(kind, g)) = 2
<1>1. Frame(kind, g)[1] \in OwnReplies /\ Frame(kind, g)[2] \in OwnReplies
  BY Zenon DEF Frame, OwnReplies, Part, Own
<1>2. QED
  BY <1>1 DEF Frame

LEMMA InitBase == Init => Base
<1> SUFFICES ASSUME Init PROVE Base
  BY Zenon
<1>1. c2s \in Seq(OwnRequests) /\ s2c \in Seq(OwnReplies)
  BY EmptySeq, Zenon DEF Init
<1>2. /\ filter \in [Generations -> SUBSET Topics] /\ next \in FirstGeneration .. MaxGeneration + 1
      /\ calls \in Nat /\ refused \in Nat
  BY ControlAssumption DEF Init
<1>3. Types
  BY <1>1, <1>2, Zenon DEF Init, Types, Tokens
<1>4. TokenInv
  BY Zenon DEF Init, TokenInv
<1>5. QED
  BY <1>3, <1>4, Zenon DEF Base

\* The steps that leave messages and tokens as they are keep types and tokens.
LEMMA QuietBase ==
    ASSUME Base,
           \/ HandshakeFails \/ ReadFails \/ Cancel \/ Drop \/ Forward \/ HandlerEnds
           \/ SenderStops \/ UpstreamEnds \/ \E g \in Generations : Evict(g)
    PROVE  Base'
<1> USE DEF Base, Types, TokenInv, Tokens, Generations, consumerVars, handlerVars
<1>1. UNCHANGED <<token, next, c2s, s2c, provision>>
  BY Zenon DEF HandshakeFails, ReadFails, Cancel, Drop, Forward, HandlerEnds, SenderStops, UpstreamEnds,
     Evict
<1>2. /\ c2s' \in Seq(OwnRequests') /\ s2c' \in Seq(OwnReplies')
      /\ provision' \in OwnProvisions' \cup {None}
      /\ provision \in OwnProvisions => provision' \in OwnProvisions'
  BY <1>1, MessagesKeep, Zenon
<1>3. CASE HandshakeFails
  BY <1>2, <1>3, ControlAssumption, Zenon DEF HandshakeFails
<1>4. CASE ReadFails
  BY <1>2, <1>4, ControlAssumption DEF ReadFails, Return
<1>5. CASE Cancel
  BY <1>2, <1>5, ControlAssumption, Zenon DEF Cancel
<1>6. CASE Drop
  BY <1>2, <1>6, ControlAssumption, Zenon DEF Drop
<1>7. CASE Forward
  BY <1>2, <1>7, ControlAssumption, Zenon DEF Forward, Request
<1>8. CASE HandlerEnds
  BY <1>2, <1>8, ControlAssumption, Zenon DEF HandlerEnds
<1>9. CASE SenderStops
  BY <1>2, <1>9, ControlAssumption, Zenon DEF SenderStops
<1>10. CASE \E g \in Generations : Evict(g)
  BY <1>2, <1>10, ControlAssumption DEF Evict
<1>11. CASE UpstreamEnds
  BY <1>2, <1>11, ControlAssumption, Zenon DEF UpstreamEnds
<1>12. QED
  BY <1>3, <1>4, <1>5, <1>6, <1>7, <1>8, <1>9, <1>10, <1>11, Zenon

\* Requests are added to what the task reads; each carries the token.
LEMMA RequestBase ==
    ASSUME Base, Bootstrap \/ Ping \/ \E topics \in SUBSET Topics : Subscribe(topics)
    PROVE  Base'
<1> USE DEF Base, Types, TokenInv, Tokens, Generations, consumerVars, handlerVars
<1>1. UNCHANGED <<token, next, s2c, provision>>
  BY Zenon DEF Bootstrap, Ping, Subscribe
<1>2. /\ OwnRequests \subseteq OwnRequests' /\ c2s \in Seq(OwnRequests')
      /\ s2c' \in Seq(OwnReplies') /\ provision' \in OwnProvisions' \cup {None}
      /\ provision \in OwnProvisions => provision' \in OwnProvisions'
  BY <1>1, MessagesKeep, Zenon
<1>3. \A op \in {"subscribe", "ping"}, topics \in SUBSET Topics :
          /\ [op |-> op, token |-> token, topics |-> topics] \in OwnRequests'
          /\ token = None => [op |-> op, token |-> None, topics |-> topics] \in OwnRequests'
  BY <1>2, Zenon DEF OwnRequests, Request
<1>4. \A r \in OwnRequests' : Append(c2s, r) \in Seq(OwnRequests')
  BY <1>2, AppendProperties, Zenon
<1>5. CASE Bootstrap
  <2>1. c2s' \in Seq(OwnRequests')
    BY <1>3, <1>4, <1>5, Zenon DEF Bootstrap
  <2>2. QED
    BY <1>2, <1>5, <2>1, ControlAssumption, Zenon DEF Bootstrap
<1>6. CASE Ping
  <2>1. c2s' \in Seq(OwnRequests')
    BY <1>2, <1>3, <1>4, <1>6, Zenon DEF Ping, Send
  <2>2. Types'
    BY <1>2, <1>6, <2>1, ControlAssumption, SMTT(30) DEF Ping
  <2>3. TokenInv'
    BY <1>2, <1>6, ControlAssumption, Zenon DEF Ping
  <2>4. QED
    BY <2>2, <2>3, Zenon
<1>7. ASSUME NEW topics \in SUBSET Topics, Subscribe(topics)
      PROVE  Base'
  <2>1. c2s' \in Seq(OwnRequests')
    BY <1>2, <1>3, <1>4, <1>7, Zenon DEF Subscribe, Send
  <2>2. Types'
    BY <1>2, <1>7, <2>1, ControlAssumption, SMTT(30) DEF Subscribe, Return
  <2>3. TokenInv'
    BY <1>2, <1>7, ControlAssumption, Zenon DEF Subscribe, Return
  <2>4. QED
    BY <2>2, <2>3, Zenon
<1>8. QED
  BY <1>5, <1>6, <1>7, Zenon

\* The handshake sets the token, when no reply but the first was written.
LEMMA HandshakeBase ==
    ASSUME Base, Handshake
    PROVE  Base'
<1> USE DEF Base, Types, TokenInv, Tokens, Generations, consumerVars, handlerVars
<1>1. /\ token = None /\ UNCHANGED <<next, c2s, provision>>
      /\ s2c # <<>> /\ s2c' = SubSeq(s2c, 3, Len(s2c))
  BY Zenon DEF Handshake
<1>2. /\ c2s' \in Seq(OwnRequests') /\ s2c \in Seq(OwnReplies')
      /\ provision' \in OwnProvisions' \cup {None}
      /\ provision \in OwnProvisions => provision' \in OwnProvisions'
  BY <1>1, MessagesKeep, Zenon
<1>3. s2c' \in Seq(OwnReplies')
  BY <1>1, <1>2, SubSeqProperties
<1>4. s2c[1] \in OwnReplies
  BY <1>1
<1>5. s2c[1].generation \in Generations /\ s2c[1].generation < next
  BY <1>4, Zenon DEF OwnReplies, Own, Part
<1>6. QED
  BY <1>1, <1>2, <1>3, <1>5, ControlAssumption, Zenon DEF Handshake

\* What a read takes from the socket is a proper reply.
LEMMA ReadBase ==
    ASSUME Base, ReadPrefix \/ ReadPayload
    PROVE  Base' /\ token' = token
<1> USE DEF Base, Types, TokenInv, Tokens, Generations, consumerVars, handlerVars
<1>1. s2c # <<>> /\ UNCHANGED <<next, c2s, provision>>
  BY Zenon DEF ReadPrefix, ReadPayload
<1>2. Head(s2c) \in OwnReplies /\ Tail(s2c) \in Seq(OwnReplies)
  BY <1>1, HeadTailProperties, Zenon
<1>3. /\ Head(s2c).generation \in Generations
      /\ Head(s2c).kind = "ready" => Head(s2c).generation = token
  BY <1>2, Zenon DEF OwnReplies, Own, Part
<1>4. token' = token
  BY <1>3, Zenon DEF ReadPrefix, ReadPayload
<1>5. /\ c2s' \in Seq(OwnRequests') /\ s2c \in Seq(OwnReplies') /\ OwnReplies \subseteq OwnReplies'
      /\ provision' \in OwnProvisions' \cup {None}
      /\ provision \in OwnProvisions => provision' \in OwnProvisions'
  BY <1>1, <1>4, MessagesKeep, Zenon
<1>6. s2c' \in Seq(OwnReplies')
  <2>1. Tail(s2c) \in Seq(OwnReplies')
    BY <1>1, <1>5, HeadTailProperties, Zenon
  <2>2. s2c' = s2c \/ s2c' = Tail(s2c)
    BY Zenon DEF ReadPrefix, ReadPayload
  <2>3. QED
    BY <1>5, <2>1, <2>2, Zenon
<1>7. CASE ReadPrefix
  <2>1. {p.generation : p \in {q \in {Head(s2c)} : q.kind = "ready_shm"}} \subseteq Generations
    BY <1>3, Zenon
  <2>2. lost' \in SUBSET Generations
    BY <1>7, <2>1, Zenon DEF ReadPrefix, Dropped
  <2>3. caller' = "payload" /\ UNCHANGED <<calling, refused, eventfd, calls, accepted, handlerVars>>
    BY <1>7, Zenon DEF ReadPrefix
  <2>4. Types'
    BY <1>4, <1>5, <1>6, <2>2, <2>3, Zenon
  <2>5. TokenInv'
    BY <1>4, <1>5, <1>7, ControlAssumption, Zenon DEF ReadPrefix
  <2>6. QED
    BY <1>4, <2>4, <2>5, Zenon
<1>8. CASE ReadPayload
  <2>1. /\ caller' = "idle" /\ calling' \in SUBSET Topics /\ accepted' \in SUBSET Topics
        /\ refused' \in Nat /\ UNCHANGED <<eventfd, calls, lost, handlerVars>>
    BY <1>8 DEF ReadPayload, Return
  <2>2. Types'
    BY <1>4, <1>5, <1>6, <2>1, Zenon
  <2>3. TokenInv'
    BY <1>3, <1>4, <1>5, <1>8, ControlAssumption, Zenon DEF ReadPayload, Return
  <2>4. QED
    BY <1>4, <2>2, <2>3, Zenon
<1>9. QED
  BY <1>4, <1>7, <1>8, Zenon

\* The task takes a request; what it provides is a proper answer.
LEMMA ReceiveBase ==
    ASSUME Base, ReceivePing \/ ReceiveKnown \/ ReceiveUnknown
    PROVE  Base'
<1> USE DEF Base, Types, TokenInv, Tokens, Generations, consumerVars, handlerVars
<1>1. /\ c2s # <<>> /\ c2s' = Tail(c2s) /\ UNCHANGED <<token, s2c>>
      /\ next' \in FirstGeneration .. MaxGeneration + 1 /\ next' \in Nat /\ next <= next'
  <2>1. c2s # <<>> /\ c2s' = Tail(c2s) /\ UNCHANGED <<token, s2c>>
    BY Zenon DEF ReceivePing, ReceiveKnown, ReceiveUnknown
  <2>2. next' = next \/ (next \in Generations /\ next' = next + 1)
    BY Zenon DEF ReceivePing, ReceiveKnown, ReceiveUnknown
  <2>3. QED
    BY <2>1, <2>2, ControlAssumption
<1>2. /\ c2s \in Seq(OwnRequests') /\ s2c' \in Seq(OwnReplies')
      /\ OwnProvisions \subseteq OwnProvisions'
  BY <1>1, MessagesStay, Zenon
<1>3. c2s' \in Seq(OwnRequests')
  BY <1>1, <1>2, HeadTailProperties, Zenon
<1>4. Head(c2s) \in Request /\ Head(c2s).token \in {None, token}
  BY <1>1, HeadTailProperties DEF OwnRequests
<1>5. CASE ReceivePing
  BY <1>2, <1>3, <1>5, ControlAssumption, Zenon DEF ReceivePing
<1>6. CASE ReceiveKnown
  <2>1. Head(c2s).token = token /\ token \in Generations /\ token < next
    BY <1>4, <1>6, ControlAssumption, Zenon DEF ReceiveKnown
  <2>2. provision' \in OwnProvisions'
    BY <1>6, <2>1, Zenon DEF ReceiveKnown, Provide, OwnProvisions, Own, Provision, Kinds
  <2>3. filter' \in [Generations -> SUBSET Topics]
    BY <1>4, <1>6, <2>1, Zenon DEF ReceiveKnown, Request
  <2>4. QED
    BY <1>1, <1>2, <1>3, <1>4, <1>6, <2>2, <2>3, ControlAssumption, Zenon DEF ReceiveKnown
<1>7. CASE ReceiveUnknown
  <2>1. CASE handler' = "done"
    BY <1>1, <1>2, <1>3, <1>4, <1>7, <2>1, ControlAssumption, ZenonT(30) DEF ReceiveUnknown
  <2>2. CASE handler' = "reply"
    <3>1. /\ next \in Generations /\ next' = next + 1 /\ slots' = slots \cup {next}
          /\ Provide("ready_shm", next) /\ request' = Head(c2s)
          /\ filter' = [filter EXCEPT ![next] = Head(c2s).topics]
      BY <1>7, <2>2, Zenon DEF ReceiveUnknown
    <3>2. provision' \in OwnProvisions'
      BY <3>1 DEF Provide, OwnProvisions, Own, Provision, Kinds
    <3>3. filter' \in [Generations -> SUBSET Topics]
      BY <1>4, <3>1, Zenon DEF Request
    <3>4. Types'
      BY <1>1, <1>2, <1>3, <1>4, <1>7, <2>2, <3>1, <3>2, <3>3, ControlAssumption, Zenon
      DEF ReceiveUnknown
    <3>5. TokenInv'
      <4>1. \A g \in slots' \cup {token'} : g # None => g < next'
        <5>1. next \in Nat /\ slots \in SUBSET Nat /\ (token # None => token \in Nat)
          BY ControlAssumption
        <5>2. \A g \in slots \cup {token} : g # None => g < next
          BY Zenon
        <5> HIDE DEF Base, Types, TokenInv
        <5>3. QED
          BY <1>1, <3>1, <5>1, <5>2
      <4>2. provision'.kind = "ready_shm"
        BY <3>1, Zenon DEF Provide
      <4>3. QED
        BY <1>1, <1>4, <1>7, <2>2, <3>1, <3>2, <4>1, <4>2, Zenon DEF ReceiveUnknown
    <3>6. QED
      BY <3>4, <3>5, Zenon
  <2>3. QED
    BY <1>7, <2>1, <2>2, Zenon DEF ReceiveUnknown
<1>8. QED
  BY <1>5, <1>6, <1>7, Zenon

\* What the task writes are the parts of a proper frame.
LEMMA ReplyBase ==
    ASSUME Base, ReplyCreated \/ ReplyExisting
    PROVE  Base'
<1> USE DEF Base, Types, TokenInv, Tokens, Generations, consumerVars, handlerVars
<1>1. UNCHANGED <<token, next, c2s, provision>> /\ handler \in {"reply", "reply_payload"}
  BY Zenon DEF ReplyCreated, ReplyExisting
<1>2. /\ c2s' \in Seq(OwnRequests') /\ s2c \in Seq(OwnReplies') /\ OwnReplies \subseteq OwnReplies'
      /\ provision' \in OwnProvisions'
  BY <1>1, MessagesKeep, Zenon
<1>3. /\ provision.kind \in Kinds /\ provision.generation \in Generations
      /\ provision.generation < next /\ (provision.kind = "ready" => provision.generation = token)
  BY <1>1, Zenon DEF OwnProvisions, Own, Provision
<1>4. /\ Answer[1] \in OwnReplies' /\ Answer[2] \in OwnReplies' /\ Answer \in Seq(OwnReplies')
  BY <1>2, <1>3, FrameParts, SeqMonotonic, Zenon DEF Answer
<1>5. s2c' = s2c \o Answer \/ s2c' = Append(s2c, Answer[1]) \/ s2c' = Append(s2c, Answer[2])
  BY Zenon DEF ReplyCreated, ReplyExisting, Answer
<1>6. s2c' \in Seq(OwnReplies')
  <2>1. s2c \o Answer \in Seq(OwnReplies')
    BY <1>2, <1>4, ConcatProperties, Zenon
  <2>2. Append(s2c, Answer[1]) \in Seq(OwnReplies') /\ Append(s2c, Answer[2]) \in Seq(OwnReplies')
    BY <1>2, <1>4, AppendProperties, Zenon
  <2>3. QED
    BY <1>5, <2>1, <2>2, Zenon
<1>7. Types'
  BY <1>1, <1>2, <1>6, ZenonT(30) DEF ReplyCreated, ReplyExisting
<1>8. TokenInv'
  <2>1. /\ UNCHANGED <<caller, token, eventfd, calling, accepted, cancelled, slots, next, request>>
        /\ handler' \in {"reply_payload", "forward"}
        /\ handler' = "reply_payload" => provision'.kind = "ready"
    BY <1>1, Zenon DEF ReplyCreated, ReplyExisting
  <2>2. request' \in Request
    BY <1>1, <2>1, Zenon
  <2>3. QED
    BY <1>2, <2>1, <2>2, Zenon
<1>9. QED
  BY <1>7, <1>8, Zenon

\* Who is in step takes no step of a reader that is not.
LEMMA NotAstray ==
    ASSUME Base, ~astray', GoAstray \/ ReadAstray \/ TakeSize \/ TakeBytes
    PROVE  FALSE
BY Zenon DEF Base, Types, GoAstray, ReadAstray, TakeSize, TakeBytes

LEMMA NextBase == Base /\ [Next]_vars /\ ~astray' => Base'
<1> SUFFICES ASSUME Base, [Next]_vars, ~astray' PROVE Base'
  BY Zenon
<1>1. CASE UNCHANGED vars
  <2>1. UNCHANGED <<token, next, c2s, s2c, provision>>
    BY <1>1, Zenon DEF vars, consumerVars, handlerVars
  <2>2. /\ c2s' \in Seq(OwnRequests') /\ s2c' \in Seq(OwnReplies')
        /\ OwnProvisions \subseteq OwnProvisions'
    BY <2>1, MessagesKeep, Zenon
  <2>3. QED
    BY <1>1, <2>1, <2>2, Zenon DEF Base, Types, TokenInv, vars, consumerVars, handlerVars
<1>2. CASE Next
  BY <1>2, QuietBase, RequestBase, HandshakeBase, ReadBase, ReceiveBase, ReplyBase, NotAstray,
     Zenon
  DEF Next, ConsumerStep, HandlerStep
<1>3. QED
  BY <1>1, <1>2, Zenon

-----------------------------------------------------------------------------
(* Facts the exchange rests on.                                            *)

\* The slots nobody reads are finitely many.
LEMMA OrphansType ==
    ASSUME Base
    PROVE  IsFiniteSet(slots \ {token}) /\ Orphans \in Nat
<1>1. FirstGeneration \in Int /\ MaxGeneration \in Int
  BY ControlAssumption
<1>2. IsFiniteSet(Generations)
  BY <1>1, FS_Interval, Zenon DEF Generations
<1>3. slots \ {token} \in SUBSET Generations
  BY Zenon DEF Base, Types
<1>4. QED
  BY <1>2, <1>3, FS_Subset, FS_CardinalityType, Zenon DEF Orphans

LEMMA OrphansShrink ==
    ASSUME Base, slots' \subseteq slots, token' = token
    PROVE  Orphans' \in Nat /\ Orphans' <= Orphans
<1>1. slots' \ {token'} \in SUBSET (slots \ {token})
  BY Zenon
<1>2. QED
  BY <1>1, OrphansType, FS_Subset, FS_CardinalityType, Zenon DEF Orphans

LEMMA OrphansGrow ==
    ASSUME Base, NEW g, slots' = slots \cup {g}, token' = token
    PROVE  Orphans' \in Nat /\ Orphans' <= Orphans + 1
<1>1. slots' \ {token'} \in SUBSET ((slots \ {token}) \cup {g})
  BY Zenon
<1>2. /\ IsFiniteSet((slots \ {token}) \cup {g})
      /\ Cardinality((slots \ {token}) \cup {g}) <= Orphans + 1
  BY OrphansType, FS_AddElement DEF Orphans
<1>3. QED
  BY <1>1, <1>2, OrphansType, FS_Subset, FS_CardinalityType DEF Orphans

LEMMA NoOrphans ==
    ASSUME slots \subseteq {token}
    PROVE  Orphans = 0
<1>1. slots \ {token} = {}
  BY Zenon
<1>2. QED
  BY <1>1, FS_EmptySet, Zenon DEF Orphans

\* Sequences of one and of two elements, written and read one by one.
LEMMA OnePart ==
    ASSUME NEW x
    PROVE  <<x>> # <<>> /\ Head(<<x>>) = x /\ Tail(<<x>>) = <<>> /\ Append(<<>>, x) = <<x>>
OBVIOUS

LEMMA TwoParts ==
    ASSUME NEW x, NEW y
    PROVE  /\ <<x, y>> # <<>> /\ Len(<<x, y>>) = 2 /\ <<x, y>>[1] = x /\ <<x, y>>[2] = y
           /\ Head(<<x, y>>) = x /\ Tail(<<x, y>>) = <<y>>
           /\ <<>> \o <<x, y>> = <<x, y>> /\ Append(<<x>>, y) = <<x, y>>
           /\ SubSeq(<<x, y>>, 3, 2) = <<>>
<1>1. /\ <<x, y>> # <<>> /\ Len(<<x, y>>) = 2 /\ <<x, y>>[1] = x /\ <<x, y>>[2] = y
      /\ Head(<<x, y>>) = x
  OBVIOUS
<1>2. Tail(<<x, y>>) = <<y>>
  OBVIOUS
<1>3. <<>> \o <<x, y>> = <<x, y>>
  <2>1. <<x, y>> \in Seq({x, y})
    OBVIOUS
  <2>2. QED
    BY <2>1, ConcatEmptySeq, Zenon
<1>4. Append(<<x>>, y) = <<x, y>>
  <2>1. <<x>> \in Seq({x, y}) /\ Len(<<x>>) = 1 /\ <<x, y>> \in Seq({x, y}) /\ y \in {x, y}
    OBVIOUS
  <2>2. /\ Append(<<x>>, y) \in Seq({x, y}) /\ Len(Append(<<x>>, y)) = 2
        /\ Append(<<x>>, y)[1] = x /\ Append(<<x>>, y)[2] = y
    BY <2>1, AppendProperties
  <2> DEFINE s == Append(<<x>>, y)
             t == <<x, y>>
  <2>3. s \in Seq({x, y}) /\ t \in Seq({x, y}) /\ Len(s) = 2 /\ Len(t) = 2
    BY <1>1, <2>1, <2>2, Zenon
  <2>4. \A i \in 1 .. 2 : s[i] = t[i]
    BY <1>1, <2>2
  <2> HIDE DEF s, t
  <2>5. s = t
    BY <2>3, <2>4, SeqEqual, Zenon
  <2>6. QED
    BY <2>5, Zenon DEF s, t
<1>5. SubSeq(<<x, y>>, 3, 2) = <<>>
  BY SubSeqEmpty
<1>6. QED
  BY <1>1, <1>2, <1>3, <1>4, <1>5, Zenon

\* How the answer is written and read, part by part.
LEMMA AnswerShape ==
    /\ Answer # <<>> /\ Head(Answer) = Answer[1] /\ Tail(Answer) = <<Answer[2]>>
    /\ SubSeq(Answer, 3, Len(Answer)) = <<>>
    /\ <<>> \o Answer = Answer /\ Append(<<Answer[1]>>, Answer[2]) = Answer
    /\ Answer[1].part = "prefix" /\ Answer[2].part = "payload"
    /\ \A i \in {1, 2} :
          Answer[i].kind = provision.kind /\ Answer[i].generation = provision.generation
<1> DEFINE x == [part |-> "prefix", kind |-> provision.kind, generation |-> provision.generation]
           y == [part |-> "payload", kind |-> provision.kind, generation |-> provision.generation]
<1>1. /\ x.part = "prefix" /\ x.kind = provision.kind /\ x.generation = provision.generation
      /\ y.part = "payload" /\ y.kind = provision.kind /\ y.generation = provision.generation
  BY Zenon
<1>2. Answer = <<x, y>>
  BY Zenon DEF Answer, Frame
<1> HIDE DEF x, y
<1>3. /\ <<x, y>>[1] = x /\ <<x, y>>[2] = y
      /\ <<x, y>> # <<>> /\ Head(<<x, y>>) = x /\ Tail(<<x, y>>) = <<y>>
      /\ SubSeq(<<x, y>>, 3, Len(<<x, y>>)) = <<>>
      /\ <<>> \o <<x, y>> = <<x, y>> /\ Append(<<x>>, y) = <<x, y>>
  BY TwoParts, Zenon
<1>4. QED
  BY <1>1, <1>2, <1>3, Zenon

\* The socket holds requests.
LEMMA RequestsType ==
    ASSUME Types
    PROVE  c2s \in Seq(Request)
<1>1. OwnRequests \subseteq Request
  BY Zenon DEF OwnRequests
<1>2. QED
  BY <1>1, SeqMonotonic, Zenon DEF Types

\* What was accepted stays in the filter as long as the filter only grows.
LEMMA AcceptedStays ==
    ASSUME Accepted, UNCHANGED <<token, accepted>>, cancelled' = cancelled,
           token # None => filter[token] \subseteq filter'[token]
    PROVE  Accepted'
BY Zenon DEF Accepted

-----------------------------------------------------------------------------
(* The exchange, step by step.                                             *)

Kept == Exchange' /\ Accepted' /\ AcceptedIsForwarded'

\* The first request.
LEMMA BootstrapKept ==
    ASSUME Sound, Base', Bootstrap
    PROVE  Kept
<1>1. /\ token = None /\ calling = {} /\ accepted = {} /\ c2s \in Seq(OwnRequests)
      /\ UNCHANGED <<calling, token, accepted, refused, cancelled, s2c, handlerVars>>
  BY Zenon DEF Sound, Types, TokenInv, Bootstrap
<1>2. Accepted' /\ AcceptedIsForwarded'
  BY <1>1, Zenon DEF Accepted, AcceptedIsForwarded
<1>3. ASSUME ~cancelled
      PROVE  Queued' \/ Severed'
  <2>1. Unasked
    BY <1>3, Zenon DEF Sound, Exchange, Unasked, Quiet, Queued, Taken, Severed, Bootstrap
  <2>2. Orphans' = 0 /\ refused' \in Nat
    BY <1>1, <2>1, NoOrphans, FS_EmptySet, Zenon DEF Unasked, Orphans, handlerVars, Sound, Types
  <2>3. c2s' = <<[op |-> "subscribe", token |-> None, topics |-> {}]>>
    BY <2>1, OnePart, Zenon DEF Unasked, Bootstrap
  <2>4. CASE handler = "read"
    BY <1>1, <2>1, <2>2, <2>3, <2>4 DEF Unasked, Queued, OnlyPings, Bootstrap, handlerVars
  <2>5. CASE handler = "done"
    BY <1>1, <2>1, <2>2, <2>5 DEF Unasked, Severed, Bootstrap, handlerVars
  <2>6. QED
    BY <2>1, <2>4, <2>5, Zenon DEF Unasked
<1>4. QED
  BY <1>1, <1>2, <1>3, Zenon DEF Kept, Exchange

\* The handshake ends with the slot that was made for it.
LEMMA HandshakeKept ==
    ASSUME Sound, Base', Handshake
    PROVE  Kept
<1>1. /\ accepted = {} /\ caller = "hello" /\ token = None /\ s2c # <<>>
      /\ UNCHANGED <<c2s, accepted, refused, cancelled, handlerVars>>
  BY Zenon DEF Sound, Types, TokenInv, Handshake
<1>2. Accepted' /\ AcceptedIsForwarded'
  BY <1>1, Zenon DEF Accepted, AcceptedIsForwarded
<1>3. ASSUME ~cancelled, caller' # "gone"
      PROVE  Quiet'
  <2>1. Taken \/ Severed
    BY <1>1, <1>3, Zenon DEF Sound, Exchange, Unasked, Quiet, Queued, Taken, Severed
  <2>2. /\ s2c = Answer /\ slots \subseteq {provision.generation}
        /\ handler \in {"read", "forward", "done"} /\ (handler # "done" => c2s = <<>>)
    BY <1>1, <2>1, Zenon DEF Taken, Severed, Honoured
  <2>3. s2c' = <<>> /\ token' = provision.generation /\ caller' = "idle"
    <3>1. s2c[1].generation = provision.generation /\ SubSeq(s2c, 3, Len(s2c)) = <<>>
      BY <2>2, AnswerShape, Zenon
    <3>2. QED
      BY <1>3, <3>1, Zenon DEF Handshake
  <2>4. Orphans' = 0
    <3>1. slots' \ {token'} = {}
      BY <1>1, <2>2, <2>3, Zenon DEF handlerVars
    <3>2. QED
      BY <3>1, FS_EmptySet, Zenon DEF Orphans
  <2>5. Orphans' <= refused' /\ (handler' # "done" => Len(c2s') = 0)
    BY <1>1, <2>2, <2>4 DEF handlerVars, Sound, Types
  <2>6. QED
    BY <1>1, <2>2, <2>3, <2>5 DEF Quiet, OnlyPings, handlerVars
<1>4. QED
  BY <1>1, <1>2, <1>3, Zenon DEF Kept, Exchange

\* A consumer that leaves, and a call that is given up.
LEMMA LeaveKept ==
    ASSUME Sound, Base', HandshakeFails \/ Drop \/ Cancel
    PROVE  Kept
<1>1. /\ (caller' = "gone" /\ cancelled' = cancelled) \/ cancelled' = TRUE
      /\ UNCHANGED <<token, accepted, handlerVars>>
  BY Zenon DEF HandshakeFails, Drop, Cancel
<1>2. QED
  BY <1>1, Zenon DEF Kept, Exchange, Accepted, AcceptedIsForwarded, Sound, handlerVars

\* A subscribe: its request is the only one that asks for an answer.
LEMMA SubscribeKept ==
    ASSUME Sound, Base', NEW topics \in SUBSET Topics, Subscribe(topics)
    PROVE  Kept
<1>1. /\ caller = "idle" /\ token # None
      /\ UNCHANGED <<token, accepted, cancelled, s2c, handlerVars>>
  BY Zenon DEF Sound, Types, TokenInv, Subscribe, Return
<1>2. Accepted' /\ AcceptedIsForwarded'
  BY <1>1, Zenon DEF Accepted, AcceptedIsForwarded, Sound, handlerVars
<1>3. ASSUME ~cancelled
      PROVE  Queued' \/ Quiet'
  <2>1. Quiet
    BY <1>1, <1>3, Zenon DEF Sound, Exchange, Unasked, Quiet, Queued, Taken, Severed
  <2>2. Orphans' = Orphans /\ Orphans \in Nat /\ refused \in Nat
    BY <1>1, OrphansType, Zenon DEF Orphans, handlerVars, Sound, Base, Types
  <2>3. CASE handler = "done"
    BY <1>1, <2>1, <2>2, <2>3 DEF Quiet, Subscribe, Return, handlerVars
  <2>4. CASE handler # "done"
    <3> DEFINE r == [op |-> "subscribe", token |-> token, topics |-> topics]
    <3>1. c2s' = Append(c2s, r) /\ caller' = "prefix" /\ calling' = topics /\ refused' = refused
      BY <2>4, Zenon DEF Subscribe, Send
    <3>2. c2s \in Seq(Request) /\ r \in Request
      BY RequestsType, Zenon DEF Sound, Types, Request
    <3> HIDE DEF r
    <3>3. /\ c2s' # <<>> /\ Len(c2s') = Len(c2s) + 1 /\ c2s'[Len(c2s')] = r
          /\ \A i \in 1 .. Len(c2s) : c2s'[i] = c2s[i]
      BY <3>1, <3>2, AppendProperties
    <3>4. ASSUME NEW i \in 1 .. Len(c2s') - 1
          PROVE  c2s'[i].op = "ping"
      <4>1. OnlyPings(Len(c2s))
        BY <2>1, <2>4, Zenon DEF Quiet
      <4>2. i \in 1 .. Len(c2s)
        BY <3>2, <3>3, LenProperties
      <4>3. QED
        BY <3>3, <4>1, <4>2, Zenon DEF OnlyPings
    <3>5. QED
      BY <1>1, <2>1, <2>2, <2>4, <3>1, <3>3, <3>4, Zenon DEF Quiet, Queued, OnlyPings,
         handlerVars, r
  <2>5. QED
    BY <2>3, <2>4, Zenon
<1>4. QED
  BY <1>1, <1>2, <1>3, Zenon DEF Kept, Exchange

\* A ping.
LEMMA PingKept ==
    ASSUME Sound, Base', Ping
    PROVE  Kept
<1>1. /\ caller = "idle" /\ UNCHANGED <<caller, token, accepted, cancelled, s2c, handlerVars>>
  BY Zenon DEF Ping
<1>2. Accepted' /\ AcceptedIsForwarded'
  BY <1>1, Zenon DEF Accepted, AcceptedIsForwarded, Sound, handlerVars
<1>3. ASSUME ~cancelled
      PROVE  Quiet'
  <2>1. Quiet
    BY <1>1, <1>3, Zenon DEF Sound, Exchange, Unasked, Quiet, Queued, Taken, Severed
  <2>2. Orphans' = Orphans /\ Orphans \in Nat /\ refused \in Nat
    BY <1>1, OrphansType, Zenon DEF Orphans, handlerVars, Sound, Base, Types
  <2>3. CASE handler = "done"
    BY <1>1, <2>1, <2>2, <2>3 DEF Quiet, Ping, handlerVars
  <2>4. CASE handler # "done"
    <3> DEFINE r == [op |-> "ping", token |-> token, topics |-> {}]
    <3>1. c2s' = Append(c2s, r) /\ refused' = refused
      BY <2>4, Zenon DEF Ping, Send
    <3>2. c2s \in Seq(Request) /\ r \in Request /\ r.op = "ping"
      BY RequestsType, Zenon DEF Sound, Types, Request
    <3> HIDE DEF r
    <3>3. /\ Len(c2s') = Len(c2s) + 1 /\ c2s'[Len(c2s) + 1] = r
          /\ \A i \in 1 .. Len(c2s) : c2s'[i] = c2s[i]
      BY <3>1, <3>2, AppendProperties
    <3>4. \A i \in 1 .. Len(c2s') : c2s'[i].op = "ping"
      BY <2>1, <2>4, <3>2, <3>3 DEF Quiet, OnlyPings
    <3>5. QED
      BY <1>1, <2>1, <2>2, <3>1, <3>4, Zenon DEF Quiet, OnlyPings, handlerVars
  <2>5. QED
    BY <2>3, <2>4, Zenon
<1>4. QED
  BY <1>1, <1>2, <1>3, Zenon DEF Kept, Exchange

\* The prefix the caller reads is that of its own answer.
LEMMA ReadPrefixKept ==
    ASSUME Sound, Base', ReadPrefix
    PROVE  Kept
<1>1. /\ caller = "prefix" /\ s2c # <<>>
      /\ UNCHANGED <<token, cancelled, c2s, handlerVars>>
  BY Zenon DEF ReadPrefix
<1>2. CASE cancelled
  BY <1>1, <1>2, Zenon DEF Kept, Exchange, Accepted, AcceptedIsForwarded
<1>3. CASE ~cancelled
  <2>1. Taken \/ Severed
    BY <1>1, <1>3, Zenon DEF Sound, Exchange, Unasked, Quiet, Queued, Taken, Severed
  <2>2. \/ s2c = Answer /\ handler \in {"forward", "read", "done"}
        \/ s2c = <<Answer[1]>> /\ handler \in {"reply_payload", "done"}
    BY <1>1, <2>1, Zenon DEF Taken, Severed
  <2>3. /\ Head(s2c).part = "prefix"
        /\ \/ Tail(s2c) = <<Answer[2]>> /\ handler \in {"forward", "read", "done"}
           \/ Tail(s2c) = <<>> /\ handler \in {"reply_payload", "done"}
    BY <2>2, AnswerShape, OnePart, Zenon
  <2>4. /\ s2c' = Tail(s2c) /\ caller' = "payload" /\ UNCHANGED <<calling, accepted, refused>>
    BY <2>3, Zenon DEF ReadPrefix
  <2>5. Accepted' /\ AcceptedIsForwarded'
    BY <1>1, <2>4, Zenon DEF Accepted, AcceptedIsForwarded, Sound, handlerVars
  <2>6. Orphans' = Orphans /\ Answer' = Answer /\ (Honoured => Honoured')
    BY <1>1, <2>4, Zenon DEF Orphans, Answer, Honoured, handlerVars, OwnProvisions, Own
  <2>7. Taken => Taken'
    BY <1>1, <2>3, <2>4, <2>6, Zenon DEF Taken, handlerVars
  <2>8. Severed => Severed'
    BY <1>1, <2>3, <2>4, <2>6, ZenonT(30) DEF Severed, handlerVars
  <2>9. QED
    BY <2>1, <2>5, <2>7, <2>8, Zenon DEF Kept, Exchange
<1>4. QED
  BY <1>2, <1>3, Zenon

\* The payload is that of its own answer: Ok means that the topics are there.
LEMMA ReadPayloadKept ==
    ASSUME Sound, Base', ReadPayload
    PROVE  Kept
<1>1. /\ caller = "payload" /\ s2c # <<>> /\ token' = token
      /\ UNCHANGED <<cancelled, c2s, handlerVars>>
  BY ReadBase, Zenon DEF ReadPayload, Sound, Base
<1>2. CASE cancelled
  BY <1>1, <1>2, Zenon DEF Kept, Exchange, Accepted, AcceptedIsForwarded
<1>3. CASE ~cancelled
  <2>1. Taken \/ Severed
    BY <1>1, <1>3, Zenon DEF Sound, Exchange, Unasked, Quiet, Queued, Taken, Severed
  <2>2. /\ s2c = <<Answer[2]>> /\ handler \in {"forward", "read", "done"} /\ Honoured
        /\ Orphans <= refused + 1
    BY <1>1, <2>1, Zenon DEF Taken, Severed
  <2>3. Head(s2c).kind = provision.kind /\ Tail(s2c) = <<>>
    BY <2>2, AnswerShape, OnePart, Zenon
  <2>4. Orphans' = Orphans /\ Orphans \in Nat /\ refused \in Nat
    BY <1>1, OrphansType, Zenon DEF Orphans, handlerVars, Sound, Base, Types
  <2>5. /\ s2c' = <<>> /\ caller' = "idle"
        /\ \/ provision.kind = "ready" /\ accepted' = accepted \cup calling /\ refused' = refused
           \/ refused' = refused + 1 /\ accepted' = accepted
    BY <2>3, Zenon DEF ReadPayload, Return
  <2>6. Orphans' <= refused'
    BY <2>2, <2>4, <2>5, Zenon DEF Honoured
  <2>7. handler # "done" => Taken
    BY <2>1, Zenon DEF Severed
  <2>8. Quiet'
    BY <1>1, <2>2, <2>5, <2>6, <2>7 DEF Quiet, Taken, OnlyPings, handlerVars
  <2>9. Accepted'
    BY <1>1, <2>2, <2>5, Zenon DEF Accepted, Honoured, Sound, handlerVars
  <2>10. AcceptedIsForwarded'
    BY <1>1, <1>3, <2>2, <2>5, <2>7, Zenon DEF AcceptedIsForwarded, Taken, Sound, handlerVars
  <2>11. QED
    BY <2>8, <2>9, <2>10, Zenon DEF Kept, Exchange
<1>4. QED
  BY <1>2, <1>3, Zenon

\* A call that finds the socket closed returns an error.
LEMMA ReadFailsKept ==
    ASSUME Sound, Base', ReadFails
    PROVE  Kept
<1>1. /\ caller \in {"prefix", "payload"} /\ s2c = <<>> /\ handler = "done"
      /\ caller' = "idle" /\ refused' = refused + 1
      /\ UNCHANGED <<token, accepted, cancelled, c2s, s2c, handlerVars>>
  BY Zenon DEF ReadFails, Return, Sound, Types
<1>2. Accepted' /\ AcceptedIsForwarded'
  BY <1>1, Zenon DEF Accepted, AcceptedIsForwarded, Sound, handlerVars
<1>3. ~cancelled => Severed
  BY <1>1, Zenon DEF Sound, Exchange, Unasked, Quiet, Queued, Taken
<1>4. Orphans' = Orphans
  BY <1>1, Zenon DEF Orphans, handlerVars
<1>5. ~cancelled => Quiet'
  BY <1>1, <1>3, <1>4, Zenon DEF Severed, Quiet, handlerVars
<1>6. QED
  BY <1>1, <1>2, <1>5, Zenon DEF Kept, Exchange

\* The task takes a ping; the request behind it stays the last.
LEMMA ReceivePingKept ==
    ASSUME Sound, Base', ReceivePing
    PROVE  Kept
<1>1. /\ handler = "read" /\ c2s # <<>> /\ c2s' = Tail(c2s) /\ Head(c2s).op = "ping"
      /\ UNCHANGED <<consumerVars, s2c, handlerVars>>
  BY Zenon DEF ReceivePing
<1>2. /\ Head(c2s) = c2s[1] /\ Len(c2s) \in Nat /\ Len(c2s') = Len(c2s) - 1
      /\ \A i \in 1 .. Len(c2s') : c2s'[i] = c2s[i + 1]
  BY <1>1, RequestsType, HeadTailProperties DEF Sound
<1>3. Accepted' /\ AcceptedIsForwarded' /\ Orphans' = Orphans
  BY <1>1, Zenon DEF Accepted, AcceptedIsForwarded, Orphans, Sound, handlerVars, consumerVars
<1>4. CASE Quiet
  <2>1. OnlyPings(Len(c2s))'
    BY <1>1, <1>2, <1>4 DEF Quiet, OnlyPings
  <2>2. Quiet'
    BY <1>1, <1>3, <1>4, <2>1, Zenon DEF Quiet, consumerVars, handlerVars
  <2>3. QED
    BY <1>3, <2>2, Zenon DEF Kept, Exchange
<1>5. CASE Queued
  <2>1. Len(c2s) # 1
    BY <1>1, <1>2, <1>5 DEF Queued
  <2>2. /\ Len(c2s') > 0 /\ c2s'[Len(c2s')] = c2s[Len(c2s)]
        /\ \A i \in 1 .. Len(c2s') - 1 : c2s'[i].op = "ping"
    BY <1>1, <1>2, <1>5, <2>1 DEF Queued, OnlyPings
  <2>3. c2s' # <<>>
    BY <2>2
  <2>4. Queued'
    BY <1>1, <1>3, <1>5, <2>2, <2>3, Zenon DEF Queued, OnlyPings, consumerVars, handlerVars
  <2>5. QED
    BY <1>3, <2>4, Zenon DEF Kept, Exchange
<1>6. CASE cancelled \/ caller = "gone"
  BY <1>1, <1>3, <1>6, Zenon DEF Kept, Exchange, consumerVars
<1>7. QED
  BY <1>1, <1>4, <1>5, <1>6, Zenon DEF Sound, Exchange, Unasked, Taken, Severed

\* A subscribe the task takes is the only request there is, and that of the call.
LEMMA TheRequest ==
    ASSUME Sound, ~cancelled, caller # "gone",
           handler = "read", c2s # <<>>, Head(c2s).op = "subscribe"
    PROVE  /\ Queued /\ Tail(c2s) = <<>>
           /\ Head(c2s).token = token /\ Head(c2s).topics = calling
<1>1. c2s \in Seq(Request) /\ Head(c2s) = c2s[1] /\ Len(c2s) \in Nat /\ Len(c2s) # 0
  BY RequestsType, HeadTailProperties, EmptySeq DEF Sound
<1>2. Queued
  BY <1>1 DEF Sound, Exchange, Unasked, Quiet, Taken, Severed, OnlyPings
<1>3. Len(c2s) = 1
  <2>1. \A i \in 1 .. Len(c2s) - 1 : c2s[i].op = "ping"
    BY <1>2, Zenon DEF Queued, OnlyPings
  <2>2. \A n \in Nat : n # 0 /\ n # 1 => 1 \in 1 .. n - 1
    OBVIOUS
  <2>3. Len(c2s) # 1 => c2s[1].op = "ping"
    BY <1>1, <2>1, <2>2, Zenon
  <2>4. QED
    BY <1>1, <2>3, Zenon
<1>4. Tail(c2s) = <<>>
  <2>1. Tail(c2s) \in Seq(Request) /\ Len(Tail(c2s)) = 0
    BY <1>1, <1>3, HeadTailProperties
  <2>2. QED
    BY <2>1, EmptySeq, Zenon
<1>5. QED
  BY <1>1, <1>2, <1>3, <1>4 DEF Queued

\* A request with a good token: the filter has the topics before the answer goes.
LEMMA ReceiveKnownKept ==
    ASSUME Sound, Base', ReceiveKnown
    PROVE  Kept
<1>1. /\ handler = "read" /\ c2s # <<>> /\ Head(c2s).op = "subscribe" /\ Head(c2s).token \in slots
      /\ c2s' = Tail(c2s) /\ request' = Head(c2s) /\ handler' = "reply"
      /\ filter' = [filter EXCEPT ![Head(c2s).token] = @ \cup Head(c2s).topics]
      /\ provision' = [kind |-> "ready", generation |-> Head(c2s).token]
      /\ UNCHANGED <<consumerVars, s2c, slots, next, upstream, forwarded>>
  BY Zenon DEF ReceiveKnown, Provide
<1>2. \A g \in Generations : filter[g] \subseteq filter'[g]
  BY <1>1, Zenon DEF Sound, Types
<1>3. Accepted'
  BY <1>1, <1>2, AcceptedStays, Zenon DEF Sound, Types, Tokens, consumerVars
<1>4. AcceptedIsForwarded'
  BY <1>1, Zenon DEF AcceptedIsForwarded, Sound, consumerVars
<1>5. ASSUME ~cancelled, caller # "gone"
      PROVE  Taken'
  <2>1. Queued /\ c2s' = <<>> /\ Head(c2s).token = token /\ Head(c2s).topics = calling
    BY <1>1, <1>5, TheRequest, Zenon
  <2>2. token \in Generations /\ caller = "prefix"
    BY <1>1, <2>1, Zenon DEF Queued, Sound, Types, TokenInv, Generations
  <2>3. Orphans' = Orphans /\ Orphans \in Nat /\ refused \in Nat
    BY <1>1, OrphansType, Zenon DEF Orphans, consumerVars, Sound, Base, Types
  <2>4. calling \subseteq filter'[token] /\ provision' \in OwnProvisions'
    BY <1>1, <2>1, <2>2, Zenon DEF Sound, Base, Types, TokenInv
  <2>5. Honoured'
    BY <1>1, <2>1, <2>2, <2>3, <2>4, Zenon DEF Queued, Honoured, consumerVars
  <2>6. QED
    BY <1>1, <2>1, <2>2, <2>3, <2>5 DEF Queued, Taken, consumerVars
<1>6. QED
  BY <1>1, <1>3, <1>4, <1>5, Zenon DEF Kept, Exchange, consumerVars

\* A request without one: the new slot is the orphan this call may leave.
LEMMA ReceiveUnknownKept ==
    ASSUME Sound, Base', ReceiveUnknown
    PROVE  Kept
<1>1. /\ handler = "read" /\ c2s # <<>> /\ Head(c2s).op = "subscribe"
      /\ c2s' = Tail(c2s) /\ request' = Head(c2s) /\ handler' \in {"reply", "done"}
      /\ UNCHANGED <<consumerVars, s2c, upstream, forwarded>>
  BY Zenon DEF ReceiveUnknown
<1>2. handler' = "done" => UNCHANGED <<slots, next, filter, provision>>
  BY Zenon DEF ReceiveUnknown
<1>3. handler' = "reply" =>
         /\ next \in Generations /\ slots' = slots \cup {next}
         /\ filter' = [filter EXCEPT ![next] = Head(c2s).topics]
         /\ provision' = [kind |-> "ready_shm", generation |-> next]
  BY Zenon DEF ReceiveUnknown, Provide
<1>4. token # None => filter'[token] = filter[token]
  <2>1. token # None => token \in Generations /\ token # next
    BY DEF Sound, Types, TokenInv, Tokens, Generations
  <2>2. QED
    BY <1>1, <1>2, <1>3, <2>1, Zenon DEF Sound, Types
<1>5. Accepted'
  BY <1>1, <1>4, AcceptedStays, Zenon DEF Sound, consumerVars
<1>6. AcceptedIsForwarded'
  BY <1>1, Zenon DEF AcceptedIsForwarded, Sound, consumerVars
<1>7. ASSUME ~cancelled, caller # "gone"
      PROVE  Taken' \/ Severed'
  <2>1. Queued /\ c2s' = <<>> /\ Head(c2s).token = token /\ Head(c2s).topics = calling
    BY <1>1, <1>7, TheRequest, Zenon
  <2>2. Orphans \in Nat /\ refused \in Nat
    BY OrphansType, Zenon DEF Sound, Base, Types
  <2>3. CASE handler' = "reply"
    <3>1. Orphans' <= refused' + 1
      <4>1. Base /\ slots' = slots \cup {next} /\ token' = token /\ refused' = refused
        BY <1>1, <1>3, <2>3, Zenon DEF Sound, Base, consumerVars
      <4>2. Orphans' \in Nat /\ Orphans' <= Orphans + 1
        BY <4>1, OrphansGrow, OrphansType, Zenon
      <4>3. Orphans <= refused
        BY <2>1, Zenon DEF Queued
      <4>4. QED
        BY <2>2, <4>1, <4>2, <4>3
    <3>2. provision' \in OwnProvisions' /\ provision'.kind = "ready_shm"
      BY <1>3, <2>3 DEF Base, TokenInv
    <3>3. Honoured'
      BY <1>1, <1>3, <2>1, <2>3, <3>2 DEF Queued, Honoured, consumerVars
    <3>4. QED
      BY <1>1, <2>1, <2>3, <3>1, <3>3, Zenon DEF Queued, Taken, consumerVars
  <2>4. CASE handler' = "done"
    <3>1. Orphans' = Orphans
      BY <1>1, <1>2, <2>4, Zenon DEF Orphans, consumerVars
    <3>2. QED
      BY <1>1, <2>1, <2>2, <2>4, <3>1 DEF Queued, Severed, consumerVars
  <2>5. QED
    BY <1>1, <2>3, <2>4, Zenon
<1>8. QED
  BY <1>1, <1>5, <1>6, <1>7, Zenon DEF Kept, Exchange, consumerVars

\* The answer is written, in one piece or part by part.
LEMMA ReplyKept ==
    ASSUME Sound, Base', ReplyCreated \/ ReplyExisting
    PROVE  Kept
<1>1. /\ caller # "gone" /\ handler \in {"reply", "reply_payload"}
      /\ handler' \in {"reply_payload", "forward"}
      /\ UNCHANGED <<consumerVars, c2s, request, provision, slots, filter, next, upstream, forwarded>>
  BY Zenon DEF ReplyCreated, ReplyExisting
<1>2. /\ Accepted' /\ AcceptedIsForwarded'
  BY <1>1, Zenon DEF Accepted, AcceptedIsForwarded, Sound, consumerVars
<1>3. ASSUME ~cancelled
      PROVE  Taken'
  <2>1. Taken
    BY <1>1, <1>3, Zenon DEF Sound, Exchange, Unasked, Quiet, Queued, Severed
  <2>2. Orphans' = Orphans /\ Answer' = Answer /\ Honoured'
    BY <1>1, <2>1, Zenon DEF Taken, Honoured, Orphans, Answer, OwnProvisions, Own, consumerVars
  <2>3. CASE ReplyCreated
    <3>1. s2c' = s2c \o Answer /\ handler = "reply" /\ handler' = "forward"
      BY <2>3, Zenon DEF ReplyCreated, Answer
    <3>2. s2c' = Answer /\ caller # "payload"
      BY <2>1, <3>1, AnswerShape, Zenon DEF Taken
    <3>3. QED
      BY <1>1, <2>1, <2>2, <3>1, <3>2, Zenon DEF Taken, consumerVars
  <2>4. CASE ReplyExisting /\ handler = "reply"
    <3>1. /\ s2c' = Append(s2c, Answer[1]) /\ handler' = "reply_payload"
          /\ provision.kind = "ready"
      BY <2>4, Zenon DEF ReplyExisting, Answer
    <3>2. s2c' = <<Answer[1]>> /\ caller = "prefix"
      BY <2>1, <2>4, <3>1, OnePart, ControlAssumption, Zenon
      DEF Taken, Honoured, OwnProvisions, Own, Provision, Sound, TokenInv
    <3>3. QED
      BY <1>1, <2>1, <2>2, <2>4, <3>1, <3>2, Zenon DEF Taken, consumerVars
  <2>5. CASE ReplyExisting /\ handler = "reply_payload"
    <3>1. s2c' = Append(s2c, Answer[2]) /\ handler' = "forward"
      BY <2>5, Zenon DEF ReplyExisting, Answer
    <3>2. \/ caller = "prefix" /\ s2c' = Answer
          \/ caller = "payload" /\ s2c' = <<Answer[2]>>
      BY <2>1, <2>5, <3>1, AnswerShape, OnePart, Zenon DEF Taken
    <3>3. QED
      BY <1>1, <2>1, <2>2, <2>5, <3>1, <3>2, Zenon DEF Taken, consumerVars
  <2>6. QED
    BY <1>1, <2>3, <2>4, <2>5, Zenon
<1>4. QED
  BY <1>1, <1>2, <1>3, Zenon DEF Kept, Exchange, consumerVars

\* Forwarding comes after the answer: what was accepted is forwarded then.
LEMMA ForwardKept ==
    ASSUME Sound, Base', Forward
    PROVE  Kept
<1>1. /\ handler = "forward" /\ handler' = "read"
      /\ forwarded' = IF upstream THEN forwarded \cup request.topics ELSE forwarded
      /\ UNCHANGED <<consumerVars, c2s, s2c, request, provision, slots, filter, next, upstream>>
  BY Zenon DEF Forward
<1>2. Accepted' /\ AcceptedIsForwarded'
  BY <1>1, Zenon DEF Accepted, AcceptedIsForwarded, Sound, consumerVars
<1>3. Orphans' = Orphans /\ Answer' = Answer
  BY <1>1, Zenon DEF Orphans, Answer, consumerVars
<1>4. Quiet => Quiet'
  BY <1>1, <1>3, Zenon DEF Quiet, OnlyPings, consumerVars
<1>5. Queued => Queued'
  BY <1>1, <1>3, Zenon DEF Queued, OnlyPings, consumerVars
<1>6. Taken => Taken'
  <2>1. Honoured => Honoured'
    BY <1>1, <1>3, Zenon DEF Honoured, OwnProvisions, Own, consumerVars
  <2>2. QED
    BY <1>1, <1>3, <2>1, Zenon DEF Taken, consumerVars
<1>7. QED
  BY <1>1, <1>2, <1>4, <1>5, <1>6, Zenon DEF Kept, Sound, Exchange, Unasked, Severed, consumerVars

\* An eviction only takes slots away.
LEMMA EvictKept ==
    ASSUME Sound, Base', NEW g \in Generations, Evict(g)
    PROVE  Kept
<1>1. /\ slots' = slots \ {g} /\ g \in slots
      /\ UNCHANGED <<consumerVars, c2s, s2c, handler, request, provision, filter, next, upstream, forwarded>>
  BY Zenon DEF Evict
<1>2. Accepted' /\ AcceptedIsForwarded'
  BY <1>1, Zenon DEF Accepted, AcceptedIsForwarded, Sound, consumerVars
<1>3. /\ Orphans \in Nat /\ Orphans' \in Nat /\ Orphans' <= Orphans /\ Answer' = Answer
      /\ refused \in Nat /\ refused' = refused
  BY <1>1, OrphansType, OrphansShrink, Zenon DEF Answer, Sound, Base, Types, consumerVars
<1>4. Unasked => Unasked'
  BY <1>1, Zenon DEF Unasked
<1>5. Quiet => Quiet'
  BY <1>1, <1>3 DEF Quiet, OnlyPings, consumerVars
<1>6. Queued => Queued'
  BY <1>1, <1>3 DEF Queued, OnlyPings, consumerVars
<1>7. Honoured => Honoured'
  BY <1>1, <1>3 DEF Honoured, OwnProvisions, Own, consumerVars
<1>8. Taken => Taken'
  BY <1>1, <1>3, <1>7 DEF Taken, consumerVars
<1>9. Severed => Severed'
  BY <1>1, <1>3, <1>7 DEF Severed, consumerVars
<1>10. QED
  BY <1>1, <1>2, <1>4, <1>5, <1>6, <1>8, <1>9, ZenonT(30) DEF Kept, Sound, Exchange, consumerVars

\* The end of the sender cuts the answer where it is.
LEMMA SenderStopsKept ==
    ASSUME Sound, Base', SenderStops
    PROVE  Kept
<1>1. /\ handler # "done" /\ handler' = "done" /\ slots' = {}
      /\ UNCHANGED <<consumerVars, c2s, s2c, request, provision, filter, next, upstream, forwarded>>
  BY Zenon DEF SenderStops
<1>2. Accepted' /\ AcceptedIsForwarded'
  BY <1>1, Zenon DEF Accepted, AcceptedIsForwarded, Sound, consumerVars
<1>3. /\ Orphans' \in Nat /\ Orphans \in Nat /\ Orphans' <= Orphans /\ Answer' = Answer
      /\ refused \in Nat /\ refused' = refused
  BY <1>1, OrphansType, OrphansShrink, Zenon DEF Answer, Sound, Base, Types, consumerVars
<1>4. Unasked => Unasked'
  BY <1>1, Zenon DEF Unasked, consumerVars
<1>5. Quiet => Quiet'
  BY <1>1, <1>3 DEF Quiet, consumerVars
<1>6. Queued => Severed'
  BY <1>1, <1>3 DEF Queued, Severed, consumerVars
<1>7. Honoured => Honoured'
  BY <1>1, <1>3 DEF Honoured, OwnProvisions, Own, consumerVars
<1>8. Taken => Severed'
  <2>1. handler = "reply_payload" => provision.kind = "ready"
    BY Zenon DEF Sound, TokenInv
  <2>2. QED
    BY <1>1, <1>3, <1>7, <2>1 DEF Taken, Severed, consumerVars
<1>9. QED
  BY <1>1, <1>2, <1>4, <1>5, <1>6, <1>8, Zenon DEF Kept, Sound, Exchange, Severed, consumerVars

\* That nobody receives what is forwarded changes nothing else.
LEMMA UpstreamKept ==
    ASSUME Sound, Base', UpstreamEnds
    PROVE  Kept
<1>1. /\ upstream' = FALSE
      /\ UNCHANGED <<consumerVars, c2s, s2c, handler, request, provision, slots, filter, next,
                    forwarded>>
  BY Zenon DEF UpstreamEnds
<1> USE <1>1 DEF consumerVars
<1>2. Orphans' = Orphans /\ Answer' = Answer /\ (Honoured => Honoured')
  BY Zenon DEF Orphans, Answer, Honoured, OwnProvisions, Own
<1>3. Unasked \/ Quiet \/ Queued => Unasked' \/ Quiet' \/ Queued'
  BY <1>2, Zenon DEF Unasked, Quiet, Queued, OnlyPings
<1>4. Taken \/ Severed => Taken' \/ Severed'
  BY <1>2, Zenon DEF Taken, Severed
<1>5. QED
  BY <1>3, <1>4, Zenon DEF Kept, Exchange, Accepted, AcceptedIsForwarded, Sound

\* The task that ends because the consumer is gone, and stuttering.
LEMMA RestKept ==
    ASSUME Sound, Base', HandlerEnds \/ UNCHANGED vars
    PROVE  Kept
<1>1. CASE HandlerEnds
  BY <1>1, Zenon DEF HandlerEnds, Kept, Exchange, Accepted, AcceptedIsForwarded, Sound, consumerVars
<1>2. CASE UNCHANGED vars
  <2> USE <1>2 DEF vars, consumerVars, handlerVars
  <2>1. Orphans' = Orphans /\ Answer' = Answer /\ (Honoured => Honoured')
    BY Zenon DEF Orphans, Answer, Honoured, OwnProvisions, Own
  <2>2. Unasked \/ Quiet \/ Queued => Unasked' \/ Quiet' \/ Queued'
    BY <2>1, Zenon DEF Unasked, Quiet, Queued, OnlyPings
  <2>3. Taken \/ Severed => Taken' \/ Severed'
    BY <2>1, Zenon DEF Taken, Severed
  <2>4. QED
    BY <2>2, <2>3, Zenon DEF Kept, Exchange, Accepted, AcceptedIsForwarded, Sound
<1>3. QED
  BY <1>1, <1>2, Zenon

-----------------------------------------------------------------------------
(* The order of the parts, step by step.                                   *)

LEMMA ChainRead ==
    ASSUME NEW s \in Seq(Part), NEW first \in {"prefix", "payload"},
           NEW after \in {"prefix", "payload"}, s # <<>>, Chain(s, first, after)
    PROVE  Head(s).part = first /\ Chain(Tail(s), Other(first), after)
<1> DEFINE t == Tail(s)
<1>1. /\ Head(s) = s[1] /\ Len(s) \in Nat /\ Len(s) # 0 /\ t \in Seq(Part) /\ Len(t) = Len(s) - 1
      /\ \A i \in 1 .. Len(t) : t[i] = s[i + 1]
  BY HeadTailProperties, EmptySeq
<1> HIDE DEF t
<1>2. s[1].part = first /\ s[Len(s)].part = Other(after)
  BY Zenon DEF Chain
<1>3. \A i \in 1 .. Len(s) : i # Len(s) => s[i + 1].part = Other(s[i].part)
  BY Zenon DEF Chain
<1>4. CASE Len(s) = 1
  <2>1. Len(t) = 0
    BY <1>1, <1>4
  <2>2. t = <<>> /\ \A i \in 1 .. Len(t) : FALSE
    <3>1. t = <<>>
      BY <1>1, <2>1, EmptySeq, Zenon
    <3>2. \A i \in 1 .. 0 : FALSE
      OBVIOUS
    <3>3. QED
      BY <2>1, <3>1, <3>2, Zenon
  <2>3. first = Other(after)
    BY <1>2, <1>4, Zenon
  <2>4. Other(first) = after
    BY <2>3 DEF Other
  <2>5. QED
    BY <1>1, <1>2, <2>2, <2>4, Zenon DEF Chain, t
<1>5. CASE Len(s) # 1
  <2>1. Len(t) \in Nat /\ Len(t) # 0 /\ 1 \in 1 .. Len(t) /\ Len(t) \in 1 .. Len(t)
    BY <1>1, <1>5
  <2>2. t # <<>>
    BY <2>1
  <2>3. t[1].part = Other(first)
    <3>1. 1 \in 1 .. Len(s) /\ 1 # Len(s)
      BY <1>1, <1>5
    <3>2. s[1 + 1].part = Other(first)
      BY <1>2, <1>3, <3>1, Zenon
    <3>3. QED
      BY <1>1, <2>1, <3>2, Zenon
  <2>4. t[Len(t)].part = Other(after)
    <3>1. Len(t) + 1 = Len(s)
      BY <1>1
    <3>2. QED
      BY <1>1, <1>2, <2>1, <3>1, Zenon
  <2>5. ASSUME NEW i \in 1 .. Len(t), i # Len(t)
        PROVE  t[i + 1].part = Other(t[i].part)
    <3>1. i + 1 \in 1 .. Len(t) /\ i + 1 \in 1 .. Len(s) /\ i + 1 # Len(s)
      BY <1>1, <2>1, <2>5
    <3>2. QED
      BY <1>1, <1>3, <3>1, Zenon
  <2>6. QED
    BY <1>1, <1>2, <2>2, <2>3, <2>4, <2>5, Zenon DEF Chain, t
<1>6. QED
  BY <1>4, <1>5, Zenon

LEMMA ChainWrite ==
    ASSUME NEW s \in Seq(Part), NEW first \in {"prefix", "payload"},
           NEW after \in {"prefix", "payload"}, Chain(s, first, after),
           NEW p \in Part, p.part = after
    PROVE  Append(s, p) \in Seq(Part) /\ Chain(Append(s, p), first, Other(after))
<1> DEFINE t == Append(s, p)
<1>1. /\ t \in Seq(Part) /\ Len(s) \in Nat /\ Len(t) = Len(s) + 1 /\ t[Len(s) + 1] = p
      /\ \A i \in 1 .. Len(s) : t[i] = s[i]
  BY AppendProperties
<1> HIDE DEF t
<1>2. t # <<>>
  BY <1>1, EmptySeq
<1>3. Other(Other(after)) = after
  BY DEF Other
<1>4. CASE s = <<>>
  <2>1. Len(s) = 0 /\ first = after
    BY <1>4 DEF Chain
  <2>2. t[1].part = first /\ t[Len(t)].part = after
    BY <1>1, <2>1
  <2>3. \A i \in 1 .. Len(t) : i = Len(t)
    BY <1>1, <2>1
  <2>4. QED
    BY <1>1, <1>2, <1>3, <2>2, <2>3, Zenon DEF Chain, t
<1>5. CASE s # <<>>
  <2>1. Len(s) # 0
    BY <1>5, EmptySeq
  <2>2. s[1].part = first /\ s[Len(s)].part = Other(after)
    BY <1>5, Zenon DEF Chain
  <2>3. t[1].part = first /\ t[Len(t)].part = after
    BY <1>1, <2>1, <2>2
  <2>4. ASSUME NEW i \in 1 .. Len(t), i # Len(t)
        PROVE  t[i + 1].part = Other(t[i].part)
    <3>1. i \in 1 .. Len(s) /\ t[i] = s[i]
      BY <1>1, <2>4
    <3>2. CASE i = Len(s)
      BY <1>1, <1>3, <2>2, <3>1, <3>2, Zenon
    <3>3. CASE i # Len(s)
      <4>1. s[i + 1].part = Other(s[i].part)
        BY <3>1, <3>3, Zenon DEF Chain
      <4>2. t[i + 1] = s[i + 1]
        BY <1>1, <3>1, <3>3
      <4>3. QED
        BY <3>1, <4>1, <4>2, Zenon
    <3>4. QED
      BY <3>2, <3>3, Zenon
  <2>5. QED
    BY <1>1, <1>2, <1>3, <2>3, <2>4, Zenon DEF Chain, t
<1>6. QED
  BY <1>4, <1>5, Zenon

\* A frame written at once is the same as its parts one after the other.
LEMMA WriteTwo ==
    ASSUME NEW S, NEW s \in Seq(S), NEW w \in Seq(S), Len(w) = 2
    PROVE  s \o w = Append(Append(s, w[1]), w[2])
<1> DEFINE a == s \o w
           c == Append(s, w[1])
           b == Append(c, w[2])
<1>1. w[1] \in S /\ w[2] \in S /\ Len(s) \in Nat
  <2>1. 1 \in 1 .. Len(w) /\ 2 \in 1 .. Len(w) /\ Len(s) \in Nat
    OBVIOUS
  <2>2. QED
    BY <2>1, ElementOfSeq, Zenon
<1>2. /\ a \in Seq(S) /\ Len(a) = Len(s) + 2
      /\ \A i \in 1 .. Len(a) : a[i] = IF i <= Len(s) THEN s[i] ELSE w[i - Len(s)]
  <2>1. a \in Seq(S) /\ Len(a) = Len(s) + 2
    BY <1>1, ConcatProperties
  <2>2. \A i \in 1 .. Len(a) : a[i] = IF i <= Len(s) THEN s[i] ELSE w[i - Len(s)]
    BY <1>1, <2>1, ConcatProperties
  <2>3. QED
    BY <2>1, <2>2, Zenon
<1>3. /\ c \in Seq(S) /\ Len(c) = Len(s) + 1 /\ c[Len(s) + 1] = w[1]
      /\ \A i \in 1 .. Len(s) : c[i] = s[i]
  BY <1>1, AppendProperties
<1> HIDE DEF a, c
<1>4. /\ b \in Seq(S) /\ Len(b) = Len(c) + 1 /\ b[Len(c) + 1] = w[2]
      /\ \A i \in 1 .. Len(c) : b[i] = c[i]
  BY <1>1, <1>3, AppendProperties
<1> HIDE DEF b
<1>5. ASSUME NEW i \in 1 .. Len(a)
      PROVE  a[i] = b[i]
  <2>1. CASE i <= Len(s)
    <3>1. i \in 1 .. Len(s) /\ i \in 1 .. Len(c)
      BY <1>1, <1>2, <1>3, <2>1
    <3>2. QED
      BY <1>2, <1>3, <1>4, <2>1, <3>1, Zenon
  <2>2. CASE i = Len(s) + 1
    <3>1. i \in 1 .. Len(c) /\ ~(i <= Len(s)) /\ i - Len(s) = 1
      BY <1>1, <1>3, <2>2
    <3>2. QED
      BY <1>2, <1>3, <1>4, <2>2, <3>1, Zenon
  <2>3. CASE i = Len(s) + 2
    <3>1. i = Len(c) + 1 /\ ~(i <= Len(s)) /\ i - Len(s) = 2
      BY <1>1, <1>3, <2>3
    <3>2. QED
      BY <1>2, <1>4, <3>1, Zenon
  <2>4. QED
    BY <1>1, <1>2, <2>1, <2>2, <2>3
<1>6. Len(a) = Len(b)
  BY <1>1, <1>2, <1>3, <1>4
<1>7. a = b
  BY <1>2, <1>4, <1>5, <1>6, SeqEqual, Zenon
<1>8. QED
  BY <1>7, Zenon DEF a, b, c

\* What the socket holds are parts of frames, and so are those of an answer.
LEMMA PartsType ==
    ASSUME Types
    PROVE  /\ s2c \in Seq(Part)
           /\ provision \in OwnProvisions =>
                 /\ Answer[1] \in Part /\ Answer[2] \in Part
                 /\ Answer \in Seq(Part) /\ Len(Answer) = 2
<1>1. OwnReplies \subseteq Part
  BY Zenon DEF OwnReplies
<1>2. provision \in OwnProvisions => Answer[1] \in Part /\ Answer[2] \in Part
  BY Zenon DEF Answer, Frame, Part, OwnProvisions, Provision
<1>3. provision \in OwnProvisions => Answer \in Seq(Part) /\ Len(Answer) = 2
  BY <1>2 DEF Answer, Frame
<1>4. QED
  BY <1>1, <1>2, <1>3, SeqMonotonic, Zenon DEF Types

\* A read takes the part that is due.
LEMMA ReadInStep ==
    ASSUME Sound, InStep, ReadPrefix \/ ReadPayload
    PROVE  InStep'
<1>1. /\ s2c # <<>> /\ s2c' = Tail(s2c) /\ caller # "gone"
      /\ UNCHANGED <<handler, skip, cut>>
  BY Zenon DEF ReadPrefix, ReadPayload, handlerVars, readVars
<1>2. DueToRead \in {"prefix", "payload"} /\ DueToRead' = Other(DueToRead) /\ DueToWrite' = DueToWrite
  BY <1>1, Zenon DEF ReadPrefix, ReadPayload, Return, DueToRead, DueToWrite, Other
<1>3. ASSUME NEW after \in {"prefix", "payload"}, Chain(s2c, DueToRead, after)
      PROVE  Chain(s2c', DueToRead', after)
  BY <1>1, <1>2, <1>3, PartsType, ChainRead, Zenon DEF Sound
<1>4. QED
  BY <1>1, <1>2, <1>3, Zenon DEF InStep

\* The task writes the part that is due, or a whole frame where one is due.
LEMMA ReplyInStep ==
    ASSUME Sound, InStep, ReplyCreated \/ ReplyExisting
    PROVE  InStep'
<1>1. /\ handler \in {"reply", "reply_payload"} /\ handler # "done"
      /\ handler' \in {"reply_payload", "forward"}
      /\ caller # "gone" /\ UNCHANGED <<caller, skip, cut>> /\ DueToRead' = DueToRead
  BY Zenon DEF ReplyCreated, ReplyExisting, consumerVars, readVars, DueToRead
<1>2. /\ s2c \in Seq(Part) /\ Answer[1] \in Part /\ Answer[2] \in Part
      /\ Answer \in Seq(Part) /\ Len(Answer) = 2
      /\ Answer[1].part = "prefix" /\ Answer[2].part = "payload"
      /\ DueToRead \in {"prefix", "payload"}
  BY <1>1, PartsType, AnswerShape, Zenon DEF Sound, TokenInv, DueToRead
<1>3. SUFFICES ASSUME Chain(s2c, DueToRead, DueToWrite)
               PROVE  Chain(s2c', DueToRead, DueToWrite')
  <2>1. DueToWrite' \in {"prefix", "payload"}
    BY Zenon DEF DueToWrite
  <2>2. QED
    BY <1>1, <1>3, <2>1, Zenon DEF InStep
<1>4. CASE ReplyExisting /\ handler = "reply"
  <2>1. /\ s2c' = Append(s2c, Answer[1])
        /\ DueToWrite = "prefix" /\ DueToWrite' = "payload" /\ Other("prefix") = "payload"
    BY <1>4, Zenon DEF ReplyExisting, Answer, DueToWrite, Other
  <2>2. QED
    BY <1>2, <1>3, <2>1, ChainWrite, Zenon
<1>5. CASE ReplyExisting /\ handler = "reply_payload"
  <2>1. /\ s2c' = Append(s2c, Answer[2])
        /\ DueToWrite = "payload" /\ DueToWrite' = "prefix" /\ Other("payload") = "prefix"
    BY <1>5, Zenon DEF ReplyExisting, Answer, DueToWrite, Other
  <2>2. QED
    BY <1>2, <1>3, <2>1, ChainWrite, Zenon
<1>6. CASE ReplyCreated
  <2>1. /\ s2c' = s2c \o Answer
        /\ DueToWrite = "prefix" /\ DueToWrite' = "prefix"
        /\ Other("prefix") = "payload" /\ Other("payload") = "prefix"
    BY <1>6, Zenon DEF ReplyCreated, Answer, DueToWrite, Other
  <2> DEFINE t == Append(s2c, Answer[1])
  <2>2. t \in Seq(Part) /\ Chain(t, DueToRead, "payload")
    BY <1>2, <1>3, <2>1, ChainWrite, Zenon
  <2>3. Chain(Append(t, Answer[2]), DueToRead, "prefix")
    BY <1>2, <2>1, <2>2, ChainWrite, Zenon
  <2>4. s2c \o Answer = Append(t, Answer[2])
    BY <1>2, WriteTwo, Zenon
  <2>5. QED
    BY <2>1, <2>3, <2>4, Zenon
<1>7. QED
  BY <1>1, <1>4, <1>5, <1>6, Zenon

\* The handshake takes the one frame there is.
LEMMA HandshakeInStep ==
    ASSUME Sound, InStep, Handshake
    PROVE  InStep'
<1>1. /\ caller = "hello" /\ ~cancelled /\ s2c # <<>> /\ caller' \in {"idle", "gone"}
      /\ UNCHANGED <<handler, skip>>
  BY Zenon DEF Sound, TokenInv, Handshake, handlerVars, readVars
<1>2. Taken \/ Severed
  BY <1>1, Zenon DEF Sound, Exchange, Unasked, Quiet, Queued, Taken, Severed
<1>3. s2c = Answer /\ handler # "reply_payload"
  BY <1>1, <1>2, Zenon DEF Taken, Severed
<1>4. s2c' = <<>>
  BY <1>3, AnswerShape, Zenon DEF Handshake
<1>5. Chain(s2c', "prefix", "prefix")
  BY <1>4 DEF Chain
<1>6. QED
  BY <1>1, <1>3, <1>5, Zenon DEF InStep, DueToRead, DueToWrite

\* The other steps leave the replies alone, and what is due.
LEMMA RestInStep ==
    ASSUME Sound, InStep, [Next]_vars, ~astray',
           ~(Handshake \/ ReadPrefix \/ ReadPayload \/ ReplyCreated \/ ReplyExisting)
    PROVE  InStep'
<1>1. ~(GoAstray \/ ReadAstray \/ TakeSize \/ TakeBytes)
  BY NotAstray, Zenon DEF Sound, Base
<1>2. CASE Cancel \/ ReadFails \/ Drop
  <2>1. UNCHANGED <<s2c, handler, skip>>
    BY <1>2, Zenon DEF Cancel, ReadFails, Drop, handlerVars, readVars
  <2>2. CASE Drop
    BY <2>1, <2>2, Zenon DEF InStep, Drop
  <2>3. CASE Cancel
    <3>1. cut' \/ (cut' = cut /\ DueToRead' = DueToRead)
      BY <2>3, Zenon DEF Cancel, DueToRead
    <3>2. QED
      BY <2>1, <2>3, <3>1, Zenon DEF InStep, Cancel, DueToWrite
  <2>4. CASE ReadFails
    <3>1. s2c' = <<>> /\ handler' = "done" /\ caller' = "idle"
      BY <2>1, <2>4, Zenon DEF ReadFails, Return
    <3>2. Chain(s2c', "prefix", "prefix")
      BY <3>1 DEF Chain
    <3>3. QED
      BY <2>1, <3>1, <3>2, Zenon DEF InStep, DueToRead
  <2>5. QED
    BY <1>2, <2>2, <2>3, <2>4, Zenon
<1>3. CASE ~(Cancel \/ ReadFails \/ Drop)
  <2>1. /\ UNCHANGED <<s2c, skip, cut>>
        /\ caller' = caller \/ caller' = "gone" \/ (caller # "payload" /\ caller' # "payload")
        /\ caller = "gone" => caller' = "gone"
    BY <1>1, <1>3, ZenonT(60)
    DEF Next, ConsumerStep, HandlerStep, Bootstrap, Ping, Subscribe, Return, HandshakeFails,
        ReceivePing, ReceiveKnown, ReceiveUnknown, Forward, HandlerEnds, Evict, SenderStops,
        UpstreamEnds, vars, consumerVars, readVars
  <2>2. handler' = "done" \/ handler' = handler
          \/ (handler \in {"read", "forward"} /\ handler' \in {"read", "reply"})
    BY <1>1, <1>3, ZenonT(60)
    DEF Next, ConsumerStep, HandlerStep, Bootstrap, Ping, Subscribe, HandshakeFails,
        ReceivePing, ReceiveKnown, ReceiveUnknown, Forward, HandlerEnds, Evict, SenderStops,
        UpstreamEnds, vars, handlerVars
  <2>3. handler = "done" => handler' = "done"
    BY <1>1, <1>3, ZenonT(60)
    DEF Next, ConsumerStep, HandlerStep, Bootstrap, Ping, Subscribe, HandshakeFails,
        ReceivePing, ReceiveKnown, ReceiveUnknown, Forward, HandlerEnds, Evict, SenderStops,
        UpstreamEnds, vars, handlerVars
  <2>4. /\ caller' # "gone" => DueToRead' = DueToRead
        /\ handler' # "done" => DueToWrite' = DueToWrite
    BY <2>1, <2>2, Zenon DEF DueToRead, DueToWrite
  <2>5. QED
    BY <2>1, <2>3, <2>4, Zenon DEF InStep
<1>4. QED
  BY <1>2, <1>3, Zenon

-----------------------------------------------------------------------------
LEMMA InitInv == Init => Inv
<1> SUFFICES ASSUME Init PROVE Inv
  BY Zenon
<1>1. Types /\ TokenInv
  BY InitBase, Zenon DEF Base
<1>2. Exchange /\ Accepted /\ AcceptedIsForwarded
  BY Zenon DEF Init, Exchange, Unasked, Accepted, AcceptedIsForwarded
<1>3. InStep
  <2>1. Chain(s2c, "prefix", "prefix")
    BY DEF Init, Chain
  <2>2. QED
    BY <2>1, Zenon DEF Init, InStep, DueToRead, DueToWrite
<1>4. QED
  BY <1>1, <1>2, <1>3, Zenon DEF Init, Inv, Sound

\* What happened stays known.
LEMMA HistoryGrows ==
    ASSUME [Next]_vars
    PROVE  /\ cancelled => cancelled'
           /\ cut => cut'
           /\ cut' => cut \/ cancelled'
           /\ astray => astray'
           /\ astray' => astray \/ GoAstray
<1>1. Cancel \/ cancelled' = cancelled
  BY ZenonT(60)
  DEF Next, ConsumerStep, HandlerStep, Bootstrap, Ping, Subscribe, Handshake, HandshakeFails,
      ReadPrefix, ReadPayload, ReadFails, Drop, GoAstray, ReadAstray, TakeSize, TakeBytes,
      ReceivePing, ReceiveKnown, ReceiveUnknown, ReplyCreated, ReplyExisting, Forward, HandlerEnds,
      Evict, SenderStops, UpstreamEnds, vars, consumerVars, readVars
<1>2. Cancel \/ cut' = cut
  BY ZenonT(60)
  DEF Next, ConsumerStep, HandlerStep, Bootstrap, Ping, Subscribe, Handshake, HandshakeFails,
      ReadPrefix, ReadPayload, ReadFails, Drop, GoAstray, ReadAstray, TakeSize, TakeBytes,
      ReceivePing, ReceiveKnown, ReceiveUnknown, ReplyCreated, ReplyExisting, Forward, HandlerEnds,
      Evict, SenderStops, UpstreamEnds, vars, consumerVars, readVars
<1>3. GoAstray \/ astray' = astray
  BY ZenonT(60)
  DEF Next, ConsumerStep, HandlerStep, Bootstrap, Ping, Subscribe, Handshake, HandshakeFails,
      ReadPrefix, ReadPayload, ReadFails, Cancel, Drop, ReadAstray, TakeSize, TakeBytes,
      ReceivePing, ReceiveKnown, ReceiveUnknown, ReplyCreated, ReplyExisting, Forward, HandlerEnds,
      Evict, SenderStops, UpstreamEnds, vars, consumerVars, readVars
<1>4. Cancel => cancelled' /\ (cut' = cut \/ cut')
  BY Zenon DEF Cancel
<1>5. GoAstray => astray'
  BY Zenon DEF GoAstray
<1>6. (cancelled => cancelled') /\ (cut => cut') /\ (astray => astray')
  <2>1. cancelled => cancelled'
    BY <1>1, <1>4, Zenon
  <2>2. cut => cut'
    BY <1>2, <1>4, Zenon
  <2>3. astray => astray'
    BY <1>3, <1>5, Zenon
  <2>4. QED
    BY <2>1, <2>2, <2>3, Zenon
<1>7. cut' => cut \/ cancelled'
  <2>1. CASE Cancel
    BY <1>4, <2>1, Zenon
  <2>2. CASE cut = cut'
    BY <2>2, Zenon
  <2>3. QED
    BY <1>2, <2>1, <2>2, Zenon
<1>8. astray' => astray \/ GoAstray
  <2>1. CASE astray = astray'
    BY <2>1, Zenon
  <2>2. QED
    BY <1>3, <2>1, Zenon
<1>9. QED
  BY <1>6, <1>7, <1>8, Zenon

\* Only after a call was cut does one start where no frame begins.
LEMMA AstrayIsCut ==
    ASSUME Sound, InStep, GoAstray
    PROVE  cut
<1>1. caller = "prefix" /\ s2c # <<>> /\ (skip > 0 \/ Head(s2c).part = "payload")
  BY Zenon DEF GoAstray
<1>2. skip = 0 /\ ~(skip > 0)
  BY DEF InStep
<1>3. DueToRead = "prefix"
  BY <1>1, Zenon DEF DueToRead
<1>4. \A after \in {"prefix", "payload"} : Chain(s2c, "prefix", after) => Head(s2c).part = "prefix"
  BY <1>1, PartsType, ChainRead, Zenon DEF Sound
<1>5. QED
  BY <1>1, <1>2, <1>3, <1>4, Zenon DEF InStep

LEMMA NextInv == Inv /\ [Next]_vars => Inv'
<1> SUFFICES ASSUME Inv, [Next]_vars PROVE Inv'
  BY Zenon
<1>1. cut' => cancelled'
  BY HistoryGrows, Zenon DEF Inv
<1>2. astray' => cut'
  <2>1. CASE astray
    BY <2>1, HistoryGrows, Zenon DEF Inv
  <2>2. CASE ~astray /\ astray'
    <3>1. GoAstray
      BY <2>2, HistoryGrows, Zenon
    <3>2. QED
      BY <2>2, <3>1, AstrayIsCut, HistoryGrows, Zenon DEF Inv
  <2>3. QED
    BY <2>1, <2>2, Zenon
<1>3. ASSUME ~astray'
      PROVE  Sound' /\ InStep'
  <2>1. Sound /\ InStep
    BY <1>3, HistoryGrows, Zenon DEF Inv
  <2>2. Base'
    BY <1>3, <2>1, NextBase, Zenon DEF Sound, Base
  <2>3. Kept
    <3>1. CASE Next
      <4>1. ~(GoAstray \/ ReadAstray \/ TakeSize \/ TakeBytes)
        BY <1>3, <2>1, NotAstray, Zenon DEF Sound, Base
      <4>2. QED
        BY <2>1, <2>2, <3>1, <4>1, BootstrapKept, PingKept, SubscribeKept, HandshakeKept, LeaveKept,
           ReadPrefixKept, ReadPayloadKept, ReadFailsKept, ReceivePingKept, ReceiveKnownKept,
           ReceiveUnknownKept, ReplyKept, ForwardKept, RestKept, EvictKept, SenderStopsKept,
           UpstreamKept, ZenonT(30)
        DEF Next, ConsumerStep, HandlerStep
    <3>2. QED
      BY <2>1, <2>2, <3>1, RestKept, Zenon
  <2>4. InStep'
    BY <1>3, <2>1, HandshakeInStep, ReadInStep, ReplyInStep, RestInStep, Zenon
  <2>5. QED
    BY <2>2, <2>3, <2>4, Zenon DEF Sound, Base, Kept
<1>4. QED
  BY <1>1, <1>2, <1>3, Zenon DEF Inv

(* Inv is an invariant of the control socket.                              *)
THEOREM Invariance == Spec => []Inv
<1>1. QED
  BY InitInv, NextInv, PTL DEF Spec

(* A subscribe that returned Ok has its topics in the filter of the slot   *)
(* the consumer reads, until a caller gives one up: send_subscription      *)
(* reads its own reply, and upsert_shm extends the filter before it.       *)
THEOREM OkIsApplied == Spec => []AppliedUntilCancelled
<1>1. Inv => AppliedUntilCancelled
  BY Zenon DEF Inv, Sound, Types, TokenInv, Accepted, AppliedUntilCancelled, OkMeansApplied
<1>2. QED
  BY <1>1, Invariance, PTL

(* Between calls the socket is free of replies and of requests that will   *)
(* be answered: "so the next subscribe / ping doesn't pick up the stale    *)
(* reply".                                                                 *)
THEOREM RepliesAreFresh == Spec => []NoStaleReply
<1>1. Inv => NoStaleReply
  BY Zenon DEF Inv, Sound, Exchange, Unasked, Quiet, Queued, Taken, Severed, OnlyPings, NoStaleReply
<1>2. QED
  BY <1>1, Invariance, PTL

(* What was acknowledged to the consumer reaches bloom_updates_tx, as long *)
(* as the task runs and somebody receives.                                 *)
THEOREM AcceptedTopicsAreForwarded == Spec => []AcceptedIsForwarded
<1>1. Inv => AcceptedIsForwarded
  BY Zenon DEF Inv, Sound, AcceptedIsForwarded
<1>2. QED
  BY <1>1, Invariance, PTL

(* Every slot in the table that the consumer does not read is accounted    *)
(* for by a call that returned an error or is in progress.                 *)
THEOREM OrphansAreAccountedFor == Spec => []OrphansAreReported
<1>1. Inv => OrphansAreReported
  <2> SUFFICES ASSUME Sound, ~cancelled, caller # "gone"
               PROVE  Orphans <= refused + Cardinality({caller} \cap {"hello", "prefix", "payload"})
    BY Zenon DEF OrphansAreReported, Orphans, Inv
  <2> DEFINE waiting == {caller} \cap {"hello", "prefix", "payload"}
  <2>1. Orphans \in Nat /\ refused \in Nat
    BY OrphansType, Zenon DEF Sound, Base, Types
  <2>2. CASE caller \in {"hello", "prefix", "payload"}
    <3>1. waiting = {caller}
      BY <2>2, Zenon
    <3>2. Cardinality(waiting) = 1
      BY <3>1, FS_Singleton, Zenon
    <3>3. Orphans <= refused + 1
      BY <2>1, <2>2 DEF Sound, Exchange, Unasked, Quiet, Queued, Taken, Severed
    <3>4. QED
      BY <3>2, <3>3, Zenon
  <2>3. CASE caller \notin {"hello", "prefix", "payload"}
    <3>1. waiting = {}
      BY <2>3, Zenon
    <3>2. Cardinality(waiting) = 0
      BY <3>1, FS_EmptySet, Zenon
    <3>3. Unasked \/ Quiet
      BY <2>3, Zenon DEF Sound, Exchange, Queued, Taken, Severed
    <3>4. Unasked => Orphans = 0
      BY NoOrphans, Zenon DEF Unasked
    <3>5. Orphans <= refused
      BY <2>1, <3>3, <3>4 DEF Quiet
    <3>6. QED
      BY <2>1, <3>2, <3>5
  <2>4. QED
    BY <2>2, <2>3, Zenon
<1>2. QED
  BY <1>1, Invariance, PTL

(* A token, once set, never changes, whatever replies are left in the      *)
(* socket, as long as they are read from where they begin: a reply without *)
(* a descriptor repeats the token of its request.                          *)
THEOREM TokensAreStable == Spec => TokenIsStable
<1>1. Inv /\ [Next]_vars => (token # None => token' = token \/ astray)
  <2> SUFFICES ASSUME Sound, [Next]_vars, token # None, ~astray
               PROVE  token' = token
    BY Zenon DEF Inv
  <2>1. ReadPrefix \/ ReadPayload => token' = token
    BY ReadBase, Zenon DEF Sound, Base
  <2>2. ~Handshake /\ ~ReadAstray /\ ~TakeSize /\ ~TakeBytes
    BY Zenon DEF Sound, Types, TokenInv, Handshake, ReadAstray, TakeSize, TakeBytes
  <2>3. QED
    BY <2>1, <2>2, ZenonT(30)
    DEF Next, ConsumerStep, HandlerStep, Bootstrap, Ping, Subscribe, HandshakeFails, ReadFails,
        Cancel, Drop, GoAstray, ReceivePing, ReceiveKnown, ReceiveUnknown, ReplyCreated,
        ReplyExisting, Forward, HandlerEnds, Evict, SenderStops, UpstreamEnds, vars, consumerVars
<1>2. QED
  BY <1>1, Invariance, PTL DEF Spec, TokenIsStable

(* send_subscription reads on where no frame begins only after one was     *)
(* given up between prefix and payload, for any number of calls, slots,    *)
(* errors and calls given up elsewhere: read_framed takes both parts of    *)
(* what it takes, and the task writes both parts of what it writes.        *)
THEOREM ReadersKeepStep == Spec => []InStepUnlessCut
<1>1. Inv => InStepUnlessCut
  BY Zenon DEF Inv, InStepUnlessCut
<1>2. QED
  BY <1>1, Invariance, PTL
=============================================================================
