---------------------------- MODULE ControlPlane ----------------------------
(***************************************************************************)
(* The control socket between one consumer and the sender's task for it:   *)
(* handshake, subscribe and ping (consumer/shm.rs), the frames in both     *)
(* directions (wire.rs, shm/uds.rs) and the task that answers them         *)
(* (sender/shm.rs).                                                        *)
(*                                                                         *)
(* A frame is a prefix and a payload: the consumer reads them one after    *)
(* the other, and write_framed writes them so, while a frame with a        *)
(* descriptor is sent in one piece.  A slot is named by its generation;    *)
(* what upsert_shm does to the table as others see it is the subject of    *)
(* ConnectionManager, here it is one step.  A request is written in one    *)
(* step: one that names so many keys that write_all has to wait, and may   *)
(* be given up half way, is left out.                                      *)
(*                                                                         *)
(* A call that is given up between prefix and payload leaves the socket    *)
(* where no frame begins.  From there on a reader takes for a size         *)
(* whatever four bytes come next, so the bytes matter: Bytes gives them.   *)
(***************************************************************************)
EXTENDS Naturals, Sequences, FiniteSets

CONSTANTS
    Topics,             \* what a subscription can ask for
    FirstGeneration,    \* the generation of the first slot
    MaxGeneration,      \* bound on the slots the consumer is given
    MaxCalls,           \* bound on subscribe and ping calls
    SlotIndex,          \* the index of its slots
    RingBytes,          \* ring_path and ring_capacity in a ConnectionReadyShm
    None

Generations == FirstGeneration .. MaxGeneration
ASSUME ControlAssumption ==
    /\ {FirstGeneration, MaxGeneration, MaxCalls, SlotIndex} \subseteq Nat
    /\ FirstGeneration <= MaxGeneration + 1
    /\ RingBytes \in Seq(Nat)
    /\ None \notin Generations

VARIABLES
    caller,             \* what the consumer's call in progress does next
    calling,            \* the topics it asks for
    token,              \* the consumer's slot token
    eventfd,            \* the slot whose eventfd its reader waits on
    c2s, s2c,           \* the two directions of the socket
    skip,               \* bytes of the first part of s2c that are read already
    held, want,         \* bytes a reader that is out of step has, and needs
    handler,            \* what the sender's task does next
    request,            \* the request it serves
    provision,          \* ShmSlotProvision: [kind, generation]
    slots,              \* slots of this consumer that are in the table
    filter,             \* generation -> topics
    next,               \* the next generation
    upstream,           \* bloom_updates_tx is there and has a receiver
    calls               \* calls made so far

(* History: what the properties talk about.                                *)
VARIABLES
    accepted,           \* topics of the subscribes that returned Ok
    refused,            \* calls that returned an error
    forwarded,          \* topics sent to bloom_updates_tx
    lost,               \* slots whose descriptor was dropped on receipt
    cancelled,          \* a subscribe was given up while it waited
    cut,                \* one was given up between prefix and payload
    astray              \* one read on where no frame begins

readVars == <<skip, held, want, cut, astray>>
consumerVars ==
    <<caller, calling, token, eventfd, calls, accepted, refused, lost, cancelled, readVars>>
handlerVars == <<handler, request, provision, slots, filter, next, upstream, forwarded>>
vars == <<consumerVars, c2s, s2c, handlerVars>>

Init ==
    /\ caller = "start" /\ calling = {} /\ token = None /\ eventfd = None
    /\ c2s = <<>> /\ s2c = <<>>
    /\ handler = "read" /\ request = None /\ provision = None
    /\ slots = {} /\ filter = [g \in Generations |-> {}] /\ next = FirstGeneration
    /\ upstream \in BOOLEAN
    /\ skip = 0 /\ held = <<>> /\ want = 0
    /\ calls = 0
    /\ accepted = {} /\ refused = 0 /\ forwarded = {} /\ lost = {}
    /\ cancelled = FALSE /\ cut = FALSE /\ astray = FALSE

-----------------------------------------------------------------------------
(* The consumer.                                                           *)

Frame(kind, g) ==
    << [part |-> "prefix", kind |-> kind, generation |-> g],
       [part |-> "payload", kind |-> kind, generation |-> g] >>

\* The call is over; Ok or Err is for the caller to see.
Return(ok) ==
    /\ caller' = "idle" /\ calling' = {}
    /\ \/ ok /\ accepted' = accepted \cup calling /\ UNCHANGED refused
       \/ ~ok /\ refused' = refused + 1 /\ UNCHANGED accepted

\* setup_shm_consumer: an empty subscription without a token.
Bootstrap ==
    /\ caller = "start"
    /\ c2s' = Append(c2s, [op |-> "subscribe", token |-> None, topics |-> {}])
    /\ caller' = "hello"
    /\ UNCHANGED <<calling, token, eventfd, calls, accepted, refused, lost, cancelled, readVars,
                   s2c, handlerVars>>

\* recv_frame_with_fd takes frame and descriptor together; then the ring is
\* opened, which fails if the slot was evicted in the meantime.  The sender
\* answers a request without a token by a new slot, so the frame is the right one.
Handshake ==
    /\ caller = "hello" /\ s2c # <<>>
    /\ s2c' = SubSeq(s2c, 3, Len(s2c))
    /\ \/ /\ s2c[1].kind = "ready_shm"
          /\ token' = s2c[1].generation /\ eventfd' = s2c[1].generation
          /\ caller' = "idle"
       \/ /\ s2c[1].generation \notin slots
          /\ caller' = "gone"
          /\ UNCHANGED <<token, eventfd>>
    /\ UNCHANGED <<calling, calls, accepted, refused, lost, cancelled, readVars, c2s, handlerVars>>

\* The socket is closed under the handshake.
HandshakeFails ==
    /\ caller = "hello" /\ handler = "done" /\ s2c = <<>>
    /\ caller' = "gone"
    /\ UNCHANGED <<calling, token, eventfd, calls, accepted, refused, lost, cancelled, readVars,
                   c2s, s2c, handlerVars>>

Send(op, topics) == c2s' = Append(c2s, [op |-> op, token |-> token, topics |-> topics])

\* send_subscription: the request carries the token; then the reply is awaited.
Subscribe(topics) ==
    /\ caller = "idle" /\ calls < MaxCalls
    /\ calls' = calls + 1
    /\ \/ /\ handler # "done"
          /\ Send("subscribe", topics)
          /\ caller' = "prefix" /\ calling' = topics
          /\ UNCHANGED <<accepted, refused>>
       \/ handler = "done" /\ Return(FALSE) /\ UNCHANGED c2s
    /\ UNCHANGED <<token, eventfd, lost, cancelled, readVars, s2c, handlerVars>>

\* send_ping does not wait for anything.
Ping ==
    /\ caller = "idle" /\ calls < MaxCalls
    /\ calls' = calls + 1
    /\ \/ handler # "done" /\ Send("ping", {}) /\ UNCHANGED refused
       \/ handler = "done" /\ refused' = refused + 1 /\ UNCHANGED c2s
    /\ UNCHANGED <<caller, calling, token, eventfd, accepted, lost, cancelled, readVars,
                   s2c, handlerVars>>

\* A plain read drops the descriptor that comes with the bytes it returns.
Dropped(part) == {p.generation : p \in {q \in {part} : q.kind = "ready_shm"}}

\* read_framed, first half.
ReadPrefix ==
    /\ caller = "prefix" /\ s2c # <<>>
    /\ skip = 0 /\ Head(s2c).part = "prefix"
    /\ s2c' = Tail(s2c)
    /\ lost' = lost \cup Dropped(Head(s2c))
    /\ caller' = "payload"
    /\ UNCHANGED <<calling, token, eventfd, calls, accepted, refused, cancelled, readVars,
                   c2s, handlerVars>>

\* read_framed, second half, and what send_subscription makes of the frame:
\* ConnectionReady is Ok, ConnectionReadyShm an error.
ReadPayload ==
    /\ caller = "payload" /\ s2c # <<>>
    /\ s2c' = Tail(s2c)
    /\ \/ /\ Head(s2c).kind = "ready"
          /\ token' = Head(s2c).generation /\ Return(TRUE)
       \/ Head(s2c).kind # "ready" /\ Return(FALSE) /\ UNCHANGED token
    /\ UNCHANGED <<eventfd, calls, lost, cancelled, readVars, c2s, handlerVars>>

\* The sender's end is closed and there is nothing left to read: an error.
ReadFails ==
    /\ caller \in {"prefix", "payload"} \/ (caller \in {"size", "bytes"} /\ Len(held) < want)
    /\ handler = "done" /\ s2c = <<>>
    /\ Return(FALSE)
    /\ held' = <<>> /\ want' = 0
    /\ UNCHANGED <<token, eventfd, calls, lost, cancelled, skip, cut, astray, c2s, s2c, handlerVars>>

\* The caller drops the future of a subscribe that waits for its reply.  What it
\* has read is not put back.
Cancel ==
    /\ caller \in {"prefix", "payload", "size", "bytes"}
    /\ caller' = "idle" /\ calling' = {}
    /\ cancelled' = TRUE /\ cut' = IF caller = "payload" THEN TRUE ELSE cut
    /\ held' = <<>> /\ want' = 0
    /\ UNCHANGED <<token, eventfd, calls, accepted, refused, lost, skip, astray, c2s, s2c, handlerVars>>

\* The consumer is dropped or its process dies.
Drop ==
    /\ caller \notin {"start", "gone"}
    /\ caller' = "gone" /\ calling' = {} /\ eventfd' = None
    /\ UNCHANGED <<token, calls, accepted, refused, lost, cancelled, readVars,
                   c2s, s2c, handlerVars>>

-----------------------------------------------------------------------------
(* The consumer, out of step with the frames.                              *)

WIRE_VERSION == 9
READY_TAG == 3
READY_SHM_TAG == 5
UNSET_SLOT_INDEX == 255
MAX_FRAME_SIZE == 16 * 1024 * 1024

\* u32::from_le_bytes.
LittleEndian(bs) == bs[1] + 256 * (bs[2] + 256 * (bs[3] + 256 * bs[4]))

\* encode: version, tag, index, generation; then the ring, if there is one.  (The
\* generation is a u64; here it stays below 2^32.)
Payload(kind, g) ==
    << WIRE_VERSION, IF kind = "ready" THEN READY_TAG ELSE READY_SHM_TAG, SlotIndex,
       g % 256, (g \div 256) % 256, (g \div 65536) % 256, (g \div 16777216) % 256, 0, 0, 0, 0 >>
    \o (IF kind = "ready" THEN <<>> ELSE RingBytes)

\* A part of a frame as it is in the socket.
Bytes(p) ==
    IF p.part = "payload"
    THEN Payload(p.kind, p.generation)
    ELSE <<Len(Payload(p.kind, p.generation)), 0, 0, 0>>

\* read_framed starts where no frame begins: it wants four bytes all the same.
GoAstray ==
    /\ caller = "prefix" /\ s2c # <<>>
    /\ skip > 0 \/ Head(s2c).part = "payload"
    /\ caller' = "size" /\ want' = 4 /\ astray' = TRUE
    /\ UNCHANGED <<calling, token, eventfd, calls, accepted, refused, lost, cancelled,
                   skip, held, cut, c2s, s2c, handlerVars>>

\* read_exact, for the size or for the payload: it takes what there is.
ReadAstray ==
    /\ caller \in {"size", "bytes"} /\ Len(held) < want /\ s2c # <<>>
    /\ LET bytes == Bytes(Head(s2c))
           left  == Len(bytes) - skip
           n     == IF want - Len(held) < left THEN want - Len(held) ELSE left
       IN  /\ held' = held \o SubSeq(bytes, skip + 1, skip + n)
           /\ IF n = left THEN s2c' = Tail(s2c) /\ skip' = 0 ELSE skip' = skip + n /\ UNCHANGED s2c
    /\ lost' = lost \cup Dropped(Head(s2c))
    /\ UNCHANGED <<caller, calling, token, eventfd, calls, accepted, refused, cancelled,
                   want, cut, astray, c2s, handlerVars>>

\* The four bytes are the size: too large, or so many more are wanted.
TakeSize ==
    /\ caller = "size" /\ Len(held) = want
    /\ held' = <<>>
    /\ \/ /\ LittleEndian(held) > MAX_FRAME_SIZE
          /\ want' = 0 /\ Return(FALSE)
       \/ /\ LittleEndian(held) <= MAX_FRAME_SIZE
          /\ want' = LittleEndian(held) /\ caller' = "bytes"
          /\ UNCHANGED <<calling, accepted, refused>>
    /\ UNCHANGED <<token, eventfd, calls, lost, cancelled, skip, cut, astray, c2s, s2c, handlerVars>>

\* ConnectionReady::decode; what is behind the generation is not looked at.
IsReady(bs) ==
    /\ Len(bs) >= 11
    /\ bs[1] = WIRE_VERSION /\ bs[2] = READY_TAG /\ bs[3] # UNSET_SLOT_INDEX

\* The bytes wanted are there, and are decoded as a frame.
TakeBytes ==
    /\ caller = "bytes" /\ Len(held) = want
    /\ held' = <<>> /\ want' = 0
    /\ token' = IF IsReady(held) THEN LittleEndian(SubSeq(held, 4, 7)) ELSE token
    /\ Return(IsReady(held))
    /\ UNCHANGED <<eventfd, calls, lost, cancelled, skip, cut, astray, c2s, s2c, handlerVars>>

-----------------------------------------------------------------------------
(* The sender's task.                                                      *)

Provide(kind, g) == provision' = [kind |-> kind, generation |-> g]

\* Fault: a ping is answered like a subscription.
AnswerPing ==
    /\ handler = "read" /\ c2s # <<>> /\ Head(c2s).op = "ping"
    /\ c2s' = Tail(c2s)
    /\ s2c' = s2c \o Frame("ready", Head(c2s).token)
    /\ UNCHANGED <<consumerVars, handlerVars>>

\* A ping is not answered, whether its slot is known or not.
ReceivePing ==
    /\ handler = "read" /\ c2s # <<>> /\ Head(c2s).op = "ping"
    /\ c2s' = Tail(c2s)
    /\ UNCHANGED <<consumerVars, s2c, handlerVars>>

\* Fault: the reply is sent and the filter left as it is.
ReceiveKnownIdly ==
    /\ handler = "read" /\ c2s # <<>> /\ Head(c2s).op = "subscribe"
    /\ Head(c2s).token \in slots
    /\ c2s' = Tail(c2s) /\ request' = Head(c2s)
    /\ Provide("ready", Head(c2s).token)
    /\ handler' = "reply"
    /\ UNCHANGED <<consumerVars, s2c, slots, filter, next, upstream, forwarded>>

\* Fault: a filter that has everything already is not acknowledged.
ReceiveKnownSilently ==
    /\ handler = "read" /\ c2s # <<>> /\ Head(c2s).op = "subscribe"
    /\ Head(c2s).token \in slots
    /\ c2s' = Tail(c2s) /\ request' = Head(c2s)
    /\ filter' = [filter EXCEPT ![Head(c2s).token] = @ \cup Head(c2s).topics]
    /\ Provide("ready", Head(c2s).token)
    /\ handler' = IF filter' = filter THEN "forward" ELSE "reply"
    /\ UNCHANGED <<consumerVars, s2c, slots, next, upstream, forwarded>>

\* Fault: a slot is made before the token is looked at, and kept.
ReceiveKnownAnew ==
    /\ handler = "read" /\ c2s # <<>> /\ Head(c2s).op = "subscribe"
    /\ Head(c2s).token \in slots /\ next \in Generations
    /\ c2s' = Tail(c2s) /\ request' = Head(c2s)
    /\ slots' = slots \cup {next} /\ next' = next + 1
    /\ filter' = [filter EXCEPT ![Head(c2s).token] = @ \cup Head(c2s).topics]
    /\ Provide("ready", Head(c2s).token)
    /\ handler' = "reply"
    /\ UNCHANGED <<consumerVars, s2c, upstream, forwarded>>

\* upsert_shm with a token that is good: the filter is extended.
ReceiveKnown ==
    /\ handler = "read" /\ c2s # <<>> /\ Head(c2s).op = "subscribe"
    /\ Head(c2s).token \in slots
    /\ c2s' = Tail(c2s) /\ request' = Head(c2s)
    /\ filter' = [filter EXCEPT ![Head(c2s).token] = @ \cup Head(c2s).topics]
    /\ Provide("ready", Head(c2s).token)
    /\ handler' = "reply"
    /\ UNCHANGED <<consumerVars, s2c, slots, next, upstream, forwarded>>

\* Without one: a new slot, or an error that ends the task.
ReceiveUnknown ==
    /\ handler = "read" /\ c2s # <<>> /\ Head(c2s).op = "subscribe"
    /\ Head(c2s).token \notin slots
    /\ c2s' = Tail(c2s) /\ request' = Head(c2s)
    /\ \/ /\ next \in Generations
          /\ slots' = slots \cup {next} /\ next' = next + 1
          /\ filter' = [filter EXCEPT ![next] = Head(c2s).topics]
          /\ Provide("ready_shm", next)
          /\ handler' = "reply"
       \/ handler' = "done" /\ UNCHANGED <<slots, next, filter, provision>>
    /\ UNCHANGED <<consumerVars, s2c, upstream, forwarded>>

\* send_frame_with_fd is one sendmsg; write_framed writes twice.
ReplyCreated ==
    /\ handler = "reply" /\ provision.kind = "ready_shm" /\ caller # "gone"
    /\ s2c' = s2c \o Frame("ready_shm", provision.generation)
    /\ handler' = "forward"
    /\ UNCHANGED <<consumerVars, c2s, request, provision, slots, filter, next, upstream, forwarded>>

\* Fault: the reply is written without its size.
ReplyBare ==
    /\ provision # None /\ provision.kind = "ready" /\ caller # "gone"
    /\ handler = "reply" /\ handler' = "forward"
    /\ s2c' = Append(s2c, Frame("ready", provision.generation)[2])
    /\ UNCHANGED <<consumerVars, c2s, request, provision, slots, filter, next, upstream, forwarded>>

ReplyExisting ==
    /\ provision # None /\ provision.kind = "ready" /\ caller # "gone"
    /\ \/ /\ handler = "reply" /\ handler' = "reply_payload"
          /\ s2c' = Append(s2c, Frame("ready", provision.generation)[1])
       \/ /\ handler = "reply_payload" /\ handler' = "forward"
          /\ s2c' = Append(s2c, Frame("ready", provision.generation)[2])
    /\ UNCHANGED <<consumerVars, c2s, request, provision, slots, filter, next, upstream, forwarded>>

\* The consumer is gone: the reply fails, or the next read finds the end.
HandlerEnds ==
    /\ caller = "gone"
    /\ handler \in {"reply", "reply_payload"} \/ (handler = "read" /\ c2s = <<>>)
    /\ handler' = "done"
    /\ UNCHANGED <<consumerVars, c2s, s2c, request, provision, slots, filter, next, upstream, forwarded>>

\* Fault: only requests that made a new slot are forwarded.
ForwardNew ==
    /\ handler = "forward"
    /\ forwarded' = IF upstream /\ provision.kind # "ready" THEN forwarded \cup request.topics ELSE forwarded
    /\ handler' = "read"
    /\ UNCHANGED <<consumerVars, c2s, s2c, request, provision, slots, filter, next, upstream>>

\* bloom_updates_tx.send, after the reply; that it fails is only logged.
Forward ==
    /\ handler = "forward"
    /\ forwarded' = IF upstream THEN forwarded \cup request.topics ELSE forwarded
    /\ handler' = "read"
    /\ UNCHANGED <<consumerVars, c2s, s2c, request, provision, slots, filter, next, upstream>>

\* Whoever receives from bloom_updates_tx goes away.
UpstreamEnds ==
    /\ upstream /\ upstream' = FALSE
    /\ UNCHANGED <<consumerVars, c2s, s2c, handler, request, provision, slots, filter, next, forwarded>>

\* The slot goes stale or its ring fills up: see ConnectionManager.
Evict(g) ==
    /\ g \in slots
    /\ slots' = slots \ {g}
    /\ UNCHANGED <<consumerVars, c2s, s2c, handler, request, provision, filter, next, upstream, forwarded>>

\* The sender's process ends, and its table with it.
SenderStops ==
    /\ handler # "done"
    /\ handler' = "done" /\ slots' = {}
    /\ UNCHANGED <<consumerVars, c2s, s2c, request, provision, filter, next, upstream, forwarded>>

-----------------------------------------------------------------------------
ConsumerStep ==
    \/ Handshake \/ HandshakeFails \/ ReadPrefix \/ ReadPayload \/ ReadFails
    \/ GoAstray \/ ReadAstray \/ TakeSize \/ TakeBytes

HandlerStep ==
    \/ ReceivePing \/ ReceiveKnown \/ ReceiveUnknown
    \/ ReplyCreated \/ ReplyExisting \/ Forward \/ HandlerEnds

Next ==
    \/ Bootstrap \/ Ping \/ \E topics \in SUBSET Topics : Subscribe(topics)
    \/ ConsumerStep \/ Cancel \/ Drop
    \/ HandlerStep
    \/ \E g \in Generations : Evict(g)
    \/ SenderStops \/ UpstreamEnds

Spec == Init /\ [][Next]_vars

(* Both tasks are polled while they have something to do; nobody has to    *)
(* call, cancel, drop, evict or stop.                                      *)
FairSpec == Spec /\ WF_vars(ConsumerStep) /\ WF_vars(HandlerStep)

-----------------------------------------------------------------------------
(***************************************************************************)
(* OkMeansApplied: when subscribe has returned Ok its topics are in the    *)
(* filter of the slot the consumer reads, not in that of some other slot   *)
(* it was given.  It needs that send_subscription reads its own reply,     *)
(* "so the next subscribe / ping doesn't pick up the stale reply".         *)
(***************************************************************************)
OkMeansApplied ==
    token # None =>
        /\ caller = "gone" \/ token = eventfd
        /\ accepted \subseteq filter[token]

(***************************************************************************)
(* AppliedUntilCancelled: as long as no caller has given up a subscribe,   *)
(* OkMeansApplied holds, whatever was evicted or refused in between.       *)
(***************************************************************************)
AppliedUntilCancelled == cancelled \/ OkMeansApplied

(***************************************************************************)
(* NoStaleReply: as long as none was given up, between calls no reply is   *)
(* in the socket or on its way, and no request that will be answered.      *)
(***************************************************************************)
NoStaleReply ==
    ~cancelled /\ caller = "idle" /\ handler # "done" =>
        /\ s2c = <<>> /\ handler \notin {"reply", "reply_payload"}
        /\ \A i \in 1 .. Len(c2s) : c2s[i].op = "ping"

(***************************************************************************)
(* AcceptedIsForwarded: what the sender acknowledged to the consumer it    *)
(* also passes on to whoever gathers the subscriptions upstream, unless    *)
(* it ends, nobody is there to receive it, or a stale reply was taken for  *)
(* the acknowledgement.                                                    *)
(***************************************************************************)
AcceptedIsForwarded ==
    ~cancelled /\ handler # "done" /\ upstream =>
        accepted \subseteq forwarded \cup (IF handler = "forward" THEN request.topics ELSE {})

(***************************************************************************)
(* OrphansAreReported: a slot the consumer does not read takes up room in  *)
(* the table only if a call of the consumer returned an error for it, is   *)
(* still in progress, or was given up.                                     *)
(***************************************************************************)
OrphansAreReported ==
    ~cancelled /\ caller # "gone" =>
        Cardinality(slots \ {token}) <=
            refused + Cardinality({caller} \cap {"hello", "prefix", "payload"})

(***************************************************************************)
(* TokenIsStable: a token, once set, never changes: not even a reply that  *)
(* was left in the socket changes it, as long as replies are read from     *)
(* where they begin.                                                       *)
(***************************************************************************)
TokenIsStable == [][token # None => token' = token \/ astray]_token

(***************************************************************************)
(* InStepUnlessCut: send_subscription reads on where no frame begins only  *)
(* if one was given up between prefix and payload.  Errors, evictions,     *)
(* replies it did not expect, and calls given up while no part of a frame  *)
(* was read, however many, leave the socket where a frame begins.          *)
(***************************************************************************)
InStepUnlessCut == astray => cut

(***************************************************************************)
(* CallsReturn: the handshake and every subscribe return, however          *)
(* evictions, the end of the sender and the replies that earlier calls     *)
(* left in the socket interfere, unless one starts where no frame begins:  *)
(* that one may take any number for a size, and wait for that many bytes.  *)
(***************************************************************************)
CallsReturn == caller \in {"hello", "prefix", "payload"} ~> caller \in {"idle", "gone"} \/ astray

(***************************************************************************)
(* DescriptorIsRetrieved: no descriptor is dropped on receipt: "The        *)
(* receiver MUST call recv_frame_with_fd to retrieve the fd".              *)
(***************************************************************************)
DescriptorIsRetrieved == lost = {}
=============================================================================
