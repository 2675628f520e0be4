------------------------------- MODULE Codec -------------------------------
(***************************************************************************)
(* Encoding and decoding of every message on the wire (types.rs).          *)
(*                                                                         *)
(* A frame is the sequence of its fields, each with its width in bytes, a  *)
(* payload, and the length of it all: the encoders list the fields in the  *)
(* order they append them, the decoders take them by a cursor.  What LZ4   *)
(* does with a payload (its size, whether it decompresses) is a choice,    *)
(* and so is whether wincode minds bytes behind a structure.               *)
(***************************************************************************)
EXTENDS Integers, Sequences

CONSTANTS
    Words,              \* values of the integer fields
    Keys,               \* public keys
    Signatures,
    Payloads,           \* records [id, len]: payloads an application passes in
    Lz4Sizes,           \* sizes to which LZ4 may compress, sample or payload
    Tokens,             \* records [slot_index, generation]: tokens of the sender's slots
    KeyLists,           \* lists of keys a request may carry
    RingPaths,          \* records [id, len]: names of the sender's rings
    Garbage,            \* what decompressing something else may give
    Cuts,               \* lengths to which damage may bring a frame
    Others              \* values a peer may fill a checked field with

REQUEST_SUBSCRIBE_TAG == 1
UPDATE_TAG == 2
READY_TAG == 3
REQUEST_PING_TAG == 4
READY_SHM_TAG == 5
TRANSACTION_UPDATE_TAG == 6
SLOT_UPDATE_TAG == 7
WIRE_VERSION == 9
UNSET_SLOT_INDEX == 255
MAX_ACCOUNT_PAYLOAD_BYTES == 10 * 1024 * 1024
MAX_TRANSACTION_PAYLOAD_BYTES == 10 * 1024 * 1024
ACCOUNT_UPDATE_FLAG_LZ4 == 1
COMPRESSION_THRESHOLD_BYTES == 500 * 1024
COMPRESSION_SAMPLE_BYTES == 8 * 1024
COMPRESSION_MIN_GAIN_BPS == 75

ACCOUNT_UPDATE_FIXED_BYTES == 2 + 8 + 32 * 2 + 8 * 4 + 1 + 1 + 4 + 4
TRANSACTION_UPDATE_FIXED_BYTES == 2 + 8 + 8 + 4 + 1 + 64 + 4
SLOT_UPDATE_FIXED_BYTES == 2 + 8 + 8

\* An id names the bytes of a payload.  The sender has fewer slots than there are
\* indices, and a ring has a path.
ASSUME CodecAssumption ==
    /\ Words \subseteq Nat /\ Lz4Sizes \subseteq Nat /\ Others \subseteq Nat
    /\ Payloads \subseteq [id : Nat, len : Nat]
    /\ \A p, q \in Payloads : p.id = q.id => p = q
    /\ Tokens \subseteq [slot_index : 0 .. UNSET_SLOT_INDEX - 1, generation : Nat]
    /\ KeyLists \subseteq Seq(Keys)
    /\ RingPaths \subseteq [id : Nat, len : Nat \ {0}]
    /\ Garbage \notin Nat \cup Keys \cup Signatures

VARIABLES
    sent,               \* what was encoded last
    frame,              \* its bytes
    intact,             \* history: nothing happened to them
    outcome             \* what a decoder made of them

codecVars == <<sent, frame, intact, outcome>>

None == [kind |-> "none"]
Refused == [kind |-> "refused"]
Panic == [kind |-> "panic"]

Field(width, value) == [width |-> width, value |-> value]

\* The bytes of a header, which has at most 13 fields.
SizeOf(fields) ==
    LET W(i) == IF i <= Len(fields) THEN fields[i].width ELSE 0
    IN  W(1) + W(2) + W(3) + W(4) + W(5) + W(6) + W(7) + W(8) + W(9) + W(10) + W(11) + W(12) + W(13)

Nothing == [id |-> 0, len |-> 0, lz4 |-> FALSE]
Frame(fields, payload) ==
    [fields |-> fields, size |-> SizeOf(fields), payload |-> payload,
     len |-> SizeOf(fields) + payload.len]
Flag(b) == IF b THEN 1 ELSE 0

-----------------------------------------------------------------------------
(* Encoders.                                                               *)

\* should_attempt_lz4, if LZ4 makes `size' bytes of the sample.
should_attempt_lz4(len, size) ==
    LET sample == IF len < COMPRESSION_SAMPLE_BYTES THEN len ELSE COMPRESSION_SAMPLE_BYTES
    IN  /\ len >= COMPRESSION_THRESHOLD_BYTES
        /\ size < sample
        /\ ((sample - size) * 10000) \div sample >= COMPRESSION_MIN_GAIN_BPS

Wire(p) == [id : {p.id}, len : Lz4Sizes \cup {p.len}, lz4 : BOOLEAN]

\* What encode_parts_at may send of a payload: LZ4 only where it gains.
WirePayloads(p) ==
    {w \in Wire(p) :
        IF w.lz4
        THEN w.len < p.len /\ \E s \in Lz4Sizes : should_attempt_lz4(p.len, s)
        ELSE w.len = p.len /\ \E s, c \in Lz4Sizes : ~should_attempt_lz4(p.len, s) \/ c >= p.len}

\* AccountUpdate::encode_parts_at.
EncodeAccount(u, wire) ==
    Frame(<<Field(1, WIRE_VERSION), Field(1, UPDATE_TAG), Field(8, u.created),
            Field(32, u.account_pubkey), Field(32, u.account_owner), Field(8, u.lamports),
            Field(1, Flag(u.executable)), Field(8, u.rent_epoch), Field(8, u.slot),
            Field(8, u.write_version), Field(1, IF wire.lz4 THEN ACCOUNT_UPDATE_FLAG_LZ4 ELSE 0),
            Field(4, u.payload.len), Field(4, wire.len)>>, wire)

\* TransactionUpdate::encode_parts_at.
EncodeTransaction(u) ==
    Frame(<<Field(1, WIRE_VERSION), Field(1, TRANSACTION_UPDATE_TAG), Field(8, u.created),
            Field(8, u.slot), Field(4, u.index), Field(1, Flag(u.is_vote)),
            Field(64, u.signature), Field(4, u.payload.len)>>,
          [id |-> u.payload.id, len |-> u.payload.len, lz4 |-> FALSE])

\* SlotUpdate::encode_parts_at.
EncodeSlot(u) ==
    Frame(<<Field(1, WIRE_VERSION), Field(1, SLOT_UPDATE_TAG), Field(8, u.created),
            Field(8, u.slot)>>, Nothing)

KeyList(ks) == Field(8 + 32 * Len(ks), ks)

\* SubscriptionRequest::encode: no token is the unset index.
EncodeSubscription(r) ==
    LET t == IF r.slot_token = None
             THEN [slot_index |-> UNSET_SLOT_INDEX, generation |-> 0] ELSE r.slot_token
    IN  Frame(<<Field(1, WIRE_VERSION), Field(1, REQUEST_SUBSCRIBE_TAG), Field(1, t.slot_index),
                Field(8, t.generation), KeyList(r.account_pubkeys), KeyList(r.account_owners),
                Field(1, Flag(r.include_transactions))>>, Nothing)

TokenFrame(tag, t) ==
    <<Field(1, WIRE_VERSION), Field(1, tag), Field(1, t.slot_index), Field(8, t.generation)>>

\* PingRequest::encode, ConnectionReady::encode.
EncodePing(r) == Frame(TokenFrame(REQUEST_PING_TAG, r.slot_token), Nothing)
EncodeReady(r) == Frame(TokenFrame(READY_TAG, r.slot_token), Nothing)

\* ConnectionReadyShm::encode.
EncodeReadyShm(r) ==
    Frame(<<Field(1, WIRE_VERSION), Field(1, READY_SHM_TAG), Field(1, r.slot_token.slot_index),
            Field(8, r.slot_token.generation), Field(8 + r.ring_path.len, r.ring_path),
            Field(8, r.ring_capacity)>>, Nothing)

-----------------------------------------------------------------------------
(* Decoders.  Each gives the set of its possible results.                  *)

\* take_exact, as the i-th read: the field between cursor[i] and cursor[i + 1], if
\* the bytes are there.
take_exact(f, cursor, i) ==
    IF /\ i \in DOMAIN f.fields /\ f.fields[i].width = cursor[i + 1] - cursor[i]
       /\ cursor[i + 1] <= f.len
    THEN f.fields[i].value ELSE Garbage

ensure_wire(f, tag) == f.fields[1].value = WIRE_VERSION /\ f.fields[2].value = tag

\* The slice of the payload, which panics past the end of the bytes.
Slice(f, offset, len) == IF offset + len <= f.len THEN {f.payload} ELSE {Panic}

\* lz4_flex::block::decompress: at most raw_len bytes, or an error.
decompress(p, raw_len) ==
    IF p.lz4 THEN {q \in Payloads : q.id = p.id /\ q.len <= raw_len}
    ELSE {[id |-> Garbage, len |-> raw_len]}

\* Where the cursor of DecodedAccountUpdate::parse stands before each read, and
\* after the last.
AccountCursor == <<0, 1, 2, 10, 42, 74, 82, 83, 91, 99, 107, 108, 112, 116>>

\* Fault: the payload may be followed by anything.
LengthsAgreeLoosely(f, cursor, len) == f.len >= cursor + len

\* bytes.len() != cursor + payload_len, in the three parsers.
LengthsAgree(f, cursor, len) == f.len = cursor + len

\* DecodedAccountUpdate::parse: what it refuses.
ParsesAccount(f) ==
    LET V(i) == take_exact(f, AccountCursor, i)
    IN  /\ f.len >= ACCOUNT_UPDATE_FIXED_BYTES
        /\ ensure_wire(f, UPDATE_TAG)
        /\ \A i \in 3 .. 13 : V(i) # Garbage
        /\ V(7) \in {0, 1} /\ V(11) \in {0, ACCOUNT_UPDATE_FLAG_LZ4}
        /\ V(12) <= MAX_ACCOUNT_PAYLOAD_BYTES
        /\ LengthsAgree(f, AccountCursor[14], V(13))

\* The payload of decode_with_meta and decode_owned_with_meta.
AccountPayloads(f, flags, raw_len, wire_len) ==
    UNION {IF p = Panic THEN {Panic}
           ELSE IF flags = ACCOUNT_UPDATE_FLAG_LZ4
           THEN {q \in decompress(p, raw_len) : q.len = raw_len}
           ELSE {[id |-> q.id, len |-> q.len] : q \in {q \in {p} : wire_len = raw_len}} :
           p \in Slice(f, AccountCursor[14], wire_len)}

\* AccountUpdate::decode_owned_with_meta, from_decoded.
DecodeAccount(f) ==
    LET V(i) == take_exact(f, AccountCursor, i)
        payloads == AccountPayloads(f, V(11), V(12), V(13))
        Update(p) == [kind |-> "account", created |-> V(3), account_pubkey |-> V(4),
                      account_owner |-> V(5), lamports |-> V(6), executable |-> V(7) = 1,
                      rent_epoch |-> V(8), slot |-> V(9), write_version |-> V(10), payload |-> p]
    IN  IF ~ParsesAccount(f) \/ payloads = {} THEN {Refused}
        ELSE {IF p = Panic THEN Panic
              ELSE IF p.len <= MAX_ACCOUNT_PAYLOAD_BYTES THEN Update(p) ELSE Refused : p \in payloads}

TransactionCursor == <<0, 1, 2, 10, 18, 22, 23, 87, 91>>

\* DecodedTransactionUpdate::parse.
ParsesTransaction(f) ==
    LET V(i) == take_exact(f, TransactionCursor, i)
    IN  /\ f.len >= TRANSACTION_UPDATE_FIXED_BYTES
        /\ ensure_wire(f, TRANSACTION_UPDATE_TAG)
        /\ \A i \in 3 .. 8 : V(i) # Garbage
        /\ V(6) \in {0, 1}
        /\ V(8) <= MAX_TRANSACTION_PAYLOAD_BYTES
        /\ LengthsAgree(f, TransactionCursor[9], V(8))

\* TransactionUpdate::decode_owned_with_meta, from_decoded.
DecodeTransaction(f) ==
    LET V(i) == take_exact(f, TransactionCursor, i)
        Update(p) == [kind |-> "transaction", created |-> V(3), slot |-> V(4), index |-> V(5),
                      is_vote |-> V(6) = 1, signature |-> V(7),
                      payload |-> [id |-> p.id, len |-> p.len]]
    IN  IF ~ParsesTransaction(f) THEN {Refused}
        ELSE {IF p = Panic THEN Panic ELSE Update(p) : p \in Slice(f, TransactionCursor[9], V(8))}

SlotCursor == <<0, 1, 2, 10, 18>>

\* DecodedSlotUpdate::parse, SlotUpdate::decode_with_meta.
DecodeSlot(f) ==
    LET V(i) == take_exact(f, SlotCursor, i)
    IN  IF /\ f.len >= SLOT_UPDATE_FIXED_BYTES
           /\ ensure_wire(f, SLOT_UPDATE_TAG)
           /\ LengthsAgree(f, SlotCursor[5], 0)
        THEN {[kind |-> "slot", created |-> V(3), slot |-> V(4)]} ELSE {Refused}

\* wincode::deserialize, then ensure_wire: too few bytes are an error, and too
\* many may be.  Ok is what the rest of the decoder makes of the fields.
Deserialize(f, tag, Ok) ==
    IF f.len < f.size \/ ~ensure_wire(f, tag) THEN {Refused}
    ELSE IF f.len > f.size THEN {Ok, Refused} ELSE {Ok}

Token(f) == [slot_index |-> f.fields[3].value, generation |-> f.fields[4].value]
IsSet(f) == f.fields[3].value # UNSET_SLOT_INDEX

\* Fault: a request without a token is taken for one of slot 255.
TokenOfAlways(f) == Token(f)

\* SubscriptionRequest::decode: the unset index is no token.
TokenOf(f) == IF IsSet(f) THEN Token(f) ELSE None

DecodeSubscription(f) ==
    Deserialize(f, REQUEST_SUBSCRIBE_TAG,
        IF f.fields[7].value \notin {0, 1} THEN Refused
        ELSE [kind |-> "subscription", slot_token |-> TokenOf(f),
              account_pubkeys |-> f.fields[5].value, account_owners |-> f.fields[6].value,
              include_transactions |-> f.fields[7].value = 1])

\* PingRequest::decode.
DecodePing(f) ==
    Deserialize(f, REQUEST_PING_TAG,
        IF IsSet(f) THEN [kind |-> "ping", slot_token |-> Token(f)] ELSE Refused)

\* ConnectionReady::decode.
DecodeReady(f) ==
    Deserialize(f, READY_TAG,
        IF IsSet(f) THEN [kind |-> "ready", slot_token |-> Token(f)] ELSE Refused)

\* ConnectionReadyShm::decode.
DecodeReadyShm(f) ==
    Deserialize(f, READY_SHM_TAG,
        IF IsSet(f) /\ f.fields[5].value.len > 0 /\ f.fields[6].value > 0
        THEN [kind |-> "ready_shm", slot_token |-> Token(f), ring_path |-> f.fields[5].value,
              ring_capacity |-> f.fields[6].value]
        ELSE Refused)

\* wire_tag, 0 if there is none.
wire_tag(f) == IF f.len < 2 THEN 0 ELSE f.fields[2].value

\* What the sender decodes.
decode_client_frame(f) ==
    CASE wire_tag(f) = REQUEST_SUBSCRIBE_TAG -> DecodeSubscription(f)
      [] wire_tag(f) = REQUEST_PING_TAG -> DecodePing(f)
      [] OTHER -> {Refused}

\* What the consumer decodes; decode_server_frame and decode_server_frame_owned
\* do the same and forget the time.
decode_server_frame_owned_with_meta(f) ==
    CASE wire_tag(f) = UPDATE_TAG -> DecodeAccount(f)
      [] wire_tag(f) = TRANSACTION_UPDATE_TAG -> DecodeTransaction(f)
      [] wire_tag(f) = SLOT_UPDATE_TAG -> DecodeSlot(f)
      [] wire_tag(f) = READY_TAG -> DecodeReady(f)
      [] wire_tag(f) = READY_SHM_TAG -> DecodeReadyShm(f)
      [] OTHER -> {Refused}

-----------------------------------------------------------------------------
(* The values an application or the library passes to an encoder.          *)

\* AccountPayload::new refuses the others.
AccountUpdates ==
    [kind : {"account"}, created : Words, account_pubkey : Keys, account_owner : Keys,
     lamports : Words, executable : BOOLEAN, rent_epoch : Words, slot : Words,
     write_version : Words,
     payload : {p \in Payloads : p.len <= MAX_ACCOUNT_PAYLOAD_BYTES}]

TransactionUpdates ==
    [kind : {"transaction"}, created : Words, slot : Words, index : Words, is_vote : BOOLEAN,
     signature : Signatures,
     payload : {p \in Payloads : p.len <= MAX_TRANSACTION_PAYLOAD_BYTES}]

SlotUpdates == [kind : {"slot"}, created : Words, slot : Words]

SubscriptionRequests ==
    [kind : {"subscription"}, slot_token : Tokens \cup {None}, account_pubkeys : KeyLists,
     account_owners : KeyLists, include_transactions : BOOLEAN]

Readies(kind) == [kind : {kind}, slot_token : Tokens]

ReadyShms ==
    [kind : {"ready_shm"}, slot_token : Tokens, ring_path : RingPaths,
     ring_capacity : Words \ {0}]

Send(u, f) == sent' = u /\ frame' = f /\ UNCHANGED <<intact, outcome>>

\* Encoders and decoders keep nothing from one message to the next: a behaviour is
\* that of one message.
Encode ==
    /\ sent = None
    /\ \/ \E u \in AccountUpdates : \E w \in WirePayloads(u.payload) : Send(u, EncodeAccount(u, w))
       \/ \E u \in TransactionUpdates : Send(u, EncodeTransaction(u))
       \/ \E u \in SlotUpdates : Send(u, EncodeSlot(u))
       \/ \E r \in SubscriptionRequests : Send(r, EncodeSubscription(r))
       \/ \E r \in Readies("ping") : Send(r, EncodePing(r))
       \/ \E r \in Readies("ready") : Send(r, EncodeReady(r))
       \/ \E r \in ReadyShms : Send(r, EncodeReadyShm(r))

\* The bytes reach the decoder cut short or with others behind them, at the
\* boundaries of the format and elsewhere.
Damage ==
    /\ sent # None /\ intact /\ outcome = None
    /\ \E n \in (Cuts \cup {frame.size - 1, frame.size, frame.len - 1, frame.len + 1}) \cap Nat :
          n # frame.len /\ frame' = [frame EXCEPT !.len = n]
    /\ intact' = FALSE
    /\ UNCHANGED <<sent, outcome>>

\* The fields of a message that must be 0 or 1, and those that give a length.
FlagFields(kind) ==
    CASE kind = "account" -> {7, 11} [] kind = "transaction" -> {6} [] kind = "subscription" -> {7}
      [] OTHER -> {}
LengthFields(kind) ==
    CASE kind = "account" -> {12, 13} [] kind = "transaction" -> {8} [] OTHER -> {}

\* A peer of another version, or one that fills a checked field differently.
Alter ==
    /\ sent # None /\ intact /\ outcome = None
    /\ \E i \in {1} \cup FlagFields(sent.kind) \cup LengthFields(sent.kind) : \E v \in Others :
          /\ frame.fields[i].value # v
          /\ i \in FlagFields(sent.kind) => v \notin {0, 1}
          /\ frame' = [frame EXCEPT !.fields[i].value = v]
    /\ intact' = FALSE
    /\ UNCHANGED <<sent, outcome>>

Decode(decoder(_)) ==
    /\ sent # None /\ outcome = None
    /\ outcome' \in decoder(frame)
    /\ UNCHANGED <<sent, frame, intact>>

FromClient == {"subscription", "ping"}

DecodeByPeer ==
    IF sent.kind \in FromClient THEN Decode(decode_client_frame)
    ELSE Decode(decode_server_frame_owned_with_meta)

CodecInit == sent = None /\ frame = Frame(<<>>, Nothing) /\ intact = TRUE /\ outcome = None

CodecNext == Encode \/ Damage \/ Alter \/ DecodeByPeer

CodecSpec == CodecInit /\ [][CodecNext]_codecVars

-----------------------------------------------------------------------------
(* Whatever is encoded, compressed or not, is decoded by the other side to *)
(* exactly the same message, with the time it was stamped with.            *)
RoundTrip == intact /\ outcome # None => outcome = sent

(* Bytes that were cut, lengthened, or come from another version or with a *)
(* flag or length that does not add up are refused: no decoder panics on a *)
(* slice or returns another message.  Only wincode may overlook bytes that *)
(* follow a whole control message.                                         *)
DamageIsRefused ==
    ~intact /\ outcome # None =>
        \/ outcome = Refused
        \/ /\ outcome = sent /\ frame.len > frame.size
           /\ sent.kind \notin {"account", "transaction", "slot"}
=============================================================================
