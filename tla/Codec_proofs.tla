---------------------------- MODULE Codec_proofs ----------------------------
(***************************************************************************)
(* Every message of types.rs is decoded as it was encoded, and bytes that  *)
(* were spoilt are refused: for any values of the fields, any payloads and *)
(* sizes LZ4 may give them, any lists of keys, and damage to any length.   *)
(* First what a frame of each kind looks like and what becomes of it, then *)
(* the invariant of Codec.                                                 *)
(***************************************************************************)
EXTENDS Codec, TLAPS

-----------------------------------------------------------------------------
(* Frames.                                                                 *)

\* What each side decodes.
Server(f) == decode_server_frame_owned_with_meta(f)
Client(f) == decode_client_frame(f)

\* ensure_wire comes first in every decoder: another version is refused.
LEMMA OtherVersion ==
    ASSUME NEW f, f.fields[1].value # WIRE_VERSION
    PROVE  Server(f) = {Refused} /\ Client(f) = {Refused}
<1>1. \A tag : ~ensure_wire(f, tag)
  BY Zenon DEF ensure_wire
<1>2. DecodeAccount(f) = {Refused} /\ DecodeTransaction(f) = {Refused} /\ DecodeSlot(f) = {Refused}
  BY <1>1, Zenon DEF DecodeAccount, DecodeTransaction, DecodeSlot, ParsesAccount, ParsesTransaction
<1>3. /\ DecodeSubscription(f) = {Refused} /\ DecodePing(f) = {Refused}
      /\ DecodeReady(f) = {Refused} /\ DecodeReadyShm(f) = {Refused}
  BY <1>1, Zenon DEF DecodeSubscription, DecodePing, DecodeReady, DecodeReadyShm, Deserialize
<1>4. QED
  BY <1>2, <1>3, Zenon DEF Server, Client, decode_server_frame_owned_with_meta, decode_client_frame

\* wire_tag chooses the decoder.
LEMMA ByTag ==
    ASSUME NEW f
    PROVE  /\ wire_tag(f) = UPDATE_TAG => Server(f) = DecodeAccount(f)
           /\ wire_tag(f) = TRANSACTION_UPDATE_TAG => Server(f) = DecodeTransaction(f)
           /\ wire_tag(f) = SLOT_UPDATE_TAG => Server(f) = DecodeSlot(f)
           /\ wire_tag(f) = READY_TAG => Server(f) = DecodeReady(f)
           /\ wire_tag(f) = READY_SHM_TAG => Server(f) = DecodeReadyShm(f)
           /\ wire_tag(f) = REQUEST_SUBSCRIBE_TAG => Client(f) = DecodeSubscription(f)
           /\ wire_tag(f) = REQUEST_PING_TAG => Client(f) = DecodePing(f)
           /\ wire_tag(f) = 0 => Server(f) = {Refused} /\ Client(f) = {Refused}
BY DEF Server, Client, decode_server_frame_owned_with_meta, decode_client_frame, UPDATE_TAG,
       TRANSACTION_UPDATE_TAG, SLOT_UPDATE_TAG, READY_TAG, READY_SHM_TAG, REQUEST_SUBSCRIBE_TAG,
       REQUEST_PING_TAG

\* The two parts of a field.
LEMMA FieldIs == \A x, y : Field(x, y).width = x /\ Field(x, y).value = y
BY Zenon DEF Field

IsFrame(f) == f = [fields |-> f.fields, size |-> f.size, payload |-> f.payload, len |-> f.len]

\* A header of n fields.
Header(s, n) == DOMAIN s = 1 .. n /\ \A i \in 1 .. n : s[i] = Field(s[i].width, s[i].value)

\* The parts of a frame.
LEMMA Framed ==
    ASSUME NEW s, NEW w, NEW f, f = Frame(s, w)
    PROVE  /\ f.fields = s /\ f.size = SizeOf(s) /\ f.payload = w /\ f.len = SizeOf(s) + w.len
           /\ IsFrame(f)
BY Zenon DEF Frame, IsFrame

\* Damage may give a frame any other length, and Alter fill a field of the frame of u.
Resized(f, g) == \E n \in Nat : n # f.len /\ g = [f EXCEPT !.len = n]
Refilled(f, i, v) == [f EXCEPT !.fields[i].value = v]
Altered(u, f, g) ==
    \E i \in {1} \cup FlagFields(u.kind) \cup LengthFields(u.kind) : \E v \in Nat :
        /\ f.fields[i].value # v
        /\ i \in FlagFields(u.kind) => v \notin {0, 1}
        /\ g = Refilled(f, i, v)

\* A frame cut or lengthened keeps its fields.
LEMMA Relength ==
    ASSUME NEW f, IsFrame(f), NEW n, NEW g, g = [f EXCEPT !.len = n]
    PROVE  g.fields = f.fields /\ g.size = f.size /\ g.payload = f.payload /\ g.len = n
BY Zenon DEF IsFrame

\* A frame with another value in a field is otherwise the same.
LEMMA Refill ==
    ASSUME NEW f, IsFrame(f), NEW n \in Nat, Header(f.fields, n), NEW i \in 1 .. n, NEW v,
           NEW g, g = Refilled(f, i, v)
    PROVE  /\ g.size = f.size /\ g.payload = f.payload /\ g.len = f.len
           /\ Header(g.fields, n) /\ g.fields[i].value = v
           /\ \A j \in 1 .. n : g.fields[j].width = f.fields[j].width
           /\ \A j \in 1 .. n : j # i => g.fields[j].value = f.fields[j].value
<1> DEFINE s == f.fields
           t == [s EXCEPT ![i].value = v]
<1>1. g.fields = t /\ g.size = f.size /\ g.payload = f.payload /\ g.len = f.len
  BY Zenon DEF IsFrame, Refilled
<1>2. DOMAIN s = 1 .. n /\ DOMAIN t = 1 .. n
  BY Zenon DEF Header
<1>3. t[i] = [s[i] EXCEPT !.value = v] /\ \A j \in 1 .. n : j # i => t[j] = s[j]
  BY <1>2, Zenon
<1>4. \A j \in 1 .. n : s[j] = [width |-> s[j].width, value |-> s[j].value]
  BY Zenon DEF Header, Field
<1>5. t[i] = [width |-> s[i].width, value |-> v]
  <2>1. \A x, y : [[width |-> x, value |-> y] EXCEPT !.value = v] = [width |-> x, value |-> v]
    OBVIOUS
  <2> HIDE DEF s, t
  <2>2. t[i] = [[width |-> s[i].width, value |-> s[i].value] EXCEPT !.value = v]
    BY <1>3, <1>4, Zenon
  <2>3. QED
    BY <2>1, <2>2, Zenon
<1> HIDE DEF t
<1>6. Header(t, n)
  <2>1. ASSUME NEW j \in 1 .. n
        PROVE  t[j] = [width |-> t[j].width, value |-> t[j].value]
    <3>1. CASE j = i
      BY <1>5, <3>1, Zenon
    <3>2. CASE j # i
      BY <1>3, <1>4, <3>2, Zenon
    <3>3. QED
      BY <3>1, <3>2, Zenon
  <2>2. QED
    BY <1>2, <2>1, Zenon DEF Header, Field
<1>7. t[i].width = s[i].width /\ t[i].value = v
  BY <1>5
<1>8. \A j \in 1 .. n : t[j].width = s[j].width /\ (j # i => t[j].value = s[j].value)
  BY <1>3, <1>7, Zenon
<1>9. QED
  BY <1>1, <1>6, <1>7, <1>8, Zenon

\* A message without checked fields can only come from another version.
LEMMA OtherFirst ==
    ASSUME NEW u, FlagFields(u.kind) = {}, LengthFields(u.kind) = {},
           NEW f, IsFrame(f), NEW n \in Nat, n >= 1, Header(f.fields, n),
           f.fields[1].value = WIRE_VERSION, NEW g, Altered(u, f, g)
    PROVE  g.fields[1].value # WIRE_VERSION
<1>1. PICK v \in Nat : v # WIRE_VERSION /\ g = Refilled(f, 1, v)
  BY Zenon DEF Altered
<1>2. 1 \in 1 .. n
  OBVIOUS
<1>3. QED
  BY <1>1, <1>2, Refill

\* The fields are where the cursor of a parser stands.
Shaped(f, cursor, n) ==
    /\ Header(f.fields, n)
    /\ \A i \in 1 .. n : f.fields[i].width = cursor[i + 1] - cursor[i]

\* Only the widths matter for that.
LEMMA ShapeKept ==
    ASSUME NEW f, NEW g, NEW cursor, NEW n, Shaped(f, cursor, n), Header(g.fields, n),
           \A j \in 1 .. n : g.fields[j].width = f.fields[j].width
    PROVE  Shaped(g, cursor, n)
BY Zenon DEF Shaped

-----------------------------------------------------------------------------
(* Account updates.                                                        *)

\* What AccountUpdate::encode_parts_at writes.
LEMMA AccountHeader ==
    ASSUME NEW u, NEW w, NEW f, f = EncodeAccount(u, w)
    PROVE  /\ f.size = 116 /\ f.len = 116 + w.len /\ f.payload = w
           /\ IsFrame(f) /\ Shaped(f, AccountCursor, 13)
           /\ f.fields[1].value = WIRE_VERSION /\ f.fields[2].value = UPDATE_TAG
           /\ f.fields[3].value = u.created /\ f.fields[4].value = u.account_pubkey
           /\ f.fields[5].value = u.account_owner /\ f.fields[6].value = u.lamports
           /\ f.fields[7].value = Flag(u.executable) /\ f.fields[8].value = u.rent_epoch
           /\ f.fields[9].value = u.slot /\ f.fields[10].value = u.write_version
           /\ f.fields[11].value = (IF w.lz4 THEN 1 ELSE 0)
           /\ f.fields[12].value = u.payload.len /\ f.fields[13].value = w.len
<1> DEFINE s == <<Field(1, WIRE_VERSION), Field(1, UPDATE_TAG), Field(8, u.created),
                  Field(32, u.account_pubkey), Field(32, u.account_owner), Field(8, u.lamports),
                  Field(1, Flag(u.executable)), Field(8, u.rent_epoch), Field(8, u.slot),
                  Field(8, u.write_version), Field(1, IF w.lz4 THEN 1 ELSE 0),
                  Field(4, u.payload.len), Field(4, w.len)>>
<1>1. f = Frame(s, w)
  BY Zenon DEF EncodeAccount, ACCOUNT_UPDATE_FLAG_LZ4
<1>2. DOMAIN s = 1 .. 13 /\ Len(s) = 13
  OBVIOUS
<1>3. /\ s[1] = Field(1, WIRE_VERSION) /\ s[2] = Field(1, UPDATE_TAG)
      /\ s[3] = Field(8, u.created) /\ s[4] = Field(32, u.account_pubkey)
      /\ s[5] = Field(32, u.account_owner) /\ s[6] = Field(8, u.lamports)
      /\ s[7] = Field(1, Flag(u.executable)) /\ s[8] = Field(8, u.rent_epoch)
      /\ s[9] = Field(8, u.slot) /\ s[10] = Field(8, u.write_version)
      /\ s[11] = Field(1, IF w.lz4 THEN 1 ELSE 0) /\ s[12] = Field(4, u.payload.len)
      /\ s[13] = Field(4, w.len)
  BY Zenon
<1> HIDE DEF s
<1>4. /\ s[1].width = 1 /\ s[2].width = 1 /\ s[3].width = 8 /\ s[4].width = 32 /\ s[5].width = 32
      /\ s[6].width = 8 /\ s[7].width = 1 /\ s[8].width = 8 /\ s[9].width = 8 /\ s[10].width = 8
      /\ s[11].width = 1 /\ s[12].width = 4 /\ s[13].width = 4
  BY <1>3, FieldIs
<1>5. /\ s[1].value = WIRE_VERSION /\ s[2].value = UPDATE_TAG /\ s[3].value = u.created
      /\ s[4].value = u.account_pubkey /\ s[5].value = u.account_owner /\ s[6].value = u.lamports
      /\ s[7].value = Flag(u.executable) /\ s[8].value = u.rent_epoch /\ s[9].value = u.slot
      /\ s[10].value = u.write_version /\ s[11].value = (IF w.lz4 THEN 1 ELSE 0)
      /\ s[12].value = u.payload.len /\ s[13].value = w.len
  BY <1>3, FieldIs
<1>6. SizeOf(s) = 116
  BY <1>2, <1>4 DEF SizeOf
<1>7. \A i \in 1 .. 13 : s[i] = Field(s[i].width, s[i].value)
  <2> SUFFICES ASSUME NEW i \in 1 .. 13
               PROVE  \E x, y : s[i] = Field(x, y)
    BY FieldIs
  <2> QED
    BY <1>3
<1>8. \A i \in 1 .. 13 : s[i].width = AccountCursor[i + 1] - AccountCursor[i]
  BY <1>4 DEF AccountCursor
<1>9. Shaped(f, AccountCursor, 13)
  BY <1>1, <1>2, <1>7, <1>8, Framed DEF Shaped, Header
<1>10. QED
  BY <1>1, <1>5, <1>6, <1>9, Framed

\* take_exact finds every field of an account update.
LEMMA AccountTaken ==
    ASSUME NEW f, Shaped(f, AccountCursor, 13), f.len \in Nat, f.len >= 116
    PROVE  \A i \in 1 .. 13 : take_exact(f, AccountCursor, i) = f.fields[i].value
<1>1. \A i \in 1 .. 13 : AccountCursor[i + 1] <= f.len
  BY DEF AccountCursor
<1>2. QED
  BY <1>1, Zenon DEF take_exact, Shaped, Header

\* DecodedAccountUpdate::parse refuses lengths that do not add up, and unknown flags.
LEMMA AccountMisfits ==
    ASSUME NEW f, Shaped(f, AccountCursor, 13), f.len \in Nat,
           \/ f.len # 116 + f.fields[13].value
           \/ f.fields[7].value \notin {0, 1}
           \/ f.fields[11].value \notin {0, 1}
    PROVE  DecodeAccount(f) = {Refused}
<1>1. ~ParsesAccount(f)
  <2>1. CASE f.len < 116
    BY <2>1 DEF ParsesAccount, ACCOUNT_UPDATE_FIXED_BYTES
  <2>2. CASE f.len >= 116
    <3>1. \A i \in 1 .. 13 : take_exact(f, AccountCursor, i) = f.fields[i].value
      BY <2>2, AccountTaken, Zenon
    <3>2. AccountCursor[14] = 116
      BY Zenon DEF AccountCursor
    <3>3. QED
      BY <3>1, <3>2 DEF ParsesAccount, LengthsAgree, ACCOUNT_UPDATE_FLAG_LZ4
  <2>3. QED
    BY <2>1, <2>2
<1>2. QED
  BY <1>1, Zenon DEF DecodeAccount

\* A payload and what is sent of it.
LEMMA WireIs ==
    ASSUME NEW p \in Payloads, NEW w \in WirePayloads(p)
    PROVE  /\ w.len \in Nat /\ w.lz4 \in BOOLEAN
           /\ IF w.lz4 THEN w.len < p.len ELSE w.len = p.len
           /\ w.id = p.id /\ w # Panic
           /\ p = [id |-> p.id, len |-> p.len] /\ p.len \in Nat /\ p # Panic
<1>1. p.len \in Nat /\ p = [id |-> p.id, len |-> p.len]
  BY CodecAssumption, Zenon
<1>2. w \in [id : {p.id}, len : Lz4Sizes \cup {p.len}, lz4 : BOOLEAN]
  BY Zenon DEF WirePayloads, Wire
<1>3. IF w.lz4 THEN w.len < p.len ELSE w.len = p.len
  BY Zenon DEF WirePayloads
<1>4. w.id = p.id /\ w.len \in Nat /\ w.lz4 \in BOOLEAN
  BY <1>1, <1>2, CodecAssumption, Zenon
<1>5. w # Panic
  BY <1>2 DEF Panic
<1>6. p # Panic
  BY <1>1 DEF Panic
<1>7. QED
  BY <1>1, <1>3, <1>4, <1>5, <1>6, Zenon

\* What lz4_flex makes of a compressed payload, if it has the length the header says.
Unpacked(w, raw) == {q \in Payloads : q.id = w.id /\ q.len <= raw /\ q.len = raw}

\* The payload that decode_owned_with_meta takes from the bytes.
LEMMA AccountUnpacked ==
    ASSUME NEW w, NEW f, f.payload = w, NEW c, NEW raw, NEW n \in Nat, f.len = 116 + n,
           w # Panic, w.lz4 => c = 1, ~w.lz4 => c = 0
    PROVE  /\ w.lz4 => AccountPayloads(f, c, raw, n) = Unpacked(w, raw)
           /\ ~w.lz4 /\ n = raw => AccountPayloads(f, c, raw, n) = {[id |-> w.id, len |-> w.len]}
           /\ ~w.lz4 /\ n # raw => AccountPayloads(f, c, raw, n) = {}
<1>1. Slice(f, AccountCursor[14], n) = {w}
  BY DEF Slice, AccountCursor
<1>2. CASE w.lz4
  BY <1>1, <1>2 DEF AccountPayloads, decompress, Unpacked, ACCOUNT_UPDATE_FLAG_LZ4
<1>3. CASE ~w.lz4
  BY <1>1, <1>3 DEF AccountPayloads, ACCOUNT_UPDATE_FLAG_LZ4
<1>4. QED
  BY <1>2, <1>3, Zenon

\* It is the payload that was sent, or none if the header has another length for it:
\* only one payload has the id that LZ4 decompresses to.
LEMMA AccountPayloadIs ==
    ASSUME NEW p \in Payloads, NEW w \in WirePayloads(p), NEW f, f.payload = w,
           f.len = 116 + w.len, NEW c, w.lz4 => c = 1, ~w.lz4 => c = 0, NEW raw
    PROVE  /\ raw = p.len => AccountPayloads(f, c, raw, w.len) = {p}
           /\ \A q \in AccountPayloads(f, c, raw, w.len) : raw = p.len
<1>1. /\ w.len \in Nat /\ w.lz4 \in BOOLEAN /\ IF w.lz4 THEN w.len < p.len ELSE w.len = p.len
      /\ w.id = p.id /\ w # Panic /\ p = [id |-> p.id, len |-> p.len] /\ p.len \in Nat
  BY WireIs
<1>2. CASE w.lz4
  <2>1. AccountPayloads(f, c, raw, w.len) = Unpacked(w, raw)
    BY <1>1, <1>2, AccountUnpacked
  <2>2. ASSUME NEW q \in Payloads, q.id = w.id
        PROVE  q = p
    BY <1>1, <2>2, CodecAssumption
  <2>3. QED
    BY <1>1, <2>1, <2>2 DEF Unpacked
<1>3. CASE ~w.lz4
  <2>1. /\ w.len = raw => AccountPayloads(f, c, raw, w.len) = {[id |-> w.id, len |-> w.len]}
        /\ w.len # raw => AccountPayloads(f, c, raw, w.len) = {}
    BY <1>1, <1>3, AccountUnpacked, ZenonT(30)
  <2>2. QED
    BY <1>1, <1>3, <2>1, Zenon
<1>4. QED
  BY <1>2, <1>3, Zenon

\* The update that from_decoded builds.
AccountOf(f, p) ==
    [kind |-> "account", created |-> f.fields[3].value, account_pubkey |-> f.fields[4].value,
     account_owner |-> f.fields[5].value, lamports |-> f.fields[6].value,
     executable |-> f.fields[7].value = 1, rent_epoch |-> f.fields[8].value,
     slot |-> f.fields[9].value, write_version |-> f.fields[10].value, payload |-> p]

\* decode_owned_with_meta in terms of the fields.
LEMMA AccountGiven ==
    ASSUME NEW f, Shaped(f, AccountCursor, 13), f.len \in Nat, f.len >= 116,
           NEW P, P = AccountPayloads(f, f.fields[11].value,
                                      f.fields[12].value, f.fields[13].value)
    PROVE  DecodeAccount(f) =
             IF ~ParsesAccount(f) \/ P = {} THEN {Refused}
             ELSE {IF p = Panic THEN Panic
                   ELSE IF p.len <= MAX_ACCOUNT_PAYLOAD_BYTES THEN AccountOf(f, p)
                   ELSE Refused : p \in P}
<1> DEFINE V(i) == take_exact(f, AccountCursor, i)
           U(p) == [kind |-> "account", created |-> V(3), account_pubkey |-> V(4),
                    account_owner |-> V(5), lamports |-> V(6), executable |-> V(7) = 1,
                    rent_epoch |-> V(8), slot |-> V(9), write_version |-> V(10), payload |-> p]
           Q == AccountPayloads(f, V(11), V(12), V(13))
<1>1. DecodeAccount(f) =
        IF ~ParsesAccount(f) \/ Q = {} THEN {Refused}
        ELSE {IF p = Panic THEN Panic
              ELSE IF p.len <= MAX_ACCOUNT_PAYLOAD_BYTES THEN U(p) ELSE Refused : p \in Q}
  BY Zenon DEF DecodeAccount
<1>2. \A i \in 1 .. 13 : V(i) = f.fields[i].value
  BY AccountTaken, Zenon
<1>3. /\ V(3) = f.fields[3].value /\ V(4) = f.fields[4].value /\ V(5) = f.fields[5].value
      /\ V(6) = f.fields[6].value /\ V(7) = f.fields[7].value /\ V(8) = f.fields[8].value
      /\ V(9) = f.fields[9].value /\ V(10) = f.fields[10].value /\ V(11) = f.fields[11].value
      /\ V(12) = f.fields[12].value /\ V(13) = f.fields[13].value
  BY <1>2
<1> HIDE DEF V
<1>4. \A p : U(p) = AccountOf(f, p)
  BY <1>3, Zenon DEF AccountOf
<1>5. Q = P
  BY <1>3, Zenon
<1> HIDE DEF U, Q
<1>6. QED
  BY <1>1, <1>4, <1>5, Zenon

\* An account update is decoded to itself, compressed or not.
LEMMA AccountComesBack ==
    ASSUME NEW u \in AccountUpdates, NEW w \in WirePayloads(u.payload),
           NEW f, f = EncodeAccount(u, w)
    PROVE  Server(f) = {u}
<1> DEFINE p == u.payload
           P == AccountPayloads(f, f.fields[11].value,
                                f.fields[12].value, f.fields[13].value)
<1>1. /\ f.len = 116 + w.len /\ f.payload = w /\ Shaped(f, AccountCursor, 13)
      /\ f.fields[1].value = WIRE_VERSION /\ f.fields[2].value = UPDATE_TAG
      /\ f.fields[11].value = (IF w.lz4 THEN 1 ELSE 0)
      /\ f.fields[12].value = p.len /\ f.fields[13].value = w.len
  BY AccountHeader, SMTT(30)
<1>2. /\ f.fields[3].value = u.created /\ f.fields[4].value = u.account_pubkey
      /\ f.fields[5].value = u.account_owner /\ f.fields[6].value = u.lamports
      /\ f.fields[7].value = Flag(u.executable) /\ f.fields[8].value = u.rent_epoch
      /\ f.fields[9].value = u.slot /\ f.fields[10].value = u.write_version
  BY AccountHeader, SMTT(30)
<1>3. p \in Payloads /\ p.len <= MAX_ACCOUNT_PAYLOAD_BYTES
  BY Zenon DEF AccountUpdates
<1>4. w.len \in Nat /\ w.lz4 \in BOOLEAN /\ p.len \in Nat /\ p # Panic
  BY <1>3, WireIs, Zenon
<1>5. f.len \in Nat /\ f.len >= 116
  BY <1>1, <1>4
<1>6. ParsesAccount(f)
  <2>1. \A i \in 1 .. 13 : take_exact(f, AccountCursor, i) = f.fields[i].value
    BY <1>1, <1>5, AccountTaken, Zenon
  <2>2. f.len >= ACCOUNT_UPDATE_FIXED_BYTES
    BY <1>5 DEF ACCOUNT_UPDATE_FIXED_BYTES
  <2>3. /\ u.created \in Nat /\ u.lamports \in Nat /\ u.rent_epoch \in Nat /\ u.slot \in Nat
        /\ u.write_version \in Nat /\ u.account_pubkey \in Keys /\ u.account_owner \in Keys
        /\ Flag(u.executable) \in {0, 1}
    BY CodecAssumption, Zenon DEF AccountUpdates, Flag
  <2>4. \A x \in Nat \cup Keys : x # Garbage
    BY CodecAssumption, Zenon
  <2>5. \A i \in 3 .. 13 : f.fields[i].value \in Nat \cup Keys
    <3>1. f.fields[11].value \in Nat /\ f.fields[7].value \in Nat
      BY <1>1, <1>2, <2>3
    <3>2. QED
      BY <1>1, <1>2, <1>4, <2>3, <3>1
  <2>6. LengthsAgree(f, AccountCursor[14], f.fields[13].value)
    BY <1>1, Zenon DEF LengthsAgree, AccountCursor
  <2>7. ensure_wire(f, UPDATE_TAG)
    BY <1>1, Zenon DEF ensure_wire
  <2>8. /\ f.fields[7].value \in {0, 1} /\ f.fields[11].value \in {0, 1}
        /\ f.fields[12].value <= MAX_ACCOUNT_PAYLOAD_BYTES
    BY <1>1, <1>2, <1>3, <2>3, Zenon
  <2>9. \A i \in 3 .. 13 : take_exact(f, AccountCursor, i) # Garbage
    <3> SUFFICES ASSUME NEW i \in 3 .. 13
                 PROVE  take_exact(f, AccountCursor, i) # Garbage
      BY Zenon
    <3>1. i \in 1 .. 13
      OBVIOUS
    <3>2. QED
      BY <2>1, <2>4, <2>5, <3>1, Zenon
  <2>10. /\ take_exact(f, AccountCursor, 7) \in {0, 1}
         /\ take_exact(f, AccountCursor, 11) \in {0, ACCOUNT_UPDATE_FLAG_LZ4}
         /\ take_exact(f, AccountCursor, 12) <= MAX_ACCOUNT_PAYLOAD_BYTES
         /\ LengthsAgree(f, AccountCursor[14], take_exact(f, AccountCursor, 13))
    BY <2>1, <2>6, <2>8 DEF ACCOUNT_UPDATE_FLAG_LZ4
  <2>11. QED
    BY <2>2, <2>7, <2>9, <2>10, Zenon DEF ParsesAccount
<1>7. P = {p}
  <2>1. (w.lz4 => f.fields[11].value = 1) /\ (~w.lz4 => f.fields[11].value = 0)
    BY <1>1, Zenon
  <2> HIDE DEF p
  <2>2. w \in WirePayloads(p)
    BY Zenon DEF p
  <2>3. AccountPayloads(f, f.fields[11].value, p.len, w.len) = {p}
    BY <1>1, <1>3, <2>1, <2>2, AccountPayloadIs, Zenon
  <2>4. QED
    BY <1>1, <2>3, Zenon
<1>8. AccountOf(f, p) = u
  BY <1>2 DEF AccountUpdates, AccountOf, Flag
<1>9. DecodeAccount(f) = {u}
  <2> HIDE DEF p, P
  <2>1. P = AccountPayloads(f, f.fields[11].value,
                            f.fields[12].value, f.fields[13].value)
    BY Zenon DEF P
  <2>2. QED
    BY <1>1, <1>3, <1>4, <1>5, <1>6, <1>7, <1>8, <2>1, AccountGiven
<1>10. wire_tag(f) = UPDATE_TAG
  BY <1>1, <1>5 DEF wire_tag
<1>11. QED
  BY <1>9, <1>10, ByTag, Zenon

\* One that was cut, lengthened or altered is refused.
LEMMA SpoiltAccountRefused ==
    ASSUME NEW u \in AccountUpdates, NEW w \in WirePayloads(u.payload),
           NEW f, f = EncodeAccount(u, w),
           NEW g, Altered(u, f, g) \/ Resized(f, g)
    PROVE  Server(g) = {Refused}
<1> DEFINE p == u.payload
<1>1. /\ f.len = 116 + w.len /\ f.payload = w /\ Shaped(f, AccountCursor, 13)
      /\ IsFrame(f)
      /\ f.fields[1].value = WIRE_VERSION /\ f.fields[2].value = UPDATE_TAG
      /\ f.fields[11].value = (IF w.lz4 THEN 1 ELSE 0)
      /\ f.fields[12].value = p.len /\ f.fields[13].value = w.len
  BY AccountHeader, SMTT(30)
<1>2. p \in Payloads /\ u.kind = "account"
  BY Zenon DEF AccountUpdates
<1>3. w.len \in Nat /\ w.lz4 \in BOOLEAN
  BY <1>2, WireIs, Zenon
<1>4. \A h : h.fields[2].value = UPDATE_TAG /\ DecodeAccount(h) = {Refused} => Server(h) = {Refused}
  BY ByTag, Zenon DEF wire_tag
<1>5. ASSUME Resized(f, g)
      PROVE  Server(g) = {Refused}
  <2>1. PICK n \in Nat : n # f.len /\ g = [f EXCEPT !.len = n]
    BY <1>5, Zenon DEF Resized
  <2>2. g.fields = f.fields /\ g.size = f.size /\ g.len = n
    BY <1>1, <2>1, Relength
  <2>3. Shaped(g, AccountCursor, 13)
    BY <1>1, <2>2, Zenon DEF Shaped
  <2>4. DecodeAccount(g) = {Refused}
    BY <1>1, <2>1, <2>2, <2>3, AccountMisfits, ZenonT(30)
  <2>5. QED
    BY <1>1, <1>4, <2>2, <2>4, Zenon
<1>6. ASSUME Altered(u, f, g)
      PROVE  Server(g) = {Refused}
  <2>1. FlagFields(u.kind) = {7, 11} /\ LengthFields(u.kind) = {12, 13}
    BY <1>2, Zenon DEF FlagFields, LengthFields
  <2>2. PICK i \in {1, 7, 11, 12, 13}, v \in Nat :
          /\ f.fields[i].value # v /\ (i \in {7, 11} => v \notin {0, 1})
          /\ g = Refilled(f, i, v)
    BY <1>6, <2>1, CodecAssumption, Zenon DEF Altered
  <2>3. Header(f.fields, 13) /\ i \in 1 .. 13
    BY <1>1 DEF Shaped
  <2>4. /\ g.size = f.size /\ g.payload = f.payload /\ g.len = f.len /\ Header(g.fields, 13)
        /\ g.fields[i].value = v
        /\ \A j \in 1 .. 13 : g.fields[j].width = f.fields[j].width
        /\ \A j \in 1 .. 13 : j # i => g.fields[j].value = f.fields[j].value
    BY <1>1, <2>2, <2>3, Refill, SMTT(30)
  <2>5. Shaped(g, AccountCursor, 13) /\ g.fields[2].value = UPDATE_TAG
    <3>1. Shaped(g, AccountCursor, 13)
      BY <1>1, <2>4, ShapeKept, Zenon
    <3>2. QED
      BY <1>1, <2>2, <2>4, <3>1
  <2>6. CASE i = 1
    <3>1. g.fields[1].value # WIRE_VERSION
      BY <1>1, <2>2, <2>4, <2>6, Zenon
    <3>2. QED
      BY <2>4, <3>1, OtherVersion, Zenon
  <2>7. CASE i \in {7, 11, 13}
    <3>1. g.len \in Nat
      BY <1>1, <1>3, <2>4
    <3>2. \/ g.len # 116 + g.fields[13].value
          \/ g.fields[7].value \notin {0, 1} \/ g.fields[11].value \notin {0, 1}
      BY <1>1, <1>3, <2>2, <2>4, <2>7
    <3>3. DecodeAccount(g) = {Refused}
      BY <2>5, <3>1, <3>2, AccountMisfits, Zenon
    <3>4. QED
      BY <1>4, <2>4, <2>5, <3>3, Zenon
  <2>8. CASE i = 12
    <3>1. /\ g.fields[11].value = (IF w.lz4 THEN 1 ELSE 0) /\ g.fields[12].value = v
          /\ g.fields[13].value = w.len /\ v # p.len
          /\ (w.lz4 => g.fields[11].value = 1) /\ (~w.lz4 => g.fields[11].value = 0)
      BY <1>1, <2>2, <2>4, <2>8
    <3>2. AccountPayloads(g, g.fields[11].value,
                          g.fields[12].value, g.fields[13].value) = {}
      <4> HIDE DEF p
      <4>1. w \in WirePayloads(p)
        BY Zenon DEF p
      <4>2. g.payload = w /\ g.len = 116 + w.len
        BY <1>1, <2>4, Zenon
      <4>3. (w.lz4 => g.fields[11].value = 1) /\ (~w.lz4 => g.fields[11].value = 0)
        BY <3>1, Zenon
      <4>4. \A q \in AccountPayloads(g, g.fields[11].value, v, w.len) : v = p.len
        BY <1>2, <4>1, <4>2, <4>3, AccountPayloadIs, ZenonT(30)
      <4>5. QED
        BY <3>1, <4>4, Zenon
    <3>3. g.len \in Nat /\ g.len >= 116
      BY <1>1, <1>3, <2>4
    <3>4. DecodeAccount(g) = {Refused}
      BY <2>5, <3>2, <3>3, AccountGiven, Zenon
    <3>5. QED
      BY <1>4, <2>4, <2>5, <3>4, Zenon
  <2>9. QED
    BY <2>2, <2>4, <2>6, <2>7, <2>8, Zenon
<1>7. QED
  BY <1>5, <1>6, Zenon

-----------------------------------------------------------------------------
(* Transaction updates.                                                    *)

\* What TransactionUpdate::encode_parts_at writes.
LEMMA TransactionHeader ==
    ASSUME NEW u, NEW f, f = EncodeTransaction(u)
    PROVE  /\ f.size = 91 /\ f.len = 91 + u.payload.len 
           /\ f.payload = [id |-> u.payload.id, len |-> u.payload.len, lz4 |-> FALSE]
           /\ IsFrame(f) /\ Shaped(f, TransactionCursor, 8)
           /\ f.fields[1].value = WIRE_VERSION
           /\ f.fields[2].value = TRANSACTION_UPDATE_TAG /\ f.fields[3].value = u.created
           /\ f.fields[4].value = u.slot /\ f.fields[5].value = u.index
           /\ f.fields[6].value = Flag(u.is_vote) /\ f.fields[7].value = u.signature
           /\ f.fields[8].value = u.payload.len
<1> DEFINE s == <<Field(1, WIRE_VERSION), Field(1, TRANSACTION_UPDATE_TAG), Field(8, u.created),
                  Field(8, u.slot), Field(4, u.index), Field(1, Flag(u.is_vote)),
                  Field(64, u.signature), Field(4, u.payload.len)>>
<1>1. f = Frame(s, [id |-> u.payload.id, len |-> u.payload.len, lz4 |-> FALSE])
  BY Zenon DEF EncodeTransaction
<1>2. DOMAIN s = 1 .. 8 /\ Len(s) = 8
  OBVIOUS
<1>3. /\ s[1] = Field(1, WIRE_VERSION) /\ s[2] = Field(1, TRANSACTION_UPDATE_TAG)
      /\ s[3] = Field(8, u.created) /\ s[4] = Field(8, u.slot) /\ s[5] = Field(4, u.index)
      /\ s[6] = Field(1, Flag(u.is_vote)) /\ s[7] = Field(64, u.signature)
      /\ s[8] = Field(4, u.payload.len)
  BY Zenon
<1> HIDE DEF s
<1>4. /\ s[1].width = 1 /\ s[2].width = 1 /\ s[3].width = 8 /\ s[4].width = 8 /\ s[5].width = 4
      /\ s[6].width = 1 /\ s[7].width = 64 /\ s[8].width = 4
  BY <1>3, FieldIs
<1>5. /\ s[1].value = WIRE_VERSION /\ s[2].value = TRANSACTION_UPDATE_TAG
      /\ s[3].value = u.created /\ s[4].value = u.slot /\ s[5].value = u.index
      /\ s[6].value = Flag(u.is_vote) /\ s[7].value = u.signature /\ s[8].value = u.payload.len
  BY <1>3, FieldIs
<1>6. SizeOf(s) = 91
  BY <1>2, <1>4 DEF SizeOf
<1>7. \A i \in 1 .. 8 : s[i] = Field(s[i].width, s[i].value)
  <2> SUFFICES ASSUME NEW i \in 1 .. 8
               PROVE  \E x, y : s[i] = Field(x, y)
    BY FieldIs
  <2> QED
    BY <1>3
<1>8. \A i \in 1 .. 8 : s[i].width = TransactionCursor[i + 1] - TransactionCursor[i]
  BY <1>4 DEF TransactionCursor
<1>9. Shaped(f, TransactionCursor, 8)
  BY <1>1, <1>2, <1>7, <1>8, Framed DEF Shaped, Header
<1>10. QED
  BY <1>1, <1>5, <1>6, <1>9, Framed

\* take_exact finds every field of a transaction update.
LEMMA TransactionTaken ==
    ASSUME NEW f, Shaped(f, TransactionCursor, 8), f.len \in Nat, f.len >= 91
    PROVE  \A i \in 1 .. 8 : take_exact(f, TransactionCursor, i) = f.fields[i].value
<1>1. \A i \in 1 .. 8 : TransactionCursor[i + 1] <= f.len
  BY DEF TransactionCursor
<1>2. QED
  BY <1>1, Zenon DEF take_exact, Shaped, Header

\* DecodedTransactionUpdate::parse refuses lengths that do not add up, and unknown flags.
LEMMA TransactionMisfits ==
    ASSUME NEW f, Shaped(f, TransactionCursor, 8), f.len \in Nat,
           f.len # 91 + f.fields[8].value \/ f.fields[6].value \notin {0, 1}
    PROVE  DecodeTransaction(f) = {Refused}
<1>1. ~ParsesTransaction(f)
  <2>1. CASE f.len < 91
    BY <2>1 DEF ParsesTransaction, TRANSACTION_UPDATE_FIXED_BYTES
  <2>2. CASE f.len >= 91
    <3>1. \A i \in 1 .. 8 : take_exact(f, TransactionCursor, i) = f.fields[i].value
      BY <2>2, TransactionTaken, Zenon
    <3>2. TransactionCursor[9] = 91
      BY Zenon DEF TransactionCursor
    <3>3. QED
      BY <3>1, <3>2 DEF ParsesTransaction, LengthsAgree
  <2>3. QED
    BY <2>1, <2>2
<1>2. QED
  BY <1>1, Zenon DEF DecodeTransaction

\* The update that from_decoded builds.
TransactionOf(f) ==
    [kind |-> "transaction", created |-> f.fields[3].value, slot |-> f.fields[4].value,
     index |-> f.fields[5].value, is_vote |-> f.fields[6].value = 1,
     signature |-> f.fields[7].value,
     payload |-> [id |-> f.payload.id, len |-> f.payload.len]]

\* decode_owned_with_meta in terms of the fields.
LEMMA TransactionGiven ==
    ASSUME NEW f, Shaped(f, TransactionCursor, 8), f.len \in Nat, f.len >= 91,
           f.len = 91 + f.fields[8].value, f.payload # Panic, ParsesTransaction(f)
    PROVE  DecodeTransaction(f) = {TransactionOf(f)}
<1> DEFINE V(i) == take_exact(f, TransactionCursor, i)
           U(p) == [kind |-> "transaction", created |-> V(3), slot |-> V(4), index |-> V(5),
                    is_vote |-> V(6) = 1, signature |-> V(7),
                    payload |-> [id |-> p.id, len |-> p.len]]
<1>1. DecodeTransaction(f) =
        {IF p = Panic THEN Panic ELSE U(p) : p \in Slice(f, TransactionCursor[9], V(8))}
  BY Zenon DEF DecodeTransaction
<1>2. \A i \in 1 .. 8 : V(i) = f.fields[i].value
  BY TransactionTaken, Zenon
<1>3. /\ V(3) = f.fields[3].value /\ V(4) = f.fields[4].value /\ V(5) = f.fields[5].value
      /\ V(6) = f.fields[6].value /\ V(7) = f.fields[7].value /\ V(8) = f.fields[8].value
  BY <1>2
<1> HIDE DEF V
<1>4. U(f.payload) = TransactionOf(f)
  BY <1>3, Zenon DEF TransactionOf
<1>5. Slice(f, TransactionCursor[9], V(8)) = {f.payload}
  BY <1>3 DEF Slice, TransactionCursor
<1> HIDE DEF U
<1>6. QED
  BY <1>1, <1>4, <1>5, Zenon

\* A transaction update is decoded to itself.
LEMMA TransactionComesBack ==
    ASSUME NEW u \in TransactionUpdates, NEW f, f = EncodeTransaction(u)
    PROVE  Server(f) = {u}
<1> DEFINE p == u.payload
<1>1. /\ f.len = 91 + p.len /\ f.payload = [id |-> p.id, len |-> p.len, lz4 |-> FALSE]
      /\ Shaped(f, TransactionCursor, 8)
      /\ f.fields[1].value = WIRE_VERSION /\ f.fields[2].value = TRANSACTION_UPDATE_TAG
      /\ f.fields[3].value = u.created /\ f.fields[4].value = u.slot
      /\ f.fields[5].value = u.index /\ f.fields[6].value = Flag(u.is_vote)
      /\ f.fields[7].value = u.signature /\ f.fields[8].value = p.len
  BY TransactionHeader
<1>2. /\ p \in Payloads /\ p.len <= MAX_TRANSACTION_PAYLOAD_BYTES /\ u.created \in Words
      /\ u.slot \in Words /\ u.index \in Words /\ u.is_vote \in BOOLEAN
      /\ u.signature \in Signatures
  BY Zenon DEF TransactionUpdates
<1>3. p.len \in Nat /\ p = [id |-> p.id, len |-> p.len]
  BY <1>2, CodecAssumption, Zenon
<1>4. f.len \in Nat /\ f.len >= 91
  BY <1>1, <1>3
<1>5. ParsesTransaction(f)
  <2>1. \A i \in 1 .. 8 : take_exact(f, TransactionCursor, i) = f.fields[i].value
    BY <1>1, <1>4, TransactionTaken, Zenon
  <2>2. f.len >= TRANSACTION_UPDATE_FIXED_BYTES /\ ensure_wire(f, TRANSACTION_UPDATE_TAG)
    BY <1>1, <1>4 DEF TRANSACTION_UPDATE_FIXED_BYTES, ensure_wire
  <2>3. Flag(u.is_vote) \in {0, 1}
    BY <1>2, Zenon DEF Flag
  <2>4. \A x \in Nat \cup Signatures : x # Garbage
    BY CodecAssumption, Zenon
  <2>5. \A i \in 3 .. 8 : f.fields[i].value \in Nat \cup Signatures
    <3>1. f.fields[6].value \in Nat
      BY <1>1, <2>3
    <3>2. u.created \in Nat /\ u.slot \in Nat /\ u.index \in Nat
      BY <1>2, CodecAssumption, Zenon
    <3>3. QED
      BY <1>1, <1>2, <1>3, <3>1, <3>2
  <2>6. \A i \in 3 .. 8 : take_exact(f, TransactionCursor, i) # Garbage
    <3> SUFFICES ASSUME NEW i \in 3 .. 8
                 PROVE  take_exact(f, TransactionCursor, i) # Garbage
      BY Zenon
    <3>1. i \in 1 .. 8
      OBVIOUS
    <3>2. QED
      BY <2>1, <2>4, <2>5, <3>1, Zenon
  <2>7. /\ take_exact(f, TransactionCursor, 6) \in {0, 1}
        /\ take_exact(f, TransactionCursor, 8) <= MAX_TRANSACTION_PAYLOAD_BYTES
        /\ LengthsAgree(f, TransactionCursor[9], take_exact(f, TransactionCursor, 8))
    BY <1>1, <1>2, <2>1, <2>3 DEF LengthsAgree, TransactionCursor
  <2>8. QED
    BY <2>2, <2>6, <2>7, Zenon DEF ParsesTransaction
<1>6. f.payload # Panic
  BY <1>1 DEF Panic
<1>7. TransactionOf(f) = u
  <2>1. f.payload.id = p.id /\ f.payload.len = p.len
    BY <1>1
  <2>2. (f.fields[6].value = 1) = u.is_vote
    BY <1>1, <1>2 DEF Flag
  <2>3. QED
    BY <1>1, <1>3, <2>1, <2>2, Zenon DEF TransactionUpdates, TransactionOf
<1>8. DecodeTransaction(f) = {u}
  <2> HIDE DEF p
  <2>1. f.len = 91 + f.fields[8].value
    BY <1>1, Zenon
  <2>2. QED
    BY <1>1, <1>4, <1>5, <1>6, <1>7, <2>1, TransactionGiven, Zenon
<1>9. wire_tag(f) = TRANSACTION_UPDATE_TAG
  BY <1>1, <1>4 DEF wire_tag
<1>10. QED
  BY <1>8, <1>9, ByTag, Zenon

\* One that was cut, lengthened or altered is refused.
LEMMA SpoiltTransactionRefused ==
    ASSUME NEW u \in TransactionUpdates, NEW f, f = EncodeTransaction(u),
           NEW g, Altered(u, f, g) \/ Resized(f, g)
    PROVE  Server(g) = {Refused}
<1>1. /\ f.len = 91 + u.payload.len /\ Shaped(f, TransactionCursor, 8) /\ IsFrame(f)
      /\ f.fields[1].value = WIRE_VERSION /\ f.fields[2].value = TRANSACTION_UPDATE_TAG
      /\ f.fields[8].value = u.payload.len
  BY TransactionHeader, ZenonT(30)
<1>2. u.payload \in Payloads /\ u.kind = "transaction"
  BY Zenon DEF TransactionUpdates
<1>3. u.payload.len \in Nat
  BY <1>2, CodecAssumption, Zenon
<1>4. \A h : h.fields[2].value = TRANSACTION_UPDATE_TAG /\ DecodeTransaction(h) = {Refused}
             => Server(h) = {Refused}
  BY ByTag, Zenon DEF wire_tag
<1>5. ASSUME Resized(f, g)
      PROVE  Server(g) = {Refused}
  <2>1. PICK n \in Nat : n # f.len /\ g = [f EXCEPT !.len = n]
    BY <1>5, Zenon DEF Resized
  <2>2. g.fields = f.fields /\ g.len = n
    BY <1>1, <2>1, Relength
  <2>3. Shaped(g, TransactionCursor, 8)
    BY <1>1, <2>2, Zenon DEF Shaped
  <2>4. DecodeTransaction(g) = {Refused}
    BY <1>1, <2>1, <2>2, <2>3, TransactionMisfits, Zenon
  <2>5. QED
    BY <1>1, <1>4, <2>2, <2>4, Zenon
<1>6. ASSUME Altered(u, f, g)
      PROVE  Server(g) = {Refused}
  <2>1. FlagFields(u.kind) = {6} /\ LengthFields(u.kind) = {8}
    BY <1>2, Zenon DEF FlagFields, LengthFields
  <2>2. PICK i \in {1, 6, 8}, v \in Nat :
          /\ f.fields[i].value # v /\ (i = 6 => v \notin {0, 1})
          /\ g = Refilled(f, i, v)
    BY <1>6, <2>1, Zenon DEF Altered
  <2>3. Header(f.fields, 8) /\ i \in 1 .. 8
    BY <1>1 DEF Shaped
  <2>4. /\ g.len = f.len /\ Header(g.fields, 8) /\ g.fields[i].value = v
        /\ \A j \in 1 .. 8 : g.fields[j].width = f.fields[j].width
        /\ \A j \in 1 .. 8 : j # i => g.fields[j].value = f.fields[j].value
    BY <1>1, <2>2, <2>3, Refill
  <2>5. Shaped(g, TransactionCursor, 8)
    BY <1>1, <2>4, ShapeKept, Zenon
  <2>6. g.fields[2].value = TRANSACTION_UPDATE_TAG
    BY <1>1, <2>2, <2>4
  <2>7. CASE i = 1
    <3>1. g.fields[1].value # WIRE_VERSION
      BY <1>1, <2>2, <2>4, <2>7, Zenon
    <3>2. QED
      BY <3>1, OtherVersion, Zenon
  <2>8. CASE i \in {6, 8}
    <3>1. g.len \in Nat
      BY <1>1, <1>3, <2>4
    <3>2. g.len # 91 + g.fields[8].value \/ g.fields[6].value \notin {0, 1}
      BY <1>1, <1>3, <2>2, <2>4, <2>8
    <3>3. DecodeTransaction(g) = {Refused}
      BY <2>5, <3>1, <3>2, TransactionMisfits, Zenon
    <3>4. QED
      BY <1>4, <2>6, <3>3, Zenon
  <2>9. QED
    BY <2>2, <2>7, <2>8, Zenon
<1>7. QED
  BY <1>5, <1>6, Zenon

-----------------------------------------------------------------------------
(* Slot updates.                                                           *)

\* What SlotUpdate::encode_parts_at writes.
LEMMA SlotHeader ==
    ASSUME NEW u, NEW f, f = EncodeSlot(u)
    PROVE  /\ f.size = 18 /\ f.len = 18
           /\ IsFrame(f) /\ Shaped(f, SlotCursor, 4)
           /\ f.fields[1].value = WIRE_VERSION /\ f.fields[2].value = SLOT_UPDATE_TAG
           /\ f.fields[3].value = u.created /\ f.fields[4].value = u.slot
<1> DEFINE s == <<Field(1, WIRE_VERSION), Field(1, SLOT_UPDATE_TAG), Field(8, u.created),
                  Field(8, u.slot)>>
<1>1. f = Frame(s, Nothing)
  BY Zenon DEF EncodeSlot
<1>2. DOMAIN s = 1 .. 4 /\ Len(s) = 4
  OBVIOUS
<1>3. /\ s[1] = Field(1, WIRE_VERSION) /\ s[2] = Field(1, SLOT_UPDATE_TAG)
      /\ s[3] = Field(8, u.created) /\ s[4] = Field(8, u.slot)
  BY Zenon
<1> HIDE DEF s
<1>4. /\ s[1].width = 1 /\ s[2].width = 1 /\ s[3].width = 8 /\ s[4].width = 8
  BY <1>3, FieldIs
<1>5. /\ s[1].value = WIRE_VERSION /\ s[2].value = SLOT_UPDATE_TAG /\ s[3].value = u.created
      /\ s[4].value = u.slot
  BY <1>3, FieldIs
<1>6. SizeOf(s) = 18
  BY <1>2, <1>4 DEF SizeOf
<1>7. \A i \in 1 .. 4 : s[i] = Field(s[i].width, s[i].value)
  <2> SUFFICES ASSUME NEW i \in 1 .. 4
               PROVE  \E x, y : s[i] = Field(x, y)
    BY FieldIs
  <2> QED
    BY <1>3
<1>8. \A i \in 1 .. 4 : s[i].width = SlotCursor[i + 1] - SlotCursor[i]
  BY <1>4 DEF SlotCursor
<1>9. Shaped(f, SlotCursor, 4)
  BY <1>1, <1>2, <1>7, <1>8, Framed DEF Shaped, Header
<1>10. QED
  BY <1>1, <1>5, <1>6, <1>9, Framed DEF Nothing

\* A slot update is decoded to itself.
LEMMA SlotComesBack ==
    ASSUME NEW u \in SlotUpdates, NEW f, f = EncodeSlot(u)
    PROVE  Server(f) = {u}
<1>1. /\ f.len = 18 /\ Shaped(f, SlotCursor, 4)
      /\ f.fields[1].value = WIRE_VERSION /\ f.fields[2].value = SLOT_UPDATE_TAG
      /\ f.fields[3].value = u.created /\ f.fields[4].value = u.slot
  BY SlotHeader, Zenon
<1>2. take_exact(f, SlotCursor, 3) = u.created /\ take_exact(f, SlotCursor, 4) = u.slot
  BY <1>1 DEF take_exact, Shaped, Header, SlotCursor
<1>3. /\ f.len >= SLOT_UPDATE_FIXED_BYTES /\ ensure_wire(f, SLOT_UPDATE_TAG)
      /\ LengthsAgree(f, SlotCursor[5], 0)
  BY <1>1 DEF SLOT_UPDATE_FIXED_BYTES, ensure_wire, LengthsAgree, SlotCursor
<1>4. [kind |-> "slot", created |-> u.created, slot |-> u.slot] = u
  BY Zenon DEF SlotUpdates
<1>5. DecodeSlot(f) = {[kind |-> "slot", created |-> u.created, slot |-> u.slot]}
  BY <1>2, <1>3, Zenon DEF DecodeSlot
<1>6. wire_tag(f) = SLOT_UPDATE_TAG
  BY <1>1 DEF wire_tag
<1>7. QED
  BY <1>4, <1>5, <1>6, ByTag, Zenon

\* One that was cut or lengthened, or of another version, is refused.
LEMMA SpoiltSlotRefused ==
    ASSUME NEW u \in SlotUpdates, NEW f, f = EncodeSlot(u),
           NEW g, Altered(u, f, g) \/ Resized(f, g)
    PROVE  Server(g) = {Refused}
<1>1. /\ f.len = 18 /\ Header(f.fields, 4) /\ IsFrame(f)
      /\ f.fields[1].value = WIRE_VERSION /\ f.fields[2].value = SLOT_UPDATE_TAG
  BY SlotHeader, Zenon DEF Shaped
<1>2. ASSUME Resized(f, g)
      PROVE  Server(g) = {Refused}
  <2>1. PICK n \in Nat : n # f.len /\ g = [f EXCEPT !.len = n]
    BY <1>2, Zenon DEF Resized
  <2>2. g.fields = f.fields /\ g.len = n
    BY <1>1, <2>1, Relength
  <2>3. ~LengthsAgree(g, SlotCursor[5], 0)
    BY <1>1, <2>1, <2>2 DEF LengthsAgree, SlotCursor
  <2>4. DecodeSlot(g) = {Refused}
    BY <2>3, Zenon DEF DecodeSlot
  <2>5. QED
    BY <1>1, <2>2, <2>4, ByTag, Zenon DEF wire_tag
<1>3. ASSUME Altered(u, f, g)
      PROVE  Server(g) = {Refused}
  <2>1. FlagFields(u.kind) = {} /\ LengthFields(u.kind) = {}
    BY Zenon DEF FlagFields, LengthFields, SlotUpdates
  <2>2. g.fields[1].value # WIRE_VERSION
    BY <1>1, <1>3, <2>1, OtherFirst
  <2>3. QED
    BY <2>2, OtherVersion, Zenon
<1>4. QED
  BY <1>2, <1>3, Zenon

-----------------------------------------------------------------------------
(* Control messages.                                                       *)

\* wincode refuses too few bytes and may refuse too many.
LEMMA Deserialized ==
    ASSUME NEW f, f.size \in Nat, f.len \in Nat, NEW tag, NEW ok
    PROVE  /\ ensure_wire(f, tag) /\ f.len = f.size => Deserialize(f, tag, ok) = {ok}
           /\ f.len # f.size => \A o \in Deserialize(f, tag, ok) :
                                    o = Refused \/ (o = ok /\ f.len > f.size)
           /\ \A o \in Deserialize(f, tag, Refused) : o = Refused
BY DEF Deserialize

\* A control message of which bytes were cut, or which others follow.
LEMMA ResizedControl ==
    ASSUME NEW f, IsFrame(f), f.size \in Nat, f.len = f.size, NEW g, Resized(f, g), NEW tag, NEW r
    PROVE  /\ g.fields = f.fields /\ g.size = f.size /\ g.len \in Nat
           /\ \A o \in Deserialize(g, tag, r) : o = Refused \/ (o = r /\ g.len > g.size)
           /\ wire_tag(g) = f.fields[2].value \/ wire_tag(g) = 0
<1>1. PICK n \in Nat : n # f.len /\ g = [f EXCEPT !.len = n]
  BY Zenon DEF Resized
<1>2. g.fields = f.fields /\ g.size = f.size /\ g.len = n
  BY <1>1, Relength
<1>3. \A o \in Deserialize(g, tag, r) : o = Refused \/ (o = r /\ g.len > g.size)
  <2>1. g.size \in Nat /\ g.len \in Nat /\ g.len # g.size
    BY <1>1, <1>2, Zenon
  <2>2. QED
    BY <2>1, Deserialized, Zenon
<1>4. wire_tag(g) = f.fields[2].value \/ wire_tag(g) = 0
  BY <1>2, Zenon DEF wire_tag
<1>5. QED
  BY <1>1, <1>2, <1>3, <1>4, Zenon

\* No token is the unset index.
SentToken(r) ==
    IF r.slot_token = None THEN [slot_index |-> UNSET_SLOT_INDEX, generation |-> 0]
    ELSE r.slot_token

\* What SubscriptionRequest::encode writes.
LEMMA SubscriptionHeader ==
    ASSUME NEW r, Len(r.account_pubkeys) \in Nat, Len(r.account_owners) \in Nat,
           NEW f, f = EncodeSubscription(r)
    PROVE  /\ f.size \in Nat /\ f.size >= 2 /\ f.len = f.size /\ IsFrame(f) /\ Header(f.fields, 7)
           /\ f.fields[1].value = WIRE_VERSION
           /\ f.fields[2].value = REQUEST_SUBSCRIBE_TAG
           /\ f.fields[3].value = SentToken(r).slot_index
           /\ f.fields[4].value = SentToken(r).generation
           /\ f.fields[5].value = r.account_pubkeys
           /\ f.fields[6].value = r.account_owners
           /\ f.fields[7].value = Flag(r.include_transactions)
<1> DEFINE s == <<Field(1, WIRE_VERSION), Field(1, REQUEST_SUBSCRIBE_TAG),
                  Field(1, SentToken(r).slot_index), Field(8, SentToken(r).generation),
                  Field(8 + 32 * Len(r.account_pubkeys), r.account_pubkeys),
                  Field(8 + 32 * Len(r.account_owners), r.account_owners),
                  Field(1, Flag(r.include_transactions))>>
<1>1. f = Frame(s, Nothing)
  BY Zenon DEF EncodeSubscription, KeyList, SentToken
<1>2. DOMAIN s = 1 .. 7 /\ Len(s) = 7
  OBVIOUS
<1>3. /\ s[1] = Field(1, WIRE_VERSION) /\ s[2] = Field(1, REQUEST_SUBSCRIBE_TAG)
      /\ s[3] = Field(1, SentToken(r).slot_index) /\ s[4] = Field(8, SentToken(r).generation)
      /\ s[5] = Field(8 + 32 * Len(r.account_pubkeys), r.account_pubkeys)
      /\ s[6] = Field(8 + 32 * Len(r.account_owners), r.account_owners)
      /\ s[7] = Field(1, Flag(r.include_transactions))
  BY Zenon
<1> HIDE DEF s
<1>4. /\ s[1].width = 1 /\ s[2].width = 1 /\ s[3].width = 1 /\ s[4].width = 8
      /\ s[5].width = 8 + 32 * Len(r.account_pubkeys)
      /\ s[6].width = 8 + 32 * Len(r.account_owners) /\ s[7].width = 1
  BY <1>3, FieldIs
<1>5. /\ s[1].value = WIRE_VERSION /\ s[2].value = REQUEST_SUBSCRIBE_TAG
      /\ s[3].value = SentToken(r).slot_index /\ s[4].value = SentToken(r).generation
      /\ s[5].value = r.account_pubkeys
      /\ s[6].value = r.account_owners /\ s[7].value = Flag(r.include_transactions)
  BY <1>3, FieldIs
<1>6. SizeOf(s) \in Nat /\ SizeOf(s) >= 2
  <2>1. PICK a \in Nat, b \in Nat : s[5].width = a /\ s[6].width = b
    BY <1>4
  <2>2. /\ s[1].width = 1 /\ s[2].width = 1 /\ s[3].width = 1 /\ s[4].width = 8
        /\ s[5].width = a /\ s[6].width = b /\ s[7].width = 1
    BY <1>4, <2>1, Zenon
  <2>3. QED
    BY <1>2, <2>2 DEF SizeOf
<1>7. \A i \in 1 .. 7 : s[i] = Field(s[i].width, s[i].value)
  <2> SUFFICES ASSUME NEW i \in 1 .. 7
               PROVE  \E x, y : s[i] = Field(x, y)
    BY FieldIs
  <2> QED
    BY <1>3
<1>8. f.fields = s /\ f.size = SizeOf(s) /\ f.len = SizeOf(s) + 0 /\ IsFrame(f)
  BY <1>1, Framed DEF Nothing
<1>9. Header(s, 7)
  BY <1>2, <1>7, Zenon DEF Header
<1>10. QED
  BY <1>5, <1>6, <1>8, <1>9

\* What SubscriptionRequest::decode makes of the fields.
SubscriptionOf(f) ==
    IF f.fields[7].value \notin {0, 1} THEN Refused
    ELSE [kind |-> "subscription", slot_token |-> TokenOf(f),
          account_pubkeys |-> f.fields[5].value, account_owners |-> f.fields[6].value,
          include_transactions |-> f.fields[7].value = 1]

\* It is the request: no token of the sender's has the unset index.
LEMMA SubscriptionGiven ==
    ASSUME NEW r \in SubscriptionRequests, NEW f, f = EncodeSubscription(r)
    PROVE  /\ f.size \in Nat /\ f.len = f.size /\ IsFrame(f) /\ Header(f.fields, 7)
           /\ f.fields[1].value = WIRE_VERSION /\ f.fields[2].value = REQUEST_SUBSCRIBE_TAG
           /\ f.size >= 2 /\ \A g : g.fields = f.fields => SubscriptionOf(g) = r
<1>1. /\ r.slot_token \in Tokens \cup {None} /\ r.account_pubkeys \in KeyLists
      /\ r.account_owners \in KeyLists /\ r.include_transactions \in BOOLEAN
  BY Zenon DEF SubscriptionRequests
<1>2. Len(r.account_pubkeys) \in Nat /\ Len(r.account_owners) \in Nat
  BY <1>1, CodecAssumption
<1>3. /\ f.size \in Nat /\ f.len = f.size /\ IsFrame(f) /\ Header(f.fields, 7)
      /\ f.fields[1].value = WIRE_VERSION /\ f.fields[2].value = REQUEST_SUBSCRIBE_TAG
      /\ f.fields[3].value = SentToken(r).slot_index
      /\ f.fields[4].value = SentToken(r).generation
      /\ f.fields[5].value = r.account_pubkeys /\ f.fields[6].value = r.account_owners
      /\ f.fields[7].value = Flag(r.include_transactions) /\ f.size >= 2
  BY <1>2, SubscriptionHeader, Zenon
<1>4. ASSUME NEW g, g.fields = f.fields
      PROVE  SubscriptionOf(g) = r
  <2>1. TokenOf(g) = r.slot_token
    <3>1. CASE r.slot_token = None
      BY <1>3, <1>4, <3>1, Zenon DEF SentToken, TokenOf, IsSet
    <3>2. CASE r.slot_token # None
      <4>1. r.slot_token \in [slot_index : 0 .. UNSET_SLOT_INDEX - 1, generation : Nat]
        BY <1>1, <3>2, CodecAssumption, Zenon
      <4>2. g.fields[3].value # UNSET_SLOT_INDEX
        BY <1>3, <1>4, <3>2, <4>1 DEF SentToken, UNSET_SLOT_INDEX
      <4>3. QED
        BY <1>3, <1>4, <3>2, <4>1, <4>2, Zenon DEF SentToken, TokenOf, IsSet, Token
    <3>3. QED
      BY <3>1, <3>2, Zenon
  <2>2. g.fields[7].value \in {0, 1} /\ (g.fields[7].value = 1) = r.include_transactions
    BY <1>1, <1>3, <1>4 DEF Flag
  <2>3. QED
    BY <1>3, <1>4, <2>1, <2>2, Zenon DEF SubscriptionOf, SubscriptionRequests
<1>5. QED
  BY <1>3, <1>4, Zenon

\* A request is decoded to itself, with its token or without.
LEMMA SubscriptionComesBack ==
    ASSUME NEW r \in SubscriptionRequests, NEW f, f = EncodeSubscription(r)
    PROVE  Client(f) = {r}
<1>1. /\ f.size \in Nat /\ f.size >= 2 /\ f.len = f.size /\ SubscriptionOf(f) = r
      /\ f.fields[1].value = WIRE_VERSION /\ f.fields[2].value = REQUEST_SUBSCRIBE_TAG
  BY SubscriptionGiven, Zenon
<1>2. ensure_wire(f, REQUEST_SUBSCRIBE_TAG) /\ wire_tag(f) = REQUEST_SUBSCRIBE_TAG
  BY <1>1 DEF ensure_wire, wire_tag
<1>3. DecodeSubscription(f) = Deserialize(f, REQUEST_SUBSCRIBE_TAG, r)
  BY <1>1, Zenon DEF DecodeSubscription, SubscriptionOf
<1>4. QED
  BY <1>1, <1>2, <1>3, Deserialized, ByTag

\* A request that was spoilt is refused, unless it is whole and more bytes follow.
LEMMA SpoiltSubscriptionRefused ==
    ASSUME NEW r \in SubscriptionRequests, NEW f, f = EncodeSubscription(r),
           NEW g, Altered(r, f, g) \/ Resized(f, g)
    PROVE  \A o \in Client(g) : o = Refused \/ (o = r /\ g.len > g.size)
<1>1. /\ f.size \in Nat /\ f.size >= 2 /\ f.len = f.size /\ IsFrame(f) /\ Header(f.fields, 7)
      /\ f.fields[1].value = WIRE_VERSION /\ f.fields[2].value = REQUEST_SUBSCRIBE_TAG
      /\ \A h : h.fields = f.fields => SubscriptionOf(h) = r
  BY SubscriptionGiven, Zenon
<1>2. DecodeSubscription(g) = Deserialize(g, REQUEST_SUBSCRIBE_TAG, SubscriptionOf(g))
  BY Zenon DEF DecodeSubscription, SubscriptionOf
<1>3. ASSUME Resized(f, g)
      PROVE  \A o \in Client(g) : o = Refused \/ (o = r /\ g.len > g.size)
  <2>1. /\ g.fields = f.fields /\ (wire_tag(g) = REQUEST_SUBSCRIBE_TAG \/ wire_tag(g) = 0)
        /\ \A o \in Deserialize(g, REQUEST_SUBSCRIBE_TAG, r) :
              o = Refused \/ (o = r /\ g.len > g.size)
    BY <1>1, <1>3, ResizedControl, Zenon
  <2>2. SubscriptionOf(g) = r
    BY <1>1, <2>1, Zenon
  <2>3. QED
    BY <1>2, <2>1, <2>2, ByTag, Zenon
<1>4. ASSUME Altered(r, f, g)
      PROVE  \A o \in Client(g) : o = Refused
  <2>1. FlagFields(r.kind) = {7} /\ LengthFields(r.kind) = {}
    BY Zenon DEF FlagFields, LengthFields, SubscriptionRequests
  <2>2. PICK i \in {1, 7}, v \in Nat :
          /\ f.fields[i].value # v /\ (i = 7 => v \notin {0, 1})
          /\ g = Refilled(f, i, v)
    BY <1>4, <2>1, Zenon DEF Altered
  <2>3. i \in 1 .. 7
    OBVIOUS
  <2>4. /\ g.size = f.size /\ g.len = f.len /\ g.fields[i].value = v
        /\ \A j \in 1 .. 7 : j # i => g.fields[j].value = f.fields[j].value
    BY <1>1, <2>2, <2>3, Refill
  <2>5. CASE i = 1
    <3>1. g.fields[1].value # WIRE_VERSION
      BY <1>1, <2>2, <2>4, <2>5, Zenon
    <3>2. QED
      BY <3>1, OtherVersion
  <2>6. CASE i = 7
    <3>1. SubscriptionOf(g) = Refused
      BY <2>2, <2>4, <2>6, Zenon DEF SubscriptionOf
    <3>2. wire_tag(g) = REQUEST_SUBSCRIBE_TAG
      BY <1>1, <2>4, <2>6 DEF wire_tag
    <3>3. \A o \in Deserialize(g, REQUEST_SUBSCRIBE_TAG, Refused) : o = Refused
      BY <1>1, <2>4, Deserialized, Zenon
    <3>4. QED
      BY <1>2, <3>1, <3>2, <3>3, ByTag, Zenon
  <2>7. QED
    BY <2>2, <2>5, <2>6, Zenon
<1>5. QED
  BY <1>3, <1>4, Zenon

\* What PingRequest::encode writes.
LEMMA PingHeader ==
    ASSUME NEW r, NEW f, f = EncodePing(r)
    PROVE  /\ f.size \in Nat /\ f.size >= 2 /\ f.len = f.size /\ IsFrame(f) /\ Header(f.fields, 4)
           /\ f.fields[1].value = WIRE_VERSION /\ f.fields[2].value = REQUEST_PING_TAG
           /\ f.fields[3].value = r.slot_token.slot_index
           /\ f.fields[4].value = r.slot_token.generation
<1> DEFINE s == <<Field(1, WIRE_VERSION), Field(1, REQUEST_PING_TAG),
                  Field(1, r.slot_token.slot_index), Field(8, r.slot_token.generation)>>
<1>1. f = Frame(s, Nothing)
  BY Zenon DEF EncodePing, TokenFrame
<1>2. DOMAIN s = 1 .. 4 /\ Len(s) = 4
  OBVIOUS
<1>3. /\ s[1] = Field(1, WIRE_VERSION) /\ s[2] = Field(1, REQUEST_PING_TAG)
      /\ s[3] = Field(1, r.slot_token.slot_index) /\ s[4] = Field(8, r.slot_token.generation)
  BY Zenon
<1> HIDE DEF s
<1>4. /\ s[1].width = 1 /\ s[2].width = 1 /\ s[3].width = 1 /\ s[4].width = 8
  BY <1>3, FieldIs
<1>5. /\ s[1].value = WIRE_VERSION /\ s[2].value = REQUEST_PING_TAG
      /\ s[3].value = r.slot_token.slot_index /\ s[4].value = r.slot_token.generation
  BY <1>3, FieldIs
<1>6. SizeOf(s) \in Nat /\ SizeOf(s) >= 2
  BY <1>2, <1>4 DEF SizeOf
<1>7. \A i \in 1 .. 4 : s[i] = Field(s[i].width, s[i].value)
  <2> SUFFICES ASSUME NEW i \in 1 .. 4
               PROVE  \E x, y : s[i] = Field(x, y)
    BY FieldIs
  <2> QED
    BY <1>3
<1>8. f.fields = s /\ f.size = SizeOf(s) /\ f.len = SizeOf(s) + 0 /\ IsFrame(f)
  BY <1>1, Framed DEF Nothing
<1>9. Header(s, 4)
  BY <1>2, <1>7, Zenon DEF Header
<1>10. QED
  BY <1>5, <1>6, <1>8, <1>9

\* What PingRequest::decode makes of the fields.
PingOf(f) ==
    IF IsSet(f) THEN [kind |-> "ping", slot_token |-> Token(f)] ELSE Refused

\* It is the ping.
LEMMA PingGiven ==
    ASSUME NEW r \in Readies("ping"), NEW f, f = EncodePing(r)
    PROVE  /\ f.size \in Nat /\ f.size >= 2 /\ f.len = f.size /\ IsFrame(f)
           /\ Header(f.fields, 4) /\ f.fields[1].value = WIRE_VERSION
           /\ f.fields[2].value = REQUEST_PING_TAG
           /\ \A g : g.fields = f.fields => PingOf(g) = r
<1>1. /\ r.slot_token \in [slot_index : 0 .. UNSET_SLOT_INDEX - 1, generation : Nat]
  BY CodecAssumption, Zenon DEF Readies
<1>2. /\ f.size \in Nat /\ f.size >= 2 /\ f.len = f.size /\ IsFrame(f)
      /\ Header(f.fields, 4) /\ f.fields[1].value = WIRE_VERSION
      /\ f.fields[2].value = REQUEST_PING_TAG
      /\ f.fields[3].value = r.slot_token.slot_index
      /\ f.fields[4].value = r.slot_token.generation
  BY <1>1, PingHeader, Zenon
<1>3. ASSUME NEW g, g.fields = f.fields
      PROVE  PingOf(g) = r
  <2>1. IsSet(g)
    BY <1>1, <1>2, <1>3 DEF IsSet, UNSET_SLOT_INDEX
  <2>2. Token(g) = r.slot_token
    BY <1>1, <1>2, <1>3, Zenon DEF Token
  <2>3. QED
    BY <1>1, <1>2, <1>3, <2>1, <2>2, Zenon DEF PingOf, Readies
<1>4. QED
  BY <1>2, <1>3, Zenon

\* A ping is decoded to itself.
LEMMA PingComesBack ==
    ASSUME NEW r \in Readies("ping"), NEW f, f = EncodePing(r)
    PROVE  Client(f) = {r}
<1>1. /\ f.size \in Nat /\ f.size >= 2 /\ f.len = f.size /\ PingOf(f) = r
      /\ f.fields[1].value = WIRE_VERSION /\ f.fields[2].value = REQUEST_PING_TAG
  BY PingGiven, Zenon
<1>2. ensure_wire(f, REQUEST_PING_TAG) /\ wire_tag(f) = REQUEST_PING_TAG
  BY <1>1 DEF ensure_wire, wire_tag
<1>3. DecodePing(f) = Deserialize(f, REQUEST_PING_TAG, r)
  BY <1>1, Zenon DEF DecodePing, PingOf
<1>4. QED
  BY <1>1, <1>2, <1>3, Deserialized, ByTag

\* A ping that was spoilt is refused, unless it is whole and more bytes follow.
LEMMA SpoiltPingRefused ==
    ASSUME NEW r \in Readies("ping"), NEW f, f = EncodePing(r),
           NEW g, Altered(r, f, g) \/ Resized(f, g)
    PROVE  \A o \in Client(g) : o = Refused \/ (o = r /\ g.len > g.size)
<1>1. /\ f.size \in Nat /\ f.len = f.size /\ IsFrame(f) /\ Header(f.fields, 4)
      /\ f.fields[1].value = WIRE_VERSION /\ f.fields[2].value = REQUEST_PING_TAG
      /\ \A h : h.fields = f.fields => PingOf(h) = r
  BY PingGiven, Zenon
<1>2. CASE Resized(f, g)
  <2>1. /\ g.fields = f.fields /\ (wire_tag(g) = REQUEST_PING_TAG \/ wire_tag(g) = 0)
        /\ \A o \in Deserialize(g, REQUEST_PING_TAG, r) : o = Refused \/ (o = r /\ g.len > g.size)
    BY <1>1, <1>2, ResizedControl, Zenon
  <2>2. PingOf(g) = r
    BY <1>1, <2>1, Zenon
  <2>3. DecodePing(g) = Deserialize(g, REQUEST_PING_TAG, r)
    BY <2>2, Zenon DEF DecodePing, PingOf
  <2>4. QED
    BY <2>1, <2>3, ByTag
<1>3. CASE Altered(r, f, g)
  <2>1. FlagFields(r.kind) = {} /\ LengthFields(r.kind) = {}
    BY Zenon DEF FlagFields, LengthFields, Readies
  <2>2. g.fields[1].value # WIRE_VERSION
    BY <1>1, <1>3, <2>1, OtherFirst
  <2>3. QED
    BY <2>2, OtherVersion
<1>4. QED
  BY <1>2, <1>3, Zenon

\* What ConnectionReady::encode writes.
LEMMA ReadyHeader ==
    ASSUME NEW r, NEW f, f = EncodeReady(r)
    PROVE  /\ f.size \in Nat /\ f.size >= 2 /\ f.len = f.size /\ IsFrame(f) /\ Header(f.fields, 4)
           /\ f.fields[1].value = WIRE_VERSION /\ f.fields[2].value = READY_TAG
           /\ f.fields[3].value = r.slot_token.slot_index
           /\ f.fields[4].value = r.slot_token.generation
<1> DEFINE s == <<Field(1, WIRE_VERSION), Field(1, READY_TAG), Field(1, r.slot_token.slot_index),
                  Field(8, r.slot_token.generation)>>
<1>1. f = Frame(s, Nothing)
  BY Zenon DEF EncodeReady, TokenFrame
<1>2. DOMAIN s = 1 .. 4 /\ Len(s) = 4
  OBVIOUS
<1>3. /\ s[1] = Field(1, WIRE_VERSION) /\ s[2] = Field(1, READY_TAG)
      /\ s[3] = Field(1, r.slot_token.slot_index) /\ s[4] = Field(8, r.slot_token.generation)
  BY Zenon
<1> HIDE DEF s
<1>4. /\ s[1].width = 1 /\ s[2].width = 1 /\ s[3].width = 1 /\ s[4].width = 8
  BY <1>3, FieldIs
<1>5. /\ s[1].value = WIRE_VERSION /\ s[2].value = READY_TAG
      /\ s[3].value = r.slot_token.slot_index /\ s[4].value = r.slot_token.generation
  BY <1>3, FieldIs
<1>6. SizeOf(s) \in Nat /\ SizeOf(s) >= 2
  BY <1>2, <1>4 DEF SizeOf
<1>7. \A i \in 1 .. 4 : s[i] = Field(s[i].width, s[i].value)
  <2> SUFFICES ASSUME NEW i \in 1 .. 4
               PROVE  \E x, y : s[i] = Field(x, y)
    BY FieldIs
  <2> QED
    BY <1>3
<1>8. f.fields = s /\ f.size = SizeOf(s) /\ f.len = SizeOf(s) + 0 /\ IsFrame(f)
  BY <1>1, Framed DEF Nothing
<1>9. Header(s, 4)
  BY <1>2, <1>7, Zenon DEF Header
<1>10. QED
  BY <1>5, <1>6, <1>8, <1>9

\* What ConnectionReady::decode makes of the fields.
ReadyOf(f) ==
    IF IsSet(f) THEN [kind |-> "ready", slot_token |-> Token(f)] ELSE Refused

\* It is the message.
LEMMA ReadyGiven ==
    ASSUME NEW r \in Readies("ready"), NEW f, f = EncodeReady(r)
    PROVE  /\ f.size \in Nat /\ f.size >= 2 /\ f.len = f.size /\ IsFrame(f)
           /\ Header(f.fields, 4) /\ f.fields[1].value = WIRE_VERSION
           /\ f.fields[2].value = READY_TAG
           /\ \A g : g.fields = f.fields => ReadyOf(g) = r
<1>1. /\ r.slot_token \in [slot_index : 0 .. UNSET_SLOT_INDEX - 1, generation : Nat]
  BY CodecAssumption, Zenon DEF Readies
<1>2. /\ f.size \in Nat /\ f.size >= 2 /\ f.len = f.size /\ IsFrame(f)
      /\ Header(f.fields, 4) /\ f.fields[1].value = WIRE_VERSION
      /\ f.fields[2].value = READY_TAG
      /\ f.fields[3].value = r.slot_token.slot_index
      /\ f.fields[4].value = r.slot_token.generation
  BY <1>1, ReadyHeader, Zenon
<1>3. ASSUME NEW g, g.fields = f.fields
      PROVE  ReadyOf(g) = r
  <2>1. IsSet(g)
    BY <1>1, <1>2, <1>3 DEF IsSet, UNSET_SLOT_INDEX
  <2>2. Token(g) = r.slot_token
    BY <1>1, <1>2, <1>3, Zenon DEF Token
  <2>3. QED
    BY <1>1, <1>2, <1>3, <2>1, <2>2, Zenon DEF ReadyOf, Readies
<1>4. QED
  BY <1>2, <1>3, Zenon

\* A ready message is decoded to itself.
LEMMA ReadyComesBack ==
    ASSUME NEW r \in Readies("ready"), NEW f, f = EncodeReady(r)
    PROVE  Server(f) = {r}
<1>1. /\ f.size \in Nat /\ f.size >= 2 /\ f.len = f.size /\ ReadyOf(f) = r
      /\ f.fields[1].value = WIRE_VERSION /\ f.fields[2].value = READY_TAG
  BY ReadyGiven, Zenon
<1>2. ensure_wire(f, READY_TAG) /\ wire_tag(f) = READY_TAG
  BY <1>1 DEF ensure_wire, wire_tag
<1>3. DecodeReady(f) = Deserialize(f, READY_TAG, r)
  BY <1>1, Zenon DEF DecodeReady, ReadyOf
<1>4. QED
  BY <1>1, <1>2, <1>3, Deserialized, ByTag

\* One that was spoilt is refused, unless it is whole and more bytes follow.
LEMMA SpoiltReadyRefused ==
    ASSUME NEW r \in Readies("ready"), NEW f, f = EncodeReady(r),
           NEW g, Altered(r, f, g) \/ Resized(f, g)
    PROVE  \A o \in Server(g) : o = Refused \/ (o = r /\ g.len > g.size)
<1>1. /\ f.size \in Nat /\ f.len = f.size /\ IsFrame(f) /\ Header(f.fields, 4)
      /\ f.fields[1].value = WIRE_VERSION /\ f.fields[2].value = READY_TAG
      /\ \A h : h.fields = f.fields => ReadyOf(h) = r
  BY ReadyGiven, Zenon
<1>2. CASE Resized(f, g)
  <2>1. /\ g.fields = f.fields /\ (wire_tag(g) = READY_TAG \/ wire_tag(g) = 0)
        /\ \A o \in Deserialize(g, READY_TAG, r) : o = Refused \/ (o = r /\ g.len > g.size)
    BY <1>1, <1>2, ResizedControl, Zenon
  <2>2. ReadyOf(g) = r
    BY <1>1, <2>1, Zenon
  <2>3. DecodeReady(g) = Deserialize(g, READY_TAG, r)
    BY <2>2, Zenon DEF DecodeReady, ReadyOf
  <2>4. QED
    BY <2>1, <2>3, ByTag
<1>3. CASE Altered(r, f, g)
  <2>1. FlagFields(r.kind) = {} /\ LengthFields(r.kind) = {}
    BY Zenon DEF FlagFields, LengthFields, Readies
  <2>2. g.fields[1].value # WIRE_VERSION
    BY <1>1, <1>3, <2>1, OtherFirst
  <2>3. QED
    BY <2>2, OtherVersion
<1>4. QED
  BY <1>2, <1>3, Zenon

\* What ConnectionReadyShm::encode writes.
LEMMA ReadyShmHeader ==
    ASSUME NEW r, r.ring_path.len \in Nat, NEW f, f = EncodeReadyShm(r)
    PROVE  /\ f.size \in Nat /\ f.size >= 2 /\ f.len = f.size /\ IsFrame(f) /\ Header(f.fields, 6)
           /\ f.fields[1].value = WIRE_VERSION /\ f.fields[2].value = READY_SHM_TAG
           /\ f.fields[3].value = r.slot_token.slot_index
           /\ f.fields[4].value = r.slot_token.generation
           /\ f.fields[5].value = r.ring_path /\ f.fields[6].value = r.ring_capacity
<1> DEFINE s == <<Field(1, WIRE_VERSION), Field(1, READY_SHM_TAG),
                  Field(1, r.slot_token.slot_index), Field(8, r.slot_token.generation),
                  Field(8 + r.ring_path.len, r.ring_path), Field(8, r.ring_capacity)>>
<1>1. f = Frame(s, Nothing)
  BY Zenon DEF EncodeReadyShm
<1>2. DOMAIN s = 1 .. 6 /\ Len(s) = 6
  OBVIOUS
<1>3. /\ s[1] = Field(1, WIRE_VERSION) /\ s[2] = Field(1, READY_SHM_TAG)
      /\ s[3] = Field(1, r.slot_token.slot_index) /\ s[4] = Field(8, r.slot_token.generation)
      /\ s[5] = Field(8 + r.ring_path.len, r.ring_path) /\ s[6] = Field(8, r.ring_capacity)
  BY Zenon
<1> HIDE DEF s
<1>4. /\ s[1].width = 1 /\ s[2].width = 1 /\ s[3].width = 1 /\ s[4].width = 8
      /\ s[5].width = 8 + r.ring_path.len /\ s[6].width = 8
  BY <1>3, FieldIs
<1>5. /\ s[1].value = WIRE_VERSION /\ s[2].value = READY_SHM_TAG
      /\ s[3].value = r.slot_token.slot_index /\ s[4].value = r.slot_token.generation
      /\ s[5].value = r.ring_path /\ s[6].value = r.ring_capacity
  BY <1>3, FieldIs
<1>6. SizeOf(s) \in Nat /\ SizeOf(s) >= 2
  BY <1>2, <1>4 DEF SizeOf
<1>7. \A i \in 1 .. 6 : s[i] = Field(s[i].width, s[i].value)
  <2> SUFFICES ASSUME NEW i \in 1 .. 6
               PROVE  \E x, y : s[i] = Field(x, y)
    BY FieldIs
  <2> QED
    BY <1>3
<1>8. f.fields = s /\ f.size = SizeOf(s) /\ f.len = SizeOf(s) + 0 /\ IsFrame(f)
  BY <1>1, Framed DEF Nothing
<1>9. Header(s, 6)
  BY <1>2, <1>7, Zenon DEF Header
<1>10. QED
  BY <1>5, <1>6, <1>8, <1>9

\* What ConnectionReadyShm::decode makes of the fields.
ReadyShmOf(f) ==
    IF IsSet(f) /\ f.fields[5].value.len > 0 /\ f.fields[6].value > 0
    THEN [kind |-> "ready_shm", slot_token |-> Token(f), ring_path |-> f.fields[5].value,
          ring_capacity |-> f.fields[6].value]
    ELSE Refused

\* It is the message: a ring has a name and a capacity.
LEMMA ReadyShmGiven ==
    ASSUME NEW r \in ReadyShms, NEW f, f = EncodeReadyShm(r)
    PROVE  /\ f.size \in Nat /\ f.size >= 2 /\ f.len = f.size /\ IsFrame(f)
           /\ Header(f.fields, 6) /\ f.fields[1].value = WIRE_VERSION
           /\ f.fields[2].value = READY_SHM_TAG
           /\ \A g : g.fields = f.fields => ReadyShmOf(g) = r
<1>1. /\ r.slot_token \in [slot_index : 0 .. UNSET_SLOT_INDEX - 1, generation : Nat]
      /\ r.ring_path.len \in Nat \ {0} /\ r.ring_capacity \in Nat \ {0}
  BY CodecAssumption, Zenon DEF ReadyShms
<1>2. /\ f.size \in Nat /\ f.size >= 2 /\ f.len = f.size /\ IsFrame(f)
      /\ Header(f.fields, 6) /\ f.fields[1].value = WIRE_VERSION
      /\ f.fields[2].value = READY_SHM_TAG
      /\ f.fields[3].value = r.slot_token.slot_index
      /\ f.fields[4].value = r.slot_token.generation
      /\ f.fields[5].value = r.ring_path /\ f.fields[6].value = r.ring_capacity
  BY <1>1, ReadyShmHeader, Zenon
<1>3. ASSUME NEW g, g.fields = f.fields
      PROVE  ReadyShmOf(g) = r
  <2>1. IsSet(g)
    BY <1>1, <1>2, <1>3 DEF IsSet, UNSET_SLOT_INDEX
  <2>2. Token(g) = r.slot_token
    BY <1>1, <1>2, <1>3, Zenon DEF Token
  <2>3. QED
    BY <1>1, <1>2, <1>3, <2>1, <2>2 DEF ReadyShmOf, ReadyShms
<1>4. QED
  BY <1>2, <1>3, Zenon

\* A ready message with a ring is decoded to itself.
LEMMA ReadyShmComesBack ==
    ASSUME NEW r \in ReadyShms, NEW f, f = EncodeReadyShm(r)
    PROVE  Server(f) = {r}
<1>1. /\ f.size \in Nat /\ f.size >= 2 /\ f.len = f.size /\ ReadyShmOf(f) = r
      /\ f.fields[1].value = WIRE_VERSION /\ f.fields[2].value = READY_SHM_TAG
  BY ReadyShmGiven, Zenon
<1>2. ensure_wire(f, READY_SHM_TAG) /\ wire_tag(f) = READY_SHM_TAG
  BY <1>1 DEF ensure_wire, wire_tag
<1>3. DecodeReadyShm(f) = Deserialize(f, READY_SHM_TAG, r)
  BY <1>1, Zenon DEF DecodeReadyShm, ReadyShmOf
<1>4. QED
  BY <1>1, <1>2, <1>3, Deserialized, ByTag

\* One that was spoilt is refused, unless it is whole and more bytes follow.
LEMMA SpoiltReadyShmRefused ==
    ASSUME NEW r \in ReadyShms, NEW f, f = EncodeReadyShm(r),
           NEW g, Altered(r, f, g) \/ Resized(f, g)
    PROVE  \A o \in Server(g) : o = Refused \/ (o = r /\ g.len > g.size)
<1>1. /\ f.size \in Nat /\ f.len = f.size /\ IsFrame(f) /\ Header(f.fields, 6)
      /\ f.fields[1].value = WIRE_VERSION /\ f.fields[2].value = READY_SHM_TAG
      /\ \A h : h.fields = f.fields => ReadyShmOf(h) = r
  BY ReadyShmGiven, Zenon
<1>2. CASE Resized(f, g)
  <2>1. /\ g.fields = f.fields /\ (wire_tag(g) = READY_SHM_TAG \/ wire_tag(g) = 0)
        /\ \A o \in Deserialize(g, READY_SHM_TAG, r) : o = Refused \/ (o = r /\ g.len > g.size)
    BY <1>1, <1>2, ResizedControl, Zenon
  <2>2. ReadyShmOf(g) = r
    BY <1>1, <2>1, Zenon
  <2>3. DecodeReadyShm(g) = Deserialize(g, READY_SHM_TAG, r)
    BY <2>2, Zenon DEF DecodeReadyShm, ReadyShmOf
  <2>4. QED
    BY <2>1, <2>3, ByTag
<1>3. CASE Altered(r, f, g)
  <2>1. FlagFields(r.kind) = {} /\ LengthFields(r.kind) = {}
    BY Zenon DEF FlagFields, LengthFields, ReadyShms
  <2>2. g.fields[1].value # WIRE_VERSION
    BY <1>1, <1>3, <2>1, OtherFirst
  <2>3. QED
    BY <2>2, OtherVersion
<1>4. QED
  BY <1>2, <1>3, Zenon

-----------------------------------------------------------------------------
(* Every message.                                                          *)

\* f is what may be written of u.
Encoding(u, f) ==
    \/ u \in AccountUpdates /\ \E w \in WirePayloads(u.payload) : f = EncodeAccount(u, w)
    \/ u \in TransactionUpdates /\ f = EncodeTransaction(u)
    \/ u \in SlotUpdates /\ f = EncodeSlot(u)
    \/ u \in SubscriptionRequests /\ f = EncodeSubscription(u)
    \/ u \in Readies("ping") /\ f = EncodePing(u)
    \/ u \in Readies("ready") /\ f = EncodeReady(u)
    \/ u \in ReadyShms /\ f = EncodeReadyShm(u)

\* What the side that u is meant for decodes.
Peer(u, f) == IF u.kind \in FromClient THEN Client(f) ELSE Server(f)

\* The kind of a message tells its type.
LEMMA Kinds ==
    /\ \A u \in AccountUpdates : u.kind = "account"
    /\ \A u \in TransactionUpdates : u.kind = "transaction"
    /\ \A u \in SlotUpdates : u.kind = "slot"
    /\ \A u \in SubscriptionRequests : u.kind = "subscription"
    /\ \A k : \A u \in Readies(k) : u.kind = k
    /\ \A u \in ReadyShms : u.kind = "ready_shm"
    /\ None.kind = "none" /\ Panic.kind = "panic"
BY Zenon DEF AccountUpdates, TransactionUpdates, SlotUpdates, SubscriptionRequests, Readies,
       ReadyShms, None, Panic

\* An encoding is decoded to the message it encodes.
LEMMA ComesBack ==
    ASSUME NEW u, NEW f, Encoding(u, f)
    PROVE  Peer(u, f) = {u} /\ u # None /\ u # Panic
<1>1. CASE u \in AccountUpdates /\ \E w \in WirePayloads(u.payload) : f = EncodeAccount(u, w)
  <2>1. u.kind = "account"
    BY <1>1, Kinds, Zenon
  <2>2. u # None /\ u # Panic /\ Peer(u, f) = Server(f)
    BY <2>1, Kinds, Zenon DEF Peer, FromClient
  <2>3. QED
    BY <1>1, <2>2, AccountComesBack, Zenon
<1>2. CASE u \in TransactionUpdates /\ f = EncodeTransaction(u)
  <2>1. u.kind = "transaction"
    BY <1>2, Kinds, Zenon
  <2>2. u # None /\ u # Panic /\ Peer(u, f) = Server(f)
    BY <2>1, Kinds, Zenon DEF Peer, FromClient
  <2>3. QED
    BY <1>2, <2>2, TransactionComesBack, Zenon
<1>3. CASE u \in SlotUpdates /\ f = EncodeSlot(u)
  <2>1. u.kind = "slot"
    BY <1>3, Kinds, Zenon
  <2>2. u # None /\ u # Panic /\ Peer(u, f) = Server(f)
    BY <2>1, Kinds, Zenon DEF Peer, FromClient
  <2>3. QED
    BY <1>3, <2>2, SlotComesBack, Zenon
<1>4. CASE u \in SubscriptionRequests /\ f = EncodeSubscription(u)
  <2>1. u.kind = "subscription"
    BY <1>4, Kinds, Zenon
  <2>2. u # None /\ u # Panic /\ Peer(u, f) = Client(f)
    BY <2>1, Kinds, Zenon DEF Peer, FromClient
  <2>3. QED
    BY <1>4, <2>2, SubscriptionComesBack, Zenon
<1>5. CASE u \in Readies("ping") /\ f = EncodePing(u)
  <2>1. u.kind = "ping"
    BY <1>5, Kinds, Zenon
  <2>2. u # None /\ u # Panic /\ Peer(u, f) = Client(f)
    BY <2>1, Kinds, Zenon DEF Peer, FromClient
  <2>3. QED
    BY <1>5, <2>2, PingComesBack, Zenon
<1>6. CASE u \in Readies("ready") /\ f = EncodeReady(u)
  <2>1. u.kind = "ready"
    BY <1>6, Kinds, Zenon
  <2>2. u # None /\ u # Panic /\ Peer(u, f) = Server(f)
    BY <2>1, Kinds, Zenon DEF Peer, FromClient
  <2>3. QED
    BY <1>6, <2>2, ReadyComesBack, Zenon
<1>7. CASE u \in ReadyShms /\ f = EncodeReadyShm(u)
  <2>1. u.kind = "ready_shm"
    BY <1>7, Kinds, Zenon
  <2>2. u # None /\ u # Panic /\ Peer(u, f) = Server(f)
    BY <2>1, Kinds, Zenon DEF Peer, FromClient
  <2>3. QED
    BY <1>7, <2>2, ReadyShmComesBack, Zenon
<1>8. QED
  BY <1>1, <1>2, <1>3, <1>4, <1>5, <1>6, <1>7, Zenon DEF Encoding

\* What may come of the bytes g of a message u that were spoilt.
Tolerated(u, g, o) ==
    \/ o = Refused
    \/ o = u /\ g.len > g.size /\ u.kind \notin {"account", "transaction", "slot"}

\* Nothing else comes of them.
LEMMA SpoiltIsRefused ==
    ASSUME NEW u, NEW f, Encoding(u, f), NEW g, Altered(u, f, g) \/ Resized(f, g)
    PROVE  \A o \in Peer(u, g) : Tolerated(u, g, o)
<1>1. CASE u \in AccountUpdates /\ \E w \in WirePayloads(u.payload) : f = EncodeAccount(u, w)
  <2>1. u.kind = "account"
    BY <1>1, Kinds, Zenon
  <2>2. Peer(u, g) = Server(g)
    BY <2>1, Zenon DEF Peer, FromClient
  <2>3. Server(g) = {Refused}
    BY <1>1, SpoiltAccountRefused, Zenon
  <2>4. QED
    BY <2>2, <2>3, Zenon DEF Tolerated
<1>2. CASE u \in TransactionUpdates /\ f = EncodeTransaction(u)
  <2>1. u.kind = "transaction"
    BY <1>2, Kinds, Zenon
  <2>2. Peer(u, g) = Server(g)
    BY <2>1, Zenon DEF Peer, FromClient
  <2>3. Server(g) = {Refused}
    BY <1>2, SpoiltTransactionRefused, Zenon
  <2>4. QED
    BY <2>2, <2>3, Zenon DEF Tolerated
<1>3. CASE u \in SlotUpdates /\ f = EncodeSlot(u)
  <2>1. u.kind = "slot"
    BY <1>3, Kinds, Zenon
  <2>2. Peer(u, g) = Server(g)
    BY <2>1, Zenon DEF Peer, FromClient
  <2>3. Server(g) = {Refused}
    BY <1>3, SpoiltSlotRefused, Zenon
  <2>4. QED
    BY <2>2, <2>3, Zenon DEF Tolerated
<1>4. CASE u \in SubscriptionRequests /\ f = EncodeSubscription(u)
  <2>1. u.kind = "subscription"
    BY <1>4, Kinds, Zenon
  <2>2. Peer(u, g) = Client(g)
    BY <2>1, Zenon DEF Peer, FromClient
  <2>3. \A o \in Client(g) : o = Refused \/ (o = u /\ g.len > g.size)
    BY <1>4, SpoiltSubscriptionRefused, Zenon
  <2>4. QED
    BY <2>1, <2>2, <2>3, Zenon DEF Tolerated
<1>5. CASE u \in Readies("ping") /\ f = EncodePing(u)
  <2>1. u.kind = "ping"
    BY <1>5, Kinds, Zenon
  <2>2. Peer(u, g) = Client(g)
    BY <2>1, Zenon DEF Peer, FromClient
  <2>3. \A o \in Client(g) : o = Refused \/ (o = u /\ g.len > g.size)
    BY <1>5, SpoiltPingRefused, Zenon
  <2>4. QED
    BY <2>1, <2>2, <2>3, Zenon DEF Tolerated
<1>6. CASE u \in Readies("ready") /\ f = EncodeReady(u)
  <2>1. u.kind = "ready"
    BY <1>6, Kinds, Zenon
  <2>2. Peer(u, g) = Server(g)
    BY <2>1, Zenon DEF Peer, FromClient
  <2>3. \A o \in Server(g) : o = Refused \/ (o = u /\ g.len > g.size)
    BY <1>6, SpoiltReadyRefused, Zenon
  <2>4. QED
    BY <2>1, <2>2, <2>3, Zenon DEF Tolerated
<1>7. CASE u \in ReadyShms /\ f = EncodeReadyShm(u)
  <2>1. u.kind = "ready_shm"
    BY <1>7, Kinds, Zenon
  <2>2. Peer(u, g) = Server(g)
    BY <2>1, Zenon DEF Peer, FromClient
  <2>3. \A o \in Server(g) : o = Refused \/ (o = u /\ g.len > g.size)
    BY <1>7, SpoiltReadyShmRefused, Zenon
  <2>4. QED
    BY <2>1, <2>2, <2>3, Zenon DEF Tolerated
<1>8. QED
  BY <1>1, <1>2, <1>3, <1>4, <1>5, <1>6, <1>7, Zenon DEF Encoding

\* The bytes at hand are an encoding of what was sent, or one that was spoilt.  The two
\* properties say nothing of the bytes, and are not inductive without this.
CodecInv ==
    /\ intact \in BOOLEAN
    /\ sent = None => intact /\ outcome = None
    /\ intact /\ sent # None => Encoding(sent, frame)
    /\ ~intact => \E f : Encoding(sent, f) /\ (Altered(sent, f, frame) \/ Resized(f, frame))
    /\ RoundTrip /\ DamageIsRefused

\* CodecInv holds before anything is sent.
LEMMA CodecInitInv == CodecInit => CodecInv
BY Zenon DEF CodecInit, CodecInv, RoundTrip, DamageIsRefused

\* Every step of the codec keeps CodecInv.
LEMMA CodecNextInv == CodecInv /\ [CodecNext]_codecVars => CodecInv'
<1> SUFFICES ASSUME CodecInv, [CodecNext]_codecVars
             PROVE  CodecInv'
  BY Zenon
<1>1. CASE Encode
  <2>1. sent = None /\ intact /\ outcome = None
    BY <1>1, Zenon DEF Encode, CodecInv
  <2>2. Encoding(sent', frame') /\ UNCHANGED <<intact, outcome>>
    BY <1>1, Zenon DEF Encode, Send, Encoding
  <2>3. sent' # None
    BY <2>2, ComesBack, Zenon
  <2>4. QED
    BY <2>1, <2>2, <2>3, Zenon DEF CodecInv, RoundTrip, DamageIsRefused
<1>2. ASSUME sent # None, intact, outcome = None, UNCHANGED <<sent, outcome>>, intact' = FALSE,
             Altered(sent, frame, frame') \/ Resized(frame, frame')
      PROVE  CodecInv'
  <2>1. Encoding(sent', frame)
    BY <1>2, Zenon DEF CodecInv
  <2>2. Altered(sent', frame, frame') \/ Resized(frame, frame')
    BY <1>2, Zenon
  <2>3. \E f : Encoding(sent', f) /\ (Altered(sent', f, frame') \/ Resized(f, frame'))
    BY <2>1, <2>2, Zenon
  <2>4. QED
    BY <1>2, <2>3, Zenon DEF CodecInv, RoundTrip, DamageIsRefused
<1>3. CASE Damage
  <2>1. Resized(frame, frame')
    BY <1>3, Zenon DEF Damage, Resized
  <2>2. QED
    BY <1>2, <1>3, <2>1, Zenon DEF Damage
<1>4. CASE Alter
  <2>1. \A v \in Others : v \in Nat
    BY CodecAssumption, Zenon
  <2>2. Altered(sent, frame, frame')
    BY <1>4, <2>1, Zenon DEF Alter, Altered, Refilled
  <2>3. QED
    BY <1>2, <1>4, <2>2, Zenon DEF Alter
<1>5. CASE DecodeByPeer
  <2>1. /\ sent # None /\ outcome = None /\ UNCHANGED <<sent, frame, intact>>
        /\ outcome' \in Peer(sent, frame)
    BY <1>5, Zenon DEF DecodeByPeer, Decode, Peer, Client, Server
  <2>2. CASE intact
    <3>1. Peer(sent, frame) = {sent}
      BY <2>1, <2>2, ComesBack, Zenon DEF CodecInv
    <3>2. outcome' = sent
      BY <2>1, <3>1, Zenon
    <3>3. QED
      BY <2>1, <2>2, <3>2, Zenon DEF CodecInv, RoundTrip, DamageIsRefused
  <2>3. CASE ~intact
    <3>1. PICK f : Encoding(sent, f) /\ (Altered(sent, f, frame) \/ Resized(f, frame))
      BY <2>3, Zenon DEF CodecInv
    <3>2. Tolerated(sent, frame, outcome')
      BY <2>1, <3>1, SpoiltIsRefused, Zenon
    <3>3. DamageIsRefused'
      BY <2>1, <3>2, Zenon DEF DamageIsRefused, Tolerated
    <3>4. QED
      BY <2>1, <2>3, <3>1, <3>3, Zenon DEF CodecInv, RoundTrip
  <2>4. QED
    BY <2>2, <2>3, Zenon DEF CodecInv
<1>6. CASE UNCHANGED codecVars
  BY <1>6, Zenon DEF codecVars, CodecInv, RoundTrip, DamageIsRefused
<1>7. QED
  BY <1>1, <1>3, <1>4, <1>5, <1>6, Zenon DEF CodecNext

\* CodecInv holds of every behaviour.
THEOREM CodecInvariant == CodecSpec => []CodecInv
<1>1. QED
  BY CodecInitInv, CodecNextInv, PTL DEF CodecSpec

\* Whatever an encoder of types.rs writes, compressed or not, the decoder of the other
\* side returns exactly the message, for any values of the fields, payloads and keys.
THEOREM MessagesRoundTrip == CodecSpec => []RoundTrip
<1>1. CodecInv => RoundTrip
  BY Zenon DEF CodecInv
<1>2. QED
  BY <1>1, CodecInvariant, PTL

\* Bytes cut or lengthened to any length, of another version, or with any other value
\* in a flag or a length are refused; only wincode may overlook bytes that follow a whole
\* control message, which then is the one that was sent.
THEOREM SpoiltMessagesRefused == CodecSpec => []DamageIsRefused
<1>1. CodecInv => DamageIsRefused
  BY Zenon DEF CodecInv
<1>2. QED
  BY <1>1, CodecInvariant, PTL

\* decode_owned_with_meta slices the payload by a length from the header; with the
\* lengths that parse admits, the slice is never past the end of the bytes.
THEOREM DecodersNeverPanic == CodecSpec => [](outcome # Panic)
<1>1. ASSUME CodecInv
      PROVE  outcome # Panic
  <2>1. None # Panic /\ Refused # Panic
    BY Zenon DEF None, Refused, Panic
  <2>2. sent # None => sent # Panic
    BY <1>1, ComesBack, Zenon DEF CodecInv
  <2>3. outcome \in {None, Refused, sent}
    BY <1>1, Zenon DEF CodecInv, RoundTrip, DamageIsRefused
  <2>4. QED
    BY <2>1, <2>2, <2>3, Zenon
<1>2. QED
  BY <1>1, CodecInvariant, PTL

=============================================================================
