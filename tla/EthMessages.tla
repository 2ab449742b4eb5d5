------------------------------ MODULE EthMessages ------------------------------
(* The messages of the eth protocol (src/src/eth/messages.cpp) and of the p2p  *)
(* base protocol (src/src/rlpx/protocol/messages.cpp): encode(kind, m) is what *)
(* the encoder of the kind writes, decode(kind, v) what its decoder reads.     *)
EXTENDS EthObjects

ForkId == Struct(<<Fixed(4), Uint(8)>>)

--------------------------------------------------------------------------------
(* Status: the fields a schema names, in its order. A schema is given with its *)
(* protocol version (a sequence of at most one) and its fields.                *)

Field(name, type, offset) == [name |-> name, type |-> type, offset |-> offset]

LegacyFields == << Field("protocol_version", Uint(1), 0), Field("network_id", Uint(8), 1),
                   Field("td", Uint(32), 2), Field("block_hash", Hash256, 3),
                   Field("genesis_hash", Hash256, 4), Field("fork_id", ForkId, 5) >>

Fields69     == << Field("protocol_version", Uint(1), 0), Field("network_id", Uint(8), 1),
                   Field("genesis_hash", Hash256, 2), Field("fork_id", ForkId, 3),
                   Field("earliest_block", Uint(8), 4), Field("latest_block", Uint(8), 5),
                   Field("latest_block_hash", Hash256, 6) >>

default_status_schemas == << [version |-> <<69>>, fields |-> Fields69],
                             [version |-> <<68>>, fields |-> LegacyFields],
                             [version |-> <<67>>, fields |-> LegacyFields],
                             [version |-> <<66>>, fields |-> LegacyFields] >>

(* encode_status: m.fields are those of StatusMessage69 or of StatusMessage68. *)
encode_status(m) ==
    LET fs == IF m.layout = 69 THEN Fields69 ELSE LegacyFields
    IN  ListBytes(PutAll([i \in DOMAIN fs |-> fs[i].type], m.fields, Len(fs)))

(* The list must be all of the input and end with the schema's last field.     *)
decode_status_fields_with_schema(v, schema) ==
    LET names == [i \in DOMAIN schema.fields |-> schema.fields[i].name]
        types == [i \in DOMAIN schema.fields |-> schema.fields[i].type]
    IN  Then(ReadListHeader(v), LAMBDA l :
            IF Len(l.rest) # l.out THEN Failed("kInputTooLong", v)
            ELSE IF \E i \in DOMAIN names : schema.fields[i].offset # i - 1
                 THEN Failed("kListLengthMismatch", v)
            ELSE Then(GetAll(l.rest, types), LAMBDA r :
                 IF r.rest # <<>> THEN Failed("kInputTooLong", v)
                 ELSE IF schema.version # <<>> /\
                         ~ \E i \in DOMAIN names : /\ names[i] = "protocol_version"
                                                   /\ r.out[i] = schema.version[1]
                      THEN Failed("kUnexpectedString", v)
                 ELSE Read([i \in DOMAIN names |-> <<names[i], r.out[i]>>], <<>>)))

Has(fs, names) == \A n \in names : \E i \in DOMAIN fs : fs[i][1] = n
Val(fs, name)  == fs[CHOOSE i \in DOMAIN fs : fs[i][1] = name][2]
Vals(fs, names) == [i \in DOMAIN names |-> Val(fs, names[i])]

(* A status of version 69 in the legacy layout keeps only its block hash.      *)
make_status_message_from_fields(fs) ==
    LET common == {"protocol_version", "network_id", "genesis_hash", "fork_id"}
        range  == {"earliest_block", "latest_block", "latest_block_hash"}
        Ok(layout, xs) == Read([layout |-> layout, fields |-> xs], <<>>)
    IN  IF ~Has(fs, common) THEN Failed("kInputTooShort", <<>>)
        ELSE IF Val(fs, "protocol_version") = 69 THEN
             IF Has(fs, range)
             THEN Ok(69, Vals(fs, [i \in DOMAIN Fields69 |-> Fields69[i].name]))
             ELSE IF Has(fs, {"block_hash"})
             THEN Ok(69, Vals(fs, <<"protocol_version", "network_id", "genesis_hash", "fork_id">>)
                         \o <<0, 0, Val(fs, "block_hash")>>)
             ELSE Failed("kInputTooShort", <<>>)
        ELSE IF Val(fs, "protocol_version") \in 66..68 THEN
             IF Has(fs, {"td", "block_hash"})
             THEN Ok(68, Vals(fs, [i \in DOMAIN LegacyFields |-> LegacyFields[i].name]))
             ELSE Failed("kInputTooShort", <<>>)
        ELSE Failed("kUnexpectedString", <<>>)

(* The first schema under which the input is a status message decides.         *)
RECURSIVE decode_status(_, _)
decode_status(v, schemas) ==
    IF schemas = <<>> THEN Failed("kUnexpectedString", v)
    ELSE LET m == Then(decode_status_fields_with_schema(v, Head(schemas)),
                       LAMBDA fs : make_status_message_from_fields(fs.out))
         IN  IF m.err = "" \/ Len(schemas) = 1 THEN m ELSE decode_status(v, Tail(schemas))

--------------------------------------------------------------------------------
(* The payloads of the other messages. A kind in Requests is wrapped with a    *)
(* request id when it has one.                                                 *)

HashList          == ListOf(Hash256)
SizeList          == ListOf(Uint(4))
HeaderList        == ListOf(Item(Header))
ReceiptLists      == ListOf(ListOf(Item(Receipt)))
RawTransactions   == ListOf(RawItem)
TransactionList   == ListOf(Transaction)
BlockBody         == Longer(<<TransactionList, HeaderList>>)
BlockBodyList     == ListOf(BlockBody)
BlockHash         == Lax(<<Hash256, Uint(8)>>)
BlockRange        == Struct(<<Uint(8), Uint(8), Hash256>>)
Upgrade           == Longer(<<Flag>>)
NewBlock          == Longer(<< Longer(<<Item(Header), TransactionList, HeaderList>>), Uint(32) >>)

Requests == {"GetReceipts", "GetPooledTransactions", "GetBlockBodies", "BlockHeaders",
             "Receipts", "PooledTransactions", "BlockBodies"}

WithId(id, payload) ==
    IF id = <<>> THEN payload ELSE ListBytes(EncodeIntegral(id[1]) \o payload)

(* A mutant: any leading integer is taken for a request id.                    *)
consume_request_id_unprobed(v) ==
    LET r == ReadIntegral(v, 8)
    IN  IF r.err = "" THEN Read(<<r.out>>, r.rest) ELSE Read(<<>>, v)

(* An integer followed by a list is a request id.                              *)
RequestId(v, r, next) ==
    IF r.err = "" /\ next.err = "" /\ next.list THEN Read(<<r.out>>, r.rest) ELSE Read(<<>>, v)
consume_eth66_request_id(v) ==
    LET r == ReadIntegral(v, 8) IN RequestId(v, r, PeekHeader(r.rest))

(* After the header of a message's list.                                       *)
IdAfter(l) == IF l.err # "" THEN l ELSE consume_eth66_request_id(l.rest)

(* A mutant: what follows the payload is left unread.                          *)
WholeOrNot(r) == r

Whole(r) == IF r.err = "" /\ r.rest # <<>> THEN Failed("kInputTooLong", r.rest) ELSE r

WithBody(id, r) ==
    IF id.err # "" THEN id
    ELSE IF r.err # "" THEN r ELSE Whole(Read([id |-> id.out, body |-> r.out], r.rest))

RequestIn(id, payload) == WithBody(id, Get(payload, id.rest))

decode_request(v, payload) == RequestIn(IdAfter(ReadListHeader(v)), payload)

encode_get_receipts(m)         == WithId(m.id, Put(HashList, m.body))
decode_get_receipts(v)         == decode_request(v, HashList)
encode_get_pooled_transactions(m) == WithId(m.id, Put(HashList, m.body))
decode_get_pooled_transactions(v) == decode_request(v, HashList)
encode_get_block_bodies(m)     == WithId(m.id, Put(HashList, m.body))
decode_get_block_bodies(v)     == decode_request(v, HashList)
encode_block_headers(m)        == WithId(m.id, Put(HeaderList, m.body))
decode_block_headers(v)        == decode_request(v, HeaderList)
encode_receipts(m)             == WithId(m.id, Put(ReceiptLists, m.body))
decode_receipts(v)             == decode_request(v, ReceiptLists)
encode_pooled_transactions(m)  == WithId(m.id, Put(RawTransactions, m.body))
decode_pooled_transactions(v)  == decode_request(v, RawTransactions)
encode_block_bodies(m)         == WithId(m.id, Put(BlockBodyList, m.body))
decode_block_bodies(v)         == decode_request(v, BlockBodyList)

(* GetBlockHeaders: its fields are wrapped once more with a request id, and    *)
(* not without. Where it starts is a hash or a number.                         *)
StartField(s) == IF s.hash # <<>> THEN EncodeBytes(s.hash[1])
                 ELSE IF s.number # <<>> THEN EncodeIntegral(s.number[1]) ELSE <<>>

encode_get_block_headers(m) ==
    WithId(m.id, ListBytes(StartField(m.body.start) \o EncodeIntegral(m.body.max_headers)
                           \o EncodeIntegral(m.body.skip) \o EncodeBool(m.body.reverse)))

StartOf(v, h) == OfString(v, h, IF h.payload = 32 THEN ReadArray(v, 32) ELSE ReadIntegral(v, 8))

HeadersRequest(byHash, s, r) ==
    IF s.err # "" THEN s ELSE IF r.err # "" THEN r
    ELSE Read([start       |-> [hash   |-> IF byHash THEN <<s.out>> ELSE <<>>,
                                number |-> IF byHash THEN <<>> ELSE <<s.out>>],
               max_headers |-> r.out[1], skip |-> r.out[2], reverse |-> r.out[3]], r.rest)

StartedAt(byHash, s) == HeadersRequest(byHash, s, GetAll(s.rest, <<Uint(8), Uint(8), Flag>>))
HeadersFrom(v, h) == StartedAt(h.payload = 32, StartOf(v, h))
decode_get_block_headers_payload(v) == HeadersFrom(v, PeekHeader(v))

HeadersIn(id, p) ==
    IF p.err # "" THEN p ELSE WithBody(id, decode_get_block_headers_payload(p.rest))
PayloadAfter(id) == IF id.err # "" \/ id.out = <<>> THEN id ELSE ReadListHeader(id.rest)
InHeaders(id) == HeadersIn(id, PayloadAfter(id))
decode_get_block_headers(v) == InHeaders(IdAfter(ReadListHeader(v)))

(* NewPooledTransactionHashes: types, sizes and hashes, or hashes alone.       *)
(* Sequences of unequal lengths are not encoded.                               *)
encode_new_pooled_tx_hashes(m) ==
    IF {Len(m.types), Len(m.sizes)} # {Len(m.hashes)} THEN <<>>
    ELSE ListBytes(EncodeBytes(m.types) \o Put(SizeList, m.sizes)
                   \o Put(HashList, m.hashes))

Pooled(types, sizes, hashes) == [types |-> types, sizes |-> sizes, hashes |-> hashes]

(* A mutant: the lengths are not compared.                                     *)
CheckedAny(m, rest) == Read(m, rest)

Checked(m, rest) ==
    IF {Len(m.types), Len(m.sizes)} # {Len(m.hashes)} THEN Failed("kUnexpectedLength", rest)
    ELSE Read(m, rest)

Announced(types, sizes, hashes, rest) ==
    IF types.err # "" THEN types
    ELSE IF sizes.err # "" THEN sizes
    ELSE IF hashes.err # "" THEN hashes
    ELSE Checked(Pooled(types.out, sizes.out, hashes.out), rest)

OnlyHashes(v, hashes, rest) ==
    IF \E i \in DOMAIN hashes : Whole(hashes[i]).err # "" THEN Failed("kUnexpectedLength", v)
    ELSE Read(Pooled(<<>>, <<>>, [i \in DOMAIN hashes |-> hashes[i].out]), rest)

PooledOf(v, r) ==
    LET IsListAt(i) == PeekHeader(r.out[i]).list
    IN  IF r.err # "" THEN r
        ELSE IF Len(r.out) = 3 /\ IsListAt(2) /\ IsListAt(3)
        THEN Announced(Whole(ReadBytes(r.out[1])), Get(SizeList, r.out[2]), Get(HashList, r.out[3]), r.rest)
        ELSE OnlyHashes(v, [i \in DOMAIN r.out |-> ReadArray(r.out[i], 32)], r.rest)

decode_new_pooled_tx_hashes(v) == PooledOf(v, Get(ListOf(RawItem), v))

(* NewBlockHashes: the entries run to the end of the input.                    *)
EntriesAfter(l) == IF l.err # "" THEN l ELSE GetWhile(BlockHash, l.rest, 0)
decode_new_block_hashes(v) == EntriesAfter(ReadListHeader(v))

encode_new_block_hashes(m)   == Put(ListOf(BlockHash), m)
encode_block_range_update(m) == Put(BlockRange, m)
decode_block_range_update(v) == Get(BlockRange, v)
encode_upgrade_status(m)     == Put(Upgrade, m)
decode_upgrade_status(v)     == Get(Upgrade, v)
encode_new_block(m)          == Put(NewBlock, m)
decode_new_block(v)          == Whole(Get(NewBlock, v))

(* eth/70 envelopes: the field between id and payload is read and dropped.     *)
EnvelopeOf(r) ==
    IF r.err # "" THEN r ELSE Whole(Read([id |-> <<r.out[1]>>, body |-> r.out[3]], r.rest))
decode_envelope70(v, extra, payload) ==
    EnvelopeOf(Fields(<<Uint(8), extra, payload>>, ReadListHeader(v)))

decode_get_receipts_70(v) == decode_envelope70(v, Uint(8), HashList)
decode_receipts_70(v)     == decode_envelope70(v, Flag, ReceiptLists)

--------------------------------------------------------------------------------
(* p2p: Hello, Disconnect, Ping and Pong                                       *)

encode_hello(m) ==
    ListBytes(EncodeIntegral(m.version) \o EncodeBytes(m.client)
              \o Put(ListOf(Struct(<<Blob, Uint(1)>>)), m.caps)
              \o EncodeIntegral(m.port) \o EncodeBytes(m.node_id))

FirstByte(bs) == IF bs = <<>> THEN 0 ELSE bs[1]

(* Capabilities are read while the next item is a list. One whose name or      *)
(* version cannot be read is passed over from where the read stopped.          *)
RECURSIVE ReadCaps(_, _)
ReadCaps(v, got) ==
    LET l    == ReadListHeader(v)
        name == ReadBytes(l.rest)
        ver  == ReadBytes(name.rest)
    IN  IF ~IsList(v) \/ l.err # "" THEN Read(got, v)
        ELSE IF name.err # "" THEN ReadCaps(name.rest, got)
        ELSE IF ver.err # "" THEN ReadCaps(ver.rest, got)
        ELSE ReadCaps(ver.rest, Append(got, <<name.out, FirstByte(ver.out)>>))

CapsIn(l) == IF l.err # "" THEN l ELSE ReadCaps(l.rest, <<>>)

HelloOf(v, first, caps, last) ==
    IF first.err # "" THEN first ELSE IF caps.err # "" THEN caps
    ELSE IF last.err # "" THEN last
    ELSE IF Len(last.out[2]) # 64 THEN Failed("kInvalidMessage", v)
    ELSE Read([version |-> FirstByte(first.out[1]), client |-> first.out[2], caps |-> caps.out,
               port |-> last.out[1], node_id |-> last.out[2]], last.rest)

HelloRest(v, first, caps) == HelloOf(v, first, caps, GetAll(caps.rest, <<Uint(2), Blob>>))

decode_hello(v) ==
    LET first == Fields(<<Blob, Blob>>, ReadListHeader(v))
    IN  HelloRest(v, first, CapsIn(ReadListHeader(first.rest)))

(* A disconnect is never refused; what cannot be read as a reason is reason 0. *)
decode_disconnect(v) ==
    IF v = <<>> THEN Read(0, v)
    ELSE LET l == ReadListHeader(v)
             r == ReadBytes(l.rest)
         IN  IF l.err # "" THEN Read(v[1], v)
             ELSE IF l.out = 0 \/ r.err # "" THEN Read(0, v)
             ELSE Read(FirstByte(r.out), v)

--------------------------------------------------------------------------------
encode_disconnect(m) == ListBytes(EncodeIntegral(m))
encode_ping(m)       == ListBytes(<<>>)
decode_ping(v)       == Read(<<>>, v)

encode(kind, m) ==
    CASE kind = "Status"                     -> encode_status(m)
      [] kind = "GetReceipts"                -> encode_get_receipts(m)
      [] kind = "GetPooledTransactions"      -> encode_get_pooled_transactions(m)
      [] kind = "GetBlockBodies"             -> encode_get_block_bodies(m)
      [] kind = "BlockHeaders"               -> encode_block_headers(m)
      [] kind = "Receipts"                   -> encode_receipts(m)
      [] kind = "PooledTransactions"         -> encode_pooled_transactions(m)
      [] kind = "BlockBodies"                -> encode_block_bodies(m)
      [] kind = "GetBlockHeaders"            -> encode_get_block_headers(m)
      [] kind = "NewPooledTransactionHashes" -> encode_new_pooled_tx_hashes(m)
      [] kind = "NewBlockHashes"             -> encode_new_block_hashes(m)
      [] kind = "BlockRangeUpdate"           -> encode_block_range_update(m)
      [] kind = "UpgradeStatus"              -> encode_upgrade_status(m)
      [] kind = "NewBlock"                   -> encode_new_block(m)
      [] kind = "Hello"                      -> encode_hello(m)
      [] kind = "Disconnect"                 -> encode_disconnect(m)
      [] kind = "Ping"                       -> encode_ping(m)

decode(kind, v) ==
    CASE kind = "Status"                     -> decode_status(v, default_status_schemas)
      [] kind = "GetReceipts"                -> decode_get_receipts(v)
      [] kind = "GetPooledTransactions"      -> decode_get_pooled_transactions(v)
      [] kind = "GetBlockBodies"             -> decode_get_block_bodies(v)
      [] kind = "BlockHeaders"               -> decode_block_headers(v)
      [] kind = "Receipts"                   -> decode_receipts(v)
      [] kind = "PooledTransactions"         -> decode_pooled_transactions(v)
      [] kind = "BlockBodies"                -> decode_block_bodies(v)
      [] kind = "GetBlockHeaders"            -> decode_get_block_headers(v)
      [] kind = "NewPooledTransactionHashes" -> decode_new_pooled_tx_hashes(v)
      [] kind = "NewBlockHashes"             -> decode_new_block_hashes(v)
      [] kind = "BlockRangeUpdate"           -> decode_block_range_update(v)
      [] kind = "UpgradeStatus"              -> decode_upgrade_status(v)
      [] kind = "NewBlock"                   -> decode_new_block(v)
      [] kind = "Hello"                      -> decode_hello(v)
      [] kind = "Disconnect"                 -> decode_disconnect(v)
      [] kind = "Ping"                       -> decode_ping(v)

================================================================================
