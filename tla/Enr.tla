----------------------------------- MODULE Enr -----------------------------------
(* Ethereum node records (src/src/discv5/discv5_enr.cpp). Signing is ideal: a  *)
(* signature verifies for the content and the key it was made with and for no  *)
(* others. Addresses stay bytes (their text form is one to one), and a node id *)
(* is its compressed key. decode_rlp is not given a list that ends inside its  *)
(* own signature.                                                              *)
EXTENDS EthObjects

kEnrMaxBytes        == 300
kEnrSigBytes        == 64
kCompressedKeyBytes == 33
kIPv4Bytes          == 4
kIPv6Bytes          == 16
kMaxPortBytes       == 2
kForkHashBytes      == 4
kDefaultUdpPort     == 9000
kDefaultTcpPort     == 30303

kEnrPrefix == <<101, 110, 114, 58>>    \* "enr:"

(* The names of the pairs, in ASCII.                                           *)
kId   == <<105, 100>>
kKey  == <<115, 101, 99, 112, 50, 53, 54, 107, 49>>
kIp   == <<105, 112>>
kIp6  == <<105, 112, 54>>
kTcp  == <<116, 99, 112>>
kTcp6 == <<116, 99, 112, 54>>
kUdp  == <<117, 100, 112>>
kUdp6 == <<117, 100, 112, 54>>
kEth  == <<101, 116, 104>>

NoKey == [i \in 1..kCompressedKeyBytes |-> 0]

EmptyRecord == [seq |-> 0, id |-> <<>>, key |-> NoKey, ip |-> <<>>, ip6 |-> <<>>, tcp |-> 0,
                udp |-> 0, tcp6 |-> 0, udp6 |-> 0, eth |-> <<>>, extra |-> <<>>]

--------------------------------------------------------------------------------
(* The text form                                                               *)

kBase64Invalid == 255

kBase64UrlTable(c) ==
    CASE c \in 65..90  -> c - 65        \* A-Z
      [] c \in 97..122 -> c - 71        \* a-z
      [] c \in 48..57  -> c + 4         \* 0-9
      [] c = 45        -> 62            \* -
      [] c = 95        -> 63            \* _
      [] OTHER         -> kBase64Invalid

(* Byte j of the text's six-bit groups: it lies in two of them.                *)
Base64Byte(group, j) ==
    LET bit == 8 * (j - 1)
        i   == (bit \div 6) + 1
    IN  ((64 * group[i] + group[i + 1]) \div 2^(4 - (bit % 6))) % 256

base64url_decode(body) ==
    LET ends  == {n \in DOMAIN body : body[n] # 61}     \* trailing = are dropped
        len   == IF ends = {} THEN 0 ELSE CHOOSE n \in ends : \A k \in ends : k <= n
        group == [i \in 1..len |-> kBase64UrlTable(body[i])]
    IN  IF \E i \in 1..len : group[i] = kBase64Invalid
        THEN Failed("kEnrBase64DecodeFailed", body)
        ELSE Read([j \in 1..((6 * len) \div 8) |-> Base64Byte(group, j)], <<>>)

decode_uri(uri) ==
    IF ~IsPrefix(kEnrPrefix, uri) THEN Failed("kEnrMissingPrefix", uri)
    ELSE base64url_decode(Drop(uri, Len(kEnrPrefix)))

--------------------------------------------------------------------------------
(* The record                                                                  *)

ValueOf(v, h) ==
    IF h.err # "" THEN Failed(h.err, v)
    ELSE IF h.list THEN consume_next_item(v) ELSE ReadBytes(v)
read_enr_value(v) == ValueOf(v, PeekHeader(v))

decode_port(bs) == IF Len(bs) \in 1..kMaxPortBytes THEN BigEndian(bs) ELSE 0

(* A list inside a list.                                                       *)
EnterList(v) == IF IsList(v) THEN ReadListHeader(v) ELSE Failed("kUnexpectedString", v)
EnterNext(l) == IF l.err # "" THEN l ELSE EnterList(l.rest)
EnterLists(v) == EnterNext(EnterList(v))

ForkOf(r) ==
    IF r.err # "" THEN r
    ELSE IF Len(r.out[1]) # kForkHashBytes THEN Failed("kEnrInvalidEthEntry", r.rest)
    ELSE Read([hash |-> r.out[1], next |-> r.out[2]], r.rest)

decode_eth_entry(bs) == ForkOf(Fields(<<Blob, Uint(8)>>, EnterLists(bs)))

(* A port of value zero, or of the wrong size, is left as it was.              *)
PortOr(old, bs) == IF decode_port(bs) # 0 THEN decode_port(bs) ELSE old
OfSize(old, bs, n) == IF Len(bs) = n THEN bs ELSE old

(* What one pair does to the record: values that do not decode are ignored.    *)
WithPair(r, key, val) ==
    CASE key = kId   -> [r EXCEPT !.id = val]
      [] key = kKey  -> [r EXCEPT !.key = OfSize(@, val, kCompressedKeyBytes)]
      [] key = kIp   -> [r EXCEPT !.ip = OfSize(@, val, kIPv4Bytes)]
      [] key = kIp6  -> [r EXCEPT !.ip6 = OfSize(@, val, kIPv6Bytes)]
      [] key = kTcp  -> [r EXCEPT !.tcp = PortOr(@, val)]
      [] key = kUdp  -> [r EXCEPT !.udp = PortOr(@, val)]
      [] key = kTcp6 -> [r EXCEPT !.tcp6 = PortOr(@, val)]
      [] key = kUdp6 -> [r EXCEPT !.udp6 = PortOr(@, val)]
      [] key = kEth  -> LET fork == decode_eth_entry(val)
                        IN  IF fork.err = "" THEN [r EXCEPT !.eth = <<fork.out>>] ELSE r
      [] OTHER       -> [r EXCEPT !.extra = Append(SelectSeq(@, LAMBDA p : p[1] # key), <<key, val>>)]

(* The pairs up to the end of the input, or to the first unreadable one.       *)
RECURSIVE ReadPairs(_, _), ReadPair(_, _, _)
ReadPair(r, key, val) ==
    IF key.err # "" \/ val.err # "" THEN r
    ELSE ReadPairs(WithPair(r, key.out, val.out), val.rest)
ReadPairs(r, v) ==
    LET key == ReadBytes(v)
    IN  IF v = <<>> THEN r ELSE ReadPair(r, key, read_enr_value(key.rest))

(* The record, its signature and the bytes that are signed: everything in the  *)
(* list after the signature, wrapped as a list again.                          *)
WithKey(raw, record, sig, content) ==
    IF record.key = NoKey THEN Failed("kEnrMissingSecp256k1Key", raw)
    ELSE Read([record |-> record, sig |-> sig, content |-> ListBytes(content)], <<>>)

RecordOf(raw, list, sig, seq) ==
    CASE sig.err # ""                  -> sig
      [] sig.err = "" /\ Len(sig.out) # kEnrSigBytes -> Failed("kEnrSignatureWrongSize", raw)
      [] OTHER -> IF seq.err # "" THEN seq
                  ELSE WithKey(raw, ReadPairs([EmptyRecord EXCEPT !.seq = seq.out], seq.rest), sig.out,
                               SubSeq(sig.rest, 1, list.out - (Len(list.rest) - Len(sig.rest))))

RecordIn(raw, list) ==
    LET sig == IF list.err # "" THEN list ELSE ReadBytes(list.rest)
    IN  RecordOf(raw, list, sig, ReadIntegral(sig.rest, 8))

decode_rlp(raw) ==
    IF IsList(raw) THEN RecordIn(raw, ReadListHeader(raw)) ELSE Failed("kEnrRlpDecodeFailed", raw)

(* signed is the one signature there is: [sig, content, key].                  *)
verify_signature(r, signed) ==
    IF [sig |-> r.sig, content |-> r.content, key |-> r.record.key] = signed THEN Read(r.record, <<>>)
    ELSE Failed("kEnrSignatureInvalid", <<>>)


parse(uri, signed) ==
    Then(decode_uri(uri), LAMBDA raw :
        IF Len(raw.out) > kEnrMaxBytes THEN Failed("kEnrTooLarge", uri)
        ELSE Then(decode_rlp(raw.out), LAMBDA r : verify_signature(r.out, signed)))

(* IPv4 is preferred, a missing port has its default.                          *)
to_validated_peer(r) ==
    LET PortIn(port, default) == IF port # 0 THEN port ELSE default
        peer(ip, udp, tcp) == [id |-> r.key, ip |-> ip, udp |-> PortIn(udp, kDefaultUdpPort),
                               tcp |-> PortIn(tcp, kDefaultTcpPort), eth |-> r.eth]
    IN  IF r.ip = <<>> /\ r.ip6 = <<>> THEN Failed("kEnrMissingAddress", <<>>)
        ELSE Read(IF r.ip # <<>> THEN peer(r.ip, r.udp, r.tcp) ELSE peer(r.ip6, r.udp6, r.tcp6), <<>>)

--------------------------------------------------------------------------------
(* What a node publishes (written by other programs): its pairs in the order   *)
(* of their names, the absent ones left out.                                   *)

Pair(key, present, item) == IF present THEN EncodeBytes(key) \o item ELSE <<>>

SignedContent(r) ==
    EncodeIntegral(r.seq)
    \o Pair(kEth, r.eth # <<>>, IF r.eth = <<>> THEN <<>> ELSE
              ListBytes(ListBytes(EncodeBytes(r.eth[1].hash) \o EncodeIntegral(r.eth[1].next))))
    \o Pair(kId, r.id # <<>>, EncodeBytes(r.id))
    \o Pair(kIp, r.ip # <<>>, EncodeBytes(r.ip))
    \o Pair(kIp6, r.ip6 # <<>>, EncodeBytes(r.ip6))
    \o Pair(kKey, TRUE, EncodeBytes(r.key))
    \o Pair(kTcp, r.tcp # 0, EncodeIntegral(r.tcp))
    \o Pair(kTcp6, r.tcp6 # 0, EncodeIntegral(r.tcp6))
    \o Pair(kUdp, r.udp # 0, EncodeIntegral(r.udp))
    \o Pair(kUdp6, r.udp6 # 0, EncodeIntegral(r.udp6))
    \o FlattenSeq([i \in DOMAIN r.extra |-> EncodeBytes(r.extra[i][1]) \o EncodeBytes(r.extra[i][2])])

ASignature == [i \in 1..kEnrSigBytes |-> 77]
SignedAs(r) == [sig |-> ASignature, content |-> ListBytes(SignedContent(r)), key |-> r.key]
RecordBytes(r) == ListBytes(EncodeBytes(ASignature) \o SignedContent(r))

Base64Char(x) ==
    CASE x \in 0..25  -> x + 65 [] x \in 26..51 -> x + 71 [] x \in 52..61 -> x - 4
      [] x = 62 -> 45 [] x = 63 -> 95

Base64(bs) ==
    LET byte(i) == IF i <= Len(bs) THEN bs[i] ELSE 0
        group(i) == LET bit == 6 * (i - 1)
                        a   == (bit \div 8) + 1
                    IN  ((256 * byte(a) + byte(a + 1)) \div 2^(10 - (bit % 8))) % 64
    IN  [i \in 1..((8 * Len(bs) + 5) \div 6) |-> Base64Char(group(i))]

Uri(r) == kEnrPrefix \o Base64(RecordBytes(r))
==================================================================================
