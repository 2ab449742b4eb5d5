----------------------------- MODULE Discv5Messages -----------------------------
(* The packets and messages of discovery v5, as the client writes and reads     *)
(* them (src/src/discv5/discv5_client.cpp). Masking and encryption are left     *)
(* out: a byte changed under the mask is the same byte changed without it.      *)
EXTENDS Enr

kProtocolId              == <<100, 105, 115, 99, 118, 53>>    \* "discv5"
kProtocolVersion5        == <<0, 1>>
kMaskingIvBytes          == 16
kGcmNonceBytes           == 12
kStaticPacketBytes       == 39
kKeccak256Bytes          == 32
kHandshakeAuthFixedBytes == 34
kMsgFindNode             == 3
kMsgNodes                == 4
kFindNodeDistanceAll     == 256
kInitialEnrSeq           == 1
kIdentitySchemeV4        == <<118, 52>>                       \* "v4"

AnIv == [i \in 1..kMaskingIvBytes |-> 33]
U16(n) == <<n \div 256, n % 256>>

(* The part of v from byte i on, n bytes long.                                  *)
Part(v, i, n) == SubSeq(v, i + 1, i + n)

--------------------------------------------------------------------------------
(* Packets                                                                      *)

encode_packet(p) ==
    AnIv \o kProtocolId \o kProtocolVersion5 \o <<p.flag>> \o p.nonce
    \o U16(Len(p.auth)) \o p.auth \o p.msg

(* A later version is read as this one.                                         *)
decode_packet(v) ==
    IF Len(v) < kStaticPacketBytes THEN Failed("kNetworkReceiveFailed", v)
    ELSE IF Part(v, 16, 6) # kProtocolId THEN Failed("kNetworkReceiveFailed", v)
    ELSE IF Part(v, 22, 2) = <<0, 0>> THEN Failed("kNetworkReceiveFailed", v)
    ELSE LET end == kStaticPacketBytes + 256 * v[38] + v[39]
         IN  IF end > Len(v) THEN Failed("kNetworkReceiveFailed", v)
             ELSE Read([flag |-> v[25], nonce |-> Part(v, 25, kGcmNonceBytes),
                        auth |-> SubSeq(v, kStaticPacketBytes + 1, end), msg |-> Drop(v, end)], <<>>)

(* The auth data of a handshake: send_findnode writes it.                       *)
HandshakeAuth(a) ==
    a.src \o <<Len(a.signature), Len(a.pubkey)>> \o a.signature \o a.pubkey \o a.record

parse_handshake_auth(v) ==
    IF Len(v) < kHandshakeAuthFixedBytes THEN Failed("kNetworkReceiveFailed", v)
    ELSE LET pubkey == kHandshakeAuthFixedBytes + v[33]
             record == pubkey + v[34]
         IN  IF record > Len(v) THEN Failed("kNetworkReceiveFailed", v)
             ELSE Read([src |-> SubSeq(v, 1, kKeccak256Bytes),
                        signature |-> SubSeq(v, kHandshakeAuthFixedBytes + 1, pubkey),
                        pubkey |-> SubSeq(v, pubkey + 1, record), record |-> Drop(v, record)], <<>>)

--------------------------------------------------------------------------------
(* Messages: a type and a list                                                  *)

make_findnode_plaintext(req) ==
    <<kMsgFindNode>> \o ListBytes(EncodeBytes(req) \o ListBytes(EncodeIntegral(kFindNodeDistanceAll)))

(* What handle_packet makes of a plaintext of this type.                        *)
OfType(type, v, parsed) == IF v = <<>> \/ v[1] # type THEN Failed("type", v) ELSE parsed

FirstField(l) == IF l.err # "" THEN l ELSE ReadBytes(l.rest)
parse_findnode_req_id(v) == FirstField(ReadListHeader(v))

(* The node's own record, of config's address and ports.                        *)
LocalRecord(c) ==
    [EmptyRecord EXCEPT !.seq = kInitialEnrSeq, !.id = kIdentitySchemeV4, !.ip = c.ip, !.key = c.key,
                        !.tcp = IF c.tcp # 0 THEN c.tcp ELSE c.udp, !.udp = c.udp]

make_local_enr_record(c) ==
    LET r == LocalRecord(c)
    IN  ListBytes(EncodeBytes(ASignature) \o EncodeIntegral(r.seq)
                  \o EncodeBytes(kId) \o EncodeBytes(r.id) \o EncodeBytes(kIp) \o EncodeBytes(r.ip)
                  \o EncodeBytes(kKey) \o EncodeBytes(r.key) \o EncodeBytes(kTcp) \o EncodeIntegral(r.tcp)
                  \o EncodeBytes(kUdp) \o EncodeIntegral(r.udp))

(* With the records of other nodes too, as other programs answer.               *)
make_nodes_plaintext(req, records) ==
    <<kMsgNodes>> \o ListBytes(EncodeBytes(req) \o EncodeIntegral(1) \o ListBytes(FlattenSeq(records)))

(* One item of the list; signed holds the signatures that were made.            *)
PeerOf(r, signed) ==
    IF r.err # "" THEN r
    ELSE IF \A s \in signed : verify_signature(r.out, s).err # "" THEN Failed("kEnrSignatureInvalid", <<>>)
    ELSE to_validated_peer(r.out.record)
ReadPeer(raw, signed) == PeerOf(decode_rlp(raw), signed)

(* The items that begin inside the list, up to the first unreadable one; those  *)
(* that are no valid record are left out.                                       *)
RECURSIVE ReadPeers(_, _, _), PeersFrom(_, _, _)
PeersFrom(item, end, signed) ==
    IF item.err # "" THEN <<>>
    ELSE LET peer == ReadPeer(item.out, signed)
         IN  (IF peer.err = "" THEN <<peer.out>> ELSE <<>>) \o ReadPeers(item.rest, end, signed)
ReadPeers(v, end, signed) ==
    IF Len(v) <= end THEN <<>> ELSE PeersFrom(consume_next_item(v), end, signed)

NodesOf(r, nodes, signed) ==
    IF r.err # "" THEN r ELSE IF nodes.err # "" THEN nodes
    ELSE Read([req |-> r.out[1],
               peers |-> ReadPeers(nodes.rest, Len(nodes.rest) - nodes.out, signed)], <<>>)

parse_nodes_message(v, signed) ==
    LET r == Fields(<<Blob, Uint(1)>>, ReadListHeader(v)) IN NodesOf(r, ReadListHeader(r.rest), signed)

================================================================================
