----------------------------- MODULE Discv4Packets -----------------------------
(* The packets of discovery v4 (src/src/discv4): what the client writes and    *)
(* what it reads. The hash and the signature in front of a packet are opaque   *)
(* bytes here: the client's handlers do not look at them.                      *)
EXTENDS Enr

kWireHashSize          == 32
kWireSigSize           == 65
kWireHeaderSize        == 98
kPacketTypePing        == 1
kPacketTypePong        == 2
kPacketTypeFindNode    == 3
kPacketTypeNeighbours  == 4
kPacketTypeEnrRequest  == 5
kPacketTypeEnrResponse == 6
kProtocolVersion       == 4
kNodeIdSize            == 64
kIPv4Size              == 4

(* sign_packet: hash || signature || type || RLP.                              *)
sign_packet(type, list) ==
    [i \in 1..kWireHashSize |-> 11] \o [i \in 1..kWireSigSize |-> 22] \o <<type>> \o list

(* An endpoint is <<ip, udp port, tcp port>>.                                  *)
Endpoint(e) == ListBytes(EncodeBytes(e[1]) \o EncodeIntegral(e[2]) \o EncodeIntegral(e[3]))

(* m is <<version, from, to, expiration>>.                                     *)
EncodePing(m) ==
    sign_packet(kPacketTypePing,
        ListBytes(EncodeIntegral(kProtocolVersion) \o Endpoint(m[2]) \o Endpoint(m[3])
                  \o EncodeIntegral(m[4])))

(* handle_ping's answer; other nodes add the number of their record.           *)
EncodePong(m) ==
    sign_packet(kPacketTypePong,
        ListBytes(Endpoint(m.to) \o EncodeBytes(m.hash) \o EncodeIntegral(m.expiration)
                  \o (IF m.seq = 0 THEN <<>> ELSE EncodeIntegral(m.seq))))

EncodeFindNode(m) ==
    sign_packet(kPacketTypeFindNode, ListBytes(EncodeBytes(m[1]) \o EncodeIntegral(m[2])))

EncodeEnrRequest(m) == sign_packet(kPacketTypeEnrRequest, ListBytes(EncodeIntegral(m[1])))

(* Neighbours and ENR responses are only received: written by other nodes,     *)
(* whose node entries may have fields this client does not know.               *)
EncodeNeighbours(m) ==
    LET node(n) == ListBytes(EncodeBytes(n.ip) \o EncodeIntegral(n.udp) \o EncodeIntegral(n.tcp)
                             \o EncodeBytes(n.id) \o n.more)
    IN  sign_packet(kPacketTypeNeighbours,
            ListBytes(ListBytes(FlattenSeq([i \in DOMAIN m |-> node(m[i])])) \o EncodeIntegral(300)))

EncodeEnrResponse(m) ==
    sign_packet(kPacketTypeEnrResponse, ListBytes(EncodeBytes(m.hash) \o m.record))

--------------------------------------------------------------------------------
(* The list of a packet of the given type.                                     *)
Body(raw, type) ==
    IF Len(raw) < kWireHeaderSize \/ raw[kWireHeaderSize] # type THEN Failed("kUnexpectedString", raw)
    ELSE ReadListHeader(Drop(raw, kWireHeaderSize))

(* What ParseEndpoint reads: it does not look where the endpoint's list ends.  *)
ToEndpoint == Lax(<<Fixed(kIPv4Size), Uint(2), Uint(2)>>)

PongFields == <<ToEndpoint, Fixed(kWireHashSize), Uint(8)>>

(* discv4_pong::Parse: the number of the record may be missing, and what       *)
(* follows it is skipped.                                                      *)
PongSeq(r) == IF r.err # "" THEN r
              ELSE IF r.rest = <<>> THEN Read(0, <<>>) ELSE ReadIntegral(r.rest, 8)

PongOf(r, seq, end) ==
    IF seq.err # "" THEN seq ELSE IF end.err # "" THEN end
    ELSE Read([to |-> r.out[1], hash |-> r.out[2], expiration |-> r.out[3], seq |-> seq.out], <<>>)

PongRest(r, seq) == PongOf(r, seq, SkipTo(seq.rest, 0))

ParsePong(raw) ==
    LET r == Fields(PongFields, Body(raw, kPacketTypePong)) IN PongRest(r, PongSeq(r))

(* discv4_enr_response::Parse                                                  *)
ParseEnrResponse(raw) ==
    IF Len(raw) <= kWireHeaderSize THEN Failed("kInputTooShort", raw)
    ELSE Then(Fields(<<Fixed(kWireHashSize), RawItem>>, Body(raw, kPacketTypeEnrResponse)), LAMBDA r :
              Read([hash |-> r.out[1], record |-> r.out[2]], r.rest))

ReadForkId(v) ==
    Then(Fields(<<Fixed(kForkHashBytes), Uint(8)>>, EnterLists(v)), LAMBDA r :
         Read([hash |-> r.out[1], next |-> r.out[2]], r.rest))

(* The fork id of a record: the value of its first "eth" pair.                 *)
RECURSIVE EthPair(_)
EthPair(v) ==
    IF v = <<>> THEN Failed("kUnexpectedString", v)
    ELSE Then(ReadBytes(v), LAMBDA key :
         IF key.out # kEth THEN Then(SkipItem(key.rest), LAMBDA val : EthPair(val.rest))
         ELSE ReadForkId(key.rest))

ParseEthForkId(record) ==
    IF ~IsList(record) THEN Failed("kUnexpectedString", record)
    ELSE Then(ReadListHeader(record), LAMBDA l :
         Then(SkipItem(l.rest), LAMBDA sig :
         Then(SkipItem(sig.rest), LAMBDA seq : EthPair(seq.rest))))

(* How other nodes read a ping, a find-node and an ENR request.                *)
PeerReads(raw, type, layout) ==
    IF Len(raw) < kWireHeaderSize \/ raw[kWireHeaderSize] # type THEN Failed("type", raw)
    ELSE Get(layout, Drop(raw, kWireHeaderSize))

WireEndpoint == Struct(<<Fixed(kIPv4Size), Uint(2), Uint(2)>>)

--------------------------------------------------------------------------------
(* handle_neighbours                                                           *)

(* One node of the list; the fields after the four known ones are skipped.     *)
NodeOf(v, r, left, skip) ==
    IF r.err # "" THEN r
    ELSE IF Len(r.out[1]) # kIPv4Size \/ Len(r.out[4]) # kNodeIdSize THEN Failed("size", v)
    ELSE Read([ip |-> r.out[1], udp |-> r.out[2], tcp |-> r.out[3], id |-> r.out[4], more |-> <<>>],
              IF left <= 0 THEN r.rest ELSE Drop(r.rest, left - Len(skip.rest)))

NodeRest(v, r, left) == NodeOf(v, r, left, SkipTo(SubSeq(r.rest, 1, left), 0))

NodeFields(v, l, r) == NodeRest(v, r, l.out - (Len(l.rest) - Len(r.rest)))

NodeIn(v, l) == NodeFields(v, l, Fields(<<Blob, Uint(2), Uint(2), Blob>>, l))

ReadNode(v) == NodeIn(v, ReadListHeader(v))

(* Nodes are read up to the end of their list, or to the first unreadable one. *)
RECURSIVE ReadNodes(_, _)
ReadNodes(v, target) ==
    LET node == ReadNode(v)
    IN  IF Len(v) <= target \/ node.err # "" THEN <<>>
        ELSE <<node.out>> \o ReadNodes(node.rest, target)


(* The nodes that are kept: those that accept connections.                     *)
ParseNeighbours(raw) ==
    Then(Body(raw, kPacketTypeNeighbours), LAMBDA outer :
    Then(ReadListHeader(outer.rest), LAMBDA nodes :
         Read(SelectSeq(ReadNodes(nodes.rest, Len(nodes.rest) - nodes.out), LAMBDA n : n.tcp # 0),
              <<>>)))
================================================================================
