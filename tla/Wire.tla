---------------------------------- MODULE Wire ----------------------------------
(* A message on its way: encoded by its sender, carried as it is, cut short,   *)
(* followed by other bytes, with an item added or with a byte changed;         *)
(* its receiver decodes it, and what it decoded is encoded and decoded again.  *)
(* The messages are those of p2p, eth and both discovery protocols, node       *)
(* records, the data of logs and the claims observers sign.                    *)
EXTENDS EthMessages, Discv4Packets, Discv5Messages, BridgeClaim

CONSTANTS Messages,  \* [kind, m]: what is sent
          Schemas,   \* the Status schemas a receiver may be configured with
          Tails,     \* bytes that may follow a message
          Places, Bytes  \* where a byte may be changed, and into what

VARIABLES sent, wire, fault, schemas, decoded, again

vars == <<sent, wire, fault, schemas, decoded, again>>

None == [err |-> "none", out |-> <<>>, rest |-> <<>>]

(* The eth/70 forms have no encoder here: they are what a peer sends. Numbers  *)
(* is a vector of integers, written and read by the RLP library itself.        *)
Encoded(s) ==
    CASE s.kind = "GetReceipts70" ->
           ListBytes(EncodeIntegral(s.m.id[1]) \o EncodeIntegral(7) \o Put(HashList, s.m.body))
      [] s.kind = "Receipts70" ->
           ListBytes(EncodeIntegral(s.m.id[1]) \o EncodeBool(TRUE) \o Put(ReceiptLists, s.m.body))
      [] s.kind = "Numbers" -> Put(SizeList, s.m)
      [] s.kind = "Log"          -> AbiData(s.m.params, s.m.values)
      [] s.kind = "Claim"        -> bridge_event_claim_payload(s.m)
      [] s.kind = "EnrUri"       -> Uri(s.m)
      [] s.kind = "EnrFork"      -> RecordBytes(s.m)
      [] s.kind = "Ping4"        -> EncodePing(s.m)
      [] s.kind = "Pong4"        -> EncodePong(s.m)
      [] s.kind = "FindNode4"    -> EncodeFindNode(s.m)
      [] s.kind = "Neighbours4"  -> EncodeNeighbours(s.m)
      [] s.kind = "EnrRequest4"  -> EncodeEnrRequest(s.m)
      [] s.kind = "EnrResponse4" -> EncodeEnrResponse(s.m)
      [] s.kind = "Packet5"      -> encode_packet(s.m)
      [] s.kind = "Handshake5"   -> HandshakeAuth(s.m)
      [] s.kind = "FindNode5"    -> make_findnode_plaintext(s.m)
      [] s.kind = "Nodes5"       -> make_nodes_plaintext(s.m.req, <<make_local_enr_record(s.m.own)>>
                                        \o [i \in DOMAIN s.m.others |-> RecordBytes(s.m.others[i])])
      [] OTHER -> encode(s.kind, s.m)

Init == /\ sent \in Messages
        /\ wire = Encoded(sent)
        /\ fault = "none" /\ decoded = None /\ again = None
        /\ schemas \in IF sent.kind = "Status" THEN Schemas ELSE {<<>>}

OnWire == decoded.err = "none" /\ fault = "none" /\ UNCHANGED <<sent, schemas, decoded, again>>

Cut     == /\ OnWire /\ fault' = "cut"
           /\ \E n \in {1, Len(wire) \div 2, Len(wire) - 1} :
                n \in 1..(Len(wire) - 1) /\ wire' = SubSeq(wire, 1, n)
Trail   == OnWire /\ fault' = "trail" /\ \E t \in Tails : wire' = wire \o t
(* An item added at the end of the message's list.                             *)
Packets4 == {"Ping4", "Pong4", "FindNode4", "Neighbours4", "EnrRequest4", "EnrResponse4"}
Before   == IF sent.kind \in Packets4 THEN kWireHeaderSize
            ELSE IF sent.kind \in {"FindNode5", "Nodes5"} THEN 1 ELSE 0
Extended(list, t) == ListBytes(Drop(list, PeekHeader(list).header) \o t)
Extend  == /\ OnWire /\ fault' = "extend" /\ sent.kind \notin {"Log", "Claim", "EnrUri", "Packet5", "Handshake5"}
           /\ \E t \in Tails : wire' = SubSeq(wire, 1, Before) \o Extended(Drop(wire, Before), t)

Flip    == /\ OnWire /\ fault' = "flip"
           /\ \E i \in Places, b \in Bytes :
                i <= Len(wire) /\ wire[i] # b /\ wire' = [wire EXCEPT ![i] = b]

(* decode_status with the schemas of the chain, when it has some; the eth/70   *)
(* forms of two messages when the schemas name their additional field. A log   *)
(* comes with its topics, a record with the signature made for it. EnrFork is  *)
(* a record read by both discovery protocols.                                  *)
ReadLog(m, v) ==
    Then(decode_log(AbiTopics(<<1>>, m.params, m.values), v, <<1>>, m.params), LAMBDA r :
         Read([m EXCEPT !.values = r.out], <<>>))

Optional(r) == IF r.err = "" THEN <<r.out>> ELSE <<>>
ForksOf(v, record) ==
    Read([discv4 |-> Optional(ParseEthForkId(v)),
          discv5 |-> IF record.err = "" THEN record.out.record.eth ELSE <<>>], <<>>)
ReadForks(v) == ForksOf(v, decode_rlp(v))

Signatures(m) == {SignedAs(r) : r \in {LocalRecord(m.own)} \cup ToSet(m.others)}

DecodeWith(s, v) ==
    CASE s.kind = "Status" /\ schemas # <<>> -> decode_status(v, schemas)
      [] s.kind = "GetReceipts70" -> decode_get_receipts_70(v)
      [] s.kind = "Receipts70"    -> decode_receipts_70(v)
      [] s.kind = "Numbers"       -> ReadVector(v, 4)
      [] s.kind = "Log"           -> ReadLog(s.m, v)
      [] s.kind = "Claim"         -> decode_bridge_event_claim_payload(v)
      [] s.kind = "EnrUri"        -> parse(v, SignedAs(s.m))
      [] s.kind = "EnrFork"       -> ReadForks(v)
      [] s.kind = "Ping4"         -> PeerReads(v, kPacketTypePing,
                                         Longer(<<Uint(4), WireEndpoint, WireEndpoint, Uint(8)>>))
      [] s.kind = "FindNode4"     -> PeerReads(v, kPacketTypeFindNode, Longer(<<Fixed(64), Uint(8)>>))
      [] s.kind = "EnrRequest4"   -> PeerReads(v, kPacketTypeEnrRequest, Longer(<<Uint(8)>>))
      [] s.kind = "Pong4"         -> ParsePong(v)
      [] s.kind = "Neighbours4"   -> ParseNeighbours(v)
      [] s.kind = "EnrResponse4"  -> ParseEnrResponse(v)
      [] s.kind = "Packet5"       -> decode_packet(v)
      [] s.kind = "Handshake5"    -> parse_handshake_auth(v)
      [] s.kind = "FindNode5"     -> OfType(kMsgFindNode, v, parse_findnode_req_id(Tail(v)))
      [] s.kind = "Nodes5"        -> OfType(kMsgNodes, v, parse_nodes_message(Tail(v), Signatures(s.m)))
      [] OTHER                    -> decode(s.kind, v)

Decode == /\ decoded.err = "none" /\ decoded' = DecodeWith(sent, wire)
          /\ UNCHANGED <<sent, wire, fault, schemas, again>>

Again  == /\ decoded.err = "" /\ again.err = "none" /\ sent.kind \notin {"EnrFork", "Ping4", "Nodes5"}
          /\ LET s == [sent EXCEPT !.m = decoded.out] IN again' = DecodeWith(s, Encoded(s))
          /\ UNCHANGED <<sent, wire, fault, schemas, decoded>>

Next == Cut \/ Trail \/ Extend \/ Flip \/ Decode \/ Again

Spec == Init /\ [][Next]_vars
================================================================================
