--------------------------------- MODULE MCWire ---------------------------------
(* Wire on a set of messages of every kind, and what decoding promises.        *)
EXTENDS Wire

Fill(n, b) == [i \in 1..n |-> b]
H(b) == Fill(32, b)
A(b) == Fill(20, b)

Logs == {<<>>, << <<A(3), <<H(1), H(200)>>, <<7>>>>, <<A(4), <<>>, Fill(60, 9)>> >>}
Outcomes == {[root |-> <<H(9)>>, status |-> <<>>], [root |-> <<>>, status |-> <<0>>],
             [root |-> <<>>, status |-> <<1>>]}
AReceipt(o, logs) == <<o, 300, Fill(256, 1), logs>>
AHeader(number, fee) ==
    [fields |-> <<H(1), H(2), A(3), H(4), H(5), H(6), Fill(256, 7), 0, number, 30000, 0, 70000,
                  <<1>>, H(8), Fill(8, 0)>>, base_fee |-> fee]
Headers == {AHeader(0, <<>>), AHeader(300, <<0>>), AHeader(128, <<7>>)}
Access == {<<>>, << <<A(5), <<H(1)>>>>, <<A(6), <<>>>> >>}
Txs == {[type |-> 0, fields |-> <<0, fee, 21000, to, 1, data, 27, 9, 9>>] :
            fee \in {<<>>, <<5>>}, to \in {<<>>, <<A(1)>>}, data \in {<<>>, <<127>>}}
       \cup {[type |-> 1, fields |-> <<c, 1, <<3>>, 21000, <<A(1)>>, 0, <<>>, al, 1, 9, 9>>] :
            c \in {<<>>, <<137>>}, al \in Access}
       \cup {[type |-> 2, fields |-> <<<<1>>, 1, <<>>, <<3>>, 21000, <<>>, 0, <<200>>, al, 0, 9, 9>>] :
            al \in Access}

Legacy(v) == <<v, 1, 1000, H(1), H(2), <<Fill(4, 3), 0>>>>
Modern(v) == <<v, 1, H(2), <<Fill(4, 3), 7>>, 5, 4, H(1)>>
Statuses == {[layout |-> 68, fields |-> Legacy(v)] : v \in 65..70}
            \cup {[layout |-> 69, fields |-> Modern(v)] : v \in 65..70}

BorFields == << Fields69[1], Fields69[2], Field("bor_extra", Uint(4), 2),
                [Fields69[3] EXCEPT !.offset = 3], [Fields69[4] EXCEPT !.offset = 4],
                [Fields69[5] EXCEPT !.offset = 5], [Fields69[6] EXCEPT !.offset = 6],
                [Fields69[7] EXCEPT !.offset = 7] >>
BorSchemas == << [version |-> <<69>>, fields |-> BorFields],
                 [version |-> <<69>>, fields |-> LegacyFields] >>
MCSchemas == {<<>>, BorSchemas}

Lists(S) == {<<>>} \cup {<<x>> : x \in S}
HashLists == {<<>>, <<H(1)>>, <<H(200), H(0)>>}
Ids == {<<>>, <<0>>, <<200>>}
Wrap(kind, bodies) == {[kind |-> kind, m |-> [id |-> i, body |-> b]] : i \in Ids, b \in bodies}
Plain(kind, ms)    == {[kind |-> kind, m |-> m] : m \in ms}
Starts == {[hash |-> <<H(1)>>, number |-> <<>>], [hash |-> <<>>, number |-> <<0>>],
           [hash |-> <<>>, number |-> <<300>>], [hash |-> <<>>, number |-> <<>>]}
Hellos == {[version |-> v, client |-> Fill(5, 65), caps |-> cs, port |-> p, node_id |-> Fill(64, 9)] :
             v \in {0, 5, 200}, p \in {0, 30303},
             cs \in {<<>>, << <<Fill(3, 101), 66>>, <<Fill(3, 101), 200>> >>}}

P(kind, indexed) == [kind |-> kind, indexed |-> indexed]
LogMessages ==
    { [params |-> <<P("address", TRUE), P("uint", FALSE), P("bytes", FALSE), P("uint", TRUE)>>,
       values |-> <<A(7), n, <<1, 0>>, bs>>] : n \in {<<>>, <<200>>}, bs \in {<<>>, <<9>>, Fill(33, 5)} }
    \cup { [params |-> <<P("string", TRUE), P("bool", FALSE), P("string", FALSE), P("bytes", FALSE)>>,
            values |-> <<Fill(3, 65), <<b>>, Fill(32, 66), <<>>>>] : b \in {0, 1} }
    \cup { [params |-> <<P("bytes32", TRUE)>>, values |-> <<H(1)>>] }

Claims ==
    { << <<1>>, <<137>>, A(1), n, H(1), H(2), <<>>, H(3), ts, data, A(2), n, <<1, 0>>, A(3), n, <<12>> >> :
        n \in {<<>>, Fill(8, 255)}, ts \in {<<>>, <<H(3)>>, <<H(3), H(0)>>}, data \in {<<>>, Fill(33, 1)} }

Fork(next) == <<[hash |-> Fill(4, 9), next |-> next]>>
Records ==
    {[EmptyRecord EXCEPT !.seq = 3, !.id = <<118, 52>>, !.key = Fill(33, 2), !.ip = Fill(4, 127),
        !.tcp = t, !.udp = 30303, !.eth = e, !.extra = x] :
        t \in {0, 80, 30303}, e \in {<<>>, Fork(0), Fork(300)},
        x \in {<<>>, << <<Fill(4, 115), <<7>>>> >>, << <<Fill(4, 115), Fill(200, 1)>> >>}}
    \cup {[EmptyRecord EXCEPT !.seq = 200, !.key = Fill(33, 3), !.ip6 = Fill(16, 1), !.tcp6 = 1,
            !.udp6 = 70]}

Ends == {<<Fill(4, 10), u, t>> : u \in {0, 30303}, t \in {127, 128}}
Node(t, more) == [ip |-> Fill(4, 5), udp |-> 30301, tcp |-> t, id |-> Fill(64, t % 256), more |-> more]
NodeLists == {<<>>, <<Node(1, <<>>)>>, <<Node(0, <<>>), Node(300, <<>>)>>,
              <<Node(7, <<5, 193, 128>>), Node(8, <<>>)>>}

Packets ==
    Plain("Ping4", {<<4, e, f, 70000>> : e \in Ends, f \in Ends})
    \cup Plain("Pong4", {[to |-> e, hash |-> H(4), expiration |-> 70000, seq |-> q] :
                            e \in Ends, q \in {0, 1, 200}})
    \cup Plain("FindNode4", {<<Fill(64, 1), 300>>}) \cup Plain("EnrRequest4", {<<300>>})
    \cup Plain("Neighbours4", NodeLists)
    \cup Plain("EnrResponse4", {[hash |-> H(5), record |-> RecordBytes(r)] : r \in Records})

Configs5 == {[ip |-> Fill(4, 0), key |-> Fill(33, 2), udp |-> 9000, tcp |-> t] : t \in {0, 127}}
Nobody   == [EmptyRecord EXCEPT !.seq = 7, !.key = Fill(33, 3)]
Packets5 ==
    Plain("Packet5", {[flag |-> f, nonce |-> Fill(12, 8), auth |-> a, msg |-> b] :
                        f \in 0..2, a \in {Fill(32, 1), Fill(300, 2)}, b \in {<<>>, Fill(20, 3)}})
    \cup Plain("Handshake5", {[src |-> H(1), signature |-> Fill(64, 2), pubkey |-> Fill(33, 3), record |-> r] :
                                r \in {<<>>, Fill(120, 4)}})
    \cup Plain("FindNode5", {<<35, 40, 118, 95>>, <<0>>, <<200>>})
    \cup Plain("Nodes5", {[req |-> <<35, 40>>, own |-> c, others |-> os] : c \in Configs5,
                            os \in {<<>>, <<Nobody>>} \cup {<<r, Nobody>> : r \in Records}})

MCMessages ==
    Packets5 \cup
    Plain("Log", LogMessages) \cup Plain("Claim", Claims) \cup Packets
    \cup Plain("EnrUri", Records) \cup Plain("EnrFork", Records) \cup
    Plain("Status", Statuses)
    \cup UNION {Wrap(k, HashLists) : k \in {"GetReceipts", "GetPooledTransactions", "GetBlockBodies"}}
    \cup Wrap("GetBlockHeaders", {[start |-> s, max_headers |-> 1, skip |-> 0, reverse |-> r] :
                                    s \in Starts, r \in BOOLEAN})
    \cup Wrap("BlockHeaders", Lists(Headers) \cup {<<AHeader(1, <<>>), AHeader(2, <<9>>)>>})
    \cup Wrap("Receipts", {<<>>, <<<<>>>>, <<<<>>, <<>>>>}
                          \cup {<<<<AReceipt(o, ls)>>>> : o \in Outcomes, ls \in Logs})
    \cup Wrap("PooledTransactions", {<<>>} \cup {<<Put(Transaction, t)>> : t \in Txs})
    \cup Wrap("BlockBodies", {<<>>} \cup {<< << ts, os >> >> : ts \in Lists(Txs), os \in {<<>>, <<AHeader(1, <<>>)>>}})
    \cup Plain("NewBlockHashes", {<<>>, << <<H(1), 0>>, <<H(2), 300>> >>})
    \cup Plain("NewPooledTransactionHashes",
               {[types |-> Fill(n, 2), sizes |-> Fill(n, 200), hashes |-> Fill(n, H(1))] : n \in 0..3})
    \cup Plain("BlockRangeUpdate", {<<0, 300, H(1)>>})
    \cup Plain("UpgradeStatus", {<<TRUE>>, <<FALSE>>})
    \cup Plain("NewBlock", {<< <<h, ts, <<>>>>, 1000>> : h \in Headers, ts \in Lists(Txs)})
    \cup Plain("Hello", Hellos)
    \cup Plain("Disconnect", {0, 1, 16})
    \cup Plain("Ping", {<<>>})
    \cup Plain("Numbers", {<<>>, <<0>>, <<127, 128, 70000>>, [i \in 1..30 |-> 300]})
    \cup Plain("GetReceipts70", {[id |-> <<200>>, body |-> b] : b \in HashLists})
    \cup Plain("Receipts70", {[id |-> <<1>>, body |-> <<<<AReceipt(o, <<>>)>>>>] : o \in Outcomes})

MCTails == {<<0>>, <<192>>, Put(Hash256, H(3))}

--------------------------------------------------------------------------------
(* The optional fields of a transaction come back with the values they were    *)
(* written as.                                                                 *)
FilledTx(tx) ==
    [tx EXCEPT !.fields = [i \in DOMAIN @ |->
        LET t == TransactionFields(tx.type)[i]
        IN  IF t.k = "maybe" /\ @[i] = <<>> THEN <<t.default>> ELSE @[i]]]
FilledTxs(ts) == [i \in DOMAIN ts |-> FilledTx(ts[i])]

(* The peers of records: a node without an address is none.                    *)
PeersOf(rs) ==
    LET known == SelectSeq(rs, LAMBDA r : r.ip # <<>> \/ r.ip6 # <<>>)
    IN  [i \in DOMAIN known |-> to_validated_peer(known[i]).out]

Filled(s) ==
    CASE s.kind = "BlockBodies" -> [s.m EXCEPT !.body = [i \in DOMAIN @ |-> <<FilledTxs(@[i][1]), @[i][2]>>]]
      [] s.kind = "NewBlock"    -> << <<s.m[1][1], FilledTxs(s.m[1][2]), s.m[1][3]>>, s.m[2] >>
      [] s.kind = "Log"         ->    \* of an indexed string only a hash is in the log
            LET indexed == SelectSeq(s.m.params, LAMBDA p : p.indexed)
            IN  [s.m EXCEPT !.values = [i \in DOMAIN @ |->
                    IF i \in DOMAIN indexed /\ is_dynamic(indexed[i].kind) THEN <<>> ELSE @[i]]]
      [] s.kind = "Neighbours4" ->
            LET kept == SelectSeq(s.m, LAMBDA n : n.tcp # 0)
            IN  [i \in DOMAIN kept |-> [kept[i] EXCEPT !.more = <<>>]]
      [] s.kind = "Nodes5"      ->
            [req |-> s.m.req, peers |-> PeersOf(<<LocalRecord(s.m.own)>> \o s.m.others)]
      [] s.kind = "EnrFork"     -> [discv4 |-> s.m.eth, discv5 |-> s.m.eth]
      [] OTHER                  -> s.m

StatusReadable(m, ss) ==
    IF ss = <<>> THEN IF m.layout = 69 THEN m.fields[1] = 69 ELSE m.fields[1] \in 66..68
    ELSE m.layout = 68 /\ m.fields[1] = 69

WellFormed(s) ==
    CASE s.kind \in Requests        -> s.m.id # <<>>
      [] s.kind = "GetBlockHeaders" -> s.m.body.start.hash # <<>> \/ s.m.body.start.number # <<>>
      [] s.kind = "Status"          -> s.m.layout = 69 \/ s.m.fields[1] # 69
      [] s.kind = "EnrUri"          -> Len(RecordBytes(s.m)) <= kEnrMaxBytes
      [] OTHER                      -> TRUE

(* What is sent is what is received, for every kind of message, wherever the   *)
(* lengths inside it fall: requests and answers that carry a request id, and   *)
(* GetBlockHeaders with or without one. A status is read exactly when its      *)
(* version goes with its layout (or, for a chain with Bor's schemas, when it   *)
(* is a version 69 in the legacy layout, which then has no block range), and   *)
(* never with one layout's field taken for another's.                          *)
RoundTrips ==
    decoded.err # "none" /\ fault = "none" =>
        /\ sent.kind # "Status" /\ WellFormed(sent) => decoded.err = "" /\ decoded.out = Filled(sent)
        /\ sent.kind = "Status" =>
             /\ (decoded.err = "") = StatusReadable(sent.m, schemas)
             /\ decoded.err = "" => decoded.out =
                  IF schemas = <<>> THEN sent.m
                  ELSE LET f == sent.m.fields
                       IN  [layout |-> 69, fields |-> <<69, f[2], f[5], f[6], 0, 0, f[4]>>]

Delimited == Requests \cup {"Status", "GetBlockHeaders", "NewBlock", "Claim"}
NeverRefused == {"Disconnect", "Ping", "Pong", "EnrFork", "Packet5", "Handshake5"}

(* A message cut short is refused, whatever its kind, and one followed by      *)
(* other bytes is refused by the decoders that know where the input ends.      *)
(* Disconnect, Ping and Pong are never refused, packets of discovery v5 end    *)
(* with their input; the data of a log may lose its padding or have a tail,    *)
(* and then the values are the same.                                           *)
CutOrFollowedRefused ==
    decoded.err # "none" /\ WellFormed(sent) /\ sent.kind \notin NeverRefused =>
        /\ fault = "cut" =>
             decoded.err # "" \/ (sent.kind = "Log" /\ decoded.out = Filled(sent))
        /\ fault = "trail" =>
             /\ sent.kind \in Delimited => decoded.err # ""
             /\ sent.kind = "Log" => decoded.err = "" /\ decoded.out = Filled(sent)

Extensible(s) ==
    \/ s.kind \in {"NewBlock", "UpgradeStatus", "Hello", "Ping", "Pong", "Neighbours4", "EnrResponse4",
                    "FindNode5", "Nodes5"}
    \/ s.kind = "Pong4" /\ s.m.seq # 0

(* An item added at the end of a message by a later protocol version changes   *)
(* nothing for the kinds that skip what they do not know, and is refused by    *)
(* the requests, the answers, Status and BlockRangeUpdate.                     *)
ExtensionSafe ==
    decoded.err # "none" /\ fault = "extend" =>
        /\ Extensible(sent) => decoded.err = "" /\ decoded.out = Filled(sent)
        /\ sent.kind \in Requests \cup {"Status", "GetBlockHeaders", "BlockRangeUpdate"}
              /\ WellFormed(sent) => decoded.err # ""


(* What a decoder accepts, however the bytes came about, is a message: encoded *)
(* again and decoded again it is the same message.                             *)
AcceptedIsStable ==
    again.err # "none" /\ schemas = <<>> /\ (sent.kind \in Requests => decoded.out.id # <<>>) =>
        again.err = "" /\ again.out = decoded.out
================================================================================
