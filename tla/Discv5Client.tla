------------------------------ MODULE Discv5Client ------------------------------
(* Nodes of the discv5 client (src/src/discv5/discv5_client.cpp) with their     *)
(* crawlers (src/src/discv5/discv5_crawler.cpp), on a network that loses,       *)
(* duplicates and reorders packets. The io_context of a node runs one handler   *)
(* at a time; what a handler spawns runs later, in order.                       *)
(*                                                                              *)
(* Cryptography is symbolic: a random value is fresh, a ciphertext opens under  *)
(* the key it was made with, a signature names what was signed and by whom.     *)
EXTENDS Naturals, Sequences, SequencesExt, Bags, FiniteSets

CONSTANTS Endpoints,         \* where nodes may be
          Clients,           \* where there is one
          Bootstraps,        \* the choices of bootstrap lists: a list of endpoints for each node
          Extra,             \* what a node answers besides itself (another implementation does)
          ForkOf,            \* the fork id of the node at an endpoint, "" for no eth entry
          required_fork_id,  \* "" for none
          max_concurrent_queries,
          MaxDraws,          \* bound: random values drawn by a node
          MaxFaults          \* bound: packets lost or duplicated, nodes restarted or stopped

VARIABLES bootstrap,
          id,          \* how often the node's key was replaced; <<endpoint, id>> is its identity
          running,
          sessions, pending_requests, sent_challenges,   \* the client's maps, by endpoint
          spawned,     \* the coroutines that have not run yet
          queued_peers, discovered_ids,                  \* the crawler
          draws, net, faults,
          emitted,     \* history: the calls of the peer callback
          begun,       \* history: the handshakes sent
          accepted     \* history: the handshakes accepted

nodeVars    == <<id, running>>
clientVars  == <<sessions, pending_requests, sent_challenges, spawned>>
crawlerVars == <<queued_peers, discovered_ids, emitted>>
vars == <<bootstrap, nodeVars, clientVars, crawlerVars, draws, net, faults, begun, accepted>>

None == [e \in Endpoints |-> <<>>]
NoKey == <<>>

Self(n) == <<n, id[n]>>

Init ==
    /\ bootstrap \in Bootstraps
    /\ id = [n \in Endpoints |-> 0]
    /\ running = [n \in Endpoints |-> n \in Clients]
    /\ sessions = [n \in Endpoints |-> None]
    /\ pending_requests = [n \in Endpoints |-> None]
    /\ sent_challenges = [n \in Endpoints |-> None]
    /\ spawned = [n \in Endpoints |-> <<>>]
    /\ queued_peers = [n \in Endpoints |-> [i \in DOMAIN bootstrap[n] |-> <<bootstrap[n][i], 0>>]]
    /\ discovered_ids = [n \in Endpoints |-> {}]
    /\ draws = [n \in Endpoints |-> 0]
    /\ net = EmptyBag
    /\ faults = 0
    /\ emitted = [n \in Endpoints |-> <<>>]
    /\ begun = {}
    /\ accepted = <<>>

--------------------------------------------------------------------------------
(* Packets. The header is masked with the identity of the receiver: a node with *)
(* another one cannot read it.                                                  *)

Send(packet) == net' = net (+) SetToBag({packet})

Message(n, to, nonce, key, body) ==
    [flag |-> "message", from |-> n, mask |-> to, nonce |-> nonce, src |-> Self(n),
     key |-> key, body |-> body]

FindNode(req)     == [type |-> "findnode", req |-> req, peers |-> <<>>]
Nodes(req, peers) == [type |-> "nodes", req |-> req, peers |-> peers]
Noise             == [type |-> "noise", req |-> "", peers |-> <<>>]

(* Whether a packet can be unmasked, and whether a message opens under a key.    *)
decode_packet(n, p) == p.mask = Self(n)
decrypt_gcm(key, p) == p.key = key

(* The request id is made of the peer's ports.                                  *)
ReqId(peer) == peer[1]

(* A session message has a nonce of its own, that no pending request has.       *)
NoNonce == <<"", 0>>

Draw(n, k) == <<n, draws[n] + k>>
Drawn(n, k) == /\ draws[n] + k <= MaxDraws
               /\ draws' = [draws EXCEPT ![n] = @ + k]

(* derive_session_keys, from the shared secret of an ephemeral key and a static *)
(* one: the initiator writes with the first key.                                *)
derive_session_keys(eph, static, challenge, first, second) ==
    LET secret == <<eph, static, challenge, first, second>>
    IN  << [half |-> 1, of |-> secret], [half |-> 2, of |-> secret] >>

Signature(by, challenge, eph, destination) ==
    [by |-> by, challenge |-> challenge, eph |-> eph, destination |-> destination]

--------------------------------------------------------------------------------
(* The crawler                                                                  *)

Queued(q, peer)  == \E i \in DOMAIN q : q[i] = peer

(* A mutant: the peer is handed on without a look at the ones handed on before. *)
Emits_Always(peer, known) == required_fork_id \in {"", ForkOf[peer[1]]}

(* emit_peer: the fork id is the required one and the peer is new.              *)
Emits(peer, known) == required_fork_id \in {"", ForkOf[peer[1]]} /\ peer \notin known

(* ingest_discovered_peers: the queue, the peers discovered and the callbacks   *)
(* after the peers of one NODES message.                                        *)
ingest(q, known, calls, peers) ==
    FoldLeft(LAMBDA c, peer :
        [queue |-> IF peer \in c.known \/ Queued(c.queue, peer) THEN c.queue ELSE Append(c.queue, peer),
         known |-> IF Emits(peer, c.known) THEN c.known \cup {peer} ELSE c.known,
         calls |-> IF Emits(peer, c.known) THEN Append(c.calls, peer) ELSE c.calls],
        [queue |-> q, known |-> known, calls |-> calls], peers)

(* A round of crawler_loop: send_findnode is spawned for the first peers.       *)
Round(n) ==
    LET k == IF Len(queued_peers[n]) < max_concurrent_queries
             THEN Len(queued_peers[n]) ELSE max_concurrent_queries
    IN  /\ running[n] /\ queued_peers[n] # <<>>
        /\ spawned' = [spawned EXCEPT ![n] = @ \o [i \in 1..k |->
                          [run |-> "findnode", peer |-> queued_peers[n][i]]]]
        /\ queued_peers' = [queued_peers EXCEPT ![n] = SubSeq(@, k + 1, Len(@))]
        /\ UNCHANGED <<bootstrap, nodeVars, sessions, pending_requests, sent_challenges,
                       discovered_ids, emitted, draws, net, faults, begun, accepted>>

--------------------------------------------------------------------------------
(* send_findnode                                                                *)

(* With a session, whoever it is with.                                          *)
FindNodeInSession(n, peer) ==
    LET e == peer[1]
        s == sessions[n][e][1]
    IN  /\ sessions[n][e] # <<>>
        /\ Send(Message(n, peer, NoNonce, s.write_key, FindNode(ReqId(peer))))
        /\ sessions' = [sessions EXCEPT ![n][e] = << [s EXCEPT !.last_req_id = ReqId(peer)] >>]
        /\ UNCHANGED <<pending_requests, draws, begun>>

(* A mutant: a pending request is dropped with its challenge.                   *)
Challenged_Dropped(n, e) == FALSE

Challenged(n, e) == pending_requests[n][e] # <<>> /\ pending_requests[n][e][1].have_challenge

(* Without one, and without a challenge: a message nobody can read.             *)
FindNodeFirst(n, peer) ==
    LET e     == peer[1]
        nonce == Draw(n, 1)
    IN  /\ sessions[n][e] = <<>> /\ ~Challenged(n, e)
        /\ Drawn(n, 1)
        /\ pending_requests' = [pending_requests EXCEPT ![n][e] =
               << [peer |-> peer, req_id |-> ReqId(peer), request_nonce |-> nonce,
                   challenge |-> <<>>, have_challenge |-> FALSE] >>]
        /\ Send(Message(n, peer, nonce, NoKey, Noise))
        /\ UNCHANGED <<sessions, begun>>

(* The answer to a challenge: the session is there before the packet is sent.   *)
FindNodeHandshake(n, peer) ==
    LET e    == peer[1]
        p    == pending_requests[n][e][1]
        eph  == Draw(n, 1)
        keys == derive_session_keys(eph, p.peer, p.challenge, Self(n), peer)
    IN  /\ sessions[n][e] = <<>> /\ Challenged(n, e)
        /\ Drawn(n, 1)
        /\ Send([flag |-> "handshake", from |-> n, mask |-> peer, nonce |-> NoNonce, src |-> Self(n),
                 signature |-> Signature(Self(n), p.challenge, eph, peer), pubkey |-> eph,
                 record |-> Self(n), key |-> keys[1], body |-> FindNode(p.req_id)])
        /\ sessions' = [sessions EXCEPT ![n][e] =
               << [write_key |-> keys[1], read_key |-> keys[2], remote |-> peer,
                   last_req_id |-> p.req_id] >>]
        /\ pending_requests' = [pending_requests EXCEPT ![n][e] = <<>>]
        /\ begun' = begun \cup {[from |-> Self(n), to |-> peer, secret |-> keys[1].of]}

(* send_whoareyou: a challenge sent before to the same endpoint is forgotten.   *)
Whoareyou(n, to, addr, nonce) ==
    LET challenge == <<nonce, Draw(n, 1)>>
    IN  /\ Drawn(n, 1)
        /\ sent_challenges' = [sent_challenges EXCEPT ![n][to] = << [remote |-> addr, challenge |-> challenge] >>]
        /\ Send([flag |-> "whoareyou", from |-> n, mask |-> addr, nonce |-> nonce, challenge |-> challenge])
        /\ UNCHANGED <<sessions, pending_requests, begun>>

(* handle_findnode_request                                                      *)
Answer(n, to, req) ==
    LET s == sessions[n][to][1]
    IN  /\ IF sessions[n][to] = <<>> THEN UNCHANGED net
           ELSE Send(Message(n, s.remote, NoNonce, s.write_key, Nodes(req, <<Self(n)>> \o Extra[n])))
        /\ UNCHANGED <<sessions, pending_requests, draws, begun>>

RunSpawned(n) ==
    /\ running[n] /\ spawned[n] # <<>>
    /\ LET c == Head(spawned[n]) IN
       \/ /\ c.run = "findnode"
          /\ FindNodeInSession(n, c.peer) \/ FindNodeFirst(n, c.peer) \/ FindNodeHandshake(n, c.peer)
          /\ UNCHANGED sent_challenges
       \/ c.run = "whoareyou" /\ Whoareyou(n, c.to, c.addr, c.nonce)
       \/ c.run = "answer" /\ Answer(n, c.to, c.req) /\ UNCHANGED sent_challenges
    /\ spawned' = [spawned EXCEPT ![n] = Tail(@)]
    /\ UNCHANGED <<bootstrap, nodeVars, crawlerVars, faults, accepted>>

--------------------------------------------------------------------------------
(* handle_packet                                                                *)

Spawn(n, c) == spawned' = [spawned EXCEPT ![n] = Append(@, c)]
Ignore      == UNCHANGED <<clientVars, crawlerVars, accepted>>

HandleWhoareyou(n, p) ==
    LET req == pending_requests[n][p.from][1]
    IN  IF pending_requests[n][p.from] = <<>> THEN Ignore
        ELSE IF req.request_nonce # p.nonce THEN Ignore
        ELSE /\ pending_requests' = [pending_requests EXCEPT ![n][p.from] =
                    << [req EXCEPT !.challenge = p.challenge, !.have_challenge = TRUE] >>]
             /\ Spawn(n, [run |-> "findnode", peer |-> req.peer])
             /\ UNCHANGED <<sessions, sent_challenges, crawlerVars, accepted>>

Challenge(n, p) ==
    /\ Spawn(n, [run |-> "whoareyou", to |-> p.from, addr |-> p.src, nonce |-> p.nonce])
    /\ UNCHANGED <<sessions, pending_requests, sent_challenges, crawlerVars, accepted>>

HandleMessage(n, p) ==
    LET s == sessions[n][p.from][1]
        r == ingest(queued_peers[n], discovered_ids[n], emitted[n], p.body.peers)
    IN  IF sessions[n][p.from] = <<>> THEN Challenge(n, p)
        ELSE IF s.remote # p.src \/ ~decrypt_gcm(s.read_key, p) THEN Challenge(n, p)
        ELSE IF p.body.type = "findnode"
        THEN /\ Spawn(n, [run |-> "answer", to |-> p.from, req |-> p.body.req])
             /\ UNCHANGED <<sessions, pending_requests, sent_challenges, crawlerVars, accepted>>
        ELSE IF s.last_req_id # "" /\ p.body.req # s.last_req_id THEN Ignore
        ELSE /\ queued_peers' = [queued_peers EXCEPT ![n] = r.queue]
             /\ discovered_ids' = [discovered_ids EXCEPT ![n] = r.known]
             /\ emitted' = [emitted EXCEPT ![n] = r.calls]
             /\ UNCHANGED <<clientVars, accepted>>

(* A mutant: the recipient writes with the key it reads with.                   *)
RecipientKeys_One(keys) == [write |-> keys[1], read |-> keys[1]]

RecipientKeys(keys) == [write |-> keys[2], read |-> keys[1]]

(* The last checks of an identity: the record is the sender's own and it signed *)
(* the challenge that was sent to it.                                           *)
verify_id_signature(n, p, challenge) ==
    p.signature = Signature(p.record, challenge, p.pubkey, Self(n))

(* A mutant: the challenge is kept.                                             *)
AfterHandshake_Kept(n, e) == sent_challenges

AfterHandshake(n, e) == [sent_challenges EXCEPT ![n][e] = <<>>]

HandleHandshake(n, p) ==
    LET c    == sent_challenges[n][p.from][1]
        keys == derive_session_keys(p.pubkey, Self(n), c.challenge, p.src, Self(n))
        mine == RecipientKeys(keys)
    IN  IF sent_challenges[n][p.from] = <<>> THEN Ignore
        ELSE IF p.src # c.remote \/ p.record # p.src \/ ~verify_id_signature(n, p, c.challenge) THEN Ignore
        ELSE IF ~decrypt_gcm(mine.read, p)
        THEN /\ sessions' = [sessions EXCEPT ![n][p.from] = <<>>]
             /\ UNCHANGED <<pending_requests, sent_challenges, spawned, crawlerVars, accepted>>
        ELSE /\ sessions' = [sessions EXCEPT ![n][p.from] =
                    << [write_key |-> mine.write, read_key |-> mine.read, remote |-> p.src,
                        last_req_id |-> p.body.req] >>]
             /\ sent_challenges' = AfterHandshake(n, p.from)
             /\ Spawn(n, [run |-> "answer", to |-> p.from, req |-> p.body.req])
             /\ accepted' = Append(accepted, [from |-> p.src, to |-> Self(n), secret |-> keys[1].of])
             /\ UNCHANGED <<pending_requests, crawlerVars>>

handle_packet(n, p) ==
    IF ~running[n] \/ ~decode_packet(n, p) THEN Ignore
    ELSE \/ p.flag = "whoareyou" /\ HandleWhoareyou(n, p)
         \/ p.flag = "message"   /\ HandleMessage(n, p)
         \/ p.flag = "handshake" /\ HandleHandshake(n, p)

--------------------------------------------------------------------------------
(* The network and the nodes' life                                              *)

Fault == faults < MaxFaults /\ faults' = faults + 1

Deliver(p) ==
    /\ handle_packet(p.mask[1], p)
    /\ \/ net' = net (-) SetToBag({p}) /\ UNCHANGED faults
       \/ Fault /\ UNCHANGED net                             \* a copy arrives
    /\ UNCHANGED <<bootstrap, nodeVars, draws, begun>>

Lose(p) ==
    /\ Fault
    /\ net' = net (-) SetToBag({p})
    /\ UNCHANGED <<bootstrap, nodeVars, clientVars, crawlerVars, draws, accepted, begun>>

(* The process ends and starts again, with its key or with a new one.           *)
Restart(n) ==
    /\ Fault
    /\ \E k \in 0..1 : id' = [id EXCEPT ![n] = @ + k]
    /\ sessions' = [sessions EXCEPT ![n] = None]
    /\ pending_requests' = [pending_requests EXCEPT ![n] = None]
    /\ sent_challenges' = [sent_challenges EXCEPT ![n] = None]
    /\ spawned' = [spawned EXCEPT ![n] = <<>>]
    /\ queued_peers' = [queued_peers EXCEPT ![n] =
           [i \in DOMAIN bootstrap[n] |-> <<bootstrap[n][i], 0>>]]
    /\ discovered_ids' = [discovered_ids EXCEPT ![n] = {}]
    /\ emitted' = [emitted EXCEPT ![n] = <<>>]
    /\ UNCHANGED <<bootstrap, running, draws, net, accepted, begun>>

(* stop(): the socket is closed. What was spawned still runs, but sends nothing *)
(* and changes nothing that is read again. A packet that was received before    *)
(* and is handled after it is one delivered just before it.                     *)
Stop(n) ==
    /\ Fault
    /\ running[n]
    /\ running' = [running EXCEPT ![n] = FALSE]
    /\ UNCHANGED <<bootstrap, id, clientVars, crawlerVars, draws, net, accepted, begun>>

Goes == \/ \E n \in Clients : Round(n) \/ RunSpawned(n)
        \/ \E p \in BagToSet(net) : Deliver(p)

Fails == \/ \E n \in Clients : Restart(n) \/ Stop(n)
         \/ \E p \in BagToSet(net) : Lose(p)

Next == Goes \/ Fails

Spec == Init /\ [][Next]_vars

(* The loops go on while there is something to do: the crawler's rounds come    *)
(* again and again, what is spawned runs, what is on its way arrives.           *)
FairSpec == Spec /\ WF_vars(Goes)

--------------------------------------------------------------------------------
(* Properties                                                                   *)

(* Every session a node accepts was begun by the node it takes for its peer,    *)
(* for this node, and no two sessions it accepts come from one handshake,       *)
(* however often that arrives (the handshake branch of handle_packet checks the *)
(* signature over its own challenge and forgets the challenge).                 *)
Agreement ==
    /\ ToSet(accepted) \subseteq begun
    /\ Cardinality({h.secret : h \in ToSet(accepted)}) = Len(accepted)

(* When the sessions of two nodes come from one handshake, each writes with the *)
(* key that the other reads with, and knows the other's identity                *)
(* (send_findnode and the handshake branch of handle_packet).                   *)
KeysMirror ==
    \A n, m \in Endpoints :
        sessions[n][m] # <<>> /\ sessions[m][n] # <<>> =>
            LET s == sessions[n][m][1]
                t == sessions[m][n][1]
            IN  s.write_key.of = t.write_key.of =>
                    /\ s.write_key = t.read_key /\ s.read_key = t.write_key
                    /\ s.remote = Self(m) /\ t.remote = Self(n)

(* A peer is handed to the callback at most once, is one the crawler marked as  *)
(* discovered, and has the required fork id (emit_peer), whatever is reported   *)
(* again, arrives twice or is queried again.                                    *)
EmittedOnce ==
    \A n \in Endpoints :
        /\ Cardinality(ToSet(emitted[n])) = Len(emitted[n])
        /\ ToSet(emitted[n]) = discovered_ids[n]
        /\ \A peer \in discovered_ids[n] : required_fork_id \in {"", ForkOf[peer[1]]}

(* When only one of two nodes queries the other and nothing is lost or doubled, *)
(* the one learns of the other: the message that cannot be read, the challenge, *)
(* the handshake and the answer follow one another.                             *)
LearnsWhenQuiet ==
    <>(\/ faults # 0
       \/ \A n, m \in Clients :
            /\ bootstrap[n] = <<m>> /\ bootstrap[m] = <<>>
            /\ required_fork_id \in {"", ForkOf[m]}
            => <<m, 0>> \in discovered_ids[n])

================================================================================
