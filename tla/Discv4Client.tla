----------------------------- MODULE Discv4Client -----------------------------
(***************************************************************************)
(* The discovery v4 client (src/discv4/discv4_client.cpp): bonding by PING *)
(* and PONG, ENR requests, FIND_NODE, and the table of pending replies     *)
(* that the receive loop matches incoming packets against.                 *)
(*                                                                         *)
(* The client runs coroutines on one io_context thread.  A coroutine is    *)
(* suspended while a datagram is being sent and while it waits for a reply *)
(* or its timeout; a step of the model is what runs between two such       *)
(* points, or the handling of one packet.  Packets are lost, delayed,      *)
(* repeated and reordered at will: a remote node may answer any request    *)
(* ever sent to it, at any time, or send what nobody asked for.            *)
(*                                                                         *)
(* A request's hash covers its type, its expiry in whole seconds and, for  *)
(* a PING, its destination, so two PINGs to one endpoint within a second   *)
(* carry the same hash; the model uses the second as the hash.             *)
(*                                                                         *)
(* An operator named X_Y is X with the defect Y, for showing that the      *)
(* properties would notice it.                                             *)
(***************************************************************************)
EXTENDS Naturals

CONSTANTS
    Endpoints,      \* ip:port of the nodes there are
    Bootnodes,      \* those find_node is called for at the start
    Rounds,         \* how many PINGs of one endpoint are answered: 1..Rounds
    MaxTime         \* seconds

ASSUME DiscoveryAssumption == /\ Bootnodes \subseteq Endpoints
                              /\ Rounds \in Nat
                              /\ MaxTime \in Nat

VARIABLES
    running,        \* running_
    receiving,      \* the receive loop has not ended
    now,            \* the clock, in seconds
    bonded,         \* bonded_set_
    discovered,     \* discovered_set_
    pending,        \* pending_replies_: the coroutine an entry belongs to
    pc,             \* where each coroutine is suspended
    req,            \* the request it is busy with
    hash,           \* expected_hash of that request
    slot,           \* what its reply slot holds
    delivered,      \* what peer_callback_ was given for an endpoint
    sent,           \* history variable: PINGs and ENR requests sent
    proven          \* history variable: what endpoints have really shown

clientVars == <<running, receiving, now, bonded, discovered, pending, pc, req,
                hash, slot, delivered, sent, proven>>

(* The coroutines: find_node for a bootnode, the answer to a PING, and the *)
(* walk handle_neighbours spawns for a new endpoint.                       *)
Coroutines == [kind : {"boot"}, ep : Bootnodes, n : {0}]
              \cup [kind : {"answer"}, ep : Endpoints, n : 1..Rounds]
              \cup [kind : {"walk"}, ep : Endpoints, n : {0}]

(* bond: ensure_bond before the ENR request.  rebond: ensure_bond inside   *)
(* find_node.  find: FIND_NODE itself.                                     *)
Requests == {"bond", "enr", "rebond", "find"}

(* The packet type a request waits for, the last part of reply_key().      *)
ReplyType(r) == CASE r \in {"bond", "rebond"} -> "pong"
                  [] r = "enr"                -> "enr"
                  [] r = "find"               -> "neighbours"

Keys == Endpoints \X {"pong", "enr", "neighbours"}

Key(t, r) == <<t.ep, ReplyType(r)>>

Nobody == [kind |-> "none"]

Init ==
    /\ running = TRUE /\ receiving = TRUE /\ now = 0
    /\ bonded = {} /\ discovered = {}
    /\ pending   = [k \in Keys |-> Nobody]
    /\ pc        = [t \in Coroutines |-> IF t.kind = "boot" THEN "spawned" ELSE "idle"]
    /\ req       = [t \in Coroutines |-> "none"]
    /\ hash      = [t \in Coroutines |-> 0]
    /\ slot      = [t \in Coroutines |-> "empty"]
    /\ delivered = [e \in Endpoints |-> "none"]
    /\ sent = {} /\ proven = {}

-----------------------------------------------------------------------------
(* find_node for endpoint e, with B the bonded endpoints.                  *)
FindNode(e, B) == IF e \in B THEN "find" ELSE "rebond"

(* What a coroutine does first, and what follows each request.  The public *)
(* operations give up at once when the client has stopped, except that     *)
(* find_node does not look again after ensure_bond.                        *)
FirstRequest(t) ==
    CASE ~running         -> "none"
      [] t.kind = "walk"  -> IF t.ep \in bonded THEN "enr" ELSE "bond"
      [] OTHER            -> FindNode(t.ep, bonded)

NextRequest(t, B) ==
    CASE req[t] = "rebond"           -> "find"
      [] req[t] = "find" \/ ~running -> "none"
      [] req[t] = "bond"             -> "enr"
      [] req[t] = "enr"              -> FindNode(t.ep, B)

(* The coroutine goes on with request r, or ends: it registers the pending *)
(* reply, over an entry that may be there, and starts to send.  P is the   *)
(* table as the previous request left it.                                  *)
GoOn(t, r, P) ==
    /\ IF r = "none"
       THEN /\ pending' = P
            /\ pc' = [pc EXCEPT ![t] = "done"]
            /\ UNCHANGED <<req, hash, slot, sent>>
       ELSE /\ pending' = [P EXCEPT ![Key(t, r)] = t]
            /\ pc'   = [pc EXCEPT ![t] = "send"]
            /\ req'  = [req EXCEPT ![t] = r]
            /\ hash' = [hash EXCEPT ![t] = now]
            /\ slot' = [slot EXCEPT ![t] = "empty"]
            /\ sent' = IF r = "find" THEN sent
                       ELSE sent \cup {<<t.ep, ReplyType(r), now>>}

(* A peer whose node did not answer is not reported.                       *)
Deliver_AnsweredOnly(t, r, found) ==
    delivered' = IF t.kind = "walk" /\ req[t] = "enr" /\ slot[t] # "empty"
                 THEN [delivered EXCEPT ![t.ep] = found]
                 ELSE delivered

(* A walk reports its peer once the ENR request is settled or given up.    *)
Deliver(t, r, found) ==
    delivered' = IF /\ t.kind = "walk"
                    /\ req[t] \in {"none", "bond", "enr"}
                    /\ r \notin {"bond", "enr"}
                 THEN [delivered EXCEPT ![t.ep] = found]
                 ELSE delivered

(* A spawned coroutine starts to run.                                      *)
Starts(t) ==
    /\ pc[t] = "spawned"
    /\ GoOn(t, FirstRequest(t), pending)
    /\ Deliver(t, FirstRequest(t), "peer")
    /\ UNCHANGED <<running, receiving, now, bonded, discovered, proven>>

(* The answer to a PING begins with a PONG.                                *)
PongSent(t, ok) ==
    /\ pc[t] = "pong"
    /\ IF ok THEN GoOn(t, FirstRequest(t), pending)
             ELSE GoOn(t, "none", pending)
    /\ UNCHANGED <<running, receiving, now, bonded, discovered, delivered, proven>>

Erased(t) == [pending EXCEPT ![Key(t, req[t])] = Nobody]

(* The entry of a request that could not be sent stays.                    *)
SendFails_EntryKept(t) ==
    /\ pc[t] = "send"
    /\ LET r == NextRequest(t, bonded)
       IN  GoOn(t, r, pending) /\ Deliver(t, r, "peer")
    /\ UNCHANGED <<running, receiving, now, bonded, discovered, proven>>

(* The request could not be sent.                                          *)
SendFails(t) ==
    /\ pc[t] = "send"
    /\ LET r == NextRequest(t, bonded)
       IN  GoOn(t, r, Erased(t)) /\ Deliver(t, r, "peer")
    /\ UNCHANGED <<running, receiving, now, bonded, discovered, proven>>

SendDone(t) ==
    /\ pc[t] = "send"
    /\ pc' = [pc EXCEPT ![t] = "wait"]
    /\ UNCHANGED <<running, receiving, now, bonded, discovered, pending, req,
                   hash, slot, delivered, sent, proven>>

(* Only the owner of the entry is woken.                                   *)
Wakes_OwnerOnly(t) ==
    /\ pc[t] = "wait"
    /\ pending[Key(t, req[t])] = t
    /\ bonded' = IF ReplyType(req[t]) = "pong" /\ slot[t] # "empty"
                 THEN bonded \cup {t.ep}
                 ELSE bonded
    /\ LET r == NextRequest(t, bonded')
       IN  /\ GoOn(t, r, Erased(t))
           /\ Deliver(t, r, "peer")
    /\ UNCHANGED <<running, receiving, now, discovered, proven>>

(* The wait is over: the timer was cancelled, or it expired.               *)
Wakes(t) ==
    /\ pc[t] = "wait"
    /\ bonded' = IF ReplyType(req[t]) = "pong" /\ slot[t] # "empty"
                 THEN bonded \cup {t.ep}
                 ELSE bonded
    /\ LET r == NextRequest(t, bonded')
       IN  /\ GoOn(t, r, Erased(t))
           /\ Deliver(t, r, IF req[t] = "enr" /\ slot[t] = "fork"
                            THEN "peer with fork id" ELSE "peer")
    /\ UNCHANGED <<running, receiving, now, discovered, proven>>

-----------------------------------------------------------------------------
(* A packet that completed its receive before stop() is still handled.     *)
Receive == receiving /\ receiving' = running

(* The hash is not compared.                                               *)
Matches_AnyHash(k, h) == pending[k] # Nobody

(* handle_pong and handle_enr_response: without an entry or with another   *)
(* hash the packet is dropped.                                             *)
Matches(k, h) == pending[k] # Nobody /\ hash[pending[k]] = h

Fill(k, h, content) ==
    slot' = IF Matches(k, h) THEN [slot EXCEPT ![pending[k]] = content] ELSE slot

(* What a packet shows if it answers a request that was really sent.       *)
Shows(e, type, h, what) ==
    proven' = IF <<e, type, h>> \in sent THEN proven \cup {<<e, what>>} ELSE proven

HandlePong(e, h) ==
    /\ Receive
    /\ Fill(<<e, "pong">>, h, "pong")
    /\ Shows(e, "pong", h, "pong")
    /\ UNCHANGED <<running, now, bonded, discovered, pending, pc, req, hash,
                   delivered, sent>>

HandleEnrResponse(e, h, content) ==
    /\ Receive
    /\ Fill(<<e, "enr">>, h, content)
    /\ Shows(e, "enr", h, content)
    /\ UNCHANGED <<running, now, bonded, discovered, pending, pc, req, hash,
                   delivered, sent>>

(* handle_ping: the sender is bonded, a PONG and a FIND_NODE are sent.     *)
HandlePing(t) ==
    /\ Receive
    /\ t.kind = "answer" /\ pc[t] = "idle"
    /\ pc' = [pc EXCEPT ![t] = "pong"]
    /\ bonded' = bonded \cup {t.ep}
    /\ proven' = proven \cup {<<t.ep, "ping">>}
    /\ UNCHANGED <<running, now, discovered, pending, req, hash, slot,
                   delivered, sent>>

(* handle_neighbours: every endpoint met for the first time gets a walk.   *)
HandleNeighbours(e, S) ==
    /\ Receive
    /\ LET new == IF pending[<<e, "neighbours">>] # Nobody /\ running
                  THEN S \ discovered ELSE {}
       IN  /\ discovered' = discovered \cup new
           /\ pc' = [t \in Coroutines |-> IF t.kind = "walk" /\ t.ep \in new
                                          THEN "spawned" ELSE pc[t]]
    /\ UNCHANGED <<running, now, bonded, pending, req, hash, slot, delivered,
                   sent, proven>>

(* stop(): the timers are cancelled, the table cleared, the socket closed. *)
Stop ==
    /\ running
    /\ running' = FALSE
    /\ pending' = [k \in Keys |-> Nobody]
    /\ UNCHANGED <<receiving, now, bonded, discovered, pc, req, hash, slot,
                   delivered, sent, proven>>

(* The receive loop sees the closed socket.                                *)
LoopEnds ==
    /\ receiving /\ ~running
    /\ receiving' = FALSE
    /\ UNCHANGED <<running, now, bonded, discovered, pending, pc, req, hash,
                   slot, delivered, sent, proven>>

Tick ==
    /\ now < MaxTime
    /\ now' = now + 1
    /\ UNCHANGED <<running, receiving, bonded, discovered, pending, pc, req,
                   hash, slot, delivered, sent, proven>>

Next ==
    \/ \E t \in Coroutines : Starts(t) \/ SendFails(t) \/ SendDone(t) \/ Wakes(t)
    \/ \E t \in Coroutines, ok \in BOOLEAN : PongSent(t, ok)
    \/ \E e \in Endpoints, h \in 0..MaxTime : HandlePong(e, h)
    \/ \E e \in Endpoints, h \in 0..MaxTime, content \in {"record", "fork"} :
          HandleEnrResponse(e, h, content)
    \/ \E t \in Coroutines : HandlePing(t)
    \/ \E e \in Endpoints, S \in SUBSET Endpoints : HandleNeighbours(e, S)
    \/ Stop
    \/ LoopEnds
    \/ Tick

Spec == Init /\ [][Next]_clientVars

(* A spawned coroutine is run, a send completes one way or the other, and  *)
(* every wait has a timer.                                                 *)
Progress(t) == \/ Starts(t) \/ Wakes(t) \/ SendFails(t) \/ SendDone(t)
               \/ \E ok \in BOOLEAN : PongSent(t, ok)

FairSpec == Spec /\ \A t \in Coroutines : WF_clientVars(Progress(t))

-----------------------------------------------------------------------------
(* The state is well-typed.                                                *)
TypeOK ==
    /\ running \in BOOLEAN /\ receiving \in BOOLEAN /\ now \in 0..MaxTime
    /\ bonded \subseteq Endpoints /\ discovered \subseteq Endpoints
    /\ pending \in [Keys -> Coroutines \cup {Nobody}]
    /\ pc \in [Coroutines -> {"idle", "spawned", "pong", "send", "wait", "done"}]
    /\ req \in [Coroutines -> Requests \cup {"none"}]
    /\ hash \in [Coroutines -> 0..MaxTime]
    /\ slot \in [Coroutines -> {"empty", "pong", "record", "fork"}]
    /\ delivered \in [Endpoints -> {"none", "peer", "peer with fork id"}]

InFlight(t) == pc[t] \in {"send", "wait"}

(* No entry outlives its request: an entry of pending_replies_ belongs to  *)
(* a coroutine that is busy with a request of just this key, although      *)
(* coroutines overwrite and erase each other's entries and stop() clears   *)
(* the table under them.                                                   *)
EntriesOwned ==
    \A k \in Keys : pending[k] # Nobody =>
        InFlight(pending[k]) /\ Key(pending[k], req[pending[k]]) = k

(* An endpoint is bonded only if it sent a PING, or answered a PING that   *)
(* was sent to it with that PING's own hash: a late, repeated or invented  *)
(* PONG bonds nobody.                                                      *)
BondsProven ==
    \A e \in bonded : <<e, "ping">> \in proven \/ <<e, "pong">> \in proven

(* A peer is reported with a fork id only if its node sent a record with   *)
(* one in answer to an ENR request that was sent to it.                    *)
ForkIdsProven ==
    \A e \in Endpoints :
        delivered[e] = "peer with fork id" => <<e, "fork">> \in proven

(* Every coroutine that was spawned ends: no reply that was lost, dropped  *)
(* or matched with another request's entry leaves one waiting.             *)
CoroutinesEnd ==
    \A t \in Coroutines : pc[t] # "idle" ~> pc[t] = "done"

(* Every endpoint that was met is reported to the caller, answering or     *)
(* not, even if the client is stopped on the way.                          *)
DiscoveredDelivered ==
    \A e \in Endpoints : e \in discovered ~> delivered[e] # "none"

===============================================================================
