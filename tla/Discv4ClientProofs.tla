-------------------------- MODULE Discv4ClientProofs --------------------------
(***************************************************************************)
(* Safety of the discovery v4 client for every set of endpoints, number of *)
(* PINGs and length of time.                                               *)
(*                                                                         *)
(* That an endpoint is bonded for a reason does not follow from the bonded *)
(* endpoints alone.  IInv carries the reason along the way of a PONG: the  *)
(* request's hash was sent (HashSent), the entry the PONG is matched with  *)
(* belongs to a request of just that type and endpoint (EntriesOwned), and *)
(* so whatever a reply slot holds was shown by the endpoint (SlotProven).  *)
(***************************************************************************)
EXTENDS Discv4Client, TLAPS

HashSent ==
    \A t \in Coroutines : InFlight(t) =>
        /\ req[t] \in Requests
        /\ req[t] # "find" => <<t.ep, ReplyType(req[t]), hash[t]>> \in sent

SlotProven ==
    \A t \in Coroutines : InFlight(t) /\ slot[t] # "empty" =>
        /\ <<t.ep, slot[t]>> \in proven
        /\ slot[t] = "pong" <=> ReplyType(req[t]) = "pong"

(* No walk of an endpoint has begun before the endpoint is met.            *)
WalksOnce ==
    \A t \in Coroutines : t.kind = "walk" /\ t.ep \notin discovered => pc[t] = "idle"

IInv == TypeOK /\ EntriesOwned /\ HashSent /\ SlotProven /\ BondsProven
        /\ ForkIdsProven /\ WalksOnce

-----------------------------------------------------------------------------
(* A coroutine works for an endpoint, and is not the absent one.           *)
LEMMA CoroutineFacts ==
    ASSUME NEW t \in Coroutines
    PROVE  t.ep \in Endpoints /\ t # Nobody /\ t.kind \in {"boot", "answer", "walk"}
<1>1. CASE t \in [kind : {"boot"}, ep : Bootnodes, n : {0}]
  BY <1>1, DiscoveryAssumption DEF Nobody
<1>2. CASE t \in [kind : {"answer"}, ep : Endpoints, n : 1..Rounds]
  BY <1>2 DEF Nobody
<1>3. CASE t \in [kind : {"walk"}, ep : Endpoints, n : {0}]
  BY <1>3 DEF Nobody
<1>4. QED BY <1>1, <1>2, <1>3 DEF Coroutines

(* Every request waits for a reply under a key of the table.               *)
LEMMA KeyFacts ==
    ASSUME NEW t \in Coroutines, NEW r \in Requests
    PROVE  /\ ReplyType(r) \in {"pong", "enr", "neighbours"}
           /\ Key(t, r) \in Keys
<1>1. ReplyType(r) \in {"pong", "enr", "neighbours"}
  BY DEF ReplyType, Requests
<1>2. QED BY <1>1, CoroutineFacts DEF Key, Keys

LEMMA InitEstablishesIInv == Init => IInv
<1> SUFFICES ASSUME Init PROVE IInv OBVIOUS
<1>1. TypeOK
  BY DiscoveryAssumption DEF Init, TypeOK, Nobody
<1>2. EntriesOwned
  BY DEF Init, EntriesOwned
<1>3. \A t \in Coroutines : ~InFlight(t)
  BY DEF Init, InFlight
<1>4. HashSent /\ SlotProven
  BY <1>3 DEF HashSent, SlotProven
<1>5. BondsProven /\ ForkIdsProven
  BY DEF Init, BondsProven, ForkIdsProven
<1>6. WalksOnce
  BY DEF Init, WalksOnce
<1>7. QED BY <1>1, <1>2, <1>4, <1>5, <1>6 DEF IInv

-----------------------------------------------------------------------------
(* Going on to a next request keeps the parts of IInv about requests, if   *)
(* the table P holds no entry of t for another key.                        *)
LEMMA GoOnKeeps ==
    ASSUME IInv,
           NEW t \in Coroutines, NEW r \in Requests \cup {"none"},
           NEW P \in [Keys -> Coroutines \cup {Nobody}],
           \A k \in Keys : P[k] # Nobody => P[k] = pending[k] /\ P[k] # t,
           GoOn(t, r, P),
           now' = now, proven \subseteq proven'
    PROVE  /\ pending' \in [Keys -> Coroutines \cup {Nobody}]
           /\ pc' \in [Coroutines -> {"idle", "spawned", "pong", "send", "wait", "done"}]
           /\ req' \in [Coroutines -> Requests \cup {"none"}]
           /\ hash' \in [Coroutines -> 0..MaxTime]
           /\ slot' \in [Coroutines -> {"empty", "pong", "record", "fork"}]
           /\ EntriesOwned' /\ HashSent' /\ SlotProven'
<1> USE DEF IInv
<1>1. CASE r = "none"
  <2>1. /\ pending' = P
        /\ pc' = [pc EXCEPT ![t] = "done"]
        /\ req' = req /\ hash' = hash /\ slot' = slot /\ sent' = sent
    BY <1>1 DEF GoOn
  <2>2. /\ pc'[t] = "done"
        /\ \A u \in Coroutines : u # t => pc'[u] = pc[u]
        /\ pc' \in [Coroutines -> {"idle", "spawned", "pong", "send", "wait", "done"}]
    BY <2>1, Zenon DEF TypeOK
  <2>3. \A u \in Coroutines : InFlight(u)' => u # t /\ InFlight(u)
    BY <2>2 DEF InFlight
  <2>4. EntriesOwned'
    <3> SUFFICES ASSUME NEW k \in Keys, P[k] # Nobody
                 PROVE  InFlight(P[k])' /\ Key(P[k], req[P[k]]) = k
      BY <2>1 DEF EntriesOwned, InFlight
    <3>1. P[k] = pending[k] /\ P[k] # t /\ P[k] \in Coroutines
      OBVIOUS
    <3>2. QED BY <2>2, <3>1 DEF EntriesOwned, InFlight
  <2>5. HashSent'
    BY <2>1, <2>3 DEF HashSent
  <2>6. SlotProven'
    BY <2>1, <2>3 DEF SlotProven
  <2>7. QED BY <2>1, <2>2, <2>4, <2>5, <2>6, Zenon DEF TypeOK
<1>2. CASE r \in Requests
  <2>0. r # "none"
    BY <1>2 DEF Requests
  <2>1. /\ pending' = [P EXCEPT ![Key(t, r)] = t]
        /\ pc'   = [pc EXCEPT ![t] = "send"]
        /\ req'  = [req EXCEPT ![t] = r]
        /\ hash' = [hash EXCEPT ![t] = now]
        /\ slot' = [slot EXCEPT ![t] = "empty"]
        /\ sent' = IF r = "find" THEN sent
                   ELSE sent \cup {<<t.ep, ReplyType(r), now>>}
    BY <2>0 DEF GoOn
  <2>2. Key(t, r) \in Keys
    BY <1>2, KeyFacts
  <2>3. /\ pc'[t] = "send" /\ req'[t] = r /\ hash'[t] = now /\ slot'[t] = "empty"
        /\ \A u \in Coroutines : u # t =>
              /\ pc'[u] = pc[u] /\ req'[u] = req[u] /\ hash'[u] = hash[u]
              /\ slot'[u] = slot[u]
    BY <2>1, Zenon DEF TypeOK
  <2>4. /\ pending' \in [Keys -> Coroutines \cup {Nobody}]
        /\ pc' \in [Coroutines -> {"idle", "spawned", "pong", "send", "wait", "done"}]
        /\ req' \in [Coroutines -> Requests \cup {"none"}]
        /\ hash' \in [Coroutines -> 0..MaxTime]
        /\ slot' \in [Coroutines -> {"empty", "pong", "record", "fork"}]
    BY <2>1, Zenon DEF TypeOK
  <2>5. EntriesOwned'
    <3> SUFFICES ASSUME NEW k \in Keys, pending'[k] # Nobody
                 PROVE  InFlight(pending[k])' /\ Key(pending[k], req[pending[k]])' = k
      BY DEF EntriesOwned
    <3>1. CASE k = Key(t, r)
      <4>1. pending'[k] = t
        BY <2>1, <2>2, <3>1
      <4>2. QED BY <2>3, <3>1, <4>1 DEF InFlight, Key
    <3>2. CASE k # Key(t, r)
      <4>1. pending'[k] = P[k]
        BY <2>1, <3>2
      <4>2. P[k] = pending[k] /\ P[k] # t /\ P[k] \in Coroutines
        BY <4>1
      <4>3. QED BY <2>3, <4>1, <4>2 DEF EntriesOwned, InFlight, Key
    <3>3. QED BY <3>1, <3>2
  <2>6. HashSent'
    <3> SUFFICES ASSUME NEW u \in Coroutines, InFlight(u)'
                 PROVE  /\ req'[u] \in Requests
                        /\ req'[u] # "find" =>
                             <<u.ep, ReplyType(req'[u]), hash'[u]>> \in sent'
      BY DEF HashSent
    <3>1. CASE u = t
      BY <1>2, <2>1, <2>3, <3>1
    <3>2. CASE u # t
      <4>1. InFlight(u) /\ req'[u] = req[u] /\ hash'[u] = hash[u]
        BY <2>3, <3>2 DEF InFlight
      <4>2. sent \subseteq sent'
        BY <2>1
      <4>3. QED BY <4>1, <4>2 DEF HashSent
    <3>3. QED BY <3>1, <3>2
  <2>7. SlotProven'
    BY <2>3 DEF SlotProven, InFlight
  <2>8. QED BY <2>4, <2>5, <2>6, <2>7
<1>3. QED BY <1>1, <1>2

(* A coroutine with no request in flight has no entry.                     *)
LEMMA NoEntryOfIdle ==
    ASSUME IInv, NEW t \in Coroutines, ~InFlight(t)
    PROVE  /\ pending \in [Keys -> Coroutines \cup {Nobody}]
           /\ \A k \in Keys : pending[k] # Nobody => pending[k] # t
BY Zenon DEF IInv, EntriesOwned, TypeOK

(* Without its entry, a coroutine has none left.                           *)
LEMMA NoEntryOnceErased ==
    ASSUME IInv, NEW t \in Coroutines, InFlight(t)
    PROVE  /\ Erased(t) \in [Keys -> Coroutines \cup {Nobody}]
           /\ \A k \in Keys : Erased(t)[k] # Nobody =>
                 Erased(t)[k] = pending[k] /\ Erased(t)[k] # t
<1>1. req[t] \in Requests
  BY Zenon DEF IInv, HashSent
<1>2. Key(t, req[t]) \in Keys
  BY <1>1, KeyFacts
<1>3. pending \in [Keys -> Coroutines \cup {Nobody}]
  BY Zenon DEF IInv, TypeOK
<1>4. Erased(t) \in [Keys -> Coroutines \cup {Nobody}]
  BY <1>2, <1>3 DEF Erased
<1>5. ASSUME NEW k \in Keys, Erased(t)[k] # Nobody
      PROVE  Erased(t)[k] = pending[k] /\ Erased(t)[k] # t
  <2>1. k # Key(t, req[t])
    BY <1>2, <1>3, <1>5 DEF Erased
  <2>2. Erased(t)[k] = pending[k]
    BY <1>3, <2>1 DEF Erased
  <2>3. QED BY <1>5, <2>1, <2>2 DEF IInv, EntriesOwned
<1>6. QED BY <1>4, <1>5

(* What a coroutine does next is a request, or none.                       *)
LEMMA FollowingRequests ==
    ASSUME IInv, NEW t \in Coroutines
    PROVE  /\ FirstRequest(t) \in Requests \cup {"none"}
           /\ InFlight(t) => \A B : NextRequest(t, B) \in Requests \cup {"none"}
<1>1. FirstRequest(t) \in Requests \cup {"none"}
  BY DEF FirstRequest, FindNode, Requests
<1>2. ASSUME InFlight(t), NEW B
      PROVE  NextRequest(t, B) \in Requests \cup {"none"}
  <2>1. req[t] \in Requests
    BY <1>2, Zenon DEF IInv, HashSent
  <2>2. QED BY <2>1 DEF NextRequest, FindNode, Requests
<1>3. QED BY <1>1, <1>2

(* A coroutine that goes on was not idle.                                  *)
LEMMA WalksOnceKept ==
    ASSUME IInv, NEW t \in Coroutines, NEW r, NEW P,
           GoOn(t, r, P), pc[t] # "idle", discovered' = discovered
    PROVE  WalksOnce'
<1>1. PICK x : pc' = [pc EXCEPT ![t] = x]
  BY DEF GoOn
<1>2. \A u \in Coroutines : u # t => pc'[u] = pc[u]
  BY <1>1, Zenon DEF IInv, TypeOK
<1>3. QED BY <1>2 DEF IInv, WalksOnce

(* Reporting a peer without a fork id claims nothing.                      *)
LEMMA DeliverKeeps ==
    ASSUME IInv, NEW t \in Coroutines, NEW r,
           NEW found \in {"peer", "peer with fork id"},
           found = "peer with fork id" => <<t.ep, "fork">> \in proven,
           Deliver(t, r, found), proven' = proven
    PROVE  /\ delivered' \in [Endpoints -> {"none", "peer", "peer with fork id"}]
           /\ ForkIdsProven'
<1>1. \/ delivered' = delivered
      \/ delivered' = [delivered EXCEPT ![t.ep] = found]
  BY Zenon DEF Deliver
<1>2. delivered \in [Endpoints -> {"none", "peer", "peer with fork id"}]
  BY Zenon DEF IInv, TypeOK
<1>3. QED BY <1>1, <1>2, CoroutineFacts, Zenon DEF IInv, ForkIdsProven

-----------------------------------------------------------------------------
LEMMA StartsKeepsIInv ==
    ASSUME IInv, NEW t \in Coroutines, Starts(t)
    PROVE  IInv'
<1>1. ~InFlight(t)
  BY DEF Starts, InFlight
<1>2. /\ GoOn(t, FirstRequest(t), pending)
      /\ Deliver(t, FirstRequest(t), "peer")
      /\ UNCHANGED <<running, receiving, now, bonded, discovered, proven>>
  BY DEF Starts
<1>3. /\ pending' \in [Keys -> Coroutines \cup {Nobody}]
      /\ pc' \in [Coroutines -> {"idle", "spawned", "pong", "send", "wait", "done"}]
      /\ req' \in [Coroutines -> Requests \cup {"none"}]
      /\ hash' \in [Coroutines -> 0..MaxTime]
      /\ slot' \in [Coroutines -> {"empty", "pong", "record", "fork"}]
      /\ EntriesOwned' /\ HashSent' /\ SlotProven'
  BY <1>1, <1>2, NoEntryOfIdle, FollowingRequests, GoOnKeeps
<1>4. /\ delivered' \in [Endpoints -> {"none", "peer", "peer with fork id"}]
      /\ ForkIdsProven'
  BY <1>2, DeliverKeeps, Zenon
<1>5. TypeOK'
  BY <1>2, <1>3, <1>4, Zenon DEF IInv, TypeOK
<1>6. BondsProven'
  BY <1>2, Zenon DEF IInv, BondsProven
<1>7. WalksOnce'
  BY <1>2, WalksOnceKept DEF Starts
<1>8. QED BY <1>3, <1>4, <1>5, <1>6, <1>7, Zenon DEF IInv

LEMMA PongSentKeepsIInv ==
    ASSUME IInv, NEW t \in Coroutines, NEW ok \in BOOLEAN, PongSent(t, ok)
    PROVE  IInv'
<1>1. ~InFlight(t)
  BY DEF PongSent, InFlight
<1>2. PICK r \in Requests \cup {"none"} : GoOn(t, r, pending)
  BY FollowingRequests DEF PongSent
<1>3. UNCHANGED <<running, receiving, now, bonded, discovered, delivered, proven>>
  BY DEF PongSent
<1>4. /\ pending' \in [Keys -> Coroutines \cup {Nobody}]
      /\ pc' \in [Coroutines -> {"idle", "spawned", "pong", "send", "wait", "done"}]
      /\ req' \in [Coroutines -> Requests \cup {"none"}]
      /\ hash' \in [Coroutines -> 0..MaxTime]
      /\ slot' \in [Coroutines -> {"empty", "pong", "record", "fork"}]
      /\ EntriesOwned' /\ HashSent' /\ SlotProven'
  BY <1>1, <1>2, <1>3, NoEntryOfIdle, GoOnKeeps
<1>5. TypeOK'
  BY <1>3, <1>4, Zenon DEF IInv, TypeOK
<1>6. BondsProven' /\ ForkIdsProven'
  BY <1>3, Zenon DEF IInv, BondsProven, ForkIdsProven
<1>7. WalksOnce'
  BY <1>2, <1>3, WalksOnceKept DEF PongSent
<1>8. QED BY <1>4, <1>5, <1>6, <1>7 DEF IInv

LEMMA SendFailsKeepsIInv ==
    ASSUME IInv, NEW t \in Coroutines, SendFails(t)
    PROVE  IInv'
<1> DEFINE r == NextRequest(t, bonded)
<1>1. InFlight(t)
  BY DEF SendFails, InFlight
<1>2. /\ GoOn(t, r, Erased(t))
      /\ Deliver(t, r, "peer")
      /\ UNCHANGED <<running, receiving, now, bonded, discovered, proven>>
  BY DEF SendFails
<1>3. r \in Requests \cup {"none"}
  BY <1>1, FollowingRequests
<1> HIDE DEF r
<1>4. /\ pending' \in [Keys -> Coroutines \cup {Nobody}]
      /\ pc' \in [Coroutines -> {"idle", "spawned", "pong", "send", "wait", "done"}]
      /\ req' \in [Coroutines -> Requests \cup {"none"}]
      /\ hash' \in [Coroutines -> 0..MaxTime]
      /\ slot' \in [Coroutines -> {"empty", "pong", "record", "fork"}]
      /\ EntriesOwned' /\ HashSent' /\ SlotProven'
  BY <1>1, <1>2, <1>3, NoEntryOnceErased, GoOnKeeps
<1>5. /\ delivered' \in [Endpoints -> {"none", "peer", "peer with fork id"}]
      /\ ForkIdsProven'
  BY <1>2, DeliverKeeps, Zenon
<1>6. TypeOK'
  BY <1>2, <1>4, <1>5, Zenon DEF IInv, TypeOK
<1>7. BondsProven'
  BY <1>2, Zenon DEF IInv, BondsProven
<1>8. WalksOnce'
  BY <1>2, WalksOnceKept DEF SendFails
<1>9. QED BY <1>4, <1>5, <1>6, <1>7, <1>8, Zenon DEF IInv

LEMMA SendDoneKeepsIInv ==
    ASSUME IInv, NEW t \in Coroutines, SendDone(t)
    PROVE  IInv'
<1>1. /\ pc[t] = "send"
      /\ pc' = [pc EXCEPT ![t] = "wait"]
      /\ UNCHANGED <<running, receiving, now, bonded, discovered, pending, req,
                     hash, slot, delivered, sent, proven>>
  BY DEF SendDone
<1>2. /\ pc' \in [Coroutines -> {"idle", "spawned", "pong", "send", "wait", "done"}]
      /\ pc'[t] = "wait"
      /\ \A u \in Coroutines : u # t => pc'[u] = pc[u]
  BY <1>1, Zenon DEF IInv, TypeOK
<1>3. \A u \in Coroutines : InFlight(u)' <=> InFlight(u)
  BY <1>1, <1>2 DEF InFlight
<1>4. TypeOK'
  BY <1>1, <1>2, Zenon DEF IInv, TypeOK
<1>5. EntriesOwned'
  <2>1. pending \in [Keys -> Coroutines \cup {Nobody}]
    BY Zenon DEF IInv, TypeOK
  <2>2. QED BY <1>1, <1>3, <2>1 DEF IInv, EntriesOwned, Key
<1>6. HashSent'
  BY <1>1, <1>3 DEF IInv, HashSent
<1>7. SlotProven'
  BY <1>1, <1>3 DEF IInv, SlotProven
<1>8. BondsProven' /\ ForkIdsProven'
  BY <1>1, Zenon DEF IInv, BondsProven, ForkIdsProven
<1>9. WalksOnce'
  BY <1>1, <1>2 DEF IInv, WalksOnce
<1>10. QED BY <1>4, <1>5, <1>6, <1>7, <1>8, <1>9 DEF IInv

LEMMA WakesKeepsIInv ==
    ASSUME IInv, NEW t \in Coroutines, Wakes(t)
    PROVE  IInv'
<1> DEFINE r     == NextRequest(t, bonded')
           found == IF req[t] = "enr" /\ slot[t] = "fork"
                    THEN "peer with fork id" ELSE "peer"
<1>1. InFlight(t) /\ pc[t] = "wait"
  BY Zenon DEF Wakes, InFlight
<1>2. /\ GoOn(t, r, Erased(t))
      /\ Deliver(t, r, found)
      /\ UNCHANGED <<running, receiving, now, discovered, proven>>
      /\ bonded' = IF ReplyType(req[t]) = "pong" /\ slot[t] # "empty"
                   THEN bonded \cup {t.ep}
                   ELSE bonded
  BY Zenon DEF Wakes
<1>3. r \in Requests \cup {"none"}
  BY <1>1, FollowingRequests
<1>4. slot[t] # "empty" =>
          <<t.ep, slot[t]>> \in proven /\ (slot[t] = "pong" <=> ReplyType(req[t]) = "pong")
  BY <1>1 DEF IInv, SlotProven
<1>5. /\ found \in {"peer", "peer with fork id"}
      /\ found = "peer with fork id" => <<t.ep, "fork">> \in proven
  BY <1>4
<1> HIDE DEF r, found
<1>6. /\ pending' \in [Keys -> Coroutines \cup {Nobody}]
      /\ pc' \in [Coroutines -> {"idle", "spawned", "pong", "send", "wait", "done"}]
      /\ req' \in [Coroutines -> Requests \cup {"none"}]
      /\ hash' \in [Coroutines -> 0..MaxTime]
      /\ slot' \in [Coroutines -> {"empty", "pong", "record", "fork"}]
      /\ EntriesOwned' /\ HashSent' /\ SlotProven'
  BY <1>1, <1>2, <1>3, NoEntryOnceErased, GoOnKeeps
<1>7. /\ delivered' \in [Endpoints -> {"none", "peer", "peer with fork id"}]
      /\ ForkIdsProven'
  BY <1>2, <1>5, DeliverKeeps, Zenon
<1>8. bonded' \subseteq Endpoints
  BY <1>2, CoroutineFacts, Zenon DEF IInv, TypeOK
<1>9. TypeOK'
  BY <1>2, <1>6, <1>7, <1>8, Zenon DEF IInv, TypeOK
<1>10. BondsProven'
  BY <1>2, <1>4, Zenon DEF IInv, BondsProven
<1>11. WalksOnce'
  BY <1>1, <1>2, WalksOnceKept
<1>12. QED BY <1>6, <1>7, <1>9, <1>10, <1>11, Zenon DEF IInv

(* A reply that is taken for a request answers what that request sent.     *)
LEMMA ReplyKeepsIInv ==
    ASSUME IInv,
           NEW e \in Endpoints, NEW type \in {"pong", "enr"}, NEW h \in 0..MaxTime,
           NEW content \in {"pong", "record", "fork"},
           content = "pong" <=> type = "pong",
           Receive, Fill(<<e, type>>, h, content), Shows(e, type, h, content),
           UNCHANGED <<running, now, bonded, discovered, pending, pc, req, hash,
                       delivered, sent>>
    PROVE  IInv'
<1> DEFINE k == <<e, type>>
<1>1. k \in Keys
  BY DEF Keys
<1>2. proven \subseteq proven'
  BY DEF Shows
<1>3. /\ receiving' \in BOOLEAN
      /\ slot' \in [Coroutines -> {"empty", "pong", "record", "fork"}]
  BY Zenon DEF IInv, TypeOK, Receive, Fill
<1>4. TypeOK'
  BY <1>3, Zenon DEF IInv, TypeOK
<1>5. EntriesOwned'
  BY DEF IInv, EntriesOwned, InFlight
<1>6. HashSent'
  BY DEF IInv, HashSent, InFlight
<1>7. SlotProven'
  <2> SUFFICES ASSUME NEW t \in Coroutines, InFlight(t), slot'[t] # "empty"
               PROVE  /\ <<t.ep, slot'[t]>> \in proven'
                      /\ slot'[t] = "pong" <=> ReplyType(req[t]) = "pong"
    BY DEF SlotProven, InFlight
  <2>1. CASE slot'[t] = slot[t]
    BY <1>2, <2>1 DEF IInv, SlotProven
  <2>2. CASE slot'[t] # slot[t]
    <3>1. Matches(k, h) /\ t = pending[k] /\ slot'[t] = content
      BY <2>2, Zenon DEF Fill, IInv, TypeOK
    <3>2. Key(t, req[t]) = k /\ hash[t] = h
      BY <1>1, <3>1 DEF IInv, EntriesOwned, Matches
    <3>3. t.ep = e /\ ReplyType(req[t]) = type
      BY <3>2 DEF Key
    <3>4. req[t] \in Requests /\ req[t] # "find"
      BY <3>3, Zenon DEF IInv, HashSent, ReplyType
    <3>5. <<e, type, h>> \in sent
      BY <3>2, <3>3, <3>4 DEF IInv, HashSent
    <3>6. <<e, content>> \in proven'
      BY <3>5 DEF Shows
    <3>7. QED BY <3>1, <3>3, <3>6
  <2>3. QED BY <2>1, <2>2
<1>8. BondsProven' /\ ForkIdsProven'
  BY <1>2, Zenon DEF IInv, BondsProven, ForkIdsProven
<1>9. WalksOnce'
  BY DEF IInv, WalksOnce
<1>10. QED BY <1>4, <1>5, <1>6, <1>7, <1>8, <1>9 DEF IInv

LEMMA HandlePingKeepsIInv ==
    ASSUME IInv, NEW t \in Coroutines, HandlePing(t)
    PROVE  IInv'
<1>1. /\ Receive
      /\ t.kind = "answer" /\ pc[t] = "idle"
      /\ pc' = [pc EXCEPT ![t] = "pong"]
      /\ bonded' = bonded \cup {t.ep}
      /\ proven' = proven \cup {<<t.ep, "ping">>}
      /\ UNCHANGED <<running, now, discovered, pending, req, hash, slot,
                     delivered, sent>>
  BY DEF HandlePing
<1>2. /\ pc' \in [Coroutines -> {"idle", "spawned", "pong", "send", "wait", "done"}]
      /\ pc'[t] = "pong"
      /\ \A u \in Coroutines : u # t => pc'[u] = pc[u]
  BY <1>1, Zenon DEF IInv, TypeOK
<1>3. \A u \in Coroutines : InFlight(u)' <=> InFlight(u)
  BY <1>1, <1>2 DEF InFlight
<1>4. receiving' \in BOOLEAN /\ bonded' \subseteq Endpoints
  BY <1>1, CoroutineFacts, Zenon DEF IInv, TypeOK, Receive
<1>5. TypeOK'
  BY <1>1, <1>2, <1>4, Zenon DEF IInv, TypeOK
<1>6. EntriesOwned'
  <2>1. pending \in [Keys -> Coroutines \cup {Nobody}]
    BY Zenon DEF IInv, TypeOK
  <2>2. QED BY <1>1, <1>3, <2>1 DEF IInv, EntriesOwned, Key
<1>7. HashSent'
  BY <1>1, <1>3 DEF IInv, HashSent
<1>8. SlotProven'
  BY <1>1, <1>3 DEF IInv, SlotProven
<1>9. BondsProven' /\ ForkIdsProven'
  BY <1>1, Zenon DEF IInv, BondsProven, ForkIdsProven
<1>10. WalksOnce'
  BY <1>1, <1>2 DEF IInv, WalksOnce
<1>11. QED BY <1>5, <1>6, <1>7, <1>8, <1>9, <1>10 DEF IInv

LEMMA HandleNeighboursKeepsIInv ==
    ASSUME IInv, NEW e \in Endpoints, NEW S \in SUBSET Endpoints,
           HandleNeighbours(e, S)
    PROVE  IInv'
<1>1. PICK new \in SUBSET Endpoints :
          /\ new \cap discovered = {}
          /\ discovered' = discovered \cup new
          /\ pc' = [t \in Coroutines |-> IF t.kind = "walk" /\ t.ep \in new
                                         THEN "spawned" ELSE pc[t]]
  <2> DEFINE N == IF pending[<<e, "neighbours">>] # Nobody /\ running
                  THEN S \ discovered ELSE {}
  <2>1. N \in SUBSET Endpoints /\ N \cap discovered = {}
    OBVIOUS
  <2>2. /\ discovered' = discovered \cup N
        /\ pc' = [t \in Coroutines |-> IF t.kind = "walk" /\ t.ep \in N
                                       THEN "spawned" ELSE pc[t]]
    BY DEF HandleNeighbours
  <2> HIDE DEF N
  <2>3. QED BY <2>1, <2>2
<1>2. /\ Receive
      /\ UNCHANGED <<running, now, bonded, pending, req, hash, slot, delivered,
                     sent, proven>>
  BY DEF HandleNeighbours
<1>3. \A t \in Coroutines : pc'[t] = pc[t] \/ (pc[t] = "idle" /\ pc'[t] = "spawned")
  BY <1>1 DEF IInv, WalksOnce
<1>4. \A t \in Coroutines : InFlight(t)' <=> InFlight(t)
  BY <1>3 DEF InFlight
<1>5. pc' \in [Coroutines -> {"idle", "spawned", "pong", "send", "wait", "done"}]
  BY <1>1, Zenon DEF IInv, TypeOK
<1>6. receiving' \in BOOLEAN /\ discovered' \subseteq Endpoints
  BY <1>1, <1>2, Zenon DEF IInv, TypeOK, Receive
<1>7. TypeOK'
  BY <1>2, <1>5, <1>6, Zenon DEF IInv, TypeOK
<1>8. EntriesOwned'
  <2>1. pending \in [Keys -> Coroutines \cup {Nobody}]
    BY Zenon DEF IInv, TypeOK
  <2>2. QED BY <1>2, <1>4, <2>1 DEF IInv, EntriesOwned, Key
<1>9. HashSent'
  BY <1>2, <1>4 DEF IInv, HashSent
<1>10. SlotProven'
  BY <1>2, <1>4 DEF IInv, SlotProven
<1>11. BondsProven' /\ ForkIdsProven'
  BY <1>2, Zenon DEF IInv, BondsProven, ForkIdsProven
<1>12. WalksOnce'
  BY <1>1 DEF IInv, WalksOnce
<1>13. QED BY <1>7, <1>8, <1>9, <1>10, <1>11, <1>12 DEF IInv

-----------------------------------------------------------------------------
LEMMA StepKeepsIInv == IInv /\ [Next]_clientVars => IInv'
<1> SUFFICES ASSUME IInv, [Next]_clientVars PROVE IInv' OBVIOUS
<1>1. ASSUME NEW t \in Coroutines, Starts(t) PROVE IInv'
  BY <1>1, StartsKeepsIInv
<1>2. ASSUME NEW t \in Coroutines, SendFails(t) PROVE IInv'
  BY <1>2, SendFailsKeepsIInv
<1>3. ASSUME NEW t \in Coroutines, SendDone(t) PROVE IInv'
  BY <1>3, SendDoneKeepsIInv
<1>4. ASSUME NEW t \in Coroutines, Wakes(t) PROVE IInv'
  BY <1>4, WakesKeepsIInv
<1>5. ASSUME NEW t \in Coroutines, NEW ok \in BOOLEAN, PongSent(t, ok) PROVE IInv'
  BY <1>5, PongSentKeepsIInv
<1>6. ASSUME NEW e \in Endpoints, NEW h \in 0..MaxTime, HandlePong(e, h) PROVE IInv'
  BY <1>6, ReplyKeepsIInv, Zenon DEF HandlePong
<1>7. ASSUME NEW e \in Endpoints, NEW h \in 0..MaxTime,
             NEW content \in {"record", "fork"}, HandleEnrResponse(e, h, content)
      PROVE  IInv'
  BY <1>7, ReplyKeepsIInv, Zenon DEF HandleEnrResponse
<1>8. ASSUME NEW t \in Coroutines, HandlePing(t) PROVE IInv'
  BY <1>8, HandlePingKeepsIInv
<1>9. ASSUME NEW e \in Endpoints, NEW S \in SUBSET Endpoints, HandleNeighbours(e, S)
      PROVE  IInv'
  BY <1>9, HandleNeighboursKeepsIInv
<1>10. CASE Stop
  BY <1>10, Zenon DEF Stop, IInv, TypeOK, EntriesOwned, HashSent, SlotProven, BondsProven,
               ForkIdsProven, WalksOnce, InFlight
<1>11. CASE LoopEnds
  BY <1>11, Zenon DEF LoopEnds, IInv, TypeOK, EntriesOwned, HashSent, SlotProven,
               BondsProven, ForkIdsProven, WalksOnce, InFlight
<1>12. CASE Tick
  <2>1. UNCHANGED <<running, receiving, bonded, discovered, pending, pc, req,
                    hash, slot, delivered, sent, proven>>
    BY <1>12 DEF Tick
  <2>2. TypeOK'
    <3>1. now \in 0..MaxTime /\ now < MaxTime /\ now' = now + 1
      BY <1>12, Zenon DEF Tick, IInv, TypeOK
    <3>2. now' \in 0..MaxTime
      BY <3>1, DiscoveryAssumption
    <3>3. QED BY <2>1, <3>2, Zenon DEF IInv, TypeOK
  <2>3. EntriesOwned' /\ HashSent' /\ SlotProven'
    BY <2>1 DEF IInv, EntriesOwned, HashSent, SlotProven, InFlight
  <2>4. BondsProven' /\ ForkIdsProven' /\ WalksOnce'
    BY <2>1, Zenon DEF IInv, BondsProven, ForkIdsProven, WalksOnce
  <2>5. QED BY <2>2, <2>3, <2>4 DEF IInv
<1>13. CASE UNCHANGED clientVars
  BY <1>13, Zenon DEF clientVars, IInv, TypeOK, EntriesOwned, HashSent, SlotProven,
               BondsProven, ForkIdsProven, WalksOnce, InFlight
<1>14. QED
  BY <1>1, <1>2, <1>3, <1>4, <1>5, <1>6, <1>7, <1>8, <1>9, <1>10, <1>11, <1>12, <1>13
     DEF Next

(* The inductive invariant holds of the client.                            *)
THEOREM ClientInvariant == Spec => []IInv
BY InitEstablishesIInv, StepKeepsIInv, PTL DEF Spec

(* No entry of pending_replies_ outlives its request, whatever coroutines  *)
(* overwrite and erase and whenever stop() clears the table.               *)
THEOREM EntriesStayOwned == Spec => []EntriesOwned
<1>1. IInv => EntriesOwned
  BY DEF IInv
<1>2. QED BY <1>1, ClientInvariant, PTL

(* ensure_bond() and handle_ping() bond only endpoints that sent a PING or *)
(* answered a PING sent to them.                                           *)
THEOREM BondsAreProven == Spec => []BondsProven
<1>1. IInv => BondsProven
  BY DEF IInv
<1>2. QED BY <1>1, ClientInvariant, PTL

(* peer_callback_ is given a fork id only from a record that answers an    *)
(* ENR request.                                                            *)
THEOREM ForkIdsAreProven == Spec => []ForkIdsProven
<1>1. IInv => ForkIdsProven
  BY DEF IInv
<1>2. QED BY <1>1, ClientInvariant, PTL

(* The client's state is well-typed.                                       *)
THEOREM ClientTypeCorrect == Spec => []TypeOK
<1>1. IInv => TypeOK
  BY DEF IInv
<1>2. QED BY <1>1, ClientInvariant, PTL

===============================================================================
