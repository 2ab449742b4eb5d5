----------------------------- MODULE WatchDispatch -----------------------------
(* EthWatchService between the peers of a chain and the watches: announced     *)
(* blocks become GetReceipts requests, the Receipts that come back are matched *)
(* to the request and handed to the watches (src/src/eth/eth_watch_service.cpp *)
(* from set_send_callback on). Peers announce blocks again and in any order;   *)
(* answers are lost, come late, twice, empty or uncalled for.                  *)
EXTENDS ChainTracker, EventWatch

CONSTANTS Number,       \* the number of every block
          ReceiptsOf,   \* the receipts of every block: each a sequence of logs
          Announcements, \* the NewBlockHashes messages: sequences of blocks
          MaxRequests,  \* bound: GetReceipts sent
          MaxAnswers    \* bound: Receipts messages processed

ASSUME NumberAssumption == Number \in [Hash \ {ZeroHash} -> Nat]

ASSUME AnnouncementsAssumption == Announcements \subseteq Seq(Hash \ {ZeroHash})

VARIABLES send_cb,       \* whether a send callback is set
          entries,       \* what the loop over a NewBlockHashes message has still to do
          next_req_id,
          pending,       \* pending_requests_: [id -> the block]
          requests,      \* history: the GetReceipts sent, in order
          answered,      \* history: Receipts messages processed
          live,          \* history: the watches the caller has and did not remove
          events         \* history: the callbacks made, in order

serviceVars == <<send_cb, entries, next_req_id, pending>>

vars == <<trackerVars, watchVars, serviceVars, requests, answered, live, events>>

Block(h, n) == [hash |-> h, number |-> n]

Init ==
    /\ TrackerInit /\ WatchInit
    /\ send_cb = FALSE /\ entries = <<>> /\ next_req_id = 1 /\ pending = <<>>
    /\ requests = <<>> /\ answered = 0 /\ live = {} /\ events = <<>>

(* pending_requests_[id] = b, and erase(id).                                   *)
WithPending(id, b) == [i \in DOMAIN pending \cup {id} |-> IF i = id THEN b ELSE pending[i]]
WithoutPending(id) == [i \in DOMAIN pending \ {id} |-> pending[i]]

(* Nothing is recorded of a block that comes before the callback is set.       *)
request_receipts(b) ==
    IF ~send_cb \/ is_seen(b.hash) THEN UNCHANGED <<trackerVars, next_req_id, pending, requests>>
    ELSE /\ mark_seen(b.hash, b.number)
         /\ next_req_id' = next_req_id + 1
         /\ pending' = WithPending(next_req_id, b)
         /\ requests' = Append(requests, [id |-> next_req_id, block |-> b])

Idle == entries = <<>>

CanRequest(n) == Len(requests) + n <= MaxRequests

SetSendCallback(set) ==
    /\ Idle /\ send_cb # set
    /\ send_cb' = set
    /\ UNCHANGED <<trackerVars, watchVars, entries, next_req_id, pending, requests, answered, live, events>>

Watch ==
    /\ Idle
    /\ \E w \in Watches : watch_event(w)
    /\ live' = live \cup {[id |-> next_id, w |-> subscriptions'[Len(subscriptions')].w]}
    /\ UNCHANGED <<trackerVars, serviceVars, requests, answered, events>>

Unwatch(id) ==
    /\ Idle
    /\ unwatch(id)
    /\ live' = {l \in live : l.id # id}
    /\ UNCHANGED <<trackerVars, serviceVars, requests, answered, events>>

(* process_message of NewBlockHashes: one request_receipts per entry. The loop *)
(* is taken one entry at a time and nothing else runs before it ends.          *)
NewBlockHashes(hs) ==
    /\ Idle /\ CanRequest(Len(hs))
    /\ entries' = [i \in DOMAIN hs |-> Block(hs[i], Number[hs[i]])]
    /\ UNCHANGED <<trackerVars, watchVars, send_cb, next_req_id, pending, requests, answered, live, events>>

NextEntry ==
    /\ ~Idle
    /\ request_receipts(Head(entries))
    /\ entries' = Tail(entries)
    /\ UNCHANGED <<watchVars, send_cb, answered, live, events>>

(* process_message of NewBlock: the message has no hash, so all of them are    *)
(* requested under the hash of zeros.                                          *)
NewBlock(n) ==
    /\ Idle /\ CanRequest(1)
    /\ request_receipts(Block(ZeroHash, n))
    /\ UNCHANGED <<watchVars, send_cb, entries, answered, live, events>>

(* What the blocks of a Receipts message are taken for: the first one for the  *)
(* block that was requested under the message's id, if any, and the others for *)
(* block 0 without a hash.                                                     *)
Unknown == Block(ZeroHash, 0)

Attributed(id, i) ==
    IF i = 1 /\ id # <<>> /\ id[1] \in DOMAIN pending THEN pending[id[1]] ELSE Unknown

BlockEvents(b, receipts) ==
    process_receipts(receipts, [i \in DOMAIN receipts |-> ZeroHash], b.number, b.hash, <<>>)

(* A mutant: the request stays pending.                                        *)
Answered_Kept(id, blocks) == pending

Answered(id, blocks) ==
    IF blocks # <<>> /\ id # <<>> /\ id[1] \in DOMAIN pending
    THEN WithoutPending(id[1]) ELSE pending

(* process_message of Receipts.                                                *)
Receipts(id, blocks) ==
    /\ Idle /\ answered < MaxAnswers
    /\ pending' = Answered(id, blocks)
    /\ events' = events \o FlattenSeq([i \in DOMAIN blocks |-> BlockEvents(Attributed(id, i), blocks[i])])
    /\ answered' = answered + 1
    /\ UNCHANGED <<trackerVars, watchVars, send_cb, entries, next_req_id, requests, live>>

(* A peer's answer to a request: the receipts of its block, or nothing if the  *)
(* peer does not know the block; at any time after the request, and again.     *)
AnswersTo(r) == {<<>>} \cup (IF r.block.hash = ZeroHash THEN {} ELSE {<<ReceiptsOf[r.block.hash]>>})

Next ==
    \/ \E set \in BOOLEAN : SetSendCallback(set)
    \/ Watch
    \/ \E id \in 1..MaxWatches : id < next_id /\ Unwatch(id)
    \/ \E hs \in Announcements : NewBlockHashes(hs)
    \/ NextEntry
    \/ \E h \in Hash \ {ZeroHash} : NewBlock(Number[h])
    \/ \E k \in DOMAIN requests : \E bs \in AnswersTo(requests[k]) : Receipts(<<requests[k].id>>, bs)
    \/ \E h \in Hash \ {ZeroHash} : Receipts(<<>>, <<ReceiptsOf[h]>>)

Spec == Init /\ [][Next]_vars

--------------------------------------------------------------------------------
TypeOK ==
    /\ seen_set \in SUBSET Hash
    /\ eviction_queue \in [Slots -> Hash]
    /\ eviction_head \in Slots
    /\ tip_number \in Nat
    /\ tip_hash \in SUBSET Hash
    /\ send_cb \in BOOLEAN
    /\ entries \in Seq([hash : Hash, number : Nat])
    /\ next_req_id \in Nat \ {0}
    /\ next_id \in Nat \ {0} /\ watcher_next_id \in Nat \ {0}
    /\ DOMAIN pending \in SUBSET Nat /\ pending \in [DOMAIN pending -> [hash : Hash, number : Nat]]
    /\ requests \in Seq([id : Nat, block : [hash : Hash, number : Nat]])

(* The set and the ring hold the same hashes, each once: the slots filled so   *)
(* far are the set, and the head moves only when every slot is filled. What    *)
(* mark_seen evicts is therefore in the set, and the set stays within the      *)
(* window.                                                                     *)
RingAgrees ==
    LET n == Cardinality(seen_set) IN
    /\ n <= WindowSize
    /\ seen_set = {eviction_queue[i] : i \in 0..(n - 1)}
    /\ \A i, j \in 0..(n - 1) : eviction_queue[i] = eviction_queue[j] => i = j
    /\ n < WindowSize => eviction_head = 0

Least(a, b) == IF a <= b THEN a ELSE b

(* The window is the last WindowSize requests: a block is forgotten when that  *)
(* many newer ones were requested, not earlier and not later, so that a block  *)
(* is requested again only after WindowSize others.                            *)
WindowIsLatest ==
    LET n == Len(requests)
        latest == (n - Least(n, WindowSize) + 1)..n
    IN  /\ seen_set = {requests[k].block.hash : k \in latest}
        /\ \A j, k \in latest : requests[j].block.hash = requests[k].block.hash => j = k

(* The tip is the highest block requested, and of several at that height the   *)
(* first.                                                                      *)
TipIsHighest ==
    /\ \A k \in DOMAIN requests : requests[k].block.number <= tip_number
    /\ tip_number > 0 => \E k \in DOMAIN requests :
         /\ requests[k].block.number = tip_number /\ tip_hash = {requests[k].block.hash}
         /\ \A j \in 1..(k - 1) : requests[j].block.number < tip_number

AllLogs(h) == FlattenSeq(ReceiptsOf[h])

(* An event that names its block is about that block: it carries a log of the  *)
(* block with its position in the block and the block's number, and a watch    *)
(* hears of it at most once for each time the block was requested, however     *)
(* often its receipts arrive.                                                  *)
EventsNameTheirBlock ==
    \A k \in DOMAIN events :
        LET e == events[k].event
        IN  e.hash # ZeroHash =>
              /\ e.number = Number[e.hash]
              /\ e.index + 1 \in DOMAIN AllLogs(e.hash) /\ AllLogs(e.hash)[e.index + 1] = e.log
              /\ Cardinality({j \in DOMAIN events : events[j] = events[k]})
                   <= Cardinality({r \in DOMAIN requests : requests[r].block.hash = e.hash})

(* Every request is pending under its own id until blocks come back for it.    *)
PendingIsRequested ==
    /\ \A id \in DOMAIN pending : \E k \in DOMAIN requests :
         requests[k] = [id |-> id, block |-> pending[id]]
    /\ \A j, k \in DOMAIN requests : requests[j].id = requests[k].id => j = k

(* A log that a watch of the caller is to hear of.                             *)
Expected(l, log, number) ==
    /\ l.w.address \in {ZeroAddress, log.address}
    /\ log.topics # <<>> /\ log.topics[1] = l.w.sig
    /\ Len(log.topics) > l.w.indexed /\ log.words >= l.w.words
    /\ l.w.from = <<>> \/ number >= l.w.from[1]
    /\ l.w.to = <<>> \/ number <= l.w.to[1]

(* The callbacks that one Receipts message leads to are those a reader of the  *)
(* caller's own books expects: for each log every watch that the caller has,   *)
(* that covers the log's contract, signature and block, and whose parameters   *)
(* the log has; and no other.                                                  *)
DispatchExact ==
    [][\A id \in {<<k>> : k \in 1..MaxRequests} \cup {<<>>}, h \in Hash \ {ZeroHash} :
         Receipts(id, <<ReceiptsOf[h]>>) =>
           LET b    == Attributed(id, 1)
               logs == AllLogs(h)
           IN  {[id |-> events'[k].id, index |-> events'[k].event.index] :
                    k \in (Len(events) + 1)..Len(events')}
               = UNION {{[id |-> l.id, index |-> i - 1] :
                            i \in {j \in DOMAIN logs : Expected(l, logs[j], b.number)}} : l \in live}
      ]_vars

================================================================================
