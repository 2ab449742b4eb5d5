-------------------------- MODULE WatchDispatchProofs --------------------------
(* For windows, watches and messages of any number: the deduplication window,  *)
(* the tip and the pending requests of the service stay consistent.            *)
EXTENDS WatchDispatch, FiniteSetTheorems, SequenceTheorems, TLAPS

--------------------------------------------------------------------------------
(* The tracker                                                                 *)

TrackerInv ==
    /\ seen_set \in SUBSET Hash
    /\ IsFiniteSet(seen_set)
    /\ eviction_queue \in [Slots -> Hash]
    /\ eviction_head \in Slots
    /\ RingAgrees

LEMMA FillKeepsRing ==
  ASSUME TrackerInv, NEW h \in Hash, h \notin seen_set,
         Cardinality(seen_set) < WindowSize, Fill(h)
  PROVE  TrackerInv'
<1> DEFINE n == Cardinality(seen_set)
<1>1. n \in Nat /\ IsFiniteSet(seen_set')
  BY FS_CardinalityType, FS_AddElement DEF TrackerInv, Fill
<1>2. Cardinality(seen_set') = n + 1
  BY FS_AddElement DEF TrackerInv, Fill
<1>3. n \in Slots /\ eviction_queue' \in [Slots -> Hash] /\ eviction_head' = eviction_head
  BY <1>1, WindowAssumption DEF TrackerInv, Fill, Slots
<1>4. \A i \in 0..(n - 1) : i \in Slots /\ i # n /\ eviction_queue'[i] = eviction_queue[i]
                            /\ eviction_queue[i] \in seen_set
  BY <1>1, <1>3, WindowAssumption DEF TrackerInv, RingAgrees, Fill, Slots
<1>5. eviction_queue'[n] = h
  BY <1>3 DEF TrackerInv, Fill
<1>6. 0..((n + 1) - 1) = (0..(n - 1)) \cup {n}
  BY <1>1
<1>7. seen_set' = {eviction_queue'[i] : i \in 0..((n + 1) - 1)}
  <2>1. seen_set' = {eviction_queue[i] : i \in 0..(n - 1)} \cup {h}
    BY DEF TrackerInv, RingAgrees, Fill
  <2> HIDE DEF n
  <2> QED BY <2>1, <1>4, <1>5, <1>6
<1>8. \A i, j \in 0..((n + 1) - 1) : eviction_queue'[i] = eviction_queue'[j] => i = j
  <2>1. \A i, j \in 0..(n - 1) : eviction_queue[i] = eviction_queue[j] => i = j
    BY DEF TrackerInv, RingAgrees
  <2> HIDE DEF n
  <2> QED BY <2>1, <1>4, <1>5, <1>6
<1>9. eviction_head = 0
  BY DEF TrackerInv, RingAgrees
<1>10. seen_set' \in SUBSET Hash
  BY DEF TrackerInv, Fill
<1> QED
  BY <1>1, <1>2, <1>3, <1>7, <1>8, <1>9, <1>10, WindowAssumption DEF TrackerInv, RingAgrees

LEMMA EvictKeepsRing ==
  ASSUME TrackerInv, NEW h \in Hash, h \notin seen_set,
         Cardinality(seen_set) >= WindowSize, Evict(h)
  PROVE  TrackerInv'
<1> DEFINE o == eviction_queue[eviction_head]
           W == WindowSize
<1>1. W \in Nat \ {0} /\ Cardinality(seen_set) = W
  BY FS_CardinalityType, WindowAssumption DEF TrackerInv, RingAgrees
<1>2. eviction_head \in 0..(W - 1) /\ o \in seen_set
  BY <1>1 DEF TrackerInv, RingAgrees, Slots
<1>3. IsFiniteSet(seen_set \ {o}) /\ Cardinality(seen_set \ {o}) = W - 1
  BY <1>1, <1>2, FS_RemoveElement DEF TrackerInv
<1>4. IsFiniteSet(seen_set') /\ Cardinality(seen_set') = W
  <2>1. h \notin seen_set \ {o}
    OBVIOUS
  <2>2. seen_set' = (seen_set \ {o}) \cup {h}
    BY DEF Evict
  <2> HIDE DEF o
  <2> QED BY <1>1, <1>3, <2>1, <2>2, FS_AddElement
<1>5. eviction_queue' \in [Slots -> Hash] /\ eviction_head' \in Slots
  BY <1>1 DEF TrackerInv, Evict, Slots
<1>6. eviction_queue' = [i \in 0..(W - 1) |-> IF i = eviction_head THEN h ELSE eviction_queue[i]]
  BY <1>2 DEF TrackerInv, Evict, Slots
<1>7. /\ seen_set = {eviction_queue[i] : i \in 0..(W - 1)}
      /\ \A i, j \in 0..(W - 1) : eviction_queue[i] = eviction_queue[j] => i = j
  BY <1>1 DEF TrackerInv, RingAgrees
<1>8. seen_set' = {eviction_queue'[i] : i \in 0..(W - 1)}
  <2>1. seen_set' = (seen_set \ {o}) \cup {h}
    BY DEF Evict
  <2>2. \A x \in seen_set \ {o} : \E i \in 0..(W - 1) : i # eviction_head /\ eviction_queue[i] = x
    BY <1>7
  <2>3. \A i \in 0..(W - 1) : i # eviction_head => eviction_queue[i] \in seen_set \ {o}
    BY <1>2, <1>7
  <2> HIDE DEF o, W
  <2> QED BY <2>1, <2>2, <2>3, <1>2, <1>6
<1>9. \A i, j \in 0..(W - 1) : eviction_queue'[i] = eviction_queue'[j] => i = j
  <2>1. \A i \in 0..(W - 1) : eviction_queue[i] # h
    BY <1>7
  <2> HIDE DEF o, W
  <2> QED BY <2>1, <1>6, <1>7
<1>10. seen_set' \in SUBSET Hash
  BY DEF TrackerInv, Evict
<1> QED
  BY <1>1, <1>4, <1>5, <1>8, <1>9, <1>10 DEF TrackerInv, RingAgrees

(* mark_seen keeps the set and the ring in agreement.                          *)
LEMMA MarkKeepsRing ==
  ASSUME TrackerInv, NEW h \in Hash, NEW n, mark_seen(h, n)
  PROVE  TrackerInv'
<1>1. Cardinality(seen_set) \in Nat
  BY FS_CardinalityType DEF TrackerInv
<1>2. CASE Cardinality(seen_set) >= WindowSize
  BY <1>2, EvictKeepsRing DEF mark_seen, is_seen
<1>3. CASE ~(Cardinality(seen_set) >= WindowSize)
  BY <1>1, <1>3, FillKeepsRing, WindowAssumption DEF mark_seen, is_seen
<1> QED BY <1>2, <1>3

--------------------------------------------------------------------------------
(* The service                                                                 *)

LEMMA AppendFacts ==
  ASSUME NEW S, NEW s \in Seq(S), NEW e \in S
  PROVE  /\ \A k \in 1..Len(s) : Append(s, e)[k] = s[k] /\ s[k] \in S
         /\ Append(s, e)[Len(s) + 1] = e
  OBVIOUS

(* Requests are numbered from 1 without gaps, and what is pending is a request *)
(* under its own number.                                                       *)
IdsInv ==
    /\ next_req_id = Len(requests) + 1
    /\ \A k \in DOMAIN requests : requests[k].id = k
    /\ \A id \in DOMAIN pending : id \in DOMAIN requests /\ pending[id] = requests[id].block

IInv == TypeOK /\ TrackerInv /\ TipIsHighest /\ IdsInv

Blocks == [hash : Hash, number : Nat]

LEMMA InitHolds == Init => IInv
<1> SUFFICES ASSUME Init PROVE IInv
  OBVIOUS
<1> USE DEF Init, TrackerInit, WatchInit
<1>1. IsFiniteSet(seen_set) /\ Cardinality(seen_set) = 0
  BY FS_EmptySet
<1>2. TypeOK
  BY WindowAssumption, HashAssumption DEF TypeOK, Slots
<1>3. RingAgrees
  BY <1>1, WindowAssumption DEF RingAgrees
<1>4. TipIsHighest /\ IdsInv
  BY DEF TipIsHighest, IdsInv
<1> QED BY <1>1, <1>2, <1>3, <1>4, WindowAssumption DEF IInv, TrackerInv, TypeOK

(* What request_receipts does when it sends a request.                         *)
LEMMA RequestTip ==
  ASSUME TypeOK, TipIsHighest, NEW b \in Blocks, RaiseTip(b.hash, b.number),
         NEW id \in Nat, requests' = Append(requests, [id |-> id, block |-> b])
  PROVE  TipIsHighest' /\ tip_number' \in Nat /\ tip_hash' \in SUBSET Hash
<1> DEFINE n == Len(requests)
<1>1. n \in Nat /\ DOMAIN requests = 1..n /\ DOMAIN requests' = 1..(n + 1)
  BY DEF TypeOK
<1>2. /\ \A k \in 1..n : requests'[k] = requests[k] /\ requests[k].block.number \in Nat
      /\ requests'[n + 1].block = b
  <2>1. requests \in Seq([id : Nat, block : Blocks]) /\ [id |-> id, block |-> b] \in [id : Nat, block : Blocks]
    BY DEF TypeOK, Blocks
  <2> DEFINE S == [id : Nat, block : Blocks]
             e == [id |-> id, block |-> b]
  <2>2. /\ \A k \in 1..n : requests'[k] = requests[k] /\ requests[k] \in S
        /\ requests'[n + 1] = e
    <3>1. requests \in Seq(S) /\ e \in S /\ requests' = Append(requests, e)
      BY <2>1
    <3> HIDE DEF S, e
    <3> QED BY <3>1, AppendFacts
  <2> QED BY <2>2 DEF Blocks
<1>3. b.number \in Nat /\ b.hash \in Hash /\ tip_number \in Nat /\ tip_hash \in SUBSET Hash
  BY DEF Blocks, TypeOK
<1>4. CASE b.number > tip_number
  <2>1. tip_number' = b.number /\ tip_hash' = {b.hash}
    BY <1>4 DEF RaiseTip
  <2>2. \A k \in 1..(n + 1) : requests'[k].block.number <= b.number
    BY <1>1, <1>2, <1>3, <1>4 DEF TipIsHighest
  <2>3. \A j \in 1..((n + 1) - 1) : requests'[j].block.number < b.number
    BY <1>1, <1>2, <1>3, <1>4 DEF TipIsHighest
  <2>4. n + 1 \in 1..(n + 1)
    BY <1>1
  <2> HIDE DEF n
  <2> QED BY <2>1, <2>2, <2>3, <2>4, <1>1, <1>2, <1>3 DEF TipIsHighest
<1>5. CASE ~(b.number > tip_number)
  <2>1. UNCHANGED <<tip_number, tip_hash>>
    BY <1>5 DEF RaiseTip
  <2>2. \A k \in 1..(n + 1) : requests'[k].block.number <= tip_number
    BY <1>1, <1>2, <1>3, <1>5 DEF TipIsHighest
  <2>3. ASSUME tip_number > 0
        PROVE  \E k \in 1..(n + 1) :
                 /\ requests'[k].block.number = tip_number /\ tip_hash = {requests'[k].block.hash}
                 /\ \A j \in 1..(k - 1) : requests'[j].block.number < tip_number
    <3>1. PICK k \in 1..n :
            /\ requests[k].block.number = tip_number /\ tip_hash = {requests[k].block.hash}
            /\ \A j \in 1..(k - 1) : requests[j].block.number < tip_number
      BY <2>3, <1>1 DEF TipIsHighest
    <3>2. k \in 1..(n + 1) /\ \A j \in 1..(k - 1) : j \in 1..n
      BY <1>1
    <3> HIDE DEF n
    <3> QED BY <3>1, <3>2, <1>2
  <2> HIDE DEF n
  <2> QED BY <2>1, <2>2, <2>3, <1>1, <1>3 DEF TipIsHighest
<1> QED BY <1>4, <1>5

LEMMA RequestKeeps ==
  ASSUME IInv, NEW b \in Blocks, request_receipts(b)
  PROVE  /\ TrackerInv' /\ TipIsHighest' /\ IdsInv'
         /\ tip_number' \in Nat /\ tip_hash' \in SUBSET Hash
         /\ next_req_id' \in Nat \ {0}
         /\ DOMAIN pending' \in SUBSET Nat /\ pending' \in [DOMAIN pending' -> Blocks]
         /\ requests' \in Seq([id : Nat, block : Blocks])
<1> USE DEF IInv
<1>1. CASE ~send_cb \/ is_seen(b.hash)
  <2>1. UNCHANGED <<trackerVars, next_req_id, pending, requests>>
    BY <1>1 DEF request_receipts
  <2>2. TrackerInv'
    BY <2>1 DEF trackerVars, TrackerInv, RingAgrees
  <2>3. TipIsHighest' /\ IdsInv'
    BY <2>1 DEF trackerVars, TipIsHighest, IdsInv
  <2>4. /\ tip_number' \in Nat /\ tip_hash' \in SUBSET Hash /\ next_req_id' \in Nat \ {0}
        /\ DOMAIN pending' \in SUBSET Nat /\ pending' \in [DOMAIN pending' -> Blocks]
        /\ requests' \in Seq([id : Nat, block : Blocks])
    BY <2>1 DEF trackerVars, TypeOK, Blocks
  <2> QED BY <2>2, <2>3, <2>4
<1>2. CASE ~(~send_cb \/ is_seen(b.hash))
  <2>1. /\ mark_seen(b.hash, b.number)
        /\ next_req_id' = next_req_id + 1
        /\ pending' = WithPending(next_req_id, b)
        /\ requests' = Append(requests, [id |-> next_req_id, block |-> b])
    BY <1>2 DEF request_receipts
  <2>2. b.hash \in Hash /\ next_req_id \in Nat \ {0}
    BY DEF Blocks, TypeOK
  <2>3. TrackerInv'
    BY <2>1, <2>2, MarkKeepsRing
  <2>4. TipIsHighest' /\ tip_number' \in Nat /\ tip_hash' \in SUBSET Hash
    BY <2>1, <2>2, RequestTip DEF mark_seen
  <2>5. requests' \in Seq([id : Nat, block : Blocks])
    BY <2>1, <2>2 DEF TypeOK, Blocks
  <2>6. /\ DOMAIN pending' = DOMAIN pending \cup {next_req_id}
        /\ pending' \in [DOMAIN pending' -> Blocks]
        /\ pending'[next_req_id] = b
        /\ \A i \in DOMAIN pending : i # next_req_id => pending'[i] = pending[i]
    BY <2>1, <2>2 DEF WithPending, TypeOK, Blocks
  <2>7. IdsInv'
    <3> DEFINE n == Len(requests)
    <3>1. n \in Nat /\ DOMAIN requests = 1..n /\ DOMAIN requests' = 1..(n + 1)
          /\ Len(requests') = n + 1 /\ next_req_id = n + 1
      BY <2>1 DEF TypeOK, IdsInv
    <3>2. /\ \A k \in 1..n : requests'[k] = requests[k]
          /\ requests'[n + 1] = [id |-> n + 1, block |-> b]
      BY <3>1, <2>1 DEF TypeOK
    <3>3. \A k \in 1..(n + 1) : requests'[k].id = k
      BY <3>1, <3>2 DEF IdsInv
    <3>4. \A id \in DOMAIN pending' : id \in 1..(n + 1) /\ pending'[id] = requests'[id].block
      BY <2>6, <3>1, <3>2 DEF IdsInv
    <3> HIDE DEF n
    <3> QED BY <2>1, <3>1, <3>3, <3>4 DEF IdsInv
  <2> QED BY <2>1, <2>2, <2>3, <2>4, <2>5, <2>6, <2>7 DEF TypeOK
<1> QED BY <1>1, <1>2

LEMMA TrackerFrame ==
  ASSUME IInv, UNCHANGED <<trackerVars, requests>>
  PROVE  /\ TrackerInv' /\ TipIsHighest'
         /\ tip_number' \in Nat /\ tip_hash' \in SUBSET Hash
         /\ requests' \in Seq([id : Nat, block : [hash : Hash, number : Nat]])
<1>1. TrackerInv'
  BY DEF IInv, trackerVars, TrackerInv, RingAgrees
<1>2. TipIsHighest'
  BY DEF IInv, trackerVars, TipIsHighest
<1>3. tip_number' \in Nat /\ tip_hash' \in SUBSET Hash
      /\ requests' \in Seq([id : Nat, block : [hash : Hash, number : Nat]])
  BY DEF IInv, trackerVars, TypeOK
<1> QED BY <1>1, <1>2, <1>3

LEMMA PendingFrame ==
  ASSUME IInv, UNCHANGED <<next_req_id, pending, requests>>
  PROVE  /\ IdsInv' /\ next_req_id' \in Nat \ {0}
         /\ DOMAIN pending' \in SUBSET Nat /\ pending' \in [DOMAIN pending' -> [hash : Hash, number : Nat]]
BY DEF IInv, IdsInv, TypeOK

LEMMA NextKeeps ==
  ASSUME IInv, [Next]_vars
  PROVE  IInv'
<1> DEFINE EntriesOK == entries \in Seq(Blocks)
           RestOK    == send_cb \in BOOLEAN /\ next_id \in Nat \ {0} /\ watcher_next_id \in Nat \ {0}
<1>a. EntriesOK /\ RestOK
  BY DEF IInv, TypeOK, Blocks
<1>b. ASSUME TrackerInv', TipIsHighest', IdsInv', EntriesOK', RestOK',
             tip_number' \in Nat, tip_hash' \in SUBSET Hash, next_req_id' \in Nat \ {0},
             DOMAIN pending' \in SUBSET Nat, pending' \in [DOMAIN pending' -> [hash : Hash, number : Nat]],
             requests' \in Seq([id : Nat, block : [hash : Hash, number : Nat]])
      PROVE  IInv'
  BY <1>b DEF IInv, TypeOK, TrackerInv, Blocks
<1>1. ASSUME NEW set \in BOOLEAN, SetSendCallback(set)
      PROVE  IInv'
  <2>1. /\ UNCHANGED <<trackerVars, requests, next_req_id, pending, entries, next_id, watcher_next_id>>
        /\ send_cb' \in BOOLEAN
    BY <1>1 DEF SetSendCallback, watchVars
  <2>2. EntriesOK' /\ RestOK'
    BY <1>a, <2>1
  <2> QED BY <1>b, <2>1, <2>2, TrackerFrame, PendingFrame
<1>2. ASSUME Watch
      PROVE  IInv'
  <2>1. /\ UNCHANGED <<trackerVars, requests, next_req_id, pending, entries, send_cb>>
        /\ next_id' = next_id + 1 /\ watcher_next_id' = watcher_next_id + 1
    BY <1>2 DEF Watch, watch_event, serviceVars
  <2>2. EntriesOK' /\ RestOK'
    BY <1>a, <2>1
  <2> QED BY <1>b, <2>1, <2>2, TrackerFrame, PendingFrame
<1>3. ASSUME NEW id, Unwatch(id)
      PROVE  IInv'
  <2>1. UNCHANGED <<trackerVars, requests, next_req_id, pending, entries, send_cb, next_id, watcher_next_id>>
    BY <1>3 DEF Unwatch, unwatch, serviceVars
  <2>2. EntriesOK' /\ RestOK'
    BY <1>a, <2>1
  <2> QED BY <1>b, <2>1, <2>2, TrackerFrame, PendingFrame
<1>4. ASSUME NEW hs \in Announcements, NewBlockHashes(hs)
      PROVE  IInv'
  <2>1. /\ UNCHANGED <<trackerVars, requests, next_req_id, pending, send_cb, next_id, watcher_next_id>>
        /\ entries' = [i \in DOMAIN hs |-> Block(hs[i], Number[hs[i]])]
    BY <1>4 DEF NewBlockHashes, watchVars
  <2>2. hs \in Seq(Hash \ {ZeroHash})
    BY AnnouncementsAssumption
  <2>3. \A i \in DOMAIN hs : Block(hs[i], Number[hs[i]]) \in Blocks
    <3>1. \A i \in DOMAIN hs : hs[i] \in Hash \ {ZeroHash}
      BY <2>2
    <3> QED BY <3>1, NumberAssumption DEF Block, Blocks
  <2>4. EntriesOK'
    <3>1. DOMAIN hs = 1..Len(hs) /\ Len(hs) \in Nat
      BY <2>2
    <3>2. entries' \in [1..Len(hs) -> Blocks]
      BY <2>1, <2>3, <3>1
    <3> QED BY <3>1, <3>2, SeqDef
  <2>5. RestOK'
    BY <1>a, <2>1
  <2> QED BY <1>b, <2>1, <2>4, <2>5, TrackerFrame, PendingFrame
<1>5. ASSUME NextEntry
      PROVE  IInv'
  <2>1. Head(entries) \in Blocks /\ Tail(entries) \in Seq(Blocks)
    <3>1. entries \in Seq(Blocks) /\ entries # <<>>
      BY <1>a, <1>5 DEF NextEntry, Idle
    <3> QED BY <3>1, HeadTailProperties
  <2>2. /\ request_receipts(Head(entries)) /\ entries' = Tail(entries)
        /\ UNCHANGED <<send_cb, next_id, watcher_next_id>>
    BY <1>5 DEF NextEntry, watchVars
  <2>3. EntriesOK' /\ RestOK'
    BY <1>a, <2>1, <2>2
  <2> QED BY <1>b, <2>1, <2>2, <2>3, RequestKeeps DEF Blocks
<1>6. ASSUME NEW h \in Hash \ {ZeroHash}, NewBlock(Number[h])
      PROVE  IInv'
  <2>1. Block(ZeroHash, Number[h]) \in Blocks
    BY NumberAssumption, HashAssumption DEF Block, Blocks
  <2>2. /\ request_receipts(Block(ZeroHash, Number[h]))
        /\ UNCHANGED <<send_cb, entries, next_id, watcher_next_id>>
    BY <1>6 DEF NewBlock, watchVars
  <2>3. EntriesOK' /\ RestOK'
    BY <1>a, <2>2
  <2> QED BY <1>b, <2>1, <2>2, <2>3, RequestKeeps DEF Blocks
<1>7. ASSUME NEW id, NEW blocks, Receipts(id, blocks)
      PROVE  IInv'
  <2>1. /\ pending' = Answered(id, blocks)
        /\ UNCHANGED <<trackerVars, requests, next_req_id, entries, send_cb, next_id, watcher_next_id>>
    BY <1>7 DEF Receipts, watchVars
  <2>2. /\ DOMAIN pending' \subseteq DOMAIN pending
        /\ pending' = [i \in DOMAIN pending' |-> pending[i]]
    BY <2>1 DEF Answered, WithoutPending, IInv, TypeOK
  <2>3. IdsInv' /\ next_req_id' \in Nat \ {0}
    BY <2>1, <2>2 DEF IInv, IdsInv, TypeOK
  <2>4. DOMAIN pending' \in SUBSET Nat /\ pending' \in [DOMAIN pending' -> [hash : Hash, number : Nat]]
    BY <2>2 DEF IInv, TypeOK
  <2>5. EntriesOK' /\ RestOK'
    BY <1>a, <2>1
  <2> QED BY <1>b, <2>1, <2>3, <2>4, <2>5, TrackerFrame
<1>8. CASE UNCHANGED vars
  <2>1. UNCHANGED <<trackerVars, requests, next_req_id, pending, entries, send_cb, next_id, watcher_next_id>>
    BY <1>8 DEF vars, serviceVars, watchVars
  <2>2. EntriesOK' /\ RestOK'
    BY <1>a, <2>1
  <2> QED BY <1>b, <2>1, <2>2, TrackerFrame, PendingFrame
<1> QED BY <1>1, <1>2, <1>3, <1>4, <1>5, <1>6, <1>7, <1>8, Zenon DEF Next

LEMMA Inductive == Spec => []IInv
BY InitHolds, NextKeeps, PTL DEF Spec

(* The state of the service keeps its types: the ring's head stays a slot      *)
(* through every wrap, and no id is zero.                                      *)
THEOREM TypeHolds == Spec => []TypeOK
<1>1. IInv => TypeOK
  BY DEF IInv
<1> QED BY <1>1, Inductive, PTL

(* For every window size: the set and the ring of the tracker hold the same    *)
(* hashes, each once.                                                          *)
THEOREM RingHolds == Spec => []RingAgrees
<1>1. IInv => RingAgrees
  BY DEF IInv, TrackerInv
<1> QED BY <1>1, Inductive, PTL

(* The tip is the highest block requested, and of several at that height the   *)
(* first, however the announcements come.                                      *)
THEOREM TipHolds == Spec => []TipIsHighest
<1>1. IInv => TipIsHighest
  BY DEF IInv
<1> QED BY <1>1, Inductive, PTL

(* No two GetReceipts share an id, and what is pending under an id is the      *)
(* block that was requested under it.                                          *)
THEOREM PendingHolds == Spec => []PendingIsRequested
<1>1. ASSUME IInv PROVE PendingIsRequested
  <2>1. ASSUME NEW id \in DOMAIN pending
        PROVE  \E k \in DOMAIN requests : requests[k] = [id |-> id, block |-> pending[id]]
    <3>1. id \in DOMAIN requests /\ pending[id] = requests[id].block /\ requests[id].id = id
      BY <1>1, <2>1 DEF IInv, IdsInv
    <3>2. requests[id] \in [id : Nat, block : Blocks]
      <4> DEFINE S == [id : Nat, block : Blocks]
      <4>1. requests \in Seq(S)
        BY <1>1 DEF IInv, TypeOK, Blocks
      <4> HIDE DEF S
      <4>2. requests[id] \in S
        BY <3>1, <4>1
      <4> QED BY <4>2 DEF S
    <3> QED BY <3>1, <3>2
  <2>2. \A j, k \in DOMAIN requests : requests[j].id = requests[k].id => j = k
    BY <1>1 DEF IInv, IdsInv
  <2> QED BY <2>1, <2>2 DEF PendingIsRequested
<1> QED BY <1>1, Inductive, PTL

================================================================================
