------------------------------ MODULE ChainTracker ------------------------------
(* The window of blocks whose receipts were requested, and the highest block   *)
(* among them (src/src/eth/chain_tracker.cpp). The hashes are kept twice, in a *)
(* set for look-ups and in a ring that says which one is the oldest.           *)
EXTENDS Naturals, FiniteSets

CONSTANTS Hash,         \* block hashes
          ZeroHash,     \* the hash of zeros, with which the ring is filled
          WindowSize    \* window_size_; kDefaultWindowSize when constructed with 0

ASSUME WindowAssumption == WindowSize \in Nat \ {0}

ASSUME HashAssumption == ZeroHash \in Hash

VARIABLES seen_set, eviction_queue, eviction_head, tip_number, tip_hash

trackerVars == <<seen_set, eviction_queue, eviction_head, tip_number, tip_hash>>

(* The ring's slots, as the indices of the vector. tip_hash is a set of at     *)
(* most one hash.                                                              *)
Slots == 0..(WindowSize - 1)

TrackerInit ==
    /\ seen_set = {}
    /\ eviction_queue = [i \in Slots |-> ZeroHash]
    /\ eviction_head = 0
    /\ tip_number = 0
    /\ tip_hash = {}

is_seen(h) == h \in seen_set

(* A mutant: the head stays where it is.                                       *)
Evict_HeadStays(h) ==
    /\ seen_set' = (seen_set \ {eviction_queue[eviction_head]}) \cup {h}
    /\ eviction_queue' = [eviction_queue EXCEPT ![eviction_head] = h]
    /\ UNCHANGED eviction_head

(* The window is full: the new hash takes the place of the oldest.             *)
Evict(h) ==
    /\ seen_set' = (seen_set \ {eviction_queue[eviction_head]}) \cup {h}
    /\ eviction_queue' = [eviction_queue EXCEPT ![eviction_head] = h]
    /\ eviction_head' = (eviction_head + 1) % WindowSize

(* The window is not full yet: the ring is filled from its start.              *)
Fill(h) ==
    /\ seen_set' = seen_set \cup {h}
    /\ eviction_queue' = [eviction_queue EXCEPT ![Cardinality(seen_set)] = h]
    /\ UNCHANGED eviction_head

(* A mutant: the tip follows the last block.                                   *)
RaiseTip_Always(h, n) == tip_number' = n /\ tip_hash' = {h}

RaiseTip(h, n) ==
    IF n > tip_number THEN tip_number' = n /\ tip_hash' = {h}
                      ELSE UNCHANGED <<tip_number, tip_hash>>

(* mark_seen of a hash that is not in the window; of one that is, mark_seen    *)
(* returns false and changes nothing.                                          *)
mark_seen(h, n) ==
    /\ ~is_seen(h)
    /\ IF Cardinality(seen_set) >= WindowSize THEN Evict(h) ELSE Fill(h)
    /\ RaiseTip(h, n)

================================================================================
