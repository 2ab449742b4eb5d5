------------------------------- MODULE EventWatch -------------------------------
(* Subscriptions and the dispatch of logs to them: EventFilter and             *)
(* EventWatcher (src/src/eth/event_filter.cpp) and the part of EthWatchService *)
(* that registers watches and hands receipts on                                *)
(* (src/src/eth/eth_watch_service.cpp). The service and its watcher each keep  *)
(* a list of their own and count their ids on their own.                       *)
EXTENDS Naturals, Sequences, SequencesExt

CONSTANTS Watches,      \* what may be watched: [address, sig, from, to, indexed, words]
          ZeroAddress,  \* stands for any contract
          MaxWatches    \* bound: watch_event calls

VARIABLES subscriptions,   \* EthWatchService::subscriptions_
          watched,         \* EventWatcher::subscriptions_
          next_id, watcher_next_id

watchVars == <<subscriptions, watched, next_id, watcher_next_id>>

WatchInit == /\ subscriptions = <<>> /\ watched = <<>>
             /\ next_id = 1 /\ watcher_next_id = 1

--------------------------------------------------------------------------------
(* Filters. An optional bound is a sequence of at most one number; a topic of  *)
(* a filter is a sequence of at most one hash.                                 *)

make_event_filter(w) ==
    [addresses |-> IF w.address = ZeroAddress THEN <<>> ELSE <<w.address>>,
     topics    |-> << <<w.sig>> >>,
     from      |-> w.from,
     to        |-> w.to]

(* A mutant: the upper bound is exclusive.                                     *)
matches_exclusive(f, log, block) ==
    /\ f.from # <<>> => block >= f.from[1]
    /\ f.to # <<>> => block < f.to[1]
    /\ f.addresses # <<>> => \E i \in DOMAIN f.addresses : f.addresses[i] = log.address
    /\ \A i \in DOMAIN f.topics :
         f.topics[i] # <<>> => i <= Len(log.topics) /\ log.topics[i] = f.topics[i][1]

matches(f, log, block) ==
    /\ f.from # <<>> => block >= f.from[1]
    /\ f.to # <<>> => block <= f.to[1]
    /\ f.addresses # <<>> => \E i \in DOMAIN f.addresses : f.addresses[i] = log.address
    /\ \A i \in DOMAIN f.topics :
         f.topics[i] # <<>> => i <= Len(log.topics) /\ log.topics[i] = f.topics[i][1]

(* Whether decode_log succeeds, for parameters of static types: the signature  *)
(* is the first topic, every indexed parameter has a topic and the data holds  *)
(* a word for every other one. What it decodes is in AbiDecoder.               *)
Decodable(log, w) ==
    /\ log.topics # <<>> /\ log.topics[1] = w.sig
    /\ Len(log.topics) > w.indexed
    /\ log.words >= w.words

--------------------------------------------------------------------------------
(* Watching                                                                    *)

watch_event(w) ==
    /\ next_id <= MaxWatches
    /\ subscriptions' = Append(subscriptions, [id |-> next_id, w |-> w])
    /\ watched' = Append(watched, [id |-> watcher_next_id, filter |-> make_event_filter(w),
                                   owner |-> next_id])
    /\ next_id' = next_id + 1
    /\ watcher_next_id' = watcher_next_id + 1

Without(subs, id) == SelectSeq(subs, LAMBDA s : s.id # id)

(* The watcher is given the service's id.                                      *)
unwatch(id) ==
    /\ subscriptions' = Without(subscriptions, id)
    /\ watched' = Without(watched, id)
    /\ UNCHANGED <<next_id, watcher_next_id>>

(* What the callback registered with the watcher finds.                        *)
OwnersOf(id) == {i \in DOMAIN subscriptions : subscriptions[i].id = id}

(* The callback of one watcher entry for a log: nothing if the subscription is *)
(* gone or the log cannot be decoded.                                          *)
Callback(entry, event) ==
    LET owners == OwnersOf(entry.owner)
        s      == subscriptions[CHOOSE i \in owners : \A j \in owners : i <= j]
    IN  IF owners = {} THEN <<>>
        ELSE IF ~Decodable(event.log, s.w) THEN <<>>
        ELSE << [id |-> s.id, event |-> event] >>

Event(log, number, hash, tx, index) ==
    [log |-> log, number |-> number, hash |-> hash, tx |-> tx, index |-> index]

(* EventWatcher::process_receipt: the callbacks made, in order.                *)
process_receipt(logs, tx, number, hash, first) ==
    FlattenSeq([i \in DOMAIN logs |->
        LET event   == Event(logs[i], number, hash, tx, first + i - 1)
            matched == SelectSeq(watched, LAMBDA e : matches(e.filter, logs[i], number))
        IN  FlattenSeq([k \in DOMAIN matched |-> Callback(matched[k], event)])])

LogsBefore(receipts, i) == FoldLeft(LAMBDA n, logs : n + Len(logs), 0, SubSeq(receipts, 1, i - 1))

(* A mutant: the logs are counted from the batch's first receipt on.           *)
FirstIndex_Counted(receipts, indices, i) == LogsBefore(receipts, i)

(* Where the log indices of a receipt start: where the source says, else after *)
(* the logs of the receipts before it.                                         *)
FirstIndex(receipts, indices, i) ==
    IF i <= Len(indices) /\ indices[i] # <<>> THEN indices[i][1] ELSE LogsBefore(receipts, i)

(* EthWatchService::process_receipts. A receipt is the sequence of its logs.   *)
process_receipts(receipts, txs, number, hash, indices) ==
    FlattenSeq([i \in 1..(IF Len(receipts) <= Len(txs) THEN Len(receipts) ELSE Len(txs)) |->
        process_receipt(receipts[i], txs[i], number, hash, FirstIndex(receipts, indices, i))])

================================================================================
