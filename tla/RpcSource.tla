-------------------------------- MODULE RpcSource --------------------------------
(* The JSON-RPC receipt source (src/src/eth/rpc_receipt_source.cpp), bridged to  *)
(* the watch service (src/src/eth/eth_receipt_source.cpp). A poll is a sequence  *)
(* of calls to one node; between two calls the node's chain grows or            *)
(* reorganises, and any call may fail. What a call returns is read off the      *)
(* chain when the call is made.                                                 *)
EXTENDS EventWatch, FinalityPolicy, ReceiptVerifier, FiniteSets

CONSTANTS Direct,         \* what is watched at the service itself
          Rescans,        \* the ranges a caller may backfill itself
          Branches,       \* names of competing blocks of one height
          TxsOf,          \* TxsOf[<<height, branch>>]: the block's transactions
          LogsOf,         \* the logs of each transaction
          Policies,       \* the finality policies
          max_log_range,
          MaxHeight, MaxUpsets   \* bounds: blocks; reorganisations, failed calls and rescans

ASSUME RangeAssumption  == max_log_range \in Nat \ {0}
ASSUME PolicyAssumption == \A p \in Policies : p.confirmation_depth \in Nat \ {0}

VARIABLES chain,          \* the node's canonical chain: the branch at each height
          finalized, safe, \* the node's tags
          upsets,         \* counts the reorganisations, failed calls and rescans
          policy,
          filters,        \* RpcReceiptSource::filters_
          next_watch_id,
          bridged,        \* EthReceiptSourceBridge::subscriptions_
          last_processed_block,
          calling,        \* the call that is waited for, "" for none
          heads,          \* the heads read so far in this poll
          range,          \* backfill's loop: [start, end, to]
          entry,          \* the filter backfill_filter runs for
          logs,           \* the transactions of its logs still to look at
          seen_transactions,
          since,          \* history: last_processed_block when a watch was added
          delivered       \* history: the callbacks made

nodeVars == <<chain, finalized, safe>>
pollVars == <<calling, heads, range, entry, logs, seen_transactions>>
bridgeVars == <<filters, next_watch_id, bridged>>
vars == <<nodeVars, pollVars, bridgeVars, watchVars, upsets, policy,
          last_processed_block, since, delivered>>

NoHeads == [finalized |-> <<>>, safe |-> <<>>, latest |-> <<>>]
NoRange == [start |-> 0, end |-> 0, to |-> 0]

Init ==
    /\ WatchInit
    /\ chain = <<>> /\ finalized = 0 /\ safe = 0
    /\ upsets = 0
    /\ policy \in Policies
    /\ filters = <<>> /\ next_watch_id = 1 /\ bridged = <<>>
    /\ last_processed_block = 0
    /\ calling = "" /\ heads = NoHeads /\ range = NoRange
    /\ entry = 0 /\ logs = <<>> /\ seen_transactions = {}
    /\ since = <<>> /\ delivered = {}

--------------------------------------------------------------------------------
(* The node (external). Blocks up to the tags, and blocks with as many          *)
(* confirmations as the policy asks for, are not replaced.                      *)

latest == Len(chain)

Most(S) == CHOOSE n \in S : \A k \in S : k <= n

Settled == Most({finalized, safe} \cup
                (IF latest >= policy.confirmation_depth THEN {latest - policy.confirmation_depth} ELSE {0}))

(* No transaction is twice in a chain.                                          *)
Valid(c) == \A m, n \in DOMAIN c :
                m < n => ToSet(TxsOf[<<m, c[m]>>]) \cap ToSet(TxsOf[<<n, c[n]>>]) = {}

Grow ==
    /\ latest < MaxHeight
    /\ \E b \in IF chain = <<>> THEN Branches ELSE {Last(chain)} : chain' = Append(chain, b)
    /\ Valid(chain')
    /\ UNCHANGED <<finalized, safe, upsets>>

Reorg ==
    /\ upsets < MaxUpsets
    /\ \E n \in (Settled + 1)..latest : \E b \in Branches \ {chain[n]}, more \in 0..1 :
         /\ latest + more <= MaxHeight
         /\ chain' = [i \in 1..(latest + more) |-> IF i < n THEN chain[i] ELSE b]
         /\ Valid(chain')
    /\ upsets' = upsets + 1
    /\ UNCHANGED <<finalized, safe>>

Finalize ==
    /\ finalized < latest
    /\ safe' = latest /\ finalized' = safe
    /\ UNCHANGED <<chain, upsets>>

Node == /\ Grow \/ Reorg \/ Finalize
        /\ UNCHANGED <<pollVars, bridgeVars, watchVars, policy,
                       last_processed_block, since, delivered>>

BlockAt(n) == << n, chain[n] >>
Txs(n)     == TxsOf[BlockAt(n)]
Heights(tx) == {n \in 1..latest : Contains(Txs(n), tx)}

(* The index in its block of a transaction's first log.                         *)
FirstLog(n, tx) ==
    FoldLeft(LAMBDA a, t : a + Len(LogsOf[t]), 0,
             SubSeq(Txs(n), 1, (CHOOSE i \in DOMAIN Txs(n) : Txs(n)[i] = tx) - 1))

(* eth_getTransactionReceipt for a transaction of the chain.                    *)
ReceiptOf(tx) ==
    LET n == CHOOSE k \in Heights(tx) : TRUE
    IN  [status |-> <<TRUE>>, number |-> n, block_hash |-> BlockAt(n), tx_hash |-> tx,
         logs |-> LogsOf[tx],
         log_indices |-> [i \in DOMAIN LogsOf[tx] |-> FirstLog(n, tx) + i - 1]]

(* eth_getLogs: the transaction of every log that the request's address and     *)
(* topics select, in the order of the chain. The request carries the range of   *)
(* the loop, not the filter's own bounds.                                       *)
Selects(f, log) == matches([f EXCEPT !.from = <<>>, !.to = <<>>], log, 0)

GetLogs(f, from, to) ==
    LET Hits(tx) == [i \in DOMAIN SelectSeq(LogsOf[tx], LAMBDA l : Selects(f, l)) |-> tx]
        InBlock(n) == FlattenSeq([i \in DOMAIN Txs(n) |-> Hits(Txs(n)[i])])
    IN  FlattenSeq([i \in 1..(to - from + 1) |-> InBlock(from + i - 1)])

--------------------------------------------------------------------------------
(* The bridge                                                                   *)

Idle == calling = ""

add_filter(w) ==
    /\ filters' = Append(filters, [id |-> next_watch_id, filter |-> make_event_filter(w)])
    /\ next_watch_id' = next_watch_id + 1

(* EthReceiptSourceBridge::watch_event                                          *)
Watch(w) ==
    /\ Idle
    /\ watch_event(w)
    /\ add_filter(w)
    /\ bridged' = Append(bridged, [service_id |-> next_id, source_id |-> next_watch_id])
    /\ since' = Append(since, [id |-> next_id, w |-> w, block |-> last_processed_block])
    /\ UNCHANGED <<nodeVars, pollVars, upsets, policy, last_processed_block, delivered>>

(* A caller that watches the service itself, for the blocks its peers announce. *)
WatchService(w) ==
    /\ Idle
    /\ watch_event(w)
    /\ UNCHANGED <<nodeVars, pollVars, bridgeVars, upsets, policy,
                   last_processed_block, since, delivered>>

remove_filter(sub) == Without(filters, sub.source_id)

(* EthReceiptSourceBridge::unwatch                                              *)
Unwatch(id) ==
    /\ Idle
    /\ unwatch(id)
    /\ LET at == {i \in DOMAIN bridged : bridged[i].service_id = id}
           i  == CHOOSE k \in at : \A j \in at : k <= j
       IN  IF at = {} THEN UNCHANGED <<filters, bridged>>
           ELSE /\ filters' = remove_filter(bridged[i])
                /\ bridged' = RemoveAt(bridged, i)
    /\ since' = SelectSeq(since, LAMBDA s : s.id # id)
    /\ UNCHANGED <<nodeVars, pollVars, next_watch_id, upsets, policy,
                   last_processed_block, delivered>>

--------------------------------------------------------------------------------
(* Polling                                                                      *)

Return == /\ calling' = "" /\ heads' = NoHeads /\ range' = NoRange
          /\ entry' = 0 /\ logs' = <<>> /\ seen_transactions' = {}

Await(call, hs) == /\ calling' = call /\ heads' = hs
                   /\ UNCHANGED <<range, entry, logs, seen_transactions>>

Least(a, b) == IF a <= b THEN a ELSE b

(* The first range of a backfill, or the next one.                              *)
RangeFrom(start, to) == [start |-> start, end |-> start + Least(max_log_range - 1, to - start), to |-> to]

(* A mutant: the block is passed before its receipts are.                       *)
Passed_early(r, k, last) == r.end

(* last_processed_block_ is advanced when the last filter is done.              *)
Passed(r, k, last) == IF k > Len(filters) THEN r.end ELSE last

StartBackfill(from, to) ==
    IF filters = <<>>
    THEN Return /\ last_processed_block' = to
    ELSE /\ calling' = "logs" /\ range' = RangeFrom(from, to) /\ entry' = 1
         /\ logs' = <<>> /\ seen_transactions' = {} /\ heads' = NoHeads
         /\ last_processed_block' = Passed(RangeFrom(from, to), 1, last_processed_block)

(* What backfill does next, the transactions ts still to be looked at.          *)
Continue(ts, seen) ==
    LET rest == SelectSeq(ts, LAMBDA t : t \notin seen)
        k    == entry + 1
    IN  IF rest # <<>>
        THEN /\ calling' = "receipt" /\ logs' = rest /\ seen_transactions' = seen
             /\ UNCHANGED <<heads, range, entry, last_processed_block>>
        ELSE /\ last_processed_block' = Passed(range, k, last_processed_block)
             /\ IF k <= Len(filters)
                THEN /\ calling' = "logs" /\ entry' = k /\ logs' = <<>>
                     /\ seen_transactions' = seen /\ UNCHANGED <<heads, range>>
                ELSE IF range.end = range.to THEN Return
                ELSE /\ calling' = "logs" /\ range' = RangeFrom(range.end + 1, range.to)
                     /\ entry' = 1 /\ logs' = <<>> /\ seen_transactions' = {} /\ UNCHANGED heads

NotPolling == UNCHANGED <<nodeVars, bridgeVars, watchVars, policy, since>>

PollOnce ==
    /\ Idle
    /\ Await(IF policy.prefer_finalized THEN "finalized"
             ELSE IF policy.prefer_safe THEN "safe" ELSE "latest", NoHeads)
    /\ NotPolling /\ UNCHANGED <<upsets, last_processed_block, delivered>>

(* The calls for the tags: a failed one leaves its head unset.                  *)
FinalizedCall(ok) ==
    /\ calling = "finalized"
    /\ Await(IF policy.prefer_safe THEN "safe" ELSE "latest",
             [heads EXCEPT !.finalized = IF ok THEN <<finalized>> ELSE <<>>])
    /\ UNCHANGED <<last_processed_block, delivered>>

SafeCall(ok) ==
    /\ calling = "safe"
    /\ Await("latest", [heads EXCEPT !.safe = IF ok THEN <<safe>> ELSE <<>>])
    /\ UNCHANGED <<last_processed_block, delivered>>

(* A mutant: the block after the last one is not new.                           *)
NothingNew_OffByOne(head) == head <= last_processed_block + 1

NothingNew(head) == head <= last_processed_block

LatestCall(ok) ==
    /\ calling = "latest"
    /\ LET head == choose_finality_head(policy, [heads EXCEPT !.latest = IF ok THEN <<latest>> ELSE <<>>])
       IN  IF head = <<>> THEN Return /\ UNCHANGED last_processed_block
           ELSE IF NothingNew(head[1]) THEN Return /\ UNCHANGED last_processed_block
           ELSE StartBackfill(last_processed_block + 1, head[1])
    /\ UNCHANGED delivered

(* A mutant: the request leaves toBlock open.                                   *)
ToBlock_Latest(r) == latest

ToBlock(r) == r.end

LogsCall(ok) ==
    /\ calling = "logs"
    /\ IF ok THEN Continue(GetLogs(filters[entry].filter, range.start, ToBlock(range)), seen_transactions)
       ELSE Return /\ UNCHANGED last_processed_block
    /\ UNCHANGED delivered

(* emit_receipt: a transaction that is no longer in the chain has no receipt.   *)
ReceiptCall(ok) ==
    /\ calling = "receipt"
    /\ LET tx == Head(logs)
           r  == ReceiptOf(tx)
       IN  IF ok /\ Heights(tx) # {}
           THEN /\ delivered' = delivered \cup
                     ToSet(process_receipts(<<r.logs>>, <<tx>>, r.number, r.block_hash, <<r.log_indices>>))
                /\ Continue(Tail(logs), seen_transactions \cup {tx})
           ELSE Return /\ UNCHANGED <<last_processed_block, delivered>>

Call(ok) == /\ \/ FinalizedCall(ok) \/ SafeCall(ok) \/ LatestCall(ok)
               \/ LogsCall(ok) \/ ReceiptCall(ok)
            /\ NotPolling

CallSucceeds == Call(TRUE) /\ UNCHANGED upsets
CallFails    == upsets < MaxUpsets /\ Call(FALSE) /\ upsets' = upsets + 1

(* A caller's own backfill of blocks that were passed before: it moves          *)
(* last_processed_block back.                                                   *)
Rescan(from, to) ==
    /\ Idle /\ upsets < MaxUpsets
    /\ from <= to /\ to <= last_processed_block
    /\ StartBackfill(from, to)
    /\ upsets' = upsets + 1
    /\ NotPolling /\ UNCHANGED delivered

Poll == PollOnce \/ CallSucceeds \/ CallFails

Next ==
    \/ Node
    \/ \E w \in Watches : Watch(w)
    \/ \E w \in Direct : WatchService(w)
    \/ \E id \in 1..MaxWatches : id < next_id /\ Unwatch(id)
    \/ Poll
    \/ \E r \in Rescans : Rescan(r.from, r.to)

Spec == Init /\ [][Next]_vars

--------------------------------------------------------------------------------
(* The log of the transaction that a caller of watch w is to hear of.           *)
Wanted(w, log, n) ==
    /\ w.address \in {ZeroAddress, log.address}
    /\ log.topics # <<>> /\ log.topics[1] = w.sig
    /\ Len(log.topics) > w.indexed /\ log.words >= w.words
    /\ w.from = <<>> \/ n >= w.from[1]
    /\ w.to = <<>> \/ n <= w.to[1]

(* No log is passed over: for every bridged watch, everything it wants in the   *)
(* blocks from the one after its registration up to last_processed_block was    *)
(* delivered, although calls failed half-way through a range (poll_once,        *)
(* backfill).                                                                   *)
NoLogMissed ==
    \A k \in DOMAIN since : \A n \in (since[k].block + 1)..last_processed_block :
        \A t \in DOMAIN Txs(n) : \A i \in DOMAIN LogsOf[Txs(n)[t]] :
            LET tx == Txs(n)[t] IN
            Wanted(since[k].w, LogsOf[tx][i], n) =>
                [id |-> since[k].id,
                 event |-> Event(LogsOf[tx][i], n, BlockAt(n), tx, FirstLog(n, tx) + i - 1)] \in delivered

(* What was delivered is never taken back: the block of every event delivered   *)
(* stays in the chain, because no head that finality_head returned, whichever   *)
(* tag it came from and however old it is when it is used, is above what the    *)
(* chain has settled.                                                           *)
OnlyFinal == \A d \in delivered : d.event.number <= latest /\ d.event.hash = BlockAt(d.event.number)

ClaimOf(e) == [block_hash |-> e.hash, tx_hash |-> e.tx, log_index |-> e.index,
               bridge_contract |-> e.log.address, event_topic0 |-> e.log.topics[1],
               topics |-> e.log.topics, data |-> e.log.words]

(* A claim made from an event that was delivered verifies against the receipt   *)
(* that the node returns, then and at any later time: the index the watcher     *)
(* counted is the log's index in its block (process_receipts,                   *)
(* verify_receipt_log).                                                         *)
ClaimsVerify == \A d \in delivered : verify_receipt_log(ReceiptOf(d.event.tx), ClaimOf(d.event)) = ""

(* The blocks that the chain has settled are passed in the end.                 *)
CatchesUp ==
    \A n \in 1..MaxHeight :
        (IF policy.prefer_finalized THEN finalized >= n ELSE latest >= n + policy.confirmation_depth)
            ~> (last_processed_block >= n)

================================================================================
