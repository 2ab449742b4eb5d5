----------------------------- MODULE EthPeerQueue -----------------------------
(***************************************************************************)
(* The producer side of the dial schedulers (src/eth/eth_peer_queue.cpp):  *)
(* one EthPeerQueue per chain decides which discovered peers are offered   *)
(* to the scheduler and, as the scheduler's feedback_fn, which peers are   *)
(* queued again after a disconnect.                                        *)
(*                                                                         *)
(* The queue's own state is the set of peers it has seen, the number of    *)
(* times each was queued again and the TooManyPeers backoff of each.  It   *)
(* runs on the scheduler's thread and inside its callbacks: every step     *)
(* below is a step of DialScheduler, with the choices that module leaves   *)
(* open made by this one.                                                  *)
(***************************************************************************)
EXTENDS DialScheduler

CONSTANT MaxRequeues    \* max_disconnect_requeues

ASSUME RequeueAssumption == MaxRequeues \in Nat

VARIABLES
    seen,       \* seen[c]: seen_node_ids_
    backoff,    \* backoff[c][p]: the entry of backoff_until_, if any
    requeues,   \* requeues[c][p]: disconnect_counts_
    starts      \* history variable: dials of p on c started so far

bookVars  == <<seen, backoff, requeues>>
queueVars == <<schedVars, bookVars, starts>>

(* The reasons report_peer_disconnected tells apart; kSubprotocolError     *)
(* stands for all that are neither requeued nor backed off.                *)
Reasons == {"kTooManyPeers", "kTcpError", "kTimeout", "kSubprotocolError"}

(* An entry of backoff_until_ stays, expired, until the peer is looked up. *)
BackoffStates == {"none", "pending", "expired"}

QueueInit ==
    /\ Init
    /\ seen     = [c \in Chains |-> {}]
    /\ backoff  = [c \in Chains |-> [p \in Peers |-> "none"]]
    /\ requeues = [c \in Chains |-> [p \in Peers |-> 0]]
    /\ starts   = [c \in Chains |-> [p \in Peers |-> 0]]

-----------------------------------------------------------------------------
(* Mutations of enqueue_candidate(): it does not look for room, not at the *)
(* peers it has seen.                                                      *)
Accepts_NoRoomNeeded(c, p, allowKnown) ==
    /\ backoff[c][p] # "pending"
    /\ p \in seen[c] => allowKnown

Accepts_Duplicates(c, p, allowKnown) ==
    /\ backoff[c][p] # "pending"
    /\ HasRoom(c)

(* enqueue_candidate() hands the peer on to the scheduler.                 *)
Accepts(c, p, allowKnown) ==
    /\ backoff[c][p] # "pending"
    /\ p \in seen[c] => allowKnown
    /\ HasRoom(c)

(* What enqueue_candidate() notes about the peer.  A peer dropped for lack *)
(* of room is forgotten again, so that it may be offered later.            *)
NoteCandidate(c, p, allowKnown) ==
    /\ backoff' = IF backoff[c][p] = "expired"
                  THEN [backoff EXCEPT ![c][p] = "none"]
                  ELSE backoff
    /\ seen'    = IF Accepts(c, p, allowKnown)
                  THEN [seen EXCEPT ![c] = @ \cup {p}]
                  ELSE seen

IsRequeueableDisconnect(reason, wasConnected) ==
    reason \in {"kTcpError", "kTimeout"} /\ wasConnected

(* The peer has not used up its requeues.                                  *)
MayRequeue(c, p, reason, wasConnected) ==
    /\ IsRequeueableDisconnect(reason, wasConnected)
    /\ requeues[c][p] < MaxRequeues

(* report_peer_disconnected() offers the peer to the scheduler again.      *)
Requeued(c, p, reason, wasConnected) ==
    MayRequeue(c, p, reason, wasConnected) /\ Accepts(c, p, TRUE)

(* What report_peer_disconnected() notes about the peer.                   *)
ReportPeerDisconnected(c, p, reason, wasConnected) ==
    \/ /\ reason = "kTooManyPeers"
       /\ backoff' = [backoff EXCEPT ![c][p] = "pending"]
       /\ UNCHANGED <<seen, requeues>>
    \/ /\ MayRequeue(c, p, reason, wasConnected)
       /\ requeues' = [requeues EXCEPT ![c][p] = @ + 1]
       /\ NoteCandidate(c, p, TRUE)
    \/ /\ reason # "kTooManyPeers"
       /\ ~MayRequeue(c, p, reason, wasConnected)
       /\ UNCHANGED bookVars

-----------------------------------------------------------------------------
(* enqueue_discovered_peer, enqueue_validated_discovery_peer and the body  *)
(* of preload_cached_peers: a producer found peer p.                       *)
Discover(c, p, eligible) ==
    /\ NoteCandidate(c, p, FALSE)
    /\ IF Accepts(c, p, FALSE) THEN Offer(c, p, eligible)
                               ELSE UNCHANGED schedVars
    /\ UNCHANGED requeues

(* The scheduler's on_done with this queue as its feedback_fn.             *)
DialEnds(d, reason) ==
    LET wasConnected == d \in validated
    IN  \/ /\ d \notin reported
           /\ ReportPeerDisconnected(d.chain, d.peer, reason, wasConnected)
           /\ OnDone(d, Requeued(d.chain, d.peer, reason, wasConnected))
        \/ /\ d \in reported
           /\ OnDone(d, FALSE)
           /\ UNCHANGED bookVars

(* The scheduler's disconnect handler with this queue as its feedback_fn.  *)
DisconnectMessage(d, reason) ==
    /\ ReportPeerDisconnected(d.chain, d.peer, reason, TRUE)
    /\ PeerDisconnect(d, Requeued(d.chain, d.peer, reason, TRUE))

(* Time passes: the backoff of a peer is over.                             *)
BackoffElapses(c, p) ==
    /\ backoff[c][p] = "pending"
    /\ backoff' = [backoff EXCEPT ![c][p] = "expired"]
    /\ UNCHANGED <<schedVars, seen, requeues>>

(* The steps of the scheduler that do not involve the queue.               *)
SchedulerStep ==
    /\ \/ \E d \in dials : Connected(d) \/ SessionEnds(d)
       \/ \E c \in Chains : Stop(c)
       \/ \E c \in Chains, p \in Peers : CooldownElapses(c, p)
    /\ UNCHANGED bookVars

QueueStep ==
    \/ \E c \in Chains, p \in Peers, eligible \in BOOLEAN : Discover(c, p, eligible)
    \/ \E d \in dials, reason \in Reasons : DialEnds(d, reason)
    \/ \E d \in dials, reason \in Reasons : DisconnectMessage(d, reason)
    \/ \E c \in Chains, p \in Peers : BackoffElapses(c, p)
    \/ SchedulerStep

Started(c, p) == {d \in dials' \ dials : d.chain = c /\ d.peer = p}

QueueNext ==
    /\ QueueStep
    /\ starts' = [c \in Chains |-> [p \in Peers |->
                    starts[c][p] + Cardinality(Started(c, p))]]

QueueSpec == QueueInit /\ [][QueueNext]_queueVars

-----------------------------------------------------------------------------

(* "Maximum peers waiting in the scheduler queue": the bound holds for the *)
(* scheduler's queue although two callers fill it, discovery and the       *)
(* feedback inside on_done, which runs before the slot is recycled.        *)
PendingBounded == \A c \in Chains : Len(queue[c]) <= MaxPending

Waiting(c, p) == Cardinality({i \in 1..Len(queue[c]) : queue[c][i] = p})

(* "... without letting flaky nodes cycle forever": a peer is dialled once *)
(* for its discovery and once for each requeue, whatever it does, however  *)
(* often it is rediscovered and however many Disconnects its sessions see. *)
RedialsBounded ==
    \A c \in Chains, p \in Peers :
        starts[c][p] + Waiting(c, p) <= 1 + requeues[c][p]

=============================================================================
