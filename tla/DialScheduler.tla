---------------------------- MODULE DialScheduler ----------------------------
(***************************************************************************)
(* The per-chain dial schedulers and the connection pool they share        *)
(* (include/discv4/dial_scheduler.hpp, include/discv4/dial_history.hpp).   *)
(*                                                                         *)
(* Every scheduler owns a queue of peers, a history of recently dialled    *)
(* peers and a slot count; all of them draw on one WatcherPool.  A dial is *)
(* a coroutine: spawn_dial starts it, on_connected marks its ETH session   *)
(* validated, on_done ends it and recycles the slot.  All code runs on one *)
(* io_context thread, so a step of the model is one uninterrupted callback.*)
(*                                                                         *)
(* The coroutine's body, dial_fn, is a parameter of the scheduler.  This   *)
(* module lets it do whatever the contract of DialFn allows: connect at    *)
(* most once, and call on_done once.  feedback_fn is a parameter too: its  *)
(* effect on the scheduler is to enqueue the reported peer again, or not.  *)
(***************************************************************************)
EXTENDS Integers, Sequences, FiniteSets

CONSTANTS
    Chains,         \* one scheduler per chain
    Peers,          \* node ids
    MaxTotal,       \* WatcherPool::max_total
    MaxPerChain,    \* WatcherPool::max_per_chain
    MaxPending      \* most peers a producer leaves waiting in one queue

ASSUME LimitsAssumption == /\ MaxTotal \in Nat
                           /\ MaxPerChain \in Nat
                           /\ MaxPending \in Nat

VARIABLES
    stopping,       \* stopping[c]: stop() has been called
    queue,          \* queue[c]: peers waiting for a slot
    history,        \* history[c]: peers dialled less than a cooldown ago
    active,         \* active[c]: the slot counter of the scheduler
    activeTotal,    \* WatcherPool::active_total
    validatedCount, \* validated_count[c]
    dials,          \* the dial coroutines that have not called on_done
    validated,      \* those whose on_connected ran (*was_validated)
    reported,       \* those whose exit was fed back already (*reported)
    sessions,       \* those with a live entry in active_sessions
    ended           \* those whose session is over: closed or disconnect()ed

schedVars == <<stopping, queue, history, active, activeTotal, validatedCount,
               dials, validated, reported, sessions, ended>>

(***************************************************************************)
(* A dial coroutine.  The same peer can be dialled again while an earlier  *)
(* dial of it is still in flight (its cooldown runs from the start of the  *)
(* dial), so a dial carries an id that tells it from its twins.            *)
(***************************************************************************)
Dial == [chain : Chains, peer : Peers, id : 0..MaxTotal]

DialsOf(D, c) == {d \in D : d.chain = c}

DialOf(c, p, n) == [chain |-> c, peer |-> p, id |-> n]

FreshId(D, c, p) == CHOOSE n \in 0..Cardinality(D) : DialOf(c, p, n) \notin D

NewDial(D, c, p) == DialOf(c, p, FreshId(D, c, p))

-----------------------------------------------------------------------------
(***************************************************************************)
(* enqueue() and release() run to completion, and on_done runs one after   *)
(* the other.  They are operators on the part of the state they read and   *)
(* write: one scheduler, the pool's counter and the coroutines.            *)
(***************************************************************************)
Sched(c) == [active  |-> active[c],
             total   |-> activeTotal,
             queue   |-> queue[c],
             history |-> history[c],
             dials   |-> dials]

(* Mutation: the chain's cap is off by one.                                *)
HasSlot_OneTooMany(s) == s.active <= MaxPerChain /\ s.total < MaxTotal

HasSlot(s) == s.active < MaxPerChain /\ s.total < MaxTotal

(* Take a slot for every peer of P, remember it and spawn its coroutine.   *)
StartDials(s, c, P) ==
    [s EXCEPT !.active  = @ + Cardinality(P),
              !.total   = @ + Cardinality(P),
              !.history = @ \cup P,
              !.dials   = @ \cup {NewDial(s.dials, c, p) : p \in P}]

(* Mutation: enqueue() does not look at stopping.                          *)
Enqueue_WhileStopping(s, c, p, eligible) ==
    IF ~eligible \/ p \in s.history
    THEN s
    ELSE IF HasSlot(s) THEN StartDials(s, c, {p})
                       ELSE [s EXCEPT !.queue = Append(@, p)]

(* enqueue(): dropped, started at once, or left waiting.  eligible is what *)
(* filter_fn says of this sighting of the peer: one and the same node is   *)
(* seen with and without the fork id the filter wants.                     *)
Enqueue(s, c, p, eligible) ==
    IF \/ stopping[c]
       \/ ~eligible
       \/ p \in s.history
    THEN s
    ELSE IF HasSlot(s) THEN StartDials(s, c, {p})
                       ELSE [s EXCEPT !.queue = Append(@, p)]

(***************************************************************************)
(* The loop of release() pops peers while a slot is free and dials those   *)
(* that are not in the history, which it extends as it goes.  In closed    *)
(* form: a position is fresh if its peer is not in the history and does    *)
(* not occur earlier in the queue; a position is popped if fewer fresh     *)
(* positions precede it than there are free slots.                         *)
(***************************************************************************)
FreeSlots(s) == IF MaxPerChain - s.active < MaxTotal - s.total
                THEN MaxPerChain - s.active
                ELSE MaxTotal - s.total

(* Mutation: the loop dials what it pops, history or not.                  *)
Fresh_AnyPeer(s) == {i \in 1..Len(s.queue) :
                       \A j \in 1..(i-1) : s.queue[j] # s.queue[i]}

Fresh(s) == {i \in 1..Len(s.queue) :
                /\ s.queue[i] \notin s.history
                /\ \A j \in 1..(i-1) : s.queue[j] # s.queue[i]}

FreshBefore(s, i) == {j \in Fresh(s) : j < i}

Popped(s) == {i \in 1..Len(s.queue) :
                Cardinality(FreshBefore(s, i)) < FreeSlots(s)}

Launched(s) == {s.queue[i] : i \in Fresh(s) \cap Popped(s)}

Drain(s, c) ==
    [StartDials(s, c, Launched(s)) EXCEPT
        !.queue = SubSeq(@, Cardinality(Popped(s)) + 1, Len(@))]

(* Mutation: the slot is not returned to the pool.                         *)
Recycle_PoolSlotKept(s) == [s EXCEPT !.active = @ - 1]

Recycle(s) == [s EXCEPT !.active = @ - 1, !.total = @ - 1]

(* Mutation: release() recycles the slot and does not drain the queue.     *)
Release_NoDrain(s, c, d) == [Recycle(s) EXCEPT !.dials = @ \ {d}]

(* release(), called by on_done of dial d.  The coroutine that called      *)
(* on_done exists until the call returns.                                  *)
Release(s, c, d) ==
    [(IF stopping[c] THEN Recycle(s) ELSE Drain(Recycle(s), c)) EXCEPT
        !.dials = @ \ {d}]

Becomes(c, s) ==
    /\ active'      = [active  EXCEPT ![c] = s.active]
    /\ activeTotal' = s.total
    /\ queue'       = [queue   EXCEPT ![c] = s.queue]
    /\ history'     = [history EXCEPT ![c] = s.history]
    /\ dials'       = s.dials

-----------------------------------------------------------------------------
Init ==
    /\ stopping       = [c \in Chains |-> FALSE]
    /\ queue          = [c \in Chains |-> <<>>]
    /\ history        = [c \in Chains |-> {}]
    /\ active         = [c \in Chains |-> 0]
    /\ activeTotal    = 0
    /\ validatedCount = [c \in Chains |-> 0]
    /\ dials = {} /\ validated = {} /\ reported = {} /\ sessions = {} /\ ended = {}

(* A producer looks at the queue's size before it offers a peer.           *)
HasRoom(c) == HasSlot(Sched(c)) \/ Len(queue[c]) < MaxPending

Offer(c, p, eligible) ==
    /\ Becomes(c, Enqueue(Sched(c), c, p, eligible))
    /\ UNCHANGED <<stopping, validatedCount, validated, reported, sessions, ended>>

(* A peer that was dialled passed the filter, and is fed back as it was.   *)
Feedback(d, requeue) ==
    IF requeue THEN Enqueue(Sched(d.chain), d.chain, d.peer, TRUE)
               ELSE Sched(d.chain)

(* on_connected.                                                           *)
Connected(d) ==
    /\ d \in dials \ validated
    /\ validated'      = validated \cup {d}
    /\ validatedCount' = [validatedCount EXCEPT ![d.chain] = @ + 1]
    /\ sessions'       = sessions \cup {d}
    /\ UNCHANGED <<stopping, queue, history, active, activeTotal, dials,
                   reported, ended>>

(* The handler on_connected installs: a Disconnect message arrived, and is *)
(* fed back whether or not an earlier one was.                             *)
PeerDisconnect(d, requeue) ==
    /\ d \in validated
    /\ reported' = reported \cup {d}
    /\ Becomes(d.chain, Feedback(d, requeue))
    /\ UNCHANGED <<stopping, validatedCount, validated, sessions, ended>>

(* The session's connection is lost, or closed by the peer.                *)
SessionEnds(d) ==
    /\ d \in validated \ ended
    /\ ended' = ended \cup {d}
    /\ UNCHANGED <<stopping, queue, history, active, activeTotal, validatedCount,
                   dials, validated, reported, sessions>>

(* on_done: the feedback comes first, while the slot is still taken.       *)
OnDone(d, requeue) ==
    /\ d \in dials
    /\ requeue => d \notin reported
    /\ Becomes(d.chain, Release(Feedback(d, requeue), d.chain, d))
    /\ validatedCount' = IF d \in validated
                         THEN [validatedCount EXCEPT ![d.chain] = @ - 1]
                         ELSE validatedCount
    /\ validated' = validated \ {d}
    /\ reported'  = reported \ {d}
    /\ sessions'  = sessions \ {d}
    /\ ended'     = ended \ {d}
    /\ UNCHANGED stopping

(* Mutation: stop() forgets the sessions without disconnecting them.       *)
Stop_NoDisconnect(c) ==
    /\ stopping' = [stopping EXCEPT ![c] = TRUE]
    /\ queue'    = [queue EXCEPT ![c] = <<>>]
    /\ sessions' = sessions \ DialsOf(sessions, c)
    /\ UNCHANGED <<history, active, activeTotal, validatedCount, dials,
                   validated, reported, ended>>

(* stop(): forget the queue and disconnect the sessions known so far.      *)
Stop(c) ==
    /\ stopping' = [stopping EXCEPT ![c] = TRUE]
    /\ queue'    = [queue EXCEPT ![c] = <<>>]
    /\ ended'    = ended \cup DialsOf(sessions, c)
    /\ sessions' = sessions \ DialsOf(sessions, c)
    /\ UNCHANGED <<history, active, activeTotal, validatedCount, dials,
                   validated, reported>>

(* Time passes: the expiry of one history entry is reached.                *)
CooldownElapses(c, p) ==
    /\ p \in history[c]
    /\ history' = [history EXCEPT ![c] = @ \ {p}]
    /\ UNCHANGED <<stopping, queue, active, activeTotal, validatedCount, dials,
                   validated, reported, sessions, ended>>

Next ==
    \/ \E c \in Chains, p \in Peers, eligible \in BOOLEAN :
          HasRoom(c) /\ Offer(c, p, eligible)
    \/ \E d \in dials : Connected(d)
    \/ \E d \in dials, requeue \in BOOLEAN :
          (requeue => HasRoom(d.chain)) /\ PeerDisconnect(d, requeue)
    \/ \E d \in dials : SessionEnds(d)
    \/ \E d \in dials, requeue \in BOOLEAN :
          (requeue => HasRoom(d.chain)) /\ OnDone(d, requeue)
    \/ \E c \in Chains : Stop(c)
    \/ \E c \in Chains, p \in Peers : CooldownElapses(c, p)

Spec == Init /\ [][Next]_schedVars

(***************************************************************************)
(* What the scheduler may count on.  A dial attempt does not last for      *)
(* ever, it connects or fails: the TCP connect, the HELLO and the Status   *)
(* exchange are bounded by timers, and the auth exchange between them is   *)
(* assumed to end with an answer or with a broken connection (it has no    *)
(* timer of its own).  Once a session is over, its coroutine runs to its   *)
(* end and calls on_done.  A live session may stay for ever, and nothing   *)
(* obliges producers, clocks or stop().                                    *)
(***************************************************************************)
AttemptSettles(d) == d \notin validated /\ (Connected(d) \/ OnDone(d, FALSE))

SessionUnwinds(d) == d \in ended /\ OnDone(d, FALSE)

Fairness == \A d \in Dial : /\ WF_schedVars(AttemptSettles(d))
                            /\ WF_schedVars(SessionUnwinds(d))

FairSpec == Spec /\ Fairness

-----------------------------------------------------------------------------
(* The state is well-typed.                                                *)
TypeOK ==
    /\ stopping \in [Chains -> BOOLEAN]
    /\ queue \in [Chains -> Seq(Peers)]
    /\ history \in [Chains -> SUBSET Peers]
    /\ active \in [Chains -> Nat]
    /\ activeTotal \in Nat
    /\ validatedCount \in [Chains -> Nat]
    /\ dials \subseteq Dial
    /\ validated \subseteq dials
    /\ reported \subseteq validated
    /\ sessions \subseteq validated
    /\ ended \subseteq validated

(* The two-level cap of WatcherPool: however enqueue(), release(), the     *)
(* feedback inside on_done and stop() interleave over the chains, no more  *)
(* dial coroutines exist at once than max_per_chain for a chain and        *)
(* max_total for all of them.                                              *)
CapsRespected ==
    /\ \A c \in Chains : Cardinality(DialsOf(dials, c)) <= MaxPerChain
    /\ Cardinality(dials) <= MaxTotal

(* The counters are what they claim to be: active and active_total count   *)
(* the coroutines in flight, validated_count those with a validated        *)
(* session, so no exit path leaks a slot or returns one twice.             *)
SlotAccounting ==
    /\ \A c \in Chains : active[c] = Cardinality(DialsOf(dials, c))
    /\ activeTotal = Cardinality(dials)
    /\ \A c \in Chains : validatedCount[c] = Cardinality(DialsOf(validated, c))

(* After stop() a scheduler only winds down: it never starts another dial, *)
(* and neither a late feedback nor a producer puts a peer in its queue.    *)
StopIsFinal ==
    [][\A c \in Chains : stopping[c] =>
          /\ stopping'[c]
          /\ queue'[c] = <<>>
          /\ DialsOf(dials', c) \subseteq DialsOf(dials, c)]_schedVars

(* One dial per cooldown: a peer that was dialled is not dialled again on  *)
(* the same chain before its history entry expires, even if it was queued  *)
(* several times or fed back while the first dial was in flight.           *)
NoRedialInCooldown ==
    [][\A d \in dials' \ dials : d.peer \notin history[d.chain]]_schedVars

(* A scheduler that gets a slot back uses it: when on_done returns, its    *)
(* queue is empty or a cap is reached, no matter how many of the queued    *)
(* peers were dropped on the way and how many slots other chains freed.    *)
ReleaseFillsSlots ==
    [][\A c \in Chains :
          (~stopping[c] /\ DialsOf(dials \ dials', c) # {}) =>
             queue'[c] = <<>> \/ ~HasSlot(Sched(c))']_schedVars

(* No slot stands idle while a peer waits: "Queued peers are launched as   *)
(* soon as a slot becomes free."                                           *)
NoIdleSlot ==
    \A c \in Chains : queue[c] # <<>> => ~HasSlot(Sched(c))

InQueue(c, p) == \E i \in 1..Len(queue[c]) : queue[c][i] = p

(* Live sessions hold every slot the chain could use.                      *)
Saturated(c) ==
    LET live == validated \ ended
    IN  \/ Cardinality(DialsOf(live, c)) >= MaxPerChain
        \/ Cardinality(live) >= MaxTotal

(* A peer that waits is dialled or dropped in the end, unless live         *)
(* sessions come to hold all slots: attempts that fail and sessions that   *)
(* end make room for it.                                                   *)
WaitingPeerLeaves ==
    \A c \in Chains, p \in Peers :
        InQueue(c, p) ~> \/ ~InQueue(c, p)
                         \/ p \in history[c]
                         \/ Saturated(c)

(* After stop() every attempt and every session it knew unwinds and gives  *)
(* its slot back; only an attempt that connects after stop() may stay.     *)
StopUnwindsKnown ==
    \A c \in Chains : stopping[c] ~> DialsOf(dials, c) \subseteq sessions

=============================================================================
