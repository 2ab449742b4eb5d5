------------------------- MODULE EthPeerQueueProofs -------------------------
(***************************************************************************)
(* EthPeerQueue drives the schedulers within the rules DialScheduler       *)
(* states for producers and feedback consumers, so everything proved of    *)
(* the schedulers holds of the two together.                               *)
(***************************************************************************)
EXTENDS EthPeerQueue, DialSchedulerProofs

(* Each step of the queue is a step of the scheduler, or none.             *)
LEMMA QueueStepIsSchedulerStep ==
    QueueNext => [Next]_schedVars
<1> SUFFICES ASSUME QueueStep PROVE [Next]_schedVars
  BY DEF QueueNext
<1>1. ASSUME NEW c \in Chains, NEW p \in Peers, NEW eligible \in BOOLEAN,
             Discover(c, p, eligible)
      PROVE  [Next]_schedVars
  <2>1. CASE Accepts(c, p, FALSE)
    <3>1. HasRoom(c) /\ Offer(c, p, eligible)
      BY <1>1, <2>1 DEF Discover, Accepts
    <3> QED  BY <3>1 DEF Next
  <2>2. CASE ~Accepts(c, p, FALSE)
    BY <1>1, <2>2 DEF Discover
  <2> QED  BY <2>1, <2>2, Zenon
<1>2. ASSUME NEW d \in dials, NEW b, b \in BOOLEAN, b => HasRoom(d.chain),
             OnDone(d, b) \/ PeerDisconnect(d, b)
      PROVE  [Next]_schedVars
  BY <1>2 DEF Next
<1>3. ASSUME NEW d \in dials, NEW reason \in Reasons, NEW was
      PROVE  /\ Requeued(d.chain, d.peer, reason, was) \in BOOLEAN
             /\ Requeued(d.chain, d.peer, reason, was) => HasRoom(d.chain)
  BY DEF Requeued, MayRequeue, Accepts
<1>4. ASSUME NEW d \in dials, NEW reason \in Reasons, DialEnds(d, reason)
      PROVE  [Next]_schedVars
  <2> DEFINE b == Requeued(d.chain, d.peer, reason, d \in validated)
  <2>1. b \in BOOLEAN /\ (b => HasRoom(d.chain))
    BY <1>3
  <2>2. OnDone(d, b) \/ OnDone(d, FALSE)
    BY <1>4, Zenon DEF DialEnds
  <2> HIDE DEF b
  <2> QED  BY <1>2, <2>1, <2>2, Zenon
<1>5. ASSUME NEW d \in dials, NEW reason \in Reasons, DisconnectMessage(d, reason)
      PROVE  [Next]_schedVars
  <2> DEFINE b == Requeued(d.chain, d.peer, reason, TRUE)
  <2>1. b \in BOOLEAN /\ (b => HasRoom(d.chain))
    BY <1>3, Zenon
  <2>2. PeerDisconnect(d, b)
    BY <1>5, Zenon DEF DisconnectMessage
  <2> HIDE DEF b
  <2> QED  BY <1>2, <2>1, <2>2
<1>6. ASSUME NEW c \in Chains, NEW p \in Peers, BackoffElapses(c, p)
      PROVE  [Next]_schedVars
  BY <1>6 DEF BackoffElapses
<1>7. ASSUME SchedulerStep PROVE [Next]_schedVars
  BY <1>7 DEF SchedulerStep, Next
<1> QED  BY <1>1, <1>4, <1>5, <1>6, <1>7 DEF QueueStep

(* EthPeerQueue and the schedulers together implement DialScheduler: the   *)
(* queue never offers a peer without looking for room, and as feedback_fn  *)
(* it enqueues at most the peer that was reported.                         *)
THEOREM QueueImplementsScheduler == QueueSpec => Spec
<1>1. QueueInit => Init
  BY DEF QueueInit
<1>2. [QueueNext]_queueVars => [Next]_schedVars
  BY QueueStepIsSchedulerStep DEF queueVars, schedVars
<1> QED  BY <1>1, <1>2, PTL DEF QueueSpec, Spec

-----------------------------------------------------------------------------
(* enqueue() with room to wait does not push the queue over its bound.     *)
LEMMA EnqueueWithinBound ==
    ASSUME NEW c \in Chains, NEW p \in Peers, NEW eligible,
           NEW s \in SchedState, Len(s.queue) <= MaxPending,
           HasSlot(s) \/ Len(s.queue) < MaxPending,
           NEW t, t = Enqueue(s, c, p, eligible)
    PROVE  Len(t.queue) <= MaxPending
<1>1. s.queue \in Seq(Peers) /\ Len(s.queue) \in Nat
  BY LenProperties DEF SchedState
<1>2. CASE t = s
  BY <1>2
<1>3. CASE t = StartDials(s, c, {p})
  BY <1>3, StartDialsFields
<1>4. CASE ~HasSlot(s) /\ t = [s EXCEPT !.queue = Append(@, p)]
  <2>1. t.queue = Append(s.queue, p)
    BY <1>4 DEF SchedState
  <2>2. Len(t.queue) = Len(s.queue) + 1
    BY <1>1, <2>1, AppendProperties
  <2> QED  BY <1>1, <1>4, <2>2, LimitsAssumption
<1> QED  BY <1>2, <1>3, <1>4 DEF Enqueue

(* release() only shortens the queue.                                      *)
LEMMA ReleaseWithinBound ==
    ASSUME NEW c \in Chains, NEW s, s \in SchedState, Len(s.queue) <= MaxPending,
           NEW d, NEW t, t = Release(s, c, d)
    PROVE  Len(t.queue) <= MaxPending
<1> DEFINE r == Recycle(s)
<1>1. s.queue \in Seq(Peers) /\ Len(s.queue) \in Nat
  BY LenProperties DEF SchedState
<1>2. r \in SchedState /\ r.queue = s.queue
  BY RecycleFields
<1>3. CASE stopping[c]
  <2>1. t = [r EXCEPT !.dials = @ \ {d}]
    BY <1>3 DEF Release
  <2> HIDE DEF r
  <2>2. t.queue = r.queue
    BY <1>2, <2>1 DEF SchedState
  <2> QED  BY <1>2, <2>2
<1>4. CASE ~stopping[c]
  <2>1. t.queue = SubSeq(r.queue, Cardinality(Popped(r)) + 1, Len(r.queue))
    BY <1>4, ReleaseFields
  <2>2. IsFiniteSet(Popped(r))
    <3>1. IsFiniteSet(1..Len(r.queue))
      BY <1>1, <1>2, FS_Interval
    <3>2. Popped(r) \subseteq 1..Len(r.queue)
      BY DEF Popped
    <3> QED  BY <3>1, <3>2, FS_Subset
  <2>3. Cardinality(Popped(r)) \in Nat
    BY <2>2, FS_CardinalityType
  <2> HIDE DEF r
  <2>4. Len(t.queue) <= Len(r.queue)
    <3> DEFINE m == Cardinality(Popped(r)) + 1
               n == Len(r.queue)
    <3>1. m \in Int /\ n \in Int /\ 1 <= m /\ 0 <= n
      BY <1>1, <1>2, <2>3
    <3>2. \A i \in m..n : r.queue[i] \in Peers
      BY <1>1, <1>2, <3>1, LenProperties
    <3> HIDE DEF m, n
    <3>3. Len(SubSeq(r.queue, m, n)) = IF m <= n THEN n - m + 1 ELSE 0
      BY <3>1, <3>2, SubSeqProperties
    <3> QED  BY <2>1, <3>1, <3>3 DEF m, n
  <2>5. Len(t.queue) \in Nat /\ Len(r.queue) \in Nat
    <3>1. t.queue \in Seq(Peers)
      BY <1>1, <1>2, <2>1, <2>3, LenProperties, SubSeqProperties
    <3> QED  BY <1>1, <1>2, <3>1, LenProperties
  <2> QED  BY <1>1, <1>2, <2>4, <2>5, LimitsAssumption
<1> QED  BY <1>3, <1>4

(* The scheduler reported to may have the peer put back, within the bound. *)
LEMMA FeedbackWithinBound ==
    ASSUME IInv, PendingBounded, NEW d \in dials, NEW requeue,
           requeue => HasRoom(d.chain),
           NEW t, t = Feedback(d, requeue)
    PROVE  t \in SchedState /\ Len(t.queue) <= MaxPending
<1>1. d.chain \in Chains /\ d.peer \in Peers
  BY DialFields
<1>2. Sched(d.chain) \in SchedState /\ Sched(d.chain).queue = queue[d.chain]
  BY <1>1, SchedSlotsOK DEF SlotsOK, Sched
<1>3. t \in SchedState
  BY FeedbackKeepsSlots DEF SlotsOK
<1>4. Len(Sched(d.chain).queue) <= MaxPending
  BY <1>1, <1>2 DEF PendingBounded
<1>5. CASE requeue
  <2>1. t = Enqueue(Sched(d.chain), d.chain, d.peer, TRUE)
    BY <1>5 DEF Feedback
  <2>2. HasSlot(Sched(d.chain)) \/ Len(Sched(d.chain).queue) < MaxPending
    BY <1>2, <1>5 DEF HasRoom
  <2> QED  BY <1>1, <1>2, <1>3, <1>4, <2>1, <2>2, EnqueueWithinBound, Zenon
<1>6. CASE ~requeue
  <2>1. t = Sched(d.chain)
    BY <1>6 DEF Feedback
  <2> QED  BY <1>3, <1>4, <2>1
<1> QED  BY <1>5, <1>6

(* The pending bound holds of the scheduler's queue although discovery and *)
(* the feedback inside on_done both fill it, each after looking for room,  *)
(* and the feedback before on_done has recycled its slot.                  *)
THEOREM PendingStaysBounded == QueueSpec => []PendingBounded
<1>1. Init => PendingBounded
  <2>1. Len(<<>>) = 0
    OBVIOUS
  <2> QED  BY <2>1, LimitsAssumption DEF Init, PendingBounded
<1>2. ASSUME IInv, PendingBounded, [Next]_schedVars
      PROVE  PendingBounded'
  <2>1. ASSUME NEW c \in Chains, NEW t, Becomes(c, t), Len(t.queue) <= MaxPending
        PROVE  PendingBounded'
    BY <1>2, <2>1 DEF Becomes, PendingBounded, IInv, TypeOK
  <2>2. ASSUME NEW c \in Chains, NEW p \in Peers, NEW eligible \in BOOLEAN,
               HasRoom(c), Offer(c, p, eligible)
        PROVE  PendingBounded'
    <3> DEFINE t == Enqueue(Sched(c), c, p, eligible)
    <3>1. Sched(c) \in SchedState /\ Sched(c).queue = queue[c]
      BY <1>2, SchedSlotsOK DEF SlotsOK, Sched
    <3>2. /\ Len(Sched(c).queue) <= MaxPending
          /\ HasSlot(Sched(c)) \/ Len(Sched(c).queue) < MaxPending
      BY <1>2, <2>2, <3>1 DEF PendingBounded, HasRoom
    <3>3. Len(t.queue) <= MaxPending
      BY <3>1, <3>2, EnqueueWithinBound
    <3>4. Becomes(c, t)
      BY <2>2 DEF Offer
    <3> HIDE DEF t
    <3> QED  BY <2>1, <3>3, <3>4
  <2>3. ASSUME NEW d \in dials, NEW requeue \in BOOLEAN,
               requeue => HasRoom(d.chain), PeerDisconnect(d, requeue)
        PROVE  PendingBounded'
    <3>1. Len(Feedback(d, requeue).queue) <= MaxPending
      BY <1>2, <2>3, FeedbackWithinBound
    <3> QED  BY <1>2, <2>1, <2>3, <3>1, DialFields DEF PeerDisconnect
  <2>4. ASSUME NEW d \in dials, NEW requeue \in BOOLEAN,
               requeue => HasRoom(d.chain), OnDone(d, requeue)
        PROVE  PendingBounded'
    <3> DEFINE s == Feedback(d, requeue)
               t == Release(s, d.chain, d)
    <3>1. d.chain \in Chains
      BY <1>2, DialFields
    <3>2. s \in SchedState /\ Len(s.queue) <= MaxPending
      BY <1>2, <2>4, FeedbackWithinBound
    <3>3. Len(t.queue) <= MaxPending
      <4> HIDE DEF s
      <4> QED  BY <3>1, <3>2, ReleaseWithinBound
    <3>4. Becomes(d.chain, t)
      BY <2>4 DEF OnDone
    <3> HIDE DEF t
    <3> QED  BY <2>1, <3>1, <3>3, <3>4
  <2>5. ASSUME NEW c \in Chains, Stop(c) PROVE PendingBounded'
    <3>1. Len(<<>>) = 0
      OBVIOUS
    <3> QED  BY <1>2, <2>5, <3>1, LimitsAssumption DEF Stop, PendingBounded, IInv, TypeOK
  <2>6. ASSUME NEW d \in dials, Connected(d) \/ SessionEnds(d)
        PROVE  PendingBounded'
    BY <1>2, <2>6 DEF Connected, SessionEnds, PendingBounded
  <2>7. ASSUME NEW c \in Chains, NEW p \in Peers, CooldownElapses(c, p)
        PROVE  PendingBounded'
    BY <1>2, <2>7 DEF CooldownElapses, PendingBounded
  <2>8. CASE UNCHANGED schedVars
    BY <1>2, <2>8 DEF schedVars, PendingBounded
  <2> QED  BY <1>2, <2>2, <2>3, <2>4, <2>5, <2>6, <2>7, <2>8 DEF Next
<1> QED  BY <1>1, <1>2, Invariance, QueueImplementsScheduler, PTL DEF Spec

=============================================================================
