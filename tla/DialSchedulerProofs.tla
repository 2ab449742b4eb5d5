------------------------ MODULE DialSchedulerProofs ------------------------
(***************************************************************************)
(* Proofs about DialScheduler, for any chains, peers and limits.           *)
(***************************************************************************)
EXTENDS DialScheduler, FiniteSetTheorems, SequenceTheorems,
        WellFoundedInduction, TLAPS

(* The arguments and results of enqueue() and release().                   *)
SchedState == [active  : Int,
               total   : Int,
               queue   : Seq(Peers),
               history : SUBSET Peers,
               dials   : SUBSET Dial]

(* Among n+1 ids one is not taken by any of n dials, so the id given to a  *)
(* new coroutine in spawn_dial is new.                                     *)
LEMMA FreshIdIsNew ==
    ASSUME NEW D, IsFiniteSet(D), NEW c, NEW p
    PROVE  /\ FreshId(D, c, p) \in 0..Cardinality(D)
           /\ NewDial(D, c, p) \notin D
<1> DEFINE n == Cardinality(D)
           f == [i \in 0..n |-> DialOf(c, p, i)]
<1>1. n \in Nat
  BY FS_CardinalityType
<1>2. IsFiniteSet(0..n) /\ Cardinality(0..n) = n + 1
  BY <1>1, FS_Interval
<1>3. \E i \in 0..n : DialOf(c, p, i) \notin D
  <2>1. SUFFICES ASSUME \A i \in 0..n : DialOf(c, p, i) \in D
                 PROVE  FALSE
    OBVIOUS
  <2>2. f \in [0..n -> D]
    BY <2>1
  <2>3. PICK x \in 0..n, y \in 0..n : x # y /\ f[x] = f[y]
    <3>1. Cardinality(D) < Cardinality(0..n)
      BY <1>1, <1>2
    <3> HIDE DEF f, n
    <3> QED  BY <2>2, <3>1, <1>2, FS_PigeonHole, Zenon
  <2>4. DialOf(c, p, x).id = DialOf(c, p, y).id
    BY <2>3
  <2> QED  BY <2>3, <2>4 DEF DialOf
<1> QED  BY <1>3 DEF FreshId, NewDial

(* The coroutines that one call spawns, one for each peer of P.            *)
Spawned(D, c, P) == {NewDial(D, c, p) : p \in P}

(* One call spawns as many new coroutines as it has peers to dial.         *)
LEMMA SpawnedCount ==
    ASSUME NEW D, IsFiniteSet(D), NEW c, NEW P, IsFiniteSet(P)
    PROVE  /\ IsFiniteSet(Spawned(D, c, P))
           /\ Cardinality(Spawned(D, c, P)) = Cardinality(P)
           /\ Spawned(D, c, P) \cap D = {}
           /\ \A d \in Spawned(D, c, P) : d.chain = c /\ d.peer \in P
<1> DEFINE f == [p \in P |-> NewDial(D, c, p)]
<1>1. \A p \in P : NewDial(D, c, p).chain = c /\ NewDial(D, c, p).peer = p
  BY DEF NewDial, DialOf
<1>2. f \in Bijection(P, Spawned(D, c, P))
  <2>1. f \in [P -> Spawned(D, c, P)]
    BY DEF Spawned
  <2>2. \A a, b \in P : f[a] = f[b] => a = b
    BY <1>1
  <2>3. \A t \in Spawned(D, c, P) : \E p \in P : f[p] = t
    BY DEF Spawned
  <2> QED  BY <2>1, <2>2, <2>3 DEF Bijection, Injection, Surjection, IsInjective
<1>3. ExistsBijection(P, Spawned(D, c, P))
  BY <1>2 DEF ExistsBijection
<1>4. Spawned(D, c, P) \cap D = {}
  BY FreshIdIsNew DEF Spawned
<1> QED  BY <1>1, <1>3, <1>4, FS_Bijection DEF Spawned

(* A sequence of length n has n positions.                                 *)
LEMMA IntervalCount ==
    ASSUME NEW n \in Nat
    PROVE  IsFiniteSet(1..n) /\ Cardinality(1..n) = n
BY FS_Interval

(* The cardinality of a disjoint union.                                    *)
LEMMA DisjointUnion ==
    ASSUME NEW S, IsFiniteSet(S), NEW T, IsFiniteSet(T), S \cap T = {}
    PROVE  /\ IsFiniteSet(S \cup T)
           /\ Cardinality(S \cup T) = Cardinality(S) + Cardinality(T)
<1>1. Cardinality(S) \in Nat /\ Cardinality(T) \in Nat
  BY FS_CardinalityType
<1>2. Cardinality(S \cap T) = 0
  BY FS_EmptySet
<1>3. /\ IsFiniteSet(S \cup T)
      /\ Cardinality(S \cup T) =
            Cardinality(S) + Cardinality(T) - Cardinality(S \cap T)
  BY FS_Union
<1> QED  BY <1>1, <1>2, <1>3

(* A non-empty set of naturals has a least element.                        *)
LEMMA LeastNatural ==
    ASSUME NEW T \in SUBSET Nat, T # {}
    PROVE  \E m \in T : \A i \in T : m <= i
<1>1. PICK m \in T : \A i \in T : ~(<<i, m>> \in OpToRel(<, Nat))
  BY NatLessThanWellFounded, WFMin, Zenon
<1>2. \A i \in T : ~(i < m)
  BY <1>1, Zenon DEF OpToRel
<1> QED  BY <1>2

(* A non-empty set of positions of a sequence of length n has a last one.  *)
LEMMA LastPosition ==
    ASSUME NEW n \in Nat, NEW T \in SUBSET (1..n), T # {}
    PROVE  \E m \in T : \A i \in T : i <= m
<1> DEFINE U == {n - i : i \in T}
<1>1. U \in SUBSET Nat /\ U # {}
  <2>1. \A i \in T : n - i \in Nat
    OBVIOUS
  <2>2. U # {}
    OBVIOUS
  <2> QED  BY <2>1, <2>2
<1>2. PICK u \in U : \A v \in U : u <= v
  BY <1>1, LeastNatural, Zenon
<1>3. PICK m \in T : u = n - m
  OBVIOUS
<1>4. \A i \in T : n - m <= n - i
  BY <1>2, <1>3, Zenon
<1> QED  BY <1>4

-----------------------------------------------------------------------------
(* Slots and coroutines agree, up to k coroutines that gave theirs back.   *)
Accounts(s, c, k) == /\ s.active + k = Cardinality(DialsOf(s.dials, c))
                     /\ s.total  + k = Cardinality(s.dials)

(* The fields StartDials() writes.                                         *)
LEMMA StartDialsFields ==
    ASSUME NEW s \in SchedState, NEW c, NEW P,
           NEW t, t = StartDials(s, c, P)
    PROVE  /\ t.active = s.active + Cardinality(P)
           /\ t.total = s.total + Cardinality(P)
           /\ t.queue = s.queue
           /\ t.history = s.history \cup P
           /\ t.dials = s.dials \cup Spawned(s.dials, c, P)
           /\ t = [active |-> t.active, total |-> t.total, queue |-> t.queue,
                   history |-> t.history, dials |-> t.dials]
BY Zenon DEF StartDials, SchedState, Spawned

(* Taking a slot per peer and spawning its coroutine keeps slots and       *)
(* coroutines in agreement, and touches no other chain.                    *)
LEMMA StartDialsAccounts ==
    ASSUME NEW s \in SchedState, IsFiniteSet(s.dials),
           Cardinality(s.dials) <= MaxTotal,
           NEW c \in Chains, NEW P \in SUBSET Peers, IsFiniteSet(P),
           NEW k \in Nat, Accounts(s, c, k),
           NEW t, t = StartDials(s, c, P)
    PROVE  /\ t \in SchedState
           /\ IsFiniteSet(t.dials)
           /\ Accounts(t, c, k)
           /\ t.active = s.active + Cardinality(P)
           /\ t.total = s.total + Cardinality(P)
           /\ t.queue = s.queue
           /\ t.history = s.history \cup P
           /\ s.dials \subseteq t.dials
           /\ \A d \in t.dials \ s.dials : d.chain = c /\ d.peer \in P
<1> DEFINE N == Spawned(s.dials, c, P)
           m == Cardinality(P)
<1>1. /\ t.active = s.active + m
      /\ t.total = s.total + m
      /\ t.queue = s.queue
      /\ t.history = s.history \cup P
      /\ t.dials = s.dials \cup N
      /\ t = [active |-> t.active, total |-> t.total, queue |-> t.queue,
              history |-> t.history, dials |-> t.dials]
  BY StartDialsFields
<1>2. /\ IsFiniteSet(N)
      /\ Cardinality(N) = m
      /\ N \cap s.dials = {}
      /\ \A d \in N : d.chain = c /\ d.peer \in P
  BY SpawnedCount
<1>3. m \in Nat
  BY FS_CardinalityType
<1>4. N \subseteq Dial
  <2>1. \A p \in P : FreshId(s.dials, c, p) \in 0..Cardinality(s.dials)
    BY FreshIdIsNew
  <2>2. Cardinality(s.dials) \in Nat
    BY FS_CardinalityType
  <2>3. \A p \in P : FreshId(s.dials, c, p) \in 0..MaxTotal
    BY <2>1, <2>2, LimitsAssumption
  <2> QED  BY <2>3 DEF Spawned, NewDial, DialOf, Dial
<1>5. IsFiniteSet(t.dials) /\ Cardinality(t.dials) = Cardinality(s.dials) + m
  <2> HIDE DEF N, m
  <2>1. s.dials \cap N = {}
    BY <1>2
  <2> QED  BY <1>1, <1>2, <2>1, DisjointUnion
<1>6. Cardinality(DialsOf(t.dials, c)) = Cardinality(DialsOf(s.dials, c)) + m
  <2> DEFINE A == DialsOf(s.dials, c)
  <2>1. DialsOf(t.dials, c) = A \cup N
    BY <1>1, <1>2 DEF DialsOf
  <2>2. IsFiniteSet(A)
    <3>1. A \subseteq s.dials
      BY DEF DialsOf
    <3> QED  BY <3>1, FS_Subset
  <2>3. A \cap N = {}
    BY <1>2 DEF DialsOf
  <2> HIDE DEF A, N, m
  <2>4. Cardinality(A \cup N) = Cardinality(A) + m
    BY <1>2, <2>2, <2>3, DisjointUnion
  <2> QED  BY <2>1, <2>4 DEF A
<1>7. t \in SchedState
  <2>1. t.active \in Int /\ t.total \in Int /\ t.queue \in Seq(Peers)
    BY <1>1, <1>3 DEF SchedState
  <2>2. t.history \in SUBSET Peers /\ t.dials \in SUBSET Dial
    BY <1>1, <1>4 DEF SchedState
  <2> QED  BY <1>1, <2>1, <2>2 DEF SchedState
<1>8. Accounts(t, c, k)
  <2>1. IsFiniteSet(DialsOf(s.dials, c))
    <3>1. DialsOf(s.dials, c) \subseteq s.dials
      BY DEF DialsOf
    <3> QED  BY <3>1, FS_Subset
  <2>2. Cardinality(s.dials) \in Nat /\ Cardinality(DialsOf(s.dials, c)) \in Nat
    BY <2>1, FS_CardinalityType
  <2>3. s.active \in Int /\ s.total \in Int
    BY DEF SchedState
  <2> QED  BY <1>1, <1>3, <1>5, <1>6, <2>2, <2>3 DEF Accounts
<1> QED  BY <1>1, <1>2, <1>5, <1>7, <1>8

(* The loop of release() dials no more peers than there are free slots,    *)
(* and none that was dialled less than a cooldown ago.                     *)
LEMMA LaunchedFitsFreeSlots ==
    ASSUME NEW s \in SchedState, FreeSlots(s) \in Nat
    PROVE  /\ IsFiniteSet(Launched(s))
           /\ Cardinality(Launched(s)) <= FreeSlots(s)
           /\ Launched(s) \subseteq Peers \ s.history
<1> DEFINE n == Len(s.queue)
           I == Fresh(s) \cap Popped(s)
           f == [i \in I |-> s.queue[i]]
<1>1. n \in Nat /\ s.queue \in [1..n -> Peers]
  BY LenProperties DEF SchedState
<1>2. I \subseteq 1..n
  BY DEF Fresh
<1>3. IsFiniteSet(1..n)
  BY <1>1, FS_Interval
<1>4. IsFiniteSet(I) /\ IsFiniteSet(Fresh(s))
  <2>1. Fresh(s) \subseteq 1..n
    BY DEF Fresh
  <2> HIDE DEF I, n
  <2> QED  BY <1>2, <1>3, <2>1, FS_Subset, Zenon
<1>5. Cardinality(I) <= FreeSlots(s)
  <2>1. CASE I = {}
    <3>1. Cardinality(I) = 0
      BY <2>1, FS_EmptySet
    <3> QED  BY <3>1
  <2>2. CASE I # {}
    <3>1. PICK m \in I : \A i \in I : i <= m
      <4> HIDE DEF I, n
      <4> QED  BY <1>1, <1>2, <2>2, LastPosition, Zenon
    <3>2. I \ {m} \subseteq FreshBefore(s, m)
      BY <1>1, <1>2, <3>1 DEF FreshBefore
    <3>3. IsFiniteSet(FreshBefore(s, m))
      <4>1. FreshBefore(s, m) \subseteq Fresh(s)
        BY DEF FreshBefore
      <4> QED  BY <1>4, <4>1, FS_Subset
    <3>4. Cardinality(I \ {m}) <= Cardinality(FreshBefore(s, m))
      BY <3>2, <3>3, FS_Subset
    <3>5. Cardinality(FreshBefore(s, m)) < FreeSlots(s)
      BY <3>1 DEF Popped
    <3>6. Cardinality(I \ {m}) = Cardinality(I) - 1
      <4> HIDE DEF I
      <4> QED  BY <1>4, <3>1, FS_RemoveElement, Zenon
    <3>7. Cardinality(I) \in Nat /\ Cardinality(FreshBefore(s, m)) \in Nat
      BY <1>4, <3>3, FS_CardinalityType
    <3> QED  BY <3>4, <3>5, <3>6, <3>7
  <2> QED  BY <2>1, <2>2
<1>6. IsFiniteSet(Launched(s)) /\ Cardinality(Launched(s)) <= Cardinality(I)
  <2>1. f \in Surjection(I, Launched(s))
    BY DEF Launched, Surjection
  <2> HIDE DEF I, f
  <2> QED  BY <1>4, <2>1, FS_Surjection
<1>7. Launched(s) \subseteq Peers \ s.history
  BY <1>1, <1>2 DEF Launched, Fresh
<1>8. Cardinality(Launched(s)) \in Nat /\ Cardinality(I) \in Nat
  BY <1>4, <1>6, FS_CardinalityType
<1> QED  BY <1>5, <1>6, <1>7, <1>8

-----------------------------------------------------------------------------
(* What enqueue() and release() rely on and re-establish.                  *)
SlotsOK(s, c) == /\ s \in SchedState
                 /\ IsFiniteSet(s.dials)
                 /\ Accounts(s, c, 0)
                 /\ s.active <= MaxPerChain
                 /\ s.total <= MaxTotal

(* From s to t, chain c only spawns coroutines, of peers out of cooldown.  *)
SpawnsFresh(s, t, c) ==
    \A d \in t.dials \ s.dials : d.chain = c /\ d.peer \notin s.history

(* enqueue() keeps the books of the slots, whatever it does with the peer. *)
LEMMA EnqueueKeepsSlots ==
    ASSUME NEW c \in Chains, NEW p \in Peers, NEW eligible,
           NEW s, SlotsOK(s, c),
           NEW t, t = Enqueue(s, c, p, eligible)
    PROVE  /\ SlotsOK(t, c)
           /\ s.dials \subseteq t.dials
           /\ SpawnsFresh(s, t, c)
           /\ s.history \subseteq t.history
           /\ stopping[c] => t = s
<1>1. CASE stopping[c] \/ ~eligible \/ p \in s.history
  BY <1>1 DEF Enqueue, SpawnsFresh
<1>2. CASE ~(stopping[c] \/ ~eligible \/ p \in s.history) /\ HasSlot(s)
  <2>1. t = StartDials(s, c, {p})
    BY <1>2 DEF Enqueue
  <2>2. IsFiniteSet({p}) /\ Cardinality({p}) = 1
    BY FS_Singleton, Zenon
  <2>3. s.active \in Int /\ s.total \in Int
    BY DEF SlotsOK, SchedState
  <2>4. Cardinality(s.dials) <= MaxTotal
    BY <2>3 DEF SlotsOK, Accounts
  <2>5. /\ t \in SchedState
        /\ IsFiniteSet(t.dials)
        /\ Accounts(t, c, 0)
        /\ t.active = s.active + Cardinality({p})
        /\ t.total = s.total + Cardinality({p})
        /\ t.history = s.history \cup {p}
        /\ s.dials \subseteq t.dials
        /\ \A d \in t.dials \ s.dials : d.chain = c /\ d.peer \in {p}
    <3> DEFINE P == {p}
    <3>1. P \in SUBSET Peers
      OBVIOUS
    <3>2. s \in SchedState /\ IsFiniteSet(s.dials) /\ Accounts(s, c, 0)
      BY DEF SlotsOK
    <3>3. t = StartDials(s, c, P) /\ IsFiniteSet(P)
      BY <2>1, <2>2
    <3> HIDE DEF P
    <3>4. /\ t \in SchedState
          /\ IsFiniteSet(t.dials)
          /\ Accounts(t, c, 0)
          /\ t.active = s.active + Cardinality(P)
          /\ t.total = s.total + Cardinality(P)
          /\ t.history = s.history \cup P
          /\ s.dials \subseteq t.dials
          /\ \A d \in t.dials \ s.dials : d.chain = c /\ d.peer \in P
      BY <2>4, <3>1, <3>2, <3>3, StartDialsAccounts
    <3> QED  BY <3>4 DEF P
  <2>6. t.active <= MaxPerChain /\ t.total <= MaxTotal
    BY <1>2, <2>2, <2>3, <2>5, LimitsAssumption DEF HasSlot
  <2> QED  BY <1>2, <2>5, <2>6 DEF SlotsOK, SpawnsFresh
<1>3. CASE ~(stopping[c] \/ ~eligible \/ p \in s.history) /\ ~HasSlot(s)
  <2>1. t = [s EXCEPT !.queue = Append(@, p)]
    BY <1>3 DEF Enqueue
  <2>2. Append(s.queue, p) \in Seq(Peers)
    BY AppendProperties DEF SlotsOK, SchedState
  <2>3. /\ t \in SchedState
        /\ t.active = s.active /\ t.total = s.total
        /\ t.history = s.history /\ t.dials = s.dials
    BY <2>1, <2>2, Zenon DEF SlotsOK, SchedState
  <2> QED  BY <1>3, <2>3 DEF SlotsOK, Accounts, SpawnsFresh
<1> QED  BY <1>1, <1>2, <1>3

(* Giving a slot back changes the two counters only.                       *)
LEMMA RecycleFields ==
    ASSUME NEW s \in SchedState, NEW r, r = Recycle(s)
    PROVE  /\ r \in SchedState
           /\ r.active = s.active - 1 /\ r.total = s.total - 1
           /\ r.queue = s.queue /\ r.history = s.history /\ r.dials = s.dials
<1>1. /\ r.active = s.active - 1 /\ r.total = s.total - 1
      /\ r.queue = s.queue /\ r.history = s.history /\ r.dials = s.dials
      /\ r = [active |-> r.active, total |-> r.total, queue |-> r.queue,
              history |-> r.history, dials |-> r.dials]
  BY Zenon DEF SchedState, Recycle
<1> QED  BY <1>1 DEF SchedState

(* release() gives back the slot of the dial that is done, and the loop    *)
(* takes only slots that are free.                                         *)
LEMMA ReleaseKeepsSlots ==
    ASSUME NEW c \in Chains, NEW s, SlotsOK(s, c),
           NEW d \in s.dials, d.chain = c,
           NEW t, t = Release(s, c, d)
    PROVE  /\ SlotsOK(t, c)
           /\ d \notin t.dials
           /\ s.dials \ {d} \subseteq t.dials
           /\ SpawnsFresh(s, t, c)
           /\ stopping[c] => t.queue = s.queue /\ t.dials = s.dials \ {d}
<1> DEFINE r == Recycle(s)
           u == IF stopping[c] THEN r ELSE Drain(r, c)
<1>1. s.active \in Int /\ s.total \in Int /\ s.queue \in Seq(Peers)
  BY DEF SlotsOK, SchedState
<1>2. /\ r \in SchedState
      /\ r.active = s.active - 1 /\ r.total = s.total - 1
      /\ r.queue = s.queue /\ r.history = s.history /\ r.dials = s.dials
  <2>1. s \in SchedState
    BY DEF SlotsOK
  <2> QED  BY <2>1, RecycleFields
<1>3. Accounts(r, c, 1)
  BY <1>1, <1>2 DEF SlotsOK, Accounts
<1>4. /\ u \in SchedState
      /\ IsFiniteSet(u.dials)
      /\ Accounts(u, c, 1)
      /\ u.active <= MaxPerChain /\ u.total <= MaxTotal
      /\ s.dials \subseteq u.dials
      /\ SpawnsFresh(s, u, c)
      /\ stopping[c] => u = r
  <2>1. CASE stopping[c]
    <3>1. u = r
      BY <2>1
    <3>2. r.active <= MaxPerChain /\ r.total <= MaxTotal
      BY <1>1, <1>2, LimitsAssumption DEF SlotsOK
    <3> QED  BY <1>2, <1>3, <3>1, <3>2 DEF SlotsOK, SpawnsFresh
  <2>2. CASE ~stopping[c]
    <3> DEFINE P == Launched(r)
               v == StartDials(r, c, P)
    <3>1. FreeSlots(r) \in Nat
      BY <1>1, <1>2, LimitsAssumption DEF SlotsOK, FreeSlots
    <3>2. /\ IsFiniteSet(P)
          /\ Cardinality(P) <= FreeSlots(r)
          /\ P \subseteq Peers \ s.history
      BY <1>2, <3>1, LaunchedFitsFreeSlots
    <3>3. Cardinality(r.dials) <= MaxTotal
      BY <1>1, <1>2 DEF SlotsOK, Accounts
    <3>4. /\ v \in SchedState
          /\ IsFiniteSet(v.dials)
          /\ Accounts(v, c, 1)
          /\ v.active = r.active + Cardinality(P)
          /\ v.total = r.total + Cardinality(P)
          /\ v.queue = r.queue
          /\ r.dials \subseteq v.dials
          /\ \A e \in v.dials \ r.dials : e.chain = c /\ e.peer \in P
      <4>1. IsFiniteSet(r.dials)
        BY <1>2 DEF SlotsOK
      <4>2. P \in SUBSET Peers
        BY <3>2
      <4> HIDE DEF P, r, v
      <4> QED  BY <1>2, <1>3, <3>2, <3>3, <4>1, <4>2, StartDialsAccounts DEF v
    <3>5. /\ u = [v EXCEPT !.queue =
                    SubSeq(@, Cardinality(Popped(r)) + 1, Len(@))]
      BY <2>2 DEF Drain
    <3>6. SubSeq(v.queue, Cardinality(Popped(r)) + 1, Len(v.queue)) \in Seq(Peers)
      <4>1. IsFiniteSet(Popped(r))
        <5>1. IsFiniteSet(1..Len(r.queue))
          BY <1>1, <1>2, LenProperties, FS_Interval
        <5>2. Popped(r) \subseteq 1..Len(r.queue)
          BY DEF Popped
        <5> QED  BY <5>1, <5>2, FS_Subset
      <4>2. Cardinality(Popped(r)) \in Nat
        BY <4>1, FS_CardinalityType
      <4>3. v.queue \in Seq(Peers) /\ Len(v.queue) \in Nat
        BY <1>1, <1>2, <3>4, LenProperties
      <4> HIDE DEF v, r
      <4> QED  BY <4>2, <4>3, SubSeqProperties
    <3>7. /\ u \in SchedState
          /\ u.active = v.active /\ u.total = v.total /\ u.dials = v.dials
      <4> HIDE DEF v, u, P
      <4> QED  BY <3>4, <3>5, <3>6, Zenon DEF SchedState
    <3>8. u.active <= MaxPerChain /\ u.total <= MaxTotal
      <4>1. Cardinality(P) \in Nat
        BY <3>2, FS_CardinalityType
      <4> HIDE DEF u, v, P, r
      <4>2. /\ FreeSlots(r) <= MaxPerChain - r.active
            /\ FreeSlots(r) <= MaxTotal - r.total
        BY <1>1, <1>2, LimitsAssumption DEF FreeSlots
      <4>3. r.active \in Int /\ r.total \in Int
        BY <1>1, <1>2
      <4> QED  BY <3>1, <3>2, <3>4, <3>7, <4>1, <4>2, <4>3, LimitsAssumption
    <3>9. Accounts(u, c, 1)
      <4> HIDE DEF u, v, P, r
      <4> QED  BY <3>4, <3>7 DEF Accounts
    <3>10. SpawnsFresh(s, u, c)
      <4> HIDE DEF u, v, P, r
      <4> QED  BY <1>2, <3>2, <3>4, <3>7 DEF SpawnsFresh
    <3> HIDE DEF u, v, P, r
    <3> QED  BY <1>2, <2>2, <3>4, <3>7, <3>8, <3>9, <3>10
  <2> QED  BY <2>1, <2>2
<1> HIDE DEF u
<1>5. t = [u EXCEPT !.dials = @ \ {d}]
  BY DEF Release, u
<1>6. /\ t \in SchedState
      /\ t.active = u.active /\ t.total = u.total
      /\ t.queue = u.queue /\ t.dials = u.dials \ {d}
  BY <1>4, <1>5 DEF SchedState
<1>7. IsFiniteSet(t.dials) /\ Cardinality(t.dials) = Cardinality(u.dials) - 1
  BY <1>4, <1>6, FS_RemoveElement
<1>8. Cardinality(DialsOf(t.dials, c)) = Cardinality(DialsOf(u.dials, c)) - 1
  <2>1. DialsOf(t.dials, c) = DialsOf(u.dials, c) \ {d}
    BY <1>6 DEF DialsOf
  <2>2. d \in DialsOf(u.dials, c)
    BY <1>4 DEF DialsOf
  <2>3. IsFiniteSet(DialsOf(u.dials, c))
    <3>1. DialsOf(u.dials, c) \subseteq u.dials
      BY DEF DialsOf
    <3> QED  BY <1>4, <3>1, FS_Subset
  <2> DEFINE D == DialsOf(u.dials, c)
  <2>4. Cardinality(D \ {d}) = IF d \in D THEN Cardinality(D) - 1 ELSE Cardinality(D)
    <3> HIDE DEF D
    <3> SUFFICES ASSUME IsFiniteSet(D)
                 PROVE  Cardinality(D \ {d}) = IF d \in D THEN Cardinality(D) - 1 ELSE Cardinality(D)
      BY <2>3 DEF D
    <3> QED  BY FS_RemoveElement
  <2> QED  BY <2>1, <2>2, <2>4
<1>9. Accounts(t, c, 0)
  BY <1>4, <1>6, <1>7, <1>8 DEF Accounts, SchedState
<1> QED  BY <1>2, <1>4, <1>6, <1>7, <1>9 DEF SlotsOK, SpawnsFresh

-----------------------------------------------------------------------------
(***************************************************************************)
(* The inductive invariant.  The caps are bounds on the counters, which    *)
(* enqueue() and release() test; they bound the coroutines only because    *)
(* the counters count them.                                                *)
(***************************************************************************)
CountersWithinCaps == /\ \A c \in Chains : active[c] <= MaxPerChain
                      /\ activeTotal <= MaxTotal

StoppedQueueEmpty == \A c \in Chains : stopping[c] => queue[c] = <<>>

IInv == /\ TypeOK
        /\ IsFiniteSet(dials)
        /\ SlotAccounting
        /\ CountersWithinCaps
        /\ StoppedQueueEmpty

(* The dials of one chain are finitely many.                               *)
LEMMA DialsOfFinite ==
    ASSUME NEW D, IsFiniteSet(D), NEW c
    PROVE  IsFiniteSet(DialsOf(D, c)) /\ Cardinality(DialsOf(D, c)) \in Nat
<1>1. DialsOf(D, c) \subseteq D
  BY DEF DialsOf
<1>2. IsFiniteSet(DialsOf(D, c))
  BY <1>1, FS_Subset
<1> QED  BY <1>2, FS_CardinalityType

(* The invariant is what enqueue() and release() rely on.                  *)
LEMMA SchedSlotsOK ==
    ASSUME IInv, NEW c \in Chains
    PROVE  SlotsOK(Sched(c), c)
<1>1. Sched(c) \in SchedState
  BY DEF IInv, TypeOK, Sched, SchedState
<1>2. /\ Sched(c).active = active[c] /\ Sched(c).total = activeTotal
      /\ Sched(c).dials = dials
  BY DEF Sched
<1> QED  BY <1>1, <1>2 DEF SlotsOK, Accounts, IInv, TypeOK, SlotAccounting,
                         CountersWithinCaps

(* What the new state of one scheduler means for all of them.              *)
LEMMA BecomesKeepsSlots ==
    ASSUME IInv, NEW c \in Chains, NEW t, SlotsOK(t, c), Becomes(c, t),
           \A e \in Chains \ {c} : DialsOf(t.dials, e) = DialsOf(dials, e)
    PROVE  /\ queue' \in [Chains -> Seq(Peers)]
           /\ history' \in [Chains -> SUBSET Peers]
           /\ active' \in [Chains -> Nat]
           /\ activeTotal' \in Nat
           /\ dials' \in SUBSET Dial
           /\ IsFiniteSet(dials')
           /\ \A e \in Chains : active'[e] = Cardinality(DialsOf(dials', e))
           /\ activeTotal' = Cardinality(dials')
           /\ CountersWithinCaps'
<1>1. /\ t.active \in Int /\ t.total \in Int /\ t.queue \in Seq(Peers)
      /\ t.history \in SUBSET Peers /\ t.dials \in SUBSET Dial
      /\ IsFiniteSet(t.dials)
      /\ t.active = Cardinality(DialsOf(t.dials, c))
      /\ t.total = Cardinality(t.dials)
      /\ t.active <= MaxPerChain /\ t.total <= MaxTotal
  BY DEF SlotsOK, SchedState, Accounts
<1>2. t.active \in Nat /\ t.total \in Nat
  BY <1>1, DialsOfFinite, FS_CardinalityType
<1>3. /\ queue' \in [Chains -> Seq(Peers)]
      /\ history' \in [Chains -> SUBSET Peers]
      /\ active' \in [Chains -> Nat]
      /\ activeTotal' \in Nat
      /\ dials' \in SUBSET Dial
  BY <1>1, <1>2 DEF IInv, TypeOK, Becomes
<1>4. \A e \in Chains : active'[e] = Cardinality(DialsOf(dials', e))
  BY <1>1 DEF IInv, TypeOK, SlotAccounting, Becomes
<1>5. CountersWithinCaps'
  BY <1>1 DEF IInv, TypeOK, CountersWithinCaps, Becomes
<1> QED  BY <1>1, <1>3, <1>4, <1>5 DEF Becomes

(* The invariant holds when the schedulers are constructed.                *)
LEMMA InitIInv == Init => IInv
<1> SUFFICES ASSUME Init PROVE IInv
  OBVIOUS
<1>1. \A c \in Chains : DialsOf({}, c) = {}
  BY DEF DialsOf
<1>2. IsFiniteSet({}) /\ Cardinality({}) = 0
  BY FS_EmptySet
<1>3. TypeOK
  BY EmptySeq DEF Init, TypeOK
<1>4. SlotAccounting
  BY <1>1, <1>2, Zenon DEF Init, SlotAccounting
<1>5. CountersWithinCaps /\ StoppedQueueEmpty
  BY LimitsAssumption DEF Init, CountersWithinCaps, StoppedQueueEmpty
<1> QED  BY <1>2, <1>3, <1>4, <1>5 DEF Init, IInv

(* enqueue() called by a producer.                                         *)
LEMMA OfferKeepsIInv ==
    ASSUME IInv, NEW c \in Chains, NEW p \in Peers, NEW eligible,
           Offer(c, p, eligible)
    PROVE  /\ IInv'
           /\ stopping[c] => dials' = dials
           /\ \A d \in dials' \ dials : d.chain = c /\ d.peer \notin history[c]
<1> DEFINE s == Sched(c)
           t == Enqueue(s, c, p, eligible)
<1>1. s.dials = dials /\ s.history = history[c] /\ s.queue = queue[c]
  BY DEF Sched
<1>2. SlotsOK(s, c)
  BY SchedSlotsOK
<1>3. Becomes(c, t)
  BY DEF Offer
<1> HIDE DEF s
<1>4. /\ SlotsOK(t, c)
      /\ s.dials \subseteq t.dials
      /\ SpawnsFresh(s, t, c)
      /\ stopping[c] => t = s
  BY <1>2, EnqueueKeepsSlots
<1> HIDE DEF t
<1>5. \A e \in Chains \ {c} : DialsOf(t.dials, e) = DialsOf(dials, e)
  BY <1>1, <1>4 DEF DialsOf, SpawnsFresh
<1>6. /\ queue' \in [Chains -> Seq(Peers)]
      /\ history' \in [Chains -> SUBSET Peers]
      /\ active' \in [Chains -> Nat]
      /\ activeTotal' \in Nat
      /\ dials' \in SUBSET Dial
      /\ IsFiniteSet(dials')
      /\ \A e \in Chains : active'[e] = Cardinality(DialsOf(dials', e))
      /\ activeTotal' = Cardinality(dials')
      /\ CountersWithinCaps'
  BY <1>3, <1>4, <1>5, BecomesKeepsSlots
<1>7. dials \subseteq dials'
  BY <1>1, <1>3, <1>4 DEF Becomes
<1>8. TypeOK'
  BY <1>6, <1>7 DEF IInv, TypeOK, Offer
<1>9. SlotAccounting'
  BY <1>6 DEF IInv, SlotAccounting, Offer
<1>10. StoppedQueueEmpty'
  BY <1>1, <1>3, <1>4 DEF IInv, TypeOK, StoppedQueueEmpty, Offer, Becomes
<1> QED  BY <1>1, <1>3, <1>4, <1>6, <1>8, <1>9, <1>10 DEF IInv, SpawnsFresh, Becomes

(* A dial belongs to a chain and a peer.                                   *)
LEMMA DialFields ==
    ASSUME IInv, NEW d \in dials
    PROVE  d.chain \in Chains /\ d.peer \in Peers
BY DEF IInv, TypeOK, Dial

(* The consumer of the feedback may enqueue the peer again.                *)
LEMMA FeedbackKeepsSlots ==
    ASSUME IInv, NEW d \in dials, NEW requeue,
           NEW t, t = Feedback(d, requeue)
    PROVE  /\ SlotsOK(t, d.chain)
           /\ dials \subseteq t.dials
           /\ history[d.chain] \subseteq t.history
           /\ \A e \in t.dials \ dials :
                 e.chain = d.chain /\ e.peer \notin history[d.chain]
           /\ stopping[d.chain] => t = Sched(d.chain)
<1> DEFINE s == Sched(d.chain)
<1>1. d.chain \in Chains /\ d.peer \in Peers
  BY DialFields
<1>2. s.dials = dials /\ s.history = history[d.chain]
  BY DEF Sched
<1>3. SlotsOK(s, d.chain)
  BY <1>1, SchedSlotsOK
<1>4. CASE requeue
  <2>1. t = Enqueue(s, d.chain, d.peer, TRUE)
    BY <1>4 DEF Feedback
  <2> HIDE DEF s
  <2>2. /\ SlotsOK(t, d.chain)
        /\ s.dials \subseteq t.dials
        /\ SpawnsFresh(s, t, d.chain)
        /\ s.history \subseteq t.history
        /\ stopping[d.chain] => t = s
    BY <1>1, <1>3, <2>1, EnqueueKeepsSlots, Zenon
  <2> QED  BY <1>2, <2>2 DEF SpawnsFresh, s
<1>5. CASE ~requeue
  <2>1. t = s
    BY <1>5 DEF Feedback
  <2> QED  BY <1>2, <1>3, <2>1
<1> QED  BY <1>4, <1>5

(* The disconnect handler.                                                 *)
LEMMA PeerDisconnectKeepsIInv ==
    ASSUME IInv, NEW d, NEW requeue, PeerDisconnect(d, requeue)
    PROVE  /\ IInv'
           /\ stopping[d.chain] => dials' = dials
           /\ \A e \in dials' \ dials :
                 e.chain = d.chain /\ e.peer \notin history[d.chain]
<1> DEFINE c == d.chain
           t == Feedback(d, requeue)
<1>1. d \in validated /\ d \in dials
  BY DEF PeerDisconnect, IInv, TypeOK
<1>2. c \in Chains
  BY <1>1, DialFields
<1>3. Becomes(c, t)
  BY DEF PeerDisconnect
<1>4. /\ SlotsOK(t, c)
      /\ dials \subseteq t.dials
      /\ \A e \in t.dials \ dials : e.chain = c /\ e.peer \notin history[c]
      /\ stopping[c] => t = Sched(c)
  BY <1>1, FeedbackKeepsSlots
<1> HIDE DEF t, c
<1>5. \A e \in Chains \ {c} : DialsOf(t.dials, e) = DialsOf(dials, e)
  BY <1>4 DEF DialsOf
<1>6. /\ queue' \in [Chains -> Seq(Peers)]
      /\ history' \in [Chains -> SUBSET Peers]
      /\ active' \in [Chains -> Nat]
      /\ activeTotal' \in Nat
      /\ dials' \in SUBSET Dial
      /\ IsFiniteSet(dials')
      /\ \A e \in Chains : active'[e] = Cardinality(DialsOf(dials', e))
      /\ activeTotal' = Cardinality(dials')
      /\ CountersWithinCaps'
  BY <1>2, <1>3, <1>4, <1>5, BecomesKeepsSlots
<1>7. dials' = t.dials
  BY <1>3 DEF Becomes
<1>8. TypeOK'
  BY <1>1, <1>4, <1>6, <1>7 DEF IInv, TypeOK, PeerDisconnect
<1>9. SlotAccounting'
  BY <1>6 DEF IInv, SlotAccounting, PeerDisconnect
<1>10. StoppedQueueEmpty'
  BY <1>2, <1>3, <1>4 DEF IInv, TypeOK, StoppedQueueEmpty, PeerDisconnect,
                          Becomes, Sched
<1> QED  BY <1>4, <1>6, <1>7, <1>8, <1>9, <1>10 DEF IInv, Sched, c

(* on_done: feedback, then release().                                      *)
LEMMA OnDoneKeepsIInv ==
    ASSUME IInv, NEW d, NEW requeue, OnDone(d, requeue)
    PROVE  /\ IInv'
           /\ stopping[d.chain] => dials' = dials \ {d}
           /\ \A e \in dials' \ dials :
                 e.chain = d.chain /\ e.peer \notin history[d.chain]
<1> DEFINE c == d.chain
           s == Feedback(d, requeue)
           t == Release(s, c, d)
<1>1. d \in dials
  BY DEF OnDone
<1>2. c \in Chains
  BY <1>1, DialFields
<1>3. Becomes(c, t)
  BY DEF OnDone
<1>4. /\ SlotsOK(s, c)
      /\ dials \subseteq s.dials
      /\ history[c] \subseteq s.history
      /\ \A e \in s.dials \ dials : e.chain = c /\ e.peer \notin history[c]
      /\ stopping[c] => s = Sched(c)
  BY <1>1, FeedbackKeepsSlots
<1> HIDE DEF s
<1>5. /\ SlotsOK(t, c)
      /\ d \notin t.dials
      /\ s.dials \ {d} \subseteq t.dials
      /\ SpawnsFresh(s, t, c)
      /\ stopping[c] => t.queue = s.queue /\ t.dials = s.dials \ {d}
  BY <1>1, <1>2, <1>4, ReleaseKeepsSlots
<1>6. d.chain = c
  OBVIOUS
<1> HIDE DEF t, c
<1>7. \A e \in t.dials \ dials : e.chain = c /\ e.peer \notin history[c]
  BY <1>4, <1>5 DEF SpawnsFresh
<1>8. \A e \in Chains \ {c} : DialsOf(t.dials, e) = DialsOf(dials, e)
  BY <1>4, <1>5, <1>6, <1>7 DEF DialsOf
<1>9. /\ queue' \in [Chains -> Seq(Peers)]
      /\ history' \in [Chains -> SUBSET Peers]
      /\ active' \in [Chains -> Nat]
      /\ activeTotal' \in Nat
      /\ dials' \in SUBSET Dial
      /\ IsFiniteSet(dials')
      /\ \A e \in Chains : active'[e] = Cardinality(DialsOf(dials', e))
      /\ activeTotal' = Cardinality(dials')
      /\ CountersWithinCaps'
  BY <1>2, <1>3, <1>5, <1>8, BecomesKeepsSlots
<1>10. dials' = t.dials
  BY <1>3 DEF Becomes
<1>11. \A e \in Chains : validatedCount'[e] = Cardinality(DialsOf(validated', e))
  <2> SUFFICES ASSUME NEW e \in Chains
               PROVE  validatedCount'[e] = Cardinality(DialsOf(validated', e))
    OBVIOUS
  <2>1. IsFiniteSet(validated)
    BY FS_Subset DEF IInv, TypeOK
  <2>2. IsFiniteSet(DialsOf(validated, e))
    BY <2>1, DialsOfFinite
  <2>3. DialsOf(validated', e) = DialsOf(validated, e) \ {d}
    BY DEF OnDone, DialsOf
  <2>4. Cardinality(DialsOf(validated', e)) =
            IF d \in DialsOf(validated, e)
            THEN Cardinality(DialsOf(validated, e)) - 1
            ELSE Cardinality(DialsOf(validated, e))
    BY <2>2, <2>3, FS_RemoveElement, Zenon
  <2>5. d \in DialsOf(validated, e) <=> d \in validated /\ d.chain = e
    BY DEF DialsOf
  <2> QED  BY <2>4, <2>5 DEF OnDone, IInv, TypeOK, SlotAccounting
<1>12. validatedCount' \in [Chains -> Nat]
  <2>1. validatedCount' \in [Chains -> Int]
    <3>1. \/ validatedCount' = validatedCount
          \/ validatedCount' = [validatedCount EXCEPT ![c] = @ - 1]
      BY DEF OnDone, c
    <3>2. validatedCount \in [Chains -> Nat]
      BY DEF IInv, TypeOK
    <3> QED  BY <1>2, <3>1, <3>2
  <2>2. \A e \in Chains : Cardinality(DialsOf(validated', e)) \in Nat
    <3>1. IsFiniteSet(validated')
      BY FS_Subset DEF IInv, TypeOK, OnDone
    <3> QED  BY <3>1, DialsOfFinite
  <2> QED  BY <1>11, <2>1, <2>2
<1>13. TypeOK'
  BY <1>4, <1>5, <1>9, <1>10, <1>12, Zenon DEF IInv, TypeOK, OnDone
<1>14. SlotAccounting'
  BY <1>9, <1>11 DEF SlotAccounting
<1>15. StoppedQueueEmpty'
  <2>1. stopping' = stopping /\ queue' = [queue EXCEPT ![c] = t.queue]
    BY <1>3, Zenon DEF OnDone, Becomes
  <2>2. stopping[c] => t.queue = queue[c]
    BY <1>4, <1>5 DEF Sched
  <2> QED  BY <1>2, <2>1, <2>2 DEF IInv, TypeOK, StoppedQueueEmpty
<1> QED  BY <1>4, <1>5, <1>7, <1>9, <1>10, <1>13, <1>14, <1>15 DEF IInv, Sched, c

(* on_connected.                                                           *)
LEMMA ConnectedKeepsIInv ==
    ASSUME IInv, NEW d, Connected(d)
    PROVE  IInv'
<1>1. d \in dials /\ d \notin validated /\ d.chain \in Chains
  BY DialFields DEF Connected
<1>2. IsFiniteSet(validated)
  BY FS_Subset DEF IInv, TypeOK
<1>3. \A e \in Chains : validatedCount'[e] = Cardinality(DialsOf(validated', e))
  <2> SUFFICES ASSUME NEW e \in Chains
               PROVE  validatedCount'[e] = Cardinality(DialsOf(validated', e))
    OBVIOUS
  <2>1. validatedCount[e] = Cardinality(DialsOf(validated, e))
    BY DEF IInv, SlotAccounting
  <2>2. CASE e = d.chain
    <3>1. DialsOf(validated', e) = DialsOf(validated, e) \cup {d}
      BY <2>2 DEF Connected, DialsOf
    <3>2. d \notin DialsOf(validated, e) /\ IsFiniteSet(DialsOf(validated, e))
      BY <1>1, <1>2, DialsOfFinite, Zenon DEF DialsOf
    <3>3. Cardinality(DialsOf(validated', e)) = Cardinality(DialsOf(validated, e)) + 1
      BY <3>1, <3>2, FS_AddElement
    <3> QED  BY <1>1, <2>1, <2>2, <3>3 DEF Connected, IInv, TypeOK
  <2>3. CASE e # d.chain
    <3>1. DialsOf(validated', e) = DialsOf(validated, e)
      BY <2>3 DEF Connected, DialsOf
    <3> QED  BY <1>1, <2>1, <2>3, <3>1 DEF Connected, IInv, TypeOK
  <2> QED  BY <2>2, <2>3
<1>4. TypeOK'
  BY <1>1 DEF Connected, IInv, TypeOK
<1>5. SlotAccounting'
  BY <1>3 DEF Connected, IInv, SlotAccounting
<1>6. CountersWithinCaps' /\ StoppedQueueEmpty' /\ IsFiniteSet(dials')
  BY DEF Connected, IInv, CountersWithinCaps, StoppedQueueEmpty
<1> QED  BY <1>4, <1>5, <1>6 DEF IInv

(* stop(), the end of a session and the passage of time.                   *)
LEMMA OtherStepsKeepIInv ==
    ASSUME IInv,
           \/ \E d \in dials : SessionEnds(d)
           \/ \E c \in Chains : Stop(c)
           \/ \E c \in Chains, p \in Peers : CooldownElapses(c, p)
           \/ UNCHANGED schedVars
    PROVE  IInv'
<1>1. ASSUME NEW d \in dials, SessionEnds(d) PROVE IInv'
  <2>1. TypeOK'
    BY <1>1 DEF SessionEnds, IInv, TypeOK
  <2> QED  BY <1>1, <2>1 DEF SessionEnds, IInv, SlotAccounting,
                             CountersWithinCaps, StoppedQueueEmpty
<1>2. ASSUME NEW c \in Chains, Stop(c) PROVE IInv'
  <2>1. TypeOK'
    BY <1>2, EmptySeq DEF Stop, IInv, TypeOK, DialsOf
  <2>2. StoppedQueueEmpty'
    BY <1>2 DEF Stop, IInv, TypeOK, StoppedQueueEmpty
  <2> QED  BY <1>2, <2>1, <2>2 DEF Stop, IInv, SlotAccounting, CountersWithinCaps
<1>3. ASSUME NEW c \in Chains, NEW p \in Peers, CooldownElapses(c, p) PROVE IInv'
  <2>1. TypeOK'
    BY <1>3 DEF CooldownElapses, IInv, TypeOK
  <2> QED  BY <1>3, <2>1, Zenon DEF CooldownElapses, IInv, SlotAccounting,
                             CountersWithinCaps, StoppedQueueEmpty
<1>4. ASSUME UNCHANGED schedVars PROVE IInv'
  BY <1>4 DEF schedVars, IInv, TypeOK, SlotAccounting, CountersWithinCaps,
              StoppedQueueEmpty
<1> QED  BY <1>1, <1>2, <1>3, <1>4

(* Every step of the schedulers keeps the invariant.                       *)
LEMMA NextKeepsIInv ==
    ASSUME IInv, [Next]_schedVars
    PROVE  IInv'
<1>1. ASSUME NEW c \in Chains, NEW p \in Peers, NEW eligible \in BOOLEAN,
             Offer(c, p, eligible)
      PROVE  IInv'
  BY <1>1, OfferKeepsIInv
<1>2. ASSUME NEW d \in dials, Connected(d) PROVE IInv'
  BY <1>2, ConnectedKeepsIInv
<1>3. ASSUME NEW d \in dials, NEW requeue \in BOOLEAN, PeerDisconnect(d, requeue)
      PROVE  IInv'
  BY <1>3, PeerDisconnectKeepsIInv
<1>4. ASSUME NEW d \in dials, NEW requeue \in BOOLEAN, OnDone(d, requeue)
      PROVE  IInv'
  BY <1>4, OnDoneKeepsIInv
<1> QED  BY <1>1, <1>2, <1>3, <1>4, OtherStepsKeepIInv DEF Next

(* The inductive invariant holds in every reachable state.                 *)
THEOREM Invariance == Spec => []IInv
<1>1. IInv /\ [Next]_schedVars => IInv'
  BY NextKeepsIInv
<1> QED  BY InitIInv, <1>1, PTL DEF Spec

(* Type correctness of the schedulers' state.                              *)
THEOREM TypeCorrect == Spec => []TypeOK
<1>1. IInv => TypeOK
  BY DEF IInv
<1> QED  BY Invariance, <1>1, PTL

(* active, active_total and validated_count count coroutines and validated *)
(* sessions: no path through enqueue(), release(), on_done and feedback    *)
(* leaks a slot or frees one twice.                                        *)
THEOREM SlotsAccounted == Spec => []SlotAccounting
<1>1. IInv => SlotAccounting
  BY DEF IInv
<1> QED  BY Invariance, <1>1, PTL

(* The two-level connection cap of WatcherPool holds for the coroutines    *)
(* themselves.                                                             *)
THEOREM CapsHold == Spec => []CapsRespected
<1>1. IInv => CapsRespected
  <2> SUFFICES ASSUME IInv PROVE CapsRespected
    OBVIOUS
  <2>1. \A c \in Chains : Cardinality(DialsOf(dials, c)) <= MaxPerChain
    BY DEF IInv, SlotAccounting, CountersWithinCaps
  <2>2. Cardinality(dials) <= MaxTotal
    BY DEF IInv, SlotAccounting, CountersWithinCaps
  <2> QED  BY <2>1, <2>2 DEF CapsRespected
<1> QED  BY Invariance, <1>1, PTL

(* After stop() a scheduler only winds down: enqueue() drops, release()    *)
(* does not drain, and the queue stays empty.                              *)
THEOREM StopFinality == Spec => StopIsFinal
<1> DEFINE Final == \A c \in Chains : stopping[c] =>
                       /\ stopping'[c]
                       /\ queue'[c] = <<>>
                       /\ DialsOf(dials', c) \subseteq DialsOf(dials, c)
<1>1. ASSUME IInv, IInv', [Next]_schedVars
      PROVE  Final
  <2> SUFFICES ASSUME NEW c \in Chains, stopping[c]
               PROVE  /\ stopping'[c]
                      /\ queue'[c] = <<>>
                      /\ DialsOf(dials', c) \subseteq DialsOf(dials, c)
    OBVIOUS
  <2>1. stopping'[c]
    BY <1>1, Zenon DEF Next, schedVars, Offer, Connected, PeerDisconnect, SessionEnds,
                OnDone, Stop, CooldownElapses, IInv, TypeOK
  <2>2. queue'[c] = <<>>
    BY <1>1, <2>1 DEF IInv, StoppedQueueEmpty
  <2>3. \A d \in dials' \ dials : d.chain # c
    <3>1. ASSUME NEW e \in Chains, NEW p \in Peers, NEW eligible \in BOOLEAN,
                 Offer(e, p, eligible)
          PROVE  \A d \in dials' \ dials : d.chain # c
      BY <1>1, <3>1, OfferKeepsIInv
    <3>2. ASSUME NEW d \in dials, NEW requeue \in BOOLEAN, PeerDisconnect(d, requeue)
          PROVE  \A e \in dials' \ dials : e.chain # c
      BY <1>1, <3>2, PeerDisconnectKeepsIInv
    <3>3. ASSUME NEW d \in dials, NEW requeue \in BOOLEAN, OnDone(d, requeue)
          PROVE  \A e \in dials' \ dials : e.chain # c
      BY <1>1, <3>3, OnDoneKeepsIInv
    <3> QED  BY <1>1, <3>1, <3>2, <3>3 DEF Next, schedVars, Connected,
                                           SessionEnds, Stop, CooldownElapses
  <2> QED  BY <2>1, <2>2, <2>3 DEF DialsOf
<1>2. IInv /\ IInv' /\ [Next]_schedVars => [Final]_schedVars
  BY <1>1
<1> QED  BY Invariance, <1>2, PTL DEF Spec, StopIsFinal

(* Whichever way a dial is started, its peer is out of cooldown.           *)
THEOREM OneDialPerCooldown == Spec => NoRedialInCooldown
<1> DEFINE Cooled == \A d \in dials' \ dials : d.peer \notin history[d.chain]
<1>1. ASSUME IInv, [Next]_schedVars
      PROVE  Cooled
  <2>1. ASSUME NEW e \in Chains, NEW p \in Peers, NEW eligible \in BOOLEAN,
               Offer(e, p, eligible)
        PROVE  Cooled
    BY <1>1, <2>1, OfferKeepsIInv
  <2>2. ASSUME NEW d \in dials, NEW requeue \in BOOLEAN, PeerDisconnect(d, requeue)
        PROVE  Cooled
    BY <1>1, <2>2, PeerDisconnectKeepsIInv
  <2>3. ASSUME NEW d \in dials, NEW requeue \in BOOLEAN, OnDone(d, requeue)
        PROVE  Cooled
    BY <1>1, <2>3, OnDoneKeepsIInv
  <2> QED  BY <1>1, <2>1, <2>2, <2>3 DEF Next, schedVars, Connected,
                                         SessionEnds, Stop, CooldownElapses
<1>2. IInv /\ [Next]_schedVars => [Cooled]_schedVars
  BY <1>1
<1> QED  BY Invariance, <1>2, PTL DEF Spec, NoRedialInCooldown

-----------------------------------------------------------------------------
(***************************************************************************)
(* No idle slots.  If the loop of release() leaves a peer behind, then     *)
(* fewer positions were popped than the queue has; before the first one    *)
(* that was not popped, every fresh position was dialled, and those are as *)
(* many as there were free slots.                                          *)
(***************************************************************************)
LEMMA LeftoverMeansFull ==
    ASSUME NEW s \in SchedState, FreeSlots(s) \in Nat,
           SubSeq(s.queue, Cardinality(Popped(s)) + 1, Len(s.queue)) # <<>>
    PROVE  Cardinality(Launched(s)) = FreeSlots(s)
<1> DEFINE n == Len(s.queue)
           I == Fresh(s) \cap Popped(s)
           f == [i \in I |-> s.queue[i]]
<1>1. n \in Nat /\ s.queue \in [1..n -> Peers]
  BY LenProperties DEF SchedState
<1>2. IsFiniteSet(1..n) /\ Cardinality(1..n) = n
  <2> HIDE DEF n
  <2> QED  BY <1>1, IntervalCount
<1>3. Fresh(s) \subseteq 1..n /\ Popped(s) \subseteq 1..n
  BY DEF Fresh, Popped
<1>4. IsFiniteSet(Fresh(s)) /\ IsFiniteSet(Popped(s)) /\ IsFiniteSet(I)
  <2>1. I \subseteq 1..n
    BY <1>3
  <2> HIDE DEF n, I
  <2> QED  BY <1>2, <1>3, <2>1, FS_Subset, Zenon
<1>5. (1..n) \ Popped(s) # {}
  <2> SUFFICES ASSUME (1..n) \ Popped(s) = {} PROVE FALSE
    OBVIOUS
  <2>1. Popped(s) = 1..n
    BY <1>3, Zenon
  <2>2. Cardinality(Popped(s)) = n
    BY <1>2, <2>1
  <2>3. SubSeq(s.queue, n + 1, n) = <<>>
    <3> HIDE DEF n
    <3> QED  BY <1>1, SubSeqEmpty
  <2> QED  BY <2>2, <2>3
<1>6. PICK m \in (1..n) \ Popped(s) : \A i \in (1..n) \ Popped(s) : m <= i
  <2>1. (1..n) \ Popped(s) \in SUBSET Nat
    OBVIOUS
  <2> HIDE DEF n
  <2> QED  BY <1>5, <2>1, LeastNatural, Zenon
<1>7. ~(Cardinality(FreshBefore(s, m)) < FreeSlots(s))
  BY <1>6 DEF Popped
<1>8. FreshBefore(s, m) \subseteq I
  BY <1>1, <1>3, <1>6 DEF FreshBefore
<1>9. Cardinality(FreshBefore(s, m)) <= Cardinality(I)
  <2> HIDE DEF I
  <2> QED  BY <1>4, <1>8, FS_Subset
<1>10. f \in Bijection(I, Launched(s))
  <2>1. \A i, j \in I : s.queue[i] = s.queue[j] => i = j
    BY <1>1, <1>3 DEF Fresh
  <2>2. f \in [I -> Launched(s)] /\ \A t \in Launched(s) : \E i \in I : f[i] = t
    BY DEF Launched
  <2> QED  BY <2>1, <2>2 DEF Bijection, Injection, Surjection, IsInjective
<1>11. Cardinality(Launched(s)) = Cardinality(I)
  <2>1. ExistsBijection(I, Launched(s))
    BY <1>10, Zenon DEF ExistsBijection
  <2> HIDE DEF I
  <2> QED  BY <1>4, <2>1, FS_Bijection
<1>12. Cardinality(Launched(s)) <= FreeSlots(s)
  BY LaunchedFitsFreeSlots
<1>13. Cardinality(FreshBefore(s, m)) \in Nat /\ Cardinality(I) \in Nat
  <2>1. IsFiniteSet(FreshBefore(s, m))
    BY <1>4, <1>8, FS_Subset
  <2> QED  BY <1>4, <2>1, FS_CardinalityType
<1> HIDE DEF I
<1> QED  BY <1>7, <1>9, <1>11, <1>12, <1>13

(* The counters and the queue when release() returns.                      *)
LEMMA ReleaseFields ==
    ASSUME NEW c, ~stopping[c], NEW s \in SchedState, NEW d,
           NEW t, t = Release(s, c, d), NEW r, r = Recycle(s)
    PROVE  /\ t.active = r.active + Cardinality(Launched(r))
           /\ t.total = r.total + Cardinality(Launched(r))
           /\ t.queue = SubSeq(r.queue, Cardinality(Popped(r)) + 1, Len(r.queue))
<1> DEFINE v == StartDials(r, c, Launched(r))
           u == Drain(r, c)
<1>1. r \in SchedState
  BY RecycleFields
<1>2. /\ v.active = r.active + Cardinality(Launched(r))
      /\ v.total = r.total + Cardinality(Launched(r))
      /\ v.queue = r.queue
      /\ v = [active |-> v.active, total |-> v.total, queue |-> v.queue,
              history |-> v.history, dials |-> v.dials]
  BY <1>1, StartDialsFields
<1>3. u = [v EXCEPT !.queue = SubSeq(@, Cardinality(Popped(r)) + 1, Len(@))]
  BY DEF Drain
<1> HIDE DEF v
<1>4. /\ u.active = v.active /\ u.total = v.total
      /\ u.queue = SubSeq(v.queue, Cardinality(Popped(r)) + 1, Len(v.queue))
      /\ u = [active |-> u.active, total |-> u.total, queue |-> u.queue,
              history |-> u.history, dials |-> u.dials]
  <2> HIDE DEF u
  <2> QED  BY <1>2, <1>3, Zenon
<1>5. t = [u EXCEPT !.dials = @ \ {d}]
  BY DEF Release
<1> HIDE DEF u
<1>6. t.active = u.active /\ t.total = u.total /\ t.queue = u.queue
  BY <1>4, <1>5
<1> QED  BY <1>2, <1>4, <1>6

(* release() leaves no slot idle while a peer waits in its queue.          *)
LEMMA ReleaseFills ==
    ASSUME NEW c \in Chains, ~stopping[c], NEW s, SlotsOK(s, c),
           NEW d, NEW t, t = Release(s, c, d), t.queue # <<>>
    PROVE  ~HasSlot(t)
<1> DEFINE r == Recycle(s)
<1>1. s \in SchedState /\ s.active \in Int /\ s.total \in Int
  BY DEF SlotsOK, SchedState
<1>2. /\ r \in SchedState
      /\ r.active = s.active - 1 /\ r.total = s.total - 1
  BY <1>1, RecycleFields
<1>3. /\ t.active = r.active + Cardinality(Launched(r))
      /\ t.total = r.total + Cardinality(Launched(r))
      /\ t.queue = SubSeq(r.queue, Cardinality(Popped(r)) + 1, Len(r.queue))
  BY <1>1, ReleaseFields
<1> HIDE DEF r
<1>4. FreeSlots(r) \in Nat
  BY <1>1, <1>2, LimitsAssumption DEF SlotsOK, FreeSlots
<1>5. Cardinality(Launched(r)) = FreeSlots(r)
  BY <1>2, <1>3, <1>4, LeftoverMeansFull
<1>6. r.active + FreeSlots(r) = MaxPerChain \/ r.total + FreeSlots(r) = MaxTotal
  BY <1>1, <1>2, LimitsAssumption DEF FreeSlots
<1> QED  BY <1>3, <1>5, <1>6, LimitsAssumption DEF HasSlot

(* Whenever a scheduler gets a slot back, it fills its slots from its      *)
(* queue, whatever the other chains do.                                    *)
THEOREM ReleaseUsesSlots == Spec => ReleaseFillsSlots
<1> DEFINE Filled == \A c \in Chains :
                        (~stopping[c] /\ DialsOf(dials \ dials', c) # {}) =>
                           queue'[c] = <<>> \/ ~HasSlot(Sched(c))'
<1>1. ASSUME IInv, IInv', [Next]_schedVars
      PROVE  Filled
  <2> SUFFICES ASSUME NEW c \in Chains, ~stopping[c],
                      DialsOf(dials \ dials', c) # {}, queue'[c] # <<>>
               PROVE  ~HasSlot(Sched(c))'
    BY Zenon
  <2>1. PICK e \in dials : e \notin dials' /\ e.chain = c
    BY DEF DialsOf
  <2>2. ASSUME NEW d \in dials, NEW requeue \in BOOLEAN, OnDone(d, requeue)
        PROVE  ~HasSlot(Sched(c))'
    <3> DEFINE s == Feedback(d, requeue)
               t == Release(s, d.chain, d)
    <3>1. d.chain \in Chains
      BY <1>1, DialFields
    <3>2. SlotsOK(s, d.chain) /\ dials \subseteq s.dials
      BY <1>1, FeedbackKeepsSlots
    <3>3. Becomes(d.chain, t)
      BY <2>2 DEF OnDone
    <3> HIDE DEF s
    <3>4. s.dials \ {d} \subseteq t.dials
      BY <3>1, <3>2, ReleaseKeepsSlots
    <3>5. e = d
      BY <2>1, <3>2, <3>3, <3>4 DEF Becomes
    <3> HIDE DEF t
    <3>6. t.queue = queue'[c] /\ t.active = active'[c] /\ t.total = activeTotal'
      BY <1>1, <2>1, <3>3, <3>5, Zenon DEF Becomes, IInv, TypeOK
    <3>7. ~HasSlot(t)
      BY <2>1, <3>2, <3>5, <3>6, ReleaseFills, Zenon DEF t
    <3> QED  BY <3>6, <3>7, Zenon DEF HasSlot, Sched
  <2>3. ASSUME NEW f \in Chains, NEW p \in Peers, NEW eligible \in BOOLEAN,
               Offer(f, p, eligible)
        PROVE  dials \subseteq dials'
    <3>1. SlotsOK(Sched(f), f) /\ Sched(f).dials = dials
      BY <1>1, SchedSlotsOK DEF Sched
    <3>2. dials \subseteq Enqueue(Sched(f), f, p, eligible).dials
      BY <3>1, EnqueueKeepsSlots
    <3> QED  BY <2>3, <3>2 DEF Offer, Becomes
  <2>4. ASSUME NEW d \in dials, NEW requeue \in BOOLEAN, PeerDisconnect(d, requeue)
        PROVE  dials \subseteq dials'
    <3>1. dials \subseteq Feedback(d, requeue).dials
      BY <1>1, FeedbackKeepsSlots, Zenon
    <3> QED  BY <2>4, <3>1 DEF PeerDisconnect, Becomes
  <2> QED  BY <1>1, <2>1, <2>2, <2>3, <2>4, Zenon DEF Next, schedVars, Connected,
                                      SessionEnds, Stop, CooldownElapses
<1>2. IInv /\ IInv' /\ [Next]_schedVars => [Filled]_schedVars
  BY <1>1, Zenon
<1> QED  BY Invariance, <1>2, PTL DEF Spec, ReleaseFillsSlots

(* enqueue() lets a peer wait only if there is no slot for it.             *)
LEMMA EnqueueLeavesNoIdleSlot ==
    ASSUME NEW c \in Chains, NEW p \in Peers, NEW eligible,
           NEW s, SlotsOK(s, c), s.queue # <<>> => ~HasSlot(s),
           NEW t, t = Enqueue(s, c, p, eligible)
    PROVE  t.queue # <<>> => ~HasSlot(t)
<1>1. s \in SchedState
  BY DEF SlotsOK
<1>2. CASE t = s
  BY <1>2
<1>3. CASE HasSlot(s) /\ t = StartDials(s, c, {p})
  <2>1. t.queue = s.queue
    BY <1>1, <1>3, StartDialsFields
  <2> QED  BY <1>3, <2>1
<1>4. CASE ~HasSlot(s) /\ t = [s EXCEPT !.queue = Append(@, p)]
  <2>1. t.active = s.active /\ t.total = s.total
    BY <1>1, <1>4 DEF SchedState
  <2> QED  BY <1>4, <2>1 DEF HasSlot
<1> QED  BY <1>2, <1>3, <1>4 DEF Enqueue

(* With a single chain drawing on the pool no slot ever stands idle while  *)
(* a peer waits.  (With several chains release() drains only the queue of  *)
(* its own chain, and the statement fails.)                                *)
THEOREM SingleChainNoIdleSlot ==
    ASSUME NEW c, Chains = {c}
    PROVE  Spec => []NoIdleSlot
<1>1. Init => NoIdleSlot
  BY DEF Init, NoIdleSlot
<1>2. ASSUME IInv, NoIdleSlot, IInv', [Next]_schedVars
      PROVE  NoIdleSlot'
  <2> SUFFICES ASSUME queue'[c] # <<>>
               PROVE  ~HasSlot(Sched(c))'
    BY DEF NoIdleSlot
  <2>1. /\ Sched(c).active = active[c] /\ Sched(c).total = activeTotal
        /\ Sched(c).queue = queue[c]
    BY DEF Sched
  <2>2. SlotsOK(Sched(c), c)
    BY <1>2, SchedSlotsOK
  <2>3. Sched(c).queue # <<>> => ~HasSlot(Sched(c))
    BY <1>2, <2>1 DEF NoIdleSlot
  <2>4. ASSUME NEW t, Becomes(c, t), t.queue # <<>> => ~HasSlot(t)
        PROVE  ~HasSlot(Sched(c))'
    <3>1. t.queue = queue'[c] /\ t.active = active'[c] /\ t.total = activeTotal'
      BY <1>2, <2>4 DEF Becomes, IInv, TypeOK
    <3> QED  BY <2>4, <3>1, Zenon DEF HasSlot, Sched
  <2>5. \A d \in dials : d.chain = c /\ d.peer \in Peers
    BY <1>2, DialFields
  <2>6. ASSUME NEW d \in dials, NEW requeue \in BOOLEAN
        PROVE  Feedback(d, requeue).queue # <<>> => ~HasSlot(Feedback(d, requeue))
    <3>1. CASE requeue
      <4>1. Feedback(d, requeue) = Enqueue(Sched(c), c, d.peer, TRUE)
        BY <2>5, <3>1, Zenon DEF Feedback
      <4> QED  BY <2>2, <2>3, <2>5, <4>1, EnqueueLeavesNoIdleSlot, Zenon
    <3>2. CASE ~requeue
      <4>1. Feedback(d, requeue) = Sched(c)
        BY <2>5, <3>2 DEF Feedback
      <4> QED  BY <2>3, <4>1
    <3> QED  BY <3>1, <3>2
  <2>7. ASSUME NEW p \in Peers, NEW eligible \in BOOLEAN, Offer(c, p, eligible)
        PROVE  ~HasSlot(Sched(c))'
    BY <2>2, <2>3, <2>4, <2>7, EnqueueLeavesNoIdleSlot DEF Offer
  <2>8. ASSUME NEW d \in dials, NEW requeue \in BOOLEAN, PeerDisconnect(d, requeue)
        PROVE  ~HasSlot(Sched(c))'
    BY <2>4, <2>5, <2>6, <2>8 DEF PeerDisconnect
  <2>9. ASSUME NEW d \in dials, NEW requeue \in BOOLEAN, OnDone(d, requeue)
        PROVE  ~HasSlot(Sched(c))'
    <3> DEFINE s == Feedback(d, requeue)
               t == Release(s, c, d)
    <3>1. Becomes(c, t)
      BY <2>5, <2>9 DEF OnDone
    <3>2. SlotsOK(s, c)
      BY <1>2, <2>5, FeedbackKeepsSlots
    <3>3. CASE stopping[c]
      <4>1. queue'[c] = <<>>
        BY <1>2, <2>9, <3>3, Zenon DEF IInv, StoppedQueueEmpty, OnDone
      <4> QED  BY <4>1
    <3>4. CASE ~stopping[c]
      <4> HIDE DEF s
      <4>1. t.queue # <<>> => ~HasSlot(t)
        BY <3>2, <3>4, ReleaseFills
      <4> HIDE DEF t
      <4> QED  BY <2>4, <3>1, <4>1
    <3> QED  BY <3>3, <3>4
  <2>10. ASSUME Stop(c) PROVE ~HasSlot(Sched(c))'
    BY <1>2, <2>10 DEF Stop, IInv, TypeOK
  <2>11. ASSUME UNCHANGED <<queue, active, activeTotal>>
         PROVE  ~HasSlot(Sched(c))'
    BY <1>2, <2>11 DEF NoIdleSlot, HasSlot, Sched
  <2> QED  BY <1>2, <2>7, <2>8, <2>9, <2>10, <2>11 DEF Next, schedVars,
                                      Connected, SessionEnds, CooldownElapses
<1>3. IInv /\ IInv' /\ NoIdleSlot /\ [Next]_schedVars => NoIdleSlot'
  BY <1>2
<1> QED  BY Invariance, <1>1, <1>3, PTL DEF Spec

=============================================================================
