--------------------------- MODULE MCDialScheduler ---------------------------
(* Instances of DialScheduler for model checking.                          *)
EXTENDS DialScheduler, SequencesExt, TLC

CONSTANT MaxQueue   \* longest queue on which the drain loop is compared

(* Chains and peers are interchangeable.                                   *)
ChainPeerSymmetry == Permutations(Peers) \cup Permutations(Chains)

(* The loop of release() as written: pop, skip what is in the history,     *)
(* dial.                                                                   *)
RECURSIVE DrainLoop(_, _)
DrainLoop(s, c) ==
    IF ~HasSlot(s) \/ s.queue = <<>> THEN s
    ELSE LET p == Head(s.queue)
             q == [s EXCEPT !.queue = Tail(@)]
         IN  DrainLoop(IF p \in s.history THEN q ELSE StartDials(q, c, {p}), c)

(* Draining in closed form, which the scheduler's specification and its    *)
(* proofs use, is what the loop of release() does in every reached state,  *)
(* with any queue: same peers dialled, same peers dropped as recently      *)
(* dialled, same peers left waiting.                                       *)
DrainMatchesLoop ==
    \A c \in Chains, waiting \in BoundedSeq(Peers, MaxQueue) :
        LET s == [Sched(c) EXCEPT !.queue = waiting]
        IN  Drain(s, c) = DrainLoop(s, c)

=============================================================================
