------------------------------- MODULE FifoChannel -------------------------------
(* What an RLPx connection promises the sessions at its two ends: each end      *)
(* receives the messages of the other one as they were sent, in the order they  *)
(* were sent, none lost in between and none twice. It may stop at any time.     *)
EXTENDS Naturals, Sequences

CONSTANTS Ends, Other(_), Messages

VARIABLES sent, received

Init == /\ sent     = [e \in Ends |-> <<>>]
        /\ received = [e \in Ends |-> <<>>]

Send(e) ==
    \E m \in Messages :
        /\ sent' = [sent EXCEPT ![e] = Append(@, m)]
        /\ UNCHANGED received

Deliver(e) ==
    LET from == sent[Other(e)]
        n    == Len(received[e]) + 1
    IN  /\ n <= Len(from)
        /\ received' = [received EXCEPT ![e] = Append(@, from[n])]
        /\ UNCHANGED sent

Next == \E e \in Ends : Send(e) \/ Deliver(e)

Spec == Init /\ [][Next]_<<sent, received>>

================================================================================
