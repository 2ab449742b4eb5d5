----------------------------- MODULE MCDiscv5Client -----------------------------
(* Two nodes, "a" and "b": a queries b, or each queries the other. The node at  *)
(* b answers with a third one besides itself, that is on another fork and does  *)
(* not answer.                                                                  *)
EXTENDS Discv5Client

MCEndpoints  == {"a", "b", "c"}
MCBootstraps == { [e \in MCEndpoints |-> IF e = "a" THEN <<"b">> ELSE <<>>],
                  [e \in MCEndpoints |-> IF e = "a" THEN <<"b">> ELSE IF e = "b" THEN <<"a">> ELSE <<>>] }
MCExtra      == [e \in MCEndpoints |-> IF e = "b" THEN << <<"c", 0>> >> ELSE <<>>]
MCForkOf     == [e \in MCEndpoints |-> IF e = "c" THEN "other" ELSE "ours"]

================================================================================
