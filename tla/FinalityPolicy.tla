----------------------------- MODULE FinalityPolicy -----------------------------
(* Which block is final (src/src/eth/finality_policy.cpp). An optional number   *)
(* is a sequence of at most one number; so is the head that is chosen.          *)
EXTENDS Naturals, Sequences

finality_policy_for_chain_id(chain_id) ==
    CASE chain_id \in {8453, 84532} ->
             [prefer_finalized |-> TRUE, prefer_safe |-> TRUE, confirmation_depth |-> 900]
      [] chain_id \in {137, 80002} ->
             [prefer_finalized |-> FALSE, prefer_safe |-> FALSE, confirmation_depth |-> 256]
      [] chain_id \in {56, 97} ->
             [prefer_finalized |-> FALSE, prefer_safe |-> FALSE, confirmation_depth |-> 30]
      [] OTHER ->
             [prefer_finalized |-> TRUE, prefer_safe |-> TRUE, confirmation_depth |-> 64]

confirmed_head(latest, depth) ==
    IF latest = <<>> \/ depth = 0 THEN <<>>
    ELSE IF latest[1] < depth THEN <<>> ELSE << latest[1] - depth >>

choose_finality_head(policy, heads) ==
    IF policy.prefer_finalized /\ heads.finalized # <<>> THEN heads.finalized
    ELSE IF policy.prefer_safe /\ heads.safe # <<>> THEN heads.safe
    ELSE confirmed_head(heads.latest, policy.confirmation_depth)

================================================================================
