-------------------------------- MODULE MCRpcRelay --------------------------------
(* Three blocks on two branches, a bridged watch of one contract and a direct   *)
(* one of any, and two pools of endpoints.                                      *)
EXTENDS RpcRelay, TLC

CONSTANTS none, a1, a2, s1, A, B, t1, t2, t3

Log(a, words) == [address |-> a, topics |-> <<s1>>, words |-> words]

MCLogsOf == (t1 :> <<Log(a1, 1)>>) @@ (t2 :> <<Log(a2, 1), Log(a1, 2)>>) @@ (t3 :> <<Log(a2, 1)>>)

(* The two branches order the same transactions differently.                    *)
MCTxsOf == (<<1, A>> :> <<t1, t2>>) @@ (<<1, B>> :> <<t2>>)
        @@ (<<2, A>> :> <<>>)       @@ (<<2, B>> :> <<t1>>)
        @@ (<<3, A>> :> <<t3>>)     @@ (<<3, B>> :> <<>>)

AnyFromTwo == [address |-> none, sig |-> s1, from |-> <<2>>, to |-> <<>>, indexed |-> 0, words |-> 1]
OneAddress == [address |-> a1, sig |-> s1, from |-> <<>>, to |-> <<>>, indexed |-> 0, words |-> 1]

MCWatches == {OneAddress}
MCDirect  == {AnyFromTwo}
MCRescans == {[from |-> 1, to |-> 1]}

MCPolicies == { [prefer_finalized |-> TRUE, prefer_safe |-> TRUE, confirmation_depth |-> 1],
                [prefer_finalized |-> FALSE, prefer_safe |-> FALSE, confirmation_depth |-> 1] }

(* The policies of the code are of these two forms, with a larger depth: one    *)
(* chain id for each case of the table, and one for its default.                *)
ASSUME PolicyForms ==
    \A chain_id \in {1, 11155111, 17000, 8453, 84532, 137, 80002, 56, 97, 2} :
        LET p == finality_policy_for_chain_id(chain_id)
        IN  /\ p.confirmation_depth > 0
            /\ [p EXCEPT !.confirmation_depth = 1] \in MCPolicies

Endpoint(url, p, w) == [chain |-> 1, url_template |-> url, requires_key |-> FALSE,
                        key |-> <<>>, priority |-> p, weight |-> w]

(* A key that is missing, one that is there, an endpoint too many; an endpoint  *)
(* of another chain, and one URL configured twice.                              *)
MCConfigs ==
    { << [Endpoint(3, 1, 1) EXCEPT !.requires_key = TRUE],
         [Endpoint(2, 2, 1) EXCEPT !.requires_key = TRUE, !.key = <<7>>],
         Endpoint(1, 2, 1), Endpoint(4, 2, 5) >>,
      << [Endpoint(9, 1, 1) EXCEPT !.chain = 2], Endpoint(5, 1, 1), Endpoint(5, 2, 1) >> }

================================================================================
