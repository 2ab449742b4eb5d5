-------------------------------- MODULE RpcRelay --------------------------------
(* make_receipt_source (src/src/eth/rpc_manager.cpp): the pool chooses an       *)
(* endpoint, a source is made for it. The source never comes back to the pool:  *)
(* what happens to the endpoint afterwards is not reported to it.               *)
EXTENDS RpcSource, RpcPool

VARIABLE source     \* whether a source was made

relayVars == <<vars, poolVars, source>>

RelayInit == Init /\ PoolInit /\ source = FALSE

(* From here on nothing reads the pool any more: its state is dropped.          *)
make_receipt_source ==
    /\ ~source /\ probing = 0
    /\ next_endpoint # 0
    /\ source' = TRUE
    /\ endpoints' = <<>> /\ marked' = <<>> /\ now' = 0 /\ marks' = 0
    /\ UNCHANGED <<vars, probing>>

RelayNext ==
    \/ ~source /\ PoolNext /\ UNCHANGED <<vars, source>>
    \/ make_receipt_source
    \/ source /\ Next /\ UNCHANGED <<poolVars, source>>

RelaySpec == RelayInit /\ [][RelayNext]_relayVars

(* Once there is a source, its caller polls again and again, and every poll     *)
(* returns, since every call does: it is answered, or it fails. The calls that  *)
(* fail are finitely many (MaxUpsets).                                          *)
FairSpec == RelaySpec /\ []<>(source => Idle) /\ []<>(source => ~Idle)

================================================================================
