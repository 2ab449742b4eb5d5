------------------------------ MODULE WatchDial ------------------------------
(***************************************************************************)
(* The schedulers with the dial_fn EthWatchService gives them by default   *)
(* (make_default_dial_fn in src/eth/eth_watch_service.cpp).  It reports a  *)
(* failed connect or a failed Status handshake through on_done; once the   *)
(* handshake has succeeded it calls on_connected, leaves the session to an *)
(* EthWatchRunner and returns.                                             *)
(***************************************************************************)
EXTENDS EthPeerQueue

(* No local key pair, no RLPx connection, or no accepted Status.           *)
AttemptFails(d, reason) == d \notin validated /\ DialEnds(d, reason)

(* on_connected, after which the coroutine is over.                        *)
HandshakeAccepted(d) == Connected(d) /\ UNCHANGED bookVars

WatchStep ==
    \/ \E c \in Chains, p \in Peers, eligible \in BOOLEAN : Discover(c, p, eligible)
    \/ \E d \in dials, reason \in Reasons : AttemptFails(d, reason)
    \/ \E d \in dials, reason \in Reasons : DisconnectMessage(d, reason)
    \/ \E c \in Chains, p \in Peers : BackoffElapses(c, p)
    \/ SchedulerStep

WatchNext ==
    /\ WatchStep
    /\ starts' = [c \in Chains |-> [p \in Peers |->
                    starts[c][p] + Cardinality(Started(c, p))]]

WatchFairness ==
    \A d \in Dial : WF_queueVars(WatchNext /\ (\/ HandshakeAccepted(d)
                                               \/ AttemptFails(d, "kTcpError")))

WatchSpec == QueueInit /\ [][WatchNext]_queueVars /\ WatchFairness

-----------------------------------------------------------------------------
(* "Slots are freed immediately when a dial completes (success or fail)":  *)
(* when the session of a successful dial is over its slot is given back.   *)
EndedSessionFreesSlot ==
    \A d \in Dial : d \in ended ~> d \notin dials

=============================================================================
