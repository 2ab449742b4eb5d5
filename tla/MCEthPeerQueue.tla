---------------------------- MODULE MCEthPeerQueue ----------------------------
(* Instances of EthPeerQueue for model checking.                           *)
EXTENDS EthPeerQueue, TLC

PeerSymmetry == Permutations(Peers)

=============================================================================
