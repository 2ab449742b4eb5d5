CONSTANTS
    c1 = c1
    c2 = c2
    c3 = c3
    p1 = p1
    p2 = p2
    Chains = {c1, c2, c3}
    Peers = {p1, p2}
    MaxTotal = 2
    MaxPerChain = 1
    MaxPending = 1
    MaxQueue = 3
SPECIFICATION Spec
SYMMETRY ChainPeerSymmetry
INVARIANTS CapsRespected SlotAccounting
PROPERTY StopIsFinal
