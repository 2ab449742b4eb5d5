CONSTANTS
    c1 = c1
    p1 = p1
    p2 = p2
    Chains = {c1}
    Peers = {p1, p2}
    MaxTotal = 2
    MaxPerChain = 2
    MaxPending = 1
    MaxRequeues = 1
SPECIFICATION QueueSpec
SYMMETRY PeerSymmetry
INVARIANTS PendingBounded RedialsBounded
PROPERTY Spec
