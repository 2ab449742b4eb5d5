CONSTANTS
    c1 = c1
    p1 = p1
    p2 = p2
    Chains = {c1}
    Peers = {p1, p2}
    MaxTotal = 2
    MaxPerChain = 2
    MaxPending = 2
    MaxQueue = 3
SPECIFICATION FairSpec
INVARIANTS NoIdleSlot DrainMatchesLoop
PROPERTIES WaitingPeerLeaves StopUnwindsKnown
