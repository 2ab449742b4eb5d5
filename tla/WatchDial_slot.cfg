CONSTANTS
    c1 = c1
    p1 = p1
    Chains = {c1}
    Peers = {p1}
    MaxTotal = 1
    MaxPerChain = 1
    MaxPending = 1
    MaxRequeues = 1
SPECIFICATION WatchSpec
PROPERTIES EndedSessionFreesSlot
