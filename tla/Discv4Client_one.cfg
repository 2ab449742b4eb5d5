CONSTANTS
    e1 = e1
    Endpoints = {e1}
    Bootnodes = {e1}
    Rounds = 1
    MaxTime = 1
CHECK_DEADLOCK FALSE
SPECIFICATION FairSpec
INVARIANTS EntriesOwned BondsProven
PROPERTIES CoroutinesEnd DiscoveredDelivered
