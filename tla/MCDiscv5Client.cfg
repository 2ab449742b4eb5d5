SPECIFICATION FairSpec
CONSTANTS
    Endpoints <- MCEndpoints
    Clients = {"a", "b"}
    Bootstraps <- MCBootstraps
    Extra <- MCExtra
    ForkOf <- MCForkOf
    required_fork_id = "ours"
    max_concurrent_queries = 2
    MaxDraws = 4
    MaxFaults = 1
INVARIANTS Agreement KeysMirror EmittedOnce
PROPERTY LearnsWhenQuiet
CHECK_DEADLOCK FALSE
