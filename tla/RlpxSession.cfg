CONSTANTS
    MaxMessages = 4
    PeerSays = {"hello", "plain", "status", "eth", "garbled"}
    StatusTimeout = 1
CHECK_DEADLOCK FALSE
SPECIFICATION FairSpec
INVARIANT HandledAfterStatus
PROPERTIES  HandshakeSettles
