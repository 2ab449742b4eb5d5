SPECIFICATION FairSpec
CONSTANTS
    kMaxFrameSize = 64
    Payloads = {13, 61, 70}
    Versions = {4, 5}
    MaxMessages = 3
    MaxFaults = 1
INVARIANT OnlyFaultsBreak
PROPERTIES ChannelSpec Delivered
CHECK_DEADLOCK FALSE
