SPECIFICATION FairSpec
CONSTANTS
    NLocal = 2
    Remotes = {n1}
    Chunks = 2
    Oversized = {2}
    MaxMsgs = 3
    MaxFaults = 1
CHECK_DEADLOCK FALSE
INVARIANTS
    ExclusiveAccess
PROPERTIES
    ImplementsBroadcast
    Delivered
    ShutdownEnds
