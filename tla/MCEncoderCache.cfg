CONSTANTS
    r1 = r1
    r2 = r2
    r3 = r3
    Requests = {r1, r2, r3}
    Features <- MCFeatures
    CacheSize = 2
    PromptLen <- MCPromptLen
    Priority <- MCPriority
    Hits = {0, 1}
    Configs <- EncoderConfigs
SPECIFICATION FairSpec
CHECK_DEADLOCK FALSE
INVARIANTS
    SlotsMatchEntries
    ReferencesReturned
    WorkerHit
    CachesAgree
PROPERTIES
    AllServed
