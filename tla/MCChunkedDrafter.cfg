CONSTANTS
    r1 = r1
    r2 = r2
    r3 = r3
    Requests = {r1, r2}
    Features <- MCFeatures
    CacheSize = 2
    PromptLen <- MCPromptLen
    Priority <- MCPriority
    Hits = {0, 1}
    Configs <- ChunkedDrafter
SPECIFICATION Spec
CHECK_DEADLOCK FALSE
INVARIANTS
    WorkerHit
