CONSTANTS
    r1 = r1
    r2 = r2
    r3 = r3
    None = None
    NoHash = NoHash
    NullBlock = b0
    Requests = {r1, r2, r3}
    Blocks = {b0, b1, b2, b3}
    BlockHashes <- MCBlockHashes
    BlockSize = 2
    MaxModelLen = 6
    MaxBatchedTokens = 4
    EnableCaching = TRUE
    PromptLen <- MCPromptLen
    MaxTokens <- MCMaxTokens
    Priority <- MCPriority
    Configs <- SchedulerConfigs
SPECIFICATION Spec
SYMMETRY BlockSymmetry
INVARIANTS
    NoError
    QueuesMatchStatus
    CachedDataValid
    OutputsFromOwnPrefix
    NoBlockLeak
    PlaceholdersCountFrames
    DecodeCadence
