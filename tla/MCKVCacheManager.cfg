CONSTANTS
    r1 = r1
    r2 = r2
    r3 = r3
    Requests = {r1, r2}
    NoHash = NoHash
    Blocks = {b0, b1, b2, b3}
    NullBlock = b0
    BlockHashes <- MCBlockHashes
    BlockSize = 2
    Windows = {0, 3}
    MaxModelLen = 6
    MaxBatchedTokens = 4
    EnableCaching = TRUE
    PromptLen <- MCPromptLen
    MaxTokens <- MCMaxTokens
    MaxChunk = 4
    Lookahead = 1
    AsyncLoads = TRUE
    LoadFailures = {0}
    MustFit = TRUE
SPECIFICATION Spec
SYMMETRY BlockSymmetry
INVARIANTS
    NoError
    MapMatchesHashes
    EventsMirrorCache
    TablesMatchPrefix
    WindowIsBacked
PROPERTIES
    ImplementsOwnership
