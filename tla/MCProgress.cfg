CONSTANTS
    r1 = r1
    r2 = r2
    r3 = r3
    None = None
    NoHash = NoHash
    NullBlock = b0
    Requests = {r1, r2, r3}
    Blocks = {b0, b1, b2, b3}
    BlockHashes <- MCBlockHashes
    BlockSize = 2
    MaxModelLen = 6
    MaxBatchedTokens = 4
    EnableCaching = TRUE
    PromptLen <- MCLongPrompts
    MaxTokens <- MCLongMaxTokens
    Priority <- MCPriority
    Configs <- ProgressConfigs
SPECIFICATION FairSpec
INVARIANTS
    NoError
PROPERTIES
    RequestsEnd
