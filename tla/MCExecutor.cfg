SPECIFICATION FairSpec
CONSTANTS
    Ranks = {0, 1}
    Chunks = 2
    RespChunks = 2
    MaxCalls = 6
    Configs <- ExecutorConfigs
CHECK_DEADLOCK FALSE
INVARIANTS
    OwnAnswersUntilFailure
PROPERTIES
    CallsReturn
    DeathEndsEngine
