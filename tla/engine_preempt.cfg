SPECIFICATION ServingSpec
CONSTANTS
    Requests = {1, 2, 3}
    Prompt <- RowPrompt
    MaxNew <- RowMaxNew
    Vocabulary = {0, 1}
    Window = 4
    BlockTokens = 2
    MaxBatchSize = 3
    MaxBatchTokens = 8
    PaddingPercent = 25
    Clients = {"a", "b", "c", "d"}
    Cancelling = {"b"}
    MaxActive = 3
    MaxCached = 7
    LifetimeCap = 7
    NumBlocks = 4
    Chunk = 2
    Budget = 4
    Preemption = TRUE
    Lazy = FALSE
    NoRequest = "none"
INVARIANTS
    BookkeepingConsistent
    BatchingInvisible
PROPERTIES
    WorkloadsComplete
CHECK_DEADLOCK FALSE
