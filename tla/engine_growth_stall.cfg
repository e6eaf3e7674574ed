SPECIFICATION Spec
CONSTANTS
    Requests = {"a", "b", "c"}
    Cancelling = {}
    Prompt <- PromptGrowing
    MaxNew <- MaxNewGrowing
    Window = 4
    MaxActive = 3
    MaxCached = 5
    LifetimeCap = 10
    NumBlocks = 3
    BlockTokens = 2
    Chunk = 2
    Budget = 4
    Preemption = TRUE
    Lazy = TRUE
    NoRequest = "none"
PROPERTIES
    WorkloadsComplete
CHECK_DEADLOCK FALSE
