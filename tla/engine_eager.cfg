SPECIFICATION Spec
CONSTANTS
    Requests = {"big", "b", "c", "empty"}
    Cancelling = {"big", "b", "c", "empty"}
    Prompt <- PromptMixed
    MaxNew <- MaxNewMixed
    Window = 6
    MaxActive = 2
    MaxCached = 5
    LifetimeCap = 5
    NumBlocks = 3
    BlockTokens = 2
    Chunk = 0
    Budget = 0
    Preemption = FALSE
    Lazy = FALSE
    NoRequest = "none"
INVARIANTS
    BookkeepingConsistent
PROPERTIES
    CancelIsFinal
    WorkloadsComplete
CHECK_DEADLOCK FALSE
