SPECIFICATION MCSpec
CONSTANTS
    Requests = {"s", "p"}
    Streaming = {"s"}
    Leaving = {}
    MaxNew <- MCMaxNew
    QueueSize = 2
    Buffer = 1
    EngineRaises = FALSE
    NoRequest = "none"
INVARIANTS
    ShutdownAnswersAll
CHECK_DEADLOCK FALSE
