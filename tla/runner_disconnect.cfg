SPECIFICATION MCSpec
CONSTANTS
    Requests = {"s", "p"}
    Streaming = {"s"}
    Leaving = {"p"}
    MaxNew <- MCMaxNew
    QueueSize = 2
    Buffer = 1
    EngineRaises = FALSE
    NoRequest = "none"
INVARIANTS
    DisconnectIsLocal
CHECK_DEADLOCK FALSE
