SPECIFICATION MCSpec
CONSTANTS
    Requests = {"s", "p"}
    Streaming = {"s"}
    Leaving = {"s", "p"}
    MaxNew <- MCMaxNew
    QueueSize = 2
    Buffer = 1
    EngineRaises = TRUE
    NoRequest = "none"
INVARIANTS
    StreamsFaithful
    RunnerConsistent
PROPERTIES
    AcceptedAnswered
    ShutdownReturns
CHECK_DEADLOCK FALSE
