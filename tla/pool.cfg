SPECIFICATION VariantsSpec
CONSTANTS
    Requests = {"a", "b", "c"}
    NumBlocks = 4
    BlockTokens = 2
    Window = 4
    Hashes <- MCHashes
    PromptLen <- MCPromptLen
    Lifetime <- MCLifetime
    Chain <- MCChain
    PrefixEnabled = TRUE
    Lazy = FALSE
    RebuildLengths = {4}
    NoRequest = "none"
    NoHash = "junk"
VIEW View
INVARIANTS
    TypeOK
    PoolConsistent
    ReservationsCovered
    SharedContentCanonical
PROPERTIES
    ShutdownFreesPool
    ImplementsPrivateCaches
