SPECIFICATION FairSpec
CONSTANTS
  a = a
  b = b
  c = c
  Requests = {a, b, c}
  Workloads <- AllKinds
  MaxConcurrent = 1
  MaxQueueSize = 1
  RequestsPerHour = 2
  TokensPerDay = 6
  BranchCount = 2
  CommandQueueSize = 4
  StreamBufferSize = 1
INVARIANTS
    LeasesFollowHandlers
    CountedOnce
    PaysForItsWork
PROPERTIES
    UsesLimits
    EveryRequestEnds
CHECK_DEADLOCK FALSE
