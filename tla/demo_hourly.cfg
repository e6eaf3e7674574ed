SPECIFICATION Spec
CONSTANTS
  a = a
  b = b
  c = c
  Requests = {a, b, c}
  Workloads <- OneStory
  MaxConcurrent = 1
  MaxQueueSize = 0
  RequestsPerHour = 2
  TokensPerDay = 8
  BranchCount = 3
  CommandQueueSize = 3
  StreamBufferSize = 1
INVARIANTS
    HourlyCountsAccepted
CHECK_DEADLOCK FALSE
