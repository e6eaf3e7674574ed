SPECIFICATION Spec
CONSTANTS
  a = a
  b = b
  c = c
  Requests = {a, b, c}
  Workloads <- OneCompletion
  MaxConcurrent = 1
  MaxQueueSize = 0
  RequestsPerHour = 2
  TokensPerDay = 8
  BranchCount = 1
  CommandQueueSize = 3
  StreamBufferSize = 1
PROPERTIES
    SettledForActualTokens
CHECK_DEADLOCK FALSE
