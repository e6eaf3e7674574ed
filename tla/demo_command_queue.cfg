SPECIFICATION Spec
CONSTANTS
  a = a
  b = b
  c = c
  Requests = {a, b, c}
  Workloads <- TwoStories
  MaxConcurrent = 2
  MaxQueueSize = 0
  RequestsPerHour = 2
  TokensPerDay = 8
  BranchCount = 3
  CommandQueueSize = 4
  StreamBufferSize = 1
INVARIANTS
    SubmissionsFit
CHECK_DEADLOCK FALSE
