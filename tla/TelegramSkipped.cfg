SPECIFICATION Spec
CONSTANTS
  MaxId = 3
  Album <- MCSingles
  Photos <- MCNone
  Service <- MCNone
  Limit = 1
  MaxPending = 0
  HighPriority = FALSE
  MaxFaults = 0
  ReadCount = 2
  ClaimCount = 1
  MaxRetries = 1
INVARIANT NothingSkipped
CHECK_DEADLOCK FALSE
