SPECIFICATION Spec
CONSTANTS
  MaxId = 3
  Album <- MCSingles
  Photos <- MCAll
  Service <- MCNone
  Limit = 2
  MaxPending = 0
  HighPriority = FALSE
  MaxFaults = 0
  ReadCount = 2
  ClaimCount = 1
  MaxRetries = 1
INVARIANT BacklogBounded
CHECK_DEADLOCK FALSE
