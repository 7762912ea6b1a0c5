SPECIFICATION Spec
CONSTANTS
  Incidents = {1, 2}
  MaxMs = 2
  Window = 1
  SeqWrap = 8
  RingSize = 3
  QueueSize = 2
  DedupeCap = 3
  UpdatesUntil = 1
  MaxFaults = 2
INVARIANTS EndedIsTakenDown IdsAscend
CHECK_DEADLOCK FALSE
