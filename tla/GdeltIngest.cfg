SPECIFICATION Spec
CONSTANTS
  MaxSlice = 2
  Ticks = {t1}
  Workers = {w1}
  MaxCatchup = 1
  Grace = 1
  ReplayLimit = 1
  JobRange = {2}
  MaxKills = 1
INVARIANTS
  StrandedOnlyByKill
  JobAccounted
PROPERTIES
  PendingLeavesOnlyWritten
