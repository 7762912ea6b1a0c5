SPECIFICATION FairSpec
CONSTANTS
  MaxSlice = 3
  Ticks = {t1}
  Workers = {}
  MaxCatchup = 2
  Grace = 2
  ReplayLimit = 1
  JobRange = {}
  MaxKills = 1
INVARIANTS
  CheckpointPassesByPolicy
PROPERTIES
  PendingReplayed
