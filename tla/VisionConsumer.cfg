SPECIFICATION FairSpec
CONSTANTS
  MaxId = 3
  Album <- MCAlbum
  Photos <- MCPhotos
  Service <- MCService
  Limit = 2
  MaxPending = 0
  HighPriority = FALSE
  MaxFaults = 2
  ReadCount = 2
  ClaimCount = 1
  MaxRetries = 1
INVARIANTS WatermarkPassesOnlyPersisted EntryAccounted
PROPERTIES ChannelCatchesUp EntrySettles
CHECK_DEADLOCK FALSE
