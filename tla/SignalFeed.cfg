SPECIFICATION FairFeedSpec
CONSTANTS
  MaxRecords = 4
  BatchSize = 2
  RingSize = 3
  QueueSize = 1
  FeedCap = 2
  DedupeCap = 3
  MaxFeedFaults = 2
INVARIANTS RingHasNoHole QuietFeedComplete
PROPERTIES ResetKeepsLive FeedSettles
CHECK_DEADLOCK FALSE
