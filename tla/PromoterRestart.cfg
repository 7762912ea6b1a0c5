SPECIFICATION RestartFairSpec
CONSTANTS
  k1 = k1
  Keys = {k1}
  Ids = {1, 2}
  KeyOf <- KeyOfOne
  Handlers = {h1}
  MaxDeferred = 1
  MaxRestarts = 2
INVARIANTS OrphanNeedsPromoted
PROPERTIES ReservationReleased QuietClusterLeaves
