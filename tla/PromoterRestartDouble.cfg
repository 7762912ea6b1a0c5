SPECIFICATION RestartSpec
CONSTANTS
  k1 = k1
  Keys = {k1}
  Ids = {1, 2, 3}
  KeyOf <- KeyOfOne
  Handlers = {h1}
  MaxDeferred = 0
  MaxRestarts = 1
INVARIANTS
  OneOpenPerKey
