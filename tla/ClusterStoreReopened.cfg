SPECIFICATION Spec
CONSTANTS
  k1 = k1
  k2 = k2
  Keys = {k1}
  Ids = {1, 2}
  KeyOf <- KeyOfOne
  Handlers = {h1}
  MaxDeferred = 1
PROPERTIES
  NotReopenedOnStream
