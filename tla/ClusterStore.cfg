SPECIFICATION Spec
CONSTANTS
  k1 = k1
  k2 = k2
  Keys = {k1}
  Ids = {1, 2}
  KeyOf <- KeyOfOne
  Handlers = {h1, h2}
  MaxDeferred = 1
SYMMETRY HandlerSymmetry
INVARIANTS
  OneOpenPerKey
  OpenIsOwned
  SilenceHolds
PROPERTIES
  EndEventFinal
  LifecycleSpec
