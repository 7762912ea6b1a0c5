SPECIFICATION Spec
CONSTANTS
  Scopes <- MCScopes
  World = "world"
  Spelling = "?world"
  Bad = "bad"
  MaxIds = 20
  Parent <- MCParent
  MaxRev = 1
  MaxMoves = 2
  MaxFaults = 0
INVARIANTS LastIntentWins
CHECK_DEADLOCK FALSE
