SPECIFICATION FairSpec
CONSTANTS
  Scopes <- MCScopes
  World = "world"
  Spelling = "?world"
  Bad = "bad"
  MaxIds = 20
  Parent <- MCParent
  MaxRev = 2
  MaxMoves = 3
  MaxFaults = 1
INVARIANTS UrlNamesScope LastPromptIntentWins
PROPERTIES ComesToRest
CHECK_DEADLOCK FALSE
