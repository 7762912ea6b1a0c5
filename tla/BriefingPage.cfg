SPECIFICATION FairSpec
CONSTANTS
  Asks = {q1, q2}
  Clients = {c1, c2}
  NewButton = new
  DeleteButton = delete
  Calls <- MCCalls
  NoCall = none
  Attempts = 2
  Budgets <- MCBudgets
INVARIANTS
  AnswerStaysInDossier
  FailsForCause
PROPERTIES
  PublishedStays
  LoadsNeverGoBack
  AskSettles
CHECK_DEADLOCK FALSE
