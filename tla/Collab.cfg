CONSTANTS
  A = A
  B = B
  Clones <- TwoClones
  Clients <- TwoClients
  Home <- BothAtOne
  Workplaces <- OneClone
  HistoryLimit = 1
  TrimEvery = 1
  Deletions = 0
  MaxOps = 1
  MaxTroubles = 1
SPECIFICATION Spec
INVARIANTS
  OwnEditsOnce
  HistoryUnbroken
  InsertionsConverge
CHECK_DEADLOCK FALSE
