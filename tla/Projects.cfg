CONSTANTS
  a = a
  b = b
  ann = ann
  bob = bob
  n1 = n1
  n2 = n2
  p1 = p1
  p2 = p2
  p3 = p3
  w1 = w1
  w2 = w2
  Alone = alone
  Nobody = Nobody
  Machines <- TwoMachines
  Accounts <- TwoAccounts
  AccountOf <- Linked
  Networks <- OneNetwork
  Ids <- TwoIds
  Workers <- TwoWorkers
  On <- OneMachine
  Held0 <- AtThePeer
  Listed <- TwoAccounts
  MaxRequests = 3
SPECIFICATION Spec
INVARIANTS
  CatalogueBacked
  DownloadNeverStuck
PROPERTIES
  FilesSurvive
CHECK_DEADLOCK FALSE
