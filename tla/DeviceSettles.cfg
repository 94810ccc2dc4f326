CONSTANTS
  ann = ann
  bob = bob
  laptop = laptop
  tower = tower
  beat = beat
  watch = watch
  n1 = n1
  n2 = n2
  NoAccount = NoAccount
  NoNetwork = NoNetwork
  Accounts <- OneAccount
  Networks <- TwoNetworks
  Devices <- OneDevice
  Threads <- TwoThreads
  Heartbeat = beat
  AccountOf <- AllAnns
  Unclaimed <- NoneUnclaimed
  OfferedRoles <- MCOfferedRoles
  MaxKey = 1
  MaxMoves = 2
SPECIFICATION FairDeviceSpec
INVARIANTS
  SignOutOnce
  DirectoryOfLiveNetworks
PROPERTIES
  WishesSpent
  DirectoryCatchesUp
  NetworksArrive
  DeletionsArrive
CHECK_DEADLOCK FALSE
