CONSTANTS
  ann = ann
  bob = bob
  laptop = laptop
  tower = tower
  beat = beat
  watch = watch
  n1 = n1
  n2 = n2
  NoAccount = NoAccount
  NoNetwork = NoNetwork
  Accounts <- TwoAccounts
  Networks <- OneNetwork
  Devices <- TwoDevices
  Threads <- OneThread
  Heartbeat = beat
  AccountOf <- OneEach
  Unclaimed <- NoneUnclaimed
  OfferedRoles <- MCOfferedRoles
  MaxKey = 2
  MaxMoves = 3
SPECIFICATION DeviceSpec
INVARIANTS
  KeysOfMembers
CHECK_DEADLOCK FALSE
