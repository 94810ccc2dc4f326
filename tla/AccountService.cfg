CONSTANTS
  a = a
  b = b
  n = n
  c = c
  NoAccount = NoAccount
  Accounts <- TwoAccounts
  Networks <- OneNetwork
  Controllers <- OneController
  Unclaimed <- OneNetwork
  OfferedRoles <- AnyRole
  RegistrationOpen = TRUE
  MaxKey = 2
  MaxOffers = 2
  MaxLogins = 1
  MaxCredentials = 1
SPECIFICATION ServiceSpec
CONSTRAINT TwoChanges
SYMMETRY Symmetry
INVARIANTS
  AnswersMatchOffers
  SoleOwner
  TombstoneFinal
PROPERTIES
  OwnerFollowsNetwork
  LifecycleSpec
  OneAdministrator
CHECK_DEADLOCK FALSE
