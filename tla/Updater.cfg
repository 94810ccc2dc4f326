CONSTANTS
  loop = loop
  r1 = r1
  r2 = r2
  Loop = loop
  Requests <- OneRequest
  Version <- ThreeBuilds
  MaxVersion = 2
  MaxFaults = 2
SPECIFICATION FairSpec
INVARIANTS
  Recoverable
PROPERTIES
  NeverDowngraded
  UpdatesArrive
CHECK_DEADLOCK FALSE
