CONSTANTS
  laptop = laptop
  tower = tower
  rack = rack
  l1 = l1
  l2 = l2
  Clock = Clock
  Service = Service
  Peers <- ThreeMachines
  Subject = laptop
  Host = tower
  Lanes <- OneLane
  MaxRequests = 2
  MaxUses = 1
  MaxSetting = 2
SPECIFICATION FairSpec
INVARIANT CodeSpentOnce
 
CHECK_DEADLOCK FALSE
