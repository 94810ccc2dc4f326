CONSTANTS
  laptop = laptop
  tower = tower
  job = job
  Devices <- TwoDevices
  Ids <- OneId
  MaxStart = 2
  MaxEnds = 1
  MaxHeads = 1
SPECIFICATION HistorySpec
INVARIANTS
  NoGhosts
  NoRevival
CHECK_DEADLOCK FALSE
