CONSTANTS
  f = f
  g = g
  w1 = w1
  w2 = w2
  Paths <- TwoPaths
  Workers <- TwoWorkers
  MaxEdits = 2
  MaxRequests = 3
SPECIFICATION Spec
SYMMETRY Alike
INVARIANTS
  BranchHasFolder
PROPERTIES
  OnlyWritesReplace
CHECK_DEADLOCK FALSE
