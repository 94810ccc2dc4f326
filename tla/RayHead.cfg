CONSTANTS
  desk = desk
  rack = rack
  NoOne = NoOne
  Machines <- MCMachines
  Rank <- MCRank
  Legacy <- OneLegacy
  MaxIdle = 2
  MaxMoves = 2
SPECIFICATION FairRaySpec
INVARIANTS
  RecordHonest
PROPERTIES
  HeadsAgree
  ClusterForms
  HeadWithdrawn
CHECK_DEADLOCK FALSE
