CONSTANTS
  a = a
  b = b
  Jobs <- OneJob
  MaxLines = 3
  MaxNewlines = 1
  TailLimit = 2
  MaxDowns = 1
SPECIFICATION FairSpec
INVARIANTS
  KilledMeansStopped
  MirrorHonest
  LogWhole
PROPERTIES
  AlwaysRecorded
  MirrorArrives
CHECK_DEADLOCK FALSE
