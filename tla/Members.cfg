CONSTANTS
  ann = ann
  bob = bob
  w1 = w1
  w2 = w2
  Boss = ann
  People <- OneMember
  Workers <- TwoWorkers
  Grants <- SomeGrants
  MaxRequests = 3
SPECIFICATION MembersSpec
INVARIANT ChoiceStands
PROPERTY NoThrash
CHECK_DEADLOCK FALSE
