SPECIFICATION FairSpec
CONSTANTS
  e1 = e1
  e2 = e2
  d1 = d1
  d2 = d2
  Order <- MCOrder
  PathOf <- OneFile
  Follow = {e1, e2}
  Tree <- MCTree
  Delegator = {d1, d2}
  Child <- ChildOf
  None = None
  EditsWhileListing = FALSE
  MaxHead = 2
  MaxAcks <- EarlyAck
  MaxRows = 2
  MaxDeaths = 1
INVARIANTS TypeOK JournaledFirst FollowersOnly
PROPERTIES NeverOverwritten Recovered
