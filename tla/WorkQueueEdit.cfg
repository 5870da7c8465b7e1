SPECIFICATION Spec
CONSTANTS
  e1 = e1
  e2 = e2
  d1 = d1
  d2 = d2
  Order <- MCOrder
  PathOf <- OneFile
  Follow = {e1}
  Tree <- MCTree
  Delegator = {d1, d2}
  Child <- ChildOf
  None = None
  EditsWhileListing = TRUE
  MaxHead = 2
  MaxAcks <- EarlyAck
  MaxRows = 2
  MaxDeaths = 1
INVARIANTS FollowersOnly
