SPECIFICATION Spec
CONSTANTS
  o1 = o1
  o2 = o2
  Order <- MCOrder
  Controller = {c1}
  Reviewer = {}
  Task <- OneTask
  Conflicts = {}
  MaxAttempts = 2
  MaxAcks = 2
  MaxCrashes = 1
  MaxUnproved = 0
  MaxAged = 0
  Modes = {"enabled"}
  ReleaseFails = FALSE
INVARIANTS TypeOK OneStartPerAck ReadyHoldsTask
SYMMETRY Symmetry
