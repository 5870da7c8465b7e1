SPECIFICATION Spec
CONSTANTS
  o1 = o1
  o2 = o2
  Order <- MCOrder
  Controller = {c1}
  Reviewer = {}
  Task <- OneTask
  Conflicts = {}
  MaxAttempts = 2
  MaxAcks = 2
  MaxCrashes = 0
  MaxUnproved = 0
  MaxAged = 0
  Modes = {"enabled"}
  ReleaseFails = TRUE
INVARIANTS ReadyHoldsTask
SYMMETRY Symmetry
