SPECIFICATION Spec
CONSTANTS
  o1 = o1
  o2 = o2
  Order <- MCOrder
  Controller = {c1}
  Reviewer = {r1, r2}
  Task <- OneTask
  Conflicts = {}
  MaxAttempts = 1
  MaxAcks = 1
  MaxCrashes = 0
  MaxUnproved = 0
  MaxAged = 0
  Modes = {"enabled"}
  ReleaseFails = FALSE
INVARIANTS OneOutcome
SYMMETRY Symmetry
