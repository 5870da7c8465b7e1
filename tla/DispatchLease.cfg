SPECIFICATION Spec
CONSTANTS
  o1 = o1
  o2 = o2
  Order <- MCOrder
  Controller = {c1, c2}
  Reviewer = {}
  Task <- TwoTasks
  Conflicts <- Overlapping
  MaxAttempts = 1
  MaxAcks = 2
  MaxCrashes = 1
  MaxUnproved = 0
  MaxAged = 1
  Modes = {"enabled"}
  ReleaseFails = FALSE
INVARIANTS CancelsOnlyOrphans ConflictsApart
SYMMETRY Symmetry
VIEW ByOrder
