SPECIFICATION Spec
CONSTANTS
  o1 = o1
  o2 = o2
  Order = {o1}
  Controller = {c1}
  Reviewer = {r1}
  Task <- OneTask
  Conflicts = {}
  MaxAttempts = 2
  MaxAcks = 2
  MaxCrashes = 1
  MaxUnproved = 0
  MaxAged = 1
  Modes = {"enabled", "disabled"}
  ReleaseFails = FALSE
PROPERTIES ImplementsLedger
VIEW ByOrder
