SPECIFICATION FairSpec
CONSTANTS
  o1 = o1
  o2 = o2
  Order = {o1}
  Controller = {c1}
  Reviewer = {r1}
  Task <- OneTask
  Conflicts = {}
  MaxAttempts = 1
  MaxAcks = 1
  MaxCrashes = 1
  MaxUnproved = 1
  MaxAged = 1
  Modes = {"enabled", "expired", "draining", "disabled"}
  ReleaseFails = TRUE
INVARIANTS NoLeak DisabledNeverReady OneOutcome
PROPERTIES AttemptsSettle
