SPECIFICATION FairSpec
CONSTANTS
  h1 = h1
  h2 = h2
  Holder <- MCHolder
  Target <- MCTarget
  Batches <- TwoBatches
  TTL = 2
  MaxClock = 2
  ClockStepsBack = FALSE
INVARIANTS TypeOK LockProtects RowsExclusive UnexpiredKept
PROPERTIES RenewCoversBatch ImplementsLease CallsReturn
