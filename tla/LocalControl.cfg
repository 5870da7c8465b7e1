SPECIFICATION FairSpec
CONSTANTS
  o1 = o1
  o2 = o2
  w1 = w1
  Operator <- MCOperator
  Worker <- MCWorker
  TTL = 1
  Skew = 0
  MaxGeneration = 2
  MaxClock = 2
  Boundaries = 2
  ClockStepsBack = TRUE
INVARIANTS TypeOK GuardUnderCurrentState
PROPERTIES EndedForever RefusedForCause NoLostUpdate DamagedForever ImplementsGate MutationsReturn
CHECK_DEADLOCK FALSE
