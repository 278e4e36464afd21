SPECIFICATION FairSpec
CONSTANTS
  w1 = w1
  w2 = w2
  Workers <- MCWorkers
  maxFailures = 8
  maxSignals = 2
INVARIANTS
  PauseFitsFailures
  FeedsAreIndependent
PROPERTIES
  CancelEnds
  KeepsTrying
CHECK_DEADLOCK FALSE
