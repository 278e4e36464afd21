SPECIFICATION SpecWorkers
CONSTANTS
  w1 = w1
  w2 = w2
  Workers <- MCWorkers
  maxFailures = 8
  maxSignals = 2
INVARIANT SecondSignalEnds
CHECK_DEADLOCK FALSE
