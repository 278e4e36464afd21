SPECIFICATION Spec
CONSTANTS
  e1 = e1
  e2 = e2
  e3 = e3
  s1 = s1
  s2 = s2
  c0 = c0
  c1 = c1
  c2 = c2
  Events <- MCEvents
  MaxBatchSize = 2
  Slots <- MCSlots
  Flusher = flusher
  maxRetryAttempts = 2
  Conns <- MCConns
  FirstConn = c0
  NoConn = noConn
SYMMETRY Symmetry
INVARIANTS
  SingleCustody
  DuplicatesWereUnconfirmed
  BufferedHasTimer
  CloseSparesFlush
  NoClientLeak
  DrainSettles
PROPERTY ImplementsLedger
CHECK_DEADLOCK FALSE
