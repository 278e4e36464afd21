SPECIFICATION Spec
CONSTANTS
  e1 = e1
  e2 = e2
  bad = bad
  s1 = s1
  c0 = c0
  plane = plane
  Events <- MCEvents
  Invalid <- MCInvalid
  NoMsg = noMsg
  MaxBatchSize = 2
  Slots <- MCSlots
  Flusher = flusher
  maxRetryAttempts = 1
  Conns = {c0}
  FirstConn = c0
  NoConn = noConn
  Asset <- MCAsset
  Timestamp <- MCTimestamp
  broadcastBufferSize = 1
  broadcastBatchSize = 2
INVARIANTS
  ExitIsClean
  PathsAgree
  ShutdownNeverStuck
SYMMETRY Symmetry
CHECK_DEADLOCK FALSE
