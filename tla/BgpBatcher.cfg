SPECIFICATION FairSpecBGP
CONSTANTS
  e1 = e1
  e2 = e2
  s1 = s1
  c0 = c0
  Events <- MCEvents
  NoMsg = noMsg
  broadcastBufferSize = 1
  bgpBroadcastBatchSize = 2
  MaxBatchSize = 2
  Slots <- MCSlots
  Flusher = flusher
  maxRetryAttempts = 1
  Conns <- MCConns
  FirstConn = c0
  NoConn = noConn
INVARIANT OnceInOrder
PROPERTIES
  EventuallySettled
  DrainEnds
CHECK_DEADLOCK FALSE
