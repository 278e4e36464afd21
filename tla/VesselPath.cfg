SPECIFICATION SpecVessel
CONSTANTS
  s1 = s1
  s2 = s2
  s3 = s3
  nw = nw
  ne = ne
  north = north
  Nowhere = nowhere
  noTime = noTime
  NoTime = noTime
  Messages <- MCMessages
  Events <- MCEvents
  Asset <- MCAsset
  Timestamp <- MCTimestamp
  Streams <- MCStreams
  Wire <- MCWire
  Escaped <- MCEscaped
  EmptyPayload = 1
  EnvelopeBytes = 2
  maxEventsPerStreamBatch = 2
  maxStreamBatchBytes = 6
  maxPublicationBundleBytes = 22
  broadcastBufferSize = 2
  broadcastBatchSize = 3
INVARIANTS
  HandledOnce
  NewestSurvives
  OncePerStream
  WithinLimits
PROPERTY EventuallyHandled
CHECK_DEADLOCK FALSE
