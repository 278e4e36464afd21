SPECIFICATION Spec
CONSTANTS
  a = a
  g = g
  c = c
  Sats <- MCSats
  Hash <- MCHash
  Official <- MCOfficial
  Classified <- MCClassified
  RecordFiles <- MCRecordFiles
  NoEntry = noEntry
  LeoSlots = 2
  MeoSlots = 3
  GeoSlots = 4
  FetchTicks = 12
  SlowestFetch = 3
INVARIANTS
  SilenceBounded
  OncePerRound
  ManoeuvreIsTold
  BatchComplete
