SPECIFICATION FairSpec
CONSTANTS
  t = t
  a = a
  b = b
  p1 = p1
  p2 = p2
  p3 = p3
  f1 = f1
  f2 = f2
  ASNs <- MCASNs
  NoAS = noAS
  Seed <- MCSeed
  Located <- MCLocated
  Fetchers <- MCFetchers
  Prefixes <- MCPrefixes
  InCity <- MCInCity
  tier1ASNs <- MCtier1
  Updates <- MCUpdates
  NoUpdate = noUpdate
  maxEntries = 2
INVARIANTS
  TableBounded
  TableIsHistory
  VerdictsHaveCause
  ChangeIsReported
  PlacedNearOrigin
  OneFetchPerASN
PROPERTY ParsingEnds
