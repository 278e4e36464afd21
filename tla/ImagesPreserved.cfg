SPECIFICATION Spec
CONSTANTS
  a1 = a1
  a2 = a2
  a3 = a3
  i1 = i1
  i2 = i2
  malformed = malformed
  noIcao = noIcao
  comment = comment
  apollo = apollo
  south = south
  one = one
  roman = roman
  batchSize = 2
  MaxRefreshes = 2
  Listings <- MCListings
  Icao24 <- MCIcao24
  NoIcao24 = noIcao
  Malformed = malformed
  Images = {i1, i2}
  NoImage = noImage
  minAircraftCSVSize = 50
  MaxImageWrites = 2
  Catalogs <- MCCatalogs
  Norads <- MCNorads
  Comment = comment
  HalfLines <- MCHalfLines
  Cables <- MCCables
  CableNames <- MCNames
  landings <- MClandings
  Arabic <- MCArabic
  LongEnough <- MCLongEnough
  Polygons <- MCPolygons
  CoastlineLoads = TRUE
  Distance <- MCDistance
  LandingMatchKm = 100
  LandingBufferKm = 100
  LandingApproachKm = 50
  OverpassBodies <- MCBodies
PROPERTY ImagesPreserved
CHECK_DEADLOCK FALSE
