------------------------------ MODULE CableMerge ------------------------------
(***************************************************************************)
(* How refresh --target cables chooses the geometry of a cable             *)
(* (internal/refresh/cables): the curated baseline, the ways of an         *)
(* Overpass answer, and the merge of the two.                              *)
(*                                                                         *)
(* Points of the globe and their distances are data.  A name is the        *)
(* sequence of words its nameKey has.  The coastline is a set of polygons, *)
(* each the points on its outer ring, inside it, and inside its holes; if  *)
(* the file that is built in does not parse, no point is refused.          *)
(***************************************************************************)
EXTENDS Naturals, Sequences, SequencesExt, FiniteSets

CONSTANTS
  Cables,       \* cable_id of the lines of cables.jsonl
  CableNames,   \* CableNames[c]: name, slug and alternative names of c
  landings,     \* the lines of landings.jsonl: [cable, at]
  Arabic,       \* Arabic[word]: the digit of a Roman numeral, or the word
  LongEnough,   \* the names of at least minPrefixMatchLen bytes
  Polygons,     \* [ring, inside, holes]
  CoastlineLoads,  \* the embedded coastline parses
  Distance,     \* Distance[p][q] in km
  LandingMatchKm, LandingBufferKm, LandingApproachKm

ASSUME LandingsAssumption == IsFiniteSet(landings)

\* coastline.go
IsLandingCoord(p) ==
  CoastlineLoads => \E poly \in Polygons : \E q \in poly.ring : Distance[p][q] <= LandingBufferKm

IsOnLand(p) ==
  /\ CoastlineLoads
  /\ \E poly \in Polygons : p \in poly.inside /\ ~ \E hole \in poly.holes : p \in hole

PolylineClearsLand(coords) ==
  Len(coords) >= 2 /\ \A p \in ToSet(coords) :
    \/ \E end \in {Head(coords), Last(coords)} : Distance[p][end] <= LandingApproachKm
    \/ ~IsOnLand(p)

\* baseline.go: a cable keeps the landings near a coast, and needs one.
BaselineLandings(c) == {l \in landings : l.cable = c /\ IsLandingCoord(l.at)}
BaselineCables == {c \in Cables : BaselineLandings(c) # {}}

\* osm.go: of a way, its nodes that are in the answer; it needs two, and the tags of
\* a submarine telecom cable.
parseOSMWay(way, nodes) ==
  LET found[i \in 0..Len(way.nodes)] ==
        IF i = 0 THEN <<>>
        ELSE IF way.nodes[i] \in nodes THEN Append(found[i - 1], way.nodes[i]) ELSE found[i - 1]
      coords == found[Len(way.nodes)]
  IN  IF way.telecom /\ Len(coords) >= 2
      THEN {[OSMID |-> way.id, Name |-> way.name, Coords |-> coords]} ELSE {}

ParseOverpassBody(body) == UNION {parseOSMWay(way, body.nodes) : way \in body.ways}

\* merge.go: the names tried for a cable, each also with its Roman numerals replaced.
nameCandidates(c) ==
  CableNames[c] \cup {[i \in DOMAIN name |-> Arabic[name[i]]] : name \in CableNames[c]}

\* The ways with the name, or with more words after a name that is long enough.
collectOSMCandidates(c, osm) ==
  {o \in osm : o.Name # <<>> /\ \E name \in nameCandidates(c) \ {<<>>} :
     o.Name = name \/ (name \in LongEnough /\ IsStrictPrefix(name, o.Name))}

isLandingNearWay(l, o) == \E p \in ToSet(o.Coords) : Distance[l.at][p] <= LandingMatchKm

countNearbyLandings(c, o) == Cardinality({l \in BaselineLandings(c) : isLandingNearWay(l, o)})

\* Mutant of Better: a longer way beats one that serves more landings.
Better_Longer(c, candidate, best) ==
  IF best = {} THEN countNearbyLandings(c, candidate) > 0
  ELSE \E b \in best : Len(candidate.Coords) > Len(b.Coords)

\* The candidate takes the place of the best so far, which is nobody at first.
Better(c, candidate, best) ==
  LET score == countNearbyLandings(c, candidate)
  IN  IF best = {} THEN score > 0
      ELSE \E b \in best : \/ score > countNearbyLandings(c, b)
                           \/ /\ score = countNearbyLandings(c, b)
                              /\ Len(candidate.Coords) > Len(b.Coords)

\* The loop over the candidates.
BestOf(c, order) ==
  LET best[i \in 0..Len(order)] ==
        IF i = 0 THEN {}
        ELSE IF Better(c, order[i], best[i - 1]) THEN {order[i]} ELSE best[i - 1]
  IN  best[Len(order)]

\* They come in an order of Go maps: each order picks its way.
Bests(c, osm) == {BestOf(c, order) : order \in SetToSeqs(collectOSMCandidates(c, osm))}

\* The rows a cable may get: one, if its best way clears the land.
Rows(c, osm) ==
  {{[CableID |-> c, Way |-> o] : o \in {b \in best : PolylineClearsLand(b.Coords)}} :
     best \in Bests(c, osm)}

\* What Merge may return: the rows, and all the landings of their cables.
Merge(osm) ==
  {[rows |-> UNION {row[c] : c \in BaselineCables},
    lands |-> UNION {BaselineLandings(c) : c \in {d \in BaselineCables : row[d] # {}}}] :
     row \in {f \in [BaselineCables -> UNION {Rows(c, osm) : c \in BaselineCables}] :
                \A c \in BaselineCables : f[c] \in Rows(c, osm)}}
=============================================================================
