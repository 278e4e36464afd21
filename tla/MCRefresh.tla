------------------------------ MODULE MCRefresh ------------------------------
(* Values for model checking Refresh: two versions of each source, tiny      *)
(* batches, and a stretch of coast with the points 0, 1, 2, ... 100 km apart.*)
EXTENDS Refresh

CONSTANTS a1, a2, a3, i1, i2, malformed, noIcao, comment, apollo, south, one, roman

Record(icao24, data) == [icao24 |-> icao24, data |-> data]
File(modified, size, csvName, records) ==
  [modified |-> modified, size |-> size, csv |-> csvName, lines |-> records]

MCIcao24 == {a1, a2, a3}
MCFirst  == File(1, 50, TRUE, <<Record(a1, 1), Record(a2, 1), Record(a3, 1)>>)
MCSecond == File(2, 50, TRUE, <<Record(a1, 2), malformed, Record(noIcao, 2), Record(a1, 3)>>)
MCListings == {<<MCFirst>>, <<MCSecond, MCFirst, File(3, 1, TRUE, <<>>), File(3, 50, FALSE, <<>>)>>,
               <<>>}

Object(norad, data) == [norad |-> norad, jcat |-> norad # 7, data |-> data]
MCNorads == {0, 1, 2}
\* A record cut off: the number may have lost its end, the data is incomplete.
MCHalfLines == {[norad |-> n, jcat |-> TRUE, data |-> 9] : n \in MCNorads}
MCCatalogs == {<<comment, Object(1, 1), Object(0, 1), Object(2, 1)>>,
               <<Object(1, 2), [norad |-> 0, jcat |-> FALSE, data |-> 2], Object(1, 3)>>}

MCCables   == {"ac1", "far", "inland"}
MCNames    == [c \in MCCables |-> IF c = "ac1" THEN {<<apollo>>, <<apollo, roman>>} ELSE {<<south>>}]
MCLongEnough == {<<apollo>>, <<apollo, roman>>, <<apollo, one>>}
MClandings == {[cable |-> "ac1", at |-> 1], [cable |-> "ac1", at |-> 5],
               [cable |-> "far", at |-> 5], [cable |-> "inland", at |-> 8]}
MCArabic   == [w \in {apollo, south, one, roman} |-> IF w = roman THEN one ELSE w]
MCPoints   == 0..8
MCPolygons == {[ring |-> {6}, inside |-> {7, 8}, holes |-> {{8}}],
               [ring |-> {0, 1, 2}, inside |-> {1}, holes |-> {}]}
MCDistance == [p \in MCPoints |-> [q \in MCPoints |-> 100 * (IF p > q THEN p - q ELSE q - p)]]

Way(id, name, nodes) == [id |-> id, telecom |-> id # 9, name |-> name, nodes |-> nodes]
MCBodies == {
  [nodes |-> MCPoints, ways |-> {Way(1, <<apollo, one>>, <<2, 3, 4>>), Way(2, <<apollo, south>>, <<3, 5>>),
                                 Way(3, <<south>>, <<4, 3, 2>>), Way(7, <<apollo>>, <<2, 4>>),
                                 Way(8, <<apollo, one>>, <<4, 2, 3>>), Way(9, <<apollo>>, <<1, 5>>)}],
  [nodes |-> MCPoints \ {4}, ways |-> {Way(1, <<apollo, one>>, <<4, 3, 2>>), Way(4, <<apollo>>, <<5, 2>>),
                                       Way(5, <<apollo>>, <<3, 4>>), Way(7, <<apollo>>, <<5, 6, 3>>), Way(6, <<south>>, <<5, 8, 7, 3>>)}]}
=============================================================================
