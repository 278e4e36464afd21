----------------------------- MODULE RefreshProofs -----------------------------
(***************************************************************************)
(* What the tables keep from one refresh to the next, for every source,    *)
(* every batch size and any number of refreshes that fail anywhere.        *)
(*                                                                         *)
(* Landings: a landing still to insert has the row of its cable in the     *)
(* table, or still to insert before it (LandingsWait).  Images: an         *)
(* aircraft still to insert that has an image to carry over has it in its  *)
(* row (TodoCarries), which at the query takes that what is to be inserted *)
(* is what was parsed (QueriedAll), and before it that nothing is to be    *)
(* carried over while the CSV is read (ReadingBare).                       *)
(*                                                                         *)
(* Rows: a record read from a file is still to insert or shown             *)
(* (ShownOrTodo, RowsWait), so a complete refresh shows the last of each.  *)
(* Ways: after each pass of the loop over a cable's candidates the best so *)
(* far is as good as all that were passed (LoopFindsBest).                 *)
(***************************************************************************)
EXTENDS Refresh, FiniteSetTheorems, WellFoundedInduction, NaturalsInduction, TLAPS

CablesTyped ==
  /\ cable_meta = [c \in Cables |-> cable_meta[c]]
  /\ \A l \in landsLeft \cup cable_landings : l.cable \in Cables

LandingsWait ==
  \A l \in landsLeft :
    cable_meta[l.cable] # {} \/ \E row \in rowsLeft : row.CableID = l.cable

CInv == CablesTyped /\ LandingsWait /\ LandingsHaveCables

IsSequence(s) == \E S : s \in Seq(S)
IsRow(r) == r = [data |-> r.data, image |-> r.image]

AircraftTyped ==
  /\ allAircraft = [a \in Icao24 |-> allAircraft[a]]
  /\ \A a \in Icao24 : IsRow(allAircraft[a])
  /\ aircraft_meta = [a \in Icao24 |-> aircraft_meta[a]]
  /\ \A a \in Icao24 : IsSequence(aircraft_meta[a])
  /\ carried = [a \in Icao24 |-> carried[a]]

ReadingBare ==
  target = "airlines" /\ step = "reading" => \A a \in Icao24 : carried[a] = NoImage

QueriedAll == target = "airlines" /\ step = "query" => todo \subseteq Loaded

TodoCarries ==
  \A a \in todo \cap Icao24 : carried[a] # NoImage => allAircraft[a].image = carried[a]

\* The image to carry over was that of a version of the row: there is one.
CarriedIsShown ==
  \A a \in Icao24 : carried[a] # NoImage => aircraft_meta[a] # <<>>

AInv ==
  /\ AircraftTyped
  /\ ReadingBare
  /\ QueriedAll
  /\ TodoCarries
  /\ CarriedIsShown
  /\ ImagesCarried

-----------------------------------------------------------------------------
(* The cables.                                                              *)

LEMMA CableParts ==
  ASSUME NEW l, NEW c \in Cables, l \in BaselineLandings(c)
  PROVE  l.cable = c
  BY DEF BaselineLandings

\* Every landing Merge returns belongs to a cable with a row.
LEMMA MergePairs ==
  ASSUME NEW ways, NEW merged \in Merge(ways), NEW l \in merged.lands
  PROVE  l.cable \in Cables /\ \E r \in merged.rows : r.CableID = l.cable
<1>1. PICK row \in [BaselineCables -> UNION {Rows(c, ways) : c \in BaselineCables}] :
        /\ \A c \in BaselineCables : row[c] \in Rows(c, ways)
        /\ merged = [rows |-> UNION {row[c] : c \in BaselineCables},
                     lands |-> UNION {BaselineLandings(c) :
                                        c \in {d \in BaselineCables : row[d] # {}}}]
  BY Zenon DEF Merge
<1>2. /\ merged.rows = UNION {row[c] : c \in BaselineCables}
      /\ merged.lands = UNION {BaselineLandings(c) : c \in {d \in BaselineCables : row[d] # {}}}
  BY <1>1
<1>3. PICK c \in BaselineCables : row[c] # {} /\ l \in BaselineLandings(c)
  BY <1>2
<1>4. c \in Cables /\ l.cable = c
  BY <1>3, CableParts DEF BaselineCables
<1>5. PICK r \in row[c] : TRUE
  BY <1>3
<1>6. r.CableID = c
  <2>1. row[c] \in Rows(c, ways)
    BY <1>1
  <2>2. PICK best \in Bests(c, ways) :
          row[c] = {[CableID |-> c, Way |-> o] : o \in {b \in best : PolylineClearsLand(b.Coords)}}
    BY <2>1 DEF Rows
  <2> QED
    BY <2>2, <1>5
<1> QED
  BY <1>2, <1>4, <1>5, <1>6

\* The rows of a batch get into the table and no cable loses its row.
LEMMA WithRowsKeeps ==
  ASSUME NEW inserted
  PROVE  /\ WithRows(inserted) = [c \in Cables |-> WithRows(inserted)[c]]
         /\ \A c \in Cables : cable_meta[c] # {} => WithRows(inserted)[c] # {}
         /\ \A row \in inserted : row.CableID \in Cables => WithRows(inserted)[row.CableID] # {}
<1>1. ASSUME NEW c \in Cables
      PROVE  WithRows(inserted)[c] =
               IF \E row \in inserted : row.CableID = c
               THEN {row.Way : row \in {r \in inserted : r.CableID = c}} ELSE cable_meta[c]
  BY DEF WithRows
<1>2. ASSUME NEW row \in inserted, row.CableID \in Cables
      PROVE  WithRows(inserted)[row.CableID] # {}
  <2>1. WithRows(inserted)[row.CableID]
          = {other.Way : other \in {r \in inserted : r.CableID = row.CableID}}
    BY <1>1, <1>2
  <2> QED
    BY <2>1
<1>3. ASSUME NEW c \in Cables, cable_meta[c] # {}
      PROVE  WithRows(inserted)[c] # {}
  <2>1. CASE \E row \in inserted : row.CableID = c
    BY <2>1, <1>2
  <2>2. CASE ~ \E row \in inserted : row.CableID = c
    BY <2>2, <1>1, <1>3
  <2> QED
    BY <2>1, <2>2
<1>4. WithRows(inserted) = [c \in Cables |-> WithRows(inserted)[c]]
  BY DEF WithRows
<1> QED
  BY <1>2, <1>3, <1>4

LEMMA InsertCableBatchKeeps == CInv /\ InsertCableBatch => CInv'
<1> SUFFICES ASSUME CInv, InsertCableBatch PROVE CInv'
  OBVIOUS
<1>1. UNCHANGED <<landsLeft, cable_landings>>
  BY DEF InsertCableBatch
<1>2. PICK inserted \in Batches(rowsLeft) :
        \/ cable_meta' = WithRows(inserted) /\ rowsLeft' = rowsLeft \ inserted
        \/ cable_meta' \in {cable_meta, WithRows(inserted)} /\ rowsLeft' = rowsLeft
  BY DEF InsertCableBatch
<1>3. /\ cable_meta' = [c \in Cables |-> cable_meta'[c]]
      /\ \A c \in Cables : cable_meta[c] # {} => cable_meta'[c] # {}
  BY <1>2, WithRowsKeeps DEF CInv, CablesTyped
<1>4. \A row \in rowsLeft :
        row \in rowsLeft' \/ (row.CableID \in Cables => cable_meta'[row.CableID] # {})
  BY <1>2, WithRowsKeeps
<1> QED
  BY <1>1, <1>3, <1>4 DEF CInv, CablesTyped, LandingsWait, LandingsHaveCables

LEMMA InsertLandingBatchKeeps == CInv /\ InsertLandingBatch => CInv'
<1> SUFFICES ASSUME CInv, InsertLandingBatch PROVE CInv'
  OBVIOUS
<1>1. rowsLeft = {} /\ UNCHANGED <<rowsLeft, cable_meta>>
  BY DEF InsertLandingBatch
<1>2. PICK inserted \in Batches(landsLeft) :
        /\ landsLeft' \in {landsLeft, landsLeft \ inserted}
        /\ cable_landings' \in {cable_landings, cable_landings \cup inserted}
  BY DEF InsertLandingBatch
<1>3. inserted \subseteq landsLeft
  BY DEF Batches
<1> QED
  BY <1>1, <1>2, <1>3 DEF CInv, CablesTyped, LandingsWait, LandingsHaveCables

LEMMA MergeCablesKeeps == CInv /\ (\E body \in OverpassBodies : MergeCables(body)) => CInv'
<1> SUFFICES ASSUME CInv, NEW body \in OverpassBodies, MergeCables(body) PROVE CInv'
  OBVIOUS
<1>1. UNCHANGED <<cable_meta, cable_landings>>
  BY DEF MergeCables
<1>2. CASE UNCHANGED <<rowsLeft, landsLeft>>
  BY <1>1, <1>2 DEF CInv, CablesTyped, LandingsWait, LandingsHaveCables
<1>3. CASE \E merged \in Merge(osm') : rowsLeft' = merged.rows /\ landsLeft' = merged.lands
  <2>1. \A l \in landsLeft' : l.cable \in Cables /\ \E row \in rowsLeft' : row.CableID = l.cable
    BY <1>3, MergePairs
  <2> QED
    BY <1>1, <2>1 DEF CInv, CablesTyped, LandingsWait, LandingsHaveCables
<1> QED
  BY <1>2, <1>3 DEF MergeCables

LEMMA StepCInv == CInv /\ [Next]_vars => CInv'
<1>1. CInv /\ UNCHANGED cableVars => CInv'
  BY DEF CInv, CablesTyped, LandingsWait, LandingsHaveCables, cableVars
<1>2. CInv /\ NextCables => CInv'
  BY <1>1, MergeCablesKeeps, InsertCableBatchKeeps, InsertLandingBatchKeeps
    DEF NextCables, CablesDone
<1>3. [Next]_vars => NextCables \/ UNCHANGED cableVars
  BY DEF Next, vars
<1> QED
  BY <1>1, <1>2, <1>3

\* No landing is ever in cable_landings without the row of its cable in cable_meta.
THEOREM NoOrphanLandings == Spec => []LandingsHaveCables
<1>1. Init => CInv
  BY DEF Init, InitCables, CInv, CablesTyped, LandingsWait, LandingsHaveCables
<1>2. CInv => LandingsHaveCables
  BY DEF CInv
<1> QED
  BY <1>1, <1>2, StepCInv, PTL DEF Spec
-----------------------------------------------------------------------------
(* The images.                                                              *)

LEMMA AppendRow ==
  ASSUME NEW s, IsSequence(s), NEW row
  PROVE  /\ IsSequence(Append(s, row)) /\ Append(s, row) # <<>>
         /\ Last(Append(s, row)) = row
<1>1. PICK S : s \in Seq(S)
  BY DEF IsSequence
<1>2. s \in Seq(S \cup {row})
  <2>1. s \in [1..Len(s) -> S \cup {row}] /\ Len(s) \in Nat
    BY <1>1
  <2> QED
    BY <2>1
<1>3. /\ Append(s, row) \in Seq(S \cup {row}) /\ Len(Append(s, row)) = Len(s) + 1
      /\ Append(s, row)[Len(s) + 1] = row /\ Len(s) \in Nat
  BY <1>2
<1> QED
  BY <1>3 DEF IsSequence, Last

LEMMA OneRow ==
  ASSUME NEW row
  PROVE  IsSequence(<<row>>) /\ <<row>> # <<>> /\ Last(<<row>>) = row
<1>1. <<row>> \in Seq({row}) /\ Len(<<row>>) = 1
  OBVIOUS
<1> QED
  BY <1>1 DEF IsSequence, Last

LEMMA InitAInv == Init => AInv
<1> SUFFICES ASSUME Init PROVE AInv
  OBVIOUS
<1>1. IsSequence(<<>>)
  BY DEF IsSequence
<1> QED
  BY <1>1 DEF Init, InitRun, InitAircraft, NoRow, AInv, AircraftTyped, IsRow, ReadingBare, QueriedAll,
    TodoCarries, CarriedIsShown, ImagesCarried

\* What a step may do to target and step that keeps the invariant of the images, as
\* long as it leaves the variables of the aircraft alone.
LEMMA ElsewhereKeeps ==
  ASSUME AInv, UNCHANGED aircraftVars,
         target' = target,
         target = "airlines" /\ step' # step => step' \notin {"reading", "query"}
  PROVE  AInv'
<1>1. UNCHANGED <<allAircraft, todo, aircraft_meta, carried>>
  BY DEF aircraftVars
<1>2. /\ target' = "airlines" /\ step' = "reading" => target = "airlines" /\ step = "reading"
      /\ target' = "airlines" /\ step' = "query" => target = "airlines" /\ step = "query"
  OBVIOUS
<1> QED
  BY <1>1, <1>2 DEF AInv, AircraftTyped, ReadingBare, QueriedAll, Loaded, TodoCarries,
    CarriedIsShown, ImagesCarried, Shown

LEMMA StartAircraftKeeps ==
  AInv /\ (\E listing \in Listings : StartAircraft(listing)) => AInv'
<1> SUFFICES ASSUME AInv, NEW listing \in Listings, StartAircraft(listing) PROVE AInv'
  OBVIOUS
<1>1. CASE Return("error") /\ UNCHANGED aircraftVars
  BY <1>1, ElsewhereKeeps DEF Return
<1>2. CASE /\ allAircraft' = [a \in Icao24 |-> NoRow] /\ carried' = [a \in Icao24 |-> NoImage]
           /\ Goto("reading") /\ UNCHANGED <<todo, aircraft_meta>>
  BY <1>2 DEF Goto, NoRow, AInv, AircraftTyped, IsRow, ReadingBare, QueriedAll,
    TodoCarries, CarriedIsShown, ImagesCarried
<1> QED
  BY <1>1, <1>2 DEF StartAircraft

LEMMA ReadKeeps == AInv /\ (DownloadBreaks \/ ReadFails \/ ReadRecord \/ ReadEOF) => AInv'
<1> SUFFICES ASSUME AInv, DownloadBreaks \/ ReadFails \/ ReadRecord \/ ReadEOF PROVE AInv'
  OBVIOUS
<1>1. /\ target = "airlines" /\ step = "reading" /\ target' = target
      /\ \A a \in Icao24 : carried[a] = NoImage
      /\ UNCHANGED <<aircraft_meta, carried>>
  BY DEF DownloadBreaks, ReadFails, ReadRecord, ReadEOF, At, runVars, Return, Goto, AInv,
    ReadingBare, aircraftVars
<1>2. step' = "query" => ReadEOF
  BY <1>1 DEF DownloadBreaks, ReadFails, ReadRecord, runVars, Return
<1>3. QueriedAll'
  BY <1>1, <1>2 DEF QueriedAll, ReadEOF, Loaded
<1>4. /\ allAircraft' = [a \in Icao24 |-> allAircraft'[a]]
      /\ \A a \in Icao24 : IsRow(allAircraft'[a])
  <2>1. CASE allAircraft' = allAircraft
    BY <2>1 DEF AInv, AircraftTyped
  <2>2. CASE ReadRecord /\ allAircraft' # allAircraft
    <3>1. PICK i, d : allAircraft' = [allAircraft EXCEPT ![i] = [NoRow EXCEPT !.data = d]]
      BY <2>2 DEF ReadRecord
    <3>2. IsRow([NoRow EXCEPT !.data = d])
      BY DEF IsRow, NoRow
    <3> QED
      BY <3>1, <3>2 DEF AInv, AircraftTyped
  <2> QED
    BY <2>1, <2>2 DEF DownloadBreaks, ReadFails, ReadEOF, aircraftVars
<1>5. AircraftTyped'
  BY <1>1, <1>4 DEF AInv, AircraftTyped
<1> QED
  BY <1>1, <1>3, <1>5 DEF AInv, ReadingBare, TodoCarries, CarriedIsShown, ImagesCarried

\* Taking over the images: a row that is to be inserted gets the one to carry over.
LEMMA QueryImagesKeeps == AInv /\ QueryImages => AInv'
<1> SUFFICES ASSUME AInv, QueryImages PROVE AInv'
  OBVIOUS
<1>1. CASE Return("error") /\ UNCHANGED aircraftVars
  BY <1>1, ElsewhereKeeps DEF Return
<1>2. CASE /\ \E image \in [Icao24 -> Images \cup {NoImage}] :
                /\ \A a \in Icao24 : IF ImagesOf(a) = {} THEN image[a] = NoImage
                                     ELSE image[a] \in ImagesOf(a)
                /\ allAircraft' = WithImages(image)
           /\ carried' = [a \in Icao24 |->
                            IF aircraft_meta[a] # <<>> /\ ImagesOf(a) = {Shown(a).image}
                            THEN Shown(a).image ELSE NoImage]
           /\ Goto("inserting") /\ UNCHANGED <<todo, aircraft_meta>>
  <2>1. PICK image \in [Icao24 -> Images \cup {NoImage}] :
          /\ \A a \in Icao24 : ImagesOf(a) # {} => image[a] \in ImagesOf(a)
          /\ allAircraft' = WithImages(image)
    BY <1>2
  <2>2. ASSUME NEW a \in Icao24, carried'[a] # NoImage
        PROVE  /\ aircraft_meta[a] # <<>> /\ ImagesOf(a) = {Shown(a).image}
               /\ carried'[a] = Shown(a).image
    BY <1>2, <2>2
  <2>3. ASSUME NEW a \in Icao24
        PROVE  /\ IsRow(allAircraft'[a])
               /\ a \in Loaded /\ image[a] # NoImage => allAircraft'[a].image = image[a]
    BY <2>1 DEF WithImages, AInv, AircraftTyped, IsRow
  <2>4. AircraftTyped'
    BY <1>2, <2>1, <2>3 DEF AInv, AircraftTyped, WithImages
  <2>5. TodoCarries'
    <3> SUFFICES ASSUME NEW a \in todo \cap Icao24, carried'[a] # NoImage
                 PROVE  allAircraft'[a].image = carried'[a]
      BY <1>2 DEF TodoCarries
    <3>1. a \in Loaded
      BY DEF AInv, QueriedAll, QueryImages, At
    <3>2. image[a] = Shown(a).image
      BY <2>1, <2>2
    <3> QED
      BY <2>2, <2>3, <3>1, <3>2
  <2>6. CarriedIsShown' /\ ImagesCarried'
    BY <1>2, <2>2 DEF CarriedIsShown, ImagesCarried, Shown
  <2>7. ReadingBare' /\ QueriedAll'
    BY <1>2 DEF Goto, ReadingBare, QueriedAll
  <2> QED
    BY <2>4, <2>5, <2>6, <2>7 DEF AInv
<1> QED
  BY <1>1, <1>2 DEF QueryImages

LEMMA InsertAircraftBatchKeeps == AInv /\ InsertAircraftBatch => AInv'
<1> SUFFICES ASSUME AInv, InsertAircraftBatch PROVE AInv'
  OBVIOUS
<1>1. /\ target = "airlines" /\ step = "inserting" /\ target' = target
      /\ step' \in {"inserting", "returned"} /\ UNCHANGED <<allAircraft, carried>>
  BY DEF InsertAircraftBatch, At, Return, runVars
<1>2. PICK inserted \in Batches(todo) :
        /\ todo' \in {todo, todo \ inserted}
        /\ aircraft_meta' \in {aircraft_meta, Inserted(inserted)}
  BY DEF InsertAircraftBatch
<1>3. inserted \subseteq todo /\ todo' \subseteq todo
  BY <1>2 DEF Batches
<1>4. ASSUME NEW a \in Icao24
      PROVE  \/ aircraft_meta'[a] = aircraft_meta[a]
             \/ a \in todo /\ aircraft_meta'[a] = Append(aircraft_meta[a], allAircraft[a])
  BY <1>2, <1>3 DEF Inserted
<1>5. aircraft_meta' = [a \in Icao24 |-> aircraft_meta'[a]]
  BY <1>2 DEF Inserted, AInv, AircraftTyped
<1>6. ASSUME NEW a \in Icao24
      PROVE  /\ IsSequence(aircraft_meta'[a])
             /\ carried[a] # NoImage =>
                  aircraft_meta'[a] # <<>> /\ Last(aircraft_meta'[a]).image = carried[a]
  <2>1. IsSequence(aircraft_meta[a])
    BY DEF AInv, AircraftTyped
  <2>2. CASE aircraft_meta'[a] = aircraft_meta[a]
    BY <2>1, <2>2 DEF AInv, CarriedIsShown, ImagesCarried, Shown
  <2>3. CASE a \in todo /\ aircraft_meta'[a] = Append(aircraft_meta[a], allAircraft[a])
    BY <2>1, <2>3, AppendRow DEF AInv, TodoCarries
  <2> QED
    BY <1>4, <2>2, <2>3
<1>7. AircraftTyped'
  BY <1>1, <1>5, <1>6 DEF AInv, AircraftTyped
<1>8. TodoCarries'
  BY <1>1, <1>3 DEF AInv, TodoCarries
<1> QED
  BY <1>1, <1>6, <1>7, <1>8
    DEF AInv, ReadingBare, QueriedAll, CarriedIsShown, ImagesCarried, Shown

LEMMA ExternalKeeps ==
  AInv /\ (\E a \in Icao24 : MergeParts(a) \/ \E image \in Images : WriteImage(a, image)) => AInv'
<1> SUFFICES ASSUME AInv, NEW a \in Icao24,
                    MergeParts(a) \/ \E image \in Images : WriteImage(a, image)
             PROVE  AInv'
  OBVIOUS
<1>1. UNCHANGED <<target, step, allAircraft, todo>>
  BY DEF MergeParts, WriteImage, runVars
<1>2. PICK new : /\ aircraft_meta' = [aircraft_meta EXCEPT ![a] = new]
                 /\ IsSequence(new) /\ new # <<>>
                 /\ \/ carried' = carried /\ Last(new) = Last(aircraft_meta[a])
                    \/ carried' = [carried EXCEPT ![a] = NoImage]
  <2>1. CASE MergeParts(a)
    BY <2>1, OneRow DEF MergeParts
  <2>2. CASE \E image \in Images : WriteImage(a, image)
    <3>1. PICK row : aircraft_meta' = [aircraft_meta EXCEPT ![a] = Append(aircraft_meta[a], row)]
      BY <2>2 DEF WriteImage
    <3>2. IsSequence(aircraft_meta[a])
      BY DEF AInv, AircraftTyped
    <3> QED
      BY <2>2, <3>1, <3>2, AppendRow DEF WriteImage
  <2> QED
    BY <2>1, <2>2
<1>3. AircraftTyped'
  BY <1>1, <1>2 DEF AInv, AircraftTyped
<1>4. \A b \in Icao24 : carried'[b] \in {carried[b], NoImage}
  BY <1>2 DEF AInv, AircraftTyped
<1>5. ReadingBare' /\ QueriedAll' /\ TodoCarries'
  BY <1>1, <1>4 DEF AInv, ReadingBare, QueriedAll, TodoCarries, Loaded
<1>6. ASSUME NEW b \in Icao24, carried'[b] # NoImage
      PROVE  aircraft_meta'[b] # <<>> /\ Last(aircraft_meta'[b]).image = carried'[b]
  <2>1. /\ carried'[b] = carried[b] /\ aircraft_meta[b] # <<>>
        /\ Last(aircraft_meta[b]).image = carried[b]
    BY <1>4, <1>6 DEF AInv, CarriedIsShown, ImagesCarried, Shown
  <2>2. CASE b = a
    BY <1>2, <1>6, <2>1, <2>2 DEF AInv, AircraftTyped
  <2>3. CASE b # a
    BY <1>2, <2>1, <2>3 DEF AInv, AircraftTyped
  <2> QED
    BY <2>2, <2>3
<1> QED
  BY <1>3, <1>5, <1>6 DEF AInv, CarriedIsShown, ImagesCarried, Shown

LEMMA StepAInv == AInv /\ [Next]_vars => AInv'
<1>1. AInv /\ NextAircraft => AInv'
  <2>1. AInv /\ AircraftDone => AInv'
    BY ElsewhereKeeps DEF AircraftDone, Return
  <2> QED
    BY <2>1, StartAircraftKeeps, ReadKeeps, QueryImagesKeeps, InsertAircraftBatchKeeps,
      ExternalKeeps DEF NextAircraft
<1>2. NextSatellite => target = "satellites" /\ target' = target
  BY DEF NextSatellite, StartSatellite, ScanLine, ScanFails, ScanEnds, InsertSatelliteBatch, At,
    Goto, Return, runVars
<1>3. NextCables => target = "cables" /\ target' = target
  BY DEF NextCables, MergeCables, InsertCableBatch, InsertLandingBatch, CablesDone, At, Goto,
    Return, runVars
<1>4. Signal \/ Again => target' = target /\ step' \in {step, "start"}
  BY DEF Signal, Again
<1>5. AInv /\ (NextSatellite \/ NextCables \/ Signal \/ Again) /\ UNCHANGED aircraftVars => AInv'
  BY <1>2, <1>3, <1>4, ElsewhereKeeps
<1>6. AInv /\ UNCHANGED vars => AInv'
  BY ElsewhereKeeps DEF vars, runVars
<1> QED
  BY <1>1, <1>5, <1>6 DEF Next

\* A refresh of the aircraft, however often it is interrupted and whatever merges the
\* parts of the table, keeps an image that all versions of a row agree on.
THEOREM AgreedImagesKept == Spec => []ImagesCarried
<1>1. AInv => ImagesCarried
  BY DEF AInv
<1> QED
  BY <1>1, InitAInv, StepAInv, PTL DEF Spec
-----------------------------------------------------------------------------
(* The records of a file.  While it is read the map has the last record of  *)
(* each address read so far (LastParsed); when it has been read, every      *)
(* address of the map is still to insert or shown with that record          *)
(* (ShownOrTodo), so when nothing is left the table shows them all.         *)

\* rest is the end of whole: what has not been read of it.
EndOf(rest, whole) ==
  /\ whole \in Seq(ToSet(whole)) /\ rest \in Seq(ToSet(whole))
  /\ Len(rest) <= Len(whole)
  /\ \A k \in 1..Len(rest) : rest[k] = whole[Len(whole) - Len(rest) + k]

FileTyped ==
  /\ EndOf(lines, csv)
  /\ \A line \in ToSet(csv) : Parsed(line) => line.icao24 \in Icao24 /\ line.data # 0

IsRecord(k, a) == Parsed(csv[k]) /\ csv[k].icao24 = a

\* The data of the last record of a among the first n lines: none or one.
LastData(a, n) ==
  {csv[k].data : k \in {i \in 1..n : IsRecord(i, a) /\ \A l \in i + 1..n : ~IsRecord(l, a)}}

LastParsed ==
  target = "airlines" /\ step \in {"reading", "query", "inserting"} =>
    \A a \in Icao24 : \A i \in 1..Len(csv) - Len(lines) :
      IsRecord(i, a) => allAircraft[a].data \in LastData(a, Len(csv) - Len(lines))

AllRead == target = "airlines" /\ step \in {"query", "inserting"} => lines = <<>>

TodoAtQuery ==
  target = "airlines" /\ step = "query" => \A a \in Icao24 : allAircraft[a].data # 0 => a \in todo

ShownOrTodo ==
  target = "airlines" /\ step = "inserting" /\ ~dryRun =>
    \A a \in Icao24 : allAircraft[a].data # 0 => a \in todo \/ Shown(a).data = allAircraft[a].data

ResultLast == step # "returned" => result = "none"

AircraftLoaded ==
  target = "airlines" /\ result = "ok" /\ ~dryRun =>
    \A a \in Icao24 : \A i \in 1..Len(csv) :
      IsRecord(i, a) => Shown(a).data \in LastData(a, Len(csv))

LInv == /\ ResultLast /\ FileTyped /\ LastParsed /\ AllRead
        /\ TodoAtQuery /\ ShownOrTodo /\ AircraftLoaded

LEMMA EndOfTail ==
  ASSUME NEW rest, NEW whole, EndOf(rest, whole), rest # <<>>
  PROVE  /\ EndOf(Tail(rest), whole) /\ Len(rest) \in Nat \ {0} /\ Len(whole) \in Nat
         /\ Len(Tail(rest)) = Len(rest) - 1
         /\ Head(rest) = whole[Len(whole) - Len(rest) + 1] /\ Head(rest) \in ToSet(whole)
<1>1. /\ rest \in Seq(ToSet(whole)) /\ whole \in Seq(ToSet(whole))
      /\ Len(rest) <= Len(whole)
      /\ \A k \in 1..Len(rest) : rest[k] = whole[Len(whole) - Len(rest) + k]
  BY DEF EndOf
<1>2. Len(rest) \in Nat \ {0} /\ Len(whole) \in Nat
  BY <1>1
<1>3. /\ Tail(rest) \in Seq(ToSet(whole)) /\ Len(Tail(rest)) = Len(rest) - 1
      /\ \A k \in 1..Len(rest) - 1 : Tail(rest)[k] = rest[k + 1]
      /\ Head(rest) = rest[1] /\ Head(rest) \in ToSet(whole)
  BY <1>1, <1>2
<1>4. \A k \in 1..Len(Tail(rest)) : Tail(rest)[k] = whole[Len(whole) - Len(Tail(rest)) + k]
  <2> SUFFICES ASSUME NEW k \in 1..Len(rest) - 1
               PROVE  Tail(rest)[k] = whole[Len(whole) - (Len(rest) - 1) + k]
    BY <1>3
  <2>1. rest[k + 1] = whole[Len(whole) - Len(rest) + (k + 1)]
    BY <1>1, <1>2
  <2>2. Len(whole) - Len(rest) + (k + 1) = Len(whole) - (Len(rest) - 1) + k
    BY <1>2
  <2> QED BY <1>3, <2>1, <2>2
<1> QED BY <1>1, <1>2, <1>3, <1>4 DEF EndOf

LEMMA WholeIsUnread ==
  ASSUME NEW s, s \in Seq(ToSet(s))
  PROVE  EndOf(s, s) /\ Len(s) - Len(s) = 0
<1>1. Len(s) \in Nat /\ \A k \in 1..Len(s) : Len(s) - Len(s) + k = k
  OBVIOUS
<1> QED BY <1>1 DEF EndOf

\* The file that is loaded is one of the listing.
LEMMA DiscoveredIsListed ==
  ASSUME NEW listing, NEW best \in DiscoverLatestAircraftCSV(listing)
  PROVE  best \in ToSet(listing)
BY DEF DiscoverLatestAircraftCSV, ToSet

\* One line more: a record becomes the last of its address, and of the other
\* addresses the last record stays.
LEMMA LastDataNext ==
  ASSUME NEW a, NEW n \in Nat
  PROVE  /\ IsRecord(n + 1, a) => csv[n + 1].data \in LastData(a, n + 1)
         /\ ~IsRecord(n + 1, a) => LastData(a, n) \subseteq LastData(a, n + 1)
<1>1. ASSUME IsRecord(n + 1, a) PROVE csv[n + 1].data \in LastData(a, n + 1)
  <2>1. n + 1 \in 1..n + 1 /\ \A l \in (n + 1) + 1..n + 1 : ~IsRecord(l, a)
    OBVIOUS
  <2> QED BY <1>1, <2>1 DEF LastData
<1>2. ASSUME ~IsRecord(n + 1, a), NEW d \in LastData(a, n) PROVE d \in LastData(a, n + 1)
  <2>1. PICK k \in 1..n : /\ IsRecord(k, a) /\ \A l \in k + 1..n : ~IsRecord(l, a)
                          /\ d = csv[k].data
    BY DEF LastData
  <2>2. k \in 1..n + 1 /\ \A l \in k + 1..n + 1 : l \in k + 1..n \/ l = n + 1
    OBVIOUS
  <2> QED BY <1>2, <2>1, <2>2 DEF LastData
<1> QED BY <1>1, <1>2

LEMMA LastDataIsData ==
  ASSUME FileTyped, NEW a, NEW n \in Nat, n <= Len(csv), NEW d \in LastData(a, n)
  PROVE  d # 0
<1>1. PICK k \in 1..n : IsRecord(k, a) /\ d = csv[k].data
  BY DEF LastData
<1>2. k \in DOMAIN csv
  BY DEF FileTyped, EndOf
<1> QED BY <1>1, <1>2 DEF FileTyped, IsRecord, ToSet

\* A refresh has no result before it returns.
LEMMA StepResultLast == ResultLast /\ [Next]_vars => ResultLast'
<1> SUFFICES ASSUME ResultLast, [Next]_vars PROVE ResultLast'
  OBVIOUS
<1>1. ASSUME UNCHANGED <<step, result>> PROVE ResultLast'
  BY <1>1 DEF ResultLast
<1>2. ASSUME step' = "returned" PROVE ResultLast'
  BY <1>2 DEF ResultLast
<1>3. ASSUME step # "returned", result' = result PROVE ResultLast'
  BY <1>3 DEF ResultLast
<1>4. CASE NextAircraft
  <2>1. CASE \E listing \in Listings : StartAircraft(listing)
    BY <2>1, <1>2, <1>3 DEF StartAircraft, At, Goto, Return
  <2>2. CASE DownloadBreaks \/ ReadFails \/ ReadRecord
    BY <2>2, <1>1, <1>2 DEF DownloadBreaks, ReadFails, ReadRecord, Return, runVars
  <2>3. CASE ReadEOF \/ QueryImages
    BY <2>3, <1>2, <1>3 DEF ReadEOF, QueryImages, At, Goto, Return
  <2>4. CASE InsertAircraftBatch \/ AircraftDone
    BY <2>4, <1>1, <1>2 DEF InsertAircraftBatch, AircraftDone, Return, runVars
  <2>5. CASE \E a \in Icao24 : MergeParts(a) \/ \E image \in Images : WriteImage(a, image)
    BY <2>5, <1>1 DEF MergeParts, WriteImage, runVars
  <2> QED BY <1>4, <2>1, <2>2, <2>3, <2>4, <2>5 DEF NextAircraft
<1>5. CASE NextSatellite
  <2>1. CASE \E served \in Catalogs : StartSatellite(served)
    BY <2>1, <1>2, <1>3 DEF StartSatellite, At, Goto, Return
  <2>2. CASE ScanLine \/ ScanEnds \/ \E half \in HalfLines \cup {Comment} : ScanFails(half)
    BY <2>2, <1>1, <1>2 DEF ScanLine, ScanFails, ScanEnds, InsertSatelliteBatch, Return, runVars
  <2> QED BY <1>5, <2>1, <2>2 DEF NextSatellite
<1>6. CASE NextCables
  <2>1. CASE \E body \in OverpassBodies : MergeCables(body)
    BY <2>1, <1>2, <1>3 DEF MergeCables, At, Goto, Return
  <2>2. CASE InsertCableBatch \/ InsertLandingBatch \/ CablesDone
    BY <2>2, <1>1, <1>2 DEF InsertCableBatch, InsertLandingBatch, CablesDone, Return, runVars
  <2> QED BY <1>6, <2>1, <2>2 DEF NextCables
<1>7. CASE Signal \/ Again
  BY <1>7, <1>1 DEF Signal, Again, ResultLast
<1>8. CASE UNCHANGED vars
  BY <1>8, <1>1 DEF vars, runVars
<1> QED BY <1>4, <1>5, <1>6, <1>7, <1>8 DEF Next

\* What a step may do to the rest when the run and the parsed file stay, and every
\* aircraft shows the same data.
LEMMA SameLoadKeeps ==
  ASSUME LInv, UNCHANGED <<target, step, result, dryRun, csv, lines, allAircraft, todo>>,
         \A a \in Icao24 : Shown(a).data' = Shown(a).data
  PROVE  LInv'
<1>1. ResultLast' /\ FileTyped' /\ AllRead' /\ TodoAtQuery'
  BY DEF LInv, ResultLast, FileTyped, AllRead, TodoAtQuery
<1>2. LastParsed' /\ ShownOrTodo'
  BY DEF LInv, LastParsed, LastData, IsRecord, ShownOrTodo
<1>3. AircraftLoaded'
  BY DEF LInv, AircraftLoaded, LastData, IsRecord
<1> QED BY <1>1, <1>2, <1>3 DEF LInv

\* A step that ends or restarts a refresh, or is of another target, asks nothing of
\* the tables.
LEMMA LeaveKeeps ==
  ASSUME LInv, FileTyped', ResultLast',
         target' # "airlines" \/ (step' \in {"returned", "start"} /\ result' # "ok")
  PROVE  LInv'
BY DEF LInv, LastParsed, AllRead, TodoAtQuery, ShownOrTodo, AircraftLoaded

LEMMA FileStays == FileTyped /\ UNCHANGED <<csv, lines>> => FileTyped'
BY DEF FileTyped

LEMMA StartLoads ==
  ASSUME LInv, ResultLast', NEW listing \in Listings, StartAircraft(listing)
  PROVE  LInv'
<1>1. CASE Return("error") /\ UNCHANGED aircraftVars
  BY <1>1, FileStays, LeaveKeeps DEF LInv, Return, aircraftVars
<1>2. CASE /\ \E best \in DiscoverLatestAircraftCSV(listing) : lines' = best.lines /\ csv' = best.lines
           /\ Goto("reading")
  <2>1. PICK best \in ToSet(listing) : lines' = best.lines /\ csv' = best.lines
    BY <1>2, DiscoveredIsListed
  <2>2. /\ csv' \in Seq(ToSet(csv')) /\ lines' = csv'
        /\ \A line \in ToSet(csv') : Parsed(line) => line.icao24 \in Icao24 /\ line.data # 0
    BY <2>1, ListingsAssumption
  <2>3. FileTyped' /\ Len(csv') - Len(lines') = 0
    BY <2>2, WholeIsUnread DEF FileTyped
  <2>4. step' = "reading" /\ step = "start" /\ result' = result /\ result = "none"
    BY <1>2 DEF Goto, StartAircraft, At, LInv, ResultLast
  <2>5. LastParsed'
    BY <2>3 DEF LastParsed
  <2> QED BY <2>3, <2>4, <2>5 DEF LInv, AllRead, TodoAtQuery, ShownOrTodo, AircraftLoaded
<1> QED BY <1>1, <1>2 DEF StartAircraft

LEMMA ReadRecordLoads ==
  ASSUME AircraftTyped, LInv, ResultLast', ReadRecord
  PROVE  LInv'
<1> DEFINE n == Len(csv) - Len(lines)
           line == Head(lines)
<1>1. /\ EndOf(lines, csv) /\ lines # <<>> /\ lines' = Tail(lines) /\ csv' = csv
      /\ target = "airlines" /\ step = "reading" /\ todo' = todo /\ aircraft_meta' = aircraft_meta
  BY DEF ReadRecord, At, LInv, FileTyped
<1>2. /\ EndOf(lines', csv) /\ n \in Nat /\ Len(csv) - Len(lines') = n + 1
      /\ line = csv[n + 1] /\ line \in ToSet(csv) /\ n + 1 <= Len(csv) /\ Len(csv) \in Nat
  <2>1. Len(lines) <= Len(csv)
    BY <1>1 DEF EndOf
  <2> QED BY <1>1, <2>1, EndOfTail
<1>3. FileTyped'
  BY <1>1, <1>2 DEF LInv, FileTyped
<1>4. CASE Return("error")
  BY <1>3, <1>4, LeaveKeeps DEF Return
<1>5. CASE UNCHANGED runVars
  <2>1. /\ target' = target /\ step' = step /\ result' = result /\ dryRun' = dryRun
        /\ result = "none"
    BY <1>1, <1>5 DEF runVars, LInv, ResultLast
  <2>2. LastParsed'
    <3> SUFFICES ASSUME NEW a \in Icao24, NEW i \in 1..n + 1, IsRecord(i, a)
                 PROVE  allAircraft'[a].data \in LastData(a, n + 1)
      BY <1>1, <1>2 DEF LastParsed, LastData, IsRecord
    <3>1. CASE IsRecord(n + 1, a)
      <4>1. Parsed(line) /\ line.icao24 = a
        BY <1>2, <3>1 DEF IsRecord
      <4>2. allAircraft' = [allAircraft EXCEPT ![a] = [NoRow EXCEPT !.data = line.data]]
        BY <4>1 DEF ReadRecord
      <4>3. allAircraft'[a].data = line.data
        BY <4>2 DEF AircraftTyped, NoRow
      <4> QED BY <1>2, <3>1, <4>3, LastDataNext
    <3>2. CASE ~IsRecord(n + 1, a)
      <4>1. allAircraft'[a] = allAircraft[a]
        <5>1. CASE ~Parsed(line)
          BY <5>1 DEF ReadRecord
        <5>2. CASE Parsed(line)
          <6>1. line.icao24 # a
            BY <1>2, <3>2, <5>2 DEF IsRecord
          <6> QED BY <5>2, <6>1 DEF ReadRecord, AircraftTyped
        <5> QED BY <5>1, <5>2
      <4>2. i \in 1..n
        BY <1>2, <3>2
      <4>3. allAircraft[a].data \in LastData(a, n)
        BY <1>1, <4>2 DEF LInv, LastParsed
      <4> QED BY <1>2, <3>2, <4>1, <4>3, LastDataNext
    <3> QED BY <3>1, <3>2
  <2> QED BY <1>1, <1>3, <2>1, <2>2 DEF LInv, AllRead, TodoAtQuery, ShownOrTodo, AircraftLoaded
<1> QED BY <1>4, <1>5 DEF ReadRecord

LEMMA ReadEOFLoads ==
  ASSUME LInv, ResultLast', ReadEOF
  PROVE  LInv'
<1>1. /\ UNCHANGED <<target, result, dryRun, lines, csv, allAircraft>> /\ lines = <<>>
      /\ target = "airlines" /\ step = "reading" /\ step' \in {"query", "inserting"}
      /\ todo' = Loaded /\ (step' = "inserting" => dryRun) /\ result = "none"
  BY DEF ReadEOF, At, Goto, LInv, ResultLast
<1>2. FileTyped' /\ AllRead' /\ ShownOrTodo' /\ AircraftLoaded'
  BY <1>1, FileStays DEF LInv, AllRead, ShownOrTodo, AircraftLoaded
<1>3. TodoAtQuery'
  BY <1>1 DEF TodoAtQuery, Loaded, NoRow
<1>4. LastParsed'
  BY <1>1 DEF LInv, LastParsed, LastData, IsRecord
<1> QED BY <1>2, <1>3, <1>4 DEF LInv

LEMMA QueryImagesLoads ==
  ASSUME AircraftTyped, LInv, ResultLast', QueryImages
  PROVE  LInv'
<1>1. CASE Return("error") /\ UNCHANGED aircraftVars
  BY <1>1, FileStays, LeaveKeeps DEF LInv, Return, aircraftVars
<1>2. CASE /\ \E image \in [Icao24 -> Images \cup {NoImage}] : allAircraft' = WithImages(image)
           /\ Goto("inserting") /\ UNCHANGED <<lines, todo, aircraft_meta, csv>>
  <2>1. /\ UNCHANGED <<target, result, dryRun>> /\ step' = "inserting" /\ result = "none"
        /\ target = "airlines" /\ step = "query"
    BY <1>2 DEF Goto, QueryImages, At, LInv, ResultLast
  <2>2. \A a \in Icao24 : allAircraft'[a].data = allAircraft[a].data
    BY <1>2 DEF WithImages, AircraftTyped, IsRow
  <2>3. FileTyped' /\ AllRead' /\ TodoAtQuery' /\ AircraftLoaded'
    BY <1>2, <2>1, FileStays DEF LInv, AllRead, TodoAtQuery, AircraftLoaded
  <2>4. ShownOrTodo'
    BY <1>2, <2>1, <2>2 DEF LInv, TodoAtQuery, ShownOrTodo
  <2>5. LastParsed'
    BY <1>2, <2>1, <2>2 DEF LInv, LastParsed, LastData, IsRecord
  <2> QED BY <2>3, <2>4, <2>5 DEF LInv
<1> QED BY <1>1, <1>2 DEF QueryImages

LEMMA InsertLoads ==
  ASSUME AircraftTyped, LInv, ResultLast', InsertAircraftBatch
  PROVE  LInv'
<1>1. /\ target = "airlines" /\ step = "inserting" /\ result = "none"
      /\ UNCHANGED <<lines, allAircraft, csv>> /\ FileTyped'
  BY FileStays DEF InsertAircraftBatch, At, LInv, ResultLast
<1>2. CASE Return("error")
  BY <1>1, <1>2, LeaveKeeps DEF Return
<1>3. CASE \E inserted \in Batches(todo) :
             /\ todo' = todo \ inserted
             /\ aircraft_meta' = IF dryRun THEN aircraft_meta ELSE Inserted(inserted)
             /\ UNCHANGED runVars
  <2>1. PICK inserted \in Batches(todo) :
          /\ todo' = todo \ inserted
          /\ aircraft_meta' = IF dryRun THEN aircraft_meta ELSE Inserted(inserted)
    BY <1>3
  <2>2. UNCHANGED <<target, step, result, dryRun>>
    BY <1>3 DEF runVars
  <2>3. ShownOrTodo'
    <3> SUFFICES ASSUME ~dryRun, NEW a \in Icao24, allAircraft[a].data # 0, a \notin todo'
                 PROVE  Last(aircraft_meta'[a]).data = allAircraft[a].data
      BY <1>1, <2>2 DEF ShownOrTodo, Shown
    <3>1. CASE a \in inserted
      <4>1. aircraft_meta'[a] = Append(aircraft_meta[a], allAircraft[a])
        BY <2>1, <3>1 DEF Inserted
      <4> QED BY <4>1, AppendRow DEF AircraftTyped
    <3>2. CASE a \notin inserted
      <4>1. a \notin todo /\ aircraft_meta'[a] = aircraft_meta[a]
        BY <2>1, <3>2 DEF Inserted
      <4> QED BY <1>1, <4>1 DEF LInv, ShownOrTodo, Shown
    <3> QED BY <3>1, <3>2
  <2>4. LastParsed'
    BY <1>1, <2>2 DEF LInv, LastParsed, LastData, IsRecord
  <2> QED BY <1>1, <2>2, <2>3, <2>4 DEF LInv, AllRead, TodoAtQuery, AircraftLoaded
<1> QED BY <1>2, <1>3 DEF InsertAircraftBatch

\* Nothing is left to insert: every aircraft of the file is shown with its last record.
LEMMA AircraftDoneLoads ==
  ASSUME LInv, ResultLast', AircraftDone
  PROVE  LInv'
<1>1. /\ target = "airlines" /\ step = "inserting" /\ todo = {} /\ step' = "returned"
      /\ UNCHANGED <<target, dryRun, lines, csv, allAircraft, aircraft_meta>>
  BY DEF AircraftDone, At, Return, aircraftVars
<1>2. AircraftLoaded'
  <2> SUFFICES ASSUME ~dryRun, NEW a \in Icao24, NEW i \in 1..Len(csv), IsRecord(i, a)
               PROVE  Shown(a).data \in LastData(a, Len(csv))
    BY <1>1 DEF AircraftLoaded, LastData, IsRecord, Shown
  <2>1. lines = <<>> /\ Len(csv) \in Nat /\ Len(csv) - Len(lines) = Len(csv)
    BY <1>1 DEF LInv, AllRead, FileTyped, EndOf
  <2>2. allAircraft[a].data \in LastData(a, Len(csv))
    BY <1>1, <2>1 DEF LInv, LastParsed
  <2>3. allAircraft[a].data # 0
    BY <2>1, <2>2, LastDataIsData DEF LInv
  <2> QED BY <1>1, <2>2, <2>3 DEF LInv, ShownOrTodo
<1> QED BY <1>1, <1>2, FileStays DEF LInv, LastParsed, AllRead, TodoAtQuery, ShownOrTodo

\* A merge of parts and an external write keep the data that is shown.
LEMMA ExternalLoads ==
  ASSUME AircraftTyped, LInv, NEW a \in Icao24,
         MergeParts(a) \/ \E image \in Images : WriteImage(a, image)
  PROVE  LInv'
<1>1. UNCHANGED <<target, step, result, dryRun, csv, lines, allAircraft, todo>>
  BY DEF MergeParts, WriteImage, runVars
<1>2. ASSUME NEW b \in Icao24
      PROVE  Last(aircraft_meta'[b]).data = Last(aircraft_meta[b]).data
  <2>1. CASE b # a
    BY <2>1 DEF MergeParts, WriteImage, AircraftTyped
  <2>2. CASE b = a /\ MergeParts(a)
    BY <2>2, OneRow DEF MergeParts, AircraftTyped
  <2>3. CASE b = a /\ \E image \in Images : WriteImage(a, image)
    <3>1. PICK image \in Images :
            aircraft_meta'[a] = Append(aircraft_meta[a], [Last(aircraft_meta[a]) EXCEPT !.image = image])
      BY <2>3 DEF WriteImage, AircraftTyped
    <3>2. Last(aircraft_meta'[a]) = [Last(aircraft_meta[a]) EXCEPT !.image = image]
      BY <3>1, AppendRow DEF AircraftTyped
    <3>3. [Last(aircraft_meta[a]) EXCEPT !.image = image].data = Last(aircraft_meta[a]).data
      OBVIOUS
    <3> QED BY <2>3, <3>2, <3>3
  <2> QED BY <2>1, <2>2, <2>3
<1> QED BY <1>1, <1>2, SameLoadKeeps DEF Shown

LEMMA StepLInv == AInv /\ LInv /\ [Next]_vars => LInv'
<1> SUFFICES ASSUME AircraftTyped, LInv, [Next]_vars PROVE LInv'
  BY DEF AInv
<1>1. ResultLast'
  BY StepResultLast DEF LInv
<1>2. CASE NextAircraft
  <2>1. CASE DownloadBreaks \/ (ReadFails /\ UNCHANGED runVars)
    BY <2>1, SameLoadKeeps DEF DownloadBreaks, ReadFails, runVars, aircraftVars, Shown
  <2>2. CASE ReadFails /\ Return("error")
    BY <1>1, <2>2, FileStays, LeaveKeeps DEF ReadFails, Return, aircraftVars, LInv
  <2> QED
    BY <1>1, <1>2, <2>1, <2>2, StartLoads, ReadRecordLoads, ReadEOFLoads, QueryImagesLoads,
       InsertLoads, AircraftDoneLoads, ExternalLoads DEF NextAircraft, ReadFails
<1>3. CASE (NextSatellite \/ NextCables) /\ UNCHANGED aircraftVars
  <2>1. target # "airlines" /\ target' = target
    BY <1>3 DEF NextSatellite, StartSatellite, ScanLine, ScanFails, ScanEnds, InsertSatelliteBatch,
      NextCables, MergeCables, InsertCableBatch, InsertLandingBatch, CablesDone, At, Goto, Return,
      runVars
  <2> QED BY <1>1, <1>3, <2>1, FileStays, LeaveKeeps DEF LInv, aircraftVars
<1>4. CASE Again /\ UNCHANGED aircraftVars
  BY <1>1, <1>4, FileStays, LeaveKeeps DEF LInv, Again, aircraftVars
<1>5. CASE (Signal /\ UNCHANGED aircraftVars) \/ UNCHANGED vars
  BY <1>5, SameLoadKeeps DEF Signal, vars, runVars, aircraftVars, Shown
<1> QED BY <1>2, <1>3, <1>4, <1>5 DEF Next

LEMMA InitLInv == Init => LInv
<1> SUFFICES ASSUME Init PROVE LInv
  OBVIOUS
<1>1. ToSet(<<>>) = {} /\ <<>> \in Seq(ToSet(<<>>)) /\ Len(<<>>) = 0
  BY DEF ToSet
<1>2. FileTyped
  BY <1>1, WholeIsUnread DEF Init, InitAircraft, FileTyped
<1> QED BY <1>2 DEF Init, InitRun, LInv, ResultLast, LastParsed, AllRead, TodoAtQuery, ShownOrTodo,
     AircraftLoaded

-----------------------------------------------------------------------------
(* The rows of a catalog.  The last row read of a NORAD number is the last  *)
(* of that number in the open batch, or the batch has none of that number   *)
(* and the table shows it (RowsWait).                                       *)

CatalogTyped ==
  /\ EndOf(scan, catalog)
  /\ \A line \in ToSet(catalog) : line # Comment => line.norad \in Norads
  /\ batch \in Seq(ToSet(batch))

IsObject(k, m) == catalog[k] # Comment /\ catalog[k].norad = m

\* The i-th line has the last row of the number m among the first n lines.
IsLast(i, m, n) == IsObject(i, m) /\ \A l \in i + 1..n : ~IsObject(l, m)

Waits(kept, i, m) ==
  \/ \E b \in 1..Len(kept) : kept[b] = catalog[i] /\ \A c \in b + 1..Len(kept) : kept[c].norad # m
  \/ /\ \A c \in 1..Len(kept) : kept[c].norad # m
     /\ dryRun \/ satellite_meta[m] = catalog[i].data

RowsWait ==
  target = "satellites" /\ step = "scanning" =>
    \A m \in Norads \ {0} : \A i \in 1..Len(catalog) - Len(scan) :
      IsLast(i, m, Len(catalog) - Len(scan)) => Waits(batch, i, m)

CatalogLoaded ==
  target = "satellites" /\ result = "ok" /\ ~dryRun =>
    \A m \in Norads \ {0} : \A i \in 1..Len(catalog) :
      IsLast(i, m, Len(catalog)) => satellite_meta[m] = catalog[i].data

SInv == ResultLast /\ CatalogTyped /\ RowsWait /\ CatalogLoaded

\* A set of naturals that is not empty has a least element.
LEMMA LeastNat ==
  ASSUME NEW T \in SUBSET Nat, T # {}
  PROVE  \E x \in T : \A y \in T : x <= y
<1>1. \E x \in T : \A y \in T : <<y, x>> \notin OpToRel(<, Nat)
  BY WFMin, NatLessThanWellFounded, Zenon
<1>2. PICK x \in T : \A y \in T : <<y, x>> \notin OpToRel(<, Nat)
  BY <1>1, Zenon
<1>3. \A y \in T : ~(y < x)
  BY <1>2, Zenon DEF OpToRel
<1> QED BY <1>3

\* Some indices of a sequence, if there are any, have a last one.
LEMMA LastIndex ==
  ASSUME NEW n \in Nat, NEW T \in SUBSET (1..n), T # {}
  PROVE  Max(T) \in T /\ \A y \in T : y <= Max(T)
<1> DEFINE R == {n - y : y \in T}
<1>1. R \in SUBSET Nat /\ R # {}
  <2>1. \A y \in T : n - y \in Nat
    OBVIOUS
  <2> QED BY <2>1
<1>2. PICK r \in R : \A q \in R : r <= q
  <2> HIDE DEF R
  <2> QED BY <1>1, LeastNat
<1>3. PICK x \in T : r = n - x
  OBVIOUS
<1>4. \A y \in T : x >= y
  <2> SUFFICES ASSUME NEW y \in T PROVE x >= y
    OBVIOUS
  <2>1. n - x <= n - y
    BY <1>2, <1>3
  <2>2. x \in 1..n /\ y \in 1..n
    OBVIOUS
  <2> QED BY <2>1, <2>2
<1>5. /\ Max(T) = CHOOSE x_1 \in T : \A y \in T : x_1 >= y
      /\ Max(T) \in T /\ \A y \in T : Max(T) >= y
  BY <1>4 DEF Max
<1> QED BY <1>5

\* What a batch does to the row of a number: its last row of that number, if it has one.
LEMMA InsertedRow ==
  ASSUME NEW s, s \in Seq(ToSet(s)), NEW m \in Norads
  PROVE  /\ (\A c \in 1..Len(s) : s[c].norad # m) => InsertedRows(s)[m] = satellite_meta[m]
         /\ \A b \in 1..Len(s) :
              s[b].norad = m /\ (\A c \in b + 1..Len(s) : s[c].norad # m)
                => InsertedRows(s)[m] = s[b].data
<1> DEFINE mine == {i \in DOMAIN s : s[i].norad = m}
<1>1. Len(s) \in Nat /\ DOMAIN s = 1..Len(s)
  OBVIOUS
<1>2. InsertedRows(s)[m] = IF mine = {} THEN satellite_meta[m] ELSE s[Max(mine)].data
  BY DEF InsertedRows
<1>3. ASSUME \A c \in 1..Len(s) : s[c].norad # m
      PROVE  InsertedRows(s)[m] = satellite_meta[m]
  BY <1>1, <1>2, <1>3
<1>4. ASSUME NEW b \in 1..Len(s), s[b].norad = m, \A c \in b + 1..Len(s) : s[c].norad # m
      PROVE  InsertedRows(s)[m] = s[b].data
  <2>1. mine \in SUBSET (1..Len(s)) /\ b \in mine
    BY <1>1, <1>4
  <2>2. Max(mine) \in mine /\ b <= Max(mine)
    <3> HIDE DEF mine
    <3> QED BY <1>1, <2>1, LastIndex
  <2>3. Max(mine) \notin b + 1..Len(s)
    BY <1>4, <2>2
  <2>4. Max(mine) = b
    <3>1. Max(mine) \in 1..Len(s)
      BY <2>1, <2>2
    <3> HIDE DEF mine
    <3> QED BY <1>1, <2>2, <2>3, <3>1
  <2> QED BY <1>2, <2>1, <2>4
<1> QED BY <1>3, <1>4

\* A sequence with one more element, and the elements it had.
LEMMA OneMore ==
  ASSUME NEW s, s \in Seq(ToSet(s)), NEW x
  PROVE  LET t == s \o <<x>> IN
         /\ t \in Seq(ToSet(t)) /\ Len(t) = Len(s) + 1 /\ Len(s) \in Nat
         /\ t[Len(s) + 1] = x /\ \A b \in 1..Len(s) : t[b] = s[b]
<1> DEFINE t == s \o <<x>>
           S == ToSet(s) \cup {x}
<1>1. s \in Seq(S) /\ <<x>> \in Seq(S) /\ Len(s) \in Nat /\ Len(<<x>>) = 1 /\ <<x>>[1] = x
  <2>1. s \in [1..Len(s) -> S] /\ Len(s) \in Nat
    OBVIOUS
  <2> QED BY <2>1
<1>2. /\ t \in Seq(S) /\ Len(t) = Len(s) + 1
      /\ t[Len(s) + 1] = x /\ \A b \in 1..Len(s) : t[b] = s[b]
  <2> HIDE DEF S
  <2> QED BY <1>1
<1>3. DOMAIN t = 1..Len(t) /\ t = [b \in 1..Len(t) |-> t[b]] /\ Len(t) \in Nat
  <2>1. t \in [1..Len(t) -> S] /\ Len(t) \in Nat
    <3> HIDE DEF S, t
    <3> QED BY <1>2
  <2> HIDE DEF S, t
  <2> QED BY <2>1
<1>4. t \in Seq(ToSet(t))
  <2>1. \A b \in 1..Len(t) : t[b] \in ToSet(t)
    BY <1>3 DEF ToSet
  <2> HIDE DEF t
  <2>2. t \in [1..Len(t) -> ToSet(t)]
    BY <1>3, <2>1
  <2> QED BY <1>3, <2>2
<1> QED BY <1>1, <1>2, <1>4

\* One line more is read: its row, if it has one, is the last of its number.
LEMMA NextWaits ==
  ASSUME CatalogTyped, RowsWait, target = "satellites", step = "scanning", scan # <<>>,
         NEW m \in Norads \ {0}, NEW i \in 1..Len(catalog) - Len(Tail(scan)),
         IsLast(i, m, Len(catalog) - Len(Tail(scan)))
  PROVE  Waits(batch \o parseSatRecord(Head(scan)), i, m)
<1> DEFINE n == Len(catalog) - Len(scan)
           line == Head(scan)
           kept == batch \o parseSatRecord(line)
<1>1. /\ n \in Nat /\ Len(catalog) - Len(Tail(scan)) = n + 1 /\ line = catalog[n + 1]
      /\ batch \in Seq(ToSet(batch)) /\ Len(batch) \in Nat
  <2>1. Len(scan) <= Len(catalog)
    BY DEF CatalogTyped, EndOf
  <2> QED BY <2>1, EndOfTail DEF CatalogTyped
<1>2. i \in 1..n + 1 /\ IsLast(i, m, n + 1)
  BY <1>1
<1>3. kept \in {batch, batch \o <<line>>}
  <2>1. batch \o <<>> = batch
    BY <1>1
  <2> QED BY <2>1 DEF parseSatRecord
<1>4. /\ Len(batch \o <<line>>) = Len(batch) + 1 /\ (batch \o <<line>>)[Len(batch) + 1] = line
      /\ \A b \in 1..Len(batch) : (batch \o <<line>>)[b] = batch[b]
  BY <1>1, OneMore
<1>5. CASE IsObject(n + 1, m)
  <2>1. i = n + 1
    <3>1. CASE i \in 1..n
      <4>1. n + 1 \in i + 1..n + 1
        BY <1>1, <3>1
      <4> QED BY <1>2, <1>5, <4>1 DEF IsLast
    <3> QED BY <1>1, <1>2, <3>1
  <2>2. kept = batch \o <<line>>
    BY <1>1, <1>5 DEF IsObject, parseSatRecord
  <2> HIDE DEF kept
  <2>3. Len(batch) + 1 \in 1..Len(kept) /\ kept[Len(batch) + 1] = catalog[i]
    BY <1>1, <1>4, <2>1, <2>2
  <2>4. \A c \in (Len(batch) + 1) + 1..Len(kept) : kept[c].norad # m
    BY <1>1, <1>4, <2>2
  <2> QED BY <2>3, <2>4 DEF Waits, kept
<1>6. CASE ~IsObject(n + 1, m)
  <2>1. i \in 1..n
    BY <1>1, <1>2, <1>6 DEF IsLast
  <2>2. IsLast(i, m, n)
    BY <1>1, <1>2 DEF IsLast
  <2>3. Waits(batch, i, m)
    BY <2>1, <2>2 DEF RowsWait
  <2>4. CASE kept = batch
    BY <2>3, <2>4
  <2>5. CASE kept = batch \o <<line>> /\ kept # batch
    <3>1. line # Comment
      BY <1>1, <2>5 DEF parseSatRecord
    <3>2. line.norad # m
      BY <1>1, <1>6, <3>1 DEF IsObject
    <3> HIDE DEF kept, line, n
    <3>3. \A c \in 1..Len(kept) : kept[c] = line \/ (c \in 1..Len(batch) /\ kept[c] = batch[c])
      BY <1>1, <1>4, <2>5
    <3>4. CASE \E b \in 1..Len(batch) : batch[b] = catalog[i] /\ \A c \in b + 1..Len(batch) : batch[c].norad # m
      <4>1. PICK b \in 1..Len(batch) : batch[b] = catalog[i] /\ \A c \in b + 1..Len(batch) : batch[c].norad # m
        BY <3>4
      <4>2. b \in 1..Len(kept) /\ kept[b] = catalog[i]
        BY <1>1, <1>4, <2>5, <4>1
      <4>3. ASSUME NEW c \in b + 1..Len(kept) PROVE kept[c].norad # m
        <5>1. c \in 1..Len(kept) /\ (c \in 1..Len(batch) => c \in b + 1..Len(batch))
          BY <1>1, <1>4, <2>5, <4>1
        <5> QED BY <3>2, <3>3, <4>1, <5>1
      <4> QED BY <4>2, <4>3 DEF Waits, kept, line
    <3>5. CASE /\ \A c \in 1..Len(batch) : batch[c].norad # m
               /\ dryRun \/ satellite_meta[m] = catalog[i].data
      BY <3>2, <3>3, <3>5 DEF Waits, kept, line
    <3> QED BY <2>3, <3>4, <3>5 DEF Waits
  <2> QED BY <1>3, <2>4, <2>5
<1> QED BY <1>5, <1>6

\* When the rows have been inserted the table shows the row that waited.
LEMMA InsertedIsShown ==
  ASSUME NEW kept, kept \in Seq(ToSet(kept)), NEW m \in Norads, NEW i, catalog[i].norad = m,
         Waits(kept, i, m), ~dryRun
  PROVE  InsertedRows(kept)[m] = catalog[i].data
<1>1. CASE \E b \in 1..Len(kept) : kept[b] = catalog[i] /\ \A c \in b + 1..Len(kept) : kept[c].norad # m
  <2>1. PICK b \in 1..Len(kept) : kept[b] = catalog[i] /\ \A c \in b + 1..Len(kept) : kept[c].norad # m
    BY <1>1
  <2> QED BY <2>1, InsertedRow
<1>2. CASE /\ \A c \in 1..Len(kept) : kept[c].norad # m
           /\ satellite_meta[m] = catalog[i].data
  BY <1>2, InsertedRow
<1> QED BY <1>1, <1>2 DEF Waits

LEMMA LeaveCatalog ==
  ASSUME SInv, CatalogTyped', ResultLast',
         target' # "satellites" \/ (step' \in {"returned", "start"} /\ result' # "ok")
  PROVE  SInv'
BY DEF SInv, RowsWait, CatalogLoaded

LEMMA CatalogStays == CatalogTyped /\ UNCHANGED <<scan, catalog, batch>> => CatalogTyped'
BY DEF CatalogTyped

LEMMA SameCatalog ==
  ASSUME SInv, UNCHANGED satelliteVars, UNCHANGED <<target, step, result, dryRun>>
  PROVE  SInv'
<1>1. CatalogTyped' /\ ResultLast'
  BY CatalogStays DEF SInv, satelliteVars, ResultLast
<1>2. RowsWait' /\ CatalogLoaded'
  BY DEF SInv, RowsWait, CatalogLoaded, IsLast, IsObject, Waits, satelliteVars
<1> QED BY <1>1, <1>2 DEF SInv

LEMMA NoRows == ToSet(<<>>) = {} /\ <<>> \in Seq(ToSet(<<>>)) /\ Len(<<>>) = 0
BY DEF ToSet

LEMMA StartSatelliteLoads ==
  ASSUME SInv, ResultLast', NEW served \in Catalogs, StartSatellite(served)
  PROVE  SInv'
<1>1. CASE Return("error") /\ UNCHANGED <<scan, catalog, batch>>
  BY <1>1, CatalogStays, LeaveCatalog DEF SInv, Return
<1>2. CASE scan' = served /\ catalog' = served /\ batch' = <<>> /\ Goto("scanning")
  <2>1. served \in Seq(ToSet(served)) /\ \A line \in ToSet(served) : line # Comment => line.norad \in Norads
    BY CatalogsAssumption
  <2>2. EndOf(scan', catalog') /\ Len(catalog') - Len(scan') = 0
    BY <1>2, <2>1, WholeIsUnread
  <2>3. CatalogTyped'
    BY <1>2, <2>1, <2>2, NoRows DEF CatalogTyped
  <2>4. result' = "none"
    BY <1>2 DEF Goto, StartSatellite, At, SInv, ResultLast
  <2> QED BY <2>2, <2>3, <2>4 DEF SInv, RowsWait, CatalogLoaded
<1> QED BY <1>1, <1>2 DEF StartSatellite

LEMMA ScanLineLoads ==
  ASSUME SInv, ResultLast', ScanLine
  PROVE  SInv'
<1> DEFINE kept == batch \o parseSatRecord(Head(scan))
           n == Len(catalog) - Len(Tail(scan))
<1>1. /\ target = "satellites" /\ step = "scanning" /\ scan # <<>> /\ result = "none"
      /\ scan' = Tail(scan) /\ catalog' = catalog
  BY DEF ScanLine, At, SInv, ResultLast
<1>2. EndOf(scan', catalog')
  BY <1>1, EndOfTail DEF SInv, CatalogTyped
<1>3. kept \in Seq(ToSet(kept))
  <2>1. batch \in Seq(ToSet(batch)) /\ batch \o <<>> = batch
    BY DEF SInv, CatalogTyped
  <2>2. kept \in {batch, batch \o <<Head(scan)>>}
    BY <2>1 DEF parseSatRecord
  <2>3. batch \o <<Head(scan)>> \in Seq(ToSet(batch \o <<Head(scan)>>))
    BY <2>1, OneMore
  <2> HIDE DEF kept
  <2> QED BY <2>1, <2>2, <2>3
<1>4. \A m \in Norads \ {0} : \A i \in 1..n : IsLast(i, m, n) => Waits(kept, i, m)
  BY <1>1, NextWaits DEF SInv
<1> HIDE DEF kept
<1>5. CASE Return("error")
  <2>1. batch' \in {batch, kept, <<>>}
    BY DEF ScanLine, kept
  <2>2. CatalogTyped'
    BY <1>1, <1>2, <1>3, <2>1, NoRows DEF SInv, CatalogTyped
  <2> QED BY <1>5, <2>2, LeaveCatalog DEF Return
<1>6. CASE UNCHANGED runVars /\ batch' = kept /\ UNCHANGED satellite_meta
  <2>1. CatalogTyped'
    BY <1>1, <1>2, <1>3, <1>6 DEF SInv, CatalogTyped
  <2>2. UNCHANGED <<target, step, result, dryRun>>
    BY <1>6 DEF runVars
  <2>3. RowsWait'
    BY <1>1, <1>4, <1>6, <2>2 DEF RowsWait, IsLast, IsObject, Waits
  <2> QED BY <1>1, <2>1, <2>2, <2>3 DEF SInv, CatalogLoaded
<1>7. CASE /\ UNCHANGED runVars /\ batch' = <<>>
           /\ satellite_meta' = IF dryRun THEN satellite_meta ELSE InsertedRows(kept)
  <2>1. CatalogTyped'
    BY <1>1, <1>2, <1>7, NoRows DEF SInv, CatalogTyped
  <2>2. UNCHANGED <<target, step, result, dryRun>>
    BY <1>7 DEF runVars
  <2>3. ASSUME NEW m \in Norads \ {0}, NEW i \in 1..n, IsLast(i, m, n)
        PROVE  dryRun \/ satellite_meta'[m] = catalog[i].data
    <3>1. Waits(kept, i, m) /\ catalog[i].norad = m
      BY <1>4, <2>3 DEF IsLast, IsObject
    <3> QED BY <1>3, <1>7, <3>1, InsertedIsShown
  <2>4. RowsWait'
    <3> SUFFICES ASSUME NEW m \in Norads \ {0}, NEW i \in 1..n, IsLast(i, m, n)
                 PROVE  Waits(batch, i, m)'
      BY <1>1 DEF RowsWait, IsLast, IsObject
    <3>1. 1..Len(batch') = {}
      BY <1>7, NoRows
    <3> QED BY <1>1, <2>2, <2>3, <3>1 DEF Waits
  <2> QED BY <1>1, <2>1, <2>2, <2>4 DEF SInv, CatalogLoaded
<1> QED BY <1>5, <1>6, <1>7 DEF ScanLine, InsertSatelliteBatch, kept

\* The catalog has been read: the open batch is empty, or inserted.
LEMMA ScanEndsLoads ==
  ASSUME SInv, ResultLast', ScanEnds
  PROVE  SInv'
<1>1. /\ target = "satellites" /\ step = "scanning" /\ scan = <<>>
      /\ UNCHANGED <<scan, batch, catalog>> /\ CatalogTyped'
  BY CatalogStays DEF ScanEnds, At, SInv
<1>2. Len(catalog) \in Nat /\ Len(catalog) - Len(scan) = Len(catalog) /\ batch \in Seq(ToSet(batch))
  BY <1>1, NoRows DEF SInv, CatalogTyped, EndOf
<1>3. CASE Return("error")
  BY <1>1, <1>3, LeaveCatalog DEF Return
<1>4. CASE /\ Return("ok")
           /\ \/ batch = <<>> /\ UNCHANGED satellite_meta
              \/ satellite_meta' = IF dryRun THEN satellite_meta ELSE InsertedRows(batch)
  <2>1. UNCHANGED <<target, dryRun>> /\ step' = "returned"
    BY <1>4 DEF Return
  <2>2. CatalogLoaded'
    <3> SUFFICES ASSUME ~dryRun, NEW m \in Norads \ {0}, NEW i \in 1..Len(catalog),
                        IsLast(i, m, Len(catalog))
                 PROVE  satellite_meta'[m] = catalog[i].data
      BY <1>1, <2>1 DEF CatalogLoaded, IsLast, IsObject
    <3>1. Waits(batch, i, m) /\ catalog[i].norad = m
      BY <1>1, <1>2 DEF SInv, RowsWait, IsLast, IsObject
    <3>2. CASE batch = <<>> /\ UNCHANGED satellite_meta
      <4>1. 1..Len(batch) = {}
        BY <3>2, NoRows
      <4> QED BY <3>1, <3>2, <4>1 DEF Waits
    <3>3. CASE satellite_meta' = InsertedRows(batch)
      BY <1>2, <3>1, <3>3, InsertedIsShown
    <3> QED BY <1>4, <3>2, <3>3
  <2> QED BY <1>1, <2>1, <2>2 DEF SInv, RowsWait
<1> QED BY <1>3, <1>4 DEF ScanEnds, InsertSatelliteBatch

LEMMA StepSInv == SInv /\ [Next]_vars => SInv'
<1> SUFFICES ASSUME SInv, [Next]_vars PROVE SInv'
  OBVIOUS
<1>1. ResultLast'
  BY StepResultLast DEF SInv
<1>2. CASE NextSatellite
  <2>1. ASSUME NEW half, ScanFails(half) PROVE SInv'
    BY <1>1, <2>1, CatalogStays, LeaveCatalog DEF ScanFails, Return, SInv
  <2> QED
    BY <1>1, <1>2, <2>1, StartSatelliteLoads, ScanLineLoads, ScanEndsLoads DEF NextSatellite
<1>3. CASE NextCables /\ UNCHANGED satelliteVars
  <2>1. target # "satellites" /\ target' = target
    BY <1>3 DEF NextCables, MergeCables, InsertCableBatch, InsertLandingBatch, CablesDone, At, Goto,
      Return, runVars
  <2> QED BY <1>1, <1>3, <2>1, CatalogStays, LeaveCatalog DEF SInv, satelliteVars
<1>4. CASE Again /\ UNCHANGED satelliteVars
  BY <1>1, <1>4, CatalogStays, LeaveCatalog DEF SInv, Again, satelliteVars
<1>5. CASE (Signal /\ UNCHANGED satelliteVars) \/ UNCHANGED vars
  BY <1>5, SameCatalog DEF Signal, vars, runVars
<1>6. CASE NextAircraft /\ UNCHANGED satelliteVars
  <2>1. target' = target
    BY <1>6 DEF NextAircraft, StartAircraft, DownloadBreaks, ReadFails, ReadRecord, ReadEOF,
      QueryImages, InsertAircraftBatch, AircraftDone, MergeParts, WriteImage, Goto, Return, runVars
  <2>2. CASE target # "satellites"
    BY <1>1, <1>6, <2>1, <2>2, CatalogStays, LeaveCatalog DEF SInv, satelliteVars
  <2>3. CASE target = "satellites"
    <3>1. UNCHANGED runVars
      BY <1>6, <2>3 DEF NextAircraft, StartAircraft, DownloadBreaks, ReadFails, ReadRecord, ReadEOF,
        QueryImages, InsertAircraftBatch, AircraftDone, MergeParts, WriteImage, At
    <3> QED BY <1>6, <3>1, SameCatalog DEF runVars
  <2> QED BY <2>2, <2>3
<1> QED BY <1>2, <1>3, <1>4, <1>5, <1>6 DEF Next

LEMMA InitSInv == Init => SInv
<1> SUFFICES ASSUME Init PROVE SInv
  OBVIOUS
<1>1. CatalogTyped
  BY NoRows, WholeIsUnread DEF Init, InitSatellite, CatalogTyped
<1> QED BY <1>1 DEF Init, InitRun, SInv, ResultLast, RowsWait, CatalogLoaded

\* A refresh of the aircraft or of the satellites that returns without an error has
\* the last record of every address of its file, or the last row of every NORAD
\* number of its catalog, in its table: for every source, every size of a batch, and
\* whatever an earlier refresh that failed half-way has left.
THEOREM LatestLoaded == Spec => []LatestIsLoaded
<1>1. LInv /\ SInv => LatestIsLoaded
  <2> SUFFICES ASSUME LInv, SInv, result = "ok", ~dryRun PROVE LatestIsLoaded
    BY DEF LatestIsLoaded
  <2>1. ASSUME target = "airlines", NEW i \in DOMAIN csv, Parsed(csv[i])
        PROVE  Shown(csv[i].icao24).data \in
                 {csv[j].data : j \in {k \in i..Len(csv) : Parsed(csv[k]) /\ csv[k].icao24 = csv[i].icao24
                    /\ \A l \in k + 1..Len(csv) : Parsed(csv[l]) => csv[l].icao24 # csv[i].icao24}}
    <3> DEFINE a == csv[i].icao24
    <3>1. i \in 1..Len(csv) /\ Len(csv) \in Nat /\ csv[i] \in ToSet(csv)
      BY DEF LInv, FileTyped, EndOf, ToSet
    <3>2. a \in Icao24 /\ IsRecord(i, a)
      BY <2>1, <3>1 DEF LInv, FileTyped, IsRecord
    <3>3. Shown(a).data \in LastData(a, Len(csv))
      BY <2>1, <3>1, <3>2 DEF LInv, AircraftLoaded
    <3> HIDE DEF a
    <3>4. PICK k \in 1..Len(csv) : /\ IsRecord(k, a) /\ \A l \in k + 1..Len(csv) : ~IsRecord(l, a)
                                   /\ Shown(a).data = csv[k].data
      BY <3>3 DEF LastData
    <3>5. k \in i..Len(csv)
      <4>1. CASE k < i
        <5>1. i \in k + 1..Len(csv)
          BY <3>1, <4>1
        <5> QED BY <3>2, <3>4, <5>1
      <4> QED BY <3>1, <4>1
    <3> QED BY <3>4, <3>5 DEF IsRecord, a
  <2>2. ASSUME target = "satellites", NEW i \in DOMAIN catalog, catalog[i] # Comment,
               catalog[i].norad # 0,
               ~ \E j \in i + 1..Len(catalog) : catalog[j] # Comment /\ catalog[j].norad = catalog[i].norad
        PROVE  satellite_meta[catalog[i].norad] = catalog[i].data
    <3>1. i \in 1..Len(catalog) /\ catalog[i] \in ToSet(catalog)
      BY DEF SInv, CatalogTyped, EndOf, ToSet
    <3>2. catalog[i].norad \in Norads \ {0}
      BY <2>2, <3>1 DEF SInv, CatalogTyped
    <3>3. IsLast(i, catalog[i].norad, Len(catalog))
      BY <2>2 DEF IsLast, IsObject
    <3> QED BY <2>2, <3>1, <3>2, <3>3 DEF SInv, CatalogLoaded
  <2> QED BY <2>1, <2>2 DEF LatestIsLoaded
<1> QED
  BY <1>1, InitAInv, StepAInv, InitLInv, StepLInv, InitSInv, StepSInv, PTL DEF Spec
-----------------------------------------------------------------------------
(* The choice of a way.  A loop is a recursive function of its passes: it    *)
(* exists (LoopExists), and what holds before the first pass and is kept by  *)
(* each holds after the last (Passes).  Both are inductions with the set of  *)
(* the passes for which the claim holds.                                     *)

LEMMA Passes ==
  ASSUME NEW n \in Nat, NEW P, 0 \in P, \A i \in 1..n : i - 1 \in P => i \in P
  PROVE  \A i \in 0..n : i \in P
<1> DEFINE Bad == {i \in 0..n : i \notin P}
<1> SUFFICES ASSUME Bad # {} PROVE FALSE
  OBVIOUS
<1>1. Bad \in SUBSET Nat
  OBVIOUS
<1>2. PICK i \in Bad : \A j \in Bad : i <= j
  <2> HIDE DEF Bad
  <2> QED BY <1>1, LeastNat
<1>3. i \in 1..n /\ i - 1 \in 0..n
  OBVIOUS
<1>4. i - 1 \in P
  BY <1>2, <1>3
<1> QED BY <1>2, <1>3, <1>4

HasLoop(n, S, base, body) ==
  \E f \in [0..n -> S] : f[0] = base /\ \A i \in 1..n : f[i] = body[i][f[i - 1]]

LEMMA LoopExists ==
  ASSUME NEW n \in Nat, NEW S, NEW base \in S, NEW body \in [1..n -> [S -> S]]
  PROVE  HasLoop(n, S, base, body)
<1> DEFINE Upto(m) == \E f \in [0..n -> S] : f[0] = base /\ \A i \in 1..m : f[i] = body[i][f[i - 1]]
           P == {m \in 0..n : Upto(m)}
<1>1. 0 \in P
  <2> DEFINE f == [i \in 0..n |-> base]
  <2>1. f \in [0..n -> S] /\ f[0] = base /\ \A i \in 1..0 : f[i] = body[i][f[i - 1]]
    OBVIOUS
  <2>2. 0 \in 0..n
    OBVIOUS
  <2> QED BY <2>1, <2>2
<1>2. ASSUME NEW m \in 1..n, m - 1 \in P PROVE m \in P
  <2>1. PICK f \in [0..n -> S] : f[0] = base /\ \A i \in 1..m - 1 : f[i] = body[i][f[i - 1]]
    BY <1>2
  <2> DEFINE g == [f EXCEPT ![m] = body[m][f[m - 1]]]
  <2>2. m - 1 \in 0..n /\ f[m - 1] \in S /\ body[m][f[m - 1]] \in S
    OBVIOUS
  <2>3. g \in [0..n -> S] /\ g[0] = base
    BY <2>1, <2>2
  <2>4. ASSUME NEW i \in 1..m PROVE g[i] = body[i][g[i - 1]]
    <3>1. i - 1 # m /\ i - 1 \in 0..n /\ g[i - 1] = f[i - 1]
      OBVIOUS
    <3>2. CASE i = m
      BY <3>1, <3>2
    <3>3. CASE i # m
      BY <2>1, <3>1, <3>3
    <3> QED BY <3>2, <3>3
  <2> HIDE DEF g
  <2>5. Upto(m)
    BY <2>3, <2>4
  <2> QED BY <2>5
<1>3. \A i \in 0..n : i \in P
  <2> HIDE DEF P
  <2> QED BY <1>1, <1>2, Passes
<1>4. n \in P
  <2> HIDE DEF P
  <2> QED BY <1>3
<1> QED BY <1>4 DEF HasLoop

\* The points of a way that are in the answer are a sequence.
LEMMA CoordsTyped ==
  ASSUME NEW way, way.nodes \in Seq(ToSet(way.nodes)), NEW nodes, NEW o \in parseOSMWay(way, nodes)
  PROVE  Len(o.Coords) \in Nat
<1> DEFINE n == Len(way.nodes)
           S == Seq(ToSet(way.nodes))
           body == [i \in 1..n |-> [s \in S |-> IF way.nodes[i] \in nodes THEN Append(s, way.nodes[i]) ELSE s]]
           next(f, i) == IF i = 0 THEN <<>>
                         ELSE IF way.nodes[i] \in nodes THEN Append(f[i - 1], way.nodes[i]) ELSE f[i - 1]
           found == CHOOSE f : f = [i \in 0..n |-> next(f, i)]
           none == <<>>
<1>1. o.Coords = found[n]
  BY DEF parseOSMWay
<1>2. n \in Nat /\ none \in S /\ body \in [1..n -> [S -> S]]
  <2>1. n \in Nat /\ \A i \in 1..n : way.nodes[i] \in ToSet(way.nodes)
    OBVIOUS
  <2>2. ASSUME NEW i \in 1..n, NEW s \in S
        PROVE  (IF way.nodes[i] \in nodes THEN Append(s, way.nodes[i]) ELSE s) \in S
    <3>1. Append(s, way.nodes[i]) \in S
      BY <2>1
    <3> HIDE DEF S, n
    <3> QED BY <3>1
  <2>3. none \in S
    OBVIOUS
  <2> HIDE DEF S, n
  <2> QED BY <2>1, <2>2, <2>3
<1>3. PICK f \in [0..n -> S] : f[0] = none /\ \A i \in 1..n : f[i] = body[i][f[i - 1]]
  <2> HIDE DEF body, S, n, none
  <2>1. HasLoop(n, S, none, body)
    BY <1>2, LoopExists
  <2> QED BY <2>1 DEF HasLoop
<1>4. f = [i \in 0..n |-> next(f, i)]
  <2>1. ASSUME NEW i \in 0..n PROVE f[i] = next(f, i)
    <3>1. CASE i # 0
      <4>1. i \in 1..n /\ i - 1 \in 0..n
        BY <1>2, <3>1
      <4>2. f[i - 1] \in S
        <5> HIDE DEF S, n
        <5> QED BY <1>3, <4>1
      <4> QED BY <1>3, <3>1, <4>1, <4>2
    <3> QED BY <1>3, <3>1
  <2> HIDE DEF next, S, body
  <2> QED BY <2>1
<1>5. found = [i \in 0..n |-> next(found, i)]
  <2> HIDE DEF next
  <2> QED BY <1>4
<1>6. \A i \in 0..n : i \in {j \in 0..n : found[j] \in S}
  <2> DEFINE P == {j \in 0..n : found[j] \in S}
  <2>1. 0 \in P
    <3>1. found[0] = next(found, 0)
      <4>1. 0 \in 0..n
        OBVIOUS
      <4> HIDE DEF next, found, n
      <4> QED BY <1>5, <4>1
    <3> HIDE DEF found, S, n
    <3> QED BY <1>2, <3>1
  <2>2. ASSUME NEW i \in 1..n, i - 1 \in P PROVE i \in P
    <3>1. found[i] = next(found, i) /\ i \in 0..n /\ i # 0
      <4>1. i \in 0..n /\ i # 0
        OBVIOUS
      <4> HIDE DEF next, found, n
      <4> QED BY <1>5, <4>1
    <3> HIDE DEF found
    <3>2. way.nodes[i] \in ToSet(way.nodes) /\ found[i - 1] \in S
      BY <1>2, <2>2
    <3>3. Append(found[i - 1], way.nodes[i]) \in S
      BY <3>2
    <3>4. found[i] \in S
      <4> HIDE DEF S, n
      <4> QED BY <3>1, <3>2, <3>3
    <3> QED BY <3>1, <3>4
  <2> HIDE DEF P, found
  <2>3. \A i \in 0..n : i \in P
    BY <1>2, <2>1, <2>2, Passes
  <2> QED BY <2>3 DEF P
<1> HIDE DEF found, n
<1>7. found[n] \in S
  BY <1>2, <1>6
<1> QED BY <1>1, <1>7

LEMMA ParsedFinite ==
  ASSUME NEW body \in OverpassBodies
  PROVE  /\ IsFiniteSet(ParseOverpassBody(body))
         /\ \A o \in ParseOverpassBody(body) : Len(o.Coords) \in Nat
<1> DEFINE f == [way \in body.ways |-> parseOSMWay(way, body.nodes)]
           T == {parseOSMWay(way, body.nodes) : way \in body.ways}
<1>1. IsFiniteSet(body.ways) /\ \A way \in body.ways : way.nodes \in Seq(ToSet(way.nodes))
  BY BodiesAssumption
<1>2. IsFiniteSet(T)
  <2>1. f \in Surjection(body.ways, T)
    BY DEF Surjection
  <2> HIDE DEF f, T
  <2> QED BY <1>1, <2>1, FS_Surjection
<1>3. ASSUME NEW U \in T PROVE IsFiniteSet(U)
  <2>1. PICK way \in body.ways : U = parseOSMWay(way, body.nodes)
    OBVIOUS
  <2>2. U = {} \/ \E o : U = {o}
    BY <2>1, Zenon DEF parseOSMWay
  <2> QED BY <2>2, FS_EmptySet, FS_Singleton
<1>4. IsFiniteSet(UNION T)
  <2> HIDE DEF T
  <2> QED BY <1>2, <1>3, FS_UNION
<1>5. \A o \in ParseOverpassBody(body) : Len(o.Coords) \in Nat
  BY <1>1, CoordsTyped DEF ParseOverpassBody
<1> QED BY <1>4, <1>5 DEF ParseOverpassBody

\* An order of the candidates has them all.
LEMMA OrderIsComplete ==
  ASSUME NEW S, IsFiniteSet(S), NEW order \in SetToSeqs(S)
  PROVE  /\ order \in [1..Len(order) -> S] /\ Len(order) \in Nat
         /\ \A o \in S : \E i \in 1..Len(order) : order[i] = o
<1> DEFINE n == Cardinality(S)
<1>1. n \in Nat /\ IsFiniteSet(1..n) /\ Cardinality(1..n) = n
  <2>1. n \in Nat
    BY FS_CardinalityType
  <2>2. 1 \in Int /\ n \in Int /\ (IF 1 > n THEN 0 ELSE n - 1 + 1) = n
    BY <2>1
  <2> HIDE DEF n
  <2> QED BY <2>1, <2>2, FS_Interval
<1>2. order \in [1..n -> S] /\ \A i, j \in 1..n : i # j => order[i] # order[j]
  BY DEF SetToSeqs
<1>3. order \in Injection(1..n, S)
  BY <1>2 DEF Injection, IsInjective
<1>4. order \in Surjection(1..n, S)
  <2> HIDE DEF n
  <2> QED BY <1>1, <1>3, FS_Injection DEF n
<1>5. Len(order) = n
  <2> HIDE DEF n
  <2>1. order \in Seq(S)
    BY <1>1, <1>2
  <2> QED BY <1>1, <1>2, <2>1
<1> HIDE DEF n
<1> QED BY <1>1, <1>2, <1>4, <1>5 DEF Surjection

LEMMA ScoreTyped ==
  ASSUME NEW c, NEW o
  PROVE  countNearbyLandings(c, o) \in Nat
<1> DEFINE near == {l \in BaselineLandings(c) : isLandingNearWay(l, o)}
<1>1. near \in SUBSET landings
  BY DEF BaselineLandings
<1>2. IsFiniteSet(near)
  <2> HIDE DEF near
  <2> QED BY <1>1, FS_Subset, LandingsAssumption
<1> QED BY <1>2, FS_CardinalityType DEF countNearbyLandings

\* The way x is as good for c as o.
AsGood(c, x, o) ==
  \/ countNearbyLandings(c, o) < countNearbyLandings(c, x)
  \/ /\ countNearbyLandings(c, o) = countNearbyLandings(c, x)
     /\ Len(o.Coords) <= Len(x.Coords)

\* After each pass nothing has been chosen and no candidate so far serves a landing,
\* or the choice is as good as every candidate so far.
BestSoFar(c, order, i, best) ==
  \/ best = {} /\ \A j \in 1..i : countNearbyLandings(c, order[j]) = 0
  \/ \E x \in ToSet(order) : best = {x} /\ \A j \in 1..i : AsGood(c, x, order[j])

LEMMA BetterKeepsBest ==
  ASSUME NEW c, NEW order, NEW i \in Nat \ {0}, NEW best, BestSoFar(c, order, i - 1, best),
         order[i] \in ToSet(order), \A o \in ToSet(order) : Len(o.Coords) \in Nat,
         \A j \in 1..i : order[j] \in ToSet(order)
  PROVE  BestSoFar(c, order, i, IF Better(c, order[i], best) THEN {order[i]} ELSE best)
<1> DEFINE s(o) == countNearbyLandings(c, o)
           next == IF Better(c, order[i], best) THEN {order[i]} ELSE best
<1>1. \A o : s(o) \in Nat
  BY ScoreTyped
<1>2. \A j \in 1..i : j = i \/ j \in 1..i - 1
  OBVIOUS
<1>3. CASE best = {} /\ \A j \in 1..i - 1 : s(order[j]) = 0
  <2>1. Better(c, order[i], best) <=> s(order[i]) > 0
    BY <1>3 DEF Better
  <2>2. CASE s(order[i]) > 0
    <3>1. \A j \in 1..i : AsGood(c, order[i], order[j])
      BY <1>1, <1>2, <1>3, <2>2 DEF AsGood
    <3> QED BY <2>1, <2>2, <3>1 DEF BestSoFar
  <2>3. CASE ~(s(order[i]) > 0)
    <3>1. \A j \in 1..i : s(order[j]) = 0
      BY <1>1, <1>2, <1>3, <2>3
    <3> QED BY <1>3, <2>1, <2>3, <3>1 DEF BestSoFar
  <2> QED BY <2>2, <2>3
<1>4. CASE \E x \in ToSet(order) : best = {x} /\ \A j \in 1..i - 1 : AsGood(c, x, order[j])
  <2>1. PICK x \in ToSet(order) : best = {x} /\ \A j \in 1..i - 1 : AsGood(c, x, order[j])
    BY <1>4
  <2>2. Better(c, order[i], best) <=> \/ s(order[i]) > s(x)
                                      \/ s(order[i]) = s(x) /\ Len(order[i].Coords) > Len(x.Coords)
    BY <2>1 DEF Better
  <2>3. /\ s(x) \in Nat /\ s(order[i]) \in Nat
        /\ Len(x.Coords) \in Nat /\ Len(order[i].Coords) \in Nat
    BY <1>1
  <2>4. ASSUME NEW j \in 1..i - 1, Better(c, order[i], best) PROVE AsGood(c, order[i], order[j])
    <3>1. AsGood(c, x, order[j]) /\ s(order[j]) \in Nat /\ Len(order[j].Coords) \in Nat
      BY <1>1, <2>1
    <3> QED BY <2>2, <2>3, <2>4, <3>1 DEF AsGood
  <2>5. CASE Better(c, order[i], best)
    <3>1. AsGood(c, order[i], order[i])
      BY <2>3 DEF AsGood
    <3>2. \A j \in 1..i : AsGood(c, order[i], order[j])
      BY <1>2, <2>4, <2>5, <3>1
    <3> QED BY <2>5, <3>2 DEF BestSoFar
  <2>6. CASE ~Better(c, order[i], best)
    <3>1. AsGood(c, x, order[i])
      BY <2>2, <2>3, <2>6 DEF AsGood
    <3>2. \A j \in 1..i : AsGood(c, x, order[j])
      BY <1>2, <2>1, <3>1
    <3> QED BY <2>1, <2>6, <3>2 DEF BestSoFar
  <2> QED BY <2>5, <2>6
<1> QED BY <1>3, <1>4 DEF BestSoFar

\* The loop ends with the best of all the candidates.
LEMMA LoopFindsBest ==
  ASSUME NEW c, NEW n \in Nat, NEW order, order \in [1..n -> ToSet(order)], Len(order) = n,
         \A o \in ToSet(order) : Len(o.Coords) \in Nat
  PROVE  BestSoFar(c, order, n, BestOf(c, order))
<1> DEFINE S == SUBSET ToSet(order)
           body == [i \in 1..n |-> [b \in S |-> IF Better(c, order[i], b) THEN {order[i]} ELSE b]]
           next(f, i) == IF i = 0 THEN {}
                         ELSE IF Better(c, order[i], f[i - 1]) THEN {order[i]} ELSE f[i - 1]
           best == CHOOSE f : f = [i \in 0..n |-> next(f, i)]
           none == {}
<1>1. BestOf(c, order) = best[n]
  BY DEF BestOf
<1>2. none \in S /\ body \in [1..n -> [S -> S]]
  <2>1. ASSUME NEW i \in 1..n, NEW b \in S
        PROVE  (IF Better(c, order[i], b) THEN {order[i]} ELSE b) \in S
    <3>1. order[i] \in ToSet(order)
      OBVIOUS
    <3> QED BY <3>1
  <2> QED BY <2>1
<1>3. PICK f \in [0..n -> S] : f[0] = none /\ \A i \in 1..n : f[i] = body[i][f[i - 1]]
  <2> HIDE DEF body, S, none
  <2>1. HasLoop(n, S, none, body)
    BY <1>2, LoopExists
  <2> QED BY <2>1 DEF HasLoop
<1>4. f = [i \in 0..n |-> next(f, i)]
  <2>1. ASSUME NEW i \in 0..n PROVE f[i] = next(f, i)
    <3>1. CASE i # 0
      <4>1. i \in 1..n /\ f[i - 1] \in S
        BY <3>1
      <4> QED BY <1>3, <3>1, <4>1
    <3> QED BY <1>3, <3>1
  <2> HIDE DEF next, S, body
  <2> QED BY <2>1
<1>5. best = [i \in 0..n |-> next(best, i)]
  <2> HIDE DEF next
  <2> QED BY <1>4
<1> HIDE DEF best
<1> DEFINE P == {j \in 0..n : BestSoFar(c, order, j, best[j])}
<1>6. 0 \in P
  <2>1. best[0] = {} /\ 0 \in 0..n /\ 1..0 = {}
    BY <1>5
  <2> QED BY <2>1 DEF BestSoFar
<1>7. ASSUME NEW i \in 1..n, i - 1 \in P PROVE i \in P
  <2>1. best[i] = IF Better(c, order[i], best[i - 1]) THEN {order[i]} ELSE best[i - 1]
    <3>1. i \in 0..n /\ i # 0
      OBVIOUS
    <3>2. best[i] = next(best, i)
      <4> HIDE DEF next
      <4> QED BY <1>5, <3>1
    <3> QED BY <3>1, <3>2
  <2>2. BestSoFar(c, order, i - 1, best[i - 1]) /\ i \in Nat \ {0}
    BY <1>7
  <2>3. \A j \in 1..i : order[j] \in ToSet(order)
    OBVIOUS
  <2>4. BestSoFar(c, order, i, best[i])
    BY <2>1, <2>2, <2>3, BetterKeepsBest
  <2> QED BY <2>4
<1>8. \A i \in 0..n : i \in P
  <2> HIDE DEF P
  <2> QED BY <1>6, <1>7, Passes
<1>9. n \in P
  <2> HIDE DEF P
  <2> QED BY <1>8
<1> QED BY <1>1, <1>9

\* No row that Merge may return has a way that is not the best of its cable.
LEMMA MergeTakesBest ==
  ASSUME NEW body \in OverpassBodies, NEW ways, ways = ParseOverpassBody(body),
         NEW merged \in Merge(ways), NEW row \in merged.rows,
         NEW o \in collectOSMCandidates(row.CableID, ways)
  PROVE  AsGood(row.CableID, row.Way, o)
<1>1. PICK f \in [BaselineCables -> UNION {Rows(c, ways) : c \in BaselineCables}] :
        /\ \A c \in BaselineCables : f[c] \in Rows(c, ways)
        /\ merged = [rows |-> UNION {f[c] : c \in BaselineCables},
                     lands |-> UNION {BaselineLandings(c) :
                                        c \in {d \in BaselineCables : f[d] # {}}}]
  BY Zenon DEF Merge
<1>2. PICK c \in BaselineCables : row \in f[c]
  BY <1>1
<1>3. PICK best \in Bests(c, ways) :
        f[c] = {[CableID |-> c, Way |-> x] : x \in {b \in best : PolylineClearsLand(b.Coords)}}
  BY <1>1, Zenon DEF Rows
<1>4. PICK x \in best : row = [CableID |-> c, Way |-> x]
  BY <1>2, <1>3
<1> DEFINE Cs == collectOSMCandidates(c, ways)
<1>5. PICK order \in SetToSeqs(Cs) : best = BestOf(c, order)
  BY <1>3 DEF Bests
<1>6. IsFiniteSet(Cs) /\ \A y \in Cs : Len(y.Coords) \in Nat
  <2>1. Cs \in SUBSET ways
    BY DEF collectOSMCandidates
  <2> HIDE DEF Cs
  <2> QED BY <2>1, ParsedFinite, FS_Subset
<1> DEFINE n == Len(order)
<1>7. /\ order \in [1..n -> Cs] /\ n \in Nat
      /\ \A y \in Cs : \E i \in 1..n : order[i] = y
  <2> HIDE DEF Cs
  <2> QED BY <1>5, <1>6, OrderIsComplete
<1>8. ToSet(order) = Cs
  <2> HIDE DEF Cs
  <2> QED BY <1>7 DEF ToSet
<1>9. BestSoFar(c, order, n, BestOf(c, order))
  <2> HIDE DEF Cs
  <2> QED BY <1>6, <1>7, <1>8, LoopFindsBest
<1>10. \A j \in 1..n : AsGood(c, x, order[j])
  BY <1>4, <1>5, <1>9 DEF BestSoFar
<1>11. row.CableID = c /\ row.Way = x
  BY <1>4
<1> QED BY <1>7, <1>10, <1>11

\* Whatever the order of the maps, a cable never gets a way when another one with one
\* of its names serves more of its landings, or as many with more points.
THEOREM MergePicksBest == Spec => []RowIsBest
<1>1. Init => RowIsBest
  BY DEF Init, InitCables, RowIsBest
<1>2. RowIsBest /\ [Next]_vars => RowIsBest'
  <2> SUFFICES ASSUME RowIsBest, [Next]_vars PROVE RowIsBest'
    OBVIOUS
  <2>1. CASE UNCHANGED <<osm, rows>>
    BY <2>1 DEF RowIsBest
  <2>2. ASSUME NEW body \in OverpassBodies, osm' = ParseOverpassBody(body),
               NEW merged \in Merge(osm'), rows' = merged.rows
        PROVE  RowIsBest'
    <3> SUFFICES ASSUME NEW row \in rows', NEW o \in collectOSMCandidates(row.CableID, osm')
                 PROVE  AsGood(row.CableID, row.Way, o)
      BY DEF RowIsBest, AsGood
    <3> QED BY <2>2, MergeTakesBest
  <2>3. CASE \E body \in OverpassBodies : MergeCables(body)
    BY <2>1, <2>2, <2>3 DEF MergeCables
  <2>4. [Next]_vars => (\E body \in OverpassBodies : MergeCables(body)) \/ UNCHANGED <<osm, rows>>
    BY DEF Next, NextCables, InsertCableBatch, InsertLandingBatch, CablesDone, cableVars, vars
  <2> QED BY <2>1, <2>3, <2>4
<1> QED BY <1>1, <1>2, PTL DEF Spec
=============================================================================
