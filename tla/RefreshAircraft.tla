---------------------------- MODULE RefreshAircraft ----------------------------
(***************************************************************************)
(* refresh --target airlines: DiscoverLatestAircraftCSV                    *)
(* (internal/refresh/discover.go) and Aircraft (aircraft.go), which parses *)
(* the whole CSV, takes over the images the table has, and inserts.        *)
(* aircraft_meta is a ReplacingMergeTree: a key has all the versions of    *)
(* its row that no merge has dropped yet, and a query without FINAL, the   *)
(* one Aircraft makes, sees them all.  Nothing in this repository writes   *)
(* an image but to take it over: the writer is external.                   *)
(***************************************************************************)
EXTENDS RefreshRun

CONSTANTS
  Listings,       \* what the bucket may list: sequences of its objects
  Icao24,         \* the addresses of the files' records
  NoIcao24,       \* a record without one
  Malformed,      \* a line encoding/csv refuses
  Images, NoImage,
  minAircraftCSVSize,
  MaxImageWrites  \* bound on the external writes

VARIABLES
  lines,          \* the lines of the CSV still to read
  broken,         \* the download has failed: every further read fails
  allAircraft,    \* parsed so far: icao24 -> [data, image], or NoRow
  todo,           \* the keys still to insert
  aircraft_meta,  \* icao24 -> the versions of its row, oldest first
  writes,         \* external image writes so far
  csv,            \* history: the lines of the file being loaded
  carried         \* history: icao24 -> the image this refresh has to carry over
aircraftVars == <<lines, broken, allAircraft, todo, aircraft_meta, writes, csv, carried>>

NoRow == [data |-> 0, image |-> NoImage]

Parsed(line) == line # Malformed /\ line.icao24 # NoIcao24

\* A file is a sequence of lines; the data of a record is not that of NoRow.
ASSUME ListingsAssumption ==
  \A listing \in Listings : \A object \in ToSet(listing) :
    /\ object.lines \in Seq(ToSet(object.lines))
    /\ \A line \in ToSet(object.lines) : Parsed(line) => line.icao24 \in Icao24 /\ line.data # 0

InitAircraft ==
  /\ lines = <<>> /\ broken = FALSE /\ csv = <<>>
  /\ allAircraft = [a \in Icao24 |-> NoRow] /\ todo = {}
  /\ aircraft_meta = [a \in Icao24 |-> <<>>]
  /\ writes = 0 /\ carried = [a \in Icao24 |-> NoImage]

\* The most recently modified large enough aircraft CSV, the first of them if there
\* are more; none is an error.
DiscoverLatestAircraftCSV(listing) ==
  LET large == {i \in DOMAIN listing : listing[i].csv /\ listing[i].size >= minAircraftCSVSize}
      Newer(i, j) == \/ listing[i].modified > listing[j].modified
                     \/ listing[i].modified = listing[j].modified /\ i < j
  IN  {listing[i] : i \in {k \in large : \A j \in large \ {k} : Newer(k, j)}}

\* Discovery, then the token, the connection and the download, any of which may
\* fail; allAircraft is a new map.
StartAircraft(listing) ==
  /\ At("airlines", "start")
  /\ \/ /\ \E best \in DiscoverLatestAircraftCSV(listing) : lines' = best.lines /\ csv' = best.lines
        /\ broken' = FALSE
        /\ allAircraft' = [a \in Icao24 |-> NoRow]
        /\ carried' = [a \in Icao24 |-> NoImage]
        /\ Goto("reading")
        /\ UNCHANGED <<todo, aircraft_meta, writes>>
     \/ Return("error") /\ UNCHANGED aircraftVars

\* The connection breaks, or the client's 5 minutes are over.
DownloadBreaks ==
  /\ At("airlines", "reading") /\ ~broken
  /\ broken' = TRUE
  /\ UNCHANGED <<runVars, lines, allAircraft, todo, aircraft_meta, writes, csv, carried>>

\* Mutant of ReadFails: the context is not looked at.
ReadFails_NoContext ==
  /\ At("airlines", "reading")
  /\ broken \/ signalled
  /\ UNCHANGED <<runVars, aircraftVars>>

\* Any error but EOF is taken for a bad record and the loop goes on: on a broken
\* body for ever, unless the context is cancelled, which also ends the body.
ReadFails ==
  /\ At("airlines", "reading")
  /\ broken \/ signalled
  /\ IF signalled THEN Return("error") ELSE UNCHANGED runVars
  /\ UNCHANGED aircraftVars

\* A line that is no record is skipped; a record replaces an earlier one of the
\* same address, and the context is looked at after it.
ReadRecord ==
  /\ At("airlines", "reading")
  /\ ~broken /\ lines # <<>>
  /\ LET line == Head(lines)
     IN  IF ~Parsed(line)
         THEN UNCHANGED <<runVars, allAircraft>>
         ELSE /\ allAircraft' = [allAircraft EXCEPT ![line.icao24] = [NoRow EXCEPT !.data = line.data]]
              /\ IF signalled THEN Return("error") ELSE UNCHANGED runVars
  /\ lines' = Tail(lines)
  /\ UNCHANGED <<broken, todo, aircraft_meta, writes, csv, carried>>

Loaded == {a \in Icao24 : allAircraft[a] # NoRow}

ReadEOF ==
  /\ At("airlines", "reading")
  /\ ~broken /\ lines = <<>>
  /\ todo' = Loaded
  /\ Goto(IF dryRun THEN "inserting" ELSE "query")
  /\ UNCHANGED <<lines, broken, allAircraft, aircraft_meta, writes, csv, carried>>

-----------------------------------------------------------------------------
Shown(a) == Last(aircraft_meta[a])

\* The images the rows of a have in the table, merged or not.
ImagesOf(a) == {v.image : v \in ToSet(aircraft_meta[a])} \ {NoImage}

\* Mutant of WithImages: the rows are inserted as the CSV has them.
WithImages_None(image) == allAircraft

\* The parsed aircraft with the image of the version that came last in the result.
WithImages(image) ==
  [a \in Icao24 |-> IF a \in Loaded /\ image[a] # NoImage
                    THEN [allAircraft[a] EXCEPT !.image = image[a]] ELSE allAircraft[a]]

\* queryExistingImages and the loop that takes its images over.  An aircraft has
\* an image to carry over when its versions agree on it.
QueryImages ==
  /\ At("airlines", "query")
  /\ \/ /\ \E image \in [Icao24 -> Images \cup {NoImage}] :
             /\ \A a \in Icao24 : IF ImagesOf(a) = {} THEN image[a] = NoImage ELSE image[a] \in ImagesOf(a)
             /\ allAircraft' = WithImages(image)
        /\ carried' = [a \in Icao24 |-> IF aircraft_meta[a] # <<>> /\ ImagesOf(a) = {Shown(a).image}
                                        THEN Shown(a).image ELSE NoImage]
        /\ Goto("inserting")
        /\ UNCHANGED <<lines, broken, todo, aircraft_meta, writes, csv>>
     \/ Return("error") /\ UNCHANGED aircraftVars

Inserted(batch) ==
  [a \in Icao24 |-> IF a \in batch THEN Append(aircraft_meta[a], allAircraft[a]) ELSE aircraft_meta[a]]

\* A full batch, after which the context is looked at, or the final one.
InsertAircraftBatch ==
  /\ At("airlines", "inserting") /\ todo # {}
  /\ \E batch \in Batches(todo) :
       \/ /\ todo' = todo \ batch
          /\ aircraft_meta' = IF dryRun THEN aircraft_meta ELSE Inserted(batch)
          /\ IF signalled /\ Cardinality(batch) = batchSize THEN Return("error") ELSE UNCHANGED runVars
       \/ /\ ~dryRun \/ signalled
          /\ aircraft_meta' \in {aircraft_meta} \cup (IF dryRun THEN {} ELSE {Inserted(batch)})
          /\ Return("error")
          /\ UNCHANGED todo
  /\ UNCHANGED <<lines, broken, allAircraft, writes, csv, carried>>

AircraftDone ==
  /\ At("airlines", "inserting") /\ todo = {}
  /\ Return("ok")
  /\ UNCHANGED aircraftVars

-----------------------------------------------------------------------------
(* External: ClickHouse and the writer of the images.                       *)

MergeParts(a) ==
  /\ Len(aircraft_meta[a]) > 1
  /\ aircraft_meta' = [aircraft_meta EXCEPT ![a] = <<Last(@)>>]
  /\ UNCHANGED <<runVars, lines, broken, allAircraft, todo, writes, csv, carried>>

WriteImage(a, image) ==
  /\ target = "airlines" /\ writes < MaxImageWrites
  /\ aircraft_meta[a] # <<>>
  /\ aircraft_meta' = [aircraft_meta EXCEPT ![a] = Append(@, [Last(@) EXCEPT !.image = image])]
  /\ writes' = writes + 1
  /\ carried' = [carried EXCEPT ![a] = NoImage]
  /\ UNCHANGED <<runVars, lines, broken, allAircraft, todo, csv>>

NextAircraft ==
  \/ \E listing \in Listings : StartAircraft(listing)
  \/ DownloadBreaks \/ ReadFails \/ ReadRecord \/ ReadEOF
  \/ QueryImages
  \/ InsertAircraftBatch \/ AircraftDone
  \/ \E a \in Icao24 : MergeParts(a) \/ \E image \in Images : WriteImage(a, image)

\* What Aircraft itself does next.
AircraftStep ==
  \/ \E listing \in Listings : StartAircraft(listing)
  \/ ReadFails \/ ReadRecord \/ ReadEOF \/ QueryImages \/ InsertAircraftBatch \/ AircraftDone
=============================================================================
