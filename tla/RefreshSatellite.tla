--------------------------- MODULE RefreshSatellite ---------------------------
(***************************************************************************)
(* refresh --target satellites: Satellite (internal/refresh/satellite.go). *)
(* The catalog is read line by line and inserted as it is read, so a       *)
(* download that breaks leaves what came before in the table.              *)
(* satellite_meta keeps the last row of each NORAD number, and all the     *)
(* objects that have none share number 0.                                  *)
(***************************************************************************)
EXTENDS RefreshRun

CONSTANTS
  Catalogs,   \* what GCAT may serve: sequences of lines
  Norads,     \* the NORAD numbers of their records, 0 for none
  Comment,    \* a line that is empty or starts with #
  HalfLines   \* what the beginning of a record may be read as

ASSUME CatalogsAssumption ==
  \A served \in Catalogs :
    /\ served \in Seq(ToSet(served))
    /\ \A line \in ToSet(served) : line # Comment => line.norad \in Norads

VARIABLES
  scan,            \* the lines still to read
  batch,           \* the rows read and not yet inserted
  satellite_meta,  \* NORAD number -> data of its row, 0 for no row
  catalog          \* history: the catalog being loaded
satelliteVars == <<scan, batch, satellite_meta, catalog>>

InitSatellite ==
  /\ scan = <<>> /\ batch = <<>> /\ catalog = <<>>
  /\ satellite_meta = [n \in Norads |-> 0]

\* The organizations, then the catalog and its header, any of which may fail.
StartSatellite(served) ==
  /\ At("satellites", "start")
  /\ \/ /\ scan' = served /\ catalog' = served /\ batch' = <<>>
        /\ Goto("scanning")
     \/ Return("error") /\ UNCHANGED <<scan, catalog, batch>>
  /\ UNCHANGED satellite_meta

\* No row without a JCAT or a NORAD number.
parseSatRecord(line) ==
  IF line = Comment \/ (line.norad = 0 /\ ~line.jcat) THEN <<>> ELSE <<line>>

InsertedRows(rows) ==
  [n \in Norads |->
     LET mine == {i \in DOMAIN rows : rows[i].norad = n}
     IN  IF mine = {} THEN satellite_meta[n] ELSE rows[Max(mine)].data]

\* insertSatelliteBatch; next is where a success leads to.
InsertSatelliteBatch(rows, next) ==
  \/ /\ satellite_meta' = IF dryRun THEN satellite_meta ELSE InsertedRows(rows)
     /\ next
  \/ /\ ~dryRun
     /\ satellite_meta' \in {satellite_meta, InsertedRows(rows)}
     /\ Return("error")

ScanLine ==
  /\ At("satellites", "scanning") /\ scan # <<>>
  /\ scan' = Tail(scan)
  /\ IF signalled
     THEN Return("error") /\ UNCHANGED <<satellite_meta, batch>>
     ELSE LET rows == batch \o parseSatRecord(Head(scan))
          IN  IF Len(rows) >= batchSize
              THEN InsertSatelliteBatch(rows, UNCHANGED runVars) /\ batch' = <<>>
              ELSE batch' = rows /\ UNCHANGED <<runVars, satellite_meta>>
  /\ UNCHANGED catalog

\* The body breaks, or a line is longer than the buffer: the rows of the open batch are
\* not inserted.  But before it stops the scanner hands out what it has of a line, as
\* if it were a whole one, and this row may be the one that fills the batch.
ScanFails(half) ==
  /\ At("satellites", "scanning")
  /\ LET rows == batch \o parseSatRecord(half)
     IN  satellite_meta' \in {satellite_meta} \cup
           IF dryRun \/ signalled \/ Len(rows) < batchSize THEN {} ELSE {InsertedRows(rows)}
  /\ Return("error")
  /\ UNCHANGED <<scan, batch, catalog>>

\* Mutant of ScanEnds: no final batch.
ScanEnds_NoFinal ==
  /\ At("satellites", "scanning") /\ scan = <<>>
  /\ Return("ok")
  /\ UNCHANGED satelliteVars

ScanEnds ==
  /\ At("satellites", "scanning") /\ scan = <<>>
  /\ IF batch = <<>>
     THEN Return("ok") /\ UNCHANGED satellite_meta
     ELSE InsertSatelliteBatch(batch, Return("ok"))
  /\ UNCHANGED <<scan, batch, catalog>>

NextSatellite ==
  \/ \E served \in Catalogs : StartSatellite(served)
  \/ \E half \in HalfLines \cup {Comment} : ScanFails(half)
  \/ ScanLine
  \/ ScanEnds
=============================================================================
