----------------------------- MODULE RefreshCables -----------------------------
(***************************************************************************)
(* refresh --target cables: Cables (internal/refresh/cables.go), which     *)
(* merges the baseline and the OSM ways (CableMerge) and inserts the rows  *)
(* of cable_meta, then those of cable_landings.                            *)
(***************************************************************************)
EXTENDS RefreshRun, CableMerge

CONSTANT OverpassBodies   \* what Overpass may answer: [nodes, ways]

ASSUME BodiesAssumption ==
  \A body \in OverpassBodies :
    IsFiniteSet(body.ways) /\ \A way \in body.ways : way.nodes \in Seq(ToSet(way.nodes))

VARIABLES
  osm,            \* the ways of the answer
  rows,           \* the rows Merge returned
  rowsLeft, landsLeft,  \* rows and landings still to insert
  cable_meta,     \* cable_id -> the way of its row, or none: a set of at most one
  cable_landings  \* the landings of cable_landings, by cable_id and place
cableVars == <<osm, rows, rowsLeft, landsLeft, cable_meta, cable_landings>>

InitCables ==
  /\ osm = {} /\ rows = {} /\ rowsLeft = {} /\ landsLeft = {}
  /\ cable_meta = [c \in Cables |-> {}] /\ cable_landings = {}

\* The baseline, the Overpass download (or its error) and the merge.
MergeCables(body) ==
  /\ At("cables", "start")
  /\ \/ /\ osm' = ParseOverpassBody(body)
        /\ \E merged \in Merge(osm') :
             /\ rows' = merged.rows /\ rowsLeft' = merged.rows
             /\ landsLeft' = merged.lands
        /\ IF dryRun THEN Return("ok") ELSE Goto("inserting")
     \/ Return("error") /\ UNCHANGED <<osm, rows, rowsLeft, landsLeft>>
  /\ UNCHANGED <<cable_meta, cable_landings>>

WithRows(inserted) ==
  [c \in Cables |-> IF \E row \in inserted : row.CableID = c
                    THEN {row.Way : row \in {r \in inserted : r.CableID = c}} ELSE cable_meta[c]]

InsertCableBatch ==
  /\ At("cables", "inserting") /\ rowsLeft # {}
  /\ \E inserted \in Batches(rowsLeft) :
       \/ /\ cable_meta' = WithRows(inserted)
          /\ rowsLeft' = rowsLeft \ inserted
          /\ UNCHANGED runVars
       \/ /\ cable_meta' \in {cable_meta, WithRows(inserted)}
          /\ Return("error")
          /\ UNCHANGED rowsLeft
  /\ UNCHANGED <<osm, rows, landsLeft, cable_landings>>

\* Mutant of InsertLandingBatch: it does not wait for the cable batches.
InsertLandingBatch_Early ==
  /\ At("cables", "inserting") /\ landsLeft # {}
  /\ \E inserted \in Batches(landsLeft) :
       \/ /\ cable_landings' = cable_landings \cup inserted
          /\ landsLeft' = landsLeft \ inserted
          /\ UNCHANGED runVars
       \/ /\ cable_landings' \in {cable_landings, cable_landings \cup inserted}
          /\ Return("error")
          /\ UNCHANGED landsLeft
  /\ UNCHANGED <<osm, rows, rowsLeft, cable_meta>>

InsertLandingBatch ==
  /\ At("cables", "inserting") /\ rowsLeft = {} /\ landsLeft # {}
  /\ \E inserted \in Batches(landsLeft) :
       \/ /\ cable_landings' = cable_landings \cup inserted
          /\ landsLeft' = landsLeft \ inserted
          /\ UNCHANGED runVars
       \/ /\ cable_landings' \in {cable_landings, cable_landings \cup inserted}
          /\ Return("error")
          /\ UNCHANGED landsLeft
  /\ UNCHANGED <<osm, rows, rowsLeft, cable_meta>>

CablesDone ==
  /\ At("cables", "inserting") /\ rowsLeft = {} /\ landsLeft = {}
  /\ Return("ok")
  /\ UNCHANGED cableVars

NextCables ==
  (\E body \in OverpassBodies : MergeCables(body))
    \/ InsertCableBatch \/ InsertLandingBatch \/ CablesDone
=============================================================================
