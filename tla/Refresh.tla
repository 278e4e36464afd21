------------------------------- MODULE Refresh -------------------------------
(***************************************************************************)
(* `fukan-ingest refresh` (internal/commands/refresh.go): one of its three *)
(* targets, refreshed again and again, against tables that keep what       *)
(* earlier refreshes, complete or not, have left.                          *)
(***************************************************************************)
EXTENDS RefreshAircraft, RefreshSatellite, RefreshCables

vars == <<runVars, aircraftVars, satelliteVars, cableVars>>

Init == InitRun /\ InitAircraft /\ InitSatellite /\ InitCables

Next ==
  \/ NextAircraft /\ UNCHANGED <<satelliteVars, cableVars>>
  \/ NextSatellite /\ UNCHANGED <<aircraftVars, cableVars>>
  \/ NextCables /\ UNCHANGED <<aircraftVars, satelliteVars>>
  \/ (Signal \/ Again) /\ UNCHANGED <<aircraftVars, satelliteVars, cableVars>>

\* The command's one goroutine runs; nothing external has to happen.
Proceed ==
  \/ AircraftStep /\ UNCHANGED <<satelliteVars, cableVars>>
  \/ NextSatellite /\ UNCHANGED <<aircraftVars, cableVars>>
  \/ NextCables /\ UNCHANGED <<aircraftVars, satelliteVars>>

Spec == Init /\ [][Next]_vars /\ WF_vars(Proceed)

-----------------------------------------------------------------------------
(* Properties                                                               *)

\* From the images query on, whatever else writes the table, stops the refresh or
\* merges parts, an aircraft whose rows agreed on an image shows that image until
\* somebody writes another (aircraft.go:112).
ImagesCarried ==
  \A a \in Icao24 : carried[a] # NoImage => Shown(a).image = carried[a]

\* A refresh that returns without an error has loaded the last record of every
\* address of its file, or the last row of every NORAD number of its catalog, over
\* whatever an earlier one that failed half-way left.
LatestIsLoaded ==
  result = "ok" /\ ~dryRun =>
    /\ target = "airlines" =>
         \A i \in DOMAIN csv : Parsed(csv[i]) =>
           Shown(csv[i].icao24).data \in
             {csv[j].data : j \in {k \in i..Len(csv) : Parsed(csv[k]) /\ csv[k].icao24 = csv[i].icao24
                /\ \A l \in k + 1..Len(csv) : Parsed(csv[l]) => csv[l].icao24 # csv[i].icao24}}
    /\ target = "satellites" =>
         \A i \in DOMAIN catalog : catalog[i] # Comment /\ catalog[i].norad # 0 =>
           \/ satellite_meta[catalog[i].norad] = catalog[i].data
           \/ \E j \in i + 1..Len(catalog) : catalog[j] # Comment /\ catalog[j].norad = catalog[i].norad

\* Whatever batches fail, and in whichever refresh, a landing is never in its table
\* without the row of its cable.
LandingsHaveCables == \A l \in cable_landings : cable_meta[l.cable] # {}

\* Whatever the order of the maps, no other way with one of the cable's names serves
\* more of its landings, or as many with more points (merge.go:67).
RowIsBest ==
  \A row \in rows : \A o \in collectOSMCandidates(row.CableID, osm) :
    LET mine == countNearbyLandings(row.CableID, row.Way)
        others == countNearbyLandings(row.CableID, o)
    IN  others < mine \/ (others = mine /\ Len(o.Coords) <= Len(row.Way.Coords))

\* A refresh returns, unless the download of the CSV breaks; and one that is
\* interrupted returns in any case.
RefreshEnds ==
  /\ step # "returned" ~> step = "returned" \/ broken
  /\ signalled ~> step = "returned"

\* docs/ARCHITECTURE.md:288 "Preserves existing image URLs across refreshes": the
\* image an aircraft shows only changes when somebody writes one.
ImagesPreserved ==
  [][writes' = writes =>
       \A a \in Icao24 : aircraft_meta[a] # <<>> => Shown(a)'.image = Shown(a).image]_vars
=============================================================================
