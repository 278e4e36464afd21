------------------------------- MODULE TleWorker -------------------------------
(***************************************************************************)
(* The TLE worker (internal/worker/tle): a store of element sets, replaced *)
(* as a whole by every successful fetch, and a 200 ms scheduler that gives *)
(* each satellite one slot in the interval of its orbital regime.  Both    *)
(* run in one goroutine: while a fetch waits for its servers, the ticker   *)
(* keeps one tick, which carries the time at which it was due, and drops   *)
(* the others.                                                             *)
(*                                                                         *)
(* Time is counted in ticks, modulo the fetch interval.  The orbit of an   *)
(* element set is its mean motion in thousandths of a revolution per day,  *)
(* its inclination in tenths of a degree and whether its eccentricity      *)
(* exceeds 0.25; the position itself (SGP4) is outside.                    *)
(***************************************************************************)
EXTENDS Integers, Sequences

CONSTANTS
  Sats,           \* NORAD ids
  Hash,           \* their multiplicative hash
  Official,       \* possible CelesTrak answers: functions from some Sats to orbits
  Classified,     \* possible classified files: sequences of lines
  RecordFiles,    \* classified files that are sequences of records, see FileOf
  NoEntry,
  LeoSlots, MeoSlots, GeoSlots,   \* the intervals of the regimes, in ticks
  FetchTicks,     \* fetchInterval, in ticks
  SlowestFetch    \* what the HTTP timeouts allow fetchAll, in ticks

Orbits == [meanMotion : Nat, inclination : Nat, eccentric : BOOLEAN]
Entries == [orbit : Orbits, status : {"", "maneuvering"}]

ASSUME TleAssumption ==
  /\ Hash \in [Sats -> Nat]
  /\ {LeoSlots, MeoSlots, GeoSlots, FetchTicks} \subseteq Nat \ {0}
  /\ SlowestFetch \in Nat
  /\ \A k \in {LeoSlots, MeoSlots, GeoSlots} :
       FetchTicks % k = 0 /\ SlowestFetch + k < FetchTicks

TleLines == [kind : {"L1", "L2", "name", "name1"}, sat : Sats, orbit : Orbits]
Records == [named : BOOLEAN, sat : Sats, orbit : Orbits]

ASSUME TleDataAssumption ==
  /\ NoEntry \notin Orbits \cup Entries
  /\ \A answer \in Official :
       DOMAIN answer \subseteq Sats /\ \A s \in DOMAIN answer : answer[s] \in Orbits
  /\ Classified \subseteq Seq(TleLines)
  /\ RecordFiles \subseteq Seq(Records)

NoTick == -1

VARIABLES
  pc,         \* "initial" fetch, "waiting" to retry it, "select", "fetching", "ended"
  slot,       \* the time
  tick,       \* age of the tick in the propagation ticker's channel, or NoTick
  fetchDue,   \* a tick in the fetch ticker's channel
  elapsed,    \* ticks since fetchAll was called
  store,      \* w.store: the orbit and the status of each entry
  wait,       \* history: age of a satellite's last position, or of its entry
  stamped,    \* history: satellites that had a position since they (re)entered
  shown       \* history: orbit of the last position, NoEntry if it left the store since

vars == <<pc, slot, tick, fetchDue, elapsed, store, wait, stamped, shown>>

-----------------------------------------------------------------------------
(* Element sets                                                             *)

\* The regime, decided on the mean motion instead of the semi-major axis.
ClassifyRegime(o) ==
  CASE o.eccentric -> "heo"
    [] ~o.eccentric /\ o.meanMotion \in 996 .. 1009 -> "geo"
    [] ~o.eccentric /\ o.meanMotion > 11335 -> "leo"
    [] OTHER -> "meo"

propagationInterval(o) ==
  CASE ClassifyRegime(o) \in {"leo", "heo"} -> LeoSlots
    [] ClassifyRegime(o) = "meo" -> MeoSlots
    [] OTHER -> GeoSlots

Apart(m, n) == IF m < n THEN n - m ELSE m - n

\* Mutant of detectManeuver: changes of the orbital plane are forgotten.
detectManeuver_NoPlane(old, new) == Apart(new.meanMotion, old.meanMotion) > 10

detectManeuver(old, new) ==
  \/ Apart(new.meanMotion, old.meanMotion) > 10
  \/ Apart(new.inclination, old.inclination) > 1

\* ParseTLE on two lines: they must be line 1 and line 2 of one satellite.
ParseTLE(l1, l2) ==
  IF l1.kind = "L1" /\ l2.kind = "L2" /\ l1.sat = l2.sat
  THEN <<[sat |-> l1.sat, orbit |-> l1.orbit]>> ELSE <<>>

StartsWith1(line) == line.kind \in {"L1", "name1"}

\* Mutant of parseTLEBatch: it always advances by three lines.
parseTLEBatch_ByThree(lines) ==
  LET from[i \in 1 .. Len(lines) + 1] ==
        IF i + 2 > Len(lines) THEN <<>>
        ELSE IF StartsWith1(lines[i])
        THEN ParseTLE(lines[i], lines[i + 1]) \o from[i + 3]
        ELSE ParseTLE(lines[i + 1], lines[i + 2]) \o from[i + 3]
  IN  from[1]

\* Three lines must be left, whatever the format of the next record.
parseTLEBatch(lines) ==
  LET from[i \in 1 .. Len(lines) + 1] ==
        IF i + 2 > Len(lines) THEN <<>>
        ELSE IF StartsWith1(lines[i])
        THEN ParseTLE(lines[i], lines[i + 1]) \o from[i + 2]
        ELSE ParseTLE(lines[i + 1], lines[i + 2]) \o from[i + 3]
  IN  from[1]

Init ==
  /\ pc = "initial" /\ slot = 0 /\ tick = NoTick /\ fetchDue = FALSE /\ elapsed = 0
  /\ store = [s \in Sats |-> NoEntry]
  /\ wait = [s \in Sats |-> 0] /\ stamped = {}
  /\ shown = [s \in Sats |-> NoEntry]

-----------------------------------------------------------------------------
(* fetchAll                                                                 *)

\* The orbit that the last element set of a satellite gives it.
LastOrbit(tles, s) ==
  LET of == {i \in 1 .. Len(tles) : tles[i].sat = s}
  IN  IF of = {} THEN NoEntry ELSE tles[CHOOSE i \in of : \A j \in of : j <= i].orbit

\* The store built from both answers; an entry of the classified file wins.
NewStore(official, tles) ==
  LET orbit(s) ==
        IF LastOrbit(tles, s) # NoEntry THEN LastOrbit(tles, s)
        ELSE IF s \in DOMAIN official THEN official[s] ELSE NoEntry
      status(s) ==
        IF store[s] # NoEntry /\ detectManeuver(store[s].orbit, orbit(s))
        THEN "maneuvering" ELSE ""
  IN  [s \in Sats |-> IF orbit(s) = NoEntry THEN NoEntry
                      ELSE [orbit |-> orbit(s), status |-> status(s)]]

\* Both servers have answered; without its file the classified entries are gone.
FetchStores(official, tles) ==
  /\ pc \in {"initial", "fetching"}
  /\ pc' = "select" /\ elapsed' = 0
  /\ store' = NewStore(official, tles)
  /\ LET continues == {s \in Sats : /\ store[s] # NoEntry /\ store'[s] # NoEntry
                                    /\ propagationInterval(store[s].orbit)
                                         = propagationInterval(store'[s].orbit)}
     IN  /\ wait' = [s \in Sats |-> IF s \in continues THEN wait[s] ELSE 0]
         /\ stamped' = stamped \cap continues
  /\ shown' = [s \in Sats |-> IF store'[s] = NoEntry THEN NoEntry ELSE shown[s]]
  /\ UNCHANGED <<slot, tick, fetchDue>>

\* CelesTrak fails: the first fetch is retried, a later one leaves the store alone.
FetchFails ==
  /\ pc \in {"initial", "fetching"}
  /\ pc' = IF pc = "initial" THEN "waiting" ELSE "select"
  /\ elapsed' = 0
  /\ UNCHANGED <<slot, tick, fetchDue, store, wait, stamped, shown>>

RetryInitial ==
  /\ pc = "waiting"
  /\ pc' = "initial"
  /\ UNCHANGED <<slot, tick, fetchDue, elapsed, store, wait, stamped, shown>>

\* A tick of the fetch ticker.
StartFetch ==
  /\ pc = "select" /\ fetchDue
  /\ pc' = "fetching" /\ fetchDue' = FALSE
  /\ UNCHANGED <<slot, tick, elapsed, store, wait, stamped, shown>>

-----------------------------------------------------------------------------
(* The scheduler                                                            *)

\* Mutant of satelliteDue: the hash is not reduced to the interval.
satelliteDue_RawHash(s) ==
  /\ store[s] # NoEntry
  /\ (slot - tick) % propagationInterval(store[s].orbit) = Hash[s]

\* Mutant of satelliteDue: due from its slot to the end of the interval.
satelliteDue_Since(s) ==
  /\ store[s] # NoEntry
  /\ LET slots == propagationInterval(store[s].orbit)
     IN  (slot - tick) % slots >= Hash[s] % slots

\* The satellite's slot in its interval is that of the tick.
satelliteDue(s) ==
  /\ store[s] # NoEntry
  /\ LET slots == propagationInterval(store[s].orbit)
     IN  (slot - tick) % slots = Hash[s] % slots

\* propagateScheduled: the due satellites, but those without a valid position.
Propagate(skipped) ==
  /\ pc = "select" /\ tick # NoTick
  /\ LET due == {s \in Sats : satelliteDue(s)}
     IN  /\ skipped \subseteq due
         /\ wait' = [s \in Sats |-> IF s \in skipped THEN 0 ELSE IF s \in due THEN tick ELSE wait[s]]
         /\ stamped' = (stamped \cup due) \ skipped
         /\ shown' = [s \in Sats |-> IF s \in skipped THEN NoEntry
                                     ELSE IF s \in due THEN store[s].orbit ELSE shown[s]]
  /\ tick' = NoTick
  /\ UNCHANGED <<pc, slot, fetchDue, elapsed, store>>

\* 200 ms pass: the loop keeps up with them unless it is in a fetch.
Clock ==
  /\ \/ pc = "select" /\ tick = NoTick /\ ~fetchDue /\ UNCHANGED elapsed
     \/ pc = "fetching" /\ elapsed < SlowestFetch /\ elapsed' = elapsed + 1
  /\ slot' = (slot + 1) % FetchTicks
  /\ tick' = tick + 1
  /\ fetchDue' = (fetchDue \/ slot' = 0)
  /\ wait' = [s \in Sats |-> IF store[s] = NoEntry THEN 0 ELSE wait[s] + 1]
  /\ UNCHANGED <<pc, store, stamped, shown>>

\* The context is cancelled: every wait of Run ends, and it returns.
Cancel ==
  /\ pc # "ended"
  /\ pc' = "ended"
  /\ UNCHANGED <<slot, tick, fetchDue, elapsed, store, wait, stamped, shown>>

Ended == pc = "ended" /\ UNCHANGED vars

Fetch ==
  \/ \E official \in Official : \E lines \in Classified \cup {<<>>} :
       FetchStores(official, parseTLEBatch(lines))
  \/ FetchFails

Next ==
  \/ Fetch
  \/ RetryInitial
  \/ StartFetch
  \/ \E skipped \in SUBSET Sats : Propagate(skipped)
  \/ Clock
  \/ Cancel
  \/ Ended

Spec == Init /\ [][Next]_vars

-----------------------------------------------------------------------------
(* Files of records                                                         *)

Line(kind, r) == [kind |-> kind, sat |-> r.sat, orbit |-> r.orbit]

\* A record in three lines, or in two.
RecordLines(r) ==
  IF r.named THEN <<Line("name", r), Line("L1", r), Line("L2", r)>>
  ELSE <<Line("L1", r), Line("L2", r)>>

FileOf(f) ==
  LET upTo[i \in 0 .. Len(f)] ==
        IF i = 0 THEN <<>> ELSE upTo[i - 1] \o RecordLines(f[i])
  IN  upTo[Len(f)]

Parsed == [f \in RecordFiles |-> parseTLEBatch(FileOf(f))]

\* The records the loop sees: of a last one in two lines, too few are left.
Seen(f) == {i \in 1 .. Len(f) : i < Len(f) \/ f[i].named}

-----------------------------------------------------------------------------
(* Properties                                                               *)

InStore == {s \in Sats : store[s] # NoEntry}

\* worker.go:33 "preserving the update interval": a satellite whose position can be
\* computed is silent for less than two intervals and one fetch, however the fetch
\* falls into the intervals and the ticker drops ticks.
SilenceBounded ==
  \A s \in InStore : wait[s] < 2 * propagationInterval(store[s].orbit) + SlowestFetch

\* A satellite never has two positions in one interval, nor one that is not newer
\* than the last, also when a tick kept during a fetch is handled late: bursts stay
\* bounded and the live window, which compares timestamps, sees them in order.
OncePerRound ==
  \A s \in stamped : pc = "select" /\ tick # NoTick /\ satelliteDue(s) =>
    /\ wait[s] > tick
    /\ (wait[s] - tick) % propagationInterval(store[s].orbit) = 0

\* A position never shows an orbit that jumped since the last position of the same
\* satellite without the status that tells so, unless it left the store in between
\* or a position could not be computed: each store lives long enough to be shown.
ManoeuvreIsTold ==
  \A s \in InStore : shown[s] # NoEntry =>
    LET now == store[s].orbit
    IN  \/ store[s].status = "maneuvering"
        \/ /\ Apart(now.meanMotion, shown[s].meanMotion) <= 10
           /\ Apart(now.inclination, shown[s].inclination) <= 1

\* fetcher.go:39: whatever formats a classified file mixes, a fetch that has read it
\* puts the last entry of every satellite it finds there over CelesTrak's, adds no
\* other, and whatever was in the store before is gone.
BatchComplete ==
  pc = "fetching" =>
    \A f \in RecordFiles, official \in Official :
      LET next == NewStore(official, Parsed[f])
      IN  \A s \in Sats :
            LET of == {i \in Seen(f) : f[i].sat = s}
            IN  IF of # {}
                THEN \E i \in of : /\ \A j \in of : j <= i
                                  /\ next[s] # NoEntry /\ next[s].orbit = f[i].orbit
                ELSE IF s \in DOMAIN official
                THEN next[s] # NoEntry /\ next[s].orbit = official[s]
                ELSE next[s] = NoEntry
=============================================================================
