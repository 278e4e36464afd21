------------------------------ MODULE MCTleWorker ------------------------------
(* Values for model checking TleWorker: a satellite that drifts, manoeuvres,   *)
(* changes its plane or its regime, a geostationary one, and one that only     *)
(* the classified file names.                                                  *)
EXTENDS TleWorker

CONSTANTS a, g, c

MCSats == {a, g, c}
MCHash == [s \in MCSats |-> CASE s = a -> 5 [] s = g -> 3 [] OTHER -> 4]

Orbit(n, i) == [meanMotion |-> n, inclination |-> i, eccentric |-> FALSE]

leo     == Orbit(15500, 516)
drifted == Orbit(15508, 516)
raised  == Orbit(15480, 516)
turned  == Orbit(15500, 530)
meo     == Orbit(2006, 550)
geo     == Orbit(1002, 1)

MCOfficial == {[s \in {a, g} |-> IF s = a THEN o ELSE geo] : o \in {leo, drifted, raised, turned, meo}}
                \cup {[s \in {g} |-> geo]}

At(s, o) == [sat |-> s, orbit |-> o]
Named(s, o) == [named |-> TRUE, sat |-> s, orbit |-> o]
Bare(s, o) == [named |-> FALSE, sat |-> s, orbit |-> o]

MCClassified == {
  FileOf(<<Named(c, leo)>>),                   \* the ordinary file
  FileOf(<<Bare(c, turned), Named(a, leo)>>),  \* two lines, then an override
  <<Line("name1", At(c, leo))>>                \* a name that begins with 1
    \o FileOf(<<Bare(c, leo), Named(g, geo)>>)}

\* Files of up to three records, of either format.
Written == {Named(a, leo), Bare(a, turned), Named(c, leo), Bare(c, turned), Bare(g, geo)}
MCRecordFiles == UNION {[1 .. n -> Written] : n \in 0 .. 3}
=============================================================================
