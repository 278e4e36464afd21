--------------------------------- MODULE Geo ---------------------------------
(***************************************************************************)
(* Geo (internal/worker/bgp/geo.go): the map from AS numbers to places,    *)
(* filled by RIPEstat requests that run in goroutines of their own.        *)
(*                                                                         *)
(* Lookup takes the lock twice: a read lock to look into the cache and,    *)
(* when that misses, a write lock to start a fetch.  fetch takes it twice  *)
(* too: to store what it found and, deferred, to clear its mark.  Each of  *)
(* the four is a step.  Lookup is called by one goroutine, the one that    *)
(* parses the stream.  What is stored for an AS never changes, so the      *)
(* cache is the set of AS numbers it knows.                                *)
(***************************************************************************)
EXTENDS Naturals

CONSTANTS
  ASNs,       \* AS numbers that occur in the stream
  NoAS,
  Seed,       \* AS numbers of the static table
  Located,    \* AS numbers for which RIPEstat names a country of the table
  Fetchers    \* names for the fetch goroutines; enough of them for every AS

ASSUME GeoAssumption ==
  /\ NoAS \notin ASNs
  /\ Seed \subseteq ASNs /\ Located \subseteq ASNs

VARIABLES
  cache,      \* AS numbers with a place
  inflight,   \* AS numbers marked as being fetched
  fetches,    \* the goroutines: what each fetches, and where it is
  looking,    \* the AS whose Lookup is between the two locks, or NoAS
  refetched   \* history: fetches started for an AS the cache already had

geoVars == <<cache, inflight, fetches, looking, refetched>>

Idle == [asn |-> NoAS, at |-> "idle"]

NewGeo ==
  /\ cache = Seed
  /\ inflight = {}
  /\ fetches = [f \in Fetchers |-> Idle]
  /\ looking = NoAS
  /\ refetched = [a \in ASNs |-> 0]

\* The first half of a Lookup that hits: nothing changes.
Hit(a) ==
  /\ looking = NoAS
  /\ a \in cache

\* The first half of a Lookup that misses: the read lock is given back.
Miss(a) ==
  /\ looking = NoAS
  /\ a \notin cache
  /\ looking' = a
  /\ UNCHANGED <<cache, inflight, fetches, refetched>>

\* go g.fetch(a), after the mark.
StartFetch(a) ==
  /\ inflight' = inflight \cup {a}
  /\ \E f \in Fetchers :
       /\ fetches[f] = Idle
       /\ fetches' = [fetches EXCEPT ![f] = [asn |-> a, at |-> "asking"]]
  /\ refetched' = [refetched EXCEPT ![a] = IF a \in cache THEN @ + 1 ELSE @]

\* Mutants of LockInflight: no look at the marks; a Lookup that waits for the fetch.
LockInflight_NoCheck ==
  /\ looking # NoAS
  /\ StartFetch(looking)
  /\ looking' = NoAS
  /\ UNCHANGED cache
LockInflight_Waits ==
  /\ looking # NoAS
  /\ IF looking \in inflight \/ looking \in cache
     THEN UNCHANGED <<inflight, fetches, refetched>>
     ELSE StartFetch(looking)
  /\ looking' = IF looking \in cache THEN NoAS ELSE looking
  /\ UNCHANGED cache

\* The second half of a Lookup that missed: start a fetch unless one is pending.
\* The cache is not consulted again.
LockInflight ==
  /\ looking # NoAS
  /\ IF looking \in inflight
     THEN UNCHANGED <<inflight, fetches, refetched>>
     ELSE StartFetch(looking)
  /\ looking' = NoAS
  /\ UNCHANGED cache

\* The request ends: with a country of the table, or in one of the early returns
\* (transport error, status, unreadable or empty answer, country not in the table).
FetchAnswers(f) ==
  /\ fetches[f].at = "asking"
  /\ \/ /\ fetches[f].asn \in Located
        /\ fetches' = [fetches EXCEPT ![f].at = "storing"]
     \/ fetches' = [fetches EXCEPT ![f].at = "clearing"]
  /\ UNCHANGED <<cache, inflight, looking, refetched>>

FetchStores(f) ==
  /\ fetches[f].at = "storing"
  /\ cache' = cache \cup {fetches[f].asn}
  /\ fetches' = [fetches EXCEPT ![f].at = "clearing"]
  /\ UNCHANGED <<inflight, looking, refetched>>

\* The deferred delete; the goroutine ends.
FetchClears(f) ==
  /\ fetches[f].at = "clearing"
  /\ inflight' = inflight \ {fetches[f].asn}
  /\ fetches' = [fetches EXCEPT ![f] = Idle]
  /\ UNCHANGED <<cache, looking, refetched>>

FetchStep(f) == FetchAnswers(f) \/ FetchStores(f) \/ FetchClears(f)

NextGeo ==
  \/ \E a \in ASNs : Miss(a)
  \/ LockInflight
  \/ \E f \in Fetchers : FetchStep(f)

GeoSpec == NewGeo /\ [][NextGeo]_geoVars

-----------------------------------------------------------------------------
(* Properties                                                               *)

\* The range of every variable; nothing of the static table is ever fetched.
GeoTypeOK ==
  /\ cache \subseteq ASNs /\ Seed \subseteq cache
  /\ inflight \subseteq ASNs \ Seed
  /\ fetches \in [Fetchers -> [asn : ASNs, at : {"asking", "storing", "clearing"}] \cup {Idle}]
  /\ looking \in (ASNs \ Seed) \cup {NoAS}
  /\ refetched \in [ASNs -> Nat]

\* Every mark of inflight belongs to exactly one running fetch: RIPEstat is
\* never asked twice at once about an AS, and no mark outlives its fetch.
OneFetchPerASN ==
  /\ inflight = {fetches[f].asn : f \in {g \in Fetchers : fetches[g] # Idle}}
  /\ \A f, g \in Fetchers : f # g /\ fetches[f] # Idle => fetches[f].asn # fetches[g].asn

\* Lookup does not look into the cache again under the write lock, so an AS can
\* be fetched although it is known, but at most once: the Lookup that missed.
RefetchedOnce == \A a \in ASNs : refetched[a] <= 1
=============================================================================
