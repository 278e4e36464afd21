------------------------------ MODULE BgpParser ------------------------------
(***************************************************************************)
(* The BGP worker's parser (internal/worker/bgp: ParseMessage, PrefixState *)
(* and its use of Geo).  One goroutine reads RIS Live updates and turns    *)
(* each into events; the fetch goroutines of Geo run beside it and extend  *)
(* the cache between any two lookups.                                      *)
(*                                                                         *)
(* PrefixState is the sequence of its entries, least recently seen first;  *)
(* lastSeen is their order (two readings of Go's monotonic clock are taken *)
(* to differ).  The state outlives a connection: updates lost while the    *)
(* worker reconnects are updates that are never read here.                 *)
(*                                                                         *)
(* An event names the hop that gave its place, and the hops of the path    *)
(* that have coordinates; 0 is the city database, or the peer's AS.        *)
(***************************************************************************)
EXTENDS Geo, Integers, Sequences, FiniteSets

CONSTANTS
  Prefixes,
  InCity,         \* prefixes the city database can place
  tier1ASNs,
  Updates,        \* UPDATE messages: path, announced, withdrawn, peerASN
  NoUpdate,
  maxEntries      \* size at which PrefixState is pruned

ASSUME BgpParserAssumption ==
  /\ InCity \subseteq Prefixes /\ tier1ASNs \subseteq ASNs
  /\ NoUpdate \notin Updates
  /\ maxEntries \in Nat /\ maxEntries >= 2
  /\ Updates \subseteq [path : Seq(ASNs), announced : Seq(Prefixes),
                        withdrawn : Seq(Prefixes), peerASN : ASNs \cup {NoAS}]

VARIABLES
  table,       \* PrefixState: [prefix, originAS], least recently seen first
  msg,         \* the update being parsed, or the last one
  pc,          \* "read", "announce", "place", "pathCoords", "withdraw", "peer"
  todo,        \* prefixes the loop has not come to
  hop,         \* index into the path of the lookup loops
  event,       \* the event under construction
  events,      \* what ParseMessage returns
  lastOrigin,  \* history: origin of the last announcement read and not withdrawn since
  pruned,      \* history: prefixes pruned since they were last announced
  atRead,      \* history: the cache when the update was read
  changed      \* history: prefixes of the update that were new or changed origin

parseVars == <<table, msg, pc, todo, hop, event, events, lastOrigin, pruned, atRead, changed>>
parserVars == <<geoVars, parseVars>>

-----------------------------------------------------------------------------
(* PrefixState                                                              *)

pruneTarget == (maxEntries * 3) \div 4

IndexOf(t, p) == CHOOSE i \in DOMAIN t : t[i].prefix = p
Known(t, p) == \E i \in DOMAIN t : t[i].prefix = p
OriginAS(t, p) == t[IndexOf(t, p)].originAS

Forget(t, p) ==
  IF Known(t, p)
  THEN SubSeq(t, 1, IndexOf(t, p) - 1) \o SubSeq(t, IndexOf(t, p) + 1, Len(t))
  ELSE t

\* pruneLocked, when the table has outgrown maxEntries.
Prune(t) ==
  IF Len(t) > maxEntries THEN SubSeq(t, Len(t) - pruneTarget + 1, Len(t)) ELSE t

\* Mutant of Observe: an entry seen again stays where it was.
Observe_InPlace(t, p, o) ==
  IF Known(t, p)
  THEN [t EXCEPT ![IndexOf(t, p)] = [prefix |-> p, originAS |-> o]]
  ELSE Prune(Append(t, [prefix |-> p, originAS |-> o]))

Observe(t, p, o) == Prune(Append(Forget(t, p), [prefix |-> p, originAS |-> o]))

PrefixesOf(t) == {t[i].prefix : i \in DOMAIN t}

-----------------------------------------------------------------------------
(* Classification                                                           *)

Origin(path) == path[Len(path)]

\* Some Tier-1 has been preceded by an AS that is none.
detectLeak(path) ==
  \E i, j \in DOMAIN path : i < j /\ path[i] \notin tier1ASNs /\ path[j] \in tier1ASNs

\* Mutant of Category: the previous origin is not compared.
Category_KnownIsBoring(path, p) ==
  IF detectLeak(path) THEN "leak" ELSE IF ~Known(table, p) THEN "announcement" ELSE "none"

\* The switch of ParseMessage; "none" is its continue.
Category(path, p) ==
  CASE detectLeak(path) -> "leak"
    [] ~detectLeak(path) /\ Known(table, p) /\ OriginAS(table, p) # Origin(path) -> "hijack"
    [] ~detectLeak(path) /\ ~Known(table, p) -> "announcement"
    [] OTHER -> "none"

NoEvent == [prefix |-> NoUpdate, category |-> "none", originAS |-> NoAS,
            place |-> 0, coords |-> <<>>, was |-> NoAS, wasPruned |-> FALSE]

\* A new event; was and wasPruned are history.
buildEvent(p, category, originAS) ==
  [prefix |-> p, category |-> category, originAS |-> originAS, place |-> 0,
   coords |-> <<>>, was |-> lastOrigin[p], wasPruned |-> p \in pruned]

InitParser ==
  /\ NewGeo
  /\ table = <<>>
  /\ msg = NoUpdate /\ pc = "read" /\ todo = <<>> /\ hop = 0
  /\ event = NoEvent /\ events = <<>>
  /\ lastOrigin = [p \in Prefixes |-> NoAS] /\ pruned = {}
  /\ atRead = {} /\ changed = {}

-----------------------------------------------------------------------------
(* ParseMessage                                                             *)

\* conn.Read returns an update; without a path its announcements are skipped.
ReadUpdate(m) ==
  /\ pc = "read"
  /\ msg' = m
  /\ IF m.path # <<>>
     THEN pc' = "announce" /\ todo' = m.announced
     ELSE pc' = "withdraw" /\ todo' = m.withdrawn
  /\ events' = <<>>
  /\ atRead' = cache /\ changed' = {}
  /\ UNCHANGED <<geoVars, table, hop, event, lastOrigin, pruned>>

\* The next announced prefix: Observe, the category, and the city database.
Announce ==
  /\ pc = "announce" /\ todo # <<>>
  /\ LET p == Head(todo)
         o == Origin(msg.path)
         category == Category(msg.path, p)
     IN /\ table' = Observe(table, p, o)
        /\ event' = IF category = "none" THEN NoEvent ELSE buildEvent(p, category, o)
        /\ pc' = CASE category = "none" -> "announce"
                   [] category # "none" /\ p \in InCity -> "pathCoords"
                   [] OTHER -> "place"
        /\ hop' = IF p \in InCity THEN 1 ELSE Len(msg.path)
        /\ lastOrigin' = [lastOrigin EXCEPT ![p] = o]
        /\ pruned' = (pruned \cup PrefixesOf(table) \cup {p}) \ PrefixesOf(table')
        /\ changed' = IF lastOrigin[p] # o THEN changed \cup {p} ELSE changed
  /\ todo' = Tail(todo)
  /\ UNCHANGED <<geoVars, msg, events, atRead>>

AnnounceDone ==
  /\ pc = "announce" /\ todo = <<>>
  /\ pc' = "withdraw" /\ todo' = msg.withdrawn
  /\ UNCHANGED <<geoVars, table, msg, hop, event, events, lastOrigin, pruned, atRead, changed>>

\* Mutant of GeoFromPath: from the peer to the origin.
GeoFromPath_PeerFirst ==
  /\ pc = "place" /\ looking = NoAS
  /\ LET i == Len(msg.path) + 1 - hop IN
     \/ /\ hop = 0
        /\ pc' = "announce" /\ event' = NoEvent
        /\ UNCHANGED <<geoVars, hop>>
     \/ /\ hop > 0 /\ Hit(msg.path[i])
        /\ pc' = "pathCoords" /\ hop' = 1 /\ event' = [event EXCEPT !.place = i]
        /\ UNCHANGED geoVars
     \/ /\ hop > 0 /\ Miss(msg.path[i])
        /\ hop' = hop - 1
        /\ UNCHANGED <<pc, event>>
  /\ UNCHANGED <<table, msg, todo, events, lastOrigin, pruned, atRead, changed>>

\* A round of geoFromPath, from the origin to the peer: nothing left and the
\* event is dropped, a hit that places it, or a miss.
GeoFromPath ==
  /\ pc = "place" /\ looking = NoAS
  /\ \/ /\ hop = 0
        /\ pc' = "announce" /\ event' = NoEvent
        /\ UNCHANGED <<geoVars, hop>>
     \/ /\ hop > 0 /\ Hit(msg.path[hop])
        /\ pc' = "pathCoords" /\ hop' = 1 /\ event' = [event EXCEPT !.place = hop]
        /\ UNCHANGED geoVars
     \/ /\ hop > 0 /\ Miss(msg.path[hop])
        /\ hop' = hop - 1
        /\ UNCHANGED <<pc, event>>
  /\ UNCHANGED <<table, msg, todo, events, lastOrigin, pruned, atRead, changed>>

\* A round of resolvePathCoords; after the last hop the event is appended.
ResolvePathCoords ==
  /\ pc = "pathCoords" /\ looking = NoAS
  /\ \/ /\ hop > Len(msg.path)
        /\ pc' = "announce" /\ event' = NoEvent
        /\ events' = Append(events, event)
        /\ UNCHANGED <<geoVars, hop>>
     \/ /\ hop <= Len(msg.path) /\ Hit(msg.path[hop])
        /\ hop' = hop + 1
        /\ event' = [event EXCEPT !.coords = Append(@, hop)]
        /\ UNCHANGED <<geoVars, pc, events>>
     \/ /\ hop <= Len(msg.path) /\ Miss(msg.path[hop])
        /\ hop' = hop + 1
        /\ UNCHANGED <<pc, event, events>>
  /\ UNCHANGED <<table, msg, todo, lastOrigin, pruned, atRead, changed>>

\* The second half of a Lookup that missed.
LookupMissed ==
  /\ LockInflight
  /\ UNCHANGED parseVars

\* Mutant of Withdraw: the prefix is not forgotten.
Withdraw_Remembers ==
  /\ pc = "withdraw" /\ todo # <<>> /\ looking = NoAS
  /\ LET p == Head(todo)
         e == buildEvent(p, "withdrawal", msg.peerASN)
     IN /\ lastOrigin' = [lastOrigin EXCEPT ![p] = NoAS]
        /\ IF Known(table, p) /\ msg.peerASN # NoAS
           THEN IF p \in InCity
                THEN events' = Append(events, e) /\ UNCHANGED <<pc, event>>
                ELSE pc' = "peer" /\ event' = e /\ UNCHANGED events
           ELSE UNCHANGED <<pc, event, events>>
  /\ todo' = Tail(todo)
  /\ UNCHANGED <<geoVars, table, msg, hop, pruned, atRead, changed>>

\* The next withdrawn prefix: nothing if it is unknown; else it is forgotten, and
\* becomes an event if the peer's AS is a number and the prefix has a place.
Withdraw ==
  /\ pc = "withdraw" /\ todo # <<>> /\ looking = NoAS
  /\ LET p == Head(todo)
         e == buildEvent(p, "withdrawal", msg.peerASN)
     IN /\ table' = Forget(table, p)
        /\ lastOrigin' = [lastOrigin EXCEPT ![p] = NoAS]
        /\ pruned' = pruned \ {p}
        /\ IF Known(table, p) /\ msg.peerASN # NoAS
           THEN IF p \in InCity
                THEN events' = Append(events, e) /\ UNCHANGED <<pc, event>>
                ELSE pc' = "peer" /\ event' = e /\ UNCHANGED events
           ELSE UNCHANGED <<pc, event, events>>
  /\ todo' = Tail(todo)
  /\ UNCHANGED <<geoVars, msg, hop, atRead, changed>>

\* resolveWithdrawalCoords without the city database: the peer's AS or nothing.
LookupPeer ==
  /\ pc = "peer" /\ looking = NoAS
  /\ \/ Hit(msg.peerASN) /\ events' = Append(events, event) /\ UNCHANGED geoVars
     \/ Miss(msg.peerASN) /\ UNCHANGED events
  /\ pc' = "withdraw" /\ event' = NoEvent
  /\ UNCHANGED <<table, msg, todo, hop, lastOrigin, pruned, atRead, changed>>

\* ParseMessage returns and stream publishes the events; a failed publish is skipped.
PublishEvents ==
  /\ pc = "withdraw" /\ todo = <<>> /\ looking = NoAS
  /\ pc' = "read"
  /\ UNCHANGED <<geoVars, table, msg, todo, hop, event, events, lastOrigin, pruned, atRead, changed>>

ParseStep ==
  \/ Announce \/ AnnounceDone \/ GeoFromPath \/ ResolvePathCoords
  \/ Withdraw \/ LookupPeer \/ LookupMissed \/ PublishEvents

\* A fetch goroutine's step.
Fetch(f) ==
  /\ FetchStep(f)
  /\ UNCHANGED parseVars

NextParser ==
  \/ \E m \in Updates : ReadUpdate(m)
  \/ ParseStep
  \/ \E f \in Fetchers : Fetch(f)

SpecParser == InitParser /\ [][NextParser]_parserVars

\* The stream's goroutine runs. Nothing is assumed about RIPEstat.
FairSpec == SpecParser /\ WF_parserVars(ParseStep)

-----------------------------------------------------------------------------
(* Properties                                                               *)

EventType == [prefix : Prefixes, category : {"announcement", "hijack", "leak", "withdrawal"},
              originAS : ASNs, place : Nat, coords : Seq(Nat),
              was : ASNs \cup {NoAS}, wasPruned : BOOLEAN]

\* docs/ARCHITECTURE.md:272 "bounded ... LRU-pruned by lastSeen": a prefix has one entry,
\* the table never exceeds maxEntries, and pruning spares the announcement that
\* caused it, which is the last entry while its event is being located.
TableBounded ==
  /\ Len(table) <= maxEntries
  /\ \A i, j \in DOMAIN table : table[i].prefix = table[j].prefix => i = j
  /\ pc \in {"place", "pathCoords"} =>
       table # <<>> /\ table[Len(table)] = [prefix |-> event.prefix, originAS |-> event.originAS]

\* What the table says of a prefix is what was read last, and only pruning makes
\* it forget an announcement; a withdrawal leaves no entry behind (state.go:63 "so a
\* later re-announcement doesn't look like a hijack against a stale entry").
TableIsHistory ==
  /\ \A i \in DOMAIN table : lastOrigin[table[i].prefix] = table[i].originAS
  /\ \A p \in Prefixes : lastOrigin[p] # NoAS => p \in PrefixesOf(table) \cup pruned

\* A hijack is reported only against the announcement read last and not withdrawn
\* since; a new prefix was withdrawn, pruned or never seen; what is withdrawn had
\* been announced.
VerdictsHaveCause ==
  \A i \in DOMAIN events :
    LET e == events[i] IN
    /\ e.category = "hijack" => e.was \notin {NoAS, e.originAS}
    /\ e.category = "announcement" => e.was = NoAS \/ e.wasPruned
    /\ e.category = "withdrawal" => e.was # NoAS

\* A prefix that is new or changes its origin is reported, once parsing is done, if
\* the city database or some AS of the path could place it when the update came.
ChangeIsReported ==
  pc = "read" =>
    \A p \in changed :
      (p \in InCity \/ \E i \in DOMAIN msg.path : msg.path[i] \in atRead)
        => \E i \in DOMAIN events : events[i].prefix = p /\ events[i].category # "withdrawal"

\* geoFromPath "lands near the physical owner" (parser.go:218) whatever the fetches
\* do meanwhile: no hop nearer to the origin than the place was known when the
\* update came; and the line of the path has every hop that was known then.
PlacedNearOrigin ==
  \A i \in DOMAIN events :
    LET e == events[i] IN
    e.category # "withdrawal" =>
      /\ e.place > 0 => \A j \in e.place + 1 .. Len(msg.path) : msg.path[j] \notin atRead
      /\ \A j \in DOMAIN msg.path :
           msg.path[j] \in atRead => \E k \in DOMAIN e.coords : e.coords[k] = j

\* A message is parsed whatever RIPEstat does: no Lookup waits for a fetch.
ParsingEnds == pc # "read" ~> pc = "read"
=============================================================================
