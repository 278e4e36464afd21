------------------------------ MODULE VesselPath ------------------------------
(***************************************************************************)
(* A vessel's way from the AIS feed to Redis: the AIS worker               *)
(* (internal/worker/ais), the broadcaster of the batcher (Broadcast) and   *)
(* the publisher (Publisher).  NATS between worker and batcher is external *)
(* and may lose an event; the feed's WebSocket may drop at any read.       *)
(* A message carries the position of its MetaData and of its report, and   *)
(* what only static data has (the IMO number stands for all of it).        *)
(***************************************************************************)
EXTENDS Broadcast, Publisher

CONSTANTS
  Messages,   \* the feed's messages
  Nowhere,    \* latitude and longitude 0, or not on the globe
  NoTime      \* a time_utc in no known format

VARIABLES
  ws          \* the WebSocket: "down", or "up" with its subscription written
allVars == <<vars, ws>>

InitVessel == Init /\ ws = "down"

-----------------------------------------------------------------------------
(* The parser: no event, or one.                                            *)

Event(m, cell, imo) ==
  [AssetID |-> m.mmsi, Timestamp |-> m.time, H3Cell |-> cell, IMONumber |-> imo]

Validate(e) == e.Timestamp > 0

parsePositionReport(m) == IF m.report = Nowhere THEN {} ELSE {Event(m, m.report, 0)}
parseShipStaticData(m) == IF m.meta = Nowhere THEN {} ELSE {Event(m, m.meta, m.imo)}

ParseMessage(m) ==
  {e \in CASE m.time = NoTime -> {}
           [] m.time # NoTime /\ m.type \in {"PositionReport", "StandardClassBPositionReport"} ->
                parsePositionReport(m)
           [] m.time # NoTime /\ m.type = "ShipStaticData" -> parseShipStaticData(m)
           [] OTHER -> {} : Validate(e)}

ASSUME VesselAssumption == \A m \in Messages : ParseMessage(m) \subseteq Events

\* The streams of an event differ in the resolution of their cell.
ASSUME StreamsAssumption ==
  \A e \in Events :
    /\ Wire[e] \in Nat /\ Escaped[e] \in Nat
    /\ Streams[e] \in Seq(ToSet(Streams[e]))
    /\ \A i, j \in DOMAIN Streams[e] : Streams[e][i] = Streams[e][j] => i = j

-----------------------------------------------------------------------------
(* stream, and RunWithReconnect around it.                                  *)

Dial == ws = "down" /\ ws' = "up" /\ UNCHANGED vars

ReadFails == ws = "up" /\ ws' = "down" /\ UNCHANGED vars

\* A message is parsed and its event published to NATS, which delivers it to
\* HandleMsg; one that is lost, or skipped by the parser, changes nothing.
Read(m) ==
  /\ ws = "up"
  /\ \E e \in ParseMessage(m) : Enqueue(e)
  /\ UNCHANGED ws

-----------------------------------------------------------------------------
(* The broadcaster with the publisher inside.                               *)

\* The events that are in all their streams once these bundles are published.
Complete(bundles) ==
  LET envelopes == ToSet(FlattenSeq(bundles))
  IN  {e \in publishing : \A stream \in ToSet(Streams[e]) :
         \E envelope \in envelopes : envelope.stream = stream /\ e \in ToSet(envelope.events)}

\* The window is a Go map: its order is any. An Exec that fails has published the
\* first so many bundles.
PublishWindow ==
  \E order \in SetToSeqs(publishing), liveBatches \in BOOLEAN :
    LET bundles == PublishBatch(order, liveBatches)
    IN  \E sent \in 0..Len(bundles) : PublishReturns(Complete(SubSeq(bundles, 1, sent)))

LoopVessel == Receive \/ Tick \/ ReceiveClosed \/ PublishWindow

NextVessel ==
  \/ Dial
  \/ ReadFails
  \/ \E m \in Messages : Read(m)
  \/ CloseBroadcastCh /\ UNCHANGED ws
  \/ LoopVessel /\ UNCHANGED ws

\* Every PublishWindow step is a step of Broadcast's PublishReturns, so the loop's
\* fairness is Broadcast's.
SpecVessel == InitVessel /\ [][NextVessel]_allVars /\ Fairness

-----------------------------------------------------------------------------
(* Properties                                                               *)

\* Whatever order the window comes in, each of its events is exactly once in each
\* of its streams, and in no other, over all the bundles.
OncePerStream ==
  \A order \in SetToSeqs(publishing), liveBatches \in BOOLEAN :
    LET envelopes == FlattenSeq(PublishBatch(order, liveBatches))
        Places(e) == {p \in (DOMAIN envelopes) \X (1..Cardinality(publishing)) :
                        p[2] \in DOMAIN envelopes[p[1]].events /\ envelopes[p[1]].events[p[2]] = e}
    IN  \A e \in publishing :
          /\ {envelopes[p[1]].stream : p \in Places(e)} = ToSet(Streams[e])
          /\ Cardinality(Places(e)) = Len(Streams[e])

\* No payload or bundle is larger than its limit unless a single event, or a
\* single envelope, is; and no payload has more events than its limit.
WithinLimits ==
  \A order \in SetToSeqs(publishing), liveBatches \in BOOLEAN :
    \A bundle \in ToSet(PublishBatch(order, liveBatches)) :
      /\ BundleBytes(bundle) <= maxPublicationBundleBytes \/ Len(bundle) = 1
      /\ \A envelope \in ToSet(bundle) : envelope.batch =>
           /\ Len(envelope.events) \in 1..maxEventsPerStreamBatch
           /\ PayloadBytes(envelope.events) <= maxStreamBatchBytes \/ Len(envelope.events) = 1
=============================================================================
