------------------------------ MODULE Publisher ------------------------------
(***************************************************************************)
(* How internal/redis/publisher.go turns a window of telemetry events into *)
(* Redis PUBLISH payloads: one envelope per chunk of a stream's events,    *)
(* and bundles of envelopes.  An event is known by the streams it goes to, *)
(* its cell at each of telemetryResolutions, and by two sizes: that of its *)
(* JSON, and of that JSON quoted inside the Data string of an envelope.    *)
(***************************************************************************)
EXTENDS Naturals, Sequences, SequencesExt

CONSTANTS
  Streams,         \* Streams[e]: the AnyCable streams of e, by resolution
  Wire,            \* Wire[e]: bytes of the JSON of e
  Escaped,         \* Escaped[e]: bytes of it as a JSON string
  EmptyPayload,    \* bytes of a delta_batch without events
  EnvelopeBytes,   \* bytes an envelope adds to its data
  maxEventsPerStreamBatch, maxStreamBatchBytes, maxPublicationBundleBytes

ASSUME PublisherAssumption ==
  /\ maxEventsPerStreamBatch \in Nat \ {0}
  /\ {EmptyPayload, EnvelopeBytes, maxStreamBatchBytes, maxPublicationBundleBytes} \subseteq Nat

\* w[1] + ... + w[n]
Total(w, n) ==
  LET upTo[i \in 0..n] == IF i = 0 THEN 0 ELSE upTo[i - 1] + w[i] IN upTo[n]

\* The values of an array, of size[e] bytes each, and their commas.
ArrayBytes(size, s) ==
  Total([i \in DOMAIN s |-> size[s[i]]], Len(s)) + (IF s = <<>> THEN 0 ELSE Len(s) - 1)

PayloadBytes(chunk) == EmptyPayload + ArrayBytes(Wire, chunk)
RawBytes(envelope)  ==
  EnvelopeBytes + ArrayBytes(Escaped, envelope.events)
    + (IF envelope.batch THEN EmptyPayload ELSE 0)

\* One event more: the chunk is closed first when it is full or would get too big.
AddEvent(acc, e) ==
  IF /\ acc.current # <<>>
     /\ \/ Len(acc.current) >= maxEventsPerStreamBatch
        \/ acc.bytes + Wire[e] + 1 > maxStreamBatchBytes
  THEN [chunks |-> Append(acc.chunks, acc.current), current |-> <<e>>,
        bytes |-> EmptyPayload + Wire[e]]
  ELSE [chunks |-> acc.chunks, current |-> Append(acc.current, e),
        bytes |-> acc.bytes + Wire[e] + (IF acc.current = <<>> THEN 0 ELSE 1)]

Chunked(events) ==
  LET upTo[i \in 0..Len(events)] ==
        IF i = 0 THEN [chunks |-> <<>>, current |-> <<>>, bytes |-> EmptyPayload]
        ELSE AddEvent(upTo[i - 1], events[i])
  IN  upTo[Len(events)]

\* Mutant of chunkLiveEvents: no flush after the loop.
chunkLiveEvents_NoFlush(events) == Chunked(events).chunks

chunkLiveEvents(events) ==
  LET last == Chunked(events)
  IN  last.chunks \o (IF last.current = <<>> THEN <<>> ELSE <<last.current>>)

Envelope(stream, events, batch) == [stream |-> stream, events |-> events, batch |-> batch]

\* groups[stream], after one event more and after all of them
AddToGroup(group, e, stream) ==
  IF stream \in ToSet(Streams[e]) THEN Append(group, e) ELSE group

Group(events, stream) ==
  LET upTo[i \in 0..Len(events)] ==
        IF i = 0 THEN <<>> ELSE AddToGroup(upTo[i - 1], events[i], stream)
  IN  upTo[Len(events)]

\* The events grouped by stream, the streams in a fixed order, each cut in chunks.
buildTelemetryEnvelopes(events) ==
  LET streams == SetToSeq(UNION {ToSet(Streams[e]) : e \in ToSet(events)})
      Chunks(stream) == LET chunks == chunkLiveEvents(Group(events, stream))
                        IN  [i \in DOMAIN chunks |-> Envelope(stream, chunks[i], TRUE)]
  IN  FlattenSeq([i \in DOMAIN streams |-> Chunks(streams[i])])

\* FUKAN_LIVE_BATCHES=false: an envelope for each event and resolution.
buildLegacyTelemetryEnvelopes(events) ==
  LET Each(e) == [i \in DOMAIN Streams[e] |-> Envelope(Streams[e][i], <<e>>, FALSE)]
  IN  FlattenSeq([i \in DOMAIN events |-> Each(events[i])])

\* Mutant of AddEnvelope: the size of the envelope to add is not counted.
AddEnvelope_SizeAfter(acc, envelope) ==
  IF acc.bundle # <<>> /\ acc.bytes > maxPublicationBundleBytes
  THEN [bundles |-> Append(acc.bundles, acc.bundle), bundle |-> <<envelope>>,
        bytes |-> 2 + RawBytes(envelope)]
  ELSE [bundles |-> acc.bundles, bundle |-> Append(acc.bundle, envelope),
        bytes |-> acc.bytes + RawBytes(envelope) + 1]

\* `additional` keeps the comma it was given for the bundle just flushed, so the
\* count of every bundle but the first is a byte too high.
AddEnvelope(acc, envelope) ==
  LET additional == RawBytes(envelope) + (IF acc.bundle = <<>> THEN 0 ELSE 1)
  IN  IF acc.bundle # <<>> /\ acc.bytes + additional > maxPublicationBundleBytes
      THEN [bundles |-> Append(acc.bundles, acc.bundle), bundle |-> <<envelope>>,
            bytes |-> 2 + additional]
      ELSE [bundles |-> acc.bundles, bundle |-> Append(acc.bundle, envelope),
            bytes |-> acc.bytes + additional]

Bundled(envelopes) ==
  LET upTo[i \in 0..Len(envelopes)] ==
        IF i = 0 THEN [bundles |-> <<>>, bundle |-> <<>>, bytes |-> 2]
        ELSE AddEnvelope(upTo[i - 1], envelopes[i])
  IN  upTo[Len(envelopes)]

\* The payloads of the pipeline, in the order they are published.
publishEnvelopeBundles(envelopes) ==
  LET last == Bundled(envelopes)
  IN  last.bundles \o (IF last.bundle = <<>> THEN <<>> ELSE <<last.bundle>>)

\* PublishBatch up to Exec; liveBatches is the environment variable.
PublishBatch(events, liveBatches) ==
  publishEnvelopeBundles(IF liveBatches THEN buildTelemetryEnvelopes(events)
                         ELSE buildLegacyTelemetryEnvelopes(events))

\* The true size of a bundle: brackets, envelopes and commas.
BundleBytes(bundle) ==
  2 + Total([i \in DOMAIN bundle |-> RawBytes(bundle[i])], Len(bundle)) + Len(bundle) - 1
=============================================================================
