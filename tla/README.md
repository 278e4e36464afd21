# A TLA+ verification of fukan-ingest

fukan-ingest polls or streams positions and routing events (ADS-B, AIS, TLE,
BGP), publishes them on NATS, and a *batcher* per type stores them in ClickHouse
and passes them on to live subscribers through Redis. `refresh` commands rebuild
metadata tables. This directory holds TLA+ models of that code, the TLC
configurations that check them and proofs for every size of the system.

Paths below are relative to the repository (`src/` here).

## 1. The system

| component | state | operations | talks to |
|---|---|---|---|
| Batcher, ClickHouse path (`internal/batcher/batcher.go`) | `buf`, `timer`, `mu`, `ch`, `retrySem`, `retryWg` | `HandleMsg` (append), timer callback, `flushLocked`, `scheduleRetry`, `retryInsert`, `reconnect`, `DrainAndFlush` | ClickHouse clients; called by the NATS callback, the timer, the command |
| Batcher, live path (same file) | `broadcastCh`, `pending`, statistics | `HandleMsg` (enqueue), `broadcastLoop`, `upsertLatest`, `flush` | the Redis publisher; fed over a bounded channel |
| BGPBatcher (`bgp_batcher.go`) | as above; a slice instead of `pending` | the same | the same |
| Batcher command (`internal/commands/batcher.go`) | the process | connect, subscribe, wait for the signal, `Drain`, `DrainAndFlush`, close | NATS, ClickHouse, Redis, the batcher |
| Redis publisher (`internal/redis/publisher.go`) | none | `PublishBatch`, `PublishBGPBatch`: group by H3 cell, cut into chunks and bundles, pipeline | Redis; called by the live paths |
| BGP worker (`internal/worker/bgp`) | `PrefixState`, `Geo` cache and in-flight set | `ParseMessage`, `Observe`, `Known`, `Forget`, `Lookup`, `fetch` | RIS Live websocket, RIPEstat, NATS |
| TLE worker (`internal/worker/tle`) | element store, two tickers | `Run`, `initialFetch`, `fetchAll`, `propagateScheduled`, `satelliteDue`, `detectManeuver` | CelesTrak, the classified file, NATS |
| ADS-B worker (`internal/worker/adsb`) | ticker, token source | poll, parse, publish | OpenSky with an OAuth2 token, NATS |
| AIS worker (`internal/worker/ais`) | none | read, parse, publish | AIS websocket, NATS |
| Supervision (`internal/worker/worker.go`, `commands/worker.go`, `signal/signal.go`) | back-off, worker group | `RunWithReconnect`, `runWorker`, `NotifyCtx` | all workers |
| OAuth2 token source (`internal/oauth2/token.go`) | cached token, its expiry | `Token` | token endpoint |
| Refresh (`internal/refresh`) | the tables, across runs | `Aircraft`, `Satellite`, `Cables` | ClickHouse, downloads |
| Migrations, configuration, coordinates, model | none | wiring and conversion | |

What is hard here: the batcher is shared by the NATS callback, timer goroutines,
up to ten retry goroutines and the shutdown sequence; inserts are made under its
mutex and can time out with their rows in place; a retry replaces the connection
under the feet of the others; the broadcaster is decoupled by a bounded channel
that the shutdown closes; NATS keeps calling while the process winds down. The
hazards, each at its line and with the properties that watch it, are listed in
PROJECT.json.

What makes each component correct:

- ClickHouse path: while the process runs no accepted event disappears without a log
  line, and at its exit only one that was accepted after the drain's flush had taken
  `mu`; a batch is settled as a whole; no event has two owners, duplicates have only one
  cause, buffered rows always have a flush coming, reconnects neither leak a client nor
  close one in use by a flush, the drain settles what was there when it took `mu`.
- Live path: every event the channel took is coalesced for a newer one,
  published, or part of a failed publish, exactly once; the loop ends drained.
- BGP live path: the same, without coalescing, and in order.
- Command: both paths see the same events; the exit leaves nothing of what was accepted
  before the drain, and no goroutine at work on it.
- BGP worker: what the prefix table says is what was read last; each verdict has
  its cause and each change that can be placed is reported; an AS is fetched by
  one goroutine at a time and never stays marked; parsing does not wait.
- Supervision: a feed is retried for ever, with the documented pauses, and ends no
  other; a cancel ends everything without waiting for a pause.
- Publisher: whatever order a window comes in, each event is once in each of its
  streams, and no payload exceeds its limit unless a single event does.
- ADS-B worker and token source: no request carries a token the server has let
  expire; a cancel ends the worker although the token request ignores it.
- TLE worker: no satellite is silent for more than two intervals and a fetch, none
  has two positions in one interval, no jump of an orbit goes untold.
- Refresh: what a table has after any number of failed and interrupted refreshes is
  still coherent: images carried over, no landing without its cable, the latest
  version loaded when a refresh says so; and a refresh ends.

## 2. Modules

| module | what it is |
|---|---|
| `DeliveryLedger` | abstract specification: what the ClickHouse path promises about an event and its batch |
| `Batcher` | the ClickHouse path of `Batcher` (and of `BGPBatcher`, which repeats it) |
| `BatcherProofs` | theorems about `Batcher` and its refinement of `DeliveryLedger` |
| `Broadcast`, `BroadcastProofs` | the live path of `Batcher`, and theorems about it |
| `Publisher` | `PublishBatch` as operators: streams, chunks, envelopes, bundles |
| `VesselPath`, `VesselPathProofs` | composes the AIS worker, `Broadcast` and `Publisher`: from the feed to Redis; theorems about it |
| `BatcherCommand` | composes `Batcher` and `Broadcast` with the NATS subscription and the shutdown |
| `Supervisor` | the worker command: errgroup, `RunWithReconnect`, `NotifyCtx` |
| `CommandProofs` | theorems about both commands, with those about the halves of the batcher by INSTANCE |
| `BgpBroadcast` | the live path of `BGPBatcher` |
| `BgpBatcher` | composes `BgpBroadcast` and `Batcher` into the whole `BGPBatcher` |
| `Geo` | the map from AS numbers to places, with its fetch goroutines |
| `BgpParser` | `ParseMessage` and `PrefixState` on top of `Geo` |
| `BgpProofs` | theorems about `BgpBroadcast`, `BgpBatcher`, `Geo` and `BgpParser` |
| `AdsbWorker`, `AdsbWorkerProofs` | the ADS-B polling loop with the token source, in time |
| `TleWorker`, `TleWorkerProofs` | the TLE worker: store, scheduler, fetches, the parser of mixed files; theorems about all of them |
| `RefreshRun` | what the three refresh targets share: flags, interrupt, batches, reruns |
| `RefreshAircraft`, `RefreshSatellite`, `RefreshCables` | one target each |
| `CableMerge` | `Merge` as operators: baseline, OSM ways, candidates, landings |
| `Refresh`, `RefreshProofs` | composes the targets into the command, and theorems about it |
| `MC*` | model values, small sets and symmetry for TLC |

**Batcher.** A step is what one goroutine does between two points where another
can see it: taking `mu`, calling ClickHouse, returning. `BufferEvent` is
`HandleMsg` below the enqueue, with the flush it may start; `TimerFires` and
`TimerCallback` are `AfterFunc` (a callback that has started can no longer be
stopped, so stale callbacks happen); `FlushLocked` and `FlushReturns` are the two
ends of the insert made under `mu`, which holds `mu` meanwhile; `ScheduleRetry`
takes a slot of `retrySem` or drops. `RetryInsert`, `RetryReturns`, `DialFails`,
`DialSucceeds`, `SwapClient`, `CloseOld`, `NextAttempt` are one retry goroutine,
whose deferred release of `retrySem` precedes `RetryWgDone`. `DrainAndFlush`,
`DrainFlush`, `RetryWgWait` are the first part of `DrainAndFlush`.

The ch-go client is external. Its call may succeed, be rejected, fail in
transport before or after its rows have landed (then the client is closed), be
refused on a closed client, or, only when two calls run at once on one client,
report a success it did not have.

**DeliveryLedger** knows two things of the events: the fate of each, and which batches are
closed and not settled. `Accept` buffers an event and may close the batch with it, `Close`
makes a batch of all that is buffered, `Settle` gives the events of one batch one outcome.
History variables of `Batcher` record what became of each
event (`stored`, `duplicated`, `unconfirmed`, `misread`, `dropped`).

**Broadcast.** `broadcastCh` is the channel's buffer; `Receive`, `Tick` and
`ReceiveClosed` are the cases of the select (both tickers are one: the statistics tick
also flushes); a flush puts the window into `publishing` and `PublishReturns` takes any
part of it as published: a failed Exec may have published anything.

**VesselPath** makes that precise. `ParseMessage` and its two parsers decide which
message becomes an event and at which position (the report's, or for static data that
of the metadata); `Dial`, `ReadFails` and `Read` are `stream` under `RunWithReconnect`;
`PublishWindow` puts the window, a Go map, in any order through `PublishBatch` and lets
the pipeline stop after any number of bundles. NATS may lose a message. **Publisher**
has the loops of the code as recursive functions: `AddToGroup`, `AddEvent` and
`AddEnvelope` are their passes. A size in bytes is a number of each event, once plain and
once escaped in an envelope; the true sizes (`PayloadBytes`, `BundleBytes`) are sums over
what was put together, apart from the counters of the loops.

**BgpBroadcast** is the loop with a slice and no coalescing. **BgpBatcher** extends it
and takes the ClickHouse half from `Batcher` by INSTANCE: `bgp_batcher.go` repeats that
code on another row type.

**BatcherCommand.** Both halves by INSTANCE. `HandleEnqueue` and `HandleBuffer`
are `HandleMsg` before and after `mu.Lock`; a message is taken only when the
subscription's callback is idle. `Shutdown` is the signal, `Drain` (which
returns at once) and the call of `DrainAndFlush`; `Exit` the rest.

**Geo.** `Miss` and `LockInflight` are the two critical sections of `Lookup`; other
goroutines run between them, which is where the superfluous fetch comes from.
`FetchAnswers`, `FetchStores`, `FetchClears` are one `fetch`: the request with all its
early returns, the store, the deferred delete. There is a place per AS that never
changes, so `cache` is a set. `Fetchers` names goroutines; one more than there are AS
numbers to fetch would show a second fetch for one of them. (If all names were taken
`LockInflight` could not run, and `ParsingEnds`, under which nothing ends a fetch,
would fail: the bound hides nothing.)

**BgpParser.** One goroutine, so a step may be a whole loop round, but every `Lookup`
is a step of its own: `Announce` is a round of the announcement loop up to the city
database, `GeoFromPath` and `ResolvePathCoords` one hop each, `LookupMissed` the second
half of a miss, `Withdraw` and `LookupPeer` a round of the withdrawal loop. The
table is a sequence, least recently seen first, instead of a map with time
stamps. `lastOrigin`, `pruned`, `atRead`, `changed` and two fields of an event are
history. A message that is no UPDATE, or does not parse, changes nothing and is left
out; `NoAS` is a peer AS that does not parse. Publishing cannot change the state.

**Supervisor.** `Connect`, `Launch`, `AllLaunched`, `Wait` and `CloseNats` are
`runWorker`; `FeedFails`, `FeedCancelled`, `BackoffEnds`, `SleepCancelled` one
`RunWithReconnect`, where `healthy` says that the run lasted more than a minute; the
rest is the goroutine of `NotifyCtx`, with its channel of capacity one and, after
`signal.Stop`, the default action.

**AdsbWorker.** Time is counted in a tick all durations share. A token has the clock of
the server (`good`), which starts when it is issued, and that of the client (`left`),
which starts when its answer has been read: `IssueToken` and `TokenAnswered`. `StartPoll`
is a tick with `Token()` up to the cache's verdict; `Answer`, `GetFails`, `TokenFails` the
ends of the two requests; `Reconnect` a new `poll` with a new token source and ticker.
`MayWait` says where time can pass: an HTTP client ends its request at the timeout, and
the context ends every wait but that for the token, whose request does not carry it.
Which aircraft of an answer are published (`ParseStates`) has no effect here and is left out.

**TleWorker.** One goroutine, a time of 200 ms ticks modulo the fetch interval. `Clock`
passes a tick: the ticker's channel holds one, the rest are dropped while a fetch runs,
and the one kept carries the time it was due (`tick` is its age). `satelliteDue` is the
code's slot of a hash in the interval of the regime; `FetchStores` replaces the store by
what both servers answered, or by the first alone when the classified one fails;
`NewStore` compares with the store before for manoeuvres; of several element sets of one
satellite in a file the last is stored (`LastOrbit`). `parseTLEBatch` is the loop over
lines, with its test for three lines ahead; `RecordFiles` are the files written record by
record, in either format, that `BatchComplete` is about. Positions (SGP4) are external: any due
satellite may be skipped. Assumed: ticks come one per slot, none early or late by a slot.

**Refresh.** A step is a download, a line, a query or an INSERT. An INSERT that fails may
have been applied. `aircraft_meta` keeps all versions of a row until `MergeParts`
(external) drops the older ones, since `queryExistingImages` reads without FINAL; the
other tables are only read with the last version. `ReadFails` is the parse loop on a
broken body, which takes the error for a bad record and reads on. `ScanFails` is the same
for the catalog, where the scanner hands out the beginning of a line as a whole one before
it stops, and this half a row is inserted if it fills the batch. `WriteImage` is external:
nothing in the repository writes an image but to take it over. In **CableMerge** the
points of the globe, their distances and the coast's polygons are data, as is whether the
embedded coastline parses (`CoastlineLoads`: if not, every landing is near a coast and no
point on land; the run has it parse, the proofs leave it open); the candidates of a cable
come in the order of Go maps, so `Bests` is the set of what all orders choose.

Abstractions: rows are events without content except what a decision needs (asset,
timestamp, cell, sizes); time is the order of timer steps, but in `AdsbWorker` and
`TleWorker`, which count it; back-off durations are dropped outside `Supervisor`; the
order of rows in a batch is dropped in `Batcher` and kept in `BgpBroadcast`; log wording
and the counters of the log lines are dropped.

## 3. Runs

| run | instance | shows |
|---|---|---|
| `batcher` | 3 events, batch of 2, 2 retry slots, 2 attempts, 3 clients; symmetric in events, slots and spare clients | `SingleCustody`, `DuplicatesWereUnconfirmed`, `BufferedHasTimer`, `CloseSparesFlush`, `NoClientLeak`, `DrainSettles`, `ImplementsLedger` |
| `batcher_command` | 2 events (symmetric) and an invalid message, 1 slot, 1 client, 1 attempt, channel of 1 | `ExitIsClean`, `PathsAgree`, `ShutdownNeverStuck` |
| `vessel_path` | 9 messages of 3 ships, 5 of which become events; channel of 2, window of 3; payloads of 2 events or 6 bytes, bundles of 22 | `HandledOnce`, `NewestSurvives`, `OncePerStream`, `WithinLimits`, `EventuallyHandled` |
| `bgp_batcher` | both halves of `BGPBatcher`, 2 events, channel of 1, 1 attempt | `OnceInOrder`, `EventuallySettled`, `DrainEnds` |
| `bgp_parser` | 3 prefixes, one in the city database; 3 AS numbers, one Tier-1 and in the seed table; 7 updates in any order; table of 2, pruned to 1 | `TableBounded`, `TableIsHistory`, `VerdictsHaveCause`, `ChangeIsReported`, `PlacedNearOrigin`, `OneFetchPerASN`, `ParsingEnds` |
| `supervisor` | 2 workers, 2 signals, failures counted to 8 | `PauseFitsFailures`, `FeedsAreIndependent`, `CancelEnds`, `KeepsTrying` |
| `adsb` | a tick of 10 s: margin 6, timeouts 1 and 3, lifetimes 3, 5, 6 and 9 | `TokenStillGood`, `StopsInTime` |
| `tle` | 3 satellites; intervals of 2, 3 and 4 ticks, a fetch every 12 that takes up to 3; 5 orbits of one satellite, a geostationary one, one only in the classified file; files of up to 3 records | `SilenceBounded`, `OncePerRound`, `ManoeuvreIsTold`, `BatchComplete` |
| `refresh` | each target, refreshed twice from two versions of its source; batches of 2, 3 aircraft, 2 image writes; 3 cables, two answers of Overpass, 9 points 100 km apart | `ImagesCarried`, `LatestIsLoaded`, `LandingsHaveCables`, `RowIsBest`, `RefreshEnds` |
| `close_is_safe` | as `batcher_command`; violation | `CloseIsSafe` |
| `second_signal` | as `supervisor`; violation | `SecondSignalEnds` |
| `images_preserved` | as `refresh`; violation | `ImagesPreserved` |

`Geo`, `Broadcast` and `BgpBroadcast` are checked inside the runs of the modules that
compose them. Type invariants are proved (section 5) for the modules with proofs; they
are conjuncts of their inductive invariants and not run again.

Why the bounds are enough: the real `MaxBatchSize` of 10 000 enters only through
"is the batch full", so 2 gives full and partial batches; 3 events give two
batches in flight and one row buffered; two slots give two retries that
reconnect at once, and a third failure finds `retrySem` full; 3 clients give a
reconnect after a reconnect; 2 attempts give first, middle and last rounds. A table
of 2 for 3 prefixes is pruned by the third, and with 7 updates every category occurs,
for prefixes known, unknown, pruned and withdrawn, with a message that announces and
withdraws the same prefix. A back-off reaches its cap of 60 s at the seventh
failure, so counting to 8 sees the cap twice; beyond it nothing changes. Three ships
in one coarse cell fill a stream beyond its limits of events and of bytes, one of their
events is alone too large for a payload, and one is out of time order. The tick of
10 s divides the timeouts and the margin of the ADS-B worker (60 s, 10 s, 30 s), and the
lifetimes lie below, at and above the margin. In the TLE run a fetch is longer than the
shortest interval, as the code's 10 s interval of a low orbit is shorter than the HTTP
timeouts. In the refresh run a file has a repeated address and a malformed line, the last
batch is full or partial, and a second refresh meets whatever the first left; the cables
have a tie, a longer way with fewer landings, a way over land, one through a hole, a
cable without landings near the coast and names that match as prefixes and by numeral.
The proofs remove these bounds for what they prove. Deadlock checking is off where the
program stops (after the drain, after the exit, after the last refresh).

### Disagreements with the documents

Three runs are expected to fail; each quotes the sentence it checks.

- `close_is_safe`: `nc.Drain()` returns at once, so a message may be handled after
  `close(b.broadcastCh)`: the send panics (docs/ARCHITECTURE.md:312). For the same
  reason a delivered message may not be buffered before the process exits, or be buffered
  after the drain's flush and end with the process.
- `second_signal`: the context the goroutine has just cancelled makes the second
  select return at once, and the second signal can be swallowed
  (internal/signal/signal.go:12).
- `images_preserved`: the images are queried once, without FINAL, before all the inserts:
  an image written in between is overwritten, and of versions not yet merged any may win
  (docs/ARCHITECTURE.md:288, internal/refresh/aircraft.go:112). `ImagesCarried` is what the
  code does ensure.

Some texts are looser than the code; no run of their own shows them:

- an insert made by, or waited for in, the subscription's one callback delays the live
  path of the messages behind it (batcher.go:193), against docs/ARCHITECTURE.md:208;
- a path that looks like a leak is reported at every re-announcement, since the leak test
  precedes the look at the table (internal/worker/bgp/parser.go:144 against :131); and the
  comment of `detectLeak` has the direction of the path reversed (parser.go:250);
- an event whose prefix the city database does not know is placed at the hop of the path
  nearest the origin that is known (geoFromPath, internal/worker/bgp/parser.go:215), where
  docs/ARCHITECTURE.md:275-276 look up the origin AS alone and then drop the event;
- the size trigger and the statistics tick also flush within a 200 ms window
  (batcher.go:35); an AS is still unknown at its second sighting while its fetch runs or
  if it failed (geo.go:16);
- only the best candidate of a cable is tested for land (refresh/cables/merge.go:91), where
  merge.go:226 has all candidates re-validated; rows of cables that are no longer built are
  never deleted;
- the last record of a two-line classified file, and one whose name begins with 1, are
  missed (`BatchComplete` states exactly which); satellites without a NORAD number share a
  row; docs/ARCHITECTURE.md:264 gives another fetch interval for the classified file.

## 4. Fairness

Timers fire and external calls end: inserts, dials and publishes run under
contexts with timeouts (30 s, 10 s, 5 s), so weak fairness of their returns.
Steps that need `mu` get strong fairness: `sync.Mutex` hands itself to a waiter
starved for a millisecond. A Go select chooses among ready cases at random, so a
case that is ready again and again is taken: strong fairness of `Receive` and
`ReceiveClosed`. Nothing is assumed about new messages, signals or the success
of any call.

`VesselPath` and `BgpBatcher` add nothing but that the callback gets `mu` and the main
goroutine goes on; `EventuallySettled` and `DrainEnds` hold whatever ClickHouse and Redis
answer. The process ends soon after `DrainAndFlush` has returned, and timers and retries with
it. `BgpBatcher` has no such end, so its fairness would promise too much from there on:
after the drain has taken `mu`, `EventuallySettled` speaks only of what was accepted by
then, all of which is settled before `DrainAndFlush` returns, and `DrainEnds` of nothing
after the return. `BgpParser` assumes that the reading goroutine runs and nothing of the fetches,
since `ParsingEnds` is that no `Lookup` waits for one. `Supervisor`'s `FairSpec` leaves
timers out and has feeds return once cancelled (they use the context in their dials,
reads and requests), so `CancelEnds` holds without the end of any pause; `KeepsTrying`
states in itself that timers fire, and needs nothing of the feeds. `Refresh` assumes that
the command's goroutine runs; that a download breaks, a part is merged or an image written
is never assumed. `RefreshEnds` excepts a broken CSV download, on which the parse loop reads
on until the context ends it. `AdsbWorker` and `TleWorker` count time, so that what must
happen in time is a safety property and needs no fairness.

`BatcherCommand` has no fairness: its state space is too large for TLC's liveness
check. `ShutdownNeverStuck` says instead that after the signal, until the process ends, the
wait of one of those that take part is over (`SomeWaitIsOver`), and that a step other than
a tick or a new message can be taken (ENABLED). As every such step uses up a message, a
row, an attempt or a stage of the shutdown, that is the absence of a hang.

## 5. Proofs

`BatcherProofs` proves, from `BatcherAssumption` alone (positive sizes, `Flusher`
not a slot, an initial client), for all constants:

- the type invariant (`TypeSafe`) and the seven safety invariants of the run
  `batcher` (`NeverLost`, `OneOwner`, `DuplicatesExplained`, `BufferWillFlush`,
  `CloseIsApart`, `NoLeak`, `DrainComplete`);
- that `Batcher` implements `DeliveryLedger` (`BatcherImplementsLedger`).

None of the properties is inductive. The inductive invariant `IInv` adds what the
control state says of the data: `SpareHeldByReconnect` (a retry goroutine has a
client of its own exactly between dial and close; without it `SwapClient` could
install no client at all), `IdleOwnsNothing` (a free slot, or a free mutex, owns
no rows; otherwise handing over a batch could overwrite one), `OnlyAccepted` and
`OwnedRowsWereUnconfirmed` (an event still owned has a row only through an
unconfirmed insert; this is why a second row implies an unconfirmed one),
`TimerPending`, `MutexHeldByFlush` (the flush that holds `mu` inserts on the
current `b.ch`, since only a goroutine with `mu` can replace it), `SpareIsApart`,
and `CutAdvances` (what the drain waits for has left `b.buf`, then the flush,
then the retries). Each group has its own step lemma, with a step per action.

The refinement is proved through `Shape`: every step leaves custody as it is, makes a batch
of the whole buffer, accepts one event (perhaps closing the batch with it), or settles
one owner's batch; `LedgerStep` maps these to a stutter, `Close`, `Accept` and `Settle`. That
the ledger's batches are those that the flush and the retries own, and its buffer is `b.buf`
(`BufferedIsBuf`), rests on `SingleCustody`: no two owners have equal batches.

`CommandProofs` proves that `BatcherCommand` implements both of its halves
(`CommandImplementsBatcher`, `CommandImplementsBroadcast`): seen through the variables of
one half, each of its steps is a step of that half or a stutter. The only invariant this
needs is `Carried`, that the callback has an event in hand or none. The theorems about
the halves come in as instances of their proof modules, and short lemmas
(`PersistBufferEvent` to `LiveInit`) identify the operators of the two instances of one
module. So the ledger and `HandledOnce` hold in the command with its shutdown, and
`NothingLost` as long as the process runs. Once it has exited nobody owns anything, and
`CommandAccounts` says what is lost then: only events that were appended after
`DrainAndFlush` had taken `mu`, none that are in `cut`. Three properties of the command
itself follow:

- `PathsAgree` (`SameEventsOnBothPaths`): only `HandleMsg` touches both paths, and
  what it has put on the first and not on the second is what it has in hand.
- `ExitIsClean` (`ExitLeavesNothing`): `Phases` says that the channel is closed only
  after `retryWg.Wait`, and that the process exits only after the loop is done;
  `DrainSettles` of the one half and `DrainedWhenDone` of the other say what is settled by
  then. `DrainedForGood` needs the inductive invariant of `Batcher`: without it a flush
  by `main` could end after the drain.
- `SomeWaitIsOver` after the signal (`ShutdownGoesOn`), the first half of
  `ShutdownNeverStuck`: whoever waits for `mu` waits for a flush that is inside its insert
  (`MutexHeldByFlush`), a retry that waits for an insert has one (`RetryInsideDo`), and the
  loop waits for `PublishBatch` only when there is a batch (`PublishesSome`).

Of the worker command, it proves `TypeOK`, `FeedsAreIndependent` and `CleanReturn` for any
set of workers. The three together are
inductive: a worker returns only when its context is done, and by
`FeedsAreIndependent` before the step that takes a cancel. `PauseFitsFailures`
(`PauseDoubles`) rests on `BackoffFits`, the same relation of pause and failures in every
state of a worker and not only in its pause; that a power of two doubles is proved by
counting subsets (`PowerDoubles`), as the library knows nothing else of it.

`VesselPathProofs` proves first that `VesselPath`, with the publisher's bundles in it and a
pipeline that breaks off, implements `Broadcast`, whose `PublishReturns` may send any part of
a window (`VesselPathImplementsBroadcast`), so `HandledOnce` and `NewestSurvives` hold from the
feed to Redis (`VesselEventsAccounted`). Then what `PublishBatch` makes of a window, in any
order of its events and in both modes:

- `WithinLimits` (`PayloadsWithin`): the counters of the loops are not the sizes of what they
  count, so each loop has an invariant that relates them. `ChunkAccs` has the bytes of
  the open chunk exactly; `BundleAccs` has those of the open bundle at most, since the counter is a
  byte too high after a flush. A bundle over the limit is one envelope, which no
  cut could make smaller.
- `OncePerStream` (`PublishedOnce`): `GroupHolds` says that a group has the events of its
  stream, each once; `ChunksHoldAll` that its chunks hold the same; `OnceJoin` and
  `OnceFlatten` that envelopes of different streams, or of different events, put end to
  end repeat nothing; `BundlesHoldAll` that the bundles, put end to end, are the
  envelopes; and `OncePlaces` counts.

The invariants over steps are small: the windows hold events and are finite (`WindowsTyped`,
`FiniteWindows`). Assumed are `VesselAssumption`, that `Events` has what `ParseMessage` makes
of the feed's messages, and `StreamsAssumption`: sizes are numbers, and no two streams of an
event are the same, as their cells differ in resolution.

`BgpProofs` proves `TypeOK`, `OnceInOrder` and `DoneMeansDrained` of `BgpBroadcast`:
what was handed over, the batch and the channel's content, put end to end, are what
arrived; `AppendToConcat` and `PassHeadOn` say that a receive and a flush keep that
sequence, and `RoomInSelect` that the batch is never full while the loop waits. Then, as
above, that `BgpBatcher` implements `BgpBroadcast` and, on its rows, `Batcher`
(`BatcherImplementsLive`, `BgpImplementsBatcher`), so that order, ledger and `NothingLost`
hold in it (`LiveOrderKept`, `BgpAccounts`); `BgpBatcher` is the time before the exit.

It proves all five safety properties of the run `bgp_parser` that are not `Geo`'s: `TableBounded`, `TableIsHistory`, `VerdictsHaveCause`, `PlacedNearOrigin` and
`ChangeIsReported`, for any size of the table and any set of updates. `ForgetSpec`, `PruneSpec` and
`ObserveSpec` say what the table operations keep of a sequence with distinct prefixes;
`TableTellsHistory` turns the table into history; `Underway` says what an event
under construction is, and that it has the cause of its category (`HasCause`).
`PlacedNearOrigin` and `ChangeIsReported` need a second invariant, `LInv`: `OnTheWay` and
`EventsLocated` say which hops an event under construction and a finished one have,
`ChangesInHand` which changes the update being read still has to report.

Of `Geo` alone, under any caller, the module proves `GeoTypeOK`, `OneFetchPerASN` and
`RefetchedOnce`. For the last, `RefetchIsOver` says that an AS that was fetched once too
often is known and is not being looked up, so that no later `Lookup` can miss it. The parser
is such a caller: `ParserImplementsGeo` maps its steps to those of `GeoSpec`, for which
its two invariants and `PeerKnown` give that every AS it looks up is one that `Geo` knows
of, and
`ParserFetchesOnce` has the two properties for the parser.

`BroadcastProofs` proves `HandledOnce` and `NewestSurvives`. Neither is inductive:
`Places` adds that the channel holds no event twice and shares none with the window, the
batch or the overflow, `LoopInv` that nothing is being published while the loop selects,
`OnePerAsset` that the window has one event per asset. `WindowKeepsNewest` says what
`upsertLatest` drops; a chain of replacements is followed by transitivity. `DrainedWhenDone`,
that a loop that is done has left nothing behind, rests on `LoopEnds`: the
loop comes to its last publish only with the channel closed and empty.

`AdsbWorkerProofs` proves `TokenStillGood` and `StopsInTime`, from `AdsbAssumption`: the
margin covers both timeouts (60 s against 10 s and 30 s in the code). `TokenAge` bounds how
far the client's clock is behind the server's, `IssuedAge` the same for a token on its way;
`InFlight` adds what is left of a token to the time its request has used. `CancelAge`
follows a cancel through the states of `poll`: only the token request can make it wait.

`TleWorkerProofs` proves `SilenceBounded`, `OncePerRound` and `ManoeuvreIsTold`, from
`TleAssumption` (the intervals divide the fetch interval, and a fetch at its slowest and one
interval are shorter than it: in the code 150, 300 and 600 ticks, fetches of at most a minute
or so, and 36 000) and `TleDataAssumption` (what the servers can answer is of the right kind).
A fetch begins when the time wraps to 0, and `FetchFitsRound` says that a tick is old,
so that others are dropped, only up to `SlowestFetch`. So a slot later than that
is kept, and `WaitSinceSlot` says that a satellite's wait counts from its last one (`Resolved`
are the slots whose tick has been handled); `OncePerInterval` says that any `k` times in a row
have one slot. `StampedInSlot` says that a position was computed in a slot of its satellite, so
that the next slot is a multiple of the interval later (`SameSlot`). Remainders are not
linear, so the facts about them are lemmas (`DivMod`, `RemainderUnique`, `ModShift`).
For the manoeuvres, `ShownBySlot` relates the orbit last shown to the store.

It also proves `BatchComplete` (`EveryRecordStored`) for files of any length. `RecordsBegin`
says where in the lines each record begins, and `BatchTells`, by induction from the end
of the file, that what the loop finds from there on is what that record and the later
ones tell: this is where the test for three lines ahead, and the last record it misses, come
in. `LastOrbitPrepend` turns the sequence found into the store. That the
recursive function `parseTLEBatch` yields element sets from any file is proved by taking the
smallest position at which it would not (`LeastNat`, from `WFMin`); the induction
theorems themselves cannot be used.

`RefreshProofs` proves `LandingsHaveCables` and `ImagesCarried`. `LandingsWait` says that the
cable of a landing still to insert is in the table or still to insert before it; with
`MergePairs`, every landing of a merge has such a row. For the images, `TodoCarries` says
that a row still to insert has the image to carry over, which at the query needs
`QueriedAll` and before it `ReadingBare`.

`LatestIsLoaded` (`LatestLoaded`) is about complete refreshes, but what makes it true holds
in every state on the way. For aircraft, `LastParsed` says that while the CSV is read the map
has the last record of each address read so far, and `ShownOrTodo` that afterwards each
of them is still to insert or shown, so that nothing left means everything shown. The
catalog is inserted while it is read: `RowsWait` says that the last row read of a
satellite is the last of its rows in the open batch, or is shown and the batch has none of
it. `RowIsBest` (`MergePicksBest`) is about the loop over the candidates in any order:
`LoopFindsBest` says that after each pass the best so far is as good as all candidates
passed (`AsGood`), `BetterKeepsBest` that a pass keeps that; `OrderIsComplete` that no
candidate is missing from an order. Assumed is of what kind the downloads are
(`ListingsAssumption`, `CatalogsAssumption`, `BodiesAssumption`, `LandingsAssumption`: files are
finite sequences, answers finite sets).

Loops over data appear in the models as recursive functions, and the induction
theorems of the library cannot be used. Three lemmas stand in for them: `LeastNat`, a set
of natural numbers has a least; `Passes`, what holds before the first pass and is kept by
each holds after the last, as there is no first pass to break it; and `LoopExists`, the
function is defined. They name sets where the library's theorems have operators.

Only model-checked:

- liveness (`EventuallyHandled`, `EventuallySettled`, `DrainEnds`, `ParsingEnds`, `CancelEnds`,
  `KeepsTrying`, `RefreshEnds`): fairness is beyond the prover;
- of `ShutdownNeverStuck`, that the one whose wait is over can take its step: ENABLED is
  beyond the prover, too.

Every other property of a passing run is proved.

The assumptions of the modules that compose others (`BatcherCommandAssumption`,
`BgpBatcherAssumption`) contain those of their parts, and TLC evaluates all of them in the runs.

## 6. Plan

1. Done: both batchers with their live paths, the publisher and the command; the BGP,
   AIS, ADS-B and TLE workers; supervision; the refresh command; the proofs above.
2. Left to TLC for good, unless the prover learns of fairness and ENABLED: the liveness
   properties and the second half of `ShutdownNeverStuck`.

## 7. Not modelled

SGP4, H3, the coordinates and the geometry of coasts and cables (floating point; their
results are data of the models); column encoding for ClickHouse, JSON and AIS bit
decoding, the names of codes and the catalog's labels (data conversion); GeoIP and AS
tables (read-only data); migrations (calls of a library); configuration and command
wiring (no state).
