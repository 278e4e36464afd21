------------------------------- MODULE Batcher -------------------------------
(***************************************************************************)
(* The ClickHouse half of Batcher (internal/batcher/batcher.go): the       *)
(* buffer filled by HandleMsg, the size and time triggers, the insert made *)
(* under the mutex, the bounded pool of retry goroutines, the in-place     *)
(* reconnection they perform and the flush-and-wait part of DrainAndFlush. *)
(* BGPBatcher repeats the same code on another row type.                   *)
(*                                                                         *)
(* A step is what one goroutine does between two points where another one  *)
(* can be observed: taking mu, calling ClickHouse, returning from it.      *)
(* The Do call of ch-go is external: a client that fails in transport is   *)
(* closed, an insert that fails in transport may have left its rows, and   *)
(* two Do calls running at once on one client may read each other's reply. *)
(***************************************************************************)
EXTENDS Naturals, FiniteSets

CONSTANTS
  Events,            \* valid events, each delivered at most once by NATS core
  MaxBatchSize,      \* rows that trigger a flush
  Slots,             \* the tokens of retrySem: MaxRetryBuffer of them
  Flusher,           \* the insert made by flushLocked under mu
  maxRetryAttempts,  \* inserts a retry goroutine makes
  Conns,             \* ClickHouse clients that can ever be dialled
  FirstConn,         \* the client newBatcherCmd passes to New
  NoConn             \* no client

ASSUME BatcherAssumption ==
  /\ MaxBatchSize \in Nat \ {0}
  /\ maxRetryAttempts \in Nat \ {0}
  /\ Flusher \notin Slots
  /\ FirstConn \in Conns
  /\ NoConn \notin Conns

Inserters == {Flusher} \cup Slots

VARIABLES
  accepted,     \* history: events appended to b.buf so far
  buf,          \* b.buf (row order inside a batch is abstracted)
  timer,        \* b.timer: "nil", "armed", or "fired" (its goroutine has started)
  callbacks,    \* started AfterFunc goroutines still waiting for mu
  mu,           \* "free", or who holds b.mu across an insert
  ch,           \* b.ch
  conn,         \* state of every ClickHouse client
  batch,        \* rows owned by the locked flush and by each retry goroutine
  insert,       \* the Do call each of them is in
  using,        \* the client that call was made on
  retry,        \* where the retry goroutine of each slot is
  attempt,      \* its loop counter
  spare,        \* the client it dialled and has not installed, or took out and has not closed
  finishing,    \* goroutines that released retrySem and have not called retryWg.Done
  stored,       \* history: events with a row in ClickHouse
  duplicated,   \* history: events with more than one row
  unconfirmed,  \* history: events whose rows landed although Do returned an error
  misread,      \* history: events whose Do returned nil with no row written
  dropped,      \* history: events logged as dropped
  main,         \* DrainAndFlush: running, locking, flushing, waiting, drained
  cut           \* history: events accepted when DrainAndFlush got the mutex

lockVars   == <<accepted, buf, timer, callbacks, mu>>
connVars   == <<ch, conn, spare>>
insertVars == <<insert, using>>
retryVars  == <<retry, attempt, finishing>>
fateVars   == <<stored, duplicated, unconfirmed, misread, dropped>>
mainVars   == <<main, cut>>
vars == <<lockVars, connVars, insertVars, retryVars, batch, fateVars, mainVars>>

RetryPC == {"free", "sleeping", "inserting", "dialing", "swapping", "closing"}
Result  == {"ok", "rejected", "broken", "unconfirmed", "closed", "misread"}

Init ==
  /\ accepted = {} /\ buf = {} /\ timer = "nil" /\ callbacks = 0 /\ mu = "free"
  /\ ch = FirstConn
  /\ conn = [c \in Conns |-> IF c = FirstConn THEN "open" ELSE "undialed"]
  /\ spare = [s \in Slots |-> NoConn]
  /\ batch = [i \in Inserters |-> {}]
  /\ insert = [i \in Inserters |-> "none"]
  /\ using = [i \in Inserters |-> NoConn]
  /\ retry = [s \in Slots |-> "free"]
  /\ attempt = [s \in Slots |-> 0]
  /\ finishing = 0
  /\ stored = {} /\ duplicated = {} /\ unconfirmed = {} /\ misread = {} /\ dropped = {}
  /\ main = "running" /\ cut = {}

-----------------------------------------------------------------------------
(* InsertBatch on b.ch: the call, and what it can return.                   *)

\* Do is entered on the current client: refused at once when the client is
\* closed, shared from then on when another Do is running on the same client.
InsertBatch(i) ==
  LET together == {j \in Inserters : using[j] = ch /\ insert[j] # "refused"}
  IN  /\ using' = [using EXCEPT ![i] = ch]
      /\ insert' = [j \in Inserters |->
           IF j = i /\ conn[ch] = "closed" THEN "refused"
           ELSE IF j = i /\ together = {} THEN "running"
           ELSE IF j = i \/ (j \in together /\ conn[ch] = "open") THEN "shared"
           ELSE insert[j]]

\* What a Do call can return. "closed" is the error isClientClosed recognises.
Results(i) ==
  IF insert[i] = "refused" THEN {"closed"}
  ELSE IF conn[using[i]] = "closed" THEN {"closed", "broken", "unconfirmed"}
  ELSE IF insert[i] = "shared" THEN Result \ {"closed"}
  ELSE Result \ {"closed", "misread"}

Failed(result) == result \notin {"ok", "misread"}

Returns(i, result) ==
  /\ insert[i] # "none"
  /\ result \in Results(i)
  /\ insert' = [insert EXCEPT ![i] = "none"]
  /\ using' = [using EXCEPT ![i] = NoConn]
  /\ conn' = IF result \in {"broken", "unconfirmed"}
             THEN [conn EXCEPT ![using[i]] = "closed"] ELSE conn
  /\ IF result \in {"ok", "unconfirmed"}
     THEN /\ stored' = stored \cup batch[i]
          /\ duplicated' = duplicated \cup (stored \cap batch[i])
     ELSE UNCHANGED <<stored, duplicated>>
  /\ unconfirmed' = IF result = "unconfirmed" THEN unconfirmed \cup batch[i] ELSE unconfirmed
  /\ misread' = IF result = "misread" THEN misread \cup batch[i] ELSE misread

-----------------------------------------------------------------------------
(* HandleMsg below the broadcast enqueue, the timer, flushLocked.           *)

\* The rest of flushLocked up to its insert, called by who.
FlushRows(who, rows) ==
  IF rows = {}
  THEN /\ mu' = "free"
       /\ UNCHANGED <<batch, insertVars>>
  ELSE /\ mu' = who
       /\ batch' = [batch EXCEPT ![Flusher] = rows]
       /\ InsertBatch(Flusher)

\* Mutants of FlushLocked: b.timer is not set back to nil; b.buf keeps its rows.
FlushLocked_KeepsTimer(who, rows) == UNCHANGED timer /\ buf' = {} /\ FlushRows(who, rows)
FlushLocked_KeepsBuf(who, rows)   == timer' = "nil" /\ buf' = rows /\ FlushRows(who, rows)

\* flushLocked, called with mu held and rows in b.buf.
FlushLocked(who, rows) == timer' = "nil" /\ buf' = {} /\ FlushRows(who, rows)

BufferEvent(e) ==
  /\ mu = "free"
  /\ e \notin accepted
  /\ accepted' = accepted \cup {e}
  /\ IF Cardinality(buf \cup {e}) >= MaxBatchSize
     THEN FlushLocked("handler", buf \cup {e})
     ELSE /\ buf' = buf \cup {e}
          /\ timer' = IF timer = "nil" THEN "armed" ELSE timer
          /\ UNCHANGED <<mu, batch, insertVars>>
  /\ UNCHANGED <<callbacks, connVars, retryVars, fateVars, mainVars>>

TimerFires ==
  /\ timer = "armed"
  /\ timer' = "fired"
  /\ callbacks' = callbacks + 1
  /\ UNCHANGED <<accepted, buf, mu, connVars, insertVars, retryVars, batch, fateVars, mainVars>>

\* A callback flushes whatever is buffered, also when its own timer has been
\* replaced since it fired.
TimerCallback ==
  /\ mu = "free"
  /\ callbacks > 0
  /\ callbacks' = callbacks - 1
  /\ FlushLocked("timer", buf)
  /\ UNCHANGED <<accepted, connVars, retryVars, fateVars, mainVars>>

\* Mutant of DropBatch: a batch is given up without a trace.
DropBatch_Silently(rows) == UNCHANGED dropped

\* The two slog.Error exits: retry buffer full, all retries exhausted.
DropBatch(rows) == dropped' = dropped \cup rows

\* Non-blocking send on retrySem: a retry goroutine, or the batch is dropped.
ScheduleRetry ==
  LET idle == {s \in Slots : retry[s] = "free"}
  IN  \/ \E s \in idle :
           /\ retry' = [retry EXCEPT ![s] = "sleeping"]
           /\ attempt' = [attempt EXCEPT ![s] = 1]
           /\ batch' = [batch EXCEPT ![s] = batch[Flusher], ![Flusher] = {}]
           /\ UNCHANGED dropped
      \/ /\ idle = {}
         /\ DropBatch(batch[Flusher])
         /\ batch' = [batch EXCEPT ![Flusher] = {}]
         /\ UNCHANGED <<retry, attempt>>

FlushReturns(result) ==
  /\ mu # "free"
  /\ Returns(Flusher, result)
  /\ IF Failed(result)
     THEN ScheduleRetry
     ELSE /\ batch' = [batch EXCEPT ![Flusher] = {}]
          /\ UNCHANGED <<retry, attempt, dropped>>
  /\ mu' = "free"
  /\ main' = IF mu = "main" THEN "waiting" ELSE main
  /\ UNCHANGED <<accepted, buf, timer, callbacks, ch, spare, finishing, cut>>

-----------------------------------------------------------------------------
(* retryInsert and reconnect, one goroutine per slot.                       *)

\* The goroutine returns: the deferred receive on retrySem comes first.
Release(s) ==
  /\ retry' = [retry EXCEPT ![s] = "free"]
  /\ attempt' = [attempt EXCEPT ![s] = 0]
  /\ batch' = [batch EXCEPT ![s] = {}]
  /\ finishing' = finishing + 1

\* The end of the loop body: another round, or the retries are exhausted.
NextAttempt(s) ==
  IF attempt[s] >= maxRetryAttempts
  THEN /\ DropBatch(batch[s])
       /\ Release(s)
  ELSE /\ retry' = [retry EXCEPT ![s] = "sleeping"]
       /\ attempt' = [attempt EXCEPT ![s] = @ + 1]
       /\ UNCHANGED <<batch, finishing, dropped>>

\* Back-off over: b.ch is read under mu and Do runs after mu is released.
RetryInsert(s) ==
  /\ retry[s] = "sleeping"
  /\ mu = "free"
  /\ InsertBatch(s)
  /\ retry' = [retry EXCEPT ![s] = "inserting"]
  /\ UNCHANGED <<lockVars, connVars, attempt, finishing, batch, fateVars, mainVars>>

RetryReturns(s, result) ==
  /\ retry[s] = "inserting"
  /\ Returns(s, result)
  /\ IF ~Failed(result) THEN Release(s) /\ UNCHANGED dropped
     ELSE IF result = "closed"
     THEN /\ retry' = [retry EXCEPT ![s] = "dialing"]
          /\ UNCHANGED <<attempt, batch, finishing, dropped>>
     ELSE NextAttempt(s)
  /\ UNCHANGED <<lockVars, ch, spare, mainVars>>

DialFails(s) ==
  /\ retry[s] = "dialing"
  /\ NextAttempt(s)
  /\ UNCHANGED <<lockVars, connVars, insertVars, stored, duplicated, unconfirmed, misread, mainVars>>

DialSucceeds(s) ==
  /\ retry[s] = "dialing"
  /\ \E c \in Conns :
       /\ conn[c] = "undialed"
       /\ conn' = [conn EXCEPT ![c] = "open"]
       /\ spare' = [spare EXCEPT ![s] = c]
  /\ retry' = [retry EXCEPT ![s] = "swapping"]
  /\ UNCHANGED <<lockVars, ch, insertVars, attempt, finishing, batch, fateVars, mainVars>>

\* Mutant of SwapClient: old is read from b.ch after the assignment.
SwapClient_ReadsOldLate(s) ==
  /\ retry[s] = "swapping"
  /\ mu = "free"
  /\ ch' = spare[s]
  /\ retry' = [retry EXCEPT ![s] = "closing"]
  /\ UNCHANGED <<lockVars, conn, spare, insertVars, attempt, finishing, batch, fateVars, mainVars>>

SwapClient(s) ==
  /\ retry[s] = "swapping"
  /\ mu = "free"
  /\ ch' = spare[s]
  /\ spare' = [spare EXCEPT ![s] = ch]
  /\ retry' = [retry EXCEPT ![s] = "closing"]
  /\ UNCHANGED <<lockVars, conn, insertVars, attempt, finishing, batch, fateVars, mainVars>>

\* Mutant of CloseOld: the replaced client is not closed.
CloseOld_Forgets(s) ==
  /\ retry[s] = "closing"
  /\ UNCHANGED conn
  /\ spare' = [spare EXCEPT ![s] = NoConn]
  /\ NextAttempt(s)
  /\ UNCHANGED <<lockVars, ch, insertVars, stored, duplicated, unconfirmed, misread, mainVars>>

CloseOld(s) ==
  /\ retry[s] = "closing"
  /\ conn' = [conn EXCEPT ![spare[s]] = "closed"]
  /\ spare' = [spare EXCEPT ![s] = NoConn]
  /\ NextAttempt(s)
  /\ UNCHANGED <<lockVars, ch, insertVars, stored, duplicated, unconfirmed, misread, mainVars>>

RetryWgDone ==
  /\ finishing > 0
  /\ finishing' = finishing - 1
  /\ UNCHANGED <<lockVars, connVars, insertVars, retry, attempt, batch, fateVars, mainVars>>

-----------------------------------------------------------------------------
(* DrainAndFlush up to the closing of the broadcast channel.                *)

DrainAndFlush ==
  /\ main = "running"
  /\ main' = "locking"
  /\ UNCHANGED <<lockVars, connVars, insertVars, retryVars, batch, fateVars, cut>>

DrainFlush ==
  /\ main = "locking"
  /\ mu = "free"
  /\ FlushLocked("main", buf)
  /\ main' = IF buf = {} THEN "waiting" ELSE "flushing"
  /\ cut' = accepted
  /\ UNCHANGED <<accepted, callbacks, connVars, retryVars, fateVars>>

\* Mutant of RetryWgWait: Add is called inside the goroutine, so Wait misses it.
RetryWgWait_MissesRetries ==
  /\ main = "waiting"
  /\ finishing = 0
  /\ main' = "drained"
  /\ UNCHANGED <<lockVars, connVars, insertVars, retryVars, batch, fateVars, cut>>

RetryWgWait ==
  /\ main = "waiting"
  /\ finishing = 0
  /\ \A s \in Slots : retry[s] = "free"
  /\ main' = "drained"
  /\ UNCHANGED <<lockVars, connVars, insertVars, retryVars, batch, fateVars, cut>>

-----------------------------------------------------------------------------
RetryStep(s) ==
  \/ RetryInsert(s)
  \/ \E result \in Result : RetryReturns(s, result)
  \/ DialFails(s)
  \/ DialSucceeds(s)
  \/ SwapClient(s)
  \/ CloseOld(s)

Next ==
  \/ \E e \in Events : BufferEvent(e)
  \/ TimerFires
  \/ TimerCallback
  \/ \E result \in Result : FlushReturns(result)
  \/ \E s \in Slots : RetryStep(s)
  \/ RetryWgDone
  \/ DrainAndFlush
  \/ DrainFlush
  \/ RetryWgWait

Spec == Init /\ [][Next]_vars

\* Timers fire, every ClickHouse call ends (30 s insert, 10 s dial contexts)
\* and goroutines run. sync.Mutex hands itself to a waiter that has starved
\* for 1 ms, so a goroutine that keeps finding mu free again gets it.
Fairness ==
  /\ WF_vars(TimerFires)
  /\ SF_vars(TimerCallback)
  /\ WF_vars(\E result \in Result : FlushReturns(result))
  /\ \A s \in Slots :
       /\ SF_vars(RetryInsert(s))
       /\ WF_vars(\E result \in Result : RetryReturns(s, result))
       /\ WF_vars(DialFails(s) \/ DialSucceeds(s))
       /\ SF_vars(SwapClient(s))
       /\ WF_vars(CloseOld(s))
  /\ WF_vars(RetryWgDone)
  /\ SF_vars(DrainFlush)
  /\ WF_vars(RetryWgWait)

-----------------------------------------------------------------------------
(* Properties                                                               *)

InsertState == {"none", "refused", "running", "shared"}

\* Every variable stays in its range.
TypeOK ==
  /\ accepted \subseteq Events /\ buf \subseteq Events
  /\ timer \in {"nil", "armed", "fired"}
  /\ callbacks \in Nat
  /\ mu \in {"free", "handler", "timer", "main"}
  /\ ch \in Conns
  /\ conn \in [Conns -> {"undialed", "open", "closed"}]
  /\ batch \in [Inserters -> SUBSET Events]
  /\ insert \in [Inserters -> InsertState]
  /\ using \in [Inserters -> Conns \cup {NoConn}]
  /\ retry \in [Slots -> RetryPC]
  /\ attempt \in [Slots -> 0 .. maxRetryAttempts]
  /\ spare \in [Slots -> Conns \cup {NoConn}]
  /\ finishing \in Nat
  /\ stored \subseteq Events /\ duplicated \subseteq Events
  /\ unconfirmed \subseteq Events /\ misread \subseteq Events /\ dropped \subseteq Events
  /\ main \in {"running", "locking", "flushing", "waiting", "drained"}
  /\ cut \subseteq Events

Settled == stored \cup dropped \cup misread
Held    == buf \cup UNION {batch[i] : i \in Inserters}

\* The flush, the retry hand-over, the exhausted retry and the swap of b.buf
\* never lose track of an event: until it is stored or logged as dropped (or
\* a Do call reported a success it did not have) some goroutine still owns it.
NothingLost == accepted \subseteq Held \cup Settled

\* No event is owned twice: not by b.buf and a batch, not by two batches. Two
\* goroutines inserting the same rows would duplicate them without any failure.
SingleCustody ==
  /\ \A i \in Inserters : buf \cap batch[i] = {}
  /\ \A i, j \in Inserters : i # j => batch[i] \cap batch[j] = {}

\* A row is written twice only when an insert had failed after its rows had
\* landed; an insert that returned nil, or was refused, is never repeated.
DuplicatesWereUnconfirmed == duplicated \subseteq unconfirmed

\* Buffered rows always have a flush coming: a timer that is armed, or a fired
\* one whose callback still waits for mu. Stopping or replacing b.timer when a
\* stale callback flushes must not strand the rows that arrived since.
BufferedHasTimer ==
  buf # {} => \/ timer = "armed"
              \/ timer = "fired" /\ callbacks > 0

\* reconnect closes the old client after it has released mu, while a flush may
\* already hold mu again: the client being closed is never the one that flush
\* uses, nor the one installed in b.ch.
CloseSparesFlush ==
  \A s \in Slots : retry[s] = "closing" =>
    /\ spare[s] # ch
    /\ mu # "free" => spare[s] # using[Flusher]

\* Every dialled client is b.ch, or closed, or about to be installed or closed
\* by exactly one goroutine: concurrent reconnects leak no connection.
NoClientLeak ==
  /\ \A c \in Conns : conn[c] = "open" => c = ch \/ \E s \in Slots : spare[s] = c
  /\ \A s, t \in Slots : s # t /\ spare[s] # NoConn => spare[s] # spare[t]

\* When retryWg.Wait returns, everything accepted before DrainAndFlush took mu
\* has been stored or given up on: no retry of it is still running.
DrainSettles == main = "drained" => cut \cap Held = {} /\ cut \subseteq Settled

\* The fate of an event as DeliveryLedger sees it. Rows left behind by a failed
\* insert do not count: the batcher itself only knows what Do reported.
fate == [e \in Events |->
  CASE e \in Held     -> "held"
    [] e \in dropped \ Held -> "dropped"
    [] e \in misread \ (Held \cup dropped) -> "misread"
    [] e \in stored \ (Held \cup dropped \cup misread) -> "stored"
    [] OTHER -> "new"]

\* The batches that have left b.buf, wherever they are: the locked insert hands
\* its batch to a retry goroutine without changing it.
batches == {batch[i] : i \in Inserters} \ {{}}

Ledger == INSTANCE DeliveryLedger WITH fate <- fate, batches <- batches

\* The batcher implements the ledger: events are held from the moment they are
\* appended, a flush takes the whole buffer, and the batch it makes is settled as a
\* whole and once: no event is left behind in b.buf, split from its batch or moved to
\* another one on the way through the insert, the retries and the exhausted retry.
ImplementsLedger == Ledger!Spec
=============================================================================
