---------------------------- MODULE BatcherCommand ----------------------------
(***************************************************************************)
(* `fukan-ingest batcher` for a telemetry type: newBatcherCmd and          *)
(* startBatcher (internal/commands/batcher.go) around one Batcher, that is *)
(* the ClickHouse half (Batcher), the live half (Broadcast), the NATS      *)
(* subscription whose callback is HandleMsg, and the shutdown sequence.    *)
(*                                                                         *)
(* The NATS client is external: a subscription runs its callback for one   *)
(* message at a time, and Conn.Drain returns at once while the messages    *)
(* already with the client are still being handed to the callback; the     *)
(* connection closes by itself when they are done.                         *)
(***************************************************************************)
EXTENDS Naturals, Sequences, FiniteSets

CONSTANTS
  Events, Invalid,   \* messages that pass Unmarshal and Validate, and that do not
  NoMsg,
  MaxBatchSize, Slots, Flusher, maxRetryAttempts, Conns, FirstConn, NoConn,
  Asset, Timestamp, broadcastBufferSize, broadcastBatchSize

VARIABLES accepted, buf, timer, callbacks, mu, ch, conn, batch, insert, using,
  retry, attempt, spare, finishing, stored, duplicated, unconfirmed, misread,
  dropped, main, cut
persistVars == <<accepted, buf, timer, callbacks, mu, ch, conn, batch, insert, using,
  retry, attempt, spare, finishing, stored, duplicated, unconfirmed, misread,
  dropped, main, cut>>

VARIABLES broadcastCh, chClosed, pending, publishing, loop, offered, overflowed, superseded, published, unpublished
liveVars == <<broadcastCh, chClosed, pending, publishing, loop, offered, overflowed, superseded, published, unpublished>>

VARIABLES
  nats,      \* "subscribed", "draining", "closed"
  inbox,     \* messages with the client, not yet handed to the callback
  seen,      \* messages NATS has delivered to this client, once each
  handling,  \* the event HandleMsg has enqueued and waits for mu with, or NoMsg
  proc       \* "up", "panicked", "exited"
procVars == <<nats, inbox, seen, handling, proc>>

vars == <<persistVars, liveVars, procVars>>

Persist == INSTANCE Batcher
Live    == INSTANCE Broadcast

ASSUME BatcherCommandAssumption ==
  /\ Events \cap Invalid = {}
  /\ NoMsg \notin Events
  /\ Persist!BatcherAssumption
  /\ Live!BroadcastAssumption

Init ==
  /\ Persist!Init
  /\ Live!Init
  /\ nats = "subscribed" /\ inbox = {} /\ seen = {} /\ handling = NoMsg /\ proc = "up"

-----------------------------------------------------------------------------
(* The NATS client (external) and the callback.                             *)

Deliver(m) ==
  /\ proc = "up"
  /\ nats = "subscribed"
  /\ m \notin seen
  /\ seen' = seen \cup {m}
  /\ inbox' = inbox \cup {m}
  /\ UNCHANGED <<persistVars, liveVars, nats, handling, proc>>

\* The callback goroutine is free: not waiting for mu, not inserting under it.
CallbackIdle == handling = NoMsg /\ mu # "handler"

NextMsg(m) ==
  /\ proc = "up"
  /\ nats # "closed"
  /\ CallbackIdle
  /\ m \in inbox
  /\ inbox' = inbox \ {m}

HandleInvalid(m) ==
  /\ NextMsg(m)
  /\ m \in Invalid
  /\ UNCHANGED <<persistVars, liveVars, nats, seen, handling, proc>>

\* Mutant of HandleEnqueue: the event skips the broadcast channel.
HandleEnqueue_Skips(m) ==
  /\ NextMsg(m)
  /\ m \in Events
  /\ handling' = m
  /\ UNCHANGED <<persistVars, liveVars, nats, seen, proc>>

\* HandleMsg up to mu.Lock. A select whose send case is a closed channel
\* panics, default or not, and takes the process with it.
HandleEnqueue(m) ==
  /\ NextMsg(m)
  /\ m \in Events
  /\ IF chClosed
     THEN proc' = "panicked" /\ UNCHANGED <<handling, liveVars>>
     ELSE Live!Enqueue(m) /\ handling' = m /\ UNCHANGED proc
  /\ UNCHANGED <<persistVars, nats, seen>>

\* HandleMsg from mu.Lock on. When it flushes it keeps the callback busy until
\* FlushReturns frees mu.
HandleBuffer ==
  /\ proc = "up"
  /\ handling # NoMsg
  /\ Persist!BufferEvent(handling)
  /\ handling' = NoMsg
  /\ UNCHANGED <<liveVars, nats, inbox, seen, proc>>

\* The drain started by Conn.Drain has nothing left to hand over.
NatsDrained ==
  /\ proc = "up"
  /\ nats = "draining"
  /\ inbox = {} /\ CallbackIdle
  /\ nats' = "closed"
  /\ UNCHANGED <<persistVars, liveVars, inbox, seen, handling, proc>>

-----------------------------------------------------------------------------
(* The goroutines inside the batcher.                                       *)

PersistStep ==
  /\ proc = "up"
  /\ \/ Persist!TimerFires
     \/ Persist!TimerCallback
     \/ \E result \in Persist!Result : Persist!FlushReturns(result)
     \/ \E s \in Slots : Persist!RetryStep(s)
     \/ Persist!RetryWgDone
  /\ UNCHANGED <<liveVars, procVars>>

LiveStep == proc = "up" /\ Live!LoopStep /\ UNCHANGED <<persistVars, procVars>>

-----------------------------------------------------------------------------
(* Shutdown: the rest of newBatcherCmd once the context is cancelled.       *)

\* ctx.Done(); nc.Drain() starts draining and returns; drainFn is called.
Shutdown ==
  /\ proc = "up"
  /\ nats' = "draining"
  /\ Persist!DrainAndFlush
  /\ UNCHANGED <<liveVars, inbox, seen, handling, proc>>

DrainFlush  == proc = "up" /\ Persist!DrainFlush /\ UNCHANGED <<liveVars, procVars>>
RetryWgWait == proc = "up" /\ Persist!RetryWgWait /\ UNCHANGED <<liveVars, procVars>>

\* Mutant of CloseBroadcastCh: broadcastDone is awaited before the close.
CloseBroadcastCh_AfterDone ==
  /\ proc = "up"
  /\ main = "drained" /\ loop = "done"
  /\ Live!CloseBroadcastCh
  /\ UNCHANGED <<persistVars, procVars>>

CloseBroadcastCh ==
  /\ proc = "up"
  /\ main = "drained"
  /\ Live!CloseBroadcastCh
  /\ UNCHANGED <<persistVars, procVars>>

\* Mutant of Exit: DrainAndFlush does not wait for broadcastDone.
Exit_EarlyClose ==
  /\ proc = "up"
  /\ chClosed
  /\ nats' = "closed" /\ proc' = "exited"
  /\ UNCHANGED <<persistVars, liveVars, inbox, seen, handling>>

\* <-broadcastDone; nc.Close(); the deferred closes of Redis and ClickHouse;
\* returning from main ends every other goroutine where it is.
Exit ==
  /\ proc = "up"
  /\ chClosed /\ loop = "done"
  /\ nats' = "closed" /\ proc' = "exited"
  /\ UNCHANGED <<persistVars, liveVars, inbox, seen, handling>>

-----------------------------------------------------------------------------
Next ==
  \/ \E m \in Events \cup Invalid : Deliver(m) \/ HandleInvalid(m) \/ HandleEnqueue(m)
  \/ HandleBuffer
  \/ NatsDrained
  \/ PersistStep
  \/ LiveStep
  \/ Shutdown
  \/ DrainFlush
  \/ RetryWgWait
  \/ CloseBroadcastCh
  \/ Exit

Spec == Init /\ [][Next]_vars

-----------------------------------------------------------------------------
(* Properties                                                               *)

Settled == stored \cup dropped \cup misread

\* The process does not exit before what was buffered when DrainAndFlush took mu
\* is stored or given up on, nor while the broadcaster can still use Redis.
ExitIsClean ==
  proc = "exited" =>
    /\ cut \subseteq Settled
    /\ pending = {} /\ publishing = {} /\ broadcastCh = <<>>

\* Both paths see the same events: whatever is buffered for ClickHouse has been
\* offered to the live path before, and nothing else has but the event the
\* callback is carrying between the two.
PathsAgree == offered = accepted \cup ({handling} \ {NoMsg})

\* What can happen during the shutdown without a new message or a tick.
ShutdownWork ==
  \/ \E m \in Events \cup Invalid : HandleInvalid(m) \/ HandleEnqueue(m)
  \/ HandleBuffer \/ PersistStep
  \/ /\ proc = "up"
     /\ \/ Live!Receive \/ Live!ReceiveClosed
        \/ \E sent \in SUBSET publishing : Live!PublishReturns(sent)
     /\ UNCHANGED <<persistVars, procVars>>
  \/ DrainFlush \/ RetryWgWait \/ CloseBroadcastCh \/ Exit

\* What DrainAndFlush, the flush, the retries and the broadcaster wait for is there, for
\* one of them: an answer that the timeouts bound, mu, the retries, the close, a batch.
SomeWaitIsOver ==
  \/ mu # "free" /\ insert[Flusher] # "none"
  \/ \E s \in Slots :
       \/ retry[s] = "inserting" /\ insert[s] # "none"
       \/ retry[s] \in {"dialing", "closing"}
       \/ retry[s] \in {"sleeping", "swapping"} /\ mu = "free"
  \/ finishing > 0
  \/ main = "locking" /\ mu = "free"
  \/ main = "waiting" /\ (\A s \in Slots : retry[s] = "free")
  \/ main = "drained" /\ ~chClosed
  \/ loop = "select" /\ (chClosed \/ broadcastCh # <<>>)
  \/ publishing # {}
  \/ loop = "done" /\ chClosed

\* Between the signal and the end of the process, DrainAndFlush, the callback, the
\* flush, the retries and the broadcaster never all wait for one another: the wait of
\* one is over, and it can go on.  Each such step uses up some of what is left to do, so
\* the shutdown comes to its end.
ShutdownNeverStuck ==
  proc = "up" /\ main # "running" => SomeWaitIsOver /\ ENABLED ShutdownWork

\* docs/ARCHITECTURE.md:312 "broadcast channel close -> broadcast drain": after the
\* close the shutdown goes on to the broadcast drain; no callback panics on it.
CloseIsSafe == proc # "panicked"
=============================================================================
