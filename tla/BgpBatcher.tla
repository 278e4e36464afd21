------------------------------ MODULE BgpBatcher ------------------------------
(***************************************************************************)
(* BGPBatcher as a whole (internal/batcher/bgp_batcher.go): HandleMsg      *)
(* feeds the live half (BgpBroadcast) and then the ClickHouse half, whose  *)
(* code is that of Batcher on another row type and another insert, and     *)
(* DrainAndFlush ends both.  rows is Batcher's batch.                      *)
(*                                                                         *)
(* The process around it is left out: a message handled after the close    *)
(* panics, and the exit ends what is still buffered, as in BatcherCommand. *)
(* Here the subscription has ended by the close, and no property relies on *)
(* what a timer or a retry does after DrainAndFlush has returned.          *)
(***************************************************************************)
EXTENDS BgpBroadcast, FiniteSets

CONSTANTS NoMsg, MaxBatchSize, Slots, Flusher, maxRetryAttempts, Conns, FirstConn, NoConn

VARIABLES accepted, buf, timer, callbacks, mu, ch, conn, rows, insert, using,
  retry, attempt, spare, finishing, stored, duplicated, unconfirmed, misread,
  dropped, main, cut
persistVars == <<accepted, buf, timer, callbacks, mu, ch, conn, rows, insert, using,
  retry, attempt, spare, finishing, stored, duplicated, unconfirmed, misread,
  dropped, main, cut>>

VARIABLE handling   \* the event HandleMsg has enqueued and waits for mu with, or NoMsg

batcherVars == <<vars, persistVars, handling>>

Persist == INSTANCE Batcher WITH batch <- rows

ASSUME BgpBatcherAssumption == NoMsg \notin Events /\ Persist!BatcherAssumption

NewBGP == Init /\ Persist!Init /\ handling = NoMsg

-----------------------------------------------------------------------------
(* HandleMsg, the callback of one subscription.                             *)

HandleEnqueue(e) ==
  /\ handling = NoMsg /\ mu # "handler"
  /\ Enqueue(e)
  /\ handling' = e
  /\ UNCHANGED persistVars

HandleBuffer ==
  /\ handling # NoMsg
  /\ Persist!BufferEvent(handling)
  /\ handling' = NoMsg
  /\ UNCHANGED vars

-----------------------------------------------------------------------------
(* The goroutines, and DrainAndFlush.                                       *)

PersistStep ==
  /\ \/ Persist!TimerFires
     \/ Persist!TimerCallback
     \/ \E result \in Persist!Result : Persist!FlushReturns(result)
     \/ \E s \in Slots : Persist!RetryStep(s)
     \/ Persist!RetryWgDone
  /\ UNCHANGED <<vars, handling>>

LiveStep == LoopStep /\ UNCHANGED <<persistVars, handling>>

DrainAndFlush ==
  /\ \/ Persist!DrainAndFlush
     \/ Persist!DrainFlush
     \/ Persist!RetryWgWait
  /\ UNCHANGED <<vars, handling>>

\* Mutant of CloseAfterWait: the channel is closed after the loop has ended.
CloseAfterWait_OnceDone ==
  /\ main = "drained" /\ loop = "done"
  /\ CloseBroadcastCh
  /\ UNCHANGED <<persistVars, handling>>

\* close(b.broadcastCh), after retryWg.Wait; <-b.broadcastDone is loop = "done".
CloseAfterWait ==
  /\ main = "drained"
  /\ CloseBroadcastCh
  /\ UNCHANGED <<persistVars, handling>>

NextBGP ==
  \/ \E e \in Events : HandleEnqueue(e)
  \/ HandleBuffer
  \/ PersistStep
  \/ LiveStep
  \/ DrainAndFlush
  \/ CloseAfterWait

SpecBGP == NewBGP /\ [][NextBGP]_batcherVars

\* The fairness of both halves; the callback gets the mutex it waits for, and main
\* goes on to the close.
FairSpecBGP ==
  /\ SpecBGP
  /\ Persist!Fairness
  /\ Fairness
  /\ SF_batcherVars(HandleBuffer)
  /\ WF_batcherVars(CloseAfterWait)

-----------------------------------------------------------------------------
(* Properties                                                               *)

Over(events) == events \subseteq Persist!Settled /\ events \cap Persist!Held = {}

\* An event whose HandleMsg has begun gets out of the callback, the buffer, the
\* flushes and the retries: all that was accepted is stored or given up on in the end,
\* by timers and retries that have already been started, if the messages stop and no
\* shutdown comes; when DrainAndFlush takes mu, at least all that was accepted by then
\* is.  Of what HandleMsg appends later nothing is promised: the process ends when
\* DrainAndFlush has returned, and a row in the buffer ends with it.
EventuallySettled ==
  handling # NoMsg ~>
    \/ main \in {"running", "locking"} /\ accepted # {} /\ Over(accepted)
    \/ main \notin {"running", "locking"} /\ Over(cut)

\* Once DrainAndFlush is called it returns, whatever ClickHouse and Redis answer:
\* the flush, the wait for the retries, the close and the last publish all end.
DrainEnds == main = "locking" ~> loop = "done"
=============================================================================
