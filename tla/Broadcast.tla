------------------------------ MODULE Broadcast ------------------------------
(***************************************************************************)
(* The live half of Batcher (internal/batcher/batcher.go): the bounded     *)
(* channel HandleMsg fills without blocking, and broadcastLoop, its only   *)
(* consumer, which keeps the newest position of each asset in a window and *)
(* hands the window to PublishBatch.                                       *)
(*                                                                         *)
(* PublishBatch is one synchronous call of at most 5 s: it may fail before *)
(* it writes anything, and a pipeline Exec that fails may have published   *)
(* any part of the window.  The counters of the log line are left out.     *)
(***************************************************************************)
EXTENDS Naturals, Sequences, FiniteSets

CONSTANTS
  Events,               \* valid telemetry events
  Asset,                \* Asset[e]: asset type and id of e
  Timestamp,            \* Timestamp[e]
  broadcastBufferSize,  \* capacity of broadcastCh
  broadcastBatchSize    \* assets in the window that trigger a flush

ASSUME BroadcastAssumption ==
  /\ broadcastBufferSize \in Nat \ {0}
  /\ broadcastBatchSize \in Nat \ {0}
  /\ \A e \in Events : Timestamp[e] \in Nat

VARIABLES
  broadcastCh,      \* the channel's buffer
  chClosed,         \* close(b.broadcastCh) has run
  pending,          \* the values of the pending map
  publishing,       \* the batch PublishBatch is working on
  loop,             \* "select", "publishing", "last" (the publish before return), "done"
  offered,          \* history: events HandleMsg tried to enqueue
  overflowed,       \* history: events dropped because the channel was full
  superseded,       \* history: events coalesced away
  published,        \* history: events that reached Redis
  unpublished       \* history: events of a failed publish that did not, or not to all streams

chanVars  == <<broadcastCh, chClosed>>
offerVars == <<offered, overflowed>>
fateVars  == <<superseded, published, unpublished>>
vars == <<chanVars, pending, publishing, loop, offerVars, fateVars>>

InChannel   == {broadcastCh[i] : i \in DOMAIN broadcastCh}

Init ==
  /\ broadcastCh = <<>> /\ chClosed = FALSE
  /\ pending = {} /\ publishing = {} /\ loop = "select"
  /\ offered = {} /\ overflowed = {}
  /\ superseded = {} /\ published = {} /\ unpublished = {}

-----------------------------------------------------------------------------
(* The sender's side: HandleMsg and DrainAndFlush.                          *)

HasRoom == Len(broadcastCh) < broadcastBufferSize

\* The select with a default in HandleMsg. A send on the closed channel panics:
\* the caller has to rule it out, this module does not step there.
Enqueue(e) ==
  /\ ~chClosed
  /\ e \notin offered
  /\ offered' = offered \cup {e}
  /\ IF HasRoom
     THEN broadcastCh' = Append(broadcastCh, e) /\ UNCHANGED overflowed
     ELSE overflowed' = overflowed \cup {e} /\ UNCHANGED broadcastCh
  /\ UNCHANGED <<chClosed, pending, publishing, loop, fateVars>>

CloseBroadcastCh ==
  /\ ~chClosed
  /\ chClosed' = TRUE
  /\ UNCHANGED <<broadcastCh, pending, publishing, loop, offerVars, fateVars>>

-----------------------------------------------------------------------------
(* broadcastLoop.                                                           *)

Same(window, e) == {previous \in window : Asset[previous] = Asset[e]}

\* Mutant of upsertLatest: it keeps the oldest.
upsertLatest_KeepsOldest(window, e) ==
  IF \A previous \in Same(window, e) : Timestamp[e] <= Timestamp[previous]
  THEN (window \ Same(window, e)) \cup {e}
  ELSE window

upsertLatest(window, e) ==
  IF \A previous \in Same(window, e) : Timestamp[e] >= Timestamp[previous]
  THEN (window \ Same(window, e)) \cup {e}
  ELSE window

\* Mutant of Flush: the pending map is not replaced.
Flush_KeepsPending(window, next) ==
  /\ pending' = window
  /\ publishing' = window
  /\ loop' = next

\* flush up to its PublishBatch; loop says what follows it.
Flush(window, next) ==
  /\ pending' = {}
  /\ publishing' = window
  /\ loop' = next

\* A received event, and the size trigger.
Receive ==
  /\ loop = "select"
  /\ broadcastCh # <<>>
  /\ LET e == Head(broadcastCh)
         window == upsertLatest(pending, e)
     IN  /\ superseded' = superseded \cup ((pending \cup {e}) \ window)
         /\ IF Cardinality(window) >= broadcastBatchSize
            THEN Flush(window, "publishing")
            ELSE pending' = window /\ UNCHANGED <<publishing, loop>>
  /\ broadcastCh' = Tail(broadcastCh)
  /\ UNCHANGED <<chClosed, offerVars, published, unpublished>>

\* The 200 ms ticker, or the 10 s one; an empty window is not published.
Tick ==
  /\ loop = "select"
  /\ pending # {}
  /\ Flush(pending, "publishing")
  /\ UNCHANGED <<chanVars, offerVars, fateVars>>

\* Mutant of ReceiveClosed: no final flush.
ReceiveClosed_NoFlush ==
  /\ loop = "select" /\ chClosed /\ broadcastCh = <<>>
  /\ loop' = "done"
  /\ UNCHANGED <<chanVars, pending, publishing, offerVars, fateVars>>

\* A closed channel still yields its buffer; then flush, and return.
ReceiveClosed ==
  /\ loop = "select"
  /\ chClosed
  /\ broadcastCh = <<>>
  /\ IF pending = {}
     THEN loop' = "done" /\ UNCHANGED <<pending, publishing>>
     ELSE Flush(pending, "last")
  /\ UNCHANGED <<chanVars, offerVars, fateVars>>

\* PublishBatch returns; its error is logged and nothing is retried.
PublishReturns(sent) ==
  /\ publishing # {}
  /\ publishing' = {}
  /\ published' = published \cup sent
  /\ unpublished' = unpublished \cup (publishing \ sent)
  /\ loop' = IF loop = "last" THEN "done" ELSE "select"
  /\ UNCHANGED <<chanVars, pending, offerVars, superseded>>

-----------------------------------------------------------------------------
LoopStep ==
  \/ Receive
  \/ Tick
  \/ ReceiveClosed
  \/ \E sent \in SUBSET publishing : PublishReturns(sent)

Next ==
  \/ \E e \in Events : Enqueue(e)
  \/ CloseBroadcastCh
  \/ LoopStep

Spec == Init /\ [][Next]_vars

\* The loop goroutine runs and PublishBatch ends; a Go select picks among its
\* ready cases at random, so no case that keeps being ready loses for ever.
Fairness ==
  /\ SF_vars(Receive)
  /\ SF_vars(ReceiveClosed)
  /\ WF_vars(Tick)
  /\ WF_vars(\E sent \in SUBSET publishing : PublishReturns(sent))

-----------------------------------------------------------------------------
(* Properties                                                               *)

Handled == superseded \cup published \cup unpublished

\* An event the channel took is in exactly one place until it is coalesced,
\* published or part of a failed publish; it is never handed to Redis twice.
HandledOnce ==
  /\ offered = overflowed \cup InChannel \cup pending \cup publishing \cup Handled
  /\ pending \cap publishing = {}
  /\ (InChannel \cup pending \cup publishing \cup overflowed) \cap Handled = {}
  /\ superseded \cap (published \cup unpublished) = {}

\* Coalescing only drops positions for a newer (or equally old) one of the same
\* asset, which itself goes on to PublishBatch; and no batch names an asset twice.
NewestSurvives ==
  /\ \A e \in superseded :
       \E f \in pending \cup publishing \cup published \cup unpublished :
         Asset[f] = Asset[e] /\ Timestamp[f] >= Timestamp[e]
  /\ \A e, f \in publishing : Asset[e] = Asset[f] => e = f

\* What the channel took is eventually coalesced, published or failed.
EventuallyHandled ==
  \A e \in Events : e \in offered \ overflowed ~> e \in Handled
=============================================================================
