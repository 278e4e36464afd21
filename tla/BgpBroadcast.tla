----------------------------- MODULE BgpBroadcast -----------------------------
(***************************************************************************)
(* The live half of BGPBatcher (internal/batcher/bgp_batcher.go): the same *)
(* channel as Broadcast, but BGP events are discrete happenings, so the    *)
(* loop coalesces nothing and hands them over in the order they arrived.   *)
(* The batch slice is reused after PublishBGPBatch has returned.           *)
(***************************************************************************)
EXTENDS Naturals, Sequences

CONSTANTS
  Events,                 \* valid BGP events
  broadcastBufferSize,    \* capacity of broadcastCh
  bgpBroadcastBatchSize   \* events that trigger a flush

ASSUME BgpBroadcastAssumption ==
  /\ broadcastBufferSize \in Nat \ {0}
  /\ bgpBroadcastBatchSize \in Nat \ {0}

VARIABLES
  broadcastCh,  \* the channel's buffer
  chClosed,     \* close(b.broadcastCh) has run
  batch,        \* the loop's slice
  loop,         \* "select", "publishing", "last" (the publish before return), "done"
  offered,      \* history: events HandleMsg tried to enqueue
  arrived,      \* history: the order in which the channel took events
  handedOver    \* history: the order in which PublishBGPBatch calls ended

vars == <<broadcastCh, chClosed, batch, loop, offered, arrived, handedOver>>

Init ==
  /\ broadcastCh = <<>> /\ chClosed = FALSE
  /\ batch = <<>> /\ loop = "select"
  /\ offered = {} /\ arrived = <<>> /\ handedOver = <<>>

\* The select with a default in HandleMsg; the caller rules out a closed channel.
Enqueue(e) ==
  /\ ~chClosed
  /\ e \notin offered
  /\ offered' = offered \cup {e}
  /\ IF Len(broadcastCh) < broadcastBufferSize
     THEN broadcastCh' = Append(broadcastCh, e) /\ arrived' = Append(arrived, e)
     ELSE UNCHANGED <<broadcastCh, arrived>>
  /\ UNCHANGED <<chClosed, batch, loop, handedOver>>

CloseBroadcastCh ==
  /\ ~chClosed
  /\ chClosed' = TRUE
  /\ UNCHANGED <<broadcastCh, batch, loop, offered, arrived, handedOver>>

\* A received event, and the size trigger.
Receive ==
  /\ loop = "select"
  /\ broadcastCh # <<>>
  /\ batch' = Append(batch, Head(broadcastCh))
  /\ broadcastCh' = Tail(broadcastCh)
  /\ loop' = IF Len(batch') >= bgpBroadcastBatchSize THEN "publishing" ELSE "select"
  /\ UNCHANGED <<chClosed, offered, arrived, handedOver>>

\* The 50 ms ticker; an empty batch is not published.
Tick ==
  /\ loop = "select"
  /\ batch # <<>>
  /\ loop' = "publishing"
  /\ UNCHANGED <<broadcastCh, chClosed, batch, offered, arrived, handedOver>>

ReceiveClosed ==
  /\ loop = "select"
  /\ chClosed
  /\ broadcastCh = <<>>
  /\ loop' = IF batch = <<>> THEN "done" ELSE "last"
  /\ UNCHANGED <<broadcastCh, chClosed, batch, offered, arrived, handedOver>>

\* Mutant of PublishReturns: the slice is not truncated.
PublishReturns_KeepsBatch ==
  /\ loop \in {"publishing", "last"}
  /\ handedOver' = handedOver \o batch
  /\ loop' = IF loop = "last" THEN "done" ELSE "select"
  /\ UNCHANGED <<broadcastCh, chClosed, batch, offered, arrived>>

\* PublishBGPBatch returns, whatever its error; batch[:0].
PublishReturns ==
  /\ loop \in {"publishing", "last"}
  /\ handedOver' = handedOver \o batch
  /\ batch' = <<>>
  /\ loop' = IF loop = "last" THEN "done" ELSE "select"
  /\ UNCHANGED <<broadcastCh, chClosed, offered, arrived>>

LoopStep == Receive \/ Tick \/ ReceiveClosed \/ PublishReturns

Next ==
  \/ \E e \in Events : Enqueue(e)
  \/ CloseBroadcastCh
  \/ LoopStep

Spec == Init /\ [][Next]_vars

\* As in Broadcast: the goroutine runs, a publish ends, select is random.
Fairness ==
  /\ SF_vars(Receive) /\ SF_vars(ReceiveClosed) /\ WF_vars(Tick) /\ WF_vars(PublishReturns)

-----------------------------------------------------------------------------
(* Properties                                                               *)

\* Every variable stays in its range, the slice within its capacity.
TypeOK ==
  /\ broadcastCh \in Seq(Events) /\ Len(broadcastCh) <= broadcastBufferSize
  /\ batch \in Seq(Events) /\ Len(batch) <= bgpBroadcastBatchSize
  /\ chClosed \in BOOLEAN
  /\ loop \in {"select", "publishing", "last", "done"}
  /\ offered \subseteq Events
  /\ arrived \in Seq(Events) /\ handedOver \in Seq(Events)

\* batcher.go:38 "must not be coalesced": every event the channel took is handed
\* to PublishBGPBatch once, in arrival order, over all batches and the last one.
OnceInOrder == arrived = handedOver \o batch \o broadcastCh

\* broadcastDone is closed only when everything that arrived was handed over.
DoneMeansDrained == loop = "done" => handedOver = arrived
=============================================================================
