---------------------------- MODULE BatcherProofs ----------------------------
(***************************************************************************)
(* Proofs about Batcher for every set of events, every batch size, every   *)
(* number of retry slots and attempts, and every supply of connections.    *)
(*                                                                         *)
(* No invariant of Batcher is inductive by itself. The conjuncts below say *)
(* what each goroutine's position implies about the data it owns; each     *)
(* safety property then follows from a few of them.                        *)
(***************************************************************************)
EXTENDS Batcher, TLAPS

\* b.mu is held across a call exactly while flushLocked is inside Do, on b.ch.
MutexHeldByFlush ==
  /\ mu # "free" <=> insert[Flusher] # "none"
  /\ mu # "free" => using[Flusher] = ch
  /\ mu = "main" <=> main = "flushing"

\* A goroutine has a client of its own exactly between the dial and the close.
SpareHeldByReconnect ==
  \A s \in Slots : retry[s] \in {"swapping", "closing"} <=> spare[s] # NoConn

-----------------------------------------------------------------------------
(* Type correctness.                                                        *)

LEMMA InitType == Init => TypeOK /\ SpareHeldByReconnect
  BY BatcherAssumption, SMT DEF Init, TypeOK, SpareHeldByReconnect, Inserters, InsertState, RetryPC

\* The variables InsertBatch and FlushLocked assign keep their types.
LEMMA InsertBatchType ==
  ASSUME TypeOK, NEW i \in Inserters, InsertBatch(i)
  PROVE  /\ insert' \in [Inserters -> InsertState]
         /\ using' \in [Inserters -> Conns \cup {NoConn}]
  BY DEF TypeOK, InsertBatch, InsertState

LEMMA FlushLockedType ==
  ASSUME TypeOK, NEW who \in {"handler", "timer", "main"}, NEW rows \in SUBSET Events,
         FlushLocked(who, rows)
  PROVE  /\ timer' = "nil" /\ buf' = {}
         /\ mu' \in {"free", "handler", "timer", "main"}
         /\ batch' \in [Inserters -> SUBSET Events]
         /\ insert' \in [Inserters -> InsertState]
         /\ using' \in [Inserters -> Conns \cup {NoConn}]
<1>1. Flusher \in Inserters
  BY DEF Inserters
<1>2. CASE rows = {}
  BY <1>2 DEF FlushLocked, FlushRows, TypeOK, insertVars
<1>3. CASE rows # {}
  BY <1>1, <1>3, InsertBatchType DEF FlushLocked, FlushRows, TypeOK
<1> QED BY <1>2, <1>3

LEMMA ReturnsType ==
  ASSUME TypeOK, NEW i \in Inserters, NEW result \in Result, Returns(i, result)
  PROVE  /\ insert' \in [Inserters -> InsertState]
         /\ using' \in [Inserters -> Conns \cup {NoConn}]
         /\ conn' \in [Conns -> {"undialed", "open", "closed"}]
         /\ stored' \subseteq Events /\ duplicated' \subseteq Events
         /\ unconfirmed' \subseteq Events /\ misread' \subseteq Events
  BY DEF TypeOK, Returns, InsertState

LEMMA NextAttemptType ==
  ASSUME TypeOK, SpareHeldByReconnect, NEW s \in Slots, NextAttempt(s)
  PROVE  /\ retry' \in [Slots -> RetryPC]
         /\ retry'[s] \in {"sleeping", "free"}
         /\ \A t \in Slots \ {s} : retry'[t] = retry[t]
         /\ attempt' \in [Slots -> 0 .. maxRetryAttempts]
         /\ batch' \in [Inserters -> SUBSET Events]
         /\ finishing' \in Nat
         /\ dropped' \subseteq Events
<1>1. s \in Inserters
  BY DEF Inserters
<1>2. CASE attempt[s] >= maxRetryAttempts
  BY <1>1, <1>2, BatcherAssumption DEF NextAttempt, DropBatch, Release, TypeOK, RetryPC
<1>3. CASE ~(attempt[s] >= maxRetryAttempts)
  BY <1>1, <1>3, BatcherAssumption DEF NextAttempt, TypeOK, RetryPC
<1> QED BY <1>2, <1>3

LEMMA TypeStep == TypeOK /\ SpareHeldByReconnect /\ [Next]_vars => TypeOK' /\ SpareHeldByReconnect'
<1> SUFFICES ASSUME TypeOK, SpareHeldByReconnect, [Next]_vars
             PROVE  TypeOK' /\ SpareHeldByReconnect'
  OBVIOUS
<1> USE DEF lockVars, connVars, insertVars, retryVars, fateVars, mainVars
<1>0. Flusher \in Inserters /\ Slots \subseteq Inserters /\ {} \in SUBSET Events
  BY DEF Inserters
<1>1. ASSUME NEW e \in Events, BufferEvent(e) PROVE TypeOK' /\ SpareHeldByReconnect'
  <2>1. CASE Cardinality(buf \cup {e}) >= MaxBatchSize
    <3>1. buf \cup {e} \in SUBSET Events
      BY DEF TypeOK
    <3>2. FlushLocked("handler", buf \cup {e})
      BY <1>1, <2>1 DEF BufferEvent
    <3> HIDE DEF lockVars, connVars, insertVars, retryVars, fateVars, mainVars
    <3> QED BY <1>1, <2>1, <3>1, <3>2, FlushLockedType
            DEF BufferEvent, TypeOK, SpareHeldByReconnect, connVars, retryVars, fateVars, mainVars
  <2>2. CASE ~(Cardinality(buf \cup {e}) >= MaxBatchSize)
    BY <1>1, <2>2 DEF BufferEvent, TypeOK, SpareHeldByReconnect
  <2> QED BY <2>1, <2>2
<1>2. CASE TimerFires
  BY <1>2 DEF TimerFires, TypeOK, SpareHeldByReconnect
<1>3. CASE TimerCallback
  <2>1. buf \in SUBSET Events
    BY DEF TypeOK
  <2> QED BY <1>3, <2>1, FlushLockedType DEF TimerCallback, TypeOK, SpareHeldByReconnect
<1>4. ASSUME NEW result \in Result, FlushReturns(result) PROVE TypeOK' /\ SpareHeldByReconnect'
  <2>1. /\ retry' \in [Slots -> RetryPC]
        /\ \A s \in Slots : retry'[s] # retry[s] => retry[s] = "free" /\ retry'[s] = "sleeping"
        /\ attempt' \in [Slots -> 0 .. maxRetryAttempts]
        /\ batch' \in [Inserters -> SUBSET Events]
        /\ dropped' \subseteq Events
    BY <1>0, <1>4, BatcherAssumption DEF FlushReturns, ScheduleRetry, DropBatch, TypeOK, RetryPC
  <2>2. SpareHeldByReconnect'
    BY <1>4, <2>1 DEF FlushReturns, TypeOK, SpareHeldByReconnect
  <2> QED BY <1>0, <1>4, <2>1, <2>2, ReturnsType DEF FlushReturns, TypeOK
<1>5. ASSUME NEW s \in Slots, RetryStep(s) PROVE TypeOK' /\ SpareHeldByReconnect'
  <2>1. CASE RetryInsert(s)
    BY <1>0, <2>1, InsertBatchType DEF RetryInsert, TypeOK, SpareHeldByReconnect, RetryPC
  <2>2. ASSUME NEW result \in Result, RetryReturns(s, result)
        PROVE  TypeOK' /\ SpareHeldByReconnect'
    <3>1. /\ retry' \in [Slots -> RetryPC]
          /\ retry'[s] \in {"sleeping", "free", "dialing"}
          /\ \A t \in Slots \ {s} : retry'[t] = retry[t]
          /\ attempt' \in [Slots -> 0 .. maxRetryAttempts]
          /\ batch' \in [Inserters -> SUBSET Events]
          /\ finishing' \in Nat
          /\ dropped' \subseteq Events
      <4>1. CASE ~Failed(result)
        BY <1>0, <2>2, <4>1, BatcherAssumption DEF RetryReturns, Release, TypeOK, RetryPC
      <4>2. CASE Failed(result) /\ result = "closed"
        BY <2>2, <4>2 DEF RetryReturns, TypeOK, RetryPC
      <4>3. CASE Failed(result) /\ result # "closed"
        BY <2>2, <4>3, NextAttemptType DEF RetryReturns
      <4> QED BY <4>1, <4>2, <4>3
    <3>2. SpareHeldByReconnect'
      BY <2>2, <3>1 DEF RetryReturns, SpareHeldByReconnect
    <3> QED BY <1>0, <2>2, <3>1, <3>2, ReturnsType DEF RetryReturns, TypeOK
  <2>3. CASE DialFails(s)
    <3>1. NextAttempt(s)
      BY <2>3 DEF DialFails
    <3> QED BY <2>3, <3>1, NextAttemptType DEF DialFails, TypeOK, SpareHeldByReconnect
  <2>4. CASE DialSucceeds(s)
    BY <2>4, BatcherAssumption DEF DialSucceeds, TypeOK, SpareHeldByReconnect, RetryPC
  <2>5. CASE SwapClient(s)
    BY <2>5, BatcherAssumption DEF SwapClient, TypeOK, SpareHeldByReconnect, RetryPC
  <2>6. CASE CloseOld(s)
    <3>1. NextAttempt(s)
      BY <2>6 DEF CloseOld
    <3> QED BY <2>6, <3>1, NextAttemptType DEF CloseOld, TypeOK, SpareHeldByReconnect
  <2> QED BY <1>5, <2>1, <2>2, <2>3, <2>4, <2>5, <2>6 DEF RetryStep
<1>6. CASE RetryWgDone
  BY <1>6 DEF RetryWgDone, TypeOK, SpareHeldByReconnect
<1>7. CASE DrainAndFlush
  BY <1>7 DEF DrainAndFlush, TypeOK, SpareHeldByReconnect
<1>8. CASE DrainFlush
  <2>1. buf \in SUBSET Events
    BY DEF TypeOK
  <2> QED BY <1>8, <2>1, FlushLockedType DEF DrainFlush, TypeOK, SpareHeldByReconnect
<1>9. CASE RetryWgWait
  BY <1>9 DEF RetryWgWait, TypeOK, SpareHeldByReconnect
<1>10. CASE UNCHANGED vars
  BY <1>10 DEF vars, TypeOK, SpareHeldByReconnect
<1> QED BY <1>1, <1>2, <1>3, <1>4, <1>5, <1>6, <1>7, <1>8, <1>9, <1>10 DEF Next


-----------------------------------------------------------------------------
(* Custody of the events.                                                   *)

\* Nobody owns rows but the buffer, a flush that holds mu and a live retry.
IdleOwnsNothing ==
  /\ mu = "free" => batch[Flusher] = {}
  /\ \A s \in Slots : retry[s] = "free" => batch[s] = {}

\* Only accepted events are owned or stored.
OnlyAccepted ==
  /\ buf \subseteq accepted /\ stored \subseteq accepted
  /\ \A i \in Inserters : batch[i] \subseteq accepted

\* NothingLost, said of one event at a time.
Accounted ==
  \A e \in accepted :
    \/ e \in buf
    \/ \E i \in Inserters : e \in batch[i]
    \/ e \in stored \/ e \in dropped \/ e \in misread

\* An event still to be inserted has a row only if an insert of it was unconfirmed.
OwnedRowsWereUnconfirmed ==
  /\ buf \cap stored = {}
  /\ \A i \in Inserters : batch[i] \cap stored \subseteq unconfirmed

Custody ==
  /\ IdleOwnsNothing
  /\ OnlyAccepted
  /\ Accounted
  /\ SingleCustody
  /\ OwnedRowsWereUnconfirmed
  /\ DuplicatesWereUnconfirmed

LEMMA InitCustody == Init => Custody
  BY SMT DEF Init, Custody, IdleOwnsNothing, OnlyAccepted, Accounted, SingleCustody,
             OwnedRowsWereUnconfirmed, DuplicatesWereUnconfirmed, Inserters

\* flushLocked moves all rows to the flush, and holds mu if there are any.
LEMMA FlushLockedMoves ==
  ASSUME TypeOK, IdleOwnsNothing, mu = "free",
         NEW who \in {"handler", "timer", "main"}, NEW rows \in SUBSET Events,
         FlushLocked(who, rows)
  PROVE  /\ buf' = {}
         /\ batch' = [batch EXCEPT ![Flusher] = rows]
         /\ mu' = "free" => rows = {}
BY DEF FlushLocked, FlushRows, TypeOK, IdleOwnsNothing, Inserters

\* A call that returns: what it stores is what its caller owns; unless the call
\* is reported as a success the caller has to keep the rows or give them up.
LEMMA ReturnsStores ==
  ASSUME TypeOK, NEW i \in Inserters, NEW result \in Result, Returns(i, result)
  PROVE  /\ stored \subseteq stored' /\ stored' \subseteq stored \cup batch[i]
         /\ unconfirmed \subseteq unconfirmed' /\ misread \subseteq misread'
         /\ result # "ok" => (stored' \ stored) \subseteq unconfirmed'
         /\ ~Failed(result) => batch[i] \subseteq stored' \cup misread'
         /\ duplicated' \subseteq duplicated \cup (stored \cap batch[i])
BY DEF Returns, Result, Failed

LEMMA NextAttemptKeeps ==
  ASSUME TypeOK, NEW s \in Slots, NextAttempt(s)
  PROVE  /\ dropped \subseteq dropped'
         /\ \A t \in Slots \ {s} : retry'[t] = retry[t]
         /\ \/ batch' = batch /\ retry'[s] # "free"
            \/ batch' = [batch EXCEPT ![s] = {}] /\ batch[s] \subseteq dropped'
BY DEF NextAttempt, DropBatch, Release, TypeOK

LEMMA CustodyStep == TypeOK /\ Custody /\ [Next]_vars => Custody'
<1> SUFFICES ASSUME TypeOK, Custody, [Next]_vars
             PROVE  Custody'
  OBVIOUS
<1> USE DEF Custody
<1>0. Flusher \in Inserters /\ Slots \subseteq Inserters /\ Flusher \notin Slots
  BY BatcherAssumption DEF Inserters
<1>a. Flusher \in Inserters /\ \A i \in Inserters : i = Flusher \/ i \in Slots
  BY DEF Inserters
\* flushLocked called on the buffer, with or without one more event in it.
<1>b. ASSUME NEW who \in {"handler", "timer", "main"}, NEW rows \in SUBSET Events,
             mu = "free", FlushLocked(who, rows),
             buf \subseteq rows, accepted' = accepted \cup rows, rows \cap accepted \subseteq buf,
             UNCHANGED <<retryVars, fateVars>>
      PROVE  Custody'
  <2>1. /\ buf' = {} /\ batch' = [batch EXCEPT ![Flusher] = rows]
        /\ mu' = "free" => rows = {}
    BY <1>b, FlushLockedMoves
  <2>2. batch[Flusher] = {} /\ rows \cap stored = {} /\ \A i \in Inserters : rows \cap batch[i] = {}
    BY <1>b DEF IdleOwnsNothing, OnlyAccepted, OwnedRowsWereUnconfirmed, SingleCustody
  <2>3. IdleOwnsNothing'
    BY <1>b, <1>0, <2>1 DEF IdleOwnsNothing, TypeOK, retryVars
  <2>4. OnlyAccepted'
    BY <1>b, <1>0, <2>1 DEF OnlyAccepted, TypeOK, fateVars
  <2>5. Accounted'
    BY <1>b, <1>0, <2>1, <2>2 DEF Accounted, TypeOK, fateVars
  <2>6. SingleCustody'
    BY <1>0, <2>1, <2>2 DEF SingleCustody, TypeOK
  <2>7. OwnedRowsWereUnconfirmed' /\ DuplicatesWereUnconfirmed'
    BY <1>b, <1>0, <2>1, <2>2
    DEF OwnedRowsWereUnconfirmed, DuplicatesWereUnconfirmed, TypeOK, fateVars
  <2> QED BY <2>3, <2>4, <2>5, <2>6, <2>7
<1>c. ASSUME UNCHANGED <<accepted, buf, batch, stored, duplicated, unconfirmed, misread, dropped>>,
             mu' = "free" => mu = "free",
             \A s \in Slots : retry'[s] = "free" => retry[s] = "free"
      PROVE  Custody'
  BY <1>c DEF IdleOwnsNothing, OnlyAccepted, Accounted, SingleCustody,
              OwnedRowsWereUnconfirmed, DuplicatesWereUnconfirmed
<1>1. ASSUME NEW e \in Events, BufferEvent(e) PROVE Custody'
  <2>1. CASE Cardinality(buf \cup {e}) >= MaxBatchSize
    <3>1. buf \cup {e} \in SUBSET Events
      BY DEF TypeOK
    <3>2. /\ mu = "free" /\ FlushLocked("handler", buf \cup {e})
          /\ accepted' = accepted \cup (buf \cup {e})
          /\ (buf \cup {e}) \cap accepted \subseteq buf
          /\ UNCHANGED <<retryVars, fateVars>>
      BY <1>1, <2>1 DEF BufferEvent, OnlyAccepted
    <3> QED BY <3>1, <3>2, <1>b
  <2>2. CASE ~(Cardinality(buf \cup {e}) >= MaxBatchSize)
    <3>1. /\ e \notin accepted /\ accepted' = accepted \cup {e} /\ buf' = buf \cup {e}
          /\ UNCHANGED <<mu, batch, retry, stored, duplicated, unconfirmed, misread, dropped>>
      BY <1>1, <2>2 DEF BufferEvent, retryVars, fateVars
    <3>2. IdleOwnsNothing' /\ OnlyAccepted' /\ Accounted'
      BY <3>1 DEF IdleOwnsNothing, OnlyAccepted, Accounted
    <3>3. SingleCustody' /\ OwnedRowsWereUnconfirmed' /\ DuplicatesWereUnconfirmed'
      BY <3>1 DEF SingleCustody, OwnedRowsWereUnconfirmed, DuplicatesWereUnconfirmed, OnlyAccepted
    <3> QED BY <3>2, <3>3
  <2> QED BY <2>1, <2>2
<1>2. CASE TimerFires
  BY <1>2, <1>c DEF TimerFires, retryVars, fateVars
<1>3. CASE TimerCallback
  <2>1. /\ mu = "free" /\ FlushLocked("timer", buf) /\ accepted' = accepted \cup buf
        /\ UNCHANGED <<retryVars, fateVars>> /\ buf \in SUBSET Events
    BY <1>3 DEF TimerCallback, OnlyAccepted, TypeOK
  <2> QED BY <2>1, <1>b
<1>4. ASSUME NEW result \in Result, FlushReturns(result) PROVE Custody'
  <2>1. /\ Returns(Flusher, result) /\ mu' = "free" /\ UNCHANGED <<accepted, buf>>
    BY <1>4 DEF FlushReturns
  <2>2. CASE ~Failed(result)
    <3>1. batch' = [batch EXCEPT ![Flusher] = {}] /\ UNCHANGED <<retry, dropped>>
      BY <1>4, <2>2 DEF FlushReturns
    <3>2. IdleOwnsNothing' /\ OnlyAccepted' /\ SingleCustody'
      BY <1>0, <2>1, <3>1, ReturnsStores
      DEF IdleOwnsNothing, OnlyAccepted, SingleCustody, TypeOK
    <3>3. Accounted'
      BY <1>0, <2>1, <2>2, <3>1, ReturnsStores DEF Accounted, TypeOK
    <3>4. OwnedRowsWereUnconfirmed' /\ DuplicatesWereUnconfirmed'
      BY <1>0, <2>1, <3>1, ReturnsStores
      DEF OwnedRowsWereUnconfirmed, DuplicatesWereUnconfirmed, SingleCustody, TypeOK
    <3> QED BY <3>2, <3>3, <3>4
  <2>3. ASSUME Failed(result), NEW s \in Slots, retry[s] = "free",
               retry' = [retry EXCEPT ![s] = "sleeping"],
               batch' = [batch EXCEPT ![s] = batch[Flusher], ![Flusher] = {}],
               UNCHANGED dropped
        PROVE  Custody'
    <3>1. /\ batch[s] = {} /\ batch'[s] = batch[Flusher] /\ batch'[Flusher] = {}
          /\ \A i \in Inserters : i # s /\ i # Flusher => batch'[i] = batch[i]
      BY <1>0, <2>3 DEF IdleOwnsNothing, TypeOK
    <3>2. IdleOwnsNothing'
      BY <1>0, <2>1, <2>3, <3>1 DEF IdleOwnsNothing, TypeOK
    <3>a. OnlyAccepted'
      BY <1>0, <2>1, <3>1, ReturnsStores DEF OnlyAccepted
    <3>b. SingleCustody'
      BY <1>0, <2>1, <3>1 DEF SingleCustody
    <3>3. Accounted'
      BY <1>0, <2>1, <2>3, <3>1, ReturnsStores DEF Accounted
    <3>4. result # "ok"
      BY <2>3 DEF Failed
    <3>5. OwnedRowsWereUnconfirmed' /\ DuplicatesWereUnconfirmed'
      BY <1>0, <2>1, <3>1, <3>4, ReturnsStores
      DEF OwnedRowsWereUnconfirmed, DuplicatesWereUnconfirmed, SingleCustody
    <3> QED BY <3>2, <3>a, <3>b, <3>3, <3>5
  <2>4. ASSUME Failed(result), UNCHANGED retry, dropped' = dropped \cup batch[Flusher],
               batch' = [batch EXCEPT ![Flusher] = {}]
        PROVE  Custody'
    <3>2. IdleOwnsNothing' /\ OnlyAccepted' /\ SingleCustody'
      BY <1>0, <2>1, <2>4, ReturnsStores
      DEF IdleOwnsNothing, OnlyAccepted, SingleCustody, TypeOK
    <3>3. Accounted'
      BY <1>0, <2>1, <2>4, ReturnsStores DEF Accounted, TypeOK
    <3>4. OwnedRowsWereUnconfirmed' /\ DuplicatesWereUnconfirmed'
      BY <1>0, <2>1, <2>4, ReturnsStores
      DEF OwnedRowsWereUnconfirmed, DuplicatesWereUnconfirmed, SingleCustody, TypeOK
    <3> QED BY <3>2, <3>3, <3>4
  <2> QED BY <1>4, <2>2, <2>3, <2>4 DEF FlushReturns, ScheduleRetry, DropBatch
<1>5. ASSUME NEW s \in Slots, RetryStep(s) PROVE Custody'
  <2>0. s \in Inserters /\ s # Flusher
    BY <1>0
  <2>1. CASE RetryInsert(s)
    BY <2>1, <1>c DEF RetryInsert, lockVars, fateVars, TypeOK
  <2>2. ASSUME NEW result \in Result, RetryReturns(s, result)
        PROVE  Custody'
    <3>0. Returns(s, result) /\ UNCHANGED <<accepted, buf, mu>>
      BY <2>2 DEF RetryReturns, lockVars
    <3>1. \/ batch' = batch /\ retry'[s] # "free" /\ result # "ok" /\ result # "misread"
          \/ batch' = [batch EXCEPT ![s] = {}] /\ batch[s] \subseteq stored' \cup misread' \cup dropped'
      <4>1. CASE ~Failed(result)
        BY <2>0, <2>2, <3>0, <4>1, ReturnsStores DEF RetryReturns, Release
      <4>2. CASE Failed(result) /\ result = "closed"
        BY <2>2, <4>2 DEF RetryReturns, TypeOK
      <4>3. CASE Failed(result) /\ result # "closed"
        BY <2>2, <4>3, NextAttemptKeeps DEF RetryReturns, Failed
      <4> QED BY <4>1, <4>2, <4>3
    <3>2. dropped \subseteq dropped' /\ \A t \in Slots \ {s} : retry'[t] = retry[t]
      BY <2>2, NextAttemptKeeps DEF RetryReturns, Release, TypeOK
    <3>3. IdleOwnsNothing'
      BY <1>0, <2>0, <3>0, <3>1, <3>2 DEF IdleOwnsNothing, TypeOK
    <3>a. OnlyAccepted'
      BY <2>0, <3>0, <3>1, ReturnsStores DEF OnlyAccepted, TypeOK
    <3>b. SingleCustody'
      BY <2>0, <3>0, <3>1 DEF SingleCustody, TypeOK
    <3>4. Accounted'
      BY <2>0, <3>0, <3>1, <3>2, ReturnsStores DEF Accounted, TypeOK
    <3>5. OwnedRowsWereUnconfirmed' /\ DuplicatesWereUnconfirmed'
      BY <2>0, <3>0, <3>1, ReturnsStores
      DEF OwnedRowsWereUnconfirmed, DuplicatesWereUnconfirmed, SingleCustody, OnlyAccepted, TypeOK
    <3> QED BY <3>3, <3>a, <3>b, <3>4, <3>5
  <2>3. ASSUME NextAttempt(s), UNCHANGED <<lockVars, stored, duplicated, unconfirmed, misread>>
        PROVE  Custody'
    <3>1. UNCHANGED <<accepted, buf, mu>>
      BY <2>3 DEF lockVars
    <3>2. IdleOwnsNothing'
      BY <1>0, <2>0, <2>3, <3>1, NextAttemptKeeps DEF IdleOwnsNothing, TypeOK
    <3>a. OnlyAccepted' /\ SingleCustody'
      BY <2>0, <2>3, <3>1, NextAttemptKeeps DEF OnlyAccepted, SingleCustody, TypeOK
    <3>3. Accounted'
      BY <2>0, <2>3, <3>1, NextAttemptKeeps DEF Accounted, TypeOK
    <3>4. OwnedRowsWereUnconfirmed' /\ DuplicatesWereUnconfirmed'
      BY <2>0, <2>3, <3>1, NextAttemptKeeps
      DEF OwnedRowsWereUnconfirmed, DuplicatesWereUnconfirmed, TypeOK
    <3> QED BY <3>2, <3>a, <3>3, <3>4
  <2>4. CASE DialFails(s)
    BY <2>4, <2>3 DEF DialFails
  <2>5. CASE DialSucceeds(s)
    BY <2>5, <1>c DEF DialSucceeds, lockVars, fateVars, TypeOK
  <2>6. CASE SwapClient(s)
    BY <2>6, <1>c DEF SwapClient, lockVars, fateVars, TypeOK
  <2>7. CASE CloseOld(s)
    BY <2>7, <2>3 DEF CloseOld
  <2> QED BY <1>5, <2>1, <2>2, <2>4, <2>5, <2>6, <2>7 DEF RetryStep
<1>6. CASE RetryWgDone
  BY <1>6, <1>c DEF RetryWgDone, lockVars, fateVars
<1>7. CASE DrainAndFlush
  BY <1>7, <1>c DEF DrainAndFlush, lockVars, retryVars, fateVars
<1>8. CASE DrainFlush
  <2>1. /\ mu = "free" /\ FlushLocked("main", buf) /\ accepted' = accepted \cup buf
        /\ UNCHANGED <<retryVars, fateVars>> /\ buf \in SUBSET Events
    BY <1>8 DEF DrainFlush, OnlyAccepted, TypeOK
  <2> QED BY <2>1, <1>b
<1>9. CASE RetryWgWait
  BY <1>9, <1>c DEF RetryWgWait, lockVars, retryVars, fateVars
<1>10. CASE UNCHANGED vars
  BY <1>10, <1>c DEF vars, lockVars, retryVars, fateVars
<1> QED BY <1>1, <1>2, <1>3, <1>4, <1>5, <1>6, <1>7, <1>8, <1>9, <1>10 DEF Next

-----------------------------------------------------------------------------
(* The flush timer.                                                         *)

\* A fired timer that is still in b.timer has not had its callback run.
TimerPending ==
  /\ timer = "fired" => callbacks > 0
  /\ buf # {} => timer # "nil"

LEMMA TimerStep == TypeOK /\ TimerPending /\ [Next]_vars => TimerPending'
<1> SUFFICES ASSUME TypeOK, TimerPending, [Next]_vars
             PROVE  TimerPending'
  OBVIOUS
<1>1. ASSUME NEW e \in Events, BufferEvent(e) PROVE TimerPending'
  BY <1>1 DEF BufferEvent, FlushLocked, TypeOK, TimerPending
<1>2. CASE TimerFires
  BY <1>2 DEF TimerFires, TypeOK, TimerPending
<1>3. CASE TimerCallback
  BY <1>3 DEF TimerCallback, FlushLocked, TimerPending
<1>4. CASE DrainFlush
  BY <1>4 DEF DrainFlush, FlushLocked, TimerPending
<1>5. CASE UNCHANGED <<timer, buf, callbacks>>
  BY <1>5 DEF TimerPending
<1>6. ASSUME NEW s \in Slots, RetryStep(s) PROVE UNCHANGED <<timer, buf, callbacks>>
  BY <1>6 DEF RetryStep, RetryInsert, RetryReturns, DialFails, DialSucceeds, SwapClient,
              CloseOld, lockVars
<1>7. ASSUME NEW result \in Result, FlushReturns(result) PROVE UNCHANGED <<timer, buf, callbacks>>
  BY <1>7 DEF FlushReturns
<1>8. RetryWgDone \/ DrainAndFlush \/ RetryWgWait \/ UNCHANGED vars
      => UNCHANGED <<timer, buf, callbacks>>
  BY DEF RetryWgDone, DrainAndFlush, RetryWgWait, vars, lockVars
<1> QED BY <1>1, <1>2, <1>3, <1>4, <1>5, <1>6, <1>7, <1>8 DEF Next

-----------------------------------------------------------------------------
(* The ClickHouse clients.                                                  *)

\* A goroutine outside Do refers to no client there.
UsingOnlyInsideDo == \A i \in Inserters : insert[i] = "none" => using[i] = NoConn

\* b.ch and the clients in reconnect's hands have been dialled; none is both.
SpareIsApart ==
  /\ conn[ch] # "undialed"
  /\ \A s \in Slots : spare[s] # NoConn => conn[spare[s]] # "undialed" /\ spare[s] # ch

Clients == MutexHeldByFlush /\ UsingOnlyInsideDo /\ SpareIsApart /\ NoClientLeak

LEMMA InitClients == Init => Clients
  BY BatcherAssumption, SMT
  DEF Init, Clients, MutexHeldByFlush, UsingOnlyInsideDo, SpareIsApart, NoClientLeak, Inserters

\* flushLocked holds mu on return exactly if it has entered Do on b.ch.
LEMMA FlushLockedEnters ==
  ASSUME TypeOK, MutexHeldByFlush, UsingOnlyInsideDo, mu = "free",
         NEW who \in {"handler", "timer", "main"}, NEW rows, FlushLocked(who, rows)
  PROVE  /\ mu' = "free" <=> insert'[Flusher] = "none"
         /\ mu' # "free" => using'[Flusher] = ch
         /\ mu' = IF rows = {} THEN "free" ELSE who
         /\ UsingOnlyInsideDo'
<1>1. Flusher \in Inserters
  BY DEF Inserters
<1>2. CASE rows = {}
  BY <1>2 DEF FlushLocked, FlushRows, MutexHeldByFlush, UsingOnlyInsideDo, insertVars
<1>3. CASE rows # {}
  <2>1. InsertBatch(Flusher) /\ mu' = who
    BY <1>3 DEF FlushLocked, FlushRows
  <2>2. using'[Flusher] = ch /\ insert'[Flusher] # "none"
    BY <1>1, <2>1 DEF InsertBatch, TypeOK
  <2>3. UsingOnlyInsideDo'
    BY <1>1, <2>1 DEF InsertBatch, TypeOK, UsingOnlyInsideDo
  <2> QED BY <1>3, <2>1, <2>2, <2>3
<1> QED BY <1>2, <1>3

\* A call that returns opens no client and un-dials none.
LEMMA ReturnsClients ==
  ASSUME TypeOK, NEW i \in Inserters, NEW result \in Result, Returns(i, result)
  PROVE  \A c \in Conns : conn'[c] = conn[c] \/ conn'[c] = "closed"
BY DEF Returns, TypeOK

LEMMA SpareStays ==
  ASSUME TypeOK, SpareIsApart, NoClientLeak, UNCHANGED <<ch, spare>>,
         \A c \in Conns : conn'[c] = conn[c] \/ conn'[c] = "closed"
  PROVE  SpareIsApart' /\ NoClientLeak'
BY DEF TypeOK, SpareIsApart, NoClientLeak

LEMMA MutexStays ==
  ASSUME MutexHeldByFlush, UsingOnlyInsideDo, UNCHANGED <<mu, ch, insert, using>>,
         main' = "flushing" <=> main = "flushing"
  PROVE  MutexHeldByFlush' /\ UsingOnlyInsideDo'
BY DEF MutexHeldByFlush, UsingOnlyInsideDo

LEMMA ClientsStep ==
  TypeOK /\ SpareHeldByReconnect /\ Clients /\ [Next]_vars => Clients'
<1> SUFFICES ASSUME TypeOK, SpareHeldByReconnect, Clients, [Next]_vars
             PROVE  Clients'
  OBVIOUS
<1> USE DEF Clients
<1>0. Flusher \in Inserters /\ Slots \subseteq Inserters /\ Flusher \notin Slots
  BY BatcherAssumption DEF Inserters
<1>1. ASSUME NEW who \in {"handler", "timer", "main"}, NEW rows,
             mu = "free", FlushLocked(who, rows), UNCHANGED connVars,
             main' = "flushing" <=> who = "main" /\ rows # {}
      PROVE  Clients'
  <2>1. MutexHeldByFlush' /\ UsingOnlyInsideDo'
    BY <1>1, FlushLockedEnters DEF MutexHeldByFlush, connVars
  <2>2. SpareIsApart' /\ NoClientLeak'
    BY <1>1, SpareStays DEF connVars
  <2> QED BY <2>1, <2>2
<1>2. ASSUME NEW e \in Events, BufferEvent(e) PROVE Clients'
  <2>1. mu = "free" /\ UNCHANGED <<connVars, main>> /\ main # "flushing"
    BY <1>2 DEF BufferEvent, mainVars, MutexHeldByFlush
  <2>2. CASE Cardinality(buf \cup {e}) >= MaxBatchSize
    BY <1>1, <1>2, <2>1, <2>2 DEF BufferEvent
  <2>3. CASE ~(Cardinality(buf \cup {e}) >= MaxBatchSize)
    BY <1>2, <2>1, <2>3, MutexStays, SpareStays DEF BufferEvent, connVars, insertVars
  <2> QED BY <2>2, <2>3
<1>3. CASE TimerCallback
  BY <1>1, <1>3 DEF TimerCallback, mainVars, MutexHeldByFlush
<1>4. CASE DrainFlush
  BY <1>1, <1>4 DEF DrainFlush
<1>5. ASSUME NEW result \in Result, FlushReturns(result) PROVE Clients'
  <2>1. /\ Returns(Flusher, result) /\ mu' = "free" /\ UNCHANGED <<ch, spare>>
        /\ main' = IF mu = "main" THEN "waiting" ELSE main
    BY <1>5 DEF FlushReturns
  <2>2. MutexHeldByFlush' /\ UsingOnlyInsideDo'
    BY <1>0, <2>1 DEF Returns, MutexHeldByFlush, UsingOnlyInsideDo, TypeOK
  <2>3. SpareIsApart' /\ NoClientLeak'
    BY <1>0, <2>1, ReturnsClients, SpareStays
  <2> QED BY <2>2, <2>3
<1>6. ASSUME NEW s \in Slots, RetryStep(s) PROVE Clients'
  <2>0. s \in Inserters /\ s # Flusher
    BY <1>0
  <2>1. CASE RetryInsert(s)
    <3>1. mu = "free" /\ InsertBatch(s) /\ UNCHANGED <<mu, connVars, main>>
      BY <2>1 DEF RetryInsert, lockVars, mainVars
    <3>2. MutexHeldByFlush'
      <4>1. insert[Flusher] = "none" /\ using[Flusher] # ch
        BY <1>0, <3>1, BatcherAssumption DEF MutexHeldByFlush, UsingOnlyInsideDo, TypeOK
      <4>2. insert'[Flusher] = "none"
        BY <1>0, <2>0, <3>1, <4>1 DEF InsertBatch, TypeOK
      <4> QED BY <3>1, <4>2 DEF MutexHeldByFlush
    <3>3. UsingOnlyInsideDo'
      BY <2>0, <3>1 DEF InsertBatch, UsingOnlyInsideDo, TypeOK
    <3>4. SpareIsApart' /\ NoClientLeak'
      BY <3>1, SpareStays DEF connVars
    <3> QED BY <3>2, <3>3, <3>4
  <2>2. ASSUME NEW result \in Result, RetryReturns(s, result) PROVE Clients'
    <3>1. Returns(s, result) /\ UNCHANGED <<mu, main, ch, spare>>
      BY <2>2 DEF RetryReturns, lockVars, mainVars
    <3>2. MutexHeldByFlush' /\ UsingOnlyInsideDo'
      BY <1>0, <2>0, <3>1 DEF Returns, MutexHeldByFlush, UsingOnlyInsideDo, TypeOK
    <3>3. SpareIsApart' /\ NoClientLeak'
      BY <2>0, <3>1, ReturnsClients, SpareStays
    <3> QED BY <3>2, <3>3
  <2>3. CASE DialFails(s)
    BY <2>3, MutexStays, SpareStays DEF DialFails, lockVars, connVars, insertVars, mainVars
  <2>4. CASE DialSucceeds(s)
    <3>1. PICK c \in Conns : /\ conn[c] = "undialed"
                             /\ conn' = [conn EXCEPT ![c] = "open"]
                             /\ spare' = [spare EXCEPT ![s] = c]
      BY <2>4 DEF DialSucceeds
    <3>2. UNCHANGED <<mu, ch, insert, using, main>> /\ spare[s] = NoConn
      BY <2>4 DEF DialSucceeds, SpareHeldByReconnect, lockVars, insertVars, mainVars
    <3>3. MutexHeldByFlush' /\ UsingOnlyInsideDo'
      BY <3>2, MutexStays
    <3>4. SpareIsApart' /\ NoClientLeak'
      BY <3>1, <3>2, BatcherAssumption DEF SpareIsApart, NoClientLeak, TypeOK
    <3> QED BY <3>3, <3>4
  <2>5. CASE SwapClient(s)
    <3>1. /\ mu = "free" /\ ch' = spare[s] /\ spare' = [spare EXCEPT ![s] = ch]
          /\ UNCHANGED <<mu, conn, insert, using, main>> /\ spare[s] # NoConn
      BY <2>5 DEF SwapClient, SpareHeldByReconnect, lockVars, insertVars, mainVars
    <3>2. MutexHeldByFlush' /\ UsingOnlyInsideDo'
      BY <3>1 DEF MutexHeldByFlush, UsingOnlyInsideDo
    <3>3. SpareIsApart' /\ NoClientLeak'
      BY <3>1, BatcherAssumption DEF SpareIsApart, NoClientLeak, TypeOK
    <3> QED BY <3>2, <3>3
  <2>6. CASE CloseOld(s)
    <3>1. /\ conn' = [conn EXCEPT ![spare[s]] = "closed"]
          /\ spare' = [spare EXCEPT ![s] = NoConn]
          /\ UNCHANGED <<mu, ch, insert, using, main>>
      BY <2>6 DEF CloseOld, lockVars, insertVars, mainVars
    <3>2. MutexHeldByFlush' /\ UsingOnlyInsideDo'
      BY <3>1, MutexStays
    <3>3. SpareIsApart' /\ NoClientLeak'
      BY <3>1, BatcherAssumption DEF SpareIsApart, NoClientLeak, TypeOK
    <3> QED BY <3>2, <3>3
  <2> QED BY <1>6, <2>1, <2>2, <2>3, <2>4, <2>5, <2>6 DEF RetryStep
<1>7. CASE TimerFires
  BY <1>7, MutexStays, SpareStays DEF TimerFires, connVars, insertVars, mainVars
<1>8. CASE RetryWgDone
  BY <1>8, MutexStays, SpareStays DEF RetryWgDone, lockVars, connVars, insertVars, mainVars
<1>9. CASE DrainAndFlush
  BY <1>9, MutexStays, SpareStays DEF DrainAndFlush, lockVars, connVars, insertVars
<1>10. CASE RetryWgWait
  BY <1>10, MutexStays, SpareStays DEF RetryWgWait, lockVars, connVars, insertVars
<1>11. CASE UNCHANGED vars
  BY <1>11, MutexStays, SpareStays DEF vars, lockVars, connVars, insertVars, mainVars
<1> QED BY <1>2, <1>3, <1>4, <1>5, <1>6, <1>7, <1>8, <1>9, <1>10, <1>11 DEF Next

-----------------------------------------------------------------------------
(* DrainAndFlush.                                                           *)

\* What DrainAndFlush is waiting for moves on from b.buf to the flush, from
\* there to the retries, and is out of everybody's hands at the end.
CutAdvances ==
  /\ cut \subseteq accepted
  /\ main \in {"flushing", "waiting", "drained"} => cut \cap buf = {}
  /\ main \in {"waiting", "drained"} => cut \cap batch[Flusher] = {}
  /\ main = "drained" => \A s \in Slots : cut \cap batch[s] = {}

LEMMA CutStep ==
  TypeOK /\ Custody /\ MutexHeldByFlush /\ CutAdvances /\ [Next]_vars => CutAdvances'
<1> SUFFICES ASSUME TypeOK, Custody, MutexHeldByFlush, CutAdvances, [Next]_vars
             PROVE  CutAdvances'
  OBVIOUS
<1> USE DEF Custody
<1>0. Flusher \in Inserters /\ Slots \subseteq Inserters /\ Flusher \notin Slots
  BY BatcherAssumption DEF Inserters
\* Batches only shrink, and main does not advance.
<1>a. ASSUME UNCHANGED <<accepted, buf, cut>>, main' = main \/ main' \in {"running", "locking"},
             \A i \in Inserters : batch'[i] \subseteq batch[i]
      PROVE  CutAdvances'
  BY <1>0, <1>a DEF CutAdvances
<1>1. ASSUME NEW e \in Events, BufferEvent(e) PROVE CutAdvances'
  <2>1. /\ mu = "free" /\ e \notin accepted /\ accepted' = accepted \cup {e}
        /\ UNCHANGED <<main, cut>>
    BY <1>1 DEF BufferEvent, mainVars
  <2>2. CASE Cardinality(buf \cup {e}) >= MaxBatchSize
    <3>1. FlushLocked("handler", buf \cup {e}) /\ buf \cup {e} \in SUBSET Events
      BY <1>1, <2>2 DEF BufferEvent, TypeOK
    <3>2. buf' = {} /\ batch' = [batch EXCEPT ![Flusher] = buf \cup {e}]
      BY <2>1, <3>1, FlushLockedMoves
    <3> QED BY <1>0, <2>1, <3>2 DEF CutAdvances, TypeOK
  <2>3. CASE ~(Cardinality(buf \cup {e}) >= MaxBatchSize)
    BY <1>1, <2>1, <2>3 DEF BufferEvent, CutAdvances
  <2> QED BY <2>2, <2>3
<1>2. CASE TimerCallback
  <2>1. /\ mu = "free" /\ FlushLocked("timer", buf) /\ buf \in SUBSET Events
        /\ UNCHANGED <<accepted, main, cut>>
    BY <1>2 DEF TimerCallback, mainVars, TypeOK
  <2>2. buf' = {} /\ batch' = [batch EXCEPT ![Flusher] = buf]
    BY <2>1, FlushLockedMoves
  <2>3. main # "flushing"
    BY <2>1 DEF MutexHeldByFlush
  <2> QED BY <1>0, <2>1, <2>2, <2>3 DEF CutAdvances, TypeOK
<1>3. CASE DrainFlush
  <2>1. /\ mu = "free" /\ FlushLocked("main", buf) /\ buf \in SUBSET Events
        /\ accepted' = accepted /\ cut' = accepted
        /\ main' = IF buf = {} THEN "waiting" ELSE "flushing"
    BY <1>3 DEF DrainFlush, TypeOK
  <2>2. buf' = {} /\ batch' = [batch EXCEPT ![Flusher] = buf]
    BY <2>1, FlushLockedMoves
  <2> QED BY <1>0, <2>1, <2>2 DEF CutAdvances, TypeOK
<1>4. ASSUME NEW result \in Result, FlushReturns(result) PROVE CutAdvances'
  <2>1. /\ mu # "free" /\ UNCHANGED <<accepted, buf, cut>> /\ batch'[Flusher] = {}
        /\ \A s \in Slots : batch'[s] \subseteq batch[s] \cup batch[Flusher]
    BY <1>0, <1>4 DEF FlushReturns, ScheduleRetry, TypeOK
  <2>2. main' = main \/ (main = "flushing" /\ main' = "waiting")
    BY <1>4 DEF FlushReturns, MutexHeldByFlush
  <2> QED BY <2>1, <2>2 DEF CutAdvances
<1>5. ASSUME NEW s \in Slots, RetryStep(s) PROVE CutAdvances'
  <2>1. ASSUME NEW result \in Result, RetryReturns(s, result)
        PROVE  UNCHANGED <<accepted, buf, main, cut>> /\ \A i \in Inserters : batch'[i] \subseteq batch[i]
    BY <1>0, <2>1 DEF RetryReturns, NextAttempt, Release, lockVars, mainVars, TypeOK
  <2>2. ASSUME DialFails(s) \/ CloseOld(s)
        PROVE  UNCHANGED <<accepted, buf, main, cut>> /\ \A i \in Inserters : batch'[i] \subseteq batch[i]
    BY <1>0, <2>2 DEF DialFails, CloseOld, NextAttempt, Release, lockVars, mainVars, TypeOK
  <2>3. ASSUME RetryInsert(s) \/ DialSucceeds(s) \/ SwapClient(s)
        PROVE  UNCHANGED <<accepted, buf, main, cut, batch>>
    BY <2>3 DEF RetryInsert, DialSucceeds, SwapClient, lockVars, mainVars
  <2> QED BY <1>5, <1>a, <2>1, <2>2, <2>3 DEF RetryStep
<1>6. CASE TimerFires \/ RetryWgDone \/ DrainAndFlush \/ UNCHANGED vars
  BY <1>6, <1>a DEF TimerFires, RetryWgDone, DrainAndFlush, vars, lockVars, mainVars
<1>7. CASE RetryWgWait
  <2>1. \A s \in Slots : batch[s] = {}
    BY <1>7 DEF RetryWgWait, IdleOwnsNothing
  <2> QED BY <1>7, <2>1 DEF RetryWgWait, CutAdvances, lockVars
<1> QED BY <1>1, <1>2, <1>3, <1>4, <1>5, <1>6, <1>7 DEF Next

-----------------------------------------------------------------------------
(* The inductive invariant and the properties.                              *)

IInv == TypeOK /\ SpareHeldByReconnect /\ Custody /\ TimerPending /\ Clients /\ CutAdvances

LEMMA IInvInductive == Spec => []IInv
<1>1. Init => IInv
  <2>1. Init => TimerPending /\ CutAdvances
    BY SMT DEF Init, TimerPending, CutAdvances
  <2> QED BY <2>1, InitType, InitCustody, InitClients DEF IInv
<1>2. IInv /\ [Next]_vars => IInv'
  <2>1. Clients => MutexHeldByFlush
    BY DEF Clients
  <2> QED BY <2>1, TypeStep, CustodyStep, TimerStep, ClientsStep, CutStep DEF IInv
<1> QED BY <1>1, <1>2, PTL DEF Spec

\* Every accepted event is stored, logged as dropped, reported as stored by a
\* misread reply, or still owned: by b.buf, the flush or a retry goroutine.
THEOREM NeverLost == Spec => []NothingLost
<1>1. IInv => NothingLost
  <2> SUFFICES ASSUME Custody, NEW e \in accepted PROVE e \in Held \cup Settled
    BY DEF IInv, NothingLost
  <2>1. CASE \E i \in Inserters : e \in batch[i]
    BY <2>1 DEF Held
  <2>2. CASE e \in buf
    BY <2>2 DEF Held
  <2> QED BY <2>1, <2>2 DEF Custody, Accounted, Settled
<1> QED BY <1>1, IInvInductive, PTL

\* No event is in b.buf and in a batch, or in two batches.
THEOREM OneOwner == Spec => []SingleCustody
<1>1. IInv => SingleCustody
  BY DEF IInv, Custody
<1> QED BY <1>1, IInvInductive, PTL

\* A row appears twice only after an insert that failed with its rows in place.
THEOREM DuplicatesExplained == Spec => []DuplicatesWereUnconfirmed
<1>1. IInv => DuplicatesWereUnconfirmed
  BY DEF IInv, Custody
<1> QED BY <1>1, IInvInductive, PTL

\* Buffered rows are never without a timer or a waiting callback.
THEOREM BufferWillFlush == Spec => []BufferedHasTimer
<1>1. IInv => BufferedHasTimer
  BY DEF IInv, TypeOK, TimerPending, BufferedHasTimer
<1> QED BY <1>1, IInvInductive, PTL

\* reconnect never closes b.ch, nor the client a locked flush is inserting on.
THEOREM CloseIsApart == Spec => []CloseSparesFlush
<1>1. IInv => CloseSparesFlush
  BY DEF IInv, Clients, MutexHeldByFlush, SpareHeldByReconnect, SpareIsApart, CloseSparesFlush
<1> QED BY <1>1, IInvInductive, PTL

\* Every open client is b.ch or in the hands of exactly one reconnect.
THEOREM NoLeak == Spec => []NoClientLeak
<1>1. IInv => NoClientLeak
  BY DEF IInv, Clients
<1> QED BY <1>1, IInvInductive, PTL

\* When DrainAndFlush is past retryWg.Wait, what it found is settled.
THEOREM DrainComplete == Spec => []DrainSettles
<1>1. IInv => DrainSettles
  <2> SUFFICES ASSUME IInv, main = "drained", NEW e \in cut
               PROVE  e \notin Held /\ e \in Settled
    BY DEF DrainSettles
  <2>1. e \notin buf /\ \A i \in Inserters : e \notin batch[i]
    BY DEF IInv, CutAdvances, Inserters
  <2>2. e \in Settled
    BY <2>1 DEF IInv, Custody, CutAdvances, Accounted, Settled
  <2>3. e \notin Held
    BY <2>1 DEF Held
  <2> QED BY <2>2, <2>3
<1> QED BY <1>1, IInvInductive, PTL

\* A retry goroutine that waits for its insert has one: its call of Do can return.
RetryInsideDo == \A s \in Slots : retry[s] = "inserting" => insert[s] # "none"

LEMMA RetryInsideDoStep == TypeOK /\ RetryInsideDo /\ [Next]_vars => RetryInsideDo'
<1> SUFFICES ASSUME TypeOK, RetryInsideDo, [Next]_vars, NEW s \in Slots, retry'[s] = "inserting"
             PROVE  insert'[s] # "none"
  BY DEF RetryInsideDo
<1> USE DEF lockVars, connVars, insertVars, retryVars, fateVars, mainVars
<1>0. s \in Inserters /\ Flusher \in Inserters /\ s # Flusher /\ Slots \subseteq Inserters
  BY BatcherAssumption DEF Inserters
<1>1. ASSUME NEW i \in Inserters, InsertBatch(i), insert[s] # "none" \/ s = i
      PROVE  insert'[s] # "none"
  BY <1>0, <1>1 DEF InsertBatch, TypeOK
<1>2. ASSUME retry'[s] = retry[s], insert' = insert \/ InsertBatch(Flusher) PROVE insert'[s] # "none"
  BY <1>0, <1>1, <1>2 DEF RetryInsideDo
<1>3. CASE (\E e \in Events : BufferEvent(e)) \/ TimerCallback \/ DrainFlush
  BY <1>2, <1>3 DEF BufferEvent, TimerCallback, DrainFlush, FlushLocked, FlushRows
<1>4. ASSUME NEW result \in Result, FlushReturns(result) PROVE insert'[s] # "none"
  <2>1. retry[s] = "inserting"
    BY <1>4 DEF FlushReturns, ScheduleRetry, TypeOK
  <2>2. insert' = [insert EXCEPT ![Flusher] = "none"]
    BY <1>4 DEF FlushReturns, Returns
  <2> QED BY <1>0, <2>1, <2>2 DEF RetryInsideDo, TypeOK
<1>5. ASSUME NEW t \in Slots, RetryInsert(t) PROVE insert'[s] # "none"
  <2>1. s = t \/ retry[s] = "inserting"
    BY <1>5 DEF RetryInsert, TypeOK
  <2> QED BY <1>0, <1>1, <1>5, <2>1 DEF RetryInsert, RetryInsideDo
<1>6. ASSUME NEW t \in Slots, NEW result \in Result, RetryReturns(t, result)
      PROVE  insert'[s] # "none"
  <2>1. retry'[t] # "inserting" /\ \A u \in Slots \ {t} : retry'[u] = retry[u]
    BY <1>6 DEF RetryReturns, Release, NextAttempt, TypeOK
  <2>2. insert' = [insert EXCEPT ![t] = "none"]
    BY <1>6 DEF RetryReturns, Returns
  <2> QED BY <1>0, <2>1, <2>2 DEF RetryInsideDo, TypeOK
<1>7. ASSUME NEW t \in Slots, DialFails(t) \/ DialSucceeds(t) \/ SwapClient(t) \/ CloseOld(t)
      PROVE  insert'[s] # "none"
  <2>1. insert' = insert /\ retry'[t] # "inserting" /\ \A u \in Slots \ {t} : retry'[u] = retry[u]
    BY <1>7 DEF DialFails, DialSucceeds, SwapClient, CloseOld, NextAttempt, Release, TypeOK
  <2> QED BY <2>1 DEF RetryInsideDo
<1>8. CASE TimerFires \/ RetryWgDone \/ DrainAndFlush \/ RetryWgWait \/ UNCHANGED vars
  BY <1>2, <1>8 DEF TimerFires, RetryWgDone, DrainAndFlush, RetryWgWait, vars
<1> QED BY <1>3, <1>4, <1>5, <1>6, <1>7, <1>8 DEF Next, RetryStep

LEMMA RetryInsertsReturn == Spec => []RetryInsideDo
<1>1. Init => RetryInsideDo
  BY DEF Init, RetryInsideDo
<1>2. IInv => TypeOK
  BY DEF IInv
<1> QED BY <1>1, <1>2, RetryInsideDoStep, IInvInductive, PTL DEF Spec

\* TypeOK, for every value of the constants.
THEOREM TypeSafe == Spec => []TypeOK
<1>1. IInv => TypeOK
  BY DEF IInv
<1> QED BY <1>1, IInvInductive, PTL

-----------------------------------------------------------------------------
(* The batcher implements the ledger.                                       *)

\* The effect of a step on the custody of events: nothing changes hands outside,
\* the buffer becomes a batch, one event is accepted, perhaps closing the batch, or
\* one owner's batch is settled as a whole.
Keeps ==
  /\ UNCHANGED <<accepted, dropped, misread>> /\ Held' = Held /\ batches' = batches
  /\ stored \subseteq stored' /\ stored' \subseteq stored \cup Held
Closes ==
  /\ UNCHANGED <<accepted, stored, dropped, misread>> /\ Held' = Held
  /\ buf # {} /\ batches' = batches \cup {buf}
Accepts(e) ==
  /\ e \in Events \ accepted
  /\ accepted' = accepted \cup {e} /\ Held' = Held \cup {e}
  /\ batches' = batches \/ batches' = batches \cup {buf \cup {e}}
  /\ UNCHANGED <<stored, dropped, misread>>
Settles(S, outcome) ==
  /\ S \in batches \cup {{}} /\ batches' = batches \ {S}
  /\ S \subseteq Held /\ Held' = Held \ S
  /\ stored \subseteq stored' /\ stored' \subseteq stored \cup S
  /\ outcome = "stored" => S \subseteq stored'
  /\ dropped' = IF outcome = "dropped" THEN dropped \cup S ELSE dropped
  /\ misread' = IF outcome = "misread" THEN misread \cup S ELSE misread
  /\ UNCHANGED accepted

Shape ==
  \/ Keeps
  \/ Closes
  \/ \E e \in Events : Accepts(e)
  \/ \E i \in Inserters, outcome \in {"stored", "dropped", "misread"} : Settles(batch[i], outcome)

LEMMA HeldMember ==
  \A e : e \in Held <=> e \in buf \/ \E i \in Inserters : e \in batch[i]
BY DEF Held

LEMMA BatchesMember ==
  /\ \A S : S \in batches <=> S # {} /\ \E i \in Inserters : S = batch[i]
  /\ \A S : S \in batches' <=> S # {} /\ \E i \in Inserters : S = batch'[i]
BY DEF batches

\* flushLocked passes on what it is given, as one batch.
LEMMA FlushLockedHolds ==
  ASSUME TypeOK, IdleOwnsNothing, mu = "free",
         NEW who \in {"handler", "timer", "main"}, NEW rows \in SUBSET Events,
         FlushLocked(who, rows), buf \subseteq rows
  PROVE  /\ Held' = Held \cup rows
         /\ batches' = IF rows = {} THEN batches ELSE batches \cup {rows}
<1>1. buf' = {} /\ batch' = [batch EXCEPT ![Flusher] = rows] /\ batch[Flusher] = {}
  BY FlushLockedMoves DEF IdleOwnsNothing
<1>2. Flusher \in Inserters
  BY DEF Inserters
<1>3. \A e : (\E i \in Inserters : e \in batch'[i]) <=> e \in rows \/ \E i \in Inserters : e \in batch[i]
  BY <1>1, <1>2 DEF TypeOK
<1>4. \A e : e \in Held' <=> e \in buf' \/ \E i \in Inserters : e \in batch'[i]
  BY DEF Held
<1>5. \A S : S # {} =>
        ((\E i \in Inserters : S = batch'[i]) <=> S = rows \/ \E i \in Inserters : S = batch[i])
  BY <1>1, <1>2 DEF TypeOK
<1>6. \A S : S \in batches' <=> S \in batches \/ (S = rows /\ rows # {})
  BY <1>5, BatchesMember
<1> QED BY <1>1, <1>3, <1>4, <1>6, HeldMember

\* An owner that empties its hands takes exactly its batch out of Held, and out of
\* the batches: no other owner has an equal one.
LEMMA EmptiedHands ==
  ASSUME TypeOK, SingleCustody, NEW i \in Inserters, buf' = buf,
         batch' = [batch EXCEPT ![i] = {}]
  PROVE  /\ batch[i] \subseteq Held /\ Held' = Held \ batch[i]
         /\ batch[i] \in batches \cup {{}} /\ batches' = batches \ {batch[i]}
<1>1. \A e : e \in Held' <=> e \in buf' \/ \E j \in Inserters : e \in batch'[j]
  BY DEF Held
<1>2. \A e : (\E j \in Inserters : e \in batch'[j]) <=>
             (\E j \in Inserters : e \in batch[j]) /\ e \notin batch[i]
  BY DEF TypeOK, SingleCustody
<1>3. \A e : e \in buf => e \notin batch[i]
  BY DEF SingleCustody
<1>4. \A j \in Inserters : j # i /\ batch[j] # {} => batch[j] # batch[i]
  BY DEF SingleCustody
<1>5. \A S : S \in batches' <=> S \in batches /\ S # batch[i]
  BY <1>4, BatchesMember DEF TypeOK
<1>6. batch[i] \in batches \cup {{}}
  BY BatchesMember
<1> QED BY <1>1, <1>2, <1>3, <1>5, <1>6, HeldMember

LEMMA SameHands == ASSUME UNCHANGED <<buf, batch>> PROVE Held' = Held /\ batches' = batches
BY DEF Held, batches

LEMMA StepShape == TypeOK /\ Custody /\ [Next]_vars => Shape
<1> SUFFICES ASSUME TypeOK, Custody, [Next]_vars
             PROVE  Shape
  OBVIOUS
<1> USE DEF Custody
<1>0. Flusher \in Inserters /\ Slots \subseteq Inserters /\ Flusher \notin Slots
  BY BatcherAssumption DEF Inserters
<1>a. ASSUME UNCHANGED <<accepted, buf, batch, stored, dropped, misread>> PROVE Shape
  BY <1>a, SameHands DEF Shape, Keeps
<1>b. ASSUME NEW who \in {"handler", "timer", "main"}, mu = "free",
             FlushLocked(who, buf), UNCHANGED <<accepted, stored, dropped, misread>>
      PROVE  Shape
  <2>1. /\ Held' = Held \cup buf
        /\ batches' = IF buf = {} THEN batches ELSE batches \cup {buf}
    BY <1>b, FlushLockedHolds DEF TypeOK
  <2>2. Held' = Held
    BY <2>1, HeldMember
  <2> QED BY <1>b, <2>1, <2>2 DEF Shape, Keeps, Closes
<1>1. ASSUME NEW e \in Events, BufferEvent(e) PROVE Shape
  <2>1. /\ mu = "free" /\ e \notin accepted /\ accepted' = accepted \cup {e}
        /\ UNCHANGED <<stored, dropped, misread>>
    BY <1>1 DEF BufferEvent, fateVars
  <2>2. /\ Held' = Held \cup {e}
        /\ batches' = batches \/ batches' = batches \cup {buf \cup {e}}
    <3>1. CASE Cardinality(buf \cup {e}) >= MaxBatchSize
      <4>1. FlushLocked("handler", buf \cup {e}) /\ buf \cup {e} \in SUBSET Events
        BY <1>1, <3>1 DEF BufferEvent, TypeOK
      <4>2. /\ Held' = Held \cup (buf \cup {e})
            /\ batches' = IF buf \cup {e} = {} THEN batches ELSE batches \cup {buf \cup {e}}
        BY <2>1, <4>1, FlushLockedHolds
      <4>3. buf \subseteq Held
        BY HeldMember
      <4> QED BY <4>2, <4>3
    <3>2. CASE ~(Cardinality(buf \cup {e}) >= MaxBatchSize)
      BY <1>1, <3>2 DEF BufferEvent, Held, batches
    <3> QED BY <3>1, <3>2
  <2> QED BY <2>1, <2>2 DEF Shape, Accepts
<1>2. CASE TimerCallback
  BY <1>2, <1>b DEF TimerCallback, fateVars
<1>3. CASE DrainFlush
  BY <1>3, <1>b DEF DrainFlush, fateVars
<1>4. ASSUME NEW result \in Result, FlushReturns(result) PROVE Shape
  <2>1. Returns(Flusher, result) /\ UNCHANGED <<accepted, buf>>
    BY <1>4 DEF FlushReturns
  <2>2. CASE ~Failed(result)
    <3>1. batch' = [batch EXCEPT ![Flusher] = {}] /\ UNCHANGED dropped
      BY <1>4, <2>2 DEF FlushReturns
    <3>2. /\ batch[Flusher] \subseteq Held /\ Held' = Held \ batch[Flusher]
          /\ batch[Flusher] \in batches \cup {{}} /\ batches' = batches \ {batch[Flusher]}
      BY <1>0, <2>1, <3>1, EmptiedHands
    <3>3. CASE result = "ok"
      <4>1. Settles(batch[Flusher], "stored")
        BY <2>1, <3>1, <3>2, <3>3 DEF Settles, Returns
      <4> QED BY <1>0, <4>1 DEF Shape
    <3>4. CASE result = "misread"
      <4>1. Settles(batch[Flusher], "misread")
        BY <2>1, <3>1, <3>2, <3>4 DEF Settles, Returns
      <4> QED BY <1>0, <4>1 DEF Shape
    <3> QED BY <2>2, <3>3, <3>4 DEF Failed
  <2>3. CASE Failed(result)
    <3>1. misread' = misread /\ stored \subseteq stored' /\ stored' \subseteq stored \cup batch[Flusher]
      BY <2>1, <2>3 DEF Returns, Failed
    <3>2. ASSUME NEW s \in Slots, retry[s] = "free", UNCHANGED dropped,
                 batch' = [batch EXCEPT ![s] = batch[Flusher], ![Flusher] = {}]
          PROVE  Shape
      <4>1. batch[s] = {}
        BY <3>2 DEF IdleOwnsNothing
      <4>2. \A e : (\E i \in Inserters : e \in batch'[i]) <=> \E i \in Inserters : e \in batch[i]
        BY <1>0, <3>2, <4>1 DEF TypeOK
      <4>3. \A e : e \in Held' <=> e \in buf' \/ \E i \in Inserters : e \in batch'[i]
        BY DEF Held
      <4>4. Held' = Held
        BY <2>1, <4>2, <4>3, HeldMember
      <4>6. batches' = batches
        <5>1. \A S : S # {} =>
                ((\E i \in Inserters : S = batch'[i]) <=> \E i \in Inserters : S = batch[i])
          BY <1>0, <3>2, <4>1 DEF TypeOK
        <5> QED BY <5>1, BatchesMember
      <4>5. batch[Flusher] \subseteq Held
        BY <1>0, HeldMember
      <4> QED BY <2>1, <3>1, <3>2, <4>4, <4>5, <4>6 DEF Shape, Keeps
    <3>3. ASSUME dropped' = dropped \cup batch[Flusher], batch' = [batch EXCEPT ![Flusher] = {}]
          PROVE  Shape
      <4>1. /\ batch[Flusher] \subseteq Held /\ Held' = Held \ batch[Flusher]
            /\ batch[Flusher] \in batches \cup {{}} /\ batches' = batches \ {batch[Flusher]}
        BY <1>0, <2>1, <3>3, EmptiedHands
      <4>2. Settles(batch[Flusher], "dropped")
        BY <2>1, <3>1, <3>3, <4>1 DEF Settles
      <4> QED BY <1>0, <4>2 DEF Shape
    <3> QED BY <1>4, <2>3, <3>2, <3>3 DEF FlushReturns, ScheduleRetry, DropBatch
  <2> QED BY <2>2, <2>3
<1>5. ASSUME NEW s \in Slots, RetryStep(s) PROVE Shape
  <2>0. s \in Inserters
    BY <1>0
  <2>1. ASSUME NextAttempt(s), UNCHANGED <<accepted, buf, misread>>,
               stored \subseteq stored', stored' \subseteq stored \cup batch[s]
        PROVE  Shape
    <3>1. CASE batch' = batch /\ dropped' = dropped
      <4>1. Held' = Held /\ batches' = batches /\ batch[s] \subseteq Held
        BY <2>0, <2>1, <3>1, SameHands, HeldMember
      <4> QED BY <2>1, <3>1, <4>1 DEF Shape, Keeps
    <3>2. CASE batch' = [batch EXCEPT ![s] = {}] /\ dropped' = dropped \cup batch[s]
      <4>1. /\ batch[s] \subseteq Held /\ Held' = Held \ batch[s]
            /\ batch[s] \in batches \cup {{}} /\ batches' = batches \ {batch[s]}
        BY <2>0, <2>1, <3>2, EmptiedHands
      <4>2. Settles(batch[s], "dropped")
        BY <2>1, <3>2, <4>1 DEF Settles
      <4> QED BY <2>0, <4>2 DEF Shape
    <3> QED BY <2>1, <3>1, <3>2 DEF NextAttempt, DropBatch, Release
  <2>2. ASSUME NEW result \in Result, RetryReturns(s, result) PROVE Shape
    <3>1. Returns(s, result) /\ UNCHANGED <<accepted, buf>>
      BY <2>2 DEF RetryReturns, lockVars
    <3>2. CASE ~Failed(result)
      <4>1. batch' = [batch EXCEPT ![s] = {}] /\ UNCHANGED dropped
        BY <2>2, <3>2 DEF RetryReturns, Release
      <4>2. /\ batch[s] \subseteq Held /\ Held' = Held \ batch[s]
            /\ batch[s] \in batches \cup {{}} /\ batches' = batches \ {batch[s]}
        BY <2>0, <3>1, <4>1, EmptiedHands
      <4>3. CASE result = "ok"
        <5>1. Settles(batch[s], "stored")
          BY <3>1, <4>1, <4>2, <4>3 DEF Settles, Returns
        <5> QED BY <2>0, <5>1 DEF Shape
      <4>4. CASE result = "misread"
        <5>1. Settles(batch[s], "misread")
          BY <3>1, <4>1, <4>2, <4>4 DEF Settles, Returns
        <5> QED BY <2>0, <5>1 DEF Shape
      <4> QED BY <3>2, <4>3, <4>4 DEF Failed
    <3>3. CASE Failed(result)
      <4>1. misread' = misread /\ stored \subseteq stored' /\ stored' \subseteq stored \cup batch[s]
        BY <3>1, <3>3 DEF Returns, Failed
      <4>2. CASE result = "closed"
        <5>1. UNCHANGED <<batch, dropped, stored>>
          BY <2>2, <3>1, <3>3, <4>2 DEF RetryReturns, Returns
        <5> QED BY <3>1, <4>1, <5>1, <1>a
      <4>3. CASE result # "closed"
        BY <2>1, <2>2, <3>1, <3>3, <4>1, <4>3 DEF RetryReturns
      <4> QED BY <4>2, <4>3
    <3> QED BY <3>2, <3>3
  <2>3. CASE DialFails(s) \/ CloseOld(s)
    BY <2>1, <2>3 DEF DialFails, CloseOld, lockVars
  <2>4. CASE RetryInsert(s) \/ DialSucceeds(s) \/ SwapClient(s)
    BY <2>4, <1>a DEF RetryInsert, DialSucceeds, SwapClient, lockVars, fateVars
  <2> QED BY <1>5, <2>2, <2>3, <2>4 DEF RetryStep
<1>6. CASE TimerFires \/ RetryWgDone \/ DrainAndFlush \/ RetryWgWait \/ UNCHANGED vars
  BY <1>6, <1>a DEF TimerFires, RetryWgDone, DrainAndFlush, RetryWgWait, vars, lockVars, fateVars
<1> QED BY <1>1, <1>2, <1>3, <1>4, <1>5, <1>6 DEF Next

\* What has been given up is over: nobody owns it, nobody will accept it again.
GivenUpForGood ==
  /\ dropped \cup misread \subseteq accepted
  /\ Held \cap (dropped \cup misread) = {}

LEMMA GivenUpStep == OnlyAccepted /\ GivenUpForGood /\ Shape => GivenUpForGood'
<1> SUFFICES ASSUME OnlyAccepted, GivenUpForGood, Shape PROVE GivenUpForGood'
  OBVIOUS
<1>0. Held \subseteq accepted
  BY DEF Held, OnlyAccepted
<1>1. CASE Keeps \/ Closes
  BY <1>1 DEF Keeps, Closes, GivenUpForGood
<1>2. ASSUME NEW e \in Events, Accepts(e) PROVE GivenUpForGood'
  BY <1>2 DEF Accepts, GivenUpForGood
<1>3. ASSUME NEW S, NEW outcome, Settles(S, outcome) PROVE GivenUpForGood'
  BY <1>0, <1>3 DEF Settles, GivenUpForGood
<1> QED BY <1>1, <1>2, <1>3 DEF Shape

LEMMA FateOf ==
  ASSUME NEW e \in Events
  PROVE  fate[e] = IF e \in Held THEN "held" ELSE IF e \in dropped THEN "dropped"
                   ELSE IF e \in misread THEN "misread" ELSE IF e \in stored THEN "stored"
                   ELSE "new"
BY DEF fate

LEMMA FatePrimed ==
  ASSUME NEW e \in Events
  PROVE  fate'[e] = IF e \in Held' THEN "held" ELSE IF e \in dropped' THEN "dropped"
                    ELSE IF e \in misread' THEN "misread" ELSE IF e \in stored' THEN "stored"
                    ELSE "new"
BY DEF fate

LEMMA FateIsFunction == fate = [e \in Events |-> fate[e]] /\ fate' = [e \in Events |-> fate'[e]]
BY DEF fate

\* What the ledger calls buffered is b.buf.
LEMMA BufferedIsBuf ==
  ASSUME TypeOK, SingleCustody PROVE Ledger!Buffered = buf /\ Ledger!HeldEvents = Held
<1>1. Ledger!HeldEvents = Held
  <2>1. Held \subseteq Events
    BY DEF Held, TypeOK
  <2> QED BY <2>1, FateOf DEF Ledger!HeldEvents
<1>2. \A e : e \in UNION batches <=> \E i \in Inserters : e \in batch[i]
  BY BatchesMember
<1> QED BY <1>1, <1>2, HeldMember DEF Ledger!Buffered, SingleCustody

LEMMA LedgerStep ==
  TypeOK /\ SingleCustody /\ OnlyAccepted /\ GivenUpForGood /\ Shape
    => [Ledger!Next]_<<fate, batches>>
<1> SUFFICES ASSUME TypeOK, SingleCustody, OnlyAccepted, GivenUpForGood, Shape
             PROVE  [Ledger!Next]_<<fate, batches>>
  OBVIOUS
<1>0. Held \subseteq accepted /\ Held \subseteq Events
  BY DEF Held, OnlyAccepted, TypeOK
<1>1. CASE Keeps
  <2>1. ASSUME NEW e \in Events PROVE fate'[e] = fate[e]
    BY <1>1, <2>1, FateOf, FatePrimed DEF Keeps
  <2>2. fate' = fate
    BY <2>1, FateIsFunction
  <2> QED BY <1>1, <2>2 DEF Keeps
<1>2. CASE Closes
  <2>1. ASSUME NEW e \in Events PROVE fate'[e] = fate[e]
    BY <1>2, <2>1, FateOf, FatePrimed DEF Closes
  <2>2. fate' = fate
    BY <2>1, FateIsFunction
  <2>3. Ledger!Close
    BY <1>2, <2>2, BufferedIsBuf DEF Closes, Ledger!Close
  <2> QED BY <2>3 DEF Ledger!Next
<1>3. ASSUME NEW e \in Events, Accepts(e) PROVE Ledger!Accept(e)
  <2>1. fate[e] = "new"
    BY <1>0, <1>3, FateOf DEF Accepts, OnlyAccepted, GivenUpForGood
  <2>2. fate'[e] = "held"
    BY <1>3, FatePrimed DEF Accepts
  <2>3. ASSUME NEW f \in Events, f # e PROVE fate'[f] = fate[f]
    BY <1>3, <2>3, FateOf, FatePrimed DEF Accepts
  <2>4. fate' = [fate EXCEPT ![e] = "held"]
    BY <2>2, <2>3, FateIsFunction
  <2> QED BY <1>3, <2>1, <2>4, BufferedIsBuf DEF Accepts, Ledger!Accept
<1>4. ASSUME NEW S, NEW outcome \in {"stored", "dropped", "misread"}, Settles(S, outcome)
      PROVE  [Ledger!Next]_<<fate, batches>>
  <2>1. ASSUME NEW e \in Events PROVE fate'[e] = IF e \in S THEN outcome ELSE fate[e]
    <3>1. CASE e \in S
      BY <1>4, <3>1, FatePrimed DEF Settles, GivenUpForGood
    <3>2. CASE e \notin S
      BY <1>4, <3>2, FateOf, FatePrimed DEF Settles
    <3> QED BY <3>1, <3>2
  <2>2. fate' = [e \in Events |-> IF e \in S THEN outcome ELSE fate[e]]
    BY <2>1, FateIsFunction
  <2>3. CASE S = {}
    <3>1. batches' = batches
      BY <1>4, <2>3, BatchesMember DEF Settles
    <3> QED BY <2>2, <2>3, <3>1, FateIsFunction
  <2>4. CASE S # {}
    <3>1. S \in batches /\ Ledger!Settle(S, outcome)
      BY <1>4, <2>2, <2>4 DEF Settles, Ledger!Settle
    <3> QED BY <3>1 DEF Ledger!Next, Ledger!Outcomes
  <2> QED BY <2>3, <2>4
<1> QED BY <1>1, <1>2, <1>3, <1>4 DEF Shape, Ledger!Next

\* Batcher implements DeliveryLedger: an event is accepted once, leaves the buffer
\* with all of it in one batch, is settled with exactly that batch, and once settled
\* never changes again.
THEOREM BatcherImplementsLedger == Spec => ImplementsLedger
<1>1. Init => Ledger!Init /\ GivenUpForGood
  <2> SUFFICES ASSUME Init PROVE Ledger!Init /\ GivenUpForGood
    OBVIOUS
  <2>1. Held = {} /\ batches = {} /\ dropped = {} /\ misread = {} /\ stored = {}
    BY DEF Init, Held, batches, Inserters
  <2>2. \A e \in Events : fate[e] = "new"
    BY <2>1, FateOf
  <2> QED BY <2>1, <2>2, FateIsFunction DEF Ledger!Init, GivenUpForGood
<1>2. IInv /\ GivenUpForGood /\ [Next]_vars
        => GivenUpForGood' /\ [Ledger!Next]_<<fate, batches>>
  BY StepShape, GivenUpStep, LedgerStep DEF IInv, Custody
<1> QED BY <1>1, <1>2, IInvInductive, PTL DEF Spec, ImplementsLedger, Ledger!Spec
=============================================================================
