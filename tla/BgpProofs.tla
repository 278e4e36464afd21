------------------------------ MODULE BgpProofs ------------------------------
(***************************************************************************)
(* Proofs about the BGP worker and its batcher.                            *)
(*                                                                         *)
(* About BGPBatcher, for any events, capacities, slots and clients.  First *)
(* its live half alone, BgpBroadcast: the batches, put one after the       *)
(* other, are exactly what the channel took, in that order.  Then the      *)
(* batcher as a whole: seen through the variables of one half, each of its *)
(* steps is a step of that half or a stutter, so that what is proved of    *)
(* BgpBroadcast and of Batcher holds in it.                                *)
(*                                                                         *)
(* About BgpParser, for all sets of prefixes, AS numbers and updates and   *)
(* every size of the table: the table is bounded and says what was read    *)
(* last, every verdict has its cause in what was read, and events are      *)
(* placed at the hop nearest the origin and not left out.                  *)
(*                                                                         *)
(* And about Geo, for any caller and any number of fetch goroutines: the   *)
(* parser is such a caller, so what holds of Geo holds in it.              *)
(***************************************************************************)
EXTENDS BgpBatcher, BgpParser, SequenceTheorems, TLAPS

PersistP == INSTANCE BatcherProofs WITH batch <- rows

\* While the loop is between batches the slice has room for one more event;
\* when it is done, nothing is left in the slice or in the channel.
RoomInSelect ==
  /\ loop = "select" => Len(batch) < bgpBroadcastBatchSize
  /\ loop \in {"last", "done"} => chClosed /\ broadcastCh = <<>>
  /\ loop = "done" => batch = <<>>

IInv == TypeOK /\ RoomInSelect /\ OnceInOrder

-----------------------------------------------------------------------------
(* Moving an element from one sequence to the next.                         *)

LEMMA AppendToConcat ==
  ASSUME NEW S, NEW s \in Seq(S), NEW t \in Seq(S), NEW e \in S
  PROVE  s \o Append(t, e) = Append(s \o t, e)
<1>1. s \o Append(t, e) \in Seq(S) /\ Append(s \o t, e) \in Seq(S)
  BY ConcatProperties
<1>2. Len(s \o Append(t, e)) = Len(Append(s \o t, e))
  BY ConcatProperties
<1>3. ASSUME NEW i \in 1 .. Len(s) + Len(t) + 1
      PROVE  (s \o Append(t, e))[i] = Append(s \o t, e)[i]
  <2>1. Append(t, e) \in Seq(S) /\ Len(Append(t, e)) = Len(t) + 1
    OBVIOUS
  <2>2. (s \o Append(t, e))[i] = IF i <= Len(s) THEN s[i] ELSE Append(t, e)[i - Len(s)]
    BY <2>1, ConcatProperties
  <2>3. s \o t \in Seq(S) /\ Len(s \o t) = Len(s) + Len(t)
    BY ConcatProperties
  <2>4. CASE i = Len(s) + Len(t) + 1
    BY <2>2, <2>3, <2>4
  <2>5. CASE i # Len(s) + Len(t) + 1
    <3>1. (s \o t)[i] = IF i <= Len(s) THEN s[i] ELSE t[i - Len(s)]
      BY <2>5, ConcatProperties
    <3> QED BY <2>2, <2>3, <2>5, <3>1
  <2> QED BY <2>4, <2>5
<1>4. Len(s \o Append(t, e)) = Len(s) + Len(t) + 1
  BY ConcatProperties
<1> QED BY <1>1, <1>2, <1>3, <1>4, SeqEqual

LEMMA PassHeadOn ==
  ASSUME NEW S, NEW s \in Seq(S), NEW t \in Seq(S), t # <<>>
  PROVE  Append(s, Head(t)) \o Tail(t) = s \o t
<1>1. Head(t) \in S /\ Head(t) = t[1] /\ Tail(t) \in Seq(S) /\ Len(Tail(t)) = Len(t) - 1
  BY HeadTailProperties
<1>2. Append(s, Head(t)) \in Seq(S) /\ Len(Append(s, Head(t))) = Len(s) + 1
  BY <1>1
<1>3. /\ Append(s, Head(t)) \o Tail(t) \in Seq(S) /\ s \o t \in Seq(S)
      /\ Len(Append(s, Head(t)) \o Tail(t)) = Len(s) + Len(t) /\ Len(s \o t) = Len(s) + Len(t)
  BY <1>1, <1>2, ConcatProperties
<1>4. ASSUME NEW i \in 1 .. Len(s) + Len(t)
      PROVE  (Append(s, Head(t)) \o Tail(t))[i] = (s \o t)[i]
  <2>1. (s \o t)[i] = IF i <= Len(s) THEN s[i] ELSE t[i - Len(s)]
    BY ConcatProperties
  <2>2. (Append(s, Head(t)) \o Tail(t))[i]
          = IF i <= Len(s) + 1 THEN Append(s, Head(t))[i] ELSE Tail(t)[i - (Len(s) + 1)]
    BY <1>1, <1>2, ConcatProperties
  <2>3. i > Len(s) + 1 => Tail(t)[i - (Len(s) + 1)] = t[i - Len(s)]
    BY <1>1, HeadTailProperties
  <2>4. i <= Len(s) + 1 => Append(s, Head(t))[i] = IF i <= Len(s) THEN s[i] ELSE t[i - Len(s)]
    BY <1>1
  <2> QED BY <2>1, <2>2, <2>3, <2>4
<1> QED BY <1>3, <1>4, SeqEqual

-----------------------------------------------------------------------------
LEMMA InitIInv == Init => IInv
<1> SUFFICES ASSUME Init PROVE IInv
  OBVIOUS
<1>1. TypeOK /\ RoomInSelect
  <2>1. <<>> \in Seq(Events) /\ Len(<<>>) = 0
    BY EmptySeq
  <2>2. 0 < bgpBroadcastBatchSize /\ 0 <= broadcastBufferSize
    BY BgpBroadcastAssumption
  <2>a. Len(broadcastCh) <= broadcastBufferSize /\ Len(batch) <= bgpBroadcastBatchSize
    BY <2>1, BgpBroadcastAssumption DEF Init
  <2>3. TypeOK
    BY <2>1, <2>a, Zenon DEF Init, TypeOK
  <2> QED BY <2>1, <2>2, <2>3 DEF Init, RoomInSelect
<1>2. OnceInOrder
  <2>1. <<>> \o <<>> = <<>>
    BY EmptySeq, ConcatEmptySeq
  <2> QED BY <2>1 DEF Init, OnceInOrder
<1> QED BY <1>1, <1>2 DEF IInv

LEMMA EnqueueStep == ASSUME IInv, NEW e \in Events, Enqueue(e) PROVE IInv'
<1> USE DEF IInv
<1>1. CASE Len(broadcastCh) < broadcastBufferSize
  <2>1. /\ broadcastCh' = Append(broadcastCh, e) /\ arrived' = Append(arrived, e)
        /\ ~chClosed /\ UNCHANGED <<chClosed, batch, loop, handedOver>>
        /\ offered' = offered \cup {e}
    BY <1>1 DEF Enqueue
  <2>2. TypeOK' /\ RoomInSelect'
    BY <1>1, <2>1, BgpBroadcastAssumption DEF TypeOK, RoomInSelect
  <2>3. OnceInOrder'
    <3>1. handedOver \o batch \in Seq(Events)
      BY ConcatProperties DEF TypeOK
    <3>2. (handedOver \o batch) \o Append(broadcastCh, e)
            = Append((handedOver \o batch) \o broadcastCh, e)
      BY <3>1, AppendToConcat DEF TypeOK
    <3> QED BY <2>1, <3>2 DEF OnceInOrder
  <2> QED BY <2>2, <2>3
<1>2. CASE ~(Len(broadcastCh) < broadcastBufferSize)
  BY <1>2 DEF Enqueue, TypeOK, RoomInSelect, OnceInOrder
<1> QED BY <1>1, <1>2

LEMMA ReceiveStep == ASSUME IInv, Receive PROVE IInv'
<1> USE DEF IInv
<1>1. /\ broadcastCh # <<>> /\ loop = "select"
      /\ batch' = Append(batch, Head(broadcastCh)) /\ broadcastCh' = Tail(broadcastCh)
      /\ UNCHANGED <<chClosed, offered, arrived, handedOver>>
      /\ loop' = IF Len(batch') >= bgpBroadcastBatchSize THEN "publishing" ELSE "select"
  BY DEF Receive
<1>2. Head(broadcastCh) \in Events /\ Tail(broadcastCh) \in Seq(Events)
      /\ Len(Tail(broadcastCh)) = Len(broadcastCh) - 1
  BY <1>1 DEF TypeOK
<1>3. TypeOK' /\ RoomInSelect'
  BY <1>1, <1>2, BgpBroadcastAssumption DEF TypeOK, RoomInSelect
<1>4. OnceInOrder'
  <2>1. handedOver \o batch \in Seq(Events)
    BY ConcatProperties DEF TypeOK
  <2>2. handedOver \o Append(batch, Head(broadcastCh)) = Append(handedOver \o batch, Head(broadcastCh))
    BY <1>2, AppendToConcat DEF TypeOK
  <2>3. Append(handedOver \o batch, Head(broadcastCh)) \o Tail(broadcastCh)
          = (handedOver \o batch) \o broadcastCh
    BY <1>1, <2>1, PassHeadOn DEF TypeOK
  <2> QED BY <1>1, <2>2, <2>3 DEF OnceInOrder
<1> QED BY <1>3, <1>4

LEMMA PublishReturnsStep == ASSUME IInv, PublishReturns PROVE IInv'
<1> USE DEF IInv
<1>1. /\ loop \in {"publishing", "last"} /\ handedOver' = handedOver \o batch /\ batch' = <<>>
      /\ loop' = IF loop = "last" THEN "done" ELSE "select"
      /\ UNCHANGED <<broadcastCh, chClosed, offered, arrived>>
  BY DEF PublishReturns
<1>2. TypeOK' /\ RoomInSelect'
  BY <1>1, BgpBroadcastAssumption DEF TypeOK, RoomInSelect
<1>3. OnceInOrder'
  <2>1. (handedOver \o batch) \o <<>> = handedOver \o batch
    BY ConcatProperties, ConcatEmptySeq DEF TypeOK
  <2> QED BY <1>1, <2>1 DEF OnceInOrder
<1> QED BY <1>2, <1>3

LEMMA IInvInductive == Spec => []IInv
<1>1. IInv /\ [Next]_vars => IInv'
  <2> SUFFICES ASSUME IInv, [Next]_vars PROVE IInv'
    OBVIOUS
  <2>1. CASE CloseBroadcastCh
    BY <2>1 DEF CloseBroadcastCh, IInv, TypeOK, RoomInSelect, OnceInOrder
  <2>2. CASE Tick
    BY <2>2 DEF Tick, IInv, TypeOK, RoomInSelect, OnceInOrder
  <2>3. CASE ReceiveClosed
    BY <2>3 DEF ReceiveClosed, IInv, TypeOK, RoomInSelect, OnceInOrder
  <2>4. CASE UNCHANGED vars
    BY <2>4 DEF vars, IInv, TypeOK, RoomInSelect, OnceInOrder
  <2> QED BY <2>1, <2>2, <2>3, <2>4, EnqueueStep, ReceiveStep, PublishReturnsStep
          DEF Next, LoopStep
<1> QED BY <1>1, InitIInv, PTL DEF Spec

\* Every variable stays in its range: no batch exceeds bgpBroadcastBatchSize.
THEOREM TypeSafe == Spec => []TypeOK
<1>1. IInv => TypeOK
  BY DEF IInv
<1> QED BY <1>1, IInvInductive, PTL

\* What the channel took is handed over once, in order.
THEOREM OrderKept == Spec => []OnceInOrder
<1>1. IInv => OnceInOrder
  BY DEF IInv
<1> QED BY <1>1, IInvInductive, PTL

\* A loop that is done has handed over everything that arrived.
THEOREM DrainComplete == Spec => []DoneMeansDrained
<1>1. IInv => DoneMeansDrained
  BY ConcatEmptySeq DEF IInv, TypeOK, RoomInSelect, OnceInOrder, DoneMeansDrained
<1> QED BY <1>1, IInvInductive, PTL

-----------------------------------------------------------------------------
(* The live half within the batcher.                                        *)

LEMMA LiveSteps == [NextBGP]_batcherVars => [Next]_vars
<1> SUFFICES ASSUME [NextBGP]_batcherVars PROVE Next \/ UNCHANGED vars
  OBVIOUS
<1>1. ASSUME NEW e \in Events, HandleEnqueue(e) PROVE Next
  BY <1>1 DEF HandleEnqueue, Next
<1>2. CASE LiveStep \/ CloseAfterWait
  BY <1>2 DEF LiveStep, CloseAfterWait, Next
<1>3. CASE HandleBuffer \/ PersistStep \/ DrainAndFlush \/ UNCHANGED batcherVars
  BY <1>3 DEF HandleBuffer, PersistStep, DrainAndFlush, batcherVars
<1> QED BY <1>1, <1>2, <1>3 DEF NextBGP

\* BGPBatcher implements its live half, whatever ClickHouse does with the rows.
THEOREM BatcherImplementsLive == SpecBGP => Spec
<1>1. NewBGP => Init
  BY DEF NewBGP
<1> QED BY <1>1, LiveSteps, PTL DEF SpecBGP, Spec

\* In the batcher as a whole, too, live events keep their order and none is repeated,
\* and the loop that has ended has handed over all of them.
THEOREM LiveOrderKept == SpecBGP => []OnceInOrder /\ []DoneMeansDrained
BY BatcherImplementsLive, OrderKept, DrainComplete, PTL

-----------------------------------------------------------------------------
(* The ClickHouse half: the instance of the proofs about Batcher has the    *)
(* operators of the instance that the batcher is built from.                *)

USE DEF Persist!lockVars, PersistP!lockVars, Persist!connVars, PersistP!connVars,
        Persist!insertVars, PersistP!insertVars, Persist!retryVars, PersistP!retryVars,
        Persist!fateVars, PersistP!fateVars, Persist!mainVars, PersistP!mainVars

LEMMA PersistBufferEvent ==
  ASSUME NEW e
  PROVE  Persist!BufferEvent(e) <=> PersistP!BufferEvent(e)
BY DEF Persist!BufferEvent, PersistP!BufferEvent, Persist!FlushLocked, PersistP!FlushLocked,
       Persist!FlushRows, PersistP!FlushRows, Persist!InsertBatch, PersistP!InsertBatch,
       Persist!Inserters, PersistP!Inserters, Persist!Cardinality, PersistP!Cardinality

LEMMA PersistTimerFires == Persist!TimerFires <=> PersistP!TimerFires
BY DEF Persist!TimerFires, PersistP!TimerFires

LEMMA PersistTimerCallback == Persist!TimerCallback <=> PersistP!TimerCallback
BY DEF Persist!TimerCallback, PersistP!TimerCallback, Persist!FlushLocked,
       PersistP!FlushLocked, Persist!FlushRows, PersistP!FlushRows, Persist!InsertBatch,
       PersistP!InsertBatch, Persist!Inserters, PersistP!Inserters

LEMMA PersistFlushReturns ==
  ASSUME NEW result
  PROVE  Persist!FlushReturns(result) <=> PersistP!FlushReturns(result)
BY DEF Persist!FlushReturns, PersistP!FlushReturns, Persist!Failed, PersistP!Failed,
       Persist!Returns, PersistP!Returns, Persist!Results, PersistP!Results,
       Persist!Result, PersistP!Result, Persist!ScheduleRetry, PersistP!ScheduleRetry,
       Persist!DropBatch, PersistP!DropBatch, Persist!Inserters, PersistP!Inserters

LEMMA PersistRetryInsert ==
  ASSUME NEW s
  PROVE  Persist!RetryInsert(s) <=> PersistP!RetryInsert(s)
BY DEF Persist!RetryInsert, PersistP!RetryInsert, Persist!InsertBatch, PersistP!InsertBatch,
       Persist!Inserters, PersistP!Inserters

LEMMA PersistRetryReturns ==
  ASSUME NEW s, NEW result
  PROVE  Persist!RetryReturns(s, result) <=> PersistP!RetryReturns(s, result)
BY DEF Persist!RetryReturns, PersistP!RetryReturns, Persist!Failed, PersistP!Failed,
       Persist!Returns, PersistP!Returns, Persist!Results, PersistP!Results,
       Persist!Result, PersistP!Result, Persist!NextAttempt, PersistP!NextAttempt,
       Persist!Release, PersistP!Release, Persist!DropBatch, PersistP!DropBatch

LEMMA PersistDialFails ==
  ASSUME NEW s
  PROVE  Persist!DialFails(s) <=> PersistP!DialFails(s)
BY DEF Persist!DialFails, PersistP!DialFails, Persist!NextAttempt, PersistP!NextAttempt,
       Persist!Release, PersistP!Release, Persist!DropBatch, PersistP!DropBatch

LEMMA PersistDialSucceeds ==
  ASSUME NEW s
  PROVE  Persist!DialSucceeds(s) <=> PersistP!DialSucceeds(s)
BY DEF Persist!DialSucceeds, PersistP!DialSucceeds

LEMMA PersistSwapClient ==
  ASSUME NEW s
  PROVE  Persist!SwapClient(s) <=> PersistP!SwapClient(s)
BY DEF Persist!SwapClient, PersistP!SwapClient

LEMMA PersistCloseOld ==
  ASSUME NEW s
  PROVE  Persist!CloseOld(s) <=> PersistP!CloseOld(s)
BY DEF Persist!CloseOld, PersistP!CloseOld, Persist!NextAttempt, PersistP!NextAttempt,
       Persist!Release, PersistP!Release, Persist!DropBatch, PersistP!DropBatch

LEMMA PersistRetryWgDone == Persist!RetryWgDone <=> PersistP!RetryWgDone
BY DEF Persist!RetryWgDone, PersistP!RetryWgDone

LEMMA PersistDrainAndFlush == Persist!DrainAndFlush <=> PersistP!DrainAndFlush
BY DEF Persist!DrainAndFlush, PersistP!DrainAndFlush

LEMMA PersistDrainFlush == Persist!DrainFlush <=> PersistP!DrainFlush
BY DEF Persist!DrainFlush, PersistP!DrainFlush, Persist!FlushLocked, PersistP!FlushLocked,
       Persist!FlushRows, PersistP!FlushRows, Persist!InsertBatch, PersistP!InsertBatch,
       Persist!Inserters, PersistP!Inserters

LEMMA PersistRetryWgWait == Persist!RetryWgWait <=> PersistP!RetryWgWait
BY DEF Persist!RetryWgWait, PersistP!RetryWgWait

LEMMA PersistInit == Persist!Init <=> PersistP!Init
BY DEF Persist!Init, PersistP!Init, Persist!Inserters, PersistP!Inserters

HIDE DEF Persist!lockVars, PersistP!lockVars, Persist!connVars, PersistP!connVars,
         Persist!insertVars, PersistP!insertVars, Persist!retryVars, PersistP!retryVars,
         Persist!fateVars, PersistP!fateVars, Persist!mainVars, PersistP!mainVars

\* The callback only carries events.
Carried == handling \in Events \cup {NoMsg}

LEMMA CarriedAlways == SpecBGP => []Carried
<1>1. NewBGP => Carried
  BY DEF NewBGP, Carried
<1>2. Carried /\ [NextBGP]_batcherVars => Carried'
  BY DEF Carried, NextBGP, batcherVars, HandleEnqueue, HandleBuffer, PersistStep, LiveStep,
     DrainAndFlush, CloseAfterWait
<1> QED BY <1>1, <1>2, PTL DEF SpecBGP

LEMMA PersistSteps == Carried /\ [NextBGP]_batcherVars => [PersistP!Next]_PersistP!vars
<1> SUFFICES ASSUME Carried, [NextBGP]_batcherVars
             PROVE  PersistP!Next \/ UNCHANGED persistVars
  BY DEF PersistP!vars, PersistP!lockVars, PersistP!connVars, PersistP!insertVars,
     PersistP!retryVars, PersistP!fateVars, PersistP!mainVars, persistVars
<1>1. CASE PersistStep
  <2>1. ASSUME NEW s \in Slots, Persist!RetryStep(s) PROVE PersistP!RetryStep(s)
    BY <2>1, PersistRetryInsert, PersistRetryReturns, PersistDialFails, PersistDialSucceeds,
       PersistSwapClient, PersistCloseOld
       DEF Persist!RetryStep, PersistP!RetryStep, Persist!Result, PersistP!Result
  <2>2. ASSUME NEW result \in Persist!Result, Persist!FlushReturns(result)
        PROVE  result \in PersistP!Result /\ PersistP!FlushReturns(result)
    BY <2>2, PersistFlushReturns DEF Persist!Result, PersistP!Result
  <2> QED BY <1>1, <2>1, <2>2, PersistTimerFires, PersistTimerCallback, PersistRetryWgDone
          DEF PersistStep, PersistP!Next
<1>2. CASE HandleBuffer
  <2>1. handling \in Events /\ Persist!BufferEvent(handling)
    BY <1>2 DEF HandleBuffer, Carried
  <2> QED BY <2>1, PersistBufferEvent DEF PersistP!Next
<1>3. CASE DrainAndFlush
  BY <1>3, PersistDrainAndFlush, PersistDrainFlush, PersistRetryWgWait
     DEF DrainAndFlush, PersistP!Next
<1>4. CASE \/ \E e \in Events : HandleEnqueue(e)
           \/ LiveStep \/ CloseAfterWait \/ UNCHANGED batcherVars
  BY <1>4 DEF HandleEnqueue, LiveStep, CloseAfterWait, batcherVars
<1> QED BY <1>1, <1>2, <1>3, <1>4 DEF NextBGP

\* BGPBatcher implements Batcher on its rows: bgp_batcher.go repeats its code.
THEOREM BgpImplementsBatcher == SpecBGP => PersistP!Spec
<1>1. NewBGP => PersistP!Init
  BY PersistInit DEF NewBGP
<1> QED BY <1>1, CarriedAlways, PersistSteps, PTL DEF SpecBGP, PersistP!Spec

LEMMA PersistAssumed == PersistP!BatcherAssumption
BY BgpBatcherAssumption DEF PersistP!BatcherAssumption, Persist!BatcherAssumption

\* The rows of BGPBatcher obey the delivery ledger: each event accepted is settled at
\* most once, as a part of the one batch it was flushed in, and for as long as the process
\* runs none is without an owner before that.
THEOREM BgpAccounts == SpecBGP => PersistP!ImplementsLedger /\ []PersistP!NothingLost
<1>1. PersistP!Spec => PersistP!ImplementsLedger
  BY PersistAssumed, PersistP!BatcherImplementsLedger
<1>2. PersistP!Spec => []PersistP!NothingLost
  BY PersistAssumed, PersistP!NeverLost
<1> QED
  BY BgpImplementsBatcher, <1>1, <1>2

-----------------------------------------------------------------------------
(* The parser.                                                              *)

Entry == [prefix : Prefixes, originAS : ASNs]

Distinct(t) == \A i, j \in DOMAIN t : t[i].prefix = t[j].prefix => i = j

-----------------------------------------------------------------------------
(* The operations of PrefixState.                                           *)

LEMMA ForgetSpec ==
  ASSUME NEW t \in Seq(Entry), Distinct(t), NEW p \in Prefixes
  PROVE  /\ Forget(t, p) \in Seq(Entry) /\ Distinct(Forget(t, p))
         /\ Len(Forget(t, p)) <= Len(t)
         /\ \A i \in DOMAIN Forget(t, p) :
              Forget(t, p)[i].prefix # p /\ \E j \in DOMAIN t : Forget(t, p)[i] = t[j]
         /\ \A j \in DOMAIN t :
              t[j].prefix # p => \E i \in DOMAIN Forget(t, p) : Forget(t, p)[i] = t[j]
<1> DEFINE F == Forget(t, p)
<1>1. CASE ~Known(t, p)
  <2>1. F = t
    BY <1>1 DEF Forget
  <2> QED BY <1>1, <2>1 DEF Known
<1>2. CASE Known(t, p)
  <2> DEFINE k == IndexOf(t, p)
  <2>1. k \in 1 .. Len(t) /\ t[k].prefix = p
    BY <1>2 DEF Known, IndexOf
  <2> DEFINE left == SubSeq(t, 1, k - 1)  right == SubSeq(t, k + 1, Len(t))
  <2>2. F = left \o right
    BY <1>2 DEF Forget
  <2> HIDE DEF k
  <2>3. /\ left \in Seq(Entry) /\ Len(left) = k - 1
        /\ \A i \in 1 .. k - 1 : left[i] = t[i]
    BY <2>1, SubSeqProperties
  <2>4. /\ right \in Seq(Entry) /\ Len(right) = Len(t) - k
        /\ \A i \in 1 .. Len(t) - k : right[i] = t[i + k]
    BY <2>1, SubSeqProperties
  <2> HIDE DEF left, right, F
  <2>5. F \in Seq(Entry) /\ Len(F) = Len(t) - 1
    <3>1. F \in Seq(Entry) /\ Len(F) = Len(left) + Len(right)
      BY <2>2, <2>3, <2>4, ConcatProperties
    <3>2. Len(left) + Len(right) = Len(t) - 1
      BY <2>1, <2>3, <2>4
    <3> QED BY <3>1, <3>2
  <2>6. \A i \in 1 .. Len(t) - 1 : F[i] = IF i < k THEN t[i] ELSE t[i + 1]
    <3> SUFFICES ASSUME NEW i \in 1 .. Len(t) - 1
                 PROVE  F[i] = IF i < k THEN t[i] ELSE t[i + 1]
      OBVIOUS
    <3>0. i \in 1 .. Len(left) + Len(right)
      BY <2>1, <2>3, <2>4
    <3>1. F[i] = IF i <= Len(left) THEN left[i] ELSE right[i - Len(left)]
      BY <2>2, <2>3, <2>4, <3>0, ConcatProperties
    <3>2. CASE i < k
      BY <2>1, <2>3, <3>1, <3>2
    <3>3. CASE ~(i < k)
      <4>1. i - (k - 1) \in 1 .. Len(t) - k /\ (i - (k - 1)) + k = i + 1
        BY <2>1, <3>3
      <4>2. right[i - (k - 1)] = t[(i - (k - 1)) + k]
        BY <2>4, <4>1
      <4> QED BY <2>1, <2>3, <3>1, <3>3, <4>1, <4>2
    <3> QED BY <3>2, <3>3
  <2>7. DOMAIN F = 1 .. Len(t) - 1 /\ DOMAIN t = 1 .. Len(t)
    BY <2>5
  <2>8. Distinct(F)
    <3> SUFFICES ASSUME NEW i \in 1 .. Len(t) - 1, NEW j \in 1 .. Len(t) - 1,
                        F[i].prefix = F[j].prefix
                 PROVE  i = j
      BY <2>7 DEF Distinct
    <3> QED BY <2>1, <2>6, <2>7 DEF Distinct
  <2>9. \A i \in DOMAIN F : F[i].prefix # p /\ \E j \in DOMAIN t : F[i] = t[j]
    <3> SUFFICES ASSUME NEW i \in 1 .. Len(t) - 1
                 PROVE  F[i].prefix # p /\ \E j \in DOMAIN t : F[i] = t[j]
      BY <2>7
    <3>1. CASE i < k
      BY <2>1, <2>6, <2>7, <3>1 DEF Distinct
    <3>2. CASE ~(i < k)
      <4>1. i + 1 \in DOMAIN t /\ i + 1 # k /\ F[i] = t[i + 1]
        BY <2>1, <2>6, <2>7, <3>2
      <4> QED BY <2>1, <2>7, <4>1 DEF Distinct
    <3> QED BY <3>1, <3>2
  <2>10. ASSUME NEW j \in DOMAIN t, t[j].prefix # p
         PROVE  \E i \in DOMAIN F : F[i] = t[j]
    <3>1. CASE j < k
      <4>1. j \in DOMAIN F /\ F[j] = t[j]
        BY <2>1, <2>6, <2>7, <3>1
      <4> QED BY <4>1
    <3>2. CASE j > k
      <4>1. j - 1 \in DOMAIN F /\ F[j - 1] = t[j]
        BY <2>1, <2>6, <2>7, <3>2
      <4> QED BY <4>1
    <3> QED BY <2>1, <2>7, <2>10, <3>1, <3>2
  <2> QED BY <2>5, <2>8, <2>9, <2>10 DEF F
<1> QED BY <1>1, <1>2

\* Pruning keeps a suffix that is not empty and does not exceed maxEntries.
LEMMA PruneSpec ==
  ASSUME NEW t \in Seq(Entry), Distinct(t), t # <<>>, Len(t) <= maxEntries + 1
  PROVE  /\ Prune(t) \in Seq(Entry) /\ Distinct(Prune(t))
         /\ Len(Prune(t)) \in 1 .. maxEntries
         /\ Prune(t)[Len(Prune(t))] = t[Len(t)]
         /\ \A i \in DOMAIN Prune(t) : \E j \in DOMAIN t : Prune(t)[i] = t[j]
<1>1. CASE Len(t) <= maxEntries
  <2>1. Prune(t) = t /\ Len(t) \in Nat /\ Len(t) # 0 /\ maxEntries \in Nat
    BY <1>1, BgpParserAssumption DEF Prune
  <2> QED BY <1>1, <2>1
<1>2. CASE ~(Len(t) <= maxEntries)
  <2> DEFINE m == Len(t) - pruneTarget
  <2>1. maxEntries \in Nat /\ maxEntries >= 2 /\ Len(t) = maxEntries + 1
    BY <1>2, BgpParserAssumption
  <2>2. pruneTarget \in 1 .. maxEntries
    BY <2>1 DEF pruneTarget
  <2>3. Prune(t) = SubSeq(t, m + 1, Len(t)) /\ m \in Nat
    BY <2>1, <2>2 DEF Prune
  <2>4. /\ Prune(t) \in Seq(Entry) /\ Len(Prune(t)) = pruneTarget
        /\ \A i \in 1 .. pruneTarget : Prune(t)[i] = t[i + m]
    BY <2>1, <2>2, <2>3, SubSeqProperties
  <2>5. DOMAIN Prune(t) = 1 .. pruneTarget /\ DOMAIN t = 1 .. Len(t)
    BY <2>4
  <2>6. \A i \in 1 .. pruneTarget : i + m \in DOMAIN t
    BY <2>1, <2>2, <2>5
  <2>7. Distinct(Prune(t))
    <3> SUFFICES ASSUME NEW i \in 1 .. pruneTarget, NEW j \in 1 .. pruneTarget,
                        Prune(t)[i].prefix = Prune(t)[j].prefix
                 PROVE  i = j
      BY <2>5 DEF Distinct
    <3>1. i + m = j + m
      BY <2>4, <2>6 DEF Distinct
    <3> QED BY <2>1, <2>2, <3>1
  <2>8. Prune(t)[Len(Prune(t))] = t[Len(t)]
    BY <2>1, <2>2, <2>4
  <2> QED BY <2>2, <2>4, <2>5, <2>6, <2>7, <2>8
<1> QED BY <1>1, <1>2

LEMMA ObserveSpec ==
  ASSUME NEW t \in Seq(Entry), Distinct(t), Len(t) <= maxEntries,
         NEW p \in Prefixes, NEW o \in ASNs
  PROVE  LET u == Observe(t, p, o) IN
         /\ u \in Seq(Entry) /\ Distinct(u) /\ u # <<>> /\ Len(u) <= maxEntries
         /\ u[Len(u)] = [prefix |-> p, originAS |-> o]
         /\ \A i \in DOMAIN u : \/ u[i] = [prefix |-> p, originAS |-> o]
                                \/ u[i].prefix # p /\ \E j \in DOMAIN t : u[i] = t[j]
<1> DEFINE F == Forget(t, p)
           new == [prefix |-> p, originAS |-> o]
           A == Append(F, new)
           u == Observe(t, p, o)
<1>1. /\ F \in Seq(Entry) /\ Distinct(F) /\ Len(F) <= Len(t)
      /\ \A i \in DOMAIN F : F[i].prefix # p /\ \E j \in DOMAIN t : F[i] = t[j]
  BY ForgetSpec
<1>2. new \in Entry /\ new.prefix = p
  BY DEF Entry
<1>3. u = Prune(A)
  BY DEF Observe
<1> HIDE DEF F, new, u
<1>4. /\ A \in Seq(Entry) /\ Len(A) = Len(F) + 1 /\ A # <<>>
      /\ A[Len(A)] = new /\ \A i \in 1 .. Len(F) : A[i] = F[i]
  BY <1>1, <1>2, AppendProperties
<1>5. DOMAIN A = 1 .. Len(F) + 1 /\ DOMAIN F = 1 .. Len(F) /\ Len(F) \in Nat /\ Len(t) \in Nat
  BY <1>1, <1>4
<1> HIDE DEF A
<1>6. Distinct(A)
  <2> SUFFICES ASSUME NEW i \in 1 .. Len(F) + 1, NEW j \in 1 .. Len(F) + 1,
                      A[i].prefix = A[j].prefix
               PROVE  i = j
    BY <1>5 DEF Distinct
  <2>1. CASE i = Len(F) + 1 /\ j # Len(F) + 1
    BY <1>1, <1>2, <1>4, <1>5, <2>1
  <2>2. CASE j = Len(F) + 1 /\ i # Len(F) + 1
    BY <1>1, <1>2, <1>4, <1>5, <2>2
  <2>3. CASE i # Len(F) + 1 /\ j # Len(F) + 1
    <3>1. i \in DOMAIN F /\ j \in DOMAIN F /\ F[i].prefix = F[j].prefix
      BY <1>4, <1>5, <2>3
    <3> QED BY <1>1, <3>1 DEF Distinct
  <2> QED BY <2>1, <2>2, <2>3
<1>7. Len(A) <= maxEntries + 1
  BY <1>1, <1>4, <1>5, BgpParserAssumption
<1>8. /\ u \in Seq(Entry) /\ Distinct(u) /\ Len(u) \in 1 .. maxEntries
      /\ u[Len(u)] = new
      /\ \A i \in DOMAIN u : \E j \in DOMAIN A : u[i] = A[j]
  BY <1>3, <1>4, <1>6, <1>7, PruneSpec
<1>9. \A j \in DOMAIN A : A[j] = new \/ (A[j].prefix # p /\ \E i \in DOMAIN t : A[j] = t[i])
  BY <1>1, <1>4, <1>5
<1>10. u # <<>>
  BY <1>8
<1> QED BY <1>8, <1>9, <1>10 DEF new, u

-----------------------------------------------------------------------------
(* The inductive invariant.                                                 *)

\* An event's category agrees with what had been read of its prefix.
HasCause(e) ==
  /\ e.category = "hijack" => e.was \notin {NoAS, e.originAS}
  /\ e.category = "announcement" => e.was = NoAS \/ e.wasPruned
  /\ e.category = "withdrawal" => e.was # NoAS

ParserTyped ==
  /\ table \in Seq(Entry)
  /\ msg \in Updates \cup {NoUpdate}
  /\ todo \in Seq(Prefixes) /\ hop \in Nat
  /\ event \in EventType \cup {NoEvent} /\ events \in Seq(EventType)
  /\ lastOrigin \in [Prefixes -> ASNs \cup {NoAS}]
  /\ pruned \subseteq Prefixes

\* What the parser holds at each point of ParseMessage.
Underway ==
  /\ pc \in {"announce", "place", "pathCoords"} => msg \in Updates /\ msg.path # <<>>
  /\ pc \in {"withdraw", "peer"} => msg \in Updates
  /\ pc \in {"place", "pathCoords", "peer"} => event \in EventType /\ HasCause(event)

ParserInv == ParserTyped /\ Underway /\ TableBounded /\ TableIsHistory /\ VerdictsHaveCause

-----------------------------------------------------------------------------
LEMMA InitParserInv == InitParser => ParserInv
<1> SUFFICES ASSUME InitParser PROVE ParserInv
  OBVIOUS
<1>1. <<>> \in Seq(Entry) /\ <<>> \in Seq(Prefixes) /\ <<>> \in Seq(EventType)
      /\ Len(<<>>) = 0
  BY EmptySeq
<1>2. ParserTyped
  BY <1>1 DEF InitParser, ParserTyped
<1>3. Underway
  BY DEF InitParser, Underway
<1>4. TableBounded
  BY <1>1, BgpParserAssumption DEF InitParser, TableBounded
<1>5. TableIsHistory
  BY DEF InitParser, TableIsHistory, PrefixesOf
<1>6. VerdictsHaveCause
  BY DEF InitParser, VerdictsHaveCause
<1> QED BY <1>2, <1>3, <1>4, <1>5, <1>6 DEF ParserInv

\* An event that has its cause may be appended.
LEMMA AppendEvent ==
  ASSUME ParserInv, NEW e \in EventType, HasCause(e), events' = Append(events, e)
  PROVE  events' \in Seq(EventType) /\ VerdictsHaveCause'
<1>1. /\ events \in Seq(EventType) /\ events' \in Seq(EventType)
      /\ DOMAIN events' = 1 .. Len(events) + 1 /\ DOMAIN events = 1 .. Len(events)
      /\ events'[Len(events) + 1] = e /\ \A i \in 1 .. Len(events) : events'[i] = events[i]
  BY AppendProperties DEF ParserInv, ParserTyped
<1>2. ASSUME NEW i \in DOMAIN events' PROVE HasCause(events'[i])
  BY <1>1, <1>2 DEF ParserInv, VerdictsHaveCause, HasCause
<1> QED BY <1>1, <1>2 DEF VerdictsHaveCause, HasCause

\* Steps that leave the table and its history alone keep what is said of them.
LEMMA TableKept ==
  ASSUME ParserInv, UNCHANGED <<table, lastOrigin, pruned>>, pc' \notin {"place", "pathCoords"}
  PROVE  TableBounded' /\ TableIsHistory'
<1>1. TableBounded'
  BY DEF ParserInv, TableBounded
<1>2. TableIsHistory'
  BY DEF ParserInv, TableIsHistory, PrefixesOf
<1> QED BY <1>1, <1>2

LEMMA ReadUpdateStep == ASSUME ParserInv, NEW m \in Updates, ReadUpdate(m) PROVE ParserInv'
<1>1. m.announced \in Seq(Prefixes) /\ m.withdrawn \in Seq(Prefixes)
  BY BgpParserAssumption
<1>2. ParserTyped'
  <2>1. events' \in Seq(EventType)
    BY EmptySeq DEF ReadUpdate
  <2> QED BY <1>1, <2>1 DEF ReadUpdate, ParserInv, ParserTyped
<1>3. Underway'
  BY DEF ReadUpdate, Underway
<1>4. TableBounded' /\ TableIsHistory'
  BY TableKept DEF ReadUpdate
<1>5. VerdictsHaveCause'
  BY DEF ReadUpdate, VerdictsHaveCause
<1> QED BY <1>2, <1>3, <1>4, <1>5 DEF ParserInv

LEMMA AnnounceDoneStep == ASSUME ParserInv, AnnounceDone PROVE ParserInv'
<1>1. msg \in Updates /\ msg.withdrawn \in Seq(Prefixes)
  BY BgpParserAssumption DEF AnnounceDone, ParserInv, Underway
<1>2. ParserTyped'
  BY <1>1 DEF AnnounceDone, ParserInv, ParserTyped
<1>3. Underway'
  BY <1>1 DEF AnnounceDone, Underway
<1>4. TableBounded' /\ TableIsHistory'
  BY TableKept DEF AnnounceDone
<1>5. VerdictsHaveCause'
  BY DEF AnnounceDone, ParserInv, VerdictsHaveCause
<1> QED BY <1>2, <1>3, <1>4, <1>5 DEF ParserInv

\* An entry of the table is about a prefix of the model.
LEMMA EntryPrefix == ASSUME ParserInv, NEW j \in DOMAIN table PROVE table[j].prefix \in Prefixes
<1>1. table[j] \in Entry
  BY DEF ParserInv, ParserTyped
<1> QED BY <1>1 DEF Entry

\* What Known and OriginAS say is what was read last.
LEMMA TableTellsHistory ==
  ASSUME ParserInv, NEW p \in Prefixes
  PROVE  /\ Known(table, p) => lastOrigin[p] = OriginAS(table, p) /\ lastOrigin[p] \in ASNs
         /\ ~Known(table, p) => lastOrigin[p] = NoAS \/ p \in pruned
<1>1. CASE Known(table, p)
  <2>1. IndexOf(table, p) \in DOMAIN table /\ table[IndexOf(table, p)].prefix = p
    BY <1>1 DEF Known, IndexOf
  <2>2. table[IndexOf(table, p)] \in Entry
    BY <2>1 DEF ParserInv, ParserTyped
  <2> QED BY <1>1, <2>1, <2>2 DEF ParserInv, TableIsHistory, OriginAS, Entry
<1>2. CASE ~Known(table, p)
  BY <1>2 DEF ParserInv, TableIsHistory, PrefixesOf, Known
<1> QED BY <1>1, <1>2

LEMMA AnnounceStep == ASSUME ParserInv, Announce PROVE ParserInv'
<1> DEFINE p == Head(todo)
           o == Origin(msg.path)
           category == Category(msg.path, p)
           new == [prefix |-> p, originAS |-> o]
<1>1. p \in Prefixes /\ todo' \in Seq(Prefixes)
  BY DEF Announce, ParserInv, ParserTyped
<1>2. o \in ASNs /\ Len(msg.path) \in Nat /\ msg \in Updates
  <2>1. msg \in Updates /\ msg.path # <<>> /\ msg.path \in Seq(ASNs)
    BY BgpParserAssumption DEF Announce, ParserInv, Underway
  <2> QED BY <2>1 DEF Origin
<1>3. /\ table' = Observe(table, p, o)
      /\ lastOrigin' = [lastOrigin EXCEPT ![p] = o]
      /\ pruned' = (pruned \cup PrefixesOf(table) \cup {p}) \ PrefixesOf(table')
      /\ event' = IF category = "none" THEN NoEvent ELSE buildEvent(p, category, o)
      /\ pc' \in {"announce", "place", "pathCoords"}
      /\ pc' # "announce" => category # "none"
      /\ hop' \in {1, Len(msg.path)}
      /\ UNCHANGED <<msg, events>>
  BY DEF Announce
<1>4. /\ table' \in Seq(Entry) /\ Distinct(table') /\ table' # <<>> /\ Len(table') <= maxEntries
      /\ table'[Len(table')] = new
      /\ \A i \in DOMAIN table' :
           table'[i] = new \/ (table'[i].prefix # p /\ \E j \in DOMAIN table : table'[i] = table[j])
  <2>1. Distinct(table) /\ Len(table) <= maxEntries /\ table \in Seq(Entry)
    BY DEF ParserInv, TableBounded, ParserTyped, Distinct
  <2> QED BY <1>1, <1>2, <1>3, <2>1, ObserveSpec
<1>5. category # "none" =>
        /\ buildEvent(p, category, o) \in EventType /\ HasCause(buildEvent(p, category, o))
        /\ buildEvent(p, category, o).prefix = p /\ buildEvent(p, category, o).originAS = o
  <2> SUFFICES ASSUME category # "none"
               PROVE  /\ buildEvent(p, category, o) \in EventType
                      /\ HasCause(buildEvent(p, category, o))
                      /\ buildEvent(p, category, o).prefix = p
                      /\ buildEvent(p, category, o).originAS = o
    OBVIOUS
  <2>1. category \in {"leak", "hijack", "announcement"}
    BY DEF Category
  <2>2. category = "hijack" => lastOrigin[p] \notin {NoAS, o}
    <3>1. category = "hijack" => Known(table, p) /\ OriginAS(table, p) # o
      BY DEF Category
    <3> QED BY <1>1, <3>1, TableTellsHistory, GeoAssumption
  <2>3. category = "announcement" => lastOrigin[p] = NoAS \/ p \in pruned
    <3>1. category = "announcement" => ~Known(table, p)
      BY DEF Category
    <3> QED BY <1>1, <3>1, TableTellsHistory
  <2>4. lastOrigin[p] \in ASNs \cup {NoAS}
    BY <1>1 DEF ParserInv, ParserTyped
  <2> HIDE DEF category, p, o
  <2>5. <<>> \in Seq(Nat)
    BY EmptySeq
  <2>6. buildEvent(p, category, o) \in EventType
    BY <1>1, <1>2, <2>1, <2>4, <2>5 DEF buildEvent, EventType
  <2>7. HasCause(buildEvent(p, category, o))
    BY <2>1, <2>2, <2>3 DEF buildEvent, HasCause
  <2> QED BY <2>6, <2>7 DEF buildEvent
<1> HIDE DEF p, o, category
<1>6. ParserTyped'
  <2>1. pruned' \subseteq Prefixes
    <3>1. PrefixesOf(table) \subseteq Prefixes
      BY EntryPrefix DEF PrefixesOf
    <3>2. p \in Prefixes /\ pruned \subseteq Prefixes
      BY <1>1 DEF ParserInv, ParserTyped
    <3> QED BY <1>3, <3>1, <3>2
  <2>2. event' \in EventType \cup {NoEvent}
    BY <1>3, <1>5
  <2> QED BY <1>1, <1>2, <1>3, <1>4, <2>1, <2>2 DEF ParserInv, ParserTyped
<1>7. Underway'
  BY <1>3, <1>5 DEF Announce, ParserInv, Underway
<1>8. TableBounded'
  BY <1>3, <1>4, <1>5 DEF TableBounded, Distinct
<1>9. TableIsHistory'
  <2>1. ASSUME NEW i \in DOMAIN table' PROVE lastOrigin'[table'[i].prefix] = table'[i].originAS
    <3>1. CASE table'[i] = new
      BY <1>1, <1>3, <3>1 DEF ParserInv, ParserTyped
    <3>2. CASE table'[i].prefix # p /\ \E j \in DOMAIN table : table'[i] = table[j]
      <4>1. PICK j \in DOMAIN table : table'[i] = table[j]
        BY <3>2
      <4>2. table[j].prefix \in Prefixes
        BY EntryPrefix
      <4>3. lastOrigin[table[j].prefix] = table[j].originAS
        BY DEF ParserInv, TableIsHistory
      <4> QED BY <1>3, <3>2, <4>1, <4>2, <4>3 DEF ParserInv, ParserTyped
    <3> QED BY <1>4, <3>1, <3>2
  <2>2. ASSUME NEW q \in Prefixes, lastOrigin'[q] # NoAS
        PROVE  q \in PrefixesOf(table') \cup pruned'
    <3>1. CASE q = p
      BY <1>3, <3>1
    <3>2. CASE q # p
      <4>1. lastOrigin[q] # NoAS
        BY <1>3, <2>2, <3>2 DEF ParserInv, ParserTyped
      <4> QED BY <1>3, <4>1 DEF ParserInv, TableIsHistory
    <3> QED BY <3>1, <3>2
  <2> QED BY <2>1, <2>2 DEF TableIsHistory
<1>10. VerdictsHaveCause'
  BY <1>3 DEF ParserInv, VerdictsHaveCause
<1> QED BY <1>6, <1>7, <1>8, <1>9, <1>10 DEF ParserInv

\* Rewriting the place or the coordinates of an event keeps its cause.
LEMMA GeoFromPathStep == ASSUME ParserInv, GeoFromPath PROVE ParserInv'
<1>1. event \in EventType /\ HasCause(event) /\ msg \in Updates /\ msg.path # <<>>
  BY DEF GeoFromPath, ParserInv, Underway
<1>2. UNCHANGED <<table, msg, todo, events, lastOrigin, pruned>>
  BY DEF GeoFromPath
<1>3. \/ pc' = "announce" /\ event' = NoEvent /\ hop' = hop
      \/ pc' = "pathCoords" /\ hop' = 1 /\ event' = [event EXCEPT !.place = hop]
      \/ pc' = "place" /\ event' = event /\ hop' = hop - 1 /\ hop > 0
  BY DEF GeoFromPath
<1>4. pc = "place" /\ hop \in Nat
  BY DEF GeoFromPath, ParserInv, ParserTyped
<1>5. pc' # "announce" =>
        event' \in EventType /\ HasCause(event')
        /\ event'.prefix = event.prefix /\ event'.originAS = event.originAS
  <2>1. CASE event' = event
    BY <1>1, <2>1
  <2>2. CASE event' = [event EXCEPT !.place = hop]
    BY <1>1, <1>4, <2>2 DEF EventType, HasCause
  <2> QED BY <1>3, <2>1, <2>2
<1>6. ParserTyped'
  BY <1>2, <1>3, <1>4, <1>5 DEF ParserInv, ParserTyped
<1>7. Underway'
  BY <1>1, <1>2, <1>3, <1>5 DEF Underway
<1>8. TableBounded'
  BY <1>2, <1>3, <1>4, <1>5 DEF ParserInv, TableBounded
<1>9. TableIsHistory' /\ VerdictsHaveCause'
  BY <1>2 DEF ParserInv, TableIsHistory, PrefixesOf, VerdictsHaveCause
<1> QED BY <1>6, <1>7, <1>8, <1>9 DEF ParserInv

LEMMA ResolvePathCoordsStep == ASSUME ParserInv, ResolvePathCoords PROVE ParserInv'
<1>1. event \in EventType /\ HasCause(event) /\ msg \in Updates /\ msg.path # <<>>
  BY DEF ResolvePathCoords, ParserInv, Underway
<1>2. UNCHANGED <<table, msg, todo, lastOrigin, pruned>> /\ pc = "pathCoords" /\ hop \in Nat
  BY DEF ResolvePathCoords, ParserInv, ParserTyped
<1>3. TableIsHistory'
  BY <1>2 DEF ParserInv, TableIsHistory, PrefixesOf
<1>4. CASE pc' = "announce" /\ event' = NoEvent /\ events' = Append(events, event) /\ hop' = hop
  <2>1. events' \in Seq(EventType) /\ VerdictsHaveCause'
    BY <1>1, <1>4, AppendEvent
  <2>2. ParserTyped'
    BY <1>2, <1>4, <2>1 DEF ParserInv, ParserTyped
  <2>3. Underway' /\ TableBounded'
    BY <1>1, <1>2, <1>4 DEF ParserInv, Underway, TableBounded
  <2> QED BY <1>3, <2>1, <2>2, <2>3 DEF ParserInv
<1>5. CASE pc' = pc /\ events' = events /\ hop' = hop + 1
           /\ event' \in {event, [event EXCEPT !.coords = Append(@, hop)]}
  <2>1. event.coords \in Seq(Nat) /\ Append(event.coords, hop) \in Seq(Nat)
    BY <1>1, <1>2 DEF EventType
  <2>2. event' \in EventType /\ HasCause(event')
        /\ event'.prefix = event.prefix /\ event'.originAS = event.originAS
    <3>1. CASE event' = event
      BY <1>1, <3>1
    <3>2. CASE event' = [event EXCEPT !.coords = Append(event.coords, hop)]
      BY <1>1, <2>1, <3>2 DEF EventType, HasCause
    <3> QED BY <1>5, <3>1, <3>2
  <2>3. ParserTyped'
    BY <1>2, <1>5, <2>2 DEF ParserInv, ParserTyped
  <2>4. Underway' /\ TableBounded'
    BY <1>1, <1>2, <1>5, <2>2 DEF ParserInv, Underway, TableBounded
  <2>5. VerdictsHaveCause'
    BY <1>5 DEF ParserInv, VerdictsHaveCause
  <2> QED BY <1>3, <2>3, <2>4, <2>5 DEF ParserInv
<1> QED BY <1>4, <1>5 DEF ResolvePathCoords

LEMMA WithdrawStep == ASSUME ParserInv, Withdraw PROVE ParserInv'
<1> DEFINE p == Head(todo)
           e == buildEvent(p, "withdrawal", msg.peerASN)
<1>1. p \in Prefixes /\ todo' \in Seq(Prefixes)
  BY DEF Withdraw, ParserInv, ParserTyped
<1>2. /\ table' = Forget(table, p) /\ lastOrigin' = [lastOrigin EXCEPT ![p] = NoAS]
      /\ pruned' = pruned \ {p} /\ UNCHANGED <<msg, hop>>
      /\ \/ /\ Known(table, p) /\ msg.peerASN # NoAS
            /\ \/ events' = Append(events, e) /\ UNCHANGED <<pc, event>>
               \/ pc' = "peer" /\ event' = e /\ UNCHANGED events
         \/ UNCHANGED <<pc, event, events>>
      /\ pc = "withdraw"
  BY DEF Withdraw
<1>3. Distinct(table) /\ Len(table) <= maxEntries /\ table \in Seq(Entry)
  BY DEF ParserInv, TableBounded, ParserTyped, Distinct
<1>4. /\ table' \in Seq(Entry) /\ Distinct(table') /\ Len(table') <= Len(table)
      /\ \A i \in DOMAIN table' : table'[i].prefix # p /\ \E j \in DOMAIN table : table'[i] = table[j]
      /\ \A j \in DOMAIN table : table[j].prefix # p => \E i \in DOMAIN table' : table'[i] = table[j]
  BY <1>1, <1>2, <1>3, ForgetSpec
<1>5. msg \in Updates /\ msg.peerASN \in ASNs \cup {NoAS}
  BY <1>2, BgpParserAssumption DEF ParserInv, Underway
<1>6. Known(table, p) /\ msg.peerASN # NoAS => e \in EventType /\ HasCause(e)
  <2> SUFFICES ASSUME Known(table, p), msg.peerASN # NoAS PROVE e \in EventType /\ HasCause(e)
    OBVIOUS
  <2>1. lastOrigin[p] \in ASNs /\ lastOrigin[p] # NoAS
    BY <1>1, TableTellsHistory, GeoAssumption
  <2>2. <<>> \in Seq(Nat)
    BY EmptySeq
  <2> HIDE DEF p
  <2> QED BY <1>1, <1>5, <2>1, <2>2 DEF buildEvent, EventType, HasCause
<1> HIDE DEF p, e
<1>7. events' \in Seq(EventType) /\ VerdictsHaveCause'
  <2>1. CASE Known(table, p) /\ msg.peerASN # NoAS /\ events' = Append(events, e)
    BY <1>6, <2>1, AppendEvent
  <2>2. CASE UNCHANGED events
    BY <2>2 DEF ParserInv, ParserTyped, VerdictsHaveCause
  <2> QED BY <1>2, <2>1, <2>2
<1>8. ParserTyped'
  BY <1>1, <1>2, <1>4, <1>6, <1>7 DEF ParserInv, ParserTyped
<1>9. Underway'
  BY <1>2, <1>5, <1>6 DEF Underway
<1>10. TableBounded'
  <2>1. Len(table') \in Nat /\ Len(table) \in Nat /\ maxEntries \in Nat
    BY <1>3, <1>4, BgpParserAssumption
  <2> QED BY <1>2, <1>3, <1>4, <2>1 DEF TableBounded, Distinct
<1>11. TableIsHistory'
  <2>1. ASSUME NEW i \in DOMAIN table' PROVE lastOrigin'[table'[i].prefix] = table'[i].originAS
    <3>1. PICK j \in DOMAIN table : table'[i] = table[j]
      BY <1>4
    <3>2. table[j].prefix # p
      BY <1>4, <3>1
    <3>3. table[j].prefix \in Prefixes
      BY EntryPrefix
    <3>4. lastOrigin[table[j].prefix] = table[j].originAS
      BY DEF ParserInv, TableIsHistory
    <3> QED BY <1>2, <3>1, <3>2, <3>3, <3>4 DEF ParserInv, ParserTyped
  <2>2. ASSUME NEW q \in Prefixes, lastOrigin'[q] # NoAS
        PROVE  q \in PrefixesOf(table') \cup pruned'
    <3>1. q # p /\ lastOrigin[q] # NoAS
      BY <1>2, <2>2 DEF ParserInv, ParserTyped
    <3>2. q \in PrefixesOf(table) \cup pruned
      BY <3>1 DEF ParserInv, TableIsHistory
    <3> QED BY <1>2, <1>4, <3>1, <3>2 DEF PrefixesOf
  <2> QED BY <2>1, <2>2 DEF TableIsHistory
<1> QED BY <1>7, <1>8, <1>9, <1>10, <1>11 DEF ParserInv

LEMMA LookupPeerStep == ASSUME ParserInv, LookupPeer PROVE ParserInv'
<1>1. /\ event \in EventType /\ HasCause(event) /\ msg \in Updates
      /\ pc' = "withdraw" /\ event' = NoEvent
      /\ UNCHANGED <<table, msg, todo, hop, lastOrigin, pruned>>
  BY DEF LookupPeer, ParserInv, Underway
<1>2. events' \in Seq(EventType) /\ VerdictsHaveCause'
  <2>1. CASE events' = Append(events, event)
    BY <1>1, <2>1, AppendEvent
  <2>2. CASE UNCHANGED events
    BY <2>2 DEF ParserInv, ParserTyped, VerdictsHaveCause
  <2> QED BY <2>1, <2>2 DEF LookupPeer
<1>3. ParserTyped' /\ Underway'
  BY <1>1, <1>2 DEF ParserInv, ParserTyped, Underway
<1>4. TableBounded' /\ TableIsHistory'
  BY <1>1, TableKept
<1> QED BY <1>2, <1>3, <1>4 DEF ParserInv

LEMMA PublishEventsStep == ASSUME ParserInv, PublishEvents PROVE ParserInv'
<1>1. ParserTyped' /\ Underway' /\ VerdictsHaveCause'
  BY DEF PublishEvents, ParserInv, ParserTyped, Underway, VerdictsHaveCause
<1>2. TableBounded' /\ TableIsHistory'
  BY TableKept DEF PublishEvents
<1> QED BY <1>1, <1>2 DEF ParserInv

LEMMA GeoStepKeeps == ASSUME ParserInv, UNCHANGED parseVars PROVE ParserInv'
BY DEF parseVars, ParserInv, ParserTyped, Underway, TableBounded, TableIsHistory, PrefixesOf,
       VerdictsHaveCause

LEMMA ParserInvInductive == SpecParser => []ParserInv
<1>1. ParserInv /\ [NextParser]_parserVars => ParserInv'
  <2> SUFFICES ASSUME ParserInv, [NextParser]_parserVars PROVE ParserInv'
    OBVIOUS
  <2>1. CASE \E m \in Updates : ReadUpdate(m)
    BY <2>1, ReadUpdateStep
  <2>2. CASE LookupMissed \/ \E f \in Fetchers : Fetch(f)
    BY <2>2, GeoStepKeeps DEF LookupMissed, Fetch
  <2>3. CASE UNCHANGED parserVars
    BY <2>3, GeoStepKeeps DEF parserVars
  <2> QED
    BY <2>1, <2>2, <2>3, AnnounceStep, AnnounceDoneStep, GeoFromPathStep,
       ResolvePathCoordsStep, WithdrawStep, LookupPeerStep, PublishEventsStep
       DEF NextParser, ParseStep
<1> QED BY <1>1, InitParserInv, PTL DEF SpecParser

\* The table never outgrows maxEntries, has one entry per prefix, and pruning spares
\* the announcement that caused it.
THEOREM TableStaysBounded == SpecParser => []TableBounded
<1>1. ParserInv => TableBounded
  BY DEF ParserInv
<1> QED BY <1>1, ParserInvInductive, PTL

\* The table says what was read last; only pruning makes it forget an announcement.
THEOREM TableMatchesHistory == SpecParser => []TableIsHistory
<1>1. ParserInv => TableIsHistory
  BY DEF ParserInv
<1> QED BY <1>1, ParserInvInductive, PTL

\* No hijack without a different origin read before and not withdrawn since; no
\* withdrawal of what had not been announced.
THEOREM NoVerdictWithoutCause == SpecParser => []VerdictsHaveCause
<1>1. ParserInv => VerdictsHaveCause
  BY DEF ParserInv
<1> QED BY <1>1, ParserInvInductive, PTL
-----------------------------------------------------------------------------
(* Where an event is placed, and that none is missing. Here the cache matters: *)
(* it only grows, so a hop that misses was not known when the update came.     *)

\* No hop nearer to the origin than the place was known.
Placed(e) ==
  e.place > 0 => \A j \in e.place + 1 .. Len(msg.path) : msg.path[j] \notin atRead

\* The hops before h that were known are on the line of the event.
Lined(e, h) ==
  \A j \in DOMAIN msg.path :
    j < h /\ msg.path[j] \in atRead => \E k \in DOMAIN e.coords : e.coords[k] = j

Placeable(p) == p \in InCity \/ \E i \in DOMAIN msg.path : msg.path[i] \in atRead

Reported(p) == \E i \in DOMAIN events : events[i].prefix = p /\ events[i].category # "withdrawal"

OnTheWay ==
  /\ atRead \subseteq cache
  /\ pc \in {"place", "pathCoords"} => event.category # "withdrawal"
  /\ pc = "place" =>
       /\ event.prefix \notin InCity /\ hop <= Len(msg.path)
       /\ \A j \in hop + 1 .. Len(msg.path) : msg.path[j] \notin atRead
  /\ pc = "pathCoords" => Placed(event) /\ hop >= 1 /\ Lined(event, hop)
  /\ pc = "peer" => event.category = "withdrawal"

ChangesInHand ==
  \A p \in changed : Placeable(p) =>
    Reported(p) \/ (pc \in {"place", "pathCoords"} /\ event.prefix = p)

EventsLocated ==
  \A i \in DOMAIN events : events[i].category # "withdrawal" =>
    Placed(events[i]) /\ Lined(events[i], Len(msg.path) + 1)

LInv == OnTheWay /\ ChangesInHand /\ EventsLocated

\* What an appended event adds, and that nothing reported or located is lost.
LEMMA AppendLocated ==
  ASSUME ParserInv, LInv, NEW e \in EventType, events' = Append(events, e),
         UNCHANGED <<msg, atRead, changed>>,
         e.category # "withdrawal" => Placed(e) /\ Lined(e, Len(msg.path) + 1)
  PROVE  /\ EventsLocated'
         /\ \A p : Reported(p) => Reported(p)'
         /\ e.category # "withdrawal" =>
              \E i \in DOMAIN events' : events'[i].prefix = e.prefix /\ events'[i].category # "withdrawal"
<1>1. /\ events \in Seq(EventType) /\ Len(events) \in Nat
      /\ DOMAIN events' = 1 .. Len(events) + 1 /\ DOMAIN events = 1 .. Len(events)
      /\ events'[Len(events) + 1] = e /\ \A i \in 1 .. Len(events) : events'[i] = events[i]
  BY AppendProperties DEF ParserInv, ParserTyped
<1>2. Len(events) + 1 \in DOMAIN events' /\ \A i \in DOMAIN events : i \in DOMAIN events'
  BY <1>1
<1>3. \A p : Reported(p) => Reported(p)'
  BY <1>1, <1>2 DEF Reported
<1>4. e.category # "withdrawal" =>
        \E i \in DOMAIN events' : events'[i].prefix = e.prefix /\ events'[i].category # "withdrawal"
  BY <1>1, <1>2
<1>5. EventsLocated'
  <2> SUFFICES ASSUME NEW i \in DOMAIN events', events'[i].category # "withdrawal"
               PROVE  Placed(events[i])' /\ Lined(events[i], Len(msg.path) + 1)'
    BY DEF EventsLocated
  <2>1. CASE i = Len(events) + 1
    BY <1>1, <2>1 DEF Placed, Lined
  <2>2. CASE i # Len(events) + 1
    <3>1. i \in DOMAIN events /\ events'[i] = events[i]
      BY <1>1, <2>2
    <3> QED BY <3>1 DEF LInv, EventsLocated, Placed, Lined
  <2> QED BY <2>1, <2>2
<1> QED BY <1>3, <1>4, <1>5

\* The events and the changes as they are, while nothing is under construction.
LEMMA LocatedKept ==
  ASSUME LInv, UNCHANGED <<msg, atRead, changed, events>>
  PROVE  /\ EventsLocated'
         /\ \A p : Reported(p)' <=> Reported(p)
         /\ \A p : Placeable(p)' <=> Placeable(p)
BY DEF LInv, EventsLocated, Placed, Lined, Reported, Placeable

LEMMA AnnounceLocates == ASSUME ParserInv, LInv, Announce PROVE LInv'
<1> DEFINE p == Head(todo)
           o == Origin(msg.path)
           category == Category(msg.path, p)
<1>1. p \in Prefixes /\ msg \in Updates /\ msg.path \in Seq(ASNs) /\ Len(msg.path) \in Nat
  BY BgpParserAssumption DEF Announce, ParserInv, ParserTyped, Underway
<1>2. /\ UNCHANGED <<cache, msg, atRead, events>>
      /\ event' = IF category = "none" THEN NoEvent ELSE buildEvent(p, category, o)
      /\ pc' = CASE category = "none" -> "announce"
                 [] category # "none" /\ p \in InCity -> "pathCoords"
                 [] OTHER -> "place"
      /\ hop' = IF p \in InCity THEN 1 ELSE Len(msg.path)
      /\ changed' = IF lastOrigin[p] # o THEN changed \cup {p} ELSE changed
      /\ pc = "announce"
  BY DEF Announce, geoVars
<1>3. lastOrigin[p] # o => category # "none"
  BY <1>1, TableTellsHistory DEF Category
<1>4. category # "none" => /\ event'.prefix = p /\ event'.place = 0
                           /\ event'.category = category /\ category # "withdrawal"
  BY <1>2 DEF buildEvent, Category
<1> HIDE DEF p, o, category
<1>5. pc' = "place" => category # "none" /\ p \notin InCity
  BY <1>2
<1>6. pc' = "pathCoords" => category # "none" /\ p \in InCity
  BY <1>2
<1>7. category # "none" => pc' \in {"place", "pathCoords"}
  BY <1>2
<1>8. pc' \in {"announce", "place", "pathCoords"}
  BY <1>2
<1>9. OnTheWay'
  <2>1. pc' = "place" =>
          /\ event'.prefix \notin InCity /\ hop' <= Len(msg'.path)
          /\ \A j \in hop' + 1 .. Len(msg'.path) : msg'.path[j] \notin atRead'
    BY <1>1, <1>2, <1>4, <1>5
  <2>2. pc' = "pathCoords" => Placed(event)' /\ hop' >= 1 /\ Lined(event, hop)'
    BY <1>1, <1>2, <1>4, <1>6 DEF Placed, Lined
  <2> QED BY <1>2, <1>4, <1>5, <1>6, <1>8, <2>1, <2>2 DEF LInv, OnTheWay
<1>10. ChangesInHand'
  <2> SUFFICES ASSUME NEW q \in changed', Placeable(q)'
               PROVE  Reported(q)' \/ (pc' \in {"place", "pathCoords"} /\ event'.prefix = q)
    BY DEF ChangesInHand
  <2>1. CASE q \in changed
    BY <1>2, <2>1 DEF LInv, ChangesInHand, Placeable, Reported
  <2>2. CASE q \notin changed
    <3>1. q = p /\ lastOrigin[p] # o
      BY <1>2, <2>2
    <3> QED BY <1>3, <1>4, <1>7, <3>1
  <2> QED BY <2>1, <2>2
<1>11. EventsLocated'
  BY <1>2 DEF LInv, EventsLocated, Placed, Lined
<1> QED BY <1>9, <1>10, <1>11 DEF LInv

LEMMA GeoFromPathLocates == ASSUME ParserInv, LInv, GeoFromPath PROVE LInv'
<1>1. /\ event \in EventType /\ msg \in Updates /\ msg.path \in Seq(ASNs) /\ hop \in Nat
      /\ pc = "place" /\ UNCHANGED <<cache, msg, atRead, events, changed>>
  BY BgpParserAssumption DEF GeoFromPath, ParserInv, ParserTyped, Underway, Miss, geoVars
<1>2. /\ event.prefix \notin InCity /\ hop <= Len(msg.path) /\ event.category # "withdrawal"
      /\ \A j \in hop + 1 .. Len(msg.path) : msg.path[j] \notin atRead
  BY <1>1 DEF LInv, OnTheWay
<1>3. CASE hop = 0 /\ pc' = "announce" /\ event' = NoEvent
  <2>1. ~Placeable(event.prefix)
    BY <1>1, <1>2, <1>3 DEF Placeable
  <2> QED BY <1>1, <1>3, <2>1, LocatedKept DEF LInv, OnTheWay, ChangesInHand
<1>4. CASE hop > 0 /\ pc' = "pathCoords" /\ hop' = 1 /\ event' = [event EXCEPT !.place = hop]
  <2>1. event'.place = hop /\ event'.prefix = event.prefix /\ event'.category = event.category
    BY <1>1, <1>4 DEF EventType
  <2>2. Placed(event)' /\ Lined(event, hop)'
    BY <1>1, <1>2, <1>4, <2>1 DEF Placed, Lined
  <2>3. OnTheWay'
    BY <1>1, <1>2, <1>4, <2>1, <2>2 DEF LInv, OnTheWay
  <2>4. ChangesInHand'
    BY <1>1, <1>4, <2>1, LocatedKept DEF LInv, ChangesInHand
  <2> QED BY <1>1, <2>3, <2>4, LocatedKept DEF LInv
<1>5. CASE hop > 0 /\ Miss(msg.path[hop]) /\ hop' = hop - 1 /\ UNCHANGED <<pc, event>>
  <2>1. msg.path[hop] \notin atRead
    BY <1>5 DEF Miss, LInv, OnTheWay
  <2>2. \A j \in hop' + 1 .. Len(msg.path) : msg.path[j] \notin atRead
    BY <1>1, <1>2, <1>5, <2>1
  <2>3. OnTheWay'
    BY <1>1, <1>2, <1>5, <2>2 DEF LInv, OnTheWay
  <2>4. ChangesInHand'
    BY <1>1, <1>5, LocatedKept DEF LInv, ChangesInHand
  <2> QED BY <1>1, <2>3, <2>4, LocatedKept DEF LInv
<1> QED BY <1>3, <1>4, <1>5 DEF GeoFromPath

LEMMA ResolvePathCoordsLocates == ASSUME ParserInv, LInv, ResolvePathCoords PROVE LInv'
<1>1. /\ event \in EventType /\ msg \in Updates /\ msg.path \in Seq(ASNs) /\ hop \in Nat
      /\ pc = "pathCoords" /\ UNCHANGED <<cache, msg, atRead, changed>>
  BY BgpParserAssumption DEF ResolvePathCoords, ParserInv, ParserTyped, Underway, Miss, geoVars
<1>2. event.category # "withdrawal" /\ Placed(event) /\ hop >= 1 /\ Lined(event, hop)
  BY <1>1 DEF LInv, OnTheWay
<1>3. CASE hop > Len(msg.path) /\ pc' = "announce" /\ event' = NoEvent
           /\ events' = Append(events, event)
  <2>1. Lined(event, Len(msg.path) + 1)
    BY <1>1, <1>2, <1>3 DEF Lined
  <2>2. /\ EventsLocated' /\ \A p : Reported(p) => Reported(p)'
        /\ \A p : p = event.prefix => Reported(p)'
    BY <1>1, <1>2, <1>3, <2>1, AppendLocated DEF Reported
  <2>3. ChangesInHand'
    BY <1>1, <2>2 DEF LInv, ChangesInHand, Placeable
  <2>4. OnTheWay'
    BY <1>1, <1>3 DEF LInv, OnTheWay
  <2> QED BY <2>2, <2>3, <2>4 DEF LInv
<1>4. CASE /\ hop <= Len(msg.path) /\ hop' = hop + 1 /\ UNCHANGED <<pc, events>>
           /\ \/ event' = [event EXCEPT !.coords = Append(event.coords, hop)]
              \/ event' = event /\ msg.path[hop] \notin cache
  <2>1. /\ event'.place = event.place /\ event'.prefix = event.prefix
        /\ event'.category = event.category
    BY <1>1, <1>4 DEF EventType
  <2>2. Lined(event, hop)'
    <3> SUFFICES ASSUME NEW j \in DOMAIN msg.path, j < hop + 1, msg.path[j] \in atRead
                 PROVE  \E k \in DOMAIN event'.coords : event'.coords[k] = j
      BY <1>1, <1>4 DEF Lined
    <3>1. event.coords \in Seq(Nat) /\ Len(event.coords) \in Nat
      BY <1>1 DEF EventType
    <3>2. CASE event' = event /\ msg.path[hop] \notin cache
      <4>1. j # hop
        BY <3>2 DEF LInv, OnTheWay
      <4> QED BY <1>1, <1>2, <3>2, <4>1 DEF Lined
    <3>3. CASE event' = [event EXCEPT !.coords = Append(event.coords, hop)]
      <4>1. event'.coords = Append(event.coords, hop)
        BY <1>1, <3>3 DEF EventType
      <4>2. /\ DOMAIN event'.coords = 1 .. Len(event.coords) + 1
            /\ DOMAIN event.coords = 1 .. Len(event.coords)
            /\ event'.coords[Len(event.coords) + 1] = hop
            /\ \A k \in 1 .. Len(event.coords) : event'.coords[k] = event.coords[k]
        BY <1>1, <3>1, <4>1, AppendProperties
      <4>3. CASE j = hop
        BY <3>1, <4>2, <4>3
      <4>4. CASE j # hop
        <5>1. PICK k \in DOMAIN event.coords : event.coords[k] = j
          BY <1>1, <1>2, <4>4 DEF Lined
        <5>2. k \in DOMAIN event'.coords /\ event'.coords[k] = j
          BY <3>1, <4>2, <5>1
        <5> QED BY <5>2
      <4> QED BY <4>3, <4>4
    <3> QED BY <1>4, <3>2, <3>3
  <2>3. Placed(event)'
    BY <1>1, <1>2, <2>1 DEF Placed
  <2>4. OnTheWay'
    BY <1>1, <1>2, <1>4, <2>1, <2>2, <2>3 DEF LInv, OnTheWay
  <2>5. ChangesInHand'
    BY <1>1, <1>4, <2>1, LocatedKept DEF LInv, ChangesInHand
  <2> QED BY <1>1, <1>4, <2>4, <2>5, LocatedKept DEF LInv
<1> QED BY <1>3, <1>4 DEF ResolvePathCoords, Miss

\* A withdrawal's event is not one that has to be placed.
LEMMA WithdrawalLocates == ASSUME ParserInv, ParserInv', LInv, Withdraw \/ LookupPeer PROVE LInv'
<1>1. /\ UNCHANGED <<cache, msg, atRead, changed>> /\ pc \in {"withdraw", "peer"}
      /\ pc' \in {"withdraw", "peer"}
  BY DEF Withdraw, LookupPeer, Miss, geoVars
<1>2. pc' = "peer" => event'.category = "withdrawal"
  BY DEF Withdraw, LookupPeer, buildEvent
<1>3. OnTheWay'
  BY <1>1, <1>2 DEF LInv, OnTheWay
<1>4. CASE UNCHANGED events
  BY <1>1, <1>3, <1>4, LocatedKept DEF LInv, ChangesInHand
<1>5. CASE \E e \in EventType : e.category = "withdrawal" /\ events' = Append(events, e)
  <2>1. EventsLocated' /\ \A p : Reported(p) => Reported(p)'
    BY <1>1, <1>5, AppendLocated
  <2>2. ChangesInHand'
    BY <1>1, <2>1 DEF LInv, ChangesInHand, Placeable
  <2> QED BY <1>3, <2>1, <2>2 DEF LInv
<1>6. UNCHANGED events \/ \E e \in EventType : e.category = "withdrawal" /\ events' = Append(events, e)
  <2>1. CASE LookupPeer
    BY <2>1 DEF LookupPeer, ParserInv, Underway, LInv, OnTheWay
  <2>2. CASE Withdraw
    <3> DEFINE e == buildEvent(Head(todo), "withdrawal", msg.peerASN)
    <3>1. UNCHANGED events \/ (events' = Append(events, e) /\ e.category = "withdrawal")
      BY <2>2 DEF Withdraw, buildEvent
    <3>2. events' = Append(events, e) => e \in EventType
      <4> SUFFICES ASSUME events' = Append(events, e) PROVE e \in EventType
        OBVIOUS
      <4> HIDE DEF e
      <4>1. events \in Seq(EventType) /\ events' \in Seq(EventType) /\ Len(events) \in Nat
        BY DEF ParserInv, ParserTyped
      <4>2. Len(events) + 1 \in 1 .. Len(events') /\ events'[Len(events) + 1] = e
        BY <4>1
      <4> QED BY <4>1, <4>2
    <3> QED BY <3>1, <3>2
  <2> QED BY <2>1, <2>2
<1> QED BY <1>4, <1>5, <1>6

\* Steps that change neither message nor events; the cache does not shrink.
LEMMA OthersLocate ==
  ASSUME LInv, AnnounceDone \/ PublishEvents \/ LookupMissed \/ (\E f \in Fetchers : Fetch(f))
                 \/ UNCHANGED parserVars
  PROVE  LInv'
<1>1. UNCHANGED <<msg, atRead, changed, events>> /\ cache \subseteq cache'
  BY DEF AnnounceDone, PublishEvents, LookupMissed, Fetch, FetchStep, FetchAnswers, FetchStores,
    FetchClears, LockInflight, parseVars, geoVars, parserVars
<1>2. \/ UNCHANGED <<pc, event, hop>>
      \/ pc \in {"announce", "withdraw"} /\ pc' \in {"withdraw", "read"}
  BY DEF AnnounceDone, PublishEvents, LookupMissed, Fetch, parseVars, parserVars
<1>3. OnTheWay'
  BY <1>1, <1>2 DEF LInv, OnTheWay, Placed, Lined
<1>4. ChangesInHand'
  BY <1>1, <1>2, LocatedKept DEF LInv, ChangesInHand
<1> QED BY <1>1, <1>3, <1>4, LocatedKept DEF LInv

LEMMA LInvInductive == SpecParser => []LInv
<1>1. InitParser => LInv
  BY DEF InitParser, LInv, OnTheWay, ChangesInHand, EventsLocated
<1>2. ParserInv /\ ParserInv' /\ LInv /\ [NextParser]_parserVars => LInv'
  <2> SUFFICES ASSUME ParserInv, ParserInv', LInv, [NextParser]_parserVars PROVE LInv'
    OBVIOUS
  <2>1. CASE \E m \in Updates : ReadUpdate(m)
    BY <2>1 DEF ReadUpdate, geoVars, LInv, OnTheWay, ChangesInHand, EventsLocated
  <2> QED
    BY <2>1, AnnounceLocates, GeoFromPathLocates, ResolvePathCoordsLocates, WithdrawalLocates,
       OthersLocate DEF NextParser, ParseStep
<1> QED BY <1>1, <1>2, ParserInvInductive, PTL DEF SpecParser

\* Whatever the fetches do meanwhile, an event is placed at the hop nearest to the origin
\* that was known when the update came, and its line has all that were.
THEOREM PlacesAreNearest == SpecParser => []PlacedNearOrigin
<1>1. ParserInv /\ LInv => PlacedNearOrigin
  <2> SUFFICES ASSUME ParserInv, LInv, NEW i \in DOMAIN events, events[i].category # "withdrawal"
               PROVE  /\ Placed(events[i])
                      /\ \A j \in DOMAIN msg.path : msg.path[j] \in atRead =>
                           \E k \in DOMAIN events[i].coords : events[i].coords[k] = j
    BY DEF PlacedNearOrigin, Placed
  <2>1. Placed(events[i]) /\ Lined(events[i], Len(msg.path) + 1)
    BY DEF LInv, EventsLocated
  <2>2. \A j \in DOMAIN msg.path : msg.path[j] \in atRead => j < Len(msg.path) + 1
    OBVIOUS
  <2> QED BY <2>1, <2>2 DEF Lined
<1> QED BY <1>1, ParserInvInductive, LInvInductive, PTL

\* No change of a prefix that could be placed goes unreported.
THEOREM ChangesReported == SpecParser => []ChangeIsReported
<1>1. LInv => ChangeIsReported
  BY DEF LInv, ChangesInHand, ChangeIsReported, Placeable, Reported
<1> QED BY <1>1, LInvInductive, PTL

-----------------------------------------------------------------------------
(* Geo, whoever calls Lookup.                                               *)

\* The one Lookup that may fetch a known AS is the one that had missed it; once it
\* has, the AS is in the cache and no later Lookup gets past the read lock.
RefetchIsOver ==
  \A a \in ASNs : refetched[a] > 0 => refetched[a] = 1 /\ a \in cache /\ looking # a

GeoIInv == GeoTypeOK /\ OneFetchPerASN /\ RefetchIsOver

LEMMA NewGeoIInv == NewGeo => GeoIInv
<1> SUFFICES ASSUME NewGeo PROVE GeoIInv
  OBVIOUS
<1>1. GeoTypeOK
  BY GeoAssumption DEF NewGeo, GeoTypeOK
<1>2. OneFetchPerASN
  BY DEF NewGeo, OneFetchPerASN
<1>3. RefetchIsOver
  BY DEF NewGeo, RefetchIsOver
<1> QED BY <1>1, <1>2, <1>3 DEF GeoIInv

LEMMA MissStep == ASSUME GeoIInv, NEW a \in ASNs, Miss(a) PROVE GeoIInv'
<1>1. GeoTypeOK'
  BY DEF GeoIInv, GeoTypeOK, Miss
<1>2. OneFetchPerASN'
  BY DEF GeoIInv, OneFetchPerASN, Miss
<1>3. RefetchIsOver'
  BY DEF GeoIInv, RefetchIsOver, Miss
<1> QED BY <1>1, <1>2, <1>3 DEF GeoIInv

\* A Lookup that finds a fetch pending changes nothing but where it is.
LEMMA PendingStep == ASSUME GeoIInv, LockInflight, looking \in inflight PROVE GeoIInv'
<1>1. UNCHANGED <<cache, inflight, fetches, refetched>> /\ looking' = NoAS
      /\ looking \in ASNs
  BY GeoAssumption DEF GeoIInv, GeoTypeOK, LockInflight
<1>2. GeoTypeOK'
  BY <1>1 DEF GeoIInv, GeoTypeOK
<1>3. OneFetchPerASN'
  BY <1>1 DEF GeoIInv, OneFetchPerASN
<1>4. RefetchIsOver'
  BY <1>1, GeoAssumption DEF GeoIInv, RefetchIsOver
<1> QED BY <1>2, <1>3, <1>4 DEF GeoIInv

LEMMA StartStep == ASSUME GeoIInv, LockInflight, looking \notin inflight PROVE GeoIInv'
<1> DEFINE a == looking
<1>1. PICK f \in Fetchers :
        fetches[f] = Idle /\ fetches' = [fetches EXCEPT ![f] = [asn |-> a, at |-> "asking"]]
  BY DEF LockInflight, StartFetch
<1>2. /\ a \in ASNs \ Seed /\ looking' = NoAS
      /\ inflight' = inflight \cup {a} /\ UNCHANGED cache
      /\ refetched' = [refetched EXCEPT ![a] = IF a \in cache THEN @ + 1 ELSE @]
  BY DEF GeoIInv, GeoTypeOK, LockInflight, StartFetch
<1>3. GeoTypeOK'
  <2>1. refetched' \in [ASNs -> Nat]
    BY <1>2 DEF GeoIInv, GeoTypeOK
  <2>2. fetches' \in [Fetchers -> [asn : ASNs, at : {"asking", "storing", "clearing"}] \cup {Idle}]
    BY <1>1, <1>2 DEF GeoIInv, GeoTypeOK
  <2> QED BY <1>2, <2>1, <2>2 DEF GeoIInv, GeoTypeOK
<1>4. OneFetchPerASN'
  <2>1. \A g \in Fetchers : fetches'[g] = IF g = f THEN [asn |-> a, at |-> "asking"] ELSE fetches[g]
    BY <1>1 DEF GeoIInv, GeoTypeOK
  <2>2. [asn |-> a, at |-> "asking"] # Idle
    BY DEF Idle
  <2>3. \A g \in Fetchers : fetches[g] # Idle => fetches[g].asn \in inflight
    BY DEF GeoIInv, OneFetchPerASN
  <2>4. inflight' = {fetches'[g].asn : g \in {h \in Fetchers : fetches'[h] # Idle}}
    BY <1>1, <1>2, <2>1, <2>2 DEF GeoIInv, OneFetchPerASN
  <2>5. ASSUME NEW g \in Fetchers, NEW h \in Fetchers, g # h, fetches'[g] # Idle
        PROVE  fetches'[g].asn # fetches'[h].asn
    <3>1. CASE g = f
      <4>1. CASE fetches[h] = Idle
        BY <1>2, <2>1, <2>5, <3>1, <4>1, GeoAssumption DEF Idle
      <4>2. CASE fetches[h] # Idle
        BY <2>1, <2>3, <2>5, <3>1, <4>2
      <4> QED BY <4>1, <4>2
    <3>2. CASE h = f
      BY <2>1, <2>3, <2>5, <3>2
    <3>3. CASE g # f /\ h # f
      BY <2>1, <2>5, <3>3 DEF GeoIInv, OneFetchPerASN
    <3> QED BY <3>1, <3>2, <3>3
  <2> QED BY <2>4, <2>5 DEF OneFetchPerASN, Idle
<1>5. RefetchIsOver'
  BY <1>2, GeoAssumption DEF GeoIInv, GeoTypeOK, RefetchIsOver
<1> QED BY <1>3, <1>4, <1>5 DEF GeoIInv

LEMMA FetchStepStep == ASSUME GeoIInv, NEW f \in Fetchers, FetchStep(f) PROVE GeoIInv'
<1>1. fetches[f] # Idle /\ fetches[f].asn \in inflight /\ fetches[f].asn \in ASNs
  BY DEF GeoIInv, GeoTypeOK, OneFetchPerASN, FetchStep, FetchAnswers, FetchStores, FetchClears, Idle
<1>2. ASSUME NEW s \in {"storing", "clearing"}, fetches' = [fetches EXCEPT ![f].at = s],
             UNCHANGED <<inflight, looking, refetched>>,
             cache' \in {cache, cache \cup {fetches[f].asn}}
      PROVE  GeoIInv'
  <2>1. \A g \in Fetchers : fetches'[g].asn = fetches[g].asn /\ (fetches'[g] = Idle <=> fetches[g] = Idle)
    BY <1>1, <1>2 DEF GeoIInv, GeoTypeOK, Idle
  <2>2. GeoTypeOK'
    BY <1>1, <1>2 DEF GeoIInv, GeoTypeOK, Idle
  <2>3. OneFetchPerASN'
    BY <1>2, <2>1 DEF GeoIInv, OneFetchPerASN
  <2>4. RefetchIsOver'
    BY <1>2 DEF GeoIInv, RefetchIsOver
  <2> QED BY <2>2, <2>3, <2>4 DEF GeoIInv
<1>3. CASE FetchAnswers(f)
  BY <1>2, <1>3 DEF FetchAnswers
<1>4. CASE FetchStores(f)
  BY <1>2, <1>4 DEF FetchStores
<1>5. CASE FetchClears(f)
  <2>1. \A g \in Fetchers : fetches'[g] = IF g = f THEN Idle ELSE fetches[g]
    BY <1>5 DEF FetchClears, GeoIInv, GeoTypeOK
  <2>2. GeoTypeOK'
    BY <1>5 DEF FetchClears, GeoIInv, GeoTypeOK
  <2>3. OneFetchPerASN'
    <3>1. inflight' = inflight \ {fetches[f].asn}
      BY <1>5 DEF FetchClears
    <3>2. \A g \in Fetchers : g # f /\ fetches[g] # Idle => fetches[g].asn # fetches[f].asn
      BY DEF GeoIInv, OneFetchPerASN
    <3>3. inflight' = {fetches'[g].asn : g \in {h \in Fetchers : fetches'[h] # Idle}}
      BY <2>1, <3>1, <3>2 DEF GeoIInv, OneFetchPerASN
    <3>4. ASSUME NEW g \in Fetchers, NEW h \in Fetchers, g # h, fetches'[g] # Idle
          PROVE  fetches'[g].asn # fetches'[h].asn
      <4>1. CASE h = f
        BY <2>1, <3>4, <4>1, GeoAssumption DEF GeoIInv, GeoTypeOK, Idle
      <4>2. CASE h # f
        BY <2>1, <3>4, <4>2 DEF GeoIInv, OneFetchPerASN
      <4> QED BY <4>1, <4>2
    <3> QED BY <3>3, <3>4 DEF OneFetchPerASN, Idle
  <2>4. RefetchIsOver'
    BY <1>5 DEF FetchClears, GeoIInv, RefetchIsOver
  <2> QED BY <2>2, <2>3, <2>4 DEF GeoIInv
<1> QED BY <1>3, <1>4, <1>5 DEF FetchStep

LEMMA GeoInductive == GeoSpec => []GeoIInv
<1>1. GeoIInv /\ [NextGeo]_geoVars => GeoIInv'
  <2> SUFFICES ASSUME GeoIInv, [NextGeo]_geoVars PROVE GeoIInv'
    OBVIOUS
  <2>1. CASE UNCHANGED geoVars
    BY <2>1 DEF geoVars, GeoIInv, GeoTypeOK, OneFetchPerASN, RefetchIsOver
  <2> QED BY <2>1, MissStep, PendingStep, StartStep, FetchStepStep DEF NextGeo
<1> QED BY <1>1, NewGeoIInv, PTL DEF GeoSpec

\* The range of every variable; the static table is never fetched.
THEOREM GeoTypeSafe == GeoSpec => []GeoTypeOK
<1>1. GeoIInv => GeoTypeOK
  BY DEF GeoIInv
<1> QED BY <1>1, GeoInductive, PTL

\* RIPEstat is never asked twice at once about an AS, and no mark outlives its fetch.
THEOREM FetchedByOne == GeoSpec => []OneFetchPerASN
<1>1. GeoIInv => OneFetchPerASN
  BY DEF GeoIInv
<1> QED BY <1>1, GeoInductive, PTL

\* An AS is fetched at most once although it is already known.
THEOREM RefetchBounded == GeoSpec => []RefetchedOnce
<1>1. GeoIInv => RefetchedOnce
  <2> SUFFICES ASSUME GeoIInv, NEW a \in ASNs PROVE refetched[a] <= 1
    BY DEF RefetchedOnce
  <2>1. refetched[a] \in Nat
    BY DEF GeoIInv, GeoTypeOK
  <2>2. refetched[a] > 0 => refetched[a] = 1
    BY DEF GeoIInv, RefetchIsOver
  <2> QED BY <2>1, <2>2
<1> QED BY <1>1, GeoInductive, PTL

-----------------------------------------------------------------------------
(* The parser is a caller of Geo.                                           *)

\* A withdrawal is placed by the peer's AS only if that is a number.
PeerKnown == pc = "peer" => msg.peerASN \in ASNs

LEMMA PeerKnownInductive == SpecParser => []PeerKnown
<1>1. InitParser => PeerKnown
  BY DEF InitParser, PeerKnown
<1>2. ParserInv /\ PeerKnown /\ [NextParser]_parserVars => PeerKnown'
  <2> SUFFICES ASSUME ParserInv, PeerKnown, [NextParser]_parserVars PROVE PeerKnown'
    OBVIOUS
  <2>1. CASE Withdraw
    <3>1. msg \in Updates /\ msg' = msg /\ (pc' = "peer" => msg.peerASN # NoAS)
      BY <2>1 DEF Withdraw, ParserInv, Underway
    <3> QED BY <3>1, BgpParserAssumption DEF PeerKnown
  <2>2. CASE \E m \in Updates : ReadUpdate(m)
    BY <2>2 DEF ReadUpdate, PeerKnown
  <2>3. CASE Announce \/ AnnounceDone \/ GeoFromPath \/ ResolvePathCoords \/ LookupPeer
             \/ PublishEvents
    BY <2>3 DEF Announce, AnnounceDone, GeoFromPath, ResolvePathCoords, LookupPeer,
       PublishEvents, PeerKnown
  <2>4. CASE LookupMissed \/ (\E f \in Fetchers : Fetch(f)) \/ UNCHANGED parserVars
    BY <2>4 DEF LookupMissed, Fetch, parseVars, parserVars, PeerKnown
  <2> QED BY <2>1, <2>2, <2>3, <2>4 DEF NextParser, ParseStep
<1> QED BY <1>1, <1>2, ParserInvInductive, PTL DEF SpecParser

\* Every Lookup of the parser is about an AS of the path or the peer's, one at a time:
\* the parser implements Geo, whatever the stream says.
THEOREM ParserImplementsGeo == SpecParser => GeoSpec
<1>1. InitParser => NewGeo
  BY DEF InitParser
<1>2. ParserInv /\ LInv /\ PeerKnown /\ [NextParser]_parserVars => [NextGeo]_geoVars
  <2> SUFFICES ASSUME ParserInv, LInv, PeerKnown, [NextParser]_parserVars PROVE NextGeo \/ UNCHANGED geoVars
    OBVIOUS
  <2>1. ASSUME pc \in {"place", "pathCoords"}, NEW i \in Nat, i >= 1, i <= Len(msg.path)
        PROVE  msg.path[i] \in ASNs
    <3>1. msg.path \in Seq(ASNs)
      BY <2>1, BgpParserAssumption DEF ParserInv, Underway
    <3> QED BY <2>1, <3>1
  <2>2. CASE GeoFromPath
    <3>1. UNCHANGED geoVars \/ (hop > 0 /\ Miss(msg.path[hop]))
      BY <2>2 DEF GeoFromPath
    <3>2. pc = "place" /\ hop \in Nat /\ hop <= Len(msg.path)
      BY <2>2 DEF GeoFromPath, ParserInv, ParserTyped, LInv, OnTheWay
    <3>3. hop > 0 => hop >= 1
      BY <3>2
    <3> QED BY <2>1, <3>1, <3>2, <3>3 DEF NextGeo
  <2>3. CASE ResolvePathCoords
    <3>1. UNCHANGED geoVars \/ (hop <= Len(msg.path) /\ Miss(msg.path[hop]))
      BY <2>3 DEF ResolvePathCoords
    <3>2. pc = "pathCoords" /\ hop \in Nat /\ hop >= 1
      BY <2>3 DEF ResolvePathCoords, ParserInv, ParserTyped, LInv, OnTheWay
    <3> QED BY <2>1, <3>1, <3>2 DEF NextGeo
  <2>4. CASE LookupPeer
    BY <2>4 DEF LookupPeer, PeerKnown, NextGeo
  <2>5. CASE LookupMissed \/ (\E f \in Fetchers : Fetch(f))
    BY <2>5 DEF LookupMissed, Fetch, NextGeo
  <2>6. CASE (\E m \in Updates : ReadUpdate(m)) \/ Announce \/ AnnounceDone \/ Withdraw
             \/ PublishEvents \/ UNCHANGED parserVars
    BY <2>6 DEF ReadUpdate, Announce, AnnounceDone, Withdraw, PublishEvents, parserVars
  <2> QED BY <2>2, <2>3, <2>4, <2>5, <2>6 DEF NextParser, ParseStep
<1> QED BY <1>1, <1>2, ParserInvInductive, LInvInductive, PeerKnownInductive, PTL DEF SpecParser, GeoSpec

\* While the parser runs, RIPEstat is never asked twice at once about an AS, no mark
\* outlives its fetch, and an AS is fetched at most once although it is known.
THEOREM ParserFetchesOnce == SpecParser => []OneFetchPerASN /\ []RefetchedOnce
BY ParserImplementsGeo, FetchedByOne, RefetchBounded, PTL
=============================================================================
