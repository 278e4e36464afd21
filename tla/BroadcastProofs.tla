---------------------------- MODULE BroadcastProofs ----------------------------
(***************************************************************************)
(* The live path of the telemetry batcher loses no event unseen and hands  *)
(* none to Redis twice, and coalescing keeps a newest position, for every  *)
(* set of events, every capacity and every window size.                    *)
(*                                                                         *)
(* HandledOnce is not inductive: that the received event leaves the        *)
(* channel needs a channel without duplicates (Places), that a flush does  *)
(* not overwrite a batch needs that the loop publishes nothing while it    *)
(* selects (LoopInv), and that a batch names an asset once needs the same  *)
(* of the window (OnePerAsset).                                            *)
(***************************************************************************)
EXTENDS Broadcast, SequenceTheorems, TLAPS

TypeOK ==
  /\ broadcastCh \in Seq(Events)
  /\ pending \subseteq Events /\ publishing \subseteq Events
  /\ superseded \subseteq Events
  /\ loop \in {"select", "publishing", "last", "done"}

Places ==
  /\ \A i, j \in 1..Len(broadcastCh) : broadcastCh[i] = broadcastCh[j] => i = j
  /\ InChannel \cap (pending \cup publishing \cup overflowed) = {}
  /\ overflowed \cap (pending \cup publishing) = {}

LoopInv == loop = "select" => publishing = {}

OnePerAsset == \A e, f \in pending : Asset[e] = Asset[f] => e = f

IInv == TypeOK /\ Places /\ LoopInv /\ OnePerAsset /\ HandledOnce /\ NewestSurvives

-----------------------------------------------------------------------------
(* The channel as a set, and what a step of the window keeps.               *)

LEMMA ChannelAppend ==
  ASSUME NEW ch \in Seq(Events), NEW e \in Events
  PROVE  {Append(ch, e)[i] : i \in DOMAIN Append(ch, e)} = {ch[i] : i \in DOMAIN ch} \cup {e}
<1>1. DOMAIN Append(ch, e) = 1..Len(ch) + 1 /\ DOMAIN ch = 1..Len(ch) /\ Len(ch) \in Nat
  OBVIOUS
<1>2. \A i \in 1..Len(ch) + 1 : Append(ch, e)[i] = IF i = Len(ch) + 1 THEN e ELSE ch[i]
  OBVIOUS
<1>3. 1..Len(ch) + 1 = (1..Len(ch)) \cup {Len(ch) + 1}
  BY <1>1
<1> QED
  BY <1>1, <1>2, <1>3

LEMMA ChannelReceive ==
  ASSUME NEW ch \in Seq(Events), ch # <<>>,
         \A i, j \in 1..Len(ch) : ch[i] = ch[j] => i = j
  PROVE  /\ Head(ch) \in Events /\ Tail(ch) \in Seq(Events)
         /\ {ch[i] : i \in DOMAIN ch} = {Head(ch)} \cup {Tail(ch)[i] : i \in DOMAIN Tail(ch)}
         /\ Head(ch) \notin {Tail(ch)[i] : i \in DOMAIN Tail(ch)}
         /\ \A i, j \in 1..Len(Tail(ch)) : Tail(ch)[i] = Tail(ch)[j] => i = j
<1>1. /\ Head(ch) = ch[1] /\ Head(ch) \in Events /\ Tail(ch) \in Seq(Events)
      /\ Len(ch) \in Nat /\ Len(ch) >= 1 /\ Len(Tail(ch)) = Len(ch) - 1
  BY HeadTailProperties
<1>2. \A i \in 1..Len(ch) - 1 : Tail(ch)[i] = ch[i + 1]
  BY HeadTailProperties
<1>3. DOMAIN ch = 1..Len(ch) /\ DOMAIN Tail(ch) = 1..Len(ch) - 1
  BY <1>1
<1>4. ASSUME NEW x PROVE x \in {ch[i] : i \in DOMAIN ch} <=>
                          x \in {Head(ch)} \cup {Tail(ch)[i] : i \in DOMAIN Tail(ch)}
  <2>1. ASSUME NEW i \in 1..Len(ch), x = ch[i], i # 1
        PROVE  x \in {Tail(ch)[k] : k \in DOMAIN Tail(ch)}
    <3>1. i - 1 \in 1..Len(ch) - 1
      BY <1>1, <2>1
    <3>2. Tail(ch)[i - 1] = ch[(i - 1) + 1] /\ (i - 1) + 1 = i
      BY <3>1, <1>2
    <3> QED
      BY <3>1, <3>2, <1>3, <2>1
  <2>2. ASSUME NEW i \in 1..Len(ch) - 1, x = Tail(ch)[i]
        PROVE  x \in {ch[k] : k \in DOMAIN ch}
    BY <1>1, <1>2, <1>3, <2>2
  <2> QED
    BY <1>1, <1>3, <2>1, <2>2
<1>5. Head(ch) \notin {Tail(ch)[i] : i \in DOMAIN Tail(ch)}
  BY <1>1, <1>2, <1>3
<1>6. \A i, j \in 1..Len(Tail(ch)) : Tail(ch)[i] = Tail(ch)[j] => i = j
  BY <1>1, <1>2
<1> QED
  BY <1>1, <1>4, <1>5, <1>6

\* upsertLatest keeps one event per asset, the received one or those it had, and what
\* it drops has a newer one, or an equally old one, in the window.
LEMMA WindowKeepsNewest ==
  ASSUME NEW window \in SUBSET Events, NEW e \in Events, e \notin window,
         \A f, g \in window : Asset[f] = Asset[g] => f = g
  PROVE  LET w == upsertLatest(window, e)
             dropped == (window \cup {e}) \ w
         IN  /\ w \subseteq Events /\ w \cup dropped = window \cup {e} /\ w \cap dropped = {}
             /\ \A f, g \in w : Asset[f] = Asset[g] => f = g
             /\ \A d \in dropped : \E f \in w : Asset[f] = Asset[d] /\ Timestamp[f] >= Timestamp[d]
<1>1. \A f \in Events : Timestamp[f] \in Nat
  BY BroadcastAssumption
<1>2. CASE \A previous \in Same(window, e) : Timestamp[e] >= Timestamp[previous]
  <2>1. upsertLatest(window, e) = (window \ Same(window, e)) \cup {e}
    BY <1>2 DEF upsertLatest
  <2> QED
    BY <1>2, <2>1 DEF Same
<1>3. CASE ~ \A previous \in Same(window, e) : Timestamp[e] >= Timestamp[previous]
  <2>1. upsertLatest(window, e) = window
    BY <1>3 DEF upsertLatest
  <2>2. PICK previous \in Same(window, e) : ~(Timestamp[e] >= Timestamp[previous])
    BY <1>3
  <2>3. previous \in window /\ Asset[previous] = Asset[e] /\ Timestamp[previous] >= Timestamp[e]
    BY <2>2, <1>1 DEF Same
  <2> QED
    BY <2>1, <2>3
<1> QED
  BY <1>2, <1>3

LEMMA InitIInv == Init => IInv
<1> SUFFICES ASSUME Init PROVE IInv
  OBVIOUS
<1>1. broadcastCh \in Seq(Events) /\ Len(broadcastCh) = 0 /\ InChannel = {}
  BY DEF Init, InChannel
<1> QED
  BY <1>1 DEF Init, IInv, TypeOK, Places, LoopInv, OnePerAsset, HandledOnce, NewestSurvives, Handled

-----------------------------------------------------------------------------
(* One lemma per action.                                                    *)

LEMMA EnqueueKeeps == IInv /\ (\E e \in Events : Enqueue(e)) => IInv'
<1> SUFFICES ASSUME IInv, NEW e \in Events, Enqueue(e) PROVE IInv'
  OBVIOUS
<1>1. /\ UNCHANGED <<pending, publishing, loop, superseded, published, unpublished>>
      /\ e \notin offered /\ offered' = offered \cup {e}
  BY DEF Enqueue, fateVars
<1>2. LoopInv' /\ OnePerAsset' /\ NewestSurvives'
  BY <1>1 DEF IInv, LoopInv, OnePerAsset, NewestSurvives
<1>3. e \notin overflowed \cup InChannel \cup pending \cup publishing \cup Handled
  BY <1>1 DEF IInv, HandledOnce
<1>4. CASE HasRoom
  <2>1. broadcastCh' = Append(broadcastCh, e) /\ overflowed' = overflowed
    BY <1>4 DEF Enqueue
  <2>2. InChannel' = InChannel \cup {e} /\ broadcastCh' \in Seq(Events)
    BY <2>1, ChannelAppend DEF InChannel, IInv, TypeOK
  <2>3. \A i, j \in 1..Len(broadcastCh') : broadcastCh'[i] = broadcastCh'[j] => i = j
    <3>1. \A i \in 1..Len(broadcastCh) : broadcastCh[i] # e
      BY <1>3 DEF InChannel, IInv, TypeOK
    <3>2. Len(broadcastCh') = Len(broadcastCh) + 1 /\ Len(broadcastCh) \in Nat
      BY <2>1 DEF IInv, TypeOK
    <3>3. \A i \in 1..Len(broadcastCh') :
            broadcastCh'[i] = IF i = Len(broadcastCh) + 1 THEN e ELSE broadcastCh[i]
      BY <2>1, <3>2 DEF IInv, TypeOK
    <3> QED
      BY <3>1, <3>2, <3>3 DEF IInv, Places
  <2>4. TypeOK' /\ Places'
    BY <1>1, <1>3, <2>1, <2>2, <2>3 DEF IInv, TypeOK, Places
  <2>5. HandledOnce'
    BY <1>1, <1>3, <2>1, <2>2 DEF IInv, HandledOnce, Handled
  <2> QED
    BY <1>2, <2>4, <2>5 DEF IInv
<1>5. CASE ~HasRoom
  <2>1. broadcastCh' = broadcastCh /\ overflowed' = overflowed \cup {e} /\ InChannel' = InChannel
    BY <1>5 DEF Enqueue, InChannel
  <2>2. TypeOK' /\ Places' /\ HandledOnce'
    BY <1>1, <1>3, <2>1 DEF IInv, TypeOK, Places, HandledOnce, Handled
  <2> QED
    BY <1>2, <2>2 DEF IInv
<1> QED
  BY <1>4, <1>5

LEMMA ReceiveKeeps == IInv /\ Receive => IInv'
<1> SUFFICES ASSUME IInv, Receive PROVE IInv'
  OBVIOUS
<1> DEFINE e == Head(broadcastCh)
           window == upsertLatest(pending, e)
           dropped == (pending \cup {e}) \ window
<1>1. /\ loop = "select" /\ publishing = {}
      /\ broadcastCh' = Tail(broadcastCh) /\ superseded' = superseded \cup dropped
      /\ UNCHANGED <<offered, overflowed, published, unpublished>>
  BY DEF Receive, IInv, LoopInv, offerVars
<1>2. \/ /\ pending' = {} /\ publishing' = window /\ loop' = "publishing"
      \/ /\ pending' = window /\ publishing' = {} /\ loop' = "select"
  BY <1>1 DEF Receive, Flush
<1>3. /\ e \in Events /\ Tail(broadcastCh) \in Seq(Events)
      /\ InChannel = {e} \cup InChannel' /\ e \notin InChannel'
      /\ \A i, j \in 1..Len(broadcastCh') : broadcastCh'[i] = broadcastCh'[j] => i = j
  <2>1. /\ broadcastCh \in Seq(Events) /\ broadcastCh # <<>>
        /\ \A i, j \in 1..Len(broadcastCh) : broadcastCh[i] = broadcastCh[j] => i = j
    BY DEF Receive, IInv, TypeOK, Places
  <2>2. InChannel' = {Tail(broadcastCh)[i] : i \in DOMAIN Tail(broadcastCh)}
    BY <1>1 DEF InChannel
  <2>3. /\ e \in Events /\ Tail(broadcastCh) \in Seq(Events)
        /\ InChannel = {e} \cup {Tail(broadcastCh)[i] : i \in DOMAIN Tail(broadcastCh)}
        /\ e \notin {Tail(broadcastCh)[i] : i \in DOMAIN Tail(broadcastCh)}
        /\ \A i, j \in 1..Len(Tail(broadcastCh)) :
             Tail(broadcastCh)[i] = Tail(broadcastCh)[j] => i = j
    BY <2>1, ChannelReceive DEF InChannel
  <2> QED
    BY <1>1, <2>2, <2>3
<1>4. e \notin pending
  BY <1>3 DEF IInv, Places
<1>5. /\ window \subseteq Events /\ window \cup dropped = pending \cup {e} /\ window \cap dropped = {}
      /\ \A f, g \in window : Asset[f] = Asset[g] => f = g
      /\ \A d \in dropped : \E f \in window : Asset[f] = Asset[d] /\ Timestamp[f] >= Timestamp[d]
  BY <1>3, <1>4, WindowKeepsNewest DEF IInv, TypeOK, OnePerAsset
<1> HIDE DEF e, window, dropped
<1>6. pending' \cup publishing' = window /\ pending' \cap publishing' = {}
  BY <1>2
<1>7. TypeOK' /\ LoopInv' /\ OnePerAsset'
  BY <1>1, <1>2, <1>3, <1>5 DEF IInv, TypeOK, LoopInv, OnePerAsset
<1>8. Places'
  BY <1>1, <1>2, <1>3, <1>5 DEF IInv, Places
<1>9. HandledOnce'
  <2>1. InChannel' \cup window \cup dropped = InChannel \cup pending
    BY <1>3, <1>5
  <2>2. dropped \cap InChannel' = {} /\ dropped \cap overflowed = {}
    BY <1>3, <1>5 DEF IInv, Places
  <2> QED
    BY <1>1, <1>5, <1>6, <2>1, <2>2 DEF IInv, HandledOnce, Handled
<1>10. NewestSurvives'
  <2>1. \A f, g \in publishing' : Asset[f] = Asset[g] => f = g
    BY <1>2, <1>5
  <2>2. ASSUME NEW d \in superseded'
        PROVE  \E f \in window \cup published \cup unpublished :
                 Asset[f] = Asset[d] /\ Timestamp[f] >= Timestamp[d]
    <3>1. CASE d \in dropped
      BY <3>1, <1>5
    <3>2. CASE d \in superseded
      <4>1. PICK f \in pending \cup published \cup unpublished :
              Asset[f] = Asset[d] /\ Timestamp[f] >= Timestamp[d]
        BY <3>2, <1>1 DEF IInv, NewestSurvives
      <4>2. CASE f \in dropped
        <5>1. PICK g \in window : Asset[g] = Asset[f] /\ Timestamp[g] >= Timestamp[f]
          BY <4>2, <1>5
        <5>2. d \in Events /\ f \in Events /\ g \in Events
          BY <3>2, <4>2, <5>1, <1>3, <1>5 DEF IInv, TypeOK
        <5>3. Timestamp[d] \in Nat /\ Timestamp[f] \in Nat /\ Timestamp[g] \in Nat
          BY <5>2, BroadcastAssumption
        <5> QED
          BY <4>1, <5>1, <5>3
      <4>3. CASE f \notin dropped
        BY <4>1, <4>3, <1>5
      <4> QED
        BY <4>2, <4>3
    <3> QED
      BY <3>1, <3>2, <1>1
  <2> QED
    BY <2>1, <2>2, <1>1, <1>6 DEF NewestSurvives
<1> QED
  BY <1>7, <1>8, <1>9, <1>10 DEF IInv

\* A flush, by the ticker or because the channel is closed.
LEMMA FlushKeeps == IInv /\ (Tick \/ ReceiveClosed) => IInv'
<1> SUFFICES ASSUME IInv, Tick \/ ReceiveClosed PROVE IInv'
  OBVIOUS
<1>1. /\ publishing = {} /\ InChannel' = InChannel
      /\ UNCHANGED <<broadcastCh, offered, overflowed, superseded, published, unpublished>>
  BY DEF Tick, ReceiveClosed, IInv, LoopInv, InChannel, chanVars, offerVars, fateVars
<1>2. /\ \/ pending' = {} /\ publishing' = pending
         \/ pending' = pending /\ publishing' = {}
      /\ loop' \in {"publishing", "last", "done"}
  BY <1>1 DEF Tick, ReceiveClosed, Flush
<1> QED
  BY <1>1, <1>2 DEF IInv, TypeOK, Places, LoopInv, OnePerAsset, HandledOnce, NewestSurvives, Handled

LEMMA PublishReturnsKeeps == IInv /\ (\E sent \in SUBSET publishing : PublishReturns(sent)) => IInv'
<1> SUFFICES ASSUME IInv, NEW sent \in SUBSET publishing, PublishReturns(sent) PROVE IInv'
  OBVIOUS
<1>1. /\ publishing' = {} /\ InChannel' = InChannel /\ loop' \in {"select", "done"}
      /\ published' \cup unpublished' = published \cup unpublished \cup publishing
      /\ UNCHANGED <<broadcastCh, pending, offered, overflowed, superseded>>
  BY DEF PublishReturns, InChannel, chanVars, offerVars
<1>2. Handled' = Handled \cup publishing
  BY <1>1 DEF Handled
<1>3. superseded \cap publishing = {}
  BY DEF IInv, HandledOnce, Handled
<1>4. TypeOK' /\ Places' /\ LoopInv' /\ OnePerAsset'
  BY <1>1 DEF IInv, TypeOK, Places, LoopInv, OnePerAsset
<1>5. HandledOnce'
  BY <1>1, <1>2, <1>3 DEF IInv, HandledOnce, Places
<1>6. NewestSurvives'
  BY <1>1 DEF IInv, NewestSurvives
<1> QED
  BY <1>4, <1>5, <1>6 DEF IInv

LEMMA StepIInv == IInv /\ [Next]_vars => IInv'
<1>1. IInv /\ (UNCHANGED vars \/ CloseBroadcastCh) => IInv'
  BY DEF IInv, TypeOK, Places, LoopInv, OnePerAsset, HandledOnce, NewestSurvives, Handled,
    InChannel, vars, chanVars, offerVars, fateVars, CloseBroadcastCh
<1> QED
  BY <1>1, EnqueueKeeps, ReceiveKeeps, FlushKeeps, PublishReturnsKeeps DEF Next, LoopStep

THEOREM Inductive == Spec => []IInv
  BY InitIInv, StepIInv, PTL DEF Spec

-----------------------------------------------------------------------------
\* An event the channel took is in one place of the live path at a time, and none is
\* handed to PublishBatch a second time.
THEOREM NothingLostOrRepeated == Spec => []HandledOnce
<1>1. IInv => HandledOnce
  BY DEF IInv
<1> QED
  BY <1>1, Inductive, PTL

\* A position is coalesced away only for one of its asset that is as new, and that
\* itself reaches PublishBatch; no batch names an asset twice.
THEOREM CoalescingKeepsNewest == Spec => []NewestSurvives
<1>1. IInv => NewestSurvives
  BY DEF IInv
<1> QED
  BY <1>1, Inductive, PTL

-----------------------------------------------------------------------------
(* The end of broadcastLoop.                                                *)

\* The last publish begins when nothing is left in the channel and the window, and
\* the closed channel takes nothing more.
LoopEnds ==
  /\ loop \in {"select", "done"} => publishing = {}
  /\ loop \in {"last", "done"} => chClosed /\ broadcastCh = <<>> /\ pending = {}

DrainedWhenDone == loop = "done" => pending = {} /\ publishing = {} /\ broadcastCh = <<>>

LEMMA LoopEndsStep == LoopEnds /\ [Next]_vars => LoopEnds'
<1> SUFFICES ASSUME LoopEnds, [Next]_vars PROVE LoopEnds'
  OBVIOUS
<1> USE DEF LoopEnds, chanVars, offerVars, fateVars
<1>1. CASE UNCHANGED vars
  BY <1>1 DEF vars
<1>2. CASE \E e \in Events : Enqueue(e)
  BY <1>2 DEF Enqueue
<1>3. CASE CloseBroadcastCh
  BY <1>3 DEF CloseBroadcastCh
<1>4. CASE Receive
  BY <1>4 DEF Receive, Flush
<1>5. CASE Tick
  BY <1>5 DEF Tick, Flush
<1>6. CASE ReceiveClosed
  BY <1>6 DEF ReceiveClosed, Flush
<1>7. CASE \E sent \in SUBSET publishing : PublishReturns(sent)
  BY <1>7 DEF PublishReturns
<1> QED BY <1>1, <1>2, <1>3, <1>4, <1>5, <1>6, <1>7 DEF Next, LoopStep

\* broadcastDone is closed only after everything the channel took has been published
\* or coalesced: the loop drains the closed channel and flushes its window.
THEOREM DoneMeansDrained == Spec => []DrainedWhenDone
<1>1. Init => LoopEnds
  BY DEF Init, LoopEnds
<1>2. LoopEnds => DrainedWhenDone
  BY DEF LoopEnds, DrainedWhenDone
<1> QED BY <1>1, <1>2, LoopEndsStep, PTL DEF Spec

\* The loop waits for PublishBatch only when there is a batch.
PublishesSome == loop \in {"select", "done"} \/ publishing # {}

LEMMA PublishesSomeStep == TypeOK /\ PublishesSome /\ [Next]_vars => PublishesSome'
<1> SUFFICES ASSUME TypeOK, PublishesSome, [Next]_vars PROVE PublishesSome'
  OBVIOUS
<1> USE DEF PublishesSome, chanVars, offerVars, fateVars
<1>1. CASE Receive
  <2> DEFINE e == Head(broadcastCh)
             window == upsertLatest(pending, e)
  <2>1. window # {}
    BY DEF upsertLatest, Same
  <2>2. publishing' = window \/ loop' = "select"
    BY <1>1 DEF Receive, Flush
  <2> QED BY <2>1, <2>2
<1>2. CASE Tick \/ ReceiveClosed
  BY <1>2 DEF Tick, ReceiveClosed, Flush
<1>3. CASE \E sent \in SUBSET publishing : PublishReturns(sent)
  BY <1>3 DEF PublishReturns
<1>4. CASE (\E e \in Events : Enqueue(e)) \/ CloseBroadcastCh \/ UNCHANGED vars
  BY <1>4 DEF Enqueue, CloseBroadcastCh, vars
<1> QED BY <1>1, <1>2, <1>3, <1>4 DEF Next, LoopStep

LEMMA NeverWaitsForNothing == Spec => [](TypeOK /\ PublishesSome)
<1>1. Init => PublishesSome
  BY DEF Init, PublishesSome
<1>2. IInv => TypeOK
  BY DEF IInv
<1> QED BY <1>1, <1>2, PublishesSomeStep, Inductive, PTL DEF Spec
=============================================================================
