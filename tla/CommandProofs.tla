---------------------------- MODULE CommandProofs ----------------------------
(***************************************************************************)
(* Proofs about the batcher command, for any events, capacities, retry     *)
(* slots and clients, and about the worker command, for any workers.       *)
(*                                                                         *)
(* The batcher command implements both of its halves: seen through the     *)
(* variables of one half, each of its steps is a step of that half or a    *)
(* stutter.  What is proved of Batcher and Broadcast holds in the command, *)
(* with its shutdown; the instances of the proof modules, PersistP and     *)
(* LiveP, bring those theorems, and their operators are equal to those of  *)
(* the instances Persist and Live the command is built from.               *)
(* Of the command itself: both paths see the same events, the exit leaves  *)
(* nothing behind, and the shutdown never waits for itself.                *)
(***************************************************************************)
EXTENDS BatcherCommand, Supervisor, FiniteSetTheorems, TLAPS

PersistP == INSTANCE BatcherProofs
LiveP    == INSTANCE BroadcastProofs

-----------------------------------------------------------------------------
(* The two instances of a half are the same.                                *)

USE DEF Persist!lockVars, PersistP!lockVars, Persist!connVars, PersistP!connVars,
        Persist!insertVars, PersistP!insertVars, Persist!retryVars, PersistP!retryVars,
        Persist!fateVars, PersistP!fateVars, Persist!mainVars, PersistP!mainVars,
        Live!chanVars, LiveP!chanVars, Live!offerVars, LiveP!offerVars, Live!fateVars,
        LiveP!fateVars

LEMMA PersistBufferEvent ==
  ASSUME NEW e
  PROVE  Persist!BufferEvent(e) <=> PersistP!BufferEvent(e)
BY DEF Persist!BufferEvent, PersistP!BufferEvent, Persist!FlushLocked, PersistP!FlushLocked,
       Persist!FlushRows, PersistP!FlushRows, Persist!InsertBatch, PersistP!InsertBatch,
       Persist!Inserters, PersistP!Inserters, Persist!Cardinality, PersistP!Cardinality

LEMMA PersistTimerFires == Persist!TimerFires <=> PersistP!TimerFires
BY DEF Persist!TimerFires, PersistP!TimerFires

LEMMA PersistTimerCallback == Persist!TimerCallback <=> PersistP!TimerCallback
BY DEF Persist!TimerCallback, PersistP!TimerCallback, Persist!FlushLocked,
       PersistP!FlushLocked, Persist!FlushRows, PersistP!FlushRows, Persist!InsertBatch,
       PersistP!InsertBatch, Persist!Inserters, PersistP!Inserters

LEMMA PersistFlushReturns ==
  ASSUME NEW result
  PROVE  Persist!FlushReturns(result) <=> PersistP!FlushReturns(result)
BY DEF Persist!FlushReturns, PersistP!FlushReturns, Persist!Failed, PersistP!Failed,
       Persist!Returns, PersistP!Returns, Persist!Results, PersistP!Results,
       Persist!Result, PersistP!Result, Persist!ScheduleRetry, PersistP!ScheduleRetry,
       Persist!DropBatch, PersistP!DropBatch, Persist!Inserters, PersistP!Inserters

LEMMA PersistRetryInsert ==
  ASSUME NEW s
  PROVE  Persist!RetryInsert(s) <=> PersistP!RetryInsert(s)
BY DEF Persist!RetryInsert, PersistP!RetryInsert, Persist!InsertBatch, PersistP!InsertBatch,
       Persist!Inserters, PersistP!Inserters

LEMMA PersistRetryReturns ==
  ASSUME NEW s, NEW result
  PROVE  Persist!RetryReturns(s, result) <=> PersistP!RetryReturns(s, result)
BY DEF Persist!RetryReturns, PersistP!RetryReturns, Persist!Failed, PersistP!Failed,
       Persist!Returns, PersistP!Returns, Persist!Results, PersistP!Results,
       Persist!Result, PersistP!Result, Persist!NextAttempt, PersistP!NextAttempt,
       Persist!Release, PersistP!Release, Persist!DropBatch, PersistP!DropBatch

LEMMA PersistDialFails ==
  ASSUME NEW s
  PROVE  Persist!DialFails(s) <=> PersistP!DialFails(s)
BY DEF Persist!DialFails, PersistP!DialFails, Persist!NextAttempt, PersistP!NextAttempt,
       Persist!Release, PersistP!Release, Persist!DropBatch, PersistP!DropBatch

LEMMA PersistDialSucceeds ==
  ASSUME NEW s
  PROVE  Persist!DialSucceeds(s) <=> PersistP!DialSucceeds(s)
BY DEF Persist!DialSucceeds, PersistP!DialSucceeds

LEMMA PersistSwapClient ==
  ASSUME NEW s
  PROVE  Persist!SwapClient(s) <=> PersistP!SwapClient(s)
BY DEF Persist!SwapClient, PersistP!SwapClient

LEMMA PersistCloseOld ==
  ASSUME NEW s
  PROVE  Persist!CloseOld(s) <=> PersistP!CloseOld(s)
BY DEF Persist!CloseOld, PersistP!CloseOld, Persist!NextAttempt, PersistP!NextAttempt,
       Persist!Release, PersistP!Release, Persist!DropBatch, PersistP!DropBatch

LEMMA PersistRetryWgDone == Persist!RetryWgDone <=> PersistP!RetryWgDone
BY DEF Persist!RetryWgDone, PersistP!RetryWgDone

LEMMA PersistDrainAndFlush == Persist!DrainAndFlush <=> PersistP!DrainAndFlush
BY DEF Persist!DrainAndFlush, PersistP!DrainAndFlush

LEMMA PersistDrainFlush == Persist!DrainFlush <=> PersistP!DrainFlush
BY DEF Persist!DrainFlush, PersistP!DrainFlush, Persist!FlushLocked, PersistP!FlushLocked,
       Persist!FlushRows, PersistP!FlushRows, Persist!InsertBatch, PersistP!InsertBatch,
       Persist!Inserters, PersistP!Inserters

LEMMA PersistRetryWgWait == Persist!RetryWgWait <=> PersistP!RetryWgWait
BY DEF Persist!RetryWgWait, PersistP!RetryWgWait

LEMMA PersistInit == Persist!Init <=> PersistP!Init
BY DEF Persist!Init, PersistP!Init, Persist!Inserters, PersistP!Inserters

LEMMA LiveEnqueue ==
  ASSUME NEW e
  PROVE  Live!Enqueue(e) <=> LiveP!Enqueue(e)
BY DEF Live!Enqueue, LiveP!Enqueue, Live!HasRoom, LiveP!HasRoom

LEMMA LiveCloseBroadcastCh == Live!CloseBroadcastCh <=> LiveP!CloseBroadcastCh
BY DEF Live!CloseBroadcastCh, LiveP!CloseBroadcastCh

LEMMA LiveReceive == Live!Receive <=> LiveP!Receive
BY DEF Live!Receive, LiveP!Receive, Live!upsertLatest, LiveP!upsertLatest, Live!Same,
       LiveP!Same, Live!Flush, LiveP!Flush, Live!Cardinality, LiveP!Cardinality

LEMMA LiveTick == Live!Tick <=> LiveP!Tick
BY DEF Live!Tick, LiveP!Tick, Live!Flush, LiveP!Flush

LEMMA LiveReceiveClosed == Live!ReceiveClosed <=> LiveP!ReceiveClosed
BY DEF Live!ReceiveClosed, LiveP!ReceiveClosed, Live!Flush, LiveP!Flush

LEMMA LivePublishReturns ==
  ASSUME NEW sent
  PROVE  Live!PublishReturns(sent) <=> LiveP!PublishReturns(sent)
BY DEF Live!PublishReturns, LiveP!PublishReturns

LEMMA LiveInit == Live!Init <=> LiveP!Init
BY DEF Live!Init, LiveP!Init

HIDE DEF Persist!lockVars, PersistP!lockVars, Persist!connVars, PersistP!connVars,
         Persist!insertVars, PersistP!insertVars, Persist!retryVars, PersistP!retryVars,
         Persist!fateVars, PersistP!fateVars, Persist!mainVars, PersistP!mainVars,
         Live!chanVars, LiveP!chanVars, Live!offerVars, LiveP!offerVars, Live!fateVars,
         LiveP!fateVars

-----------------------------------------------------------------------------
(* Every step of the command is a step, or a stutter, of each half.         *)

\* The callback only carries events, so BufferEvent and Enqueue get nothing else.
Carried == inbox \subseteq Events \cup Invalid /\ handling \in Events \cup {NoMsg}

LEMMA CarriedStep == Carried /\ [Next]_vars => Carried'
BY DEF Carried, Next, vars, procVars, Deliver, HandleInvalid, HandleEnqueue, NextMsg,
       HandleBuffer, NatsDrained, PersistStep, LiveStep, Shutdown, DrainFlush, RetryWgWait,
       CloseBroadcastCh, Exit

\* The steps of the command that one half takes part in.
LEMMA PersistSteps == Carried /\ [Next]_vars => [PersistP!Next]_PersistP!vars
<1> SUFFICES ASSUME Carried, [Next]_vars PROVE PersistP!Next \/ UNCHANGED persistVars
  BY DEF PersistP!vars, PersistP!lockVars, PersistP!connVars, PersistP!insertVars,
     PersistP!retryVars, PersistP!fateVars, PersistP!mainVars, persistVars
<1>1. CASE PersistStep
  <2>1. ASSUME NEW s \in Slots, Persist!RetryStep(s) PROVE PersistP!RetryStep(s)
    BY <2>1, PersistRetryInsert, PersistRetryReturns, PersistDialFails, PersistDialSucceeds,
       PersistSwapClient, PersistCloseOld
       DEF Persist!RetryStep, PersistP!RetryStep, Persist!Result, PersistP!Result
  <2>2. ASSUME NEW result \in Persist!Result, Persist!FlushReturns(result)
        PROVE  result \in PersistP!Result /\ PersistP!FlushReturns(result)
    BY <2>2, PersistFlushReturns DEF Persist!Result, PersistP!Result
  <2> QED BY <1>1, <2>1, <2>2, PersistTimerFires, PersistTimerCallback, PersistRetryWgDone
          DEF PersistStep, PersistP!Next
<1>2. CASE HandleBuffer
  <2>1. handling \in Events /\ Persist!BufferEvent(handling)
    BY <1>2 DEF HandleBuffer, Carried
  <2> QED BY <2>1, PersistBufferEvent DEF PersistP!Next
<1>3. CASE Shutdown
  BY <1>3, PersistDrainAndFlush DEF Shutdown, PersistP!Next
<1>4. CASE DrainFlush
  BY <1>4, PersistDrainFlush DEF DrainFlush, PersistP!Next
<1>5. CASE RetryWgWait
  BY <1>5, PersistRetryWgWait DEF RetryWgWait, PersistP!Next
<1>6. CASE \/ \E m \in Events \cup Invalid : Deliver(m) \/ HandleInvalid(m) \/ HandleEnqueue(m)
           \/ NatsDrained \/ LiveStep \/ CloseBroadcastCh \/ Exit \/ UNCHANGED vars
  BY <1>6 DEF Deliver, HandleInvalid, HandleEnqueue, NatsDrained, LiveStep, CloseBroadcastCh,
     Exit, vars
<1> QED BY <1>1, <1>2, <1>3, <1>4, <1>5, <1>6 DEF Next

LEMMA LiveSteps == Carried /\ [Next]_vars => [LiveP!Next]_LiveP!vars
<1> SUFFICES ASSUME Carried, [Next]_vars PROVE LiveP!Next \/ UNCHANGED liveVars
  BY DEF LiveP!vars, LiveP!chanVars, LiveP!offerVars, LiveP!fateVars, liveVars
<1>1. ASSUME NEW m \in Events \cup Invalid, HandleEnqueue(m)
      PROVE  LiveP!Next \/ UNCHANGED liveVars
  BY <1>1, LiveEnqueue DEF HandleEnqueue, LiveP!Next
<1>2. CASE LiveStep
  BY <1>2, LiveReceive, LiveTick, LiveReceiveClosed, LivePublishReturns
     DEF LiveStep, Live!LoopStep, LiveP!LoopStep, LiveP!Next
<1>3. CASE CloseBroadcastCh
  BY <1>3, LiveCloseBroadcastCh DEF CloseBroadcastCh, LiveP!Next
<1>4. CASE \/ \E m \in Events \cup Invalid : Deliver(m) \/ HandleInvalid(m)
           \/ HandleBuffer \/ NatsDrained \/ PersistStep \/ Shutdown \/ DrainFlush
           \/ RetryWgWait \/ Exit \/ UNCHANGED vars
  BY <1>4 DEF Deliver, HandleInvalid, HandleBuffer, NatsDrained, PersistStep, Shutdown,
     DrainFlush, RetryWgWait, Exit, vars
<1> QED BY <1>1, <1>2, <1>3, <1>4 DEF Next

LEMMA CarriedAlways == Spec => []Carried
<1>1. Init => Carried
  BY DEF Init, Carried
<1> QED BY <1>1, CarriedStep, PTL DEF Spec

\* The command implements Batcher: all that is proved of the ClickHouse half holds in
\* the command, whatever NATS delivers and whenever the shutdown begins.
THEOREM CommandImplementsBatcher == Spec => PersistP!Spec
<1>1. Init => PersistP!Init
  BY PersistInit DEF Init
<1> QED BY <1>1, CarriedAlways, PersistSteps, PTL DEF Spec, PersistP!Spec

\* The command implements Broadcast: the same for the live half.
THEOREM CommandImplementsBroadcast == Spec => LiveP!Spec
<1>1. Init => LiveP!Init
  BY LiveInit DEF Init
<1> QED BY <1>1, CarriedAlways, LiveSteps, PTL DEF Spec, LiveP!Spec

-----------------------------------------------------------------------------
(* The two paths, and the exit.                                             *)

\* No step of the ClickHouse half but BufferEvent accepts an event, and none leaves
\* the end of DrainAndFlush: the last flush of main is over by then.
LEMMA AcceptsNothing ==
  ASSUME PersistStep \/ Shutdown \/ DrainFlush \/ RetryWgWait
  PROVE  accepted' = accepted
BY DEF PersistStep, Shutdown, DrainFlush, RetryWgWait, Persist!TimerFires,
       Persist!TimerCallback, Persist!FlushReturns, Persist!RetryStep, Persist!RetryInsert,
       Persist!RetryReturns,
       Persist!DialFails, Persist!DialSucceeds, Persist!SwapClient, Persist!CloseOld,
       Persist!RetryWgDone, Persist!DrainAndFlush, Persist!DrainFlush, Persist!RetryWgWait,
       Persist!lockVars

\* Whatever is buffered has been offered to the live path first, and nothing else has
\* but the event between the two: no event is on one path only, for any sets of events.
THEOREM SameEventsOnBothPaths == Spec => []PathsAgree
<1>1. Init => PathsAgree
  BY DEF Init, Persist!Init, Live!Init, PathsAgree
<1>2. Carried /\ PathsAgree /\ [Next]_vars => PathsAgree'
  <2> SUFFICES ASSUME Carried, PathsAgree, [Next]_vars PROVE PathsAgree'
    OBVIOUS
  <2>1. ASSUME NEW m \in Events \cup Invalid, HandleEnqueue(m) PROVE PathsAgree'
    <3>1. CASE chClosed
      BY <2>1, <3>1 DEF HandleEnqueue, PathsAgree, persistVars, liveVars
    <3>2. CASE ~chClosed
      <4>1. /\ m \in Events /\ handling = NoMsg /\ handling' = m /\ accepted' = accepted
            /\ offered' = offered \cup {m}
        BY <2>1, <3>2 DEF HandleEnqueue, NextMsg, CallbackIdle, Live!Enqueue, persistVars
      <4>2. m # NoMsg
        BY <4>1, BatcherCommandAssumption
      <4> QED BY <4>1, <4>2 DEF PathsAgree
    <3> QED BY <3>1, <3>2
  <2>2. CASE HandleBuffer
    <3>1. /\ handling # NoMsg /\ handling' = NoMsg /\ offered' = offered
          /\ accepted' = accepted \cup {handling}
      BY <2>2 DEF HandleBuffer, Persist!BufferEvent, liveVars
    <3> QED BY <3>1 DEF PathsAgree
  <2>3. CASE PersistStep \/ Shutdown \/ DrainFlush \/ RetryWgWait
    <3>1. offered' = offered /\ handling' = handling
      BY <2>3 DEF PersistStep, Shutdown, DrainFlush, RetryWgWait, liveVars, procVars
    <3> QED BY <2>3, <3>1, AcceptsNothing DEF PathsAgree
  <2>4. CASE LiveStep \/ CloseBroadcastCh
    <3>1. offered' = offered /\ accepted' = accepted /\ handling' = handling
      BY <2>4 DEF LiveStep, CloseBroadcastCh, Live!LoopStep, Live!Receive, Live!Tick,
         Live!ReceiveClosed, Live!PublishReturns, Live!CloseBroadcastCh, Live!offerVars,
         persistVars, procVars
    <3> QED BY <3>1 DEF PathsAgree
  <2>5. CASE \/ \E m \in Events \cup Invalid : Deliver(m) \/ HandleInvalid(m)
             \/ NatsDrained \/ Exit \/ UNCHANGED vars
    BY <2>5 DEF Deliver, HandleInvalid, NatsDrained, Exit, vars, persistVars, liveVars,
       procVars, PathsAgree
  <2> QED BY <2>1, <2>2, <2>3, <2>4, <2>5 DEF Next
<1> QED BY <1>1, <1>2, CarriedAlways, PTL DEF Spec

\* The assumptions of the proofs about each half are those of the command.
LEMMA PersistAssumed == PersistP!BatcherAssumption
BY BatcherCommandAssumption DEF PersistP!BatcherAssumption, Persist!BatcherAssumption

LEMMA LiveAssumed == LiveP!BroadcastAssumption
BY BatcherCommandAssumption DEF LiveP!BroadcastAssumption, Live!BroadcastAssumption

\* The channel is closed only after DrainAndFlush has waited for the retries, and the
\* process exits only after broadcastLoop has returned.
Phases ==
  /\ chClosed => main = "drained"
  /\ proc = "exited" => chClosed /\ loop = "done"

\* DrainAndFlush stays at its end: the flush main made under mu is over by then.
LEMMA DrainedForGood ==
  ASSUME PersistP!IInv, [Next]_vars, main = "drained"
  PROVE  main' = "drained"
<1>1. mu = "main" => main = "flushing"
  BY DEF PersistP!IInv, PersistP!Clients, PersistP!MutexHeldByFlush
<1>2. CASE PersistStep
  BY <1>1, <1>2 DEF PersistStep, Persist!TimerFires, Persist!TimerCallback,
     Persist!FlushReturns, Persist!RetryStep, Persist!RetryInsert, Persist!RetryReturns,
     Persist!DialFails,
     Persist!DialSucceeds, Persist!SwapClient, Persist!CloseOld, Persist!RetryWgDone,
     Persist!mainVars
<1>3. CASE HandleBuffer
  BY <1>3 DEF HandleBuffer, Persist!BufferEvent, Persist!mainVars
<1>4. CASE Shutdown \/ DrainFlush \/ RetryWgWait
  BY <1>4 DEF Shutdown, DrainFlush, RetryWgWait, Persist!DrainAndFlush, Persist!DrainFlush,
     Persist!RetryWgWait
<1>5. CASE \/ \E m \in Events \cup Invalid : Deliver(m) \/ HandleInvalid(m) \/ HandleEnqueue(m)
           \/ NatsDrained \/ LiveStep \/ CloseBroadcastCh \/ Exit \/ UNCHANGED vars
  BY <1>5 DEF Deliver, HandleInvalid, HandleEnqueue, NatsDrained, LiveStep, CloseBroadcastCh,
     Exit, vars, persistVars
<1> QED BY <1>2, <1>3, <1>4, <1>5 DEF Next

LEMMA PhasesStep == PersistP!IInv /\ Phases /\ [Next]_vars => Phases'
<1> SUFFICES ASSUME PersistP!IInv, Phases, [Next]_vars PROVE Phases'
  OBVIOUS
<1>1. main = "drained" => main' = "drained"
  BY DrainedForGood
<1>2. CASE CloseBroadcastCh
  BY <1>1, <1>2 DEF CloseBroadcastCh, Phases, procVars
<1>3. CASE Exit
  BY <1>1, <1>3 DEF Exit, Phases, liveVars
<1>4. CASE LiveStep
  <2>1. chClosed' = chClosed /\ proc = "up" /\ proc' = proc
    BY <1>4 DEF LiveStep, Live!LoopStep, Live!Receive, Live!Tick, Live!ReceiveClosed,
       Live!PublishReturns, Live!chanVars, procVars
  <2> QED BY <1>1, <2>1 DEF Phases
<1>5. ASSUME NEW m \in Events \cup Invalid, HandleEnqueue(m) PROVE Phases'
  <2>1. proc = "up" /\ proc' # "exited" /\ chClosed' = chClosed
    BY <1>5 DEF HandleEnqueue, NextMsg, Live!Enqueue, liveVars
  <2> QED BY <1>1, <2>1 DEF Phases
<1>6. CASE \/ \E m \in Events \cup Invalid : Deliver(m) \/ HandleInvalid(m)
           \/ HandleBuffer \/ NatsDrained \/ PersistStep \/ Shutdown \/ DrainFlush
           \/ RetryWgWait \/ UNCHANGED vars
  BY <1>1, <1>6 DEF Deliver, HandleInvalid, HandleBuffer, NatsDrained, PersistStep, Shutdown,
     DrainFlush, RetryWgWait, vars, liveVars, procVars, Phases
<1> QED BY <1>2, <1>3, <1>4, <1>5, <1>6 DEF Next

LEMMA PhasesAlways == Spec => []Phases
<1>1. Init => Phases
  BY DEF Init, Live!Init, Phases
<1>2. PersistP!Spec => []PersistP!IInv
  BY PersistAssumed, PersistP!IInvInductive
<1> QED BY <1>1, <1>2, PhasesStep, CommandImplementsBatcher, PTL DEF Spec

\* Whatever the shutdown cuts into, the process exits only when all that was buffered
\* as DrainAndFlush took mu is stored or given up on, and the live path is empty.
THEOREM ExitLeavesNothing == Spec => []ExitIsClean
<1>2. PersistP!Spec => []PersistP!DrainSettles
  BY PersistAssumed, PersistP!DrainComplete
<1>3. LiveP!Spec => []LiveP!DrainedWhenDone
  BY LiveAssumed, LiveP!DoneMeansDrained
<1>4. Spec => []Phases
  BY PhasesAlways
<1>5. Phases /\ PersistP!DrainSettles /\ LiveP!DrainedWhenDone => ExitIsClean
  BY DEF Phases, PersistP!DrainSettles, LiveP!DrainedWhenDone, PersistP!Settled, Settled,
     ExitIsClean
<1> QED
  BY <1>2, <1>3, <1>4, <1>5, CommandImplementsBatcher, CommandImplementsBroadcast, PTL

\* Once the signal has come, and until the process ends, the wait of one of those that
\* take part in the shutdown is over: they never all wait for one another.
THEOREM ShutdownGoesOn == Spec => [](proc = "up" /\ main # "running" => SomeWaitIsOver)
<1>1. PersistP!Spec => [](PersistP!IInv /\ PersistP!RetryInsideDo)
  <2>1. PersistP!Spec => []PersistP!IInv
    BY PersistAssumed, PersistP!IInvInductive
  <2>2. PersistP!Spec => []PersistP!RetryInsideDo
    BY PersistAssumed, PersistP!RetryInsertsReturn
  <2> QED BY <2>1, <2>2, PTL
<1>2. LiveP!Spec => [](LiveP!TypeOK /\ LiveP!PublishesSome)
  BY LiveAssumed, LiveP!NeverWaitsForNothing
<1>3. PersistP!IInv /\ PersistP!RetryInsideDo /\ LiveP!TypeOK /\ LiveP!PublishesSome
        => (main # "running" => SomeWaitIsOver)
  <2> SUFFICES ASSUME PersistP!IInv, PersistP!RetryInsideDo, LiveP!TypeOK, LiveP!PublishesSome,
                      main # "running"
               PROVE  SomeWaitIsOver
    OBVIOUS
  <2>1. /\ main \in {"locking", "flushing", "waiting", "drained"}
        /\ \A s \in Slots : retry[s] \in {"free", "sleeping", "inserting", "dialing", "swapping", "closing"}
        /\ mu # "free" => insert[Flusher] # "none"
        /\ mu = "main" <=> main = "flushing"
    BY DEF PersistP!IInv, PersistP!TypeOK, PersistP!RetryPC, PersistP!Clients,
           PersistP!MutexHeldByFlush
  <2>2. CASE mu # "free"
    BY <2>1, <2>2 DEF SomeWaitIsOver
  <2>3. CASE mu = "free" /\ \E s \in Slots : retry[s] # "free"
    BY <2>1, <2>3 DEF SomeWaitIsOver, PersistP!RetryInsideDo
  <2>4. CASE mu = "free" /\ (\A s \in Slots : retry[s] = "free") /\ main # "drained"
    BY <2>1, <2>4 DEF SomeWaitIsOver
  <2>5. CASE main = "drained"
    BY <2>5 DEF SomeWaitIsOver, LiveP!PublishesSome
  <2> QED BY <2>2, <2>3, <2>4, <2>5
<1> QED
  BY <1>1, <1>2, <1>3, CommandImplementsBatcher, CommandImplementsBroadcast, PTL

\* What has been appended and neither stored nor given up on, if the process ends now
\* or has ended: nothing owns it any more.
LostAtEnd == (accepted \ Settled) \cup (accepted \cap PersistP!Held)

\* In the command, with its callback and its shutdown: a batch is settled as a whole and
\* once, and each event offered to the live path is in exactly one place of it. While
\* the process runs, no event that was appended is without an owner. When it has
\* exited, the owners are gone, and what is lost are events that HandleMsg appended
\* after DrainAndFlush had taken mu for its flush, and only those: Conn.Drain does not
\* wait for the callbacks. (A panic can lose anything.)
THEOREM CommandAccounts ==
  Spec => /\ PersistP!ImplementsLedger
          /\ []LiveP!HandledOnce
          /\ [](proc = "up" => PersistP!NothingLost)
          /\ [](proc = "exited" => LostAtEnd \cap cut = {})
<1>1. PersistP!Spec => PersistP!ImplementsLedger
  BY PersistAssumed, PersistP!BatcherImplementsLedger
<1>2. PersistP!Spec => []PersistP!NothingLost
  BY PersistAssumed, PersistP!NeverLost
<1>3. LiveP!Spec => []LiveP!HandledOnce
  BY LiveAssumed, LiveP!NothingLostOrRepeated
<1>4. Spec => []Phases
  BY PhasesAlways
<1>5. PersistP!Spec => []PersistP!DrainSettles
  BY PersistAssumed, PersistP!DrainComplete
<1>6. PersistP!NothingLost => (proc = "up" => PersistP!NothingLost)
  OBVIOUS
<1>7. Phases /\ PersistP!DrainSettles => (proc = "exited" => LostAtEnd \cap cut = {})
  BY DEF Phases, PersistP!DrainSettles, PersistP!Settled, Settled, LostAtEnd
<1> QED
  BY <1>1, <1>2, <1>3, <1>4, <1>5, <1>6, <1>7, CommandImplementsBatcher,
     CommandImplementsBroadcast, PTL

-----------------------------------------------------------------------------
(* The worker command.  A worker returns an error only when its context is   *)
(* done, and the context is done because of a cancel or because of such an   *)
(* error: the two together are inductive, so the first error needs a cancel. *)

WorkerInv == TypeOK /\ FeedsAreIndependent /\ CleanReturn

\* A step that changes no worker and no context, and reaches no later stage of
\* runWorker, keeps the two properties.
LEMMA GroupKept ==
  ASSUME WorkerInv, UNCHANGED <<worker, groupErr>>, cancelled => cancelled',
         cmd' \in {"closing", "returned"} => cmd \in {"closing", "returned"}
  PROVE  FeedsAreIndependent' /\ CleanReturn'
BY DEF WorkerInv, FeedsAreIndependent, CleanReturn

LEMMA CommandStepKeeps == ASSUME WorkerInv, CommandStep PROVE WorkerInv'
<1>1. CASE Connect
  <2>1. TypeOK'
    BY <1>1 DEF Connect, WorkerInv, TypeOK, groupVars
  <2>2. FeedsAreIndependent' /\ CleanReturn'
    BY <1>1, GroupKept DEF Connect, groupVars
  <2> QED BY <2>1, <2>2 DEF WorkerInv
<1>2. CASE ConnectFails
  <2>1. TypeOK'
    BY <1>2
       DEF ConnectFails, WorkerInv, TypeOK, groupVars,
           signalVars
  <2>2. FeedsAreIndependent' /\ CleanReturn'
    BY <1>2, GroupKept DEF ConnectFails, groupVars
  <2> QED BY <2>1, <2>2 DEF WorkerInv
<1>3. ASSUME NEW w \in Workers, Launch(w) PROVE WorkerInv'
  <2>1. TypeOK'
    BY <1>3 DEF Launch, WorkerInv, TypeOK, signalVars
  <2>2. FeedsAreIndependent'
    BY <1>3 DEF Launch, WorkerInv, TypeOK, FeedsAreIndependent
  <2>3. CleanReturn'
    BY <1>3 DEF Launch, CleanReturn
  <2> QED BY <2>1, <2>2, <2>3 DEF WorkerInv
<1>4. CASE AllLaunched
  <2>1. TypeOK'
    BY <1>4
       DEF AllLaunched, WorkerInv, TypeOK, groupVars,
           signalVars
  <2>2. FeedsAreIndependent' /\ CleanReturn'
    BY <1>4, GroupKept DEF AllLaunched, groupVars
  <2> QED BY <2>1, <2>2 DEF WorkerInv
<1>5. CASE Wait
  <2>1. TypeOK'
    BY <1>5 DEF Wait, WorkerInv, TypeOK, groupVars, signalVars
  <2>2. FeedsAreIndependent' /\ CleanReturn'
    BY <1>5
       DEF Wait, FeedsAreIndependent, CleanReturn, groupVars
  <2> QED BY <2>1, <2>2 DEF WorkerInv
<1>6. CASE CloseNats
  <2>1. TypeOK'
    BY <1>6
       DEF CloseNats, WorkerInv, TypeOK, groupVars, signalVars
  <2>2. FeedsAreIndependent' /\ CleanReturn'
    BY <1>6, GroupKept DEF CloseNats, groupVars
  <2> QED BY <2>1, <2>2 DEF WorkerInv
<1> QED BY <1>1, <1>2, <1>3, <1>4, <1>5, <1>6 DEF CommandStep

LEMMA NotifierKeeps ==
  ASSUME WorkerInv, NotifierStep \/ Signal
  PROVE  WorkerInv'
<1>1. TypeOK'
  <2>1. CASE NotifierStep
    <3>1. UNCHANGED <<cmd, groupVars, signals, second>>
      BY <2>1
         DEF NotifierStep, FirstSignal, CancelledFirst,
             SecondSignal, CancelledSecond, Stop,
             signalVars
    <3>2. /\ notifier' \in {notifier, "second", "stopping", "stopped"}
          /\ sigCh' \in {sigCh, 0} /\ process' \in {process, "exit1"}
          /\ cancelled' \in {cancelled, TRUE}
      BY <2>1
         DEF NotifierStep, FirstSignal, CancelledFirst,
             SecondSignal, CancelledSecond, Stop,
             signalVars
    <3>3. notifier' \in {"none", "first", "second", "stopping", "stopped"} /\ sigCh' \in 0 .. 1
          /\ process' \in {"alive", "exit1", "killed"}
      BY <3>2 DEF WorkerInv, TypeOK
    <3>4. cancelled' \in BOOLEAN
      BY <3>2, Zenon DEF WorkerInv, TypeOK
    <3> QED BY <3>1, <3>3, <3>4 DEF WorkerInv, TypeOK, groupVars
  <2>2. CASE Signal
    <3>1. signals' \in 0 .. maxSignals
      BY <2>2, SupervisorAssumption DEF Signal, WorkerInv, TypeOK
    <3> QED BY <2>2, <3>1 DEF Signal, WorkerInv, TypeOK, groupVars
  <2> QED BY <2>1, <2>2
<1>2. UNCHANGED <<worker, groupErr, cmd>> /\ (cancelled => cancelled')
  BY DEF NotifierStep, FirstSignal, CancelledFirst,
         SecondSignal, CancelledSecond, Stop, Signal,
         groupVars
<1>3. FeedsAreIndependent' /\ CleanReturn'
  BY <1>2, GroupKept
<1> QED BY <1>1, <1>3 DEF WorkerInv

\* runWorker waits for the workers, so a worker that runs or sleeps has not been left.
LEMMA NotLeft ==
  ASSUME WorkerInv, NEW w \in Workers, worker[w] # "stopped"
  PROVE  cmd \notin {"closing", "returned"}
BY DEF WorkerInv, CleanReturn

LEMMA FeedFailsKeeps ==
  ASSUME WorkerInv, NEW w \in Workers, NEW healthy \in BOOLEAN,
         FeedFails(w, healthy)
  PROVE  WorkerInv'
<1>1. TypeOK'
  BY SupervisorAssumption DEF FeedFails, WorkerInv, TypeOK,
           signalVars, initialBackoff, maxBackoff
<1>2. FeedsAreIndependent'
  BY DEF FeedFails, WorkerInv, TypeOK, FeedsAreIndependent
<1>3. CleanReturn'
  BY NotLeft DEF FeedFails, CleanReturn
<1> QED BY <1>1, <1>2, <1>3 DEF WorkerInv

LEMMA BackoffEndsKeeps ==
  ASSUME WorkerInv, NEW w \in Workers,
         BackoffEnds(w)
  PROVE  WorkerInv'
<1>1. TypeOK'
  <2>1. Min2(backoff[w] * 2, maxBackoff)
          \in initialBackoff .. maxBackoff
    BY DEF WorkerInv, TypeOK, Min2, initialBackoff, maxBackoff
  <2>2. Min2(failures[w] + 1, maxFailures) \in 0 .. maxFailures
    BY SupervisorAssumption DEF WorkerInv, TypeOK, Min2
  <2> QED BY <2>1, <2>2 DEF BackoffEnds, WorkerInv, TypeOK, signalVars
<1>2. FeedsAreIndependent'
  BY DEF BackoffEnds, WorkerInv, TypeOK, FeedsAreIndependent
<1>3. CleanReturn'
  BY NotLeft DEF BackoffEnds, CleanReturn
<1> QED BY <1>1, <1>2, <1>3 DEF WorkerInv

\* The only step that makes a worker return, and the errgroup fail: it needs a
\* context that is done, and WorkerInv says what that takes.
LEMMA WindDownKeeps ==
  ASSUME WorkerInv, NEW w \in Workers, WindDown(w)
  PROVE  WorkerInv'
<1>1. /\ worker[w] # "stopped" /\ Done /\ groupErr' = TRUE
      /\ worker' = [worker EXCEPT ![w] = "stopped"]
      /\ UNCHANGED <<cmd, backoff, failures, signalVars, cancelled, process>>
  BY DEF WindDown, FeedCancelled, SleepCancelled
<1>2. TypeOK'
  BY <1>1 DEF WorkerInv, TypeOK, signalVars
<1>3. FeedsAreIndependent'
  BY <1>1 DEF WorkerInv, FeedsAreIndependent, Done
<1>4. CleanReturn'
  BY <1>1, NotLeft DEF CleanReturn
<1> QED BY <1>2, <1>3, <1>4 DEF WorkerInv

LEMMA WorkerInvInductive == SpecWorkers => []WorkerInv
<1>1. InitWorkers => WorkerInv
  <2> SUFFICES ASSUME InitWorkers PROVE WorkerInv
    OBVIOUS
  <2>1. 1 \in initialBackoff .. maxBackoff /\ initialBackoff = 1
    BY DEF initialBackoff, maxBackoff
  <2>2. 0 \in 0 .. maxFailures /\ 0 \in 0 .. maxSignals
    BY SupervisorAssumption
  <2>3. TypeOK
    <3>1. /\ backoff \in [Workers -> initialBackoff .. maxBackoff]
          /\ failures \in [Workers -> 0 .. maxFailures]
          /\ worker \in [Workers -> {"none", "running", "sleeping", "stopped"}]
      BY <2>1, <2>2 DEF InitWorkers
    <3>2. groupErr \in BOOLEAN /\ cancelled \in BOOLEAN /\ second \in BOOLEAN
      BY DEF InitWorkers
    <3>3. signals \in 0 .. maxSignals /\ sigCh \in 0 .. 1
      BY <2>2 DEF InitWorkers
    <3> QED BY <3>1, <3>2, <3>3 DEF InitWorkers, TypeOK
  <2>4. FeedsAreIndependent
    BY DEF InitWorkers, FeedsAreIndependent
  <2>5. CleanReturn
    BY DEF InitWorkers, CleanReturn
  <2> QED BY <2>3, <2>4, <2>5 DEF WorkerInv
<1>2. WorkerInv /\ [NextWorkers]_workerVars => WorkerInv'
  <2> SUFFICES ASSUME WorkerInv, [NextWorkers]_workerVars PROVE WorkerInv'
    OBVIOUS
  <2>1. CASE CommandStep
    BY <2>1, CommandStepKeeps
  <2>2. CASE NotifierStep \/ Signal
    BY <2>2, NotifierKeeps
  <2>3. ASSUME NEW w \in Workers, NEW healthy \in BOOLEAN, FeedFails(w, healthy)
        PROVE  WorkerInv'
    BY <2>3, FeedFailsKeeps
  <2>4. ASSUME NEW w \in Workers, WindDown(w) PROVE WorkerInv'
    BY <2>4, WindDownKeeps
  <2>5. ASSUME NEW w \in Workers, BackoffEnds(w) PROVE WorkerInv'
    BY <2>5, BackoffEndsKeeps
  <2>6. CASE UNCHANGED workerVars
    BY <2>6
       DEF WorkerInv, TypeOK, FeedsAreIndependent, CleanReturn,
           workerVars
  <2> QED BY <2>1, <2>2, <2>3, <2>4, <2>5, <2>6 DEF NextWorkers
<1> QED BY <1>1, <1>2, PTL DEF SpecWorkers

\* Every variable keeps its range: in particular no back-off is shorter than a
\* second or longer than a minute (RunWithReconnect).
THEOREM WorkerTypeSafe == SpecWorkers => []TypeOK
<1>1. WorkerInv => TypeOK
  BY DEF WorkerInv
<1> QED BY <1>1, WorkerInvInductive, PTL

\* However many integrations there are, one that fails never ends another
\* (RunWithReconnect returns only when its context is cancelled).
THEOREM NoFeedEndsAnother == SpecWorkers => []FeedsAreIndependent
<1>1. WorkerInv => FeedsAreIndependent
  BY DEF WorkerInv
<1> QED BY <1>1, WorkerInvInductive, PTL

\* runWorker closes nothing that a worker still uses.
THEOREM ReturnIsClean == SpecWorkers => []CleanReturn
<1>1. WorkerInv => CleanReturn
  BY DEF WorkerInv
<1> QED BY <1>1, WorkerInvInductive, PTL

-----------------------------------------------------------------------------
(* The back-off of RunWithReconnect: it doubles with each failure in a row   *)
(* and stops at a minute, so after n failures it is 2^n seconds or a minute. *)
(* The library says of a power of 2 that it counts subsets, and no more:     *)
(* that it doubles is proved from that.                                      *)

\* A set with one element more has twice as many subsets: with n and without it.
LEMMA PowerDoubles ==
  ASSUME NEW n \in Nat
  PROVE  2 ^ n \in Nat /\ 2 ^ (n + 1) = 2 * 2 ^ n
<1> DEFINE x == n + 1
           S == 1 .. n
           A == SUBSET S
           f == [X \in A |-> X \cup {x}]
           B == {X \cup {x} : X \in A}
<1>1. /\ IsFiniteSet(S) /\ Cardinality(S) = n
      /\ IsFiniteSet(1 .. x) /\ Cardinality(1 .. x) = x
  <2>1. n \in Int /\ x \in Int /\ 1 \in Int
    OBVIOUS
  <2> QED BY <2>1, FS_Interval
<1>2. IsFiniteSet(A) /\ Cardinality(A) = 2 ^ n
  BY <1>1, FS_SUBSET
<1>3. Cardinality(SUBSET (1 .. x)) = 2 ^ x
  BY <1>1, FS_SUBSET
<1>4. x \notin S /\ 1 .. x = S \cup {x}
  OBVIOUS
<1>5. IsFiniteSet(B) /\ Cardinality(B) = Cardinality(A)
  <2>1. f \in Bijection(A, B)
    <3>1. f \in [A -> B] /\ \A Y \in B : \E X \in A : f[X] = Y
      OBVIOUS
    <3>2. \A X, Y \in A : f[X] = f[Y] => X = Y
      BY <1>4
    <3> QED BY <3>1, <3>2 DEF Bijection, Injection, Surjection, IsInjective
  <2>2. ExistsBijection(A, B)
    BY <2>1 DEF ExistsBijection
  <2> QED BY <1>2, <2>2, FS_Bijection
<1>6. SUBSET (1 .. x) = A \cup B
  <2>1. ASSUME NEW X \in SUBSET (S \cup {x}) PROVE X \in A \cup B
    <3>1. CASE x \in X
      <4>1. X = (X \ {x}) \cup {x} /\ X \ {x} \in A
        BY <3>1
      <4> QED BY <4>1
    <3>2. CASE x \notin X
      BY <3>2
    <3> QED BY <3>1, <3>2
  <2>2. ASSUME NEW X \in A \cup B PROVE X \in SUBSET (S \cup {x})
    OBVIOUS
  <2> QED BY <1>4, <2>1, <2>2
<1>7. A \cap B = {}
  BY <1>4
<1> HIDE DEF x, S, A, B, f
<1>8. Cardinality(A \cup B) = Cardinality(A) + Cardinality(B) - Cardinality({})
  BY <1>2, <1>5, <1>7, FS_Union
<1>9. Cardinality({}) = 0 /\ Cardinality(A) \in Nat
  BY <1>2, FS_EmptySet, FS_CardinalityType
<1>10. Cardinality(A \cup B) = 2 * Cardinality(A)
  BY <1>5, <1>8, <1>9
<1> QED BY <1>2, <1>3, <1>6, <1>9, <1>10 DEF x

\* The empty set has one subset.
LEMMA PowerOfNone == 2 ^ 0 = 1
<1>1. IsFiniteSet({}) /\ Cardinality({}) = 0
  BY FS_EmptySet
<1>2. Cardinality(SUBSET {}) = 2 ^ 0
  BY <1>1, FS_SUBSET
<1>3. SUBSET {} = {{}}
  OBVIOUS
<1> QED BY <1>2, <1>3, FS_Singleton

\* The back-off of every worker whose failures are still counted, in every state it
\* can be in: asleep, on its next attempt, or stopped.
BackoffFits ==
  \A w \in Workers :
    failures[w] < maxFailures => backoff[w] = Min2(2 ^ failures[w], maxBackoff)

\* Doubling after the cap, and capping again, is capping the doubled value.
LEMMA NextBackoff ==
  ASSUME NEW n \in Nat
  PROVE  Min2(Min2(2 ^ n, maxBackoff) * 2, maxBackoff) = Min2(2 ^ (n + 1), maxBackoff)
<1>1. ASSUME NEW p \in Nat
      PROVE  Min2(Min2(p, maxBackoff) * 2, maxBackoff) = Min2(2 * p, maxBackoff)
  BY DEF Min2, maxBackoff
<1> QED BY <1>1, PowerDoubles

LEMMA BackoffFitsInductive == SpecWorkers => []BackoffFits
<1>1. InitWorkers => BackoffFits
  <2>1. Min2(2 ^ 0, maxBackoff) = 1
    BY PowerOfNone DEF Min2, maxBackoff
  <2> QED BY <2>1 DEF InitWorkers, BackoffFits, initialBackoff
<1>2. TypeOK /\ BackoffFits /\ [NextWorkers]_workerVars => BackoffFits'
  <2> SUFFICES ASSUME TypeOK, BackoffFits, [NextWorkers]_workerVars PROVE BackoffFits'
    OBVIOUS
  <2>1. CASE UNCHANGED <<backoff, failures>>
    BY <2>1 DEF BackoffFits
  <2>2. ASSUME NEW w \in Workers, FeedFails(w, TRUE) PROVE BackoffFits'
    <3>1. /\ backoff' = [backoff EXCEPT ![w] = 1] /\ failures' = [failures EXCEPT ![w] = 0]
          /\ Min2(2 ^ 0, maxBackoff) = 1
      BY <2>2, PowerOfNone DEF FeedFails, Min2, initialBackoff, maxBackoff
    <3>2. failures'[w] = 0 /\ backoff'[w] = 1
      BY <3>1 DEF TypeOK
    <3>3. ASSUME NEW v \in Workers, v # w
          PROVE  failures'[v] = failures[v] /\ backoff'[v] = backoff[v]
      BY <3>1, <3>3 DEF TypeOK
    <3> QED BY <3>1, <3>2, <3>3 DEF BackoffFits
  <2>3. ASSUME NEW w \in Workers, BackoffEnds(w) PROVE BackoffFits'
    <3>1. /\ backoff'[w] = Min2(backoff[w] * 2, maxBackoff)
          /\ failures'[w] = Min2(failures[w] + 1, maxFailures)
          /\ \A v \in Workers \ {w} : failures'[v] = failures[v] /\ backoff'[v] = backoff[v]
      BY <2>3 DEF BackoffEnds, TypeOK
    <3>2. CASE failures'[w] < maxFailures
      <4>1. failures[w] \in Nat /\ failures[w] < maxFailures /\ failures'[w] = failures[w] + 1
        BY <3>1, <3>2, SupervisorAssumption DEF TypeOK, Min2
      <4>2. backoff'[w] = Min2(2 ^ failures'[w], maxBackoff)
        BY <3>1, <4>1, NextBackoff DEF BackoffFits
      <4> QED BY <3>1, <4>2 DEF BackoffFits
    <3>3. CASE ~(failures'[w] < maxFailures)
      BY <3>1, <3>3 DEF BackoffFits
    <3> QED BY <3>2, <3>3
  <2>4. CASE CommandStep \/ NotifierStep \/ Signal \/ UNCHANGED workerVars
    BY <2>1, <2>4 DEF CommandStep, Connect, ConnectFails, Launch, AllLaunched, Wait, CloseNats,
       NotifierStep, FirstSignal, CancelledFirst, SecondSignal, CancelledSecond, Stop, Signal,
       workerVars, groupVars
  <2>5. ASSUME NEW w \in Workers, WindDown(w) \/ FeedFails(w, FALSE) PROVE BackoffFits'
    BY <2>1, <2>5 DEF WindDown, FeedCancelled, SleepCancelled, FeedFails
  <2> QED BY <2>2, <2>3, <2>4, <2>5 DEF NextWorkers
<1> QED BY <1>1, <1>2, WorkerTypeSafe, PTL DEF SpecWorkers

\* The pause before an attempt fits the failures in a row since the last healthy run,
\* for any number of them: 2^n seconds, and a minute from the sixth on.
THEOREM PauseDoubles == SpecWorkers => []PauseFitsFailures
<1>1. BackoffFits => PauseFitsFailures
  BY DEF BackoffFits, PauseFitsFailures
<1> QED BY <1>1, BackoffFitsInductive, PTL
=============================================================================
