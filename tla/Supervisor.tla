------------------------------ MODULE Supervisor ------------------------------
(***************************************************************************)
(* The worker command: runWorker (internal/commands/worker.go) starts one  *)
(* goroutine per integration in an errgroup and waits for all of them;     *)
(* each runs RunWithReconnect (internal/worker/worker.go) around the       *)
(* function that talks to its feed; NotifyCtx (internal/signal/signal.go)  *)
(* cancels their context on a signal.                                      *)
(*                                                                         *)
(* The feed function is external: it fails whenever it likes, after a      *)
(* short or a long run, and returns when its context is cancelled.  The    *)
(* back-off is kept in seconds; otherwise time is the order of steps.      *)
(***************************************************************************)
EXTENDS Integers

CONSTANTS
  Workers,        \* one per integration of the feed type
  maxFailures,    \* bound: failures counted per worker
  maxSignals      \* bound: signals sent to the process

ASSUME SupervisorAssumption ==
  /\ Workers # {}
  /\ maxFailures \in Nat /\ maxSignals \in Nat

initialBackoff == 1
maxBackoff == 60

VARIABLES
  cmd,        \* runWorker: "connecting", "launching", "waiting", "closing", "returned",
              \* "failed"
  worker,     \* "none", "running" (in the feed function), "sleeping", "stopped"
  backoff,    \* RunWithReconnect's local, in seconds
  groupErr,   \* the errgroup has an error, which cancels gctx
  cancelled,  \* the context of NotifyCtx
  notifier,   \* NotifyCtx's goroutine: "none", "first", "second", "stopping", "stopped"
  sigCh,      \* signals in its channel, whose capacity is 1
  process,    \* "alive", "exit1" (os.Exit), "killed" (the default of the signal)
  signals,    \* history: signals sent
  second,     \* history: a signal was sent after the first select had ended
  failures    \* history: failures in a row, after the first, without a healthy run

workerVars == <<cmd, worker, backoff, groupErr, cancelled, notifier, sigCh, process,
          signals, second, failures>>

groupVars == <<worker, backoff, groupErr, failures>>
signalVars == <<notifier, sigCh, signals, second>>

Min2(m, n) == IF m < n THEN m ELSE n

InitWorkers ==
  /\ cmd = "connecting" /\ process = "alive"
  /\ worker = [w \in Workers |-> "none"] /\ backoff = [w \in Workers |-> initialBackoff]
  /\ groupErr = FALSE /\ cancelled = FALSE
  /\ notifier = "none" /\ sigCh = 0 /\ signals = 0 /\ second = FALSE
  /\ failures = [w \in Workers |-> 0]

\* gctx.Done() is closed.
Done == cancelled \/ groupErr

-----------------------------------------------------------------------------
(* runWorker                                                                *)

\* NATS or a database cannot be opened, or the feed type is unknown: newWorker then
\* refuses the first integration, before any worker runs.
ConnectFails ==
  /\ cmd = "connecting"
  /\ cmd' = "failed"
  /\ UNCHANGED <<groupVars, signalVars, cancelled, process>>

Connect ==
  /\ cmd = "connecting"
  /\ cmd' = "launching" /\ notifier' = "first"
  /\ UNCHANGED <<groupVars, cancelled, sigCh, signals, second, process>>

\* g.Go for the next integration.
Launch(w) ==
  /\ cmd = "launching" /\ worker[w] = "none"
  /\ worker' = [worker EXCEPT ![w] = "running"]
  /\ UNCHANGED <<cmd, backoff, groupErr, failures, signalVars, cancelled, process>>

AllLaunched ==
  /\ cmd = "launching" /\ \A w \in Workers : worker[w] # "none"
  /\ cmd' = "waiting"
  /\ UNCHANGED <<groupVars, signalVars, cancelled, process>>

\* g.Wait, and the first deferred calls: the databases and cancel.
Wait ==
  /\ cmd = "waiting" /\ \A w \in Workers : worker[w] = "stopped"
  /\ cmd' = "closing" /\ cancelled' = TRUE
  /\ UNCHANGED <<groupVars, signalVars, process>>

\* The last deferred call closes the NATS connection; the process ends.
CloseNats ==
  /\ cmd = "closing"
  /\ cmd' = "returned"
  /\ UNCHANGED <<groupVars, signalVars, cancelled, process>>

-----------------------------------------------------------------------------
(* RunWithReconnect                                                         *)

\* Mutants of FeedFails: a healthy run does not reset the back-off; the error is
\* returned to the errgroup.
FeedFails_NoReset(w, healthy) ==
  /\ worker[w] = "running" /\ ~Done
  /\ worker' = [worker EXCEPT ![w] = "sleeping"]
  /\ failures' = IF healthy THEN [failures EXCEPT ![w] = 0] ELSE failures
  /\ UNCHANGED <<cmd, backoff, groupErr, signalVars, cancelled, process>>
FeedFails_Returns(w, healthy) ==
  /\ worker[w] = "running" /\ ~Done
  /\ worker' = [worker EXCEPT ![w] = "stopped"] /\ groupErr' = TRUE
  /\ UNCHANGED <<cmd, backoff, failures, signalVars, cancelled, process>>

\* The feed function returns while the context is alive, after a run of more than
\* a minute (healthy) or not; the back-off starts.
FeedFails(w, healthy) ==
  /\ worker[w] = "running" /\ ~Done
  /\ worker' = [worker EXCEPT ![w] = "sleeping"]
  /\ IF healthy
     THEN /\ backoff' = [backoff EXCEPT ![w] = initialBackoff]
          /\ failures' = [failures EXCEPT ![w] = 0]
     ELSE UNCHANGED <<backoff, failures>>
  /\ UNCHANGED <<cmd, groupErr, signalVars, cancelled, process>>

\* The feed function returns and the context is cancelled: its error ends the worker.
FeedCancelled(w) ==
  /\ worker[w] = "running" /\ Done
  /\ worker' = [worker EXCEPT ![w] = "stopped"] /\ groupErr' = TRUE
  /\ UNCHANGED <<cmd, backoff, failures, signalVars, cancelled, process>>

\* Mutant of BackoffEnds: the worker gives up.
BackoffEnds_GivesUp(w) ==
  /\ worker[w] = "sleeping" /\ failures[w] < maxFailures
  /\ worker' = [worker EXCEPT ![w] = "running"]
  /\ backoff' = [backoff EXCEPT ![w] = Min2(@ * 2, maxBackoff)]
  /\ failures' = [failures EXCEPT ![w] = @ + 1]
  /\ UNCHANGED <<cmd, groupErr, signalVars, cancelled, process>>

\* time.After(backoff): the next attempt.  Beyond the bound the count stays.
BackoffEnds(w) ==
  /\ worker[w] = "sleeping"
  /\ worker' = [worker EXCEPT ![w] = "running"]
  /\ backoff' = [backoff EXCEPT ![w] = Min2(@ * 2, maxBackoff)]
  /\ failures' = [failures EXCEPT ![w] = Min2(@ + 1, maxFailures)]
  /\ UNCHANGED <<cmd, groupErr, signalVars, cancelled, process>>

\* Mutant of SleepCancelled: time.Sleep instead of the select.
SleepCancelled_Sleeps(w) == FALSE

\* ctx.Done() during the back-off; if both are ready the select takes either.
SleepCancelled(w) ==
  /\ worker[w] = "sleeping" /\ Done
  /\ worker' = [worker EXCEPT ![w] = "stopped"] /\ groupErr' = TRUE
  /\ UNCHANGED <<cmd, backoff, failures, signalVars, cancelled, process>>

-----------------------------------------------------------------------------
(* NotifyCtx                                                                *)

\* SIGTERM or SIGINT: into the channel if there is room, or the default action if
\* no channel is registered.
Signal ==
  /\ signals < maxSignals /\ signals' = signals + 1
  /\ IF notifier \in {"first", "second", "stopping"}
     THEN sigCh' = 1 /\ UNCHANGED process
     ELSE process' = "killed" /\ UNCHANGED sigCh
  /\ second' = (second \/ (signals > 0 /\ notifier \in {"second", "stopping", "stopped"}))
  /\ UNCHANGED <<cmd, groupVars, cancelled, notifier>>

FirstSignal ==
  /\ notifier = "first" /\ sigCh = 1
  /\ sigCh' = 0 /\ cancelled' = TRUE /\ notifier' = "second"
  /\ UNCHANGED <<cmd, groupVars, signals, second, process>>

\* cancel was called by runWorker: the goroutine goes on to signal.Stop.
CancelledFirst ==
  /\ notifier = "first" /\ cancelled
  /\ notifier' = "stopping"
  /\ UNCHANGED <<cmd, groupVars, cancelled, sigCh, signals, second, process>>

SecondSignal ==
  /\ notifier = "second" /\ sigCh = 1
  /\ process' = "exit1"
  /\ UNCHANGED <<cmd, groupVars, signalVars, cancelled>>

\* The other case of the second select: the context the goroutine itself cancelled.
CancelledSecond ==
  /\ notifier = "second" /\ cancelled
  /\ notifier' = "stopping"
  /\ UNCHANGED <<cmd, groupVars, cancelled, sigCh, signals, second, process>>

\* signal.Stop: from now on signals have their default action.
Stop ==
  /\ notifier = "stopping"
  /\ notifier' = "stopped"
  /\ UNCHANGED <<cmd, groupVars, cancelled, sigCh, signals, second, process>>

-----------------------------------------------------------------------------
CommandStep == Connect \/ ConnectFails \/ (\E w \in Workers : Launch(w)) \/ AllLaunched \/ Wait
               \/ CloseNats

NotifierStep == FirstSignal \/ CancelledFirst \/ SecondSignal \/ CancelledSecond \/ Stop

\* What a worker does of itself once its context is done.
WindDown(w) == FeedCancelled(w) \/ SleepCancelled(w)

\* main has neither returned nor been ended.
Alive == process = "alive" /\ cmd \notin {"returned", "failed"}

NextWorkers ==
  /\ Alive
  /\ \/ CommandStep
     \/ NotifierStep
     \/ Signal
     \/ \E w \in Workers :
          \/ \E healthy \in BOOLEAN : FeedFails(w, healthy)
          \/ WindDown(w)
          \/ BackoffEnds(w)

SpecWorkers == InitWorkers /\ [][NextWorkers]_workerVars

\* Goroutines run and a cancelled feed function returns; timers are left out, so
\* that a shutdown which has to wait for one does not count as ending.
FairSpec ==
  /\ SpecWorkers
  /\ WF_workerVars(Alive /\ CommandStep)
  /\ \A w \in Workers : WF_workerVars(Alive /\ WindDown(w))

-----------------------------------------------------------------------------
(* Properties                                                               *)

TypeOK ==
  /\ cmd \in {"connecting", "launching", "waiting", "closing", "returned", "failed"}
  /\ worker \in [Workers -> {"none", "running", "sleeping", "stopped"}]
  /\ backoff \in [Workers -> initialBackoff .. maxBackoff]
  /\ failures \in [Workers -> 0 .. maxFailures]
  /\ groupErr \in BOOLEAN /\ cancelled \in BOOLEAN /\ second \in BOOLEAN
  /\ notifier \in {"none", "first", "second", "stopping", "stopped"}
  /\ sigCh \in 0 .. 1 /\ signals \in 0 .. maxSignals
  /\ process \in {"alive", "exit1", "killed"}

\* worker.go:16 "Backoff starts at 1s, doubles each attempt, caps at 60s" and resets
\* after a healthy run: the pause is set by the failures in a row since then.
PauseFitsFailures ==
  \A w \in Workers :
    worker[w] = "sleeping" /\ failures[w] < maxFailures
      => backoff[w] = Min2(2 ^ failures[w], maxBackoff)

\* worker.go:20 "Returns only when ctx is cancelled": a feed that fails never ends the
\* workers of the other integrations through the errgroup.
FeedsAreIndependent ==
  (groupErr \/ \E w \in Workers : worker[w] = "stopped") => cancelled

\* The NATS connection and the databases are closed only when no worker uses them.
CleanReturn == cmd \in {"closing", "returned"} => \A w \in Workers : worker[w] = "stopped"

\* Once cancelled the command returns, without waiting for any back-off to end.
CancelEnds == cancelled ~> ~Alive

\* A feed that fails is tried again, and again, until a cancel: this needs the timers,
\* and nothing of the feed.
KeepsTrying ==
  (\A w \in Workers : WF_workerVars(Alive /\ BackoffEnds(w)))
    => \A w \in Workers : worker[w] = "sleeping" ~> worker[w] = "running" \/ Done \/ ~Alive

\* signal.go:12 "A second signal forces os.Exit(1)": it is not swallowed.
SecondSignalEnds == second /\ notifier = "stopped" => process # "alive"
=============================================================================
