------------------------------ MODULE RefreshRun ------------------------------
(***************************************************************************)
(* What the three targets of `fukan-ingest refresh` share                  *)
(* (internal/commands/refresh.go): the run of one target from its download *)
(* to the last insert, the --dry-run flag, the interrupt that cancels its  *)
(* context, and the rerun some time later.  A ClickHouse INSERT is one     *)
(* synchronous conn.Do; one that fails may have been applied.              *)
(***************************************************************************)
EXTENDS Naturals, Sequences, SequencesExt, FiniteSets

CONSTANTS
  batchSize,      \* rows of an INSERT
  MaxRefreshes    \* bound on the refreshes

ASSUME RefreshAssumption == {batchSize, MaxRefreshes} \subseteq Nat \ {0}

VARIABLES
  target,      \* --target: "airlines", "satellites", "cables"
  step,        \* where the target's function is, or "returned"
  result,      \* "none", "ok", "error"
  dryRun,
  signalled,   \* the context is cancelled
  refreshes    \* refreshes started
runVars == <<target, step, result, dryRun, signalled, refreshes>>

InitRun ==
  /\ target \in {"airlines", "satellites", "cables"}
  /\ step = "start" /\ result = "none" /\ dryRun \in BOOLEAN /\ signalled = FALSE
  /\ refreshes = 1

At(t, s) == target = t /\ step = s

Goto(s) ==
  /\ step' = s
  /\ UNCHANGED <<target, result, dryRun, signalled, refreshes>>

Return(r) ==
  /\ step' = "returned" /\ result' = r
  /\ UNCHANGED <<target, dryRun, signalled, refreshes>>

\* The first SIGINT or SIGTERM, through NotifyCtx.
Signal ==
  /\ step # "returned" /\ ~signalled
  /\ signalled' = TRUE
  /\ UNCHANGED <<target, step, result, dryRun, refreshes>>

\* The same target is refreshed again.
Again ==
  /\ step = "returned" /\ refreshes < MaxRefreshes
  /\ step' = "start" /\ result' = "none" /\ signalled' = FALSE
  /\ dryRun' \in BOOLEAN
  /\ refreshes' = refreshes + 1
  /\ UNCHANGED target

\* The rows of the next INSERT: what is left comes in the order of a Go map.
Batches(left) ==
  {batch \in SUBSET left :
     Cardinality(batch) = IF Cardinality(left) < batchSize THEN Cardinality(left) ELSE batchSize}
=============================================================================
