----------------------------- MODULE MCSupervisor -----------------------------
(* Values for model checking Supervisor.                                     *)
EXTENDS Supervisor

CONSTANTS w1, w2

MCWorkers == {w1, w2}
=============================================================================
