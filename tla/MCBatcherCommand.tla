--------------------------- MODULE MCBatcherCommand ---------------------------
(* Values for model checking BatcherCommand.                                 *)
EXTENDS BatcherCommand, TLC

CONSTANTS e1, e2, bad, s1, c0, plane

MCEvents    == {e1, e2}
MCInvalid   == {bad}
MCSlots     == {s1}
MCAsset     == [e \in Events |-> plane]
MCTimestamp == [e \in Events |-> 1]

\* Both events have the same asset and timestamp, so they can be exchanged.
Symmetry == Permutations(MCEvents)
=============================================================================
