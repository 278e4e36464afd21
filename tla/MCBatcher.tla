------------------------------ MODULE MCBatcher ------------------------------
(* Model values and symmetry for model checking Batcher.                    *)
EXTENDS Batcher, TLC

CONSTANTS e1, e2, e3, s1, s2, c0, c1, c2

MCEvents == {e1, e2, e3}
MCSlots  == {s1, s2}
MCConns  == {c0, c1, c2}

\* Events, slots and the clients other than the first are interchangeable.
Symmetry ==
  Permutations(MCEvents) \cup Permutations(MCSlots) \cup Permutations({c1, c2})
=============================================================================
