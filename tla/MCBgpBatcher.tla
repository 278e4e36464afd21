----------------------------- MODULE MCBgpBatcher -----------------------------
(* Values for model checking BgpBatcher.                                       *)
EXTENDS BgpBatcher

CONSTANTS e1, e2, s1, c0

MCEvents == {e1, e2}
MCSlots  == {s1}
MCConns  == {c0}   \* every dial fails; Batcher's own run has the others
=============================================================================
