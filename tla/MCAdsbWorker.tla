----------------------------- MODULE MCAdsbWorker -----------------------------
(* Values for model checking AdsbWorker: one tick is 10 s.                     *)
EXTENDS AdsbWorker

\* Below the margin, at it and above it; the code's 60 s are 6.
MCMargin    == 6
MCLifetimes == {3, 5, 6, 9}
=============================================================================
