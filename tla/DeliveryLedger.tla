---------------------------- MODULE DeliveryLedger ----------------------------
(***************************************************************************)
(* What the persistence path of a batcher promises about an event, with no *)
(* timers, retries or connections, for as long as its process runs. Once   *)
(* accepted an event is held: buffered first, then in the one batch that   *)
(* took the whole buffer. A batch is settled as a whole, never in part,    *)
(* and a settled event never changes: it is not settled a second time.     *)
(*                                                                         *)
(* "stored": ClickHouse confirmed the batch. "dropped": the batcher logged *)
(* that it gave up. "misread": the client reported a success it did not    *)
(* have, which only two inserts sharing a client can cause.                *)
(***************************************************************************)
CONSTANT Events

VARIABLES
  fate,      \* what has become of each event
  batches    \* the batches closed and not settled yet

Outcomes == {"stored", "dropped", "misread"}

HeldEvents == {e \in Events : fate[e] = "held"}
Buffered   == HeldEvents \ UNION batches

Init == fate = [e \in Events |-> "new"] /\ batches = {}

\* The event that fills the buffer closes the batch with it.
Accept(e) ==
  /\ fate[e] = "new"
  /\ fate' = [fate EXCEPT ![e] = "held"]
  /\ \/ UNCHANGED batches
     \/ batches' = batches \cup {Buffered \cup {e}}

Close ==
  /\ Buffered # {}
  /\ batches' = batches \cup {Buffered}
  /\ UNCHANGED fate

Settle(B, outcome) ==
  /\ fate' = [e \in Events |-> IF e \in B THEN outcome ELSE fate[e]]
  /\ batches' = batches \ {B}

Next ==
  \/ \E e \in Events : Accept(e)
  \/ Close
  \/ \E B \in batches, outcome \in Outcomes : Settle(B, outcome)

Spec == Init /\ [][Next]_<<fate, batches>>
=============================================================================
