---------------------------- MODULE VesselPathProofs ----------------------------
(***************************************************************************)
(* Proofs about a vessel's way from the AIS feed to Redis, for any         *)
(* messages, events, streams, sizes and limits: with the real publisher in *)
(* it the loop implements Broadcast, whose publisher may send any part of  *)
(* a window; and what the publisher makes of a window is in its limits and *)
(* has every event once in each of its streams.                            *)
(***************************************************************************)
EXTENDS VesselPath, BroadcastProofs, FiniteSetTheorems, WellFoundedInduction, NaturalsInduction

-----------------------------------------------------------------------------
(* The loop of Broadcast, with the publisher in it.                         *)

LEMMA VesselSteps == [NextVessel]_allVars => [Next]_vars
<1> SUFFICES ASSUME [NextVessel]_allVars PROVE Next \/ UNCHANGED vars
  OBVIOUS
<1>1. ASSUME NEW m \in Messages, Read(m) PROVE Next
  <2>1. PICK e \in ParseMessage(m) : Enqueue(e)
    BY <1>1 DEF Read
  <2>2. e \in Events
    BY <2>1, VesselAssumption
  <2> QED BY <2>1, <2>2 DEF Next
<1>2. CASE LoopVessel
  <2>1. PublishWindow => \E sent \in SUBSET publishing : PublishReturns(sent)
    BY DEF PublishWindow, Complete
  <2> QED BY <1>2, <2>1 DEF LoopVessel, Next, LoopStep
<1>3. CASE Dial \/ ReadFails \/ UNCHANGED allVars
  BY <1>3 DEF Dial, ReadFails, allVars
<1> QED BY <1>1, <1>2, <1>3 DEF NextVessel, Next

\* Whatever the feed sends and however a window is cut into bundles and broken off, the
\* way of a vessel's events to Redis implements Broadcast.
THEOREM VesselPathImplementsBroadcast == SpecVessel => Spec
<1>1. InitVessel => Init
  BY DEF InitVessel
<1> QED BY <1>1, VesselSteps, PTL DEF SpecVessel, Spec

\* So from the feed to Redis, too, an event is in one place at a time, and one that is
\* coalesced away gives way to a newer one of its ship that is handed to the publisher.
THEOREM VesselEventsAccounted == SpecVessel => []HandledOnce /\ []NewestSurvives
BY VesselPathImplementsBroadcast, NothingLostOrRepeated, CoalescingKeepsNewest

-----------------------------------------------------------------------------
(* Loops.  A loop is a recursive function of its passes: it exists           *)
(* (LoopExists), and what holds before the first pass and is kept by each    *)
(* holds after the last (Passes).                                            *)

\* A set of natural numbers has a least one.
LEMMA LeastNat ==
  ASSUME NEW T \in SUBSET Nat, T # {}
  PROVE  \E x \in T : \A y \in T : x <= y
<1>1. \E x \in T : \A y \in T : <<y, x>> \notin OpToRel(<, Nat)
  BY WFMin, NatLessThanWellFounded, Zenon
<1>2. PICK x \in T : \A y \in T : <<y, x>> \notin OpToRel(<, Nat)
  BY <1>1, Zenon
<1>3. \A y \in T : ~(y < x)
  BY <1>2, Zenon DEF OpToRel
<1> QED BY <1>3

LEMMA Passes ==
  ASSUME NEW n \in Nat, NEW P, 0 \in P, \A i \in 1..n : i - 1 \in P => i \in P
  PROVE  \A i \in 0..n : i \in P
<1> DEFINE Bad == {i \in 0..n : i \notin P}
<1> SUFFICES ASSUME Bad # {} PROVE FALSE
  OBVIOUS
<1>1. Bad \in SUBSET Nat
  OBVIOUS
<1>2. PICK i \in Bad : \A j \in Bad : i <= j
  <2> HIDE DEF Bad
  <2> QED BY <1>1, LeastNat
<1>3. i \in 1..n /\ i - 1 \in 0..n
  OBVIOUS
<1>4. i - 1 \in P
  BY <1>2, <1>3
<1> QED BY <1>2, <1>3, <1>4

HasLoop(n, S, base, body) ==
  \E f \in [0..n -> S] : f[0] = base /\ \A i \in 1..n : f[i] = body[i][f[i - 1]]

LEMMA LoopExists ==
  ASSUME NEW n \in Nat, NEW S, NEW base \in S, NEW body \in [1..n -> [S -> S]]
  PROVE  HasLoop(n, S, base, body)
<1> DEFINE Upto(m) == \E f \in [0..n -> S] : f[0] = base /\ \A i \in 1..m : f[i] = body[i][f[i - 1]]
           P == {m \in 0..n : Upto(m)}
<1>1. 0 \in P
  <2> DEFINE f == [i \in 0..n |-> base]
  <2>1. f \in [0..n -> S] /\ f[0] = base /\ \A i \in 1..0 : f[i] = body[i][f[i - 1]]
    OBVIOUS
  <2>2. 0 \in 0..n
    OBVIOUS
  <2> QED BY <2>1, <2>2
<1>2. ASSUME NEW m \in 1..n, m - 1 \in P PROVE m \in P
  <2>1. PICK f \in [0..n -> S] : f[0] = base /\ \A i \in 1..m - 1 : f[i] = body[i][f[i - 1]]
    BY <1>2
  <2> DEFINE g == [f EXCEPT ![m] = body[m][f[m - 1]]]
  <2>2. m - 1 \in 0..n /\ f[m - 1] \in S /\ body[m][f[m - 1]] \in S
    OBVIOUS
  <2>3. g \in [0..n -> S] /\ g[0] = base
    BY <2>1, <2>2
  <2>4. ASSUME NEW i \in 1..m PROVE g[i] = body[i][g[i - 1]]
    <3>1. i - 1 # m /\ i - 1 \in 0..n /\ g[i - 1] = f[i - 1]
      OBVIOUS
    <3>2. CASE i = m
      BY <3>1, <3>2
    <3>3. CASE i # m
      BY <2>1, <3>1, <3>3
    <3> QED BY <3>2, <3>3
  <2> HIDE DEF g
  <2>5. Upto(m)
    BY <2>3, <2>4
  <2> QED BY <2>5
<1>3. \A i \in 0..n : i \in P
  <2> HIDE DEF P
  <2> QED BY <1>1, <1>2, Passes
<1>4. n \in P
  <2> HIDE DEF P
  <2> QED BY <1>3
<1> QED BY <1>4 DEF HasLoop

\* The loop of a sum.
LEMMA TotalLoop ==
  ASSUME NEW m \in Nat, NEW w, \A i \in 1..m : w[i] \in Nat
  PROVE  \E f \in [0..m -> Nat] :
           /\ f[0] = 0 /\ Total(w, m) = f[m]
           /\ \A i \in 1..m : f[i] = f[i - 1] + w[i]
<1> DEFINE n == m
           S == Nat
           base == 0
           body == [i \in 1..n |-> [s \in S |-> s + w[i]]]
           next(f, i) == IF i = 0 THEN base ELSE f[i - 1] + w[i]
           rec == CHOOSE f : f = [i \in 0..n |-> next(f, i)]
<1>1. Total(w, m) = rec[n]
  BY DEF Total
<1>2. n \in Nat /\ base \in S
  OBVIOUS
<1>3. ASSUME NEW i \in 1..n, NEW s \in S PROVE s + w[i] \in S
  BY <1>3
<1> HIDE DEF n, S, base
<1>4. body \in [1..n -> [S -> S]] /\ \A i \in 1..n : \A s \in S : body[i][s] = s + w[i]
  BY <1>3
<1> HIDE DEF body
<1>5. PICK f \in [0..n -> S] : f[0] = base /\ \A i \in 1..n : f[i] = body[i][f[i - 1]]
  <2>1. HasLoop(n, S, base, body)
    BY <1>2, <1>4, LoopExists
  <2> QED BY <2>1 DEF HasLoop
<1>6. ASSUME NEW i \in 1..n, NEW g, g[i - 1] \in S PROVE next(g, i) = body[i][g[i - 1]]
  <2>1. i # 0
    BY <1>2
  <2> QED BY <1>4, <1>6, <2>1
<1>7. ASSUME NEW g PROVE next(g, 0) = base
  OBVIOUS
<1> HIDE DEF next
<1>8. f = [i \in 0..n |-> next(f, i)]
  <2>1. ASSUME NEW i \in 0..n PROVE f[i] = next(f, i)
    <3>1. CASE i = 0
      BY <1>5, <1>7, <3>1
    <3>2. CASE i # 0
      <4>1. i \in 1..n /\ i - 1 \in 0..n
        BY <1>2, <3>2
      <4>2. f[i - 1] \in S
        BY <4>1
      <4> QED BY <1>5, <1>6, <4>1, <4>2
    <3> QED BY <3>1, <3>2
  <2> QED BY <2>1
<1>9. rec = [i \in 0..n |-> next(rec, i)]
  BY <1>8
<1>10. \A i \in 0..n : rec[i] = next(rec, i)
  <2> HIDE DEF rec
  <2> QED BY <1>9
<1> HIDE DEF rec
<1>11. \A i \in 0..n : rec[i] \in S
  <2> DEFINE P == {i \in 0..n : rec[i] \in S}
  <2>1. 0 \in P
    BY <1>2, <1>7, <1>10
  <2>2. ASSUME NEW i \in 1..n, i - 1 \in P PROVE i \in P
    <3>1. i \in 0..n /\ rec[i - 1] \in S
      BY <1>2, <2>2
    <3>2. rec[i] = body[i][rec[i - 1]] /\ body[i][rec[i - 1]] \in S
      BY <1>4, <1>6, <1>10, <3>1
    <3> QED BY <3>1, <3>2
  <2> HIDE DEF P
  <2>3. \A i \in 0..n : i \in P
    BY <1>2, <2>1, <2>2, Passes
  <2> QED BY <2>3 DEF P
<1>12. rec \in [0..n -> S]
  BY <1>9, <1>11
<1>13. rec[0] = base
  BY <1>2, <1>7, <1>10
<1>14. ASSUME NEW i \in 1..n PROVE rec[i] = rec[i - 1] + w[i]
  <2>1. i \in 0..n /\ i - 1 \in 0..n /\ rec[i - 1] \in S
    BY <1>2, <1>11
  <2> QED BY <1>4, <1>6, <1>10, <2>1
<1> QED BY <1>1, <1>12, <1>13, <1>14 DEF n, S, base

-----------------------------------------------------------------------------
(* Sizes                                                                    *)

\* A sum does not depend on what comes after it.
LEMMA TotalNext ==
  ASSUME NEW m \in Nat, NEW w, NEW x, \A i \in 1..m : w[i] \in Nat /\ x[i] = w[i], x[m + 1] \in Nat
  PROVE  Total(w, m) \in Nat /\ Total(x, m + 1) = Total(w, m) + x[m + 1]
<1>1. PICK f \in [0..m -> Nat] : f[0] = 0 /\ Total(w, m) = f[m] /\ \A i \in 1..m : f[i] = f[i - 1] + w[i]
  BY TotalLoop
<1>2. m + 1 \in Nat /\ \A i \in 1..m + 1 : x[i] \in Nat
  <2>1. ASSUME NEW i \in 1..m + 1 PROVE x[i] \in Nat
    <3>1. i \in 1..m \/ i = m + 1
      OBVIOUS
    <3> QED BY <3>1
  <2> QED BY <2>1
<1>3. \E g \in [0..m + 1 -> Nat] : /\ g[0] = 0 /\ Total(x, m + 1) = g[m + 1]
                                   /\ \A i \in 1..m + 1 : g[i] = g[i - 1] + x[i]
  BY <1>2, TotalLoop
<1>4. PICK g \in [0..m + 1 -> Nat] : /\ g[0] = 0 /\ Total(x, m + 1) = g[m + 1]
                                     /\ \A i \in 1..m + 1 : g[i] = g[i - 1] + x[i]
  BY <1>3
<1> DEFINE P == {i \in 0..m : f[i] = g[i]}
<1>5. 0 \in P
  BY <1>1, <1>4
<1>6. ASSUME NEW i \in 1..m, i - 1 \in P PROVE i \in P
  <2>1. i \in 1..m + 1 /\ i \in 0..m /\ f[i - 1] = g[i - 1]
    BY <1>6
  <2> QED BY <1>1, <1>4, <2>1
<1>7. m \in P
  <2> HIDE DEF P
  <2>1. \A i \in 0..m : i \in P
    BY <1>5, <1>6, Passes
  <2> QED BY <2>1
<1>8. m + 1 \in 1..m + 1 /\ (m + 1) - 1 = m /\ m \in 0..m
  OBVIOUS
<1> QED BY <1>1, <1>4, <1>7, <1>8

LEMMA TotalOfNone == ASSUME NEW w PROVE Total(w, 0) = 0
<1>1. 0 \in Nat /\ \A i \in 1..0 : w[i] \in Nat
  OBVIOUS
<1>2. PICK f \in [0..0 -> Nat] : f[0] = 0 /\ Total(w, 0) = f[0]
  BY <1>1, TotalLoop
<1> QED BY <1>2

LEMMA ArrayAppend ==
  ASSUME NEW S, NEW s \in Seq(S), NEW e \in S, NEW size, \A y \in S : size[y] \in Nat
  PROVE  /\ ArrayBytes(size, s) \in Nat
         /\ ArrayBytes(size, Append(s, e))
              = ArrayBytes(size, s) + size[e] + (IF s = <<>> THEN 0 ELSE 1)
<1> DEFINE n == Len(s)
           t == Append(s, e)
           w == [i \in DOMAIN s |-> size[s[i]]]
           x == [i \in DOMAIN t |-> size[t[i]]]
<1>1. /\ n \in Nat /\ DOMAIN s = 1..n /\ (s = <<>> <=> n = 0)
      /\ \A i \in 1..n : s[i] \in S
  BY EmptySeq, LenProperties
<1>2. /\ t \in Seq(S) /\ t # <<>> /\ Len(t) = n + 1 /\ DOMAIN t = 1..n + 1
      /\ t[n + 1] = e /\ \A i \in 1..n : t[i] = s[i]
  BY AppendProperties, LenProperties
<1> HIDE DEF n, t
<1>3. \A i \in 1..n : w[i] \in Nat /\ x[i] = w[i]
  <2>1. \A i \in 1..n : i \in 1..n + 1
    BY <1>1
  <2> QED BY <1>1, <1>2, <2>1
<1>4. x[n + 1] = size[e] /\ size[e] \in Nat
  BY <1>1, <1>2
<1> HIDE DEF w, x
<1>5. Total(w, n) \in Nat /\ Total(x, n + 1) = Total(w, n) + size[e]
  <2>1. x[n + 1] \in Nat
    BY <1>4
  <2>2. Total(w, n) \in Nat /\ Total(x, n + 1) = Total(w, n) + x[n + 1]
    BY <1>1, <1>3, <2>1, TotalNext
  <2> QED BY <1>4, <2>2
<1>6. ArrayBytes(size, s) = Total(w, n) + (IF s = <<>> THEN 0 ELSE n - 1)
  BY DEF ArrayBytes, w, n
<1>7. ArrayBytes(size, t) = Total(x, n + 1) + n
  <2>1. ArrayBytes(size, t) = Total(x, Len(t)) + (IF t = <<>> THEN 0 ELSE Len(t) - 1)
    BY DEF ArrayBytes, x
  <2>2. Len(t) - 1 = n
    BY <1>1, <1>2
  <2> QED BY <1>2, <2>1, <2>2
<1>8. CASE s = <<>>
  BY <1>1, <1>2, <1>4, <1>5, <1>6, <1>7, <1>8 DEF t
<1>9. CASE s # <<>>
  BY <1>1, <1>2, <1>4, <1>5, <1>6, <1>7, <1>9 DEF t
<1> QED BY <1>8, <1>9

LEMMA ArrayOfNone == ASSUME NEW size PROVE ArrayBytes(size, <<>>) = 0
<1>1. Len(<<>>) = 0
  OBVIOUS
<1> QED BY <1>1, TotalOfNone DEF ArrayBytes

LEMMA ArrayTyped ==
  ASSUME NEW S, NEW s \in Seq(S), NEW size, \A y \in S : size[y] \in Nat
  PROVE  ArrayBytes(size, s) \in Nat
<1>1. CASE s = <<>>
  BY <1>1, ArrayOfNone
<1>2. CASE s # <<>>
  <2>1. s[1] \in S
    BY <1>2
  <2> QED BY <2>1, ArrayAppend
<1> QED BY <1>1, <1>2

LEMMA ArrayOfOne ==
  ASSUME NEW S, NEW e \in S, NEW size, \A y \in S : size[y] \in Nat
  PROVE  ArrayBytes(size, <<e>>) = size[e]
<1> DEFINE none == <<>>
<1>1. none \in Seq(S) /\ Append(none, e) = <<e>> /\ none = <<>>
  OBVIOUS
<1>2. ArrayBytes(size, Append(none, e)) = ArrayBytes(size, none) + size[e] + (IF none = <<>> THEN 0 ELSE 1)
  <2> HIDE DEF none
  <2> QED BY <1>1, ArrayAppend
<1>3. size[e] \in Nat /\ ArrayBytes(size, none) = 0
  BY ArrayOfNone
<1> QED BY <1>1, <1>2, <1>3

-----------------------------------------------------------------------------
(* Chunks                                                                   *)

LEMMA WireTyped == \A e \in Events : Wire[e] \in Nat /\ Escaped[e] \in Nat
BY StreamsAssumption

LEMMA LimitsTyped ==
  /\ maxEventsPerStreamBatch \in Nat \ {0} /\ EmptyPayload \in Nat /\ EnvelopeBytes \in Nat
  /\ maxStreamBatchBytes \in Nat /\ maxPublicationBundleBytes \in Nat
BY PublisherAssumption

LEMMA PayloadAppend ==
  ASSUME NEW c \in Seq(Events), NEW e \in Events
  PROVE  /\ PayloadBytes(c) \in Nat /\ PayloadBytes(<<>>) = EmptyPayload
         /\ PayloadBytes(<<e>>) = EmptyPayload + Wire[e]
         /\ PayloadBytes(Append(c, e)) = PayloadBytes(c) + Wire[e] + (IF c = <<>> THEN 0 ELSE 1)
<1>1. \A y \in Events : Wire[y] \in Nat
  BY WireTyped
<1>2. /\ ArrayBytes(Wire, c) \in Nat /\ ArrayBytes(Wire, <<>>) = 0 /\ ArrayBytes(Wire, <<e>>) = Wire[e]
      /\ ArrayBytes(Wire, Append(c, e)) = ArrayBytes(Wire, c) + Wire[e] + (IF c = <<>> THEN 0 ELSE 1)
  <2>1. ArrayBytes(Wire, <<>>) = 0
    BY ArrayOfNone
  <2>2. ArrayBytes(Wire, <<e>>) = Wire[e]
    BY <1>1, ArrayOfOne
  <2> QED BY <1>1, <2>1, <2>2, ArrayAppend
<1>3. EmptyPayload \in Nat /\ Wire[e] \in Nat
  BY LimitsTyped, WireTyped
<1>4. CASE c = <<>>
  BY <1>2, <1>3, <1>4 DEF PayloadBytes
<1>5. CASE c # <<>>
  BY <1>2, <1>3, <1>5 DEF PayloadBytes
<1> QED BY <1>4, <1>5

\* What a payload of a stream may be.
IsChunk(c) ==
  /\ Len(c) \in 1..maxEventsPerStreamBatch
  /\ PayloadBytes(c) <= maxStreamBatchBytes \/ Len(c) = 1

\* The variables of chunkLiveEvents after any pass.
ChunkAccs ==
  {acc \in [chunks : Seq(Seq(Events)), current : Seq(Events), bytes : Nat] :
     /\ \A i \in 1..Len(acc.chunks) : IsChunk(acc.chunks[i])
     /\ acc.current # <<>> => IsChunk(acc.current)
     /\ acc.bytes = PayloadBytes(acc.current)}

LEMMA AddEventKeeps ==
  ASSUME NEW acc \in ChunkAccs, NEW e \in Events
  PROVE  AddEvent(acc, e) \in ChunkAccs
<1> DEFINE cur == acc.current
           add == Append(cur, e)
           one == <<e>>
           closed == Append(acc.chunks, cur)
           bytes == acc.bytes + Wire[e] + (IF cur = <<>> THEN 0 ELSE 1)
           next == [chunks |-> acc.chunks, current |-> add, bytes |-> bytes]
           new == [chunks |-> closed, current |-> one, bytes |-> EmptyPayload + Wire[e]]
           full == /\ cur # <<>>
                   /\ \/ Len(cur) >= maxEventsPerStreamBatch
                      \/ acc.bytes + Wire[e] + 1 > maxStreamBatchBytes
<1>1. /\ acc = [chunks |-> acc.chunks, current |-> cur, bytes |-> acc.bytes]
      /\ acc.chunks \in Seq(Seq(Events)) /\ cur \in Seq(Events) /\ acc.bytes \in Nat
      /\ \A i \in 1..Len(acc.chunks) : IsChunk(acc.chunks[i])
      /\ (cur # <<>> => IsChunk(cur)) /\ acc.bytes = PayloadBytes(cur)
  BY DEF ChunkAccs
<1>2. AddEvent(acc, e) = IF full THEN new ELSE next
  BY DEF AddEvent
<1>3. /\ Wire[e] \in Nat /\ PayloadBytes(cur) \in Nat /\ PayloadBytes(one) = EmptyPayload + Wire[e]
      /\ PayloadBytes(add) = bytes /\ EmptyPayload \in Nat
      /\ maxEventsPerStreamBatch \in Nat \ {0} /\ maxStreamBatchBytes \in Nat
      /\ bytes \in Nat
  <2>1. Wire[e] \in Nat /\ EmptyPayload \in Nat
    BY WireTyped, LimitsTyped
  <2>2. /\ PayloadBytes(cur) \in Nat /\ PayloadBytes(one) = EmptyPayload + Wire[e]
        /\ PayloadBytes(add) = PayloadBytes(cur) + Wire[e] + (IF cur = <<>> THEN 0 ELSE 1)
    <3> HIDE DEF cur
    <3> QED BY <1>1, PayloadAppend
  <2>3. PayloadBytes(add) = bytes /\ bytes \in Nat
    BY <1>1, <2>1, <2>2
  <2> QED BY <2>1, <2>2, <2>3, LimitsTyped
<1>4. /\ add \in Seq(Events) /\ add # <<>> /\ Len(add) = Len(cur) + 1
      /\ one \in Seq(Events) /\ one # <<>> /\ Len(one) = 1
      /\ Len(cur) \in Nat /\ (cur = <<>> <=> Len(cur) = 0)
  BY <1>1
<1> HIDE DEF cur, add, one, bytes, next, new
<1>5. CASE full
  <2>1. IsChunk(one)
    BY <1>3, <1>4 DEF IsChunk
  <2>2. closed \in Seq(Seq(Events)) /\ \A i \in 1..Len(closed) : IsChunk(closed[i])
    <3>1. IsChunk(cur)
      BY <1>1, <1>5
    <3> QED BY <1>1, <3>1
  <2> HIDE DEF closed
  <2>3. new = [chunks |-> closed, current |-> one, bytes |-> EmptyPayload + Wire[e]]
    BY DEF new
  <2>4. EmptyPayload + Wire[e] \in Nat
    BY <1>3
  <2>5. new \in ChunkAccs
    BY <1>3, <1>4, <2>1, <2>2, <2>3, <2>4 DEF ChunkAccs
  <2> QED BY <1>2, <1>5, <2>5
<1>6. CASE ~full
  <2>1. IsChunk(add)
    <3>1. CASE cur = <<>>
      BY <1>3, <1>4, <3>1 DEF IsChunk
    <3>2. CASE cur # <<>>
      <4>1. Len(cur) < maxEventsPerStreamBatch /\ PayloadBytes(cur) + Wire[e] + 1 <= maxStreamBatchBytes
        BY <1>1, <1>3, <1>4, <1>6, <3>2
      <4>2. bytes = PayloadBytes(cur) + Wire[e] + 1
        BY <1>1, <3>2 DEF bytes
      <4> QED BY <1>3, <1>4, <4>1, <4>2 DEF IsChunk
    <3> QED BY <3>1, <3>2
  <2>2. next \in ChunkAccs
    BY <1>1, <1>3, <1>4, <2>1 DEF ChunkAccs, next
  <2> QED BY <1>2, <1>6, <2>2
<1> QED BY <1>5, <1>6

\* The loop of chunkLiveEvents.
LEMMA ChunkLoop ==
  ASSUME NEW events \in Seq(Events)
  PROVE  \E f \in [0..Len(events) -> ChunkAccs] :
           /\ f[0] = [chunks |-> <<>>, current |-> <<>>, bytes |-> EmptyPayload] /\ Chunked(events) = f[Len(events)]
           /\ \A i \in 1..Len(events) : f[i] = AddEvent(f[i - 1], events[i])
<1> DEFINE n == Len(events)
           S == ChunkAccs
           base == [chunks |-> <<>>, current |-> <<>>, bytes |-> EmptyPayload]
           body == [i \in 1..n |-> [s \in S |-> AddEvent(s, events[i])]]
           next(f, i) == IF i = 0 THEN base ELSE AddEvent(f[i - 1], events[i])
           rec == CHOOSE f : f = [i \in 0..n |-> next(f, i)]
<1>1. Chunked(events) = rec[n]
  BY DEF Chunked
<1>2. n \in Nat /\ base \in S
  <2>1. base \in [chunks : Seq(Seq(Events)), current : Seq(Events), bytes : Nat]
    BY LimitsTyped
  <2>2. PayloadBytes(<<>>) = EmptyPayload /\ Len(<<>>) = 0
    <3>1. ArrayBytes(Wire, <<>>) = 0 /\ EmptyPayload \in Nat
      BY ArrayOfNone, LimitsTyped
    <3> QED BY <3>1 DEF PayloadBytes
  <2>3. base.chunks = <<>> /\ base.current = <<>> /\ base.bytes = EmptyPayload
    OBVIOUS
  <2> HIDE DEF base
  <2> QED BY <2>1, <2>2, <2>3 DEF ChunkAccs
<1>3. ASSUME NEW i \in 1..n, NEW s \in S PROVE AddEvent(s, events[i]) \in S
  BY <1>3, AddEventKeeps
<1> HIDE DEF n, S, base
<1>4. body \in [1..n -> [S -> S]] /\ \A i \in 1..n : \A s \in S : body[i][s] = AddEvent(s, events[i])
  BY <1>3
<1> HIDE DEF body
<1>5. PICK f \in [0..n -> S] : f[0] = base /\ \A i \in 1..n : f[i] = body[i][f[i - 1]]
  <2>1. HasLoop(n, S, base, body)
    BY <1>2, <1>4, LoopExists
  <2> QED BY <2>1 DEF HasLoop
<1>6. ASSUME NEW i \in 1..n, NEW g, g[i - 1] \in S PROVE next(g, i) = body[i][g[i - 1]]
  <2>1. i # 0
    BY <1>2
  <2> QED BY <1>4, <1>6, <2>1
<1>7. ASSUME NEW g PROVE next(g, 0) = base
  OBVIOUS
<1> HIDE DEF next
<1>8. f = [i \in 0..n |-> next(f, i)]
  <2>1. ASSUME NEW i \in 0..n PROVE f[i] = next(f, i)
    <3>1. CASE i = 0
      BY <1>5, <1>7, <3>1
    <3>2. CASE i # 0
      <4>1. i \in 1..n /\ i - 1 \in 0..n
        BY <1>2, <3>2
      <4>2. f[i - 1] \in S
        BY <4>1
      <4> QED BY <1>5, <1>6, <4>1, <4>2
    <3> QED BY <3>1, <3>2
  <2> QED BY <2>1
<1>9. rec = [i \in 0..n |-> next(rec, i)]
  BY <1>8
<1>10. \A i \in 0..n : rec[i] = next(rec, i)
  <2> HIDE DEF rec
  <2> QED BY <1>9
<1> HIDE DEF rec
<1>11. \A i \in 0..n : rec[i] \in S
  <2> DEFINE P == {i \in 0..n : rec[i] \in S}
  <2>1. 0 \in P
    BY <1>2, <1>7, <1>10
  <2>2. ASSUME NEW i \in 1..n, i - 1 \in P PROVE i \in P
    <3>1. i \in 0..n /\ rec[i - 1] \in S
      BY <1>2, <2>2
    <3>2. rec[i] = body[i][rec[i - 1]] /\ body[i][rec[i - 1]] \in S
      BY <1>4, <1>6, <1>10, <3>1
    <3> QED BY <3>1, <3>2
  <2> HIDE DEF P
  <2>3. \A i \in 0..n : i \in P
    BY <1>2, <2>1, <2>2, Passes
  <2> QED BY <2>3 DEF P
<1>12. rec \in [0..n -> S]
  BY <1>9, <1>11
<1>13. rec[0] = base
  BY <1>2, <1>7, <1>10
<1>14. ASSUME NEW i \in 1..n PROVE rec[i] = AddEvent(rec[i - 1], events[i])
  <2>1. i \in 0..n /\ i - 1 \in 0..n /\ rec[i - 1] \in S
    BY <1>2, <1>11
  <2> QED BY <1>4, <1>6, <1>10, <2>1
<1> QED BY <1>1, <1>12, <1>13, <1>14 DEF n, S, base

\* What holds of the elements of two sequences holds of those of the one after the other.
LEMMA Concatenated ==
  ASSUME NEW S, NEW a \in Seq(S), NEW b \in Seq(S), NEW G,
         \A i \in 1..Len(a) : a[i] \in G, \A i \in 1..Len(b) : b[i] \in G
  PROVE  a \o b \in Seq(S) /\ \A i \in 1..Len(a \o b) : (a \o b)[i] \in G
<1>1. a \o b \in Seq(S) /\ Len(a) \in Nat /\ Len(b) \in Nat /\ Len(a \o b) = Len(a) + Len(b)
  OBVIOUS
<1>2. ASSUME NEW i \in 1..Len(a \o b) PROVE (a \o b)[i] \in G
  <2>1. (a \o b)[i] = IF i <= Len(a) THEN a[i] ELSE b[i - Len(a)]
    BY <1>1
  <2>2. CASE i <= Len(a)
    <3>1. i \in 1..Len(a)
      BY <1>1, <2>2
    <3> QED BY <2>1, <2>2, <3>1
  <2>3. CASE ~(i <= Len(a))
    <3>1. i - Len(a) \in 1..Len(b)
      BY <1>1, <2>3
    <3> QED BY <2>1, <2>3, <3>1
  <2> QED BY <2>2, <2>3
<1> QED BY <1>1, <1>2

\* Every payload of a stream has an event, and is in its limits or has only one.
LEMMA ChunksWithin ==
  ASSUME NEW events \in Seq(Events)
  PROVE  /\ chunkLiveEvents(events) \in Seq(Seq(Events))
         /\ \A i \in 1..Len(chunkLiveEvents(events)) : IsChunk(chunkLiveEvents(events)[i])
<1> DEFINE last == Chunked(events)
           rest == IF last.current = <<>> THEN <<>> ELSE <<last.current>>
           G == {c \in Seq(Events) : IsChunk(c)}
<1>1. last \in ChunkAccs
  <2>1. PICK f \in [0..Len(events) -> ChunkAccs] : last = f[Len(events)]
    BY ChunkLoop
  <2>2. Len(events) \in 0..Len(events)
    OBVIOUS
  <2> QED BY <2>1, <2>2
<1>2. chunkLiveEvents(events) = last.chunks \o rest
  BY DEF chunkLiveEvents
<1>3. /\ last.chunks \in Seq(Seq(Events)) /\ last.current \in Seq(Events)
      /\ \A i \in 1..Len(last.chunks) : last.chunks[i] \in G
      /\ last.current # <<>> => last.current \in G
  BY <1>1 DEF ChunkAccs
<1> HIDE DEF last
<1>4. rest \in Seq(Seq(Events)) /\ \A i \in 1..Len(rest) : rest[i] \in G
  <2>1. CASE last.current = <<>>
    BY <2>1
  <2>2. CASE last.current # <<>>
    <3> DEFINE c == last.current
    <3>1. c \in Seq(Events) /\ c \in G /\ rest = <<c>>
      BY <1>3, <2>2
    <3> HIDE DEF c, rest, G
    <3> QED BY <3>1
  <2> QED BY <2>1, <2>2
<1> HIDE DEF rest
<1>5. /\ last.chunks \o rest \in Seq(Seq(Events))
      /\ \A i \in 1..Len(last.chunks \o rest) : (last.chunks \o rest)[i] \in G
  <2> HIDE DEF G
  <2> QED BY <1>3, <1>4, Concatenated
<1> QED BY <1>2, <1>5

-----------------------------------------------------------------------------
(* Bundles                                                                  *)

Names == UNION {ToSet(Streams[e]) : e \in Events}

\* The envelopes the publisher makes: the events of a batch are a chunk.
Envelopes ==
  {v \in [stream : Names, events : Seq(Events), batch : BOOLEAN] : v.batch => IsChunk(v.events)}

LEMMA RawTyped == ASSUME NEW v \in Envelopes PROVE RawBytes(v) \in Nat
<1>1. v.events \in Seq(Events) /\ v.batch \in BOOLEAN
  BY DEF Envelopes
<1>2. ArrayBytes(Escaped, v.events) \in Nat
  BY <1>1, WireTyped, ArrayTyped
<1> QED BY <1>1, <1>2, LimitsTyped DEF RawBytes

LEMMA BundleAppend ==
  ASSUME NEW b \in Seq(Envelopes), NEW v \in Envelopes
  PROVE  /\ BundleBytes(b) \in Int
         /\ BundleBytes(Append(b, v)) = BundleBytes(b) + RawBytes(v) + 1
<1> DEFINE n == Len(b)
           t == Append(b, v)
           w == [i \in DOMAIN b |-> RawBytes(b[i])]
           x == [i \in DOMAIN t |-> RawBytes(t[i])]
<1>1. n \in Nat /\ DOMAIN b = 1..n /\ \A i \in 1..n : b[i] \in Envelopes
  BY LenProperties
<1>2. /\ Len(t) = n + 1 /\ DOMAIN t = 1..n + 1
      /\ t[n + 1] = v /\ \A i \in 1..n : t[i] = b[i]
  BY AppendProperties, LenProperties
<1>3. BundleBytes(b) = 2 + Total(w, n) + n - 1 /\ BundleBytes(t) = 2 + Total(x, n + 1) + (n + 1) - 1
  BY <1>2 DEF BundleBytes
<1> HIDE DEF n, t
<1>4. \A i \in 1..n : w[i] \in Nat /\ x[i] = w[i]
  <2>1. ASSUME NEW i \in 1..n PROVE w[i] \in Nat /\ x[i] = w[i]
    <3>1. i \in 1..n + 1 /\ RawBytes(b[i]) \in Nat
      BY <1>1, RawTyped
    <3> QED BY <1>1, <1>2, <3>1
  <2> QED BY <2>1
<1>5. x[n + 1] = RawBytes(v) /\ RawBytes(v) \in Nat
  BY <1>1, <1>2, RawTyped
<1> HIDE DEF w, x
<1>6. Total(w, n) \in Nat /\ Total(x, n + 1) = Total(w, n) + x[n + 1]
  <2>1. x[n + 1] \in Nat
    BY <1>5
  <2> QED BY <1>1, <1>4, <2>1, TotalNext
<1> QED BY <1>1, <1>3, <1>5, <1>6 DEF t

LEMMA BundleOfNone == BundleBytes(<<>>) = 1
<1>1. Len(<<>>) = 0
  OBVIOUS
<1> QED BY <1>1, TotalOfNone DEF BundleBytes

LEMMA BundleOfOne == ASSUME NEW v \in Envelopes PROVE BundleBytes(<<v>>) = 2 + RawBytes(v)
<1> DEFINE none == <<>>
<1>1. none \in Seq(Envelopes) /\ Append(none, v) = <<v>> /\ BundleBytes(none) = 1
  BY BundleOfNone
<1>2. BundleBytes(Append(none, v)) = BundleBytes(none) + RawBytes(v) + 1
  <2> HIDE DEF none
  <2> QED BY <1>1, BundleAppend
<1> QED BY <1>1, <1>2, RawTyped

\* What a bundle may be.
IsBundle(b) == b # <<>> /\ (BundleBytes(b) <= maxPublicationBundleBytes \/ Len(b) = 1)

\* The variables of publishEnvelopeBundles after any pass: its count is never too low.
BundleAccs ==
  {acc \in [bundles : Seq(Seq(Envelopes)), bundle : Seq(Envelopes), bytes : Nat] :
     /\ \A i \in 1..Len(acc.bundles) : IsBundle(acc.bundles[i])
     /\ acc.bundle # <<>> => IsBundle(acc.bundle)
     /\ BundleBytes(acc.bundle) <= acc.bytes
     /\ acc.bundle = <<>> => acc.bytes = 2}

LEMMA AddEnvelopeKeeps ==
  ASSUME NEW acc \in BundleAccs, NEW v \in Envelopes
  PROVE  AddEnvelope(acc, v) \in BundleAccs
<1> DEFINE cur == acc.bundle
           add == Append(cur, v)
           one == <<v>>
           closed == Append(acc.bundles, cur)
           more == RawBytes(v) + (IF cur = <<>> THEN 0 ELSE 1)
           next == [bundles |-> acc.bundles, bundle |-> add, bytes |-> acc.bytes + more]
           new == [bundles |-> closed, bundle |-> one, bytes |-> 2 + more]
           full == cur # <<>> /\ acc.bytes + more > maxPublicationBundleBytes
<1>1. /\ acc.bundles \in Seq(Seq(Envelopes)) /\ cur \in Seq(Envelopes) /\ acc.bytes \in Nat
      /\ \A i \in 1..Len(acc.bundles) : IsBundle(acc.bundles[i])
      /\ (cur # <<>> => IsBundle(cur)) /\ BundleBytes(cur) <= acc.bytes
      /\ (cur = <<>> => acc.bytes = 2)
  BY DEF BundleAccs
<1>2. AddEnvelope(acc, v) = IF full THEN new ELSE next
  BY DEF AddEnvelope
<1>3. /\ RawBytes(v) \in Nat /\ maxPublicationBundleBytes \in Nat /\ BundleBytes(cur) \in Int
      /\ BundleBytes(add) = BundleBytes(cur) + RawBytes(v) + 1 /\ BundleBytes(one) = 2 + RawBytes(v)
      /\ more \in Nat
  <2>1. RawBytes(v) \in Nat
    BY RawTyped
  <2>2. BundleBytes(cur) \in Int /\ BundleBytes(add) = BundleBytes(cur) + RawBytes(v) + 1
    <3> HIDE DEF cur
    <3> QED BY <1>1, BundleAppend
  <2> QED BY <2>1, <2>2, BundleOfOne, LimitsTyped
<1>4. /\ add \in Seq(Envelopes) /\ add # <<>> /\ one \in Seq(Envelopes) /\ one # <<>> /\ Len(one) = 1
      /\ Len(add) = Len(cur) + 1 /\ Len(cur) \in Nat /\ (cur = <<>> => Len(cur) = 0)
  BY <1>1
<1>5. more = IF cur = <<>> THEN RawBytes(v) ELSE RawBytes(v) + 1
  BY <1>3
<1> HIDE DEF cur, add, one, more, next, new
<1>6. CASE full
  <2>1. IsBundle(one) /\ BundleBytes(one) <= 2 + more
    BY <1>3, <1>4, <1>5 DEF IsBundle
  <2>2. closed \in Seq(Seq(Envelopes)) /\ \A i \in 1..Len(closed) : IsBundle(closed[i])
    <3> DEFINE a == acc.bundles
    <3>1. IsBundle(cur) /\ closed = Append(a, cur)
      BY <1>1, <1>6
    <3>2. a \in Seq(Seq(Envelopes)) /\ cur \in Seq(Envelopes) /\ \A i \in 1..Len(a) : IsBundle(a[i])
      BY <1>1
    <3> HIDE DEF a, closed
    <3>3. closed \in Seq(Seq(Envelopes)) /\ Len(closed) = Len(a) + 1 /\ closed[Len(a) + 1] = cur
      BY <3>1, <3>2
    <3>4. Len(a) \in Nat /\ \A i \in 1..Len(a) : closed[i] = a[i]
      BY <3>1, <3>2
    <3>5. ASSUME NEW i \in 1..Len(closed) PROVE IsBundle(closed[i])
      <4>1. i \in 1..Len(a) \/ i = Len(a) + 1
        BY <3>3, <3>4
      <4> QED BY <3>1, <3>2, <3>3, <3>4, <4>1
    <3> QED BY <3>3, <3>5
  <2> HIDE DEF closed
  <2>3. new = [bundles |-> closed, bundle |-> one, bytes |-> 2 + more]
    BY DEF new
  <2>4. 2 + more \in Nat
    BY <1>3
  <2>5. new \in BundleAccs
    BY <1>4, <2>1, <2>2, <2>3, <2>4 DEF BundleAccs
  <2> QED BY <1>2, <1>6, <2>5
<1>7. CASE ~full
  <2>1. BundleBytes(add) <= acc.bytes + more
    <3>1. CASE cur = <<>>
      <4>1. BundleBytes(cur) = 1
        BY <3>1, BundleOfNone
      <4> QED BY <1>1, <1>3, <1>5, <3>1, <4>1
    <3>2. CASE cur # <<>>
      BY <1>1, <1>3, <1>5, <3>2
    <3> QED BY <3>1, <3>2
  <2>2. IsBundle(add)
    <3>1. CASE cur = <<>>
      BY <1>4, <3>1 DEF IsBundle
    <3>2. CASE cur # <<>>
      <4>1. acc.bytes + more <= maxPublicationBundleBytes
        BY <1>1, <1>3, <1>7, <3>2
      <4> QED BY <1>1, <1>3, <1>4, <2>1, <4>1 DEF IsBundle
    <3> QED BY <3>1, <3>2
  <2>3. acc.bytes + more \in Nat
    BY <1>1, <1>3
  <2>4. next \in BundleAccs
    BY <1>1, <1>4, <2>1, <2>2, <2>3 DEF BundleAccs, next
  <2> QED BY <1>2, <1>7, <2>4
<1> QED BY <1>6, <1>7

\* The loop of publishEnvelopeBundles.
LEMMA BundleLoop ==
  ASSUME NEW envelopes \in Seq(Envelopes)
  PROVE  \E f \in [0..Len(envelopes) -> BundleAccs] :
           /\ f[0] = [bundles |-> <<>>, bundle |-> <<>>, bytes |-> 2] /\ Bundled(envelopes) = f[Len(envelopes)]
           /\ \A i \in 1..Len(envelopes) : f[i] = AddEnvelope(f[i - 1], envelopes[i])
<1> DEFINE n == Len(envelopes)
           S == BundleAccs
           base == [bundles |-> <<>>, bundle |-> <<>>, bytes |-> 2]
           body == [i \in 1..n |-> [s \in S |-> AddEnvelope(s, envelopes[i])]]
           next(f, i) == IF i = 0 THEN base ELSE AddEnvelope(f[i - 1], envelopes[i])
           rec == CHOOSE f : f = [i \in 0..n |-> next(f, i)]
<1>1. Bundled(envelopes) = rec[n]
  BY DEF Bundled
<1>2. n \in Nat /\ base \in S
  <2>1. base \in [bundles : Seq(Seq(Envelopes)), bundle : Seq(Envelopes), bytes : Nat]
    OBVIOUS
  <2>2. BundleBytes(<<>>) <= 2 /\ Len(<<>>) = 0
    BY BundleOfNone
  <2>3. base.bundles = <<>> /\ base.bundle = <<>> /\ base.bytes = 2
    OBVIOUS
  <2> HIDE DEF base
  <2> QED BY <2>1, <2>2, <2>3 DEF BundleAccs
<1>3. ASSUME NEW i \in 1..n, NEW s \in S PROVE AddEnvelope(s, envelopes[i]) \in S
  BY <1>3, AddEnvelopeKeeps
<1> HIDE DEF n, S, base
<1>4. body \in [1..n -> [S -> S]] /\ \A i \in 1..n : \A s \in S : body[i][s] = AddEnvelope(s, envelopes[i])
  BY <1>3
<1> HIDE DEF body
<1>5. PICK f \in [0..n -> S] : f[0] = base /\ \A i \in 1..n : f[i] = body[i][f[i - 1]]
  <2>1. HasLoop(n, S, base, body)
    BY <1>2, <1>4, LoopExists
  <2> QED BY <2>1 DEF HasLoop
<1>6. ASSUME NEW i \in 1..n, NEW g, g[i - 1] \in S PROVE next(g, i) = body[i][g[i - 1]]
  <2>1. i # 0
    BY <1>2
  <2> QED BY <1>4, <1>6, <2>1
<1>7. ASSUME NEW g PROVE next(g, 0) = base
  OBVIOUS
<1> HIDE DEF next
<1>8. f = [i \in 0..n |-> next(f, i)]
  <2>1. ASSUME NEW i \in 0..n PROVE f[i] = next(f, i)
    <3>1. CASE i = 0
      BY <1>5, <1>7, <3>1
    <3>2. CASE i # 0
      <4>1. i \in 1..n /\ i - 1 \in 0..n
        BY <1>2, <3>2
      <4>2. f[i - 1] \in S
        BY <4>1
      <4> QED BY <1>5, <1>6, <4>1, <4>2
    <3> QED BY <3>1, <3>2
  <2> QED BY <2>1
<1>9. rec = [i \in 0..n |-> next(rec, i)]
  BY <1>8
<1>10. \A i \in 0..n : rec[i] = next(rec, i)
  <2> HIDE DEF rec
  <2> QED BY <1>9
<1> HIDE DEF rec
<1>11. \A i \in 0..n : rec[i] \in S
  <2> DEFINE P == {i \in 0..n : rec[i] \in S}
  <2>1. 0 \in P
    BY <1>2, <1>7, <1>10
  <2>2. ASSUME NEW i \in 1..n, i - 1 \in P PROVE i \in P
    <3>1. i \in 0..n /\ rec[i - 1] \in S
      BY <1>2, <2>2
    <3>2. rec[i] = body[i][rec[i - 1]] /\ body[i][rec[i - 1]] \in S
      BY <1>4, <1>6, <1>10, <3>1
    <3> QED BY <3>1, <3>2
  <2> HIDE DEF P
  <2>3. \A i \in 0..n : i \in P
    BY <1>2, <2>1, <2>2, Passes
  <2> QED BY <2>3 DEF P
<1>12. rec \in [0..n -> S]
  BY <1>9, <1>11
<1>13. rec[0] = base
  BY <1>2, <1>7, <1>10
<1>14. ASSUME NEW i \in 1..n PROVE rec[i] = AddEnvelope(rec[i - 1], envelopes[i])
  <2>1. i \in 0..n /\ i - 1 \in 0..n /\ rec[i - 1] \in S
    BY <1>2, <1>11
  <2> QED BY <1>4, <1>6, <1>10, <2>1
<1> QED BY <1>1, <1>12, <1>13, <1>14 DEF n, S, base

\* Every bundle has an envelope, and is in its limit or has only one.
LEMMA BundlesWithin ==
  ASSUME NEW envelopes \in Seq(Envelopes)
  PROVE  /\ publishEnvelopeBundles(envelopes) \in Seq(Seq(Envelopes))
         /\ \A i \in 1..Len(publishEnvelopeBundles(envelopes)) :
              IsBundle(publishEnvelopeBundles(envelopes)[i])
<1> DEFINE last == Bundled(envelopes)
           rest == IF last.bundle = <<>> THEN <<>> ELSE <<last.bundle>>
           G == {b \in Seq(Envelopes) : IsBundle(b)}
<1>1. last \in BundleAccs
  <2>1. PICK f \in [0..Len(envelopes) -> BundleAccs] : last = f[Len(envelopes)]
    BY BundleLoop
  <2>2. Len(envelopes) \in 0..Len(envelopes)
    OBVIOUS
  <2> QED BY <2>1, <2>2
<1>2. publishEnvelopeBundles(envelopes) = last.bundles \o rest
  BY DEF publishEnvelopeBundles
<1>3. /\ last.bundles \in Seq(Seq(Envelopes)) /\ last.bundle \in Seq(Envelopes)
      /\ \A i \in 1..Len(last.bundles) : last.bundles[i] \in G
      /\ last.bundle # <<>> => last.bundle \in G
  BY <1>1 DEF BundleAccs
<1> HIDE DEF last
<1>4. rest \in Seq(Seq(Envelopes)) /\ \A i \in 1..Len(rest) : rest[i] \in G
  <2>1. CASE last.bundle = <<>>
    BY <2>1
  <2>2. CASE last.bundle # <<>>
    <3> DEFINE b == last.bundle
    <3>1. b \in Seq(Envelopes) /\ b \in G /\ rest = <<b>>
      BY <1>3, <2>2
    <3> HIDE DEF b, rest, G
    <3> QED BY <3>1
  <2> QED BY <2>1, <2>2
<1> HIDE DEF rest
<1>5. /\ last.bundles \o rest \in Seq(Seq(Envelopes))
      /\ \A i \in 1..Len(last.bundles \o rest) : (last.bundles \o rest)[i] \in G
  <2> HIDE DEF G
  <2> QED BY <1>3, <1>4, Concatenated
<1> QED BY <1>2, <1>5

-----------------------------------------------------------------------------
(* Sequences joined one after the other                                     *)

\* The loop of FlattenSeq, from no sequence at all.
LEMMA FlattenLoop ==
  ASSUME NEW S, NEW ss \in Seq(Seq(S))
  PROVE  \E f \in [0..Len(ss) -> Seq(S)] :
           /\ f[0] = <<>> /\ FlattenSeq(ss) = f[Len(ss)]
           /\ \A i \in 1..Len(ss) : f[i] = f[i - 1] \o ss[i]
<1> DEFINE n == Len(ss)
           body == [i \in 1..n |-> [s \in Seq(S) |-> s \o ss[i]]]
           rec == CHOOSE g : g = [i \in 1..n |-> IF i = 1 THEN ss[i] ELSE g[i - 1] \o ss[i]]
<1>1. n \in Nat /\ \A i \in 1..n : ss[i] \in Seq(S)
  OBVIOUS
<1>2. FlattenSeq(ss) = IF n = 0 THEN ss ELSE rec[n]
  BY DEF FlattenSeq
<1> HIDE DEF n
<1>3. body \in [1..n -> [Seq(S) -> Seq(S)]] /\ \A i \in 1..n : \A s \in Seq(S) : body[i][s] = s \o ss[i]
  BY <1>1
<1> HIDE DEF body
<1>4. PICK f \in [0..n -> Seq(S)] : f[0] = <<>> /\ \A i \in 1..n : f[i] = body[i][f[i - 1]]
  <2> DEFINE none == <<>>
  <2>1. none \in Seq(S)
    OBVIOUS
  <2> HIDE DEF none
  <2>2. HasLoop(n, Seq(S), none, body)
    BY <1>1, <1>3, <2>1, LoopExists
  <2> QED BY <2>2 DEF HasLoop, none
<1>5. ASSUME NEW i \in 1..n PROVE f[i] = f[i - 1] \o ss[i] /\ f[i - 1] \in Seq(S)
  <2>1. i - 1 \in 0..n
    BY <1>1
  <2> QED BY <1>3, <1>4, <2>1
<1> DEFINE g == [i \in 1..n |-> f[i]]
<1>6. g = [i \in 1..n |-> IF i = 1 THEN ss[i] ELSE g[i - 1] \o ss[i]]
  <2>1. ASSUME NEW i \in 1..n PROVE f[i] = IF i = 1 THEN ss[i] ELSE g[i - 1] \o ss[i]
    <3>1. CASE i = 1
      <4>1. f[i - 1] = <<>> /\ ss[i] \in Seq(S)
        BY <1>1, <1>4, <3>1
      <4>2. <<>> \o ss[i] = ss[i]
        BY <4>1, ConcatEmptySeq
      <4>3. f[i] = ss[i]
        BY <1>5, <4>1, <4>2
      <4> QED BY <3>1, <4>3
    <3>2. CASE i # 1
      <4>1. i - 1 \in 1..n
        BY <1>1, <3>2
      <4> QED BY <1>5, <3>2, <4>1
    <3> QED BY <3>1, <3>2
  <2> QED BY <2>1
<1>7. rec = [i \in 1..n |-> IF i = 1 THEN ss[i] ELSE rec[i - 1] \o ss[i]]
  <2> HIDE DEF g
  <2> QED BY <1>6
<1>8. \A i \in 1..n : rec[i] = IF i = 1 THEN ss[i] ELSE rec[i - 1] \o ss[i]
  <2> HIDE DEF rec
  <2> QED BY <1>7
<1>9. \A i \in 1..n : g[i] = f[i] /\ g[i] = IF i = 1 THEN ss[i] ELSE g[i - 1] \o ss[i]
  <2>1. \A i \in 1..n : g[i] = f[i]
    OBVIOUS
  <2> HIDE DEF g
  <2> QED BY <1>6, <2>1
<1> HIDE DEF rec, g
<1> DEFINE P == {i \in 0..n : i = 0 \/ rec[i] = g[i]}
<1>10. 0 \in P
  BY <1>1
<1>11. ASSUME NEW i \in 1..n, i - 1 \in P PROVE i \in P
  <2>1. i = 1 \/ rec[i - 1] = g[i - 1]
    BY <1>11
  <2>2. i \in 0..n
    BY <1>1
  <2> QED BY <1>8, <1>9, <2>1, <2>2
<1>12. \A i \in 0..n : i \in P
  <2> HIDE DEF P
  <2> QED BY <1>1, <1>10, <1>11, Passes
<1>13. FlattenSeq(ss) = f[n]
  <2>1. CASE n = 0
    BY <1>2, <1>4, <2>1 DEF n
  <2>2. CASE n # 0
    <3>1. n \in 1..n /\ n \in 0..n
      BY <1>1, <2>2
    <3> QED BY <1>2, <1>9, <1>12, <2>2, <3>1
  <2> QED BY <2>1, <2>2
<1> QED BY <1>4, <1>5, <1>13 DEF n

LEMMA FlattenTyped == ASSUME NEW S, NEW ss \in Seq(Seq(S)) PROVE FlattenSeq(ss) \in Seq(S)
<1>1. PICK f \in [0..Len(ss) -> Seq(S)] : FlattenSeq(ss) = f[Len(ss)]
  BY FlattenLoop
<1>2. Len(ss) \in 0..Len(ss)
  OBVIOUS
<1> QED BY <1>1, <1>2

LEMMA FlattenAppend ==
  ASSUME NEW S, NEW ss \in Seq(Seq(S)), NEW s \in Seq(S)
  PROVE  FlattenSeq(Append(ss, s)) = FlattenSeq(ss) \o s
<1> DEFINE n == Len(ss)
           t == Append(ss, s)
<1>1. n \in Nat
  OBVIOUS
<1>2. /\ t \in Seq(Seq(S)) /\ Len(t) = n + 1
      /\ t[n + 1] = s /\ \A i \in 1..n : t[i] = ss[i]
  OBVIOUS
<1>3. PICK f \in [0..n -> Seq(S)] : /\ f[0] = <<>> /\ FlattenSeq(ss) = f[n]
                                    /\ \A i \in 1..n : f[i] = f[i - 1] \o ss[i]
  BY FlattenLoop
<1> HIDE DEF n, t
<1>4. PICK g \in [0..n + 1 -> Seq(S)] : /\ g[0] = <<>> /\ FlattenSeq(t) = g[n + 1]
                                        /\ \A i \in 1..n + 1 : g[i] = g[i - 1] \o t[i]
  <2>1. \E g \in [0..Len(t) -> Seq(S)] : /\ g[0] = <<>> /\ FlattenSeq(t) = g[Len(t)]
                                         /\ \A i \in 1..Len(t) : g[i] = g[i - 1] \o t[i]
    <3>1. t \in Seq(Seq(S))
      BY <1>2
    <3> QED BY <3>1, FlattenLoop
  <2> QED BY <1>2, <2>1
<1> DEFINE P == {i \in 0..n : f[i] = g[i]}
<1>5. 0 \in P
  BY <1>1, <1>3, <1>4
<1>6. ASSUME NEW i \in 1..n, i - 1 \in P PROVE i \in P
  <2>1. i \in 1..n + 1 /\ i \in 0..n /\ f[i - 1] = g[i - 1] /\ t[i] = ss[i]
    BY <1>1, <1>2, <1>6
  <2> QED BY <1>3, <1>4, <2>1
<1>7. n \in P
  <2> HIDE DEF P
  <2>1. \A i \in 0..n : i \in P
    BY <1>1, <1>5, <1>6, Passes
  <2> QED BY <1>1, <2>1
<1>8. n + 1 \in 1..n + 1 /\ (n + 1) - 1 = n
  BY <1>1
<1> QED BY <1>2, <1>3, <1>4, <1>7, <1>8 DEF t

LEMMA FlattenNone == FlattenSeq(<<>>) = <<>>
<1>1. Len(<<>>) = 0
  OBVIOUS
<1> QED BY <1>1 DEF FlattenSeq

\* The bundles hold the envelopes, in their order.
LEMMA BundlesHoldAll ==
  ASSUME NEW envelopes \in Seq(Envelopes)
  PROVE  FlattenSeq(publishEnvelopeBundles(envelopes)) = envelopes
<1> DEFINE n == Len(envelopes)
           upTo(i) == SubSeq(envelopes, 1, i)
           E == Envelopes
<1>1. n \in Nat /\ \A i \in 1..n : envelopes[i] \in E
  OBVIOUS
<1>2. PICK f \in [0..n -> BundleAccs] : /\ f[0] = [bundles |-> <<>>, bundle |-> <<>>, bytes |-> 2]
                                        /\ Bundled(envelopes) = f[n]
                                        /\ \A i \in 1..n : f[i] = AddEnvelope(f[i - 1], envelopes[i])
  BY BundleLoop
<1>3. \A i \in 0..n : f[i].bundles \in Seq(Seq(E)) /\ f[i].bundle \in Seq(E)
  BY <1>2 DEF BundleAccs
<1> DEFINE P == {i \in 0..n : FlattenSeq(f[i].bundles) \o f[i].bundle = upTo(i)}
<1>4. 0 \in P
  <2>1. FlattenSeq(f[0].bundles) = <<>> /\ f[0].bundle = <<>>
    BY <1>2, FlattenNone
  <2>2. upTo(0) = <<>> /\ 0 \in 0..n
    BY <1>1, SubSeqEmpty
  <2> QED BY <2>1, <2>2
<1>5. ASSUME NEW i \in 1..n, i - 1 \in P PROVE i \in P
  <2> DEFINE bs == f[i - 1].bundles
             b  == f[i - 1].bundle
             v  == envelopes[i]
             F  == FlattenSeq(bs)
  <2>1. bs \in Seq(Seq(E)) /\ b \in Seq(E) /\ F \o b = upTo(i - 1) /\ v \in E /\ i - 1 \in 0..n /\ i \in 0..n
    <3>1. i - 1 \in 0..n /\ i \in 0..n
      BY <1>1
    <3> QED BY <1>1, <1>3, <1>5, <3>1
  <2>2. upTo(i) = upTo(i - 1) \o <<v>>
    <3>1. 1 \in 1..Len(envelopes) /\ i \in 1..Len(envelopes)
      BY <1>1
    <3> QED BY <3>1, SubSeqRecursiveSecond
  <2>3. F \in Seq(E)
    <3> HIDE DEF bs, E
    <3> QED BY <2>1, FlattenTyped
  <2>4. \/ f[i].bundles = Append(bs, b) /\ f[i].bundle = <<v>>
        \/ f[i].bundles = bs /\ f[i].bundle = Append(b, v)
    <3> DEFINE acc == f[i - 1]
    <3>1. f[i] = AddEnvelope(acc, v)
      BY <1>2
    <3>2. \/ \E z : f[i] = [bundles |-> Append(acc.bundles, acc.bundle), bundle |-> <<v>>, bytes |-> z]
          \/ \E z : f[i] = [bundles |-> acc.bundles, bundle |-> Append(acc.bundle, v), bytes |-> z]
      <4> HIDE DEF acc, v
      <4> QED BY <3>1, Zenon DEF AddEnvelope
    <3> HIDE DEF acc, v
    <3>3. \/ f[i].bundles = Append(acc.bundles, acc.bundle) /\ f[i].bundle = <<v>>
          \/ f[i].bundles = acc.bundles /\ f[i].bundle = Append(acc.bundle, v)
      <4>1. CASE \E z : f[i] = [bundles |-> Append(acc.bundles, acc.bundle), bundle |-> <<v>>, bytes |-> z]
        <5>1. PICK z : f[i] = [bundles |-> Append(acc.bundles, acc.bundle), bundle |-> <<v>>, bytes |-> z]
          BY <4>1
        <5> QED BY <5>1
      <4>2. CASE \E z : f[i] = [bundles |-> acc.bundles, bundle |-> Append(acc.bundle, v), bytes |-> z]
        <5>1. PICK z : f[i] = [bundles |-> acc.bundles, bundle |-> Append(acc.bundle, v), bytes |-> z]
          BY <4>2
        <5> QED BY <5>1
      <4> QED BY <3>2, <4>1, <4>2
    <3> QED BY <3>3 DEF acc
  <2> HIDE DEF bs, b, v, F, upTo, E
  <2>5. (F \o b) \o <<v>> = upTo(i)
    BY <2>1, <2>2
  <2>6. CASE f[i].bundles = Append(bs, b) /\ f[i].bundle = <<v>>
    <3>1. FlattenSeq(Append(bs, b)) = F \o b
      BY <2>1, FlattenAppend DEF F
    <3> QED BY <2>1, <2>5, <2>6, <3>1
  <2>7. CASE f[i].bundles = bs /\ f[i].bundle = Append(b, v)
    <3>1. Append(b, v) = b \o <<v>> /\ <<v>> \in Seq(E)
      BY <2>1, AppendIsConcat
    <3>2. F \o (b \o <<v>>) = (F \o b) \o <<v>>
      <4>1. F \in Seq(E) /\ b \in Seq(E) /\ <<v>> \in Seq(E)
        BY <2>1, <2>3, <3>1
      <4> DEFINE w == <<v>>
      <4> HIDE DEF w
      <4> QED BY <4>1, ConcatAssociative DEF w
    <3> QED BY <2>1, <2>5, <2>7, <3>1, <3>2 DEF F
  <2> QED BY <2>4, <2>6, <2>7
<1>6. n \in P
  <2> HIDE DEF P
  <2>1. \A i \in 0..n : i \in P
    BY <1>1, <1>4, <1>5, Passes
  <2> QED BY <1>1, <2>1
<1> DEFINE bs == f[n].bundles
           b  == f[n].bundle
<1>7. bs \in Seq(Seq(E)) /\ b \in Seq(E) /\ FlattenSeq(bs) \o b = envelopes
  <2>1. upTo(n) = envelopes
    BY SubSeqFull
  <2>2. n \in 0..n
    BY <1>1
  <2> QED BY <1>3, <1>6, <2>1, <2>2
<1>8. publishEnvelopeBundles(envelopes) = bs \o (IF b = <<>> THEN <<>> ELSE <<b>>)
  BY <1>2 DEF publishEnvelopeBundles
<1> HIDE DEF bs, b, E
<1>9. CASE b = <<>>
  <2>1. bs \o <<>> = bs /\ FlattenSeq(bs) \in Seq(E)
    BY <1>7, ConcatEmptySeq, FlattenTyped
  <2>2. FlattenSeq(bs) \o <<>> = FlattenSeq(bs)
    BY <2>1, ConcatEmptySeq
  <2> QED BY <1>7, <1>8, <1>9, <2>1, <2>2
<1>10. CASE b # <<>>
  <2>1. Append(bs, b) = bs \o <<b>>
    BY <1>7, AppendIsConcat
  <2>2. FlattenSeq(Append(bs, b)) = FlattenSeq(bs) \o b
    BY <1>7, FlattenAppend
  <2> QED BY <1>7, <1>8, <1>10, <2>1, <2>2
<1> QED BY <1>9, <1>10

-----------------------------------------------------------------------------
(* Every event once in each of its streams                                  *)

\* The event at a position of an envelope, and the stream it goes to.
At(E, i, k) == <<E[i].events[k], E[i].stream>>

\* The envelopes take each event to each stream of these pairs, once.
Once(E, T) ==
  /\ \A i \in 1..Len(E) : \A k \in 1..Len(E[i].events) : At(E, i, k) \in T
  /\ \A t \in T : \E i \in 1..Len(E) : \E k \in 1..Len(E[i].events) : At(E, i, k) = t
  /\ \A i, j \in 1..Len(E) : \A k \in 1..Len(E[i].events), m \in 1..Len(E[j].events) :
       At(E, i, k) = At(E, j, m) => i = j /\ k = m

LEMMA OnceNone == Once(<<>>, {})
<1>1. Len(<<>>) = 0 /\ \A i \in 1..0 : FALSE
  OBVIOUS
<1> QED BY <1>1 DEF Once

LEMMA OnceJoin ==
  ASSUME NEW S, NEW a \in Seq(S), NEW b \in Seq(S), NEW T, NEW U, T \cap U = {},
         Once(a, T), Once(b, U)
  PROVE  Once(a \o b, T \cup U)
<1> DEFINE c == a \o b
           n == Len(a)
<1>1. /\ n \in Nat /\ Len(b) \in Nat /\ Len(c) = n + Len(b)
      /\ \A i \in 1..n : c[i] = a[i] /\ i \in 1..Len(c)
      /\ \A i \in 1..Len(b) : c[n + i] = b[i] /\ n + i \in 1..Len(c)
  <2>1. n \in Nat /\ Len(b) \in Nat /\ Len(c) = n + Len(b)
    OBVIOUS
  <2>2. \A i \in 1..n + Len(b) : c[i] = IF i <= n THEN a[i] ELSE b[i - n]
    OBVIOUS
  <2> HIDE DEF c, n
  <2>3. ASSUME NEW i \in 1..n PROVE c[i] = a[i] /\ i \in 1..Len(c)
    <3>1. i \in 1..n + Len(b) /\ i <= n
      BY <2>1
    <3> QED BY <2>1, <2>2, <3>1
  <2>4. ASSUME NEW i \in 1..Len(b) PROVE c[n + i] = b[i] /\ n + i \in 1..Len(c)
    <3>1. n + i \in 1..n + Len(b) /\ ~(n + i <= n) /\ (n + i) - n = i
      BY <2>1
    <3> QED BY <2>1, <2>2, <3>1
  <2> QED BY <2>1, <2>3, <2>4
<1>2. ASSUME NEW i \in 1..Len(c)
      PROVE  i \in 1..n \/ \E j \in 1..Len(b) : i = n + j
  <2>1. CASE i <= n
    BY <1>1, <2>1
  <2>2. CASE ~(i <= n)
    <3>1. i - n \in 1..Len(b) /\ i = n + (i - n)
      BY <1>1, <2>2
    <3> QED BY <3>1
  <2> QED BY <2>1, <2>2
<1> HIDE DEF c, n
<1>3. \A i \in 1..n : \A k : At(c, i, k) = At(a, i, k) /\ Len(c[i].events) = Len(a[i].events)
  BY <1>1 DEF At
<1>4. \A i \in 1..Len(b) : \A k : At(c, n + i, k) = At(b, i, k) /\ Len(c[n + i].events) = Len(b[i].events)
  BY <1>1 DEF At
<1>5. ASSUME NEW i \in 1..n, NEW k \in 1..Len(c[i].events) PROVE At(c, i, k) \in T
  <2>1. i \in 1..Len(a) /\ k \in 1..Len(a[i].events) /\ At(c, i, k) = At(a, i, k)
    BY <1>3 DEF n
  <2> QED BY <2>1 DEF Once
<1>6. ASSUME NEW i \in 1..Len(b), NEW k \in 1..Len(c[n + i].events) PROVE At(c, n + i, k) \in U
  <2>1. k \in 1..Len(b[i].events) /\ At(c, n + i, k) = At(b, i, k)
    BY <1>4
  <2> QED BY <2>1 DEF Once
<1>7. ASSUME NEW i \in 1..Len(c), NEW k \in 1..Len(c[i].events) PROVE At(c, i, k) \in T \cup U
  <2>1. CASE i \in 1..n
    BY <1>5, <2>1
  <2>2. CASE \E j \in 1..Len(b) : i = n + j
    BY <1>6, <2>2
  <2> QED BY <1>2, <2>1, <2>2
<1>8. ASSUME NEW t \in T \cup U
      PROVE  \E i \in 1..Len(c) : \E k \in 1..Len(c[i].events) : At(c, i, k) = t
  <2>1. CASE t \in T
    <3>1. PICK i \in 1..n : \E k \in 1..Len(a[i].events) : At(a, i, k) = t
      BY <2>1 DEF Once, n
    <3> QED BY <1>1, <1>3, <3>1
  <2>2. CASE t \in U
    <3>1. PICK i \in 1..Len(b) : \E k \in 1..Len(b[i].events) : At(b, i, k) = t
      BY <2>2 DEF Once
    <3> QED BY <1>1, <1>4, <3>1
  <2> QED BY <2>1, <2>2
<1>9. ASSUME NEW i \in 1..Len(c), NEW j \in 1..Len(c), NEW k \in 1..Len(c[i].events),
             NEW m \in 1..Len(c[j].events), At(c, i, k) = At(c, j, m)
      PROVE  i = j /\ k = m
  <2>1. CASE i \in 1..n /\ j \in 1..n
    <3>1. /\ i \in 1..Len(a) /\ j \in 1..Len(a) /\ k \in 1..Len(a[i].events)
          /\ m \in 1..Len(a[j].events) /\ At(a, i, k) = At(a, j, m)
      BY <1>3, <1>9, <2>1 DEF n
    <3> QED BY <3>1 DEF Once
  <2>2. CASE i \in 1..n /\ \E q \in 1..Len(b) : j = n + q
    <3>1. PICK q \in 1..Len(b) : j = n + q
      BY <2>2
    <3>2. At(c, i, k) \in T
      BY <1>5, <2>2
    <3>3. At(c, j, m) \in U
      BY <1>6, <3>1
    <3> QED BY <1>9, <3>2, <3>3
  <2>3. CASE j \in 1..n /\ \E p \in 1..Len(b) : i = n + p
    <3>1. PICK p \in 1..Len(b) : i = n + p
      BY <2>3
    <3>2. At(c, j, m) \in T
      BY <1>5, <2>3
    <3>3. At(c, i, k) \in U
      BY <1>6, <3>1
    <3> QED BY <1>9, <3>2, <3>3
  <2>4. CASE (\E p \in 1..Len(b) : i = n + p) /\ (\E q \in 1..Len(b) : j = n + q)
    <3>1. PICK p \in 1..Len(b), q \in 1..Len(b) : i = n + p /\ j = n + q
      BY <2>4
    <3>2. k \in 1..Len(b[p].events) /\ m \in 1..Len(b[q].events) /\ At(b, p, k) = At(b, q, m)
      BY <1>4, <1>9, <3>1
    <3>3. p = q /\ k = m
      BY <3>2 DEF Once
    <3> QED BY <3>1, <3>3
  <2> QED BY <1>2, <2>1, <2>2, <2>3, <2>4
<1>10. Once(c, T \cup U)
  BY <1>7, <1>8, <1>9 DEF Once
<1> QED BY <1>10 DEF c

\* So do the envelopes of several parts, when no two parts have a pair in common.
LEMMA OnceFlatten ==
  ASSUME NEW S, NEW parts \in Seq(Seq(S)), NEW T,
         \A i \in 1..Len(parts) : Once(parts[i], T[i]),
         \A i, j \in 1..Len(parts) : i # j => T[i] \cap T[j] = {},
         NEW W, \A x : x \in W <=> \E i \in 1..Len(parts) : x \in T[i]
  PROVE  Once(FlattenSeq(parts), W)
<1> DEFINE n == Len(parts)
           U(i) == UNION {T[j] : j \in 1..i}
<1>1. n \in Nat /\ \A i \in 1..n : parts[i] \in Seq(S)
  OBVIOUS
<1>2. PICK f \in [0..n -> Seq(S)] : /\ f[0] = <<>> /\ FlattenSeq(parts) = f[n]
                                    /\ \A i \in 1..n : f[i] = f[i - 1] \o parts[i]
  BY ONLY parts \in Seq(Seq(S)), FlattenLoop
<1>3. \A i \in 1..n : Once(parts[i], T[i])
  OBVIOUS
<1>4. \A i, j \in 1..n : i # j => T[i] \cap T[j] = {}
  OBVIOUS
<1> HIDE DEF n
<1> DEFINE P == {i \in 0..n : Once(f[i], U(i))}
<1>5. 0 \in P
  <2>1. U(0) = {} /\ 0 \in 0..n
    BY <1>1
  <2>2. Once(f[0], U(0))
    <3> HIDE DEF U
    <3> QED BY <1>2, <2>1, OnceNone
  <2> QED BY <2>1, <2>2
<1>6. ASSUME NEW i \in 1..n, i - 1 \in P PROVE i \in P
  <2>1. i - 1 \in 0..n /\ i \in 0..n /\ f[i - 1] \in Seq(S) /\ Once(f[i - 1], U(i - 1))
    BY <1>1, <1>6
  <2>2. U(i - 1) \cap T[i] = {}
    <3>1. \A j \in 1..i - 1 : j \in 1..n /\ j # i
      BY <1>1
    <3> QED BY <1>4, <3>1
  <2>3. U(i) = U(i - 1) \cup T[i]
    <3>1. 1..i = (1..i - 1) \cup {i}
      BY <1>1
    <3> QED BY <3>1
  <2>4. Once(f[i - 1] \o parts[i], U(i - 1) \cup T[i])
    <3> HIDE DEF U
    <3> QED BY <1>1, <1>3, <2>1, <2>2, OnceJoin
  <2> HIDE DEF U
  <2> QED BY <1>2, <2>1, <2>3, <2>4
<1>7. n \in P
  <2> HIDE DEF P
  <2>1. \A i \in 0..n : i \in P
    BY <1>1, <1>5, <1>6, Passes
  <2> QED BY <1>1, <2>1
<1>8. U(n) = W
  BY DEF n
<1> HIDE DEF U
<1> QED BY <1>2, <1>7, <1>8

\* The chunks have each of these events once, and no other.
Holds(cs, T) ==
  /\ \A i \in 1..Len(cs) : \A k \in 1..Len(cs[i]) : cs[i][k] \in T
  /\ \A t \in T : \E i \in 1..Len(cs) : \E k \in 1..Len(cs[i]) : cs[i][k] = t
  /\ \A i, j \in 1..Len(cs) : \A k \in 1..Len(cs[i]), m \in 1..Len(cs[j]) :
       cs[i][k] = cs[j][m] => i = j /\ k = m

LEMMA HoldsOneMore ==
  ASSUME NEW c, NEW d, NEW p, NEW q, NEW T, Holds(c, T), d[p][q] \notin T,
         p \in 1..Len(d), q \in 1..Len(d[p]),
         \A i \in 1..Len(d) : \A k \in 1..Len(d[i]) :
           \/ i = p /\ k = q
           \/ i \in 1..Len(c) /\ k \in 1..Len(c[i]),
         \A i \in 1..Len(c) : i \in 1..Len(d) /\ \A k \in 1..Len(c[i]) :
           k \in 1..Len(d[i]) /\ d[i][k] = c[i][k]
  PROVE  Holds(d, T \cup {d[p][q]})
<1>1. ASSUME NEW i \in 1..Len(d), NEW k \in 1..Len(d[i]) PROVE d[i][k] \in T \cup {d[p][q]}
  BY DEF Holds
<1>2. ASSUME NEW t \in T \cup {d[p][q]} PROVE \E i \in 1..Len(d) : \E k \in 1..Len(d[i]) : d[i][k] = t
  <2>1. CASE t \in T
    <3>1. PICK i \in 1..Len(c) : \E k \in 1..Len(c[i]) : c[i][k] = t
      BY <2>1 DEF Holds
    <3> QED BY <3>1
  <2>2. CASE t = d[p][q]
    BY <2>2
  <2> QED BY <2>1, <2>2
<1>3. ASSUME NEW i \in 1..Len(d), NEW j \in 1..Len(d), NEW k \in 1..Len(d[i]), NEW m \in 1..Len(d[j]),
             d[i][k] = d[j][m]
      PROVE  i = j /\ k = m
  <2>1. CASE i \in 1..Len(c) /\ k \in 1..Len(c[i]) /\ j \in 1..Len(c) /\ m \in 1..Len(c[j])
    <3>1. c[i][k] = c[j][m]
      BY <1>3, <2>1
    <3> QED BY <2>1, <3>1 DEF Holds
  <2>2. CASE i = p /\ k = q /\ j \in 1..Len(c) /\ m \in 1..Len(c[j])
    <3>1. d[j][m] \in T
      BY <2>2 DEF Holds
    <3> QED BY <1>3, <2>2, <3>1
  <2>3. CASE j = p /\ m = q /\ i \in 1..Len(c) /\ k \in 1..Len(c[i])
    <3>1. d[i][k] \in T
      BY <2>3 DEF Holds
    <3> QED BY <1>3, <2>3, <3>1
  <2> QED BY <2>1, <2>2, <2>3
<1> QED BY <1>1, <1>2, <1>3 DEF Holds

\* An event more in a chunk of its own.
LEMMA HoldsNew ==
  ASSUME NEW S, NEW cs \in Seq(Seq(S)), NEW e \in S, NEW T, e \notin T, Holds(cs, T)
  PROVE  Holds(Append(cs, <<e>>), T \cup {e})
<1> DEFINE n == Len(cs)
           one == <<e>>
           d == Append(cs, one)
<1>1. n \in Nat /\ one \in Seq(S) /\ Len(one) = 1 /\ one[1] = e
  OBVIOUS
<1>2. Len(d) = n + 1 /\ d[n + 1] = one /\ \A i \in 1..n : d[i] = cs[i]
  <2> HIDE DEF one
  <2> QED BY <1>1
<1> HIDE DEF n, one, d
<1>3. ASSUME NEW i \in 1..Len(d), NEW k \in 1..Len(d[i])
      PROVE  (i = n + 1 /\ k = 1) \/ (i \in 1..n /\ k \in 1..Len(cs[i]))
  <2>1. CASE i \in 1..n
    BY <1>2, <2>1
  <2>2. CASE i = n + 1
    <3>1. Len(d[i]) = 1
      BY <1>1, <1>2, <2>2
    <3> QED BY <2>2, <3>1
  <2>3. i = n + 1 \/ i \in 1..n
    BY <1>1, <1>2
  <2> QED BY <2>1, <2>2, <2>3
<1>4. \A i \in 1..n : i \in 1..Len(d) /\ \A k \in 1..Len(cs[i]) : k \in 1..Len(d[i]) /\ d[i][k] = cs[i][k]
  BY <1>1, <1>2
<1>5. n + 1 \in 1..Len(d) /\ 1 \in 1..Len(d[n + 1]) /\ d[n + 1][1] = e
  <2>1. d[n + 1] = one /\ Len(d[n + 1]) = 1
    BY <1>1, <1>2
  <2>2. n + 1 \in 1..Len(d)
    BY <1>1, <1>2
  <2>3. 1 \in 1..Len(d[n + 1])
    BY <2>1
  <2>4. d[n + 1][1] = e
    BY <1>1, <2>1
  <2> QED BY <2>2, <2>3, <2>4
<1>6. Holds(d, T \cup {d[n + 1][1]})
  BY <1>3, <1>4, <1>5, HoldsOneMore DEF n
<1> QED BY <1>5, <1>6 DEF d, one

\* An event more in the last chunk.
LEMMA HoldsGrow ==
  ASSUME NEW S, NEW cs \in Seq(Seq(S)), NEW b \in Seq(S), NEW e \in S, NEW T, e \notin T,
         Holds(Append(cs, b), T)
  PROVE  Holds(Append(cs, Append(b, e)), T \cup {e})
<1> DEFINE n == Len(cs)
           l == Len(b)
           more == Append(b, e)
           c == Append(cs, b)
           d == Append(cs, more)
<1>1. /\ n \in Nat /\ l \in Nat /\ more \in Seq(S) /\ Len(more) = l + 1 /\ more[l + 1] = e
      /\ \A k \in 1..l : more[k] = b[k]
  OBVIOUS
<1>2. Len(d) = n + 1 /\ d[n + 1] = more /\ \A i \in 1..n : d[i] = cs[i]
  <2> HIDE DEF more
  <2> QED BY <1>1
<1>3. Len(c) = n + 1 /\ c[n + 1] = b /\ \A i \in 1..n : c[i] = cs[i]
  OBVIOUS
<1> HIDE DEF n, l, more, c, d
<1>4. ASSUME NEW i \in 1..Len(d), NEW k \in 1..Len(d[i])
      PROVE  (i = n + 1 /\ k = l + 1) \/ (i \in 1..Len(c) /\ k \in 1..Len(c[i]))
  <2>1. CASE i \in 1..n
    BY <1>1, <1>2, <1>3, <2>1
  <2>2. CASE i = n + 1
    <3>1. k \in 1..l + 1 /\ i \in 1..Len(c) /\ Len(c[i]) = l
      BY <1>1, <1>2, <1>3, <2>2 DEF l
    <3> QED BY <1>1, <2>2, <3>1
  <2>3. i = n + 1 \/ i \in 1..n
    BY <1>1, <1>2
  <2> QED BY <2>1, <2>2, <2>3
<1>5. ASSUME NEW i \in 1..Len(c)
      PROVE  i \in 1..Len(d) /\ \A k \in 1..Len(c[i]) : k \in 1..Len(d[i]) /\ d[i][k] = c[i][k]
  <2>1. CASE i \in 1..n
    BY <1>1, <1>2, <1>3, <2>1
  <2>2. CASE i = n + 1
    <3>1. \A k \in 1..l : k \in 1..l + 1
      BY <1>1
    <3> QED BY <1>1, <1>2, <1>3, <2>2, <3>1 DEF l
  <2>3. i = n + 1 \/ i \in 1..n
    BY <1>1, <1>3
  <2> QED BY <2>1, <2>2, <2>3
<1>6. n + 1 \in 1..Len(d) /\ l + 1 \in 1..Len(d[n + 1]) /\ d[n + 1][l + 1] = e
  BY <1>1, <1>2
<1>7. Holds(d, T \cup {d[n + 1][l + 1]})
  <2>1. Holds(c, T)
    BY DEF c
  <2> QED BY <1>4, <1>5, <1>6, <2>1, HoldsOneMore
<1> QED BY <1>6, <1>7 DEF d, more

\* The chunks of a stream have all its events.
LEMMA ChunksHoldAll ==
  ASSUME NEW events \in Seq(Events), \A i, j \in 1..Len(events) : events[i] = events[j] => i = j
  PROVE  Holds(chunkLiveEvents(events), ToSet(events))
<1> DEFINE n == Len(events)
           upTo(i) == {events[j] : j \in 1..i}
           E == Events
<1>1. n \in Nat /\ \A i \in 1..n : events[i] \in E
  OBVIOUS
<1>2. PICK f \in [0..n -> ChunkAccs] :
        /\ f[0] = [chunks |-> <<>>, current |-> <<>>, bytes |-> EmptyPayload]
        /\ Chunked(events) = f[n]
        /\ \A i \in 1..n : f[i] = AddEvent(f[i - 1], events[i])
  BY ChunkLoop
<1>3. \A i \in 0..n : f[i].chunks \in Seq(Seq(E)) /\ f[i].current \in Seq(E)
  BY <1>2 DEF ChunkAccs
<1>4. \A i, j \in 1..n : events[i] = events[j] => i = j
  OBVIOUS
<1> HIDE DEF E, n
<1> DEFINE P == {i \in 0..n : Holds(Append(f[i].chunks, f[i].current), upTo(i))}
<1>5. 0 \in P
  <2> DEFINE none == <<>>
             c == Append(none, none)
  <2>1. f[0].chunks = none /\ f[0].current = none
    BY <1>2
  <2>2. Len(c) = 1 /\ c[1] = <<>> /\ upTo(0) = {} /\ 0 \in 0..n
    BY <1>1
  <2>3. \A i \in 1..Len(c) : Len(c[i]) = 0
    BY <2>2
  <2>4. Holds(c, upTo(0))
    <3> HIDE DEF c, upTo
    <3>1. \A i \in 1..Len(c) : \A k \in 1..Len(c[i]) : FALSE
      BY <2>3
    <3> QED BY <2>2, <3>1 DEF Holds
  <2> HIDE DEF c, upTo
  <2> QED BY <2>1, <2>2, <2>4 DEF c
<1>6. ASSUME NEW i \in 1..n, i - 1 \in P PROVE i \in P
  <2> DEFINE cs == f[i - 1].chunks
             b == f[i - 1].current
             e == events[i]
  <2>1. /\ cs \in Seq(Seq(E)) /\ b \in Seq(E) /\ e \in E /\ i \in 0..n
        /\ Holds(Append(cs, b), upTo(i - 1))
    <3>1. i - 1 \in 0..n /\ i \in 0..n
      BY <1>1
    <3> QED BY <1>1, <1>3, <1>6, <3>1
  <2>2. e \notin upTo(i - 1)
    <3>1. \A j \in 1..i - 1 : j \in 1..n /\ j # i
      BY <1>1
    <3> QED BY <1>4, <3>1
  <2>3. upTo(i) = upTo(i - 1) \cup {e}
    <3>1. 1..i = (1..i - 1) \cup {i}
      BY <1>1
    <3> QED BY <3>1
  <2>4. \/ f[i].chunks = Append(cs, b) /\ f[i].current = <<e>>
        \/ f[i].chunks = cs /\ f[i].current = Append(b, e)
    <3> DEFINE acc == f[i - 1]
    <3>1. f[i] = AddEvent(acc, e)
      BY <1>2
    <3>2. \/ \E z : f[i] = [chunks |-> Append(acc.chunks, acc.current), current |-> <<e>>, bytes |-> z]
          \/ \E z : f[i] = [chunks |-> acc.chunks, current |-> Append(acc.current, e), bytes |-> z]
      <4> HIDE DEF acc, e
      <4> QED BY <3>1, Zenon DEF AddEvent
    <3> HIDE DEF acc, e
    <3>3. \/ f[i].chunks = Append(acc.chunks, acc.current) /\ f[i].current = <<e>>
          \/ f[i].chunks = acc.chunks /\ f[i].current = Append(acc.current, e)
      <4>1. CASE \E z : f[i] = [chunks |-> Append(acc.chunks, acc.current), current |-> <<e>>, bytes |-> z]
        <5>1. PICK z : f[i] = [chunks |-> Append(acc.chunks, acc.current), current |-> <<e>>, bytes |-> z]
          BY <4>1
        <5> QED BY <5>1
      <4>2. CASE \E z : f[i] = [chunks |-> acc.chunks, current |-> Append(acc.current, e), bytes |-> z]
        <5>1. PICK z : f[i] = [chunks |-> acc.chunks, current |-> Append(acc.current, e), bytes |-> z]
          BY <4>2
        <5> QED BY <5>1
      <4> QED BY <3>2, <4>1, <4>2
    <3> QED BY <3>3 DEF acc
  <2> HIDE DEF cs, b, e, upTo
  <2>5. CASE f[i].chunks = Append(cs, b) /\ f[i].current = <<e>>
    <3> DEFINE x == Append(cs, b)
    <3>1. x \in Seq(Seq(E)) /\ Holds(x, upTo(i - 1))
      BY <2>1
    <3>2. Holds(Append(x, <<e>>), upTo(i - 1) \cup {e})
      <4> HIDE DEF x
      <4> QED BY <2>1, <2>2, <3>1, HoldsNew
    <3> QED BY <2>1, <2>3, <2>5, <3>2
  <2>6. CASE f[i].chunks = cs /\ f[i].current = Append(b, e)
    <3>1. Holds(Append(cs, Append(b, e)), upTo(i - 1) \cup {e})
      BY <2>1, <2>2, HoldsGrow
    <3> QED BY <2>1, <2>3, <2>6, <3>1
  <2> QED BY <2>4, <2>5, <2>6
<1>7. n \in P
  <2> HIDE DEF P
  <2>1. \A i \in 0..n : i \in P
    BY <1>1, <1>5, <1>6, Passes
  <2> QED BY <1>1, <2>1
<1> DEFINE cs == f[n].chunks
           b == f[n].current
           T == upTo(n)
<1>8. cs \in Seq(Seq(E)) /\ b \in Seq(E) /\ Holds(Append(cs, b), T)
  <2>1. n \in 0..n
    BY <1>1
  <2> QED BY <1>3, <1>7, <2>1
<1>9. chunkLiveEvents(events) = cs \o (IF b = <<>> THEN <<>> ELSE <<b>>)
  BY <1>2 DEF chunkLiveEvents
<1>10. T = ToSet(events)
  <2>1. DOMAIN events = 1..n
    BY DEF n
  <2> QED BY <2>1 DEF ToSet
<1> HIDE DEF cs, b, T
<1>11. CASE b = <<>>
  <2> DEFINE c == Append(cs, b)
  <2>1. cs \o <<>> = cs
    BY <1>8, ConcatEmptySeq
  <2>2. /\ Len(cs) \in Nat /\ Len(c) = Len(cs) + 1 /\ c[Len(cs) + 1] = b
        /\ \A i \in 1..Len(cs) : c[i] = cs[i]
    BY <1>8
  <2>3. Len(c[Len(cs) + 1]) = 0
    BY <1>11, <2>2
  <2> HIDE DEF c
  <2>4. \A i \in 1..Len(cs) : i \in 1..Len(c)
    BY <2>2
  <2>5. \A i \in 1..Len(c) : \A k \in 1..Len(c[i]) : i \in 1..Len(cs)
    <3>1. \A i \in 1..Len(c) : i \in 1..Len(cs) \/ i = Len(cs) + 1
      BY <2>2
    <3> QED BY <2>3, <3>1
  <2>6. Holds(cs, T)
    <3>1. Holds(c, T)
      BY <1>8 DEF c
    <3>2. \A i \in 1..Len(cs) : \A k \in 1..Len(cs[i]) : cs[i][k] \in T
      BY <2>2, <2>4, <3>1 DEF Holds
    <3>3. ASSUME NEW t \in T PROVE \E i \in 1..Len(cs) : \E k \in 1..Len(cs[i]) : cs[i][k] = t
      <4>1. PICK i \in 1..Len(c) : \E k \in 1..Len(c[i]) : c[i][k] = t
        BY <3>1 DEF Holds
      <4> QED BY <2>2, <2>5, <4>1
    <3>4. ASSUME NEW i \in 1..Len(cs), NEW j \in 1..Len(cs), NEW k \in 1..Len(cs[i]), NEW m \in 1..Len(cs[j]),
                 cs[i][k] = cs[j][m]
          PROVE  i = j /\ k = m
      <4>1. /\ i \in 1..Len(c) /\ j \in 1..Len(c) /\ k \in 1..Len(c[i]) /\ m \in 1..Len(c[j])
            /\ c[i][k] = c[j][m]
        BY <2>2, <2>4, <3>4
      <4> QED BY <3>1, <4>1 DEF Holds
    <3> QED BY <3>2, <3>3, <3>4 DEF Holds
  <2> QED BY <1>9, <1>10, <1>11, <2>1, <2>6
<1>12. CASE b # <<>>
  <2>1. Append(cs, b) = cs \o <<b>>
    BY <1>8, AppendIsConcat
  <2> QED BY <1>8, <1>9, <1>10, <1>12, <2>1
<1> QED BY <1>11, <1>12

\* The loop that groups the events of a stream.
LEMMA GroupLoop ==
  ASSUME NEW events \in Seq(Events), NEW stream
  PROVE  \E f \in [0..Len(events) -> Seq(Events)] :
           /\ f[0] = <<>> /\ Group(events, stream) = f[Len(events)]
           /\ \A i \in 1..Len(events) : f[i] = AddToGroup(f[i - 1], events[i], stream)
<1> DEFINE n == Len(events)
           S == Seq(Events)
           base == <<>>
           body == [i \in 1..n |-> [s \in S |-> AddToGroup(s, events[i], stream)]]
           next(f, i) == IF i = 0 THEN base ELSE AddToGroup(f[i - 1], events[i], stream)
           rec == CHOOSE f : f = [i \in 0..n |-> next(f, i)]
<1>1. Group(events, stream) = rec[n]
  BY DEF Group
<1>2. n \in Nat /\ base \in S
  OBVIOUS
<1>3. ASSUME NEW i \in 1..n, NEW s \in S PROVE AddToGroup(s, events[i], stream) \in S
  BY <1>3 DEF AddToGroup
<1> HIDE DEF n, S, base
<1>4. body \in [1..n -> [S -> S]] /\ \A i \in 1..n : \A s \in S : body[i][s] = AddToGroup(s, events[i], stream)
  BY <1>3
<1> HIDE DEF body
<1>5. PICK f \in [0..n -> S] : f[0] = base /\ \A i \in 1..n : f[i] = body[i][f[i - 1]]
  <2>1. HasLoop(n, S, base, body)
    BY <1>2, <1>4, LoopExists
  <2> QED BY <2>1 DEF HasLoop
<1>6. ASSUME NEW i \in 1..n, NEW g, g[i - 1] \in S PROVE next(g, i) = body[i][g[i - 1]]
  <2>1. i # 0
    BY <1>2
  <2> QED BY <1>4, <1>6, <2>1
<1>7. ASSUME NEW g PROVE next(g, 0) = base
  OBVIOUS
<1> HIDE DEF next
<1>8. f = [i \in 0..n |-> next(f, i)]
  <2>1. ASSUME NEW i \in 0..n PROVE f[i] = next(f, i)
    <3>1. CASE i = 0
      BY <1>5, <1>7, <3>1
    <3>2. CASE i # 0
      <4>1. i \in 1..n /\ i - 1 \in 0..n
        BY <1>2, <3>2
      <4>2. f[i - 1] \in S
        BY <4>1
      <4> QED BY <1>5, <1>6, <4>1, <4>2
    <3> QED BY <3>1, <3>2
  <2> QED BY <2>1
<1>9. rec = [i \in 0..n |-> next(rec, i)]
  BY <1>8
<1>10. \A i \in 0..n : rec[i] = next(rec, i)
  <2> HIDE DEF rec
  <2> QED BY <1>9
<1> HIDE DEF rec
<1>11. \A i \in 0..n : rec[i] \in S
  <2> DEFINE P == {i \in 0..n : rec[i] \in S}
  <2>1. 0 \in P
    BY <1>2, <1>7, <1>10
  <2>2. ASSUME NEW i \in 1..n, i - 1 \in P PROVE i \in P
    <3>1. i \in 0..n /\ rec[i - 1] \in S
      BY <1>2, <2>2
    <3>2. rec[i] = body[i][rec[i - 1]] /\ body[i][rec[i - 1]] \in S
      BY <1>4, <1>6, <1>10, <3>1
    <3> QED BY <3>1, <3>2
  <2> HIDE DEF P
  <2>3. \A i \in 0..n : i \in P
    BY <1>2, <2>1, <2>2, Passes
  <2> QED BY <2>3 DEF P
<1>12. rec \in [0..n -> S]
  BY <1>9, <1>11
<1>13. rec[0] = base
  BY <1>2, <1>7, <1>10
<1>14. ASSUME NEW i \in 1..n PROVE rec[i] = AddToGroup(rec[i - 1], events[i], stream)
  <2>1. i \in 0..n /\ i - 1 \in 0..n /\ rec[i - 1] \in S
    BY <1>2, <1>11
  <2> QED BY <1>4, <1>6, <1>10, <2>1
<1> QED BY <1>1, <1>12, <1>13, <1>14 DEF n, S, base

LEMMA ToSetOf ==
  ASSUME NEW S, NEW s \in Seq(S)
  PROVE  ToSet(s) = {s[i] : i \in 1..Len(s)} /\ ToSet(s) \subseteq S /\ IsFiniteSet(ToSet(s))
<1> DEFINE n == Len(s)
           R == {s[i] : i \in 1..n}
<1>1. n \in Nat /\ DOMAIN s = 1..n /\ s \in [1..n -> S]
  BY LenProperties
<1>2. ToSet(s) = R /\ R \subseteq S
  BY <1>1 DEF ToSet
<1>3. s \in Surjection(1..n, R)
  BY <1>1 DEF Surjection
<1>4. IsFiniteSet(1..n)
  <2>1. 1 \in Int /\ n \in Int
    BY <1>1
  <2> HIDE DEF n
  <2> QED BY <2>1, FS_Interval
<1>5. IsFiniteSet(R)
  <2> HIDE DEF n, R
  <2> QED BY <1>3, <1>4, FS_Surjection
<1> QED BY <1>2, <1>5

LEMMA DistinctAppend ==
  ASSUME NEW S, NEW c \in Seq(S), NEW e \in S, e \notin ToSet(c),
         \A i, j \in 1..Len(c) : c[i] = c[j] => i = j
  PROVE  /\ ToSet(Append(c, e)) = ToSet(c) \cup {e}
         /\ \A i, j \in 1..Len(Append(c, e)) : Append(c, e)[i] = Append(c, e)[j] => i = j
<1> DEFINE n == Len(c)
           d == Append(c, e)
<1>1. ToSet(c) = {c[k] : k \in 1..n}
  BY ToSetOf
<1>2. /\ n \in Nat /\ Len(d) = n + 1 /\ d[n + 1] = e /\ d \in Seq(S)
      /\ \A i \in 1..n : d[i] = c[i] /\ d[i] # e
  BY <1>1
<1>3. 1..Len(d) = (1..n) \cup {n + 1} /\ ToSet(d) = {d[k] : k \in 1..Len(d)}
  <2>1. 1..Len(d) = (1..n) \cup {n + 1}
    BY <1>2
  <2> HIDE DEF d
  <2> QED BY <1>2, <2>1, ToSetOf
<1> HIDE DEF n, d
<1>4. ToSet(d) = ToSet(c) \cup {e}
  BY <1>1, <1>2, <1>3
<1>5. ASSUME NEW i \in 1..Len(d), NEW j \in 1..Len(d), d[i] = d[j] PROVE i = j
  <2>1. CASE i \in 1..n /\ j \in 1..n
    BY <1>2, <1>5, <2>1 DEF n
  <2>2. CASE i = n + 1 \/ j = n + 1
    BY <1>2, <1>3, <1>5, <2>2
  <2> QED BY <1>3, <2>1, <2>2
<1> QED BY <1>4, <1>5 DEF d

\* groups[stream] has the events of the stream, once each.
LEMMA GroupHolds ==
  ASSUME NEW order \in Seq(Events), NEW s,
         \A i, j \in 1..Len(order) : order[i] = order[j] => i = j
  PROVE  /\ Group(order, s) \in Seq(Events)
         /\ \A i, j \in 1..Len(Group(order, s)) : Group(order, s)[i] = Group(order, s)[j] => i = j
         /\ ToSet(Group(order, s)) = {e \in ToSet(order) : s \in ToSet(Streams[e])}
<1> DEFINE n == Len(order)
           In(e) == s \in ToSet(Streams[e])
           of(i) == {order[j] : j \in {j \in 1..i : In(order[j])}}
<1>1. n \in Nat /\ \A i \in 1..n : order[i] \in Events
  OBVIOUS
<1>2. PICK f \in [0..n -> Seq(Events)] :
        /\ f[0] = <<>> /\ Group(order, s) = f[n]
        /\ \A i \in 1..n : f[i] = IF In(order[i]) THEN Append(f[i - 1], order[i]) ELSE f[i - 1]
  <2>1. \E f \in [0..Len(order) -> Seq(Events)] :
          /\ f[0] = <<>> /\ Group(order, s) = f[Len(order)]
          /\ \A i \in 1..Len(order) :
               f[i] = AddToGroup(f[i - 1], order[i], s)
    BY GroupLoop
  <2> QED BY <2>1 DEF AddToGroup
<1>3. \A i, j \in 1..n : order[i] = order[j] => i = j
  OBVIOUS
<1> HIDE DEF n, In
<1> DEFINE Good(c, i) == /\ of(i) = ToSet(c)
                         /\ \A k, m \in 1..Len(c) : c[k] = c[m] => k = m
           P == {i \in 0..n : Good(f[i], i)}
<1>4. 0 \in P
  <2>1. of(0) = {} /\ Len(f[0]) = 0 /\ ToSet(f[0]) = {} /\ 0 \in 0..n
    BY <1>1, <1>2 DEF ToSet
  <2>2. Good(f[0], 0)
    <3> HIDE DEF of
    <3> QED BY <2>1
  <2> HIDE DEF Good
  <2> QED BY <2>1, <2>2
<1>5. ASSUME NEW i \in 1..n, i - 1 \in P PROVE i \in P
  <2> DEFINE c == f[i - 1]
             e == order[i]
  <2>1. i \in 0..n /\ c \in Seq(Events) /\ e \in Events /\ Good(c, i - 1)
    <3>1. i - 1 \in 0..n /\ i \in 0..n
      BY <1>1
    <3> QED BY <1>1, <1>5, <3>1
  <2>2. 1..i = (1..i - 1) \cup {i} /\ \A j \in 1..i - 1 : j \in 1..n /\ j # i
    BY <1>1
  <2>3. e \notin of(i - 1)
    BY <1>3, <2>2
  <2>4. CASE In(e)
    <3>1. of(i) = of(i - 1) \cup {e}
      BY <2>2, <2>4
    <3>2. f[i] = Append(c, e)
      BY <1>2, <2>4
    <3>3. e \notin ToSet(c) /\ \A k, m \in 1..Len(c) : c[k] = c[m] => k = m
      BY <2>1, <2>3
    <3> HIDE DEF of, c, e
    <3>4. /\ ToSet(Append(c, e)) = ToSet(c) \cup {e}
          /\ \A k, m \in 1..Len(Append(c, e)) : Append(c, e)[k] = Append(c, e)[m] => k = m
      BY <2>1, <3>3, DistinctAppend
    <3>5. Good(f[i], i)
      BY <2>1, <3>1, <3>2, <3>4
    <3> HIDE DEF Good
    <3> QED BY <2>1, <3>5
  <2>5. CASE ~In(e)
    <3>1. of(i) = of(i - 1)
      BY <2>2, <2>5
    <3>2. f[i] = c
      BY <1>2, <2>5
    <3>3. Good(f[i], i)
      <4> HIDE DEF of, c, e
      <4> QED BY <2>1, <3>1, <3>2
    <3> HIDE DEF Good
    <3> QED BY <2>1, <3>3
  <2> QED BY <2>4, <2>5
<1>6. n \in P
  <2> HIDE DEF P
  <2>1. \A i \in 0..n : i \in P
    BY <1>1, <1>4, <1>5, Passes
  <2> QED BY <1>1, <2>1
<1>7. n \in 0..n
  BY <1>1
<1>8. of(n) = {e \in ToSet(order) : s \in ToSet(Streams[e])}
  <2>1. DOMAIN order = 1..n
    BY DEF n
  <2>2. ToSet(order) = {order[j] : j \in 1..n}
    BY <2>1 DEF ToSet
  <2>3. of(n) = {e \in ToSet(order) : In(e)}
    BY <2>2
  <2> QED BY <2>3 DEF In
<1>9. Good(f[n], n) /\ f[n] \in Seq(Events)
  BY <1>6, <1>7
<1> HIDE DEF of
<1> QED BY <1>2, <1>8, <1>9

\* A list of a finite set, without repetition and of its length, has all of it.
LEMMA ListIsComplete ==
  ASSUME NEW S, IsFiniteSet(S), NEW f \in [1..Cardinality(S) -> S],
         \A i, j \in 1..Cardinality(S) : f[i] = f[j] => i = j
  PROVE  /\ f \in Seq(S) /\ Len(f) = Cardinality(S) /\ ToSet(f) = S
         /\ \A i, j \in 1..Len(f) : f[i] = f[j] => i = j
<1> DEFINE n == Cardinality(S)
<1>1. n \in Nat /\ IsFiniteSet(1..n) /\ Cardinality(1..n) = n
  <2>1. n \in Nat
    BY FS_CardinalityType
  <2>2. 1 \in Int /\ n \in Int /\ (IF 1 > n THEN 0 ELSE n - 1 + 1) = n
    BY <2>1
  <2> HIDE DEF n
  <2> QED BY <2>1, <2>2, FS_Interval
<1>2. f \in [1..n -> S] /\ \A i, j \in 1..n : f[i] = f[j] => i = j
  OBVIOUS
<1>3. f \in Injection(1..n, S)
  BY <1>2 DEF Injection, IsInjective
<1>4. f \in Surjection(1..n, S)
  <2> HIDE DEF n
  <2> QED BY <1>1, <1>3, FS_Injection DEF n
<1>5. Len(f) = n /\ f \in Seq(S)
  <2> HIDE DEF n
  <2> QED BY <1>1, <1>2
<1>6. ToSet(f) = S
  <2> HIDE DEF n
  <2>1. DOMAIN f = 1..n /\ \A i \in 1..n : f[i] \in S
    BY <1>2
  <2>2. \A x \in S : \E i \in 1..n : f[i] = x
    BY <1>4 DEF Surjection
  <2>3. ToSet(f) = {f[i] : i \in 1..n}
    BY <2>1 DEF ToSet
  <2> QED BY <2>1, <2>2, <2>3
<1> QED BY <1>2, <1>5, <1>6

LEMMA OrderOf ==
  ASSUME NEW S, IsFiniteSet(S), NEW order \in SetToSeqs(S)
  PROVE  /\ order \in Seq(S) /\ Len(order) = Cardinality(S) /\ ToSet(order) = S
         /\ \A i, j \in 1..Len(order) : order[i] = order[j] => i = j
<1>1. /\ order \in [1..Cardinality(S) -> S]
      /\ \A i, j \in 1..Cardinality(S) : order[i] = order[j] => i = j
  BY DEF SetToSeqs
<1> QED BY <1>1, ListIsComplete

LEMMA ListOf ==
  ASSUME NEW S, IsFiniteSet(S)
  PROVE  /\ SetToSeq(S) \in Seq(S) /\ ToSet(SetToSeq(S)) = S
         /\ \A i, j \in 1..Len(SetToSeq(S)) : SetToSeq(S)[i] = SetToSeq(S)[j] => i = j
<1> DEFINE n == Cardinality(S)
           list == SetToSeq(S)
<1>1. \E f \in [1..n -> S] : IsInjective(f)
  BY FS_CardinalityType DEF ExistsBijection, Bijection, Injection
<1>2. list \in [1..n -> S] /\ IsInjective(list)
  BY <1>1, Zenon DEF SetToSeq
<1> HIDE DEF list
<1>3. \A i, j \in 1..n : list[i] = list[j] => i = j
  BY <1>2 DEF IsInjective
<1> QED BY <1>2, <1>3, ListIsComplete DEF list

\* The events of a window and their streams.
Pairs(window) == {p \in window \X Names : p[2] \in ToSet(Streams[p[1]])}

LEMMA ListTyped ==
  ASSUME NEW S, NEW n \in Nat, NEW f \in [1..n -> S]
  PROVE  f \in Seq(S) /\ Len(f) = n
OBVIOUS

LEMMA StreamsTyped ==
  ASSUME NEW e \in Events
  PROVE  /\ Streams[e] \in Seq(Names) /\ ToSet(Streams[e]) \subseteq Names
         /\ \A i, j \in 1..Len(Streams[e]) : Streams[e][i] = Streams[e][j] => i = j
<1>1. ToSet(Streams[e]) \subseteq Names
  BY DEF Names
<1>2. Streams[e] \in Seq(ToSet(Streams[e])) /\ DOMAIN Streams[e] = 1..Len(Streams[e])
  BY StreamsAssumption
<1>3. Streams[e] \in Seq(Names)
  BY <1>1, <1>2, SeqMonotonic
<1>4. \A i, j \in 1..Len(Streams[e]) : Streams[e][i] = Streams[e][j] => i = j
  BY <1>2, StreamsAssumption
<1> QED BY <1>1, <1>3, <1>4

\* The envelopes of one stream.
LEMMA StreamOnce ==
  ASSUME NEW order \in Seq(Events), NEW s \in Names,
         \A i, j \in 1..Len(order) : order[i] = order[j] => i = j,
         NEW E, E = LET chunks == chunkLiveEvents(Group(order, s))
                    IN  [i \in DOMAIN chunks |-> Envelope(s, chunks[i], TRUE)]
  PROVE  E \in Seq(Envelopes) /\ Once(E, {p \in Pairs(ToSet(order)) : p[2] = s})
<1> DEFINE g == Group(order, s)
           cs == chunkLiveEvents(g)
           T == {p \in Pairs(ToSet(order)) : p[2] = s}
<1>1. /\ g \in Seq(Events) /\ ToSet(g) = {e \in ToSet(order) : s \in ToSet(Streams[e])}
      /\ \A i, j \in 1..Len(g) : g[i] = g[j] => i = j
  BY GroupHolds
<1>2. Holds(cs, ToSet(g)) /\ cs \in Seq(Seq(Events)) /\ \A i \in 1..Len(cs) : IsChunk(cs[i])
  <2> HIDE DEF g
  <2> QED BY <1>1, ChunksHoldAll, ChunksWithin
<1> HIDE DEF cs
<1>3. Len(cs) \in Nat /\ DOMAIN cs = 1..Len(cs) /\ \A i \in 1..Len(cs) : cs[i] \in Seq(Events)
  BY <1>2
<1>4. E = [i \in 1..Len(cs) |-> Envelope(s, cs[i], TRUE)]
  BY <1>3 DEF cs
<1>5. \A i \in 1..Len(cs) : Envelope(s, cs[i], TRUE) \in Envelopes
  BY <1>2, <1>3 DEF Envelope, Envelopes
<1>6. E \in Seq(Envelopes) /\ Len(E) = Len(cs)
  <2>1. E \in [1..Len(cs) -> Envelopes]
    BY <1>4, <1>5
  <2> QED BY <1>3, <2>1, ListTyped
<1>7. \A i \in 1..Len(cs) : E[i].events = cs[i] /\ \A k : At(E, i, k) = <<cs[i][k], s>>
  <2>1. ASSUME NEW i \in 1..Len(cs) PROVE E[i].events = cs[i] /\ E[i].stream = s
    <3> DEFINE c == cs[i]
    <3>1. E[i] = Envelope(s, c, TRUE)
      BY <1>4
    <3> HIDE DEF c
    <3>2. E[i].events = c /\ E[i].stream = s
      BY <3>1 DEF Envelope
    <3> QED BY <3>2 DEF c
  <2> QED BY <2>1 DEF At
<1>8. \A e : <<e, s>> \in T <=> e \in ToSet(g)
  BY <1>1 DEF Pairs
<1>9. \A p \in T : \E e \in ToSet(g) : p = <<e, s>>
  <2>1. ASSUME NEW p \in T PROVE \E e \in ToSet(g) : p = <<e, s>>
    <3>1. p = <<p[1], s>>
      BY DEF Pairs
    <3> QED BY <1>8, <3>1
  <2> QED BY <2>1
<1> HIDE DEF T, g
<1>10. Once(E, T)
  <2>1. ASSUME NEW i \in 1..Len(E), NEW k \in 1..Len(E[i].events) PROVE At(E, i, k) \in T
    <3>1. i \in 1..Len(cs) /\ k \in 1..Len(cs[i]) /\ At(E, i, k) = <<cs[i][k], s>>
      BY <1>6, <1>7, <2>1
    <3>2. cs[i][k] \in ToSet(g)
      BY <1>2, <3>1 DEF Holds
    <3> QED BY <1>8, <3>1, <3>2
  <2>2. ASSUME NEW t \in T PROVE \E i \in 1..Len(E) : \E k \in 1..Len(E[i].events) : At(E, i, k) = t
    <3>1. PICK e \in ToSet(g) : t = <<e, s>>
      BY <1>9
    <3>2. PICK i \in 1..Len(cs) : \E k \in 1..Len(cs[i]) : cs[i][k] = e
      BY <1>2 DEF Holds
    <3>3. PICK k \in 1..Len(cs[i]) : cs[i][k] = e
      BY <3>2
    <3>4. i \in 1..Len(E) /\ k \in 1..Len(E[i].events) /\ At(E, i, k) = t
      BY <1>6, <1>7, <3>1, <3>3
    <3> QED BY <3>4
  <2>3. ASSUME NEW i \in 1..Len(E), NEW j \in 1..Len(E), NEW k \in 1..Len(E[i].events),
               NEW m \in 1..Len(E[j].events), At(E, i, k) = At(E, j, m)
        PROVE  i = j /\ k = m
    <3>1. /\ i \in 1..Len(cs) /\ j \in 1..Len(cs) /\ k \in 1..Len(cs[i]) /\ m \in 1..Len(cs[j])
          /\ cs[i][k] = cs[j][m]
      <4>1. i \in 1..Len(cs) /\ j \in 1..Len(cs)
        BY <1>6
      <4>2. At(E, i, k) = <<cs[i][k], s>> /\ At(E, j, m) = <<cs[j][m], s>>
        BY <1>7, <4>1
      <4>3. k \in 1..Len(cs[i]) /\ m \in 1..Len(cs[j])
        BY <1>7, <4>1
      <4> QED BY <2>3, <4>1, <4>2, <4>3
    <3> QED BY <1>2, <3>1 DEF Holds
  <2> QED BY <2>1, <2>2, <2>3 DEF Once
<1> QED BY <1>6, <1>10 DEF T

\* The envelopes of one event, each resolution on its own.
LEMMA EventOnce ==
  ASSUME NEW e \in Events,
         NEW E, E = [i \in DOMAIN Streams[e] |-> Envelope(Streams[e][i], <<e>>, FALSE)]
  PROVE  E \in Seq(Envelopes) /\ Once(E, Pairs({e}))
<1> DEFINE n == Len(Streams[e])
           s == Streams[e]
           one == <<e>>
           T == Pairs({e})
<1>1. /\ n \in Nat /\ DOMAIN s = 1..n /\ \A i \in 1..n : s[i] \in Names
      /\ \A i, j \in 1..n : s[i] = s[j] => i = j
  BY StreamsTyped
<1>2. one \in Seq(Events) /\ Len(one) = 1 /\ one[1] = e
  OBVIOUS
<1>3. E = [i \in 1..n |-> Envelope(s[i], one, FALSE)]
  BY <1>1
<1>4. ToSet(s) = {s[i] : i \in 1..n}
  BY <1>1 DEF ToSet
<1>5. \A i \in 1..n : <<e, s[i]>> \in T
  BY <1>1, <1>4 DEF Pairs
<1>6. \A t \in T : \E i \in 1..n : t = <<e, s[i]>>
  BY <1>4 DEF Pairs
<1> HIDE DEF n, s, one, T
<1>7. \A i \in 1..n : Envelope(s[i], one, FALSE) \in Envelopes
  BY <1>1, <1>2 DEF Envelope, Envelopes
<1>8. E \in Seq(Envelopes) /\ Len(E) = n
  <2>1. E \in [1..n -> Envelopes]
    BY <1>3, <1>7
  <2> QED BY <1>1, <2>1, ListTyped
<1>9. ASSUME NEW i \in 1..n PROVE Len(E[i].events) = 1 /\ At(E, i, 1) = <<e, s[i]>>
  <2> DEFINE r == s[i]
  <2>1. E[i] = Envelope(r, one, FALSE)
    BY <1>3
  <2> HIDE DEF r
  <2>2. E[i].events = one /\ E[i].stream = r
    BY <2>1 DEF Envelope
  <2>3. E[i].events[1] = e
    BY <1>2, <2>2
  <2> QED BY <1>2, <2>2, <2>3 DEF At, r
<1>10. ASSUME NEW i \in 1..n PROVE 1 \in 1..Len(E[i].events) /\ \A k \in 1..Len(E[i].events) : k = 1
  <2> DEFINE l == Len(E[i].events)
  <2>1. l = 1
    BY <1>9
  <2> HIDE DEF l
  <2>2. 1 \in 1..l /\ \A k \in 1..l : k = 1
    BY <2>1
  <2> QED BY <2>2 DEF l
<1>11. Once(E, T)
  <2>1. ASSUME NEW i \in 1..Len(E), NEW k \in 1..Len(E[i].events) PROVE At(E, i, k) \in T
    <3>1. i \in 1..n /\ k = 1
      BY <1>8, <1>10
    <3> QED BY <1>5, <1>9, <3>1
  <2>2. ASSUME NEW t \in T PROVE \E i \in 1..Len(E) : \E k \in 1..Len(E[i].events) : At(E, i, k) = t
    <3>1. PICK i \in 1..n : t = <<e, s[i]>>
      BY <1>6
    <3>2. At(E, i, 1) = t /\ 1 \in 1..Len(E[i].events) /\ i \in 1..Len(E)
      BY <1>8, <1>9, <1>10, <3>1
    <3> QED BY <3>2
  <2>3. ASSUME NEW i \in 1..Len(E), NEW j \in 1..Len(E), NEW k \in 1..Len(E[i].events),
               NEW m \in 1..Len(E[j].events), At(E, i, k) = At(E, j, m)
        PROVE  i = j /\ k = m
    <3>1. i \in 1..n /\ j \in 1..n /\ k = 1 /\ m = 1
      BY <1>8, <1>10
    <3>2. At(E, i, 1) = <<e, s[i]>> /\ At(E, j, 1) = <<e, s[j]>>
      BY <1>9, <3>1
    <3>3. s[i] = s[j]
      BY <2>3, <3>1, <3>2
    <3> QED BY <1>1, <3>1, <3>3
  <2> QED BY <2>1, <2>2, <2>3 DEF Once
<1> QED BY <1>8, <1>11 DEF T

LEMMA StreamsFinite ==
  ASSUME NEW window \in SUBSET Events, IsFiniteSet(window)
  PROVE  LET streams == UNION {ToSet(Streams[e]) : e \in window}
         IN  IsFiniteSet(streams) /\ streams \subseteq Names
<1> DEFINE T == {ToSet(Streams[e]) : e \in window}
           f == [e \in window |-> ToSet(Streams[e])]
<1>1. IsFiniteSet(T)
  <2>1. f \in Surjection(window, T)
    BY DEF Surjection
  <2> HIDE DEF f, T
  <2> QED BY <2>1, FS_Surjection
<1>2. ASSUME NEW U \in T PROVE IsFiniteSet(U) /\ U \subseteq Names
  <2>1. PICK e \in window : U = ToSet(Streams[e])
    OBVIOUS
  <2>2. e \in Events /\ Streams[e] \in Seq(Names)
    BY StreamsTyped
  <2> QED BY <2>1, <2>2, ToSetOf
<1>3. IsFiniteSet(UNION T) /\ UNION T \subseteq Names
  <2> HIDE DEF T
  <2> QED BY <1>1, <1>2, FS_UNION
<1> QED BY <1>3

\* With batches or without, the envelopes of a window take each of its events to each
\* of the event's streams, once.
LEMMA BatchesOnce ==
  ASSUME NEW window \in SUBSET Events, IsFiniteSet(window), NEW order \in SetToSeqs(window)
  PROVE  /\ buildTelemetryEnvelopes(order) \in Seq(Envelopes)
         /\ Once(buildTelemetryEnvelopes(order), Pairs(window))
<1> DEFINE all == UNION {ToSet(Streams[e]) : e \in window}
           streams == SetToSeq(all)
           n == Len(streams)
           Chunks(stream) == LET chunks == chunkLiveEvents(Group(order, stream))
                             IN  [i \in DOMAIN chunks |-> Envelope(stream, chunks[i], TRUE)]
           parts == [i \in DOMAIN streams |-> Chunks(streams[i])]
           T == [i \in 1..n |-> {p \in Pairs(window) : p[2] = streams[i]}]
<1>1. /\ order \in Seq(Events) /\ ToSet(order) = window
      /\ \A i, j \in 1..Len(order) : order[i] = order[j] => i = j
  <2>1. order \in Seq(window)
    BY OrderOf
  <2>2. order \in Seq(Events)
    BY <2>1, SeqMonotonic
  <2> QED BY <2>2, OrderOf
<1>2. IsFiniteSet(all) /\ all \subseteq Names
  BY StreamsFinite
<1>3. buildTelemetryEnvelopes(order) = FlattenSeq(parts)
  BY <1>1 DEF buildTelemetryEnvelopes
<1>4. all = {s \in Names : \E e \in window : s \in ToSet(Streams[e])}
  BY <1>2
<1> HIDE DEF all
<1>5. /\ streams \in Seq(all) /\ ToSet(streams) = all
      /\ \A i, j \in 1..Len(streams) : streams[i] = streams[j] => i = j
  BY <1>2, ListOf
<1> HIDE DEF streams
<1>6. n \in Nat /\ DOMAIN streams = 1..n /\ \A i \in 1..n : streams[i] \in Names
  BY <1>2, <1>5
<1>7. ASSUME NEW i \in 1..n PROVE parts[i] \in Seq(Envelopes) /\ Once(parts[i], T[i])
  <2> DEFINE s == streams[i]
             E == Chunks(s)
  <2>1. s \in Names /\ parts[i] = E /\ T[i] = {p \in Pairs(ToSet(order)) : p[2] = s}
    BY <1>1, <1>6
  <2>2. E \in Seq(Envelopes) /\ Once(E, {p \in Pairs(ToSet(order)) : p[2] = s})
    <3> HIDE DEF s
    <3> QED BY <1>1, <2>1, StreamOnce
  <2> HIDE DEF E, s, parts, T
  <2> QED BY <2>1, <2>2
<1>8. parts \in Seq(Seq(Envelopes)) /\ Len(parts) = n
  <2>1. parts = [i \in 1..n |-> parts[i]]
    BY <1>6
  <2> HIDE DEF parts, n
  <2>2. parts \in [1..n -> Seq(Envelopes)]
    BY <1>7, <2>1
  <2> QED BY <1>6, <2>2, ListTyped
<1>9. \A i, j \in 1..n : i # j => T[i] \cap T[j] = {}
  BY <1>5, <1>6
<1>10. UNION {T[i] : i \in 1..n} = Pairs(window)
  <2>1. ASSUME NEW p \in Pairs(window) PROVE \E i \in 1..n : p \in T[i]
    <3>1. p[2] \in all
      BY <1>4 DEF Pairs
    <3>2. PICK i \in 1..n : streams[i] = p[2]
      BY <1>5, <1>6, <3>1 DEF ToSet
    <3> QED BY <3>2
  <2> QED BY <2>1
<1> HIDE DEF n, parts, T
<1>11. Once(FlattenSeq(parts), Pairs(window))
  <2>1. \A i \in 1..Len(parts) : Once(parts[i], T[i])
    BY <1>7, <1>8
  <2>2. \A i, j \in 1..Len(parts) : i # j => T[i] \cap T[j] = {}
    BY <1>8, <1>9
  <2>3. \A x : x \in Pairs(window) <=> \E i \in 1..Len(parts) : x \in T[i]
    BY <1>8, <1>10
  <2> QED BY <1>8, <2>1, <2>2, <2>3, OnceFlatten
<1>12. FlattenSeq(parts) \in Seq(Envelopes)
  BY <1>8, FlattenTyped
<1> QED BY <1>3, <1>11, <1>12

LEMMA LegacyOnce ==
  ASSUME NEW window \in SUBSET Events, IsFiniteSet(window), NEW order \in SetToSeqs(window)
  PROVE  /\ buildLegacyTelemetryEnvelopes(order) \in Seq(Envelopes)
         /\ Once(buildLegacyTelemetryEnvelopes(order), Pairs(window))
<1> DEFINE n == Len(order)
           Each(e) == [i \in DOMAIN Streams[e] |-> Envelope(Streams[e][i], <<e>>, FALSE)]
           parts == [i \in DOMAIN order |-> Each(order[i])]
           T == [i \in 1..n |-> Pairs({order[i]})]
<1>1. /\ order \in Seq(window) /\ ToSet(order) = window
      /\ \A i, j \in 1..n : order[i] = order[j] => i = j
  BY OrderOf
<1>2. n \in Nat /\ DOMAIN order = 1..n /\ \A i \in 1..n : order[i] \in window /\ order[i] \in Events
  BY <1>1
<1>3. buildLegacyTelemetryEnvelopes(order) = FlattenSeq(parts)
  BY DEF buildLegacyTelemetryEnvelopes
<1>4. ASSUME NEW i \in 1..n PROVE parts[i] \in Seq(Envelopes) /\ Once(parts[i], T[i])
  <2> DEFINE e == order[i]
             E == Each(e)
  <2>1. e \in Events /\ parts[i] = E /\ T[i] = Pairs({e})
    BY <1>2
  <2>2. E \in Seq(Envelopes) /\ Once(E, Pairs({e}))
    <3> HIDE DEF e
    <3> QED BY <2>1, EventOnce
  <2> HIDE DEF E, e, parts, T
  <2> QED BY <2>1, <2>2
<1>5. parts \in Seq(Seq(Envelopes)) /\ Len(parts) = n
  <2>1. parts = [i \in 1..n |-> parts[i]]
    BY <1>2
  <2> HIDE DEF parts, n
  <2>2. parts \in [1..n -> Seq(Envelopes)]
    BY <1>4, <2>1
  <2> QED BY <1>2, <2>2, ListTyped
<1>6. \A i \in 1..n : T[i] = {p \in Pairs(window) : p[1] = order[i]}
  BY <1>2 DEF Pairs
<1> HIDE DEF parts, T
<1>7. \A i, j \in 1..n : i # j => T[i] \cap T[j] = {}
  BY <1>1, <1>6
<1>8. UNION {T[i] : i \in 1..n} = Pairs(window)
  <2>1. ASSUME NEW p \in Pairs(window) PROVE \E i \in 1..n : p \in T[i]
    <3>1. p[1] \in window
      BY DEF Pairs
    <3>2. PICK i \in 1..n : order[i] = p[1]
      BY <1>1, <1>2, <3>1 DEF ToSet
    <3> QED BY <1>6, <3>2
  <2>2. \A i \in 1..n : T[i] \subseteq Pairs(window)
    BY <1>6
  <2> QED BY <2>1, <2>2
<1>9. Once(FlattenSeq(parts), Pairs(window))
  <2> HIDE DEF n
  <2>1. \A i \in 1..Len(parts) : Once(parts[i], T[i])
    BY <1>4, <1>5
  <2>2. \A i, j \in 1..Len(parts) : i # j => T[i] \cap T[j] = {}
    BY <1>5, <1>7
  <2>3. \A x : x \in Pairs(window) <=> \E i \in 1..Len(parts) : x \in T[i]
    BY <1>5, <1>8
  <2> QED BY <1>5, <2>1, <2>2, <2>3, OnceFlatten
<1>10. FlattenSeq(parts) \in Seq(Envelopes)
  BY <1>5, FlattenTyped
<1> QED BY <1>3, <1>9, <1>10

\* The places of an event in some envelopes, and the streams of these places.
PlacesOf(E, c, e) ==
  {p \in (DOMAIN E) \X (1..c) : p[2] \in DOMAIN E[p[1]].events /\ E[p[1]].events[p[2]] = e}
StreamsAt(E, Q) == {E[p[1]].stream : p \in Q}

\* Once, counted in the places that have an event.
LEMMA OncePlaces ==
  ASSUME NEW window \in SUBSET Events, IsFiniteSet(window), NEW E \in Seq(Envelopes),
         Once(E, Pairs(window)), NEW e \in window,
         NEW Q, Q = PlacesOf(E, Cardinality(window), e)
  PROVE  StreamsAt(E, Q) = ToSet(Streams[e]) /\ Cardinality(Q) = Len(Streams[e])
<1> DEFINE c == Cardinality(window)
           s == Streams[e]
           n == Len(s)
           Spot(i, k) == i \in 1..Len(E) /\ k \in 1..Len(E[i].events)
<1>1. DOMAIN E = 1..Len(E) /\ Len(E) \in Nat /\ \A i \in 1..Len(E) : E[i] \in Envelopes
  BY LenProperties
<1>2. \A i \in 1..Len(E) : E[i].events \in Seq(Events) /\ DOMAIN E[i].events = 1..Len(E[i].events)
  BY <1>1 DEF Envelopes
<1>3. /\ n \in Nat /\ ToSet(s) = {s[j] : j \in 1..n}
      /\ \A i, j \in 1..n : s[i] = s[j] => i = j
  <2>1. s \in Seq(Names) /\ \A i, j \in 1..n : s[i] = s[j] => i = j
    BY StreamsTyped
  <2> HIDE DEF s
  <2> QED BY <2>1, ToSetOf
<1>4. ASSUME NEW i \in 1..Len(E) PROVE 1..Len(E[i].events) \subseteq 1..c
  <2> DEFINE v == E[i].events
             l == Len(v)
  <2>1. v \in Seq(Events) /\ l \in Nat /\ v \in [1..l -> Events]
    BY <1>2
  <2>2. ASSUME NEW k \in 1..l PROVE v[k] \in window
    <3>1. At(E, i, k) \in Pairs(window)
      BY DEF Once
    <3> QED BY <3>1 DEF At, Pairs
  <2>3. ASSUME NEW k \in 1..l, NEW m \in 1..l, v[k] = v[m] PROVE k = m
    <3>1. At(E, i, k) = At(E, i, m)
      BY <2>3 DEF At
    <3> QED BY <3>1 DEF Once
  <2>4. c \in Nat
    BY FS_CardinalityType
  <2> HIDE DEF v, l, c
  <2>5. v \in Injection(1..l, window)
    BY <2>1, <2>2, <2>3 DEF Injection, IsInjective
  <2>6. Cardinality(1..l) <= c
    BY <2>5, FS_Injection DEF c
  <2>7. Cardinality(1..l) = l
    <3>1. 1 \in Int /\ l \in Int /\ (IF 1 > l THEN 0 ELSE l - 1 + 1) = l
      BY <2>1
    <3> QED BY <3>1, FS_Interval
  <2>8. 1..l \subseteq 1..c
    BY <2>1, <2>4, <2>6, <2>7
  <2> QED BY <2>8 DEF l, v
<1>5. \A p : p \in Q <=> \E i, k : p = <<i, k>> /\ Spot(i, k) /\ E[i].events[k] = e
  <2>1. ASSUME NEW i, NEW k
        PROVE  <<i, k>> \in Q <=> Spot(i, k) /\ E[i].events[k] = e
    BY <1>1, <1>2, <1>4 DEF PlacesOf
  <2>2. ASSUME NEW p \in Q PROVE \E i, k : p = <<i, k>>
    BY DEF PlacesOf
  <2> HIDE DEF Spot
  <2> QED BY <2>1, <2>2
<1>6. ASSUME NEW i, NEW k, NEW j, NEW m, Spot(i, k), Spot(j, m), E[i].events[k] = e, E[j].events[m] = e,
             E[i].stream = E[j].stream
      PROVE  i = j /\ k = m
  <2>1. At(E, i, k) = At(E, j, m)
    BY <1>6 DEF At
  <2> QED BY <1>6, <2>1 DEF Once
<1>7. ASSUME NEW i, NEW k, Spot(i, k), E[i].events[k] = e PROVE E[i].stream \in ToSet(s)
  <2>1. At(E, i, k) \in Pairs(window)
    BY <1>7 DEF Once
  <2> QED BY <1>7, <2>1 DEF At, Pairs
<1>8. ASSUME NEW x \in ToSet(s) PROVE \E i, k : Spot(i, k) /\ E[i].events[k] = e /\ E[i].stream = x
  <2>1. e \in Events /\ ToSet(s) \subseteq Names
    BY StreamsTyped
  <2>2. <<e, x>> \in Pairs(window)
    BY <2>1 DEF Pairs
  <2>3. PICK i \in 1..Len(E) : \E k \in 1..Len(E[i].events) : At(E, i, k) = <<e, x>>
    BY <2>2 DEF Once
  <2>4. PICK k \in 1..Len(E[i].events) : At(E, i, k) = <<e, x>>
    BY <2>3
  <2>5. Spot(i, k) /\ E[i].events[k] = e /\ E[i].stream = x
    BY <2>4 DEF At
  <2> QED BY <2>5
<1> HIDE DEF Spot, s, n
<1>9. ASSUME NEW p \in Q PROVE E[p[1]].stream \in ToSet(s)
  <2>1. PICK i, k : p = <<i, k>> /\ Spot(i, k) /\ E[i].events[k] = e
    BY <1>5
  <2> QED BY <1>7, <2>1
<1>10. ASSUME NEW x \in ToSet(s) PROVE \E p \in Q : E[p[1]].stream = x
  <2>1. PICK i, k : Spot(i, k) /\ E[i].events[k] = e /\ E[i].stream = x
    BY <1>8
  <2>2. <<i, k>> \in Q /\ <<i, k>>[1] = i
    BY <1>5, <2>1
  <2> QED BY <2>1, <2>2
<1>11. ASSUME NEW p \in Q, NEW q \in Q, E[p[1]].stream = E[q[1]].stream PROVE p = q
  <2>1. PICK i, k : p = <<i, k>> /\ Spot(i, k) /\ E[i].events[k] = e
    BY <1>5
  <2>2. PICK j, m : q = <<j, m>> /\ Spot(j, m) /\ E[j].events[m] = e
    BY <1>5
  <2>3. E[i].stream = E[j].stream
    BY <1>11, <2>1, <2>2
  <2> QED BY <1>6, <2>1, <2>2, <2>3
<1> DEFINE stream(p) == E[p[1]].stream
           g == [j \in 1..n |-> CHOOSE p \in Q : stream(p) = s[j]]
<1>12. \A p \in Q : \E j \in 1..n : stream(p) = s[j]
  BY <1>3, <1>9
<1>13. \A j \in 1..n : \E p \in Q : stream(p) = s[j]
  BY <1>3, <1>10
<1>14. \A p, q \in Q : stream(p) = stream(q) => p = q
  BY <1>11
<1> HIDE DEF stream
<1>15. \A j \in 1..n : g[j] \in Q /\ stream(g[j]) = s[j]
  BY <1>13
<1>16. g \in [1..n -> Q]
  BY <1>15
<1> HIDE DEF g
<1>17. g \in Injection(1..n, Q)
  <2>1. \A i, j \in 1..n : g[i] = g[j] => i = j
    BY <1>3, <1>15
  <2> QED BY <1>16, <2>1 DEF Injection, IsInjective
<1>18. g \in Surjection(1..n, Q)
  <2>1. ASSUME NEW p \in Q PROVE \E j \in 1..n : g[j] = p
    <3>1. PICK j \in 1..n : stream(p) = s[j]
      BY <1>12
    <3>2. g[j] \in Q /\ stream(g[j]) = stream(p)
      BY <1>15, <3>1
    <3> QED BY <1>14, <3>2
  <2> QED BY <1>16, <2>1 DEF Surjection
<1>19. ExistsBijection(1..n, Q)
  BY <1>17, <1>18 DEF ExistsBijection, Bijection
<1>20. Cardinality(Q) = n
  BY <1>3, <1>19, FS_CountingElements
<1>21. {stream(p) : p \in Q} = ToSet(s)
  BY <1>9, <1>10 DEF stream
<1> QED BY <1>20, <1>21 DEF stream, n, s, StreamsAt

-----------------------------------------------------------------------------
(* The theorems                                                             *)

\* What the publisher makes of a window, in any order and in either mode.
LEMMA Cut ==
  ASSUME NEW window \in SUBSET Events, IsFiniteSet(window),
         NEW order \in SetToSeqs(window), NEW liveBatches \in BOOLEAN
  PROVE  LET bundles == PublishBatch(order, liveBatches)
         IN  /\ bundles \in Seq(Seq(Envelopes))
             /\ \A i \in 1..Len(bundles) : IsBundle(bundles[i])
             /\ FlattenSeq(bundles) \in Seq(Envelopes) /\ Once(FlattenSeq(bundles), Pairs(window))
<1> DEFINE E == IF liveBatches THEN buildTelemetryEnvelopes(order) ELSE buildLegacyTelemetryEnvelopes(order)
           bundles == PublishBatch(order, liveBatches)
<1>1. E \in Seq(Envelopes) /\ Once(E, Pairs(window))
  BY BatchesOnce, LegacyOnce
<1>2. bundles = publishEnvelopeBundles(E)
  BY DEF PublishBatch
<1> HIDE DEF E, bundles
<1>3. bundles \in Seq(Seq(Envelopes)) /\ \A i \in 1..Len(bundles) : IsBundle(bundles[i])
  BY <1>1, <1>2, BundlesWithin
<1>4. FlattenSeq(bundles) = E
  BY <1>1, <1>2, BundlesHoldAll
<1> QED BY <1>1, <1>3, <1>4 DEF bundles

\* The windows are finite: each event received adds one at most.
FiniteWindows == IsFiniteSet(pending) /\ IsFiniteSet(publishing)

LEMMA StepFinite == FiniteWindows /\ [Next]_vars => FiniteWindows'
<1> SUFFICES ASSUME FiniteWindows, [Next]_vars PROVE FiniteWindows'
  OBVIOUS
<1>1. CASE Receive
  <2> DEFINE e == Head(broadcastCh)
             window == upsertLatest(pending, e)
  <2>1. window \subseteq pending \cup {e}
    BY DEF upsertLatest, Same
  <2>2. IsFiniteSet(pending \cup {e})
    BY FS_AddElement DEF FiniteWindows
  <2>3. IsFiniteSet(window)
    <3> HIDE DEF window, e
    <3> QED BY <2>1, <2>2, FS_Subset
  <2>4. \/ pending' = {} /\ publishing' = window
        \/ pending' = window /\ publishing' = publishing
    BY <1>1 DEF Receive, Flush
  <2> HIDE DEF window
  <2> QED BY <2>3, <2>4, FS_EmptySet DEF FiniteWindows
<1>2. CASE Tick \/ ReceiveClosed
  BY <1>2, FS_EmptySet DEF Tick, ReceiveClosed, Flush, FiniteWindows
<1>3. CASE \E sent \in SUBSET publishing : PublishReturns(sent)
  BY <1>3, FS_EmptySet DEF PublishReturns, FiniteWindows
<1>4. CASE (\E e \in Events : Enqueue(e)) \/ CloseBroadcastCh \/ UNCHANGED vars
  BY <1>4 DEF Enqueue, CloseBroadcastCh, FiniteWindows, vars
<1> QED BY <1>1, <1>2, <1>3, <1>4 DEF Next, LoopStep

LEMMA WindowsTyped == SpecVessel => [](TypeOK /\ FiniteWindows)
<1>1. Init => FiniteWindows
  BY FS_EmptySet DEF Init, FiniteWindows
<1>2. Spec => []FiniteWindows
  BY <1>1, StepFinite, PTL DEF Spec
<1>3. IInv => TypeOK
  BY DEF IInv
<1> QED BY <1>2, <1>3, VesselPathImplementsBroadcast, Inductive, PTL

LEMMA CutOnce == TypeOK /\ FiniteWindows => OncePerStream
<1> SUFFICES ASSUME TypeOK, FiniteWindows, NEW order \in SetToSeqs(publishing), NEW liveBatches \in BOOLEAN,
                    NEW e \in publishing
             PROVE  LET E == FlattenSeq(PublishBatch(order, liveBatches))
                        Q == {p \in (DOMAIN E) \X (1..Cardinality(publishing)) :
                                p[2] \in DOMAIN E[p[1]].events /\ E[p[1]].events[p[2]] = e}
                    IN  /\ {E[p[1]].stream : p \in Q} = ToSet(Streams[e])
                        /\ Cardinality(Q) = Len(Streams[e])
  BY DEF OncePerStream
<1> DEFINE E == FlattenSeq(PublishBatch(order, liveBatches))
<1>1. publishing \in SUBSET Events /\ IsFiniteSet(publishing)
  BY DEF TypeOK, FiniteWindows
<1>2. E \in Seq(Envelopes) /\ Once(E, Pairs(publishing))
  BY <1>1, Cut
<1> HIDE DEF E
<1>3. \A Q : Q = PlacesOf(E, Cardinality(publishing), e) =>
               StreamsAt(E, Q) = ToSet(Streams[e]) /\ Cardinality(Q) = Len(Streams[e])
  BY <1>1, <1>2, OncePlaces
<1> QED BY <1>3 DEF E, PlacesOf, StreamsAt

LEMMA CutWithin == TypeOK /\ FiniteWindows => WithinLimits
<1> SUFFICES ASSUME TypeOK, FiniteWindows, NEW order \in SetToSeqs(publishing), NEW liveBatches \in BOOLEAN,
                    NEW bundle \in ToSet(PublishBatch(order, liveBatches))
             PROVE  /\ BundleBytes(bundle) <= maxPublicationBundleBytes \/ Len(bundle) = 1
                    /\ \A envelope \in ToSet(bundle) : envelope.batch =>
                         /\ Len(envelope.events) \in 1..maxEventsPerStreamBatch
                         /\ PayloadBytes(envelope.events) <= maxStreamBatchBytes \/ Len(envelope.events) = 1
  BY DEF WithinLimits
<1> DEFINE bundles == PublishBatch(order, liveBatches)
<1>1. publishing \in SUBSET Events /\ IsFiniteSet(publishing)
  BY DEF TypeOK, FiniteWindows
<1>2. bundles \in Seq(Seq(Envelopes)) /\ \A i \in 1..Len(bundles) : IsBundle(bundles[i])
  BY <1>1, Cut
<1>3. bundle \in ToSet(bundles)
  OBVIOUS
<1> HIDE DEF bundles
<1>4. bundle \in Seq(Envelopes) /\ IsBundle(bundle)
  <2>1. DOMAIN bundles = 1..Len(bundles) /\ \A i \in 1..Len(bundles) : bundles[i] \in Seq(Envelopes)
    BY <1>2
  <2>2. PICK i \in 1..Len(bundles) : bundle = bundles[i]
    BY <1>3, <2>1 DEF ToSet
  <2> QED BY <1>2, <2>1, <2>2
<1>5. \A envelope \in ToSet(bundle) : envelope.batch => IsChunk(envelope.events)
  BY <1>4 DEF ToSet, Envelopes
<1> QED BY <1>4, <1>5 DEF IsBundle, IsChunk

\* Whatever order a window is taken in, with batches or without, each of its events is
\* published once to each of its streams, and to no other.
THEOREM PublishedOnce == SpecVessel => []OncePerStream
BY WindowsTyped, CutOnce, PTL

\* No payload, and no bundle of payloads, is larger than its limit unless a single event,
\* or a single envelope, is.
THEOREM PayloadsWithin == SpecVessel => []WithinLimits
BY WindowsTyped, CutWithin, PTL
=============================================================================
