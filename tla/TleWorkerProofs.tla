--------------------------- MODULE TleWorkerProofs ---------------------------
(***************************************************************************)
(* Proofs about the TLE worker, for any satellites, hashes and answers and *)
(* any intervals that divide the fetch interval and leave room in it for   *)
(* the slowest fetch.                                                      *)
(*                                                                         *)
(* A fetch begins when the time wraps around to 0, so only slots up to     *)
(* SlowestFetch can be dropped: after that, and before the next wrap, each *)
(* satellite has a slot that is kept.                                      *)
(*                                                                         *)
(* And about its parser of mixed files, for files of any length: by        *)
(* induction from the end of the file, what the loop finds from the first  *)
(* line of a record on is what that record and the later ones tell.        *)
(***************************************************************************)
EXTENDS TleWorker, WellFoundedInduction, TLAPS

-----------------------------------------------------------------------------
(* Remainders                                                               *)

LEMMA DivMod ==
  ASSUME NEW a \in Int, NEW k \in Nat, k > 0
  PROVE  a \div k \in Int /\ a % k \in 0 .. k - 1 /\ a = k * (a \div k) + (a % k)
<1>1. a = k * (a \div k) + (a % k)
  OBVIOUS
<1> QED BY <1>1

LEMMA RemainderUnique ==
  ASSUME NEW k \in Nat, k > 0, NEW q \in Int, NEW p \in Int,
         NEW r \in 0 .. k - 1, NEW s \in 0 .. k - 1, k * q + r = k * p + s
  PROVE  r = s
<1>1. CASE q = p
  BY <1>1
<1>2. CASE q > p
  <2>1. k * (q - p) >= k
    BY <1>2
  <2>2. k * (q - p) = s - r
    OBVIOUS
  <2> QED BY <2>1, <2>2
<1>3. CASE q < p
  <2>1. k * (p - q) >= k
    BY <1>3
  <2>2. k * (p - q) = r - s
    OBVIOUS
  <2> QED BY <2>1, <2>2
<1> QED BY <1>1, <1>2, <1>3

LEMMA ModShift ==
  ASSUME NEW a \in Int, NEW k \in Nat, k > 0, NEW m \in Int
  PROVE  (a + k * m) % k = a % k
<1> DEFINE b == a + k * m
           q == a \div k
<1>1. a = k * q + (a % k) /\ q \in Int /\ a % k \in 0 .. k - 1
  BY DivMod
<1>2. b \in Int
  OBVIOUS
<1>3. b = k * (b \div k) + (b % k) /\ b \div k \in Int /\ b % k \in 0 .. k - 1
  BY <1>2, DivMod
<1>4. b = k * (q + m) + (a % k)
  <2> HIDE DEF q
  <2>1. k * (q + m) = k * q + k * m
    BY <1>1
  <2>2. k * q \in Int /\ k * m \in Int
    BY <1>1
  <2> QED BY <1>1, <2>1, <2>2
<1>5. q + m \in Int
  BY <1>1
<1> HIDE DEF b, q
<1> QED BY <1>1, <1>3, <1>4, <1>5, RemainderUnique DEF b

LEMMA ModSmall ==
  ASSUME NEW k \in Nat, k > 0, NEW h \in 0 .. k - 1
  PROVE  h % k = h
OBVIOUS

\* Whole rounds after a slot, and before it, is the same slot.
LEMMA RoundsApart ==
  ASSUME NEW a \in Int, NEW F \in Nat, NEW k \in Nat, k > 0, F % k = 0
  PROVE  (a - F) % k = a % k
<1> DEFINE q == F \div k
<1>1. F = k * q /\ q \in Int
  BY DivMod
<1>2. k * (0 - q) = 0 - k * q
  BY <1>1
<1>3. a - F = a + k * (0 - q) /\ 0 - q \in Int
  BY <1>1, <1>2
<1> HIDE DEF q
<1>4. (a + k * (0 - q)) % k = a % k
  <2> DEFINE m == 0 - q
  <2>1. m \in Int
    BY <1>1
  <2> HIDE DEF m
  <2>2. (a + k * m) % k = a % k
    BY <2>1, ModShift
  <2> QED BY <2>2 DEF m
<1> QED BY <1>3, <1>4

\* The last slot h before F.
LEMMA LastBeforeWrap ==
  ASSUME NEW F \in Nat, NEW k \in Nat, k > 0, F % k = 0, NEW h \in 0 .. k - 1
  PROVE  (F - k + h) % k = h
<1> DEFINE q == F \div k
<1>1. F = k * q /\ q \in Int
  BY DivMod
<1> HIDE DEF q
<1>2. k * (q - 1) = k * q - k
  BY <1>1
<1>3. F - k + h = h + k * (q - 1) /\ q - 1 \in Int
  BY <1>1, <1>2
<1>4. (h + k * (q - 1)) % k = h
  <2> DEFINE m == q - 1
  <2>1. m \in Int /\ h \in Int
    BY <1>1
  <2> HIDE DEF m
  <2>2. (h + k * m) % k = h % k
    BY <2>1, ModShift
  <2> QED BY <2>2, ModSmall DEF m
<1> QED BY <1>3, <1>4

\* Among any k times in a row there is a slot h.
LEMMA OncePerInterval ==
  ASSUME NEW x \in Int, NEW k \in Nat, k > 0, NEW h \in 0 .. k - 1
  PROVE  \E t \in x - k + 1 .. x : t % k = h
<1> DEFINE r == (x - h) % k
           q == (x - h) \div k
<1>1. x - h = k * q + r /\ q \in Int /\ r \in 0 .. k - 1
  BY DivMod
<1> HIDE DEF q, r
<1>2. x - r = h + k * q
  <2>1. k * q \in Int
    BY <1>1
  <2> QED BY <1>1, <2>1
<1>3. (x - r) % k = h
  <2>1. h \in Int /\ q \in Int
    BY <1>1
  <2>2. (h + k * q) % k = h % k
    BY <2>1, ModShift
  <2>3. h % k = h
    BY ModSmall
  <2> QED BY <1>2, <2>2, <2>3, Zenon
<1>4. x - r \in x - k + 1 .. x
  BY <1>1
<1> QED BY <1>3, <1>4

LEMMA SameSlot ==
  ASSUME NEW a \in Int, NEW b \in Int, NEW k \in Nat, k > 0, a % k = b % k
  PROVE  (a - b) % k = 0
<1> DEFINE q == a \div k
           p == b \div k
<1>1. a = k * q + (a % k) /\ b = k * p + (b % k) /\ q \in Int /\ p \in Int
      /\ a % k \in Int
  BY DivMod
<1>2. a - b = 0 + k * (q - p) /\ q - p \in Int
  <2> HIDE DEF q, p
  <2>1. k * (q - p) = k * q - k * p /\ k * q \in Int /\ k * p \in Int
    BY <1>1
  <2> QED BY <1>1, <2>1
<1> DEFINE m == q - p
<1> HIDE DEF q, p, m
<1>3. (0 + k * m) % k = 0 % k
  <2>1. m \in Int /\ 0 \in Int
    BY <1>2 DEF m
  <2> QED BY <2>1, ModShift
<1>4. 0 % k = 0
  BY ModSmall
<1> QED BY <1>2, <1>3, <1>4, Zenon DEF m

-----------------------------------------------------------------------------
(* The invariant                                                            *)

Slots(s)  == propagationInterval(store[s].orbit)
Bucket(s) == Hash[s] % Slots(s)

SlotOf(s, t) == t % Slots(s) = Bucket(s)

\* The tick of time t has been handled or dropped.
Resolved(t) == tick = NoTick \/ t < slot - tick

Typed ==
  /\ pc \in {"initial", "waiting", "select", "fetching", "ended"}
  /\ slot \in 0 .. FetchTicks - 1
  /\ tick \in -1 .. slot
  /\ elapsed \in 0 .. SlowestFetch
  /\ store \in [Sats -> [orbit : Orbits, status : {"", "maneuvering"}] \cup {NoEntry}]
  /\ wait \in [Sats -> Nat]
  /\ stamped \subseteq InStore
  /\ shown \in [Sats -> Orbits \cup {NoEntry}]
  /\ \A s \in Sats : shown[s] # NoEntry => s \in InStore

\* A fetch begins when the time wraps around, and ends before it does again.
FetchFitsRound ==
  /\ pc \in {"initial", "waiting"} => slot = 0 /\ ~fetchDue /\ tick = NoTick /\ InStore = {}
  /\ fetchDue => slot = 0
  /\ pc = "fetching" => slot = elapsed /\ ~fetchDue
  /\ pc \notin {"fetching", "ended"} => elapsed = 0
  /\ tick > 0 => slot <= SlowestFetch

\* A position is as old as the last slot of the satellite that cannot have been
\* dropped: the one before the wrap, slot 0 itself, or one after SlowestFetch.
WaitSinceSlot ==
  \A s \in InStore :
    /\ wait[s] <= slot + Slots(s) - Bucket(s)
    /\ Bucket(s) = 0 /\ Resolved(0) => wait[s] <= slot
    /\ \A t \in SlowestFetch + 1 .. slot :
         SlotOf(s, t) /\ Resolved(t) => wait[s] <= slot - t

\* A position is of the satellite's slot, and older than the tick in the channel.
StampedInSlot ==
  \A s \in stamped : wait[s] > tick /\ SlotOf(s, slot - wait[s])

\* A store has been shown once it has had a slot that is not dropped: always before
\* the next fetch begins.
ShownBySlot ==
  \A s \in InStore : shown[s] \notin {NoEntry, store[s].orbit} =>
    /\ ~fetchDue /\ pc # "fetching"
    /\ \A t \in SlowestFetch + 1 .. slot : ~(SlotOf(s, t) /\ Resolved(t))

IInv ==
  Typed /\ FetchFitsRound /\ WaitSinceSlot /\ StampedInSlot /\ ShownBySlot /\ ManoeuvreIsTold

LEMMA TimesTyped == FetchTicks \in Nat /\ FetchTicks > 0 /\ SlowestFetch \in Nat
BY TleAssumption

LEMMA SlotsTyped ==
  ASSUME NEW s \in Sats
  PROVE  /\ Slots(s) \in Nat /\ Slots(s) > 0 /\ Bucket(s) \in 0 .. Slots(s) - 1
         /\ FetchTicks % Slots(s) = 0 /\ SlowestFetch + Slots(s) < FetchTicks
         /\ FetchTicks \in Nat /\ SlowestFetch \in Nat
<1>1. Slots(s) \in {LeoSlots, MeoSlots, GeoSlots}
  BY DEF Slots, propagationInterval
<1>2. Slots(s) \in Nat /\ Slots(s) > 0
  BY <1>1, TleAssumption
<1>3. Hash[s] \in Int
  BY TleAssumption
<1>4. Bucket(s) \in 0 .. Slots(s) - 1
  <2> HIDE DEF Slots
  <2> QED BY <1>2, <1>3, DivMod DEF Bucket
<1> QED BY <1>1, <1>2, <1>4, TleAssumption

\* A step that leaves the time and the satellites alone.
LEMMA ScheduleKept ==
  ASSUME IInv, UNCHANGED <<slot, tick, store, wait, stamped, shown>>,
         fetchDue' \/ pc' = "fetching" => fetchDue \/ pc = "fetching"
  PROVE  WaitSinceSlot' /\ StampedInSlot' /\ ShownBySlot' /\ ManoeuvreIsTold'
<1>1. InStore' = InStore /\ \A s \in Sats : Slots(s)' = Slots(s) /\ Bucket(s)' = Bucket(s)
  BY DEF InStore, Slots, Bucket
<1>2. \A t : Resolved(t)' <=> Resolved(t)
  BY DEF Resolved
<1>3. \A s \in Sats : \A t : SlotOf(s, t)' <=> SlotOf(s, t)
  BY <1>1 DEF SlotOf
<1>4. InStore \subseteq Sats /\ stamped \subseteq Sats
  BY DEF InStore, IInv, Typed
<1>5. WaitSinceSlot'
  BY <1>1, <1>2, <1>3, <1>4 DEF IInv, WaitSinceSlot
<1>6. StampedInSlot'
  BY <1>3, <1>4 DEF IInv, StampedInSlot
<1>7. ShownBySlot'
  BY <1>1, <1>2, <1>3, <1>4 DEF IInv, ShownBySlot
<1>8. ManoeuvreIsTold'
  BY <1>1 DEF IInv, ManoeuvreIsTold
<1> QED BY <1>5, <1>6, <1>7, <1>8

LEMMA ControlStep == ASSUME IInv, FetchFails \/ RetryInitial \/ StartFetch \/ Cancel PROVE IInv'
<1>1. UNCHANGED <<slot, tick, store, wait, stamped, shown>> /\ InStore' = InStore
  BY DEF FetchFails, RetryInitial, StartFetch, Cancel, InStore
<1>2. /\ fetchDue' => fetchDue
      /\ pc' = "fetching" => fetchDue
      /\ pc' = "ended" \/ elapsed' = 0
      /\ pc' \in {"initial", "waiting"} => pc \in {"initial", "waiting"}
      /\ pc' \in {"initial", "waiting", "select", "fetching", "ended"}
      /\ elapsed' \in {elapsed, 0}
      /\ pc' = "fetching" => ~fetchDue'
  <2>1. CASE FetchFails \/ RetryInitial
    BY <2>1 DEF FetchFails, RetryInitial, IInv, FetchFitsRound
  <2>2. CASE StartFetch
    BY <2>2 DEF StartFetch, IInv, FetchFitsRound
  <2>3. CASE Cancel
    BY <2>3 DEF Cancel
  <2> QED BY <2>1, <2>2, <2>3
<1>3. Typed'
  <2>1. elapsed' \in 0 .. SlowestFetch
    <3>1. elapsed \in 0 .. SlowestFetch
      BY DEF IInv, Typed
    <3>2. elapsed' = elapsed \/ elapsed' = 0
      BY <1>2
    <3> QED BY <3>1, <3>2, TimesTyped
  <2>2. \A s \in Sats : shown'[s] # NoEntry => s \in InStore'
    BY <1>1 DEF IInv, Typed
  <2>3. /\ slot' \in 0 .. FetchTicks - 1 /\ tick' \in -1 .. slot'
        /\ wait' \in [Sats -> Nat] /\ stamped' \subseteq InStore'
    BY <1>1 DEF IInv, Typed
  <2>4. /\ store' \in [Sats -> [orbit : Orbits, status : {"", "maneuvering"}] \cup {NoEntry}]
        /\ shown' \in [Sats -> Orbits \cup {NoEntry}]
    BY <1>1 DEF IInv, Typed
  <2> QED BY <1>2, <2>1, <2>2, <2>3, <2>4 DEF Typed
<1>4. FetchFitsRound'
  BY <1>1, <1>2 DEF IInv, FetchFitsRound
<1> QED BY <1>1, <1>2, <1>3, <1>4, ScheduleKept DEF IInv

LEMMA NextSlot ==
  ASSUME IInv
  PROVE  /\ (slot + 1) % FetchTicks = IF slot + 1 = FetchTicks THEN 0 ELSE slot + 1
         /\ slot \in 0 .. FetchTicks - 1
<1>1. slot \in 0 .. FetchTicks - 1 /\ FetchTicks \in Nat /\ FetchTicks > 0
  BY TimesTyped DEF IInv, Typed
<1>2. CASE slot + 1 = FetchTicks
  <2>1. FetchTicks % FetchTicks = 0
    BY <1>1
  <2> QED BY <1>1, <1>2, <2>1
<1>3. CASE slot + 1 # FetchTicks
  <2>1. slot + 1 \in 0 .. FetchTicks - 1
    BY <1>1, <1>3
  <2>2. (slot + 1) % FetchTicks = slot + 1
    BY <1>1, <2>1, ModSmall
  <2> QED BY <1>1, <1>3, <2>2
<1> QED BY <1>2, <1>3

\* The satellites do not change with the time.
LEMMA ClockBasics ==
  ASSUME IInv, Clock
  PROVE  /\ InStore' = InStore /\ UNCHANGED <<pc, store, stamped, shown>>
         /\ \A s \in Sats : Slots(s)' = Slots(s) /\ Bucket(s)' = Bucket(s)
         /\ \A s \in InStore : s \in Sats /\ wait'[s] = wait[s] + 1 /\ wait[s] \in Nat
         /\ tick' = tick + 1 /\ tick \in -1 .. slot /\ slot \in Nat
         /\ wait' \in [Sats -> Nat]
         /\ stamped \subseteq InStore
<1>1. /\ UNCHANGED <<pc, store, stamped, shown>>
      /\ wait' = [s \in Sats |-> IF store[s] = NoEntry THEN 0 ELSE wait[s] + 1]
      /\ tick' = tick + 1
  BY DEF Clock
<1>2. /\ wait \in [Sats -> Nat] /\ tick \in -1 .. slot /\ slot \in Nat
      /\ stamped \subseteq InStore
  <2>1. wait \in [Sats -> Nat] /\ tick \in -1 .. slot /\ stamped \subseteq InStore
    BY DEF IInv, Typed
  <2>2. slot \in 0 .. FetchTicks - 1
    BY DEF IInv, Typed
  <2> QED BY <2>1, <2>2, TimesTyped
<1>3. InStore' = InStore /\ \A s \in Sats : Slots(s)' = Slots(s) /\ Bucket(s)' = Bucket(s)
  BY <1>1 DEF InStore, Slots, Bucket
<1>4. \A s \in InStore : s \in Sats /\ wait'[s] = wait[s] + 1 /\ wait[s] \in Nat
  BY <1>1, <1>2 DEF InStore
<1>5. wait' \in [Sats -> Nat]
  BY <1>1, <1>2
<1> QED BY <1>1, <1>2, <1>3, <1>4, <1>5

\* The time goes on within the fetch interval.
LEMMA ClockInRound == ASSUME IInv, Clock, slot + 1 # FetchTicks PROVE IInv'
<1>1. slot' = slot + 1 /\ slot' \in 0 .. FetchTicks - 1 /\ slot' # 0
  BY NextSlot, TimesTyped DEF Clock
<1>2. fetchDue' <=> fetchDue
  BY <1>1 DEF Clock
<1>3. /\ pc = "select" => tick = NoTick /\ ~fetchDue /\ elapsed' = elapsed
      /\ pc = "fetching" => elapsed < SlowestFetch /\ elapsed' = elapsed + 1
      /\ pc = "select" \/ pc = "fetching"
  BY DEF Clock
<1>4. elapsed \in 0 .. SlowestFetch
  BY DEF IInv, Typed
<1>5. Typed'
  <2>1. elapsed' \in 0 .. SlowestFetch
    BY <1>3, <1>4, TimesTyped
  <2>2. tick' \in -1 .. slot'
    BY <1>1, ClockBasics
  <2>3. /\ store' \in [Sats -> [orbit : Orbits, status : {"", "maneuvering"}] \cup {NoEntry}]
        /\ shown' \in [Sats -> Orbits \cup {NoEntry}]
        /\ \A s \in Sats : shown'[s] # NoEntry => s \in InStore'
        /\ pc' \in {"initial", "waiting", "select", "fetching", "ended"}
    BY ClockBasics DEF IInv, Typed
  <2> QED BY <1>1, <2>1, <2>2, <2>3, ClockBasics DEF Typed
<1>6. FetchFitsRound'
  <2>1. CASE pc = "select"
    BY <1>2, <1>3, <2>1, ClockBasics DEF IInv, FetchFitsRound, NoTick
  <2>2. CASE pc = "fetching"
    BY <1>1, <1>2, <1>3, <1>4, <2>2, ClockBasics, TimesTyped DEF IInv, FetchFitsRound
  <2> QED BY <1>3, <2>1, <2>2
<1>7. \A t \in Int : Resolved(t)' <=> Resolved(t) /\ t <= slot
  BY <1>1, ClockBasics DEF Resolved, NoTick
<1>8. \A s \in Sats : \A t : SlotOf(s, t)' <=> SlotOf(s, t)
  BY ClockBasics DEF SlotOf
<1>9. WaitSinceSlot'
  <2> SUFFICES ASSUME NEW s \in InStore
               PROVE  /\ wait'[s] <= slot' + Slots(s)' - Bucket(s)'
                      /\ Bucket(s)' = 0 /\ Resolved(0)' => wait'[s] <= slot'
                      /\ \A t \in SlowestFetch + 1 .. slot' :
                           SlotOf(s, t)' /\ Resolved(t)' => wait'[s] <= slot' - t
    BY ClockBasics DEF WaitSinceSlot
  <2>1. s \in Sats /\ wait'[s] = wait[s] + 1 /\ wait[s] \in Nat /\ slot \in Nat
        /\ Slots(s)' = Slots(s) /\ Bucket(s)' = Bucket(s) /\ Slots(s) \in Nat /\ Bucket(s) \in Int
    BY ClockBasics, SlotsTyped
  <2>2. wait[s] <= slot + Slots(s) - Bucket(s)
    BY DEF IInv, WaitSinceSlot
  <2>3. Bucket(s) = 0 /\ Resolved(0) => wait[s] <= slot
    BY DEF IInv, WaitSinceSlot
  <2>4. ASSUME NEW t \in SlowestFetch + 1 .. slot', SlotOf(s, t)', Resolved(t)'
        PROVE  wait'[s] <= slot' - t
    <3>1. t \in Int /\ t \in SlowestFetch + 1 .. slot /\ SlotOf(s, t) /\ Resolved(t)
      BY <1>1, <1>7, <1>8, <2>1, <2>4, TimesTyped
    <3>2. wait[s] <= slot - t
      BY <3>1 DEF IInv, WaitSinceSlot
    <3> QED BY <1>1, <2>1, <3>1, <3>2
  <2>5. wait'[s] <= slot' + Slots(s)' - Bucket(s)'
    <3> HIDE DEF Slots, Bucket
    <3> QED BY <1>1, <2>1, <2>2
  <2>6. Bucket(s)' = 0 /\ Resolved(0)' => wait'[s] <= slot'
    BY <1>1, <1>7, <2>1, <2>3
  <2> QED BY <2>4, <2>5, <2>6
<1>10. StampedInSlot'
  <2> SUFFICES ASSUME NEW s \in stamped
               PROVE  wait'[s] > tick' /\ SlotOf(s, slot - wait[s])'
    BY ClockBasics DEF StampedInSlot
  <2>1. s \in Sats /\ wait'[s] = wait[s] + 1 /\ wait[s] \in Nat
    BY ClockBasics
  <2>2. slot' - wait'[s] = slot - wait[s] /\ (wait[s] > tick => wait'[s] > tick')
    BY <1>1, <2>1, ClockBasics
  <2>3. SlotOf(s, slot - wait[s])'
    BY <2>1, <2>2, ClockBasics DEF IInv, StampedInSlot, SlotOf
  <2> QED BY <2>2, <2>3 DEF IInv, StampedInSlot
<1>11. ShownBySlot'
  <2> SUFFICES ASSUME NEW s \in InStore, shown[s] \notin {NoEntry, store[s].orbit}
               PROVE  /\ ~fetchDue' /\ pc' # "fetching"
                      /\ \A t \in SlowestFetch + 1 .. slot' : ~(SlotOf(s, t)' /\ Resolved(t)')
    BY ClockBasics DEF ShownBySlot
  <2>1. ~fetchDue' /\ pc' # "fetching"
    BY <1>2, ClockBasics DEF IInv, ShownBySlot
  <2>2. ASSUME NEW t \in SlowestFetch + 1 .. slot', SlotOf(s, t)', Resolved(t)' PROVE FALSE
    <3>1. t \in SlowestFetch + 1 .. slot /\ SlotOf(s, t) /\ Resolved(t)
      BY <1>1, <1>7, <1>8, <2>2, ClockBasics, TimesTyped
    <3> QED BY <3>1 DEF IInv, ShownBySlot
  <2> QED BY <2>1, <2>2
<1>12. ManoeuvreIsTold'
  BY ClockBasics DEF IInv, ManoeuvreIsTold
<1> QED BY <1>5, <1>6, <1>9, <1>10, <1>11, <1>12 DEF IInv

\* When the time wraps around, the slot of each satellite in the last interval is
\* later than SlowestFetch and has been handled.
LEMMA SlotBeforeWrap ==
  ASSUME IInv, Clock, slot + 1 = FetchTicks, NEW s \in InStore
  PROVE  LET t == FetchTicks - Slots(s) + Bucket(s)
         IN  t \in SlowestFetch + 1 .. slot /\ SlotOf(s, t) /\ Resolved(t)
<1> DEFINE t == FetchTicks - Slots(s) + Bucket(s)
<1>1. s \in Sats /\ slot \in Nat
  BY ClockBasics
<1>2. pc = "select" /\ tick = NoTick
  <2>1. pc = "fetching" => slot = elapsed /\ elapsed < SlowestFetch
    BY DEF Clock, IInv, FetchFitsRound
  <2>2. SlowestFetch < FetchTicks
    BY <1>1, SlotsTyped
  <2>3. pc # "fetching"
    BY <1>1, <2>1, <2>2, TimesTyped
  <2> QED BY <2>3 DEF Clock
<1>3. t \in SlowestFetch + 1 .. slot
  <2> HIDE DEF Slots, Bucket
  <2> QED BY <1>1, SlotsTyped
<1>4. t % Slots(s) = Bucket(s)
  <2> HIDE DEF Slots, Bucket
  <2> QED BY <1>1, SlotsTyped, LastBeforeWrap
<1> QED BY <1>2, <1>3, <1>4 DEF SlotOf, Resolved

LEMMA ClockWraps == ASSUME IInv, Clock, slot + 1 = FetchTicks PROVE IInv'
<1>1. slot' = 0
  BY NextSlot DEF Clock
<1>2. pc = "select" /\ tick = NoTick /\ ~fetchDue /\ elapsed' = elapsed /\ tick' = 0
  <2>1. pc = "fetching" => slot = elapsed /\ elapsed < SlowestFetch
    BY DEF Clock, IInv, FetchFitsRound
  <2>2. SlowestFetch < FetchTicks
    BY TleAssumption
  <2>3. pc # "fetching"
    BY <2>1, <2>2, ClockBasics, TimesTyped
  <2> QED BY <2>3 DEF Clock, NoTick
<1>3. Typed'
  <2>1. elapsed' \in 0 .. SlowestFetch
    BY <1>2 DEF IInv, Typed
  <2>2. tick' \in -1 .. slot' /\ slot' \in 0 .. FetchTicks - 1
    BY <1>1, <1>2, TimesTyped
  <2>3. /\ store' \in [Sats -> [orbit : Orbits, status : {"", "maneuvering"}] \cup {NoEntry}]
        /\ shown' \in [Sats -> Orbits \cup {NoEntry}]
        /\ \A s \in Sats : shown'[s] # NoEntry => s \in InStore'
        /\ pc' \in {"initial", "waiting", "select", "fetching", "ended"}
    BY ClockBasics DEF IInv, Typed
  <2> QED BY <2>1, <2>2, <2>3, ClockBasics DEF Typed
<1>4. FetchFitsRound'
  BY <1>1, <1>2, ClockBasics DEF IInv, FetchFitsRound
<1>5. WaitSinceSlot'
  <2> SUFFICES ASSUME NEW s \in InStore
               PROVE  /\ wait'[s] <= slot' + Slots(s)' - Bucket(s)'
                      /\ Bucket(s)' = 0 /\ Resolved(0)' => wait'[s] <= slot'
                      /\ \A t \in SlowestFetch + 1 .. slot' :
                           SlotOf(s, t)' /\ Resolved(t)' => wait'[s] <= slot' - t
    BY ClockBasics DEF WaitSinceSlot
  <2> DEFINE t == FetchTicks - Slots(s) + Bucket(s)
  <2>1. s \in Sats /\ wait'[s] = wait[s] + 1 /\ wait[s] \in Nat /\ slot \in Nat
        /\ Slots(s)' = Slots(s) /\ Bucket(s)' = Bucket(s) /\ Slots(s) \in Nat /\ Bucket(s) \in Int
    BY ClockBasics, SlotsTyped
  <2>2. t \in SlowestFetch + 1 .. slot /\ SlotOf(s, t) /\ Resolved(t)
    BY SlotBeforeWrap
  <2>3. wait[s] <= slot - t
    BY <2>2 DEF IInv, WaitSinceSlot
  <2>4. wait'[s] <= slot' + Slots(s)' - Bucket(s)'
    <3> HIDE DEF Slots, Bucket
    <3> QED BY <1>1, <2>1, <2>3, TimesTyped
  <2>5. ~Resolved(0)'
    BY <1>1, <1>2 DEF Resolved, NoTick
  <2>6. SlowestFetch + 1 .. slot' = {}
    BY <1>1, TimesTyped
  <2> QED BY <2>4, <2>5, <2>6
<1>6. StampedInSlot'
  <2> SUFFICES ASSUME NEW s \in stamped
               PROVE  /\ wait'[s] > tick'
                      /\ (slot - wait[s] - FetchTicks) % Slots(s)' = Bucket(s)'
    <3>1. ASSUME NEW s \in stamped PROVE slot' - wait'[s] = slot - wait[s] - FetchTicks
      <4>1. wait'[s] = wait[s] + 1 /\ wait[s] \in Nat /\ slot \in Nat
        BY ClockBasics
      <4> QED BY <1>1, <4>1, TimesTyped
    <3>2. StampedInSlot' <=>
            \A s \in stamped : wait'[s] > tick' /\ (slot' - wait'[s]) % Slots(s)' = Bucket(s)'
      BY ClockBasics DEF StampedInSlot, SlotOf
    <3>3. ASSUME NEW s \in stamped
          PROVE  wait'[s] > tick' /\ (slot' - wait'[s]) % Slots(s)' = Bucket(s)'
      BY <3>1, <3>3
    <3> QED BY <3>2, <3>3
  <2>1. s \in Sats /\ wait'[s] = wait[s] + 1 /\ wait[s] \in Nat /\ slot \in Nat
    BY ClockBasics
  <2>2. (slot - wait[s]) % Slots(s) = Bucket(s)
    BY DEF IInv, StampedInSlot, SlotOf
  <2>3. (slot - wait[s] - FetchTicks) % Slots(s) = (slot - wait[s]) % Slots(s)
    <3> DEFINE a == slot - wait[s]
    <3>1. a \in Int
      BY <2>1
    <3> HIDE DEF a
    <3>2. (a - FetchTicks) % Slots(s) = a % Slots(s)
      BY <2>1, <3>1, SlotsTyped, RoundsApart
    <3> QED BY <3>2 DEF a
  <2>4. (slot - wait[s] - FetchTicks) % Slots(s)' = Bucket(s)'
    BY <2>1, <2>2, <2>3, ClockBasics
  <2> QED BY <1>2, <2>1, <2>4
<1>7. ShownBySlot'
  <2> SUFFICES ASSUME NEW s \in InStore, shown[s] \notin {NoEntry, store[s].orbit} PROVE FALSE
    BY ClockBasics DEF ShownBySlot
  <2> QED BY SlotBeforeWrap DEF IInv, ShownBySlot
<1>8. ManoeuvreIsTold'
  BY ClockBasics DEF IInv, ManoeuvreIsTold
<1> QED BY <1>3, <1>4, <1>5, <1>6, <1>7, <1>8 DEF IInv

-----------------------------------------------------------------------------
(* propagateScheduled                                                       *)

IsDue(s) == s \in InStore /\ SlotOf(s, slot - tick)

LEMMA PropagateBasics ==
  ASSUME IInv, NEW skipped \in SUBSET Sats, Propagate(skipped)
  PROVE  /\ UNCHANGED <<pc, slot, fetchDue, elapsed, store>> /\ InStore' = InStore
         /\ pc = "select" /\ tick \in Nat /\ tick <= slot /\ slot \in Nat /\ tick' = NoTick
         /\ \A s \in Sats : Slots(s)' = Slots(s) /\ Bucket(s)' = Bucket(s)
         /\ \A s \in Sats :
              IF IsDue(s)
              THEN /\ wait'[s] \in {0, tick} /\ shown'[s] \in {NoEntry, store[s].orbit}
                   /\ s \in stamped' => wait'[s] = tick
              ELSE wait'[s] = wait[s] /\ shown'[s] = shown[s] /\ (s \in stamped' => s \in stamped)
         /\ stamped' \subseteq InStore
         /\ wait \in [Sats -> Nat] /\ wait' \in [Sats -> Nat]
         /\ shown' \in [Sats -> Orbits \cup {NoEntry}]
         /\ InStore \subseteq Sats
<1> DEFINE due == {s \in Sats : satelliteDue(s)}
<1>1. /\ UNCHANGED <<pc, slot, fetchDue, elapsed, store>> /\ pc = "select" /\ tick # NoTick
      /\ tick' = NoTick /\ skipped \subseteq due
      /\ wait' = [s \in Sats |-> IF s \in skipped THEN 0 ELSE IF s \in due THEN tick ELSE wait[s]]
      /\ stamped' = (stamped \cup due) \ skipped
      /\ shown' = [s \in Sats |-> IF s \in skipped THEN NoEntry
                                  ELSE IF s \in due THEN store[s].orbit ELSE shown[s]]
  BY DEF Propagate
<1>2. due = {s \in Sats : IsDue(s)}
  BY DEF satelliteDue, IsDue, SlotOf, Bucket, Slots, InStore
<1>3. tick \in Nat /\ tick <= slot /\ slot \in Nat
  <2>1. tick \in -1 .. slot /\ slot \in 0 .. FetchTicks - 1
    BY DEF IInv, Typed
  <2> QED BY <1>1, <2>1, TimesTyped DEF NoTick
<1>4. /\ wait \in [Sats -> Nat] /\ shown \in [Sats -> Orbits \cup {NoEntry}]
      /\ stamped \subseteq InStore
      /\ store \in [Sats -> [orbit : Orbits, status : {"", "maneuvering"}] \cup {NoEntry}]
  BY DEF IInv, Typed
<1>5. \A s \in due : s \in InStore /\ store[s].orbit \in Orbits
  BY <1>2, <1>4 DEF IsDue, InStore
<1>6. InStore' = InStore /\ InStore \subseteq Sats
      /\ \A s \in Sats : Slots(s)' = Slots(s) /\ Bucket(s)' = Bucket(s)
  BY <1>1 DEF InStore, Slots, Bucket
<1> HIDE DEF due
<1>7. wait' \in [Sats -> Nat]
  BY <1>1, <1>3, <1>4
<1>8. shown' \in [Sats -> Orbits \cup {NoEntry}]
  BY <1>1, <1>4, <1>5
<1>9. \A s \in Sats :
        IF IsDue(s)
        THEN /\ wait'[s] \in {0, tick} /\ shown'[s] \in {NoEntry, store[s].orbit}
             /\ s \in stamped' => wait'[s] = tick
        ELSE wait'[s] = wait[s] /\ shown'[s] = shown[s] /\ (s \in stamped' => s \in stamped)
  BY <1>1, <1>2
<1>10. stamped' \subseteq InStore
  BY <1>1, <1>4, <1>5
<1> QED BY <1>1, <1>3, <1>4, <1>6, <1>7, <1>8, <1>9, <1>10

\* A slot that is not dropped had been handled before, or is handled now.
LEMMA HandledNow ==
  ASSUME IInv, NEW skipped \in SUBSET Sats, Propagate(skipped), NEW s \in InStore,
         NEW t \in SlowestFetch + 1 .. slot, SlotOf(s, t)
  PROVE  Resolved(t) \/ (IsDue(s) /\ tick = 0 /\ t = slot)
<1>1. tick \in Nat /\ slot \in Nat /\ SlowestFetch \in Nat
  BY PropagateBasics, TimesTyped
<1>2. tick = 0
  BY <1>1 DEF IInv, FetchFitsRound
<1>3. t < slot \/ t = slot
  BY <1>1
<1>4. slot - tick = slot
  BY <1>1, <1>2
<1> QED BY <1>2, <1>3, <1>4 DEF Resolved, IsDue

LEMMA PropagateStep ==
  ASSUME IInv, NEW skipped \in SUBSET Sats, Propagate(skipped)
  PROVE  IInv'
<1>1. \A t : Resolved(t)'
  BY PropagateBasics DEF Resolved
<1>2. \A s \in Sats : \A t : SlotOf(s, t)' <=> SlotOf(s, t)
  BY PropagateBasics DEF SlotOf
<1>3. Typed'
  <2>1. /\ pc' \in {"initial", "waiting", "select", "fetching", "ended"}
        /\ slot' \in 0 .. FetchTicks - 1 /\ elapsed' \in 0 .. SlowestFetch
        /\ store' \in [Sats -> [orbit : Orbits, status : {"", "maneuvering"}] \cup {NoEntry}]
    BY PropagateBasics DEF IInv, Typed
  <2>2. tick' \in -1 .. slot'
    BY PropagateBasics DEF NoTick
  <2>3. \A s \in Sats : shown'[s] # NoEntry => s \in InStore'
    BY PropagateBasics DEF IInv, Typed, IsDue
  <2> QED BY <2>1, <2>2, <2>3, PropagateBasics DEF Typed
<1>4. FetchFitsRound'
  BY PropagateBasics DEF IInv, FetchFitsRound, NoTick
<1>5. WaitSinceSlot'
  <2> SUFFICES ASSUME NEW s \in InStore
               PROVE  /\ wait'[s] <= slot + Slots(s) - Bucket(s)
                      /\ Bucket(s) = 0 => wait'[s] <= slot
                      /\ \A t \in SlowestFetch + 1 .. slot : SlotOf(s, t) => wait'[s] <= slot - t
    BY <1>2, PropagateBasics DEF WaitSinceSlot
  <2>1. /\ s \in Sats /\ Slots(s) \in Nat /\ Bucket(s) \in 0 .. Slots(s) - 1
        /\ wait[s] \in Nat /\ wait'[s] \in Nat /\ slot \in Nat /\ tick \in Nat /\ tick <= slot
    BY SlotsTyped, PropagateBasics
  <2>2. CASE IsDue(s)
    <3>1. wait'[s] <= tick
      BY <2>1, <2>2, PropagateBasics
    <3>2. ASSUME NEW t \in SlowestFetch + 1 .. slot PROVE wait'[s] <= slot - t
      <4>1. tick = 0
        BY <2>1, TimesTyped DEF IInv, FetchFitsRound
      <4> QED BY <2>1, <3>1, <4>1, TimesTyped
    <3> QED BY <2>1, <3>1, <3>2
  <2>3. CASE ~IsDue(s)
    <3>1. wait'[s] = wait[s]
      BY <2>1, <2>3, PropagateBasics
    <3>2. Bucket(s) = 0 => wait[s] <= slot
      <4>1. CASE slot = tick
        <5>1. 0 % Slots(s) = 0
          BY <2>1, SlotsTyped, ModSmall
        <5>2. slot - tick = 0
          BY <2>1, <4>1
        <5> QED BY <2>3, <5>1, <5>2 DEF IsDue, SlotOf
      <4>2. CASE slot # tick
        <5>1. Resolved(0)
          BY <2>1, <4>2 DEF Resolved
        <5> QED BY <5>1 DEF IInv, WaitSinceSlot
      <4> QED BY <4>1, <4>2
    <3>3. ASSUME NEW t \in SlowestFetch + 1 .. slot, SlotOf(s, t) PROVE wait[s] <= slot - t
      <4>1. Resolved(t)
        BY <2>3, <3>3, HandledNow
      <4> QED BY <3>3, <4>1 DEF IInv, WaitSinceSlot
    <3>4. wait[s] <= slot + Slots(s) - Bucket(s)
      BY DEF IInv, WaitSinceSlot
    <3> QED BY <3>1, <3>2, <3>3, <3>4
  <2> QED BY <2>2, <2>3
<1>6. StampedInSlot'
  <2> SUFFICES ASSUME NEW s \in stamped'
               PROVE  wait'[s] > -1 /\ (slot - wait'[s]) % Slots(s) = Bucket(s)
    BY PropagateBasics DEF StampedInSlot, SlotOf, NoTick
  <2>1. s \in Sats /\ wait'[s] \in Nat
    BY PropagateBasics
  <2>2. (slot - wait'[s]) % Slots(s) = Bucket(s)
    <3>1. CASE IsDue(s)
      BY <2>1, <3>1, PropagateBasics DEF IsDue, SlotOf
    <3>2. CASE ~IsDue(s)
      BY <2>1, <3>2, PropagateBasics DEF IInv, StampedInSlot, SlotOf
    <3> QED BY <3>1, <3>2
  <2> QED BY <2>1, <2>2
<1>7. ShownBySlot'
  <2> SUFFICES ASSUME NEW s \in InStore, shown'[s] \notin {NoEntry, store[s].orbit}
               PROVE  /\ ~fetchDue /\ pc # "fetching"
                      /\ \A t \in SlowestFetch + 1 .. slot : ~SlotOf(s, t)
    BY <1>2, PropagateBasics DEF ShownBySlot
  <2>1. s \in Sats /\ ~IsDue(s) /\ shown'[s] = shown[s]
    BY PropagateBasics
  <2> QED BY <2>1, HandledNow DEF IInv, ShownBySlot
<1>8. ManoeuvreIsTold'
  <2> SUFFICES ASSUME NEW s \in InStore, shown'[s] # NoEntry, store[s].status # "maneuvering"
               PROVE  /\ Apart(store[s].orbit.meanMotion, shown'[s].meanMotion) <= 10
                      /\ Apart(store[s].orbit.inclination, shown'[s].inclination) <= 1
    BY PropagateBasics DEF ManoeuvreIsTold
  <2>1. s \in Sats
    BY PropagateBasics
  <2>2. CASE IsDue(s)
    <3>1. shown'[s] = store[s].orbit
      BY <2>1, <2>2, PropagateBasics
    <3>2. store[s].orbit \in Orbits
      BY <2>1 DEF InStore, IInv, Typed
    <3> QED BY <3>1, <3>2 DEF Orbits, Apart
  <2>3. CASE ~IsDue(s)
    BY <2>1, <2>3, PropagateBasics DEF IInv, ManoeuvreIsTold
  <2> QED BY <2>2, <2>3
<1> QED BY <1>3, <1>4, <1>5, <1>6, <1>7, <1>8 DEF IInv

-----------------------------------------------------------------------------
(* fetchAll                                                                 *)

TLEs == [sat : Sats, orbit : Orbits]

\* A set of naturals that is not empty has a least element.
LEMMA LeastNat ==
  ASSUME NEW T \in SUBSET Nat, T # {}
  PROVE  \E x \in T : \A y \in T : x <= y
<1>1. \E x \in T : \A y \in T : <<y, x>> \notin OpToRel(<, Nat)
  BY WFMin, NatLessThanWellFounded, Zenon
<1>2. PICK x \in T : \A y \in T : <<y, x>> \notin OpToRel(<, Nat)
  BY <1>1, Zenon
<1>3. \A y \in T : ~(y < x)
  BY <1>2, Zenon DEF OpToRel
<1> QED BY <1>3

\* Two lines make an element set of a satellite, or none.
LEMMA ParseTLETyped ==
  ASSUME NEW l1 \in TleLines, NEW l2 \in TleLines
  PROVE  ParseTLE(l1, l2) \in Seq(TLEs)
<1> DEFINE r == [sat |-> l1.sat, orbit |-> l1.orbit]
<1>1. r \in TLEs
  BY DEF TleLines, TLEs
<1>2. <<r>> \in Seq(TLEs) /\ <<>> \in Seq(TLEs)
  <2> HIDE DEF r
  <2> QED BY <1>1
<1> QED BY <1>2 DEF ParseTLE

\* from[i] is what the parser's loop finds from line i on.
IsLoop(from, lines) ==
  /\ from \in [1 .. Len(lines) + 1 -> Seq(TLEs)]
  /\ \A i \in 1 .. Len(lines) + 1 :
       from[i] = IF i + 2 > Len(lines) THEN <<>>
                 ELSE IF StartsWith1(lines[i])
                 THEN ParseTLE(lines[i], lines[i + 1]) \o from[i + 2]
                 ELSE ParseTLE(lines[i + 1], lines[i + 2]) \o from[i + 3]

\* A classified file, whatever its lines, gives element sets of satellites.  The
\* recursive function of the parser exists and is the only one, by induction on the
\* number of lines left: a line where it fails would be followed by another one.
LEMMA BatchLoop ==
  ASSUME NEW lines \in Seq(TleLines)
  PROVE  \E from : IsLoop(from, lines) /\ parseTLEBatch(lines) = from[1]
<1> DEFINE n == Len(lines)
           D == 1 .. n + 1
           next(f, i) == IF i + 2 > n THEN <<>>
                         ELSE IF StartsWith1(lines[i])
                         THEN ParseTLE(lines[i], lines[i + 1]) \o f[i + 2]
                         ELSE ParseTLE(lines[i + 1], lines[i + 2]) \o f[i + 3]
           from == CHOOSE f : f = [i \in D |-> next(f, i)]
<1>1. parseTLEBatch(lines) = from[1]
  BY DEF parseTLEBatch
<1>2. n \in Nat /\ D \subseteq Nat /\ 1 \in D
  OBVIOUS
<1>3. ASSUME NEW f \in [D -> Seq(TLEs)], NEW i \in D
      PROVE  next(f, i) \in Seq(TLEs)
  <2>1. CASE i + 2 > n
    BY <2>1
  <2>2. CASE i + 2 <= n
    <3>1. /\ lines[i] \in TleLines /\ lines[i + 1] \in TleLines /\ lines[i + 2] \in TleLines
          /\ f[i + 2] \in Seq(TLEs) /\ f[i + 3] \in Seq(TLEs)
      <4>1. lines[i] \in TleLines /\ lines[i + 1] \in TleLines /\ lines[i + 2] \in TleLines
        BY <1>2, <1>3, <2>2
      <4>2. i + 2 \in D /\ i + 3 \in D
        BY <1>2, <1>3, <2>2
      <4> HIDE DEF D
      <4> QED BY <1>3, <4>1, <4>2
    <3>2. ParseTLE(lines[i], lines[i + 1]) \in Seq(TLEs) /\ ParseTLE(lines[i + 1], lines[i + 2]) \in Seq(TLEs)
      BY <3>1, ParseTLETyped
    <3> QED BY <2>2, <3>1, <3>2
  <2> QED BY <1>2, <1>3, <2>1, <2>2
<1>4. ASSUME NEW f, NEW g, NEW i \in D,
             i + 2 <= n => f[i + 2] = g[i + 2] /\ f[i + 3] = g[i + 3]
      PROVE  next(f, i) = next(g, i)
  <2>1. CASE i + 2 > n
    BY <2>1
  <2>2. CASE ~(i + 2 > n)
    <3>1. f[i + 2] = g[i + 2] /\ f[i + 3] = g[i + 3]
      BY <1>2, <1>4, <2>2
    <3> QED BY <2>2, <3>1
  <2> QED BY <2>1, <2>2
<1> HIDE DEF next
<1> DEFINE Upto(m) == \E f \in [D -> Seq(TLEs)] : \A i \in D : i >= m => f[i] = next(f, i)
<1>5. \A m \in 1 .. n + 2 : Upto(m)
  <2> SUFFICES ASSUME NEW m \in 1 .. n + 2, ~Upto(m) PROVE FALSE
    OBVIOUS
  <2> DEFINE Bad == {j \in Nat : j <= n + 1 /\ ~Upto(n + 2 - j)}
  <2>1. Bad \in SUBSET Nat /\ n + 2 - m \in Bad
    <3>1. n + 2 - (n + 2 - m) = m /\ n + 2 - m \in Nat /\ n + 2 - m <= n + 1
      BY <1>2
    <3> HIDE DEF Upto
    <3> QED BY <3>1
  <2>2. PICK j \in Bad : \A k \in Bad : j <= k
    <3> HIDE DEF Bad
    <3> QED BY <2>1, LeastNat
  <2>3. j \in Nat /\ j <= n + 1 /\ ~Upto(n + 2 - j)
    BY <2>2
  <2>4. CASE j = 0
    <3> DEFINE f == [i \in D |-> <<>>]
    <3>1. f \in [D -> Seq(TLEs)] /\ \A i \in D : ~(i >= n + 2 - j)
      BY <1>2, <2>4
    <3> QED BY <2>3, <3>1
  <2>5. CASE j > 0
    <3> DEFINE p == n + 2 - j
    <3>1. j - 1 \in Nat /\ n + 2 - (j - 1) = p + 1 /\ p \in D /\ j - 1 <= n + 1 /\ ~(j <= j - 1)
      BY <1>2, <2>3, <2>5
    <3>2. Upto(p + 1)
      <4> HIDE DEF Upto, p
      <4> QED BY <2>2, <3>1
    <3>3. PICK f \in [D -> Seq(TLEs)] : \A i \in D : i >= p + 1 => f[i] = next(f, i)
      BY <3>2
    <3> DEFINE g == [f EXCEPT ![p] = next(f, p)]
    <3>4. g \in [D -> Seq(TLEs)]
      BY <1>3, <3>1
    <3>5. \A i \in D : i # p => g[i] = f[i]
      BY <3>1
    <3>6. ASSUME NEW i \in D, i >= p PROVE g[i] = next(g, i)
      <4>1. next(f, i) = next(g, i)
        <5>1. i + 2 <= n => i + 2 \in D /\ i + 3 \in D /\ i + 2 # p /\ i + 3 # p
          BY <1>2, <3>1, <3>6
        <5> HIDE DEF g, p
        <5> QED BY <1>4, <3>5, <5>1
      <4>2. CASE i = p
        BY <3>1, <4>1, <4>2
      <4>3. CASE i # p
        <5>1. i >= p + 1
          <6>1. i \in Nat /\ p \in Nat
            BY <1>2, <3>1
          <6> HIDE DEF p
          <6> QED BY <3>6, <4>3, <6>1
        <5> HIDE DEF g, p
        <5> QED BY <3>3, <3>5, <4>1, <4>3, <5>1
      <4> QED BY <4>2, <4>3
    <3> HIDE DEF g
    <3> QED BY <2>3, <3>4, <3>6
  <2> QED BY <2>3, <2>4, <2>5
<1>6. PICK f \in [D -> Seq(TLEs)] : \A i \in D : f[i] = next(f, i)
  BY <1>2, <1>5
<1>7. f = [i \in D |-> next(f, i)]
  BY <1>6
<1>8. from = [i \in D |-> next(from, i)]
  BY <1>7
<1> HIDE DEF from
<1>9. from[1] = f[1]
  <2> SUFFICES ASSUME from[1] # f[1] PROVE FALSE
    OBVIOUS
  <2> DEFINE Bad == {j \in Nat : j <= n /\ from[n + 1 - j] # f[n + 1 - j]}
  <2>1. Bad \in SUBSET Nat /\ n \in Bad
    BY <1>2
  <2>2. PICK j \in Bad : \A k \in Bad : j <= k
    <3> HIDE DEF Bad
    <3> QED BY <2>1, LeastNat
  <2> DEFINE p == n + 1 - j
  <2>3. j \in Nat /\ j <= n /\ from[p] # f[p] /\ p \in D
    BY <1>2, <2>2
  <2>4. p + 2 <= n => from[p + 2] = f[p + 2] /\ from[p + 3] = f[p + 3]
    <3> SUFFICES ASSUME p + 2 <= n PROVE from[p + 2] = f[p + 2] /\ from[p + 3] = f[p + 3]
      OBVIOUS
    <3>1. /\ j - 2 \in Nat /\ n + 1 - (j - 2) = p + 2 /\ j - 2 <= n /\ ~(j <= j - 2)
          /\ j - 3 \in Nat /\ n + 1 - (j - 3) = p + 3 /\ j - 3 <= n /\ ~(j <= j - 3)
      BY <1>2, <2>3
    <3>2. j - 2 \notin Bad /\ j - 3 \notin Bad
      <4> HIDE DEF Bad
      <4> QED BY <2>2, <3>1
    <3> HIDE DEF p
    <3> QED BY <3>1, <3>2
  <2>5. next(from, p) = next(f, p)
    <3> HIDE DEF p
    <3> QED BY <1>4, <2>3, <2>4
  <2>6. from[p] = next(from, p) /\ f[p] = next(f, p)
    <3> HIDE DEF p
    <3>1. \A i \in D : from[i] = next(from, i)
      BY <1>8
    <3> QED BY <1>6, <2>3, <3>1
  <2> QED BY <2>3, <2>5, <2>6
<1>10. IsLoop(f, lines)
  BY <1>6 DEF IsLoop, next
<1> QED BY <1>1, <1>9, <1>10

LEMMA BatchTyped ==
  ASSUME NEW lines \in Seq(TleLines)
  PROVE  parseTLEBatch(lines) \in Seq(TLEs)
<1>1. PICK from : IsLoop(from, lines) /\ parseTLEBatch(lines) = from[1]
  BY BatchLoop
<1>2. 1 \in 1 .. Len(lines) + 1
  OBVIOUS
<1> QED BY <1>1, <1>2 DEF IsLoop

\* Some indices of a sequence, if there are any, have a last one.
LEMMA LastIndex ==
  ASSUME NEW n \in Nat, NEW T \in SUBSET (1 .. n), T # {}
  PROVE  \E x \in T : \A y \in T : y <= x
<1> DEFINE R == {n - y : y \in T}
<1>1. R \in SUBSET Nat /\ R # {}
  <2>1. \A y \in T : n - y \in Nat
    OBVIOUS
  <2> QED BY <2>1
<1>2. PICK r \in R : \A q \in R : r <= q
  <2> HIDE DEF R
  <2> QED BY <1>1, LeastNat
<1>3. PICK x \in T : r = n - x
  OBVIOUS
<1>4. ASSUME NEW y \in T PROVE y <= x
  <2>1. n - x <= n - y
    BY <1>2, <1>3
  <2>2. x \in 1 .. n /\ y \in 1 .. n
    OBVIOUS
  <2> QED BY <2>1, <2>2
<1> QED BY <1>4

\* The orbit that LastOrbit chooses is that of the last element set.
LEMMA LastOrbitIs ==
  ASSUME NEW tles \in Seq(TLEs), NEW s \in Sats
  PROVE  \/ LastOrbit(tles, s) = NoEntry /\ \A i \in 1 .. Len(tles) : tles[i].sat # s
         \/ \E i \in 1 .. Len(tles) : /\ tles[i].sat = s /\ LastOrbit(tles, s) = tles[i].orbit
                                      /\ \A j \in 1 .. Len(tles) : tles[j].sat = s => j <= i
<1> DEFINE of == {i \in 1 .. Len(tles) : tles[i].sat = s}
           last == CHOOSE i \in of : \A j \in of : j <= i
<1>1. LastOrbit(tles, s) = IF of = {} THEN NoEntry ELSE tles[last].orbit
  BY DEF LastOrbit
<1>2. CASE of = {}
  BY <1>1, <1>2
<1>3. CASE of # {}
  <2>1. \E i \in of : \A j \in of : j <= i
    <3>1. Len(tles) \in Nat /\ of \in SUBSET (1 .. Len(tles))
      OBVIOUS
    <3> HIDE DEF of
    <3> QED BY <1>3, <3>1, LastIndex
  <2>2. last \in of /\ \A j \in of : j <= last
    <3> HIDE DEF of
    <3> QED BY <2>1
  <2>3. LastOrbit(tles, s) = tles[last].orbit
    BY <1>1, <1>3
  <2> HIDE DEF last
  <2> QED BY <2>2, <2>3
<1> QED BY <1>2, <1>3

LEMMA LastOrbitTyped ==
  ASSUME NEW tles \in Seq(TLEs), NEW s \in Sats
  PROVE  LastOrbit(tles, s) \in Orbits \cup {NoEntry}
<1>1. ASSUME NEW i \in 1 .. Len(tles) PROVE tles[i].orbit \in Orbits
  <2>1. tles[i] \in TLEs
    OBVIOUS
  <2> QED BY <2>1 DEF TLEs
<1> QED BY <1>1, LastOrbitIs

\* Every entry of the new store has an orbit of one of the answers, and says so when
\* that is far from the orbit of the old entry.
LEMMA NewStoreTells ==
  ASSUME NEW official \in Official, NEW tles \in Seq(TLEs), NEW s \in Sats,
         NEW entry, entry = NewStore(official, tles)[s], entry # NoEntry
  PROVE  /\ entry \in [orbit : Orbits, status : {"", "maneuvering"}]
         /\ store[s] # NoEntry =>
              entry.status = "maneuvering" \/ ~detectManeuver(store[s].orbit, entry.orbit)
<1> DEFINE orbit == IF LastOrbit(tles, s) # NoEntry THEN LastOrbit(tles, s)
                    ELSE IF s \in DOMAIN official THEN official[s] ELSE NoEntry
           jumps == store[s] # NoEntry /\ detectManeuver(store[s].orbit, orbit)
           status == IF jumps THEN "maneuvering" ELSE ""
<1>1. entry = IF orbit = NoEntry THEN NoEntry ELSE [orbit |-> orbit, status |-> status]
  BY DEF NewStore
<1>2. orbit \in Orbits \cup {NoEntry}
  <2>1. CASE LastOrbit(tles, s) # NoEntry
    BY <2>1, LastOrbitTyped
  <2>2. CASE LastOrbit(tles, s) = NoEntry
    BY <2>2, TleDataAssumption
  <2> QED BY <2>1, <2>2
<1>3. status \in {"", "maneuvering"} /\ (jumps => status = "maneuvering")
  <2> HIDE DEF jumps
  <2> QED BY Zenon
<1>4. orbit # NoEntry /\ entry = [orbit |-> orbit, status |-> status]
  <2> HIDE DEF orbit, jumps, status
  <2> QED BY <1>1
<1>5. entry.orbit = orbit /\ entry.status = status
  <2> HIDE DEF orbit, jumps, status
  <2> QED BY <1>4
<1>6. entry \in [orbit : Orbits, status : {"", "maneuvering"}]
  <2> HIDE DEF orbit, jumps, status
  <2>1. orbit \in Orbits /\ status \in {"", "maneuvering"}
    BY <1>2, <1>3, <1>4
  <2>2. entry = [orbit |-> orbit, status |-> status]
    BY <1>4
  <2> QED BY ONLY <2>1, <2>2
<1>7. store[s] # NoEntry => entry.status = "maneuvering" \/ ~detectManeuver(store[s].orbit, entry.orbit)
  <2>1. entry.orbit = orbit /\ (store[s] # NoEntry /\ detectManeuver(store[s].orbit, orbit) => entry.status = "maneuvering")
    BY <1>3, <1>5
  <2> HIDE DEF orbit, jumps, status
  <2> QED BY <2>1
<1> QED BY <1>6, <1>7

\* A change that detectManeuver lets pass is small.
LEMMA SmallChange ==
  ASSUME NEW old \in Orbits, NEW new \in Orbits, ~detectManeuver(old, new)
  PROVE  Apart(new.meanMotion, old.meanMotion) <= 10 /\ Apart(new.inclination, old.inclination) <= 1
BY DEF detectManeuver, Apart, Orbits

LEMMA FetchStoresStep ==
  ASSUME IInv, NEW official \in Official, NEW tles \in Seq(TLEs), FetchStores(official, tles)
  PROVE  IInv'
<1> DEFINE continues == {s \in Sats : /\ store[s] # NoEntry /\ store'[s] # NoEntry
                                      /\ propagationInterval(store[s].orbit)
                                           = propagationInterval(store'[s].orbit)}
<1>1. /\ pc \in {"initial", "fetching"} /\ pc' = "select" /\ elapsed' = 0
      /\ store' = NewStore(official, tles)
      /\ wait' = [s \in Sats |-> IF s \in continues THEN wait[s] ELSE 0]
      /\ stamped' = stamped \cap continues
      /\ shown' = [s \in Sats |-> IF store'[s] = NoEntry THEN NoEntry ELSE shown[s]]
      /\ UNCHANGED <<slot, tick, fetchDue>>
  BY DEF FetchStores
<1>2. /\ slot \in 0 .. FetchTicks - 1 /\ tick \in -1 .. slot /\ elapsed \in 0 .. SlowestFetch
      /\ wait \in [Sats -> Nat] /\ stamped \subseteq InStore
      /\ shown \in [Sats -> Orbits \cup {NoEntry}]
      /\ \A s \in Sats : shown[s] # NoEntry => s \in InStore
  BY DEF IInv, Typed
<1>3. slot \in 0 .. SlowestFetch /\ ~fetchDue /\ slot \in Nat
  BY <1>1, <1>2, TimesTyped DEF IInv, FetchFitsRound
<1>4. \A s \in continues : /\ s \in InStore /\ Slots(s)' = Slots(s) /\ Bucket(s)' = Bucket(s)
                           /\ wait'[s] = wait[s]
  BY <1>1 DEF InStore, Slots, Bucket
<1>5. \A s \in Sats \ continues : wait'[s] = 0
  BY <1>1
<1>6. \A t : Resolved(t)' <=> Resolved(t)
  BY <1>1 DEF Resolved
<1>7. InStore' = {s \in Sats : store'[s] # NoEntry} /\ continues \subseteq InStore'
  BY DEF InStore
<1>8. \A s \in Sats : Slots(s)' \in Nat /\ Bucket(s)' \in 0 .. Slots(s)' - 1
  <2> SUFFICES ASSUME NEW s \in Sats PROVE Slots(s)' \in Nat /\ Bucket(s)' \in 0 .. Slots(s)' - 1
    OBVIOUS
  <2> DEFINE k == propagationInterval(store'[s].orbit)
  <2>1. k \in {LeoSlots, MeoSlots, GeoSlots}
    BY DEF propagationInterval
  <2>2. k \in Nat /\ k > 0 /\ Hash[s] \in Int
    <3>1. Hash[s] \in Int
      BY TleAssumption
    <3> HIDE DEF k
    <3>2. k \in Nat \ {0}
      BY <2>1, TleAssumption
    <3> QED BY <3>1, <3>2
  <2>3. Slots(s)' = k /\ Bucket(s)' = Hash[s] % k
    BY DEF Slots, Bucket
  <2> HIDE DEF k
  <2> QED BY <2>2, <2>3, DivMod
<1> HIDE DEF continues
<1>9. Typed'
  <2>1. store' \in [Sats -> [orbit : Orbits, status : {"", "maneuvering"}] \cup {NoEntry}]
    <3>1. \A s \in Sats : NewStore(official, tles)[s]
                            \in [orbit : Orbits, status : {"", "maneuvering"}] \cup {NoEntry}
      BY NewStoreTells
    <3>2. NewStore(official, tles) = [s \in Sats |-> NewStore(official, tles)[s]]
      BY DEF NewStore
    <3> QED BY <1>1, <3>1, <3>2
  <2>2. wait' \in [Sats -> Nat] /\ shown' \in [Sats -> Orbits \cup {NoEntry}]
    BY <1>1, <1>2
  <2>3. stamped' \subseteq InStore'
    BY <1>1, <1>7
  <2>4. \A s \in Sats : shown'[s] # NoEntry => s \in InStore'
    BY <1>1, <1>7
  <2>5. elapsed' \in 0 .. SlowestFetch /\ slot' \in 0 .. FetchTicks - 1 /\ tick' \in -1 .. slot'
    BY <1>1, <1>2, TimesTyped
  <2> QED BY <1>1, <2>1, <2>2, <2>3, <2>4, <2>5 DEF Typed
<1>10. FetchFitsRound'
  BY <1>1, <1>3 DEF IInv, FetchFitsRound
<1>11. SlowestFetch + 1 .. slot' = {}
  BY <1>1, <1>3, TimesTyped
<1>12. WaitSinceSlot'
  <2> SUFFICES ASSUME NEW s \in Sats
               PROVE  /\ wait'[s] <= slot + Slots(s)' - Bucket(s)'
                      /\ Bucket(s)' = 0 /\ Resolved(0) => wait'[s] <= slot
    BY <1>1, <1>6, <1>7, <1>11 DEF WaitSinceSlot
  <2>1. CASE s \in continues
    <3>1. wait'[s] = wait[s] /\ Slots(s)' = Slots(s) /\ Bucket(s)' = Bucket(s)
      BY <1>4, <2>1
    <3>2. /\ wait[s] <= slot + Slots(s) - Bucket(s)
          /\ Bucket(s) = 0 /\ Resolved(0) => wait[s] <= slot
      BY <1>4, <2>1 DEF IInv, WaitSinceSlot
    <3> QED BY <3>1, <3>2
  <2>2. CASE s \notin continues
    BY <1>3, <1>5, <1>8, <2>2
  <2> QED BY <2>1, <2>2
<1>13. StampedInSlot'
  <2> SUFFICES ASSUME NEW s \in stamped'
               PROVE  wait'[s] > tick /\ (slot - wait'[s]) % Slots(s)' = Bucket(s)'
    BY <1>1 DEF StampedInSlot, SlotOf
  <2>1. s \in stamped /\ s \in continues
    BY <1>1
  <2> QED BY <1>4, <2>1 DEF IInv, StampedInSlot, SlotOf
<1>14. ShownBySlot'
  BY <1>1, <1>3, <1>11 DEF ShownBySlot
<1>15. ManoeuvreIsTold'
  <2> SUFFICES ASSUME NEW s \in Sats, store'[s] # NoEntry, shown'[s] # NoEntry,
                      store'[s].status # "maneuvering"
               PROVE  /\ Apart(store'[s].orbit.meanMotion, shown'[s].meanMotion) <= 10
                      /\ Apart(store'[s].orbit.inclination, shown'[s].inclination) <= 1
    BY <1>7 DEF ManoeuvreIsTold
  <2>1. shown'[s] = shown[s] /\ s \in InStore /\ store[s] # NoEntry
    BY <1>1, <1>2 DEF InStore
  <2>2. pc = "fetching"
    BY <1>1, <2>1 DEF IInv, FetchFitsRound
  <2>3. shown[s] = store[s].orbit
    BY <1>1, <2>1, <2>2 DEF IInv, ShownBySlot
  <2>4. store'[s].orbit \in Orbits /\ ~detectManeuver(store[s].orbit, store'[s].orbit)
    <3>1. store'[s] = NewStore(official, tles)[s]
      BY <1>1
    <3>2. /\ store'[s] \in [orbit : Orbits, status : {"", "maneuvering"}]
          /\ store'[s].status = "maneuvering" \/ ~detectManeuver(store[s].orbit, store'[s].orbit)
      BY <2>1, <3>1, NewStoreTells
    <3> QED BY <3>2
  <2>5. shown[s] \in Orbits
    BY <1>2, <2>1
  <2> QED BY <2>1, <2>3, <2>4, <2>5, SmallChange
<1> QED BY <1>9, <1>10, <1>12, <1>13, <1>14, <1>15 DEF IInv

-----------------------------------------------------------------------------
(* The theorems                                                             *)

LEMMA InitEstablishes == Init => IInv
<1> SUFFICES ASSUME Init PROVE IInv
  OBVIOUS
<1> USE DEF Init
<1>1. InStore = {}
  BY DEF InStore
<1>2. Typed
  BY <1>1, TimesTyped DEF Typed, NoTick
<1>3. FetchFitsRound
  BY <1>1, TimesTyped DEF FetchFitsRound, NoTick
<1> QED BY <1>1, <1>2, <1>3
        DEF IInv, WaitSinceSlot, StampedInSlot, ShownBySlot, ManoeuvreIsTold

LEMMA StepPreserves == IInv /\ [Next]_vars => IInv'
<1> SUFFICES ASSUME IInv, [Next]_vars PROVE IInv'
  OBVIOUS
<1>1. CASE UNCHANGED vars
  BY <1>1 DEF vars, IInv, Typed, FetchFitsRound, WaitSinceSlot, StampedInSlot, ShownBySlot,
              ManoeuvreIsTold, InStore, Resolved, SlotOf, Slots, Bucket
<1>2. CASE Fetch
  <2>1. CASE FetchFails
    BY <2>1, ControlStep
  <2>2. CASE \E official \in Official, lines \in Classified \cup {<<>>} :
               FetchStores(official, parseTLEBatch(lines))
    <3>1. PICK official \in Official, lines \in Classified \cup {<<>>} :
            FetchStores(official, parseTLEBatch(lines))
      BY <2>2
    <3>2. lines \in Seq(TleLines)
      <4>1. <<>> \in Seq(TleLines)
        OBVIOUS
      <4> QED BY <4>1, TleDataAssumption
    <3>3. parseTLEBatch(lines) \in Seq(TLEs)
      BY <3>2, BatchTyped
    <3> QED BY <3>1, <3>3, FetchStoresStep
  <2> QED BY <1>2, <2>1, <2>2 DEF Fetch
<1>3. CASE RetryInitial \/ StartFetch \/ Cancel
  BY <1>3, ControlStep
<1>4. CASE \E skipped \in SUBSET Sats : Propagate(skipped)
  BY <1>4, PropagateStep
<1>5. CASE Clock
  <2>1. CASE slot + 1 = FetchTicks
    BY <1>5, <2>1, ClockWraps
  <2>2. CASE slot + 1 # FetchTicks
    BY <1>5, <2>2, ClockInRound
  <2> QED BY <2>1, <2>2
<1>6. CASE Ended
  BY <1>1, <1>6 DEF Ended
<1> QED BY <1>1, <1>2, <1>3, <1>4, <1>5, <1>6 DEF Next

\* The invariant of the schedule: no fetch is longer than the round it falls in, and
\* positions are as old as the last slot that cannot have been dropped.
THEOREM ScheduleHolds == Spec => []IInv
<1> QED BY InitEstablishes, StepPreserves, PTL DEF Spec

\* For any hashes, intervals and answers: a satellite in the store is never silent for
\* two of its intervals and the slowest fetch (worker.go:33).
THEOREM SilenceIsBounded == Spec => []SilenceBounded
<1>1. IInv => SilenceBounded
  <2> SUFFICES ASSUME IInv, NEW s \in InStore
               PROVE  wait[s] < 2 * Slots(s) + SlowestFetch
    BY DEF SilenceBounded, Slots
  <2> DEFINE k == Slots(s)
             h == Bucket(s)
  <2> SUFFICES wait[s] < 2 * k + SlowestFetch
    OBVIOUS
  <2>1. /\ s \in Sats /\ wait[s] \in Nat /\ slot \in Nat
        /\ tick \in Int /\ tick >= -1 /\ (tick > 0 => slot <= SlowestFetch)
    <3>1. s \in Sats /\ wait \in [Sats -> Nat]
      BY DEF IInv, Typed, InStore
    <3>2. slot \in 0 .. FetchTicks - 1 /\ tick \in -1 .. slot /\ (tick > 0 => slot <= SlowestFetch)
      BY DEF IInv, Typed, FetchFitsRound
    <3> QED BY <3>1, <3>2, TimesTyped
  <2>2. k \in Nat /\ k > 0 /\ h \in 0 .. k - 1 /\ SlowestFetch \in Nat
    BY <2>1, SlotsTyped
  <2>3. wait[s] <= slot + k - h /\ (h = 0 /\ Resolved(0) => wait[s] <= slot)
    BY DEF IInv, WaitSinceSlot
  <2>4. CASE slot <= SlowestFetch
    <3> HIDE DEF k, h
    <3> QED BY <2>1, <2>2, <2>3, <2>4
  <2>5. CASE slot > SlowestFetch
    <3>1. \A t \in Int : t < slot => Resolved(t)
      BY <2>1, <2>2, <2>5 DEF Resolved, NoTick
    <3>2. PICK t \in slot - k .. slot - 1 : t % k = h
      <4> HIDE DEF k, h
      <4>1. slot - 1 \in Int /\ (slot - 1) - k + 1 = slot - k
        BY <2>1, <2>2
      <4>2. \E t \in (slot - 1) - k + 1 .. slot - 1 : t % k = h
        BY <2>2, <4>1, OncePerInterval
      <4> QED BY <4>1, <4>2
    <3>3. t \in Int /\ slot - k <= t /\ t < slot
      BY <2>1, <2>2, <3>2
    <3>4. CASE t > SlowestFetch
      <4>1. SlotOf(s, t)
        BY <3>2 DEF SlotOf
      <4>2. t \in SlowestFetch + 1 .. slot /\ Resolved(t)
        <5>1. Resolved(t)
          BY <3>1, <3>3
        <5> HIDE DEF k, h
        <5>2. t \in SlowestFetch + 1 .. slot
          BY <2>1, <2>2, <3>3, <3>4
        <5> QED BY <5>1, <5>2
      <4>3. wait[s] <= slot - t
        BY <4>1, <4>2 DEF IInv, WaitSinceSlot
      <4> HIDE DEF k, h
      <4> QED BY <2>1, <2>2, <3>3, <4>3
    <3>5. CASE t <= SlowestFetch
      <4>1. Resolved(0)
        <5>1. 0 < slot
          <6> HIDE DEF k, h
          <6> QED BY <2>1, <2>2, <2>5
        <5> QED BY <3>1, <5>1
      <4>2. h = 0 => wait[s] <= slot
        BY <2>3, <4>1
      <4> HIDE DEF k, h
      <4>3. slot <= SlowestFetch + k
        BY <2>1, <2>2, <3>3, <3>5
      <4>4. wait[s] <= slot + k - h
        BY <2>3
      <4> QED BY <2>1, <2>2, <4>2, <4>3, <4>4
    <3> QED BY <2>2, <3>3, <3>4, <3>5
  <2> QED BY <2>1, <2>2, <2>4, <2>5
<1> QED BY <1>1, ScheduleHolds, PTL

\* For any hashes and intervals: the tick at which a satellite is due is later than its
\* last position, by a multiple of its interval.
THEOREM AtMostOncePerRound == Spec => []OncePerRound
<1>1. IInv => OncePerRound
  <2> SUFFICES ASSUME IInv, NEW s \in stamped, tick # NoTick, satelliteDue(s)
               PROVE  wait[s] > tick /\ (wait[s] - tick) % Slots(s) = 0
    BY DEF OncePerRound, Slots
  <2> DEFINE k == Slots(s)
  <2>1. s \in Sats /\ wait[s] \in Int /\ slot \in Int /\ tick \in Int
    <3>1. s \in Sats /\ wait \in [Sats -> Nat]
      BY DEF IInv, Typed, InStore
    <3>2. slot \in 0 .. FetchTicks - 1 /\ tick \in -1 .. slot
      BY DEF IInv, Typed
    <3> QED BY <3>1, <3>2, TimesTyped
  <2>2. wait[s] > tick /\ (slot - wait[s]) % k = Bucket(s)
    BY DEF IInv, StampedInSlot, SlotOf
  <2>3. (slot - tick) % k = Bucket(s)
    BY DEF satelliteDue, Slots, Bucket
  <2>4. k \in Nat /\ k > 0
    BY <2>1, SlotsTyped
  <2> SUFFICES wait[s] > tick /\ (wait[s] - tick) % k = 0
    OBVIOUS
  <2> HIDE DEF k
  <2>5. ((slot - tick) - (slot - wait[s])) % k = 0
    <3>1. slot - tick \in Int /\ slot - wait[s] \in Int
      BY <2>1
    <3> QED BY <2>2, <2>3, <2>4, <3>1, SameSlot
  <2>6. (slot - tick) - (slot - wait[s]) = wait[s] - tick
    BY <2>1
  <2>7. (wait[s] - tick) % k = 0
    BY <2>5, <2>6
  <2> QED BY <2>2, <2>7
<1> QED BY <1>1, ScheduleHolds, PTL

\* For any answers of both servers: a position whose orbit jumped since the last one
\* shown carries the status "maneuvering".
THEOREM ManoeuvreAlwaysTold == Spec => []ManoeuvreIsTold
<1>1. IInv => ManoeuvreIsTold
  BY DEF IInv
<1> QED BY <1>1, ScheduleHolds, PTL

-----------------------------------------------------------------------------
(* Files of records.  What the loop finds from the first line of a record    *)
(* on is told by that record and the ones after it: by induction from the    *)
(* end of the file.                                                          *)

LEMMA Passes ==
  ASSUME NEW n \in Nat, NEW P, 0 \in P, \A i \in 1 .. n : i - 1 \in P => i \in P
  PROVE  \A i \in 0 .. n : i \in P
<1> DEFINE Bad == {i \in 0 .. n : i \notin P}
<1> SUFFICES ASSUME Bad # {} PROVE FALSE
  OBVIOUS
<1>1. Bad \in SUBSET Nat
  OBVIOUS
<1>2. PICK i \in Bad : \A j \in Bad : i <= j
  <2> HIDE DEF Bad
  <2> QED BY <1>1, LeastNat
<1>3. i \in 1 .. n /\ i - 1 \in 0 .. n
  OBVIOUS
<1>4. i - 1 \in P
  BY <1>2, <1>3
<1> QED BY <1>2, <1>3, <1>4

\* u[i] is what the first i records are written as.
IsWriting(u, f) ==
  /\ u \in [0 .. Len(f) -> Seq(TleLines)]
  /\ u[0] = <<>>
  /\ \A i \in 1 .. Len(f) : u[i] = u[i - 1] \o RecordLines(f[i])

LEMMA LinesTyped ==
  ASSUME NEW r \in Records
  PROVE  RecordLines(r) \in Seq(TleLines)
<1> DEFINE l0 == Line("name", r)
           l1 == Line("L1", r)
           l2 == Line("L2", r)
<1>1. l0 \in TleLines /\ l1 \in TleLines /\ l2 \in TleLines
  BY DEF Line, TleLines, Records
<1>2. RecordLines(r) = IF r.named THEN <<l0, l1, l2>> ELSE <<l1, l2>>
  BY DEF RecordLines
<1> HIDE DEF l0, l1, l2
<1>3. <<l0, l1, l2>> \in Seq(TleLines) /\ <<l1, l2>> \in Seq(TleLines)
  BY <1>1
<1> QED BY <1>2, <1>3

\* The recursive function of FileOf exists: one record after the other.
LEMMA FileIsWritten ==
  ASSUME NEW f \in Seq(Records)
  PROVE  \E u : IsWriting(u, f) /\ FileOf(f) = u[Len(f)]
<1> DEFINE n == Len(f)
           S == Seq(TleLines)
           next(u, i) == IF i = 0 THEN <<>> ELSE u[i - 1] \o RecordLines(f[i])
           upTo == CHOOSE u : u = [i \in 0 .. n |-> next(u, i)]
           Upto(m) == \E u \in [0 .. n -> S] : \A i \in 0 .. m : u[i] = next(u, i)
           P == {m \in 0 .. n : Upto(m)}
<1>1. FileOf(f) = upTo[n]
  BY DEF FileOf
<1>2. n \in Nat /\ <<>> \in S /\ \A i \in 1 .. n : RecordLines(f[i]) \in S
  <2>1. \A i \in 1 .. n : f[i] \in Records
    OBVIOUS
  <2> QED BY <2>1, LinesTyped
<1>3. \A s \in S, i \in 1 .. n : s \o RecordLines(f[i]) \in S
  BY <1>2
<1> HIDE DEF n, S
<1>4. 0 \in P
  <2> DEFINE u == [i \in 0 .. n |-> <<>>]
  <2>1. u \in [0 .. n -> S] /\ \A i \in 0 .. 0 : u[i] = next(u, i)
    BY <1>2
  <2>2. 0 \in 0 .. n
    BY <1>2
  <2> QED BY <2>1, <2>2
<1>5. ASSUME NEW m \in 1 .. n, m - 1 \in P PROVE m \in P
  <2>1. PICK u \in [0 .. n -> S] : \A i \in 0 .. m - 1 : u[i] = next(u, i)
    BY <1>5
  <2>2. m - 1 \in 0 .. n /\ m \in 0 .. n /\ u[m - 1] \in S
    BY <1>2
  <2> DEFINE v == [u EXCEPT ![m] = next(u, m)]
  <2>3. v \in [0 .. n -> S]
    <3>1. next(u, m) \in S
      BY <1>2, <1>3, <2>2
    <3> QED BY <3>1
  <2>4. ASSUME NEW i \in 0 .. m PROVE v[i] = next(v, i)
    <3>1. i \in 0 .. n /\ (i # 0 => i - 1 \in 0 .. n /\ i - 1 # m)
      BY <1>2
    <3>2. next(v, i) = next(u, i)
      BY <3>1
    <3>3. CASE i = m
      BY <2>2, <3>2, <3>3
    <3>4. CASE i # m
      <4>1. i \in 0 .. m - 1
        BY <1>2, <3>4
      <4>2. v[i] = u[i]
        BY <3>1, <3>4
      <4> HIDE DEF v, next
      <4> QED BY <2>1, <3>2, <4>1, <4>2
    <3> QED BY <3>3, <3>4
  <2>5. Upto(m)
    <3> HIDE DEF v, next
    <3> QED BY <2>3, <2>4
  <2> QED BY <2>2, <2>5
<1>6. n \in P
  <2> HIDE DEF P
  <2>1. \A i \in 0 .. n : i \in P
    BY <1>2, <1>4, <1>5, Passes
  <2> QED BY <1>2, <2>1
<1>7. PICK u \in [0 .. n -> S] : \A i \in 0 .. n : u[i] = next(u, i)
  BY <1>6
<1> HIDE DEF next
<1>8. u = [i \in 0 .. n |-> next(u, i)]
  BY <1>7
<1>9. upTo = [i \in 0 .. n |-> next(upTo, i)]
  BY <1>8
<1>10. \A i \in 0 .. n : upTo[i] = next(upTo, i)
  <2> HIDE DEF upTo
  <2> QED BY <1>9
<1> HIDE DEF upTo
<1>11. upTo[0] = <<>> /\ \A i \in 1 .. n : upTo[i] = upTo[i - 1] \o RecordLines(f[i])
  <2>1. 0 \in 0 .. n /\ \A i \in 1 .. n : i \in 0 .. n /\ i # 0
    BY <1>2
  <2>2. upTo[0] = next(upTo, 0) /\ \A i \in 1 .. n : upTo[i] = next(upTo, i)
    BY <1>10, <2>1
  <2>3. next(upTo, 0) = <<>>
    BY DEF next
  <2>4. ASSUME NEW i \in 1 .. n PROVE next(upTo, i) = upTo[i - 1] \o RecordLines(f[i])
    BY <2>1 DEF next
  <2> QED BY <2>2, <2>3, <2>4
<1>12. \A i \in 0 .. n : i \in {j \in 0 .. n : upTo[j] \in S}
  <2> DEFINE Q == {j \in 0 .. n : upTo[j] \in S}
  <2>1. 0 \in Q
    BY <1>2, <1>11
  <2>2. ASSUME NEW i \in 1 .. n, i - 1 \in Q PROVE i \in Q
    <3>1. upTo[i - 1] \in S /\ i \in 0 .. n
      BY <1>2, <2>2
    <3>2. upTo[i - 1] \o RecordLines(f[i]) \in S
      BY <1>3, <3>1
    <3>3. upTo[i] = upTo[i - 1] \o RecordLines(f[i])
      BY <1>11
    <3> QED BY <3>1, <3>2, <3>3
  <2> HIDE DEF Q
  <2>3. \A i \in 0 .. n : i \in Q
    BY <1>2, <2>1, <2>2, Passes
  <2> QED BY <2>3 DEF Q
<1>13. upTo \in [0 .. n -> S]
  BY <1>9, <1>12
<1>14. IsWriting(upTo, f)
  BY <1>11, <1>13 DEF IsWriting, n, S
<1> QED BY <1>1, <1>14 DEF n

\* at[i] is the line at which record i of the file begins.
BeginsAt(at, lines, f) ==
  /\ at \in [1 .. Len(f) + 1 -> Nat \ {0}]
  /\ at[1] = 1 /\ at[Len(f) + 1] = Len(lines) + 1
  /\ \A i \in 1 .. Len(f) :
       /\ at[i + 1] <= Len(lines) + 1
       /\ f[i].named =>
            /\ at[i + 1] = at[i] + 3
            /\ lines[at[i]] = Line("name", f[i])
            /\ lines[at[i] + 1] = Line("L1", f[i]) /\ lines[at[i] + 2] = Line("L2", f[i])
       /\ ~f[i].named =>
            /\ at[i + 1] = at[i] + 2
            /\ lines[at[i]] = Line("L1", f[i]) /\ lines[at[i] + 1] = Line("L2", f[i])

LEMMA RecordsBegin ==
  ASSUME NEW f \in Seq(Records)
  PROVE  FileOf(f) \in Seq(TleLines) /\ \E at : BeginsAt(at, FileOf(f), f)
<1> DEFINE n == Len(f)
           lines == FileOf(f)
<1>1. PICK u : IsWriting(u, f) /\ lines = u[n]
  BY FileIsWritten
<1>2. /\ n \in Nat /\ u \in [0 .. n -> Seq(TleLines)] /\ u[0] = <<>>
      /\ \A i \in 1 .. n : u[i] = u[i - 1] \o RecordLines(f[i])
      /\ \A i \in 1 .. n : f[i] \in Records
  <2>1. \A i \in 1 .. n : f[i] \in Records
    OBVIOUS
  <2>2. n \in Nat
    OBVIOUS
  <2> QED BY <1>1, <2>1, <2>2 DEF IsWriting
<1>3. lines \in Seq(TleLines)
  BY <1>1, <1>2
<1> HIDE DEF n, lines
<1>4. ASSUME NEW i \in 1 .. n
      PROVE  /\ Len(u[i]) = Len(u[i - 1]) + (IF f[i].named THEN 3 ELSE 2)
             /\ f[i].named =>
                  /\ u[i][Len(u[i - 1]) + 1] = Line("name", f[i])
                  /\ u[i][Len(u[i - 1]) + 2] = Line("L1", f[i])
                  /\ u[i][Len(u[i - 1]) + 3] = Line("L2", f[i])
             /\ ~f[i].named =>
                  /\ u[i][Len(u[i - 1]) + 1] = Line("L1", f[i])
                  /\ u[i][Len(u[i - 1]) + 2] = Line("L2", f[i])
  <2> DEFINE r == RecordLines(f[i])
             w == u[i - 1]
  <2>1. w \in Seq(TleLines) /\ u[i] = w \o r /\ r \in Seq(TleLines)
    <3>1. i - 1 \in 0 .. n
      BY <1>2
    <3>2. f[i] \in Records
      BY <1>2
    <3>3. r \in Seq(TleLines)
      BY <3>2, LinesTyped
    <3> HIDE DEF r
    <3>4. w \in Seq(TleLines)
      BY <1>2, <3>1
    <3> QED BY <1>2, <3>3, <3>4 DEF r
  <2>2. /\ f[i].named => /\ Len(r) = 3 /\ r[1] = Line("name", f[i])
                         /\ r[2] = Line("L1", f[i]) /\ r[3] = Line("L2", f[i])
        /\ ~f[i].named => Len(r) = 2 /\ r[1] = Line("L1", f[i]) /\ r[2] = Line("L2", f[i])
    BY DEF RecordLines
  <2> HIDE DEF r, w
  <2>3. Len(w \o r) = Len(w) + Len(r) /\ \A k \in 1 .. Len(r) : (w \o r)[Len(w) + k] = r[k]
    BY <2>1
  <2>4. Len(u[i]) = Len(w) + Len(r) /\ \A k \in 1 .. Len(r) : u[i][Len(w) + k] = r[k]
    BY <2>1, <2>3
  <2>5. CASE f[i].named
    <3>1. 1 \in 1 .. 3 /\ 2 \in 1 .. 3 /\ 3 \in 1 .. 3
      OBVIOUS
    <3> QED BY <2>2, <2>4, <2>5, <3>1 DEF w
  <2>6. CASE ~f[i].named
    <3>1. 1 \in 1 .. 2 /\ 2 \in 1 .. 2
      OBVIOUS
    <3> QED BY <2>2, <2>4, <2>6, <3>1 DEF w
  <2> QED BY <2>5, <2>6
<1>5. ASSUME NEW i \in 0 .. n
      PROVE  Len(u[i]) <= Len(lines) /\ \A k \in 1 .. Len(u[i]) : lines[k] = u[i][k]
  <2> DEFINE Keeps(m) == Len(u[i]) <= Len(u[m]) /\ \A k \in 1 .. Len(u[i]) : u[m][k] = u[i][k]
             P == {m \in 0 .. n - i : Keeps(i + m)}
  <2>1. 0 \in P
    BY <1>2
  <2>2. ASSUME NEW m \in 1 .. n - i, m - 1 \in P PROVE m \in P
    <3>1. Keeps(i + (m - 1)) /\ i + m \in 1 .. n /\ i + (m - 1) = i + m - 1
      BY <1>2, <2>2
    <3> DEFINE j == i + m
               r == RecordLines(f[j])
    <3>2. u[j] = u[j - 1] \o r /\ u[j - 1] \in Seq(TleLines) /\ r \in Seq(TleLines)
          /\ u[i] \in Seq(TleLines)
      <4>1. j - 1 \in 0 .. n /\ j \in 1 .. n /\ i \in 0 .. n
        BY <1>2, <3>1
      <4> HIDE DEF j
      <4>2. f[j] \in Records
        BY <1>2, <4>1
      <4>3. r \in Seq(TleLines)
        BY <4>2, LinesTyped
      <4>4. u[j - 1] \in Seq(TleLines) /\ u[i] \in Seq(TleLines)
        BY <1>2, <4>1
      <4> QED BY <1>2, <4>1, <4>3, <4>4
    <3>3. Keeps(j)
      <4>1. Keeps(j - 1)
        BY <3>1
      <4> HIDE DEF j, r
      <4> QED BY <3>2, <4>1
    <3> QED BY <1>2, <3>3
  <2>3. n - i \in P
    <3>1. n - i \in Nat
      BY <1>2
    <3> HIDE DEF P
    <3> DEFINE h == n - i
    <3>2. h \in Nat /\ \A m \in 1 .. h : m - 1 \in P => m \in P
      BY <2>2, <3>1
    <3> HIDE DEF h
    <3>3. \A m \in 0 .. h : m \in P
      BY <2>1, <3>2, Passes
    <3>4. h \in P
      BY <3>2, <3>3
    <3> QED BY <3>4 DEF h
  <2>4. i + (n - i) = n
    BY <1>2
  <2> QED BY <1>1, <2>3, <2>4
<1> DEFINE at == [i \in 1 .. n + 1 |-> Len(u[i - 1]) + 1]
<1>6. at \in [1 .. n + 1 -> Nat \ {0}]
  <2>1. ASSUME NEW i \in 1 .. n + 1 PROVE Len(u[i - 1]) + 1 \in Nat \ {0}
    <3>1. u[i - 1] \in Seq(TleLines)
      BY <1>2
    <3> QED BY <3>1
  <2> QED BY <2>1
<1>7. at[1] = 1 /\ at[n + 1] = Len(lines) + 1
  BY <1>1, <1>2
<1>8. ASSUME NEW i \in 1 .. n
      PROVE  /\ at[i + 1] <= Len(lines) + 1
             /\ f[i].named =>
                  /\ at[i + 1] = at[i] + 3
                  /\ lines[at[i]] = Line("name", f[i])
                  /\ lines[at[i] + 1] = Line("L1", f[i]) /\ lines[at[i] + 2] = Line("L2", f[i])
             /\ ~f[i].named =>
                  /\ at[i + 1] = at[i] + 2
                  /\ lines[at[i]] = Line("L1", f[i]) /\ lines[at[i] + 1] = Line("L2", f[i])
  <2> DEFINE l == Len(u[i - 1])
  <2>1. at[i] = l + 1 /\ at[i + 1] = Len(u[i]) + 1 /\ l \in Nat /\ i \in 0 .. n /\ Len(u[i]) \in Nat
    <3>1. i \in 1 .. n + 1 /\ i + 1 \in 1 .. n + 1 /\ (i + 1) - 1 = i /\ i \in 0 .. n /\ i - 1 \in 0 .. n
      BY <1>2
    <3>2. at[i] = l + 1 /\ at[i + 1] = Len(u[(i + 1) - 1]) + 1
      BY <3>1
    <3>3. u[i] \in Seq(TleLines) /\ u[i - 1] \in Seq(TleLines)
      BY <1>2, <3>1
    <3> HIDE DEF at
    <3> QED BY <3>1, <3>2, <3>3
  <2>2. Len(u[i]) <= Len(lines) /\ \A k \in 1 .. Len(u[i]) : lines[k] = u[i][k]
    BY <1>5, <2>1
  <2>3. Len(lines) \in Nat
    BY <1>3
  <2> HIDE DEF at
  <2>4. CASE f[i].named
    <3>1. /\ Len(u[i]) = l + 3 /\ u[i][l + 1] = Line("name", f[i])
          /\ u[i][l + 2] = Line("L1", f[i]) /\ u[i][l + 3] = Line("L2", f[i])
      BY <1>4, <2>4
    <3> HIDE DEF l
    <3>2. l + 1 \in 1 .. l + 3 /\ l + 2 \in 1 .. l + 3 /\ l + 3 \in 1 .. l + 3
          /\ l + 1 + 1 = l + 2 /\ l + 1 + 2 = l + 3
      BY <2>1
    <3> QED BY <2>1, <2>2, <2>3, <2>4, <3>1, <3>2
  <2>5. CASE ~f[i].named
    <3>1. Len(u[i]) = l + 2 /\ u[i][l + 1] = Line("L1", f[i]) /\ u[i][l + 2] = Line("L2", f[i])
      BY <1>4, <2>5
    <3> HIDE DEF l
    <3>2. l + 1 \in 1 .. l + 2 /\ l + 2 \in 1 .. l + 2 /\ l + 1 + 1 = l + 2
      BY <2>1
    <3> QED BY <2>1, <2>2, <2>3, <2>5, <3>1, <3>2
  <2> QED BY <2>4, <2>5
<1> HIDE DEF at
<1>9. BeginsAt(at, lines, f)
  BY <1>6, <1>7, <1>8 DEF BeginsAt, n
<1> QED BY <1>3, <1>9 DEF lines

\* An element set before others gives its satellite an orbit unless one of them does.
LEMMA LastOrbitPrepend ==
  ASSUME NEW t \in TLEs, NEW rest \in Seq(TLEs), NEW s \in Sats
  PROVE  LastOrbit(<<t>> \o rest, s) = IF LastOrbit(rest, s) # NoEntry THEN LastOrbit(rest, s)
                                       ELSE IF t.sat = s THEN t.orbit ELSE NoEntry
<1> DEFINE all == <<t>> \o rest
           n == Len(rest)
<1>1. /\ all \in Seq(TLEs) /\ Len(all) = n + 1 /\ n \in Nat /\ all[1] = t
      /\ \A i \in 1 .. n : all[i + 1] = rest[i]
      /\ \A i \in 1 .. n + 1 : i # 1 => i - 1 \in 1 .. n /\ all[i] = rest[i - 1]
  OBVIOUS
<1>2. \A i \in 1 .. n + 1 : all[i].orbit # NoEntry
  <2> HIDE DEF all
  <2> SUFFICES ASSUME NEW i \in 1 .. n + 1 PROVE all[i].orbit \in Orbits
    BY TleDataAssumption
  <2>1. all[i] \in TLEs
    BY <1>1
  <2> QED BY <2>1 DEF TLEs
<1>3. \/ LastOrbit(all, s) = NoEntry /\ \A i \in 1 .. n + 1 : all[i].sat # s
      \/ \E i \in 1 .. n + 1 : /\ all[i].sat = s /\ LastOrbit(all, s) = all[i].orbit
                               /\ \A j \in 1 .. n + 1 : all[j].sat = s => j <= i
  <2> HIDE DEF all, n
  <2> QED BY <1>1, LastOrbitIs
<1>4. \/ LastOrbit(rest, s) = NoEntry /\ \A i \in 1 .. n : rest[i].sat # s
      \/ \E i \in 1 .. n : /\ rest[i].sat = s /\ LastOrbit(rest, s) = rest[i].orbit
                           /\ \A j \in 1 .. n : rest[j].sat = s => j <= i
  BY LastOrbitIs
<1> HIDE DEF all, n
<1> SUFFICES LastOrbit(all, s) = IF LastOrbit(rest, s) # NoEntry THEN LastOrbit(rest, s)
                                 ELSE IF t.sat = s THEN t.orbit ELSE NoEntry
  BY DEF all
<1>5. CASE LastOrbit(rest, s) = NoEntry /\ \A i \in 1 .. n : rest[i].sat # s
  <2>1. \A i \in 1 .. n + 1 : all[i].sat = s => i = 1
    BY <1>1, <1>5
  <2>2. 1 \in 1 .. n + 1
    BY <1>1
  <2> QED BY <1>1, <1>3, <1>5, <2>1, <2>2
<1>6. ASSUME NEW i \in 1 .. n, rest[i].sat = s, LastOrbit(rest, s) = rest[i].orbit,
             \A j \in 1 .. n : rest[j].sat = s => j <= i
      PROVE  LastOrbit(all, s) = rest[i].orbit /\ rest[i].orbit # NoEntry
  <2>1. i + 1 \in 1 .. n + 1 /\ all[i + 1] = rest[i]
    BY <1>1
  <2>2. \A j \in 1 .. n + 1 : all[j].sat = s => j <= i + 1
    BY <1>1, <1>6
  <2>3. PICK k \in 1 .. n + 1 : /\ all[k].sat = s /\ LastOrbit(all, s) = all[k].orbit
                                /\ \A j \in 1 .. n + 1 : all[j].sat = s => j <= k
    BY <1>3, <1>6, <2>1
  <2>4. k <= i + 1 /\ i + 1 <= k
    BY <1>6, <2>1, <2>2, <2>3
  <2>5. k = i + 1
    BY <1>1, <2>4
  <2> QED BY <1>2, <2>1, <2>3, <2>5
<1> QED BY <1>4, <1>5, <1>6

\* The records that give satellite s its orbit, from record i on.
TellFrom(f, i, s) == {j \in Seen(f) : j >= i /\ f[j].sat = s}

\* What was found is told by the last of these records.
Tells(tles, f, i) ==
  \A s \in Sats :
    /\ TellFrom(f, i, s) = {} => LastOrbit(tles, s) = NoEntry
    /\ \A k \in TellFrom(f, i, s) :
         (\A j \in TellFrom(f, i, s) : j <= k) => LastOrbit(tles, s) = f[k].orbit

LEMMA NothingTells ==
  ASSUME NEW f, NEW i, \A s \in Sats : TellFrom(f, i, s) = {}
  PROVE  Tells(<<>>, f, i)
<1>1. ASSUME NEW s \in Sats PROVE LastOrbit(<<>>, s) = NoEntry
  <2>1. <<>> \in Seq(TLEs) /\ 1 .. Len(<<>>) = {}
    OBVIOUS
  <2> QED BY <2>1, LastOrbitIs
<1> QED BY <1>1 DEF Tells

LEMMA OneMoreTells ==
  ASSUME NEW f \in Seq(Records), NEW i \in Seen(f), NEW rest \in Seq(TLEs), Tells(rest, f, i + 1),
         NEW t \in TLEs, t.sat = f[i].sat, t.orbit = f[i].orbit
  PROVE  Tells(<<t>> \o rest, f, i)
<1> SUFFICES ASSUME NEW s \in Sats
             PROVE  /\ TellFrom(f, i, s) = {} => LastOrbit(<<t>> \o rest, s) = NoEntry
                    /\ \A k \in TellFrom(f, i, s) :
                         (\A j \in TellFrom(f, i, s) : j <= k) => LastOrbit(<<t>> \o rest, s) = f[k].orbit
  BY DEF Tells
<1> DEFINE T == TellFrom(f, i + 1, s)
           U == TellFrom(f, i, s)
<1>1. LastOrbit(<<t>> \o rest, s) = IF LastOrbit(rest, s) # NoEntry THEN LastOrbit(rest, s)
                                    ELSE IF t.sat = s THEN t.orbit ELSE NoEntry
  BY LastOrbitPrepend
<1>2. /\ T = {} => LastOrbit(rest, s) = NoEntry
      /\ \A k \in T : (\A j \in T : j <= k) => LastOrbit(rest, s) = f[k].orbit
  BY DEF Tells
<1>3. /\ i \in 1 .. Len(f) /\ Seen(f) \subseteq 1 .. Len(f)
      /\ U = T \cup (IF f[i].sat = s THEN {i} ELSE {})
      /\ \A j \in T : j > i /\ j \in 1 .. Len(f)
  BY DEF Seen, TellFrom
<1>4. \A k \in 1 .. Len(f) : f[k].orbit # NoEntry
  <2> SUFFICES ASSUME NEW k \in 1 .. Len(f) PROVE f[k].orbit \in Orbits
    BY TleDataAssumption
  <2>1. f[k] \in Records
    OBVIOUS
  <2> QED BY <2>1 DEF Records
<1> HIDE DEF T, U
<1>5. CASE T = {}
  <2>1. LastOrbit(<<t>> \o rest, s) = IF f[i].sat = s THEN f[i].orbit ELSE NoEntry
    BY <1>1, <1>2, <1>5
  <2>2. U = {} => f[i].sat # s
    BY <1>3
  <2>3. \A k \in U : k = i /\ f[i].sat = s
    BY <1>3, <1>5
  <2> QED BY <2>1, <2>2, <2>3 DEF U
<1>6. CASE T # {}
  <2>1. U # {}
    BY <1>3, <1>6
  <2>2. ASSUME NEW k \in U, \A j \in U : j <= k PROVE LastOrbit(<<t>> \o rest, s) = f[k].orbit
    <3>1. PICK j \in T : j > i /\ j <= k
      BY <1>3, <1>6, <2>2
    <3>2. k \in T /\ k \in 1 .. Len(f) /\ \A l \in T : l <= k
      BY <1>3, <2>2, <3>1
    <3> QED BY <1>1, <1>2, <1>4, <3>2
  <2> QED BY <2>1, <2>2 DEF U
<1> QED BY <1>5, <1>6

LEMMA BatchTells ==
  ASSUME NEW f \in Seq(Records)
  PROVE  parseTLEBatch(FileOf(f)) \in Seq(TLEs) /\ Tells(parseTLEBatch(FileOf(f)), f, 1)
<1> DEFINE n == Len(f)
           lines == FileOf(f)
<1>1. lines \in Seq(TleLines) /\ n \in Nat
  BY RecordsBegin
<1>2. PICK at : BeginsAt(at, lines, f)
  BY RecordsBegin
<1>3. PICK from : IsLoop(from, lines) /\ parseTLEBatch(lines) = from[1]
  BY <1>1, BatchLoop
<1> HIDE DEF lines
<1>4. /\ at \in [1 .. n + 1 -> Nat \ {0}] /\ at[1] = 1 /\ at[n + 1] = Len(lines) + 1
      /\ \A i \in 1 .. n : at[i + 1] <= Len(lines) + 1
      /\ Len(lines) \in Nat
  BY <1>1, <1>2 DEF BeginsAt
<1> DEFINE P == {m \in 0 .. n : Tells(from[at[n + 1 - m]], f, n + 1 - m)}
<1>5. 0 \in P
  <2>1. at[n + 1] \in 1 .. Len(lines) + 1 /\ at[n + 1] + 2 > Len(lines)
    BY <1>4
  <2>2. from[at[n + 1]] = <<>>
    BY <1>3, <2>1 DEF IsLoop
  <2>3. \A s \in Sats : TellFrom(f, n + 1, s) = {}
    BY <1>1 DEF TellFrom, Seen
  <2>4. n + 1 - 0 = n + 1 /\ 0 \in 0 .. n
    BY <1>1
  <2> QED BY <2>2, <2>3, <2>4, NothingTells
<1>6. ASSUME NEW m \in 1 .. n, m - 1 \in P PROVE m \in P
  <2> DEFINE i == n + 1 - m
  <2>1. i \in 1 .. n /\ n + 1 - (m - 1) = i + 1 /\ m \in 0 .. n /\ i + 1 \in 1 .. n + 1 /\ i \in 1 .. n + 1
    BY <1>1
  <2>2. Tells(from[at[i + 1]], f, i + 1)
    BY <1>6, <2>1
  <2> HIDE DEF i, P
  <2>3. f[i] \in Records
    BY <2>1
  <2> DEFINE t == [sat |-> f[i].sat, orbit |-> f[i].orbit]
  <2>4. t \in TLEs /\ t.sat = f[i].sat /\ t.orbit = f[i].orbit
    BY <2>3 DEF Records, TLEs
  <2>5. at[i] \in Nat \ {0} /\ at[i + 1] \in Nat \ {0} /\ at[i + 1] <= Len(lines) + 1
    BY <1>4, <2>1
  <2>6. CASE f[i].named
    <3>1. /\ at[i + 1] = at[i] + 3 /\ lines[at[i]] = Line("name", f[i])
          /\ lines[at[i] + 1] = Line("L1", f[i]) /\ lines[at[i] + 2] = Line("L2", f[i])
      BY <1>2, <2>1, <2>6 DEF BeginsAt
    <3>2. ~(at[i] + 2 > Len(lines)) /\ at[i] \in 1 .. Len(lines) + 1 /\ at[i + 1] \in 1 .. Len(lines) + 1
      <4>1. at[i] + 2 <= Len(lines)
        BY <1>4, <2>5, <3>1
      <4> QED BY <1>4, <2>5, <4>1
    <3>3. ~StartsWith1(lines[at[i]])
      BY <3>1 DEF StartsWith1, Line
    <3>4. ParseTLE(lines[at[i] + 1], lines[at[i] + 2]) = <<t>>
      BY <3>1 DEF ParseTLE, Line
    <3>5. from[at[i]] = <<t>> \o from[at[i + 1]] /\ from[at[i + 1]] \in Seq(TLEs)
      <4> HIDE DEF t
      <4> QED BY <1>3, <3>1, <3>2, <3>3, <3>4 DEF IsLoop
    <3>6. i \in Seen(f)
      BY <2>1, <2>6 DEF Seen
    <3>7. Tells(from[at[i]], f, i)
      <4> HIDE DEF t
      <4> QED BY <2>2, <2>4, <3>5, <3>6, OneMoreTells
    <3> QED BY <2>1, <3>7 DEF P, i
  <2>7. CASE ~f[i].named /\ i < n
    <3>1. /\ at[i + 1] = at[i] + 2
          /\ lines[at[i]] = Line("L1", f[i]) /\ lines[at[i] + 1] = Line("L2", f[i])
      BY <1>2, <2>1, <2>7 DEF BeginsAt
    <3>2. at[i + 1] + 2 <= Len(lines) + 1
      <4>1. i + 1 \in 1 .. n /\ i + 2 \in 1 .. n + 1 /\ (i + 1) + 1 = i + 2
        BY <1>1, <2>1, <2>7
      <4>2. at[i + 2] <= Len(lines) + 1 /\ at[i + 2] \in Nat
        BY <1>4, <4>1
      <4>3. at[i + 2] = at[i + 1] + 2 \/ at[i + 2] = at[i + 1] + 3
        BY <1>2, <4>1 DEF BeginsAt
      <4> QED BY <1>4, <2>5, <4>2, <4>3
    <3>3. ~(at[i] + 2 > Len(lines)) /\ at[i] \in 1 .. Len(lines) + 1 /\ at[i + 1] \in 1 .. Len(lines) + 1
      <4>1. at[i] + 2 <= Len(lines)
        BY <1>4, <2>5, <3>1, <3>2
      <4> QED BY <1>4, <2>5, <4>1
    <3>4. StartsWith1(lines[at[i]])
      BY <3>1 DEF StartsWith1, Line
    <3>5. ParseTLE(lines[at[i]], lines[at[i] + 1]) = <<t>>
      BY <3>1 DEF ParseTLE, Line
    <3>6. from[at[i]] = <<t>> \o from[at[i + 1]] /\ from[at[i + 1]] \in Seq(TLEs)
      <4> HIDE DEF t
      <4> QED BY <1>3, <3>1, <3>3, <3>4, <3>5 DEF IsLoop
    <3>7. i \in Seen(f)
      BY <2>1, <2>7 DEF Seen
    <3>8. Tells(from[at[i]], f, i)
      <4> HIDE DEF t
      <4> QED BY <2>2, <2>4, <3>6, <3>7, OneMoreTells
    <3> QED BY <2>1, <3>8 DEF P, i
  <2>8. CASE ~f[i].named /\ i = n
    <3>1. at[i + 1] = at[i] + 2
      BY <1>2, <2>1, <2>8 DEF BeginsAt
    <3>2. at[i] + 2 > Len(lines) /\ at[i] \in 1 .. Len(lines) + 1
      BY <1>4, <2>5, <2>8, <3>1
    <3>3. from[at[i]] = <<>>
      BY <1>3, <3>2 DEF IsLoop
    <3>4. \A s \in Sats : TellFrom(f, i, s) = {}
      BY <1>1, <2>1, <2>8 DEF TellFrom, Seen
    <3>5. Tells(from[at[i]], f, i)
      BY <3>3, <3>4, NothingTells
    <3> QED BY <2>1, <3>5 DEF P, i
  <2> QED BY <1>1, <2>1, <2>6, <2>7, <2>8
<1>7. n \in P
  <2> HIDE DEF P
  <2>1. \A m \in 0 .. n : m \in P
    BY <1>1, <1>5, <1>6, Passes
  <2> QED BY <1>1, <2>1
<1>8. n + 1 - n = 1 /\ 1 \in 1 .. Len(lines) + 1
  BY <1>1
<1>9. Tells(from[1], f, 1) /\ from[1] \in Seq(TLEs)
  BY <1>3, <1>4, <1>7, <1>8 DEF IsLoop
<1> QED BY <1>3, <1>9 DEF lines

\* A fetch puts the last entry of every satellite that a classified file of records
\* names over CelesTrak's, whatever formats the file mixes, and adds no other.
THEOREM EveryRecordStored == Spec => []BatchComplete
<1>1. BatchComplete
  <2> SUFFICES ASSUME NEW f \in RecordFiles, NEW official \in Official, NEW s \in Sats
               PROVE  LET next == NewStore(official, Parsed[f])
                          of == {i \in Seen(f) : f[i].sat = s}
                      IN  IF of # {}
                          THEN \E i \in of : /\ \A j \in of : j <= i
                                             /\ next[s] # NoEntry /\ next[s].orbit = f[i].orbit
                          ELSE IF s \in DOMAIN official
                          THEN next[s] # NoEntry /\ next[s].orbit = official[s]
                          ELSE next[s] = NoEntry
    BY DEF BatchComplete
  <2> DEFINE tles == Parsed[f]
             of == {i \in Seen(f) : f[i].sat = s}
             orbit == IF LastOrbit(tles, s) # NoEntry THEN LastOrbit(tles, s)
                      ELSE IF s \in DOMAIN official THEN official[s] ELSE NoEntry
             status == IF store[s] # NoEntry /\ detectManeuver(store[s].orbit, orbit)
                       THEN "maneuvering" ELSE ""
             entry == NewStore(official, tles)[s]
  <2>1. f \in Seq(Records)
    BY TleDataAssumption
  <2>2. tles \in Seq(TLEs) /\ Tells(tles, f, 1)
    BY <2>1, BatchTells DEF Parsed
  <2>3. of = TellFrom(f, 1, s)
    BY <2>1 DEF TellFrom, Seen
  <2>4. /\ of = {} => LastOrbit(tles, s) = NoEntry
        /\ \A k \in of : (\A j \in of : j <= k) => LastOrbit(tles, s) = f[k].orbit
    BY <2>2, <2>3 DEF Tells
  <2>5. entry = IF orbit = NoEntry THEN NoEntry ELSE [orbit |-> orbit, status |-> status]
    BY DEF NewStore
  <2>6. orbit \in Orbits \cup {NoEntry} /\ status \in {"", "maneuvering"}
    <3>1. s \in DOMAIN official => official[s] \in Orbits
      BY TleDataAssumption
    <3>2. LastOrbit(tles, s) \in Orbits \cup {NoEntry}
      BY <2>2, LastOrbitTyped
    <3> HIDE DEF tles
    <3> QED BY <3>1, <3>2
  <2> HIDE DEF orbit, status
  <2>7. orbit # NoEntry => entry # NoEntry /\ entry.orbit = orbit
    <3> SUFFICES ASSUME orbit # NoEntry PROVE entry # NoEntry /\ entry.orbit = orbit
      OBVIOUS
    <3>1. entry = [orbit |-> orbit, status |-> status]
      BY <2>5
    <3> HIDE DEF entry
    <3>2. entry \in Entries
      BY <2>6, <3>1 DEF Entries
    <3> QED BY <3>1, <3>2, TleDataAssumption
  <2> HIDE DEF tles, entry
  <2>8. CASE of # {}
    <3>1. Len(f) \in Nat /\ of \in SUBSET (1 .. Len(f))
      BY <2>1 DEF Seen
    <3> HIDE DEF of
    <3>2. PICK i \in of : \A j \in of : j <= i
      BY <2>8, <3>1, LastIndex
    <3>3. f[i].orbit # NoEntry
      <4>1. f[i] \in Records
        BY <2>1, <3>1
      <4>2. f[i].orbit \in Orbits
        BY <4>1 DEF Records
      <4> QED BY <4>2, TleDataAssumption
    <3>4. LastOrbit(tles, s) = f[i].orbit /\ orbit = f[i].orbit
      BY <2>4, <3>2, <3>3 DEF orbit
    <3>5. entry # NoEntry /\ entry.orbit = f[i].orbit
      BY <2>7, <3>3, <3>4
    <3> QED BY <2>8, <3>2, <3>5 DEF entry, tles, of
  <2>9. CASE of = {} /\ s \in DOMAIN official
    <3>1. official[s] # NoEntry
      BY <2>9, TleDataAssumption
    <3>2. orbit = official[s]
      BY <2>4, <2>9 DEF orbit
    <3>3. entry # NoEntry /\ entry.orbit = official[s]
      BY <2>7, <3>1, <3>2
    <3> QED BY <2>9, <3>3 DEF entry, tles
  <2>10. CASE of = {} /\ s \notin DOMAIN official
    <3>1. orbit = NoEntry
      BY <2>4, <2>10 DEF orbit
    <3>2. entry = NoEntry
      BY <2>5, <3>1
    <3> QED BY <2>10, <3>2 DEF entry, tles
  <2> QED BY <2>8, <2>9, <2>10
<1> QED BY <1>1, PTL
=============================================================================
