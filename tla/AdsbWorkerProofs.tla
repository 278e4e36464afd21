--------------------------- MODULE AdsbWorkerProofs ---------------------------
(***************************************************************************)
(* The ADS-B worker's two safety properties, for every choice of margin,   *)
(* timeouts, interval and lifetimes that keeps AdsbAssumption.             *)
(*                                                                         *)
(* A token's real age is never more than TokenTimeout ahead of the one the *)
(* client reckons with (TokenAge); what a request that carries it has used *)
(* up of its time and what is left of the token are together more than the *)
(* request may take (InFlight).  The cancel is traced through the states   *)
(* of poll (CancelAge): only the token endpoint makes it grow.             *)
(***************************************************************************)
EXTENDS AdsbWorker, TLAPS

Tokens == [left : Nat, good : Nat, life : Nat]

TypeOK ==
  /\ pc \in {"select", "token", "get", "backoff", "ended"}
  /\ spent \in Nat
  /\ token \in Tokens \cup {NoToken}
  /\ issued \in Tokens \cup {NoToken}
  /\ cancelled \in Nat \cup {NotCancelled}

SpentBounded ==
  /\ pc = "token" => spent <= TokenTimeout
  /\ pc = "get" => spent <= RequestTimeout

TokenAge == token # NoToken => token.left <= token.good + TokenTimeout

IssuedAge == issued # NoToken => pc = "token" /\ issued.life <= issued.good + spent

InFlight ==
  pc = "get" =>
    /\ token # NoToken
    /\ token.good + spent > RequestTimeout \/ token.life <= TokenTimeout + RequestTimeout

CancelAge ==
  /\ pc \in {"select", "backoff"} => cancelled <= 0
  /\ pc = "token" => cancelled <= spent
  /\ pc = "get" => cancelled <= TokenTimeout

IInv == TypeOK /\ SpentBounded /\ TokenAge /\ IssuedAge /\ InFlight /\ CancelAge

-----------------------------------------------------------------------------
\* A tick takes at most one unit from each clock of a token, and never makes them
\* negative.
LEMMA OlderToken ==
  ASSUME NEW t \in Tokens
  PROVE  /\ Older(t) \in Tokens
         /\ Older(t) # NoToken
         /\ Older(t).left = Less(t.left)
         /\ Older(t).good = Less(t.good)
         /\ Older(t).life = t.life
<1>1. t # NoToken
  BY AdsbAssumption DEF Tokens
<1>2. Less(t.left) \in Nat /\ Less(t.good) \in Nat
  BY DEF Less, Tokens
<1>3. Older(t) = [t EXCEPT !.left = Less(t.left), !.good = Less(t.good)]
  BY <1>1 DEF Older
<1>4. Older(t) = [left |-> Less(t.left), good |-> Less(t.good), life |-> t.life]
  BY <1>3 DEF Tokens
<1>5. Older(t) \in Tokens
  BY <1>2, <1>4 DEF Tokens
<1> QED
  BY <1>4, <1>5, AdsbAssumption DEF Tokens

LEMMA OlderNoToken == Older(NoToken) = NoToken
  BY DEF Older

LEMMA NewTokenIsToken ==
  ASSUME NEW good \in Nat, NEW life \in Nat
  PROVE  /\ NewToken(good, life) \in Tokens
         /\ NewToken(good, life) # NoToken
         /\ NewToken(good, life).left = life
         /\ NewToken(good, life).good = good
         /\ NewToken(good, life).life = life
  BY AdsbAssumption DEF NewToken, Tokens

LEMMA InitIInv == Init => IInv
  BY AdsbAssumption DEF Init, IInv, TypeOK, SpentBounded, TokenAge, IssuedAge, InFlight,
    CancelAge, NotCancelled

-----------------------------------------------------------------------------
(* One lemma per action that disturbs the invariant.                        *)

LEMMA StartPollKeeps == IInv /\ StartPoll => IInv'
<1> SUFFICES ASSUME IInv, StartPoll PROVE IInv'
  OBVIOUS
<1> USE AdsbAssumption DEF IInv, StartPoll
<1>1. TypeOK' /\ SpentBounded'
  BY DEF TypeOK, SpentBounded
<1>2. TokenAge' /\ IssuedAge'
  BY DEF TokenAge, IssuedAge
<1>3. InFlight'
  <2>1. CASE Cached
    <3>1. token # NoToken /\ token.left > Margin
      BY <2>1 DEF Cached
    <3>2. token.left \in Nat /\ token.good \in Nat
      BY <3>1 DEF TypeOK, Tokens
    <3>3. token.good > RequestTimeout
      BY <3>1, <3>2 DEF TokenAge
    <3> QED
      BY <3>1, <3>2, <3>3 DEF InFlight
  <2>2. CASE ~Cached
    BY <2>2 DEF InFlight
  <2> QED
    BY <2>1, <2>2
<1>4. CancelAge'
  BY DEF CancelAge, TypeOK, NotCancelled
<1> QED
  BY <1>1, <1>2, <1>3, <1>4

LEMMA IssueTokenKeeps == IInv /\ (\E life \in Lifetimes : IssueToken(life)) => IInv'
<1> SUFFICES ASSUME IInv, NEW life \in Lifetimes, IssueToken(life) PROVE IInv'
  OBVIOUS
<1>1. life \in Nat
  BY AdsbAssumption
<1> USE <1>1, NewTokenIsToken DEF IInv, IssueToken
<1>2. TypeOK' /\ SpentBounded' /\ TokenAge' /\ InFlight' /\ CancelAge'
  BY DEF TypeOK, SpentBounded, TokenAge, InFlight, CancelAge
<1>3. IssuedAge'
  BY DEF IssuedAge, TypeOK
<1> QED
  BY <1>2, <1>3

LEMMA TokenAnsweredKeeps == IInv /\ TokenAnswered => IInv'
<1> SUFFICES ASSUME IInv, TokenAnswered PROVE IInv'
  OBVIOUS
<1> USE AdsbAssumption DEF IInv, TokenAnswered
<1>1. issued.good \in Nat /\ issued.life \in Nat
  BY DEF TypeOK, Tokens
<1>2. /\ token' \in Tokens /\ token' # NoToken
      /\ token'.left = issued.life /\ token'.good = issued.good /\ token'.life = issued.life
  BY <1>1, NewTokenIsToken
<1>3. issued.life <= issued.good + TokenTimeout
  BY <1>1 DEF IssuedAge, SpentBounded, TypeOK
<1>4. TypeOK' /\ SpentBounded' /\ IssuedAge'
  BY <1>2 DEF TypeOK, SpentBounded, IssuedAge
<1>5. TokenAge'
  BY <1>2, <1>3 DEF TokenAge
<1>6. InFlight'
  BY <1>1, <1>2, <1>3 DEF InFlight
<1>7. CancelAge'
  BY DEF CancelAge, SpentBounded, TypeOK, NotCancelled
<1> QED
  BY <1>4, <1>5, <1>6, <1>7

LEMMA TokenFailsKeeps == IInv /\ TokenFails => IInv'
  BY AdsbAssumption DEF IInv, TokenFails, TypeOK, SpentBounded, TokenAge, IssuedAge, InFlight,
    CancelAge, Cancelled, NotCancelled

LEMMA OlderClocks ==
  ASSUME NEW t \in Tokens
  PROVE  /\ t.left \in Nat /\ t.good \in Nat /\ t.life \in Nat
         /\ Older(t).left \in Nat /\ Older(t).good \in Nat
         /\ t.left > 0 => Older(t).left = t.left - 1
         /\ t.left = 0 => Older(t).left = 0
         /\ Older(t).good >= t.good - 1
  BY OlderToken DEF Less, Tokens

LEMMA ClockKeeps == IInv /\ Clock => IInv'
<1> SUFFICES ASSUME IInv, Clock PROVE IInv'
  OBVIOUS
<1> USE AdsbAssumption
<1>1. TypeOK /\ SpentBounded /\ TokenAge /\ IssuedAge /\ InFlight /\ CancelAge
  BY DEF IInv
<1>2. token' = Older(token) /\ issued' = Older(issued) /\ pc' = pc
  BY DEF Clock
<1>3. /\ pc \in {"select", "token", "get"}
      /\ pc = "token" => spent < TokenTimeout
      /\ pc = "get" => spent < RequestTimeout /\ cancelled = NotCancelled
      /\ pc = "select" => cancelled = NotCancelled
  BY DEF Clock, MayWait, Cancelled
<1>4. spent \in Nat /\ spent' \in Nat /\ (pc # "select" => spent' = spent + 1)
  BY <1>1 DEF Clock, TypeOK
<1>5. /\ cancelled' \in Nat \cup {NotCancelled}
      /\ cancelled = NotCancelled => cancelled' = NotCancelled
      /\ cancelled # NotCancelled => cancelled' = cancelled + 1
  BY <1>1 DEF Clock, Cancelled, NotCancelled, TypeOK
<1>6. token' \in Tokens \cup {NoToken} /\ issued' \in Tokens \cup {NoToken}
  BY <1>1, <1>2, OlderToken, OlderNoToken DEF TypeOK
<1>7. TypeOK' /\ SpentBounded'
  BY <1>1, <1>2, <1>3, <1>4, <1>5, <1>6 DEF TypeOK, SpentBounded
<1>8. TokenAge'
  <2>1. CASE token = NoToken
    BY <2>1, <1>2, OlderNoToken DEF TokenAge
  <2>2. CASE token # NoToken
    <3>1. token \in Tokens /\ token.left <= token.good + TokenTimeout
      BY <2>2, <1>1 DEF TypeOK, TokenAge
    <3>2. Older(token).left <= Older(token).good + TokenTimeout
      BY <3>1, OlderClocks
    <3> QED
      BY <3>2, <1>2 DEF TokenAge
  <2> QED
    BY <2>1, <2>2
<1>9. IssuedAge'
  <2>1. CASE issued = NoToken
    BY <2>1, <1>2, OlderNoToken DEF IssuedAge
  <2>2. CASE issued # NoToken
    <3>1. issued \in Tokens /\ pc = "token" /\ issued.life <= issued.good + spent
      BY <2>2, <1>1 DEF TypeOK, IssuedAge
    <3>2. spent' = spent + 1
      BY <3>1, <1>4
    <3>3. Older(issued).life <= Older(issued).good + spent'
      BY <3>1, <3>2, <1>4, OlderClocks, OlderToken
    <3> QED
      BY <3>1, <3>3, <1>2 DEF IssuedAge
  <2> QED
    BY <2>1, <2>2
<1>10. InFlight'
  <2> SUFFICES ASSUME pc = "get"
               PROVE  /\ token' # NoToken
                      /\ \/ token'.good + spent' > RequestTimeout
                         \/ token'.life <= TokenTimeout + RequestTimeout
    BY <1>2 DEF InFlight
  <2>1. token \in Tokens /\ spent' = spent + 1
    BY <1>1, <1>4 DEF InFlight, TypeOK
  <2>2. token' # NoToken /\ token'.life = token.life
    BY <2>1, <1>2, OlderToken
  <2>3. token'.good >= token.good - 1 /\ token'.good \in Nat /\ token.good \in Nat
    BY <2>1, <1>2, OlderClocks
  <2>4. token.good + spent > RequestTimeout \/ token.life <= TokenTimeout + RequestTimeout
    BY <1>1 DEF InFlight
  <2> QED
    BY <2>1, <2>2, <2>3, <2>4, <1>4
<1>11. CancelAge'
  BY <1>1, <1>2, <1>3, <1>4, <1>5 DEF CancelAge, TypeOK, NotCancelled
<1> QED
  BY <1>7, <1>8, <1>9, <1>10, <1>11 DEF IInv

\* The actions that change neither a token nor a clock, but Reconnect's NoToken.
LEMMA OthersKeep ==
  IInv /\ (Answer \/ GetFails \/ Reconnect \/ Cancel \/ Stop \/ Ended)
    => IInv'
<1> USE AdsbAssumption DEF IInv, TypeOK, SpentBounded, TokenAge, IssuedAge, InFlight, CancelAge,
      Cancelled, NotCancelled
<1>1. IInv /\ Answer => IInv'
  BY DEF Answer
<1>2. IInv /\ (GetFails \/ Reconnect) => IInv'
  BY DEF GetFails, Reconnect
<1>3. IInv /\ (Cancel \/ Stop) => IInv'
  BY DEF Cancel, Stop
<1>4. IInv /\ Ended => IInv'
  BY DEF Ended, vars
<1> QED
  BY <1>1, <1>2, <1>3, <1>4

LEMMA StepIInv == IInv /\ [Next]_vars => IInv'
<1>1. IInv /\ UNCHANGED vars => IInv'
  BY DEF IInv, TypeOK, SpentBounded, TokenAge, IssuedAge, InFlight, CancelAge, vars
<1>2. IInv /\ Next => IInv'
  BY StartPollKeeps, IssueTokenKeeps, TokenAnsweredKeeps, TokenFailsKeeps, ClockKeeps, OthersKeep
    DEF Next
<1> QED
  BY <1>1, <1>2

THEOREM Inductive == Spec => []IInv
  BY InitIInv, StepIInv, PTL DEF Spec

-----------------------------------------------------------------------------
\* No request is on its way with a token that the server has let expire, unless
\* the token was issued for less than the timeouts of its own way.
THEOREM TokenOutlivesRequest == Spec => []TokenStillGood
<1>1. IInv => TokenStillGood
  BY AdsbAssumption DEF IInv, TypeOK, Tokens, SpentBounded, InFlight, TokenStillGood
<1> QED
  BY <1>1, Inductive, PTL

\* A cancelled worker ends within the timeout of the token endpoint.
THEOREM CancelIsBounded == Spec => []StopsInTime
<1>1. IInv => StopsInTime
  BY AdsbAssumption DEF IInv, TypeOK, SpentBounded, CancelAge, StopsInTime, NotCancelled
<1> QED
  BY <1>1, Inductive, PTL
=============================================================================
