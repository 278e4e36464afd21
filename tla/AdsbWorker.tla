------------------------------ MODULE AdsbWorker ------------------------------
(***************************************************************************)
(* The ADS-B worker (internal/worker/adsb) with the OAuth2 token source    *)
(* it asks before each request (internal/oauth2).  A ticker starts the     *)
(* polls; a poll may first ask the token endpoint, then asks for all       *)
(* states.  Any error ends poll, and RunWithReconnect calls it anew after  *)
(* a pause, with a new ticker and a new token source.                      *)
(*                                                                         *)
(* Time is counted in ticks of the size that all durations share.  A token *)
(* has two clocks: good, what is left of it at the server, which runs from *)
(* the moment it is issued, and left, the client's idea, which runs from   *)
(* the moment the answer has been read.                                    *)
(***************************************************************************)
EXTENDS Integers

CONSTANTS
  Margin,          \* a token with no more than this left is not reused
  TokenTimeout,    \* of the token source's HTTP client
  RequestTimeout,  \* of the poll's HTTP client
  Interval,        \* of the ticker
  Lifetimes,       \* expires_in of the tokens that the endpoint issues
  NoToken

ASSUME AdsbAssumption ==
  /\ {Margin, TokenTimeout, RequestTimeout} \subseteq Nat
  /\ Interval \in Nat \ {0}
  /\ Lifetimes \subseteq Nat
  /\ Margin >= TokenTimeout + RequestTimeout
  /\ NoToken \notin [left : Nat, good : Nat, life : Nat]

VARIABLES
  pc,         \* "select", "token" or "get" in poll, "backoff" between polls, "ended"
  spent,      \* ticks since the request in progress was sent
  tick,       \* a tick in the ticker's channel
  phase,      \* ticks until the ticker's next one
  token,      \* the token source's token, or NoToken
  issued,     \* the token on its way to the client, or NoToken
  cancelled   \* ticks since the context was cancelled, or NotCancelled

vars == <<pc, spent, tick, phase, token, issued, cancelled>>

NotCancelled == -1
Cancelled == cancelled # NotCancelled

NewToken(good, life) == [left |-> life, good |-> good, life |-> life]

Init ==
  /\ pc = "select" /\ spent = 0
  /\ tick = FALSE /\ phase = Interval
  /\ token = NoToken /\ issued = NoToken
  /\ cancelled = NotCancelled

-----------------------------------------------------------------------------
(* The token source                                                         *)

\* Mutant of Cached: a token is used until the client sees it expire.
Cached_NoMargin == token # NoToken /\ token.left > 0

\* Token(): time.Now().Add(60s).Before(ts.expiry).
Cached == token # NoToken /\ token.left > Margin

\* A tick: the token is taken from the cache, or asked for.
StartPoll ==
  /\ pc = "select" /\ tick
  /\ tick' = FALSE /\ spent' = 0
  /\ pc' = IF Cached THEN "get" ELSE "token"
  /\ UNCHANGED <<phase, token, issued, cancelled>>

IssueToken(life) ==
  /\ pc = "token" /\ issued = NoToken
  /\ issued' = NewToken(life, life)
  /\ UNCHANGED <<pc, spent, tick, phase, token, cancelled>>

\* The client dates the expiry from the end of the answer.
TokenAnswered ==
  /\ pc = "token" /\ issued # NoToken
  /\ token' = NewToken(issued.good, issued.life)
  /\ issued' = NoToken
  /\ pc' = "get" /\ spent' = 0
  /\ UNCHANGED <<tick, phase, cancelled>>

\* No answer in time, another status, or a body that is no token.
TokenFails ==
  /\ pc = "token"
  /\ pc' = IF Cancelled THEN "ended" ELSE "backoff"
  /\ issued' = NoToken
  /\ UNCHANGED <<spent, tick, phase, token, cancelled>>

-----------------------------------------------------------------------------
(* The feed                                                                 *)

\* The states that are usable are published; which ones changes nothing here.
Answer ==
  /\ pc = "get" /\ ~Cancelled
  /\ pc' = "select"
  /\ UNCHANGED <<spent, tick, phase, token, issued, cancelled>>

\* No answer in time, another status (a token refused, too), a body that
\* cannot be parsed.
GetFails ==
  /\ pc = "get" /\ ~Cancelled
  /\ pc' = "backoff"
  /\ UNCHANGED <<spent, tick, phase, token, issued, cancelled>>

\* The pause is over: poll starts with a new token source and a new ticker.
Reconnect ==
  /\ pc = "backoff" /\ ~Cancelled
  /\ pc' = "select"
  /\ tick' = FALSE /\ phase' = Interval
  /\ token' = NoToken
  /\ UNCHANGED <<spent, issued, cancelled>>

-----------------------------------------------------------------------------
(* The context and the clock                                                *)

Cancel ==
  /\ ~Cancelled /\ pc # "ended"
  /\ cancelled' = 0
  /\ UNCHANGED <<pc, spent, tick, phase, token, issued>>

\* Every wait but that for the token endpoint ends with the context.
Stop ==
  /\ Cancelled /\ pc \in {"select", "get", "backoff"}
  /\ pc' = "ended"
  /\ UNCHANGED <<spent, tick, phase, token, issued, cancelled>>

\* Mutant of MayWait: the request for the states is made without the context.
MayWait_NoContext ==
  \/ pc = "select" /\ ~tick /\ ~Cancelled
  \/ pc = "token" /\ spent < TokenTimeout
  \/ pc = "get" /\ spent < RequestTimeout

\* Nothing else is due: http.Client ends a request at its timeout.
MayWait ==
  \/ pc = "select" /\ ~tick /\ ~Cancelled
  \/ pc = "token" /\ spent < TokenTimeout
  \/ pc = "get" /\ spent < RequestTimeout /\ ~Cancelled

Less(n) == IF n = 0 THEN 0 ELSE n - 1
Older(t) ==
  IF t = NoToken THEN NoToken ELSE [t EXCEPT !.left = Less(@), !.good = Less(@)]

Clock ==
  /\ MayWait
  /\ spent' = IF pc = "select" THEN 0 ELSE spent + 1
  /\ tick' = (tick \/ phase = 1)
  /\ phase' = IF phase = 1 THEN Interval ELSE phase - 1
  /\ token' = Older(token) /\ issued' = Older(issued)
  /\ cancelled' = IF Cancelled THEN cancelled + 1 ELSE cancelled
  /\ UNCHANGED pc

Ended == pc = "ended" /\ UNCHANGED vars

Next ==
  \/ StartPoll
  \/ \E life \in Lifetimes : IssueToken(life)
  \/ TokenAnswered
  \/ TokenFails
  \/ Answer
  \/ GetFails
  \/ Reconnect
  \/ Cancel
  \/ Stop
  \/ Clock
  \/ Ended

Spec == Init /\ [][Next]_vars

-----------------------------------------------------------------------------
(* Properties                                                               *)

\* While a request is on its way, whenever it reaches the server, its token has not
\* expired there: the 60 s margin of Token() covers the late date of the expiry and
\* the time of the request together.  Tokens that live shorter than both timeouts
\* are outside of what the client can ensure.
TokenStillGood ==
  pc = "get" => token.good > 0 \/ token.life <= TokenTimeout + RequestTimeout

\* After a cancellation the worker ends within the token endpoint's timeout, also
\* when select takes a tick that was ready with the cancellation: the request for
\* the token does not follow the context, and nothing else makes it wait.
StopsInTime == pc # "ended" => cancelled <= TokenTimeout
=============================================================================
