------------------------------- MODULE Limiter -------------------------------
(***************************************************************************)
(* One Limiter of ratelimit.go under concurrent requests.  A caller reads  *)
(* the clock before it takes the limiter's mutex (ratelimit.go:99), so its *)
(* time may be stale when the attempt is counted, and the middleware reads *)
(* the remaining requests in a later critical section.                     *)
(***************************************************************************)
EXTENDS RateLimit

CONSTANTS
  Caller,        \* goroutines serving requests of one client
  LastTime,      \* bound: the clock stops there
  MaxAttempts    \* bound: the number of attempts

ASSUME LimiterAssumption == LastTime \in Nat /\ MaxAttempts \in Nat

VARIABLES
  time,       \* time.Now().Unix()
  lim,        \* the Limiter
  callerPc,   \* where each caller is
  stamp,      \* its variable now
  attempts,   \* history: the number of attempts
  granted     \* history: the attempts allowed in the current window of a unit

limiterVars == <<time, lim, callerPc, stamp, attempts, granted>>

LimiterInit ==
  /\ time = 1
  /\ lim = NewLimiter(1)
  /\ callerPc = [c \in Caller |-> "idle"]
  /\ stamp = [c \in Caller |-> 0]
  /\ attempts = 0
  /\ granted = [u \in Unit |-> 0]

LimiterTick ==
  /\ time < LastTime
  /\ time' = time + 1
  /\ UNCHANGED <<lim, callerPc, stamp, attempts, granted>>

\* Allowed up to the lock.
Stamp(c) ==
  /\ callerPc[c] = "idle" /\ attempts < MaxAttempts
  /\ callerPc' = [callerPc EXCEPT ![c] = "stamped"]
  /\ stamp' = [stamp EXCEPT ![c] = time]
  /\ attempts' = attempts + 1
  /\ UNCHANGED <<time, lim, granted>>

\* The rest of Allowed, under the mutex.
CountAttempt(c) ==
  LET new   == Counted(lim, stamp[c])
      right == Refusal(lim, stamp[c]) = "none"
  IN
  /\ callerPc[c] = "stamped"
  /\ lim' = new
  /\ callerPc' = [callerPc EXCEPT ![c] = IF right THEN "allowed" ELSE "refused"]
  /\ granted' = [u \in Unit |->
                   (IF new.last[u] = lim.last[u] THEN granted[u] ELSE 0)
                   + (IF right THEN 1 ELSE 0)]
  /\ UNCHANGED <<time, stamp, attempts>>

\* RequestsLeft, whose result goes into the headers; the middleware returns.
Report(c) ==
  /\ callerPc[c] \in {"allowed", "refused"}
  /\ callerPc' = [callerPc EXCEPT ![c] = "idle"]
  /\ stamp' = [stamp EXCEPT ![c] = 0]
  /\ UNCHANGED <<time, lim, attempts, granted>>

LimiterNext ==
  LimiterTick \/ \E c \in Caller : Stamp(c) \/ CountAttempt(c) \/ Report(c)

LimiterSpec == LimiterInit /\ [][LimiterNext]_limiterVars
-----------------------------------------------------------------------------
(* Properties *)

\* Every variable has its type.
LimiterTypeOK ==
  /\ time \in 1 .. LastTime \cup {1}
  /\ lim \in [req : [Unit -> Nat], last : [Unit -> Nat]]
  /\ callerPc \in [Caller -> {"idle", "stamped", "allowed", "refused"}]
  /\ stamp \in [Caller -> Nat]
  /\ attempts \in Nat
  /\ granted \in [Unit -> Nat]

\* No window grants more than its quota, whatever order stale callers are
\* counted in (ratelimit.go:99, 111-139).
WindowQuota == \A u \in Unit : granted[u] <= Max[u]

\* What an allowed caller is told to have left never includes the request it
\* just made, though others may open new windows before it reads the counters
\* (ratelimit.go:36-38).
ReportCountsCaller ==
  \A c \in Caller : callerPc[c] = "allowed" =>
    \A u \in Unit : RequestsLeft(lim)[u] < Max[u]

\* The duration is about one window only, but the retry meets all three.  A
\* refused client that waits as told comes in the very second at which the window
\* that refused it is over, also when its clock reading was older than the
\* window; if nobody asks in between, that window does not refuse it again, nor
\* does the one of the second, and only the hour or the minute still may
\* (ratelimit.go:111-138).
RetryMeetsOthers ==
  [][\A c \in Caller : \A u \in Unit :
       CountAttempt(c) /\ Refusal(lim, stamp[c]) = u =>
         LET until == stamp[c] + Wait(lim, stamp[c])
             again == Refusal(lim', until)
         IN  /\ Expired(lim', u, until) /\ ~Expired(lim', u, until - 1)
             /\ again \in {u, "second"} => Max[again] = 0]_limiterVars
=============================================================================
