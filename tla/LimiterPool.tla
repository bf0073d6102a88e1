----------------------------- MODULE LimiterPool -----------------------------
(***************************************************************************)
(* Limiters of ratelimit.go: a limiter per key, made on demand by the      *)
(* requests, and the cleaner goroutine that drops the idle ones.  Each     *)
(* operation of the map is atomic; the cleaner's check and its Delete, and *)
(* a request's Get and its Allowed, are not.                               *)
(*                                                                         *)
(* Ref is memory for limiters: a reference is used again once neither the  *)
(* map nor a request refers to the limiter.                                *)
(***************************************************************************)
EXTENDS RateLimit, Sequences, FiniteSets

CONSTANTS
  Request,         \* goroutines serving requests
  Key,             \* client keys
  Ref,             \* references to limiters
  NoRef, NoKey,
  CheckDuration,   \* clean's checkDuration (90 minutes)
  MaxTime,         \* bound: the clock stops there
  MaxCalls         \* bound: the number of requests

ASSUME CleanAssumption == CheckDuration \in Nat /\ CheckDuration >= Hour
ASSUME BoundAssumption == MaxTime \in Nat /\ MaxCalls \in Nat
ASSUME NoneAssumption == NoRef \notin Ref /\ NoKey \notin Key

VARIABLES
  clock,     \* time.Now().Unix()
  m,         \* Limiters.m
  lims,      \* the limiter at each reference
  pc, key, ref, at,   \* each request: where it is, its key, limiter and time
  cpc,       \* where the cleaner is
  ct,        \* the time of the tick it works on
  todo,      \* the keys it has not looked at
  ckey,      \* the key it looks at
  seen,      \* the last action of that key's limiter
  calls,     \* history: the number of requests
  allowed,   \* history: per key, the time and windows of each allowed attempt
  raced      \* history: a limiter in use was dropped

vars == <<clock, m, lims, pc, key, ref, at, cpc, ct, todo, ckey, seen,
          calls, allowed, raced>>
requestVars == <<pc, key, ref, at, calls, allowed>>
cleanerVars == <<cpc, ct, todo, ckey, seen, raced>>

Init ==
  /\ clock = 1
  /\ m = [k \in Key |-> NoRef]
  /\ lims = [r \in Ref |-> NewLimiter(0)]
  /\ pc = [q \in Request |-> "idle"]
  /\ key = [q \in Request |-> NoKey]
  /\ ref = [q \in Request |-> NoRef]
  /\ at = [q \in Request |-> 0]
  /\ cpc = "wait" /\ ct = 0 /\ todo = {} /\ ckey = NoKey /\ seen = 0
  /\ raced = FALSE
  /\ calls = 0
  /\ allowed = [k \in Key |-> <<>>]

Tick ==
  /\ clock < MaxTime
  /\ clock' = clock + 1
  /\ UNCHANGED <<m, lims, requestVars, cleanerVars>>

-----------------------------------------------------------------------------
(* The middleware: Get, then Allowed *)

Free(r) == (\A k \in Key : m[k] # r) /\ (\A q \in Request : ref[q] # r)

\* MustGet finds the key's limiter.
GetLimiter(q, k) ==
  /\ pc[q] = "idle" /\ calls < MaxCalls
  /\ m[k] # NoRef
  /\ ref' = [ref EXCEPT ![q] = m[k]]
  /\ key' = [key EXCEPT ![q] = k]
  /\ pc' = [pc EXCEPT ![q] = "got"]
  /\ calls' = calls + 1
  /\ UNCHANGED <<clock, m, lims, at, allowed, cleanerVars>>

\* Mutant: the map is looked up and written in two critical sections.
MakeLimiterAnyway(q, k, r) ==
  /\ pc[q] = "idle" /\ calls < MaxCalls
  /\ Free(r)
  /\ m' = [m EXCEPT ![k] = r]
  /\ lims' = [lims EXCEPT ![r] = NewLimiter(clock)]
  /\ ref' = [ref EXCEPT ![q] = r]
  /\ key' = [key EXCEPT ![q] = k]
  /\ pc' = [pc EXCEPT ![q] = "got"]
  /\ calls' = calls + 1
  /\ UNCHANGED <<clock, at, allowed, cleanerVars>>

\* MustGet makes one.
MakeLimiter(q, k, r) ==
  /\ pc[q] = "idle" /\ calls < MaxCalls
  /\ m[k] = NoRef /\ Free(r)
  /\ m' = [m EXCEPT ![k] = r]
  /\ lims' = [lims EXCEPT ![r] = NewLimiter(clock)]
  /\ ref' = [ref EXCEPT ![q] = r]
  /\ key' = [key EXCEPT ![q] = k]
  /\ pc' = [pc EXCEPT ![q] = "got"]
  /\ calls' = calls + 1
  /\ UNCHANGED <<clock, at, allowed, cleanerVars>>

ReadClock(q) ==
  /\ pc[q] = "got"
  /\ at' = [at EXCEPT ![q] = clock]
  /\ pc' = [pc EXCEPT ![q] = "stamped"]
  /\ UNCHANGED <<clock, m, lims, key, ref, calls, allowed, cleanerVars>>

Attempt(q) ==
  LET old == lims[ref[q]]
      new == Counted(old, at[q])
  IN
  /\ pc[q] = "stamped"
  /\ lims' = [lims EXCEPT ![ref[q]] = new]
  /\ allowed' = IF Refusal(old, at[q]) = "none"
                THEN [allowed EXCEPT ![key[q]] =
                        Append(@, [at |-> at[q], opened |-> new.last])]
                ELSE allowed
  /\ pc' = [pc EXCEPT ![q] = "idle"]
  /\ key' = [key EXCEPT ![q] = NoKey]
  /\ ref' = [ref EXCEPT ![q] = NoRef]
  /\ at' = [at EXCEPT ![q] = 0]
  /\ UNCHANGED <<clock, m, calls, cleanerVars>>

-----------------------------------------------------------------------------
(* clean *)

\* The ticker fires; the keys are copied.
Sweep ==
  /\ cpc = "wait"
  /\ ct' = clock
  /\ todo' = {k \in Key : m[k] # NoRef}
  /\ cpc' = "sweep"
  /\ UNCHANGED <<clock, m, lims, requestVars, ckey, seen, raced>>

\* Mutant: a limiter idle for a minute is dropped.
IdleMinute(l, t) == t - LastAction(l) >= Minute

\* The tick's time t has a fraction of a second, LastAction has none: more than
\* checkDuration, and at least checkDuration in whole seconds.
Idle(l, t) == t - LastAction(l) >= CheckDuration

\* The next key's limiter is fetched and its last action read.
Check(k) ==
  /\ cpc = "sweep" /\ k \in todo
  /\ todo' = todo \ {k}
  /\ IF Idle(lims[m[k]], ct)
     THEN cpc' = "delete" /\ ckey' = k /\ seen' = LastAction(lims[m[k]])
     ELSE UNCHANGED <<cpc, ckey, seen>>
  /\ UNCHANGED <<clock, m, lims, requestVars, ct, raced>>

Delete ==
  /\ cpc = "delete"
  /\ m' = [m EXCEPT ![ckey] = NoRef]
  /\ cpc' = "sweep" /\ ckey' = NoKey /\ seen' = 0
  /\ raced' = (\/ raced
               \/ LastAction(lims[m[ckey]]) # seen
               \/ \E q \in Request : ref[q] = m[ckey])
  /\ UNCHANGED <<clock, lims, requestVars, ct, todo>>

\* All keys were looked at.
SweepDone ==
  /\ cpc = "sweep" /\ todo = {}
  /\ cpc' = "wait" /\ ct' = 0
  /\ UNCHANGED <<clock, m, lims, requestVars, todo, ckey, seen, raced>>

\* The pool's context is done.
Stop ==
  /\ cpc = "wait"
  /\ cpc' = "stopped"
  /\ UNCHANGED <<clock, m, lims, requestVars, ct, todo, ckey, seen, raced>>

-----------------------------------------------------------------------------
Next ==
  \/ Tick
  \/ \E q \in Request :
       \/ \E k \in Key : GetLimiter(q, k) \/ \E r \in Ref : MakeLimiter(q, k, r)
       \/ ReadClock(q)
       \/ Attempt(q)
  \/ Sweep \/ (\E k \in Key : Check(k)) \/ Delete \/ SweepDone \/ Stop

Spec == Init /\ [][Next]_vars
-----------------------------------------------------------------------------
(* Properties *)

\* The cleaner drops nothing but quota that is over: if nobody opened a window
\* since it looked, every window of the limiter it drops has expired, the ones
\* of a request still to be counted included (ratelimit.go:206-207).
DropsOnlyExpired ==
  [][Delete /\ LastAction(lims[m[ckey]]) = seen =>
       \A u \in Unit : Expired(lims[m[ckey]], u, clock)]_vars

\* "per-key limits at second, minute, and hour granularity" (README.md:15): from
\* the opening of a window of a key and for its length, no more requests of the
\* key are allowed than the quota.
KeyQuota ==
  \A k \in Key : \A u \in Unit : \A i \in DOMAIN allowed[k] :
    Cardinality(Admitted(allowed[k], u, allowed[k][i].opened[u])) <= Max[u]

\* A key's quota is only ever lost to a request that overlaps the cleaner: if
\* no limiter was dropped that a request held, or had used since the cleaner
\* looked at it, no window grants more than its quota (ratelimit.go:204-208).
KeyQuotaUnlessRaced == ~raced => KeyQuota
=============================================================================
