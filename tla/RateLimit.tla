------------------------------ MODULE RateLimit ------------------------------
(***************************************************************************)
(* The arithmetic of ratelimit.go: one fixed window per granularity, an    *)
(* attempt being counted against the hour first, then against the minute,  *)
(* then against the second, and no further than the first quota it         *)
(* exceeds.  The lengths of the windows are parameters, so that TLC can    *)
(* walk through several hours.                                             *)
(***************************************************************************)
EXTENDS Integers

CONSTANTS
  Hour, Minute,    \* the lengths of the windows, in seconds (3600 and 60)
  MaxPerHour, MaxPerMinute, MaxPerSecond

ASSUME WindowAssumption == /\ Hour \in Nat /\ Minute \in Nat
                           /\ 1 < Minute /\ Minute < Hour
ASSUME QuotaAssumption ==
  MaxPerHour \in Nat /\ MaxPerMinute \in Nat /\ MaxPerSecond \in Nat

Unit == {"hour", "minute", "second"}

Length == [u \in Unit |-> CASE u = "hour" -> Hour
                            [] u = "minute" -> Minute
                            [] u = "second" -> 1]

Max == [u \in Unit |-> CASE u = "hour" -> MaxPerHour
                         [] u = "minute" -> MaxPerMinute
                         [] u = "second" -> MaxPerSecond]

\* A limiter: the attempts counted in each window and when each was opened.
NewLimiter(now) == [req |-> [u \in Unit |-> 0], last |-> [u \in Unit |-> now]]

\* Mutant: off by one.
ExpiredLate(l, u, now) == now - l.last[u] > Length[u]

\* The window of unit u is over at time now.
Expired(l, u, now) == now - l.last[u] > Length[u] - 1

\* An attempt is counted in the window of unit u, a new one if it is over.
Count(l, u, now) ==
  IF Expired(l, u, now)
  THEN [l EXCEPT !.req[u] = 1, !.last[u] = now]
  ELSE [l EXCEPT !.req[u] = @ + 1]

\* Mutant: one too many.
ExceedsByMore(l, u) == l.req[u] > Max[u] + 1

Exceeds(l, u) == l.req[u] > Max[u]

CountedHour(l, now)   == Count(l, "hour", now)
CountedMinute(l, now) == Count(CountedHour(l, now), "minute", now)
CountedSecond(l, now) == Count(CountedMinute(l, now), "second", now)

\* The unit whose quota an attempt exceeds, or "none" if it is allowed.
Refusal(l, now) ==
  IF Exceeds(CountedHour(l, now), "hour") THEN "hour"
  ELSE IF Exceeds(CountedMinute(l, now), "minute") THEN "minute"
  ELSE IF Exceeds(CountedSecond(l, now), "second") THEN "second"
  ELSE "none"

\* The limiter after an attempt.
Counted(l, now) ==
  CASE Refusal(l, now) = "hour"   -> CountedHour(l, now)
    [] Refusal(l, now) = "minute" -> CountedMinute(l, now)
    [] OTHER                      -> CountedSecond(l, now)

\* The duration Allowed returns.
Wait(l, now) ==
  LET u == Refusal(l, now)
  IN  IF u = "none" THEN 0 ELSE Length[u] - (now - Counted(l, now).last[u])

LastAction(l) == CHOOSE t \in {l.last[u] : u \in Unit} :
                   \A u \in Unit : l.last[u] <= t

RequestsLeft(l) ==
  [u \in Unit |-> IF l.req[u] > Max[u] THEN 0 ELSE Max[u] - l.req[u]]

\* Given the attempts that were allowed, with the times they were made at and
\* the windows they were counted in: those of the window of unit u opened at
\* time from, and any other that its stretch of time contains.  An attempt
\* stamped before its own window was opened is left out.
Admitted(allowed, u, from) ==
  {i \in DOMAIN allowed : /\ allowed[i].at \in from .. from + Length[u] - 1
                          /\ allowed[i].opened[u] <= allowed[i].at}
=============================================================================
