----------------------------- MODULE MCLimiters -----------------------------
(* Instances of Limiter and of LimiterPool for TLC, which share the quotas: *)
(* a behaviour is one of a single Limiter or one of a pool, and the         *)
(* variables of the other keep their initial values.                        *)
EXTENDS Limiter, LimiterPool, TLC

VARIABLE subject   \* which of the two moves

LimitersInit ==
  /\ LimiterInit /\ Init
  /\ subject \in {"limiter", "pool"}

LimitersNext ==
  /\ \/ subject = "limiter" /\ LimiterNext /\ UNCHANGED vars
     \/ subject = "pool" /\ Next /\ UNCHANGED limiterVars
  /\ UNCHANGED subject

LimitersSpec == LimitersInit /\ [][LimitersNext]_<<limiterVars, vars, subject>>

Symmetric ==
  Permutations(Caller) \cup Permutations(Request) \cup Permutations(Key)
    \cup Permutations(Ref)
=============================================================================
