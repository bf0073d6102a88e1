---------------------------- MODULE LimiterProofs ----------------------------
(***************************************************************************)
(* Quotas for all window lengths, quotas, requests, keys and times: those  *)
(* of the pool of limiters with its cleaner, and those of one limiter.     *)
(***************************************************************************)
EXTENDS Limiter, LimiterPool, FiniteSetTheorems, TLAPS

IsLimiter(l) == l \in [req : [Unit -> Nat], last : [Unit -> Nat]]

-----------------------------------------------------------------------------
(* The arithmetic of the windows *)

\* The quotas and window lengths are numbers; no window is longer than the hour.
LEMMA UnitNumbers ==
  /\ Hour \in Nat
  /\ \A u \in Unit : /\ Max[u] \in Nat
                     /\ Length[u] \in Nat \ {0} /\ Length[u] <= Hour
BY WindowAssumption, QuotaAssumption DEF Unit, Max, Length

\* Count adds an attempt to a window that is not over, or opens it anew at the
\* attempt's time with one attempt.
Added(n, l, u, now) ==
  /\ n.last[u] = l.last[u] /\ n.req[u] = l.req[u] + 1
  /\ now < l.last[u] + Length[u]
Opened(n, l, u, now) ==
  n.last[u] = now /\ n.req[u] = 1 /\ now >= l.last[u] + Length[u]

\* Two limiters agree on the window of unit u.
Alike(n, l, u) == n.req[u] = l.req[u] /\ n.last[u] = l.last[u]

\* Count changes one window.
LEMMA CountOne ==
  ASSUME NEW l, IsLimiter(l), NEW u \in Unit, NEW now \in Nat
  PROVE  LET n == Count(l, u, now)
         IN  /\ IsLimiter(n)
             /\ \A v \in Unit \ {u} : Alike(n, l, v)
             /\ Added(n, l, u, now) \/ Opened(n, l, u, now)
<1>1. l.last[u] \in Nat /\ Length[u] \in Nat
  BY UnitNumbers DEF IsLimiter
<1>2. CASE Expired(l, u, now)
  <2>1. now >= l.last[u] + Length[u]
    BY <1>1, <1>2 DEF Expired
  <2> QED
    BY <1>2, <2>1 DEF Count, IsLimiter, Opened, Alike
<1>3. CASE ~Expired(l, u, now)
  <2>1. now < l.last[u] + Length[u]
    BY <1>1, <1>3 DEF Expired
  <2> QED
    BY <1>3, <2>1 DEF Count, IsLimiter, Added, Alike
<1> QED
  BY <1>2, <1>3

\* A window after an attempt: as before, with one attempt more, or opened anew.
After(n, l, u, now) ==
  Alike(n, l, u) \/ Added(n, l, u, now) \/ Opened(n, l, u, now)

\* The three stages of an attempt: one window each, the others as they are.
LEMMA StagesCounted ==
  ASSUME NEW l, IsLimiter(l), NEW now \in Nat
  PROVE  LET h == CountedHour(l, now)
             mi == CountedMinute(l, now)
             s == CountedSecond(l, now)
         IN  /\ IsLimiter(h) /\ IsLimiter(mi) /\ IsLimiter(s)
             /\ Added(h, l, "hour", now) \/ Opened(h, l, "hour", now)
             /\ Added(mi, l, "minute", now) \/ Opened(mi, l, "minute", now)
             /\ Added(s, l, "second", now) \/ Opened(s, l, "second", now)
             /\ Alike(h, l, "minute") /\ Alike(h, l, "second")
             /\ Alike(mi, h, "hour") /\ Alike(mi, l, "second")
             /\ Alike(s, h, "hour") /\ Alike(s, mi, "minute")
<1> DEFINE h == CountedHour(l, now)
           mi == CountedMinute(l, now)
           s == CountedSecond(l, now)
<1>u. Unit = {"hour", "minute", "second"}
  BY DEF Unit
<1>1. /\ IsLimiter(h)
      /\ \A v \in Unit \ {"hour"} : Alike(h, l, v)
      /\ Added(h, l, "hour", now) \/ Opened(h, l, "hour", now)
  BY <1>u, CountOne DEF CountedHour
<1>2. /\ IsLimiter(mi)
      /\ \A v \in Unit \ {"minute"} : Alike(mi, h, v)
      /\ Added(mi, h, "minute", now) \/ Opened(mi, h, "minute", now)
  <2>1. mi = Count(h, "minute", now)
    BY DEF CountedMinute
  <2> HIDE DEF h, mi
  <2> QED
    BY <1>u, <1>1, <2>1, CountOne
<1>3. /\ IsLimiter(s)
      /\ \A v \in Unit \ {"second"} : Alike(s, mi, v)
      /\ Added(s, mi, "second", now) \/ Opened(s, mi, "second", now)
  <2>1. s = Count(mi, "second", now)
    BY DEF CountedSecond
  <2> HIDE DEF mi, s
  <2> QED
    BY <1>u, <1>2, <2>1, CountOne
<1> HIDE DEF h, mi, s
<1>4. /\ Alike(h, l, "minute") /\ Alike(h, l, "second") /\ Alike(mi, h, "hour")
      /\ Alike(mi, h, "second") /\ Alike(s, mi, "hour") /\ Alike(s, mi, "minute")
  BY <1>u, <1>1, <1>2, <1>3
<1>5. /\ Added(mi, l, "minute", now) \/ Opened(mi, l, "minute", now)
      /\ Added(s, l, "second", now) \/ Opened(s, l, "second", now)
      /\ Alike(mi, l, "second") /\ Alike(s, h, "hour")
  BY <1>2, <1>3, <1>4 DEF Alike, Added, Opened
<1> QED
  BY <1>1, <1>2, <1>3, <1>4, <1>5 DEF h, mi, s

\* An attempt, allowed or not, leaves each window in one of those states; if it
\* is allowed it was counted in every window and is within every quota.
LEMMA AttemptCounted ==
  ASSUME NEW l, IsLimiter(l), NEW now \in Nat
  PROVE  LET n == Counted(l, now)
         IN  /\ IsLimiter(n)
             /\ \A u \in Unit : After(n, l, u, now)
             /\ Refusal(l, now) = "none" =>
                  \A u \in Unit :
                    /\ n.req[u] <= Max[u]
                    /\ Added(n, l, u, now) \/ Opened(n, l, u, now)
<1> DEFINE h == CountedHour(l, now)
           mi == CountedMinute(l, now)
           s == CountedSecond(l, now)
<1>u. Unit = {"hour", "minute", "second"}
  BY DEF Unit
<1>1. /\ IsLimiter(h) /\ IsLimiter(mi) /\ IsLimiter(s)
      /\ Added(h, l, "hour", now) \/ Opened(h, l, "hour", now)
      /\ Added(mi, l, "minute", now) \/ Opened(mi, l, "minute", now)
      /\ Added(s, l, "second", now) \/ Opened(s, l, "second", now)
      /\ Alike(h, l, "minute") /\ Alike(h, l, "second")
      /\ Alike(mi, h, "hour") /\ Alike(mi, l, "second")
      /\ Alike(s, h, "hour") /\ Alike(s, mi, "minute")
  BY StagesCounted
<1>2. Counted(l, now) \in {h, mi, s}
  BY DEF Counted
<1>3. ASSUME Refusal(l, now) = "none"
      PROVE  /\ Counted(l, now) = s
             /\ ~Exceeds(h, "hour") /\ ~Exceeds(mi, "minute")
             /\ ~Exceeds(s, "second")
  BY <1>3 DEF Refusal, Counted
<1> HIDE DEF h, mi, s
<1>4. /\ Added(s, l, "hour", now) \/ Opened(s, l, "hour", now)
      /\ Added(s, l, "minute", now) \/ Opened(s, l, "minute", now)
      /\ Added(s, l, "second", now) \/ Opened(s, l, "second", now)
  BY <1>1 DEF Alike, Added, Opened
<1>5. \A u \in Unit : /\ After(h, l, u, now) /\ After(mi, l, u, now)
                      /\ After(s, l, u, now)
  <2>1. /\ After(h, l, "hour", now)
        /\ After(h, l, "minute", now)
        /\ After(h, l, "second", now)
    BY <1>1 DEF After
  <2>2. /\ After(mi, l, "hour", now)
        /\ After(mi, l, "minute", now)
        /\ After(mi, l, "second", now)
    BY <1>1 DEF After, Alike, Added, Opened
  <2> QED
    BY <1>u, <1>4, <2>1, <2>2 DEF After
<1>6. ASSUME Refusal(l, now) = "none"
      PROVE  \A u \in Unit : s.req[u] <= Max[u]
  <2>1. /\ s.req["hour"] = h.req["hour"] /\ s.req["minute"] = mi.req["minute"]
        /\ s.req \in [Unit -> Nat]
    BY <1>1 DEF Alike, IsLimiter
  <2>2. /\ ~(s.req["hour"] > Max["hour"]) /\ ~(s.req["minute"] > Max["minute"])
        /\ ~(s.req["second"] > Max["second"])
    BY <1>3, <1>6, <2>1 DEF Exceeds
  <2> QED
    BY <1>u, <2>1, <2>2, UnitNumbers
<1> QED
  BY <1>u, <1>1, <1>2, <1>3, <1>4, <1>5, <1>6

\* LastAction is no earlier than the opening of any window.
LEMMA LastActionLatest ==
  ASSUME NEW l, IsLimiter(l)
  PROVE  /\ LastAction(l) \in Nat
         /\ \A u \in Unit : l.last[u] <= LastAction(l)
         /\ \E u \in Unit : LastAction(l) = l.last[u]
<1>1. \E t \in {l.last[u] : u \in Unit} : \A u \in Unit : l.last[u] <= t
  <2>1. Unit = {"hour", "minute", "second"}
    BY DEF Unit
  <2>2. /\ l.last["hour"] \in Nat
        /\ l.last["minute"] \in Nat
        /\ l.last["second"] \in Nat
    BY <2>1 DEF IsLimiter
  <2>3. \E v \in Unit : /\ l.last["hour"] <= l.last[v] /\ l.last["minute"] <= l.last[v]
                        /\ l.last["second"] <= l.last[v]
    BY <2>1, <2>2
  <2> QED
    BY <2>1, <2>3
<1>2. /\ LastAction(l) \in {l.last[u] : u \in Unit}
      /\ \A u \in Unit : l.last[u] <= LastAction(l)
  BY <1>1 DEF LastAction
<1> QED
  BY <1>2 DEF IsLimiter

\* The wait of a refused attempt ends with the window that refused it.
LEMMA WaitEndsWindow ==
  ASSUME NEW l, IsLimiter(l), NEW now \in Nat, NEW u \in Unit,
         Refusal(l, now) = u
  PROVE  LET n     == Counted(l, now)
             until == now + Wait(l, now)
         IN  /\ Expired(n, u, until) /\ ~Expired(n, u, until - 1)
             /\ until = n.last[u] + Length[u]
<1> DEFINE n == Counted(l, now)
           until == now + Wait(l, now)
<1>1. IsLimiter(n)
  BY AttemptCounted
<1>2. Wait(l, now) = Length[u] - (now - n.last[u])
  BY DEF Wait, Unit
<1> HIDE DEF n
<1>3. n.last[u] \in Nat /\ Length[u] \in Nat
  BY <1>1, UnitNumbers DEF IsLimiter
<1>4. until = n.last[u] + Length[u]
  BY <1>2, <1>3
<1> QED
  BY <1>3, <1>4 DEF Expired, n

\* The window of the second was opened in the windows of the minute and of the
\* hour that are there, or in older ones.
SecondInside(l) ==
  /\ l.last["second"] < l.last["minute"] + Length["minute"]
  /\ l.last["second"] < l.last["hour"] + Length["hour"]

\* An attempt keeps that: a window is opened at a time at which the longer ones,
\* counted before, are not over.
LEMMA SecondStaysInside ==
  ASSUME NEW l, IsLimiter(l), SecondInside(l), NEW now \in Nat
  PROVE  SecondInside(Counted(l, now))
<1> DEFINE h == CountedHour(l, now)
           mi == CountedMinute(l, now)
           s == CountedSecond(l, now)
<1>1. /\ IsLimiter(h) /\ IsLimiter(mi) /\ IsLimiter(s)
      /\ Added(h, l, "hour", now) \/ Opened(h, l, "hour", now)
      /\ Added(mi, l, "minute", now) \/ Opened(mi, l, "minute", now)
      /\ Added(s, l, "second", now) \/ Opened(s, l, "second", now)
      /\ Alike(h, l, "minute") /\ Alike(h, l, "second")
      /\ Alike(mi, h, "hour") /\ Alike(mi, l, "second")
      /\ Alike(s, h, "hour") /\ Alike(s, mi, "minute")
  BY StagesCounted
<1>2. Counted(l, now) \in {h, mi, s}
  BY DEF Counted
<1> HIDE DEF h, mi, s
<1>3. /\ l.last["hour"] \in Nat /\ l.last["minute"] \in Nat
      /\ l.last["second"] \in Nat
      /\ Length["hour"] \in Nat \ {0} /\ Length["minute"] \in Nat \ {0}
      /\ Length["second"] \in Nat \ {0}
  BY UnitNumbers DEF IsLimiter, Unit
<1>4. SecondInside(h) /\ SecondInside(mi) /\ SecondInside(s)
  BY <1>1, <1>3 DEF Alike, Added, Opened, SecondInside
<1> QED
  BY <1>2, <1>4

\* A window that is over is opened anew with one attempt, whatever is counted in
\* the others: it refuses only if its quota is zero.
LEMMA OverRefusesNone ==
  ASSUME NEW l, IsLimiter(l), NEW now \in Nat, NEW u \in Unit,
         Expired(l, u, now), Refusal(l, now) = u
  PROVE  Max[u] = 0
<1> DEFINE h == CountedHour(l, now)
           mi == CountedMinute(l, now)
           s == CountedSecond(l, now)
<1>1. /\ Added(h, l, "hour", now) \/ Opened(h, l, "hour", now)
      /\ Added(mi, l, "minute", now) \/ Opened(mi, l, "minute", now)
      /\ Added(s, l, "second", now) \/ Opened(s, l, "second", now)
  BY StagesCounted
<1>2. /\ u = "hour" => Exceeds(h, "hour")
      /\ u = "minute" => Exceeds(mi, "minute")
      /\ u = "second" => Exceeds(s, "second")
  BY DEF Refusal
<1> HIDE DEF h, mi, s
<1>3. l.last[u] \in Nat /\ Length[u] \in Nat /\ Max[u] \in Nat
  BY UnitNumbers DEF IsLimiter
<1>4. \A n : Added(n, l, u, now) \/ Opened(n, l, u, now) => n.req[u] = 1
  BY <1>3 DEF Expired, Added, Opened
<1>5. 1 > Max[u]
  BY <1>1, <1>2, <1>4 DEF Unit, Exceeds
<1> QED
  BY <1>3, <1>5

-----------------------------------------------------------------------------
(* The pool of limiters *)

Grant == [at : Nat, opened : [Unit -> Nat]]

Types ==
  /\ clock \in Nat
  /\ m \in [Key -> Ref \cup {NoRef}]
  /\ lims \in [Ref -> [req : [Unit -> Nat], last : [Unit -> Nat]]]
  /\ pc \in [Request -> {"idle", "got", "stamped"}]
  /\ key \in [Request -> Key \cup {NoKey}]
  /\ ref \in [Request -> Ref \cup {NoRef}]
  /\ at \in [Request -> Nat]
  /\ cpc \in {"wait", "sweep", "delete", "stopped"}
  /\ ct \in Nat /\ seen \in Nat
  /\ todo \subseteq Key
  /\ raced \in BOOLEAN
  /\ allowed \in [Key -> Seq(Grant)]

\* No time is in the future.
TimesOK ==
  /\ ct <= clock
  /\ \A q \in Request : at[q] <= clock
  /\ \A r \in Ref : \A u \in Unit : lims[r].last[u] <= clock

\* A limiter is that of one key, and a request has one while it is served.
HoldersOK ==
  /\ \A k, l \in Key : m[k] = m[l] => k = l \/ m[k] = NoRef
  /\ \A q \in Request :
       IF pc[q] = "idle" THEN ref[q] = NoRef ELSE key[q] \in Key /\ ref[q] \in Ref

\* The keys of a sweep that were not looked at are in the map, as is the one
\* about to be deleted, whose limiter was idle when the cleaner looked.
CleanerOK ==
  /\ \A k \in todo : m[k] # NoRef
  /\ cpc = "delete" => /\ ckey \in Key /\ ckey \notin todo /\ m[ckey] # NoRef
                       /\ ct - seen >= CheckDuration

\* Until a limiter in use is dropped, a request has the limiter that the map
\* has for its key.
Attached == ~raced => \A q \in Request : pc[q] # "idle" => m[key[q]] = ref[q]

\* The requests that were allowed in the window of unit u opened at w.
OfWindow(s, u, w) == {i \in DOMAIN s : s[i].opened[u] = w}

\* Of the requests of a key that were allowed: none was made after the end of
\* its windows, windows do not overlap, and none has more than its quota.
Windows(s) ==
  \A u \in Unit : \A i \in DOMAIN s :
    /\ s[i].at < s[i].opened[u] + Length[u]
    /\ \A j \in DOMAIN s :
         \/ s[i].opened[u] = s[j].opened[u]
         \/ s[i].opened[u] + Length[u] <= s[j].opened[u]
         \/ s[j].opened[u] + Length[u] <= s[i].opened[u]
    /\ Cardinality(OfWindow(s, u, s[i].opened[u])) <= Max[u]

\* Limiter l has counted those of its windows; the others were over before.
CountedBy(s, l) ==
  \A u \in Unit :
    /\ \A i \in DOMAIN s : \/ s[i].opened[u] = l.last[u]
                           \/ s[i].opened[u] + Length[u] <= l.last[u]
    /\ Cardinality(OfWindow(s, u, l.last[u])) <= l.req[u]

\* All their windows are over at time t.
Over(s, t) ==
  \A u \in Unit : \A i \in DOMAIN s : s[i].opened[u] + Length[u] <= t

\* Until a limiter in use is dropped, a key without a limiter has no window
\* that is not over, and the limiter of another has counted its requests.
HistoryOK ==
  ~raced => \A k \in Key :
    /\ Windows(allowed[k])
    /\ m[k] = NoRef => Over(allowed[k], clock)
    /\ m[k] # NoRef => CountedBy(allowed[k], lims[m[k]])

IInv == Types /\ TimesOK /\ HoldersOK /\ CleanerOK /\ Attached /\ HistoryOK

-----------------------------------------------------------------------------
\* A sequence with an element more.
LEMMA AppendOne ==
  ASSUME NEW s \in Seq(Grant), NEW e \in Grant
  PROVE  /\ Append(s, e) \in Seq(Grant)
         /\ DOMAIN s = 1..Len(s) /\ Len(s) \in Nat
         /\ DOMAIN Append(s, e) = DOMAIN s \cup {Len(s) + 1}
         /\ Len(s) + 1 \notin DOMAIN s
         /\ Append(s, e)[Len(s) + 1] = e
         /\ \A i \in DOMAIN s : Append(s, e)[i] = s[i]
OBVIOUS

\* The times of the requests and of their windows are numbers.
LEMMA GrantNumbers ==
  ASSUME NEW s \in Seq(Grant), NEW u \in Unit
  PROVE  \A i \in DOMAIN s : s[i].at \in Nat /\ s[i].opened[u] \in Nat
<1> SUFFICES ASSUME NEW i \in DOMAIN s
             PROVE  s[i].at \in Nat /\ s[i].opened[u] \in Nat
  OBVIOUS
<1>1. s[i] \in Grant
  OBVIOUS
<1> QED
  BY <1>1 DEF Grant

\* The requests of a window are finitely many.
LEMMA OfWindowFinite ==
  ASSUME NEW s \in Seq(Grant), NEW u, NEW w
  PROVE  /\ IsFiniteSet(OfWindow(s, u, w))
         /\ Cardinality(OfWindow(s, u, w)) \in Nat
<1>1. IsFiniteSet(DOMAIN s)
  BY FS_Interval
<1>2. OfWindow(s, u, w) \in SUBSET (DOMAIN s)
  BY DEF OfWindow
<1> QED
  BY <1>1, <1>2, FS_Subset, FS_CardinalityType

\* A request that is allowed adds itself to its window and to no other.
LEMMA OfWindowAppend ==
  ASSUME NEW s \in Seq(Grant), NEW e \in Grant, NEW u, NEW w
  PROVE  LET old == OfWindow(s, u, w)
             new == OfWindow(Append(s, e), u, w)
         IN  /\ e.opened[u] # w => new = old
             /\ e.opened[u] = w => Cardinality(new) = Cardinality(old) + 1
<1> DEFINE old == OfWindow(s, u, w)
           new == OfWindow(Append(s, e), u, w)
<1>1. CASE e.opened[u] # w
  BY <1>1, AppendOne DEF OfWindow
<1>2. CASE e.opened[u] = w
  <2>1. new = old \cup {Len(s) + 1} /\ Len(s) + 1 \notin old
    BY <1>2, AppendOne DEF OfWindow
  <2> HIDE DEF old, new
  <2>2. IsFiniteSet(old)
    BY OfWindowFinite DEF old
  <2>3. Cardinality(new) = Cardinality(old) + 1
    BY <2>1, <2>2, FS_AddElement
  <2> QED
    BY <1>2, <2>3 DEF old, new
<1> QED
  BY <1>1, <1>2

\* From the opening of a window on and for its length, only requests of that
\* window are admitted: no more than its quota.
LEMMA QuotaOfWindows ==
  ASSUME NEW s \in Seq(Grant), Windows(s), NEW u \in Unit, NEW i \in DOMAIN s
  PROVE  Cardinality(Admitted(s, u, s[i].opened[u])) <= Max[u]
<1> DEFINE w == s[i].opened[u]
<1>1. \A j \in DOMAIN s : /\ s[j].at \in Nat /\ s[j].opened[u] \in Nat
                          /\ s[j].at < s[j].opened[u] + Length[u]
                          /\ \/ w = s[j].opened[u]
                             \/ w + Length[u] <= s[j].opened[u]
                             \/ s[j].opened[u] + Length[u] <= w
  BY GrantNumbers DEF Windows
<1>2. w \in Nat /\ Length[u] \in Nat /\ Max[u] \in Nat
  BY <1>1, UnitNumbers
<1>3. Cardinality(OfWindow(s, u, w)) <= Max[u]
  BY DEF Windows
<1> HIDE DEF w
<1>4. Admitted(s, u, w) \in SUBSET OfWindow(s, u, w)
  <2> SUFFICES ASSUME NEW j \in Admitted(s, u, w)
               PROVE  j \in OfWindow(s, u, w)
    OBVIOUS
  <2>1. /\ j \in DOMAIN s /\ s[j].at \in w .. w + Length[u] - 1
        /\ s[j].opened[u] <= s[j].at
    BY DEF Admitted
  <2>2. w = s[j].opened[u]
    BY <1>1, <1>2, <2>1
  <2> QED
    BY <2>1, <2>2 DEF OfWindow
<1>5. /\ IsFiniteSet(OfWindow(s, u, w))
      /\ Cardinality(OfWindow(s, u, w)) \in Nat
  BY OfWindowFinite
<1>6. /\ Cardinality(Admitted(s, u, w)) <= Cardinality(OfWindow(s, u, w))
      /\ IsFiniteSet(Admitted(s, u, w))
  BY <1>4, <1>5, FS_Subset
<1>7. Cardinality(Admitted(s, u, w)) \in Nat
  BY <1>6, FS_CardinalityType
<1> QED
  BY <1>2, <1>3, <1>5, <1>6, <1>7 DEF w

\* What the counters of a limiter say of a key's requests stays true when an
\* attempt is refused.
LEMMA RefusedCounted ==
  ASSUME NEW s \in Seq(Grant), NEW l, IsLimiter(l), NEW now \in Nat,
         CountedBy(s, l)
  PROVE  CountedBy(s, Counted(l, now))
<1> DEFINE n == Counted(l, now)
<1>1. IsLimiter(n) /\ \A u \in Unit : After(n, l, u, now)
  BY AttemptCounted
<1> HIDE DEF n
<1> SUFFICES ASSUME NEW u \in Unit
             PROVE  /\ \A i \in DOMAIN s :
                         \/ s[i].opened[u] = n.last[u]
                         \/ s[i].opened[u] + Length[u] <= n.last[u]
                    /\ Cardinality(OfWindow(s, u, n.last[u])) <= n.req[u]
  BY DEF CountedBy, n
<1>2. /\ l.last[u] \in Nat /\ n.last[u] \in Nat /\ l.req[u] \in Nat
      /\ n.req[u] \in Nat /\ Length[u] \in Nat \ {0}
  BY <1>1, UnitNumbers DEF IsLimiter
<1>3. /\ \A i \in DOMAIN s : \/ s[i].opened[u] = l.last[u]
                             \/ s[i].opened[u] + Length[u] <= l.last[u]
      /\ Cardinality(OfWindow(s, u, l.last[u])) <= l.req[u]
  BY DEF CountedBy
<1>4. \A i \in DOMAIN s : s[i].opened[u] \in Nat
  BY GrantNumbers
<1>5. CASE Alike(n, l, u) \/ Added(n, l, u, now)
  <2>1. n.last[u] = l.last[u] /\ n.req[u] >= l.req[u]
    BY <1>2, <1>5 DEF Alike, Added
  <2>2. Cardinality(OfWindow(s, u, l.last[u])) \in Nat
    BY OfWindowFinite
  <2> QED
    BY <1>2, <1>3, <2>1, <2>2
<1>6. CASE Opened(n, l, u, now)
  <2>1. n.last[u] >= l.last[u] + Length[u] /\ n.req[u] = 1
    BY <1>6 DEF Opened
  <2>2. \A i \in DOMAIN s : /\ s[i].opened[u] + Length[u] <= n.last[u]
                            /\ s[i].opened[u] # n.last[u]
    BY <1>2, <1>3, <1>4, <2>1
  <2>3. OfWindow(s, u, n.last[u]) = {}
    BY <2>2 DEF OfWindow
  <2>4. Cardinality(OfWindow(s, u, n.last[u])) = 0
    BY <2>3, FS_EmptySet
  <2> QED
    BY <2>1, <2>2, <2>4
<1> QED
  BY <1>1, <1>5, <1>6 DEF After

\* An attempt that is allowed is within the quotas of its windows, which do not
\* overlap earlier ones.
LEMMA AllowedCountedToo ==
  ASSUME NEW s \in Seq(Grant), NEW l, IsLimiter(l), NEW now \in Nat,
         Windows(s), CountedBy(s, l), Refusal(l, now) = "none"
  PROVE  LET n == Counted(l, now)
             e == [at |-> now, opened |-> n.last]
         IN  /\ e \in Grant
             /\ Windows(Append(s, e)) /\ CountedBy(Append(s, e), n)
<1> DEFINE n == Counted(l, now)
           e == [at |-> now, opened |-> n.last]
           t == Append(s, e)
           x == Len(s) + 1
<1>1. /\ IsLimiter(n)
      /\ \A u \in Unit : /\ n.req[u] <= Max[u]
                         /\ Added(n, l, u, now) \/ Opened(n, l, u, now)
  BY AttemptCounted
<1>2. CountedBy(s, n)
  BY RefusedCounted
<1> HIDE DEF n
<1>3. e \in Grant /\ e.at = now /\ e.opened = n.last
  BY <1>1 DEF IsLimiter, Grant
<1> HIDE DEF e
<1>4. /\ t \in Seq(Grant) /\ DOMAIN t = DOMAIN s \cup {x} /\ x \notin DOMAIN s
      /\ t[x] = e /\ \A i \in DOMAIN s : t[i] = s[i]
  BY <1>3, AppendOne
<1>5. ASSUME NEW u \in Unit
      PROVE  /\ now < n.last[u] + Length[u]
             /\ Cardinality(OfWindow(t, u, n.last[u])) <= n.req[u]
  <2>1. /\ l.last[u] \in Nat /\ n.last[u] \in Nat /\ l.req[u] \in Nat
        /\ n.req[u] \in Nat /\ Length[u] \in Nat \ {0}
    BY <1>1, UnitNumbers DEF IsLimiter
  <2>2. Cardinality(OfWindow(t, u, n.last[u]))
          = Cardinality(OfWindow(s, u, n.last[u])) + 1
    BY <1>3, OfWindowAppend
  <2>3. Cardinality(OfWindow(s, u, n.last[u])) \in Nat
    BY OfWindowFinite
  <2>4. CASE Added(n, l, u, now)
    <3>1. n.last[u] = l.last[u] /\ n.req[u] = l.req[u] + 1
      BY <2>4 DEF Added
    <3>2. Cardinality(OfWindow(s, u, l.last[u])) <= l.req[u]
      BY DEF CountedBy
    <3> QED
      BY <2>1, <2>2, <2>3, <2>4, <3>1, <3>2 DEF Added
  <2>5. CASE Opened(n, l, u, now)
    <3>1. n.last[u] = now /\ n.req[u] = 1 /\ now >= l.last[u] + Length[u]
      BY <2>5 DEF Opened
    <3>2. \A i \in DOMAIN s : s[i].opened[u] # n.last[u]
      <4>1. \A i \in DOMAIN s : s[i].opened[u] \in Nat
        BY GrantNumbers
      <4> QED
        BY <2>1, <3>1, <4>1 DEF CountedBy
    <3>3. OfWindow(s, u, n.last[u]) = {}
      BY <3>2 DEF OfWindow
    <3>4. Cardinality(OfWindow(s, u, n.last[u])) = 0
      BY <3>3, FS_EmptySet
    <3> QED
      BY <2>1, <2>2, <3>1, <3>4
  <2> QED
    BY <1>1, <2>4, <2>5
<1>6. CountedBy(t, n)
  <2> SUFFICES ASSUME NEW u \in Unit, NEW i \in DOMAIN t
               PROVE  \/ t[i].opened[u] = n.last[u]
                      \/ t[i].opened[u] + Length[u] <= n.last[u]
    BY <1>5 DEF CountedBy
  <2> QED
    BY <1>2, <1>3, <1>4 DEF CountedBy
<1>7. Windows(t)
  <2> SUFFICES ASSUME NEW u \in Unit, NEW i \in DOMAIN t
               PROVE  /\ t[i].at < t[i].opened[u] + Length[u]
                      /\ \A j \in DOMAIN t :
                           \/ t[i].opened[u] = t[j].opened[u]
                           \/ t[i].opened[u] + Length[u] <= t[j].opened[u]
                           \/ t[j].opened[u] + Length[u] <= t[i].opened[u]
                      /\ Cardinality(OfWindow(t, u, t[i].opened[u])) <= Max[u]
    BY DEF Windows
  <2>1. \A j \in DOMAIN s : \/ s[j].opened[u] = e.opened[u]
                            \/ s[j].opened[u] + Length[u] <= e.opened[u]
    BY <1>2, <1>3 DEF CountedBy
  <2>2. t[i].at < t[i].opened[u] + Length[u]
    BY <1>3, <1>4, <1>5 DEF Windows
  <2>3. ASSUME NEW j \in DOMAIN t
        PROVE  \/ t[i].opened[u] = t[j].opened[u]
               \/ t[i].opened[u] + Length[u] <= t[j].opened[u]
               \/ t[j].opened[u] + Length[u] <= t[i].opened[u]
    <3>1. CASE i \in DOMAIN s /\ j \in DOMAIN s
      BY <1>4, <3>1 DEF Windows
    <3>2. CASE i = x \/ j = x
      BY <1>4, <2>1, <3>2
    <3> QED
      BY <1>4, <3>1, <3>2
  <2>4. Max[u] \in Nat /\ n.req[u] \in Nat /\ n.req[u] <= Max[u]
    BY <1>1, UnitNumbers DEF IsLimiter
  <2>5. Cardinality(OfWindow(t, u, n.last[u])) \in Nat
    BY <1>4, OfWindowFinite
  <2>6. Cardinality(OfWindow(t, u, t[i].opened[u])) <= Max[u]
    <3>1. CASE t[i].opened[u] = n.last[u]
      BY <1>5, <2>4, <2>5, <3>1
    <3>2. CASE t[i].opened[u] # n.last[u]
      <4>1. i \in DOMAIN s /\ t[i] = s[i]
        BY <1>3, <1>4, <3>2
      <4>2. OfWindow(t, u, s[i].opened[u]) = OfWindow(s, u, s[i].opened[u])
        BY <1>3, <3>2, <4>1, OfWindowAppend
      <4> QED
        BY <4>1, <4>2 DEF Windows
    <3> QED
      BY <3>1, <3>2
  <2> QED
    BY <2>2, <2>3, <2>6
<1> QED
  BY <1>3, <1>6, <1>7 DEF n, e

\* When a limiter's last action was an hour ago, the windows it counted are over.
LEMMA DroppedOver ==
  ASSUME NEW s \in Seq(Grant), NEW l, IsLimiter(l), NEW now \in Nat,
         CountedBy(s, l), LastAction(l) + Hour <= now
  PROVE  Over(s, now) /\ \A u \in Unit : Expired(l, u, now)
<1> SUFFICES ASSUME NEW u \in Unit
             PROVE  /\ \A i \in DOMAIN s : s[i].opened[u] + Length[u] <= now
                    /\ Expired(l, u, now)
  BY DEF Over
<1>1. /\ Hour \in Nat /\ Length[u] \in Nat \ {0} /\ Length[u] <= Hour
      /\ l.last[u] \in Nat /\ LastAction(l) \in Nat /\ l.last[u] <= LastAction(l)
  BY UnitNumbers, LastActionLatest DEF IsLimiter
<1>2. \A i \in DOMAIN s : /\ s[i].opened[u] \in Nat
                          /\ \/ s[i].opened[u] = l.last[u]
                             \/ s[i].opened[u] + Length[u] <= l.last[u]
  BY GrantNumbers DEF CountedBy
<1>3. ASSUME NEW i \in DOMAIN s
      PROVE  s[i].opened[u] + Length[u] <= now
  <2>1. l.last[u] + Length[u] <= now
    BY <1>1
  <2>2. /\ s[i].opened[u] \in Nat
        /\ \/ s[i].opened[u] = l.last[u]
           \/ s[i].opened[u] + Length[u] <= l.last[u]
    BY <1>2
  <2> QED
    BY <1>1, <2>1, <2>2
<1>4. Expired(l, u, now)
  BY <1>1 DEF Expired
<1> QED
  BY <1>3, <1>4

\* A new limiter has counted the requests whose windows are over.
LEMMA NewCounted ==
  ASSUME NEW s \in Seq(Grant), NEW now \in Nat, Over(s, now)
  PROVE  IsLimiter(NewLimiter(now)) /\ CountedBy(s, NewLimiter(now))
<1> DEFINE n == NewLimiter(now)
<1>1. /\ IsLimiter(n) /\ \A u \in Unit : n.last[u] = now /\ n.req[u] = 0
  BY DEF NewLimiter, IsLimiter
<1> HIDE DEF n
<1>2. ASSUME NEW u \in Unit
      PROVE  Cardinality(OfWindow(s, u, n.last[u])) = 0
  <2>1. \A i \in DOMAIN s : s[i].opened[u] \in Nat
    BY GrantNumbers
  <2>2. \A i \in DOMAIN s : s[i].opened[u] # n.last[u]
    BY <1>1, <2>1, UnitNumbers DEF Over
  <2>3. OfWindow(s, u, n.last[u]) = {}
    BY <2>2 DEF OfWindow
  <2> QED
    BY <2>3, FS_EmptySet
<1> QED
  BY <1>1, <1>2 DEF Over, CountedBy, n

-----------------------------------------------------------------------------
\* The invariant holds at the start.
LEMMA InitInv == Init => IInv
<1> SUFFICES ASSUME Init PROVE IInv
  OBVIOUS
<1> USE DEF Init
<1>1. Types
  <2>1. NewLimiter(0) \in [req : [Unit -> Nat], last : [Unit -> Nat]]
    BY DEF NewLimiter
  <2>2. <<>> \in Seq(Grant)
    OBVIOUS
  <2>3. /\ lims \in [Ref -> [req : [Unit -> Nat], last : [Unit -> Nat]]]
        /\ allowed \in [Key -> Seq(Grant)]
    BY <2>1, <2>2
  <2> QED
    BY <2>3 DEF Types
<1>2. TimesOK
  BY DEF TimesOK, NewLimiter
<1>3. HoldersOK /\ CleanerOK /\ Attached
  BY DEF HoldersOK, CleanerOK, Attached
<1>4. HistoryOK
  <2>1. \A k \in Key : DOMAIN allowed[k] = {} /\ m[k] = NoRef
    OBVIOUS
  <2> QED
    BY <2>1 DEF HistoryOK, Windows, Over
<1> QED
  BY <1>1, <1>2, <1>3, <1>4 DEF IInv

\* Time passes: what was over stays over.
LEMMA TickStep == IInv /\ Tick => IInv'
<1> SUFFICES ASSUME IInv, Tick PROVE IInv'
  OBVIOUS
<1> USE DEF IInv
<1>1. /\ clock' = clock + 1 /\ clock \in Nat
      /\ UNCHANGED <<m, lims, requestVars, cleanerVars>>
  BY DEF Tick, Types
<1>2. Types' /\ HoldersOK' /\ CleanerOK' /\ Attached'
  BY <1>1 DEF requestVars, cleanerVars, Types, HoldersOK, CleanerOK, Attached
<1>3. TimesOK'
  BY <1>1 DEF requestVars, cleanerVars, Types, TimesOK
<1>4. HistoryOK'
  <2> SUFFICES ASSUME ~raced, NEW k \in Key, m[k] = NoRef
               PROVE  Over(allowed[k], clock + 1)
    BY <1>1 DEF requestVars, cleanerVars, HistoryOK
  <2>1. allowed[k] \in Seq(Grant) /\ Over(allowed[k], clock)
    BY DEF Types, HistoryOK
  <2> QED
    BY <1>1, <2>1, GrantNumbers, UnitNumbers DEF Over
<1> QED
  BY <1>2, <1>3, <1>4

\* A request gets a limiter that is in the map.
LEMMA GetStep ==
  ASSUME IInv, NEW q \in Request, NEW k \in Key, GetLimiter(q, k)
  PROVE  IInv'
<1> USE DEF IInv
<1>1. /\ pc[q] = "idle" /\ m[k] # NoRef
      /\ ref' = [ref EXCEPT ![q] = m[k]] /\ key' = [key EXCEPT ![q] = k]
      /\ pc' = [pc EXCEPT ![q] = "got"]
      /\ UNCHANGED <<clock, m, lims, at, allowed, cleanerVars>>
  BY DEF GetLimiter
<1>2. m[k] \in Ref
  BY <1>1 DEF Types
<1>3. Types' /\ TimesOK' /\ CleanerOK' /\ HistoryOK'
  BY <1>1, <1>2 DEF cleanerVars, Types, TimesOK, CleanerOK, HistoryOK
<1>4. HoldersOK' /\ Attached'
  BY <1>1, <1>2 DEF cleanerVars, Types, HoldersOK, Attached
<1> QED
  BY <1>3, <1>4

\* A request makes the limiter of a key that has none: the windows of the key
\* are over, so that the limiter misses nothing.
LEMMA MakeStep ==
  ASSUME IInv, NEW q \in Request, NEW k \in Key, NEW r \in Ref,
         MakeLimiter(q, k, r)
  PROVE  IInv'
<1> USE DEF IInv
<1>1. /\ pc[q] = "idle" /\ m[k] = NoRef /\ Free(r)
      /\ m' = [m EXCEPT ![k] = r]
      /\ lims' = [lims EXCEPT ![r] = NewLimiter(clock)]
      /\ ref' = [ref EXCEPT ![q] = r] /\ key' = [key EXCEPT ![q] = k]
      /\ pc' = [pc EXCEPT ![q] = "got"]
      /\ UNCHANGED <<clock, at, allowed, cleanerVars>>
  BY DEF MakeLimiter
<1>2. /\ clock \in Nat /\ IsLimiter(NewLimiter(clock))
      /\ \A u \in Unit : NewLimiter(clock).last[u] = clock
  BY DEF Types, IsLimiter, NewLimiter
<1>3. /\ m'[k] = r /\ lims'[r] = NewLimiter(clock)
      /\ \A j \in Key : j # k => m'[j] = m[j] /\ m[j] # r
      /\ \A s \in Ref : s # r => lims'[s] = lims[s]
  BY <1>1 DEF Types, Free
<1>4. Types'
  BY <1>1, <1>2 DEF cleanerVars, Types, IsLimiter
<1>5. TimesOK'
  BY <1>1, <1>2, <1>3 DEF cleanerVars, Types, TimesOK
<1>6. HoldersOK'
  BY <1>1, <1>3, NoneAssumption DEF Types, HoldersOK
<1>7. CleanerOK'
  BY <1>1, <1>3, NoneAssumption DEF cleanerVars, CleanerOK
<1>8. Attached'
  <2> SUFFICES ASSUME ~raced, NEW p \in Request, pc'[p] # "idle"
               PROVE  m'[key'[p]] = ref'[p]
    BY <1>1 DEF cleanerVars, Attached
  <2>1. CASE p = q
    BY <1>1, <1>3, <2>1 DEF Types
  <2>2. CASE p # q
    <3>1. pc[p] # "idle" /\ key'[p] = key[p] /\ ref'[p] = ref[p]
      BY <1>1, <2>2 DEF Types
    <3>2. m[key[p]] = ref[p] /\ key[p] \in Key /\ ref[p] \in Ref
      BY <3>1 DEF Attached, HoldersOK
    <3> QED
      BY <1>1, <1>3, <3>1, <3>2, NoneAssumption
  <2> QED
    BY <2>1, <2>2
<1>9. HistoryOK'
  <2> SUFFICES ASSUME ~raced, NEW j \in Key
               PROVE  /\ Windows(allowed[j])
                      /\ m'[j] = NoRef => Over(allowed[j], clock)
                      /\ m'[j] # NoRef => CountedBy(allowed[j], lims'[m'[j]])
    BY <1>1 DEF cleanerVars, HistoryOK
  <2>1. CASE j = k
    <3>1. allowed[k] \in Seq(Grant) /\ Windows(allowed[k])
          /\ Over(allowed[k], clock)
      BY <1>1 DEF Types, HistoryOK
    <3>2. CountedBy(allowed[k], NewLimiter(clock))
      BY <1>2, <3>1, NewCounted
    <3> QED
      BY <1>3, <2>1, <3>1, <3>2, NoneAssumption
  <2>2. CASE j # k
    <3>1. m'[j] = m[j] /\ m[j] # r
      BY <1>3, <2>2
    <3>2. m[j] # NoRef => lims'[m[j]] = lims[m[j]]
      BY <1>3, <3>1 DEF Types
    <3> QED
      BY <3>1, <3>2 DEF HistoryOK
  <2> QED
    BY <2>1, <2>2
<1> QED
  BY <1>4, <1>5, <1>6, <1>7, <1>8, <1>9

\* A request reads the clock.
LEMMA ReadClockStep ==
  ASSUME IInv, NEW q \in Request, ReadClock(q)
  PROVE  IInv'
<1> USE DEF IInv
<1>1. /\ pc[q] = "got" /\ at' = [at EXCEPT ![q] = clock]
      /\ pc' = [pc EXCEPT ![q] = "stamped"]
      /\ UNCHANGED <<clock, m, lims, key, ref, allowed, cleanerVars>>
  BY DEF ReadClock
<1>2. Types' /\ TimesOK' /\ CleanerOK' /\ HistoryOK'
  BY <1>1 DEF cleanerVars, Types, TimesOK, CleanerOK, HistoryOK
<1>3. HoldersOK' /\ Attached'
  BY <1>1 DEF cleanerVars, Types, HoldersOK, Attached
<1> QED
  BY <1>2, <1>3

\* An attempt is counted in the limiter that the map has for the key, unless a
\* limiter in use was dropped before.
LEMMA AttemptStep ==
  ASSUME IInv, NEW q \in Request, Attempt(q)
  PROVE  IInv'
<1> USE DEF IInv
<1> DEFINE old == lims[ref[q]]
           new == Counted(old, at[q])
           right == Refusal(old, at[q]) = "none"
           k == key[q]
           e == [at |-> at[q], opened |-> new.last]
<1>1. /\ pc[q] = "stamped"
      /\ lims' = [lims EXCEPT ![ref[q]] = new]
      /\ allowed' = IF right THEN [allowed EXCEPT ![k] = Append(@, e)]
                             ELSE allowed
      /\ pc' = [pc EXCEPT ![q] = "idle"] /\ key' = [key EXCEPT ![q] = NoKey]
      /\ ref' = [ref EXCEPT ![q] = NoRef] /\ at' = [at EXCEPT ![q] = 0]
      /\ UNCHANGED <<clock, m, cleanerVars>>
  BY DEF Attempt
<1>2. /\ k \in Key /\ ref[q] \in Ref /\ at[q] \in Nat /\ at[q] <= clock
      /\ IsLimiter(old) /\ clock \in Nat
  BY <1>1 DEF Types, TimesOK, HoldersOK, IsLimiter
<1>3. /\ IsLimiter(new)
      /\ \A u \in Unit : new.last[u] = old.last[u] \/ new.last[u] = at[q]
  BY <1>2, AttemptCounted DEF After, Alike, Added, Opened
<1>4. e \in Grant /\ allowed[k] \in Seq(Grant)
  BY <1>2, <1>3 DEF IsLimiter, Grant, Types
<1> HIDE DEF new, right, e
<1>5. /\ lims'[ref[q]] = new
      /\ \A r \in Ref : r # ref[q] => lims'[r] = lims[r]
  BY <1>1, <1>2 DEF Types
<1>6. Types'
  <2>1. Append(allowed[k], e) \in Seq(Grant)
    BY <1>4
  <2>2. allowed' \in [Key -> Seq(Grant)]
    BY <1>1, <1>2, <2>1 DEF Types
  <2>3. lims' \in [Ref -> [req : [Unit -> Nat], last : [Unit -> Nat]]]
    BY <1>1, <1>2, <1>3 DEF Types, IsLimiter
  <2> QED
    BY <1>1, <2>2, <2>3 DEF cleanerVars, Types
<1>7. TimesOK'
  <2>1. \A r \in Ref : \A u \in Unit : lims'[r].last[u] <= clock
    BY <1>2, <1>3, <1>5 DEF TimesOK
  <2> QED
    BY <1>1, <1>2, <2>1 DEF cleanerVars, Types, TimesOK
<1>8. HoldersOK' /\ CleanerOK' /\ Attached'
  BY <1>1, <1>2 DEF cleanerVars, Types, HoldersOK, CleanerOK, Attached
<1>9. HistoryOK'
  <2> SUFFICES ASSUME ~raced, NEW j \in Key
               PROVE  /\ Windows(allowed'[j])
                      /\ m[j] = NoRef => Over(allowed'[j], clock)
                      /\ m[j] # NoRef => CountedBy(allowed'[j], lims'[m[j]])
    BY <1>1 DEF cleanerVars, HistoryOK
  <2>1. m[k] = ref[q] /\ m[k] # NoRef
    BY <1>1, <1>2, NoneAssumption DEF Attached
  <2>2. CASE j # k
    <3>1. allowed'[j] = allowed[j]
      BY <1>1, <1>2, <2>2 DEF Types
    <3>2. m[j] # ref[q]
      BY <1>2, <2>1, <2>2 DEF HoldersOK
    <3>3. m[j] # NoRef => lims'[m[j]] = lims[m[j]]
      BY <1>5, <3>2 DEF Types
    <3> QED
      BY <3>1, <3>3 DEF HistoryOK
  <2>3. CASE j = k
    <3>1. Windows(allowed[k]) /\ CountedBy(allowed[k], old)
      BY <1>2, <2>1 DEF HistoryOK
    <3>2. lims'[m[k]] = new
      BY <1>5, <2>1
    <3>3. CASE right
      <4>1. allowed'[k] = Append(allowed[k], e)
        BY <1>1, <1>2, <3>3 DEF Types
      <4>2. Windows(Append(allowed[k], e)) /\ CountedBy(Append(allowed[k], e), new)
        BY <1>2, <1>4, <3>1, <3>3, AllowedCountedToo DEF right, new, e
      <4> QED
        BY <2>1, <2>3, <3>2, <4>1, <4>2
    <3>4. CASE ~right
      <4>1. allowed'[k] = allowed[k]
        BY <1>1, <3>4
      <4>2. CountedBy(allowed[k], new)
        BY <1>2, <1>4, <3>1, RefusedCounted DEF new
      <4> QED
        BY <2>1, <2>3, <3>1, <3>2, <4>1, <4>2
    <3> QED
      BY <3>3, <3>4
  <2> QED
    BY <2>2, <2>3
<1> QED
  BY <1>6, <1>7, <1>8, <1>9

\* The cleaner starts, ends and stops, and looks at a key.
LEMMA CleanerStep ==
  ASSUME IInv, Sweep \/ (\E k \in Key : Check(k)) \/ SweepDone \/ Stop
  PROVE  IInv'
<1> USE DEF IInv
<1>1. UNCHANGED <<clock, m, lims, requestVars, raced>>
  BY DEF Sweep, Check, SweepDone, Stop
<1>2. Attached' /\ HistoryOK' /\ HoldersOK'
  BY <1>1 DEF requestVars, Attached, HistoryOK, HoldersOK
<1>3. Types' /\ TimesOK' /\ CleanerOK'
  <2>1. CASE Sweep
    BY <1>1, <2>1 DEF Sweep, requestVars, Types, TimesOK, CleanerOK
  <2>2. ASSUME NEW k \in Key, Check(k) PROVE Types' /\ TimesOK' /\ CleanerOK'
    <3>1. /\ cpc = "sweep" /\ k \in todo /\ todo' = todo \ {k} /\ ct' = ct
          /\ \/ /\ Idle(lims[m[k]], ct) /\ cpc' = "delete" /\ ckey' = k
                /\ seen' = LastAction(lims[m[k]])
             \/ UNCHANGED <<cpc, ckey, seen>>
      BY <2>2 DEF Check
    <3>2. m[k] # NoRef /\ IsLimiter(lims[m[k]])
      BY <3>1 DEF CleanerOK, Types, IsLimiter
    <3>3. LastAction(lims[m[k]]) \in Nat
      BY <3>2, LastActionLatest
    <3> QED
      BY <1>1, <3>1, <3>2, <3>3
      DEF Idle, requestVars, Types, TimesOK, CleanerOK
  <2>3. CASE SweepDone
    BY <1>1, <2>3 DEF SweepDone, requestVars, Types, TimesOK, CleanerOK
  <2>4. CASE Stop
    BY <1>1, <2>4 DEF Stop, requestVars, Types, TimesOK, CleanerOK
  <2> QED
    BY <2>1, <2>2, <2>3, <2>4
<1> QED
  BY <1>2, <1>3

\* The limiter that is about to be dropped.
LEMMA Dropped ==
  ASSUME IInv, Delete
  PROVE  /\ ckey \in Key /\ m[ckey] \in Ref /\ IsLimiter(lims[m[ckey]])
         /\ clock \in Nat /\ seen + Hour <= clock
<1>1. /\ ckey \in Key /\ m[ckey] # NoRef /\ ct - seen >= CheckDuration
      /\ ct <= clock /\ clock \in Nat /\ ct \in Nat /\ seen \in Nat
  BY DEF IInv, Delete, CleanerOK, TimesOK, Types
<1> QED
  BY <1>1, CleanAssumption, WindowAssumption DEF IInv, Types, IsLimiter

\* A limiter is dropped.  Either somebody uses it, or its windows are over.
LEMMA DeleteStep == IInv /\ Delete => IInv'
<1> SUFFICES ASSUME IInv, Delete PROVE IInv'
  OBVIOUS
<1> USE DEF IInv
<1>1. /\ cpc = "delete" /\ cpc' = "sweep"
      /\ m' = [m EXCEPT ![ckey] = NoRef]
      /\ raced' = (\/ raced
                   \/ LastAction(lims[m[ckey]]) # seen
                   \/ \E q \in Request : ref[q] = m[ckey])
      /\ seen' = 0 /\ UNCHANGED <<clock, lims, requestVars, ct, todo>>
  BY DEF Delete
<1>2. /\ ckey \in Key /\ m[ckey] \in Ref /\ IsLimiter(lims[m[ckey]])
      /\ clock \in Nat /\ seen + Hour <= clock
  BY Dropped
<1>3. /\ m'[ckey] = NoRef /\ \A k \in Key : k # ckey => m'[k] = m[k]
  BY <1>1, <1>2 DEF Types
<1>4. Types'
  BY <1>1 DEF requestVars, Types
<1>5. TimesOK' /\ HoldersOK'
  BY <1>1, <1>3 DEF requestVars, TimesOK, HoldersOK
<1>6. CleanerOK'
  BY <1>1, <1>3 DEF CleanerOK, Types
<1>7. ASSUME ~raced'
      PROVE  /\ ~raced /\ LastAction(lims[m[ckey]]) = seen
             /\ \A q \in Request : ref[q] # m[ckey]
  BY <1>1, <1>7
<1>8. Attached'
  <2> SUFFICES ASSUME ~raced', NEW q \in Request, pc[q] # "idle"
               PROVE  m'[key[q]] = ref[q]
    BY <1>1 DEF requestVars, Attached
  <2>1. m[key[q]] = ref[q] /\ ref[q] # m[ckey] /\ key[q] \in Key
    BY <1>7 DEF Attached, HoldersOK
  <2> QED
    BY <1>3, <2>1
<1>9. HistoryOK'
  <2> SUFFICES ASSUME ~raced', NEW k \in Key
               PROVE  /\ Windows(allowed[k])
                      /\ m'[k] = NoRef => Over(allowed[k], clock)
                      /\ m'[k] # NoRef => CountedBy(allowed[k], lims[m'[k]])
    BY <1>1 DEF requestVars, HistoryOK
  <2>1. CASE k # ckey
    BY <1>3, <1>7, <2>1 DEF HistoryOK
  <2>2. CASE k = ckey
    <3>1. /\ Windows(allowed[k]) /\ CountedBy(allowed[k], lims[m[ckey]])
          /\ allowed[k] \in Seq(Grant)
      BY <1>2, <1>7, <2>2, NoneAssumption DEF HistoryOK, Types
    <3>2. Over(allowed[k], clock)
      BY <1>2, <1>7, <3>1, DroppedOver
    <3> QED
      BY <1>3, <2>2, <3>1, <3>2
  <2> QED
    BY <2>1, <2>2
<1> QED
  BY <1>4, <1>5, <1>6, <1>8, <1>9

\* Every step keeps the invariant.
LEMMA NextInv == IInv /\ [Next]_vars => IInv'
<1> SUFFICES ASSUME IInv, [Next]_vars PROVE IInv'
  OBVIOUS
<1>1. CASE UNCHANGED vars
  BY <1>1 DEF vars, IInv, Types, TimesOK, HoldersOK, CleanerOK, Attached, HistoryOK
<1>2. CASE Next
  BY <1>2, TickStep, GetStep, MakeStep, ReadClockStep, AttemptStep, CleanerStep,
     DeleteStep
  DEF Next
<1> QED
  BY <1>1, <1>2

\* IInv is an invariant of the pool.
THEOREM Invariance == Spec => []IInv
BY InitInv, NextInv, PTL DEF Spec

\* Every variable keeps its type.
THEOREM TypeCorrect == Spec => []Types
BY Invariance, PTL DEF IInv

\* As long as no limiter in use was dropped, no key is allowed more requests
\* from the opening of one of its windows on and for its length than its quota,
\* however its limiters come and go (ratelimit.go:204-220).
THEOREM KeyQuotaHolds == Spec => []KeyQuotaUnlessRaced
<1>1. IInv => KeyQuotaUnlessRaced
  <2> SUFFICES ASSUME IInv, ~raced, NEW k \in Key, NEW u \in Unit,
                      NEW i \in DOMAIN allowed[k]
               PROVE  Cardinality(Admitted(allowed[k], u, allowed[k][i].opened[u]))
                        <= Max[u]
    BY DEF KeyQuotaUnlessRaced, KeyQuota
  <2>1. allowed[k] \in Seq(Grant) /\ Windows(allowed[k])
    BY DEF IInv, Types, HistoryOK
  <2> QED
    BY <2>1, QuotaOfWindows
<1> QED
  BY Invariance, <1>1, PTL

\* The cleaner drops only windows that are over, unless somebody opened one
\* after it had looked (ratelimit.go:206-207).
THEOREM DropsOnlyExpiredHolds == Spec => DropsOnlyExpired
<1> DEFINE Good == Delete /\ LastAction(lims[m[ckey]]) = seen =>
                     \A u \in Unit : Expired(lims[m[ckey]], u, clock)
<1>1. IInv => Good
  <2> SUFFICES ASSUME IInv, Delete, LastAction(lims[m[ckey]]) = seen,
                      NEW u \in Unit
               PROVE  Expired(lims[m[ckey]], u, clock)
    OBVIOUS
  <2> DEFINE l == lims[m[ckey]]
  <2>1. IsLimiter(l) /\ clock \in Nat /\ LastAction(l) + Hour <= clock
    BY Dropped
  <2> HIDE DEF l
  <2>2. /\ Hour \in Nat /\ Length[u] \in Nat /\ Length[u] <= Hour
        /\ l.last[u] \in Nat /\ LastAction(l) \in Nat
        /\ l.last[u] <= LastAction(l)
    BY <2>1, UnitNumbers, LastActionLatest DEF IsLimiter
  <2>3. Expired(l, u, clock)
    BY <2>1, <2>2 DEF Expired
  <2> QED
    BY <2>3 DEF l
<1>2. IInv /\ [Next]_vars => [Good]_vars
  BY <1>1
<1> QED
  BY Invariance, <1>2, PTL DEF Spec, DropsOnlyExpired

-----------------------------------------------------------------------------
(* One limiter, under requests of one client *)

\* The grants of a window are among the attempts counted in it and within its
\* quota; an allowed caller was counted in every window, none of whose quotas
\* is zero.
GrantsCounted == \A u \in Unit : granted[u] <= lim.req[u] /\ granted[u] <= Max[u]
AllowedCounted ==
  \A c \in Caller : callerPc[c] = "allowed" =>
    \A u \in Unit : lim.req[u] >= 1 /\ Max[u] >= 1

LimiterInv ==
  LimiterTypeOK /\ GrantsCounted /\ AllowedCounted /\ SecondInside(lim)

\* A window after an attempt: as before, with one attempt more, or opened anew.
Kept(n, l, u) ==
  \/ n.last[u] = l.last[u] /\ n.req[u] \in {l.req[u], l.req[u] + 1}
  \/ n.last[u] # l.last[u] /\ n.req[u] = 1

\* What an attempt does to the windows.
LEMMA AttemptKeeps ==
  ASSUME NEW l, IsLimiter(l), NEW now \in Nat
  PROVE  LET n == Counted(l, now)
         IN  /\ IsLimiter(n)
             /\ \A u \in Unit : Kept(n, l, u)
             /\ Refusal(l, now) = "none" =>
                  \A u \in Unit : /\ n.req[u] >= 1 /\ n.req[u] <= Max[u]
                                  /\ n.last[u] = l.last[u]
                                       => n.req[u] = l.req[u] + 1
<1> DEFINE n == Counted(l, now)
<1>1. /\ IsLimiter(n)
      /\ \A u \in Unit : After(n, l, u, now)
      /\ Refusal(l, now) = "none" =>
           \A u \in Unit : /\ n.req[u] <= Max[u]
                           /\ Added(n, l, u, now) \/ Opened(n, l, u, now)
  BY AttemptCounted
<1> HIDE DEF n
<1>2. \A u \in Unit : /\ l.last[u] \in Nat /\ l.req[u] \in Nat
                      /\ Length[u] \in Nat \ {0}
  BY UnitNumbers DEF IsLimiter
<1> QED
  BY <1>1, <1>2 DEF After, Alike, Added, Opened, Kept, n

\* The invariant holds at the start.
LEMMA LimiterInitInv == LimiterInit => LimiterInv
BY LimiterAssumption, UnitNumbers
DEF LimiterInit, LimiterInv, LimiterTypeOK, NewLimiter, GrantsCounted, AllowedCounted,
    SecondInside, Unit

\* Every step keeps the invariant.
LEMMA LimiterStep == LimiterInv /\ [LimiterNext]_limiterVars => LimiterInv'
<1> SUFFICES ASSUME LimiterInv, [LimiterNext]_limiterVars PROVE LimiterInv'
  OBVIOUS
<1> USE DEF LimiterInv
<1>1. CASE LimiterTick
  BY <1>1, LimiterAssumption
  DEF LimiterTick, LimiterTypeOK, GrantsCounted, AllowedCounted, SecondInside
<1>2. ASSUME NEW c \in Caller, Stamp(c) PROVE LimiterInv'
  BY <1>2, LimiterAssumption
  DEF Stamp, LimiterTypeOK, GrantsCounted, AllowedCounted, SecondInside
<1>3. ASSUME NEW c \in Caller, CountAttempt(c) PROVE LimiterInv'
  <2> DEFINE new == Counted(lim, stamp[c])
             right == Refusal(lim, stamp[c]) = "none"
  <2>1. IsLimiter(lim) /\ stamp[c] \in Nat
    BY DEF LimiterTypeOK, IsLimiter
  <2>2. /\ IsLimiter(new)
        /\ \A u \in Unit : Kept(new, lim, u)
        /\ right => \A u \in Unit : /\ new.req[u] >= 1 /\ new.req[u] <= Max[u]
                                    /\ new.last[u] = lim.last[u]
                                         => new.req[u] = lim.req[u] + 1
    BY <2>1, AttemptKeeps
  <2>3. /\ lim' = new
        /\ callerPc' = [callerPc EXCEPT ![c] =
                         IF right THEN "allowed" ELSE "refused"]
        /\ granted' = [u \in Unit |->
                         (IF new.last[u] = lim.last[u] THEN granted[u] ELSE 0)
                         + (IF right THEN 1 ELSE 0)]
        /\ time' = time /\ stamp' = stamp /\ attempts' = attempts
    BY <1>3 DEF CountAttempt
  <2> HIDE DEF new, right
  <2>4. GrantsCounted'
    BY <2>2, <2>3, UnitNumbers
    DEF GrantsCounted, Kept, LimiterTypeOK, IsLimiter
  <2>5. AllowedCounted'
    <3> SUFFICES ASSUME NEW k \in Caller, callerPc'[k] = "allowed", NEW u \in Unit
                 PROVE  new.req[u] >= 1 /\ Max[u] >= 1
      BY <2>3 DEF AllowedCounted
    <3>1. new.req[u] \in Nat /\ Max[u] \in Nat /\ lim.req[u] \in Nat
      BY <2>1, <2>2, UnitNumbers DEF IsLimiter
    <3>2. CASE k = c
      <4>1. right
        BY <2>3, <3>2 DEF LimiterTypeOK
      <4> QED
        BY <2>2, <3>1, <4>1
    <3>3. CASE k # c
      <4>1. callerPc[k] = "allowed"
        BY <2>3, <3>3 DEF LimiterTypeOK
      <4> QED
        BY <2>2, <3>1, <4>1 DEF AllowedCounted, Kept
    <3> QED
      BY <3>2, <3>3
  <2>6. LimiterTypeOK'
    BY <2>1, <2>2, <2>3 DEF LimiterTypeOK, IsLimiter
  <2>7. SecondInside(lim)'
    BY <2>1, <2>3, SecondStaysInside DEF new
  <2> QED
    BY <2>4, <2>5, <2>6, <2>7
<1>4. ASSUME NEW c \in Caller, Report(c) PROVE LimiterInv'
  BY <1>4 DEF Report, LimiterTypeOK, GrantsCounted, AllowedCounted, SecondInside
<1>5. CASE UNCHANGED limiterVars
  BY <1>5 DEF limiterVars, LimiterTypeOK, GrantsCounted, AllowedCounted, SecondInside
<1> QED
  BY <1>1, <1>2, <1>3, <1>4, <1>5 DEF LimiterNext

\* LimiterInv is an invariant of the limiter.
THEOREM LimiterInvariance == LimiterSpec => []LimiterInv
BY LimiterInitInv, LimiterStep, PTL DEF LimiterSpec

\* Every variable keeps its type.
THEOREM LimiterTypes == LimiterSpec => []LimiterTypeOK
BY LimiterInvariance, PTL DEF LimiterInv

\* No window of any unit grants more attempts than its quota, however many
\* callers race and however stale their clock readings are.
THEOREM QuotaKept == LimiterSpec => []WindowQuota
<1>1. LimiterInv => WindowQuota
  BY DEF LimiterInv, GrantsCounted, WindowQuota
<1> QED
  BY LimiterInvariance, <1>1, PTL

\* An allowed caller is never told that it has its full quota left.
THEOREM ReportsCount == LimiterSpec => []ReportCountsCaller
<1>1. LimiterInv => ReportCountsCaller
  BY UnitNumbers
  DEF LimiterInv, LimiterTypeOK, AllowedCounted, ReportCountsCaller,
      RequestsLeft
<1> QED
  BY LimiterInvariance, <1>1, PTL

\* A client that is refused is told to wait until the window that refused it is
\* over; the retry is not refused by that window or by that of the second, unless
\* their quota is zero, for all lengths of the windows and all quotas.
THEOREM RetryMeetsOthersHolds == LimiterSpec => RetryMeetsOthers
<1> DEFINE Right ==
      \A c \in Caller : \A u \in Unit :
        CountAttempt(c) /\ Refusal(lim, stamp[c]) = u =>
          LET until == stamp[c] + Wait(lim, stamp[c])
              again == Refusal(lim', until)
          IN  /\ Expired(lim', u, until) /\ ~Expired(lim', u, until - 1)
              /\ again \in {u, "second"} => Max[again] = 0
<1>1. LimiterInv => Right
  <2> SUFFICES ASSUME LimiterInv, NEW c \in Caller, NEW u \in Unit,
                      CountAttempt(c), Refusal(lim, stamp[c]) = u
               PROVE  LET until == stamp[c] + Wait(lim, stamp[c])
                          again == Refusal(lim', until)
                      IN  /\ Expired(lim', u, until) /\ ~Expired(lim', u, until - 1)
                          /\ again \in {u, "second"} => Max[again] = 0
    OBVIOUS
  <2> DEFINE until == stamp[c] + Wait(lim, stamp[c])
  <2>1. IsLimiter(lim) /\ stamp[c] \in Nat /\ SecondInside(lim)
    BY DEF LimiterInv, LimiterTypeOK, IsLimiter
  <2>2. lim' = Counted(lim, stamp[c])
    BY DEF CountAttempt
  <2>3. /\ IsLimiter(lim') /\ SecondInside(lim')
    BY <2>1, <2>2, AttemptCounted, SecondStaysInside
  <2>4. /\ Expired(lim', u, until) /\ ~Expired(lim', u, until - 1)
        /\ until = lim'.last[u] + Length[u]
    BY <2>1, <2>2, WaitEndsWindow
  <2> HIDE DEF until
  <2>5. /\ lim'.last["second"] \in Nat /\ lim'.last[u] \in Nat
        /\ Length[u] \in Nat /\ Length["second"] = 1 /\ "second" \in Unit
    BY <2>3, UnitNumbers DEF IsLimiter, Unit, Length
  <2>6. Expired(lim', "second", until) /\ until \in Nat
    <3>1. u \in {"hour", "minute", "second"}
      BY DEF Unit
    <3>2. lim'.last["second"] < lim'.last[u] + Length[u]
      BY <2>3, <2>5, <3>1 DEF SecondInside
    <3> QED
      BY <2>4, <2>5, <3>2 DEF Expired
  <2>7. Refusal(lim', until) \in {u, "second"} => Max[Refusal(lim', until)] = 0
    BY <2>3, <2>4, <2>5, <2>6, OverRefusesNone
  <2> QED
    BY <2>4, <2>7 DEF until
<1>2. LimiterInv /\ [LimiterNext]_limiterVars => [Right]_limiterVars
  BY <1>1
<1> QED
  BY LimiterInvariance, <1>2, PTL DEF LimiterSpec, RetryMeetsOthers
=============================================================================
