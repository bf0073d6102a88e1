------------------------------- MODULE Router -------------------------------
(***************************************************************************)
(* Router of router/v3.go and router/router.go: routes are registered,     *)
(* then requests are matched against them, concurrently, with the params   *)
(* of each in a wrapper borrowed from a pool.                              *)
(*                                                                         *)
(* A path is its segments and whether a slash ends it, "/" being no        *)
(* segments and a slash: what cleanPath returns (see CleanPath).  A route  *)
(* is a sequence of parts, typed by their first byte as nodePart is: a     *)
(* literal '/', a param ':' or a star '*'.  The map from the literal       *)
(* prefix to the routes that have it is the order of registration.         *)
(***************************************************************************)
EXTENDS Naturals, Sequences, FiniteSets

CONSTANTS
  Segment,    \* the segments of paths, literals and the names of params
  Request,    \* goroutines that call ServeHTTP
  Wrapper,    \* memory for paramsWrapper values
  Def,        \* what may be registered: [method, pattern]
  Target,     \* what is asked for and disabled: [method, path]
  MaxRoutes,  \* bound: so many routes
  AutoHead,   \* ~opts.NoAutoHeadToGet
  NoWrapper

ASSUME NoWrapperAssumption == NoWrapper \notin Wrapper
ASSUME AutoHeadAssumption == AutoHead \in BOOLEAN

Part == [type : {"/", ":", "*"}, name : Segment]
ASSUME DefAssumption == \A d \in Def : d.pattern \in Seq(Part)

VARIABLES
  routes,     \* the routes, in the order of their registration
  maxParams,  \* Router.maxParams
  serving,    \* whether the server was started
  disabled,   \* the routes that are disabled
  pool,       \* the wrappers in Router.pp
  params,     \* of each wrapper, the matches whose params it holds, in order
  pc,         \* where each request is: "idle", "matched" or "running"
  path,       \* its path
  rn,         \* its route, or 0
  p           \* its wrapper, or NoWrapper

tableVars   == <<routes, maxParams, serving>>
requestVars == <<pc, path, rn, p>>
vars == <<routes, maxParams, serving, disabled, pool, params, pc, path, rn, p>>

NoPath == [segs |-> <<>>, slash |-> FALSE]

Init ==
  /\ routes = <<>> /\ maxParams = 0 /\ serving = FALSE
  /\ disabled = {}
  /\ pool = {}
  /\ params = [x \in Wrapper |-> <<>>]
  /\ pc = [q \in Request |-> "idle"]
  /\ path = [q \in Request |-> NoPath]
  /\ rn = [q \in Request |-> 0]
  /\ p = [q \in Request |-> NoWrapper]

-----------------------------------------------------------------------------
(* Registration *)

Stars(pattern)     == {i \in DOMAIN pattern : pattern[i].type = "*"}
NumParams(pattern) == Cardinality({i \in DOMAIN pattern : pattern[i].type # "/"})

\* splitPathToParts: the literals before the first param, and the rest.
PrefixLen(pattern) ==
  CHOOSE k \in 0 .. Len(pattern) :
    /\ \A i \in 1 .. k : pattern[i].type = "/"
    /\ k < Len(pattern) => pattern[k + 1].type # "/"
Prefix(pattern) == [i \in 1 .. PrefixLen(pattern) |-> pattern[i].name]
Parts(pattern)  == SubSeq(pattern, PrefixLen(pattern) + 1, Len(pattern))

NewRoute(d) == [method |-> d.method, pattern |-> d.pattern,
                prefix |-> Prefix(d.pattern), parts |-> Parts(d.pattern)]

\* AddRoute; it panics, and adds nothing, unless a star is alone and last.
\* Adding routes to a router that serves is not supported.
AddRoute(d) ==
  /\ ~serving /\ Len(routes) < MaxRoutes
  /\ Stars(d.pattern) \subseteq {Len(d.pattern)}
  /\ routes' = Append(routes, NewRoute(d))
  /\ maxParams' = IF NumParams(d.pattern) > maxParams THEN NumParams(d.pattern)
                  ELSE maxParams
  /\ UNCHANGED <<serving, disabled, pool, params, requestVars>>

Start ==
  /\ ~serving
  /\ serving' = TRUE
  /\ UNCHANGED <<routes, maxParams, disabled, pool, params, requestVars>>

-----------------------------------------------------------------------------
(* match *)

hasStar(rt) == rt.parts # <<>> /\ rt.parts[Len(rt.parts)].type = "*"

\* The routes registered under a prefix of k segments of the path pt.
Under(m, pt, k) ==
  {i \in DOMAIN routes : /\ routes[i].method = m
                         /\ routes[i].prefix = SubSeq(pt.segs, 1, k)}
Keys(m, pt) == {k \in 0 .. Len(pt.segs) : Under(m, pt, k) # {}}

\* Stage 1: the longest registered prefix; "/" is the one of no segments.
Key(m, pt) == CHOOSE k \in Keys(m, pt) : \A j \in Keys(m, pt) : j <= k

\* What is left of the path: its segments, and the number of its slashes.
Rest(pt, k) == SubSeq(pt.segs, k + 1, Len(pt.segs))
nsep(pt, k) == IF pt.segs = <<>> THEN 0
               ELSE Len(pt.segs) - k + (IF pt.slash THEN 1 ELSE 0)

\* Mutant: the last segment is not compared.
AppliesButLast(rt, pt, k) ==
  \/ hasStar(rt)
  \/ /\ Len(rt.parts) = nsep(pt, k)
     /\ \A i \in DOMAIN Rest(pt, k) : i < Len(rt.parts) =>
          rt.parts[i].type = ":" \/ rt.parts[i].name = Rest(pt, k)[i]

\* Stage 2: whether a route applies to what is left.  The segments there are
\* are compared, whatever the number of slashes.
Applies(rt, pt, k) ==
  \/ hasStar(rt)
  \/ /\ Len(rt.parts) = nsep(pt, k)
     /\ \A i \in DOMAIN Rest(pt, k) :
          rt.parts[i].type = ":" \/ rt.parts[i].name = Rest(pt, k)[i]

\* Mutant: the search goes on after a route was found.
matchLast(m, pt) ==
  LET k  == Key(m, pt)
      ok == {i \in Under(m, pt, k) : Applies(routes[i], pt, k)}
  IN  IF Keys(m, pt) = {} \/ ok = {} THEN 0
      ELSE CHOOSE i \in ok : \A j \in ok : j <= i

\* The first route that applies, or 0.
match(m, pt) ==
  LET k  == Key(m, pt)
      ok == {i \in Under(m, pt, k) : Applies(routes[i], pt, k)}
  IN  IF Keys(m, pt) = {} \/ ok = {} THEN 0
      ELSE CHOOSE i \in ok : \A j \in ok : i <= j

\* Stage 3: the params, by the position of their part.  A star's is all that
\* is left, from the first part on.
Bind(rt, pt) ==
  LET rest == Rest(pt, Len(rt.prefix))
  IN  [i \in {j \in DOMAIN rest \cap DOMAIN rt.parts : rt.parts[j].type # "/"} |->
         [name  |-> rt.parts[i].name,
          value |-> IF rt.parts[i].type = "*"
                    THEN [segs |-> rest, slash |-> pt.slash]
                    ELSE [segs |-> <<rest[i]>>, slash |-> FALSE]]]

\* Match, as DisableRoute and others call it.
Match(m, pt) ==
  IF match(m, pt) = 0 /\ m = "HEAD" /\ AutoHead THEN match("GET", pt)
  ELSE match(m, pt)

-----------------------------------------------------------------------------
(* The params pool *)

Held == {p[q] : q \in Request}

\* getParams: a wrapper of the pool, or a new one; match appends to it.
Reuse(q, mt) ==
  \E x \in pool :
    /\ pool' = pool \ {x}
    /\ params' = [params EXCEPT ![x] = Append(@, mt)]
    /\ p' = [p EXCEPT ![q] = x]
Make(q, mt) ==
  \E x \in Wrapper \ (pool \cup Held) :
    /\ params' = [params EXCEPT ![x] = <<mt>>]
    /\ p' = [p EXCEPT ![q] = x]
    /\ pool' = pool

\* A wrapper is made for maxParams params: with more it grows.
Bound(x) ==
  {ij \in (DOMAIN params[x]) \X (1 .. maxParams + 1) :
     LET mt == params[x][ij[1]]
     IN  ij[2] \in DOMAIN Bind(routes[mt.route], mt.path)}
Grown(x) == Cardinality(Bound(x)) > maxParams

\* Mutant: the params are left in the wrapper.
putParamsAsIs(q) ==
  /\ IF p[q] = NoWrapper \/ Grown(p[q]) THEN UNCHANGED <<pool, params>>
     ELSE /\ params' = params
          /\ pool' = pool \cup {p[q]}
  /\ p' = [p EXCEPT ![q] = NoWrapper]

\* putParams: the wrapper is emptied and returned, unless it grew.
putParams(q) ==
  /\ IF p[q] = NoWrapper \/ Grown(p[q]) THEN UNCHANGED <<pool, params>>
     ELSE /\ params' = [params EXCEPT ![p[q]] = <<>>]
          /\ pool' = pool \cup {p[q]}
  /\ p' = [p EXCEPT ![q] = NoWrapper]

\* sync.Pool drops what it likes, and Match keeps what it takes.
Forget(x) ==
  /\ x \in pool
  /\ pool' = pool \ {x}
  /\ UNCHANGED <<tableVars, disabled, params, requestVars>>

-----------------------------------------------------------------------------
(* ServeHTTP *)

\* Up to match: a HEAD is treated as a GET.
ServeHTTP(q, t) ==
  LET m == IF t.method = "HEAD" /\ AutoHead THEN "GET" ELSE t.method
      i == match(m, t.path)
  IN  /\ serving /\ pc[q] = "idle"
      /\ pc' = [pc EXCEPT ![q] = "matched"]
      /\ path' = [path EXCEPT ![q] = t.path]
      /\ rn' = [rn EXCEPT ![q] = i]
      /\ IF i = 0 \/ routes[i].parts = <<>> THEN UNCHANGED <<pool, params, p>>
         ELSE LET mt == [route |-> i, path |-> t.path]
              IN  Reuse(q, mt) \/ Make(q, mt)
      /\ UNCHANGED <<tableVars, disabled>>

Leave(q) ==
  /\ pc' = [pc EXCEPT ![q] = "idle"]
  /\ path' = [path EXCEPT ![q] = NoPath]
  /\ rn' = [rn EXCEPT ![q] = 0]

\* Not found, or not allowed; the wrapper of a disabled route is lost.
Reject(q) ==
  /\ pc[q] = "matched"
  /\ rn[q] = 0 \/ rn[q] \in disabled
  /\ Leave(q)
  /\ p' = [p EXCEPT ![q] = NoWrapper]
  /\ UNCHANGED <<tableVars, disabled, pool, params>>

\* The handler is called.
Handle(q) ==
  /\ pc[q] = "matched"
  /\ rn[q] # 0 /\ rn[q] \notin disabled
  /\ pc' = [pc EXCEPT ![q] = "running"]
  /\ UNCHANGED <<tableVars, disabled, pool, params, path, rn, p>>

\* It returns.
Return(q) ==
  /\ pc[q] = "running"
  /\ putParams(q)
  /\ Leave(q)
  /\ UNCHANGED <<tableVars, disabled>>

\* It panics: the wrapper is lost, whoever recovers.
Panic(q) ==
  /\ pc[q] = "running"
  /\ Leave(q)
  /\ p' = [p EXCEPT ![q] = NoWrapper]
  /\ UNCHANGED <<tableVars, disabled, pool, params>>

\* DisableRoute finds the route that a request would.
DisableRoute(t, on) ==
  /\ Match(t.method, t.path) # 0
  /\ disabled' = IF on THEN disabled \cup {Match(t.method, t.path)}
                 ELSE disabled \ {Match(t.method, t.path)}
  /\ UNCHANGED <<tableVars, pool, params, requestVars>>

Next ==
  \/ \E d \in Def : AddRoute(d)
  \/ Start
  \/ \E q \in Request, t \in Target : ServeHTTP(q, t)
  \/ \E q \in Request : Reject(q) \/ Handle(q) \/ Return(q) \/ Panic(q)
  \/ \E t \in Target, on \in BOOLEAN : DisableRoute(t, on)
  \/ \E x \in Wrapper : Forget(x)

Spec == Init /\ [][Next]_vars

-----------------------------------------------------------------------------
(* Properties *)

\* Until its handler has returned, a request's params are those of its own
\* match alone: no other request, however the calls overlap, is given the
\* wrapper (v3.go:356) or finds another's params in it, and a handler of a
\* route with params never runs without.
ParamsArePrivate ==
  /\ \A q \in Request :
       pc[q] # "idle" /\ rn[q] # 0 /\ routes[rn[q]].parts # <<>> =>
         /\ p[q] \in Wrapper \ pool
         /\ params[p[q]] = <<[route |-> rn[q], path |-> path[q]]>>
  /\ \A q, o \in Request : p[q] = p[o] /\ p[q] # NoWrapper => q = o
  /\ \A x \in pool : params[x] = <<>>

=============================================================================
