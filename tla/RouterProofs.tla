---------------------------- MODULE RouterProofs ----------------------------
(***************************************************************************)
(* What match finds, for every table of routes and every path; and that    *)
(* the params of concurrent requests are never mixed up, for any number of *)
(* requests, wrappers and routes.                                          *)
(***************************************************************************)
EXTENDS RouterRules, WellFoundedInduction, SequenceTheorems, TLAPS

-----------------------------------------------------------------------------
(* Least and greatest numbers *)

\* A set of numbers that is not empty has a least one.
LEMMA LeastExists ==
  ASSUME NEW T \in SUBSET Nat, T # {}
  PROVE  \E x \in T : \A y \in T : x <= y
<1>1. PICK x \in T : \A y \in T : ~(<<y, x>> \in OpToRel(<, Nat))
  BY NatLessThanWellFounded, WFMin
<1>2. \A y \in T : ~(y < x)
  BY <1>1 DEF OpToRel
<1> QED
  BY <1>2

\* If it is bounded it has a greatest one.
LEMMA GreatestExists ==
  ASSUME NEW m \in Nat, NEW T \in SUBSET (0 .. m), T # {}
  PROVE  \E x \in T : \A y \in T : y <= x
<1> DEFINE U == {m - t : t \in T}
<1>1. \A t \in T : t \in 0 .. m /\ m - t \in Nat /\ m - t \in U
  OBVIOUS
<1> HIDE DEF U
<1>2. U \in SUBSET Nat /\ U # {}
  BY <1>1 DEF U
<1>3. PICK u \in U : \A v \in U : u <= v
  BY <1>2, LeastExists
<1>4. PICK x \in T : u = m - x
  BY <1>3 DEF U
<1>5. ASSUME NEW y \in T PROVE y <= x
  <2>1. m - x <= m - y
    BY <1>1, <1>3, <1>4
  <2> QED
    BY <1>1, <2>1
<1> QED
  BY <1>5

-----------------------------------------------------------------------------
(* The table *)

\* A route is what AddRoute makes of a pattern whose star, if any, is last.
IsRoute(rt) ==
  LET k == Len(rt.prefix)
  IN  /\ rt.pattern \in Seq(Part)
      /\ rt.prefix \in Seq(Segment) /\ k <= Len(rt.pattern)
      /\ \A i \in 1 .. k : /\ rt.pattern[i].type = "/"
                           /\ rt.prefix[i] = rt.pattern[i].name
      /\ k < Len(rt.pattern) => rt.pattern[k + 1].type # "/"
      /\ rt.parts = SubSeq(rt.pattern, k + 1, Len(rt.pattern))
      /\ Stars(rt.pattern) \subseteq {Len(rt.pattern)}

TableOK == /\ routes \in Seq({NewRoute(d) : d \in Def})
           /\ \A i \in DOMAIN routes : IsRoute(routes[i])

\* The prefix of a pattern ends where its first param is.
LEMMA PrefixLenOK ==
  ASSUME NEW pattern \in Seq(Part)
  PROVE  /\ PrefixLen(pattern) \in 0 .. Len(pattern)
         /\ \A i \in 1 .. PrefixLen(pattern) : pattern[i].type = "/"
         /\ PrefixLen(pattern) < Len(pattern) =>
              pattern[PrefixLen(pattern) + 1].type # "/"
<1> DEFINE Ends == {k \in 0 .. Len(pattern) :
                      k < Len(pattern) => pattern[k + 1].type # "/"}
<1>1. Len(pattern) \in Ends /\ Ends \in SUBSET Nat
  OBVIOUS
<1>2. PICK k \in Ends : \A j \in Ends : k <= j
  BY <1>1, LeastExists
<1>3. ASSUME NEW i \in 1 .. k PROVE pattern[i].type = "/"
  <2>1. i - 1 \in 0 .. Len(pattern) /\ i - 1 < k
    BY <1>2
  <2>2. i - 1 \notin Ends
    BY <1>2, <2>1
  <2> QED
    BY <2>1, <2>2
<1> QED
  BY <1>2, <1>3 DEF PrefixLen

\* AddRoute makes routes.
LEMMA NewRouteOK ==
  ASSUME NEW d \in Def, Stars(d.pattern) \subseteq {Len(d.pattern)}
  PROVE  IsRoute(NewRoute(d))
<1> DEFINE s == d.pattern
           k == PrefixLen(s)
           rt == NewRoute(d)
<1>1. s \in Seq(Part)
  BY DefAssumption
<1>2. /\ k \in 0 .. Len(s)
      /\ \A i \in 1 .. k : s[i].type = "/"
      /\ k < Len(s) => s[k + 1].type # "/"
  BY <1>1, PrefixLenOK
<1>3. rt.pattern = s /\ rt.prefix = [i \in 1 .. k |-> s[i].name]
      /\ rt.parts = SubSeq(s, k + 1, Len(s))
  BY DEF NewRoute, Prefix, Parts
<1> HIDE DEF k, rt
<1>4. \A i \in 1 .. k : s[i].name \in Segment
  <2>1. ASSUME NEW i \in 1 .. k PROVE s[i] \in Part
    BY <1>1, <1>2
  <2> QED
    BY <2>1 DEF Part
<1>5. rt.prefix \in Seq(Segment) /\ Len(rt.prefix) = k
  BY <1>2, <1>3, <1>4
<1> QED
  BY <1>1, <1>2, <1>3, <1>5 DEF IsRoute, rt

\* The table holds routes only.
LEMMA TableInv == Spec => []TableOK
<1>1. Init => TableOK
  BY DEF Init, TableOK
<1>2. TableOK /\ [Next]_vars => TableOK'
  <2> SUFFICES ASSUME TableOK, [Next]_vars PROVE TableOK'
    OBVIOUS
  <2>1. ASSUME NEW d \in Def, AddRoute(d) PROVE TableOK'
    <3>1. routes' = Append(routes, NewRoute(d)) /\ IsRoute(NewRoute(d))
      BY <2>1, NewRouteOK DEF AddRoute
    <3>2. routes \in Seq({NewRoute(e) : e \in Def})
      BY DEF TableOK
    <3> QED
      BY <3>1, <3>2 DEF TableOK
  <2>2. CASE UNCHANGED routes
    BY <2>2 DEF TableOK
  <2> QED
    BY <2>1, <2>2 DEF Next, Start, ServeHTTP, Reject, Handle, Return, Panic,
      DisableRoute, Forget, tableVars, vars
<1> QED
  BY <1>1, <1>2, PTL DEF Spec

-----------------------------------------------------------------------------
(* match *)

\* The key is the longest registered prefix.
LEMMA KeyOK ==
  ASSUME NEW m, NEW pt, pt.segs \in Seq(Segment), Keys(m, pt) # {}
  PROVE  /\ Key(m, pt) \in Keys(m, pt) /\ Key(m, pt) \in 0 .. Len(pt.segs)
         /\ \A j \in Keys(m, pt) : j <= Key(m, pt)
<1>1. Keys(m, pt) \in SUBSET (0 .. Len(pt.segs)) /\ Len(pt.segs) \in Nat
  BY DEF Keys
<1>2. \E j \in Keys(m, pt) : \A l \in Keys(m, pt) : l <= j
  BY <1>1, GreatestExists
<1> QED
  BY <1>1, <1>2 DEF Key

\* The routes that apply under the key.
Applicable(m, pt) ==
  {i \in Under(m, pt, Key(m, pt)) : Applies(routes[i], pt, Key(m, pt))}

\* match finds the first of them, if there is one.
LEMMA FirstFound ==
  ASSUME TableOK, NEW m, NEW pt, Keys(m, pt) # {}, Applicable(m, pt) # {}
  PROVE  /\ match(m, pt) \in Applicable(m, pt)
         /\ match(m, pt) \in DOMAIN routes /\ match(m, pt) # 0
         /\ \A j \in Applicable(m, pt) : match(m, pt) <= j
<1> DEFINE ok == Applicable(m, pt)
<1>1. match(m, pt) = CHOOSE i \in ok : \A j \in ok : i <= j
  BY DEF match, Applicable
<1>2. ok \in SUBSET Nat /\ ok \subseteq DOMAIN routes /\ 0 \notin DOMAIN routes
  BY DEF TableOK, Under, Applicable
<1> HIDE DEF ok
<1>3. \E i \in ok : \A j \in ok : i <= j
  BY <1>2, LeastExists DEF ok
<1>4. match(m, pt) \in ok /\ \A j \in ok : match(m, pt) <= j
  BY <1>1, <1>3
<1> QED
  BY <1>2, <1>4 DEF ok

\* Whatever match returns applies under the key.
LEMMA MatchOK ==
  ASSUME TableOK, NEW m, NEW pt, pt.segs \in Seq(Segment), match(m, pt) # 0
  PROVE  /\ Key(m, pt) \in 0 .. Len(pt.segs)
         /\ match(m, pt) \in Under(m, pt, Key(m, pt))
         /\ Applies(routes[match(m, pt)], pt, Key(m, pt))
<1>1. Keys(m, pt) # {} /\ Applicable(m, pt) # {}
  BY DEF match, Applicable
<1>2. match(m, pt) \in Applicable(m, pt)
  BY <1>1, FirstFound
<1> QED
  BY <1>1, <1>2, KeyOK DEF Applicable

\* Route i has the first k segments of the path as its literal prefix.
HasPrefix(i, m, pt, k) ==
  /\ IsRoute(routes[i]) /\ routes[i].method = m
  /\ Len(routes[i].prefix) = k
  /\ \A j \in 1 .. k : Agree(i, pt, j)

\* The routes under a prefix of the path have it.
LEMMA PrefixAgrees ==
  ASSUME TableOK, NEW m, NEW pt \in Asked, NEW k, k \in 0 .. Len(pt.segs),
         NEW i, i \in Under(m, pt, k)
  PROVE  HasPrefix(i, m, pt, k)
<1> pt.segs \in Seq(Segment)
  BY AskedAssumption
<1>1. IsRoute(routes[i]) /\ routes[i].method = m
      /\ routes[i].prefix = SubSeq(pt.segs, 1, k)
  BY DEF TableOK, Under
<1>2. /\ Len(SubSeq(pt.segs, 1, k)) = k
      /\ \A j \in 1 .. k : SubSeq(pt.segs, 1, k)[j] = pt.segs[j]
  OBVIOUS
<1> QED
  BY <1>1, <1>2 DEF HasPrefix, IsRoute, Agree, Pattern

\* Subtraction undone.
LEMMA OneMore ==
  ASSUME NEW a \in Nat, NEW b \in Nat, a - b = 1 PROVE a = b + 1
OBVIOUS

\* The parts of a route are those of its pattern behind the prefix, and the
\* rest of a path its segments there.
LEMMA PartsOK ==
  ASSUME NEW rt, IsRoute(rt)
  PROVE  LET k == Len(rt.prefix)
         IN  /\ k \in Nat /\ Len(rt.pattern) \in Nat /\ k <= Len(rt.pattern)
             /\ Len(rt.parts) = Len(rt.pattern) - k
             /\ DOMAIN rt.parts = 1 .. Len(rt.pattern) - k
             /\ \A j \in 1 .. Len(rt.pattern) - k : rt.parts[j] = rt.pattern[k + j]
             /\ hasStar(rt) <=> Stars(rt.pattern) # {}
<1> DEFINE k == Len(rt.prefix)
<1>1. /\ k \in Nat /\ Len(rt.pattern) \in Nat /\ k <= Len(rt.pattern)
      /\ rt.pattern \in Seq(Part)
  BY DEF IsRoute
<1>2. rt.parts = SubSeq(rt.pattern, k + 1, Len(rt.pattern))
  BY DEF IsRoute
<1> HIDE DEF k
<1>3. /\ Len(rt.parts) = Len(rt.pattern) - k
      /\ DOMAIN rt.parts = 1 .. Len(rt.pattern) - k
      /\ \A j \in 1 .. Len(rt.pattern) - k : rt.parts[j] = rt.pattern[k + j]
  BY <1>1, <1>2, SubSeqProperties
<1>4. rt.parts = <<>> <=> Len(rt.pattern) = k
  <2>1. rt.parts \in Seq(Part)
    BY <1>1, <1>2
  <2>2. rt.parts = <<>> <=> Len(rt.parts) = 0
    BY <2>1
  <2> QED
    BY <1>1, <1>3, <2>2
<1>5. ASSUME Len(rt.pattern) > k
      PROVE  rt.parts[Len(rt.parts)] = rt.pattern[Len(rt.pattern)]
  <2> DEFINE l == Len(rt.pattern) - k
  <2>1. l \in 1 .. Len(rt.pattern) - k /\ k + l = Len(rt.pattern)
    BY <1>1, <1>5
  <2>2. Len(rt.parts) = l
    BY <1>3
  <2> HIDE DEF l
  <2>3. rt.parts[l] = rt.pattern[k + l]
    BY <1>3, <2>1
  <2> QED
    BY <2>1, <2>2, <2>3
<1>6. ASSUME hasStar(rt) PROVE Stars(rt.pattern) # {}
  <2>1. rt.pattern[Len(rt.pattern)].type = "*" /\ Len(rt.pattern) > k
    <3>1. Len(rt.pattern) > k
      BY <1>1, <1>4, <1>6 DEF hasStar
    <3>2. rt.parts[Len(rt.parts)].type = "*" /\ Len(rt.parts) = Len(rt.pattern) - k
      BY <1>3, <1>6 DEF hasStar
    <3>3. rt.parts[Len(rt.parts)] = rt.pattern[Len(rt.pattern)]
      BY <1>5, <3>1
    <3> QED
      BY <3>1, <3>2, <3>3
  <2> QED
    BY <1>1, <2>1 DEF Stars
<1>7. ASSUME Stars(rt.pattern) # {} PROVE hasStar(rt)
  <2>1. /\ Len(rt.pattern) \in DOMAIN rt.pattern
        /\ rt.pattern[Len(rt.pattern)].type = "*"
    BY <1>7 DEF Stars, IsRoute
  <2>2. Len(rt.pattern) > k
    BY <1>1, <2>1 DEF IsRoute, k
  <2> QED
    <3>1. rt.parts # <<>>
      BY <1>1, <1>4, <2>2
    <3>2. rt.parts[Len(rt.parts)] = rt.pattern[Len(rt.pattern)]
      BY <1>5, <2>2
    <3> QED
      BY <2>1, <3>1, <3>2 DEF hasStar
<1> QED
  BY <1>1, <1>3, <1>6, <1>7 DEF k

\* What is left of a path behind its first k segments.
LEMMA RestOK ==
  ASSUME NEW pt, pt.segs \in Seq(Segment), NEW k \in 0 .. Len(pt.segs)
  PROVE  /\ Len(Rest(pt, k)) = Len(pt.segs) - k
         /\ DOMAIN Rest(pt, k) = 1 .. Len(pt.segs) - k
         /\ \A j \in 1 .. Len(pt.segs) - k : Rest(pt, k)[j] = pt.segs[k + j]
BY DEF Rest

-----------------------------------------------------------------------------
\* What applies under a prefix of the path, and is no star, fits the path, unless
\* that ends in a slash.
LEMMA AppliesFits ==
  ASSUME TableOK, NEW m, NEW pt \in Asked, pt.slash => pt.segs = <<>>,
         NEW k \in 0 .. Len(pt.segs), NEW i \in Under(m, pt, k),
         Applies(routes[i], pt, k), ~StarLast(i)
  PROVE  Fits(i, pt)
<1> DEFINE rt == routes[i]
<1>1. pt.segs \in Seq(Segment)
  BY AskedAssumption
<1>2. /\ IsRoute(rt) /\ Len(rt.prefix) = k
      /\ \A j \in 1 .. k : Agree(i, pt, j)
  <2>1. HasPrefix(i, m, pt, k)
    BY PrefixAgrees
  <2> QED
    BY <2>1 DEF HasPrefix
<1>3. /\ k \in Nat /\ Len(rt.pattern) \in Nat /\ k <= Len(rt.pattern)
      /\ Len(rt.parts) = Len(rt.pattern) - k
      /\ DOMAIN rt.parts = 1 .. Len(rt.pattern) - k
      /\ \A j \in 1 .. Len(rt.pattern) - k : rt.parts[j] = rt.pattern[k + j]
      /\ ~hasStar(rt)
  BY <1>2, PartsOK DEF StarLast, Pattern
<1>4. /\ Len(pt.segs) \in Nat /\ DOMAIN Rest(pt, k) = 1 .. Len(pt.segs) - k
      /\ \A j \in 1 .. Len(pt.segs) - k : Rest(pt, k)[j] = pt.segs[k + j]
  <2>1. Len(pt.segs) \in Nat
    BY <1>1
  <2> HIDE DEF rt
  <2> QED
    BY <1>1, <2>1, RestOK
<1>5. DOMAIN rt.pattern = 1 .. Len(rt.pattern)
  BY <1>2 DEF IsRoute
<1>6. Len(rt.parts) = Len(pt.segs) - k
      /\ \A j \in 1 .. Len(pt.segs) - k :
           rt.parts[j].type = ":" \/ rt.parts[j].name = Rest(pt, k)[j]
  <2>1. nsep(pt, k) = Len(pt.segs) - k
    <3>1. CASE pt.segs = <<>>
      BY <1>4, <3>1 DEF nsep
    <3>2. CASE pt.segs # <<>>
      <4>1. nsep(pt, k) = Len(pt.segs) - k + 0
        BY <3>2 DEF nsep
      <4> QED
        BY <1>4, <4>1
    <3> QED
      BY <3>1, <3>2
  <2> HIDE DEF rt
  <2>2. Applies(rt, pt, k)
    BY DEF rt
  <2> QED
    BY <1>3, <1>4, <2>1, <2>2 DEF Applies
<1>7. Len(rt.pattern) = Len(pt.segs)
  BY <1>3, <1>4, <1>6
<1>8. ASSUME NEW j \in 1 .. Len(rt.pattern), j > k PROVE Agree(i, pt, j)
  <2>1. /\ j - k \in 1 .. Len(rt.pattern) - k
        /\ rt.parts[j - k] = rt.pattern[j] /\ Rest(pt, k)[j - k] = pt.segs[j]
    <3>1. k \in Nat /\ Len(rt.pattern) \in Nat
      BY <1>4, <1>7
    <3> HIDE DEF rt
    <3>2. j - k \in 1 .. Len(rt.pattern) - k /\ k + (j - k) = j
      BY <1>8, <3>1
    <3> QED
      BY <1>3, <1>4, <1>7, <3>2
  <2> QED
    BY <1>6, <1>7, <2>1 DEF Agree, Pattern
<1> QED
  BY <1>2, <1>3, <1>5, <1>7, <1>8 DEF Fits, Pattern

\* What match finds for a path that does not end in a slash fits it.
LEMMA FoundFits ==
  ASSUME TableOK, NEW m, NEW pt \in Asked, match(m, pt) # 0, ~pt.slash
  PROVE  LET i == match(m, pt) IN
           IF StarLast(i)
           THEN /\ \A j \in DOMAIN routes[i].prefix : Agree(i, pt, j)
                /\ Len(routes[i].parts) = 1 /\ Len(pt.segs) >= Len(Pattern(i)) =>
                     /\ Fits(i, pt)
                     /\ Value(i, pt, Len(Pattern(i))) = Remainder(pt, Len(Pattern(i)))
           ELSE /\ Fits(i, pt)
                /\ \A j \in DOMAIN Pattern(i) :
                     Pattern(i)[j].type = ":" => Value(i, pt, j) = Single(pt.segs[j])
<1> DEFINE i == match(m, pt)
           k == Key(m, pt)
           rt == routes[i]
<1>1. pt.segs \in Seq(Segment) /\ pt.segs # <<>>
  BY AskedAssumption
<1>2. /\ k \in 0 .. Len(pt.segs) /\ i \in Under(m, pt, k) /\ Applies(rt, pt, k)
  BY <1>1, MatchOK
<1> HIDE DEF i, k
<1>3. /\ IsRoute(rt) /\ Len(rt.prefix) = k
      /\ \A j \in 1 .. k : Agree(i, pt, j)
  <2>1. i \in Under(m, pt, k) /\ k \in 0 .. Len(pt.segs)
    BY <1>2
  <2>2. HasPrefix(i, m, pt, k)
    BY <2>1, PrefixAgrees
  <2> QED
    BY <2>2 DEF HasPrefix
<1>4. /\ k \in Nat /\ Len(rt.pattern) \in Nat /\ k <= Len(rt.pattern)
      /\ Len(rt.parts) = Len(rt.pattern) - k
      /\ DOMAIN rt.parts = 1 .. Len(rt.pattern) - k
      /\ \A j \in 1 .. Len(rt.pattern) - k : rt.parts[j] = rt.pattern[k + j]
      /\ hasStar(rt) <=> StarLast(i)
  BY <1>3, PartsOK DEF StarLast, Pattern
<1>5. /\ Len(pt.segs) \in Nat /\ Len(Rest(pt, k)) = Len(pt.segs) - k
      /\ DOMAIN Rest(pt, k) = 1 .. Len(pt.segs) - k
      /\ \A j \in 1 .. Len(pt.segs) - k : Rest(pt, k)[j] = pt.segs[k + j]
  BY <1>1, <1>2, RestOK
<1>6. DOMAIN rt.prefix = 1 .. k /\ DOMAIN rt.pattern = 1 .. Len(rt.pattern)
  BY <1>3 DEF IsRoute
<1>7. CASE ~StarLast(i)
  <2>4. Fits(i, pt)
    BY <1>2, <1>7, AppliesFits
  <2>2. Len(rt.pattern) = Len(pt.segs)
    BY <1>7, <2>4 DEF Fits, Pattern
  <2>5. ASSUME NEW j \in DOMAIN Pattern(i), Pattern(i)[j].type = ":"
        PROVE  Value(i, pt, j) = Single(pt.segs[j])
    <3>1. j \in 1 .. Len(rt.pattern) /\ j > k
      <4>1. j \in 1 .. Len(rt.pattern) /\ rt.pattern[j].type = ":"
        BY <1>6, <2>5 DEF Pattern
      <4>2. \A l \in 1 .. k : rt.pattern[l].type = "/"
        BY <1>3 DEF IsRoute
      <4> QED
        BY <1>4, <4>1, <4>2
    <3>2. /\ j - k \in DOMAIN Rest(pt, k) /\ j - k \in DOMAIN rt.parts
          /\ rt.parts[j - k].type = ":" /\ Rest(pt, k)[j - k] = pt.segs[j]
      <4>1. rt.pattern[j].type = ":"
        BY <2>5 DEF Pattern
      <4> HIDE DEF rt
      <4>2. j - k \in 1 .. Len(rt.pattern) - k /\ k + (j - k) = j
        BY <1>4, <3>1
      <4> QED
        BY <1>4, <1>5, <2>2, <4>1, <4>2
    <3> QED
      BY <1>3, <3>2 DEF Value, Bind, Single
  <2> QED
    BY <1>7, <2>4, <2>5 DEF i
<1>8. CASE StarLast(i)
  <2>1. ASSUME Len(rt.parts) = 1, Len(pt.segs) >= Len(Pattern(i))
        PROVE  Fits(i, pt) /\ Value(i, pt, Len(Pattern(i))) = Remainder(pt, Len(Pattern(i)))
    <3>1. Len(rt.pattern) = k + 1
      <4>1. Len(rt.pattern) - k = 1
        BY <1>4, <2>1
      <4>2. Len(rt.pattern) \in Nat /\ k \in Nat
        BY <1>4
      <4> QED
        BY <4>1, <4>2, OneMore
    <3>2. rt.pattern[k + 1].type = "*" /\ rt.parts[1].type = "*"
      BY <1>3, <1>4, <1>8, <3>1 DEF StarLast, Pattern, Stars, IsRoute
    <3>3. Fits(i, pt)
      <4>1. \A j \in 1 .. k + 1 : Agree(i, pt, j)
        BY <1>3, <1>4, <3>2 DEF Agree, Pattern
      <4> QED
        BY <1>6, <1>8, <2>1, <3>1, <4>1 DEF Fits, Pattern
    <3>4. 1 \in DOMAIN Rest(pt, k) /\ 1 \in DOMAIN rt.parts
      BY <1>4, <1>5, <2>1, <3>1 DEF Pattern
    <3>5. Value(i, pt, k + 1) = [segs |-> Rest(pt, k), slash |-> pt.slash]
      BY <1>3, <1>4, <3>2, <3>4 DEF Value, Bind
    <3> QED
      BY <3>1, <3>3, <3>5 DEF Remainder, Rest, Pattern
  <2> QED
    BY <1>3, <1>6, <1>8, <2>1 DEF i
<1> QED
  BY <1>7, <1>8

\* A request whose path does not end in a slash is served by a route that fits
\* it, with the params in their places, whatever the table.
THEOREM MatchesFit == Spec => []ServedByFit
<1>1. TableOK => ServedByFit
  BY FoundFits DEF ServedByFit
<1> QED
  BY TableInv, <1>1, PTL

\* A route whose literals the path begins with is under that prefix.
LEMMA LiteralsUnder ==
  ASSUME TableOK, NEW m, NEW pt \in Asked, NEW i \in DOMAIN routes,
         HasLiterals(i, m, pt)
  PROVE  /\ Len(routes[i].prefix) \in 0 .. Len(pt.segs)
         /\ i \in Under(m, pt, Len(routes[i].prefix))
<1> DEFINE rt == routes[i]
           k  == Len(rt.prefix)
           s  == pt.segs
<1>1. s \in Seq(Segment) /\ IsRoute(rt)
  BY AskedAssumption DEF TableOK
<1>2. /\ rt.prefix \in Seq(Segment) /\ k \in Nat /\ Len(s) \in Nat /\ k <= Len(s)
      /\ DOMAIN rt.prefix = 1 .. k
  BY <1>1 DEF IsRoute, HasLiterals
<1>3. ASSUME NEW j \in 1 .. k PROVE rt.prefix[j] = s[j]
  <2>1. rt.pattern[j].type = "/" /\ rt.prefix[j] = rt.pattern[j].name
    BY <1>1, <1>3 DEF IsRoute
  <2>2. Agree(i, pt, j)
    BY <1>2, <1>3 DEF HasLiterals
  <2> QED
    BY <2>1, <2>2 DEF Agree, Pattern
<1>4. /\ SubSeq(s, 1, k) \in Seq(Segment) /\ Len(SubSeq(s, 1, k)) = k
      /\ \A j \in 1 .. k : SubSeq(s, 1, k)[j] = s[j]
  BY <1>1, <1>2
<1>5. rt.prefix = SubSeq(s, 1, k)
  BY <1>2, <1>3, <1>4, SeqEqual
<1> QED
  BY <1>2, <1>5 DEF Under, HasLiterals

\* A route that fits applies under its prefix.
LEMMA FitsApplies ==
  ASSUME TableOK, NEW pt \in Asked, NEW j \in DOMAIN routes, Fits(j, pt),
         Len(routes[j].prefix) \in 0 .. Len(pt.segs)
  PROVE  Applies(routes[j], pt, Len(routes[j].prefix))
<1> DEFINE rt == routes[j]
           k  == Len(rt.prefix)
<1>1. pt.segs \in Seq(Segment) /\ k \in 0 .. Len(pt.segs)
  BY AskedAssumption
<1>2. IsRoute(rt)
  BY DEF TableOK
<1>3. /\ k \in Nat /\ Len(rt.pattern) \in Nat /\ k <= Len(rt.pattern)
      /\ Len(rt.parts) = Len(rt.pattern) - k
      /\ \A i \in 1 .. Len(rt.pattern) - k : rt.parts[i] = rt.pattern[k + i]
      /\ hasStar(rt) <=> StarLast(j)
  BY <1>2, PartsOK DEF StarLast, Pattern
<1>4. /\ DOMAIN Rest(pt, k) = 1 .. Len(pt.segs) - k
      /\ \A i \in 1 .. Len(pt.segs) - k : Rest(pt, k)[i] = pt.segs[k + i]
  BY <1>1, RestOK
<1>5. rt.pattern \in Seq(Part) /\ DOMAIN rt.pattern = 1 .. Len(rt.pattern)
  BY <1>2 DEF IsRoute
<1>6. CASE StarLast(j)
  BY <1>3, <1>6 DEF Applies
<1>7. CASE ~StarLast(j)
  <2>1. Len(pt.segs) = Len(rt.pattern) /\ (pt.slash => pt.segs = <<>>)
    BY <1>7 DEF Fits, Pattern
  <2> HIDE DEF rt, k
  <2>2. Len(rt.parts) = nsep(pt, k)
    <3>1. CASE pt.segs = <<>>
      <4>1. Len(pt.segs) = 0
        BY <3>1
      <4>2. Len(rt.parts) = 0
        BY <1>3, <2>1, <4>1
      <4> QED
        BY <3>1, <4>2 DEF nsep
    <3>2. CASE pt.segs # <<>>
      <4>1. nsep(pt, k) = Len(pt.segs) - k + 0
        BY <2>1, <3>2 DEF nsep
      <4> QED
        BY <1>3, <2>1, <4>1
    <3> QED
      BY <3>1, <3>2
  <2>3. ASSUME NEW i \in DOMAIN Rest(pt, k)
        PROVE  rt.parts[i].type = ":" \/ rt.parts[i].name = Rest(pt, k)[i]
    <3>1. k + i \in 1 .. Len(rt.pattern) /\ i \in 1 .. Len(rt.pattern) - k
      <4>1. i \in 1 .. Len(pt.segs) - k
        BY <1>4
      <4>2. i \in 1 .. Len(rt.pattern) - k
        BY <2>1, <4>1
      <4> QED
        BY <1>3, <4>2
    <3>2. rt.parts[i] = rt.pattern[k + i] /\ Rest(pt, k)[i] = pt.segs[k + i]
      BY <1>3, <1>4, <2>1, <3>1
    <3>3. Agree(j, pt, k + i)
      BY <1>5, <3>1 DEF Fits, Pattern, rt
    <3>4. rt.pattern[k + i].type # "*"
      BY <1>5, <1>7, <3>1 DEF StarLast, Stars, Pattern, rt
    <3> QED
      BY <3>2, <3>3, <3>4 DEF Agree, Pattern, rt
  <2> QED
    BY <2>2, <2>3 DEF Applies, rt, k
<1> QED
  BY <1>6, <1>7

\* The candidates are what is registered under the key.
LEMMA CandidatesAreUnder ==
  ASSUME TableOK, NEW m, NEW pt \in Asked
  PROVE  /\ Keys(m, pt) = {} => Candidates(m, pt) = {}
         /\ Keys(m, pt) # {} => Candidates(m, pt) = Under(m, pt, Key(m, pt))
<1>1. pt.segs \in Seq(Segment)
  BY AskedAssumption
<1>2. ASSUME NEW i \in DOMAIN routes, HasLiterals(i, m, pt)
      PROVE  /\ Len(routes[i].prefix) \in Keys(m, pt)
             /\ i \in Under(m, pt, Len(routes[i].prefix))
  BY <1>2, LiteralsUnder DEF Keys
<1>3. CASE Keys(m, pt) = {}
  BY <1>2, <1>3 DEF Candidates
<1>4. CASE Keys(m, pt) # {}
  <2> DEFINE k == Key(m, pt)
  <2>1. /\ k \in Keys(m, pt) /\ k \in 0 .. Len(pt.segs) /\ k \in Nat
        /\ \A j \in Keys(m, pt) : j <= k
    BY <1>1, <1>4, KeyOK
  <2> HIDE DEF k
  <2>2. ASSUME NEW i \in Under(m, pt, k)
        PROVE  /\ i \in DOMAIN routes /\ HasLiterals(i, m, pt)
               /\ Len(routes[i].prefix) = k
    <3>1. HasPrefix(i, m, pt, k)
      BY <2>1, <2>2, PrefixAgrees
    <3>2. DOMAIN routes[i].prefix = 1 .. k /\ k <= Len(pt.segs)
      BY <1>1, <2>1, <3>1 DEF HasPrefix, IsRoute
    <3> QED
      BY <2>2, <3>1, <3>2 DEF HasPrefix, HasLiterals, Under
  <2>3. Under(m, pt, k) # {}
    BY <2>1 DEF Keys
  <2>4. Under(m, pt, k) \subseteq Candidates(m, pt)
    BY <1>2, <2>1, <2>2 DEF Candidates
  <2>5. ASSUME NEW i \in Candidates(m, pt) PROVE i \in Under(m, pt, k)
    <3>1. /\ i \in DOMAIN routes /\ HasLiterals(i, m, pt)
          /\ k <= Len(routes[i].prefix)
      BY <2>2, <2>3, <2>5 DEF Candidates
    <3>2. /\ Len(routes[i].prefix) <= k /\ Len(routes[i].prefix) \in Nat
          /\ i \in Under(m, pt, Len(routes[i].prefix))
      BY <1>1, <1>2, <2>1, <3>1 DEF Keys
    <3>3. Len(routes[i].prefix) = k
      BY <2>1, <3>1, <3>2
    <3> QED
      BY <3>2, <3>3
  <2> QED
    BY <1>4, <2>4, <2>5 DEF k
<1> QED
  BY <1>3, <1>4

\* The first of a set of numbers.
LEMMA FirstIs ==
  ASSUME NEW T \in SUBSET Nat, NEW x \in T, \A y \in T : x <= y
  PROVE  First(T) = x
<1>1. PICK z \in T : z = First(T) /\ \A y \in T : z <= y
  BY DEF First
<1>2. z <= x /\ x <= z /\ z \in Nat /\ x \in Nat
  BY <1>1
<1> QED
  BY <1>1, <1>2

\* Match finds what the documentation says.
LEMMA Documented ==
  ASSUME TableOK, NEW m, NEW pt \in Asked
  PROVE  LET i     == match(m, pt)
             found == Candidates(m, pt)
             stars == {j \in found : StarLast(j)}
         IN  /\ stars = {} /\ (pt.slash => pt.segs = <<>>) =>
                  i = First({j \in found : Fits(j, pt)})
             /\ stars # {} => i \in found /\ (i \in stars => i = First(stars))
<1> DEFINE i     == match(m, pt)
           found == Candidates(m, pt)
           stars == {j \in found : StarLast(j)}
           k     == Key(m, pt)
<1>1. pt.segs \in Seq(Segment)
  BY AskedAssumption
<1>2. CASE Keys(m, pt) = {}
  <2>1. found = {} /\ i = 0
    BY <1>2, CandidatesAreUnder DEF match
  <2> QED
    BY <2>1 DEF First
<1>3. CASE Keys(m, pt) # {}
  <2>1. found = Under(m, pt, k) /\ k \in 0 .. Len(pt.segs)
    BY <1>1, <1>3, CandidatesAreUnder, KeyOK
  <2>2. i = First(Applicable(m, pt)) /\ Applicable(m, pt) \subseteq found
    BY <1>3, <2>1 DEF match, First, Applicable
  <2>3. ASSUME NEW j \in found
        PROVE  /\ j \in DOMAIN routes /\ Len(routes[j].prefix) = k
               /\ hasStar(routes[j]) <=> StarLast(j)
    <3>1. HasPrefix(j, m, pt, k)
      BY <2>1, <2>3, PrefixAgrees
    <3> QED
      BY <2>1, <2>3, <3>1, PartsOK DEF HasPrefix, Under, StarLast, Pattern
  <2>4. stars \subseteq Applicable(m, pt)
    BY <2>1, <2>3 DEF Applicable, Applies
  <2>5. ASSUME stars = {}, pt.slash => pt.segs = <<>>
        PROVE  i = First({j \in found : Fits(j, pt)})
    <3>1. ASSUME NEW j \in found
          PROVE  Fits(j, pt) <=> Applies(routes[j], pt, k)
      <4>1. ~StarLast(j)
        BY <2>5
      <4>2. Applies(routes[j], pt, k) => Fits(j, pt)
        BY <2>1, <2>5, <4>1, AppliesFits
      <4>3. Fits(j, pt) => Applies(routes[j], pt, k)
        BY <2>1, <2>3, FitsApplies
      <4> QED
        BY <4>2, <4>3
    <3>2. {j \in found : Fits(j, pt)} = Applicable(m, pt)
      BY <2>1, <3>1 DEF Applicable
    <3> QED
      BY <2>2, <3>2
  <2>6. ASSUME stars # {}
        PROVE  i \in found /\ (i \in stars => i = First(stars))
    <3>1. Applicable(m, pt) # {}
      BY <2>4, <2>6
    <3>2. i \in Applicable(m, pt) /\ \A j \in Applicable(m, pt) : i <= j
      BY <1>3, <3>1, FirstFound
    <3>3. stars \in SUBSET Nat
      BY <2>3 DEF TableOK
    <3> HIDE DEF i, stars
    <3>4. i \in stars => i = First(stars)
      BY <2>4, <3>2, <3>3, FirstIs
    <3> QED
      BY <2>2, <3>2, <3>4
  <2> QED
    BY <2>5, <2>6
<1> QED
  BY <1>2, <1>3

\* Of the routes with the longest registered literals of the path the first that
\* fits is found, and nothing if none fits, whatever the table and the path; and
\* where there are stars something is, the first of them or no star.
THEOREM FoundAsDocumented == Spec => []MatchesAsDocumented
<1>1. TableOK => MatchesAsDocumented
  BY Documented DEF MatchesAsDocumented
<1> QED
  BY TableInv, <1>1, PTL

-----------------------------------------------------------------------------
(* The params of requests *)

\* The variables that are functions are, and nothing is served before Start.
ShapeOK ==
  /\ params = [x \in Wrapper |-> params[x]]
  /\ pc = [q \in Request |-> pc[q]]
  /\ path = [q \in Request |-> path[q]]
  /\ rn = [q \in Request |-> rn[q]]
  /\ p \in [Request -> Wrapper \cup {NoWrapper}]
  /\ pool \subseteq Wrapper
  /\ ~serving => \A q \in Request : pc[q] = "idle"

\* Who has a wrapper is a request under way on a route with params, and no
\* wrapper of the pool is held.
HeldOK ==
  \A q \in Request :
    p[q] # NoWrapper =>
      /\ pc[q] # "idle" /\ rn[q] # 0 /\ routes[rn[q]].parts # <<>>
      /\ p[q] \notin pool

IInv == ShapeOK /\ HeldOK /\ ParamsArePrivate

\* What is appended to an empty wrapper is alone in it.
LEMMA AppendEmpty == ASSUME NEW e PROVE Append(<<>>, e) = <<e>>
<1>1. <<>> \in Seq({e}) /\ Len(<<>>) = 0
  OBVIOUS
<1>2. Append(<<>>, e) \in Seq({e}) /\ Len(Append(<<>>, e)) = 1
  BY <1>1, AppendProperties
<1>3. Append(<<>>, e)[1] = e
  BY <1>1, AppendProperties
<1> QED
  BY <1>2, <1>3

\* The invariant holds at the start.
LEMMA InitInv == Init => IInv
BY NoWrapperAssumption DEF Init, IInv, ShapeOK, HeldOK, ParamsArePrivate

\* Every step keeps the invariant.
LEMMA NextInv == IInv /\ [Next]_vars => IInv'
<1> SUFFICES ASSUME IInv, [Next]_vars PROVE IInv'
  OBVIOUS
<1> USE NoWrapperAssumption DEF IInv, ShapeOK, HeldOK, ParamsArePrivate
<1>1. ASSUME NEW d \in Def, AddRoute(d) PROVE IInv'
  BY <1>1 DEF AddRoute, requestVars
<1>2. CASE Start
  BY <1>2 DEF Start, requestVars
<1>3. ASSUME NEW q \in Request, NEW t \in Target, ServeHTTP(q, t) PROVE IInv'
  <2> DEFINE m == IF t.method = "HEAD" /\ AutoHead THEN "GET" ELSE t.method
             i == match(m, t.path)
             mt == [route |-> i, path |-> t.path]
  <2>1. /\ serving /\ pc[q] = "idle" /\ p[q] = NoWrapper
        /\ pc' = [pc EXCEPT ![q] = "matched"]
        /\ path' = [path EXCEPT ![q] = t.path]
        /\ rn' = [rn EXCEPT ![q] = i]
        /\ UNCHANGED <<routes, serving>>
    BY <1>3 DEF ServeHTTP, tableVars
  <2>2. CASE i = 0 \/ routes[i].parts = <<>>
    <3>1. UNCHANGED <<pool, params, p>>
      BY <1>3, <2>2 DEF ServeHTTP
    <3> HIDE DEF i
    <3> QED
      BY <2>1, <2>2, <3>1
  <2>3. CASE ~(i = 0 \/ routes[i].parts = <<>>)
    <3>1. PICK x \in Wrapper :
            /\ x \notin Held
            /\ params' = [params EXCEPT ![x] = <<mt>>]
            /\ p' = [p EXCEPT ![q] = x]
            /\ pool' = pool \ {x}
      <4>1. CASE Reuse(q, mt)
        <5>1. PICK x \in pool :
                /\ pool' = pool \ {x}
                /\ params' = [params EXCEPT ![x] = Append(@, mt)]
                /\ p' = [p EXCEPT ![q] = x]
          BY <4>1 DEF Reuse
        <5>2. params[x] = <<>>
          OBVIOUS
        <5>4. x \in Wrapper
          OBVIOUS
        <5>5. x \notin Held
          BY <5>4 DEF Held
        <5>3. Append(params[x], mt) = <<mt>>
          BY <5>2, AppendEmpty
        <5> QED
          BY <5>1, <5>3, <5>4, <5>5
      <4>2. CASE Make(q, mt)
        <5>1. PICK x \in Wrapper \ (pool \cup Held) :
                /\ params' = [params EXCEPT ![x] = <<mt>>]
                /\ p' = [p EXCEPT ![q] = x]
                /\ pool' = pool
          BY <4>2 DEF Make
        <5>2. pool = pool \ {x}
          BY <5>1
        <5> QED
          BY <5>1, <5>2
      <4> QED
        BY <1>3, <2>3, <4>1, <4>2 DEF ServeHTTP
    <3>2. \A o \in Request : p[o] # x
      BY <3>1 DEF Held
    <3> HIDE DEF i
    <3>3. ShapeOK'
      BY <2>1, <3>1
    <3>4. HeldOK'
      BY <2>1, <2>3, <3>1, <3>2
    <3>5. ParamsArePrivate'
      BY <2>1, <2>3, <3>1, <3>2
    <3> QED
      BY <3>3, <3>4, <3>5
  <2> QED
    BY <2>2, <2>3
<1>4. ASSUME NEW q \in Request, Reject(q) PROVE IInv'
  BY <1>4 DEF Reject, Leave, tableVars
<1>5. ASSUME NEW q \in Request, Handle(q) PROVE IInv'
  BY <1>5 DEF Handle, tableVars
<1>6. ASSUME NEW q \in Request, Return(q) PROVE IInv'
  <2>1. /\ pc' = [pc EXCEPT ![q] = "idle"]
        /\ path' = [path EXCEPT ![q] = NoPath]
        /\ rn' = [rn EXCEPT ![q] = 0]
        /\ p' = [p EXCEPT ![q] = NoWrapper]
        /\ UNCHANGED <<routes, serving>>
    BY <1>6 DEF Return, Leave, putParams, tableVars
  <2>2. CASE UNCHANGED <<pool, params>>
    BY <2>1, <2>2
  <2>3. CASE /\ p[q] # NoWrapper
             /\ params' = [params EXCEPT ![p[q]] = <<>>]
             /\ pool' = pool \cup {p[q]}
    BY <2>1, <2>3
  <2> QED
    BY <1>6, <2>2, <2>3 DEF Return, putParams
<1>7. ASSUME NEW q \in Request, Panic(q) PROVE IInv'
  BY <1>7 DEF Panic, Leave, tableVars
<1>8. ASSUME NEW t \in Target, NEW on \in BOOLEAN, DisableRoute(t, on) PROVE IInv'
  BY <1>8 DEF DisableRoute, tableVars, requestVars
<1>9. ASSUME NEW x \in Wrapper, Forget(x) PROVE IInv'
  BY <1>9 DEF Forget, tableVars, requestVars
<1>10. CASE UNCHANGED vars
  BY <1>10 DEF vars
<1> QED
  BY <1>1, <1>2, <1>3, <1>4, <1>5, <1>6, <1>7, <1>8, <1>9, <1>10 DEF Next

\* A request's params are its own, whatever runs at the same time.
THEOREM ParamsStayPrivate == Spec => []ParamsArePrivate
<1>1. IInv => ParamsArePrivate
  BY DEF IInv
<1> QED
  BY InitInv, NextInv, <1>1, PTL DEF Spec
=============================================================================
