---------------------------- MODULE RouterRules ----------------------------
(***************************************************************************)
(* What the documentation of the router promises of a match, on whole      *)
(* patterns and paths: the definitions match is held against, for every    *)
(* table of routes before the server starts (it does not change after).    *)
(***************************************************************************)
EXTENDS Router

CONSTANT Asked  \* the paths the rules are checked for

ASSUME AskedAssumption ==
  \A pt \in Asked : /\ pt.segs \in Seq(Segment)
                    /\ pt.segs = <<>> => pt.slash

Pattern(i) == routes[i].pattern
StarLast(i) == Stars(Pattern(i)) # {}

\* Part j of a route and segment j of a path agree.
Agree(i, pt, j) ==
  Pattern(i)[j].type \in {":", "*"} \/ Pattern(i)[j].name = pt.segs[j]

\* The pattern fits the path: part by part, a star standing for one segment or
\* more and for the slash at the end.
Fits(i, pt) ==
  /\ IF StarLast(i) THEN Len(pt.segs) >= Len(Pattern(i))
     ELSE Len(pt.segs) = Len(Pattern(i)) /\ (pt.slash => pt.segs = <<>>)
  /\ \A j \in DOMAIN Pattern(i) : Agree(i, pt, j)

\* The value of the param that is part j of route i, as the handler sees it.
Value(i, pt, j) == Bind(routes[i], pt)[j - Len(routes[i].prefix)].value
Single(s)       == [segs |-> <<s>>, slash |-> FALSE]
Remainder(pt, j) == [segs |-> SubSeq(pt.segs, j, Len(pt.segs)), slash |-> pt.slash]

\* A path that does not end in a slash is served by a route whose pattern fits
\* it (v3.go:213-216), each ":name" getting the segment in its place
\* (doc.go:19) and a star that is the only param all the rest (doc.go:20).
\* A route with a star is also served for its literal prefix alone; between
\* the prefix and the star nothing is compared.
ServedByFit == ~serving =>
  \A m \in {d.method : d \in Def}, pt \in Asked :
    LET i == match(m, pt) IN
      i # 0 /\ ~pt.slash =>
        IF StarLast(i)
        THEN /\ \A j \in DOMAIN routes[i].prefix : Agree(i, pt, j)
             /\ Len(routes[i].parts) = 1 /\ Len(pt.segs) >= Len(Pattern(i)) =>
                  /\ Fits(i, pt)
                  /\ Value(i, pt, Len(Pattern(i))) = Remainder(pt, Len(Pattern(i)))
        ELSE /\ Fits(i, pt)
             /\ \A j \in DOMAIN Pattern(i) :
                  Pattern(i)[j].type = ":" => Value(i, pt, j) = Single(pt.segs[j])

\* The routes of a method that begin with the literals i does, all of them in
\* the path's places.
HasLiterals(i, m, pt) ==
  /\ routes[i].method = m
  /\ Len(routes[i].prefix) <= Len(pt.segs)
  /\ \A j \in DOMAIN routes[i].prefix : Agree(i, pt, j)

\* Stage 1 of v3.go:203-221, on whole patterns: the routes that have the most.
Candidates(m, pt) ==
  {i \in DOMAIN routes :
     /\ HasLiterals(i, m, pt)
     /\ \A j \in DOMAIN routes :
          HasLiterals(j, m, pt) => Len(routes[j].prefix) <= Len(routes[i].prefix)}

First(S) == IF S = {} THEN 0 ELSE CHOOSE i \in S : \A j \in S : i <= j

\* Among the routes with the longest registered literals of the path, match finds
\* the first whose pattern fits; nothing, if none of them does, whatever fits
\* further up (v3.go:230).  If there are stars it finds something, and no star
\* but the first.  Left out: a slash at the end where there is no star, and
\* whether a star wins over a route before it (see the claim below).
MatchesAsDocumented == ~serving =>
  \A m \in {d.method : d \in Def}, pt \in Asked :
    LET i     == match(m, pt)
        found == Candidates(m, pt)
        stars == {j \in found : StarLast(j)}
    IN  /\ stars = {} /\ (pt.slash => pt.segs = <<>>) =>
             i = First({j \in found : Fits(j, pt)})
        /\ stars # {} => i \in found /\ (i \in stars => i = First(stars))

-----------------------------------------------------------------------------
(* What a comment of the code says, and the code does not do *)

\* "Wildcard routes (*name) always win within their group" (v3.go:212).  The loop
\* over the group stops at the first route that applies, star or not.
WildcardsWin == ~serving =>
  \A m \in {d.method : d \in Def}, pt \in Asked :
    (\E j \in Candidates(m, pt) : StarLast(j) /\ Fits(j, pt)) =>
      match(m, pt) # 0 /\ StarLast(match(m, pt))
=============================================================================
