--------------------------- MODULE CleanPathRules ---------------------------
(***************************************************************************)
(* What cleanPath's comment (router/utils.go) promises, on the elements of *)
(* the path: the abstract definition CleanPath is held against.            *)
(***************************************************************************)
EXTENDS CleanPath, SequencesExt

\* One more byte: a slash ends the last element and begins another.
Split(es, c) == IF c = "/" THEN Append(es, <<>>)
                ELSE Append(Front(es), Append(Last(es), c))

\* The elements of a path: what stands between its slashes.
Elements(path) ==
  LET es[k \in 0 .. Len(path)] ==
        IF k = 0 THEN <<<<>>>> ELSE Split(es[k - 1], path[k])
  IN  es[Len(path)]

\* Rules 1 to 4, applied to one more element.
Resolve(kept, e) ==
  CASE e \in {<<>>, <<".">>} -> kept
    [] e = <<".", ".">>      -> IF kept = <<>> THEN kept ELSE Front(kept)
    [] OTHER                 -> Append(kept, e)

\* The elements that the rules leave.
Kept(es) ==
  LET kept[k \in 0 .. Len(es)] ==
        IF k = 0 THEN <<>> ELSE Resolve(kept[k - 1], es[k])
  IN  kept[Len(es)]

\* The element e below a path.
Below(path, e) == path \o <<"/">> \o e

\* The rooted path of these elements.
Joined(es) ==
  LET path[k \in 0 .. Len(es)] ==
        IF k = 0 THEN <<>> ELSE Below(path[k - 1], es[k])
  IN  path[Len(es)]

\* The path is read as rooted, and a directory stays one: a path of more than
\* two bytes that ends in a slash, any that ends in a dot element.
Canonical(path) ==
  LET es   == Elements(path)
      kept == Kept(es)
      dir  == \/ Last(es) = <<".">>
              \/ Last(es) = <<>> /\ Len(path) > 2
  IN  IF kept = <<>> THEN <<"/">>
      ELSE Joined(kept) \o (IF dir THEN <<"/">> ELSE <<>>)

\* The byte-wise scan, with its look-ahead and its backtracking over a buffer
\* that may not exist, computes what the rules of its comment
\* (utils.go:111-123) say, for every path.
FollowsRules == pc = "done" => clean = Canonical(p)
=============================================================================
