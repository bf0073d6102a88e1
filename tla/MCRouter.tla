------------------------------ MODULE MCRouter ------------------------------
(* Instances of Router for TLC. *)
EXTENDS RouterRules, TLC

Lit(s)   == [type |-> "/", name |-> s]
Colon(s) == [type |-> ":", name |-> s]
Star(s)  == [type |-> "*", name |-> s]

Gets == { <<>>, <<Lit("a")>>, <<Lit("a"), Lit("b")>>,
          <<Colon("x")>>, <<Lit("a"), Colon("x")>>, <<Colon("x"), Lit("b")>>,
          <<Lit("a"), Colon("x"), Lit("b")>>, <<Lit("a"), Colon("x"), Colon("y")>>,
          <<Star("y")>>, <<Lit("a"), Star("y")>>, <<Lit("a"), Colon("x"), Star("y")>>,
          <<Lit("a"), Star("y"), Lit("b")>> }
Defs == {[method |-> "GET", pattern |-> s] : s \in Gets}
        \cup {[method |-> "HEAD", pattern |-> <<Lit("a")>>]}

Paths == {[segs |-> s, slash |-> e] :
            s \in UNION {[1 .. k -> {"a", "b"}] : k \in 0 .. 3}, e \in BOOLEAN}
         \ {NoPath}

At(s, e) == [segs |-> s, slash |-> e]
Targets == {[method |-> "GET",  path |-> At(<<"a", "b">>, FALSE)],
            [method |-> "GET",  path |-> At(<<"b">>, TRUE)],
            [method |-> "HEAD", path |-> At(<<"a">>, FALSE)]}

Symmetric == Permutations(Request) \cup Permutations(Wrapper)
=============================================================================
