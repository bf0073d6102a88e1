------------------------------ MODULE MCStream ------------------------------
(* Two requests, the one that streams two messages and one that streams one, *)
(* on two Contexts and one gzip writer: the other request has none.          *)
EXTENDS Stream

CONSTANTS r1, r2

Sends == (r1 :> 2) @@ (r2 :> 1)
=============================================================================
