--------------------------- MODULE MCResponseCache ---------------------------
(* Instances of ResponseCache for TLC: the configuration gives the constants. *)
EXTENDS ResponseCache
=============================================================================
