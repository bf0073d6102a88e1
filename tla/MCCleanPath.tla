---------------------------- MODULE MCCleanPath ----------------------------
(* Instances of CleanPath for TLC: every path of up to MaxLen bytes. *)
EXTENDS CleanPathRules

CONSTANT MaxLen

Paths == UNION {[1 .. k -> Byte] : k \in 0 .. MaxLen}
=============================================================================
