---------------------------- MODULE MCSSERouter ----------------------------
(* Instances of SSERouter for TLC. *)
EXTENDS SSERouter, TLC

Symmetric == Permutations(Handler) \cup Permutations(Sender)
               \cup Permutations(Stream) \cup Permutations(Topic)
=============================================================================
