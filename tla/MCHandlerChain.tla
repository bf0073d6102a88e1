--------------------------- MODULE MCHandlerChain ---------------------------
(* Instances of HandlerChain for TLC: the configurations give the constants. *)
EXTENDS HandlerChain
=============================================================================
