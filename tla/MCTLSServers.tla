---------------------------- MODULE MCTLSServers ----------------------------
(* Instances of TLSServers for TLC. *)
EXTENDS TLSServers

\* Every Runner is a call of Run, or one of them a call of ssl.go.
MCCalls ==
  LET one == CHOOSE r \in Runner : TRUE
  IN  {[r \in Runner |-> "run"]}
        \cup {[r \in Runner |-> IF r = one THEN h ELSE "none"] : h \in {"auto", "dyn"}}
=============================================================================
