---------------------------- MODULE ContextPool ----------------------------
(***************************************************************************)
(* The pools every request goes through: getCtx and putCtx of ctx.go, with *)
(* the pool of Contexts, and getGzipRW and gzipRW of compression.go, with  *)
(* the pool of gzip writers.  A request stands for its connection too, and *)
(* the parts of what is written there are only told apart by the request   *)
(* they come from.                                                         *)
(*                                                                         *)
(* groupHandlerChain.Serve takes a Context, runs the chain and gives the   *)
(* Context back.  Only then, in net/http and outside this repository, the  *)
(* request's context is cancelled and the response finished.               *)
(***************************************************************************)
EXTENDS Naturals

CONSTANTS
  Requests,       \* the requests, each on a connection of its own
  Contexts,       \* the Contexts sync.Pool hands out, made or reused
  Writers,        \* the gzip writers
  Nobody

ASSUME PoolAssumption ==
  /\ Nobody \notin Requests \cup Contexts \cup Writers
  /\ Requests \cap Writers = {}

VARIABLES
  phase,          \* phase[r]: "new", "handling", "resetting" (between the two
                  \* halves of putCtx), "returned" from Serve, "finished"
  ctxOf,          \* ctxOf[r]: the Context Serve got for r, or Nobody
  dest,           \* dest[c]: c.ResponseWriter: a request (its connection), a
                  \* gzip writer, or Nobody for nil
  target,         \* target[g]: g.ResponseWriter
  data,           \* data[c]: the requests that stored something in c.data
  ctxPool,        \* the Contexts in ctxPool
  gzPool,         \* the gzip writers in gzPool
  header          \* header[r]: on whose behalf the header of r's connection was
                  \* sent, or Nobody while it is not

poolVars == <<phase, ctxOf, dest, target, data, ctxPool, gzPool, header>>

PoolTypeOK ==
  /\ phase \in [Requests -> {"new", "handling", "resetting", "returned",
                             "finished"}]
  /\ ctxOf \in [Requests -> Contexts \cup {Nobody}]
  /\ dest \in [Contexts -> Requests \cup Writers \cup {Nobody}]
  /\ target \in [Writers -> Requests \cup {Nobody}]
  /\ data \in [Contexts -> SUBSET Requests]
  /\ ctxPool \in SUBSET Contexts
  /\ gzPool \in SUBSET Writers
  /\ header \in [Requests -> Requests \cup {Nobody}]

PoolInit ==
  /\ phase = [r \in Requests |-> "new"]
  /\ ctxOf = [r \in Requests |-> Nobody]
  /\ dest = [c \in Contexts |-> Nobody]
  /\ target = [g \in Writers |-> Nobody]
  /\ data = [c \in Contexts |-> {}]
  /\ ctxPool = Contexts
  /\ gzPool = Writers
  /\ header = [r \in Requests |-> Nobody]

\* The connection a write to w goes to: a gzip writer passes it on.
Beneath(w) == IF w \in Writers THEN target[w] ELSE w

\* The header of r's connection goes out with the first write or flush.
Commit(r, by) ==
  header' = [header EXCEPT ![r] = IF @ = Nobody THEN by ELSE @]

Gzipped(r) == dest[ctxOf[r]] \in Writers

-----------------------------------------------------------------------------
(* getCtx and getGzipRW *)

\* Mutant: the writer goes on writing where it wrote last.
getGzipRWStale(r, c, g) ==
  /\ g \in gzPool
  /\ gzPool' = gzPool \ {g}
  /\ target' = [target EXCEPT ![g] = IF @ = Nobody THEN r ELSE @]
  /\ dest' = [dest EXCEPT ![c] = g]

\* Mutant: the writer stays in the pool.
getGzipRWShared(r, c, g) ==
  /\ g \in gzPool
  /\ target' = [target EXCEPT ![g] = r]
  /\ dest' = [dest EXCEPT ![c] = g]
  /\ UNCHANGED gzPool

\* Takes a gzip writer and points it at r's connection.
getGzipRW(r, c, g) ==
  /\ g \in gzPool
  /\ gzPool' = gzPool \ {g}
  /\ target' = [target EXCEPT ![g] = r]
  /\ dest' = [dest EXCEPT ![c] = g]

\* The request accepts no gzip, or the server has NoCompression set.
Uncompressed(r, c) ==
  /\ dest' = [dest EXCEPT ![c] = r]
  /\ UNCHANGED <<gzPool, target>>

\* Serve begins: every field but data is overwritten.
getCtx(r) ==
  /\ phase[r] = "new"
  /\ phase' = [phase EXCEPT ![r] = "handling"]
  /\ \E c \in ctxPool :
       /\ ctxPool' = ctxPool \ {c}
       /\ ctxOf' = [ctxOf EXCEPT ![r] = c]
       /\ \/ \E g \in Writers : getGzipRW(r, c, g)
          \/ Uncompressed(r, c)
  /\ UNCHANGED <<data, header>>

-----------------------------------------------------------------------------
(* What a handler does with its Context *)

\* Context.Set
Set(r) ==
  /\ phase[r] = "handling"
  /\ data' = [data EXCEPT ![ctxOf[r]] = @ \cup {r}]
  /\ UNCHANGED <<phase, ctxOf, dest, target, ctxPool, gzPool, header>>

\* Context.Write and Context.Flush as far as the header is concerned.
Respond(r) ==
  /\ phase[r] = "handling"
  /\ Commit(Beneath(dest[ctxOf[r]]), r)
  /\ UNCHANGED <<phase, ctxOf, dest, target, data, ctxPool, gzPool>>

-----------------------------------------------------------------------------
(* putCtx, deferred by Serve: it runs when the chain is over or panics *)

\* gzipRW.Reset: Close writes gzip's trailer, then the writer is anyone's.
ResetWriter(r) ==
  /\ phase[r] = "handling" /\ Gzipped(r)
  /\ Commit(target[dest[ctxOf[r]]], r)
  /\ gzPool' = gzPool \cup {dest[ctxOf[r]]}
  /\ phase' = [phase EXCEPT ![r] = "resetting"]
  /\ UNCHANGED <<ctxOf, dest, target, data, ctxPool>>

\* The Context is emptied and given back.
Release(r) ==
  /\ dest' = [dest EXCEPT ![ctxOf[r]] = Nobody]
  /\ data' = [data EXCEPT ![ctxOf[r]] = {}]
  /\ ctxPool' = ctxPool \cup {ctxOf[r]}

\* The rest of putCtx.
putCtx(r) ==
  /\ \/ phase[r] = "resetting"
     \/ phase[r] = "handling" /\ ~Gzipped(r)
  /\ Release(r)
  /\ phase' = [phase EXCEPT ![r] = "returned"]
  /\ UNCHANGED <<ctxOf, target, gzPool, header>>

\* net/http finishes the response, sending the header if nobody did.
Finish(r) ==
  /\ phase[r] = "returned"
  /\ Commit(r, r)
  /\ phase' = [phase EXCEPT ![r] = "finished"]
  /\ UNCHANGED <<ctxOf, dest, target, data, ctxPool, gzPool>>

-----------------------------------------------------------------------------
(* What the pools promise *)

\* Requests that hold a Context and, if gzipped, a writer.
Holding(r) == phase[r] \in {"handling", "resetting"}

\* A request's Context and gzip writer are its own while its handlers run:
\* neither is in a pool or held by another request, what it finds in ctx.data
\* was stored by itself though the map outlives the Context's other fields, and
\* what it writes goes to its connection (ctx.go:487-530,
\* compression.go:27-33,70-73).
HeldAlone == \A r \in Requests : Holding(r) =>
  /\ ctxOf[r] \in Contexts \ ctxPool
  /\ data[ctxOf[r]] \subseteq {r}
  /\ \A q \in Requests \ {r} : Holding(q) => ctxOf[q] # ctxOf[r]
  /\ phase[r] = "handling" =>
       /\ Beneath(dest[ctxOf[r]]) = r
       /\ dest[ctxOf[r]] \notin gzPool
       /\ \A q \in Requests \ {r} : phase[q] = "handling" =>
            dest[ctxOf[q]] # dest[ctxOf[r]]

=============================================================================
