--------------------------- MODULE ServerLifecycle ---------------------------
(***************************************************************************)
(* Server of server.go: the http.Servers started by Run, the goroutine     *)
(* that watches each one's context, the requests they serve, and the calls *)
(* of Close and Shutdown.                                                  *)
(*                                                                         *)
(* Of net/http the model has what server.go relies on: Serve accepts until *)
(* the server is in shutdown; http.Server.Shutdown stops accepting and     *)
(* waits for the open connections or for its context; http.Server.Close    *)
(* closes the connections.                                                 *)
(***************************************************************************)
EXTENDS Naturals, Sequences

CONSTANTS
  Runner,      \* calls of Run, each with its http.Server and context
  Closer,      \* goroutines that call Close and Shutdown
  Request,     \* requests, each on a connection of its own
  NoRunner, NoCloser,
  Kinds,       \* the calls the closers make: "close" is Close(),
               \* "graceful" Shutdown(0), "timed" Shutdown(d) with d > 0
  HandlersUseServer   \* handlers may call Addrs or SetKeepAlivesEnabled

ASSUME KindAssumption ==
  /\ Kinds \subseteq {"close", "graceful", "timed"}
  /\ HandlersUseServer \in BOOLEAN

ASSUME NoCloserAssumption == NoCloser \notin Closer

VARIABLES
  closed,      \* Server.closed
  mux,         \* who holds Server.serversMux while it may block, or NoCloser
  servers,     \* Server.servers
  rpc,         \* where each Run is
  inShutdown,  \* http.Server.inShutdown of each
  cancelled,   \* the context of each Run is done
  watch,       \* the goroutine of newHTTPServer
  qpc,         \* where each request's handler is
  on,          \* the server a request came in on
  conns,       \* the requests whose connection its http.Server tracks
  cpc,         \* where each closer is
  kind,        \* what it called
  pos          \* its position in the loop over servers

runVars == <<rpc, inShutdown, cancelled, watch>>
requestVars == <<qpc, on, conns>>
closerVars == <<cpc, kind, pos>>
serverVars == <<closed, mux, servers, rpc, inShutdown, cancelled, watch, qpc,
                on, conns, cpc, kind, pos>>

ServerInit ==
  /\ closed = FALSE /\ mux = NoCloser /\ servers = <<>>
  /\ rpc = [r \in Runner |-> "idle"]
  /\ inShutdown = [r \in Runner |-> FALSE]
  /\ cancelled = [r \in Runner |-> FALSE]
  /\ watch = [r \in Runner |-> "off"]
  /\ qpc = [q \in Request |-> "idle"]
  /\ on = [q \in Request |-> NoRunner]
  /\ conns = {}
  /\ cpc = [c \in Closer |-> "idle"]
  /\ kind = [c \in Closer |-> "none"]
  /\ pos = [c \in Closer |-> 0]

Tracked == {servers[i] : i \in DOMAIN servers}
ConnsOf(r) == {q \in conns : on[q] = r}

-----------------------------------------------------------------------------
(* Run *)

\* Mutant: no goroutine watches the context.
ListenUnwatched(r) ==
  /\ rpc[r] = "idle"
  /\ rpc' = [rpc EXCEPT ![r] = "made"]
  /\ UNCHANGED <<closed, mux, servers, inShutdown, cancelled, watch, requestVars,
                 closerVars>>

\* net.Listen succeeds, the http.Server and its watcher are made.
Listen(r) ==
  /\ rpc[r] = "idle"
  /\ rpc' = [rpc EXCEPT ![r] = "made"]
  /\ watch' = [watch EXCEPT ![r] = "waiting"]
  /\ UNCHANGED <<closed, mux, servers, inShutdown, cancelled, requestVars,
                 closerVars>>

\* net.Listen fails.
ListenFails(r) ==
  /\ rpc[r] = "idle"
  /\ rpc' = [rpc EXCEPT ![r] = "returned"]
  /\ UNCHANGED <<closed, mux, servers, inShutdown, cancelled, watch,
                 requestVars, closerVars>>

\* The server is appended under serversMux.
Track(r) ==
  /\ rpc[r] = "made" /\ mux = NoCloser
  /\ servers' = Append(servers, r)
  /\ rpc' = [rpc EXCEPT ![r] = "tracked"]
  /\ UNCHANGED <<closed, mux, inShutdown, cancelled, watch, requestVars,
                 closerVars>>

\* Serve, unless the server is in shutdown already.
Serve(r) ==
  /\ rpc[r] = "tracked"
  /\ rpc' = [rpc EXCEPT ![r] = IF inShutdown[r] THEN "returned" ELSE "serving"]
  /\ UNCHANGED <<closed, mux, servers, inShutdown, cancelled, watch,
                 requestVars, closerVars>>

\* Serve returns, because of a shutdown or because accepting failed.
ServeReturns(r) ==
  /\ rpc[r] = "serving" /\ inShutdown[r]
  /\ rpc' = [rpc EXCEPT ![r] = "returned"]
  /\ UNCHANGED <<closed, mux, servers, inShutdown, cancelled, watch,
                 requestVars, closerVars>>

AcceptFails(r) ==
  /\ rpc[r] = "serving" /\ ~inShutdown[r]
  /\ rpc' = [rpc EXCEPT ![r] = "returned"]
  /\ UNCHANGED <<closed, mux, servers, inShutdown, cancelled, watch,
                 requestVars, closerVars>>

Cancel(r) ==
  /\ ~cancelled[r]
  /\ cancelled' = [cancelled EXCEPT ![r] = TRUE]
  /\ UNCHANGED <<closed, mux, servers, rpc, inShutdown, watch, requestVars,
                 closerVars>>

\* The watcher's Shutdown has a context that is done: it does not wait.
WatchFires(r) ==
  /\ watch[r] = "waiting" /\ cancelled[r]
  /\ inShutdown' = [inShutdown EXCEPT ![r] = TRUE]
  /\ watch' = [watch EXCEPT ![r] = "off"]
  /\ UNCHANGED <<closed, mux, servers, rpc, cancelled, requestVars, closerVars>>

-----------------------------------------------------------------------------
(* Requests *)

\* A connection is accepted and its request handled.
Accept(q, r) ==
  /\ qpc[q] = "idle" /\ rpc[r] = "serving" /\ ~inShutdown[r]
  /\ qpc' = [qpc EXCEPT ![q] = "handling"]
  /\ on' = [on EXCEPT ![q] = r]
  /\ conns' = conns \cup {q}
  /\ UNCHANGED <<closed, mux, servers, runVars, closerVars>>

\* The handler calls Addrs or SetKeepAlivesEnabled.
UseServer(q) ==
  /\ HandlersUseServer /\ qpc[q] = "handling"
  /\ qpc' = [qpc EXCEPT ![q] = "locking"]
  /\ UNCHANGED <<closed, mux, servers, runVars, on, conns, closerVars>>

\* Its critical section under serversMux.
UsedServer(q) ==
  /\ qpc[q] = "locking" /\ mux = NoCloser
  /\ qpc' = [qpc EXCEPT ![q] = "handling"]
  /\ UNCHANGED <<closed, mux, servers, runVars, on, conns, closerVars>>

\* The handler returns.
Finish(q) ==
  /\ qpc[q] = "handling"
  /\ qpc' = [qpc EXCEPT ![q] = "idle"]
  /\ on' = [on EXCEPT ![q] = NoRunner]
  /\ conns' = conns \ {q}
  /\ UNCHANGED <<closed, mux, servers, runVars, closerVars>>

-----------------------------------------------------------------------------
(* Close and Shutdown *)

\* The first call wins the compare-and-swap.
Win(c, k) ==
  /\ cpc[c] = "idle" /\ ~closed
  /\ closed' = TRUE
  /\ cpc' = [cpc EXCEPT ![c] = "locking"]
  /\ kind' = [kind EXCEPT ![c] = k]
  /\ UNCHANGED <<mux, servers, runVars, requestVars, pos>>

\* Any other returns http.ErrServerClosed.
Lose(c, k) ==
  /\ cpc[c] = "idle" /\ closed
  /\ kind' = [kind EXCEPT ![c] = k]
  /\ UNCHANGED <<closed, mux, servers, runVars, requestVars, cpc, pos>>

Lock(c) ==
  /\ cpc[c] = "locking" /\ mux = NoCloser
  /\ mux' = c
  /\ pos' = [pos EXCEPT ![c] = 1]
  /\ cpc' = [cpc EXCEPT ![c] = "loop"]
  /\ UNCHANGED <<closed, servers, runVars, requestVars, kind>>

\* Mutant: the element after a closed one is skipped.
CloseOneSkipping(c) ==
  LET r == servers[pos[c]] IN
  /\ cpc[c] = "loop" /\ kind[c] = "close" /\ pos[c] <= Len(servers)
  /\ inShutdown' = [inShutdown EXCEPT ![r] = TRUE]
  /\ conns' = conns \ ConnsOf(r)
  /\ pos' = [pos EXCEPT ![c] = @ + 2]
  /\ UNCHANGED <<closed, mux, servers, rpc, cancelled, watch, qpc, on, cpc, kind>>

\* Close's loop body: SetKeepAlivesEnabled(false) and http.Server.Close.
CloseOne(c) ==
  LET r == servers[pos[c]] IN
  /\ cpc[c] = "loop" /\ kind[c] = "close" /\ pos[c] <= Len(servers)
  /\ inShutdown' = [inShutdown EXCEPT ![r] = TRUE]
  /\ conns' = conns \ ConnsOf(r)
  /\ pos' = [pos EXCEPT ![c] = @ + 1]
  /\ UNCHANGED <<closed, mux, servers, rpc, cancelled, watch, qpc, on, cpc, kind>>

\* Shutdown's loop body: http.Server.Shutdown stops accepting,
ShutdownOne(c) ==
  /\ cpc[c] = "loop" /\ kind[c] # "close" /\ pos[c] <= Len(servers)
  /\ inShutdown' = [inShutdown EXCEPT ![servers[pos[c]]] = TRUE]
  /\ cpc' = [cpc EXCEPT ![c] = "draining"]
  /\ UNCHANGED <<closed, mux, servers, rpc, cancelled, watch, requestVars,
                 kind, pos>>

\* Mutant: the servers are shut down in the background.
DrainedAtOnce(c) ==
  /\ cpc[c] = "draining"
  /\ cpc' = [cpc EXCEPT ![c] = "loop"]
  /\ pos' = [pos EXCEPT ![c] = @ + 1]
  /\ UNCHANGED <<closed, mux, servers, runVars, requestVars, kind>>

\* Mutant: the loop does not get past a server that drained.
DrainedStaying(c) ==
  /\ cpc[c] = "draining" /\ ConnsOf(servers[pos[c]]) = {}
  /\ cpc' = [cpc EXCEPT ![c] = "loop"]
  /\ UNCHANGED <<closed, mux, servers, runVars, requestVars, kind, pos>>

\* and waits for the connections to go,
Drained(c) ==
  /\ cpc[c] = "draining" /\ ConnsOf(servers[pos[c]]) = {}
  /\ cpc' = [cpc EXCEPT ![c] = "loop"]
  /\ pos' = [pos EXCEPT ![c] = @ + 1]
  /\ UNCHANGED <<closed, mux, servers, runVars, requestVars, kind>>

\* or for the deadline.
Deadline(c) ==
  /\ cpc[c] = "draining" /\ kind[c] = "timed"
  /\ cpc' = [cpc EXCEPT ![c] = "loop"]
  /\ pos' = [pos EXCEPT ![c] = @ + 1]
  /\ UNCHANGED <<closed, mux, servers, runVars, requestVars, kind>>

\* The list is dropped and the lock released.
Unlock(c) ==
  /\ cpc[c] = "loop" /\ pos[c] > Len(servers)
  /\ servers' = <<>>
  /\ mux' = NoCloser
  /\ pos' = [pos EXCEPT ![c] = 0]
  /\ cpc' = [cpc EXCEPT ![c] = "idle"]
  /\ UNCHANGED <<closed, runVars, requestVars, kind>>

-----------------------------------------------------------------------------
RunStep(r) == Track(r) \/ Serve(r) \/ ServeReturns(r)
Run(r)     == Listen(r) \/ ListenFails(r) \/ RunStep(r) \/ AcceptFails(r)
CloserStep(c) == \/ CloseOne(c) \/ ShutdownOne(c)
                 \/ Drained(c) \/ Deadline(c) \/ Unlock(c)

\* What goes on around the calls that run the servers.
Surroundings ==
  \/ \E r \in Runner : \/ Cancel(r) \/ WatchFires(r)
                       \/ \E q \in Request : Accept(q, r)
  \/ \E q \in Request : UseServer(q) \/ UsedServer(q) \/ Finish(q)
  \/ \E c \in Closer : \/ \E k \in Kinds : Win(c, k) \/ Lose(c, k)
                       \/ Lock(c) \/ CloserStep(c)

ServerNext == Surroundings \/ \E r \in Runner : Run(r)

ServerSpec == ServerInit /\ [][ServerNext]_serverVars

(***************************************************************************)
(* Goroutines run and timers fire.  sync.Mutex hands the lock over to the  *)
(* longest waiter: strong fairness for the steps that take serversMux.     *)
(* Handlers return (the server's WriteTimeout ends those that write), but  *)
(* may call the server as often as they like before.                       *)
(***************************************************************************)
Fairness ==
  /\ \A r \in Runner : /\ WF_serverVars(RunStep(r)) /\ WF_serverVars(WatchFires(r))
                       /\ SF_serverVars(Track(r))
  /\ \A q \in Request : SF_serverVars(UsedServer(q)) /\ SF_serverVars(Finish(q))
  /\ \A c \in Closer : WF_serverVars(CloserStep(c)) /\ SF_serverVars(Lock(c))

ServerFairSpec == ServerSpec /\ Fairness
-----------------------------------------------------------------------------
(* Properties *)

\* When Shutdown(0) returns no connection is left on any server it knew, also
\* on those it did not wait for last (server.go:278-281).
GracefulDrains ==
  [][\A c \in Closer : Unlock(c) /\ kind[c] = "graceful" =>
       \A r \in Tracked : ConnsOf(r) = {}]_serverVars

\* Shutdown(0) waits for a handler that waits for the serversMux it holds.
Stuck(c) == /\ cpc[c] = "draining" /\ kind[c] = "graceful"
            /\ \E q \in ConnsOf(servers[pos[c]]) : qpc[q] = "locking"

\* Every server that was tracked when the winner took the lock stops, whatever
\* its Run was about to do, also those after a server that used up the deadline;
\* only a Shutdown(0) that is stuck never gets to them (server.go:167-171, 246,
\* 278).
TrackedServersStop ==
  \A r \in Runner : \A c \in Closer :
    cpc[c] = "loop" /\ r \in Tracked ~> rpc[r] = "returned" \/ Stuck(c)

\* Run ends when its context does, at whatever step that happens, unless a
\* Shutdown that is stuck keeps it from serversMux (server.go:145-148, 167).
CancelStopsRun ==
  \A r \in Runner :
    cancelled[r] /\ rpc[r] # "idle" ~>
      \/ rpc[r] = "returned"
      \/ rpc[r] = "made" /\ \E c \in Closer : Stuck(c)

\* A call of Close or Shutdown comes to an end unless it is stuck: neither the
\* other servers nor the calls of Run and of Addrs that compete for the mutex
\* can hold it up (server.go:245, 277-283).
ClosersReturn == \A c \in Closer : cpc[c] # "idle" ~> cpc[c] = "idle" \/ Stuck(c)
=============================================================================
