----------------------------- MODULE TLSServers -----------------------------
(***************************************************************************)
(* RunAutoCertDyn and RunTLSAndAuto of ssl.go, next to the calls of Run of *)
(* ServerLifecycle.  Both start two listeners: the https server, which is  *)
(* made and tracked like that of Run and is a Runner here, and a plain     *)
(* listener on :80, which is nobody's.  RunTLSAndAuto runs both in         *)
(* goroutines that send their results on a channel and returns the first   *)
(* of them; RunAutoCertDyn serves https itself.                            *)
(***************************************************************************)
EXTENDS ServerLifecycle

CONSTANT Calls   \* what the Runners may be together, each "run" for Run, "auto"
                 \* for RunTLSAndAuto, "dyn" for RunAutoCertDyn or "none"

ASSUME CallAssumption == Calls \subseteq [Runner -> {"run", "auto", "dyn", "none"}]

VARIABLES
  how,         \* which of them each Runner is
  call,        \* call[r]: "idle", "running", "returned"
  http,        \* http[r]: the listener on :80: "off", "up", "down"
  failed,      \* failed[r]: the https listener ended on an error of its own
  owed,        \* owed[r]: the results each of its goroutines still has to send
  ch           \* ch[r]: how many results the channel holds

tlsVars == <<how, call, http, failed, owed, ch>>
allVars == <<serverVars, tlsVars>>

Plain  == {r \in Runner : how[r] = "run"}
Secure == {r \in Runner : how[r] \in {"auto", "dyn"}}
Side   == {"http", "https"}

TlsInit ==
  /\ ServerInit
  /\ how \in Calls
  /\ call = [r \in Runner |-> "idle"]
  /\ http = [r \in Runner |-> "off"]
  /\ failed = [r \in Runner |-> FALSE]
  /\ owed = [r \in Runner |-> [s \in Side |-> 0]]
  /\ ch = [r \in Runner |-> 0]

-----------------------------------------------------------------------------
(* The calls *)

\* The https server is made, with the goroutine that watches its context.
Begin(r) ==
  /\ Listen(r)
  /\ call' = [call EXCEPT ![r] = "running"]
  /\ UNCHANGED <<how, http, failed, owed, ch>>

\* RunAutoCertDyn first asks the options for a manager, and they may be bad.
BadOptions(r) ==
  /\ how[r] = "dyn"
  /\ ListenFails(r)
  /\ call' = [call EXCEPT ![r] = "returned"]
  /\ UNCHANGED <<how, http, failed, owed, ch>>

\* RunTLSAndAuto only finds out that a certificate or the options are bad once
\* the server is made: it returns and leaves the watcher behind.
BadCertificate(r) ==
  /\ how[r] = "auto" /\ rpc[r] = "made"
  /\ rpc' = [rpc EXCEPT ![r] = "returned"]
  /\ call' = [call EXCEPT ![r] = "returned"]
  /\ UNCHANGED <<closed, mux, servers, inShutdown, cancelled, watch, requestVars,
                 closerVars, how, http, failed, owed, ch>>

\* The server is tracked; then the listeners start.
TrackSecure(r) ==
  /\ Track(r)
  /\ http' = [http EXCEPT ![r] = "up"]
  /\ UNCHANGED <<how, call, failed, owed, ch>>

\* RunTLSAndAuto returns the first result, whichever listener it is from.
Receive(r) ==
  /\ how[r] = "auto" /\ call[r] = "running" /\ ch[r] > 0
  /\ ch' = [ch EXCEPT ![r] = @ - 1]
  /\ call' = [call EXCEPT ![r] = "returned"]
  /\ UNCHANGED <<serverVars, how, http, failed, owed>>

DynReturns(r) ==
  /\ how[r] = "dyn" /\ call[r] = "running" /\ rpc[r] = "returned"
  /\ call' = [call EXCEPT ![r] = "returned"]
  /\ UNCHANGED <<serverVars, how, http, failed, owed, ch>>

-----------------------------------------------------------------------------
(* The listeners *)

\* Mutant: a shutdown is no result.
OweErrors(r, s, n) ==
  owed' = IF how[r] = "auto" THEN [owed EXCEPT ![r][s] = n - 1] ELSE owed

\* What the goroutine of a listener of RunTLSAndAuto sends when it is over: nil
\* after a shutdown, and after an error the error and then nil as well.
Owe(r, s, n) ==
  owed' = IF how[r] = "auto" THEN [owed EXCEPT ![r][s] = n] ELSE owed

\* ListenAndServe on :80 fails; nothing else ends it.
HttpFails(r) ==
  /\ http[r] = "up"
  /\ http' = [http EXCEPT ![r] = "down"]
  /\ Owe(r, "http", 2)
  /\ UNCHANGED <<serverVars, how, call, failed, ch>>

\* ListenAndServeTLS serves, or finds the server in shutdown.
ServeSecure(r) ==
  /\ Serve(r)
  /\ IF inShutdown[r] THEN Owe(r, "https", 1) ELSE UNCHANGED owed
  /\ UNCHANGED <<how, call, http, failed, ch>>

HttpsCloses(r) ==
  /\ ServeReturns(r)
  /\ Owe(r, "https", 1)
  /\ UNCHANGED <<how, call, http, failed, ch>>

\* It cannot listen, or accepting fails.
HttpsFails(r) ==
  /\ rpc[r] \in {"tracked", "serving"} /\ ~inShutdown[r]
  /\ rpc' = [rpc EXCEPT ![r] = "returned"]
  /\ failed' = [failed EXCEPT ![r] = TRUE]
  /\ Owe(r, "https", 2)
  /\ UNCHANGED <<closed, mux, servers, inShutdown, cancelled, watch, requestVars,
                 closerVars, how, call, http, ch>>

\* Mutant: make(chan error, 1).
CapacityOne == 1

\* make(chan error, 2)
Capacity == 2

\* A goroutine sends a result.
SendResult(r, s) ==
  /\ owed[r][s] > 0 /\ ch[r] < Capacity
  /\ owed' = [owed EXCEPT ![r][s] = @ - 1]
  /\ ch' = [ch EXCEPT ![r] = @ + 1]
  /\ UNCHANGED <<serverVars, how, call, http, failed>>

-----------------------------------------------------------------------------
SecureStep(r) ==
  \/ TrackSecure(r) \/ ServeSecure(r) \/ HttpsCloses(r)
  \/ Receive(r) \/ DynReturns(r) \/ \E s \in Side : SendResult(r, s)

TlsNext ==
  \/ /\ Surroundings \/ \E r \in Plain : Run(r)
     /\ UNCHANGED tlsVars
  \/ \E r \in Secure : \/ Begin(r) \/ BadOptions(r) \/ BadCertificate(r)
                       \/ HttpFails(r) \/ HttpsFails(r) \/ SecureStep(r)

TlsSpec == TlsInit /\ [][TlsNext]_allVars

(* The fairness of ServerLifecycle, and the goroutines of the secure       *)
(* servers run.  A listener need not fail.                                 *)
TlsFairSpec ==
  /\ TlsSpec
  /\ \A r \in Runner :
       /\ WF_allVars(RunStep(r) /\ r \in Plain /\ UNCHANGED tlsVars)
       /\ SF_allVars(Track(r) /\ r \in Plain /\ UNCHANGED tlsVars)
       /\ WF_allVars(WatchFires(r) /\ UNCHANGED tlsVars)
       /\ WF_allVars(r \in Secure /\ SecureStep(r))
       /\ SF_allVars(r \in Secure /\ TrackSecure(r))
  /\ \A q \in Request : /\ SF_allVars(UsedServer(q) /\ UNCHANGED tlsVars)
                        /\ SF_allVars(Finish(q) /\ UNCHANGED tlsVars)
  /\ \A c \in Closer : /\ WF_allVars(CloserStep(c) /\ UNCHANGED tlsVars)
                       /\ SF_allVars(Lock(c) /\ UNCHANGED tlsVars)

-----------------------------------------------------------------------------
(* Properties *)

\* A call that serves https returns once its context is done, whatever became
\* of the other listener and of the results in the channel, unless a Shutdown
\* that is stuck keeps it from serversMux (ssl.go:127, 252-278).
SecureCallReturns ==
  \A r \in Runner :
    cancelled[r] /\ call[r] = "running" ~>
      \/ call[r] = "returned"
      \/ rpc[r] = "made" /\ \E c \in Closer : Stuck(c)

\* The goroutine of a listener that is over gets rid of its results and ends,
\* though only one result is ever received, unless both listeners failed: then
\* four results are sent, and the last waits forever (ssl.go:256-278).
SendersEnd ==
  \A r \in Runner : \A s \in Side :
    owed[r][s] > 0 ~> owed[r][s] = 0 \/ (failed[r] /\ http[r] = "down")
=============================================================================
