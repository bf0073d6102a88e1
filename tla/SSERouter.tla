------------------------------ MODULE SSERouter ------------------------------
(***************************************************************************)
(* Router of sse/sse.go: a map from topic ids to broadcast streams, shared *)
(* by the running calls of Handle (one per connected client) and of Send,  *)
(* and one goroutine per stream that copies what is sent to every client.  *)
(*                                                                         *)
(* A step is a critical section or a channel operation.  Under r.mux (a    *)
(* sync.RWMutex) a Send may block on an unbuffered channel, so the lock is *)
(* modelled as Go implements it: a writer first takes the internal mutex   *)
(* rw.w and announces itself, which holds new readers back, and waits for  *)
(* the active readers; its unlock admits every reader that waited.         *)
(* Nothing blocks under ms.mux, so its critical sections are single steps. *)
(*                                                                         *)
(* Streams are memory: an id of Stream is used again once the stream is    *)
(* unmapped, its goroutine is gone and no handler refers to it.            *)
(***************************************************************************)
EXTENDS Naturals, Sequences, FiniteSets

CONSTANTS
  Handler,   \* goroutines that call Handle
  Sender,    \* goroutines that call Send
  Stream,    \* memory for multiStream values
  Topic,     \* stream ids, the keys of Router.mss
  BufSize,   \* the bufSize argument of Handle
  MaxMsg,    \* bound: no Send is started once this many messages are out
  NoStream, NoHandler, NoTopic

ASSUME BufSizeAssumption == BufSize \in Nat \ {0}
ASSUME NoneAssumption ==
  /\ NoStream \notin Stream
  /\ NoHandler \notin Handler
  /\ NoTopic \notin Topic

VARIABLES
  mss,      \* Router.mss: the stream of each topic
  wr,       \* r.mux: the writer that announced itself, or NoHandler
  clients,  \* multiStream.clients, a channel being named by its handler
  closed,   \* the streams whose data channel is closed
  proc,     \* where the goroutine of each stream is
  held,     \* the message that goroutine took off the data channel
  hpc,      \* where each Handle call is
  hms,      \* its variable ms
  topic,    \* its argument id
  buf,      \* the messages buffered in its channel ch
  open,     \* whether ch is open
  spc,      \* where each Send call is
  stopic,   \* its argument id
  sms,      \* its variable ms
  log,      \* history: the topic of every message handed to a stream
  last      \* history: the last message a handler can no longer write

routerVars  == <<mss, wr>>
streamVars  == <<clients, closed, proc, held>>
handlerVars == <<hpc, hms, topic, buf, open, last>>
senderVars  == <<spc, stopic, sms>>
vars == <<mss, wr, clients, closed, proc, held, hpc, hms, topic, buf, open,
          spc, stopic, sms, log, last>>

Init ==
  /\ mss = [t \in Topic |-> NoStream]
  /\ wr = NoHandler
  /\ clients = [s \in Stream |-> {}]
  /\ closed = {}
  /\ proc = [s \in Stream |-> "off"]
  /\ held = [s \in Stream |-> 0]
  /\ hpc = [h \in Handler |-> "idle"]
  /\ hms = [h \in Handler |-> NoStream]
  /\ topic = [h \in Handler |-> NoTopic]
  /\ buf = [h \in Handler |-> <<>>]
  /\ open = [h \in Handler |-> FALSE]
  /\ spc = [p \in Sender |-> "idle"]
  /\ stopic = [p \in Sender |-> NoTopic]
  /\ sms = [p \in Sender |-> NoStream]
  /\ log = <<>>
  /\ last = [h \in Handler |-> 0]

Mapped(s)    == \E t \in Topic : mss[t] = s
Free(s)      == /\ proc[s] = "off"
                /\ ~Mapped(s)
                /\ \A h \in Handler : hms[h] # s
Reading      == {p \in Sender : spc[p] \in {"reading", "sending"}}
Locking(h)   == hpc[h] \in {"getLock", "retire"}

-----------------------------------------------------------------------------
(* r.mux *)

\* Lock, first half: the writer holds rw.w and is announced.
Announce(h) ==
  /\ Locking(h)
  /\ wr = NoHandler
  /\ wr' = h
  /\ UNCHANGED <<mss, streamVars, handlerVars, senderVars, log>>

\* Lock, second half: the readers that were active are gone.
HoldsLock(h) == wr = h /\ Reading = {}

\* Unlock: every reader that waited is admitted.
Unlock ==
  /\ wr' = NoHandler
  /\ spc' = [p \in Sender |-> IF spc[p] = "rlock" THEN "reading" ELSE spc[p]]
  /\ UNCHANGED <<stopic, sms>>

-----------------------------------------------------------------------------
(* Handle *)

\* The headers are flushed, the channel is made and getOrMake is called.
Connect(h, t) ==
  /\ hpc[h] = "idle"
  /\ hpc' = [hpc EXCEPT ![h] = "getLock"]
  /\ topic' = [topic EXCEPT ![h] = t]
  /\ buf' = [buf EXCEPT ![h] = <<>>]
  /\ open' = [open EXCEPT ![h] = TRUE]
  /\ UNCHANGED <<routerVars, streamVars, senderVars, hms, log, last>>

\* The last message that cannot reach a client joining stream s: a message
\* being delivered still can.
Missed(s) == IF proc[s] = "deliver" THEN held[s] - 1 ELSE Len(log)

\* getOrMake, the topic has a stream.
GetStream(h) ==
  /\ hpc[h] = "getLock" /\ HoldsLock(h)
  /\ mss[topic[h]] # NoStream
  /\ hms' = [hms EXCEPT ![h] = mss[topic[h]]]
  /\ hpc' = [hpc EXCEPT ![h] = "got"]
  /\ last' = [last EXCEPT ![h] = Missed(mss[topic[h]])]
  /\ Unlock
  /\ UNCHANGED <<mss, streamVars, topic, buf, open, log>>

\* getOrMake, a new stream is made, mapped, and its goroutine started.
MakeStream(h, s) ==
  /\ hpc[h] = "getLock" /\ HoldsLock(h)
  /\ mss[topic[h]] = NoStream
  /\ Free(s)
  /\ mss' = [mss EXCEPT ![topic[h]] = s]
  /\ clients' = [clients EXCEPT ![s] = {}]
  /\ closed' = closed \ {s}
  /\ proc' = [proc EXCEPT ![s] = "recv"]
  /\ hms' = [hms EXCEPT ![h] = s]
  /\ hpc' = [hpc EXCEPT ![h] = "got"]
  /\ last' = [last EXCEPT ![h] = Len(log)]
  /\ Unlock
  /\ UNCHANGED <<held, topic, buf, open, log>>

\* multiStream.add
Add(h) ==
  /\ hpc[h] = "got"
  /\ clients' = [clients EXCEPT ![hms[h]] = @ \cup {h}]
  /\ hpc' = [hpc EXCEPT ![h] = "serve"]
  /\ UNCHANGED <<routerVars, closed, proc, held, hms, topic, buf, open, last,
                 senderVars, log>>

\* The select loop takes a message and writes it to the client; if the write
\* fails Handle returns.
WriteEvent(h) ==
  /\ hpc[h] = "serve" /\ buf[h] # <<>>
  /\ buf' = [buf EXCEPT ![h] = Tail(@)]
  /\ last' = [last EXCEPT ![h] = Head(buf[h])]
  /\ hpc' \in {hpc, [hpc EXCEPT ![h] = "leave"]}
  /\ UNCHANGED <<routerVars, streamVars, hms, topic, open, senderVars, log>>

\* The request's context is done.
ClientGone(h) ==
  /\ hpc[h] = "serve"
  /\ hpc' = [hpc EXCEPT ![h] = "leave"]
  /\ UNCHANGED <<routerVars, streamVars, hms, topic, buf, open, last,
                 senderVars, log>>

\* Mutant: remove closes the channel and leaves it registered.
RemoveNoDelete(h) ==
  /\ hpc[h] = "leave"
  /\ open' = [open EXCEPT ![h] = FALSE]
  /\ buf' = [buf EXCEPT ![h] = <<>>]
  /\ hms' = [hms EXCEPT ![h] = NoStream]
  /\ last' = [last EXCEPT ![h] = 0]
  /\ hpc' = [hpc EXCEPT ![h] = "idle"]
  /\ topic' = [topic EXCEPT ![h] = NoTopic]
  /\ UNCHANGED <<routerVars, streamVars, senderVars, log>>

\* Mutant: isEmpty is computed before the delete.
RemoveCheckedFirst(h) ==
  /\ hpc[h] = "leave"
  /\ clients' = [clients EXCEPT ![hms[h]] = @ \ {h}]
  /\ open' = [open EXCEPT ![h] = FALSE]
  /\ buf' = [buf EXCEPT ![h] = <<>>]
  /\ hms' = [hms EXCEPT ![h] = NoStream]
  /\ last' = [last EXCEPT ![h] = 0]
  /\ hpc' = [hpc EXCEPT ![h] =
               IF clients[hms[h]] = {} THEN "retire" ELSE "idle"]
  /\ topic' = [topic EXCEPT ![h] = NoTopic]
  /\ UNCHANGED <<routerVars, closed, proc, held, senderVars, log>>

\* removeIfEmpty up to its early return: multiStream.remove.
Remove(h) ==
  LET rest == clients[hms[h]] \ {h} IN
  /\ hpc[h] = "leave"
  /\ clients' = [clients EXCEPT ![hms[h]] = rest]
  /\ open' = [open EXCEPT ![h] = FALSE]
  /\ buf' = [buf EXCEPT ![h] = <<>>]
  /\ hms' = [hms EXCEPT ![h] = NoStream]
  /\ last' = [last EXCEPT ![h] = 0]
  /\ hpc' = [hpc EXCEPT ![h] = IF rest = {} THEN "retire" ELSE "idle"]
  /\ topic' = [topic EXCEPT ![h] = IF rest = {} THEN @ ELSE NoTopic]
  /\ UNCHANGED <<routerVars, closed, proc, held, senderVars, log>>

\* Mutant: the data channel is not closed.
RetireNoClose(h) ==
  /\ hpc[h] = "retire" /\ HoldsLock(h)
  /\ mss' = [mss EXCEPT ![topic[h]] = NoStream]
  /\ hpc' = [hpc EXCEPT ![h] = "idle"]
  /\ topic' = [topic EXCEPT ![h] = NoTopic]
  /\ Unlock
  /\ UNCHANGED <<streamVars, hms, buf, open, last, log>>

\* Mutant: the lock is kept when another call unmapped the stream first.
RetireKeepsLock(h) ==
  /\ hpc[h] = "retire" /\ HoldsLock(h)
  /\ closed' = closed \cup ({mss[topic[h]]} \ {NoStream})
  /\ mss' = [mss EXCEPT ![topic[h]] = NoStream]
  /\ hpc' = [hpc EXCEPT ![h] = "idle"]
  /\ topic' = [topic EXCEPT ![h] = NoTopic]
  /\ IF mss[topic[h]] = NoStream THEN UNCHANGED <<wr, senderVars>> ELSE Unlock
  /\ UNCHANGED <<clients, proc, held, hms, buf, open, last, log>>

\* The rest of removeIfEmpty, under r.mux: whatever stream the topic has now
\* is closed and unmapped.
Retire(h) ==
  /\ hpc[h] = "retire" /\ HoldsLock(h)
  /\ closed' = closed \cup ({mss[topic[h]]} \ {NoStream})
  /\ mss' = [mss EXCEPT ![topic[h]] = NoStream]
  /\ hpc' = [hpc EXCEPT ![h] = "idle"]
  /\ topic' = [topic EXCEPT ![h] = NoTopic]
  /\ Unlock
  /\ UNCHANGED <<clients, proc, held, hms, buf, open, last, log>>

-----------------------------------------------------------------------------
(* Send *)

\* The number of messages out, counting those about to be.
Outstanding == Len(log) + Cardinality({p \in Sender : spc[p] # "idle"})

\* RLock: granted at once unless a writer is announced.
RLock(p, t) ==
  /\ spc[p] = "idle"
  /\ Outstanding < MaxMsg
  /\ spc' = [spc EXCEPT ![p] = IF wr = NoHandler THEN "reading" ELSE "rlock"]
  /\ stopic' = [stopic EXCEPT ![p] = t]
  /\ UNCHANGED <<routerVars, streamVars, handlerVars, sms, log>>

\* Send returns ErrNoListener.
SendNoListener(p) ==
  /\ spc[p] = "reading" /\ mss[stopic[p]] = NoStream
  /\ spc' = [spc EXCEPT ![p] = "idle"]
  /\ stopic' = [stopic EXCEPT ![p] = NoTopic]
  /\ UNCHANGED <<routerVars, streamVars, handlerVars, sms, log>>

\* makeData fails and Send returns its error.
SendBadData(p) ==
  /\ spc[p] = "reading" /\ mss[stopic[p]] # NoStream
  /\ spc' = [spc EXCEPT ![p] = "idle"]
  /\ stopic' = [stopic EXCEPT ![p] = NoTopic]
  /\ UNCHANGED <<routerVars, streamVars, handlerVars, sms, log>>

\* Send reaches the channel operation, still holding the read lock.
Offer(p) ==
  /\ spc[p] = "reading" /\ mss[stopic[p]] # NoStream
  /\ sms' = [sms EXCEPT ![p] = mss[stopic[p]]]
  /\ spc' = [spc EXCEPT ![p] = "sending"]
  /\ UNCHANGED <<routerVars, streamVars, handlerVars, stopic, log>>

\* ms.data is unbuffered: the send happens when the goroutine receives.
HandOver(p) ==
  LET s == sms[p] IN
  /\ spc[p] = "sending" /\ proc[s] = "recv" /\ s \notin closed
  /\ log' = Append(log, stopic[p])
  /\ held' = [held EXCEPT ![s] = Len(log) + 1]
  /\ proc' = [proc EXCEPT ![s] = "deliver"]
  /\ spc' = [spc EXCEPT ![p] = "idle"]
  /\ stopic' = [stopic EXCEPT ![p] = NoTopic]
  /\ sms' = [sms EXCEPT ![p] = NoStream]
  /\ UNCHANGED <<routerVars, clients, closed, handlerVars>>

-----------------------------------------------------------------------------
(* process *)

\* Mutant: a later offer overtakes the earlier ones.
trySendOvertaking(q, m) == IF Len(q) < BufSize THEN <<m>> \o q ELSE q

\* Mutant: the oldest message is overwritten where it is.
trySendWrapping(q, m) == IF Len(q) < BufSize THEN Append(q, m) ELSE <<m>> \o Tail(q)

\* trySend: a full channel drops the message.
trySend(q, m) == IF Len(q) < BufSize THEN Append(q, m) ELSE q

\* The loop body: the message is offered to every client.
Deliver(s) ==
  /\ proc[s] = "deliver"
  /\ buf' = [h \in Handler |->
               IF h \in clients[s] THEN trySend(buf[h], held[s]) ELSE buf[h]]
  /\ proc' = [proc EXCEPT ![s] = "recv"]
  /\ held' = [held EXCEPT ![s] = 0]
  /\ UNCHANGED <<routerVars, clients, closed, hpc, hms, topic, open, last,
                 senderVars, log>>

\* Mutant: the goroutine stops when it has no clients.
ExitNoClients(s) ==
  /\ proc[s] = "recv" /\ clients[s] = {}
  /\ proc' = [proc EXCEPT ![s] = "off"]
  /\ UNCHANGED <<routerVars, clients, closed, held, handlerVars, senderVars,
                 log>>

\* Mutant: the goroutine of a retired stream waits for its clients to leave.
ExitOnlyUnused(s) ==
  /\ proc[s] = "recv" /\ s \in closed /\ clients[s] = {}
  /\ \A h \in Handler : hms[h] # s
  /\ proc' = [proc EXCEPT ![s] = "off"]
  /\ UNCHANGED <<routerVars, clients, closed, held, handlerVars, senderVars,
                 log>>

\* The range loop ends once the data channel is closed.
Exit(s) ==
  /\ proc[s] = "recv" /\ s \in closed
  /\ proc' = [proc EXCEPT ![s] = "off"]
  /\ UNCHANGED <<routerVars, clients, closed, held, handlerVars, senderVars,
                 log>>

-----------------------------------------------------------------------------
HandlerStep(h) ==
  \/ Announce(h)
  \/ GetStream(h)
  \/ \E s \in Stream : MakeStream(h, s)
  \/ Add(h)
  \/ WriteEvent(h)
  \/ Remove(h)
  \/ Retire(h)

SenderStep(p) ==
  \/ SendNoListener(p)
  \/ SendBadData(p)
  \/ Offer(p)
  \/ HandOver(p)

StreamStep(s) == Deliver(s) \/ Exit(s)

Next ==
  \/ \E h \in Handler : \/ \E t \in Topic : Connect(h, t)
                        \/ ClientGone(h)
                        \/ HandlerStep(h)
  \/ \E p \in Sender : \/ \E t \in Topic : RLock(p, t)
                       \/ SenderStep(p)
  \/ \E s \in Stream : StreamStep(s)

Spec == Init /\ [][Next]_vars

(***************************************************************************)
(* A runnable goroutine runs, so what a goroutine can keep doing it does.  *)
(* sync.Mutex hands rw.w to the longest waiter after a millisecond and the *)
(* senders parked on a channel are served in order: strong fairness for    *)
(* Announce and HandOver.  Clients need not connect or leave, and nobody   *)
(* has to call Send.                                                       *)
(***************************************************************************)
Fairness ==
  /\ \A h \in Handler : /\ WF_vars(HandlerStep(h))
                        /\ SF_vars(Announce(h))
  /\ \A p \in Sender : /\ WF_vars(SenderStep(p))
                       /\ SF_vars(HandOver(p))
  /\ \A s \in Stream : WF_vars(StreamStep(s))

FairSpec == Spec /\ Fairness
-----------------------------------------------------------------------------
(* Properties *)

\* Every variable has its type.
TypeOK ==
  /\ mss \in [Topic -> Stream \cup {NoStream}]
  /\ wr \in Handler \cup {NoHandler}
  /\ clients \in [Stream -> SUBSET Handler]
  /\ closed \in SUBSET Stream
  /\ proc \in [Stream -> {"off", "recv", "deliver"}]
  /\ held \in [Stream -> Nat]
  /\ hpc \in [Handler ->
       {"idle", "getLock", "got", "serve", "leave", "retire"}]
  /\ hms \in [Handler -> Stream \cup {NoStream}]
  /\ topic \in [Handler -> Topic \cup {NoTopic}]
  /\ buf \in [Handler -> Seq(Nat)]
  /\ open \in [Handler -> BOOLEAN]
  /\ spc \in [Sender -> {"idle", "rlock", "reading", "sending"}]
  /\ stopic \in [Sender -> Topic \cup {NoTopic}]
  /\ sms \in [Sender -> Stream \cup {NoStream}]
  /\ log \in Seq(Topic)
  /\ last \in [Handler -> Nat]

\* No operation on a channel panics: a Send never holds a stream whose data
\* channel is closed (sse.go:140), Retire never closes one twice (sse.go:90),
\* and a goroutine never offers to a client channel that remove closed
\* (sse.go:51).
NoPanic ==
  /\ \A p \in Sender : spc[p] = "sending" => sms[p] \notin closed
  /\ \A t \in Topic : mss[t] \notin closed
  /\ \A s \in Stream : \A h \in clients[s] : open[h]

\* A topic with a stream has a Handle call that is bound to unmap it: one
\* that uses the stream, or one on its way to removeIfEmpty's critical
\* section.  With no Handle call running the map is empty.
NoStreamLeak ==
  \A t \in Topic : mss[t] # NoStream =>
    \E h \in Handler :
      /\ topic[h] = t
      /\ \/ hpc[h] = "retire"
         \/ hpc[h] \in {"got", "serve", "leave"} /\ hms[h] = mss[t]

\* A process goroutine runs for a mapped stream or has been told to stop.
NoGoroutineLeak ==
  \A s \in Stream : proc[s] # "off" => s \in closed \/ Mapped(s)

\* The messages of the subscribers are what EventBus promises: those of the
\* handler's own topic, in order, none twice, at most one from before it
\* joined (process, sse.go:43, and Handle, sse.go:113).
Bus == INSTANCE EventBus WITH
         sub <- [h \in Handler |->
                   IF hpc[h] \in {"got", "serve", "leave"}
                   THEN topic[h] ELSE NoTopic]
ImplementsBus == Bus!BusSpec

\* Send returns: its read lock, its channel operation and the writers it keeps
\* waiting never wait for each other (sse.go:127, 140).
SendReturns == \A p \in Sender : spc[p] # "idle" ~> spc[p] = "idle"

\* A client that connects is registered, and one that leaves has its stream
\* retired if it was the last (sse.go:69, 88).
HandleProgresses ==
  \A h \in Handler : /\ hpc[h] = "getLock" ~> hpc[h] = "serve"
                     /\ hpc[h] = "leave" ~> hpc[h] = "idle"

\* The goroutine of a retired stream ends (sse.go:44).
ProcessEnds == \A s \in Stream : s \in closed ~> proc[s] = "off"

=============================================================================
