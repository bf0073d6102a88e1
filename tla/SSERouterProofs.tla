--------------------------- MODULE SSERouterProofs ---------------------------
(***************************************************************************)
(* Safety of SSERouter for every number of handlers, senders, streams and  *)
(* topics, every buffer size and every number of messages, and that the    *)
(* router never deadlocks.                                                 *)
(***************************************************************************)
EXTENDS SSERouter, TLAPS

Using == {"got", "serve", "leave"}

\* A goroutine that is delivering holds a message.
HeldOK == \A s \in Stream : proc[s] = "deliver" => held[s] \in Nat \ {0}

\* Running calls have their arguments.
ArgsOK ==
  /\ \A h \in Handler : hpc[h] # "idle" => topic[h] \in Topic
  /\ \A p \in Sender : spc[p] # "idle" => stopic[p] \in Topic

\* A handler refers to a stream from getOrMake to remove, is registered with
\* it from add to remove, and its channel is open all that time.
ClientsOK ==
  /\ \A h \in Handler :
       /\ hpc[h] \in Using <=> hms[h] # NoStream
       /\ hpc[h] \in Using \cup {"getLock"} => open[h]
  /\ \A s \in Stream : \A h \in Handler :
       h \in clients[s] <=> hpc[h] \in {"serve", "leave"} /\ hms[h] = s

\* The streams in the map are open, not shared, and used only by the handlers
\* of their topic.
MapOK ==
  /\ \A t \in Topic : mss[t] \notin closed
  /\ \A t, u \in Topic : mss[t] = mss[u] /\ mss[t] # NoStream => t = u
  /\ \A t \in Topic, h \in Handler :
       mss[t] # NoStream /\ hms[h] = mss[t] => topic[h] = t

\* A blocked sender is blocked on the stream its topic is mapped to.
SendersOK ==
  \A p \in Sender :
    spc[p] = "sending" => sms[p] = mss[stopic[p]] /\ sms[p] \in Stream

\* The topics do not share streams, and a Send blocked on a channel is blocked
\* on the stream of its own topic, mapped for as long as the read lock is held.
SendersOnMappedStreams ==
  /\ \A t, u \in Topic : mss[t] = mss[u] /\ mss[t] # NoStream => t = u
  /\ \A p \in Sender : spc[p] = "sending" => sms[p] = mss[stopic[p]]

\* The inductive invariant.
IInv == /\ TypeOK
        /\ HeldOK
        /\ ArgsOK
        /\ ClientsOK
        /\ MapOK
        /\ SendersOK
        /\ NoStreamLeak
        /\ NoGoroutineLeak
-----------------------------------------------------------------------------
(* Proofs *)

\* Every step keeps the types.
LEMMA TypeStep ==
  TypeOK /\ HeldOK /\ ArgsOK /\ ClientsOK /\ [Next]_vars => TypeOK'
<1> SUFFICES ASSUME TypeOK, HeldOK, ArgsOK, ClientsOK, [Next]_vars
             PROVE  TypeOK'
  OBVIOUS
<1> USE DEF TypeOK
<1>1. ASSUME NEW h \in Handler, Announce(h) PROVE TypeOK'
  BY <1>1 DEF Announce, Locking, streamVars, handlerVars, senderVars
<1>2. ASSUME NEW h \in Handler, NEW t \in Topic, Connect(h, t) PROVE TypeOK'
  BY <1>2 DEF Connect, routerVars, streamVars, senderVars
<1>3. ASSUME NEW h \in Handler, GetStream(h) PROVE TypeOK'
  BY <1>3, BufSizeAssumption 
      DEF GetStream, ArgsOK, HeldOK, HoldsLock, Unlock, Missed, streamVars
<1>4. ASSUME NEW h \in Handler, NEW s \in Stream, MakeStream(h, s) PROVE TypeOK'
  BY <1>4 DEF MakeStream, ArgsOK, HoldsLock, Unlock, Free, Mapped
<1>5. ASSUME NEW h \in Handler, Add(h) PROVE TypeOK'
  BY <1>5 DEF Add, routerVars, senderVars
<1>6. ASSUME NEW h \in Handler, WriteEvent(h) PROVE TypeOK'
  <2>1. Head(buf[h]) \in Nat /\ Tail(buf[h]) \in Seq(Nat)
    BY <1>6 DEF WriteEvent
  <2> QED
    BY <1>6, <2>1 DEF WriteEvent, routerVars, streamVars, senderVars
<1>7. ASSUME NEW h \in Handler, ClientGone(h) PROVE TypeOK'
  BY <1>7 DEF ClientGone, routerVars, streamVars, senderVars
<1>8. ASSUME NEW h \in Handler, Remove(h) PROVE TypeOK'
  BY <1>8 DEF Remove, ClientsOK, Using, routerVars, senderVars
<1>9. ASSUME NEW h \in Handler, Retire(h) PROVE TypeOK'
  <2>1. {mss[topic[h]]} \ {NoStream} \subseteq Stream
    BY <1>9 DEF Retire, ArgsOK
  <2> QED
    BY <1>9, <2>1 DEF Retire, Unlock
<1>10. ASSUME NEW p \in Sender, NEW t \in Topic, RLock(p, t) PROVE TypeOK'
  BY <1>10 DEF RLock, Outstanding, routerVars, streamVars, handlerVars
<1>11. ASSUME NEW p \in Sender, SendNoListener(p) PROVE TypeOK'
  BY <1>11 DEF SendNoListener, routerVars, streamVars, handlerVars
<1>12. ASSUME NEW p \in Sender, SendBadData(p) PROVE TypeOK'
  BY <1>12 DEF SendBadData, routerVars, streamVars, handlerVars
<1>13. ASSUME NEW p \in Sender, Offer(p) PROVE TypeOK'
  BY <1>13 DEF Offer, ArgsOK, routerVars, streamVars, handlerVars
<1>14. ASSUME NEW p \in Sender, HandOver(p) PROVE TypeOK'
  <2>1. stopic[p] \in Topic
    BY <1>14 DEF HandOver, ArgsOK
  <2>2. Append(log, stopic[p]) \in Seq(Topic) /\ Len(log) + 1 \in Nat
    BY <2>1
  <2> QED
    BY <1>14, <2>2 DEF HandOver, routerVars, handlerVars
<1>15. ASSUME NEW s \in Stream, Deliver(s) PROVE TypeOK'
  BY <1>15 DEF Deliver, trySend, routerVars, senderVars
<1>16. ASSUME NEW s \in Stream, Exit(s) PROVE TypeOK'
  BY <1>16 DEF Exit, routerVars, handlerVars, senderVars
<1>17. CASE UNCHANGED vars
  BY <1>17 DEF vars
<1> QED
  BY <1>1, <1>2, <1>3, <1>4, <1>5, <1>6, <1>7, <1>8, <1>9,
     <1>10, <1>11, <1>12, <1>13, <1>14, <1>15, <1>16, <1>17
  DEF Next, HandlerStep, SenderStep, StreamStep

\* A goroutine holds a message exactly while it delivers.
LEMMA HeldStep == TypeOK /\ HeldOK /\ [Next]_vars => HeldOK'
<1> SUFFICES ASSUME TypeOK, HeldOK, [Next]_vars PROVE HeldOK' OBVIOUS
<1> USE DEF TypeOK, HeldOK
<1>1. ASSUME NEW h \in Handler, Announce(h) PROVE HeldOK'
  BY <1>1 DEF Announce, Locking, streamVars, handlerVars, senderVars
<1>2. ASSUME NEW h \in Handler, NEW t \in Topic, Connect(h, t) PROVE HeldOK'
  BY <1>2 DEF Connect, routerVars, streamVars, senderVars
<1>3. ASSUME NEW h \in Handler, GetStream(h) PROVE HeldOK'
  BY <1>3 DEF GetStream, HoldsLock, Unlock, Missed, streamVars
<1>4. ASSUME NEW h \in Handler, NEW s \in Stream, MakeStream(h, s) PROVE HeldOK'
  BY <1>4 DEF MakeStream, HoldsLock, Unlock, Free, Mapped
<1>5. ASSUME NEW h \in Handler, Add(h) PROVE HeldOK'
  BY <1>5 DEF Add, routerVars, senderVars
<1>6. ASSUME NEW h \in Handler, WriteEvent(h) PROVE HeldOK'
  BY <1>6 DEF WriteEvent, routerVars, streamVars, senderVars
<1>7. ASSUME NEW h \in Handler, ClientGone(h) PROVE HeldOK'
  BY <1>7 DEF ClientGone, routerVars, streamVars, senderVars
<1>8. ASSUME NEW h \in Handler, Remove(h) PROVE HeldOK'
  BY <1>8 DEF Remove, routerVars, senderVars
<1>9. ASSUME NEW h \in Handler, Retire(h) PROVE HeldOK'
  BY <1>9 DEF Retire, HoldsLock, Unlock, Reading
<1>10. ASSUME NEW p \in Sender, NEW t \in Topic, RLock(p, t) PROVE HeldOK'
  BY <1>10 DEF RLock, Outstanding, routerVars, streamVars, handlerVars
<1>11. ASSUME NEW p \in Sender, SendNoListener(p) PROVE HeldOK'
  BY <1>11 DEF SendNoListener, routerVars, streamVars, handlerVars
<1>12. ASSUME NEW p \in Sender, SendBadData(p) PROVE HeldOK'
  BY <1>12 DEF SendBadData, routerVars, streamVars, handlerVars
<1>13. ASSUME NEW p \in Sender, Offer(p) PROVE HeldOK'
  BY <1>13 DEF Offer, routerVars, streamVars, handlerVars
<1>14. ASSUME NEW p \in Sender, HandOver(p) PROVE HeldOK'
  BY <1>14 DEF HandOver, routerVars, handlerVars
<1>15. ASSUME NEW s \in Stream, Deliver(s) PROVE HeldOK'
  BY <1>15 DEF Deliver, trySend, routerVars, senderVars
<1>16. ASSUME NEW s \in Stream, Exit(s) PROVE HeldOK'
  BY <1>16 DEF Exit, routerVars, handlerVars, senderVars
<1>17. CASE UNCHANGED vars
  BY <1>17 DEF vars
<1> QED
  BY <1>1, <1>2, <1>3, <1>4, <1>5, <1>6, <1>7, <1>8, <1>9,
     <1>10, <1>11, <1>12, <1>13, <1>14, <1>15, <1>16, <1>17
  DEF Next, HandlerStep, SenderStep, StreamStep

\* Handle and Send calls have their arguments exactly while they need them.
LEMMA ArgsStep == TypeOK /\ ArgsOK /\ [Next]_vars => ArgsOK'
<1> SUFFICES ASSUME TypeOK, ArgsOK, [Next]_vars PROVE ArgsOK' OBVIOUS
<1> USE DEF TypeOK, ArgsOK
<1>1. ASSUME NEW h \in Handler, Announce(h) PROVE ArgsOK'
  BY <1>1 DEF Announce, Locking, streamVars, handlerVars, senderVars
<1>2. ASSUME NEW h \in Handler, NEW t \in Topic, Connect(h, t) PROVE ArgsOK'
  BY <1>2 DEF Connect, routerVars, streamVars, senderVars
<1>3. ASSUME NEW h \in Handler, GetStream(h) PROVE ArgsOK'
  BY <1>3 DEF GetStream, HoldsLock, Unlock, Missed, streamVars
<1>4. ASSUME NEW h \in Handler, NEW s \in Stream, MakeStream(h, s) PROVE ArgsOK'
  BY <1>4 DEF MakeStream, HoldsLock, Unlock, Free, Mapped
<1>5. ASSUME NEW h \in Handler, Add(h) PROVE ArgsOK'
  BY <1>5 DEF Add, routerVars, senderVars
<1>6. ASSUME NEW h \in Handler, WriteEvent(h) PROVE ArgsOK'
  BY <1>6 DEF WriteEvent, routerVars, streamVars, senderVars
<1>7. ASSUME NEW h \in Handler, ClientGone(h) PROVE ArgsOK'
  BY <1>7 DEF ClientGone, routerVars, streamVars, senderVars
<1>8. ASSUME NEW h \in Handler, Remove(h) PROVE ArgsOK'
  BY <1>8 DEF Remove, routerVars, senderVars
<1>9. ASSUME NEW h \in Handler, Retire(h) PROVE ArgsOK'
  BY <1>9 DEF Retire, HoldsLock, Unlock, Reading
<1>10. ASSUME NEW p \in Sender, NEW t \in Topic, RLock(p, t) PROVE ArgsOK'
  BY <1>10 DEF RLock, Outstanding, routerVars, streamVars, handlerVars
<1>11. ASSUME NEW p \in Sender, SendNoListener(p) PROVE ArgsOK'
  BY <1>11 DEF SendNoListener, routerVars, streamVars, handlerVars
<1>12. ASSUME NEW p \in Sender, SendBadData(p) PROVE ArgsOK'
  BY <1>12 DEF SendBadData, routerVars, streamVars, handlerVars
<1>13. ASSUME NEW p \in Sender, Offer(p) PROVE ArgsOK'
  BY <1>13 DEF Offer, routerVars, streamVars, handlerVars
<1>14. ASSUME NEW p \in Sender, HandOver(p) PROVE ArgsOK'
  BY <1>14 DEF HandOver, routerVars, handlerVars
<1>15. ASSUME NEW s \in Stream, Deliver(s) PROVE ArgsOK'
  BY <1>15 DEF Deliver, trySend, routerVars, senderVars
<1>16. ASSUME NEW s \in Stream, Exit(s) PROVE ArgsOK'
  BY <1>16 DEF Exit, routerVars, handlerVars, senderVars
<1>17. CASE UNCHANGED vars
  BY <1>17 DEF vars
<1> QED
  BY <1>1, <1>2, <1>3, <1>4, <1>5, <1>6, <1>7, <1>8, <1>9,
     <1>10, <1>11, <1>12, <1>13, <1>14, <1>15, <1>16, <1>17
  DEF Next, HandlerStep, SenderStep, StreamStep

\* The clients of a stream are the open channels of the handlers serving it.
LEMMA ClientsStep == TypeOK /\ ArgsOK /\ ClientsOK /\ [Next]_vars => ClientsOK'
<1> SUFFICES ASSUME TypeOK, ArgsOK, ClientsOK, [Next]_vars
             PROVE  ClientsOK'
  OBVIOUS
<1> USE DEF TypeOK, ClientsOK, Using
<1>1. ASSUME NEW h \in Handler, Announce(h) PROVE ClientsOK'
  BY <1>1 DEF Announce, Locking, streamVars, handlerVars, senderVars
<1>2. ASSUME NEW h \in Handler, NEW t \in Topic, Connect(h, t) PROVE ClientsOK'
  BY <1>2 DEF Connect, routerVars, streamVars, senderVars
<1>3. ASSUME NEW h \in Handler, GetStream(h) PROVE ClientsOK'
  BY <1>3 DEF GetStream, ArgsOK, HoldsLock, Unlock, Missed, streamVars
<1>4. ASSUME NEW h \in Handler, NEW s \in Stream, MakeStream(h, s) PROVE ClientsOK'
  BY <1>4 DEF MakeStream, ArgsOK, HoldsLock, Unlock, Free, Mapped
<1>5. ASSUME NEW h \in Handler, Add(h) PROVE ClientsOK'
  BY <1>5 DEF Add, routerVars, senderVars
<1>6. ASSUME NEW h \in Handler, WriteEvent(h) PROVE ClientsOK'
  <2>1. CASE hpc' = hpc
    BY <1>6, <2>1 DEF WriteEvent, routerVars, streamVars
  <2>2. CASE hpc' = [hpc EXCEPT ![h] = "leave"]
    BY <1>6, <2>2 DEF WriteEvent, routerVars, streamVars
  <2> QED
    BY <1>6, <2>1, <2>2 DEF WriteEvent
<1>7. ASSUME NEW h \in Handler, ClientGone(h) PROVE ClientsOK'
  BY <1>7 DEF ClientGone, routerVars, streamVars, senderVars
<1>8. ASSUME NEW h \in Handler, Remove(h) PROVE ClientsOK'
  BY <1>8 DEF Remove, ArgsOK, routerVars, senderVars
<1>9. ASSUME NEW h \in Handler, Retire(h) PROVE ClientsOK'
  BY <1>9 DEF Retire, HoldsLock, Unlock, Reading
<1>10. ASSUME NEW p \in Sender, NEW t \in Topic, RLock(p, t) PROVE ClientsOK'
  BY <1>10 DEF RLock, Outstanding, routerVars, streamVars, handlerVars
<1>11. ASSUME NEW p \in Sender, SendNoListener(p) PROVE ClientsOK'
  BY <1>11 DEF SendNoListener, routerVars, streamVars, handlerVars
<1>12. ASSUME NEW p \in Sender, SendBadData(p) PROVE ClientsOK'
  BY <1>12 DEF SendBadData, routerVars, streamVars, handlerVars
<1>13. ASSUME NEW p \in Sender, Offer(p) PROVE ClientsOK'
  BY <1>13 DEF Offer, routerVars, streamVars, handlerVars
<1>14. ASSUME NEW p \in Sender, HandOver(p) PROVE ClientsOK'
  BY <1>14 DEF HandOver, routerVars, handlerVars
<1>15. ASSUME NEW s \in Stream, Deliver(s) PROVE ClientsOK'
  BY <1>15 DEF Deliver, trySend, routerVars, senderVars
<1>16. ASSUME NEW s \in Stream, Exit(s) PROVE ClientsOK'
  BY <1>16 DEF Exit, routerVars, handlerVars, senderVars
<1>17. CASE UNCHANGED vars
  BY <1>17 DEF vars
<1> QED
  BY <1>1, <1>2, <1>3, <1>4, <1>5, <1>6, <1>7, <1>8, <1>9,
     <1>10, <1>11, <1>12, <1>13, <1>14, <1>15, <1>16, <1>17
  DEF Next, HandlerStep, SenderStep, StreamStep

\* A mapped stream stays open, is mapped once, and is used for its topic only.
LEMMA MapStep == TypeOK /\ ArgsOK /\ ClientsOK /\ MapOK /\ [Next]_vars => MapOK'
<1> SUFFICES ASSUME TypeOK, ArgsOK, ClientsOK, MapOK, [Next]_vars
             PROVE  MapOK'
  OBVIOUS
<1> USE NoneAssumption DEF TypeOK, MapOK, ArgsOK
<1>1. ASSUME NEW h \in Handler, Announce(h) PROVE MapOK'
  BY <1>1 DEF Announce, Locking, streamVars, handlerVars, senderVars
<1>2. ASSUME NEW h \in Handler, NEW t \in Topic, Connect(h, t) PROVE MapOK'
  <2>1. hms[h] = NoStream
    BY <1>2 DEF Connect, ClientsOK, Using
  <2>2. /\ mss' = mss /\ closed' = closed /\ hms' = hms
        /\ \A k \in Handler : k # h => topic'[k] = topic[k]
    BY <1>2 DEF Connect, routerVars, streamVars
  <2> QED
    BY <2>1, <2>2
<1>3. ASSUME NEW h \in Handler, GetStream(h) PROVE MapOK'
  BY <1>3 DEF GetStream, HoldsLock, Unlock, Missed, streamVars
<1>4. ASSUME NEW h \in Handler, NEW s \in Stream, MakeStream(h, s) PROVE MapOK'
  BY <1>4 DEF MakeStream, HoldsLock, Unlock, Free, Mapped
<1>5. ASSUME NEW h \in Handler, Add(h) PROVE MapOK'
  BY <1>5 DEF Add, routerVars, senderVars
<1>6. ASSUME NEW h \in Handler, WriteEvent(h) PROVE MapOK'
  BY <1>6 DEF WriteEvent, routerVars, streamVars, senderVars
<1>7. ASSUME NEW h \in Handler, ClientGone(h) PROVE MapOK'
  BY <1>7 DEF ClientGone, routerVars, streamVars, senderVars
<1>8. ASSUME NEW h \in Handler, Remove(h) PROVE MapOK'
  BY <1>8 DEF Remove, ClientsOK, Using, routerVars, senderVars
<1>9. ASSUME NEW h \in Handler, Retire(h) PROVE MapOK'
  BY <1>9 DEF Retire, ClientsOK, Using, HoldsLock, Unlock, Reading
<1>10. ASSUME NEW p \in Sender, NEW t \in Topic, RLock(p, t) PROVE MapOK'
  BY <1>10 DEF RLock, Outstanding, routerVars, streamVars, handlerVars
<1>11. ASSUME NEW p \in Sender, SendNoListener(p) PROVE MapOK'
  BY <1>11 DEF SendNoListener, routerVars, streamVars, handlerVars
<1>12. ASSUME NEW p \in Sender, SendBadData(p) PROVE MapOK'
  BY <1>12 DEF SendBadData, routerVars, streamVars, handlerVars
<1>13. ASSUME NEW p \in Sender, Offer(p) PROVE MapOK'
  BY <1>13 DEF Offer, routerVars, streamVars, handlerVars
<1>14. ASSUME NEW p \in Sender, HandOver(p) PROVE MapOK'
  BY <1>14 DEF HandOver, routerVars, handlerVars
<1>15. ASSUME NEW s \in Stream, Deliver(s) PROVE MapOK'
  BY <1>15 DEF Deliver, trySend, routerVars, senderVars
<1>16. ASSUME NEW s \in Stream, Exit(s) PROVE MapOK'
  BY <1>16 DEF Exit, routerVars, handlerVars, senderVars
<1>17. CASE UNCHANGED vars
  BY <1>17 DEF vars
<1> QED
  BY <1>1, <1>2, <1>3, <1>4, <1>5, <1>6, <1>7, <1>8, <1>9,
     <1>10, <1>11, <1>12, <1>13, <1>14, <1>15, <1>16, <1>17
  DEF Next, HandlerStep, SenderStep, StreamStep

\* While a Send is blocked its topic keeps its stream: a writer waits for it.
LEMMA SendersStep == TypeOK /\ ArgsOK /\ SendersOK /\ [Next]_vars => SendersOK'
<1> SUFFICES ASSUME TypeOK, ArgsOK, SendersOK, [Next]_vars
             PROVE  SendersOK'
  OBVIOUS
<1> USE NoneAssumption DEF TypeOK, SendersOK, ArgsOK
<1>1. ASSUME NEW h \in Handler, Announce(h) PROVE SendersOK'
  BY <1>1 DEF Announce, Locking, streamVars, handlerVars, senderVars
<1>2. ASSUME NEW h \in Handler, NEW t \in Topic, Connect(h, t) PROVE SendersOK'
  BY <1>2 DEF Connect, routerVars, streamVars, senderVars
<1>3. ASSUME NEW h \in Handler, GetStream(h) PROVE SendersOK'
  BY <1>3 DEF GetStream, HoldsLock, Unlock, Missed, streamVars
<1>4. ASSUME NEW h \in Handler, NEW s \in Stream, MakeStream(h, s) PROVE SendersOK'
  BY <1>4 DEF MakeStream, Reading, HoldsLock, Unlock, Free, Mapped
<1>5. ASSUME NEW h \in Handler, Add(h) PROVE SendersOK'
  BY <1>5 DEF Add, routerVars, senderVars
<1>6. ASSUME NEW h \in Handler, WriteEvent(h) PROVE SendersOK'
  BY <1>6 DEF WriteEvent, routerVars, streamVars, senderVars
<1>7. ASSUME NEW h \in Handler, ClientGone(h) PROVE SendersOK'
  BY <1>7 DEF ClientGone, routerVars, streamVars, senderVars
<1>8. ASSUME NEW h \in Handler, Remove(h) PROVE SendersOK'
  BY <1>8 DEF Remove, routerVars, senderVars
<1>9. ASSUME NEW h \in Handler, Retire(h) PROVE SendersOK'
  BY <1>9 DEF Retire, Reading, HoldsLock, Unlock, Reading
<1>10. ASSUME NEW p \in Sender, NEW t \in Topic, RLock(p, t) PROVE SendersOK'
  BY <1>10 DEF RLock, Outstanding, routerVars, streamVars, handlerVars
<1>11. ASSUME NEW p \in Sender, SendNoListener(p) PROVE SendersOK'
  BY <1>11 DEF SendNoListener, routerVars, streamVars, handlerVars
<1>12. ASSUME NEW p \in Sender, SendBadData(p) PROVE SendersOK'
  BY <1>12 DEF SendBadData, routerVars, streamVars, handlerVars
<1>13. ASSUME NEW p \in Sender, Offer(p) PROVE SendersOK'
  BY <1>13 DEF Offer, routerVars, streamVars, handlerVars
<1>14. ASSUME NEW p \in Sender, HandOver(p) PROVE SendersOK'
  BY <1>14 DEF HandOver, routerVars, handlerVars
<1>15. ASSUME NEW s \in Stream, Deliver(s) PROVE SendersOK'
  BY <1>15 DEF Deliver, trySend, routerVars, senderVars
<1>16. ASSUME NEW s \in Stream, Exit(s) PROVE SendersOK'
  BY <1>16 DEF Exit, routerVars, handlerVars, senderVars
<1>17. CASE UNCHANGED vars
  BY <1>17 DEF vars
<1> QED
  BY <1>1, <1>2, <1>3, <1>4, <1>5, <1>6, <1>7, <1>8, <1>9,
     <1>10, <1>11, <1>12, <1>13, <1>14, <1>15, <1>16, <1>17
  DEF Next, HandlerStep, SenderStep, StreamStep

\* Only the last user of a mapped stream turns away from it, to retire it.
LEMMA LeakStep ==
  TypeOK /\ ArgsOK /\ ClientsOK /\ MapOK /\ NoStreamLeak /\ [Next]_vars => NoStreamLeak'
<1> SUFFICES ASSUME TypeOK, ArgsOK, ClientsOK, MapOK, NoStreamLeak, [Next]_vars
             PROVE  NoStreamLeak'
  OBVIOUS
<1> USE NoneAssumption DEF TypeOK, NoStreamLeak
<1>1. ASSUME NEW h \in Handler, Announce(h) PROVE NoStreamLeak'
  BY <1>1 DEF Announce, Locking, streamVars, handlerVars, senderVars
<1>2. ASSUME NEW h \in Handler, NEW t \in Topic, Connect(h, t) PROVE NoStreamLeak'
  BY <1>2 DEF Connect, routerVars, streamVars, senderVars
<1>3. ASSUME NEW h \in Handler, GetStream(h) PROVE NoStreamLeak'
  BY <1>3 DEF GetStream, ArgsOK, HoldsLock, Unlock, Missed, streamVars
<1>4. ASSUME NEW h \in Handler, NEW s \in Stream, MakeStream(h, s)
      PROVE  NoStreamLeak'
  <2> SUFFICES ASSUME NEW u \in Topic, mss'[u] # NoStream
               PROVE  \E k \in Handler :
                        /\ topic'[k] = u
                        /\ \/ hpc'[k] = "retire"
                           \/ /\ hpc'[k] \in {"got", "serve", "leave"}
                              /\ hms'[k] = mss'[u]
    OBVIOUS
  <2>1. CASE u = topic[h]
    BY <1>4, <2>1 DEF MakeStream
  <2>2. CASE u # topic[h]
    <3>1. mss'[u] = mss[u]
      BY <1>4, <2>2 DEF MakeStream
    <3>2. PICK k \in Handler :
            /\ topic[k] = u
            /\ \/ hpc[k] = "retire"
               \/ hpc[k] \in {"got", "serve", "leave"} /\ hms[k] = mss[u]
      BY <3>1
    <3>3. k # h
      BY <2>2, <3>2
    <3> QED
      BY <1>4, <3>1, <3>2, <3>3 DEF MakeStream
  <2> QED
    BY <2>1, <2>2
<1>5. ASSUME NEW h \in Handler, Add(h) PROVE NoStreamLeak'
  BY <1>5 DEF Add, routerVars, senderVars
<1>6. ASSUME NEW h \in Handler, WriteEvent(h) PROVE NoStreamLeak'
  BY <1>6 DEF WriteEvent, routerVars, streamVars, senderVars
<1>7. ASSUME NEW h \in Handler, ClientGone(h) PROVE NoStreamLeak'
  BY <1>7 DEF ClientGone, routerVars, streamVars, senderVars
<1>8. ASSUME NEW h \in Handler, Remove(h) PROVE NoStreamLeak'
  <2> DEFINE rest == clients[hms[h]] \ {h}
  <2> SUFFICES ASSUME NEW u \in Topic, mss[u] # NoStream
               PROVE  \E k \in Handler :
                        /\ topic'[k] = u
                        /\ \/ hpc'[k] = "retire"
                           \/ /\ hpc'[k] \in {"got", "serve", "leave"}
                              /\ hms'[k] = mss[u]
    BY <1>8 DEF Remove, routerVars
  <2>1. PICK k \in Handler :
          /\ topic[k] = u
          /\ \/ hpc[k] = "retire"
             \/ hpc[k] \in {"got", "serve", "leave"} /\ hms[k] = mss[u]
    OBVIOUS
  <2>2. CASE k # h
    BY <1>8, <2>1, <2>2 DEF Remove
  <2>3. CASE k = h /\ rest = {}
    BY <1>8, <2>1, <2>3 DEF Remove
  <2>4. CASE k = h /\ rest # {}
    <3>1. hms[h] = mss[u] /\ hms[h] \in Stream
      BY <1>8, <2>1, <2>4 DEF Remove
    <3>2. PICK j \in Handler : j \in clients[hms[h]] /\ j # h
      BY <2>4, <3>1
    <3>3. hpc[j] \in {"serve", "leave"} /\ hms[j] = mss[u]
      BY <3>1, <3>2 DEF ClientsOK
    <3>4. topic[j] = u
      BY <3>3 DEF MapOK
    <3> QED
      BY <1>8, <3>2, <3>3, <3>4 DEF Remove
  <2> QED
    BY <2>2, <2>3, <2>4
<1>9. ASSUME NEW h \in Handler, Retire(h) PROVE NoStreamLeak'
  <2> SUFFICES ASSUME NEW u \in Topic, mss'[u] # NoStream
               PROVE  \E k \in Handler :
                        /\ topic'[k] = u
                        /\ \/ hpc'[k] = "retire"
                           \/ /\ hpc'[k] \in {"got", "serve", "leave"}
                              /\ hms'[k] = mss'[u]
    OBVIOUS
  <2>1. u # topic[h] /\ mss'[u] = mss[u]
    BY <1>9 DEF Retire
  <2>2. PICK k \in Handler :
          /\ topic[k] = u
          /\ \/ hpc[k] = "retire"
             \/ hpc[k] \in {"got", "serve", "leave"} /\ hms[k] = mss[u]
    BY <2>1
  <2>3. k # h
    BY <2>1, <2>2
  <2>4. topic'[k] = topic[k] /\ hpc'[k] = hpc[k] /\ hms'[k] = hms[k]
    BY <1>9, <2>3 DEF Retire
  <2> HIDE DEF TypeOK, NoStreamLeak
  <2> QED
    BY <2>1, <2>2, <2>4
<1>10. ASSUME NEW p \in Sender, NEW t \in Topic, RLock(p, t) PROVE NoStreamLeak'
  BY <1>10 DEF RLock, Outstanding, routerVars, streamVars, handlerVars
<1>11. ASSUME NEW p \in Sender, SendNoListener(p) PROVE NoStreamLeak'
  BY <1>11 DEF SendNoListener, routerVars, streamVars, handlerVars
<1>12. ASSUME NEW p \in Sender, SendBadData(p) PROVE NoStreamLeak'
  BY <1>12 DEF SendBadData, routerVars, streamVars, handlerVars
<1>13. ASSUME NEW p \in Sender, Offer(p) PROVE NoStreamLeak'
  BY <1>13 DEF Offer, routerVars, streamVars, handlerVars
<1>14. ASSUME NEW p \in Sender, HandOver(p) PROVE NoStreamLeak'
  BY <1>14 DEF HandOver, routerVars, handlerVars
<1>15. ASSUME NEW s \in Stream, Deliver(s) PROVE NoStreamLeak'
  BY <1>15 DEF Deliver, trySend, routerVars, senderVars
<1>16. ASSUME NEW s \in Stream, Exit(s) PROVE NoStreamLeak'
  BY <1>16 DEF Exit, routerVars, handlerVars, senderVars
<1>17. CASE UNCHANGED vars
  BY <1>17 DEF vars
<1> QED
  BY <1>1, <1>2, <1>3, <1>4, <1>5, <1>6, <1>7, <1>8, <1>9,
     <1>10, <1>11, <1>12, <1>13, <1>14, <1>15, <1>16, <1>17
  DEF Next, HandlerStep, SenderStep, StreamStep

\* A stream is closed in the step that unmaps it.
LEMMA GoroutineStep ==
  TypeOK /\ ArgsOK /\ NoGoroutineLeak /\ [Next]_vars => NoGoroutineLeak'
<1> SUFFICES ASSUME TypeOK, ArgsOK, NoGoroutineLeak, [Next]_vars
             PROVE  NoGoroutineLeak'
  OBVIOUS
<1> USE NoneAssumption DEF TypeOK, NoGoroutineLeak, Mapped
<1>1. ASSUME NEW h \in Handler, Announce(h) PROVE NoGoroutineLeak'
  BY <1>1 DEF Announce, Locking, streamVars, handlerVars, senderVars
<1>2. ASSUME NEW h \in Handler, NEW t \in Topic, Connect(h, t) PROVE NoGoroutineLeak'
  BY <1>2 DEF Connect, routerVars, streamVars, senderVars
<1>3. ASSUME NEW h \in Handler, GetStream(h) PROVE NoGoroutineLeak'
  BY <1>3 DEF GetStream, ArgsOK, HoldsLock, Unlock, Missed, streamVars
<1>4. ASSUME NEW h \in Handler, NEW s \in Stream, MakeStream(h, s)
      PROVE  NoGoroutineLeak'
  BY <1>4 DEF MakeStream, ArgsOK, HoldsLock, Unlock, Free, Mapped
<1>5. ASSUME NEW h \in Handler, Add(h) PROVE NoGoroutineLeak'
  BY <1>5 DEF Add, routerVars, senderVars
<1>6. ASSUME NEW h \in Handler, WriteEvent(h) PROVE NoGoroutineLeak'
  BY <1>6 DEF WriteEvent, routerVars, streamVars, senderVars
<1>7. ASSUME NEW h \in Handler, ClientGone(h) PROVE NoGoroutineLeak'
  BY <1>7 DEF ClientGone, routerVars, streamVars, senderVars
<1>8. ASSUME NEW h \in Handler, Remove(h) PROVE NoGoroutineLeak'
  BY <1>8 DEF Remove, routerVars, senderVars
<1>9. ASSUME NEW h \in Handler, Retire(h) PROVE NoGoroutineLeak'
  BY <1>9 DEF Retire, ArgsOK, HoldsLock, Unlock, Reading
<1>10. ASSUME NEW p \in Sender, NEW t \in Topic, RLock(p, t) PROVE NoGoroutineLeak'
  BY <1>10 DEF RLock, Outstanding, routerVars, streamVars, handlerVars
<1>11. ASSUME NEW p \in Sender, SendNoListener(p) PROVE NoGoroutineLeak'
  BY <1>11 DEF SendNoListener, routerVars, streamVars, handlerVars
<1>12. ASSUME NEW p \in Sender, SendBadData(p) PROVE NoGoroutineLeak'
  BY <1>12 DEF SendBadData, routerVars, streamVars, handlerVars
<1>13. ASSUME NEW p \in Sender, Offer(p) PROVE NoGoroutineLeak'
  BY <1>13 DEF Offer, routerVars, streamVars, handlerVars
<1>14. ASSUME NEW p \in Sender, HandOver(p) PROVE NoGoroutineLeak'
  BY <1>14 DEF HandOver, routerVars, handlerVars
<1>15. ASSUME NEW s \in Stream, Deliver(s) PROVE NoGoroutineLeak'
  BY <1>15 DEF Deliver, trySend, routerVars, senderVars
<1>16. ASSUME NEW s \in Stream, Exit(s) PROVE NoGoroutineLeak'
  BY <1>16 DEF Exit, routerVars, handlerVars, senderVars
<1>17. CASE UNCHANGED vars
  BY <1>17 DEF vars
<1> QED
  BY <1>1, <1>2, <1>3, <1>4, <1>5, <1>6, <1>7, <1>8, <1>9,
     <1>10, <1>11, <1>12, <1>13, <1>14, <1>15, <1>16, <1>17
  DEF Next, HandlerStep, SenderStep, StreamStep

\* The invariant holds at the start.
LEMMA InitInv == Init => IInv
BY NoneAssumption DEF Init, IInv, TypeOK, HeldOK, ArgsOK, ClientsOK, Using,
     MapOK, SendersOK, NoStreamLeak, NoGoroutineLeak

\* Every step keeps the invariant.
LEMMA NextInv == IInv /\ [Next]_vars => IInv'
BY TypeStep, HeldStep, ArgsStep, ClientsStep, MapStep, SendersStep, LeakStep,
   GoroutineStep DEF IInv

\* IInv is an invariant of Router.
THEOREM Invariance == Spec => []IInv
BY InitInv, NextInv, PTL DEF Spec

\* Every variable keeps its type.
THEOREM TypeCorrect == Spec => []TypeOK
BY Invariance, PTL DEF IInv

\* No Handle, Send or process ever panics on a closed channel.
THEOREM NeverPanics == Spec => []NoPanic
<1>1. ASSUME IInv PROVE NoPanic
  <2>1. ASSUME NEW p \in Sender, spc[p] = "sending" PROVE sms[p] \notin closed
    <3>1. stopic[p] \in Topic
      BY <1>1, <2>1 DEF IInv, ArgsOK
    <3>2. sms[p] = mss[stopic[p]]
      BY <1>1, <2>1 DEF IInv, SendersOK
    <3> QED
      BY <1>1, <3>1, <3>2 DEF IInv, MapOK
  <2>2. \A t \in Topic : mss[t] \notin closed
    BY <1>1 DEF IInv, MapOK
  <2>3. ASSUME NEW s \in Stream, NEW h \in clients[s] PROVE open[h]
    <3>1. h \in Handler
      BY <1>1, <2>3 DEF IInv, TypeOK
    <3>2. hpc[h] \in {"serve", "leave"}
      BY <1>1, <2>3, <3>1 DEF IInv, ClientsOK
    <3> QED
      BY <1>1, <3>1, <3>2 DEF IInv, ClientsOK, Using
  <2> QED
    BY <2>1, <2>2, <2>3 DEF NoPanic
<1> QED
  BY Invariance, <1>1, PTL

\* A stream in the map always has a Handle call bound to unmap it.
THEOREM StreamsAreOwned == Spec => []NoStreamLeak
BY Invariance, PTL DEF IInv

\* A process goroutine runs for a mapped stream or has been told to stop.
THEOREM GoroutinesAreOwned == Spec => []NoGoroutineLeak
BY Invariance, PTL DEF IInv

\* A blocked Send holds its own topic's stream in the map, which no two
\* topics share.
THEOREM SendersHoldStreams == Spec => []SendersOnMappedStreams
<1>1. IInv => SendersOnMappedStreams
  BY DEF IInv, MapOK, SendersOK, SendersOnMappedStreams
<1> QED
  BY Invariance, <1>1, PTL

-----------------------------------------------------------------------------
(* Who waits for whom: the part of liveness that is an invariant *)

\* r.mux: readers are held back by an announced writer only, and a writer is
\* announced only while its Handle call is at one of its two Lock calls.
LockOK ==
  /\ \A p \in Sender : spc[p] = "rlock" => wr # NoHandler
  /\ wr # NoHandler => Locking(wr)

\* A mapped stream has its goroutine.
GoroutineOK == \A t \in Topic : mss[t] # NoStream => proc[mss[t]] # "off"

\* A Send that waits for r.mux waits for an announced writer, that writer is
\* in Lock and waits for the active readers alone, and an active reader that
\* is blocked on a channel faces a goroutine that ranges over that channel:
\* the wait ends there, it never leads back.
WaitsServed ==
  /\ \A p \in Sender : spc[p] = "rlock" => wr \in Handler
  /\ wr \in Handler => Locking(wr)
  /\ \A p \in Sender :
       spc[p] = "sending" =>
         sms[p] \notin closed /\ proc[sms[p]] \in {"recv", "deliver"}

\* While a call of Send is out, or a Handle call wants r.mux, one of the
\* goroutines involved can go on: the router is never deadlocked.
SomeoneGoesOn ==
  (\E p \in Sender : spc[p] # "idle") \/ (\E h \in Handler : Locking(h)) =>
    \/ \E p \in Sender : spc[p] = "reading"
    \/ \E p \in Sender :
         spc[p] = "sending" /\ proc[sms[p]] = "recv" /\ sms[p] \notin closed
    \/ \E s \in Stream : proc[s] = "deliver"
    \/ \E h \in Handler : Locking(h) /\ (wr = NoHandler \/ HoldsLock(h))

\* Every step keeps the discipline of r.mux.
LEMMA LockStep == TypeOK /\ LockOK /\ [Next]_vars => LockOK'
<1> SUFFICES ASSUME TypeOK, LockOK, [Next]_vars PROVE LockOK' OBVIOUS
<1> USE NoneAssumption DEF TypeOK, LockOK, Locking
<1>1. ASSUME NEW h \in Handler, Announce(h) PROVE LockOK'
  BY <1>1 DEF Announce, handlerVars, senderVars
<1>2. ASSUME NEW h \in Handler, NEW t \in Topic, Connect(h, t) PROVE LockOK'
  BY <1>2 DEF Connect, routerVars, senderVars
<1>3. ASSUME NEW h \in Handler, GetStream(h) PROVE LockOK'
  BY <1>3 DEF GetStream, Unlock
<1>4. ASSUME NEW h \in Handler, NEW s \in Stream, MakeStream(h, s) PROVE LockOK'
  BY <1>4 DEF MakeStream, Unlock
<1>5. ASSUME NEW h \in Handler, Add(h) PROVE LockOK'
  BY <1>5 DEF Add, routerVars, senderVars
<1>6. ASSUME NEW h \in Handler, WriteEvent(h) PROVE LockOK'
  BY <1>6 DEF WriteEvent, routerVars, senderVars
<1>7. ASSUME NEW h \in Handler, ClientGone(h) PROVE LockOK'
  BY <1>7 DEF ClientGone, routerVars, senderVars
<1>8. ASSUME NEW h \in Handler, Remove(h) PROVE LockOK'
  BY <1>8 DEF Remove, routerVars, senderVars
<1>9. ASSUME NEW h \in Handler, Retire(h) PROVE LockOK'
  BY <1>9 DEF Retire, Unlock
<1>10. ASSUME NEW p \in Sender, NEW t \in Topic, RLock(p, t) PROVE LockOK'
  BY <1>10 DEF RLock, routerVars, handlerVars
<1>11. ASSUME NEW p \in Sender, SendNoListener(p) PROVE LockOK'
  BY <1>11 DEF SendNoListener, routerVars, handlerVars
<1>12. ASSUME NEW p \in Sender, SendBadData(p) PROVE LockOK'
  BY <1>12 DEF SendBadData, routerVars, handlerVars
<1>13. ASSUME NEW p \in Sender, Offer(p) PROVE LockOK'
  BY <1>13 DEF Offer, routerVars, handlerVars
<1>14. ASSUME NEW p \in Sender, HandOver(p) PROVE LockOK'
  BY <1>14 DEF HandOver, routerVars, handlerVars
<1>15. ASSUME NEW s \in Stream, Deliver(s) PROVE LockOK'
  BY <1>15 DEF Deliver, routerVars, senderVars
<1>16. ASSUME NEW s \in Stream, Exit(s) PROVE LockOK'
  BY <1>16 DEF Exit, routerVars, handlerVars, senderVars
<1>17. CASE UNCHANGED vars
  BY <1>17 DEF vars
<1> QED
  BY <1>1, <1>2, <1>3, <1>4, <1>5, <1>6, <1>7, <1>8, <1>9,
     <1>10, <1>11, <1>12, <1>13, <1>14, <1>15, <1>16, <1>17
  DEF Next, HandlerStep, SenderStep, StreamStep

\* A goroutine ends only after Retire unmapped and closed its stream.
LEMMA RunsStep == IInv /\ GoroutineOK /\ [Next]_vars => GoroutineOK'
<1> SUFFICES ASSUME IInv, GoroutineOK, [Next]_vars PROVE GoroutineOK' OBVIOUS
<1>0. TypeOK /\ ArgsOK /\ MapOK /\ SendersOK
  BY DEF IInv
<1> USE <1>0, NoneAssumption DEF TypeOK, GoroutineOK
<1>1. ASSUME NEW h \in Handler, Announce(h) PROVE GoroutineOK'
  BY <1>1 DEF Announce, streamVars
<1>2. ASSUME NEW h \in Handler, NEW t \in Topic, Connect(h, t) PROVE GoroutineOK'
  BY <1>2 DEF Connect, routerVars, streamVars
<1>3. ASSUME NEW h \in Handler, GetStream(h) PROVE GoroutineOK'
  BY <1>3 DEF GetStream, streamVars
<1>4. ASSUME NEW h \in Handler, NEW s \in Stream, MakeStream(h, s) PROVE GoroutineOK'
  BY <1>4 DEF MakeStream, ArgsOK
<1>5. ASSUME NEW h \in Handler, Add(h) PROVE GoroutineOK'
  BY <1>5 DEF Add, routerVars
<1>6. ASSUME NEW h \in Handler, WriteEvent(h) PROVE GoroutineOK'
  BY <1>6 DEF WriteEvent, routerVars, streamVars
<1>7. ASSUME NEW h \in Handler, ClientGone(h) PROVE GoroutineOK'
  BY <1>7 DEF ClientGone, routerVars, streamVars
<1>8. ASSUME NEW h \in Handler, Remove(h) PROVE GoroutineOK'
  BY <1>8 DEF Remove, routerVars
<1>9. ASSUME NEW h \in Handler, Retire(h) PROVE GoroutineOK'
  BY <1>9 DEF Retire, ArgsOK
<1>10. ASSUME NEW p \in Sender, NEW t \in Topic, RLock(p, t) PROVE GoroutineOK'
  BY <1>10 DEF RLock, routerVars, streamVars
<1>11. ASSUME NEW p \in Sender, SendNoListener(p) PROVE GoroutineOK'
  BY <1>11 DEF SendNoListener, routerVars, streamVars
<1>12. ASSUME NEW p \in Sender, SendBadData(p) PROVE GoroutineOK'
  BY <1>12 DEF SendBadData, routerVars, streamVars
<1>13. ASSUME NEW p \in Sender, Offer(p) PROVE GoroutineOK'
  BY <1>13 DEF Offer, routerVars, streamVars
<1>14. ASSUME NEW p \in Sender, HandOver(p) PROVE GoroutineOK'
  BY <1>14 DEF HandOver, routerVars, SendersOK
<1>15. ASSUME NEW s \in Stream, Deliver(s) PROVE GoroutineOK'
  BY <1>15 DEF Deliver, routerVars
<1>16. ASSUME NEW s \in Stream, Exit(s) PROVE GoroutineOK'
  <2>1. \A t \in Topic : mss[t] # s
    BY <1>16 DEF Exit, MapOK
  <2> QED
    BY <1>16, <2>1 DEF Exit, routerVars
<1>17. CASE UNCHANGED vars
  BY <1>17 DEF vars
<1> QED
  BY <1>1, <1>2, <1>3, <1>4, <1>5, <1>6, <1>7, <1>8, <1>9,
     <1>10, <1>11, <1>12, <1>13, <1>14, <1>15, <1>16, <1>17
  DEF Next, HandlerStep, SenderStep, StreamStep

\* Nobody waits at the start.
LEMMA WaitsInit == Init => LockOK /\ GoroutineOK
BY DEF Init, LockOK, GoroutineOK

\* What a Send waits for is never waiting for it in turn, for every number of
\* clients and senders: readers for a writer in Lock, that writer for active
\* readers, those for a goroutine that runs (Send, sse.go:127 and 140,
\* getOrMake, sse.go:69, removeIfEmpty, sse.go:88).
THEOREM NoCyclicWait == Spec => []WaitsServed
<1>1. ASSUME IInv, LockOK, GoroutineOK PROVE WaitsServed
  <2> USE <1>1 DEF IInv
  <2>1. \A p \in Sender : spc[p] = "rlock" => wr \in Handler
    BY NoneAssumption DEF LockOK, TypeOK
  <2>2. wr \in Handler => Locking(wr)
    BY NoneAssumption DEF LockOK
  <2>3. ASSUME NEW p \in Sender, spc[p] = "sending"
        PROVE  sms[p] \notin closed /\ proc[sms[p]] \in {"recv", "deliver"}
    <3>1. stopic[p] \in Topic /\ sms[p] = mss[stopic[p]] /\ sms[p] \in Stream
      BY <2>3 DEF ArgsOK, SendersOK
    <3>2. sms[p] \notin closed
      BY <3>1 DEF MapOK
    <3>3. proc[sms[p]] # "off"
      BY <3>1, NoneAssumption DEF GoroutineOK
    <3> QED
      BY <3>1, <3>2, <3>3 DEF TypeOK
  <2> QED
    BY <2>1, <2>2, <2>3 DEF WaitsServed
<1> QED
  BY <1>1, WaitsInit, LockStep, RunsStep, Invariance, PTL DEF Spec, IInv

\* The router never deadlocks: as long as a Send has not returned or a Handle
\* call wants r.mux, a reader, a goroutine or the writer can go on.
THEOREM NoDeadlock == Spec => []SomeoneGoesOn
<1>1. ASSUME IInv, WaitsServed PROVE SomeoneGoesOn
  <2> SUFFICES ASSUME (\E p \in Sender : spc[p] # "idle")
                        \/ (\E h \in Handler : Locking(h)),
                      \A p \in Sender : spc[p] # "reading",
                      \A s \in Stream : proc[s] # "deliver",
                      \A p \in Sender :
                        ~(/\ spc[p] = "sending" /\ proc[sms[p]] = "recv"
                          /\ sms[p] \notin closed)
               PROVE  \E h \in Handler :
                        Locking(h) /\ (wr = NoHandler \/ HoldsLock(h))
    BY DEF SomeoneGoesOn
  <2>1. ASSUME NEW p \in Sender PROVE spc[p] # "sending"
    <3> SUFFICES ASSUME spc[p] = "sending" PROVE FALSE
      OBVIOUS
    <3>1. sms[p] \in Stream
      BY <1>1 DEF IInv, SendersOK
    <3>2. sms[p] \notin closed /\ proc[sms[p]] \in {"recv", "deliver"}
      BY <1>1 DEF WaitsServed
    <3> QED
      BY <3>1, <3>2
  <2>2. Reading = {}
    BY <2>1 DEF Reading
  <2>3. CASE wr = NoHandler
    <3>1. \A p \in Sender : spc[p] # "rlock"
      BY <1>1, <2>3, NoneAssumption DEF WaitsServed
    <3>2. \A p \in Sender : spc[p] = "idle"
      BY <1>1, <2>1, <3>1 DEF IInv, TypeOK
    <3> QED
      BY <2>3, <3>2
  <2>4. CASE wr \in Handler
    <3>1. Locking(wr) /\ HoldsLock(wr)
      BY <1>1, <2>2, <2>4 DEF WaitsServed, HoldsLock
    <3> QED
      BY <2>4, <3>1
  <2> QED
    BY <1>1, <2>3, <2>4 DEF IInv, TypeOK
<1> QED
  BY <1>1, Invariance, NoCyclicWait, PTL

-----------------------------------------------------------------------------
(* What the subscribers receive *)

\* Message number m was published on topic t.
Published(t, m) == m \in 1..Len(log) /\ log[m] = t

\* What the goroutine of a mapped stream delivers is the latest message of the
\* stream's topic.
HeldIsLatest ==
  \A t \in Topic :
    mss[t] # NoStream /\ proc[mss[t]] = "deliver" =>
      /\ Published(t, held[mss[t]])
      /\ \A m \in 1..Len(log) : log[m] = t => m <= held[mss[t]]

\* The messages in a subscriber's channel are its topic's, in order, and not
\* written yet.
QueuesOK ==
  \A h \in Handler :
    /\ hpc[h] = "getLock" => buf[h] = <<>>
    /\ hpc[h] \in Using =>
         /\ last[h] <= Len(log)
         /\ \A i \in 1..Len(buf[h]) :
              Published(topic[h], buf[h][i]) /\ last[h] < buf[h][i]
         /\ \A i, j \in 1..Len(buf[h]) : i < j => buf[h][i] < buf[h][j]

\* A message being delivered is the topic's, and newer than all of them.
HeldIsNew ==
  \A h \in Handler :
    hpc[h] \in Using /\ proc[hms[h]] = "deliver" =>
      /\ Published(topic[h], held[hms[h]])
      /\ last[h] < held[hms[h]]
      /\ \A i \in 1..Len(buf[h]) : buf[h][i] < held[hms[h]]

BusInv == HeldIsLatest /\ QueuesOK /\ HeldIsNew

\* A longer log has the messages of the shorter one.
LEMMA LogGrows ==
  ASSUME TypeOK, NEW p \in Sender, stopic[p] \in Topic,
         log' = Append(log, stopic[p])
  PROVE  /\ Len(log) \in Nat /\ Len(log') = Len(log) + 1
         /\ log'[Len(log) + 1] = stopic[p]
         /\ \A m \in 1..Len(log) : log'[m] = log[m]
BY DEF TypeOK

\* A stream is told to deliver the latest message, and another one of its
\* topic is not published before it has.
LEMMA HeldIsLatestStep ==
  IInv /\ HeldIsLatest /\ [Next]_vars => HeldIsLatest'
<1> SUFFICES ASSUME IInv, HeldIsLatest, [Next]_vars PROVE HeldIsLatest'
  OBVIOUS
<1> USE DEF IInv, TypeOK, HeldIsLatest, Published
<1>1. ASSUME NEW h \in Handler, Announce(h) PROVE HeldIsLatest'
  BY <1>1 DEF Announce, Locking, streamVars, handlerVars, senderVars
<1>2. ASSUME NEW h \in Handler, NEW t \in Topic, Connect(h, t) PROVE HeldIsLatest'
  BY <1>2 DEF Connect, routerVars, streamVars, senderVars
<1>3. ASSUME NEW h \in Handler, GetStream(h) PROVE HeldIsLatest'
  BY <1>3 DEF GetStream, HoldsLock, Unlock, Missed, streamVars
<1>4. ASSUME NEW h \in Handler, NEW s \in Stream, MakeStream(h, s)
      PROVE  HeldIsLatest'
  BY <1>4, NoneAssumption DEF MakeStream, HoldsLock, Unlock, Free, Mapped, ArgsOK
<1>5. ASSUME NEW h \in Handler, Add(h) PROVE HeldIsLatest'
  BY <1>5 DEF Add, routerVars, senderVars
<1>6. ASSUME NEW h \in Handler, WriteEvent(h) PROVE HeldIsLatest'
  BY <1>6 DEF WriteEvent, routerVars, streamVars, senderVars
<1>7. ASSUME NEW h \in Handler, ClientGone(h) PROVE HeldIsLatest'
  BY <1>7 DEF ClientGone, routerVars, streamVars, senderVars
<1>8. ASSUME NEW h \in Handler, Remove(h) PROVE HeldIsLatest'
  BY <1>8 DEF Remove, routerVars, senderVars
<1>9. ASSUME NEW h \in Handler, Retire(h) PROVE HeldIsLatest'
  BY <1>9, NoneAssumption DEF Retire, Unlock, ArgsOK
<1>10. ASSUME NEW p \in Sender, NEW t \in Topic, RLock(p, t) PROVE HeldIsLatest'
  BY <1>10 DEF RLock, routerVars, streamVars, handlerVars
<1>11. ASSUME NEW p \in Sender, SendNoListener(p) PROVE HeldIsLatest'
  BY <1>11 DEF SendNoListener, routerVars, streamVars, handlerVars
<1>12. ASSUME NEW p \in Sender, SendBadData(p) PROVE HeldIsLatest'
  BY <1>12 DEF SendBadData, routerVars, streamVars, handlerVars
<1>13. ASSUME NEW p \in Sender, Offer(p) PROVE HeldIsLatest'
  BY <1>13 DEF Offer, routerVars, streamVars, handlerVars
<1>14. ASSUME NEW p \in Sender, HandOver(p) PROVE HeldIsLatest'
  <2> DEFINE s == sms[p]
  <2>1. /\ stopic[p] \in Topic /\ s \in Stream /\ s = mss[stopic[p]]
        /\ proc[s] = "recv"
    BY <1>14 DEF HandOver, ArgsOK, SendersOK
  <2>2. /\ Len(log) \in Nat /\ Len(log') = Len(log) + 1
        /\ log'[Len(log) + 1] = stopic[p]
        /\ \A m \in 1..Len(log) : log'[m] = log[m]
    BY <1>14, <2>1, LogGrows DEF HandOver
  <2>3. /\ mss' = mss
        /\ held' = [held EXCEPT ![s] = Len(log) + 1]
        /\ proc' = [proc EXCEPT ![s] = "deliver"]
    BY <1>14 DEF HandOver, routerVars
  <2> SUFFICES ASSUME NEW t \in Topic, mss[t] # NoStream, proc'[mss[t]] = "deliver"
               PROVE  /\ Published(t, held[mss[t]])'
                      /\ \A m \in 1..Len(log') : log'[m] = t => m <= held'[mss[t]]
    BY <2>3
  <2>4. CASE t = stopic[p]
    <3>1. held'[mss[t]] = Len(log) + 1
      BY <2>1, <2>3, <2>4
    <3> QED
      BY <2>2, <2>3, <2>4, <3>1
  <2>5. CASE t # stopic[p]
    <3>1. mss[t] # s
      BY <2>1, <2>5 DEF MapOK
    <3>2. held'[mss[t]] = held[mss[t]] /\ proc[mss[t]] = "deliver"
      BY <2>1, <2>3, <3>1
    <3>3. held[mss[t]] \in 1..Len(log) /\ log[held[mss[t]]] = t
      BY <3>2
    <3>4. \A m \in 1..Len(log) : log[m] = t => m <= held[mss[t]]
      BY <3>2
    <3>5. ASSUME NEW m \in 1..Len(log'), log'[m] = t PROVE m <= held[mss[t]]
      <4>1. m \in 1..Len(log) /\ log[m] = t
        BY <2>2, <2>5, <3>5
      <4> QED
        BY <3>4, <4>1
    <3>6. held[mss[t]] \in 1..Len(log') /\ log'[held[mss[t]]] = t
      BY <2>2, <3>3
    <3> QED
      BY <2>3, <3>2, <3>5, <3>6
  <2> QED
    BY <2>4, <2>5
<1>15. ASSUME NEW s \in Stream, Deliver(s) PROVE HeldIsLatest'
  BY <1>15 DEF Deliver, routerVars, senderVars
<1>16. ASSUME NEW s \in Stream, Exit(s) PROVE HeldIsLatest'
  BY <1>16 DEF Exit, routerVars, handlerVars, senderVars
<1>17. CASE UNCHANGED vars
  BY <1>17 DEF vars
<1> QED
  BY <1>1, <1>2, <1>3, <1>4, <1>5, <1>6, <1>7, <1>8, <1>9,
     <1>10, <1>11, <1>12, <1>13, <1>14, <1>15, <1>16, <1>17
  DEF Next, HandlerStep, SenderStep, StreamStep

\* Channels are filled by Deliver, at the end, and emptied by WriteEvent, from
\* the front.
LEMMA QueuesStep ==
  IInv /\ BusInv /\ [Next]_vars => QueuesOK'
<1> SUFFICES ASSUME IInv, BusInv, [Next]_vars PROVE QueuesOK'
  OBVIOUS
<1> USE DEF IInv, TypeOK, BusInv, QueuesOK, Published, Using
<1>1. ASSUME NEW h \in Handler, Announce(h) PROVE QueuesOK'
  BY <1>1 DEF Announce, Locking, streamVars, handlerVars, senderVars
<1>2. ASSUME NEW h \in Handler, NEW t \in Topic, Connect(h, t) PROVE QueuesOK'
  BY <1>2 DEF Connect, routerVars, streamVars, senderVars
<1>3. ASSUME NEW h \in Handler, GetStream(h) PROVE QueuesOK'
  <2>1. buf[h] = <<>> /\ Len(log) \in Nat
    BY <1>3 DEF GetStream
  <2>2. mss[topic[h]] \in Stream /\ topic[h] \in Topic
    BY <1>3 DEF GetStream, ArgsOK
  <2>3. last'[h] <= Len(log)
    BY <1>3, <2>1, <2>2 DEF GetStream, Missed, HeldIsLatest
  <2> QED
    BY <1>3, <2>1, <2>3 DEF GetStream, Unlock, streamVars
<1>4. ASSUME NEW h \in Handler, NEW s \in Stream, MakeStream(h, s) PROVE QueuesOK'
  <2>1. buf[h] = <<>> /\ Len(log) \in Nat
    BY <1>4 DEF MakeStream
  <2> QED
    BY <1>4, <2>1 DEF MakeStream, Unlock
<1>5. ASSUME NEW h \in Handler, Add(h) PROVE QueuesOK'
  BY <1>5 DEF Add, routerVars, senderVars
<1>6. ASSUME NEW h \in Handler, WriteEvent(h) PROVE QueuesOK'
  <2>1. /\ Len(buf[h]) \in Nat \ {0} /\ Head(buf[h]) = buf[h][1]
        /\ Len(Tail(buf[h])) = Len(buf[h]) - 1
        /\ \A i \in 1..Len(buf[h]) - 1 : Tail(buf[h])[i] = buf[h][i + 1]
    BY <1>6 DEF WriteEvent
  <2>2. /\ buf' = [buf EXCEPT ![h] = Tail(buf[h])]
        /\ last' = [last EXCEPT ![h] = buf[h][1]]
        /\ UNCHANGED <<log, topic>>
        /\ hpc[h] = "serve" /\ hpc' \in {hpc, [hpc EXCEPT ![h] = "leave"]}
    BY <1>6, <2>1 DEF WriteEvent
  <2>3. /\ \A i \in 1..Len(buf[h]) :
             Published(topic[h], buf[h][i]) /\ last[h] < buf[h][i]
        /\ \A i, j \in 1..Len(buf[h]) : i < j => buf[h][i] < buf[h][j]
        /\ \A i \in 1..Len(buf[h]) : buf[h][i] \in Nat
    BY <2>2
  <2>4. last'[h] <= Len(log)
    BY <2>1, <2>2, <2>3
  <2>5. ASSUME NEW i \in 1..Len(buf[h]) - 1
        PROVE  Published(topic[h], Tail(buf[h])[i]) /\ buf[h][1] < Tail(buf[h])[i]
    <3>1. i + 1 \in 1..Len(buf[h]) /\ 1 \in 1..Len(buf[h]) /\ 1 < i + 1
      BY <2>1
    <3> QED
      BY <2>1, <2>3, <3>1
  <2>6. ASSUME NEW i \in 1..Len(buf[h]) - 1, NEW j \in 1..Len(buf[h]) - 1, i < j
        PROVE  Tail(buf[h])[i] < Tail(buf[h])[j]
    <3>1. i + 1 \in 1..Len(buf[h]) /\ j + 1 \in 1..Len(buf[h]) /\ i + 1 < j + 1
      BY <2>1, <2>6
    <3> QED
      BY <2>1, <2>3, <3>1
  <2>7. ASSUME NEW g \in Handler, g = h
        PROVE  /\ hpc'[g] # "getLock"
               /\ last'[g] <= Len(log')
               /\ \A i \in 1..Len(buf'[g]) :
                    Published(topic[g], buf[g][i])' /\ last'[g] < buf'[g][i]
               /\ \A i, j \in 1..Len(buf'[g]) : i < j => buf'[g][i] < buf'[g][j]
    <3>1. buf'[g] = Tail(buf[h]) /\ last'[g] = buf[h][1] /\ hpc'[g] # "getLock"
      BY <2>2, <2>7
    <3> QED
      BY <2>1, <2>2, <2>4, <2>5, <2>6, <2>7, <3>1
  <2>8. ASSUME NEW g \in Handler, g # h
        PROVE  buf'[g] = buf[g] /\ last'[g] = last[g] /\ hpc'[g] = hpc[g]
    BY <2>2, <2>8
  <2> QED
    BY <2>2, <2>7, <2>8
<1>7. ASSUME NEW h \in Handler, ClientGone(h) PROVE QueuesOK'
  BY <1>7 DEF ClientGone, routerVars, streamVars, senderVars
<1>8. ASSUME NEW h \in Handler, Remove(h) PROVE QueuesOK'
  BY <1>8 DEF Remove, routerVars, senderVars
<1>9. ASSUME NEW h \in Handler, Retire(h) PROVE QueuesOK'
  BY <1>9 DEF Retire, Unlock
<1>10. ASSUME NEW p \in Sender, NEW t \in Topic, RLock(p, t) PROVE QueuesOK'
  BY <1>10 DEF RLock, routerVars, streamVars, handlerVars
<1>11. ASSUME NEW p \in Sender, SendNoListener(p) PROVE QueuesOK'
  BY <1>11 DEF SendNoListener, routerVars, streamVars, handlerVars
<1>12. ASSUME NEW p \in Sender, SendBadData(p) PROVE QueuesOK'
  BY <1>12 DEF SendBadData, routerVars, streamVars, handlerVars
<1>13. ASSUME NEW p \in Sender, Offer(p) PROVE QueuesOK'
  BY <1>13 DEF Offer, routerVars, streamVars, handlerVars
<1>14. ASSUME NEW p \in Sender, HandOver(p) PROVE QueuesOK'
  <2>1. stopic[p] \in Topic
    BY <1>14 DEF HandOver, ArgsOK
  <2>2. /\ Len(log) \in Nat /\ Len(log') = Len(log) + 1
        /\ \A m \in 1..Len(log) : log'[m] = log[m]
    BY <1>14, <2>1, LogGrows DEF HandOver
  <2>3. UNCHANGED <<hpc, topic, buf, last>>
    BY <1>14 DEF HandOver, handlerVars
  <2> SUFFICES ASSUME NEW h \in Handler, hpc[h] \in Using
               PROVE  /\ last[h] <= Len(log')
                      /\ \A i \in 1..Len(buf[h]) : Published(topic[h], buf[h][i])'
    BY <2>3
  <2>4. last[h] <= Len(log) /\ last[h] \in Nat
    OBVIOUS
  <2>5. ASSUME NEW i \in 1..Len(buf[h]) PROVE Published(topic[h], buf[h][i])'
    <3>1. buf[h][i] \in 1..Len(log) /\ log[buf[h][i]] = topic[h]
      OBVIOUS
    <3> QED
      BY <2>2, <2>3, <3>1
  <2> QED
    BY <2>2, <2>4, <2>5
<1>15. ASSUME NEW s \in Stream, Deliver(s) PROVE QueuesOK'
  <2>1. UNCHANGED <<hpc, hms, topic, last, log>>
    BY <1>15 DEF Deliver
  <2> SUFFICES ASSUME NEW h \in Handler
               PROVE  /\ hpc[h] = "getLock" => buf'[h] = <<>>
                      /\ hpc[h] \in Using =>
                           /\ \A i \in 1..Len(buf'[h]) :
                                Published(topic[h], buf'[h][i]) /\ last[h] < buf'[h][i]
                           /\ \A i, j \in 1..Len(buf'[h]) : i < j => buf'[h][i] < buf'[h][j]
    BY <2>1
  <2>2. CASE buf'[h] = buf[h]
    BY <2>2
  <2>3. CASE h \in clients[s] /\ buf'[h] = Append(buf[h], held[s])
    <3>1. hpc[h] \in {"serve", "leave"} /\ hms[h] = s
      BY <2>3 DEF ClientsOK
    <3>2. /\ Published(topic[h], held[s]) /\ last[h] < held[s] /\ held[s] \in Nat
          /\ \A i \in 1..Len(buf[h]) : buf[h][i] < held[s]
      BY <1>15, <3>1 DEF Deliver, HeldIsNew
    <3>3. /\ Len(buf[h]) \in Nat /\ Len(buf'[h]) = Len(buf[h]) + 1
          /\ buf'[h][Len(buf[h]) + 1] = held[s]
          /\ \A i \in 1..Len(buf[h]) : buf'[h][i] = buf[h][i]
      BY <2>3, <3>2
    <3>4. /\ \A i \in 1..Len(buf[h]) :
               Published(topic[h], buf[h][i]) /\ last[h] < buf[h][i]
          /\ \A i, j \in 1..Len(buf[h]) : i < j => buf[h][i] < buf[h][j]
      BY <3>1
    <3>5. \A i \in 1..Len(buf'[h]) :
            i \in 1..Len(buf[h]) \/ i = Len(buf[h]) + 1
      BY <3>3
    <3>6. \A i \in 1..Len(buf'[h]) :
            Published(topic[h], buf'[h][i]) /\ last[h] < buf'[h][i]
      BY <3>2, <3>3, <3>4, <3>5
    <3>7. ASSUME NEW i \in 1..Len(buf'[h]), NEW j \in 1..Len(buf'[h]), i < j
          PROVE  buf'[h][i] < buf'[h][j]
      <4>1. i \in 1..Len(buf[h])
        BY <3>3, <3>7
      <4>2. CASE j \in 1..Len(buf[h])
        <5>1. buf[h][i] < buf[h][j]
          BY <3>4, <3>7, <4>1, <4>2
        <5> QED
          BY <3>3, <4>1, <4>2, <5>1
      <4>3. CASE j = Len(buf[h]) + 1
        BY <3>2, <3>3, <4>1, <4>3
      <4> QED
        BY <3>5, <4>2, <4>3
    <3> QED
      BY <3>1, <3>6, <3>7
  <2> QED
    BY <1>15, <2>2, <2>3 DEF Deliver, trySend
<1>16. ASSUME NEW s \in Stream, Exit(s) PROVE QueuesOK'
  BY <1>16 DEF Exit, routerVars, handlerVars, senderVars
<1>17. CASE UNCHANGED vars
  BY <1>17 DEF vars
<1> QED
  BY <1>1, <1>2, <1>3, <1>4, <1>5, <1>6, <1>7, <1>8, <1>9,
     <1>10, <1>11, <1>12, <1>13, <1>14, <1>15, <1>16, <1>17
  DEF Next, HandlerStep, SenderStep, StreamStep

\* A message taken off the data channel is newer than everything before it.
LEMMA HeldIsNewStep ==
  IInv /\ BusInv /\ [Next]_vars => HeldIsNew'
<1> SUFFICES ASSUME IInv, BusInv, [Next]_vars PROVE HeldIsNew'
  OBVIOUS
<1> USE DEF IInv, TypeOK, BusInv, HeldIsNew, Published, Using
<1>0. \A h \in Handler : hpc[h] \in Using => hms[h] \in Stream
  BY DEF ClientsOK
<1>1. ASSUME NEW h \in Handler, Announce(h) PROVE HeldIsNew'
  BY <1>1 DEF Announce, Locking, streamVars, handlerVars, senderVars
<1>2. ASSUME NEW h \in Handler, NEW t \in Topic, Connect(h, t) PROVE HeldIsNew'
  BY <1>2 DEF Connect, routerVars, streamVars, senderVars
<1>3. ASSUME NEW h \in Handler, GetStream(h) PROVE HeldIsNew'
  <2>1. buf[h] = <<>> /\ Len(log) \in Nat /\ topic[h] \in Topic
    BY <1>3 DEF GetStream, ArgsOK, QueuesOK
  <2>2. mss[topic[h]] \in Stream
    BY <1>3, <2>1 DEF GetStream
  <2>3. ASSUME proc[mss[topic[h]]] = "deliver"
        PROVE  /\ Published(topic[h], held[mss[topic[h]]])
               /\ last'[h] < held[mss[topic[h]]]
    BY <1>3, <2>1, <2>2, <2>3 DEF GetStream, Missed, HeldIsLatest
  <2> QED
    BY <1>3, <2>1, <2>2, <2>3 DEF GetStream, Unlock, streamVars
<1>4. ASSUME NEW h \in Handler, NEW s \in Stream, MakeStream(h, s) PROVE HeldIsNew'
  BY <1>4 DEF MakeStream, HoldsLock, Unlock, Free, Mapped, ArgsOK
<1>5. ASSUME NEW h \in Handler, Add(h) PROVE HeldIsNew'
  BY <1>5 DEF Add, routerVars, senderVars
<1>6. ASSUME NEW h \in Handler, WriteEvent(h) PROVE HeldIsNew'
  <2>1. /\ Len(buf[h]) \in Nat \ {0} /\ Head(buf[h]) = buf[h][1]
        /\ Len(Tail(buf[h])) = Len(buf[h]) - 1
        /\ \A i \in 1..Len(buf[h]) - 1 : Tail(buf[h])[i] = buf[h][i + 1]
    BY <1>6 DEF WriteEvent
  <2>2. /\ buf' = [buf EXCEPT ![h] = Tail(buf[h])]
        /\ last' = [last EXCEPT ![h] = buf[h][1]]
        /\ UNCHANGED <<log, topic, hms, proc, held>>
        /\ hpc[h] = "serve" /\ hpc' \in {hpc, [hpc EXCEPT ![h] = "leave"]}
    BY <1>6, <2>1 DEF WriteEvent, streamVars
  <2> SUFFICES ASSUME NEW g \in Handler, hpc[g] \in Using, proc[hms[g]] = "deliver"
               PROVE  /\ last'[g] < held[hms[g]]
                      /\ \A i \in 1..Len(buf'[g]) : buf'[g][i] < held[hms[g]]
    BY <2>2
  <2>3. \A i \in 1..Len(buf[g]) : buf[g][i] < held[hms[g]]
    OBVIOUS
  <2>4. CASE g = h
    <3>1. ASSUME NEW i \in 1..Len(buf[h]) - 1 PROVE Tail(buf[h])[i] < held[hms[g]]
      <4>1. i + 1 \in 1..Len(buf[h])
        BY <2>1
      <4> QED
        BY <2>1, <2>3, <2>4, <4>1
    <3> QED
      BY <2>1, <2>2, <2>3, <2>4, <3>1
  <2>5. CASE g # h
    BY <2>2, <2>5
  <2> QED
    BY <2>4, <2>5
<1>7. ASSUME NEW h \in Handler, ClientGone(h) PROVE HeldIsNew'
  BY <1>7 DEF ClientGone, routerVars, streamVars, senderVars
<1>8. ASSUME NEW h \in Handler, Remove(h) PROVE HeldIsNew'
  BY <1>0, <1>8 DEF Remove, routerVars, senderVars
<1>9. ASSUME NEW h \in Handler, Retire(h) PROVE HeldIsNew'
  BY <1>9 DEF Retire, Unlock
<1>10. ASSUME NEW p \in Sender, NEW t \in Topic, RLock(p, t) PROVE HeldIsNew'
  BY <1>10 DEF RLock, routerVars, streamVars, handlerVars
<1>11. ASSUME NEW p \in Sender, SendNoListener(p) PROVE HeldIsNew'
  BY <1>11 DEF SendNoListener, routerVars, streamVars, handlerVars
<1>12. ASSUME NEW p \in Sender, SendBadData(p) PROVE HeldIsNew'
  BY <1>12 DEF SendBadData, routerVars, streamVars, handlerVars
<1>13. ASSUME NEW p \in Sender, Offer(p) PROVE HeldIsNew'
  BY <1>13 DEF Offer, routerVars, streamVars, handlerVars
<1>14. ASSUME NEW p \in Sender, HandOver(p) PROVE HeldIsNew'
  <2> DEFINE s == sms[p]
  <2>1. /\ stopic[p] \in Topic /\ s \in Stream /\ s = mss[stopic[p]]
        /\ s # NoStream
    BY <1>14, NoneAssumption DEF HandOver, ArgsOK, SendersOK
  <2>2. /\ Len(log) \in Nat /\ Len(log') = Len(log) + 1
        /\ log'[Len(log) + 1] = stopic[p]
        /\ \A m \in 1..Len(log) : log'[m] = log[m]
    BY <1>14, <2>1, LogGrows DEF HandOver
  <2>3. /\ UNCHANGED <<hpc, hms, topic, buf, last>>
        /\ held' = [held EXCEPT ![s] = Len(log) + 1]
        /\ proc' = [proc EXCEPT ![s] = "deliver"]
    BY <1>14 DEF HandOver, handlerVars
  <2> SUFFICES ASSUME NEW h \in Handler, hpc[h] \in Using, proc'[hms[h]] = "deliver"
               PROVE  /\ Published(topic[h], held[hms[h]])'
                      /\ last[h] < held'[hms[h]]
                      /\ \A i \in 1..Len(buf[h]) : buf[h][i] < held'[hms[h]]
    BY <2>3
  <2>4. CASE hms[h] = s
    <3>1. topic[h] = stopic[p]
      BY <2>1, <2>4 DEF MapOK
    <3>2. held'[hms[h]] = Len(log) + 1
      BY <2>1, <2>3, <2>4
    <3>3. last[h] <= Len(log) /\ \A i \in 1..Len(buf[h]) : buf[h][i] <= Len(log)
      BY <2>2 DEF QueuesOK
    <3>4. last[h] \in Nat /\ \A i \in 1..Len(buf[h]) : buf[h][i] \in Nat
      OBVIOUS
    <3> QED
      BY <2>2, <2>3, <3>1, <3>2, <3>3, <3>4
  <2>5. CASE hms[h] # s
    <3>1. held'[hms[h]] = held[hms[h]] /\ proc[hms[h]] = "deliver"
      BY <1>0, <2>1, <2>3, <2>5
    <3>2. /\ Published(topic[h], held[hms[h]])
          /\ last[h] < held[hms[h]]
          /\ \A i \in 1..Len(buf[h]) : buf[h][i] < held[hms[h]]
      BY <3>1
    <3> QED
      BY <2>2, <2>3, <3>1, <3>2
  <2> QED
    BY <2>4, <2>5
<1>15. ASSUME NEW s \in Stream, Deliver(s) PROVE HeldIsNew'
  <2>1. /\ UNCHANGED <<hpc, hms, topic, last, log>>
        /\ held' = [held EXCEPT ![s] = 0]
        /\ proc' = [proc EXCEPT ![s] = "recv"]
        /\ \A h \in Handler : h \notin clients[s] => buf'[h] = buf[h]
    BY <1>15 DEF Deliver
  <2> SUFFICES ASSUME NEW h \in Handler, hpc[h] \in Using, proc'[hms[h]] = "deliver"
               PROVE  /\ held'[hms[h]] = held[hms[h]]
                      /\ proc[hms[h]] = "deliver"
                      /\ buf'[h] = buf[h]
    BY <2>1
  <2>2. hms[h] # s /\ h \notin clients[s]
    BY <1>0, <2>1 DEF ClientsOK
  <2> QED
    BY <1>0, <2>1, <2>2
<1>16. ASSUME NEW s \in Stream, Exit(s) PROVE HeldIsNew'
  BY <1>16 DEF Exit, routerVars, handlerVars, senderVars
<1>17. CASE UNCHANGED vars
  BY <1>17 DEF vars
<1> QED
  BY <1>1, <1>2, <1>3, <1>4, <1>5, <1>6, <1>7, <1>8, <1>9,
     <1>10, <1>11, <1>12, <1>13, <1>14, <1>15, <1>16, <1>17
  DEF Next, HandlerStep, SenderStep, StreamStep

\* What subscribers receive is in order at the start, when there is nothing.
LEMMA BusInvInit == Init => BusInv
BY NoneAssumption DEF Init, BusInv, HeldIsLatest, QueuesOK, HeldIsNew, Using

LEMMA BusInvStep == IInv /\ BusInv /\ [Next]_vars => BusInv'
BY HeldIsLatestStep, QueuesStep, HeldIsNewStep DEF BusInv

-----------------------------------------------------------------------------
(* Refinement of EventBus *)

\* The topic a handler is subscribed to, as EventBus sees it.
Sub == [h \in Handler |-> IF hpc[h] \in Using THEN topic[h] ELSE NoTopic]

\* A step that changes no subscription, message or floor is none of EventBus.
LEMMA Stutter ==
  ASSUME log' = log, last' = last,
         \A h \in Handler : Sub'[h] = Sub[h]
  PROVE  UNCHANGED Bus!busVars
<1>1. Sub' = Sub
  BY DEF Sub
<1> QED
  BY <1>1 DEF Bus!busVars, Sub, Using

\* A handler that getOrMake gives a stream subscribes to its topic.
LEMMA Subscribes ==
  ASSUME TypeOK, ArgsOK, NEW h \in Handler, hpc[h] = "getLock",
         hpc' = [hpc EXCEPT ![h] = "got"], topic' = topic, log' = log,
         NEW floor \in 0..Len(log), last' = [last EXCEPT ![h] = floor],
         \A m, n \in 1..Len(log) :
           log[m] = topic[h] /\ log[n] = topic[h] /\ m < n => m <= floor
  PROVE  Bus!BusNext
<1> PICK t \in Topic : t = topic[h]
  BY DEF ArgsOK
<1>1. Sub[h] = NoTopic /\ Sub' = [Sub EXCEPT ![h] = t]
  BY DEF TypeOK, Sub, Using
<1>2. \A m \in Bus!On(t) : Bus!Superseded(t, m) => m <= floor
  <2>1. DOMAIN log = 1..Len(log)
    BY DEF TypeOK
  <2> QED
    BY <2>1 DEF Bus!On, Bus!Superseded
<1>3. Bus!Subscribe(h, t)
  BY <1>1, <1>2 DEF Bus!Subscribe, Sub, Using
<1> QED
  BY <1>3 DEF Bus!BusNext

\* Every step is one of EventBus, or invisible there.
LEMMA BusStep == IInv /\ BusInv /\ [Next]_vars => [Bus!BusNext]_(Bus!busVars)
<1> SUFFICES ASSUME IInv, BusInv, [Next]_vars
             PROVE  Bus!BusNext \/ UNCHANGED Bus!busVars
  OBVIOUS
<1> USE DEF IInv
<1>1. ASSUME NEW h \in Handler, Announce(h)
      PROVE  Bus!BusNext \/ UNCHANGED Bus!busVars
  BY <1>1, Stutter DEF Announce, handlerVars, Sub, Using
<1>2. ASSUME NEW h \in Handler, NEW t \in Topic, Connect(h, t)
      PROVE  Bus!BusNext \/ UNCHANGED Bus!busVars
  BY <1>2, Stutter DEF Connect, TypeOK, Sub, Using
<1>3. ASSUME NEW h \in Handler, GetStream(h)
      PROVE  Bus!BusNext \/ UNCHANGED Bus!busVars
  <2>1. /\ hpc[h] = "getLock" /\ hpc' = [hpc EXCEPT ![h] = "got"]
        /\ topic' = topic /\ log' = log
        /\ last' = [last EXCEPT ![h] = Missed(mss[topic[h]])]
        /\ topic[h] \in Topic /\ mss[topic[h]] # NoStream
    BY <1>3 DEF GetStream, ArgsOK
  <2>2. mss[topic[h]] \in Stream /\ Len(log) \in Nat
    BY <2>1 DEF TypeOK
  <2>3. CASE proc[mss[topic[h]]] = "deliver"
    <3> DEFINE m0 == held[mss[topic[h]]]
    <3>1. /\ m0 \in 1..Len(log)
          /\ \A m \in 1..Len(log) : log[m] = topic[h] => m <= m0
      BY <2>1, <2>3 DEF BusInv, HeldIsLatest, Published
    <3>2. Missed(mss[topic[h]]) = m0 - 1
      BY <2>3 DEF Missed
    <3> HIDE DEF m0
    <3>3. m0 - 1 \in 0..Len(log)
      BY <2>2, <3>1
    <3>4. ASSUME NEW m \in 1..Len(log), NEW n \in 1..Len(log),
                 log[m] = topic[h], log[n] = topic[h], m < n
          PROVE  m <= m0 - 1
      BY <2>2, <3>1, <3>4
    <3> QED
      BY <2>1, <3>2, <3>3, <3>4, Subscribes
  <2>4. CASE proc[mss[topic[h]]] # "deliver"
    <3>1. Missed(mss[topic[h]]) = Len(log)
      BY <2>4 DEF Missed
    <3>2. Len(log) \in 0..Len(log) /\ \A m \in 1..Len(log) : m <= Len(log)
      BY <2>2
    <3> QED
      BY <2>1, <3>1, <3>2, Subscribes
  <2> QED
    BY <2>3, <2>4
<1>4. ASSUME NEW h \in Handler, NEW s \in Stream, MakeStream(h, s)
      PROVE  Bus!BusNext \/ UNCHANGED Bus!busVars
  <2>1. /\ hpc[h] = "getLock" /\ hpc' = [hpc EXCEPT ![h] = "got"]
        /\ topic' = topic /\ log' = log
        /\ last' = [last EXCEPT ![h] = Len(log)]
    BY <1>4 DEF MakeStream
  <2>2. Len(log) \in 0..Len(log) /\ \A m \in 1..Len(log) : m <= Len(log)
    BY DEF TypeOK
  <2> QED
    BY <2>1, <2>2, Subscribes
<1>5. ASSUME NEW h \in Handler, Add(h) PROVE Bus!BusNext \/ UNCHANGED Bus!busVars
  BY <1>5, Stutter DEF Add, TypeOK, Sub, Using
<1>6. ASSUME NEW h \in Handler, WriteEvent(h)
      PROVE  Bus!BusNext \/ UNCHANGED Bus!busVars
  <2>1. /\ Len(buf[h]) \in Nat \ {0} /\ Head(buf[h]) = buf[h][1]
        /\ last' = [last EXCEPT ![h] = buf[h][1]]
        /\ log' = log /\ topic' = topic
        /\ hpc[h] = "serve" /\ hpc' \in {hpc, [hpc EXCEPT ![h] = "leave"]}
    BY <1>6 DEF WriteEvent, TypeOK
  <2>2. Published(topic[h], buf[h][1]) /\ last[h] < buf[h][1]
    <3>1. 1 \in 1..Len(buf[h])
      BY <2>1
    <3> QED
      BY <2>1, <3>1 DEF BusInv, QueuesOK, Using
  <2>3. Sub[h] = topic[h] /\ Sub' = Sub
    BY <2>1 DEF TypeOK, Sub, Using
  <2>4. buf[h][1] \in Bus!On(Sub[h]) /\ buf[h][1] > last[h]
    BY <2>1, <2>2, <2>3 DEF Published, Bus!On, TypeOK
  <2>5. Bus!Receive(h)
    BY <2>1, <2>3, <2>4 DEF Bus!Receive, Sub, Using
  <2> QED
    BY <2>5 DEF Bus!BusNext
<1>7. ASSUME NEW h \in Handler, ClientGone(h)
      PROVE  Bus!BusNext \/ UNCHANGED Bus!busVars
  BY <1>7, Stutter DEF ClientGone, TypeOK, Sub, Using
<1>8. ASSUME NEW h \in Handler, Remove(h) PROVE Bus!BusNext \/ UNCHANGED Bus!busVars
  <2>1. /\ hpc[h] = "leave" /\ last' = [last EXCEPT ![h] = 0] /\ log' = log
        /\ \E pc \in {"retire", "idle"} : hpc' = [hpc EXCEPT ![h] = pc]
        /\ \A g \in Handler : g # h => topic'[g] = topic[g]
    BY <1>8 DEF Remove, TypeOK
  <2>2. Sub[h] # NoTopic
    BY <2>1, NoneAssumption DEF ArgsOK, Sub, Using
  <2>3. Sub' = [Sub EXCEPT ![h] = NoTopic]
    BY <2>1 DEF TypeOK, Sub, Using
  <2>4. Bus!Unsubscribe(h)
    BY <2>1, <2>2, <2>3 DEF Bus!Unsubscribe, Sub, Using
  <2> QED
    BY <2>4 DEF Bus!BusNext
<1>9. ASSUME NEW h \in Handler, Retire(h) PROVE Bus!BusNext \/ UNCHANGED Bus!busVars
  BY <1>9, Stutter DEF Retire, TypeOK, Sub, Using
<1>10. ASSUME NEW p \in Sender, NEW t \in Topic, RLock(p, t)
       PROVE  Bus!BusNext \/ UNCHANGED Bus!busVars
  BY <1>10, Stutter DEF RLock, handlerVars, Sub, Using
<1>11. ASSUME NEW p \in Sender, SendNoListener(p)
       PROVE  Bus!BusNext \/ UNCHANGED Bus!busVars
  BY <1>11, Stutter DEF SendNoListener, handlerVars, Sub, Using
<1>12. ASSUME NEW p \in Sender, SendBadData(p)
       PROVE  Bus!BusNext \/ UNCHANGED Bus!busVars
  BY <1>12, Stutter DEF SendBadData, handlerVars, Sub, Using
<1>13. ASSUME NEW p \in Sender, Offer(p) PROVE Bus!BusNext \/ UNCHANGED Bus!busVars
  BY <1>13, Stutter DEF Offer, handlerVars, Sub, Using
<1>14. ASSUME NEW p \in Sender, HandOver(p)
       PROVE  Bus!BusNext \/ UNCHANGED Bus!busVars
  <2>1. stopic[p] \in Topic /\ log' = Append(log, stopic[p])
        /\ UNCHANGED <<hpc, topic, last>>
    BY <1>14 DEF HandOver, ArgsOK, handlerVars
  <2>2. Bus!Publish(stopic[p])
    BY <2>1 DEF Bus!Publish
  <2> QED
    BY <2>1, <2>2 DEF Bus!BusNext
<1>15. ASSUME NEW s \in Stream, Deliver(s) PROVE Bus!BusNext \/ UNCHANGED Bus!busVars
  BY <1>15, Stutter DEF Deliver, Sub, Using
<1>16. ASSUME NEW s \in Stream, Exit(s) PROVE Bus!BusNext \/ UNCHANGED Bus!busVars
  BY <1>16, Stutter DEF Exit, handlerVars, Sub, Using
<1>17. CASE UNCHANGED vars
  BY <1>17 DEF vars, Bus!busVars
<1> QED
  BY <1>1, <1>2, <1>3, <1>4, <1>5, <1>6, <1>7, <1>8, <1>9,
     <1>10, <1>11, <1>12, <1>13, <1>14, <1>15, <1>16, <1>17
  DEF Next, HandlerStep, SenderStep, StreamStep

\* What clients receive is what EventBus promises: the messages of their own
\* topic, in order, none twice, at most one older than the subscription,
\* whatever the number of clients, senders, topics and streams and the size of
\* the buffers (process, sse.go:43, Handle, sse.go:113).
THEOREM BusRefined == Spec => ImplementsBus
<1>1. Init => Bus!BusInit
  BY DEF Init, Bus!BusInit
<1>2. Spec => []BusInv
  <2>1. Init => BusInv
    BY BusInvInit
  <2>2. IInv /\ BusInv /\ [Next]_vars => BusInv'
    BY BusInvStep
  <2> QED
    BY <2>1, <2>2, Invariance, PTL DEF Spec
<1> QED
  BY <1>1, <1>2, Invariance, BusStep, PTL DEF Spec, ImplementsBus, Bus!BusSpec
=============================================================================
