------------------------------ MODULE EventBus ------------------------------
(***************************************************************************)
(* What sse.Router promises its callers, with no lock, channel, goroutine  *)
(* or stream in sight: messages are published on topics, and a subscriber  *)
(* of a topic receives some of that topic's messages, each at most once,   *)
(* in the order they were published.  Messages may be skipped (a full      *)
(* buffer drops them).  A subscriber may see one message that is older     *)
(* than its subscription, the one being broadcast while it joined, and no  *)
(* older one.                                                              *)
(***************************************************************************)
EXTENDS Naturals, Sequences

CONSTANTS Handler,   \* subscribers: the running calls of Router.Handle
          Topic,     \* the ids passed to Handle and Send
          NoTopic    \* a subscriber that is not subscribed

VARIABLES
  log,    \* log[m] is the topic that message number m was published on
  sub,    \* the topic each handler is subscribed to
  last    \* the last message number a handler may no longer receive

busVars == <<log, sub, last>>

\* The messages published on topic t.
On(t) == {m \in DOMAIN log : log[m] = t}

\* Message number m is older than the latest message of topic t.
Superseded(t, m) == \E n \in On(t) : m < n

BusInit ==
  /\ log = <<>>
  /\ sub = [h \in Handler |-> NoTopic]
  /\ last = [h \in Handler |-> 0]

\* Every message of t but the latest is out of the reach of a new subscriber.
Subscribe(h, t) ==
  /\ sub[h] = NoTopic
  /\ sub' = [sub EXCEPT ![h] = t]
  /\ \E floor \in 0 .. Len(log) :
       /\ \A m \in On(t) : Superseded(t, m) => m <= floor
       /\ last' = [last EXCEPT ![h] = floor]
  /\ UNCHANGED log

Publish(t) ==
  /\ log' = Append(log, t)
  /\ UNCHANGED <<sub, last>>

Receive(h) ==
  /\ \E m \in On(sub[h]) : m > last[h] /\ last' = [last EXCEPT ![h] = m]
  /\ UNCHANGED <<log, sub>>

Unsubscribe(h) ==
  /\ sub[h] # NoTopic
  /\ sub' = [sub EXCEPT ![h] = NoTopic]
  /\ last' = [last EXCEPT ![h] = 0]
  /\ UNCHANGED log

BusNext ==
  \/ \E h \in Handler :
       \/ \E t \in Topic : Subscribe(h, t)
       \/ Receive(h)
       \/ Unsubscribe(h)
  \/ \E t \in Topic : Publish(t)

BusSpec == BusInit /\ [][BusNext]_busVars
=============================================================================
