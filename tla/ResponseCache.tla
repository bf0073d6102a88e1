--------------------------- MODULE ResponseCache ---------------------------
(***************************************************************************)
(* CacheHandler and cleanCache of cache.go: requests that share a map of   *)
(* responses, and the goroutine that drops the old ones.                   *)
(*                                                                         *)
(* The map is genh.LMap, outside this repository: MustGet returns the item *)
(* of a key or, holding the map's lock, runs the function that makes it;   *)
(* Update runs its function under the same lock.  The function CacheHandler *)
(* passes is the whole handler of the request that missed.                 *)
(*                                                                         *)
(* An item does not copy the headers of the request that made it: it keeps *)
(* that request's header map, which the request goes on writing to.  What  *)
(* is modelled of a header map is whether it is labelled as gzip.          *)
(***************************************************************************)
EXTENDS Naturals

CONSTANTS
  Requests,
  Tags,           \* what etag returns; a tag that ends in ":0" is left out
  Ttls,           \* int64(ttlDuration.Seconds()) of the instance: 0 for less
                  \* than a second
  Nobody,
  MaxTime         \* bound: the clock stops there

ASSUME CacheAssumption ==
  /\ Tags # {} /\ Ttls \subseteq Nat /\ MaxTime \in Nat
  /\ Nobody \notin Requests

Key    == Tags \X BOOLEAN
NoItem == [by |-> Nobody, created |-> 0]
Item   == [by : Requests \cup {Nobody}, created : 0..MaxTime]

VARIABLES
  clock,          \* time.Now().Unix()
  ttl,            \* fixed when CacheHandler is called, with a duration over 0
  cleaner,        \* cleanCache: whether it waits for the lock, the time it read
                  \* before that, when it last had the lock, and the time it
                  \* had read then
  items,          \* the map: who made the item of a key, and when
  lock,           \* the request that fills the map, or Nobody
  phase,          \* phase[r]: "new", "asking" (in MustGet), "filling" (its
                  \* handler runs in MustGet), "calling" (and waits for another
                  \* request), "copying" (in maps.Copy), "setting" the headers,
                  \* "writing" the response, "done"
  gz,             \* gz[r]: r's ResponseWriter is a gzipRW
  key,            \* key[r]: the key it looks up
  callee,         \* callee[r]: the request r's handler waits for
  got,            \* got[r]: who made the item MustGet returned
  label,          \* label[r]: r's header map says gzip
  raced           \* the requests that wrote to their header map while another
                  \* request copied it

vars == <<clock, ttl, cleaner, items, lock, phase, gz, key, callee, got, label,
          raced>>
requestVars == <<phase, gz, key, callee, got, label, raced>>

Init ==
  /\ clock = 0
  /\ ttl \in Ttls
  /\ cleaner = [waiting |-> FALSE, now |-> 0, ran |-> 0, swept |-> 0]
  /\ items = [k \in Key |-> NoItem]
  /\ lock = Nobody
  /\ phase = [r \in Requests |-> "new"]
  /\ gz \in [Requests -> BOOLEAN]
  /\ key = [r \in Requests |-> <<CHOOSE t \in Tags : TRUE, FALSE>>]
  /\ callee = [r \in Requests |-> Nobody]
  /\ got = [r \in Requests |-> Nobody]
  /\ label = gz
  /\ raced = {}

Goto(r, p) == phase' = [phase EXCEPT ![r] = p]

-----------------------------------------------------------------------------
(* The handler CacheHandler returns *)

\* The client asked for no cache, or etag returned "-" or nothing.
Bypass(r) ==
  /\ phase[r] = "new"
  /\ Goto(r, "done")
  /\ UNCHANGED <<clock, ttl, cleaner, items, lock, gz, key, callee, got, label,
                 raced>>

\* Mutant: compressed and plain responses under the same key.
CacheKeyShared(t, compressed) == <<t, TRUE>>

\* The tag, with ":0" appended unless the response is compressed.
CacheKey(t, compressed) == <<t, compressed>>

Ask(r) ==
  /\ phase[r] = "new"
  /\ \E t \in Tags : key' = [key EXCEPT ![r] = CacheKey(t, gz[r])]
  /\ Goto(r, "asking")
  /\ UNCHANGED <<clock, ttl, cleaner, items, lock, gz, callee, got, label,
                 raced>>

\* MustGet finds an item.
Hit(r) ==
  /\ phase[r] = "asking" /\ lock = Nobody
  /\ items[key[r]] # NoItem
  /\ got' = [got EXCEPT ![r] = items[key[r]].by]
  /\ Goto(r, "copying")
  /\ UNCHANGED <<clock, ttl, cleaner, items, lock, gz, key, callee, label,
                 raced>>

\* MustGet finds none, takes the lock and calls the handler.
Miss(r) ==
  /\ phase[r] = "asking" /\ lock = Nobody
  /\ items[key[r]] = NoItem
  /\ lock' = r
  /\ Goto(r, "filling")
  /\ UNCHANGED <<clock, ttl, cleaner, items, gz, key, callee, got, label, raced>>

\* The handler asks its own server for something and waits for the answer.
Call(r) ==
  /\ phase[r] = "filling" /\ callee[r] = Nobody
  /\ \E q \in Requests \ {r} :
       /\ phase[q] = "new"
       /\ callee' = [callee EXCEPT ![r] = q]
  /\ Goto(r, "calling")
  /\ UNCHANGED <<clock, ttl, cleaner, items, lock, gz, key, got, label, raced>>

CallReturns(r) ==
  /\ phase[r] = "calling" /\ phase[callee[r]] = "done"
  /\ Goto(r, "filling")
  /\ UNCHANGED <<clock, ttl, cleaner, items, lock, gz, key, callee, got, label,
                 raced>>

\* Mutant: the lock is kept.
StoreKeepsLock(r) ==
  /\ phase[r] = "filling"
  /\ items' = [items EXCEPT ![key[r]] = [by |-> r, created |-> clock]]
  /\ got' = [got EXCEPT ![r] = r]
  /\ Goto(r, "setting")
  /\ UNCHANGED <<clock, ttl, cleaner, lock, gz, key, callee, label, raced>>

\* The handler has returned: its response and its header map are stored.  It
\* goes on like a hit, but the map it copies is its own.
Store(r) ==
  /\ phase[r] = "filling"
  /\ items' = [items EXCEPT ![key[r]] = [by |-> r, created |-> clock]]
  /\ got' = [got EXCEPT ![r] = r]
  /\ lock' = Nobody
  /\ Goto(r, "setting")
  /\ UNCHANGED <<clock, ttl, cleaner, gz, key, callee, label, raced>>

\* The header map of r is written to.  If another request is copying it, the Go
\* runtime may end the program or give the copy some of the headers only.
WriteHeaders(r) ==
  raced' = IF \E q \in Requests : phase[q] = "copying" /\ got[q] = r
           THEN raced \cup {r} ELSE raced

\* Mutant: a hit uses the item's header map as its own.
EndCopyAliased(r) ==
  /\ phase[r] = "copying"
  /\ label' = [label EXCEPT ![r] = label[got[r]]]
  /\ raced' = IF \E q \in Requests \ {r} :
                   phase[q] = "copying" /\ got[q] = got[r]
              THEN raced \cup {r} ELSE raced
  /\ Goto(r, "setting")
  /\ UNCHANGED <<clock, ttl, cleaner, items, lock, gz, key, callee, got>>

\* maps.Copy of a hit is over.
EndCopy(r) ==
  /\ phase[r] = "copying"
  /\ label' = [label EXCEPT ![r] = @ \/ label[got[r]]]
  /\ WriteHeaders(r)
  /\ Goto(r, "setting")
  /\ UNCHANGED <<clock, ttl, cleaner, items, lock, gz, key, callee, got>>

\* h.Set("Last-Modified") and h.Set("Cache-Control"), for the request that
\* filled the item after maps.Copy of its header map to itself.
SetHeaders(r) ==
  /\ phase[r] = "setting"
  /\ WriteHeaders(r)
  /\ Goto(r, "writing")
  /\ UNCHANGED <<clock, ttl, cleaner, items, lock, gz, key, callee, got, label>>

\* The chain writes the response: WriteToCtx sets the content type, and the
\* gzip writer its headers.
Answer(r) ==
  /\ phase[r] = "writing"
  /\ WriteHeaders(r)
  /\ Goto(r, "done")
  /\ UNCHANGED <<clock, ttl, cleaner, items, lock, gz, key, callee, got, label>>

-----------------------------------------------------------------------------
(* cleanCache and the clock *)

\* Mutant: every item is given twice the ttl.
StaleLate(it) == it # NoItem /\ cleaner.now > it.created + 2 * ttl + 1

Stale(it) == it # NoItem /\ cleaner.now > it.created + ttl

\* The cleaner sleeps for ttl seconds after each round, not at all if ttl is 0.
Due == clock >= cleaner.ran + ttl

\* It reads the clock, and only then asks for the lock.
Wake ==
  /\ ~cleaner.waiting /\ Due
  /\ cleaner' = [cleaner EXCEPT !.waiting = TRUE, !.now = clock]
  /\ UNCHANGED <<clock, ttl, items, lock, requestVars>>

Clean ==
  /\ cleaner.waiting /\ lock = Nobody
  /\ items' = [k \in Key |-> IF Stale(items[k]) THEN NoItem ELSE items[k]]
  /\ cleaner' = [cleaner EXCEPT !.waiting = FALSE, !.ran = clock,
                                !.swept = cleaner.now]
  /\ UNCHANGED <<clock, ttl, lock, requestVars>>

\* A cleaner that is due and finds the lock free runs within the second.
Tick ==
  /\ clock < MaxTime
  /\ IF cleaner.waiting THEN lock # Nobody ELSE ~Due \/ cleaner.ran = clock
  /\ clock' = clock + 1
  /\ UNCHANGED <<ttl, cleaner, items, lock, requestVars>>

Serve(r) == Hit(r) \/ Miss(r) \/ CallReturns(r) \/ Store(r)
            \/ EndCopy(r) \/ SetHeaders(r) \/ Answer(r)

Next ==
  \/ Wake \/ Clean \/ Tick
  \/ \E r \in Requests : Bypass(r) \/ Ask(r) \/ Call(r) \/ Serve(r)

Spec == Init /\ [][Next]_vars

(* Requests arrive or not; those that did are served, and a handler returns *)
(* once what it waits for is there.                                         *)
FairSpec == Spec /\ \A r \in Requests :
  WF_vars(Serve(r) \/ (Ask(r) /\ \E q \in Requests : callee[q] = r))

-----------------------------------------------------------------------------
(* Properties *)

TypeOK ==
  /\ clock \in 0..MaxTime /\ ttl \in Ttls
  /\ cleaner \in [waiting : BOOLEAN, now : 0..MaxTime, ran : 0..MaxTime,
                  swept : 0..MaxTime]
  /\ items \in [Key -> Item]
  /\ lock \in Requests \cup {Nobody}
  /\ phase \in [Requests -> {"new", "asking", "filling", "calling", "copying",
                             "setting", "writing", "done"}]
  /\ gz \in [Requests -> BOOLEAN] /\ label \in [Requests -> BOOLEAN]
  /\ key \in [Requests -> Key]
  /\ callee \in [Requests -> Requests \cup {Nobody}]
  /\ got \in [Requests -> Requests \cup {Nobody}]
  /\ raced \in SUBSET Requests

Filling(r) == phase[r] \in {"filling", "calling"}

\* A response that is cached, or being made, is not made again: at most one
\* request runs the handler through the cache, for a key that has no item
\* (cache.go:64-74).
MadeOnce == \A r \in Requests : Filling(r) =>
  /\ items[key[r]] = NoItem
  /\ \A q \in Requests : Filling(q) => q = r

\* How long the cleaner has been due.
Late == IF Due THEN clock - (cleaner.ran + ttl) ELSE 0

\* What a hit is answered with is no older than twice the ttl, though it is
\* sent with max-age=ttl, plus what the cleaner was kept waiting for the lock:
\* in this round, and in the one before, which went by a clock read before the
\* wait; nothing but the cleaner looks at the age (cache.go:21-33,64-81).
AgeBounded ==
  [][\A r \in Requests : Hit(r) =>
       clock - items[key[r]].created
         <= 2 * ttl + (cleaner.ran - cleaner.swept) + Late]_vars

\* A response is labelled gzip exactly if the request's own writer compresses
\* it, whoever made the item its headers are copied from (cache.go:59-62,76-77).
LabelledAsSent == \A r \in Requests : label[r] = gz[r]

\* The only header map that is written to while a hit copies it is that of the
\* request that made the item (cache.go:71,76-81): hits do not disturb one
\* another, and an item whose maker is answered is copied safely.
RacesOnlyWithMaker == \A r \in raced : got[r] = r

\* A handler that fills the cache waits for a request that waits for the map:
\* neither goes on, nor does any other request of the cache.
Stuck == \E r \in Requests :
  lock = r /\ phase[r] = "calling" /\ phase[callee[r]] = "asking"

\* Every request that looks something up is answered, unless a handler comes
\* back to the cache it is filling (cache.go:64-65) or a race ended the program.
Answered == \A r \in Requests :
  phase[r] = "asking" ~> (phase[r] = "done" \/ Stuck \/ raced # {})
=============================================================================
