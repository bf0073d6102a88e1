------------------------ MODULE ResponseCacheProofs ------------------------
(***************************************************************************)
(* What CacheHandler guarantees for any number of requests, tags and ttls. *)
(* Every item in the map, and every item a hit holds, was made by a request *)
(* that is past the map, and that is compressed just if the item's key says *)
(* so: from there the labels of hits and the races follow.  Whoever waits   *)
(* for the map waits for a request that goes on.                           *)
(***************************************************************************)
EXTENDS ResponseCache, Integers, TLAPS

\* x has made an item, which is what it goes on with.
Maker(x) ==
  /\ x \in Requests
  /\ phase[x] \in {"setting", "writing", "done"}
  /\ got[x] = x

\* Who runs the handler holds the lock, and its key has no item.
Locked == \A r \in Requests : Filling(r) => lock = r /\ items[key[r]] = NoItem

Keyed == \A r \in Requests :
  phase[r] \in {"asking", "filling", "calling"} => key[r][2] = gz[r]

ItemsMade == \A k \in Key : items[k] # NoItem =>
  Maker(items[k].by) /\ gz[items[k].by] = k[2]

GotMade == \A r \in Requests : phase[r] = "copying" =>
  Maker(got[r]) /\ gz[got[r]] = gz[r]

RacersMade == \A r \in raced : Maker(r)

IInv ==
  /\ TypeOK
  /\ Locked /\ Keyed /\ ItemsMade /\ GotMade /\ RacersMade
  /\ LabelledAsSent

-----------------------------------------------------------------------------
LEMMA InitInv == Init => IInv
  <1> SUFFICES ASSUME Init PROVE IInv  OBVIOUS
  <1> DEFINE t0 == CHOOSE t \in Tags : TRUE
  <1>0. t0 \in Tags  BY CacheAssumption
  <1> HIDE DEF t0
  <1>1. <<t0, FALSE>> \in Key  BY <1>0 DEF Key
  <1>2. 0 \in 0..MaxTime /\ NoItem \in Item
    BY CacheAssumption DEF NoItem, Item
  <1>3. TypeOK
    <2>1. key \in [Requests -> Key]  BY <1>1 DEF Init, t0
    <2>2. items \in [Key -> Item] /\ got \in [Requests -> Requests \cup {Nobody}]
      BY <1>2 DEF Init
    <2>3. ttl \in Nat  BY CacheAssumption DEF Init
    <2> QED  BY <1>2, <2>1, <2>2, <2>3 DEF Init, TypeOK
  <1>4. Locked /\ Keyed /\ ItemsMade /\ GotMade /\ RacersMade
    BY DEF Init, Locked, Keyed, ItemsMade, GotMade, RacersMade, Filling
  <1>5. LabelledAsSent  BY DEF Init, LabelledAsSent
  <1> QED  BY <1>3, <1>4, <1>5 DEF IInv

(* A request moves on without touching the map or the lock. *)
LEMMA MoveInv ==
  ASSUME IInv, NEW r \in Requests,
         NEW p \in {"asking", "filling", "calling", "setting", "writing", "done"},
         Goto(r, p),
         phase[r] \in {"setting", "writing"} => p \in {"setting", "writing", "done"},
         p \in {"filling", "calling"} => Filling(r),
         p = "asking" => phase[r] = "new" /\ key'[r][2] = gz[r],
         phase[r] # "done",
         key' \in [Requests -> Key],
         \A q \in Requests \ {r} : key'[q] = key[q],
         phase[r] # "new" => key' = key,
         callee' \in [Requests -> Requests \cup {Nobody}],
         label' = label,
         raced' \subseteq raced \cup {x \in {r} : Maker(x)},
         UNCHANGED <<clock, ttl, cleaner, items, lock, gz, got>>
  PROVE  IInv'
  <1>1. TypeOK  BY DEF IInv
  <1>2. /\ phase'[r] = p /\ \A q \in Requests \ {r} : phase'[q] = phase[q]
        /\ phase' \in [Requests -> {"new", "asking", "filling", "calling",
                                    "copying", "setting", "writing", "done"}]
    BY <1>1 DEF Goto, TypeOK
  <1>3. TypeOK'  BY <1>1, <1>2 DEF TypeOK
  <1>4. \A x : Maker(x) => Maker(x)'
    BY <1>2 DEF Maker
  <1>5. Locked'
    BY <1>2 DEF IInv, Locked, Filling
  <1>6. Keyed'
    BY <1>2 DEF IInv, Keyed, Filling
  <1>7. ItemsMade'  BY <1>4 DEF IInv, ItemsMade
  <1>8. GotMade'  BY <1>2, <1>4 DEF IInv, GotMade
  <1>9. RacersMade'  BY <1>4 DEF IInv, RacersMade
  <1>10. LabelledAsSent'  BY DEF IInv, LabelledAsSent
  <1> QED  BY <1>3, <1>5, <1>6, <1>7, <1>8, <1>9, <1>10 DEF IInv

(* Only a maker's header map can be written to while it is copied. *)
LEMMA WriteHeadersMade ==
  ASSUME IInv, NEW r \in Requests, WriteHeaders(r)
  PROVE  raced' \subseteq raced \cup {x \in {r} : Maker(x)}
  BY DEF IInv, GotMade, WriteHeaders

-----------------------------------------------------------------------------
LEMMA HitInv ==
  ASSUME IInv, NEW r \in Requests, Hit(r)
  PROVE  IInv'
  <1>1. TypeOK  BY DEF IInv
  <1>2. /\ phase[r] = "asking" /\ items[key[r]] # NoItem
        /\ got' = [got EXCEPT ![r] = items[key[r]].by]
        /\ phase' = [phase EXCEPT ![r] = "copying"]
        /\ UNCHANGED <<clock, ttl, cleaner, items, lock, gz, key, callee, label,
                       raced>>
    BY DEF Hit, Goto
  <1>3. /\ key[r] \in Key /\ items[key[r]] \in Item
        /\ items[key[r]].by \in Requests \cup {Nobody}
    BY <1>1 DEF TypeOK, Item
  <1>4. Maker(items[key[r]].by) /\ gz[items[key[r]].by] = gz[r]
    BY <1>2, <1>3 DEF IInv, ItemsMade, Keyed
  <1>5. /\ phase'[r] = "copying" /\ got'[r] = items[key[r]].by
        /\ \A q \in Requests \ {r} : phase'[q] = phase[q] /\ got'[q] = got[q]
        /\ phase' \in [Requests -> {"new", "asking", "filling", "calling",
                                    "copying", "setting", "writing", "done"}]
        /\ got' \in [Requests -> Requests \cup {Nobody}]
    BY <1>1, <1>2, <1>3 DEF TypeOK
  <1>6. TypeOK'  BY <1>1, <1>2, <1>5 DEF TypeOK
  <1>7. \A x : Maker(x) => Maker(x)'  BY <1>2, <1>5 DEF Maker
  <1>8. Locked' /\ Keyed'
    BY <1>2, <1>5 DEF IInv, Locked, Keyed, Filling
  <1>9. ItemsMade' /\ RacersMade'
    BY <1>2, <1>7 DEF IInv, ItemsMade, RacersMade
  <1>10. GotMade'
    BY <1>2, <1>4, <1>5, <1>7 DEF IInv, GotMade
  <1>11. LabelledAsSent'  BY <1>2 DEF IInv, LabelledAsSent
  <1> QED  BY <1>6, <1>8, <1>9, <1>10, <1>11 DEF IInv

LEMMA MissInv ==
  ASSUME IInv, NEW r \in Requests, Miss(r)
  PROVE  IInv'
  <1>1. TypeOK  BY DEF IInv
  <1>2. /\ phase[r] = "asking" /\ lock = Nobody /\ items[key[r]] = NoItem
        /\ lock' = r /\ phase' = [phase EXCEPT ![r] = "filling"]
        /\ UNCHANGED <<clock, ttl, cleaner, items, gz, key, callee, got, label,
                       raced>>
    BY DEF Miss, Goto
  <1>3. /\ phase'[r] = "filling"
        /\ \A q \in Requests \ {r} : phase'[q] = phase[q]
        /\ phase' \in [Requests -> {"new", "asking", "filling", "calling",
                                    "copying", "setting", "writing", "done"}]
    BY <1>1, <1>2 DEF TypeOK
  <1>4. TypeOK'  BY <1>1, <1>2, <1>3 DEF TypeOK
  <1>5. \A x : Maker(x) => Maker(x)'  BY <1>2, <1>3 DEF Maker
  <1>6. \A q \in Requests : ~Filling(q)
    BY <1>2, CacheAssumption DEF IInv, Locked
  <1>7. Locked' /\ Keyed'
    BY <1>2, <1>3, <1>6 DEF IInv, Locked, Keyed, Filling
  <1>8. ItemsMade' /\ RacersMade'
    BY <1>2, <1>5 DEF IInv, ItemsMade, RacersMade
  <1>9. GotMade' /\ LabelledAsSent'
    BY <1>2, <1>3, <1>5 DEF IInv, GotMade, LabelledAsSent
  <1> QED  BY <1>4, <1>7, <1>8, <1>9 DEF IInv

LEMMA StoreInv ==
  ASSUME IInv, NEW r \in Requests, Store(r)
  PROVE  IInv'
  <1> DEFINE it == [by |-> r, created |-> clock]
  <1>1. TypeOK  BY DEF IInv
  <1>2. /\ phase[r] = "filling"
        /\ items' = [items EXCEPT ![key[r]] = it]
        /\ got' = [got EXCEPT ![r] = r]
        /\ lock' = Nobody /\ phase' = [phase EXCEPT ![r] = "setting"]
        /\ UNCHANGED <<clock, ttl, cleaner, gz, key, callee, label, raced>>
    BY DEF Store, Goto
  <1>3. key[r] \in Key /\ it \in Item /\ it.by = r
    BY <1>1 DEF TypeOK, Item
  <1>4. /\ phase'[r] = "setting" /\ got'[r] = r /\ items'[key[r]] = it
        /\ \A q \in Requests \ {r} : phase'[q] = phase[q] /\ got'[q] = got[q]
        /\ \A k \in Key \ {key[r]} : items'[k] = items[k]
        /\ phase' \in [Requests -> {"new", "asking", "filling", "calling",
                                    "copying", "setting", "writing", "done"}]
        /\ got' \in [Requests -> Requests \cup {Nobody}] /\ items' \in [Key -> Item]
    BY <1>1, <1>2, <1>3 DEF TypeOK
  <1>5. TypeOK'  BY <1>1, <1>2, <1>4 DEF TypeOK
  <1>6. Maker(r)'  BY <1>3, <1>4 DEF Maker
  <1>7. \A x : Maker(x) => Maker(x)'  BY <1>2, <1>4, <1>6 DEF Maker
  <1>8. \A q \in Requests \ {r} : ~Filling(q)
    BY <1>2 DEF IInv, Locked, Filling
  <1>9. Locked' /\ Keyed'
    BY <1>2, <1>4, <1>8 DEF IInv, Locked, Keyed, Filling
  <1>10. ItemsMade'
    <2> SUFFICES ASSUME NEW k \in Key, items'[k] # NoItem
        PROVE Maker(items[k].by)' /\ gz'[items'[k].by] = k[2]
      BY DEF ItemsMade
    <2>1. CASE k = key[r]
      BY <1>2, <1>3, <1>4, <1>6, <2>1 DEF IInv, Keyed
    <2>2. CASE k # key[r]
      BY <1>2, <1>4, <1>7, <2>2 DEF IInv, ItemsMade
    <2> QED  BY <2>1, <2>2
  <1>11. GotMade'
    BY <1>2, <1>4, <1>7 DEF IInv, GotMade
  <1>12. RacersMade' /\ LabelledAsSent'
    BY <1>2, <1>7 DEF IInv, RacersMade, LabelledAsSent
  <1> QED  BY <1>5, <1>9, <1>10, <1>11, <1>12 DEF IInv

LEMMA EndCopyInv ==
  ASSUME IInv, NEW r \in Requests, EndCopy(r)
  PROVE  IInv'
  <1>1. TypeOK  BY DEF IInv
  <1>2. /\ phase[r] = "copying"
        /\ label' = [label EXCEPT ![r] = @ \/ label[got[r]]]
        /\ WriteHeaders(r) /\ phase' = [phase EXCEPT ![r] = "setting"]
        /\ UNCHANGED <<clock, ttl, cleaner, items, lock, gz, key, callee, got>>
    BY DEF EndCopy, Goto
  <1>3. /\ phase'[r] = "setting"
        /\ \A q \in Requests \ {r} : phase'[q] = phase[q]
        /\ phase' \in [Requests -> {"new", "asking", "filling", "calling",
                                    "copying", "setting", "writing", "done"}]
    BY <1>1, <1>2 DEF TypeOK
  <1>4. Maker(got[r]) /\ gz[got[r]] = gz[r] /\ got[r] \in Requests
    BY <1>2 DEF IInv, GotMade, Maker
  <1>5. label' = label
    <2>1. label[r] = gz[r] /\ label[got[r]] = gz[r] /\ gz[r] \in BOOLEAN
      BY <1>1, <1>4 DEF IInv, LabelledAsSent, TypeOK
    <2>2. (label[r] \/ label[got[r]]) = label[r]  BY <2>1
    <2> QED  BY <1>1, <1>2, <2>2 DEF TypeOK
  <1>6. raced' \subseteq raced \cup {x \in {r} : Maker(x)}
    BY <1>2, WriteHeadersMade
  <1>7. TypeOK'  BY <1>1, <1>2, <1>3, <1>5, <1>6 DEF TypeOK
  <1>8. \A x : Maker(x) => Maker(x)'  BY <1>2, <1>3 DEF Maker
  <1>9. Locked' /\ Keyed'
    BY <1>2, <1>3 DEF IInv, Locked, Keyed, Filling
  <1>10. ItemsMade' /\ RacersMade'
    BY <1>2, <1>6, <1>8 DEF IInv, ItemsMade, RacersMade
  <1>11. GotMade' /\ LabelledAsSent'
    BY <1>2, <1>3, <1>5, <1>8 DEF IInv, GotMade, LabelledAsSent
  <1> QED  BY <1>7, <1>9, <1>10, <1>11 DEF IInv

LEMMA CleanInv ==
  ASSUME IInv, Wake \/ Clean \/ Tick
  PROVE  IInv'
  <1>1. TypeOK  BY DEF IInv
  <1>2. /\ UNCHANGED <<ttl, lock, phase, gz, key, callee, got, label, raced>>
        /\ items' \in [Key -> Item]
        /\ \A k \in Key : items'[k] \in {NoItem, items[k]}
        /\ clock' \in 0..MaxTime
        /\ cleaner' \in [waiting : BOOLEAN, now : 0..MaxTime, ran : 0..MaxTime,
                         swept : 0..MaxTime]
    <2>1. NoItem \in Item  BY CacheAssumption DEF NoItem, Item
    <2>2. CASE Clean
      BY <1>1, <2>1, <2>2 DEF Clean, TypeOK, requestVars
    <2>3. CASE Tick
      BY <1>1, <2>3, CacheAssumption DEF Tick, TypeOK, requestVars
    <2>4. CASE Wake
      BY <1>1, <2>4 DEF Wake, TypeOK, requestVars
    <2> QED  BY <2>2, <2>3, <2>4
  <1>3. TypeOK'  BY <1>1, <1>2 DEF TypeOK
  <1>4. \A x : Maker(x) => Maker(x)'  BY <1>2 DEF Maker
  <1>5. Locked' /\ Keyed' /\ ItemsMade' /\ GotMade' /\ RacersMade'
    BY <1>1, <1>2, <1>4
       DEF IInv, Locked, Keyed, ItemsMade, GotMade, RacersMade, Filling, TypeOK
  <1>6. LabelledAsSent'  BY <1>2 DEF IInv, LabelledAsSent
  <1> QED  BY <1>3, <1>5, <1>6 DEF IInv

LEMMA StepInv == IInv /\ [Next]_vars => IInv'
  <1> SUFFICES ASSUME IInv, [Next]_vars PROVE IInv'  OBVIOUS
  <1>0. TypeOK  BY DEF IInv
  <1>1. CASE UNCHANGED vars
    BY <1>1 DEF vars, IInv, TypeOK, Locked, Keyed, ItemsMade, GotMade, RacersMade,
                LabelledAsSent, Maker, Filling
  <1>2. CASE Wake \/ Clean \/ Tick  BY <1>2, CleanInv
  <1>3. ASSUME NEW r \in Requests, Bypass(r) \/ Ask(r)  PROVE IInv'
    <2>1. CASE Bypass(r)
      BY <1>0, <2>1, MoveInv DEF Bypass, TypeOK
    <2>2. CASE Ask(r)
      <3>1. PICK t \in Tags : key' = [key EXCEPT ![r] = <<t, gz[r]>>]
        BY <2>2 DEF Ask, CacheKey
      <3>2. <<t, gz[r]>> \in Key /\ <<t, gz[r]>>[2] = gz[r]
        BY <1>0 DEF TypeOK, Key
      <3>3. /\ key' \in [Requests -> Key] /\ key'[r][2] = gz[r]
            /\ \A q \in Requests \ {r} : key'[q] = key[q]
        BY <1>0, <3>1, <3>2 DEF TypeOK
      <3> QED  BY <1>0, <2>2, <3>3, MoveInv DEF Ask, TypeOK
    <2> QED  BY <1>3, <2>1, <2>2
  <1>4. ASSUME NEW r \in Requests, Call(r) \/ CallReturns(r)  PROVE IInv'
    <2>1. CASE Call(r)
      <3>1. callee' \in [Requests -> Requests \cup {Nobody}]
        BY <1>0, <2>1 DEF Call, TypeOK
      <3> QED  BY <1>0, <2>1, <3>1, MoveInv DEF Call, Filling, TypeOK
    <2>2. CASE CallReturns(r)
      BY <1>0, <2>2, MoveInv DEF CallReturns, Filling, TypeOK
    <2> QED  BY <1>4, <2>1, <2>2
  <1>5. ASSUME NEW r \in Requests, SetHeaders(r) \/ Answer(r)  PROVE IInv'
    <2>1. raced' \subseteq raced \cup {x \in {r} : Maker(x)}
      BY <1>5, WriteHeadersMade DEF SetHeaders, Answer
    <2>2. CASE SetHeaders(r)
      BY <1>0, <2>1, <2>2, MoveInv DEF SetHeaders, TypeOK
    <2>3. CASE Answer(r)
      BY <1>0, <2>1, <2>3, MoveInv DEF Answer, TypeOK
    <2> QED  BY <1>5, <2>2, <2>3
  <1> QED
    BY <1>1, <1>2, <1>3, <1>4, <1>5, HitInv, MissInv, StoreInv, EndCopyInv
       DEF Next, Serve

\* IInv is an invariant of the cache.
THEOREM Invariance == Spec => []IInv
  <1> QED  BY InitInv, StepInv, PTL DEF Spec

\* At most one request runs the handler through the cache, for a key that has no
\* item (cache.go:64-74).
THEOREM RunsOnce == Spec => []MadeOnce
  <1>1. IInv => MadeOnce  BY DEF IInv, Locked, MadeOnce
  <1> QED  BY <1>1, Invariance, PTL

\* No hit labels a plain response as gzip, or the other way round
\* (cache.go:60-63, 77-78).
THEOREM LabelsMatch == Spec => []LabelledAsSent
  <1>1. IInv => LabelledAsSent  BY DEF IInv
  <1> QED  BY <1>1, Invariance, PTL

\* A header map that is written to while it is copied is that of the request
\* that made the item (cache.go:71, 77-82).
THEOREM OnlyMakersRace == Spec => []RacesOnlyWithMaker
  <1>1. IInv => RacesOnlyWithMaker
    BY DEF IInv, RacersMade, RacesOnlyWithMaker, Maker
  <1> QED  BY <1>1, Invariance, PTL

-----------------------------------------------------------------------------
(* Who waits for whom: the part of Answered that is an invariant *)

\* The map is locked by a request whose handler runs, and a handler waits for
\* another request than its own.
WaitsOK ==
  /\ lock # Nobody => Filling(lock)
  /\ \A r \in Requests :
       /\ callee[r] # r
       /\ phase[r] = "calling" => callee[r] # Nobody

\* A request that does not wait: it is yet to be served, or at a step of its own.
Running(r) ==
  phase[r] \in {"new", "filling", "copying", "setting", "writing"}

\* A request that asks for an item finds the map free, or behind its lock there
\* is a request that goes on, the one that fills the map or the one it called;
\* or that one asks the same map.
AskersWaitForSomeone ==
  \A r \in Requests : phase[r] = "asking" =>
    \/ lock = Nobody
    \/ phase[lock] = "filling"
    \/ phase[lock] = "calling" /\ callee[lock] # lock
         /\ (Running(callee[lock]) \/ phase[callee[lock]] = "done")
    \/ Stuck

LEMMA WaitsInit == Init => WaitsOK
  BY CacheAssumption DEF Init, WaitsOK

\* The lock is taken and given back by the request whose handler starts and
\* returns; a call is made to another request.
LEMMA WaitsStep == IInv /\ WaitsOK /\ [Next]_vars => WaitsOK'
  <1> SUFFICES ASSUME IInv, WaitsOK, [Next]_vars PROVE WaitsOK'  OBVIOUS
  <1>0. TypeOK  BY DEF IInv
  <1>1. CASE UNCHANGED vars
    BY <1>1 DEF vars, WaitsOK, Filling
  <1>2. CASE Wake \/ Clean \/ Tick
    BY <1>2 DEF Wake, Clean, Tick, requestVars, WaitsOK, Filling
  <1>3. ASSUME NEW r \in Requests,
               \/ Bypass(r) \/ Ask(r) \/ Hit(r) \/ EndCopy(r)
               \/ SetHeaders(r) \/ Answer(r)
        PROVE  WaitsOK'
    <2>1. /\ ~Filling(r) /\ UNCHANGED <<lock, callee>>
          /\ \E p \in {"done", "asking", "copying", "setting", "writing"} :
               phase' = [phase EXCEPT ![r] = p]
      BY <1>3 DEF Bypass, Ask, Hit, EndCopy, SetHeaders, Answer, Goto, Filling
    <2>2. \A q \in Requests \ {r} : phase'[q] = phase[q]
      BY <1>0, <2>1 DEF TypeOK
    <2>3. phase'[r] # "calling"
      BY <1>0, <2>1 DEF TypeOK
    <2>4. lock # Nobody => lock \in Requests \ {r}
      BY <1>0, <2>1 DEF TypeOK, WaitsOK
    <2>5. lock' # Nobody => Filling(lock)'
      BY <2>1, <2>2, <2>4 DEF WaitsOK, Filling
    <2> QED  BY <2>1, <2>2, <2>3, <2>5 DEF WaitsOK
  <1>4. ASSUME NEW r \in Requests, Miss(r)  PROVE WaitsOK'
    BY <1>0, <1>4 DEF Miss, Goto, TypeOK, WaitsOK, Filling
  <1>5. ASSUME NEW r \in Requests, Call(r)  PROVE WaitsOK'
    BY <1>0, <1>5, CacheAssumption DEF Call, Goto, TypeOK, WaitsOK, Filling
  <1>6. ASSUME NEW r \in Requests, CallReturns(r)  PROVE WaitsOK'
    BY <1>0, <1>6 DEF CallReturns, Goto, TypeOK, WaitsOK, Filling
  <1>7. ASSUME NEW r \in Requests, Store(r)  PROVE WaitsOK'
    BY <1>0, <1>7 DEF Store, Goto, TypeOK, WaitsOK, Filling
  <1> QED
    BY <1>1, <1>2, <1>3, <1>4, <1>5, <1>6, <1>7 DEF Next, Serve

\* Whoever asks for an item waits for a request that can go on: there is no other
\* way to block the cache than a handler that comes back to the map it fills,
\* whatever the handlers call, and for any number of requests (cache.go:64-65).
THEOREM OnlyReentryBlocks == Spec => []AskersWaitForSomeone
  <1>1. ASSUME IInv, WaitsOK PROVE AskersWaitForSomeone
    <2> SUFFICES ASSUME lock # Nobody, phase[lock] # "filling", ~Stuck
                 PROVE  /\ phase[lock] = "calling" /\ callee[lock] # lock
                        /\ \/ Running(callee[lock])
                           \/ phase[callee[lock]] = "done"
      BY DEF AskersWaitForSomeone
    <2>1. lock \in Requests /\ phase[lock] = "calling"
      BY <1>1 DEF IInv, TypeOK, WaitsOK, Filling
    <2>2. callee[lock] \in Requests /\ callee[lock] # lock
      BY <1>1, <2>1 DEF IInv, TypeOK, WaitsOK
    <2>3. ~Filling(callee[lock])
      BY <1>1, <2>2 DEF IInv, Locked
    <2>4. phase[callee[lock]] # "asking"
      BY <2>1 DEF Stuck
    <2> QED
      BY <1>1, <2>1, <2>2, <2>3, <2>4 DEF IInv, TypeOK, Filling, Running
  <1> QED
    BY <1>1, WaitsInit, WaitsStep, Invariance, PTL DEF Spec

-----------------------------------------------------------------------------
(* The age of what is cached *)

\* Clocks were read, and items made, in the past; and what the cleaner left in
\* its last round was young by the clock it went by, or is newer.
AgeInv ==
  /\ cleaner.now <= clock /\ cleaner.ran <= clock
  /\ cleaner.swept <= cleaner.ran
  /\ \A k \in Key : items[k] # NoItem =>
       items[k].created <= clock /\ cleaner.swept <= items[k].created + ttl

\* The numbers the ages are computed from.
LEMMA Numbers ==
  ASSUME TypeOK
  PROVE  /\ clock \in Nat /\ ttl \in Nat
         /\ cleaner.now \in Nat /\ cleaner.ran \in Nat /\ cleaner.swept \in Nat
         /\ \A k \in Key : items[k].created \in Nat
BY CacheAssumption DEF TypeOK, Item

LEMMA AgeInit == Init => AgeInv
<1> SUFFICES ASSUME Init PROVE AgeInv
  OBVIOUS
<1>1. \A k \in Key : items[k] = NoItem
  BY DEF Init
<1> QED
  BY <1>1 DEF Init, AgeInv

\* No step makes an item older than it may be.
LEMMA AgeStep ==
  ASSUME TypeOK, AgeInv, [Next]_vars
  PROVE  AgeInv'
<1> USE Numbers DEF AgeInv
<1>1. CASE Wake
  <2>1. /\ cleaner' = [cleaner EXCEPT !.waiting = TRUE, !.now = clock]
        /\ UNCHANGED <<clock, ttl, items>>
    BY <1>1 DEF Wake
  <2>2. /\ cleaner'.now = clock /\ cleaner'.ran = cleaner.ran
        /\ cleaner'.swept = cleaner.swept
    BY <2>1 DEF TypeOK
  <2> QED
    BY <2>1, <2>2
<1>2. CASE Clean
  <2>1. /\ items' = [k \in Key |-> IF Stale(items[k]) THEN NoItem ELSE items[k]]
        /\ cleaner' = [cleaner EXCEPT !.waiting = FALSE, !.ran = clock,
                                      !.swept = cleaner.now]
        /\ UNCHANGED <<clock, ttl>>
    BY <1>2 DEF Clean
  <2>2. /\ cleaner'.now = cleaner.now /\ cleaner'.ran = clock
        /\ cleaner'.swept = cleaner.now
    BY <2>1 DEF TypeOK
  <2>3. ASSUME NEW k \in Key, items'[k] # NoItem
        PROVE  items'[k] = items[k] /\ cleaner.now <= items[k].created + ttl
    BY <2>1, <2>3 DEF Stale
  <2> QED
    BY <2>1, <2>2, <2>3
<1>3. CASE Tick
  BY <1>3 DEF Tick
<1>4. ASSUME NEW r \in Requests, Store(r) PROVE AgeInv'
  <2>1. /\ items' = [items EXCEPT ![key[r]] = [by |-> r, created |-> clock]]
        /\ UNCHANGED <<clock, ttl, cleaner>>
    BY <1>4 DEF Store
  <2>2. ASSUME NEW k \in Key
        PROVE  items'[k] = items[k] \/ items'[k].created = clock
    BY <2>1 DEF TypeOK
  <2> QED
    BY <2>1, <2>2
<1>5. ASSUME UNCHANGED <<clock, ttl, cleaner, items>> PROVE AgeInv'
  BY <1>5
<1> QED
  BY <1>1, <1>2, <1>3, <1>4, <1>5
  DEF Next, Serve, Bypass, Ask, Call, Hit, Miss, CallReturns, EndCopy,
      SetHeaders, Answer, vars

\* A hit is answered with nothing older than twice the ttl and what the cleaner
\* was kept waiting, in this round and the one before (cache.go:21-33,64-81).
THEOREM HitsAreYoung == Spec => AgeBounded
<1>1. ASSUME TypeOK, AgeInv, NEW r \in Requests, Hit(r)
      PROVE  clock - items[key[r]].created
               <= 2 * ttl + (cleaner.ran - cleaner.swept) + Late
  <2> DEFINE made == items[key[r]].created
  <2>1. key[r] \in Key /\ items[key[r]] # NoItem
    BY <1>1 DEF TypeOK, Hit
  <2>2. made <= clock /\ cleaner.swept <= made + ttl /\ made \in Nat
    BY <1>1, <2>1, Numbers DEF AgeInv
  <2>3. clock - cleaner.ran <= ttl + Late /\ Late \in Int
    BY <1>1, Numbers DEF Late, Due
  <2> HIDE DEF made
  <2>4. clock - made <= 2 * ttl + (cleaner.ran - cleaner.swept) + Late
    BY <1>1, <2>2, <2>3, Numbers
  <2> QED
    BY <2>4 DEF made
<1>2. IInv => TypeOK
  BY DEF IInv
<1>3. TypeOK /\ AgeInv /\ [Next]_vars => AgeInv'
  BY AgeStep
<1>4. TypeOK /\ AgeInv /\ [Next]_vars =>
        [\A r \in Requests : Hit(r) =>
           clock - items[key[r]].created
             <= 2 * ttl + (cleaner.ran - cleaner.swept) + Late]_vars
  BY <1>1
<1> QED
  BY AgeInit, <1>2, <1>3, <1>4, Invariance, PTL DEF Spec, AgeBounded
=============================================================================
