------------------------------ MODULE SiteProofs ------------------------------
(***************************************************************************)
(* The middlewares of the groups, for any number of groups and whatever    *)
(* capacities append chooses, and what a request to one of them is         *)
(* answered with, for any middlewares and handlers.                        *)
(***************************************************************************)
EXTENDS Site, SequenceTheorems, TLAPS

(***************************************************************************)
(* The middlewares of the groups.  Slices may share an array: SubGroup     *)
(* without middlewares of its own makes one that does.  Apart keeps that   *)
(* harmless: of the slices of an array only a longest one may have room,   *)
(* and append writes where that one ends.                                  *)
(***************************************************************************)
Slice == [arr : Array, len : Nat, cap : Nat]

GroupsTypes ==
  /\ made \in SUBSET Group
  /\ mw \in [Group -> Slice]
  /\ heap \in [Array -> Seq(Middleware)]
  /\ declared \in [Group -> Seq(Middleware)]

\* A slice fits its capacity, and what it holds was written.
SliceFits(s) ==
  /\ s.len <= s.cap
  /\ s.cap > 0 => s.len <= Len(heap[s.arr])

\* If s has room, no other slice of its array has, and none is longer.
Apart(s, t) ==
  s.arr = t.arr /\ s.cap > s.len /\ t.cap > 0 => t.cap = t.len /\ t.len <= s.len

GroupsInv ==
  /\ GroupsTypes
  /\ \A g \in made : SliceFits(mw[g]) /\ Middlewares(g) = declared[g]
  /\ \A g, h \in made : g # h => Apart(mw[g], mw[h])

-----------------------------------------------------------------------------
LEMMA FunctionIsSeq ==
  ASSUME NEW S, NEW n \in Nat, NEW f \in [1..n -> S]
  PROVE  f \in Seq(S) /\ Len(f) = n
  <1>1. f = [i \in 1..n |-> f[i]]  OBVIOUS
  <1>2. \A i \in 1..n : f[i] \in S  OBVIOUS
  <1> QED  BY <1>1, <1>2

LEMMA ElementsType ==
  ASSUME heap \in [Array -> Seq(Middleware)], NEW s \in Slice, SliceFits(s)
  PROVE  /\ Elements(s) \in Seq(Middleware)
         /\ Len(Elements(s)) = s.len
  <1>1. s.len \in Nat /\ s.arr \in Array /\ s.cap \in Nat  BY DEF Slice
  <1>2. heap[s.arr] \in Seq(Middleware)  BY <1>1
  <1>3. ASSUME NEW i \in 1..s.len  PROVE heap[s.arr][i] \in Middleware
    <2>1. Len(heap[s.arr]) \in Nat  BY <1>2, LenProperties
    <2>2. i \in 1..Len(heap[s.arr])  BY <1>1, <1>3, <2>1 DEF SliceFits
    <2> QED  BY <1>2, <2>2, ElementOfSeq
  <1>4. Elements(s) \in [1..s.len -> Middleware]  BY <1>3 DEF Elements
  <1> QED  BY <1>1, <1>4, FunctionIsSeq

(* append writes in place: the others do not see it. *)
LEMMA AppendInPlace ==
  ASSUME GroupsTypes,
         NEW g \in Group, NEW s \in Slice, NEW ms \in Seq(Middleware), SliceFits(s),
         NEW others \in SUBSET Group, g \notin others,
         \A h \in others : /\ SliceFits(mw[h])
                           /\ Apart(s, mw[h]) /\ Apart(mw[h], s),
         NEW n, n = s.len + Len(ms), n <= s.cap,
         heap' = [heap EXCEPT ![s.arr] = Written(s, ms)],
         mw' = [mw EXCEPT ![g] = [arr |-> s.arr, len |-> n, cap |-> s.cap]]
  PROVE  /\ heap' \in [Array -> Seq(Middleware)]
         /\ mw' \in [Group -> Slice]
         /\ SliceFits(mw[g])' /\ Middlewares(g)' = Elements(s) \o ms
         /\ \A h \in others :
              /\ SliceFits(mw[h])' /\ Middlewares(h)' = Middlewares(h)
              /\ Apart(mw[g], mw[h])' /\ Apart(mw[h], mw[g])'
  <1> DEFINE a == s.arr
             t == [arr |-> s.arr, len |-> n, cap |-> s.cap]
             hp == heap[a]
             w == Written(s, ms)
             m == Longer(Len(hp), n)
  <1>1. /\ s.len \in Nat /\ a \in Array /\ s.cap \in Nat /\ Len(ms) \in Nat
        /\ hp \in Seq(Middleware) /\ Len(hp) \in Nat /\ n \in Nat
    BY DEF Slice, GroupsTypes
  <1>2. t \in Slice /\ t.arr = a /\ t.len = n /\ t.cap = s.cap
    BY <1>1 DEF Slice
  <1>3. mw' \in [Group -> Slice] /\ mw'[g] = t
        /\ \A h \in others : mw'[h] = mw[h] /\ mw[h] \in Slice
    BY <1>2 DEF GroupsTypes
  <1>4. s.len <= Len(hp) \/ (s.cap = 0 /\ s.len = 0 /\ n = 0)
    BY <1>1, SMT DEF SliceFits
  <1>5. w \in Seq(Middleware) /\ Len(w) >= Len(hp) /\ Len(w) >= n
    <2>1. m \in Nat /\ m >= n /\ m >= Len(hp) /\ m \in {n, Len(hp)}
      BY <1>1 DEF Longer
    <2>2. ASSUME NEW i \in 1..m  PROVE w[i] \in Middleware
      <3>1. CASE i \in s.len + 1 .. n
        <4>1. i - s.len \in 1..Len(ms)  BY <1>1, <3>1
        <4>2. w[i] = ms[i - s.len]  BY <2>2, <3>1 DEF Written
        <4> QED  BY <4>1, <4>2, ElementOfSeq
      <3>2. CASE i \notin s.len + 1 .. n
        <4>1. i \in 1..Len(hp)  BY <1>1, <1>4, <2>1, <2>2, <3>2
        <4>2. w[i] = hp[i]  BY <2>2, <3>2 DEF Written
        <4> QED  BY <1>1, <4>1, <4>2, ElementOfSeq
      <3> QED  BY <3>1, <3>2
    <2>3. w \in [1..m -> Middleware]  BY <2>2 DEF Written
    <2>4. w \in Seq(Middleware) /\ Len(w) = m
      BY <2>1, <2>3, FunctionIsSeq
    <2> QED  BY <2>1, <2>4
  <1>6. heap' \in [Array -> Seq(Middleware)] /\ heap'[a] = w
        /\ \A b \in Array \ {a} : heap'[b] = heap[b]
    BY <1>1, <1>5 DEF GroupsTypes
  <1>7. \A i \in 1..s.len : w[i] = hp[i]
    BY <1>1, <1>4 DEF Written, Longer
  <1>8. \A i \in s.len + 1 .. n : w[i] = ms[i - s.len]
    BY <1>1 DEF Written, Longer
  <1>9. SliceFits(mw[g])'
    BY <1>1, <1>2, <1>3, <1>5, <1>6 DEF SliceFits
  <1>10. Middlewares(g)' = Elements(s) \o ms
    <2>1. Middlewares(g)' = [i \in 1..n |-> w[i]]
      BY <1>2, <1>3, <1>6 DEF Middlewares, Elements
    <2>2. Elements(s) \in Seq(Middleware) /\ Len(Elements(s)) = s.len
      BY ElementsType DEF GroupsTypes
    <2> DEFINE f == [i \in 1..n |-> w[i]]
    <2>3. ASSUME NEW i \in 1..n
          PROVE /\ f[i] = IF i <= s.len THEN Elements(s)[i] ELSE ms[i - s.len]
                /\ f[i] \in Middleware
      <3>1. CASE i <= s.len
        <4>1. f[i] = hp[i] /\ Elements(s)[i] = hp[i]
          BY <1>1, <1>7, <3>1 DEF Elements
        <4>2. i \in 1..Len(Elements(s))  BY <1>1, <2>2, <3>1
        <4>3. Elements(s)[i] \in Middleware  BY <2>2, <4>2, ElementOfSeq
        <4> QED  BY <3>1, <4>1, <4>3
      <3>2. CASE ~(i <= s.len)
        <4>1. f[i] = ms[i - s.len]  BY <1>1, <1>8, <3>2
        <4>2. i - s.len \in 1..Len(ms)  BY <1>1, <3>2
        <4>3. ms[i - s.len] \in Middleware  BY <4>2, ElementOfSeq
        <4> QED  BY <3>2, <4>1, <4>3
      <3> QED  BY <3>1, <3>2
    <2>4. f \in [1..n -> Middleware] /\ DOMAIN f = 1..n  BY <2>3
    <2> DEFINE q == Elements(s)
    <2>5. /\ q \in Seq(Middleware) /\ n = Len(q) + Len(ms)
          /\ \A i \in 1..n : f[i] = IF i <= Len(q) THEN q[i] ELSE ms[i - Len(q)]
      BY <2>2, <2>3
    <2> HIDE DEF f, q
    <2>6. f = q \o ms
      <3>1. f \in Seq(Middleware) /\ Len(f) = n
        BY <1>1, <2>4, FunctionIsSeq
      <3>2. /\ q \o ms \in Seq(Middleware) /\ Len(q \o ms) = n
            /\ \A i \in 1..n : (q \o ms)[i] =
                 IF i <= Len(q) THEN q[i] ELSE ms[i - Len(q)]
        BY <2>5, ConcatProperties
      <3> QED  BY <2>5, <3>1, <3>2, SeqEqual
    <2> QED  BY <2>1, <2>6 DEF f, q
  <1>11. ASSUME NEW h \in others
         PROVE /\ SliceFits(mw[h])' /\ Middlewares(h)' = Middlewares(h)
               /\ Apart(mw[g], mw[h])' /\ Apart(mw[h], mw[g])'
    <2> DEFINE u == mw[h]
    <2>1. u \in Slice /\ mw'[h] = u  BY <1>3
    <2>2. u.arr \in Array /\ u.len \in Nat /\ u.cap \in Nat  BY <2>1 DEF Slice
    <2>3. SliceFits(u) /\ Apart(s, u) /\ Apart(u, s)  OBVIOUS
    <2>4. SliceFits(u)'
      BY <1>1, <1>5, <1>6, <2>1, <2>2, <2>3 DEF SliceFits, GroupsTypes
    <2>5. \A i \in 1..u.len : heap'[u.arr][i] = heap[u.arr][i]
      <3>1. CASE u.arr # a  BY <1>6, <2>2, <3>1
      <3>2. CASE u.arr = a /\ n = s.len
        <4>1. \A i \in 1..u.len : u.len <= Len(hp)
          BY <1>1, <2>2, <2>3, <3>2 DEF SliceFits
        <4>2. \A i \in 1..u.len : w[i] = hp[i]
          <5> TAKE i \in 1..u.len
          <5>1. i \in 1..Len(hp) /\ i \notin s.len + 1 .. n
            BY <1>1, <2>2, <3>2, <4>1
          <5>2. i \in 1..m  BY <1>1, <5>1 DEF Longer
          <5> QED  BY <5>1, <5>2 DEF Written
        <4> QED  BY <1>6, <3>2, <4>2
      <3>3. CASE u.arr = a /\ n > s.len
        <4>1. u.len <= s.len
          BY <1>1, <2>2, <2>3, <3>3 DEF SliceFits, Apart
        <4>2. \A i \in 1..u.len : i \in 1..s.len  BY <1>1, <2>2, <4>1
        <4> QED  BY <1>6, <1>7, <3>3, <4>2
      <3>4. n = s.len \/ n > s.len  BY <1>1
      <3> QED  BY <3>1, <3>2, <3>3, <3>4, Zenon
    <2>6. Middlewares(h)' = Middlewares(h)
      BY <2>1, <2>2, <2>5, Zenon DEF Middlewares, Elements
    <2>7. Apart(t, u) /\ Apart(u, t)
      BY <1>1, <1>2, <2>2, <2>3 DEF Apart, SliceFits
    <2> QED  BY <1>3, <2>1, <2>4, <2>6, <2>7 DEF SliceFits, Apart
  <1> QED  BY <1>3, <1>6, <1>9, <1>10, <1>11

(* append copies to an array of its own. *)
LEMMA AppendCopies ==
  ASSUME GroupsTypes,
         NEW g \in Group, NEW s \in Slice, NEW ms \in Seq(Middleware), SliceFits(s),
         NEW others \in SUBSET Group, g \notin others,
         \A h \in others : SliceFits(mw[h]),
         NEW n, n = s.len + Len(ms),
         NEW a \in Array, \A h \in others : mw[h].cap > 0 => mw[h].arr # a,
         NEW spare \in Nat,
         heap' = [heap EXCEPT ![a] = Elements(s) \o ms],
         mw' = [mw EXCEPT ![g] = [arr |-> a, len |-> n, cap |-> n + spare]]
  PROVE  /\ heap' \in [Array -> Seq(Middleware)]
         /\ mw' \in [Group -> Slice]
         /\ SliceFits(mw[g])' /\ Middlewares(g)' = Elements(s) \o ms
         /\ \A h \in others :
              /\ SliceFits(mw[h])' /\ Middlewares(h)' = Middlewares(h)
              /\ Apart(mw[g], mw[h])' /\ Apart(mw[h], mw[g])'
  <1> DEFINE t == [arr |-> a, len |-> n, cap |-> n + spare]
             w == Elements(s) \o ms
  <1>1. Elements(s) \in Seq(Middleware) /\ Len(Elements(s)) = s.len /\ s.len \in Nat
    <2>1. heap \in [Array -> Seq(Middleware)]  BY DEF GroupsTypes
    <2>2. s.len \in Nat  BY DEF Slice
    <2> QED  BY <2>1, <2>2, ElementsType
  <1>2. w \in Seq(Middleware) /\ Len(w) = n /\ n \in Nat
    <2>1. Len(ms) \in Nat  BY LenProperties
    <2>2. w \in Seq(Middleware) /\ Len(w) = s.len + Len(ms)
      BY <1>1, ConcatProperties
    <2> QED  BY <1>1, <2>1, <2>2
  <1>3. t \in Slice  BY <1>2 DEF Slice
  <1>4. mw' \in [Group -> Slice] /\ mw'[g] = t
        /\ \A h \in others : mw'[h] = mw[h] /\ mw[h] \in Slice
    BY <1>3 DEF GroupsTypes
  <1>5. heap' \in [Array -> Seq(Middleware)] /\ heap'[a] = w
        /\ \A b \in Array \ {a} : heap'[b] = heap[b]
    BY <1>2 DEF GroupsTypes
  <1>6. SliceFits(mw[g])'  BY <1>2, <1>4, <1>5 DEF SliceFits
  <1>7. Middlewares(g)' = w
    <2>1. Middlewares(g)' = [i \in 1..n |-> w[i]]
      BY <1>4, <1>5, Zenon DEF Middlewares, Elements
    <2>2. w \in [1..n -> Middleware]  BY <1>2, LenProperties
    <2>3. w = [i \in 1..n |-> w[i]]  BY <2>2
    <2> QED  BY <2>1, <2>3
  <1>8. ASSUME NEW h \in others
        PROVE /\ SliceFits(mw[h])' /\ Middlewares(h)' = Middlewares(h)
              /\ Apart(mw[g], mw[h])' /\ Apart(mw[h], mw[g])'
    <2> DEFINE u == mw[h]
    <2>1. u \in Slice /\ mw'[h] = u  BY <1>4
    <2>2. u.arr \in Array /\ u.len \in Nat /\ u.cap \in Nat  BY <2>1 DEF Slice
    <2>3. SliceFits(u) /\ (u.cap > 0 => u.arr # a)  OBVIOUS
    <2>4. SliceFits(u)'  BY <1>5, <2>1, <2>2, <2>3 DEF SliceFits
    <2>5. \A i \in 1..u.len : heap'[u.arr][i] = heap[u.arr][i]
      BY <1>5, <2>2, <2>3 DEF SliceFits
    <2>6. Middlewares(h)' = Middlewares(h)
      BY <2>1, <2>5, Zenon DEF Middlewares, Elements
    <2>7. Apart(t, u) /\ Apart(u, t)  BY <2>2, <2>3 DEF Apart
    <2> QED  BY <1>4, <2>1, <2>4, <2>6, <2>7 DEF SliceFits, Apart
  <1> QED  BY <1>4, <1>5, <1>6, <1>7, <1>8

(* Either way. *)
LEMMA Appends ==
  ASSUME GroupsTypes,
         NEW g \in Group, NEW s \in Slice, NEW ms \in Seq(Middleware), SliceFits(s),
         \A h \in made \ {g} : /\ SliceFits(mw[h])
                               /\ Apart(s, mw[h]) /\ Apart(mw[h], s),
         AppendTo(g, s, ms)
  PROVE  /\ heap' \in [Array -> Seq(Middleware)]
         /\ mw' \in [Group -> Slice]
         /\ SliceFits(mw[g])' /\ Middlewares(g)' = Elements(s) \o ms
         /\ \A h \in made \ {g} :
              /\ SliceFits(mw[h])' /\ Middlewares(h)' = Middlewares(h)
              /\ Apart(mw[g], mw[h])' /\ Apart(mw[h], mw[g])'
  <1> DEFINE n == s.len + Len(ms)
  <1>0. made \ {g} \in SUBSET Group /\ g \notin made \ {g}  BY DEF GroupsTypes
  <1>1. CASE n <= s.cap
    <2>1. ~(n > s.cap)
      <3>1. s.len \in Nat /\ s.cap \in Nat /\ Len(ms) \in Nat
        BY LenProperties DEF Slice
      <3> QED  BY <1>1, <3>1
    <2>2. /\ heap' = [heap EXCEPT ![s.arr] = Written(s, ms)]
          /\ mw' = [mw EXCEPT ![g] = [arr |-> s.arr, len |-> n, cap |-> s.cap]]
      BY <2>1 DEF AppendTo
    <2> HIDE DEF n
    <2>3. n = s.len + Len(ms)  BY DEF n
    <2> QED  BY <1>0, <1>1, <2>2, <2>3, AppendInPlace
  <1>2. CASE ~(n <= s.cap)
    <2>1. PICK a \in Array, spare \in 0..MaxSpare :
            /\ Free(a)
            /\ heap' = [heap EXCEPT ![a] = Elements(s) \o ms]
            /\ mw' = [mw EXCEPT ![g] = [arr |-> a, len |-> n, cap |-> n + spare]]
      BY <1>2 DEF AppendTo
    <2>2. spare \in Nat  BY GroupsAssumption
    <2>3. \A h \in made \ {g} : mw[h].cap > 0 => mw[h].arr # a
      BY <2>1 DEF Free
    <2>4. \A h \in made \ {g} : SliceFits(mw[h])  OBVIOUS
    <2> HIDE DEF n
    <2>5. n = s.len + Len(ms)  BY DEF n
    <2> QED  BY <1>0, <2>1, <2>2, <2>3, <2>4, <2>5, AppendCopies
  <1> QED  BY <1>1, <1>2

-----------------------------------------------------------------------------
LEMMA GroupsInitInv == GroupsInit => GroupsInv
  <1> SUFFICES ASSUME GroupsInit PROVE GroupsInv  OBVIOUS
  <1>1. NilSlice \in Slice /\ NilSlice.len = 0 /\ NilSlice.cap = 0
    BY GroupsAssumption DEF NilSlice, Slice
  <1>2. GroupsTypes  BY <1>1, GroupsAssumption DEF GroupsTypes, GroupsInit
  <1>3. made = {Root} /\ mw[Root] = NilSlice /\ declared[Root] = <<>>
    BY GroupsAssumption DEF GroupsInit
  <1>4. SliceFits(mw[Root])  BY <1>1, <1>3 DEF SliceFits
  <1>5. Middlewares(Root) = declared[Root]
    BY <1>1, <1>3 DEF Middlewares, Elements
  <1> QED  BY <1>2, <1>3, <1>4, <1>5 DEF GroupsInv

LEMMA GroupsStepInv == GroupsInv /\ [GroupsNext]_gvars => GroupsInv'
  <1> SUFFICES ASSUME GroupsInv, [GroupsNext]_gvars PROVE GroupsInv'  OBVIOUS
  <1>0. GroupsTypes  BY DEF GroupsInv
  <1>1. ASSUME NEW g \in Group, NEW ms \in Additions, Use(g, ms)  PROVE GroupsInv'
    <2>1. /\ g \in made /\ made' = made /\ AppendTo(g, mw[g], ms)
          /\ declared' = [declared EXCEPT ![g] = @ \o ms]
      BY <1>1 DEF Use
    <2>2. ms \in Seq(Middleware) /\ mw[g] \in Slice /\ SliceFits(mw[g])
      BY <1>0, <2>1, GroupsAssumption DEF GroupsInv, GroupsTypes
    <2>3. \A h \in made \ {g} : /\ SliceFits(mw[h])
                                /\ Apart(mw[g], mw[h]) /\ Apart(mw[h], mw[g])
      BY <2>1 DEF GroupsInv
    <2>4. /\ heap' \in [Array -> Seq(Middleware)]
          /\ mw' \in [Group -> Slice]
          /\ SliceFits(mw[g])' /\ Middlewares(g)' = Elements(mw[g]) \o ms
          /\ \A h \in made \ {g} :
               /\ SliceFits(mw[h])' /\ Middlewares(h)' = Middlewares(h)
               /\ Apart(mw[g], mw[h])' /\ Apart(mw[h], mw[g])'
      BY <1>0, <2>1, <2>2, <2>3, Appends
    <2>5. GroupsTypes'
      <3>1. declared[g] \in Seq(Middleware)  BY <1>0 DEF GroupsTypes
      <3>2. declared[g] \o ms \in Seq(Middleware)
        BY <2>2, <3>1, ConcatProperties
      <3> QED  BY <1>0, <2>1, <2>2, <2>4, <3>2 DEF GroupsTypes
    <2>6. ASSUME NEW h \in made'
          PROVE SliceFits(mw[h])' /\ Middlewares(h)' = declared'[h]
      <3>1. CASE h = g
        BY <1>0, <2>1, <2>4, <3>1 DEF GroupsInv, GroupsTypes, Middlewares
      <3>2. CASE h # g
        BY <1>0, <2>1, <2>4, <2>6, <3>2 DEF GroupsInv, GroupsTypes
      <3> QED  BY <3>1, <3>2
    <2>7. ASSUME NEW h \in made', NEW k \in made', h # k
          PROVE Apart(mw[h], mw[k])'
      <3>1. CASE h = g \/ k = g  BY <2>1, <2>4, <2>7, <3>1
      <3>2. CASE h # g /\ k # g
        <4>1. mw'[h] = mw[h] /\ mw'[k] = mw[k] /\ Apart(mw[h], mw[k])
          BY <1>0, <2>1, <2>7, <3>2 DEF GroupsInv, GroupsTypes, AppendTo
        <4> QED  BY <4>1 DEF Apart
      <3> QED  BY <3>1, <3>2
    <2> QED  BY <2>5, <2>6, <2>7 DEF GroupsInv
  <1>2. ASSUME NEW g \in Group, NEW ms \in Additions, NEW sub \in Group,
               SubGroup(g, sub, ms)
        PROVE GroupsInv'
    <2> DEFINE s == Inherited(mw[g])
    <2>1. /\ g \in made /\ sub \notin made /\ made' = made \cup {sub}
          /\ AppendTo(sub, s, ms)
          /\ declared' = [declared EXCEPT ![sub] = declared[g] \o ms]
      BY <1>2 DEF SubGroup
    <2>2. /\ mw[g] \in Slice /\ mw[g].len \in Nat /\ mw[g].cap \in Nat
          /\ s \in Slice /\ s.len = mw[g].len /\ s.cap = mw[g].len
          /\ s.arr = mw[g].arr
      BY <1>0, <2>1 DEF Inherited, Slice, GroupsTypes
    <2>3. ms \in Seq(Middleware) /\ SliceFits(s) /\ SliceFits(mw[g])
      BY <2>1, <2>2, GroupsAssumption DEF GroupsInv, SliceFits
    <2>4. ASSUME NEW h \in made \ {sub}
          PROVE SliceFits(mw[h]) /\ Apart(s, mw[h]) /\ Apart(mw[h], s)
      <3>1. /\ SliceFits(mw[h])
            /\ mw[h] \in Slice
            /\ mw[h].len \in Nat
            /\ mw[h].cap \in Nat
        BY <1>0, <2>4 DEF GroupsInv, GroupsTypes, Slice
      <3>2. Apart(s, mw[h])  BY <2>2, <3>1 DEF Apart
      <3>3. Apart(mw[h], s)
        <4>1. CASE h = g  BY <2>2, <4>1 DEF Apart
        <4>2. CASE h # g
          <5>1. Apart(mw[h], mw[g])  BY <2>1, <2>4, <4>2 DEF GroupsInv
          <5> QED  BY <2>2, <2>3, <3>1, <5>1 DEF Apart, SliceFits
        <4> QED  BY <4>1, <4>2
      <3> QED  BY <3>1, <3>2, <3>3
    <2>5. /\ heap' \in [Array -> Seq(Middleware)]
          /\ mw' \in [Group -> Slice]
          /\ SliceFits(mw[sub])' /\ Middlewares(sub)' = Elements(s) \o ms
          /\ \A h \in made \ {sub} :
               /\ SliceFits(mw[h])' /\ Middlewares(h)' = Middlewares(h)
               /\ Apart(mw[sub], mw[h])' /\ Apart(mw[h], mw[sub])'
      BY <1>0, <2>1, <2>2, <2>3, <2>4, Appends
    <2>6. Elements(s) = declared[g]
      BY <2>1, <2>2 DEF GroupsInv, Middlewares, Elements
    <2>7. GroupsTypes'
      <3>1. declared[g] \in Seq(Middleware)  BY <1>0 DEF GroupsTypes
      <3>2. declared[g] \o ms \in Seq(Middleware)
        BY <2>3, <3>1, ConcatProperties
      <3> QED  BY <1>0, <2>1, <2>3, <2>5, <3>2 DEF GroupsTypes
    <2>8. ASSUME NEW h \in made'
          PROVE SliceFits(mw[h])' /\ Middlewares(h)' = declared'[h]
      <3>1. CASE h = sub
        BY <1>0, <2>1, <2>5, <2>6, <3>1 DEF GroupsTypes
      <3>2. CASE h # sub
        BY <1>0, <2>1, <2>5, <2>8, <3>2 DEF GroupsInv, GroupsTypes
      <3> QED  BY <3>1, <3>2
    <2>9. ASSUME NEW h \in made', NEW k \in made', h # k
          PROVE Apart(mw[h], mw[k])'
      <3>1. CASE h = sub \/ k = sub  BY <2>1, <2>5, <2>9, <3>1
      <3>2. CASE h # sub /\ k # sub
        <4>1. mw'[h] = mw[h] /\ mw'[k] = mw[k] /\ Apart(mw[h], mw[k])
          BY <1>0, <2>1, <2>9, <3>2 DEF GroupsInv, GroupsTypes, AppendTo
        <4> QED  BY <4>1 DEF Apart
      <3> QED  BY <3>1, <3>2
    <2> QED  BY <2>7, <2>8, <2>9 DEF GroupsInv
  <1>3. CASE UNCHANGED gvars
    BY <1>3
    DEF GroupsInv, GroupsTypes, gvars, SliceFits, Apart, Middlewares, Elements
  <1> QED  BY <1>1, <1>2, <1>3 DEF GroupsNext

\* GroupsInv is an invariant of every sequence of Use and SubGroup.
THEOREM GroupsInvariance == GroupsSpec => []GroupsInv
  <1> QED  BY GroupsInitInv, GroupsStepInv, PTL DEF GroupsSpec

\* Groups never get each other's middlewares, nor lose one of their own, though
\* their slices may share an array (group.go:30-32, 95-102).
THEOREM MiddlewaresKept == GroupsSpec => []MiddlewaresAsDeclared
  <1>1. GroupsInv => MiddlewaresAsDeclared  BY DEF GroupsInv, MiddlewaresAsDeclared
  <1> QED  BY <1>1, GroupsInvariance, PTL

\* Nor do requests change that (group.go:146-147).
LEMMA SiteGroupsStep == GroupsInv /\ [Next]_vars => GroupsInv'
<1> SUFFICES ASSUME GroupsInv, [Next]_vars PROVE GroupsInv'
  OBVIOUS
<1>1. [GroupsNext]_gvars
  BY DEF Next, Register, Begin, RunMiddleware, EndMiddlewares, RunHandler,
         EndHandlers, vars, gvars
<1> QED
  BY <1>1, GroupsStepInv

\* So the middlewares a request runs are those its group was declared with.
THEOREM ServedAsDeclared == Spec => []MiddlewaresAsDeclared
<1>1. Init => GroupsInv
  BY GroupsInitInv DEF Init
<1>2. GroupsInv => MiddlewaresAsDeclared
  BY DEF GroupsInv, MiddlewaresAsDeclared
<1> QED
  BY <1>1, <1>2, SiteGroupsStep, PTL DEF Spec

-----------------------------------------------------------------------------
(* The answers *)

\* Who writes: what the i-th to run calls, or what it returns.
By == {<<>>} \cup (Nat \X {"call", "response"})

\* The strings, with those of the code: no prover knows that they are some.
Text == STRING \cup {"", "json", "msgpack", "plain", "text", "page", "file",
                     "cached", "bytes", "string"}

Part == [by : By, as : Text]

Ctx ==
  [status : Int, hijack : BOOLEAN, done : BOOLEAN, type : Text,
   sent : Int, sentType : Text, sentBy : By,
   body : Seq(Part), by : By, panicked : BOOLEAN,
   gz : BOOLEAN, wrote : BOOLEAN, get : BOOLEAN, codec : Text]

\* Nothing was sent.
Unsent(x) == x \in Ctx /\ x.sent = 0 /\ x.body = <<>> /\ ~x.panicked

\* gzipRW did not see a header either.
Open(x) == Unsent(x) /\ ~x.wrote

Clean(x) == Open(x) /\ x.type = "" /\ ~x.hijack /\ ~x.done

\* Who sent something: the status or a part of the body.
Senders(x) == {x.body[i].by : i \in 1 .. Len(x.body)}
                \cup (IF x.sent = 0 THEN {} ELSE {x.sentBy})

\* The deeds of which there may be several: see OneAnswer.
Both(h) == Calls(h) /\ Returns(h)
Loose(h) == Unmarked(h) \/ Both(h)

\* The answer that h asks for.
Granted(h) ==
  /\ Sent = Asked(h) \/ Masked(h)
  /\ Len(c.body) <= 1
  /\ \A p \in 1 .. Len(c.body) :
       c.body[p].as \in {"json", "msgpack"} => c.sentType \in {c.body[p].as, ""}

SiteTypes ==
  /\ phase \in {"setup", "middlewares", "handlers", "done"}
  /\ typed \in BOOLEAN /\ left \in Nat
  /\ typed => left <= 1
  /\ ran \in Seq(Deed \cup TypedDeed)
  /\ c \in Ctx /\ ~c.panicked /\ c.codec \in {"json", "msgpack"}
  /\ phase = "setup" => ran = <<>>

SiteInv ==
  /\ SiteTypes
  /\ (\A i \in DOMAIN ran : ~Answers(ran[i])) => Clean(c)
  /\ \A i \in DOMAIN ran : Sole(i) /\ ~Lost(ran[i]) => Granted(ran[i])
  /\ \/ \E i \in DOMAIN ran : Loose(ran[i])
     \/ Clean(c)
     \/ /\ \A s, t \in Senders(c) : s = t
        /\ c.done \/ (phase \in {"handlers", "done"} /\ left = 0)

LEMMA Texts == {"", "json", "msgpack", "plain", "text", "page", "file", "cached",
                "bytes", "string"} \cup Codec \subseteq Text
BY DEF Text, Codec

-----------------------------------------------------------------------------
(* The ResponseWriters *)

\* d is x after some writes.
Kept(d, x) == /\ d \in Ctx /\ d.by = x.by /\ d.gz = x.gz /\ d.get = x.get
              /\ d.codec = x.codec

\* The writes were not those of a handler's deed: they leave its flags alone.
Untouched(d, x) == /\ Kept(d, x) /\ d.done = x.done /\ d.hijack = x.hijack
                   /\ d.type = x.type

\* The header was written, and no body.
Started(d, code, type) ==
  /\ d.sent = code /\ d.sentType = type /\ d.sentBy = d.by /\ d.body = <<>>
  /\ ~d.panicked

\* An answer was written, with a body in that format, or none.
Over(d, code, type, format) ==
  /\ d.sent = code /\ d.sentType = type /\ d.sentBy = d.by /\ ~d.panicked
  /\ Len(d.body) <= 1
  /\ \A i \in 1 .. Len(d.body) : d.body[i] = [by |-> d.by, as |-> format]

LEMMA CommitOk ==
  ASSUME NEW x \in Ctx, NEW code \in Int
  PROVE  LET d == Commit(x, code) IN
         /\ Untouched(d, x) /\ d.body = x.body /\ d.wrote = x.wrote
         /\ d.status = x.status
         /\ x.sent = 0 /\ code >= 100 /\ ~x.panicked =>
              /\ d.sent = code /\ d.sentType = x.type /\ d.sentBy = x.by
         /\ x.sent # 0 => d = x
         /\ code >= 100 \/ x.sent # 0 => d.panicked = x.panicked
<1> DEFINE d == Commit(x, code)
<1>1. CASE x.sent # 0 \/ x.panicked
  <2>1. d = x
    BY <1>1 DEF Commit
  <2> QED
    BY <1>1, <2>1 DEF Untouched, Kept
<1>2. CASE x.sent = 0 /\ ~x.panicked /\ code < 100
  <2>1. d = [x EXCEPT !.panicked = TRUE]
    BY <1>2 DEF Commit
  <2>2. d \in Ctx
    BY <2>1 DEF Ctx
  <2>3. /\ d.by = x.by /\ d.gz = x.gz /\ d.get = x.get /\ d.codec = x.codec
        /\ d.done = x.done /\ d.hijack = x.hijack /\ d.type = x.type
        /\ d.body = x.body /\ d.wrote = x.wrote /\ d.status = x.status
    BY <2>1 DEF Ctx
  <2> QED
    BY <1>2, <2>2, <2>3 DEF Untouched, Kept
<1>3. CASE x.sent = 0 /\ ~x.panicked /\ code >= 100
  <2>1. d = [x EXCEPT !.sent = code, !.sentType = x.type, !.sentBy = x.by]
    BY <1>3 DEF Commit
  <2>2. d \in Ctx
    BY <2>1 DEF Ctx
  <2>3. /\ d.by = x.by /\ d.gz = x.gz /\ d.get = x.get /\ d.codec = x.codec
        /\ d.done = x.done /\ d.hijack = x.hijack /\ d.type = x.type
        /\ d.body = x.body /\ d.wrote = x.wrote /\ d.status = x.status
        /\ d.sent = code /\ d.sentType = x.type /\ d.sentBy = x.by
        /\ d.panicked = x.panicked
    BY <2>1 DEF Ctx
  <2> QED
    BY <1>3, <2>2, <2>3 DEF Untouched, Kept
<1> QED
  BY <1>1, <1>2, <1>3 DEF Ctx

LEMMA EnsureHeadersOk ==
  ASSUME NEW x \in Ctx, NEW code \in Int
  PROVE  LET d == ensureHeaders(x, code) IN
         /\ Untouched(d, x) /\ d.body = x.body /\ d.status = x.status
         /\ Open(x) /\ code >= 100 => Started(d, code, x.type)
         /\ x.sent # 0 =>
              /\ d.sent = x.sent /\ d.sentType = x.sentType
              /\ d.sentBy = x.sentBy
         /\ code >= 100 \/ x.sent # 0 => d.panicked = x.panicked
<1> DEFINE y == [x EXCEPT !.wrote = TRUE]
           d == ensureHeaders(x, code)
<1>1. /\ y \in Ctx /\ Untouched(y, x) /\ y.body = x.body /\ y.status = x.status
      /\ y.sent = x.sent /\ y.sentType = x.sentType /\ y.sentBy = x.sentBy
      /\ y.panicked = x.panicked /\ y.by = x.by /\ y.type = x.type
  BY DEF Ctx, Untouched, Kept
<1>2. d \in {Commit(x, code), x, Commit(y, code)}
  BY DEF ensureHeaders
<1>3. d = x => x.wrote \/ d = Commit(x, code) \/ d = Commit(y, code)
  BY DEF ensureHeaders
<1> HIDE DEF y
<1>4. CASE d = Commit(x, code)
  BY <1>4, CommitOk DEF Untouched, Kept, Open, Unsent, Started
<1>5. CASE d = Commit(y, code)
  <2>1. /\ Untouched(d, y) /\ d.body = y.body /\ d.status = y.status
        /\ y.sent = 0 /\ code >= 100 /\ ~y.panicked =>
             d.sent = code /\ d.sentType = y.type /\ d.sentBy = y.by
        /\ y.sent # 0 => d = y
        /\ code >= 100 \/ y.sent # 0 => d.panicked = y.panicked
    BY <1>1, <1>5, CommitOk
  <2> QED
    BY <1>1, <2>1 DEF Untouched, Kept, Open, Unsent, Started
<1>6. CASE d = x /\ x.wrote
  BY <1>6 DEF Untouched, Kept, Open, Unsent
<1> QED
  BY <1>2, <1>3, <1>4, <1>5, <1>6

LEMMA PutOk ==
  ASSUME NEW x \in Ctx, NEW f \in Text
  PROVE  LET d == Put(x, f) IN
         /\ Untouched(d, x) /\ d.panicked = x.panicked
         /\ Unsent(x) => Over(d, 200, x.type, f)
         /\ \A code, type : code # 0 /\ Started(x, code, type) =>
                              Over(d, code, type, f)
<1> DEFINE y == ensureHeaders(x, 200)
           z == Commit(y, 200)
           d == Put(x, f)
           part == [by |-> x.by, as |-> f]
<1>1. /\ Untouched(y, x) /\ y.body = x.body /\ y.panicked = x.panicked
      /\ Open(x) => Started(y, 200, x.type)
      /\ x.sent # 0 => /\ y.sent = x.sent /\ y.sentType = x.sentType
                       /\ y.sentBy = x.sentBy
  BY EnsureHeadersOk
<1>2. y \in Ctx
  BY <1>1 DEF Untouched, Kept
<1>3. /\ Untouched(z, y) /\ z.body = y.body /\ z.panicked = y.panicked
      /\ y.sent # 0 => z = y
      /\ y.sent = 0 /\ ~y.panicked =>
           z.sent = 200 /\ z.sentType = y.type /\ z.sentBy = y.by
  BY <1>2, CommitOk
<1>4. z \in Ctx /\ Untouched(z, x) /\ z.body = x.body /\ z.panicked = x.panicked
      /\ z.by = x.by
  BY <1>1, <1>3 DEF Untouched, Kept
<1>5. part \in Part /\ x.by = z.by
  BY <1>4 DEF Part, Ctx
<1>6. z.body \in Seq(Part)
  BY <1>4 DEF Ctx
<1>7. d = IF z.panicked \/ z.sent \in {204, 304} THEN z
          ELSE [z EXCEPT !.body = Append(z.body, part)]
  BY <1>5 DEF Put
<1> DEFINE b == Append(z.body, part)
<1>8. b \in Seq(Part) /\ (z.body = <<>> => Len(b) = 1 /\ b[1] = part)
  BY <1>5, <1>6, AppendProperties
<1> HIDE DEF y, z, d, part, b
<1>9. \/ d = z
      \/ /\ d \in Ctx /\ d.body = b /\ Untouched(d, z) /\ d.panicked = z.panicked
         /\ d.sent = z.sent /\ d.sentType = z.sentType /\ d.sentBy = z.sentBy
  <2> SUFFICES ASSUME d # z
               PROVE  /\ d \in Ctx /\ d.body = b /\ Untouched(d, z)
                      /\ d.panicked = z.panicked /\ d.sent = z.sent
                      /\ d.sentType = z.sentType /\ d.sentBy = z.sentBy
    OBVIOUS
  <2>1. d = [z EXCEPT !.body = b]
    BY <1>7 DEF b
  <2>2. d \in Ctx
    BY <1>4, <1>8, <2>1 DEF Ctx
  <2> QED
    BY <1>4, <2>1, <2>2 DEF Untouched, Kept, Ctx
<1>10. Untouched(d, x) /\ d.panicked = x.panicked /\ d.by = x.by
  BY <1>4, <1>9 DEF Untouched, Kept
<1>11. ASSUME NEW code, NEW type, code # 0, Started(z, code, type), x.body = <<>>
       PROVE  Over(d, code, type, f)
  <2>1. /\ d.sent = code /\ d.sentType = type /\ d.sentBy = d.by /\ ~d.panicked
        /\ d.body \in {<<>>, b}
    BY <1>4, <1>9, <1>10, <1>11 DEF Started
  <2>2. b[1] = [by |-> d.by, as |-> f] /\ Len(b) = 1
    BY <1>4, <1>8, <1>10, <1>11 DEF part
  <2>3. Len(d.body) \in {0, 1} /\ (Len(d.body) = 1 => d.body = b)
    BY <2>1, <2>2
  <2>4. ASSUME NEW i \in 1 .. Len(d.body) PROVE d.body = b /\ i = 1
    <3>1. CASE Len(d.body) = 0
      BY <3>1, <2>4
    <3>2. CASE Len(d.body) = 1
      BY <3>2, <2>3, <2>4
    <3> QED
      BY <2>3, <3>1, <3>2
  <2> QED
    BY <2>1, <2>2, <2>3, <2>4 DEF Over
<1>12. Unsent(x) => Over(d, 200, x.type, f)
  <2> SUFFICES ASSUME Unsent(x) PROVE Over(d, 200, x.type, f)
    OBVIOUS
  <2>1. x.body = <<>> /\ ~y.panicked /\ y.body = <<>>
    BY <1>1 DEF Unsent
  <2>2. y.sent = 0 \/ Started(y, 200, x.type)
    <3>1. CASE ~x.wrote
      BY <1>1, <3>1 DEF Open
    <3>2. CASE x.wrote /\ x.gz
      BY <3>2 DEF y, ensureHeaders, Unsent
    <3>3. CASE ~x.gz
      <4>1. y = Commit(x, 200)
        BY <3>3 DEF y, ensureHeaders
      <4>2. y.sent = 200 /\ y.sentType = x.type /\ y.sentBy = x.by
        BY <4>1, CommitOk DEF Unsent
      <4>3. y.by = x.by
        BY <1>1 DEF Untouched, Kept
      <4> QED
        BY <2>1, <4>2, <4>3 DEF Started
    <3> QED
      BY <3>1, <3>2, <3>3 DEF Ctx
  <2>3. CASE y.sent = 0
    <3>1. y.by = x.by /\ y.type = x.type
      BY <1>1 DEF Untouched, Kept
    <3>2. /\ z.sent = 200 /\ z.sentType = x.type /\ z.sentBy = z.by
          /\ z.body = <<>> /\ ~z.panicked
      BY <1>3, <1>4, <2>1, <2>3, <3>1
    <3>3. Started(z, 200, x.type)
      BY <3>2 DEF Started
    <3> QED
      BY <1>11, <2>1, <3>3
  <2>4. CASE Started(y, 200, x.type)
    BY <1>3, <1>11, <2>1, <2>4 DEF Started
  <2> QED
    BY <2>2, <2>3, <2>4
<1>13. ASSUME NEW code, NEW type, code # 0, Started(x, code, type)
       PROVE  Over(d, code, type, f)
  <2>1. Started(y, code, type) /\ z = y /\ x.body = <<>>
    BY <1>1, <1>3, <1>13 DEF Started, Untouched, Kept
  <2> QED
    BY <1>11, <1>13, <2>1
<1> QED
  BY <1>10, <1>12, <1>13 DEF d

-----------------------------------------------------------------------------
(* Context *)

LEMMA SetContentTypeOk ==
  ASSUME NEW x \in Ctx, NEW t \in Text
  PROVE  LET d == SetContentType(x, t) IN
         /\ Kept(d, x) /\ d.type = (IF t = "" THEN x.type ELSE t)
         /\ d.done = x.done /\ d.hijack = x.hijack /\ d.status = x.status
         /\ d.sent = x.sent /\ d.panicked = x.panicked
         /\ (Unsent(x) => Unsent(d)) /\ (Open(x) => Open(d))
<1> DEFINE d == SetContentType(x, t)
<1>1. CASE t = ""
  BY <1>1 DEF SetContentType, Kept
<1>2. CASE t # ""
  <2>1. d = [x EXCEPT !.type = t]
    BY <1>2 DEF SetContentType
  <2>2. d \in Ctx
    BY <2>1 DEF Ctx
  <2>3. /\ d.by = x.by /\ d.gz = x.gz /\ d.get = x.get /\ d.codec = x.codec
        /\ d.type = t /\ d.done = x.done /\ d.hijack = x.hijack
        /\ d.status = x.status /\ d.sent = x.sent /\ d.body = x.body
        /\ d.wrote = x.wrote /\ d.panicked = x.panicked
    BY <2>1 DEF Ctx
  <2> QED
    BY <1>2, <2>2, <2>3 DEF Kept, Open, Unsent
<1> QED
  BY <1>1, <1>2

\* An error's header is held back while a file is served.
Held(x, code) == x.hijack /\ code >= 400

LEMMA WriteHeaderOk ==
  ASSUME NEW x \in Ctx, NEW code \in Int
  PROVE  LET d == WriteHeader(x, code) IN
         /\ Untouched(d, x) /\ d.status = code
         /\ Open(x) /\ code >= 100 /\ ~Held(x, code) => Started(d, code, x.type)
         /\ Open(x) /\ Held(x, code) => Open(d)
         /\ Unsent(x) /\ x.gz /\ x.wrote => Unsent(d)
         /\ code >= 100 \/ x.sent # 0 => d.panicked = x.panicked
<1> DEFINE y == [x EXCEPT !.status = code]
           d == WriteHeader(x, code)
<1>1. y \in Ctx
  BY DEF Ctx
<1>2. /\ y.by = x.by /\ y.gz = x.gz /\ y.get = x.get /\ y.codec = x.codec
      /\ y.type = x.type /\ y.done = x.done /\ y.hijack = x.hijack
      /\ y.status = code /\ y.sent = x.sent /\ y.body = x.body
      /\ y.wrote = x.wrote /\ y.panicked = x.panicked
  BY DEF Ctx
<1>3. d = IF Held(x, code) THEN y ELSE ensureHeaders(y, code)
  BY DEF WriteHeader, Held
<1> HIDE DEF y
<1>4. CASE Held(x, code)
  <2>1. d = y
    BY <1>3, <1>4
  <2> QED
    BY <1>1, <1>2, <1>4, <2>1 DEF Untouched, Kept, Open, Unsent
<1>5. CASE ~Held(x, code)
  <2>1. d = ensureHeaders(y, code)
    BY <1>3, <1>5
  <2>2. /\ Untouched(d, y) /\ d.status = y.status
        /\ Open(y) /\ code >= 100 => Started(d, code, y.type)
        /\ code >= 100 \/ y.sent # 0 => d.panicked = y.panicked
    BY <1>1, <2>1, EnsureHeadersOk
  <2>3. Open(x) => Open(y)
    BY <1>1, <1>2 DEF Open, Unsent
  <2>4. Unsent(x) /\ x.gz /\ x.wrote => Unsent(d)
    BY <1>1, <1>2, <2>1 DEF Unsent, ensureHeaders
  <2> QED
    BY <1>2, <1>5, <2>2, <2>3, <2>4 DEF Untouched, Kept
<1> QED
  BY <1>4, <1>5

LEMMA WriteOutOk ==
  ASSUME NEW x \in Ctx, NEW f \in Text
  PROVE  LET d == WriteOut(x, f) IN
         /\ Kept(d, x) /\ d.done /\ d.panicked = x.panicked
         /\ Unsent(x) => Over(d, 200, x.type, f)
         /\ \A code, type : code # 0 /\ Started(x, code, type) =>
                              Over(d, code, type, f)
<1> DEFINE y == [x EXCEPT !.done = TRUE]
           d == WriteOut(x, f)
<1>1. y \in Ctx
  BY DEF Ctx
<1>2. /\ y.by = x.by /\ y.gz = x.gz /\ y.get = x.get /\ y.codec = x.codec
      /\ y.type = x.type /\ y.done /\ y.sent = x.sent /\ y.body = x.body
      /\ y.wrote = x.wrote /\ y.panicked = x.panicked
      /\ y.sentType = x.sentType /\ y.sentBy = x.sentBy
  BY DEF Ctx
<1>3. d = Put(y, f)
  BY DEF WriteOut
<1> HIDE DEF y, d
<1>4. /\ Untouched(d, y) /\ d.panicked = y.panicked
      /\ Unsent(y) => Over(d, 200, y.type, f)
      /\ \A code, type : code # 0 /\ Started(y, code, type) =>
                           Over(d, code, type, f)
  BY <1>1, <1>3, PutOk
<1>5. (Unsent(x) => Unsent(y)) /\ \A code, type : Started(x, code, type) =>
                                              Started(y, code, type)
  BY <1>1, <1>2 DEF Unsent, Started
<1>6. Kept(d, x) /\ d.done /\ d.panicked = x.panicked
  BY <1>2, <1>4 DEF Untouched, Kept
<1> QED
  BY <1>2, <1>4, <1>5, <1>6 DEF d

\* The page of an error is replaced.
LEMMA WriteOk ==
  ASSUME NEW x \in Ctx, NEW f \in Text
  PROVE  LET d == Write(x, f) IN
         /\ Kept(d, x) /\ d.done /\ d.panicked = x.panicked
         /\ Held(x, x.status) /\ Open(x) => Over(d, x.status, "json", "json")
         /\ ~Held(x, x.status) /\ Unsent(x) => Over(d, 200, x.type, f)
         /\ \A code, type :
              ~Held(x, x.status) /\ code # 0 /\ Started(x, code, type) =>
                Over(d, code, type, f)
<1> DEFINE d == Write(x, f)
           y == [x EXCEPT !.hijack = FALSE]
           z == SetContentType(y, "json")
           h == WriteHeader(z, z.status)
<1>1. CASE ~Held(x, x.status)
  <2>1. d = WriteOut(x, f)
    BY <1>1 DEF Write, Held
  <2> QED
    BY <1>1, <2>1, WriteOutOk
<1>2. CASE Held(x, x.status)
  <2>1. d = WriteOut(h, "json")
    BY <1>2 DEF Write, Held
  <2>2. y \in Ctx
    BY DEF Ctx
  <2>10. "json" \in Text
    BY Texts
  <2>3. /\ y.by = x.by /\ y.gz = x.gz /\ y.get = x.get /\ y.codec = x.codec
        /\ ~y.hijack /\ y.status = x.status /\ y.sent = x.sent
        /\ y.body = x.body /\ y.wrote = x.wrote /\ y.panicked = x.panicked
    BY DEF Ctx
  <2> HIDE DEF y
  <2>4. /\ Kept(z, y) /\ z.type = "json" /\ ~z.hijack /\ z.status = y.status
        /\ z.panicked = y.panicked /\ (Open(y) => Open(z))
    BY <2>2, <2>3, <2>10, SetContentTypeOk
  <2>5. z \in Ctx /\ z.status \in Int /\ z.status >= 400
    BY <1>2, <2>3, <2>4 DEF Kept, Ctx, Held
  <2> HIDE DEF z
  <2>6. /\ Untouched(h, z) /\ h.panicked = z.panicked
        /\ Open(z) => Started(h, z.status, z.type)
    BY <2>4, <2>5, WriteHeaderOk DEF Held
  <2>7. h \in Ctx
    BY <2>6 DEF Untouched, Kept
  <2> HIDE DEF h
  <2> DEFINE e == WriteOut(h, "json")
  <2>80. /\ Kept(e, h) /\ e.done /\ e.panicked = h.panicked
         /\ \A code, type : code # 0 /\ Started(h, code, type) =>
                              Over(e, code, type, "json")
    BY <2>7, <2>10, WriteOutOk
  <2>8. /\ Kept(d, h) /\ d.done /\ d.panicked = h.panicked
        /\ \A code, type : code # 0 /\ Started(h, code, type) =>
                             Over(d, code, type, "json")
    BY <2>1, <2>80
  <2>9. Open(x) => Over(d, x.status, "json", "json")
    <3>1. Open(x) => Open(y)
      BY <2>2, <2>3 DEF Open, Unsent
    <3> QED
      BY <2>3, <2>4, <2>5, <2>6, <2>8, <3>1
  <2> QED
    BY <1>2, <2>3, <2>4, <2>6, <2>8, <2>9 DEF Untouched, Kept
<1> QED
  BY <1>1, <1>2

-----------------------------------------------------------------------------
(* Answers *)

\* A body that says it is JSON or msgpack is that, or has no content type.
Fits(format, type) == format \in {"json", "msgpack"} => type \in {format, ""}

\* What the one who writes sent: this status, at most one part of a body.
Replied(d, code) ==
  /\ ~d.panicked
  /\ code = IF d.sent = 0 THEN 200 ELSE d.sent
  /\ d.sent # 0 => d.sentBy = d.by
  /\ Len(d.body) <= 1
  /\ \A i \in 1 .. Len(d.body) :
       d.body[i].by = d.by /\ Fits(d.body[i].as, d.sentType)

LEMMA UnsentReplied ==
  ASSUME NEW d, Unsent(d)
  PROVE  Replied(d, 200)
BY DEF Unsent, Replied

LEMMA StartedReplied ==
  ASSUME NEW d, NEW code, NEW type, Started(d, code, type), code # 0
  PROVE  Replied(d, code)
BY DEF Started, Replied

LEMMA OverReplied ==
  ASSUME NEW d, NEW code, NEW type, NEW f, Over(d, code, type, f), code # 0,
         Fits(f, type)
  PROVE  Replied(d, code)
BY DEF Over, Replied

\* What is encoded goes with the content type, if that was set at all.
LEMMA EncodeOk ==
  ASSUME NEW x \in Ctx, NEW codec \in Codec, NEW value \in Value
  PROVE  LET d == Encode(x, codec, value) IN
         /\ Kept(d, x) /\ d.panicked = x.panicked
         /\ x.done \/ (codec # "plain" /\ Writes(codec, value)) => d.done
         /\ ~x.hijack /\ Fits(codec, x.type) /\ Unsent(x) => Replied(d, 200)
         /\ \A code, type : /\ ~x.hijack /\ Fits(codec, type)
                            /\ code # 0 /\ Started(x, code, type)
                            => Replied(d, code)
<1> DEFINE d == Encode(x, codec, value)
<1>1. ~x.hijack => ~Held(x, x.status)
  BY DEF Held
<1>2. codec \in Text /\ "plain" \in Text
  BY Texts
<1>3. CASE Writes(codec, value) /\ codec # "plain"
  <2>1. d = Write(x, codec)
    BY <1>3 DEF Encode
  <2>2. Fits(codec, x.type) /\ Over(d, 200, x.type, codec) => Replied(d, 200)
    BY OverReplied
  <2>3. \A code, type : /\ Fits(codec, type) /\ code # 0
                       /\ Over(d, code, type, codec) => Replied(d, code)
    BY OverReplied
  <2>4. /\ Kept(d, x) /\ d.done /\ d.panicked = x.panicked
        /\ ~Held(x, x.status) /\ Unsent(x) => Over(d, 200, x.type, codec)
        /\ \A code, type :
             ~Held(x, x.status) /\ code # 0 /\ Started(x, code, type) =>
               Over(d, code, type, codec)
    BY <1>2, <2>1, WriteOk
  <2> QED
    BY <1>1, <2>2, <2>3, <2>4
<1>4. CASE Writes(codec, value) /\ codec = "plain"
  <2>1. d \in {Put(x, "plain"), Write(x, "plain")}
    BY <1>4 DEF Encode, WriteString
  <2>2. /\ Kept(d, x) /\ (x.done => d.done) /\ d.panicked = x.panicked
        /\ ~x.hijack /\ Unsent(x) => Over(d, 200, x.type, "plain")
        /\ \A code, type : ~x.hijack /\ code # 0 /\ Started(x, code, type) =>
                             Over(d, code, type, "plain")
    <3>1. CASE d = Put(x, "plain")
      BY <1>2, <3>1, PutOk DEF Untouched
    <3>2. CASE d = Write(x, "plain")
      BY <1>1, <1>2, <3>2, WriteOk
    <3> QED
      BY <2>1, <3>1, <3>2
  <2>3. Over(d, 200, x.type, "plain") => Replied(d, 200)
    <3>1. Fits("plain", x.type)
      BY DEF Fits
    <3> HIDE DEF d
    <3> QED
      BY <3>1, OverReplied
  <2>4. \A code, type : code # 0 /\ Over(d, code, type, "plain") =>
                         Replied(d, code)
    BY OverReplied DEF Fits
  <2> QED
    BY <1>4, <2>2, <2>3, <2>4
<1>5. CASE ~Writes(codec, value)
  <2>1. d = x
    BY <1>5 DEF Encode
  <2> QED
    BY <1>5, <2>1, UnsentReplied, StartedReplied DEF Kept
<1> QED
  BY <1>3, <1>4, <1>5

LEMMA CodecTexts == \A codec \in Codec : ContentType(codec) \in Text
BY Texts DEF Codec, ContentType

LEMMA CodecFits ==
  ASSUME NEW codec \in Codec, NEW type,
         ContentType(codec) = "" \/ type = ContentType(codec)
  PROVE  Fits(codec, type)
BY DEF Codec, ContentType, Fits

\* The status is the one given, and the Context is done.
LEMMA EncodeCodecOk ==
  ASSUME NEW x \in Ctx, NEW codec \in Codec, NEW code \in Code,
         NEW value \in Value
  PROVE  LET d == EncodeCodec(x, codec, code, value) IN
         /\ Kept(d, x) /\ d.done /\ d.panicked = x.panicked
         /\ ~x.hijack /\ Open(x) => Replied(d, OrOK(code))
         /\ ~x.hijack /\ Unsent(x) /\ x.gz /\ x.wrote => Replied(d, 200)
<1> DEFINE y == [x EXCEPT !.done = TRUE]
           z == SetContentType(y, ContentType(codec))
           w == IF code > 0 THEN WriteHeader(z, code) ELSE z
           d == EncodeCodec(x, codec, code, value)
<1>1. y \in Ctx
  BY DEF Ctx
<1>2. /\ y.by = x.by /\ y.gz = x.gz /\ y.get = x.get /\ y.codec = x.codec
      /\ y.done /\ y.hijack = x.hijack /\ y.sent = x.sent /\ y.body = x.body
      /\ y.wrote = x.wrote /\ y.panicked = x.panicked
  BY DEF Ctx
<1>3. d = Encode(w, codec, value)
  BY DEF EncodeCodec
<1>4. code \in Int /\ (code > 0 => code >= 100) /\ code >= 0
  BY DEF Code
<1> HIDE DEF y
<1>5. /\ Kept(z, y) /\ z.done /\ z.hijack = y.hijack /\ z.panicked = y.panicked
      /\ (Unsent(y) => Unsent(z)) /\ (Open(y) => Open(z))
      /\ ContentType(codec) = "" \/ z.type = ContentType(codec)
  BY <1>1, <1>2, CodecTexts, SetContentTypeOk
<1>6. (Unsent(x) => Unsent(z)) /\ (Open(x) => Open(z)) /\ z \in Ctx
  BY <1>1, <1>2, <1>5 DEF Unsent, Open, Kept
<1>7. Fits(codec, z.type) /\ z.hijack = x.hijack /\ z.done /\ Kept(z, x)
      /\ z.panicked = x.panicked
  BY <1>2, <1>5, CodecFits DEF Kept
<1>8. Unsent(x) /\ x.gz /\ x.wrote => z.wrote /\ z.gz
  BY <1>1, <1>2 DEF z, SetContentType, Ctx
<1> HIDE DEF z
<1>9. CASE code > 0
  <2>1. w = WriteHeader(z, code)
    BY <1>9
  <2>2. /\ Untouched(w, z) /\ w.panicked = z.panicked
        /\ Open(z) /\ ~Held(z, code) => Started(w, code, z.type)
        /\ Unsent(z) /\ z.gz /\ z.wrote => Unsent(w)
    BY <1>4, <1>6, <1>9, <2>1, WriteHeaderOk
  <2>3. w \in Ctx /\ w.hijack = z.hijack /\ w.done /\ w.type = z.type
    BY <1>7, <2>2 DEF Untouched, Kept
  <2> HIDE DEF w
  <2>4. /\ Kept(d, w) /\ d.panicked = w.panicked /\ d.done
        /\ ~w.hijack /\ Unsent(w) => Replied(d, 200)
        /\ ~w.hijack /\ Started(w, code, z.type) => Replied(d, code)
    BY <1>3, <1>7, <1>9, <2>3, EncodeOk
  <2>5. Kept(d, x) /\ d.panicked = x.panicked
    BY <1>7, <2>2, <2>4 DEF Untouched, Kept
  <2> QED
    BY <1>6, <1>7, <1>8, <1>9, <2>2, <2>3, <2>4, <2>5 DEF OrOK, Held
<1>10. CASE code = 0
  <2>1. d = Encode(z, codec, value)
    BY <1>3, <1>10
  <2>2. /\ Kept(d, z) /\ d.panicked = z.panicked /\ d.done
        /\ ~z.hijack /\ Unsent(z) => Replied(d, 200)
    BY <1>6, <1>7, <2>1, EncodeOk
  <2>3. Kept(d, x) /\ d.panicked = x.panicked
    BY <1>7, <2>2 DEF Kept
  <2> QED
    BY <1>6, <1>7, <1>10, <2>2, <2>3 DEF OrOK, Open
<1> QED
  BY <1>4, <1>9, <1>10

LEMMA PrintfOk ==
  ASSUME NEW x \in Ctx, NEW code \in Code
  PROVE  LET d == Printf(x, code) IN
         /\ Kept(d, x) /\ d.done /\ d.panicked = x.panicked
         /\ ~x.hijack /\ Open(x) => Replied(d, OrOK(code))
<1> DEFINE y == [x EXCEPT !.done = TRUE]
           z == SetContentType(y, "text")
           w == IF code > 0 THEN WriteHeader(z, code) ELSE z
           d == Printf(x, code)
<1>1. y \in Ctx
  BY DEF Ctx
<1>2. /\ y.by = x.by /\ y.gz = x.gz /\ y.get = x.get /\ y.codec = x.codec
      /\ y.hijack = x.hijack /\ y.sent = x.sent /\ y.body = x.body
      /\ y.wrote = x.wrote /\ y.panicked = x.panicked
  BY DEF Ctx
<1>3. d = Write(w, "text")
  BY DEF Printf
<1>4. /\ code \in Int /\ (code > 0 => code >= 100) /\ code >= 0
      /\ "text" \in Text
  <2>1. code \in Int /\ (code > 0 => code >= 100) /\ code >= 0
    BY DEF Code
  <2> QED
    BY <2>1, Texts
<1> HIDE DEF y
<1>5. /\ Kept(z, y) /\ z.hijack = y.hijack /\ z.panicked = y.panicked
      /\ Open(y) => Open(z)
  BY <1>1, <1>2, <1>4, SetContentTypeOk
<1>6. (Open(x) => Open(z)) /\ Kept(z, x) /\ z \in Ctx /\ z.hijack = x.hijack
      /\ z.panicked = x.panicked
  BY <1>1, <1>2, <1>5 DEF Unsent, Open, Kept
<1> HIDE DEF z
<1>7. /\ Kept(w, z) /\ w.hijack = z.hijack /\ w.panicked = z.panicked
      /\ Open(z) /\ ~z.hijack =>
           IF code > 0 THEN Started(w, code, z.type) ELSE Unsent(w)
  BY <1>4, <1>6, WriteHeaderOk DEF Untouched, Kept, Held, Open
<1>8. w \in Ctx /\ (~w.hijack => ~Held(w, w.status))
  BY <1>7 DEF Kept, Held
<1> HIDE DEF w
<1>9. /\ Kept(d, w) /\ d.done /\ d.panicked = w.panicked
      /\ ~w.hijack /\ Unsent(w) => Over(d, 200, w.type, "text")
      /\ ~w.hijack /\ code # 0 /\ Started(w, code, z.type) =>
           Over(d, code, z.type, "text")
  BY <1>3, <1>4, <1>8, WriteOk
<1>10. Kept(d, x) /\ d.panicked = x.panicked
  BY <1>6, <1>7, <1>9 DEF Kept
<1>11. \A k, type : k # 0 /\ Over(d, k, type, "text") => Replied(d, k)
  BY OverReplied DEF Fits
<1> QED
  BY <1>4, <1>6, <1>7, <1>9, <1>10, <1>11 DEF OrOK

\* http.ServeFile writes a status, and a body unless there is nothing to show.
LEMMA FileOk ==
  ASSUME NEW x \in Ctx, NEW file \in FileResult
  PROVE  LET d == File(x, file) IN
         /\ Kept(d, x) /\ d.panicked = x.panicked
         /\ file \in {"served", "missing"} => d.done
         /\ Open(x) /\ file # "precondition" => Replied(d, FileStatus[file])
<1> DEFINE y == [x EXCEPT !.hijack = TRUE]
           withType(t) == [y EXCEPT !.type = t]
           d == File(x, file)
<1>1. /\ y \in Ctx /\ Kept(y, x) /\ y.hijack /\ y.panicked = x.panicked
      /\ Open(x) => Open(y)
  BY DEF Ctx, Kept, Open, Unsent
<1>2. ASSUME NEW t \in Text
      PROVE  /\ withType(t) \in Ctx /\ Kept(withType(t), x) /\ withType(t).hijack
             /\ withType(t).panicked = x.panicked
             /\ Open(x) => Open(withType(t))
  BY <1>1 DEF Ctx, Kept, Open, Unsent
<1>3. ASSUME NEW z \in Ctx, Kept(z, x), z.hijack, z.panicked = x.panicked,
             Open(x) => Open(z), NEW code \in Int, code >= 100
      PROVE  LET w == WriteHeader(z, code) IN
             /\ w \in Ctx /\ Kept(w, x) /\ w.hijack /\ w.panicked = x.panicked
             /\ w.status = code
             /\ Open(x) /\ code < 400 => Started(w, code, z.type)
             /\ Open(x) /\ code >= 400 => Open(w)
  BY <1>3, WriteHeaderOk DEF Untouched, Kept, Held
<1>4. CASE file = "served"
  <2> DEFINE t == IF y.type = "" THEN "file" ELSE y.type
             w == WriteHeader(withType(t), 200)
  <2>1. d = Write(w, "file")
    BY <1>4 DEF File
  <2>2. t \in Text /\ "file" \in Text
    BY <1>1, Texts DEF Ctx
  <2> HIDE DEF t
  <2>3. /\ withType(t) \in Ctx /\ Kept(withType(t), x) /\ withType(t).hijack
        /\ withType(t).panicked = x.panicked
        /\ Open(x) => Open(withType(t))
    BY <1>2, <2>2
  <2> HIDE DEF withType
  <2>4. /\ w \in Ctx /\ Kept(w, x) /\ w.panicked = x.panicked /\ w.status = 200
        /\ Open(x) => Started(w, 200, withType(t).type)
    BY <1>3, <2>3
  <2> HIDE DEF w, d
  <2>5. /\ Kept(d, w) /\ d.done /\ d.panicked = w.panicked
        /\ Open(x) => Over(d, 200, withType(t).type, "file")
    BY <2>1, <2>2, <2>4, WriteOk DEF Held
  <2>6. Fits("file", withType(t).type)
    BY DEF Fits
  <2>7. Open(x) => Replied(d, 200)
    BY <2>5, <2>6, OverReplied
  <2>8. Kept(d, x) /\ d.panicked = x.panicked /\ d.done
    BY <2>4, <2>5 DEF Kept
  <2> QED
    BY <1>4, <2>7, <2>8 DEF d, FileStatus
<1>5. CASE file = "unmodified"
  <2> DEFINE w == WriteHeader(withType(""), 304)
  <2>1. d = w
    BY <1>5 DEF File
  <2>2. /\ withType("") \in Ctx /\ Kept(withType(""), x) /\ withType("").hijack
        /\ withType("").panicked = x.panicked
        /\ Open(x) => Open(withType(""))
    BY <1>2, Texts
  <2> DEFINE z == withType("")
  <2> HIDE DEF withType, z
  <2>3. /\ Kept(w, x) /\ w.panicked = x.panicked
        /\ Open(x) => Started(w, 304, z.type)
    <3>1. /\ z \in Ctx /\ Kept(z, x) /\ z.hijack /\ z.panicked = x.panicked
          /\ w = WriteHeader(z, 304)
      BY <2>2 DEF z
    <3>2. Open(x) => Open(z)
      BY <2>2 DEF z
    <3> HIDE DEF w
    <3> QED
      BY <1>3, <3>1, <3>2
  <2> HIDE DEF w
  <2>4. Open(x) => Replied(w, 304)
    BY <2>3, StartedReplied
  <2> QED
    BY <1>5, <2>1, <2>3, <2>4 DEF FileStatus
<1>6. CASE file = "moved"
  <2> DEFINE w == WriteHeader(y, 301)
  <2>1. d = w
    BY <1>6 DEF File
  <2> HIDE DEF y
  <2>2. /\ Kept(w, x) /\ w.panicked = x.panicked
        /\ Open(x) => Started(w, 301, y.type)
    BY <1>1, <1>3
  <2>3. Open(x) => Replied(w, 301)
    BY <2>2, StartedReplied
  <2> QED
    BY <1>6, <2>1, <2>2, <2>3 DEF FileStatus
<1>7. CASE file = "precondition"
  <2>1. d = WriteHeader(y, 412)
    BY <1>7 DEF File
  <2> HIDE DEF y, d
  <2>2. Kept(d, x) /\ d.panicked = x.panicked
    <3>1. y \in Ctx /\ Kept(y, x) /\ y.hijack /\ y.panicked = x.panicked
      BY <1>1
    <3>2. Open(x) => Open(y)
      BY <1>1
    <3> QED
      BY <1>3, <2>1, <3>1, <3>2
  <2> QED
    BY <1>7, <2>2 DEF d
<1>8. CASE file = "missing"
  <2> DEFINE w == WriteHeader(withType("text"), 404)
  <2>1. d = Write(w, "text")
    BY <1>8 DEF File
  <2>2. "text" \in Text
    BY Texts
  <2>3. /\ withType("text") \in Ctx
        /\ Kept(withType("text"), x)
        /\ withType("text").hijack
        /\ withType("text").panicked = x.panicked
        /\ Open(x) => Open(withType("text"))
    BY <1>2, <2>2
  <2> HIDE DEF withType
  <2>4. /\ w \in Ctx /\ Kept(w, x) /\ w.panicked = x.panicked /\ w.status = 404
        /\ w.hijack /\ (Open(x) => Open(w))
    BY <1>3, <2>3
  <2> HIDE DEF w, d
  <2>5. /\ Kept(d, w) /\ d.done /\ d.panicked = w.panicked
        /\ Open(x) => Over(d, 404, "json", "json")
    BY <2>1, <2>2, <2>4, WriteOk DEF Held
  <2>6. Fits("json", "json")
    BY DEF Fits
  <2>7. Open(x) => Replied(d, 404)
    BY <2>5, <2>6, OverReplied
  <2>8. Kept(d, x) /\ d.panicked = x.panicked /\ d.done
    BY <2>4, <2>5 DEF Kept
  <2> QED
    BY <1>8, <2>7, <2>8 DEF d, FileStatus
<1> QED
  BY <1>4, <1>5, <1>6, <1>7, <1>8 DEF FileResult

-----------------------------------------------------------------------------
(* Responses *)

GenResponse ==
  [kind : {"gen"}, codec : Codec, code : Code, error : BOOLEAN,
   value : {"struct"} \cup Failing]
CachedResponse   == [kind : {"cached"}, type : STRING, code : Code]
RedirectResponse == [kind : {"redirect"}, url : BOOLEAN]
FileResponse     == [kind : {"file"}, type : STRING, file : FileResult]

LEMMA WriteGenOk ==
  ASSUME NEW x \in Ctx, NEW r \in GenResponse
  PROVE  LET d == WriteGen(x, r) IN
         /\ Kept(d, x) /\ d.panicked = x.panicked
         /\ r.code # 204 /\ Writes(r.codec, r.value) => d.done
         /\ Open(x) /\ ~x.hijack => Replied(d, Status(r))
<1> DEFINE z == SetContentType(x, ContentType(r.codec))
           w == WriteHeader(z, Status(r))
           d == WriteGen(x, r)
<1>0. r.codec \in Codec
  BY DEF GenResponse
<1>1. /\ r.codec \in Codec /\ r.code \in Code /\ Status(r) \in Int
      /\ Status(r) >= 100 /\ (r.code = 204 => Status(r) = 204)
  BY DEF GenResponse, Code, Status
<1>2. CASE r.code = 204
  <2>1. d = WriteHeader(x, 204)
    BY <1>2 DEF WriteGen
  <2>2. /\ Untouched(d, x) /\ d.panicked = x.panicked
        /\ Open(x) /\ ~x.hijack => Started(d, 204, x.type)
    BY <2>1, WriteHeaderOk DEF Held
  <2> HIDE DEF d
  <2>3. Started(d, 204, x.type) => Replied(d, 204)
    BY StartedReplied
  <2> QED
    BY <1>1, <1>2, <2>2, <2>3 DEF d, Untouched
<1>3. CASE r.code # 204
  <2>1. d = Encode(w, r.codec, r.value)
    BY <1>3 DEF WriteGen
  <2>2. /\ Kept(z, x) /\ z.hijack = x.hijack /\ z.panicked = x.panicked
        /\ (Open(x) => Open(z)) /\ Fits(r.codec, z.type)
    <3>1. ContentType(r.codec) \in Text
      BY <1>0, CodecTexts
    <3>2. /\ Kept(z, x) /\ z.hijack = x.hijack /\ z.panicked = x.panicked
          /\ (Open(x) => Open(z))
          /\ ContentType(r.codec) = "" \/ z.type = ContentType(r.codec)
      BY <3>1, SetContentTypeOk
    <3> HIDE DEF z
    <3>3. Fits(r.codec, z.type)
      BY <1>0, <3>2, CodecFits
    <3> QED
      BY <3>2, <3>3
  <2>3. z \in Ctx
    BY <2>2 DEF Kept
  <2> HIDE DEF z
  <2>4. /\ Untouched(w, z) /\ w.panicked = z.panicked
        /\ Open(z) /\ ~z.hijack => Started(w, Status(r), z.type)
    BY <1>1, <2>3, WriteHeaderOk DEF Held
  <2>5. w \in Ctx /\ w.hijack = z.hijack
    BY <2>4 DEF Untouched, Kept
  <2> HIDE DEF w
  <2>6. r.value \in Value /\ (r.codec = "plain" => ~Writes(r.codec, r.value))
    BY DEF GenResponse, Value, Failing, Writes
  <2>7. /\ Kept(d, w) /\ d.panicked = w.panicked
        /\ Writes(r.codec, r.value) => d.done
        /\ ~w.hijack /\ Started(w, Status(r), z.type) => Replied(d, Status(r))
    BY <1>1, <2>1, <2>2, <2>5, <2>6, EncodeOk
  <2> QED
    BY <1>3, <2>2, <2>4, <2>5, <2>7 DEF Untouched, Kept
<1> QED
  BY <1>2, <1>3

LEMMA WriteCachedOk ==
  ASSUME NEW x \in Ctx, NEW r \in CachedResponse
  PROVE  LET d == WriteCached(x, r) IN
         /\ Kept(d, x) /\ d.panicked = x.panicked /\ d.done
         /\ Open(x) /\ ~x.hijack => Replied(d, OrOK(r.code))
<1> DEFINE z == SetContentType(x, r.type)
           w == IF r.code # 0 THEN WriteHeader(z, r.code) ELSE z
           d == WriteCached(x, r)
<1>1. /\ r.type \in Text /\ r.code \in Int /\ (r.code # 0 => r.code >= 100)
  <2>1. r.type \in STRING /\ r.code \in Code
    BY DEF CachedResponse
  <2>2. r.type \in Text
    BY <2>1 DEF Text
  <2>3. r.code \in Int /\ (r.code # 0 => r.code >= 100)
    BY <2>1 DEF Code
  <2> QED
    BY <2>2, <2>3
<1>2. "cached" \in Text
  BY Texts
<1>3. d = Write(w, "cached")
  BY DEF WriteCached
<1>4. /\ Kept(z, x) /\ z.hijack = x.hijack /\ z.panicked = x.panicked
      /\ Open(x) => Open(z)
  BY <1>1, SetContentTypeOk
<1>5. z \in Ctx
  BY <1>4 DEF Kept
<1> HIDE DEF z
<1>6. /\ Kept(w, z) /\ w.hijack = z.hijack /\ w.panicked = z.panicked
      /\ Open(z) /\ ~z.hijack =>
           IF r.code # 0 THEN Started(w, r.code, z.type) ELSE Unsent(w)
  BY <1>1, <1>5, WriteHeaderOk DEF Untouched, Kept, Held, Open
<1>7. w \in Ctx /\ (~w.hijack => ~Held(w, w.status))
  BY <1>6 DEF Kept, Held
<1> HIDE DEF w, d
<1>8. /\ Kept(d, w) /\ d.done /\ d.panicked = w.panicked
      /\ ~w.hijack /\ Unsent(w) => Over(d, 200, w.type, "cached")
      /\ ~w.hijack /\ r.code # 0 /\ Started(w, r.code, z.type) =>
           Over(d, r.code, z.type, "cached")
  BY <1>2, <1>3, <1>7, WriteOk
<1>9. \A k, type : k # 0 /\ Over(d, k, type, "cached") => Replied(d, k)
  <2>1. \A type : Fits("cached", type)
    BY DEF Fits
  <2> QED
    BY <2>1, OverReplied
<1>10. Kept(d, x) /\ d.panicked = x.panicked
  BY <1>4, <1>6, <1>8 DEF Kept
<1>11. Open(x) /\ ~x.hijack => Replied(d, OrOK(r.code))
  BY <1>1, <1>4, <1>6, <1>8, <1>9 DEF OrOK
<1> QED
  BY <1>8, <1>10, <1>11 DEF d

LEMMA WriteRedirectOk ==
  ASSUME NEW x \in Ctx, NEW r \in RedirectResponse
  PROVE  LET d == WriteRedirect(x, r) IN
         /\ Kept(d, x) /\ d.panicked = x.panicked
         /\ r.url /\ x.get /\ x.type = "" => d.done
         /\ Open(x) /\ ~x.hijack => Replied(d, IF r.url THEN 302 ELSE 200)
<1> DEFINE page == x.get /\ x.type = ""
           z == IF page THEN SetContentType(x, "page") ELSE x
           w == WriteHeader(z, 302)
           d == WriteRedirect(x, r)
<1>1. "page" \in Text /\ (\A type : Fits("page", type))
  BY Texts DEF Fits
<1>2. CASE ~r.url
  <2>1. d = x
    BY <1>2 DEF WriteRedirect
  <2> QED
    BY <1>2, <2>1, UnsentReplied DEF Kept, Open
<1>3. CASE r.url
  <2>1. d = IF page THEN Write(w, "page") ELSE w
    BY <1>3 DEF WriteRedirect
  <2>2. /\ Kept(z, x) /\ z.hijack = x.hijack /\ z.panicked = x.panicked
        /\ (Open(x) => Open(z))
    <3>1. CASE page
      BY <1>1, <3>1, SetContentTypeOk
    <3>2. CASE ~page
      BY <3>2 DEF Kept
    <3> QED
      BY <3>1, <3>2
  <2>3. z \in Ctx
    BY <2>2 DEF Kept
  <2> HIDE DEF z
  <2>4. /\ Untouched(w, z) /\ w.panicked = z.panicked
        /\ Open(z) /\ ~z.hijack => Started(w, 302, z.type)
    BY <2>3, WriteHeaderOk DEF Held
  <2>5. /\ w \in Ctx /\ w.hijack = z.hijack /\ Kept(w, x)
        /\ w.panicked = x.panicked
    BY <2>2, <2>4 DEF Untouched, Kept
  <2> HIDE DEF w, d
  <2>6. CASE page
    <3>1. /\ Kept(d, w) /\ d.done /\ d.panicked = w.panicked
          /\ ~w.hijack /\ Started(w, 302, z.type) => Over(d, 302, z.type, "page")
      <4>1. d = Write(w, "page") /\ w \in Ctx /\ "page" \in Text
        BY <1>1, <2>1, <2>5, <2>6
      <4>2. ~w.hijack => ~Held(w, w.status)
        BY DEF Held
      <4>3. /\ Kept(d, w) /\ d.done /\ d.panicked = w.panicked
            /\ \A code, type :
                 ~Held(w, w.status) /\ code # 0 /\ Started(w, code, type) =>
                   Over(d, code, type, "page")
        BY <4>1, WriteOk
      <4> QED
        BY <4>2, <4>3
    <3>2. Over(d, 302, z.type, "page") => Replied(d, 302)
      BY <1>1, OverReplied
    <3> QED
      BY <1>3, <2>2, <2>4, <2>5, <2>6, <3>1, <3>2 DEF d, Kept
  <2>7. CASE ~page
    <3>1. Started(w, 302, z.type) => Replied(w, 302)
      BY StartedReplied
    <3> QED
      BY <1>3, <2>1, <2>2, <2>4, <2>5, <2>7, <3>1 DEF d
  <2> QED
    BY <2>6, <2>7
<1> QED
  BY <1>2, <1>3

LEMMA WriteFileOk ==
  ASSUME NEW x \in Ctx, NEW r \in FileResponse
  PROVE  LET d == WriteFile(x, r) IN
         /\ Kept(d, x) /\ d.panicked = x.panicked
         /\ r.file \in {"served", "missing"} => d.done
         /\ Open(x) /\ r.file # "precondition" => Replied(d, FileStatus[r.file])
<1> DEFINE z == SetContentType(x, r.type)
           d == WriteFile(x, r)
<1>1. r.type \in Text /\ r.file \in FileResult
  BY DEF FileResponse, Text
<1>2. d = File(z, r.file)
  BY DEF WriteFile
<1>3. Kept(z, x) /\ z.panicked = x.panicked /\ (Open(x) => Open(z))
  BY <1>1, SetContentTypeOk
<1>4. z \in Ctx
  BY <1>3 DEF Kept
<1> HIDE DEF z, d
<1>5. /\ Kept(d, z) /\ d.panicked = z.panicked
      /\ r.file \in {"served", "missing"} => d.done
      /\ Open(z) /\ r.file # "precondition" => Replied(d, FileStatus[r.file])
  BY <1>1, <1>2, <1>4, FileOk
<1> QED
  BY <1>3, <1>5 DEF d, Kept

-----------------------------------------------------------------------------
(* Calls on the Context *)

LEMMA DoingIs ==
  ASSUME NEW m \in Doing
  PROVE  \/ m.call \in {"none", "Write", "WriteString"}
         \/ m.call = "Printf" /\ m.code \in Code
         \/ m.call = "EncodeCodec" /\ m.codec \in Codec /\ m.code \in Code
             /\ m.value \in Value
         \/ m.call = "Encode" /\ m.code \in Code /\ m.value \in Value
         \/ m.call = "File" /\ m.file \in FileResult
BY DEF Doing, Quiet

LEMMA CallOk ==
  ASSUME NEW x \in Ctx, x.codec \in {"json", "msgpack"}, NEW m \in Doing
  PROVE  LET d == Call(x, m) IN
         /\ Kept(d, x) /\ d.panicked = x.panicked
         /\ m.call = "none" => d = x
         /\ m.call # "none" /\ Clean(x)
             /\ ~(m.call = "File" /\ m.file = "precondition")
             => /\ Replied(d, AskedByCall(m))
                /\ \/ d.done \/ m.call = "WriteString"
                   \/ m.call = "File" /\ m.file \in {"unmodified", "moved"}
<1> DEFINE d == Call(x, m)
<1>1. /\ \A type : Fits("bytes", type) /\ Fits("string", type)
      /\ {"bytes", "string"} \subseteq Text /\ {"json", "msgpack"} \subseteq Codec
  BY Texts DEF Fits, Codec
<1>2. Clean(x) => Open(x) /\ Unsent(x) /\ ~x.hijack /\ ~Held(x, x.status)
  BY DEF Clean, Open, Held
<1>3. \A e, type, f : Over(e, 200, type, f) /\ Fits(f, type) => Replied(e, 200)
  BY OverReplied
<1>4. CASE m.call = "none"
  <2>1. d = x
    BY <1>4 DEF Call
  <2> QED
    BY <1>4, <2>1 DEF Kept
<1>5. CASE m.call = "Write"
  <2>1. d = Write(x, "bytes") /\ AskedByCall(m) = 200
    BY <1>5 DEF Call, AskedByCall
  <2>2. /\ Kept(d, x) /\ d.done /\ d.panicked = x.panicked
        /\ Clean(x) => Over(d, 200, x.type, "bytes")
    BY <1>1, <1>2, <2>1, WriteOk
  <2> QED
    BY <1>1, <1>3, <1>5, <2>1, <2>2
<1>6. CASE m.call = "WriteString"
  <2>1. d = Put(x, "string") /\ AskedByCall(m) = 200
    BY <1>6 DEF Call, AskedByCall, WriteString
  <2>2. /\ Kept(d, x) /\ d.panicked = x.panicked
        /\ Clean(x) => Over(d, 200, x.type, "string")
    BY <1>1, <1>2, <2>1, PutOk DEF Untouched
  <2> QED
    BY <1>1, <1>3, <1>6, <2>1, <2>2
<1>7. CASE m.call = "Printf" /\ m.code \in Code
  <2>1. d = Printf(x, m.code) /\ AskedByCall(m) = OrOK(m.code)
    BY <1>7 DEF Call, AskedByCall
  <2> QED
    BY <1>2, <1>7, <2>1, PrintfOk
<1>8. CASE m.call = "EncodeCodec" /\ m.codec \in Codec /\ m.code \in Code
             /\ m.value \in Value
  <2>1. d = EncodeCodec(x, m.codec, m.code, m.value)
        /\ AskedByCall(m) = OrOK(m.code)
    BY <1>8 DEF Call, AskedByCall
  <2> QED
    BY <1>2, <1>8, <2>1, EncodeCodecOk
<1>9. CASE m.call = "Encode" /\ m.code \in Code /\ m.value \in Value
  <2>1. d = EncodeCodec(x, x.codec, m.code, m.value)
        /\ AskedByCall(m) = OrOK(m.code)
    BY <1>9 DEF Call, AskedByCall
  <2> QED
    BY <1>1, <1>2, <1>9, <2>1, EncodeCodecOk
<1>10. CASE m.call = "File" /\ m.file \in FileResult
  <2>1. d = File(x, m.file) /\ AskedByCall(m) = FileStatus[m.file]
    BY <1>10 DEF Call, AskedByCall
  <2> QED
    BY <1>2, <1>10, <2>1, FileOk DEF FileResult
<1> QED
  BY <1>4, <1>5, <1>6, <1>7, <1>8, <1>9, <1>10, DoingIs

-----------------------------------------------------------------------------
(* Typed handlers *)

TypedCall(t) ==
  LET types == {"", ContentType(t)} IN
  [call : {"typed", "typedBytes"}, type : types]
    \cup [call : {"typedValue"}, type : types, codec : {t}, value : Value]
    \cup [call : {"typedError"}, type : types, codec : {t}, code : Code,
          value : Value]

\* A typed handler writes, or sets the content type and returns a Response.
LEMMA TypedShape ==
  ASSUME NEW h \in TypedDeed
  PROVE  \E t \in Codec :
           /\ h.call \in TypedCall(t)
           /\ \/ h.call.call # "typed" /\ h.resp = Nil
              \/ h.call.call = "typed" /\ h.resp \in GenResponse
<1>1. PICK t \in Codec, w \in BOOLEAN :
        h \in handleOutOnly(t, w, Value, Code) \cup handleInOut(t, w, Value, Code)
  BY DEF TypedDeed
<1> DEFINE types == {"", ContentType(t)}
           Shaped(g) == /\ g.call \in TypedCall(t)
                        /\ \/ g.call.call # "typed" /\ g.resp = Nil
                           \/ g.call.call = "typed" /\ g.resp \in GenResponse
<1>4. 200 \in Code /\ 400 \in Code /\ "struct" \in Value
  BY DEF Code, Value
<1>2. ASSUME NEW type \in types, NEW code \in Code, NEW value \in Value
      PROVE  Shaped(handleError(t, w, type, code, value))
  <2>1. CASE w
    BY <2>1 DEF handleError, TypedCall, Does, Gen, GenResponse
  <2>2. CASE ~w
    BY <2>2 DEF handleError, TypedCall, Does
  <2> QED
    BY <2>1, <2>2
<1>3. ASSUME NEW type \in types, NEW value \in Value
      PROVE  Shaped(Answered(t, w, type, value))
  <2>1. CASE w
    BY <1>4, <2>1 DEF Answered, TypedCall, Does, Gen, GenResponse
  <2>2. CASE ~w /\ value = "bytes"
    BY <2>2 DEF Answered, TypedCall, Does
  <2>3. CASE ~w /\ value # "bytes"
    BY <2>3 DEF Answered, TypedCall, Does
  <2> QED
    BY <2>1, <2>2, <2>3
<1> HIDE DEF Shaped
<1>5. \/ \E type \in types, code \in Code, value \in Value :
            h = handleError(t, w, type, code, value)
      \/ \E type \in types, value \in Value : h = Answered(t, w, type, value)
  <2>1. "" \in types /\ ContentType(t) \in types
    OBVIOUS
  <2> HIDE DEF types
  <2>2. ASSUME NEW type \in types, h \in Outcomes(t, w, type, Value, Code)
        PROVE  \/ \E code \in Code, value \in Value :
                    h = handleError(t, w, type, code, value)
               \/ \E value \in Value : h = Answered(t, w, type, value)
    BY <2>2 DEF Outcomes
  <2>3. \/ \E type \in types : h \in Outcomes(t, w, type, Value, Code)
        \/ h = handleError(t, w, "", 400, "struct")
    BY <1>1, <2>1 DEF handleOutOnly, handleInOut
  <2> QED
    BY <1>4, <2>1, <2>2, <2>3
<1>6. Shaped(h)
  BY <1>2, <1>3, <1>5
<1> QED
  BY <1>6 DEF Shaped

\* A status of 0 panics: gzipRW notes a header then that was never sent.
Stopped(x) == /\ x \in Ctx /\ x.panicked /\ x.sent = 0 /\ x.body = <<>>
              /\ ~x.hijack /\ (x.gz <=> x.wrote)

LEMMA NoStatusStops ==
  ASSUME NEW x, Open(x), ~x.hijack, NEW f \in Text
  PROVE  LET d == WriteHeader(x, 0) IN
         Stopped(d) /\ Stopped(Write(d, f)) /\ Stopped(Put(d, f))
<1> DEFINE y == [x EXCEPT !.status = 0]
           z == [y EXCEPT !.wrote = TRUE]
           d == WriteHeader(x, 0)
<1>1. /\ y \in Ctx /\ y.sent = 0 /\ y.body = <<>> /\ ~y.hijack /\ ~y.wrote
      /\ ~y.panicked /\ y.gz = x.gz
  BY DEF Open, Unsent, Ctx
<1>2. d = ensureHeaders(y, 0)
  BY DEF WriteHeader
<1> HIDE DEF y
<1>3. /\ z \in Ctx /\ z.sent = 0 /\ z.body = <<>> /\ ~z.hijack /\ z.wrote
      /\ ~z.panicked /\ z.gz = y.gz
  BY <1>1 DEF Ctx
<1>4. d = IF y.gz THEN Commit(z, 0) ELSE Commit(y, 0)
  BY <1>1, <1>2 DEF ensureHeaders
<1> HIDE DEF z, d
<1>5. d = IF y.gz THEN [z EXCEPT !.panicked = TRUE] ELSE [y EXCEPT !.panicked = TRUE]
  BY <1>1, <1>3, <1>4 DEF Commit
<1>6. Stopped(d)
  BY <1>1, <1>3, <1>5 DEF Stopped, Ctx
<1> HIDE DEF d
<1>7. ASSUME NEW e, Stopped(e)  PROVE Stopped(Put(e, f))
  <2>1. Commit(e, 200) = e
    BY <1>7 DEF Stopped, Commit
  <2>2. ensureHeaders(e, 200) = e
    BY <1>7, <2>1 DEF Stopped, ensureHeaders, Ctx
  <2>3. Put(e, f) = e
    BY <1>7, <2>1, <2>2 DEF Put, Stopped
  <2> QED
    BY <1>7, <2>3
<1>8. Write(d, f) = Put([d EXCEPT !.done = TRUE], f)
  BY <1>6 DEF Stopped, Write, WriteOut
<1>9. Stopped([d EXCEPT !.done = TRUE])
  BY <1>6 DEF Stopped, Ctx
<1> QED
  BY <1>6, <1>7, <1>8, <1>9 DEF d

LEMMA TypedCallIs ==
  ASSUME NEW t \in Codec, NEW m \in TypedCall(t)
  PROVE  /\ m.type \in {"", ContentType(t)} /\ m.type \in Text
         /\ \/ m.call \in {"typed", "typedBytes"}
            \/ m.call = "typedValue" /\ m.codec = t /\ m.value \in Value
            \/ /\ m.call = "typedError" /\ m.codec = t /\ m.code \in Code
               /\ m.value \in Value
<1>1. /\ m.type \in {"", ContentType(t)}
      /\ \/ m.call \in {"typed", "typedBytes"}
         \/ m.call = "typedValue" /\ m.codec = t /\ m.value \in Value
         \/ /\ m.call = "typedError" /\ m.codec = t /\ m.code \in Code
            /\ m.value \in Value
  BY DEF TypedCall
<1>2. "" \in Text /\ ContentType(t) \in Text
  BY Texts, CodecTexts
<1> QED
  BY <1>1, <1>2

LEMMA TypedCallOk ==
  ASSUME NEW x \in Ctx, NEW t \in Codec, NEW m \in TypedCall(t)
  PROVE  LET d == Call(x, m) IN
         /\ Kept(d, x)
         /\ m.call = "typed" => /\ d.panicked = x.panicked
                                /\ Clean(x) => Open(d) /\ ~d.hijack
         /\ m.call # "typed" /\ Clean(x) =>
              IF m.call # "typedError" THEN Replied(d, 200)
              ELSE IF m.code # 0 THEN Replied(d, m.code) ELSE Stopped(d)
<1> DEFINE z == SetContentType(x, m.type)
           d == Call(x, m)
<1>1. /\ Kept(z, x) /\ z.panicked = x.panicked
      /\ Clean(x) => Open(z) /\ ~z.hijack /\ Fits(t, z.type)
  <2>1. /\ Kept(z, x) /\ z.panicked = x.panicked /\ z.hijack = x.hijack
        /\ (Open(x) => Open(z)) /\ z.type = (IF m.type = "" THEN x.type ELSE m.type)
    BY TypedCallIs, SetContentTypeOk
  <2>2. Clean(x) => z.type \in {"", ContentType(t)}
    BY <2>1, TypedCallIs DEF Clean
  <2>3. Fits(t, "") /\ Fits(t, ContentType(t))
    <3>1. Fits(t, "")
      BY DEF Fits
    <3> QED
      BY <3>1, CodecFits
  <2> HIDE DEF z
  <2> QED
    BY <2>1, <2>2, <2>3 DEF Clean
<1>2. z \in Ctx
  BY <1>1 DEF Kept
<1>3. Open(z) /\ ~z.hijack => Unsent(z) /\ ~Held(z, z.status)
  BY DEF Open, Held
<1>4. "bytes" \in Text
  BY Texts
<1>5. CASE m.call = "typed"
  <2>1. d = z
    BY <1>5 DEF Call
  <2> QED
    BY <1>1, <1>5, <2>1
<1>6. CASE m.call = "typedBytes"
  <2>1. d = Write(z, "bytes")
    BY <1>6 DEF Call
  <2> HIDE DEF z
  <2>2. Kept(d, z) /\ (Clean(x) => Over(d, 200, z.type, "bytes"))
    BY <1>1, <1>2, <1>3, <1>4, <2>1, WriteOk
  <2>3. Fits("bytes", z.type)
    BY DEF Fits
  <2> HIDE DEF d
  <2>4. Clean(x) => Replied(d, 200)
    BY <2>2, <2>3, OverReplied
  <2>5. Kept(d, x)
    BY <1>1, <2>2 DEF Kept
  <2> QED
    BY <1>6, <2>4, <2>5 DEF d
<1>7. CASE m.call = "typedValue" /\ m.codec = t /\ m.value \in Value
  <2>1. d = Encode(z, t, m.value)
    BY <1>7 DEF Call
  <2> HIDE DEF z
  <2>2. Kept(d, z) /\ (Clean(x) => Replied(d, 200))
    BY <1>1, <1>2, <1>3, <1>7, <2>1, EncodeOk
  <2>3. Kept(d, x)
    BY <1>1, <2>2 DEF Kept
  <2> QED
    BY <1>7, <2>2, <2>3
<1>8. CASE m.call = "typedError" /\ m.codec = t /\ m.code \in Code /\ m.value \in Value
  <2> DEFINE w == WriteHeader(z, m.code)
  <2>1. d = Encode(w, t, m.value)
    BY <1>8 DEF Call
  <2>2. m.code \in Int /\ (m.code # 0 => m.code >= 100) /\ m.value \in Value
    BY <1>8 DEF Code
  <2> HIDE DEF z
  <2>3. /\ Kept(w, z) /\ w.hijack = z.hijack
        /\ Open(z) /\ ~z.hijack /\ m.code # 0 => Started(w, m.code, z.type)
    BY <1>2, <2>2, WriteHeaderOk DEF Untouched, Held
  <2>4. w \in Ctx
    BY <2>3 DEF Kept
  <2>5. Clean(x) /\ m.code = 0 => Stopped(d)
    <3> SUFFICES ASSUME Clean(x), m.code = 0 PROVE Stopped(d)
      OBVIOUS
    <3>1. /\ t \in Text /\ "plain" \in Text
          /\ Open(z) /\ ~z.hijack /\ w = WriteHeader(z, 0)
      BY <1>1, Texts
    <3>2. Stopped(w) /\ Stopped(Write(w, t)) /\ Stopped(Put(w, "plain"))
      BY <3>1, NoStatusStops
    <3>3. d \in {w, Write(w, t), Put(w, "plain")}
      BY <2>1 DEF Encode, WriteString
    <3> QED
      BY <3>2, <3>3
  <2> HIDE DEF w
  <2>6. /\ Kept(d, w)
        /\ m.code # 0 /\ Clean(x) => Replied(d, m.code)
    BY <1>1, <2>1, <2>2, <2>3, <2>4, EncodeOk
  <2>7. Kept(d, x)
    BY <1>1, <2>3, <2>6 DEF Kept
  <2> QED
    BY <1>8, <2>5, <2>6, <2>7
<1> QED
  BY <1>5, <1>6, <1>7, <1>8, TypedCallIs

\* A panic that was recovered is answered with a 500, unless gzipRW thinks that
\* the header is written.
LEMMA RecoverOk ==
  ASSUME NEW x \in Ctx, x.codec \in {"json", "msgpack"}
  PROVE  LET d == Recover(x) IN
         /\ Kept(d, x) /\ ~d.panicked /\ d.done
         /\ Stopped(x) => Replied(d, IF x.gz THEN 200 ELSE 500)
<1> DEFINE y == [x EXCEPT !.panicked = FALSE]
           d == Recover(x)
<1>1. /\ y \in Ctx /\ Kept(y, x) /\ ~y.panicked
      /\ Stopped(x) => Unsent(y) /\ ~y.hijack /\ (IF x.gz THEN y.gz /\ y.wrote
                                                  ELSE Open(y))
  BY DEF Ctx, Kept, Stopped, Unsent, Open
<1>2. d = EncodeCodec(y, x.codec, 500, "struct")
  BY DEF Recover
<1>3. x.codec \in Codec /\ 500 \in Code /\ "struct" \in Value /\ OrOK(500) = 500
  BY DEF Codec, Code, Value, OrOK
<1> HIDE DEF y
<1>4. /\ Kept(d, y) /\ d.done /\ d.panicked = y.panicked
      /\ ~y.hijack /\ Open(y) => Replied(d, 500)
      /\ ~y.hijack /\ Unsent(y) /\ y.gz /\ y.wrote => Replied(d, 200)
  BY <1>1, <1>2, <1>3, EncodeCodecOk
<1> QED
  BY <1>1, <1>4 DEF Kept

-----------------------------------------------------------------------------
(* A middleware or handler *)

Response == GenResponse \cup CachedResponse \cup RedirectResponse \cup FileResponse

\* Responses that have no body, or none that goes through Context.Write.
Bodiless(r, get) ==
  \/ r.kind = "file" /\ r.file \in {"unmodified", "moved", "precondition"}
  \/ r.kind = "gen" /\ (r.code = 204 \/ ~Writes(r.codec, r.value))
  \/ r.kind = "redirect" /\ ~(r.url /\ get)

LEMMA WriteToCtxOk ==
  ASSUME NEW x \in Ctx, NEW r \in Response
  PROVE  LET d == WriteToCtx(x, r) IN
         /\ Kept(d, x) /\ d.panicked = x.panicked
         /\ d.done \/ x.type # "" \/ Bodiless(r, x.get)
         /\ Open(x) /\ ~x.hijack /\ ~(r.kind = "file" /\ r.file = "precondition")
             => Replied(d, AskedByResponse(r))
<1> DEFINE d == WriteToCtx(x, r)
<1>1. CASE r \in GenResponse
  <2>1. r.kind = "gen"
    BY <1>1 DEF GenResponse
  <2>2. d = WriteGen(x, r) /\ AskedByResponse(r) = Status(r)
    <3>1. r.code \in Code
      BY <1>1 DEF GenResponse
    <3> QED
      BY <2>1, <3>1 DEF WriteToCtx, AskedByResponse, Status, Code
  <2> QED
    BY <1>1, <2>1, <2>2, WriteGenOk DEF Bodiless
<1>2. CASE r \in CachedResponse
  <2>1. r.kind = "cached"
    BY <1>2 DEF CachedResponse
  <2>2. d = WriteCached(x, r) /\ AskedByResponse(r) = OrOK(r.code)
    BY <2>1 DEF WriteToCtx, AskedByResponse
  <2> QED
    BY <1>2, <2>1, <2>2, WriteCachedOk
<1>3. CASE r \in RedirectResponse
  <2>1. r.kind = "redirect"
    BY <1>3 DEF RedirectResponse
  <2>2. d = WriteRedirect(x, r)
        /\ AskedByResponse(r) = (IF r.url THEN 302 ELSE 200)
    BY <2>1 DEF WriteToCtx, AskedByResponse
  <2>3. /\ Kept(d, x) /\ d.panicked = x.panicked
        /\ r.url /\ x.get /\ x.type = "" => d.done
        /\ Open(x) /\ ~x.hijack => Replied(d, AskedByResponse(r))
    <3> DEFINE g == WriteRedirect(x, r)
               code == IF r.url THEN 302 ELSE 200
    <3>1. /\ Kept(g, x) /\ g.panicked = x.panicked
          /\ r.url /\ x.get /\ x.type = "" => g.done
          /\ Open(x) /\ ~x.hijack => Replied(g, code)
      BY <1>3, WriteRedirectOk
    <3> HIDE DEF g, code, d
    <3>2. d = g /\ AskedByResponse(r) = code
      BY <2>2 DEF g, code, d
    <3> QED
      BY <3>1, <3>2
  <2> HIDE DEF d
  <2>4. d.done \/ x.type # "" \/ Bodiless(r, x.get)
    BY <2>1, <2>3 DEF Bodiless
  <2> QED
    BY <2>3, <2>4 DEF d
<1>4. CASE r \in FileResponse
  <2>1. r.kind = "file" /\ r.file \in FileResult
    BY <1>4 DEF FileResponse
  <2>2. d = WriteFile(x, r) /\ AskedByResponse(r) = FileStatus[r.file]
    BY <2>1 DEF WriteToCtx, AskedByResponse
  <2>3. /\ Kept(d, x) /\ d.panicked = x.panicked
        /\ r.file \in {"served", "missing"} => d.done
        /\ Open(x) /\ r.file # "precondition" => Replied(d, AskedByResponse(r))
    BY <1>4, <2>2, WriteFileOk
  <2> HIDE DEF d
  <2>4. d.done \/ Bodiless(r, x.get)
    BY <2>1, <2>3 DEF Bodiless, FileResult
  <2> QED
    BY <2>1, <2>3, <2>4 DEF d
<1> QED
  BY <1>1, <1>2, <1>3, <1>4 DEF Response

LEMMA DeedIs ==
  ASSUME NEW h \in Deed
  PROVE  /\ h.call \in Doing /\ h.call.call # "typed"
         /\ h.resp \in {Nil, Break} \cup Response
<1>1. h.call \in Doing /\ h.resp \in Returned
  BY DEF Deed
<1> QED
  BY <1>1, DoingIs
     DEF Returned, Response, GenResponse, CachedResponse, RedirectResponse,
         FileResponse

LEMMA ResponseIs ==
  /\ \A r \in Response : r \notin {Nil, Break} /\ r.kind \notin {"nil", "Break"}
  /\ Nil.kind = "nil" /\ Break.kind = "Break"
  /\ GenResponse \subseteq Response
BY DEF Response, GenResponse, CachedResponse, RedirectResponse, FileResponse, Nil,
       Break

\* A call is one that handlers make, or one of a typed handler.
LEMMA DeedCalls ==
  ASSUME NEW x \in Ctx, x.codec \in {"json", "msgpack"}, NEW h \in Deed \cup TypedDeed
  PROVE  /\ Kept(Call(x, h.call), x)
         /\ h.resp \in {Nil, Break} \cup Response
         /\ ~Answers(h) => h.call.call = "none" /\ Call(x, h.call) = x
<1>1. CASE h \in Deed
  BY <1>1, DeedIs, CallOk DEF Answers, Calls
<1>2. CASE h \in TypedDeed
  <2>1. PICK t \in Codec :
           /\ h.call \in TypedCall(t)
           /\ \/ h.call.call # "typed" /\ h.resp = Nil
              \/ h.call.call = "typed" /\ h.resp \in GenResponse
    BY <1>2, TypedShape
  <2>2. Answers(h)
    <3>1. h.call.call # "none"
      BY <2>1, TypedCallIs
    <3> QED
      BY <2>1, <3>1, ResponseIs DEF Answers, Calls, Returns
  <2> QED
    BY <2>1, <2>2, ResponseIs, TypedCallOk
<1> QED
  BY <1>1, <1>2

\* d is what x became, of the same request.
Passed(d, x) == /\ d \in Ctx /\ ~d.panicked
                /\ d.gz = x.gz /\ d.get = x.get /\ d.codec = x.codec

WithBy(x, by) == [x EXCEPT !.by = by]

LEMMA WithByOk ==
  ASSUME NEW x \in Ctx, NEW by \in By
  PROVE  LET y == WithBy(x, by) IN
         /\ y \in Ctx /\ y.by = by /\ y.gz = x.gz /\ y.get = x.get
         /\ y.codec = x.codec /\ y.panicked = x.panicked /\ y.done = x.done
         /\ y.hijack = x.hijack /\ y.type = x.type /\ y.sent = x.sent
         /\ y.sentType = x.sentType /\ y.sentBy = x.sentBy /\ y.body = x.body
         /\ (Clean(x) => Clean(y)) /\ (Open(x) => Open(y))
<1> DEFINE y == WithBy(x, by)
<1>1. y \in Ctx
  BY DEF WithBy, Ctx
<1>2. /\ y.by = by /\ y.gz = x.gz /\ y.get = x.get
      /\ y.codec = x.codec /\ y.panicked = x.panicked /\ y.done = x.done
      /\ y.hijack = x.hijack /\ y.type = x.type /\ y.sent = x.sent
      /\ y.sentType = x.sentType /\ y.sentBy = x.sentBy /\ y.body = x.body
      /\ y.wrote = x.wrote
  BY DEF WithBy, Ctx
<1> HIDE DEF y
<1>3. (Clean(x) => Clean(y)) /\ (Open(x) => Open(y))
  BY <1>1, <1>2 DEF Clean, Open, Unsent
<1> QED
  BY <1>1, <1>2, <1>3 DEF y

\* The steps of Handle.
Called(x, i, h) == Call(WithBy(x, <<i, "call">>), h.call)
Responded(x, i, h) ==
  LET d == Called(x, i, h) IN
  IF d.panicked \/ h.resp \in {Nil, Break} THEN d
  ELSE WriteToCtx(WithBy(d, <<i, "response">>), h.resp)

LEMMA HandleIs ==
  ASSUME NEW x, NEW i, NEW h
  PROVE  Handle(x, i, h) = IF Responded(x, i, h).panicked
                           THEN Recover(Responded(x, i, h)) ELSE Responded(x, i, h)
BY DEF Handle, Responded, Called, WithBy

LEMMA HandlePasses ==
  ASSUME NEW x \in Ctx, x.codec \in {"json", "msgpack"}, ~x.panicked,
         NEW i \in Nat, NEW h \in Deed \cup TypedDeed
  PROVE  /\ Passed(Handle(x, i, h), x)
         /\ ~Answers(h) => Handle(x, i, h) = WithBy(x, <<i, "call">>)
<1> DEFINE y == WithBy(x, <<i, "call">>)
           d == Called(x, i, h)
           e == Responded(x, i, h)
<1>1. <<i, "call">> \in By /\ <<i, "response">> \in By
  BY DEF By
<1>2. /\ y \in Ctx /\ y.gz = x.gz /\ y.get = x.get /\ y.codec = x.codec
      /\ ~y.panicked
  BY <1>1, WithByOk
<1>3. /\ Kept(d, y) /\ h.resp \in {Nil, Break} \cup Response
      /\ ~Answers(h) => d = y
  BY <1>2, DeedCalls DEF Called
<1>4. /\ d \in Ctx /\ d.gz = x.gz /\ d.get = x.get /\ d.codec = x.codec
  BY <1>2, <1>3 DEF Kept
<1>5. \/ e = d
      \/ h.resp \in Response /\ e = WriteToCtx(WithBy(d, <<i, "response">>), h.resp)
  BY <1>3 DEF Responded
<1>6. /\ e \in Ctx /\ e.gz = x.gz /\ e.get = x.get /\ e.codec = x.codec
  <2> DEFINE z == WithBy(d, <<i, "response">>)
  <2>1. z \in Ctx /\ z.gz = d.gz /\ z.get = d.get /\ z.codec = d.codec
    BY <1>1, <1>4, WithByOk
  <2> HIDE DEF z, d, e
  <2>2. CASE h.resp \in Response /\ e = WriteToCtx(z, h.resp)
    <3>1. Kept(e, z)
      BY <2>1, <2>2, WriteToCtxOk
    <3> QED
      BY <1>4, <2>1, <3>1 DEF Kept
  <2> QED
    BY <1>4, <1>5, <2>2 DEF z
<1>7. Handle(x, i, h) = IF e.panicked THEN Recover(e) ELSE e
  BY HandleIs
<1>8. ~Answers(h) => e = y
  <2>1. ~Answers(h) => h.resp \in {Nil, Break}
    BY DEF Answers, Returns
  <2> QED
    BY <1>3, <2>1 DEF Responded
<1> HIDE DEF y, d, e
<1>9. CASE e.panicked
  <2>1. Kept(Recover(e), e) /\ ~Recover(e).panicked
    BY <1>6, RecoverOk
  <2> QED
    BY <1>2, <1>6, <1>7, <1>8, <1>9, <2>1 DEF Kept, Passed
<1>10. CASE ~e.panicked
  BY <1>6, <1>7, <1>8, <1>10 DEF Passed, y
<1> QED
  BY <1>9, <1>10

\* The first to answer, if it does so once, is granted what it asks for.
LEMMA HandleAnswers ==
  ASSUME c \in Ctx, c.codec \in {"json", "msgpack"}, Clean(c),
         NEW i \in Nat, NEW h \in Deed \cup TypedDeed,
         Answers(h), ~Both(h), ~Lost(h)
  PROVE  LET d == Handle(c, i, h) IN
         /\ Replied(d, Asked(h)) \/ (Masked(h) /\ Replied(d, 200))
         /\ h \in Deed => d.done \/ Unmarked(h)
<1> DEFINE y == WithBy(c, <<i, "call">>)
           d == Called(c, i, h)
           z == WithBy(d, <<i, "response">>)
           e == Responded(c, i, h)
           a == Handle(c, i, h)
<1>1. <<i, "call">> \in By /\ <<i, "response">> \in By
  BY DEF By
<1>2. /\ y \in Ctx /\ y.gz = c.gz /\ y.get = c.get /\ y.codec = c.codec
      /\ Clean(y)
  BY <1>1, WithByOk
<1>3. /\ d = Call(y, h.call) /\ a = IF e.panicked THEN Recover(e) ELSE e
      /\ Kept(d, y) /\ h.resp \in {Nil, Break} \cup Response
  BY <1>2, DeedCalls, HandleIs DEF Called
<1>4. d \in Ctx /\ d.gz = c.gz /\ d.get = c.get /\ d.codec = c.codec
  BY <1>2, <1>3 DEF Kept
<1>5. CASE Returns(h)
  <2>1. h.resp \in Response /\ h.call.call \in {"none", "typed"}
    BY <1>3, <1>5 DEF Both, Returns, Calls
  <2>2. /\ Open(d) /\ ~d.hijack /\ ~d.panicked
        /\ h \in Deed => d.type = ""
    <3>1. CASE h \in Deed
      <4>1. h.call.call = "none" /\ h.call \in Doing
        BY <2>1, <3>1, DeedIs
      <4>2. d = y
        BY <1>2, <1>3, <4>1, CallOk
      <4> QED
        BY <1>2, <4>2 DEF Clean, Open, Unsent
    <3>2. CASE h \in TypedDeed /\ h \notin Deed
      <4>1. PICK t \in Codec :
               /\ h.call \in TypedCall(t)
               /\ \/ h.call.call # "typed" /\ h.resp = Nil
                  \/ h.call.call = "typed" /\ h.resp \in GenResponse
        BY <3>2, TypedShape
      <4>2. h.call.call = "typed"
        BY <2>1, <4>1, ResponseIs
      <4>3. Open(d) /\ ~d.hijack
        BY <1>2, <1>3, <4>1, <4>2, TypedCallOk
      <4> QED
        BY <3>2, <4>3 DEF Open, Unsent
    <3> QED
      BY <3>1, <3>2
  <2>3. /\ z \in Ctx /\ Open(z) /\ ~z.hijack /\ ~z.panicked /\ z.type = d.type
        /\ z.get = c.get
    <3>1. /\ z \in Ctx /\ z.type = d.type /\ z.get = d.get
          /\ z.hijack = d.hijack /\ z.panicked = d.panicked
          /\ (Open(d) => Open(z))
      BY <1>1, <1>4, WithByOk
    <3> QED
      BY <1>4, <2>2, <3>1
  <2>4. e = WriteToCtx(z, h.resp)
    BY <2>1, <2>2, ResponseIs DEF Responded
  <2>5. ~(h.resp.kind = "file" /\ h.resp.file = "precondition")
    BY DEF Lost
  <2> HIDE DEF y, d, z, e, a
  <2>6. /\ ~e.panicked /\ Replied(e, AskedByResponse(h.resp))
        /\ h \in Deed => e.done \/ Bodiless(h.resp, c.get)
    BY <2>1, <2>2, <2>3, <2>4, <2>5, WriteToCtxOk
  <2>7. Asked(h) = AskedByResponse(h.resp)
    BY <1>5 DEF Asked
  <2>8. Bodiless(h.resp, c.get) => Unmarked(h)
    BY <2>5 DEF Bodiless, Unmarked
  <2> QED
    BY <1>3, <2>6, <2>7, <2>8 DEF a
<1>6. CASE Calls(h) /\ h.resp \in {Nil, Break}
  <2>1. e = d /\ h.call.call \notin {"none", "typed"}
    BY <1>6 DEF Responded, Calls
  <2>3. ~(h.call.call = "File" /\ h.call.file = "precondition")
    BY DEF Lost
  <2>4. CASE h \in Deed
    <3>1. h.call \in Doing
      BY <2>4, DeedIs
    <3>2. /\ ~d.panicked /\ Replied(d, AskedByCall(h.call))
          /\ \/ d.done \/ h.call.call = "WriteString"
             \/ h.call.call = "File" /\ h.call.file \in {"unmodified", "moved"}
      BY <1>2, <1>3, <2>1, <2>3, <3>1, CallOk DEF Clean, Open, Unsent
    <3>3. Asked(h) = AskedByCall(h.call)
      BY <1>6 DEF Asked, Returns
    <3> HIDE DEF d, e, a
    <3> QED
      BY <1>3, <2>1, <3>2, <3>3 DEF a, Unmarked
  <2>5. CASE h \in TypedDeed /\ h \notin Deed
    <3>1. PICK t \in Codec : h.call \in TypedCall(t)
      BY <2>5, TypedShape
    <3>2. h.call.call \in {"typedBytes", "typedValue"}
          \/ (h.call.call = "typedError" /\ h.call.code \in Code)
      BY <2>1, <3>1, TypedCallIs
    <3>3. IF h.call.call # "typedError" THEN Replied(d, 200)
          ELSE IF h.call.code # 0 THEN Replied(d, h.call.code) ELSE Stopped(d)
      BY <1>2, <1>3, <2>1, <3>1, TypedCallOk
    <3> HIDE DEF d, e, a
    <3>4. CASE h.call.call \in {"typedBytes", "typedValue"}
      <4>1. Asked(h) = 200
        BY <1>6, <3>4 DEF Asked, AskedByCall, Returns
      <4>2. Replied(d, 200)
        BY <3>3, <3>4
      <4> QED
        BY <1>3, <2>1, <2>5, <4>1, <4>2 DEF a, Replied
    <3>5. CASE h.call.call = "typedError" /\ h.call.code # 0
      <4>1. Asked(h) = h.call.code
        BY <1>6, <3>2, <3>5 DEF Asked, AskedByCall, Returns, Code
      <4>2. Replied(d, h.call.code)
        BY <3>3, <3>5
      <4> QED
        BY <1>3, <2>1, <2>5, <4>1, <4>2 DEF a, Replied
    <3>6. CASE h.call.call = "typedError" /\ h.call.code = 0
      <4>1. Asked(h) = 500 /\ (c.gz => Masked(h))
        BY <1>6, <3>6 DEF Asked, AskedByCall, Returns, Masked, Panics
      <4>2. Stopped(d)
        BY <3>3, <3>6
      <4>3. a = Recover(d)
        BY <1>3, <2>1, <4>2 DEF Stopped
      <4>4. Replied(a, IF c.gz THEN 200 ELSE 500)
        BY <1>4, <4>2, <4>3, RecoverOk
      <4> QED
        BY <2>5, <4>1, <4>4 DEF a
    <3> QED
      BY <3>2, <3>4, <3>5, <3>6
  <2> QED
    BY <2>4, <2>5
<1> QED
  BY <1>3, <1>5, <1>6, ResponseIs DEF Answers, Returns

-----------------------------------------------------------------------------
(* The chain *)

LEMMA RepliedOnce ==
  ASSUME NEW d, NEW code, Replied(d, code)
  PROVE  \A s, t \in Senders(d) : s = t
<1>1. \A s \in Senders(d) : s = d.by
  BY DEF Replied, Senders
<1> QED
  BY <1>1

LEMMA FreshClean ==
  ASSUME NEW gz \in BOOLEAN, NEW get \in BOOLEAN, NEW codec \in {"json", "msgpack"}
  PROVE  Clean(Fresh(gz, get, codec)) /\ Fresh(gz, get, codec).codec = codec
<1>1. "" \in Text /\ codec \in Text
  BY Texts DEF Text
<1>9. <<>> \in By /\ <<>> \in Seq(Part)
  BY EmptySeq DEF By
<1> DEFINE x == Fresh(gz, get, codec)
<1>2. x \in Ctx
  <2>1. \A m \in Int, b \in BOOLEAN, t \in Text, w \in By, q \in Seq(Part) :
          [status |-> m, hijack |-> b, done |-> b, type |-> t,
           sent |-> m, sentType |-> t, sentBy |-> w, body |-> q,
           by |-> w, panicked |-> b,
           gz |-> gz, wrote |-> b, get |-> get, codec |-> codec] \in Ctx
    BY <1>1, ZenonT(60) DEF Ctx
  <2>2. 0 \in Int /\ FALSE \in BOOLEAN
    OBVIOUS
  <2> QED
    BY <1>1, <1>9, <2>1, <2>2, Zenon DEF Fresh
<1>3. /\ x.sent = 0 /\ x.body = <<>> /\ ~x.panicked /\ ~x.wrote /\ x.type = ""
      /\ ~x.hijack /\ ~x.done /\ x.codec = codec
  BY DEF Fresh
<1> QED
  BY <1>2, <1>3 DEF Clean, Open, Unsent

LEMMA SiteInitInv == Init => SiteInv
<1> SUFFICES ASSUME Init PROVE SiteInv
  OBVIOUS
<1>1. Clean(c) /\ c.codec = "json"
  BY FreshClean DEF Init
<1>2. c \in Ctx /\ ~c.panicked
  BY <1>1 DEF Clean, Open, Unsent
<1>3. ran = <<>> /\ ran \in Seq(Deed \cup TypedDeed) /\ DOMAIN ran = {}
  BY EmptySeq DEF Init
<1>4. SiteTypes
  BY <1>1, <1>2, <1>3 DEF SiteTypes, Init
<1> QED
  BY <1>1, <1>3, <1>4 DEF SiteInv

\* A step of the chain that runs one more, when nobody answered and marked it.
LEMMA RunsKeep ==
  ASSUME SiteInv, NEW h \in Deed \cup TypedDeed, Runs(h), ~c.done,
         phase = "middlewares" \/ left > 0
  PROVE  /\ c' \in Ctx /\ ~c'.panicked /\ c'.codec \in {"json", "msgpack"}
         /\ ran' \in Seq(Deed \cup TypedDeed)
         /\ (\A i \in DOMAIN ran' : ~Answers(ran'[i])) => Clean(c')
         /\ \A i \in DOMAIN ran' : Sole(i)' /\ ~Lost(ran'[i]) => Granted(ran[i])'
         /\ \/ \E i \in DOMAIN ran' : Loose(ran[i])'
            \/ Clean(c')
            \/ /\ \A s, t \in Senders(c') : s = t
               /\ c'.done \/ h \notin Deed
<1> DEFINE n == Len(ran) + 1
<1>1. /\ c \in Ctx /\ ~c.panicked /\ c.codec \in {"json", "msgpack"}
      /\ ran \in Seq(Deed \cup TypedDeed) /\ Len(ran) \in Nat
  BY LenProperties DEF SiteInv, SiteTypes
<1>2. c' = Handle(c, Len(ran), h) /\ ran' = Append(ran, h)
  BY DEF Runs
<1>3. /\ ran' \in Seq(Deed \cup TypedDeed)
      /\ DOMAIN ran = 1 .. Len(ran) /\ DOMAIN ran' = 1 .. n
      /\ \A i \in 1 .. Len(ran) : ran'[i] = ran[i]
      /\ ran'[n] = h
  BY <1>1, <1>2, AppendProperties
<1>4. /\ Passed(c', c)
      /\ ~Answers(h) => c' = WithBy(c, <<Len(ran), "call">>)
  BY <1>1, <1>2, HandlePasses
<1>5. <<Len(ran), "call">> \in By
  BY <1>1 DEF By
<1>6. \A g : Asked(g)' = Asked(g) /\ (Unmarked(g)' <=> Unmarked(g))
  BY <1>4 DEF Passed, Asked, Unmarked
<1>13. \A g : Masked(g)' <=> Masked(g)
  BY <1>4 DEF Passed, Masked
<1>7. ASSUME Clean(c), Answers(h), ~Both(h), ~Lost(h)
      PROVE  /\ Replied(c', Asked(h)) \/ (Masked(h) /\ Replied(c', 200))
             /\ h \in Deed => c'.done \/ Unmarked(h)
  BY <1>1, <1>2, <1>7, HandleAnswers
<1>8. ~Answers(h) => /\ Clean(c) => Clean(c')
                     /\ c'.sent = c.sent /\ c'.sentType = c.sentType
                     /\ c'.body = c.body
  BY <1>1, <1>4, <1>5, WithByOk
<1>9. (\A i \in DOMAIN ran' : ~Answers(ran'[i])) => Clean(c')
  <2> SUFFICES ASSUME \A i \in DOMAIN ran' : ~Answers(ran'[i])
               PROVE  Clean(c')
    OBVIOUS
  <2>1. ~Answers(h)
    BY <1>1, <1>3
  <2>2. \A i \in DOMAIN ran : ~Answers(ran[i])
    BY <1>1, <1>3
  <2> QED
    BY <1>8, <2>1, <2>2 DEF SiteInv
<1>10. ASSUME NEW i \in DOMAIN ran', Sole(i)', ~Lost(ran'[i])
       PROVE  Granted(ran[i])'
  <2>1. /\ Answers(ran'[i]) /\ ~Both(ran'[i])
        /\ \A j \in DOMAIN ran' \ {i} : ~Answers(ran'[j])
    BY <1>10 DEF Sole, Answers, Both, Calls, Returns
  <2>2. CASE i = n
    <3>1. \A j \in DOMAIN ran : ~Answers(ran[j])
      BY <1>1, <1>3, <2>1, <2>2
    <3>2. Clean(c)
      BY <3>1 DEF SiteInv
    <3>3. Replied(c', Asked(h)) \/ (Masked(h) /\ Replied(c', 200))
      BY <1>3, <1>7, <1>10, <2>1, <2>2, <3>2
    <3> QED
      BY <1>3, <1>6, <1>13, <2>2, <3>3 DEF Replied, Granted, Sent, Fits
  <2>3. CASE i # n
    <3>1. i \in DOMAIN ran /\ ran'[i] = ran[i] /\ ~Answers(h)
      BY <1>1, <1>3, <2>1, <2>3
    <3>2. \A j \in DOMAIN ran \ {i} : ~Answers(ran[j])
      BY <1>1, <1>3, <2>1
    <3>3. Granted(ran[i])
      BY <1>10, <2>1, <3>1, <3>2 DEF SiteInv, Sole
    <3> QED
      BY <1>6, <1>8, <1>13, <3>1, <3>3 DEF Granted, Sent
  <2> QED
    BY <2>2, <2>3
<1>11. \/ \E i \in DOMAIN ran' : Loose(ran[i])'
       \/ Clean(c')
       \/ (\A s, t \in Senders(c') : s = t) /\ (c'.done \/ h \notin Deed)
  <2>1. CASE \E i \in DOMAIN ran : Loose(ran[i])
    <3>1. PICK i \in DOMAIN ran : Loose(ran[i])
      BY <2>1
    <3>2. i \in DOMAIN ran' /\ ran'[i] = ran[i]
      BY <1>1, <1>3
    <3>3. Loose(ran[i])'
      BY <1>6, <3>1, <3>2 DEF Loose, Both, Calls, Returns
    <3> QED
      BY <3>2, <3>3
  <2>2. CASE Loose(h)
    <3>1. PICK k \in DOMAIN ran' : ran'[k] = h
      BY <1>1, <1>3
    <3>2. Loose(ran[k])'
      BY <1>1, <1>6, <2>2, <3>1 DEF Loose, Both, Calls, Returns
    <3> QED
      BY <3>1, <3>2
  <2>3. CASE Clean(c) /\ ~Answers(h)
    BY <1>8, <2>3
  <2>4. CASE Clean(c) /\ Answers(h) /\ ~Loose(h)
    <3>1. ~Both(h) /\ ~Lost(h) /\ ~Unmarked(h)
      BY <2>4 DEF Loose, Unmarked
    <3>2. /\ Replied(c', Asked(h)) \/ Replied(c', 200)
          /\ h \in Deed => c'.done
      BY <1>7, <2>4, <3>1
    <3> QED
      BY <3>2, RepliedOnce
  <2>5. Clean(c) \/ \E i \in DOMAIN ran : Loose(ran[i])
    BY DEF SiteInv, SiteTypes
  <2> QED
    BY <2>1, <2>2, <2>3, <2>4, <2>5
<1>12. c' \in Ctx /\ ~c'.panicked /\ c'.codec \in {"json", "msgpack"}
  BY <1>1, <1>4 DEF Passed
<1> QED
  BY <1>3, <1>9, <1>10, <1>11, <1>12

\* The other steps leave the Context alone, and who ran.
LEMMA StandsKeep ==
  ASSUME SiteInv, SiteTypes', UNCHANGED <<c, ran>>,
         c.done \/ (phase' \in {"handlers", "done"} /\ left' = 0)
           \/ Clean(c) \/ \E i \in DOMAIN ran : Loose(ran[i])
  PROVE  SiteInv'
<1>1. \A g : /\ (Granted(g)' <=> Granted(g)) /\ (Loose(g)' <=> Loose(g))
            /\ (Answers(g)' <=> Answers(g)) /\ (Both(g)' <=> Both(g))
  BY DEF Granted, Sent, Asked, Masked, Loose, Unmarked, Both, Answers, Calls,
         Returns
<1>2. (\A i \in DOMAIN ran' : ~Answers(ran[i])') => Clean(c')
  BY <1>1 DEF SiteInv
<1>3. ASSUME NEW i \in DOMAIN ran', Sole(i)', ~Lost(ran[i])'
      PROVE  Granted(ran[i])'
  BY <1>1, <1>3 DEF SiteInv, Sole, Lost
<1>4. \/ \E i \in DOMAIN ran' : Loose(ran[i])'
      \/ Clean(c')
      \/ /\ \A s, t \in Senders(c') : s = t
         /\ c'.done \/ (phase' \in {"handlers", "done"} /\ left' = 0)
  BY <1>1 DEF SiteInv
<1> QED
  BY <1>2, <1>3, <1>4 DEF SiteInv

LEMMA BeginKeeps ==
  ASSUME SiteInv, Begin
  PROVE  SiteInv'
<1>1. PICK gz \in BOOLEAN, get \in BOOLEAN, codec \in {"json", "msgpack"} :
        c' = Fresh(gz, get, codec)
  BY DEF Begin
<1>2. Clean(c') /\ c'.codec \in {"json", "msgpack"}
  BY <1>1, FreshClean
<1>3. ran' = <<>> /\ DOMAIN ran' = {}
  BY DEF Begin, SiteInv, SiteTypes
<1>4. SiteTypes'
  <2>1. c' \in Ctx /\ ~c'.panicked
    BY <1>2 DEF Clean, Open, Unsent
  <2>2. /\ phase' = "middlewares" /\ typed' \in BOOLEAN /\ left' \in Nat
        /\ (typed' => left' <= 1)
    <3>1. CASE typed' = TRUE /\ left' = 1
      BY <3>1 DEF Begin
    <3>2. CASE typed' = FALSE /\ left' \in 1 .. MaxHandlers
      <4>1. left' \in Nat
        BY <3>2, SiteAssumption
      <4> QED
        BY <3>2, <4>1 DEF Begin
    <3> QED
      BY <3>1, <3>2 DEF Begin
  <2>3. ran' \in Seq(Deed \cup TypedDeed)
    BY DEF Begin, SiteInv, SiteTypes
  <2> QED
    BY <1>2, <2>1, <2>2, <2>3 DEF SiteTypes
<1> QED
  BY <1>2, <1>3, <1>4 DEF SiteInv

LEMMA RunMiddlewareKeeps ==
  ASSUME SiteInv, NEW h \in MwDoes, RunMiddleware(h)
  PROVE  SiteInv'
<1>1. h \in Deed
  BY DeedsAssumption
<1>2. Runs(h) /\ ~c.done /\ phase = "middlewares"
  BY DEF RunMiddleware
<1>3. /\ c' \in Ctx /\ ~c'.panicked /\ c'.codec \in {"json", "msgpack"}
      /\ ran' \in Seq(Deed \cup TypedDeed)
      /\ (\A i \in DOMAIN ran' : ~Answers(ran'[i])) => Clean(c')
      /\ \A i \in DOMAIN ran' : Sole(i)' /\ ~Lost(ran'[i]) => Granted(ran[i])'
      /\ \/ \E i \in DOMAIN ran' : Loose(ran[i])'
         \/ Clean(c')
         \/ (\A s, t \in Senders(c') : s = t) /\ c'.done
  BY <1>1, <1>2, RunsKeep
<1>4. SiteTypes'
  BY <1>3 DEF SiteInv, SiteTypes, RunMiddleware
<1> QED
  BY <1>3, <1>4 DEF SiteInv, Answers, Calls, Returns, Lost

LEMMA RunHandlerKeeps ==
  ASSUME SiteInv, NEW h \in HandlerDoes \cup TypedDoes, RunHandler(h)
  PROVE  SiteInv'
<1>1. h \in Deed \cup TypedDeed /\ (~typed => h \in Deed)
  <2>1. HandlerDoes \subseteq Deed /\ TypedDoes \subseteq TypedDeed
    BY DeedsAssumption
  <2>2. typed \in BOOLEAN
    BY DEF SiteInv, SiteTypes
  <2>3. h \in IF typed THEN TypedDoes ELSE HandlerDoes
    BY DEF RunHandler
  <2> QED
    BY <2>1, <2>2, <2>3
<1>2. /\ Runs(h) /\ ~c.done /\ left > 0 /\ phase = "handlers" /\ left \in Nat
      /\ left' = left - 1 /\ phase' \in {"handlers", "done"} /\ typed' = typed
      /\ (typed => left <= 1)
  BY DEF SiteInv, SiteTypes, RunHandler
<1>3. /\ c' \in Ctx /\ ~c'.panicked /\ c'.codec \in {"json", "msgpack"}
      /\ ran' \in Seq(Deed \cup TypedDeed)
      /\ (\A i \in DOMAIN ran' : ~Answers(ran'[i])) => Clean(c')
      /\ \A i \in DOMAIN ran' : Sole(i)' /\ ~Lost(ran'[i]) => Granted(ran[i])'
      /\ \/ \E i \in DOMAIN ran' : Loose(ran[i])'
         \/ Clean(c')
         \/ /\ \A s, t \in Senders(c') : s = t
            /\ c'.done \/ h \notin Deed
  BY <1>1, <1>2, RunsKeep
<1>4. SiteTypes'
  BY <1>2, <1>3 DEF SiteInv, SiteTypes
<1>5. h \notin Deed => left' = 0
  BY <1>1, <1>2 DEF SiteInv, SiteTypes
<1> QED
  BY <1>2, <1>3, <1>4, <1>5 DEF SiteInv, Answers, Calls, Returns, Lost

LEMMA SiteStep == SiteInv /\ [Next]_vars => SiteInv'
<1> SUFFICES ASSUME SiteInv, [Next]_vars PROVE SiteInv'
  OBVIOUS
<1>1. CASE Register \/ UNCHANGED vars
  <2>1. UNCHANGED siteVars
    BY <1>1 DEF Register, vars
  <2>2. SiteTypes'
    BY <2>1 DEF SiteInv, SiteTypes, siteVars
  <2> QED
    BY <2>1, <2>2, StandsKeep DEF SiteInv, siteVars
<1>2. CASE Begin
  BY <1>2, BeginKeeps
<1>3. CASE \E h \in MwDoes : RunMiddleware(h)
  BY <1>3, RunMiddlewareKeeps
<1>4. CASE \E h \in HandlerDoes \cup TypedDoes : RunHandler(h)
  BY <1>4, RunHandlerKeeps
<1>5. CASE EndMiddlewares \/ EndHandlers
  <2>1. SiteTypes'
    BY <1>5 DEF SiteInv, SiteTypes, EndMiddlewares, EndHandlers
  <2> QED
    BY <1>5, <2>1, StandsKeep DEF SiteInv, EndMiddlewares, EndHandlers
<1> QED
  BY <1>1, <1>2, <1>3, <1>4, <1>5 DEF Next

\* SiteInv holds for any middlewares and handlers, in any number.
THEOREM SiteInvariance == Spec => []SiteInv
<1> QED
  BY SiteInitInv, SiteStep, PTL DEF Spec

\* Whoever answers alone, and once, gets his status through (a panic its 500, but
\* for the one that gzip masks), and a body that is what the content type says
\* (ctx.go:309-327, genresp.go:54-87, gen.go:90-156).
THEOREM AnsweredAsAskedHolds == Spec => []AnsweredAsAsked
<1>1. SiteInv => AnsweredAsAsked
  <2> SUFFICES ASSUME SiteInv, NEW i \in DOMAIN ran, ~Lost(ran[i]),
                      Sole(i)
               PROVE  Granted(ran[i])
    BY DEF AnsweredAsAsked, Granted
  <2> QED
    BY DEF SiteInv
<1> QED
  BY <1>1, SiteInvariance, PTL

\* Status and body come from one answer unless one was not marked as such, as one
\* that could not be encoded (ctx.go:318-327, genresp.go:84-86, group.go:146-174).
THEOREM OneAnswerHolds == Spec => []OneAnswer
<1>1. SiteInv => OneAnswer
  <2>1. Clean(c) => \A s, t \in Senders(c) : s = t
    <3> SUFFICES ASSUME Clean(c) PROVE Senders(c) = {}
      OBVIOUS
    <3>1. c.sent = 0 /\ c.body = <<>>
      BY DEF Clean, Open, Unsent
    <3>2. 1 .. Len(c.body) = {}
      BY <3>1
    <3> QED
      BY <3>1, <3>2 DEF Senders
  <2>2. SiteInv => \/ \A s, t \in Senders(c) : s = t
                \/ \E i \in DOMAIN ran : Loose(ran[i])
    BY <2>1 DEF SiteInv
  <2> QED
    BY <2>2 DEF OneAnswer, Senders, Loose, Both
<1> QED
  BY <1>1, SiteInvariance, PTL
=============================================================================
