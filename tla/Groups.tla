------------------------------- MODULE Groups -------------------------------
(***************************************************************************)
(* The middlewares of groups: Group.Use, SubGroup and AddRoute of group.go. *)
(* A group keeps them in a slice, and slices of several groups may share an *)
(* array: append writes in place where the capacity allows it.  A slice is *)
(* a record of the array, the length and the capacity; an array that no    *)
(* slice refers to is free for append to make anew.                        *)
(***************************************************************************)
EXTENDS Integers, Sequences

CONSTANTS
  Group,
  Root,           \* the Group a Server embeds
  Array,
  Middleware,
  Additions,      \* what Use and SubGroup may be called with
  MaxSpare,       \* bound: how much more than needed append allocates
  MaxMw           \* bound: the middlewares of a group

ASSUME GroupsAssumption ==
  /\ Root \in Group /\ Array # {}
  /\ Additions \subseteq Seq(Middleware)
  /\ MaxSpare \in Nat /\ MaxMw \in Nat

VARIABLES
  made,           \* the groups there are
  mw,             \* mw[g]: the slice
  heap,           \* heap[a]: what was written to an array so far
  declared        \* history: what g was given by SubGroup and Use

gvars == <<made, mw, heap, declared>>

NilSlice == [arr |-> CHOOSE a \in Array : TRUE, len |-> 0, cap |-> 0]

GroupsInit ==
  /\ made = {Root}
  /\ mw = [g \in Group |-> NilSlice]
  /\ heap = [a \in Array |-> <<>>]
  /\ declared = [g \in Group |-> <<>>]

Elements(s) == [i \in 1..s.len |-> heap[s.arr][i]]

\* No slice refers to the array.
Free(a) == \A g \in made : mw[g].cap > 0 => mw[g].arr # a

Longer(m, n) == IF m > n THEN m ELSE n

\* The array of s with ms written where s ends.
Written(s, ms) ==
  [i \in 1..Longer(Len(heap[s.arr]), s.len + Len(ms)) |->
     IF i \in s.len + 1 .. s.len + Len(ms) THEN ms[i - s.len]
                                           ELSE heap[s.arr][i]]

\* g's slice becomes append(s, ms...): in place if there is room, copied to an
\* array of its own otherwise.
AppendTo(g, s, ms) ==
  LET n == s.len + Len(ms) IN
  \/ /\ n <= s.cap
     /\ heap' = [heap EXCEPT ![s.arr] = Written(s, ms)]
     /\ mw' = [mw EXCEPT ![g] = [arr |-> s.arr, len |-> n, cap |-> s.cap]]
  \/ /\ n > s.cap
     /\ \E a \in Array, spare \in 0..MaxSpare :
          /\ Free(a)
          /\ heap' = [heap EXCEPT ![a] = Elements(s) \o ms]
          /\ mw' = [mw EXCEPT ![g] = [arr |-> a, len |-> n, cap |-> n + spare]]

\* Group.Use
Use(g, ms) ==
  /\ g \in made
  /\ mw[g].len + Len(ms) <= MaxMw
  /\ AppendTo(g, mw[g], ms)
  /\ declared' = [declared EXCEPT ![g] = @ \o ms]
  /\ UNCHANGED made

\* Mutant: append(g.mw, mw...)
InheritedWithRoom(s) == s

\* g.mw[:len(g.mw):len(g.mw)]: a slice without room, so that append copies.
Inherited(s) == [arr |-> s.arr, len |-> s.len, cap |-> s.len]

\* Group.SubGroup
SubGroup(g, sub, ms) ==
  /\ g \in made /\ sub \notin made
  /\ mw[g].len + Len(ms) <= MaxMw
  /\ made' = made \cup {sub}
  /\ AppendTo(sub, Inherited(mw[g]), ms)
  /\ declared' = [declared EXCEPT ![sub] = declared[g] \o ms]

GroupsNext == \E g \in Group, ms \in Additions :
  Use(g, ms) \/ \E sub \in Group : SubGroup(g, sub, ms)

GroupsSpec == GroupsInit /\ [][GroupsNext]_gvars

\* What the routes of a group run, when they are served: they hold a pointer to
\* the group, not a copy of the slice (group.go:43,146).
Middlewares(g) == Elements(mw[g])

-----------------------------------------------------------------------------
\* A group's middlewares are those its parent had when it was made, those it was
\* made with and those it was given by Use, in this order: Use of its parent or
\* of another subgroup never adds or replaces one (group.go:30-32,95-102).
MiddlewaresAsDeclared == \A g \in made : Middlewares(g) = declared[g]
=============================================================================
