----------------------------- MODULE ServerProofs -----------------------------
(***************************************************************************)
(* A Server, as its requests and its callers see it: the order of the      *)
(* middlewares and handlers of a request, for chains of every length and   *)
(* whatever their code calls, writes, returns or throws; and the lifecycle *)
(* of the Server, for any number of calls of Run and of the secure ones,   *)
(* of requests and of goroutines that call Close or Shutdown; what they    *)
(* wait for, and the results of the secure calls.                          *)
(***************************************************************************)
EXTENDS HandlerChain, TLSServers, SequenceTheorems, TLAPS

Frame == Call \cup {"nextMW", "next", "mw", "h"}

ChainTypes ==
  /\ stack \in Seq(Frame)
  /\ mwIdx \in 0..NM /\ hIdx \in 0..NH
  /\ nextMW \in BOOLEAN /\ next \in BOOLEAN /\ done \in BOOLEAN
  /\ panicHandler \in PanicHandlers
  /\ outcome \in {"serving", "returned", "panicked"}
  /\ outcome # "serving" => stack = <<>>

\* A middleware runs inside a loop over middlewares, a handler inside one over
\* handlers.
NestedAt(i) ==
  /\ stack[i] = "mw" => i < Len(stack) /\ stack[i + 1] = "nextMW"
  /\ stack[i] = "h"  => i < Len(stack) /\ stack[i + 1] = "next"
Nested == \A i \in DOMAIN stack : NestedAt(i)

\* Middlewares are still to run before what is below these goes on.
Guards == {"NextMiddleware", "nextMW"}
Guarded(i) == i > 1 /\ stack[i - 1] \in Guards

\* No middleware let the handlers run before its turn.
Orderly == events \cap {"NextHandler", "noBody", "silent"} = {}

\* The handlers' turn has come, or there is a response already.
Turn == mwIdx >= NM \/ done

WaitsAt(i) ==
  /\ stack[i] = "NextHandler" => Turn \/ ~next \/ Guarded(i)
  /\ stack[i] = "next" => Turn

HandlersWait ==
  /\ ~nextMW => Turn \/ ~next
  /\ \A i \in DOMAIN stack : WaitsAt(i)
  /\ hIdx > 0 => mwIdx >= NM

\* Nothing happened that keeps anybody from running.
Quiet == events \subseteq {"NextHandler"} /\ ~done

\* What is left of Serve's own call of Next runs whoever did not run yet.
ServesAt(n) ==
  \/ stack[n] = "Next"
  \/ stack[n] = "NextHandler" /\ (mwIdx >= NM \/ Guarded(n))
  \/ stack[n] = "next" /\ mwIdx >= NM

ServesAll ==
  /\ ~nextMW => mwIdx >= NM
  /\ ~next => hIdx >= NH
  /\ stack = <<>> => mwIdx >= NM /\ hIdx >= NH
  /\ stack # <<>> => ServesAt(Len(stack))

BreakTakesNext == "mwBreak" \in events => ~next

ChainInv ==
  /\ ChainTypes /\ Nested
  /\ Orderly => HandlersWait
  /\ Quiet => ServesAll
  /\ BreakTakesNext

-----------------------------------------------------------------------------
(* The stack *)

\* What a sequence is known by.
Known(s, n) ==
  s \in Seq(Frame) /\ Len(s) = n /\ DOMAIN s = 1..n /\ (s = <<>> <=> n = 0)

\* t is s with its m innermost frames replaced by k others.
Replaced(s, t, m, k) ==
  /\ Len(s) \in Nat /\ m <= Len(s)
  /\ Known(s, Len(s)) /\ Known(t, Len(s) - m + k)
  /\ \A i \in 1..Len(s) - m + k : i > k => t[i] = s[i - k + m]

\* What is on the stack once the innermost frame is gone.
LEMMA Popped ==
  ASSUME NEW s \in Seq(Frame), s # <<>>
  PROVE  /\ Len(s) \in Nat \ {0}
         /\ Known(s, Len(s))
         /\ Head(s) = s[1]
         /\ Known(Tail(s), Len(s) - 1)
         /\ \A i \in 1..Len(s) - 1 : Tail(s)[i] = s[i + 1]
<1>1. Len(s) \in Nat \ {0} /\ DOMAIN s = 1..Len(s)
  BY EmptySeq
<1>2. /\ Head(s) = s[1]
      /\ Tail(s) \in Seq(Frame) /\ Len(Tail(s)) = Len(s) - 1
      /\ \A i \in 1..Len(s) - 1 : Tail(s)[i] = s[i + 1]
  BY HeadTailProperties
<1>3. DOMAIN Tail(s) = 1..Len(Tail(s)) /\ (Tail(s) = <<>> <=> Len(Tail(s)) = 0)
  BY <1>2, EmptySeq
<1> QED
  BY <1>1, <1>2, <1>3 DEF Known

\* What is on the stack once a frame was put on it.
LEMMA Pushed ==
  ASSUME NEW s \in Seq(Frame), NEW f \in Frame
  PROVE  /\ Len(s) \in Nat
         /\ Known(s, Len(s))
         /\ Known(<<f>> \o s, Len(s) + 1)
         /\ (<<f>> \o s)[1] = f
         /\ \A i \in 1..Len(s) : (<<f>> \o s)[i + 1] = s[i]
<1>1. <<f>> \in Seq(Frame) /\ Len(<<f>>) = 1 /\ <<f>>[1] = f
  OBVIOUS
<1>2. Len(s) \in Nat /\ DOMAIN s = 1..Len(s) /\ (s = <<>> <=> Len(s) = 0)
  BY EmptySeq
<1>3. /\ <<f>> \o s \in Seq(Frame)
      /\ Len(<<f>> \o s) = 1 + Len(s)
      /\ \A i \in 1..1 + Len(s) :
           (<<f>> \o s)[i] = IF i <= 1 THEN <<f>>[i] ELSE s[i - 1]
  BY <1>1, ConcatProperties
<1>4. /\ DOMAIN (<<f>> \o s) = 1..Len(s) + 1
      /\ <<f>> \o s # <<>>
  BY <1>2, <1>3, EmptySeq
<1> QED
  BY <1>1, <1>2, <1>3, <1>4 DEF Known

\* A frame is popped.
LEMMA Pop ==
  ASSUME NEW s \in Seq(Frame), s # <<>>
  PROVE  Replaced(s, Tail(s), 1, 0) /\ Head(s) = s[1]
<1>1. ASSUME NEW i \in 1..Len(s) - 1 PROVE Tail(s)[i] = s[i - 0 + 1]
  BY Popped, i - 0 + 1 = i + 1
<1> QED
  BY <1>1, Popped DEF Replaced

\* A frame is pushed.
LEMMA Push ==
  ASSUME NEW s \in Seq(Frame), NEW f \in Frame
  PROVE  Replaced(s, <<f>> \o s, 0, 1) /\ (<<f>> \o s)[1] = f
<1> DEFINE t == <<f>> \o s
<1>1. /\ Len(s) \in Nat
      /\ Known(s, Len(s)) /\ Known(t, Len(s) + 1) /\ t[1] = f
      /\ \A i \in 1..Len(s) : t[i + 1] = s[i]
  BY Pushed
<1> HIDE DEF t
<1>2. ASSUME NEW i \in 1..Len(s) - 0 + 1, i > 1 PROVE t[i] = s[i - 1 + 0]
  <2>1. i - 1 \in 1..Len(s) /\ (i - 1) + 1 = i /\ i - 1 + 0 = i - 1
    BY <1>1, <1>2
  <2> QED
    BY <1>1, <2>1
<1>3. Replaced(s, t, 0, 1)
  BY <1>1, <1>2 DEF Replaced
<1> QED
  BY <1>1, <1>3 DEF t

\* A frame is replaced by another.
LEMMA Swap ==
  ASSUME NEW s \in Seq(Frame), s # <<>>, NEW f \in Frame
  PROVE  Replaced(s, <<f>> \o Tail(s), 1, 1) /\ (<<f>> \o Tail(s))[1] = f
<1> DEFINE r == Tail(s)
<1> DEFINE t == <<f>> \o r
<1>1. /\ Len(s) \in Nat \ {0}
      /\ Known(s, Len(s)) /\ Known(r, Len(s) - 1)
      /\ \A i \in 1..Len(s) - 1 : r[i] = s[i + 1]
  BY Popped
<1>2. r \in Seq(Frame) /\ Len(r) = Len(s) - 1
  BY <1>1 DEF Known
<1> HIDE DEF r
<1>3. /\ Known(t, Len(r) + 1) /\ t[1] = f
      /\ \A i \in 1..Len(r) : t[i + 1] = r[i]
  BY <1>2, Pushed
<1> HIDE DEF t
<1>4. ASSUME NEW i \in 1..Len(s) - 1 + 1, i > 1 PROVE t[i] = s[i - 1 + 1]
  <2>1. /\ i - 1 \in 1..Len(s) - 1
        /\ (i - 1) + 1 = i /\ i - 1 + 1 = i
    BY <1>1, <1>4
  <2> QED
    BY <1>1, <1>2, <1>3, <2>1
<1>5. Len(r) + 1 = Len(s) - 1 + 1 /\ 1 <= Len(s)
  BY <1>1, <1>2
<1>6. Replaced(s, t, 1, 1)
  BY <1>1, <1>3, <1>4, <1>5 DEF Replaced
<1> QED
  BY <1>3, <1>6 DEF t, r

\* Two frames are popped.
LEMMA PopTwo ==
  ASSUME NEW s \in Seq(Frame), s # <<>>, Len(s) # 1
  PROVE  Replaced(s, Tail(Tail(s)), 2, 0)
<1> DEFINE r == Tail(s)
<1> DEFINE t == Tail(r)
<1>1. /\ Len(s) \in Nat \ {0}
      /\ Known(s, Len(s)) /\ Known(r, Len(s) - 1)
      /\ \A i \in 1..Len(s) - 1 : r[i] = s[i + 1]
  BY Popped
<1>2. r \in Seq(Frame) /\ r # <<>> /\ Len(r) = Len(s) - 1
  BY <1>1 DEF Known
<1> HIDE DEF r
<1>3. /\ Known(t, Len(r) - 1)
      /\ \A i \in 1..Len(r) - 1 : t[i] = r[i + 1]
  BY <1>2, Popped
<1> HIDE DEF t
<1>4. ASSUME NEW i \in 1..Len(s) - 2 + 0 PROVE t[i] = s[i - 0 + 2]
  <2>1. /\ i \in 1..Len(r) - 1 /\ i + 1 \in 1..Len(s) - 1
        /\ (i + 1) + 1 = i - 0 + 2
    BY <1>1, <1>2
  <2> QED
    BY <1>1, <1>3, <2>1
<1>5. Len(r) - 1 = Len(s) - 2 + 0 /\ 2 <= Len(s)
  BY <1>1, <1>2
<1>6. Replaced(s, t, 2, 0)
  BY <1>1, <1>3, <1>4, <1>5 DEF Replaced
<1> QED
  BY <1>6 DEF t, r

\* A frame is replaced by two others.
LEMMA SwapTwo ==
  ASSUME NEW s \in Seq(Frame), s # <<>>, NEW f \in Frame, NEW g \in Frame
  PROVE  LET t == <<f, g>> \o Tail(s)
         IN  Replaced(s, t, 1, 2) /\ t[1] = f /\ t[2] = g
<1> DEFINE r == Tail(s)
<1> DEFINE t == <<f, g>> \o r
<1>1. /\ Len(s) \in Nat \ {0}
      /\ Known(s, Len(s)) /\ Known(r, Len(s) - 1)
      /\ \A i \in 1..Len(s) - 1 : r[i] = s[i + 1]
  BY Popped
<1>2. r \in Seq(Frame) /\ Len(r) = Len(s) - 1
  BY <1>1 DEF Known
<1> HIDE DEF r
<1>3. /\ <<f, g>> \in Seq(Frame)
      /\ Len(<<f, g>>) = 2
      /\ <<f, g>>[1] = f
      /\ <<f, g>>[2] = g
  OBVIOUS
<1>4. /\ t \in Seq(Frame) /\ Len(t) = 2 + Len(r)
      /\ \A i \in 1..2 + Len(r) :
           t[i] = IF i <= 2 THEN <<f, g>>[i] ELSE r[i - 2]
  BY <1>2, <1>3, ConcatProperties
<1>5. t # <<>> /\ DOMAIN t = 1..Len(t)
  BY <1>1, <1>2, <1>4, EmptySeq
<1>6. t[1] = f /\ t[2] = g
  BY <1>1, <1>2, <1>3, <1>4
<1> HIDE DEF t
<1>7. ASSUME NEW i \in 1..Len(s) - 1 + 2, i > 2 PROVE t[i] = s[i - 2 + 1]
  <2>1. /\ i \in 1..2 + Len(r) /\ ~(i <= 2)
        /\ i - 2 \in 1..Len(s) - 1
    BY <1>1, <1>2, <1>7
  <2> QED
    BY <1>1, <1>4, <2>1
<1>8. 2 + Len(r) = Len(s) - 1 + 2 /\ 1 <= Len(s)
  BY <1>1, <1>2
<1>9. Known(t, Len(s) - 1 + 2)
  BY <1>1, <1>4, <1>5, <1>8 DEF Known
<1>10. Replaced(s, t, 1, 2)
  BY <1>1, <1>7, <1>8, <1>9 DEF Replaced
<1> QED
  BY <1>6, <1>10 DEF t, r

-----------------------------------------------------------------------------
(* What a change of the stack keeps *)

\* Of m frames that go and k that come, the last one guards if the last one did.
Reguarded(m, k) ==
  m > 0 /\ stack[m] \in Guards => k > 0 /\ stack'[k] \in Guards

\* Where a frame that stays comes from.
LEMMA Stays ==
  ASSUME NEW m \in 0..2, NEW k \in 0..2, Replaced(stack, stack', m, k),
         NEW i \in DOMAIN stack', i > k
  PROVE  i - k + m \in DOMAIN stack /\ stack'[i] = stack[i - k + m]
<1>1. i \in 1..Len(stack) - m + k /\ i - k + m \in 1..Len(stack)
  BY DEF Replaced, Known
<1> QED
  BY <1>1 DEF Replaced, Known

\* The frames that stay are nested as before.
LEMMA NestedKept ==
  ASSUME NEW m \in 0..2, NEW k \in 0..2, Replaced(stack, stack', m, k), Nested,
         \A i \in 1..k : NestedAt(i)'
  PROVE  Nested'
<1> SUFFICES ASSUME NEW i \in DOMAIN stack', i > k PROVE NestedAt(i)'
  BY DEF Nested, Replaced, Known
<1> DEFINE j == i - k + m
<1>1. /\ j \in DOMAIN stack /\ stack'[i] = stack[j]
      /\ j < Len(stack) => i < Len(stack') /\ stack'[i + 1] = stack[j + 1]
  <2>1. i \in 1..Len(stack) - m + k /\ j \in 1..Len(stack) /\ i \in Nat /\ j \in Nat
    BY DEF Replaced, Known
  <2>2. ASSUME j < Len(stack)
        PROVE  i + 1 \in 1..Len(stack) - m + k /\ (i + 1) - k + m = j + 1
    BY <2>1, <2>2 DEF Replaced
  <2>3. j \in DOMAIN stack /\ stack'[i] = stack[j]
    BY <2>1 DEF Replaced, Known
  <2>4. ASSUME j < Len(stack)
        PROVE  i < Len(stack') /\ stack'[i + 1] = stack[j + 1]
    <3>1. i + 1 \in 1..Len(stack) - m + k /\ (i + 1) - k + m = j + 1 /\ i + 1 > k
      BY <2>1, <2>2, <2>4
    <3>2. stack'[i + 1] = stack[(i + 1) - k + m]
      BY <3>1 DEF Replaced
    <3> QED
      BY <2>1, <3>1, <3>2 DEF Replaced, Known
  <2> QED
    BY <2>3, <2>4
<1>2. NestedAt(j)
  BY <1>1 DEF Nested
<1> HIDE DEF j
<1> QED
  BY <1>1, <1>2 DEF NestedAt

\* The guard of a frame that stays is the frame's neighbour as before, or was
\* the last of the frames that went.
LEMMA GuardKept ==
  ASSUME NEW m \in 0..2, NEW k \in 0..2, Replaced(stack, stack', m, k),
         NEW i \in DOMAIN stack', i > k,
         Reguarded(m, k)
  PROVE  /\ i - k + m \in DOMAIN stack /\ stack'[i] = stack[i - k + m]
         /\ Guarded(i - k + m) => Guarded(i)'
<1> DEFINE j == i - k + m
<1>1. /\ i \in 1..Len(stack) - m + k /\ j \in 1..Len(stack)
      /\ i \in Nat /\ j \in Nat /\ Len(stack) \in Nat
  BY DEF Replaced, Known
<1>2. j \in DOMAIN stack /\ stack'[i] = stack[j]
  BY <1>1 DEF Replaced, Known
<1>3. CASE i > k + 1
  <2>1. i - 1 > k /\ i > 1 /\ (i - 1) - k + m = j - 1
    BY <1>1, <1>3
  <2>4. i - 1 \in 1..Len(stack) - m + k
    BY <1>1, <2>1
  <2>2. stack'[i - 1] = stack[(i - 1) - k + m]
    BY <2>1, <2>4 DEF Replaced
  <2>3. stack'[i - 1] = stack[j - 1]
    BY <2>1, <2>2
  <2> QED
    BY <1>2, <2>1, <2>3 DEF Guarded
<1>4. CASE i = k + 1
  <2>1. j = m + 1 /\ j - 1 = m /\ i - 1 = k
    BY <1>1, <1>4
  <2>2. (j > 1 <=> m > 0) /\ (i > 1 <=> k > 0)
    BY <1>1, <1>4
  <2>3. Guarded(j) <=> m > 0 /\ stack[m] \in Guards
    BY <2>1, <2>2 DEF Guarded
  <2>4. Guarded(i)' <=> k > 0 /\ stack'[k] \in Guards
    BY <2>1, <2>2 DEF Guarded
  <2> QED
    BY <1>2, <2>3, <2>4 DEF Reguarded
<1> QED
  BY <1>1, <1>3, <1>4

\* The frames that stay wait as before, if the last frame that went guarded
\* nothing, left a guard in its place, or is not needed any more.
LEMMA WaitsKept ==
  ASSUME NEW m \in 0..2, NEW k \in 0..2, Replaced(stack, stack', m, k),
         \A i \in DOMAIN stack : WaitsAt(i),
         Turn => Turn', ~next => ~next',
         \/ Turn' \/ ~next'
         \/ Reguarded(m, k),
         \A i \in 1..k : WaitsAt(i)'
  PROVE  \A i \in DOMAIN stack' : WaitsAt(i)'
<1> SUFFICES ASSUME NEW i \in DOMAIN stack', i > k PROVE WaitsAt(i)'
  BY DEF Replaced, Known
<1>1. i - k + m \in DOMAIN stack /\ stack'[i] = stack[i - k + m]
  BY Stays
<1>2. WaitsAt(i - k + m)
  BY <1>1
<1>3. CASE Turn' \/ ~next'
  BY <1>1, <1>2, <1>3 DEF WaitsAt
<1>4. CASE Reguarded(m, k)
  <2>1. Guarded(i - k + m) => Guarded(i)'
    BY <1>4, GuardKept
  <2> QED
    BY <1>1, <1>2, <2>1 DEF WaitsAt
<1> QED
  BY <1>3, <1>4

\* So does Serve's own frame.
LEMMA ServesKept ==
  ASSUME NEW m \in 0..2, NEW k \in 0..2, Replaced(stack, stack', m, k),
         m < Len(stack), ServesAt(Len(stack)),
         mwIdx >= NM => mwIdx' >= NM,
         \/ mwIdx' >= NM
         \/ Reguarded(m, k)
  PROVE  stack' # <<>> /\ ServesAt(Len(stack))'
<1>0. Len(stack') \in Nat
  BY DEF Replaced, Known
<1> PICK i \in Nat : i = Len(stack')
  BY <1>0
<1>1. /\ i = Len(stack) - m + k /\ i \in Nat \ {0} /\ i \in DOMAIN stack' /\ i > k
      /\ stack' # <<>> /\ i - k + m = Len(stack)
  BY DEF Replaced, Known
<1>2. stack'[i] = stack[Len(stack)]
  BY <1>1 DEF Replaced
<1>3. CASE mwIdx' >= NM
  BY <1>1, <1>2, <1>3 DEF ServesAt
<1>4. CASE Reguarded(m, k)
  <2>1. Guarded(Len(stack)) => Guarded(i)'
    BY <1>1, <1>4, GuardKept
  <2> QED
    BY <1>1, <1>2, <2>1 DEF ServesAt
<1> QED
  BY <1>3, <1>4

-----------------------------------------------------------------------------
(* The first state *)

LEMMA ChainInitInv == Init => ChainInv
<1> SUFFICES ASSUME Init PROVE ChainInv
  OBVIOUS
<1>1. /\ stack \in Seq(Frame) /\ Len(stack) = 1 /\ stack[1] = "Next"
      /\ DOMAIN stack = {1} /\ stack # <<>>
  BY DEF Init, Frame, Call
<1>2. ChainTypes
  <2>1. mwIdx \in 0..NM /\ hIdx \in 0..NH
    BY ChainAssumption DEF Init
  <2> QED
    BY <1>1, <2>1 DEF Init, ChainTypes
<1>3. Nested
  BY <1>1 DEF Nested, NestedAt
<1>4. HandlersWait
  BY <1>1 DEF Init, HandlersWait, WaitsAt
<1>5. ServesAll
  BY <1>1 DEF Init, ServesAll, ServesAt
<1>6. BreakTakesNext
  BY DEF Init, BreakTakesNext
<1> QED
  BY <1>2, <1>3, <1>4, <1>5, <1>6 DEF ChainInv
-----------------------------------------------------------------------------
(* The steps *)

\* The step starts no handler and enters no loop over the handlers, if none of
\* these loops is running and none may be entered.
NoHandlerStep ==
  ~next /\ (\A i \in DOMAIN stack : stack[i] # "next")
    => hIdx' = hIdx /\ (\A i \in DOMAIN stack' : stack'[i] # "next")

\* The frames that stay are no loops over the handlers if there were none.
LEMMA NoNextKept ==
  ASSUME NEW m \in 0..2, NEW k \in 0..2, Replaced(stack, stack', m, k),
         hIdx' = hIdx, \A i \in 1..k : stack'[i] # "next"
  PROVE  NoHandlerStep
<1> SUFFICES ASSUME \A i \in DOMAIN stack : stack[i] # "next",
                    NEW i \in DOMAIN stack', i > k
             PROVE  stack'[i] # "next"
  BY DEF NoHandlerStep, Replaced, Known
<1>1. i - k + m \in DOMAIN stack /\ stack'[i] = stack[i - k + m]
  BY Stays
<1> QED
  BY <1>1

\* Next asks for the middlewares first, so the handlers wait for them.
LEMMA CallNextStep ==
  ASSUME ChainInv, CallNext
  PROVE  ChainInv' /\ NoHandlerStep
<1> USE DEF ChainInv
<1>1. /\ Replaced(stack, stack', 1, 2)
      /\ stack'[1] = "NextMiddleware"
      /\ stack'[2] = "NextHandler"
      /\ stack[1] = "Next"
      /\ stack \in Seq(Frame) /\ stack # <<>> /\ 1 \in DOMAIN stack
  <2>1. /\ stack \in Seq(Frame)
        /\ stack # <<>>
        /\ stack' = <<"NextMiddleware", "NextHandler">> \o Tail(stack)
    BY DEF CallNext, At, User, Below, ChainTypes
  <2>2. /\ Replaced(stack, stack', 1, 2)
        /\ stack'[1] = "NextMiddleware"
        /\ stack'[2] = "NextHandler"
        /\ Head(stack) = stack[1]
    BY <2>1, Pop, SwapTwo DEF Frame, Call
  <2>3. 1 \in DOMAIN stack
    BY <2>1, EmptySeq
  <2>4. stack[1] = "Next"
    BY <2>1, <2>2, <2>3 DEF CallNext, At, User
  <2> QED
    BY <2>1, <2>2, <2>3, <2>4
<1>2. ChainTypes'
  <2>1. stack' \in Seq(Frame)
    BY <1>1 DEF Replaced, Known
  <2> QED
    BY <1>1, <2>1, ChainAssumption DEF CallNext, ctxVars, ChainTypes
<1>3. Nested'
  <2>1. \A i \in 1..2 : i = 1 \/ i = 2
    OBVIOUS
  <2>2. \A i \in 1..2 : NestedAt(i)'
    BY <1>1, <2>1 DEF CallNext, ctxVars, NestedAt, Replaced, Known, Call
  <2> QED
    BY <1>1, <2>2, NestedKept
<1>4. (Orderly => HandlersWait)'
  <2> SUFFICES ASSUME Orderly' PROVE HandlersWait'
    OBVIOUS
  <2>1. Orderly /\ HandlersWait
    BY DEF CallNext, ctxVars, Orderly
  <2>2. WaitsAt(1) /\ ~Guarded(1)
    BY <1>1, <2>1 DEF HandlersWait, Guarded
  <2>3. (Turn => Turn') /\ (~next => ~next')
    BY <1>1, ChainAssumption DEF CallNext, ctxVars, Turn, ChainTypes
  <2>4. Turn' \/ ~next' \/ Reguarded(1, 2)
    BY <1>1, <2>1, <2>2
    DEF CallNext, ctxVars, HandlersWait, Turn, Reguarded, Guards, ChainTypes,
        Orderly, WaitsAt
  <2>5. \A i \in 1..2 : WaitsAt(i)'
    BY <1>1, <2>1, <2>2
    DEF CallNext, ctxVars, HandlersWait, WaitsAt, Turn, Guarded, Guards, ChainTypes,
        Call, Orderly
  <2>6. \A i \in DOMAIN stack' : WaitsAt(i)'
    BY <1>1, <2>1, <2>3, <2>4, <2>5, WaitsKept DEF HandlersWait
  <2> QED
    BY <1>1, <2>1, <2>2, <2>6, ChainAssumption
    DEF CallNext, ctxVars, HandlersWait, Turn, ChainTypes, WaitsAt, Orderly
<1>5. (Quiet => ServesAll)'
  <2> SUFFICES ASSUME Quiet' PROVE ServesAll'
    OBVIOUS
  <2>1. Quiet /\ ServesAll
    BY DEF CallNext, ctxVars, Quiet
  <2>2. ServesAt(Len(stack)) /\ ~Guarded(1)
    BY <1>1, <2>1 DEF ServesAll, Guarded
  <2>3. ~nextMW' => mwIdx' >= NM
    BY <2>1, ChainAssumption DEF CallNext, ctxVars, ServesAll, Quiet, ChainTypes
  <2>4. ~next' => hIdx' >= NH
    BY <2>1, ChainAssumption DEF CallNext, ctxVars, ServesAll, Quiet, ChainTypes
  <2>5. CASE Len(stack) = 1
    <3>1. Len(stack') = 2 /\ stack' # <<>>
      BY <1>1, <2>5 DEF Replaced, Known
    <3>2. ServesAt(Len(stack))'
      BY <1>1, <2>1, <2>2, <2>5, <3>1
      DEF CallNext, ctxVars, ServesAll, ServesAt, Guarded, Guards, Quiet, ChainTypes,
          Replaced
    <3> QED
      BY <2>3, <2>4, <3>1, <3>2 DEF ServesAll
  <2>6. CASE Len(stack) > 1
    <3>1. /\ mwIdx >= NM => mwIdx' >= NM
          /\ mwIdx' >= NM \/ Reguarded(1, 2)
      BY <1>1, <2>1, ChainAssumption
      DEF CallNext, ctxVars, ServesAll, Quiet, Reguarded, Guards, ChainTypes
    <3>2. stack' # <<>> /\ ServesAt(Len(stack))'
      BY <1>1, <2>2, <2>6, <3>1, ServesKept
    <3> QED
      BY <2>3, <2>4, <3>2 DEF ServesAll
  <2> QED
    BY <1>1, <2>5, <2>6 DEF Replaced, Known
<1>6. BreakTakesNext'
  BY <1>1 DEF CallNext, ctxVars, BreakTakesNext, Call
<1>7. NoHandlerStep
  <2>1. hIdx' = hIdx /\ \A i \in 1..2 : stack'[i] # "next"
    BY <1>1 DEF CallNext, ctxVars, Call
  <2> QED
    BY <1>1, <2>1, NoNextKept
<1> QED
  BY <1>2, <1>3, <1>4, <1>5, <1>6, <1>7

\* NextMiddleware enters the loop over the middlewares.
LEMMA MiddlewaresEntered ==
  ASSUME ChainInv, CallNextMiddleware, nextMW
  PROVE  ChainInv' /\ NoHandlerStep
<1> USE DEF ChainInv
<1>1. /\ Replaced(stack, stack', 1, 1) /\ stack'[1] = "nextMW"
      /\ stack[1] = "NextMiddleware"
      /\ stack \in Seq(Frame) /\ stack # <<>> /\ 1 \in DOMAIN stack
  <2>1. stack \in Seq(Frame) /\ stack # <<>> /\ stack' = <<"nextMW">> \o Tail(stack)
    BY DEF CallNextMiddleware, At, User, Below, ChainTypes
  <2>2. /\ Replaced(stack, stack', 1, 1)
        /\ stack'[1] = "nextMW"
        /\ Head(stack) = stack[1]
    BY <2>1, Pop, Swap DEF Frame, Call
  <2>3. 1 \in DOMAIN stack
    BY <2>1, EmptySeq
  <2>4. stack[1] = "NextMiddleware"
    BY <2>1, <2>2, <2>3 DEF CallNextMiddleware, At, User
  <2> QED
    BY <2>1, <2>2, <2>3, <2>4
<1>2. ChainTypes'
  <2>1. stack' \in Seq(Frame)
    BY <1>1 DEF Replaced, Known
  <2> QED
    BY <1>1, <2>1, ChainAssumption DEF CallNextMiddleware, ctxVars, ChainTypes
<1>3. Nested'
  <2>1. \A i \in 1..1 : i = 1
    OBVIOUS
  <2>2. \A i \in 1..1 : NestedAt(i)'
    BY <1>1, <2>1 DEF CallNextMiddleware, ctxVars, NestedAt, Replaced, Known, Call
  <2> QED
    BY <1>1, <2>2, NestedKept
<1>4. (Orderly => HandlersWait)'
  <2> SUFFICES ASSUME Orderly' PROVE HandlersWait'
    OBVIOUS
  <2>1. Orderly /\ HandlersWait
    BY DEF CallNextMiddleware, ctxVars, Orderly
  <2>2. WaitsAt(1) /\ ~Guarded(1)
    BY <1>1, <2>1 DEF HandlersWait, Guarded
  <2>3. (Turn => Turn') /\ (~next => ~next')
    BY <1>1, ChainAssumption DEF CallNextMiddleware, ctxVars, Turn, ChainTypes
  <2>4. Turn' \/ ~next' \/ Reguarded(1, 1)
    BY <1>1, <2>1, <2>2
    DEF CallNextMiddleware, ctxVars, HandlersWait, Turn, Reguarded, Guards,
        ChainTypes, Orderly, WaitsAt
  <2>5. \A i \in 1..1 : WaitsAt(i)'
    BY <1>1, <2>1, <2>2
    DEF CallNextMiddleware, ctxVars, HandlersWait, WaitsAt, Turn, Guarded,
        Guards, ChainTypes, Call, Orderly
  <2>6. \A i \in DOMAIN stack' : WaitsAt(i)'
    BY <1>1, <2>1, <2>3, <2>4, <2>5, WaitsKept DEF HandlersWait
  <2> QED
    BY <1>1, <2>1, <2>2, <2>6, ChainAssumption
    DEF CallNextMiddleware, ctxVars, HandlersWait, Turn, ChainTypes, WaitsAt,
        Orderly
<1>5. (Quiet => ServesAll)'
  <2> SUFFICES ASSUME Quiet' PROVE ServesAll'
    OBVIOUS
  <2>1. Quiet /\ ServesAll
    BY DEF CallNextMiddleware, ctxVars, Quiet
  <2>2. ServesAt(Len(stack)) /\ ~Guarded(1)
    BY <1>1, <2>1 DEF ServesAll, Guarded
  <2>3. ~nextMW' => mwIdx' >= NM
    BY <2>1, ChainAssumption
    DEF CallNextMiddleware, ctxVars, ServesAll, Quiet, ChainTypes
  <2>4. ~next' => hIdx' >= NH
    BY <2>1, ChainAssumption
    DEF CallNextMiddleware, ctxVars, ServesAll, Quiet, ChainTypes
  <2>5. CASE Len(stack) = 1
    <3>1. Len(stack') = 1 /\ stack' # <<>>
      BY <1>1, <2>5 DEF Replaced, Known
    <3>2. ServesAt(Len(stack))'
      BY <1>1, <2>1, <2>2, <2>5, <3>1
      DEF CallNextMiddleware, ctxVars, ServesAll, ServesAt, Guarded, Guards,
          Quiet, ChainTypes, Replaced
    <3> QED
      BY <2>3, <2>4, <3>1, <3>2 DEF ServesAll
  <2>6. CASE Len(stack) > 1
    <3>1. /\ mwIdx >= NM => mwIdx' >= NM
          /\ mwIdx' >= NM \/ Reguarded(1, 1)
      BY <1>1, <2>1, ChainAssumption
      DEF CallNextMiddleware, ctxVars, ServesAll, Quiet, Reguarded, Guards,
          ChainTypes
    <3>2. stack' # <<>> /\ ServesAt(Len(stack))'
      BY <1>1, <2>2, <2>6, <3>1, ServesKept
    <3> QED
      BY <2>3, <2>4, <3>2 DEF ServesAll
  <2> QED
    BY <1>1, <2>5, <2>6 DEF Replaced, Known
<1>6. BreakTakesNext'
  BY <1>1 DEF CallNextMiddleware, ctxVars, BreakTakesNext, Call
<1>7. NoHandlerStep
  <2>1. hIdx' = hIdx /\ \A i \in 1..1 : stack'[i] # "next"
    BY <1>1 DEF CallNextMiddleware, ctxVars, Call
  <2> QED
    BY <1>1, <2>1, NoNextKept
<1> QED
  BY <1>2, <1>3, <1>4, <1>5, <1>6, <1>7

\* NextMiddleware does nothing once that loop has ended.
LEMMA MiddlewaresPassed ==
  ASSUME ChainInv, CallNextMiddleware, ~nextMW
  PROVE  ChainInv' /\ NoHandlerStep
<1> USE DEF ChainInv
<1>1. /\ Replaced(stack, stack', 1, 0)
      /\ stack[1] = "NextMiddleware"
      /\ stack \in Seq(Frame) /\ stack # <<>> /\ 1 \in DOMAIN stack
  <2>1. stack \in Seq(Frame) /\ stack # <<>> /\ stack' = <<>> \o Tail(stack)
    BY DEF CallNextMiddleware, At, User, Below, ChainTypes
  <2>2. Replaced(stack, stack', 1, 0) /\ Head(stack) = stack[1]
    <3>1. stack' = Tail(stack)
      BY <2>1, Popped, ConcatEmptySeq DEF Known
    <3> QED
      BY <2>1, <3>1, Pop
  <2>3. 1 \in DOMAIN stack
    BY <2>1, EmptySeq
  <2>4. stack[1] = "NextMiddleware"
    BY <2>1, <2>2, <2>3 DEF CallNextMiddleware, At, User
  <2> QED
    BY <2>1, <2>2, <2>3, <2>4
<1>2. ChainTypes'
  <2>1. stack' \in Seq(Frame)
    BY <1>1 DEF Replaced, Known
  <2> QED
    BY <1>1, <2>1, ChainAssumption DEF CallNextMiddleware, ctxVars, ChainTypes
<1>3. Nested'
  <2>1. \A i \in 1..0 : FALSE
    OBVIOUS
  <2>2. \A i \in 1..0 : NestedAt(i)'
    BY <2>1
  <2> QED
    BY <1>1, <2>2, NestedKept
<1>4. (Orderly => HandlersWait)'
  <2> SUFFICES ASSUME Orderly' PROVE HandlersWait'
    OBVIOUS
  <2>1. Orderly /\ HandlersWait
    BY DEF CallNextMiddleware, ctxVars, Orderly
  <2>2. WaitsAt(1) /\ ~Guarded(1)
    BY <1>1, <2>1 DEF HandlersWait, Guarded
  <2>3. (Turn => Turn') /\ (~next => ~next')
    BY <1>1, ChainAssumption DEF CallNextMiddleware, ctxVars, Turn, ChainTypes
  <2>4. Turn' \/ ~next' \/ Reguarded(1, 0)
    BY <1>1, <2>1, <2>2
    DEF CallNextMiddleware, ctxVars, HandlersWait, Turn, Reguarded, Guards,
        ChainTypes, Orderly, WaitsAt
  <2>5. \A i \in 1..0 : WaitsAt(i)'
    BY <1>1, <2>1, <2>2
    DEF CallNextMiddleware, ctxVars, HandlersWait, WaitsAt, Turn, Guarded,
        Guards, ChainTypes, Call, Orderly
  <2>6. \A i \in DOMAIN stack' : WaitsAt(i)'
    BY <1>1, <2>1, <2>3, <2>4, <2>5, WaitsKept DEF HandlersWait
  <2> QED
    BY <1>1, <2>1, <2>2, <2>6, ChainAssumption
    DEF CallNextMiddleware, ctxVars, HandlersWait, Turn, ChainTypes, WaitsAt,
        Orderly
<1>5. (Quiet => ServesAll)'
  <2> SUFFICES ASSUME Quiet' PROVE ServesAll'
    OBVIOUS
  <2>1. Quiet /\ ServesAll
    BY DEF CallNextMiddleware, ctxVars, Quiet
  <2>2. ServesAt(Len(stack)) /\ ~Guarded(1)
    BY <1>1, <2>1 DEF ServesAll, Guarded
  <2>3. ~nextMW' => mwIdx' >= NM
    BY <2>1, ChainAssumption
    DEF CallNextMiddleware, ctxVars, ServesAll, Quiet, ChainTypes
  <2>4. ~next' => hIdx' >= NH
    BY <2>1, ChainAssumption
    DEF CallNextMiddleware, ctxVars, ServesAll, Quiet, ChainTypes
  <2>5. CASE Len(stack) = 1
    <3>1. stack' = <<>>
      BY <1>1, <2>5 DEF Replaced, Known
    <3>2. mwIdx' >= NM /\ hIdx' >= NH
      BY <1>1, <2>1, <2>2, <2>5, ChainAssumption
      DEF CallNextMiddleware, ctxVars, ServesAll, ServesAt, Quiet, ChainTypes
    <3> QED
      BY <2>3, <2>4, <3>1, <3>2 DEF ServesAll
  <2>6. CASE Len(stack) > 1
    <3>1. /\ mwIdx >= NM => mwIdx' >= NM
          /\ mwIdx' >= NM \/ Reguarded(1, 0)
      BY <1>1, <2>1, ChainAssumption
      DEF CallNextMiddleware, ctxVars, ServesAll, Quiet, Reguarded, Guards,
          ChainTypes
    <3>2. stack' # <<>> /\ ServesAt(Len(stack))'
      BY <1>1, <2>2, <2>6, <3>1, ServesKept
    <3> QED
      BY <2>3, <2>4, <3>2 DEF ServesAll
  <2> QED
    BY <1>1, <2>5, <2>6 DEF Replaced, Known
<1>6. BreakTakesNext'
  BY <1>1 DEF CallNextMiddleware, ctxVars, BreakTakesNext, Call
<1>7. NoHandlerStep
  <2>1. hIdx' = hIdx /\ \A i \in 1..0 : stack'[i] # "next"
    BY <1>1 DEF CallNextMiddleware, ctxVars, Call
  <2> QED
    BY <1>1, <2>1, NoNextKept
<1> QED
  BY <1>2, <1>3, <1>4, <1>5, <1>6, <1>7

\* NextHandler enters the loop over the handlers.
LEMMA HandlersEntered ==
  ASSUME ChainInv, CallNextHandler, next
  PROVE  ChainInv' /\ NoHandlerStep
<1> USE DEF ChainInv
<1>1. /\ Replaced(stack, stack', 1, 1) /\ stack'[1] = "next"
      /\ stack[1] = "NextHandler"
      /\ stack \in Seq(Frame) /\ stack # <<>> /\ 1 \in DOMAIN stack
  <2>1. stack \in Seq(Frame) /\ stack # <<>> /\ stack' = <<"next">> \o Tail(stack)
    BY DEF CallNextHandler, At, User, Below, ChainTypes
  <2>2. Replaced(stack, stack', 1, 1) /\ stack'[1] = "next" /\ Head(stack) = stack[1]
    BY <2>1, Pop, Swap DEF Frame, Call
  <2>3. 1 \in DOMAIN stack
    BY <2>1, EmptySeq
  <2>4. stack[1] = "NextHandler"
    BY <2>1, <2>2, <2>3 DEF CallNextHandler, At, User
  <2> QED
    BY <2>1, <2>2, <2>3, <2>4
<1>2. ChainTypes'
  <2>1. stack' \in Seq(Frame)
    BY <1>1 DEF Replaced, Known
  <2> QED
    BY <1>1, <2>1, ChainAssumption DEF CallNextHandler, ctxVars, ChainTypes
<1>3. Nested'
  <2>1. \A i \in 1..1 : i = 1
    OBVIOUS
  <2>2. \A i \in 1..1 : NestedAt(i)'
    BY <1>1, <2>1 DEF CallNextHandler, ctxVars, NestedAt, Replaced, Known, Call
  <2> QED
    BY <1>1, <2>2, NestedKept
<1>4. (Orderly => HandlersWait)'
  <2> SUFFICES ASSUME Orderly' PROVE HandlersWait'
    OBVIOUS
  <2>1. Orderly /\ HandlersWait
    BY DEF CallNextHandler, ctxVars, Orderly
  <2>2. WaitsAt(1) /\ ~Guarded(1)
    BY <1>1, <2>1 DEF HandlersWait, Guarded
  <2>3. (Turn => Turn') /\ (~next => ~next')
    BY <1>1, ChainAssumption DEF CallNextHandler, ctxVars, Turn, ChainTypes
  <2>4. Turn' \/ ~next' \/ Reguarded(1, 1)
    BY <1>1, <2>1, <2>2
    DEF CallNextHandler, ctxVars, HandlersWait, Turn, Reguarded, Guards, ChainTypes,
        Orderly, WaitsAt
  <2>5. \A i \in 1..1 : WaitsAt(i)'
    BY <1>1, <2>1, <2>2
    DEF CallNextHandler, ctxVars, HandlersWait, WaitsAt, Turn, Guarded, Guards,
        ChainTypes, Call, Orderly
  <2>6. \A i \in DOMAIN stack' : WaitsAt(i)'
    BY <1>1, <2>1, <2>3, <2>4, <2>5, WaitsKept DEF HandlersWait
  <2> QED
    BY <1>1, <2>1, <2>2, <2>6, ChainAssumption
    DEF CallNextHandler, ctxVars, HandlersWait, Turn, ChainTypes, WaitsAt, Orderly
<1>5. (Quiet => ServesAll)'
  <2> SUFFICES ASSUME Quiet' PROVE ServesAll'
    OBVIOUS
  <2>1. Quiet /\ ServesAll
    BY DEF CallNextHandler, ctxVars, Quiet
  <2>2. ServesAt(Len(stack)) /\ ~Guarded(1)
    BY <1>1, <2>1 DEF ServesAll, Guarded
  <2>3. ~nextMW' => mwIdx' >= NM
    BY <2>1, ChainAssumption
    DEF CallNextHandler, ctxVars, ServesAll, Quiet, ChainTypes
  <2>4. ~next' => hIdx' >= NH
    BY <2>1, ChainAssumption
    DEF CallNextHandler, ctxVars, ServesAll, Quiet, ChainTypes
  <2>5. CASE Len(stack) = 1
    <3>1. Len(stack') = 1 /\ stack' # <<>>
      BY <1>1, <2>5 DEF Replaced, Known
    <3>2. ServesAt(Len(stack))'
      BY <1>1, <2>1, <2>2, <2>5, <3>1
      DEF CallNextHandler, ctxVars, ServesAll, ServesAt, Guarded, Guards, Quiet,
          ChainTypes, Replaced
    <3> QED
      BY <2>3, <2>4, <3>1, <3>2 DEF ServesAll
  <2>6. CASE Len(stack) > 1
    <3>1. /\ mwIdx >= NM => mwIdx' >= NM
          /\ mwIdx' >= NM \/ Reguarded(1, 1)
      BY <1>1, <2>1, ChainAssumption
      DEF CallNextHandler, ctxVars, ServesAll, Quiet, Reguarded, Guards, ChainTypes
    <3>2. stack' # <<>> /\ ServesAt(Len(stack))'
      BY <1>1, <2>2, <2>6, <3>1, ServesKept
    <3> QED
      BY <2>3, <2>4, <3>2 DEF ServesAll
  <2> QED
    BY <1>1, <2>5, <2>6 DEF Replaced, Known
<1>6. BreakTakesNext'
  BY <1>1 DEF CallNextHandler, ctxVars, BreakTakesNext, Call
<1>7. NoHandlerStep
  BY <1>1 DEF NoHandlerStep
<1> QED
  BY <1>2, <1>3, <1>4, <1>5, <1>6, <1>7

\* NextHandler does nothing once that loop has ended, or may not begin.
LEMMA HandlersPassed ==
  ASSUME ChainInv, CallNextHandler, ~next
  PROVE  ChainInv' /\ NoHandlerStep
<1> USE DEF ChainInv
<1>1. /\ Replaced(stack, stack', 1, 0)
      /\ stack[1] = "NextHandler"
      /\ stack \in Seq(Frame) /\ stack # <<>> /\ 1 \in DOMAIN stack
  <2>1. stack \in Seq(Frame) /\ stack # <<>> /\ stack' = <<>> \o Tail(stack)
    BY DEF CallNextHandler, At, User, Below, ChainTypes
  <2>2. Replaced(stack, stack', 1, 0) /\ Head(stack) = stack[1]
    <3>1. stack' = Tail(stack)
      BY <2>1, Popped, ConcatEmptySeq DEF Known
    <3> QED
      BY <2>1, <3>1, Pop
  <2>3. 1 \in DOMAIN stack
    BY <2>1, EmptySeq
  <2>4. stack[1] = "NextHandler"
    BY <2>1, <2>2, <2>3 DEF CallNextHandler, At, User
  <2> QED
    BY <2>1, <2>2, <2>3, <2>4
<1>2. ChainTypes'
  <2>1. stack' \in Seq(Frame)
    BY <1>1 DEF Replaced, Known
  <2> QED
    BY <1>1, <2>1, ChainAssumption DEF CallNextHandler, ctxVars, ChainTypes
<1>3. Nested'
  <2>1. \A i \in 1..0 : FALSE
    OBVIOUS
  <2>2. \A i \in 1..0 : NestedAt(i)'
    BY <2>1
  <2> QED
    BY <1>1, <2>2, NestedKept
<1>4. (Orderly => HandlersWait)'
  <2> SUFFICES ASSUME Orderly' PROVE HandlersWait'
    OBVIOUS
  <2>1. Orderly /\ HandlersWait
    BY DEF CallNextHandler, ctxVars, Orderly
  <2>2. WaitsAt(1) /\ ~Guarded(1)
    BY <1>1, <2>1 DEF HandlersWait, Guarded
  <2>3. (Turn => Turn') /\ (~next => ~next')
    BY <1>1, ChainAssumption DEF CallNextHandler, ctxVars, Turn, ChainTypes
  <2>4. Turn' \/ ~next' \/ Reguarded(1, 0)
    BY <1>1, <2>1, <2>2
    DEF CallNextHandler, ctxVars, HandlersWait, Turn, Reguarded, Guards, ChainTypes,
        Orderly, WaitsAt
  <2>5. \A i \in 1..0 : WaitsAt(i)'
    BY <1>1, <2>1, <2>2
    DEF CallNextHandler, ctxVars, HandlersWait, WaitsAt, Turn, Guarded, Guards,
        ChainTypes, Call, Orderly
  <2>6. \A i \in DOMAIN stack' : WaitsAt(i)'
    BY <1>1, <2>1, <2>3, <2>4, <2>5, WaitsKept DEF HandlersWait
  <2> QED
    BY <1>1, <2>1, <2>2, <2>6, ChainAssumption
    DEF CallNextHandler, ctxVars, HandlersWait, Turn, ChainTypes, WaitsAt, Orderly
<1>5. (Quiet => ServesAll)'
  <2> SUFFICES ASSUME Quiet' PROVE ServesAll'
    OBVIOUS
  <2>1. Quiet /\ ServesAll
    BY DEF CallNextHandler, ctxVars, Quiet
  <2>2. ServesAt(Len(stack)) /\ ~Guarded(1)
    BY <1>1, <2>1 DEF ServesAll, Guarded
  <2>3. ~nextMW' => mwIdx' >= NM
    BY <2>1, ChainAssumption
    DEF CallNextHandler, ctxVars, ServesAll, Quiet, ChainTypes
  <2>4. ~next' => hIdx' >= NH
    BY <2>1, ChainAssumption
    DEF CallNextHandler, ctxVars, ServesAll, Quiet, ChainTypes
  <2>5. CASE Len(stack) = 1
    <3>1. stack' = <<>>
      BY <1>1, <2>5 DEF Replaced, Known
    <3>2. mwIdx' >= NM /\ hIdx' >= NH
      BY <1>1, <2>1, <2>2, <2>5, ChainAssumption
      DEF CallNextHandler, ctxVars, ServesAll, ServesAt, Quiet, ChainTypes
    <3> QED
      BY <2>3, <2>4, <3>1, <3>2 DEF ServesAll
  <2>6. CASE Len(stack) > 1
    <3>1. /\ mwIdx >= NM => mwIdx' >= NM
          /\ mwIdx' >= NM \/ Reguarded(1, 0)
      BY <1>1, <2>1, ChainAssumption
      DEF CallNextHandler, ctxVars, ServesAll, Quiet, Reguarded, Guards, ChainTypes
    <3>2. stack' # <<>> /\ ServesAt(Len(stack))'
      BY <1>1, <2>2, <2>6, <3>1, ServesKept
    <3> QED
      BY <2>3, <2>4, <3>2 DEF ServesAll
  <2> QED
    BY <1>1, <2>5, <2>6 DEF Replaced, Known
<1>6. BreakTakesNext'
  BY <1>1 DEF CallNextHandler, ctxVars, BreakTakesNext, Call
<1>7. NoHandlerStep
  <2>1. hIdx' = hIdx /\ \A i \in 1..0 : stack'[i] # "next"
    BY <1>1 DEF CallNextHandler, ctxVars, Call
  <2> QED
    BY <1>1, <2>1, NoNextKept
<1> QED
  BY <1>2, <1>3, <1>4, <1>5, <1>6, <1>7

\* A middleware starts.
LEMMA MiddlewareStarts ==
  ASSUME ChainInv, StartMiddleware
  PROVE  ChainInv' /\ NoHandlerStep
<1> USE DEF ChainInv
<1>1. /\ Replaced(stack, stack', 0, 1) /\ stack'[1] = "mw"
      /\ stack[1] = "nextMW"
      /\ stack \in Seq(Frame) /\ stack # <<>> /\ 1 \in DOMAIN stack
  <2>1. stack \in Seq(Frame) /\ stack # <<>> /\ stack' = <<"mw">> \o stack
    BY DEF StartMiddleware, At, User, Below, ChainTypes
  <2>2. Replaced(stack, stack', 0, 1) /\ stack'[1] = "mw" /\ Head(stack) = stack[1]
    BY <2>1, Pop, Push DEF Frame, Call
  <2>3. 1 \in DOMAIN stack
    BY <2>1, EmptySeq
  <2>4. stack[1] = "nextMW"
    BY <2>1, <2>2, <2>3 DEF StartMiddleware, At, User
  <2> QED
    BY <2>1, <2>2, <2>3, <2>4
<1>2. ChainTypes'
  <2>1. stack' \in Seq(Frame)
    BY <1>1 DEF Replaced, Known
  <2> QED
    BY <1>1, <2>1, ChainAssumption DEF StartMiddleware, ctxVars, ChainTypes
<1>3. Nested'
  <2>1. \A i \in 1..1 : i = 1
    OBVIOUS
  <2>2. \A i \in 1..1 : NestedAt(i)'
    BY <1>1, <2>1 DEF StartMiddleware, ctxVars, NestedAt, Replaced, Known, Call
  <2> QED
    BY <1>1, <2>2, NestedKept
<1>4. (Orderly => HandlersWait)'
  <2> SUFFICES ASSUME Orderly' PROVE HandlersWait'
    OBVIOUS
  <2>1. Orderly /\ HandlersWait
    BY DEF StartMiddleware, ctxVars, Orderly
  <2>2. WaitsAt(1) /\ ~Guarded(1)
    BY <1>1, <2>1 DEF HandlersWait, Guarded
  <2>3. (Turn => Turn') /\ (~next => ~next')
    BY <1>1, ChainAssumption DEF StartMiddleware, ctxVars, Turn, ChainTypes
  <2>4. Turn' \/ ~next' \/ Reguarded(0, 1)
    BY <1>1, <2>1, <2>2
    DEF StartMiddleware, ctxVars, HandlersWait, Turn, Reguarded, Guards, ChainTypes,
        Orderly, WaitsAt
  <2>5. \A i \in 1..1 : WaitsAt(i)'
    BY <1>1, <2>1, <2>2
    DEF StartMiddleware, ctxVars, HandlersWait, WaitsAt, Turn, Guarded, Guards,
        ChainTypes, Call, Orderly
  <2>6. \A i \in DOMAIN stack' : WaitsAt(i)'
    BY <1>1, <2>1, <2>3, <2>4, <2>5, WaitsKept DEF HandlersWait
  <2> QED
    BY <1>1, <2>1, <2>2, <2>6, ChainAssumption
    DEF StartMiddleware, ctxVars, HandlersWait, Turn, ChainTypes, WaitsAt, Orderly
<1>5. (Quiet => ServesAll)'
  <2> SUFFICES ASSUME Quiet' PROVE ServesAll'
    OBVIOUS
  <2>1. Quiet /\ ServesAll
    BY DEF StartMiddleware, ctxVars, Quiet
  <2>2. ServesAt(Len(stack)) /\ ~Guarded(1)
    BY <1>1, <2>1 DEF ServesAll, Guarded
  <2>3. ~nextMW' => mwIdx' >= NM
    BY <2>1, ChainAssumption
    DEF StartMiddleware, ctxVars, ServesAll, Quiet, ChainTypes
  <2>4. ~next' => hIdx' >= NH
    BY <2>1, ChainAssumption
    DEF StartMiddleware, ctxVars, ServesAll, Quiet, ChainTypes
  <2>5. CASE Len(stack) = 1
    <3>1. Len(stack') = 2 /\ stack' # <<>>
      BY <1>1, <2>5 DEF Replaced, Known
    <3>2. ServesAt(Len(stack))'
      BY <1>1, <2>1, <2>2, <2>5, <3>1
      DEF StartMiddleware, ctxVars, ServesAll, ServesAt, Guarded, Guards, Quiet,
          ChainTypes, Replaced
    <3> QED
      BY <2>3, <2>4, <3>1, <3>2 DEF ServesAll
  <2>6. CASE Len(stack) > 1
    <3>1. /\ mwIdx >= NM => mwIdx' >= NM
          /\ mwIdx' >= NM \/ Reguarded(0, 1)
      BY <1>1, <2>1, ChainAssumption
      DEF StartMiddleware, ctxVars, ServesAll, Quiet, Reguarded, Guards, ChainTypes
    <3>2. stack' # <<>> /\ ServesAt(Len(stack))'
      BY <1>1, <2>2, <2>6, <3>1, ServesKept
    <3> QED
      BY <2>3, <2>4, <3>2 DEF ServesAll
  <2> QED
    BY <1>1, <2>5, <2>6 DEF Replaced, Known
<1>6. BreakTakesNext'
  BY <1>1 DEF StartMiddleware, ctxVars, BreakTakesNext, Call
<1>7. NoHandlerStep
  <2>1. hIdx' = hIdx /\ \A i \in 1..1 : stack'[i] # "next"
    BY <1>1 DEF StartMiddleware, ctxVars, Call
  <2> QED
    BY <1>1, <2>1, NoNextKept
<1> QED
  BY <1>2, <1>3, <1>4, <1>5, <1>6, <1>7

\* The loop over the middlewares ends.
LEMMA MiddlewaresEnd ==
  ASSUME ChainInv, EndMiddlewares
  PROVE  ChainInv' /\ NoHandlerStep
<1> USE DEF ChainInv
<1>1. /\ Replaced(stack, stack', 1, 0)
      /\ stack[1] = "nextMW"
      /\ stack \in Seq(Frame) /\ stack # <<>> /\ 1 \in DOMAIN stack
  <2>1. stack \in Seq(Frame) /\ stack # <<>> /\ stack' = Tail(stack)
    BY DEF EndMiddlewares, At, User, Below, ChainTypes
  <2>2. Replaced(stack, stack', 1, 0) /\ Head(stack) = stack[1]
    BY <2>1, Pop
  <2>3. 1 \in DOMAIN stack
    BY <2>1, EmptySeq
  <2>4. stack[1] = "nextMW"
    BY <2>1, <2>2, <2>3 DEF EndMiddlewares, At, User
  <2> QED
    BY <2>1, <2>2, <2>3, <2>4
<1>2. ChainTypes'
  <2>1. stack' \in Seq(Frame)
    BY <1>1 DEF Replaced, Known
  <2> QED
    BY <1>1, <2>1, ChainAssumption DEF EndMiddlewares, ctxVars, ChainTypes
<1>3. Nested'
  <2>1. \A i \in 1..0 : FALSE
    OBVIOUS
  <2>2. \A i \in 1..0 : NestedAt(i)'
    BY <2>1
  <2> QED
    BY <1>1, <2>2, NestedKept
<1>4. (Orderly => HandlersWait)'
  <2> SUFFICES ASSUME Orderly' PROVE HandlersWait'
    OBVIOUS
  <2>1. Orderly /\ HandlersWait
    BY DEF EndMiddlewares, ctxVars, Orderly
  <2>2. WaitsAt(1) /\ ~Guarded(1)
    BY <1>1, <2>1 DEF HandlersWait, Guarded
  <2>3. (Turn => Turn') /\ (~next => ~next')
    BY <1>1, ChainAssumption DEF EndMiddlewares, ctxVars, Turn, ChainTypes
  <2>4. Turn' \/ ~next' \/ Reguarded(1, 0)
    BY <1>1, <2>1, <2>2
    DEF EndMiddlewares, ctxVars, HandlersWait, Turn, Reguarded, Guards, ChainTypes,
        Orderly, WaitsAt
  <2>5. \A i \in 1..0 : WaitsAt(i)'
    BY <1>1, <2>1, <2>2
    DEF EndMiddlewares, ctxVars, HandlersWait, WaitsAt, Turn, Guarded, Guards,
        ChainTypes, Call, Orderly
  <2>6. \A i \in DOMAIN stack' : WaitsAt(i)'
    BY <1>1, <2>1, <2>3, <2>4, <2>5, WaitsKept DEF HandlersWait
  <2> QED
    BY <1>1, <2>1, <2>2, <2>6, ChainAssumption
    DEF EndMiddlewares, ctxVars, HandlersWait, Turn, ChainTypes, WaitsAt, Orderly
<1>5. (Quiet => ServesAll)'
  <2> SUFFICES ASSUME Quiet' PROVE ServesAll'
    OBVIOUS
  <2>1. Quiet /\ ServesAll
    BY DEF EndMiddlewares, ctxVars, Quiet
  <2>2. ServesAt(Len(stack)) /\ ~Guarded(1)
    BY <1>1, <2>1 DEF ServesAll, Guarded
  <2>3. ~nextMW' => mwIdx' >= NM
    BY <2>1, ChainAssumption
    DEF EndMiddlewares, ctxVars, ServesAll, Quiet, ChainTypes
  <2>4. ~next' => hIdx' >= NH
    BY <2>1, ChainAssumption
    DEF EndMiddlewares, ctxVars, ServesAll, Quiet, ChainTypes
  <2>5. CASE Len(stack) = 1
    <3>1. stack' = <<>>
      BY <1>1, <2>5 DEF Replaced, Known
    <3>2. mwIdx' >= NM /\ hIdx' >= NH
      BY <1>1, <2>1, <2>2, <2>5, ChainAssumption
      DEF EndMiddlewares, ctxVars, ServesAll, ServesAt, Quiet, ChainTypes
    <3> QED
      BY <2>3, <2>4, <3>1, <3>2 DEF ServesAll
  <2>6. CASE Len(stack) > 1
    <3>1. /\ mwIdx >= NM => mwIdx' >= NM
          /\ mwIdx' >= NM \/ Reguarded(1, 0)
      BY <1>1, <2>1, ChainAssumption
      DEF EndMiddlewares, ctxVars, ServesAll, Quiet, Reguarded, Guards, ChainTypes
    <3>2. stack' # <<>> /\ ServesAt(Len(stack))'
      BY <1>1, <2>2, <2>6, <3>1, ServesKept
    <3> QED
      BY <2>3, <2>4, <3>2 DEF ServesAll
  <2> QED
    BY <1>1, <2>5, <2>6 DEF Replaced, Known
<1>6. BreakTakesNext'
  BY <1>1 DEF EndMiddlewares, ctxVars, BreakTakesNext, Call
<1>7. NoHandlerStep
  <2>1. hIdx' = hIdx /\ \A i \in 1..0 : stack'[i] # "next"
    BY <1>1 DEF EndMiddlewares, ctxVars, Call
  <2> QED
    BY <1>1, <2>1, NoNextKept
<1> QED
  BY <1>2, <1>3, <1>4, <1>5, <1>6, <1>7

\* A handler starts: it is the handlers' turn.
LEMMA HandlerStarts ==
  ASSUME ChainInv, StartHandler
  PROVE  ChainInv' /\ NoHandlerStep
<1> USE DEF ChainInv
<1>1. /\ Replaced(stack, stack', 0, 1) /\ stack'[1] = "h"
      /\ stack[1] = "next"
      /\ stack \in Seq(Frame) /\ stack # <<>> /\ 1 \in DOMAIN stack
  <2>1. stack \in Seq(Frame) /\ stack # <<>> /\ stack' = <<"h">> \o stack
    BY DEF StartHandler, At, User, Below, ChainTypes
  <2>2. Replaced(stack, stack', 0, 1) /\ stack'[1] = "h" /\ Head(stack) = stack[1]
    BY <2>1, Pop, Push DEF Frame, Call
  <2>3. 1 \in DOMAIN stack
    BY <2>1, EmptySeq
  <2>4. stack[1] = "next"
    BY <2>1, <2>2, <2>3 DEF StartHandler, At, User
  <2> QED
    BY <2>1, <2>2, <2>3, <2>4
<1>2. ChainTypes'
  <2>1. stack' \in Seq(Frame)
    BY <1>1 DEF Replaced, Known
  <2> QED
    BY <1>1, <2>1, ChainAssumption DEF StartHandler, ctxVars, ChainTypes
<1>3. Nested'
  <2>1. \A i \in 1..1 : i = 1
    OBVIOUS
  <2>2. \A i \in 1..1 : NestedAt(i)'
    BY <1>1, <2>1 DEF StartHandler, ctxVars, NestedAt, Replaced, Known, Call
  <2> QED
    BY <1>1, <2>2, NestedKept
<1>4. (Orderly => HandlersWait)'
  <2> SUFFICES ASSUME Orderly' PROVE HandlersWait'
    OBVIOUS
  <2>1. Orderly /\ HandlersWait
    BY DEF StartHandler, ctxVars, Orderly
  <2>2. WaitsAt(1) /\ ~Guarded(1)
    BY <1>1, <2>1 DEF HandlersWait, Guarded
  <2>3. (Turn => Turn') /\ (~next => ~next')
    BY <1>1, ChainAssumption DEF StartHandler, ctxVars, Turn, ChainTypes
  <2>4. Turn' \/ ~next' \/ Reguarded(0, 1)
    BY <1>1, <2>1, <2>2
    DEF StartHandler, ctxVars, HandlersWait, Turn, Reguarded, Guards, ChainTypes,
        Orderly, WaitsAt
  <2>5. \A i \in 1..1 : WaitsAt(i)'
    BY <1>1, <2>1, <2>2
    DEF StartHandler, ctxVars, HandlersWait, WaitsAt, Turn, Guarded, Guards,
        ChainTypes, Call, Orderly
  <2>6. \A i \in DOMAIN stack' : WaitsAt(i)'
    BY <1>1, <2>1, <2>3, <2>4, <2>5, WaitsKept DEF HandlersWait
  <2> QED
    BY <1>1, <2>1, <2>2, <2>6, ChainAssumption
    DEF StartHandler, ctxVars, HandlersWait, Turn, ChainTypes, WaitsAt, Orderly
<1>5. (Quiet => ServesAll)'
  <2> SUFFICES ASSUME Quiet' PROVE ServesAll'
    OBVIOUS
  <2>1. Quiet /\ ServesAll
    BY DEF StartHandler, ctxVars, Quiet
  <2>2. ServesAt(Len(stack)) /\ ~Guarded(1)
    BY <1>1, <2>1 DEF ServesAll, Guarded
  <2>3. ~nextMW' => mwIdx' >= NM
    BY <2>1, ChainAssumption DEF StartHandler, ctxVars, ServesAll, Quiet, ChainTypes
  <2>4. ~next' => hIdx' >= NH
    BY <2>1, ChainAssumption DEF StartHandler, ctxVars, ServesAll, Quiet, ChainTypes
  <2>5. CASE Len(stack) = 1
    <3>1. Len(stack') = 2 /\ stack' # <<>>
      BY <1>1, <2>5 DEF Replaced, Known
    <3>2. ServesAt(Len(stack))'
      BY <1>1, <2>1, <2>2, <2>5, <3>1
      DEF StartHandler, ctxVars, ServesAll, ServesAt, Guarded, Guards, Quiet,
          ChainTypes, Replaced
    <3> QED
      BY <2>3, <2>4, <3>1, <3>2 DEF ServesAll
  <2>6. CASE Len(stack) > 1
    <3>1. /\ mwIdx >= NM => mwIdx' >= NM
          /\ mwIdx' >= NM \/ Reguarded(0, 1)
      BY <1>1, <2>1, ChainAssumption
      DEF StartHandler, ctxVars, ServesAll, Quiet, Reguarded, Guards, ChainTypes
    <3>2. stack' # <<>> /\ ServesAt(Len(stack))'
      BY <1>1, <2>2, <2>6, <3>1, ServesKept
    <3> QED
      BY <2>3, <2>4, <3>2 DEF ServesAll
  <2> QED
    BY <1>1, <2>5, <2>6 DEF Replaced, Known
<1>6. BreakTakesNext'
  BY <1>1 DEF StartHandler, ctxVars, BreakTakesNext, Call
<1>7. NoHandlerStep
  BY <1>1 DEF NoHandlerStep
<1> QED
  BY <1>2, <1>3, <1>4, <1>5, <1>6, <1>7

\* The loop over the handlers ends.
LEMMA HandlersEnd ==
  ASSUME ChainInv, EndHandlers
  PROVE  ChainInv' /\ NoHandlerStep
<1> USE DEF ChainInv
<1>1. /\ Replaced(stack, stack', 1, 0)
      /\ stack[1] = "next"
      /\ stack \in Seq(Frame) /\ stack # <<>> /\ 1 \in DOMAIN stack
  <2>1. stack \in Seq(Frame) /\ stack # <<>> /\ stack' = Tail(stack)
    BY DEF EndHandlers, At, User, Below, ChainTypes
  <2>2. Replaced(stack, stack', 1, 0) /\ Head(stack) = stack[1]
    BY <2>1, Pop
  <2>3. 1 \in DOMAIN stack
    BY <2>1, EmptySeq
  <2>4. stack[1] = "next"
    BY <2>1, <2>2, <2>3 DEF EndHandlers, At, User
  <2> QED
    BY <2>1, <2>2, <2>3, <2>4
<1>2. ChainTypes'
  <2>1. stack' \in Seq(Frame)
    BY <1>1 DEF Replaced, Known
  <2> QED
    BY <1>1, <2>1, ChainAssumption DEF EndHandlers, ctxVars, ChainTypes
<1>3. Nested'
  <2>1. \A i \in 1..0 : FALSE
    OBVIOUS
  <2>2. \A i \in 1..0 : NestedAt(i)'
    BY <2>1
  <2> QED
    BY <1>1, <2>2, NestedKept
<1>4. (Orderly => HandlersWait)'
  <2> SUFFICES ASSUME Orderly' PROVE HandlersWait'
    OBVIOUS
  <2>1. Orderly /\ HandlersWait
    BY DEF EndHandlers, ctxVars, Orderly
  <2>2. WaitsAt(1) /\ ~Guarded(1)
    BY <1>1, <2>1 DEF HandlersWait, Guarded
  <2>3. (Turn => Turn') /\ (~next => ~next')
    BY <1>1, ChainAssumption DEF EndHandlers, ctxVars, Turn, ChainTypes
  <2>4. Turn' \/ ~next' \/ Reguarded(1, 0)
    BY <1>1, <2>1, <2>2
    DEF EndHandlers, ctxVars, HandlersWait, Turn, Reguarded, Guards, ChainTypes,
        Orderly, WaitsAt
  <2>5. \A i \in 1..0 : WaitsAt(i)'
    BY <1>1, <2>1, <2>2
    DEF EndHandlers, ctxVars, HandlersWait, WaitsAt, Turn, Guarded, Guards,
        ChainTypes, Call, Orderly
  <2>6. \A i \in DOMAIN stack' : WaitsAt(i)'
    BY <1>1, <2>1, <2>3, <2>4, <2>5, WaitsKept DEF HandlersWait
  <2> QED
    BY <1>1, <2>1, <2>2, <2>6, ChainAssumption
    DEF EndHandlers, ctxVars, HandlersWait, Turn, ChainTypes, WaitsAt, Orderly
<1>5. (Quiet => ServesAll)'
  <2> SUFFICES ASSUME Quiet' PROVE ServesAll'
    OBVIOUS
  <2>1. Quiet /\ ServesAll
    BY DEF EndHandlers, ctxVars, Quiet
  <2>2. ServesAt(Len(stack)) /\ ~Guarded(1)
    BY <1>1, <2>1 DEF ServesAll, Guarded
  <2>3. ~nextMW' => mwIdx' >= NM
    BY <2>1, ChainAssumption DEF EndHandlers, ctxVars, ServesAll, Quiet, ChainTypes
  <2>4. ~next' => hIdx' >= NH
    BY <2>1, ChainAssumption DEF EndHandlers, ctxVars, ServesAll, Quiet, ChainTypes
  <2>5. CASE Len(stack) = 1
    <3>1. stack' = <<>>
      BY <1>1, <2>5 DEF Replaced, Known
    <3>2. mwIdx' >= NM /\ hIdx' >= NH
      BY <1>1, <2>1, <2>2, <2>5, ChainAssumption
      DEF EndHandlers, ctxVars, ServesAll, ServesAt, Quiet, ChainTypes
    <3> QED
      BY <2>3, <2>4, <3>1, <3>2 DEF ServesAll
  <2>6. CASE Len(stack) > 1
    <3>1. /\ mwIdx >= NM => mwIdx' >= NM
          /\ mwIdx' >= NM \/ Reguarded(1, 0)
      BY <1>1, <2>1, ChainAssumption
      DEF EndHandlers, ctxVars, ServesAll, Quiet, Reguarded, Guards, ChainTypes
    <3>2. stack' # <<>> /\ ServesAt(Len(stack))'
      BY <1>1, <2>2, <2>6, <3>1, ServesKept
    <3> QED
      BY <2>3, <2>4, <3>2 DEF ServesAll
  <2> QED
    BY <1>1, <2>5, <2>6 DEF Replaced, Known
<1>6. BreakTakesNext'
  BY <1>1 DEF EndHandlers, ctxVars, BreakTakesNext, Call
<1>7. NoHandlerStep
  <2>1. hIdx' = hIdx /\ \A i \in 1..0 : stack'[i] # "next"
    BY <1>1 DEF EndHandlers, ctxVars, Call
  <2> QED
    BY <1>1, <2>1, NoNextKept
<1> QED
  BY <1>2, <1>3, <1>4, <1>5, <1>6, <1>7

\* A middleware or a handler calls for more.
LEMMA UserCallsStep ==
  ASSUME NEW c \in Call, ChainInv, UserCalls(c)
  PROVE  ChainInv' /\ NoHandlerStep
<1> USE DEF ChainInv
<1>1. /\ Replaced(stack, stack', 0, 1) /\ stack'[1] = c
      /\ (stack[1] = "mw" /\ At("mw"))
           \/ /\ stack[1] = "h" /\ ~At("mw")
              /\ stack[2] = "next" /\ 2 \in DOMAIN stack
      /\ stack \in Seq(Frame) /\ stack # <<>> /\ 1 \in DOMAIN stack
  <2>1. stack \in Seq(Frame) /\ stack # <<>> /\ stack' = <<c>> \o stack
    BY DEF UserCalls, At, User, Below, ChainTypes
  <2>2. Replaced(stack, stack', 0, 1) /\ stack'[1] = c /\ Head(stack) = stack[1]
    BY <2>1, Pop, Push DEF Frame, Call
  <2>3. 1 \in DOMAIN stack
    BY <2>1, EmptySeq
  <2>4. stack[1] = "h" => 2 \in DOMAIN stack /\ stack[2] = "next"
    <3>1. NestedAt(1)
      BY <2>3 DEF Nested
    <3> QED
      BY <2>1, <3>1, Popped DEF Known, NestedAt
  <2>5. (stack[1] = "mw" /\ At("mw"))
           \/ /\ stack[1] = "h" /\ ~At("mw")
              /\ stack[2] = "next" /\ 2 \in DOMAIN stack
    BY <2>1, <2>2, <2>3, <2>4 DEF UserCalls, At, User
  <2> QED
    BY <2>1, <2>2, <2>3, <2>5
<1>2. ChainTypes'
  <2>1. stack' \in Seq(Frame)
    BY <1>1 DEF Replaced, Known
  <2> QED
    BY <1>1, <2>1, ChainAssumption DEF UserCalls, ctxVars, ChainTypes
<1>3. Nested'
  <2>1. \A i \in 1..1 : i = 1
    OBVIOUS
  <2>2. \A i \in 1..1 : NestedAt(i)'
    BY <1>1, <2>1 DEF UserCalls, ctxVars, NestedAt, Replaced, Known, Call
  <2> QED
    BY <1>1, <2>2, NestedKept
<1>4. (Orderly => HandlersWait)'
  <2> SUFFICES ASSUME Orderly' PROVE HandlersWait'
    OBVIOUS
  <2>1. Orderly /\ HandlersWait
    BY DEF UserCalls, ctxVars, Orderly
  <2>2. WaitsAt(1) /\ ~Guarded(1)
    BY <1>1, <2>1 DEF HandlersWait, Guarded
  <2>3. (Turn => Turn') /\ (~next => ~next')
    BY <1>1, ChainAssumption DEF UserCalls, ctxVars, Turn, ChainTypes
  <2>4. Turn' \/ ~next' \/ Reguarded(0, 1)
    BY <1>1, <2>1, <2>2
    DEF UserCalls, ctxVars, HandlersWait, Turn, Reguarded, Guards, ChainTypes,
        Orderly, WaitsAt
  <2>7. stack[1] = "h" => Turn
    BY <1>1, <2>1 DEF HandlersWait, WaitsAt
  <2>8. stack[1] # "h" => c # "NextHandler"
    BY <1>1 DEF UserCalls, Orderly
  <2>5. \A i \in 1..1 : WaitsAt(i)'
    BY <2>7, <2>8, <1>1, <2>1, <2>2
    DEF UserCalls, ctxVars, HandlersWait, WaitsAt, Turn, Guarded, Guards, ChainTypes,
        Call, Orderly
  <2>6. \A i \in DOMAIN stack' : WaitsAt(i)'
    BY <1>1, <2>1, <2>3, <2>4, <2>5, WaitsKept DEF HandlersWait
  <2> QED
    BY <1>1, <2>1, <2>2, <2>6, ChainAssumption
    DEF UserCalls, ctxVars, HandlersWait, Turn, ChainTypes, WaitsAt, Orderly
<1>5. (Quiet => ServesAll)'
  <2> SUFFICES ASSUME Quiet' PROVE ServesAll'
    OBVIOUS
  <2>1. Quiet /\ ServesAll
    BY DEF UserCalls, ctxVars, Quiet
  <2>2. ServesAt(Len(stack)) /\ ~Guarded(1)
    BY <1>1, <2>1 DEF ServesAll, Guarded
  <2>3. ~nextMW' => mwIdx' >= NM
    BY <2>1, ChainAssumption DEF UserCalls, ctxVars, ServesAll, Quiet, ChainTypes
  <2>4. ~next' => hIdx' >= NH
    BY <2>1, ChainAssumption DEF UserCalls, ctxVars, ServesAll, Quiet, ChainTypes
  <2>5. CASE Len(stack) = 1
    <3>1. Len(stack') = 2 /\ stack' # <<>>
      BY <1>1, <2>5 DEF Replaced, Known
    <3>2. ServesAt(Len(stack))'
      BY <1>1, <2>1, <2>2, <2>5, <3>1
      DEF UserCalls, ctxVars, ServesAll, ServesAt, Guarded, Guards, Quiet,
          ChainTypes, Replaced
    <3> QED
      BY <2>3, <2>4, <3>1, <3>2 DEF ServesAll
  <2>6. CASE Len(stack) > 1
    <3>1. /\ mwIdx >= NM => mwIdx' >= NM
          /\ mwIdx' >= NM \/ Reguarded(0, 1)
      BY <1>1, <2>1, ChainAssumption
      DEF UserCalls, ctxVars, ServesAll, Quiet, Reguarded, Guards, ChainTypes
    <3>2. stack' # <<>> /\ ServesAt(Len(stack))'
      BY <1>1, <2>2, <2>6, <3>1, ServesKept
    <3> QED
      BY <2>3, <2>4, <3>2 DEF ServesAll
  <2> QED
    BY <1>1, <2>5, <2>6 DEF Replaced, Known
<1>6. BreakTakesNext'
  BY <1>1 DEF UserCalls, ctxVars, BreakTakesNext, Call
<1>7. NoHandlerStep
  <2>1. hIdx' = hIdx /\ \A i \in 1..1 : stack'[i] # "next"
    BY <1>1 DEF UserCalls, ctxVars, Call
  <2> QED
    BY <1>1, <2>1, NoNextKept
<1> QED
  BY <1>2, <1>3, <1>4, <1>5, <1>6, <1>7

\* A middleware or a handler returns nil to its loop.
LEMMA ReturnNilStep ==
  ASSUME ChainInv, ReturnNil
  PROVE  ChainInv' /\ NoHandlerStep
<1> USE DEF ChainInv
<1>1. /\ Replaced(stack, stack', 1, 0)
      /\ stack[1] \in {"mw", "h"}
      /\ stack \in Seq(Frame) /\ stack # <<>> /\ 1 \in DOMAIN stack
  <2>1. stack \in Seq(Frame) /\ stack # <<>> /\ stack' = Tail(stack)
    BY DEF ReturnNil, At, User, Below, ChainTypes
  <2>2. Replaced(stack, stack', 1, 0) /\ Head(stack) = stack[1]
    BY <2>1, Pop
  <2>3. 1 \in DOMAIN stack
    BY <2>1, EmptySeq
  <2>4. stack[1] \in {"mw", "h"}
    BY <2>1, <2>2, <2>3 DEF ReturnNil, At, User
  <2> QED
    BY <2>1, <2>2, <2>3, <2>4
<1>2. ChainTypes'
  <2>1. stack' \in Seq(Frame)
    BY <1>1 DEF Replaced, Known
  <2> QED
    BY <1>1, <2>1, ChainAssumption DEF ReturnNil, ctxVars, ChainTypes
<1>3. Nested'
  <2>1. \A i \in 1..0 : FALSE
    OBVIOUS
  <2>2. \A i \in 1..0 : NestedAt(i)'
    BY <2>1
  <2> QED
    BY <1>1, <2>2, NestedKept
<1>4. (Orderly => HandlersWait)'
  <2> SUFFICES ASSUME Orderly' PROVE HandlersWait'
    OBVIOUS
  <2>1. Orderly /\ HandlersWait
    BY DEF ReturnNil, ctxVars, Orderly
  <2>2. WaitsAt(1) /\ ~Guarded(1)
    BY <1>1, <2>1 DEF HandlersWait, Guarded
  <2>3. (Turn => Turn') /\ (~next => ~next')
    BY <1>1, ChainAssumption DEF ReturnNil, ctxVars, Turn, ChainTypes
  <2>4. Turn' \/ ~next' \/ Reguarded(1, 0)
    BY <1>1, <2>1, <2>2
    DEF ReturnNil, ctxVars, HandlersWait, Turn, Reguarded, Guards, ChainTypes,
        Orderly, WaitsAt
  <2>5. \A i \in 1..0 : WaitsAt(i)'
    BY <1>1, <2>1, <2>2
    DEF ReturnNil, ctxVars, HandlersWait, WaitsAt, Turn, Guarded, Guards, ChainTypes,
        Call, Orderly
  <2>6. \A i \in DOMAIN stack' : WaitsAt(i)'
    BY <1>1, <2>1, <2>3, <2>4, <2>5, WaitsKept DEF HandlersWait
  <2> QED
    BY <1>1, <2>1, <2>2, <2>6, ChainAssumption
    DEF ReturnNil, ctxVars, HandlersWait, Turn, ChainTypes, WaitsAt, Orderly
<1>5. (Quiet => ServesAll)'
  <2> SUFFICES ASSUME Quiet' PROVE ServesAll'
    OBVIOUS
  <2>1. Quiet /\ ServesAll
    BY DEF ReturnNil, ctxVars, Quiet
  <2>2. ServesAt(Len(stack)) /\ ~Guarded(1)
    BY <1>1, <2>1 DEF ServesAll, Guarded
  <2>3. ~nextMW' => mwIdx' >= NM
    BY <2>1, ChainAssumption DEF ReturnNil, ctxVars, ServesAll, Quiet, ChainTypes
  <2>4. ~next' => hIdx' >= NH
    BY <2>1, ChainAssumption DEF ReturnNil, ctxVars, ServesAll, Quiet, ChainTypes
  <2>5. CASE Len(stack) = 1
    <3>1. stack' = <<>>
      BY <1>1, <2>5 DEF Replaced, Known
    <3>2. mwIdx' >= NM /\ hIdx' >= NH
      BY <1>1, <2>1, <2>2, <2>5, ChainAssumption
      DEF ReturnNil, ctxVars, ServesAll, ServesAt, Quiet, ChainTypes
    <3> QED
      BY <2>3, <2>4, <3>1, <3>2 DEF ServesAll
  <2>6. CASE Len(stack) > 1
    <3>1. /\ mwIdx >= NM => mwIdx' >= NM
          /\ mwIdx' >= NM \/ Reguarded(1, 0)
      BY <1>1, <2>1, ChainAssumption
      DEF ReturnNil, ctxVars, ServesAll, Quiet, Reguarded, Guards, ChainTypes
    <3>2. stack' # <<>> /\ ServesAt(Len(stack))'
      BY <1>1, <2>2, <2>6, <3>1, ServesKept
    <3> QED
      BY <2>3, <2>4, <3>2 DEF ServesAll
  <2> QED
    BY <1>1, <2>5, <2>6 DEF Replaced, Known
<1>6. BreakTakesNext'
  BY <1>1 DEF ReturnNil, ctxVars, BreakTakesNext, Call
<1>7. NoHandlerStep
  <2>1. hIdx' = hIdx /\ \A i \in 1..0 : stack'[i] # "next"
    BY <1>1 DEF ReturnNil, ctxVars, Call
  <2> QED
    BY <1>1, <2>1, NoNextKept
<1> QED
  BY <1>2, <1>3, <1>4, <1>5, <1>6, <1>7

\* A middleware's Response ends its loop.
LEMMA ReturnMiddlewareStep ==
  ASSUME NEW r \in Responses, ChainInv, ReturnMiddleware(r)
  PROVE  ChainInv' /\ NoHandlerStep
<1> USE DEF ChainInv
<1>0. /\ r = "body" \/ r = "noBody" \/ r = "Break"
      /\ r = "body" => done' /\ "body" \in events'
      /\ r = "noBody" => "noBody" \in events'
      /\ r = "Break" => ~next' /\ "mwBreak" \in events'
      /\ "mwBreak" \in events' => r = "Break" \/ "mwBreak" \in events
  BY ChainAssumption DEF ReturnMiddleware, ctxVars, ChainTypes
<1>1. /\ Replaced(stack, stack', 2, 0)
      /\ stack[1] = "mw" /\ stack[2] = "nextMW"
      /\ stack \in Seq(Frame) /\ stack # <<>> /\ 1 \in DOMAIN stack
  <2>1. stack \in Seq(Frame) /\ stack # <<>> /\ stack' = Tail(Tail(stack))
    BY DEF ReturnMiddleware, At, User, Below, ChainTypes
  <2>2. /\ Known(stack, Len(stack))
        /\ Len(stack) \in Nat \ {0}
        /\ Head(stack) = stack[1]
    BY <2>1, Popped
  <2>3. NestedAt(1)
    BY <2>2 DEF Nested, Known
  <2>4. /\ Len(stack) # 1
        /\ stack[1] = "mw" /\ stack[2] = "nextMW"
    BY <2>2, <2>3 DEF ReturnMiddleware, At, User, NestedAt
  <2>5. Replaced(stack, stack', 2, 0)
    BY <2>1, <2>4, PopTwo
  <2> QED
    BY <2>1, <2>2, <2>4, <2>5 DEF Known
<1>2. ChainTypes'
  <2>1. stack' \in Seq(Frame)
    BY <1>1 DEF Replaced, Known
  <2> QED
    BY <1>1, <2>1, ChainAssumption DEF ReturnMiddleware, ctxVars, ChainTypes
<1>3. Nested'
  <2>1. \A i \in 1..0 : FALSE
    OBVIOUS
  <2>2. \A i \in 1..0 : NestedAt(i)'
    BY <2>1
  <2> QED
    BY <1>1, <2>2, NestedKept
<1>4. (Orderly => HandlersWait)'
  <2> SUFFICES ASSUME Orderly' PROVE HandlersWait'
    OBVIOUS
  <2>1. Orderly /\ HandlersWait
    BY DEF ReturnMiddleware, ctxVars, Orderly
  <2>2. WaitsAt(1) /\ ~Guarded(1)
    BY <1>1, <2>1 DEF HandlersWait, Guarded
  <2>3. (Turn => Turn') /\ (~next => ~next')
    BY <1>1, ChainAssumption DEF ReturnMiddleware, ctxVars, Turn, ChainTypes
  <2>4. Turn' \/ ~next' \/ Reguarded(2, 0)
    BY <1>0, <1>1, <2>1, <2>2
    DEF ReturnMiddleware, ctxVars, HandlersWait, Turn, Reguarded, Guards, ChainTypes,
        Orderly, WaitsAt
  <2>5. \A i \in 1..0 : WaitsAt(i)'
    BY <1>1, <2>1, <2>2
    DEF ReturnMiddleware, ctxVars, HandlersWait, WaitsAt, Turn, Guarded, Guards,
        ChainTypes, Call, Orderly
  <2>6. \A i \in DOMAIN stack' : WaitsAt(i)'
    BY <1>1, <2>1, <2>3, <2>4, <2>5, WaitsKept DEF HandlersWait
  <2> QED
    BY <1>0, <1>1, <2>1, <2>2, <2>6, ChainAssumption
    DEF ReturnMiddleware, ctxVars, HandlersWait, Turn, ChainTypes, WaitsAt, Orderly
<1>5. (Quiet => ServesAll)'
  BY <1>0, <1>1, ChainAssumption DEF ReturnMiddleware, ctxVars, Quiet
<1>6. BreakTakesNext'
  BY <1>0, <1>1 DEF ReturnMiddleware, ctxVars, BreakTakesNext, Call
<1>7. NoHandlerStep
  <2>1. hIdx' = hIdx /\ \A i \in 1..0 : stack'[i] # "next"
    BY <1>1 DEF ReturnMiddleware, ctxVars, Call
  <2> QED
    BY <1>1, <2>1, NoNextKept
<1> QED
  BY <1>2, <1>3, <1>4, <1>5, <1>6, <1>7

\* A handler's Response ends its loop.
LEMMA ReturnHandlerStep ==
  ASSUME NEW r \in Responses, ChainInv, ReturnHandler(r)
  PROVE  ChainInv' /\ NoHandlerStep
<1> USE DEF ChainInv
<1>1. /\ Replaced(stack, stack', 2, 0)
      /\ stack[1] = "h" /\ stack[2] = "next"
      /\ stack \in Seq(Frame) /\ stack # <<>> /\ 1 \in DOMAIN stack
  <2>1. stack \in Seq(Frame) /\ stack # <<>> /\ stack' = Tail(Tail(stack))
    BY DEF ReturnHandler, At, User, Below, ChainTypes
  <2>2. /\ Known(stack, Len(stack))
        /\ Len(stack) \in Nat \ {0}
        /\ Head(stack) = stack[1]
    BY <2>1, Popped
  <2>3. NestedAt(1)
    BY <2>2 DEF Nested, Known
  <2>4. /\ Len(stack) # 1
        /\ stack[1] = "h" /\ stack[2] = "next"
    BY <2>2, <2>3 DEF ReturnHandler, At, User, NestedAt
  <2>5. Replaced(stack, stack', 2, 0)
    BY <2>1, <2>4, PopTwo
  <2> QED
    BY <2>1, <2>2, <2>4, <2>5 DEF Known
<1>2. ChainTypes'
  <2>1. stack' \in Seq(Frame)
    BY <1>1 DEF Replaced, Known
  <2> QED
    BY <1>1, <2>1, ChainAssumption DEF ReturnHandler, ctxVars, ChainTypes
<1>3. Nested'
  <2>1. \A i \in 1..0 : FALSE
    OBVIOUS
  <2>2. \A i \in 1..0 : NestedAt(i)'
    BY <2>1
  <2> QED
    BY <1>1, <2>2, NestedKept
<1>4. (Orderly => HandlersWait)'
  <2> SUFFICES ASSUME Orderly' PROVE HandlersWait'
    OBVIOUS
  <2>1. Orderly /\ HandlersWait
    BY DEF ReturnHandler, ctxVars, Orderly
  <2>2. WaitsAt(1) /\ ~Guarded(1)
    BY <1>1, <2>1 DEF HandlersWait, Guarded
  <2>3. (Turn => Turn') /\ (~next => ~next')
    BY <1>1, ChainAssumption DEF ReturnHandler, ctxVars, Turn, ChainTypes
  <2>4. Turn' \/ ~next' \/ Reguarded(2, 0)
    BY <1>1, <2>1, <2>2
    DEF ReturnHandler, ctxVars, HandlersWait, Turn, Reguarded, Guards, ChainTypes,
        Orderly, WaitsAt
  <2>5. \A i \in 1..0 : WaitsAt(i)'
    BY <1>1, <2>1, <2>2
    DEF ReturnHandler, ctxVars, HandlersWait, WaitsAt, Turn, Guarded, Guards,
        ChainTypes, Call, Orderly
  <2>6. \A i \in DOMAIN stack' : WaitsAt(i)'
    BY <1>1, <2>1, <2>3, <2>4, <2>5, WaitsKept DEF HandlersWait
  <2> QED
    BY <1>1, <2>1, <2>2, <2>6, ChainAssumption
    DEF ReturnHandler, ctxVars, HandlersWait, Turn, ChainTypes, WaitsAt, Orderly
<1>5. (Quiet => ServesAll)'
  BY <1>1, ChainAssumption DEF ReturnHandler, ctxVars, Quiet
<1>6. BreakTakesNext'
  BY <1>1 DEF ReturnHandler, ctxVars, BreakTakesNext, Call
<1>7. NoHandlerStep
  <2>1. hIdx' = hIdx /\ \A i \in 1..0 : stack'[i] # "next"
    BY <1>1 DEF ReturnHandler, ctxVars, Call
  <2> QED
    BY <1>1, <2>1, NoNextKept
<1> QED
  BY <1>2, <1>3, <1>4, <1>5, <1>6, <1>7

\* A loop catches a panic.
LEMMA PanicCaughtStep ==
  ASSUME ChainInv, PanicCaught
  PROVE  ChainInv' /\ NoHandlerStep
<1> USE DEF ChainInv
<1>0. /\ panicHandler = "silent" \/ panicHandler = "writes"
      /\ panicHandler = "writes" => done'
      /\ panicHandler \in events'
      /\ "mwBreak" \in events' => "mwBreak" \in events
  BY ChainAssumption DEF PanicCaught, ctxVars, ChainTypes
<1>1. /\ Replaced(stack, stack', 2, 0)
      /\ stack[2] = IF stack[1] = "mw" THEN "nextMW" ELSE "next"
      /\ stack \in Seq(Frame) /\ stack # <<>> /\ 1 \in DOMAIN stack
  <2>1. stack \in Seq(Frame) /\ stack # <<>> /\ stack' = Tail(Tail(stack))
    BY DEF PanicCaught, At, User, Below, ChainTypes
  <2>2. /\ Known(stack, Len(stack))
        /\ Len(stack) \in Nat \ {0}
        /\ Head(stack) = stack[1]
    BY <2>1, Popped
  <2>3. NestedAt(1)
    BY <2>2 DEF Nested, Known
  <2>4. /\ Len(stack) # 1
        /\ stack[2] = IF stack[1] = "mw" THEN "nextMW" ELSE "next"
    BY <2>2, <2>3 DEF PanicCaught, At, User, NestedAt
  <2>5. Replaced(stack, stack', 2, 0)
    BY <2>1, <2>4, PopTwo
  <2> QED
    BY <2>1, <2>2, <2>4, <2>5 DEF Known
<1>2. ChainTypes'
  <2>1. stack' \in Seq(Frame)
    BY <1>1 DEF Replaced, Known
  <2> QED
    BY <1>1, <2>1, ChainAssumption DEF PanicCaught, ctxVars, ChainTypes
<1>3. Nested'
  <2>1. \A i \in 1..0 : FALSE
    OBVIOUS
  <2>2. \A i \in 1..0 : NestedAt(i)'
    BY <2>1
  <2> QED
    BY <1>1, <2>2, NestedKept
<1>4. (Orderly => HandlersWait)'
  <2> SUFFICES ASSUME Orderly' PROVE HandlersWait'
    OBVIOUS
  <2>1. Orderly /\ HandlersWait
    BY DEF PanicCaught, ctxVars, Orderly
  <2>2. WaitsAt(1) /\ ~Guarded(1)
    BY <1>1, <2>1 DEF HandlersWait, Guarded
  <2>3. (Turn => Turn') /\ (~next => ~next')
    BY <1>1, ChainAssumption DEF PanicCaught, ctxVars, Turn, ChainTypes
  <2>4. Turn' \/ ~next' \/ Reguarded(2, 0)
    BY <1>0, <1>1, <2>1, <2>2
    DEF PanicCaught, ctxVars, HandlersWait, Turn, Reguarded, Guards, ChainTypes,
        Orderly, WaitsAt
  <2>5. \A i \in 1..0 : WaitsAt(i)'
    BY <1>1, <2>1, <2>2
    DEF PanicCaught, ctxVars, HandlersWait, WaitsAt, Turn, Guarded, Guards,
        ChainTypes, Call, Orderly
  <2>6. \A i \in DOMAIN stack' : WaitsAt(i)'
    BY <1>1, <2>1, <2>3, <2>4, <2>5, WaitsKept DEF HandlersWait
  <2> QED
    BY <1>0, <1>1, <2>1, <2>2, <2>6, ChainAssumption
    DEF PanicCaught, ctxVars, HandlersWait, Turn, ChainTypes, WaitsAt, Orderly
<1>5. (Quiet => ServesAll)'
  BY <1>0, <1>1, ChainAssumption DEF PanicCaught, ctxVars, Quiet
<1>6. BreakTakesNext'
  BY <1>0, <1>1 DEF PanicCaught, ctxVars, BreakTakesNext, Call
<1>7. NoHandlerStep
  <2>1. hIdx' = hIdx /\ \A i \in 1..0 : stack'[i] # "next"
    BY <1>1 DEF PanicCaught, ctxVars, Call
  <2> QED
    BY <1>1, <2>1, NoNextKept
<1> QED
  BY <1>2, <1>3, <1>4, <1>5, <1>6, <1>7

\* A panic nobody catches ends the request.
LEMMA PanicEscapesStep ==
  ASSUME ChainInv, PanicEscapes
  PROVE  ChainInv' /\ NoHandlerStep
<1> USE DEF ChainInv
<1>1. /\ stack' = <<>> /\ stack' \in Seq(Frame) /\ DOMAIN stack' = {}
      /\ "none" \in events'
      /\ events' \cap {"NextHandler", "noBody", "silent", "mwBreak"}
         = events \cap {"NextHandler", "noBody", "silent", "mwBreak"}
  BY DEF PanicEscapes
<1>2. ChainTypes'
  BY <1>1, ChainAssumption DEF PanicEscapes, ctxVars, ChainTypes
<1>3. Nested'
  BY <1>1 DEF Nested
<1>4. (Orderly => HandlersWait)'
  BY <1>1 DEF PanicEscapes, ctxVars, Orderly, HandlersWait, Turn
<1>5. (Quiet => ServesAll)'
  BY <1>1 DEF Quiet
<1>6. BreakTakesNext'
  BY <1>1 DEF PanicEscapes, ctxVars, BreakTakesNext
<1>7. NoHandlerStep
  BY <1>1 DEF PanicEscapes, NoHandlerStep
<1> QED
  BY <1>2, <1>3, <1>4, <1>5, <1>6, <1>7

\* Writing, returning from Serve and standing still leave the stack alone.
LEMMA StackKept ==
  ASSUME ChainInv, UserWrites \/ Return \/ UNCHANGED vars
  PROVE  ChainInv' /\ NoHandlerStep
<1> USE DEF ChainInv
<1>1. /\ UNCHANGED <<stack, mwIdx, hIdx, nextMW, next, panicHandler, events>>
      /\ done => done'
      /\ done' \in BOOLEAN
      /\ outcome' = outcome \/ (outcome' = "returned" /\ stack = <<>>)
  BY DEF UserWrites, Return, vars, ctxVars, ChainTypes
<1>2. ChainTypes'
  BY <1>1 DEF ChainTypes
<1>3. Nested'
  BY <1>1 DEF Nested, NestedAt
<1>4. (Orderly => HandlersWait)'
  BY <1>1 DEF Orderly, HandlersWait, WaitsAt, Turn, Guarded, ChainTypes
<1>5. (Quiet => ServesAll)'
  BY <1>1 DEF Quiet, ServesAll, ServesAt, Guarded, ChainTypes
<1>6. BreakTakesNext'
  BY <1>1 DEF BreakTakesNext
<1>7. NoHandlerStep
  BY <1>1 DEF NoHandlerStep
<1> QED
  BY <1>2, <1>3, <1>4, <1>5, <1>6, <1>7

\* Every step of a request keeps the invariant.
LEMMA ChainStep == ChainInv /\ [Next]_vars => ChainInv' /\ NoHandlerStep
<1> SUFFICES ASSUME ChainInv, [Next]_vars PROVE ChainInv' /\ NoHandlerStep
  OBVIOUS
<1>1. CASE CallNext
  BY <1>1, CallNextStep
<1>2. CASE CallNextMiddleware
  BY <1>2, MiddlewaresEntered, MiddlewaresPassed
<1>3. CASE CallNextHandler
  BY <1>3, HandlersEntered, HandlersPassed
<1>4. CASE StartMiddleware \/ EndMiddlewares
  BY <1>4, MiddlewareStarts, MiddlewaresEnd
<1>5. CASE StartHandler \/ EndHandlers
  BY <1>5, HandlerStarts, HandlersEnd
<1>6. CASE \E c \in Call : UserCalls(c)
  BY <1>6, UserCallsStep
<1>7. CASE ReturnNil
  BY <1>7, ReturnNilStep
<1>8. CASE \E r \in Responses : ReturnMiddleware(r) \/ ReturnHandler(r)
  BY <1>8, ReturnMiddlewareStep, ReturnHandlerStep
<1>9. CASE PanicCaught \/ PanicEscapes
  BY <1>9, PanicCaughtStep, PanicEscapesStep
<1>10. CASE UserWrites \/ Return \/ UNCHANGED vars
  BY <1>10, StackKept
<1> QED
  BY <1>1, <1>2, <1>3, <1>4, <1>5, <1>6, <1>7, <1>8, <1>9, <1>10 DEF Next

-----------------------------------------------------------------------------
(* Theorems *)

\* The invariant holds in every state of every request.
THEOREM ChainInvariance == Spec => []ChainInv
<1>1. ChainInv /\ [Next]_vars => ChainInv'
  BY ChainStep
<1> QED
  BY ChainInitInv, <1>1, PTL DEF Spec

\* The stack holds calls, loops and the code of the chain, the indices stay
\* within the chain, and nothing is left to do once Serve has
\* returned or panicked (group.go:142-178).
THEOREM ChainTypeCorrect == Spec => []ChainTypes
<1>1. ChainInv => ChainTypes
  BY DEF ChainInv
<1> QED
  BY ChainInvariance, <1>1, PTL

\* No handler starts before every middleware was started, unless a middleware
\* called NextHandler, or one returned a response that writes nothing, or the
\* panic handler is silent: for chains of every length (group.go:142-178).
THEOREM HandlersAfterMiddlewaresHolds == Spec => []HandlersAfterMiddlewares
<1>1. ChainInv => HandlersAfterMiddlewares
  <2> SUFFICES ASSUME ChainInv, events \cap {"NextHandler", "noBody", "silent"} = {}
               PROVE  ~(hIdx > 0 /\ mwIdx < NM)
    BY DEF HandlersAfterMiddlewares
  <2>1. hIdx > 0 => mwIdx >= NM
    BY DEF ChainInv, Orderly, HandlersWait
  <2>2. mwIdx \in Nat /\ NM \in Nat
    BY ChainAssumption DEF ChainInv, ChainTypes
  <2> QED
    BY <2>1, <2>2
<1> QED
  BY ChainInvariance, <1>1, PTL

\* When Serve returns and nobody wrote, returned a response or panicked, every
\* middleware and every handler was started (group.go:146, 165).
THEOREM NobodySkippedHolds == Spec => []NobodySkipped
<1>1. ChainInv => NobodySkipped
  <2> SUFFICES ASSUME ChainInv, outcome = "returned",
                      events \subseteq {"NextHandler"}, ~done
               PROVE  mwIdx = NM /\ hIdx = NH
    BY DEF NobodySkipped
  <2>1. mwIdx >= NM /\ hIdx >= NH
    BY DEF ChainInv, ChainTypes, Quiet, ServesAll
  <2>2. mwIdx \in 0..NM /\ hIdx \in 0..NH /\ NM \in Nat /\ NH \in Nat
    BY ChainAssumption DEF ChainInv, ChainTypes
  <2> QED
    BY <2>1, <2>2
<1> QED
  BY ChainInvariance, <1>1, PTL

\* After a middleware's Break no loop over the handlers is entered any more,
\* and without one no handler starts (group.go:153).
THEOREM BreakStopsHandlersHolds == Spec => BreakStopsHandlers
<1>1. ChainInv /\ [Next]_vars =>
        [/\ "mwBreak" \in events
         /\ \A i \in DOMAIN stack : stack[i] # "next"
         => hIdx' = hIdx /\ (\A i \in DOMAIN stack' : stack'[i] # "next")]_vars
  BY ChainStep DEF ChainInv, BreakTakesNext, NoHandlerStep
<1> QED
  BY ChainInvariance, <1>1, PTL DEF Spec, BreakStopsHandlers

-----------------------------------------------------------------------------
(* The lifecycle *)

Kind == {"close", "graceful", "timed"}

ServerTypes ==
  /\ closed \in BOOLEAN
  /\ mux \in Closer \cup {NoCloser}
  /\ servers \in Seq(Runner)
  /\ rpc \in [Runner -> {"idle", "made", "tracked", "serving", "returned"}]
  /\ inShutdown \in [Runner -> BOOLEAN]
  /\ cancelled \in [Runner -> BOOLEAN]
  /\ watch \in [Runner -> {"off", "waiting"}]
  /\ qpc \in [Request -> {"idle", "handling", "locking"}]
  /\ on \in [Request -> Runner \cup {NoRunner}]
  /\ conns \in SUBSET Request
  /\ cpc \in [Closer -> {"idle", "locking", "loop", "draining"}]
  /\ kind \in [Closer -> Kind \cup {"none"}]
  /\ pos \in [Closer -> Nat]

Holding(k) == cpc[k] \in {"loop", "draining"}

\* serversMux is held from the lock to the end of the loop.
Exclusive == \A k \in Closer : Holding(k) <=> mux = k

\* A server that the loop over servers is through with.
Through(k, i) == i < pos[k] \/ (i = pos[k] /\ cpc[k] = "draining")

\* The loop is at a server or past the last one, and those it is through with
\* accept nothing any more.
InLoop(k) ==
  /\ pos[k] \in 1..Len(servers) + 1
  /\ cpc[k] = "draining" => pos[k] <= Len(servers) /\ kind[k] # "close"
  /\ \A i \in 1..Len(servers) : Through(k, i) => inShutdown[servers[i]]

\* Close closed their connections and Shutdown(0) waited for them: these are
\* gone for good.
Emptied(k) ==
  kind[k] # "timed" =>
    \A i \in 1..Len(servers) : i < pos[k] => ConnsOf(servers[i]) = {}

ServerInv ==
  /\ ServerTypes
  /\ Exclusive
  /\ \A k \in Closer : Holding(k) => InLoop(k) /\ Emptied(k)

-----------------------------------------------------------------------------
LEMMA ServerInitInv == ServerInit => ServerInv
<1> SUFFICES ASSUME ServerInit PROVE ServerInv
  OBVIOUS
<1>1. ServerTypes
  <2>1. servers \in Seq(Runner)
    BY EmptySeq DEF ServerInit
  <2> QED
    BY <2>1 DEF ServerInit, ServerTypes
<1>2. \A k \in Closer : ~Holding(k) /\ mux # k
  BY NoCloserAssumption DEF ServerInit, Holding
<1> QED
  BY <1>1, <1>2 DEF ServerInv, Exclusive

\* What happens outside the loop takes nothing back from it: shutdowns last,
\* and a server in shutdown gets no new connection.
LEMMA LoopKept ==
  ASSUME ServerInv, ServerTypes', UNCHANGED <<mux, servers, closerVars>>,
         \A r \in Runner :
           inShutdown[r] => inShutdown'[r] /\ ConnsOf(r)' \subseteq ConnsOf(r)
  PROVE  ServerInv'
<1>1. Exclusive' /\ \A k \in Closer : Holding(k)' <=> Holding(k)
  BY DEF ServerInv, Exclusive, Holding, closerVars
<1>2. ASSUME NEW k \in Closer, Holding(k)'
      PROVE  InLoop(k)' /\ Emptied(k)'
  <2>1. Holding(k) /\ InLoop(k) /\ Emptied(k)
    BY <1>1, <1>2 DEF ServerInv
  <2>2. pos[k] \in Nat /\ servers \in Seq(Runner)
    BY DEF ServerInv, ServerTypes
  <2>3. \A i \in 1 .. Len(servers) : servers[i] \in Runner
    BY <2>2, ElementOfSeq
  <2>4. InLoop(k)'
    BY <2>1, <2>2, <2>3 DEF InLoop, Through, closerVars
  <2>5. Emptied(k)'
    BY <2>1, <2>2, <2>3 DEF InLoop, Emptied, Through, closerVars
  <2> QED
    BY <2>1, <2>4, <2>5 DEF closerVars
<1> QED
  BY <1>1, <1>2 DEF ServerInv

\* A Run (or a secure call) goes on, but for its critical section.
LEMMA RunKept ==
  ASSUME ServerInv, ServerTypes',
         UNCHANGED <<mux, servers, inShutdown, requestVars, closerVars>>
  PROVE  ServerInv'
<1> \A r \in Runner : ConnsOf(r)' = ConnsOf(r)
  BY DEF ConnsOf, requestVars
<1> QED
  BY LoopKept

LEMMA RunsKeepInv ==
  ASSUME ServerInv, NEW r \in Runner,
         \/ Listen(r) \/ ListenFails(r) \/ Serve(r) \/ ServeReturns(r)
         \/ AcceptFails(r) \/ Cancel(r)
  PROVE  ServerInv'
<1>1. ServerTypes'
  BY DEF ServerInv, ServerTypes, Listen, ListenFails, Serve, ServeReturns,
     AcceptFails,
         Cancel, requestVars, closerVars
<1>2. UNCHANGED <<mux, servers, inShutdown, requestVars, closerVars>>
  BY DEF Listen, ListenFails, Serve, ServeReturns, AcceptFails, Cancel
<1> QED
  BY <1>1, <1>2, RunKept

\* Nobody is in the loop when a server is added.
LEMMA TrackKeepsInv ==
  ASSUME ServerInv, NEW r \in Runner, Track(r)
  PROVE  ServerInv'
<1>1. ServerTypes'
  <2>1. servers' \in Seq(Runner)
    BY AppendProperties DEF ServerInv, ServerTypes, Track
  <2> QED
    BY <2>1 DEF ServerInv, ServerTypes, Track, requestVars, closerVars
<1>2. \A k \in Closer : ~Holding(k)
  BY NoCloserAssumption DEF ServerInv, Exclusive, Track
<1>3. \A k \in Closer : ~Holding(k)' /\ mux' # k
  BY <1>2, NoCloserAssumption DEF Track, Holding, closerVars
<1> QED
  BY <1>1, <1>3 DEF ServerInv, Exclusive

LEMMA WatchKeepsInv ==
  ASSUME ServerInv, NEW r \in Runner, WatchFires(r)
  PROVE  ServerInv'
<1>1. ServerTypes'
  BY DEF ServerInv, ServerTypes, WatchFires, requestVars, closerVars
<1>2. \A x \in Runner :
        inShutdown[x] => inShutdown'[x] /\ ConnsOf(x)' \subseteq ConnsOf(x)
  BY DEF ServerInv, ServerTypes, WatchFires, requestVars, ConnsOf
<1> QED
  BY <1>1, <1>2, LoopKept DEF WatchFires

\* A connection is accepted by a server that is not in shutdown.
LEMMA RequestsKeepInv ==
  ASSUME ServerInv, NEW q \in Request,
         \/ \E r \in Runner : Accept(q, r)
         \/ UseServer(q) \/ UsedServer(q) \/ Finish(q)
  PROVE  ServerInv'
<1>1. CASE \E r \in Runner : Accept(q, r)
  <2> PICK r \in Runner : Accept(q, r)
    BY <1>1
  <2>1. ServerTypes'
    BY DEF ServerInv, ServerTypes, Accept, runVars, closerVars
  <2>2. UNCHANGED <<mux, servers, inShutdown, closerVars>>
    BY DEF Accept, runVars
  <2>3. ASSUME NEW x \in Runner, inShutdown[x]
        PROVE  ConnsOf(x)' \subseteq ConnsOf(x)
    BY <2>3 DEF ServerInv, ServerTypes, Accept, ConnsOf
  <2> QED
    BY <2>1, <2>2, <2>3, LoopKept
<1>2. CASE UseServer(q) \/ UsedServer(q)
  <2>1. ServerTypes'
    BY <1>2 DEF ServerInv, ServerTypes, UseServer, UsedServer, runVars, closerVars
  <2>2. UNCHANGED <<mux, servers, inShutdown, on, conns, closerVars>>
    BY <1>2 DEF UseServer, UsedServer, runVars
  <2>3. \A x \in Runner : ConnsOf(x)' = ConnsOf(x)
    BY <2>2 DEF ConnsOf
  <2> QED
    BY <2>1, <2>2, <2>3, LoopKept
<1>3. CASE Finish(q)
  <2>1. ServerTypes'
    BY <1>3 DEF ServerInv, ServerTypes, Finish, runVars, closerVars
  <2>2. UNCHANGED <<mux, servers, inShutdown, closerVars>>
    BY <1>3 DEF Finish, runVars
  <2>3. ASSUME NEW x \in Runner
        PROVE  ConnsOf(x)' \subseteq ConnsOf(x)
    BY <1>3 DEF ServerInv, ServerTypes, Finish, ConnsOf
  <2> QED
    BY <2>1, <2>2, <2>3, LoopKept
<1> QED
  BY <1>1, <1>2, <1>3

-----------------------------------------------------------------------------
(* Close and Shutdown *)

\* A closer that is not in the loop says what it calls.
LEMMA CallsKeepInv ==
  ASSUME ServerInv, NEW c \in Closer, NEW k \in Kinds, Win(c, k) \/ Lose(c, k)
  PROVE  ServerInv'
<1>1. k \in Kind
  BY KindAssumption DEF Kind
<1>2. ServerTypes'
  BY <1>1 DEF ServerInv, ServerTypes, Win, Lose, runVars, requestVars
<1>3. ~Holding(c) /\ ~Holding(c)'
  BY DEF ServerInv, ServerTypes, Win, Lose, Holding
<1>4. ASSUME NEW x \in Closer, x # c
      PROVE  UNCHANGED <<cpc[x], kind[x], pos[x]>>
  BY <1>4 DEF ServerInv, ServerTypes, Win, Lose
<1>5. UNCHANGED <<mux, servers, inShutdown, on, conns>>
  BY DEF Win, Lose, runVars, requestVars
<1>6. Exclusive'
  BY <1>3, <1>4, <1>5 DEF ServerInv, Exclusive, Holding
<1>7. ASSUME NEW x \in Closer, Holding(x)'
      PROVE  InLoop(x)' /\ Emptied(x)'
  <2>1. x # c /\ Holding(x)
    BY <1>3, <1>4, <1>7 DEF Holding
  <2>2. InLoop(x) /\ Emptied(x)
    BY <2>1 DEF ServerInv
  <2> QED
    BY <1>4, <1>5, <2>1, <2>2 DEF InLoop, Through, Emptied, ConnsOf
<1> QED
  BY <1>2, <1>6, <1>7 DEF ServerInv

LEMMA LockKeepsInv ==
  ASSUME ServerInv, NEW c \in Closer, Lock(c)
  PROVE  ServerInv'
<1>1. ServerTypes'
  BY DEF ServerInv, ServerTypes, Lock, runVars, requestVars
<1>2. \A x \in Closer : ~Holding(x)
  BY NoCloserAssumption DEF ServerInv, Exclusive, Lock
<1>3. \A x \in Closer : Holding(x)' <=> x = c
  BY <1>2 DEF ServerInv, ServerTypes, Lock, Holding
<1>4. Exclusive'
  BY <1>3 DEF Lock, Exclusive
<1>5. /\ pos'[c] = 1 /\ cpc'[c] = "loop" /\ kind'[c] = kind[c]
      /\ Len(servers') \in Nat
  BY LenProperties DEF ServerInv, ServerTypes, Lock
<1>6. InLoop(c)' /\ Emptied(c)'
  BY <1>5 DEF InLoop, Through, Emptied
<1> QED
  BY <1>1, <1>3, <1>4, <1>6 DEF ServerInv

\* One more server is closed, with the connections it has.
LEMMA CloseOneKeepsInv ==
  ASSUME ServerInv, NEW c \in Closer, CloseOne(c)
  PROVE  ServerInv'
<1> DEFINE s == servers[pos[c]]
<1>1. /\ Holding(c) /\ InLoop(c) /\ Emptied(c) /\ kind[c] = "close"
      /\ pos[c] \in 1 .. Len(servers)
  <2>1. Holding(c) /\ InLoop(c) /\ Emptied(c)
    BY DEF ServerInv, CloseOne, Holding
  <2>2. pos[c] \in Nat /\ Len(servers) \in Nat
    BY LenProperties DEF ServerInv, ServerTypes
  <2> QED
    BY <2>1, <2>2 DEF InLoop, CloseOne
<1>2. \A i \in 1 .. Len(servers) : servers[i] \in Runner
  BY ElementOfSeq DEF ServerInv, ServerTypes
<1>3. ServerTypes'
  BY <1>1, <1>2 DEF ServerInv, ServerTypes, CloseOne
<1>4. /\ UNCHANGED <<mux, servers, cpc, kind>>
      /\ pos' = [pos EXCEPT ![c] = @ + 1]
      /\ inShutdown' = [inShutdown EXCEPT ![s] = TRUE]
  BY DEF CloseOne
<1>5. \A x \in Runner : ConnsOf(x)' = IF x = s THEN {} ELSE ConnsOf(x)
  BY DEF CloseOne, ConnsOf
<1>6. Exclusive' /\ \A x \in Closer : Holding(x)' => x = c
  BY <1>1, <1>4 DEF ServerInv, Exclusive, Holding
<1>7. cpc[c] = "loop" /\ pos[c] \in Nat /\ pos'[c] = pos[c] + 1
  BY <1>4 DEF ServerInv, ServerTypes, CloseOne
<1>8. InLoop(c)'
  BY <1>1, <1>2, <1>4, <1>7 DEF ServerInv, ServerTypes, InLoop, Through
<1>9. Emptied(c)'
  <2>1. ASSUME NEW i \in 1 .. Len(servers), i < pos[c] + 1
        PROVE  ConnsOf(servers[i])' = {}
    <3>1. CASE i < pos[c]
      <4>1. ConnsOf(servers[i]) = {}
        BY <1>1, <2>1, <3>1 DEF Emptied
      <4> QED
        BY <4>1 DEF CloseOne, ConnsOf
    <3>2. CASE i = pos[c]
      <4>1. servers[i] = s
        BY <3>2
      <4> QED
        BY <4>1 DEF CloseOne, ConnsOf
    <3> QED
      BY <1>7, <2>1, <3>1, <3>2
  <2> QED
    BY <1>4, <1>7, <2>1 DEF Emptied
<1> QED
  BY <1>3, <1>6, <1>8, <1>9 DEF ServerInv

LEMMA ShutdownOneKeepsInv ==
  ASSUME ServerInv, NEW c \in Closer, ShutdownOne(c)
  PROVE  ServerInv'
<1> DEFINE s == servers[pos[c]]
<1>1. /\ Holding(c) /\ InLoop(c) /\ Emptied(c) /\ kind[c] # "close"
      /\ pos[c] \in 1 .. Len(servers)
  <2>1. Holding(c) /\ InLoop(c) /\ Emptied(c)
    BY DEF ServerInv, ShutdownOne, Holding
  <2>2. pos[c] \in Nat /\ Len(servers) \in Nat
    BY LenProperties DEF ServerInv, ServerTypes
  <2> QED
    BY <2>1, <2>2 DEF InLoop, ShutdownOne
<1>2. \A i \in 1 .. Len(servers) : servers[i] \in Runner
  BY ElementOfSeq DEF ServerInv, ServerTypes
<1>3. ServerTypes'
  BY <1>1, <1>2 DEF ServerInv, ServerTypes, ShutdownOne, requestVars
<1>4. /\ UNCHANGED <<mux, servers, kind, pos, on, conns>>
      /\ cpc' = [cpc EXCEPT ![c] = "draining"]
      /\ inShutdown' = [inShutdown EXCEPT ![s] = TRUE]
  BY DEF ShutdownOne, requestVars
<1>5. cpc[c] = "loop" /\ cpc'[c] = "draining" /\ pos[c] \in Nat
  BY <1>4 DEF ServerInv, ServerTypes, ShutdownOne
<1>6. Exclusive' /\ \A x \in Closer : Holding(x)' => x = c
  <2>1. \A x \in Closer : Holding(x)' <=> Holding(x)
    BY <1>1, <1>4, <1>5 DEF ServerInv, ServerTypes, Holding
  <2> QED
    BY <1>1, <1>4, <2>1 DEF ServerInv, Exclusive
<1>7. InLoop(c)'
  BY <1>1, <1>2, <1>4, <1>5 DEF ServerInv, ServerTypes, InLoop, Through
<1>8. Emptied(c)'
  BY <1>1, <1>4 DEF Emptied, ConnsOf
<1> QED
  BY <1>3, <1>6, <1>7, <1>8 DEF ServerInv

\* The loop leaves a server; a graceful Shutdown only one without connections.
LEMMA DrainedKeepsInv ==
  ASSUME ServerInv, NEW c \in Closer, Drained(c) \/ Deadline(c)
  PROVE  ServerInv'
<1>1. /\ Holding(c) /\ InLoop(c) /\ Emptied(c)
      /\ pos[c] \in 1 .. Len(servers) /\ cpc[c] = "draining"
  <2>1. Holding(c) /\ InLoop(c) /\ Emptied(c) /\ cpc[c] = "draining"
    BY DEF ServerInv, Drained, Deadline, Holding
  <2>2. pos[c] \in Nat /\ Len(servers) \in Nat
    BY LenProperties DEF ServerInv, ServerTypes
  <2> QED
    BY <2>1, <2>2 DEF InLoop
<1>2. /\ UNCHANGED <<mux, servers, kind, inShutdown, on, conns>>
      /\ cpc' = [cpc EXCEPT ![c] = "loop"]
      /\ pos' = [pos EXCEPT ![c] = @ + 1]
  BY DEF Drained, Deadline, runVars, requestVars
<1>3. ServerTypes'
  BY <1>2 DEF ServerInv, ServerTypes, Drained, Deadline, runVars, requestVars
<1>4. cpc'[c] = "loop" /\ pos[c] \in Nat /\ pos'[c] = pos[c] + 1
  BY <1>2 DEF ServerInv, ServerTypes
<1>5. Exclusive' /\ \A x \in Closer : Holding(x)' => x = c
  <2>1. \A x \in Closer : Holding(x)' <=> Holding(x)
    BY <1>1, <1>2, <1>4 DEF ServerInv, ServerTypes, Holding
  <2> QED
    BY <1>1, <1>2, <2>1 DEF ServerInv, Exclusive
<1>6. InLoop(c)'
  BY <1>1, <1>2, <1>4 DEF InLoop, Through
<1>7. Emptied(c)'
  <2>1. kind[c] # "timed" => ConnsOf(servers[pos[c]]) = {}
    BY DEF Drained, Deadline
  <2> QED
    BY <1>1, <1>2, <1>4, <2>1 DEF Emptied, ConnsOf
<1> QED
  BY <1>3, <1>5, <1>6, <1>7 DEF ServerInv

LEMMA UnlockKeepsInv ==
  ASSUME ServerInv, NEW c \in Closer, Unlock(c)
  PROVE  ServerInv'
<1>1. ServerTypes'
  BY EmptySeq DEF ServerInv, ServerTypes, Unlock, runVars, requestVars
<1>2. \A x \in Closer : Holding(x) => x = c
  BY DEF ServerInv, Exclusive, Unlock, Holding
<1>3. \A x \in Closer : ~Holding(x)'
  BY <1>2 DEF ServerInv, ServerTypes, Unlock, Holding
<1> QED
  BY <1>1, <1>3, NoCloserAssumption DEF ServerInv, Exclusive, Unlock

-----------------------------------------------------------------------------
LEMMA SurroundingsKeepInv == ServerInv /\ Surroundings => ServerInv'
<1> SUFFICES ASSUME ServerInv, Surroundings PROVE ServerInv'
  OBVIOUS
<1>1. CASE \E r \in Runner : Cancel(r)
  BY <1>1, RunsKeepInv
<1>2. CASE \E r \in Runner : WatchFires(r)
  BY <1>2, WatchKeepsInv
<1>3. CASE \E q \in Request : \/ \E r \in Runner : Accept(q, r)
                              \/ UseServer(q) \/ UsedServer(q) \/ Finish(q)
  BY <1>3, RequestsKeepInv
<1>4. CASE \E c \in Closer : \E k \in Kinds : Win(c, k) \/ Lose(c, k)
  BY <1>4, CallsKeepInv
<1>5. CASE \E c \in Closer : Lock(c)
  BY <1>5, LockKeepsInv
<1>6. CASE \E c \in Closer : CloserStep(c)
  BY <1>6, CloseOneKeepsInv, ShutdownOneKeepsInv, DrainedKeepsInv,
     UnlockKeepsInv
  DEF CloserStep
<1> QED
  BY <1>1, <1>2, <1>3, <1>4, <1>5, <1>6 DEF Surroundings

LEMMA RunKeepsInv ==
  ASSUME ServerInv, NEW r \in Runner, Run(r)
  PROVE  ServerInv'
BY RunsKeepInv, TrackKeepsInv DEF Run, RunStep

LEMMA StutterKeepsInv == ServerInv /\ UNCHANGED serverVars => ServerInv'
<1> SUFFICES ASSUME ServerInv, UNCHANGED serverVars PROVE ServerInv'
  OBVIOUS
<1>1. ServerTypes'
  BY DEF ServerInv, ServerTypes, serverVars
<1> QED
  BY <1>1, RunKept DEF serverVars, requestVars, closerVars

LEMMA ServerStep == ServerInv /\ [ServerNext]_serverVars => ServerInv'
BY SurroundingsKeepInv, RunKeepsInv, StutterKeepsInv DEF ServerNext

\* A step of the servers with certificates is one of Run, leaves the rest of the
\* Server alone, or ends the call before or instead of serving.
LEMMA SecureStepKeepsInv ==
  ASSUME ServerInv, NEW r \in Runner,
         \/ Begin(r) \/ BadOptions(r) \/ BadCertificate(r)
         \/ HttpFails(r) \/ HttpsFails(r) \/ SecureStep(r)
  PROVE  ServerInv'
<1>1. CASE Begin(r) \/ BadOptions(r) \/ ServeSecure(r) \/ HttpsCloses(r)
  BY <1>1, RunsKeepInv DEF Begin, BadOptions, ServeSecure, HttpsCloses
<1>2. CASE TrackSecure(r)
  BY <1>2, TrackKeepsInv DEF TrackSecure
<1>3. CASE BadCertificate(r) \/ HttpsFails(r)
  <2>1. ServerTypes'
    BY <1>3
    DEF ServerInv, ServerTypes, BadCertificate, HttpsFails, requestVars,
        closerVars
  <2>2. UNCHANGED <<mux, servers, inShutdown, requestVars, closerVars>>
    BY <1>3 DEF BadCertificate, HttpsFails
  <2> QED
    BY <2>1, <2>2, RunKept
<1>4. CASE \/ Receive(r) \/ DynReturns(r) \/ HttpFails(r)
           \/ \E s \in Side : SendResult(r, s)
  BY <1>4, StutterKeepsInv DEF Receive, DynReturns, HttpFails, SendResult
<1> QED
  BY <1>1, <1>2, <1>3, <1>4 DEF SecureStep

LEMMA TlsStep == ServerInv /\ [TlsNext]_allVars => ServerInv'
<1>1. ASSUME ServerInv, NEW r \in Secure,
             \/ Begin(r) \/ BadOptions(r) \/ BadCertificate(r)
             \/ HttpFails(r) \/ HttpsFails(r) \/ SecureStep(r)
      PROVE  ServerInv'
  BY <1>1, SecureStepKeepsInv DEF Secure
<1>2. ServerInv /\ UNCHANGED allVars => ServerInv'
  BY StutterKeepsInv DEF allVars
<1> QED
  BY <1>1, <1>2, SurroundingsKeepInv, RunKeepsInv DEF Plain, TlsNext

\* ServerInv holds whatever Runs, requests, Close and Shutdown do to each other.
THEOREM ServerInvariance == ServerSpec => []ServerInv
<1> QED
  BY ServerInitInv, ServerStep, PTL DEF ServerSpec

\* It does so as well with the calls of RunAutoCertDyn and RunTLSAndAuto.
THEOREM TlsInvariance == TlsSpec => []ServerInv
<1>1. TlsInit => ServerInv
  BY ServerInitInv DEF TlsInit
<1> QED
  BY <1>1, TlsStep, PTL DEF TlsSpec

\* The loop is over: what it went past is everything.
LEMMA Drains ==
  ServerInv => \A c \in Closer : Unlock(c) /\ kind[c] = "graceful" =>
            \A r \in Tracked : ConnsOf(r) = {}
<1> SUFFICES ASSUME ServerInv, NEW c \in Closer, Unlock(c), kind[c] = "graceful",
                    NEW r \in Tracked
             PROVE  ConnsOf(r) = {}
  OBVIOUS
<1>1. PICK i \in DOMAIN servers : servers[i] = r
  BY DEF Tracked
<1>2. /\ i \in 1 .. Len(servers) /\ Len(servers) \in Nat
      /\ pos[c] \in Nat /\ pos[c] > Len(servers)
  BY LenProperties DEF ServerInv, ServerTypes, Unlock
<1>3. Emptied(c)
  BY DEF ServerInv, Holding, Unlock
<1>4. ConnsOf(servers[i]) = {}
  BY <1>2, <1>3 DEF Emptied
<1> QED
  BY <1>1, <1>4

\* When Shutdown(0) returns, no server it knew has a connection left: those that
\* drained first did not get new ones meanwhile (server.go:278-281).
THEOREM GracefulDrainsHolds == ServerSpec => GracefulDrains
<1> QED
  BY ServerInvariance, Drains, PTL DEF GracefulDrains

\* Nor has any server that ssl.go started (ssl.go:127, 252).
THEOREM SecureServersDrain == TlsSpec => GracefulDrains
<1> QED
  BY TlsInvariance, Drains, PTL DEF GracefulDrains

-----------------------------------------------------------------------------
(* Whom the holder of serversMux waits for *)

\* A connection is tracked for as long as its request is being handled.
ConnsHandled == \A q \in conns : qpc[q] \in {"handling", "locking"}

\* A closer in its call has said which one.
KindKnown == \A c \in Closer : cpc[c] # "idle" => kind[c] # "none"

\* Who holds serversMux is at a server of its loop or past the last one; and if
\* it waits for connections, then with a deadline, or for handlers none of which
\* waits for the mutex, unless it is stuck.
HolderGoesOn ==
  \A c \in Closer : mux = c =>
    \/ cpc[c] = "loop" /\ pos[c] \in 1..Len(servers) + 1
    \/ /\ cpc[c] = "draining" /\ pos[c] \in 1..Len(servers)
       /\ \/ kind[c] = "timed"
          \/ \A q \in ConnsOf(servers[pos[c]]) : qpc[q] = "handling"
    \/ Stuck(c)

LEMMA HandledStep ==
  ServerInv /\ ConnsHandled /\ (Surroundings \/ UNCHANGED requestVars)
    => ConnsHandled'
<1> SUFFICES ASSUME ServerTypes, ConnsHandled,
                    Surroundings \/ UNCHANGED requestVars
             PROVE  ConnsHandled'
  BY DEF ServerInv
<1> USE DEF ServerTypes, ConnsHandled
<1>1. CASE UNCHANGED requestVars
  BY <1>1 DEF requestVars
<1>2. ASSUME NEW q \in Request, NEW r \in Runner, Accept(q, r)
      PROVE  ConnsHandled'
  BY <1>2 DEF Accept
<1>3. ASSUME NEW q \in Request, UseServer(q) \/ UsedServer(q) PROVE ConnsHandled'
  BY <1>3 DEF UseServer, UsedServer
<1>4. ASSUME NEW q \in Request, Finish(q) PROVE ConnsHandled'
  BY <1>4 DEF Finish
<1>5. ASSUME NEW c \in Closer, CloseOne(c) PROVE ConnsHandled'
  BY <1>5 DEF CloseOne
<1>6. ASSUME NEW r \in Runner, Cancel(r) \/ WatchFires(r)
      PROVE  UNCHANGED requestVars
  BY <1>6 DEF Cancel, WatchFires
<1>7. ASSUME NEW c \in Closer,
             \/ \E k \in Kinds : Win(c, k) \/ Lose(c, k)
             \/ Lock(c) \/ ShutdownOne(c) \/ Drained(c) \/ Deadline(c)
             \/ Unlock(c)
      PROVE  UNCHANGED requestVars
  BY <1>7 DEF Win, Lose, Lock, ShutdownOne, Drained, Deadline, Unlock
<1> QED
  BY <1>1, <1>2, <1>3, <1>4, <1>5, <1>6, <1>7 DEF Surroundings, CloserStep

LEMMA KindStep ==
  ServerInv /\ KindKnown /\ (Surroundings \/ UNCHANGED closerVars) => KindKnown'
<1> SUFFICES ASSUME ServerTypes, KindKnown,
                    Surroundings \/ UNCHANGED closerVars
             PROVE  KindKnown'
  BY DEF ServerInv
<1> USE DEF ServerTypes, KindKnown
<1>1. CASE UNCHANGED closerVars
  BY <1>1 DEF closerVars
<1>2. ASSUME NEW c \in Closer, NEW k \in Kinds, Win(c, k) PROVE KindKnown'
  BY <1>2, KindAssumption DEF Win
<1>3. ASSUME NEW c \in Closer, NEW k \in Kinds, Lose(c, k) PROVE KindKnown'
  BY <1>3, KindAssumption DEF Lose
<1>4. ASSUME NEW c \in Closer,
             \/ Lock(c) \/ CloseOne(c) \/ ShutdownOne(c) \/ Drained(c)
             \/ Deadline(c) \/ Unlock(c)
      PROVE  KindKnown'
  BY <1>4 DEF Lock, CloseOne, ShutdownOne, Drained, Deadline, Unlock
<1>5. ASSUME NEW r \in Runner,
             Cancel(r) \/ WatchFires(r) \/ \E q \in Request : Accept(q, r)
      PROVE  UNCHANGED closerVars
  BY <1>5 DEF Cancel, WatchFires, Accept
<1>6. ASSUME NEW q \in Request, UseServer(q) \/ UsedServer(q) \/ Finish(q)
      PROVE  UNCHANGED closerVars
  BY <1>6 DEF UseServer, UsedServer, Finish
<1> QED
  BY <1>1, <1>2, <1>3, <1>4, <1>5, <1>6 DEF Surroundings, CloserStep

\* The calls that run servers touch neither requests nor closers.
LEMMA RunsApart ==
  /\ \A r \in Runner : Run(r) => UNCHANGED <<requestVars, closerVars>>
  /\ \A r \in Runner :
       Begin(r) \/ BadOptions(r) \/ BadCertificate(r) \/ HttpFails(r)
         \/ HttpsFails(r) \/ SecureStep(r)
       => UNCHANGED <<requestVars, closerVars>>
<1>1. ASSUME NEW r \in Runner, Run(r)
      PROVE  UNCHANGED <<requestVars, closerVars>>
  BY <1>1
  DEF Run, RunStep, Listen, ListenFails, Track, Serve, ServeReturns, AcceptFails
<1>2. ASSUME NEW r \in Runner,
             Begin(r) \/ BadOptions(r) \/ BadCertificate(r) \/ HttpFails(r)
               \/ HttpsFails(r)
      PROVE  UNCHANGED <<requestVars, closerVars>>
  BY <1>2
  DEF Begin, Listen, BadOptions, ListenFails, BadCertificate, HttpFails,
      HttpsFails, serverVars, requestVars, closerVars
<1>3. ASSUME NEW r \in Runner, SecureStep(r)
      PROVE  UNCHANGED <<requestVars, closerVars>>
  BY <1>3
  DEF SecureStep, TrackSecure, Track, ServeSecure, Serve, HttpsCloses,
      ServeReturns, Receive, DynReturns, SendResult, serverVars, requestVars,
      closerVars
<1> QED
  BY <1>1, <1>2, <1>3

LEMMA HolderBusy == ServerInv /\ ConnsHandled /\ KindKnown => HolderGoesOn
<1> SUFFICES ASSUME ServerInv, ConnsHandled, KindKnown,
                    NEW c \in Closer, mux = c, ~Stuck(c)
             PROVE  \/ cpc[c] = "loop" /\ pos[c] \in 1..Len(servers) + 1
                    \/ /\ cpc[c] = "draining" /\ pos[c] \in 1..Len(servers)
                       /\ \/ kind[c] = "timed"
                          \/ \A q \in ConnsOf(servers[pos[c]]) :
                               qpc[q] = "handling"
  BY DEF HolderGoesOn
<1>1. Holding(c) /\ InLoop(c)
  BY DEF ServerInv, Exclusive
<1>2. CASE cpc[c] = "loop"
  BY <1>1, <1>2 DEF InLoop
<1>3. CASE cpc[c] = "draining"
  <2>1. pos[c] \in 1..Len(servers)
    <3>1. Len(servers) \in Nat
      BY LenProperties DEF ServerInv, ServerTypes
    <3> QED
      BY <1>1, <1>3, <3>1 DEF InLoop
  <2>2. kind[c] \in {"timed", "graceful"}
    <3>1. kind[c] \in Kind /\ kind[c] # "close"
      BY <1>1, <1>3 DEF ServerInv, ServerTypes, InLoop, KindKnown
    <3> QED
      BY <3>1 DEF Kind
  <2>3. ASSUME kind[c] = "graceful", NEW q \in ConnsOf(servers[pos[c]])
        PROVE  qpc[q] = "handling"
    BY <1>3, <2>3 DEF Stuck, ConnsHandled, ConnsOf
  <2> QED
    BY <1>3, <2>1, <2>2, <2>3
<1> QED
  BY <1>1, <1>2, <1>3 DEF Holding

\* Nothing but a handler that asks its own Server for serversMux can keep a
\* Shutdown(0) from going on, and nothing at all a Close or a Shutdown with a
\* deadline: for any number of servers, requests and closers, the holder of the
\* mutex waits for handlers that run (server.go:245, 277-283).
THEOREM OnlyHandlersBlock == ServerSpec => []HolderGoesOn
<1>1. ServerInit => ConnsHandled /\ KindKnown
  BY DEF ServerInit, ConnsHandled, KindKnown
<1>2. ServerInv /\ ConnsHandled /\ KindKnown /\ [ServerNext]_serverVars
        => ConnsHandled' /\ KindKnown'
  <2>1. [ServerNext]_serverVars
          => \/ Surroundings
             \/ UNCHANGED <<requestVars, closerVars>>
    BY RunsApart DEF ServerNext, serverVars, requestVars, closerVars
  <2> QED
    BY <2>1, HandledStep, KindStep
<1> QED
  BY <1>1, <1>2, ServerInvariance, HolderBusy, PTL DEF ServerSpec

\* Nor do the servers with certificates (ssl.go:127, 252).
THEOREM SecureServersBlockNobody == TlsSpec => []HolderGoesOn
<1>1. TlsInit => ConnsHandled /\ KindKnown
  BY DEF TlsInit, ServerInit, ConnsHandled, KindKnown
<1>2. ServerInv /\ ConnsHandled /\ KindKnown /\ [TlsNext]_allVars
        => ConnsHandled' /\ KindKnown'
  <2>1. [TlsNext]_allVars
          => \/ Surroundings
             \/ UNCHANGED <<requestVars, closerVars>>
    BY RunsApart
    DEF TlsNext, allVars, serverVars, requestVars, closerVars, Plain, Secure
  <2> QED
    BY <2>1, HandledStep, KindStep
<1> QED
  BY <1>1, <1>2, TlsInvariance, HolderBusy, PTL DEF TlsSpec

-----------------------------------------------------------------------------
(* The results of the two listeners of RunTLSAndAuto *)

TlsTypes ==
  /\ how \in Calls
  /\ call \in [Runner -> {"idle", "running", "returned"}]
  /\ http \in [Runner -> {"off", "up", "down"}]
  /\ failed \in [Runner -> BOOLEAN]
  /\ owed \in [Runner -> [Side -> Nat]]
  /\ ch \in [Runner -> Nat]

\* The results that are still to be received, or never will be.
Unreceived(r) == owed[r]["http"] + owed[r]["https"] + ch[r]

Started(r) == http[r] # "off"

\* The results of the listeners that are over: two of one that failed.
Results(r) ==
  (IF http[r] = "down" THEN 2 ELSE 0)
    + (IF Started(r) /\ rpc[r] = "returned" THEN IF failed[r] THEN 2 ELSE 1 ELSE 0)

\* The one result that the call took is among them.
ResultsOK(r) ==
  how[r] = "auto" =>
    /\ Unreceived(r) + (IF Started(r) /\ call[r] = "returned" THEN 1 ELSE 0)
         <= Results(r)
    /\ Started(r) => rpc[r] \in {"tracked", "serving", "returned"}
    /\ ~Started(r) => rpc[r] \in {"idle", "made", "returned"}
    /\ failed[r] => rpc[r] = "returned"
    /\ rpc[r] = "idle" => call[r] = "idle"
    /\ rpc[r] = "made" => call[r] = "running"

TlsInv == TlsTypes /\ \A r \in Runner : ResultsOK(r)

\* Nothing that the results of r depend on has changed.
Untouched(r) ==
  UNCHANGED <<how[r], call[r], http[r], failed[r], owed[r], ch[r], rpc[r]>>

LEMMA UntouchedOK ==
  ASSUME NEW x \in Runner, ResultsOK(x), Untouched(x)
  PROVE  ResultsOK(x)'
BY DEF ResultsOK, Untouched, Unreceived, Results, Started

LEMMA OweAdds ==
  ASSUME TlsTypes, NEW r \in Runner, NEW s \in Side, NEW m \in Nat, Owe(r, s, m)
  PROVE  /\ owed' \in [Runner -> [Side -> Nat]]
         /\ \A x \in Runner \ {r} : owed'[x] = owed[x]
         /\ owed'[r]["http"] + owed'[r]["https"]
              <= owed[r]["http"] + owed[r]["https"] + m
<1>1. owed \in [Runner -> [Side -> Nat]] /\ owed[r] \in [Side -> Nat]
  BY DEF TlsTypes
<1>2. /\ owed[r]["http"] \in Nat /\ owed[r]["https"] \in Nat
      /\ s \in {"http", "https"}
  BY <1>1 DEF Side
<1>3. CASE how[r] # "auto"
  BY <1>1, <1>2, <1>3 DEF Owe
<1>4. CASE how[r] = "auto"
  <2>1. owed' = [owed EXCEPT ![r] = [owed[r] EXCEPT ![s] = m]]
    BY <1>4 DEF Owe
  <2> DEFINE f == [owed[r] EXCEPT ![s] = m]
  <2>2. f \in [Side -> Nat]
    BY <1>1
  <2>3. f["http"] + f["https"] <= owed[r]["http"] + owed[r]["https"] + m
    BY <1>1, <1>2 DEF Side
  <2> HIDE DEF f
  <2>4. owed' = [owed EXCEPT ![r] = f]
    BY <2>1 DEF f
  <2> QED
    BY <1>1, <2>2, <2>3, <2>4
<1> QED
  BY <1>3, <1>4

\* The https server of r goes on, as the server of Run does, or ends.
LEMMA HttpsKeepsResults ==
  ASSUME ServerInv, TlsInv, NEW r \in Runner,
         \/ Begin(r) \/ BadOptions(r) \/ BadCertificate(r) \/ TrackSecure(r)
         \/ ServeSecure(r) \/ HttpsCloses(r) \/ HttpsFails(r)
  PROVE  TlsInv'
<1>1. /\ TlsTypes /\ ResultsOK(r)
      /\ owed[r]["http"] \in Nat /\ owed[r]["https"] \in Nat /\ ch[r] \in Nat
      /\ call[r] \in {"idle", "running", "returned"} /\ failed[r] \in BOOLEAN
      /\ http[r] \in {"off", "up", "down"}
      /\ rpc \in [Runner -> {"idle", "made", "tracked", "serving", "returned"}]
  BY DEF TlsInv, TlsTypes, Side, ServerInv, ServerTypes
<1> SUFFICES /\ TlsTypes'
             /\ ResultsOK(r)'
             /\ \A x \in Runner \ {r} : Untouched(x)
  BY UntouchedOK DEF TlsInv
<1>2. CASE Begin(r) \/ BadOptions(r) \/ BadCertificate(r)
  <2>1. TlsTypes' /\ \A x \in Runner \ {r} : Untouched(x)
    BY <1>1, <1>2
    DEF TlsTypes, Untouched, Begin, BadOptions, BadCertificate, Listen, ListenFails
  <2>2. CASE Begin(r)
    <3>1. /\ rpc[r] = "idle" /\ rpc'[r] = "made" /\ call'[r] = "running"
          /\ UNCHANGED <<how, http, failed, owed, ch>>
      BY <1>1, <2>2 DEF TlsTypes, Begin, Listen
    <3> QED
      BY <1>1, <2>1, <3>1 DEF ResultsOK, Unreceived, Results, Started
  <2>3. CASE BadOptions(r)
    <3>1. how[r] = "dyn" /\ how' = how
      BY <2>3 DEF BadOptions
    <3> QED
      BY <2>1, <3>1 DEF ResultsOK
  <2>4. CASE BadCertificate(r)
    <3>1. /\ rpc[r] = "made" /\ rpc'[r] = "returned" /\ call'[r] = "returned"
          /\ UNCHANGED <<how, http, failed, owed, ch>>
      BY <1>1, <2>4 DEF TlsTypes, BadCertificate
    <3> QED
      BY <1>1, <2>1, <3>1 DEF ResultsOK, Unreceived, Results, Started
  <2> QED
    BY <1>2, <2>1, <2>2, <2>3, <2>4
<1>3. CASE TrackSecure(r)
  BY <1>1, <1>3
  DEF TlsTypes, Untouched, ResultsOK, Unreceived, Results, Started, TrackSecure, Track
<1>4. CASE ServeSecure(r)
  <2>1. /\ rpc[r] = "tracked" /\ UNCHANGED <<how, call, http, failed, ch>>
        /\ rpc' = [rpc EXCEPT ![r] = IF inShutdown[r] THEN "returned" ELSE "serving"]
        /\ IF inShutdown[r] THEN Owe(r, "https", 1) ELSE UNCHANGED owed
    BY <1>4 DEF ServeSecure, Serve
  <2>2. CASE inShutdown[r]
    <3>1. /\ owed' \in [Runner -> [Side -> Nat]]
          /\ \A x \in Runner \ {r} : owed'[x] = owed[x]
          /\ owed'[r]["http"] + owed'[r]["https"]
               <= owed[r]["http"] + owed[r]["https"] + 1
      BY <1>1, <2>1, <2>2, OweAdds DEF Side
    <3>2. /\ rpc'[r] = "returned" /\ UNCHANGED <<how, call, http, failed, ch>>
          /\ owed'[r]["http"] \in Nat /\ owed'[r]["https"] \in Nat
      BY <1>1, <2>1, <2>2, <3>1 DEF Side
    <3>3. ResultsOK(r)'
      BY <1>1, <2>1, <3>1, <3>2 DEF ResultsOK, Unreceived, Results, Started
    <3> QED
      BY <1>1, <2>1, <2>2, <3>1, <3>3 DEF TlsTypes, Untouched
  <2>3. CASE ~inShutdown[r]
    BY <1>1, <2>1, <2>3
    DEF TlsTypes, Untouched, ResultsOK, Unreceived, Results, Started
  <2> QED
    BY <2>2, <2>3
<1>5. CASE HttpsCloses(r)
  <2>1. /\ rpc[r] = "serving" /\ UNCHANGED <<how, call, http, failed, ch>>
        /\ rpc' = [rpc EXCEPT ![r] = "returned"] /\ Owe(r, "https", 1)
    BY <1>5 DEF HttpsCloses, ServeReturns
  <2>2. /\ owed' \in [Runner -> [Side -> Nat]]
        /\ \A x \in Runner \ {r} : owed'[x] = owed[x]
        /\ owed'[r]["http"] + owed'[r]["https"]
             <= owed[r]["http"] + owed[r]["https"] + 1
    BY <1>1, <2>1, OweAdds DEF Side
  <2>3. /\ rpc'[r] = "returned"
        /\ owed'[r]["http"] \in Nat /\ owed'[r]["https"] \in Nat
    BY <1>1, <2>1, <2>2 DEF TlsTypes, Side
  <2>4. ResultsOK(r)'
    BY <1>1, <2>1, <2>2, <2>3 DEF ResultsOK, Unreceived, Results, Started
  <2> QED
    BY <1>1, <2>1, <2>2, <2>4 DEF TlsTypes, Untouched
<1>6. CASE HttpsFails(r)
  <2>1. /\ rpc[r] \in {"tracked", "serving"} /\ UNCHANGED <<how, call, http, ch>>
        /\ rpc' = [rpc EXCEPT ![r] = "returned"] /\ Owe(r, "https", 2)
        /\ failed' = [failed EXCEPT ![r] = TRUE]
    BY <1>6 DEF HttpsFails
  <2>2. /\ owed' \in [Runner -> [Side -> Nat]]
        /\ \A x \in Runner \ {r} : owed'[x] = owed[x]
        /\ owed'[r]["http"] + owed'[r]["https"]
             <= owed[r]["http"] + owed[r]["https"] + 2
    BY <1>1, <2>1, OweAdds DEF Side
  <2>3. /\ rpc'[r] = "returned" /\ failed'[r]
        /\ owed'[r]["http"] \in Nat /\ owed'[r]["https"] \in Nat
    BY <1>1, <2>1, <2>2 DEF TlsTypes, Side
  <2>4. ResultsOK(r)'
    BY <1>1, <2>1, <2>2, <2>3 DEF ResultsOK, Unreceived, Results, Started
  <2> QED
    BY <1>1, <2>1, <2>2, <2>4 DEF TlsTypes, Untouched
<1> QED
  BY <1>2, <1>3, <1>4, <1>5, <1>6

\* The listener on :80 ends, results are sent, or the call takes one.
LEMMA ResultsKept ==
  ASSUME ServerInv, TlsInv, NEW r \in Runner,
         \/ HttpFails(r) \/ Receive(r) \/ DynReturns(r)
         \/ \E s \in Side : SendResult(r, s)
  PROVE  TlsInv'
<1>1. /\ TlsTypes /\ ResultsOK(r)
      /\ owed \in [Runner -> [Side -> Nat]] /\ owed[r] \in [Side -> Nat]
      /\ owed[r]["http"] \in Nat /\ owed[r]["https"] \in Nat /\ ch[r] \in Nat
  BY DEF TlsInv, TlsTypes, Side
<1> SUFFICES /\ TlsTypes'
             /\ ResultsOK(r)'
             /\ \A x \in Runner \ {r} : Untouched(x)
  BY UntouchedOK DEF TlsInv
<1>2. CASE HttpFails(r)
  <2>1. /\ http[r] = "up" /\ http' = [http EXCEPT ![r] = "down"]
        /\ Owe(r, "http", 2) /\ UNCHANGED <<rpc, how, call, failed, ch>>
    BY <1>2 DEF HttpFails, serverVars
  <2>2. /\ owed' \in [Runner -> [Side -> Nat]]
        /\ \A x \in Runner \ {r} : owed'[x] = owed[x]
        /\ owed'[r]["http"] + owed'[r]["https"]
             <= owed[r]["http"] + owed[r]["https"] + 2
    BY <1>1, <2>1, OweAdds DEF Side
  <2>3. /\ http'[r] = "down"
        /\ owed'[r]["http"] \in Nat /\ owed'[r]["https"] \in Nat
    <3>1. http'[r] = "down"
      BY <1>1, <2>1 DEF TlsTypes
    <3>2. owed'[r] \in [Side -> Nat]
      BY <2>2
    <3> QED
      BY <3>1, <3>2 DEF Side
  <2>4. ResultsOK(r)'
    BY <1>1, <2>1, <2>2, <2>3 DEF ResultsOK, Unreceived, Results, Started
  <2> QED
    BY <1>1, <2>1, <2>2, <2>4 DEF TlsTypes, Untouched
<1>3. CASE Receive(r)
  BY <1>1, <1>3
  DEF TlsTypes, Untouched, ResultsOK, Unreceived, Results, Started, Receive, serverVars
<1>4. CASE DynReturns(r)
  BY <1>1, <1>4
  DEF TlsTypes, Untouched, ResultsOK, DynReturns, serverVars
<1>5. CASE \E s \in Side : SendResult(r, s)
  <2> PICK s \in Side : SendResult(r, s)
    BY <1>5
  <2>1. /\ owed[r][s] > 0 /\ UNCHANGED <<rpc, how, call, http, failed>>
        /\ ch' = [ch EXCEPT ![r] = ch[r] + 1]
        /\ owed' = [owed EXCEPT ![r] = [owed[r] EXCEPT ![s] = owed[r][s] - 1]]
    BY DEF SendResult, serverVars
  <2> DEFINE f == [owed[r] EXCEPT ![s] = owed[r][s] - 1]
  <2>2. /\ f \in [Side -> Nat]
        /\ f["http"] + f["https"] + 1 = owed[r]["http"] + owed[r]["https"]
    BY <1>1, <2>1 DEF Side
  <2> HIDE DEF f
  <2>3. owed' = [owed EXCEPT ![r] = f]
    BY <2>1 DEF f
  <2>4. owed' \in [Runner -> [Side -> Nat]] /\ owed'[r] = f
    BY <1>1, <2>2, <2>3
  <2>5. Unreceived(r)' = Unreceived(r)
    <3>1. ch'[r] = ch[r] + 1
      BY <1>1, <2>1 DEF TlsTypes
    <3>2. f["http"] \in Nat /\ f["https"] \in Nat
      BY <2>2 DEF Side
    <3>3. owed'[r]["http"] = f["http"] /\ owed'[r]["https"] = f["https"]
      BY <2>4
    <3> QED
      BY <1>1, <2>2, <3>1, <3>2, <3>3 DEF Unreceived
  <2>6. ResultsOK(r)'
    BY <1>1, <2>1, <2>5 DEF ResultsOK, Results, Started
  <2> QED
    BY <1>1, <2>1, <2>3, <2>4, <2>6 DEF TlsTypes, Untouched
<1> QED
  BY <1>2, <1>3, <1>4, <1>5

LEMMA PlainKeepsResults ==
  ASSUME ServerInv, TlsInv, UNCHANGED tlsVars,
         \/ UNCHANGED serverVars \/ Surroundings
         \/ \E r \in Plain : Run(r)
  PROVE  TlsInv'
<1>1. TlsTypes'
  BY DEF TlsInv, TlsTypes, tlsVars
<1>2. ASSUME NEW x \in Runner, how[x] = "auto" PROVE rpc'[x] = rpc[x]
  <2>1. CASE UNCHANGED serverVars
    BY <2>1 DEF serverVars
  <2>2. CASE Surroundings
    BY <2>2
    DEF Surroundings, Cancel, WatchFires, Accept, UseServer, UsedServer, Finish,
        Win, Lose, Lock, CloserStep, CloseOne, ShutdownOne, Drained, Deadline,
        Unlock, runVars
  <2>3. CASE \E r \in Plain : Run(r)
    <3> PICK r \in Plain : Run(r)
      BY <2>3
    <3>1. r # x
      BY <1>2 DEF Plain
    <3>2. rpc \in [Runner -> {"idle", "made", "tracked", "serving", "returned"}]
      BY DEF ServerInv, ServerTypes
    <3> QED
      BY <3>1, <3>2 DEF Run, RunStep, Listen, ListenFails, Track, Serve,
         ServeReturns, AcceptFails
  <2> QED
    BY <2>1, <2>2, <2>3
<1>3. ASSUME NEW x \in Runner PROVE ResultsOK(x)'
  <2>1. CASE how[x] = "auto"
    <3>1. Untouched(x)
      BY <1>2, <2>1 DEF Untouched, tlsVars
    <3> QED
      BY <3>1, UntouchedOK DEF TlsInv
  <2>2. CASE how[x] # "auto"
    BY <2>2 DEF ResultsOK, tlsVars
  <2> QED
    BY <2>1, <2>2
<1> QED
  BY <1>1, <1>3 DEF TlsInv

LEMMA TlsInvStep == ServerInv /\ TlsInv /\ [TlsNext]_allVars => TlsInv'
<1>1. ASSUME ServerInv, TlsInv, NEW r \in Secure,
             \/ Begin(r) \/ BadOptions(r) \/ BadCertificate(r)
             \/ HttpFails(r) \/ HttpsFails(r) \/ SecureStep(r)
      PROVE  TlsInv'
  BY <1>1, HttpsKeepsResults, ResultsKept DEF Secure, SecureStep
<1>2. ServerInv /\ TlsInv /\ UNCHANGED allVars => TlsInv'
  BY PlainKeepsResults DEF allVars
<1> QED
  BY <1>1, <1>2, PlainKeepsResults DEF Plain, TlsNext

\* Once RunTLSAndAuto has returned, the results that its listeners sent or will
\* send fit into the channel, so that their goroutines end, unless both failed:
\* it is a capacity of two for up to three results (ssl.go:256-278).
SendersHaveRoom ==
  \A r \in Runner : how[r] = "auto" /\ call[r] = "returned" =>
    Unreceived(r) <= Capacity \/ (failed[r] /\ http[r] = "down")

\* Whatever the listeners do, for any number of calls and of closers: so much
\* room is left in the channel for what is still to be sent (ssl.go:256-278).
THEOREM SendersHaveRoomHolds == TlsSpec => []SendersHaveRoom
<1>1. TlsInit => TlsInv
  BY DEF TlsInit, ServerInit, TlsInv, TlsTypes, ResultsOK, Unreceived, Results,
         Started, Side
<1>2. ServerInv /\ TlsInv => SendersHaveRoom
  <2> SUFFICES ASSUME TlsInv, NEW r \in Runner,
                      how[r] = "auto", call[r] = "returned",
                      ~(failed[r] /\ http[r] = "down")
               PROVE  Unreceived(r) <= 2
    BY DEF SendersHaveRoom, Capacity
  <2>1. /\ owed[r]["http"] \in Nat /\ owed[r]["https"] \in Nat /\ ch[r] \in Nat
    BY DEF TlsInv, TlsTypes, Side
  <2> QED
    BY <2>1 DEF TlsInv, ResultsOK, Unreceived, Results, Started
<1> QED
  BY <1>1, <1>2, TlsInvStep, TlsInvariance, PTL DEF TlsSpec

\* RunTLSAndAuto never waits for a result that nobody sends: once its https
\* listener is over, for whatever reason, there is one in the channel, or a
\* goroutine has one to send and room for it (ssl.go:252-278).
ResultForCall ==
  \A r \in Runner :
    how[r] = "auto" /\ call[r] = "running" /\ rpc[r] = "returned" =>
      \/ ch[r] > 0
      \/ ch[r] < Capacity /\ \E s \in Side : owed[r][s] > 0

\* ResultForCall as a count: what is not received yet is not nothing.
Awaited ==
  \A r \in Runner :
    how[r] = "auto" /\ call[r] = "running" /\ rpc[r] = "returned" =>
      Unreceived(r) > 0

\* Whoever ends owes a result.
LEMMA OweAwaited ==
  ASSUME TlsTypes, NEW r \in Runner, NEW s \in Side, NEW m \in Nat \ {0},
         how[r] = "auto", Owe(r, s, m), ch' = ch
  PROVE  Unreceived(r)' > 0
<1>1. /\ owed[r] \in [Side -> Nat] /\ ch[r] \in Nat
      /\ s \in {"http", "https"}
  BY DEF TlsTypes, Side
<1>2. owed'[r] = [owed[r] EXCEPT ![s] = m]
  BY DEF TlsTypes, Owe
<1>3. /\ owed'[r]["http"] \in Nat /\ owed'[r]["https"] \in Nat
      /\ owed'[r][s] = m
  BY <1>1, <1>2 DEF Side
<1>4. owed'[r]["http"] + owed'[r]["https"] > 0
  BY <1>1, <1>3
<1> QED
  BY <1>1, <1>3, <1>4 DEF Unreceived

\* The step of one secure call keeps the count of that call.
LEMMA AwaitedBySelf ==
  ASSUME ServerInv, TlsInv, Awaited, NEW r \in Secure,
         \/ Begin(r) \/ BadOptions(r) \/ BadCertificate(r)
         \/ HttpFails(r) \/ HttpsFails(r) \/ SecureStep(r),
         how'[r] = "auto", call'[r] = "running", rpc'[r] = "returned"
  PROVE  Unreceived(r)' > 0
<1>1. /\ r \in Runner /\ TlsTypes /\ ResultsOK(r)
      /\ owed[r] \in [Side -> Nat] /\ owed[r]["http"] \in Nat
      /\ owed[r]["https"] \in Nat /\ ch[r] \in Nat
      /\ rpc \in [Runner -> {"idle", "made", "tracked", "serving", "returned"}]
      /\ how' = how /\ how[r] = "auto"
  BY DEF Secure, TlsInv, TlsTypes, Side, ServerInv, ServerTypes, Begin,
         BadOptions, BadCertificate, HttpFails, HttpsFails, SecureStep,
         TrackSecure, ServeSecure, HttpsCloses, Receive, DynReturns, SendResult
<1>2. CASE Begin(r) \/ TrackSecure(r)
  BY <1>1, <1>2 DEF Begin, Listen, TrackSecure, Track
<1>3. CASE BadOptions(r) \/ BadCertificate(r) \/ Receive(r) \/ DynReturns(r)
  BY <1>1, <1>3 DEF TlsTypes, BadOptions, BadCertificate, Receive, DynReturns
<1>4. CASE HttpFails(r)
  BY <1>1, <1>4, OweAwaited DEF HttpFails, Side
<1>5. CASE HttpsFails(r)
  BY <1>1, <1>5, OweAwaited DEF HttpsFails, Side
<1>6. CASE HttpsCloses(r)
  BY <1>1, <1>6, OweAwaited DEF HttpsCloses, Side
<1>7. CASE ServeSecure(r)
  <2>1. inShutdown[r]
    BY <1>1, <1>7 DEF ServeSecure, Serve
  <2> QED
    BY <1>1, <1>7, <2>1, OweAwaited DEF ServeSecure, Side
<1>8. ASSUME NEW s \in Side, SendResult(r, s) PROVE Unreceived(r)' > 0
  <2>1. /\ owed[r][s] > 0 /\ UNCHANGED <<rpc, call>>
        /\ ch' = [ch EXCEPT ![r] = ch[r] + 1]
        /\ owed' = [owed EXCEPT ![r] = [owed[r] EXCEPT ![s] = owed[r][s] - 1]]
    BY <1>8 DEF SendResult, serverVars
  <2>2. ch'[r] = ch[r] + 1
    BY <1>1, <2>1 DEF TlsTypes
  <2>3. owed'[r] = [owed[r] EXCEPT ![s] = owed[r][s] - 1]
    BY <1>1, <2>1 DEF TlsTypes
  <2>4. owed'[r]["http"] \in Nat /\ owed'[r]["https"] \in Nat
    BY <1>1, <2>1, <2>3 DEF Side
  <2> QED
    BY <1>1, <2>2, <2>4 DEF Unreceived
<1> QED
  BY <1>2, <1>3, <1>4, <1>5, <1>6, <1>7, <1>8 DEF SecureStep

LEMMA AwaitedStep == ServerInv /\ TlsInv /\ Awaited /\ [TlsNext]_allVars => Awaited'
<1> SUFFICES ASSUME ServerInv, TlsInv, Awaited, [TlsNext]_allVars,
                    NEW x \in Runner,
                    how'[x] = "auto", call'[x] = "running", rpc'[x] = "returned"
             PROVE  Unreceived(x)' > 0
  BY DEF Awaited
<1>0. /\ TlsTypes
      /\ rpc \in [Runner -> {"idle", "made", "tracked", "serving", "returned"}]
  BY DEF TlsInv, ServerInv, ServerTypes
<1>1. ASSUME Untouched(x) PROVE Unreceived(x)' > 0
  BY <1>1 DEF Awaited, Untouched, Unreceived
<1>2. CASE UNCHANGED allVars
  BY <1>1, <1>2 DEF Untouched, allVars, serverVars, tlsVars
<1>3. CASE Surroundings /\ UNCHANGED tlsVars
  <2>1. rpc' = rpc
    BY <1>3
    DEF Surroundings, Cancel, WatchFires, Accept, UseServer, UsedServer, Finish,
        Win, Lose, Lock, CloserStep, CloseOne, ShutdownOne, Drained, Deadline,
        Unlock, runVars
  <2> QED
    BY <1>1, <1>3, <2>1 DEF Untouched, tlsVars
<1>4. ASSUME NEW r \in Plain, Run(r), UNCHANGED tlsVars
      PROVE  Unreceived(x)' > 0
  <2>1. r # x
    BY <1>4 DEF Plain, tlsVars
  <2>2. rpc'[x] = rpc[x]
    BY <1>0, <1>4, <2>1 DEF Run, RunStep, Listen, ListenFails, Track, Serve,
       ServeReturns, AcceptFails
  <2> QED
    BY <1>1, <1>4, <2>2 DEF Untouched, tlsVars
<1>5. ASSUME NEW r \in Secure,
             \/ Begin(r) \/ BadOptions(r) \/ BadCertificate(r)
             \/ HttpFails(r) \/ HttpsFails(r) \/ SecureStep(r)
      PROVE  Unreceived(x)' > 0
  <2>1. CASE x = r
    BY <1>5, <2>1, AwaitedBySelf
  <2>2. CASE x # r
    <3>1. Untouched(x)
      BY <1>0, <1>5, <2>2
      DEF TlsTypes, Untouched, Secure, Begin, BadOptions, BadCertificate,
          HttpFails, HttpsFails, SecureStep, TrackSecure, ServeSecure,
          HttpsCloses, Receive, DynReturns, SendResult, Listen, ListenFails,
          Track, Serve, ServeReturns, Owe, serverVars
    <3> QED
      BY <1>1, <3>1
  <2> QED
    BY <2>1, <2>2
<1> QED
  BY <1>2, <1>3, <1>4, <1>5 DEF TlsNext

\* RunTLSAndAuto never waits in vain for a result, for any number of calls and
\* whichever of its listeners fail or are shut down (ssl.go:252-278).
THEOREM ResultForCallHolds == TlsSpec => []ResultForCall
<1>1. TlsInit => TlsInv /\ Awaited
  BY DEF TlsInit, ServerInit, TlsInv, TlsTypes, ResultsOK, Unreceived, Results,
         Started, Side, Awaited
<1>2. ServerInv /\ TlsInv /\ Awaited => ResultForCall
  <2> SUFFICES ASSUME TlsInv, NEW r \in Runner, Unreceived(r) > 0, ~(ch[r] > 0)
               PROVE  ch[r] < Capacity /\ \E s \in Side : owed[r][s] > 0
    BY DEF Awaited, ResultForCall
  <2>1. /\ owed[r]["http"] \in Nat /\ owed[r]["https"] \in Nat /\ ch[r] \in Nat
    BY DEF TlsInv, TlsTypes, Side
  <2>2. ch[r] < Capacity
    BY <2>1 DEF Capacity
  <2>3. owed[r]["http"] > 0 \/ owed[r]["https"] > 0
    BY <2>1 DEF Unreceived
  <2> QED
    BY <2>2, <2>3 DEF Side
<1> QED
  BY <1>1, <1>2, TlsInvStep, AwaitedStep, TlsInvariance, PTL DEF TlsSpec
=============================================================================
