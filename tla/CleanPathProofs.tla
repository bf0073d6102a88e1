-------------------------- MODULE CleanPathProofs --------------------------
(***************************************************************************)
(* cleanPath on paths of any length over any bytes: it writes inside its   *)
(* path or its buffer, since what is written stays behind what is read;    *)
(* what it returns has nothing left to clean, is the path itself if that   *)
(* had nothing either, and is what the rules make of its elements.         *)
(***************************************************************************)
EXTENDS CleanPathRules, SequenceTheorems, WellFoundedInduction, TLAPS

\* An unrooted path gets a slash of cleanPath's own, and a byte of room for it.
Extra == IF At(0) = "/" THEN 0 ELSE 1

\* The buffer has the length of the path and its extra slash.
RoomOK == p # <<>> => Size = n + Extra

\* Writing is behind reading, by the slash in front of the next element while
\* one is about to be copied or a slash is due at the end.
BehindOK ==
  p # <<>> =>
    /\ w >= 1 /\ w <= n + Extra
    /\ pc \in {"loop", "copy"} => w <= r + Extra
    /\ pc = "loop" /\ w > 1 /\ r < n /\ At(r) # "/" => w < r + Extra
    /\ WantsSlash => /\ w < n + Extra
                     /\ At(n - 1) = "/" \/ w + 1 < n + Extra

\* trailing tells how the path ends, a copied element does not end it with a
\* slash, and the next element has a slash in front of it.
TrailingOK ==
  p # <<>> =>
    /\ trailing => At(n - 1) = "/" \/ (pc # "copy" /\ r = n)
    /\ pc = "copy" => \/ r < n /\ At(r) # "/"
                      \/ r > 0 /\ At(r - 1) # "/"
    /\ pc = "loop" /\ r > 0 /\ r < n /\ At(r) # "/" => At(r - 1) = "/"

\* The empty path is never scanned.
EmptyOK == p = <<>> => pc = "done" /\ w = 0 /\ buf = <<>>

\* A rooted path has a buffer once a byte was dropped for good: from then on
\* writing lags, by one byte more than is needed.  The buffer of an unrooted
\* path keeps the slash it began with.
LagsOK ==
  p # <<>> /\ buf # <<>> =>
    /\ Extra = 1 => buf[1] = "/"
    /\ Extra = 0 =>
         /\ pc \in {"loop", "copy"} => w < r
         /\ pc = "loop" /\ w > 1 /\ r < n /\ At(r) # "/" => w + 1 < r
         /\ WantsSlash => w + 1 < n
         /\ w < n

\* What is returned was written.
ResultOK ==
  pc = "done" /\ p # <<>> =>
    /\ clean = SubSeq(IF buf = <<>> THEN p ELSE buf, 1, w)
    /\ modified <=> (buf # <<>> \/ w < n)

IInv == TypeOK /\ RoomOK /\ BehindOK /\ TrailingOK /\ EmptyOK

FullInv == IInv /\ LagsOK /\ ResultOK

\* The bytes of a path are there.
LEMMA Lengths == ASSUME p \in Path
                 PROVE  /\ p \in Seq(Byte) /\ n \in Nat
                        /\ p # <<>> <=> n > 0
                        /\ \A i \in 0 .. n - 1 : At(i) \in Byte
BY PathAssumption DEF n, At

-----------------------------------------------------------------------------
\* The invariant holds at the start.
LEMMA InitInv == Init => IInv
<1> USE DEF IInv, TypeOK, RoomOK, BehindOK, TrailingOK, EmptyOK, WantsSlash
<1>1. CASE InitEmpty
  <2>1. clean \in Seq(Byte \cup {Zero}) /\ buf \in Seq(Byte \cup {Zero})
    BY <1>1, PathAssumption DEF InitEmpty
  <2>2. n = 0
    BY <1>1, Lengths DEF InitEmpty
  <2>3. trailing \in BOOLEAN /\ modified \in BOOLEAN
    BY <1>1, Zenon DEF InitEmpty
  <2> QED
    BY <1>1, <2>1, <2>2, <2>3 DEF InitEmpty
<1>2. CASE InitScan
  <2>1. p \in Path /\ p # <<>> /\ n > 0 /\ n \in Nat
    BY <1>2, Lengths DEF InitScan
  <2>2. trailing \in BOOLEAN /\ (trailing => At(n - 1) = "/")
    BY <1>2 DEF InitScan
  <2>3. clean \in Seq(Byte \cup {Zero}) /\ modified \in BOOLEAN
    <3>1. clean \in Seq(Byte \cup {Zero})
      BY <1>2 DEF InitScan
    <3>2. modified \in BOOLEAN
      BY <1>2, Zenon DEF InitScan
    <3> QED
      BY <3>1, <3>2
  <2>4. CASE At(0) = "/"
    <3>1. buf = <<>> /\ buf \in Seq(Byte \cup {Zero}) /\ r = 1 /\ w = 1
      BY <1>2, <2>4 DEF InitScan
    <3>2. TypeOK
      BY <1>2, <2>1, <2>2, <2>3, <3>1 DEF InitScan
    <3>3. RoomOK
      BY <2>1, <2>4, <3>1 DEF Size, Extra
    <3>4. BehindOK
      BY <2>1, <2>4, <3>1 DEF Extra
    <3>5. TrailingOK /\ EmptyOK
      BY <1>2, <2>1, <2>2 DEF InitScan
    <3> QED
      BY <3>2, <3>3, <3>4, <3>5
  <2>5. CASE At(0) # "/"
    <3>1. /\ buf \in Seq(Byte \cup {Zero})
          /\ Len(buf) = n + 1 /\ buf # <<>>
          /\ r = 0 /\ w = 1
      BY <1>2, <2>1, <2>5, PathAssumption DEF RootedBuffer, InitScan
    <3>2. TypeOK
      BY <1>2, <2>1, <2>2, <2>3, <3>1 DEF InitScan
    <3>3. RoomOK
      BY <2>1, <2>5, <3>1 DEF Size, Extra
    <3>4. BehindOK
      BY <2>1, <2>5, <3>1 DEF Extra
    <3>5. TrailingOK /\ EmptyOK
      BY <1>2, <2>1, <2>2 DEF InitScan
    <3> QED
      BY <3>2, <3>3, <3>4, <3>5
  <2> QED
    BY <2>4, <2>5
<1> QED
  BY <1>1, <1>2 DEF Init

\* Appending a byte keeps the buffer's length and makes room only once.
LEMMA Appending ==
  ASSUME TypeOK, RoomOK, p # <<>>, NEW c \in Byte, bufApp(c), p' = p
  PROVE  /\ w' = w + 1
         /\ buf' \in Seq(Byte \cup {Zero})
         /\ RoomOK'
<1>1. n \in Nat /\ n > 0 /\ p \in Seq(Byte)
  BY Lengths DEF TypeOK
<1>2. CASE buf # <<>>
  <2>1. /\ buf' = [buf EXCEPT ![w + 1] = c] /\ buf \in Seq(Byte \cup {Zero})
        /\ Len(buf) \in Nat /\ Len(buf) > 0
    BY <1>2 DEF bufApp, TypeOK
  <2>2. buf' \in Seq(Byte \cup {Zero}) /\ Len(buf') = Len(buf)
    <3>1. w + 1 \in 1 .. Len(buf)
      BY <1>2, <2>1 DEF bufApp, Size, TypeOK
    <3>2. c \in Byte \cup {Zero}
      OBVIOUS
    <3> QED
      BY <2>1, <3>1, <3>2, ExceptSeq
  <2>3. buf' # <<>>
    BY <2>1, <2>2
  <2> QED
    BY <1>2, <2>2, <2>3 DEF bufApp, RoomOK, Size, Extra, n, At
<1>3. CASE buf = <<>> /\ At(w) = c
  BY <1>3 DEF bufApp, RoomOK, Size, Extra, n, At, TypeOK
<1>4. CASE buf = <<>> /\ At(w) # c
  <2>1. buf' = [i \in 1 .. n |-> IF i <= w THEN p[i]
                                 ELSE IF i = w + 1 THEN c ELSE Zero]
    BY <1>4 DEF bufApp
  <2>2. buf' \in Seq(Byte \cup {Zero}) /\ Len(buf') = n /\ buf' # <<>>
    BY <1>1, <2>1 DEF n
  <2> QED
    BY <1>4, <2>2 DEF bufApp, RoomOK, Size, Extra, n, At
<1> QED
  BY <1>2, <1>3, <1>4

\* Every step keeps the invariant.
LEMMA NextInv == IInv /\ [Next]_vars => IInv'
<1> SUFFICES ASSUME IInv, [Next]_vars PROVE IInv'
  OBVIOUS
<1>1. CASE UNCHANGED vars
  BY <1>1 DEF IInv, TypeOK, RoomOK, BehindOK, TrailingOK, EmptyOK, vars, n, At,
              Size, Extra, WantsSlash
<1>2. CASE Next
  <2> USE DEF IInv
  <2>1. p' = p
    BY <1>2 DEF Next, SkipSlash, SkipLastDot, SkipDot, Backtrack, StartElement,
                CopyByte, EndElement, AppendSlash, Return
  <2>2. /\ n \in Nat
        /\ p \in Seq(Byte)
        /\ n' = n
        /\ Extra' = Extra
        /\ Extra \in {0, 1}
        /\ r \in Nat /\ r <= n /\ w \in Nat
    BY <2>1, Lengths DEF TypeOK, n, Extra, At
  <2>3. \A i : At(i) = p[i + 1]
    BY DEF At
  <2>4. \A i : p'[i + 1] = p[i + 1]
    BY <2>1
  <2>5. p # <<>> /\ n > 0
    BY <1>2, <2>2, Lengths DEF EmptyOK, Next, SkipSlash, SkipLastDot, SkipDot,
      Backtrack, StartElement, CopyByte, EndElement, AppendSlash, Return, More,
      InElement, WantsSlash, TypeOK
  <2> DEFINE Stays == buf' = buf /\ w' = w
  <2>6. ASSUME buf' = buf PROVE RoomOK'
    BY <2>1, <2>2, <2>6 DEF RoomOK, Size, n
  <2>7. EmptyOK'
    BY <2>1, <2>5 DEF EmptyOK
  <2>8. CASE SkipSlash
    BY <2>1, <2>2, <2>5, <2>6, <2>7, <2>8
    DEF SkipSlash, More, TypeOK, BehindOK, TrailingOK, WantsSlash, At, n
  <2>9. CASE SkipLastDot
    BY <2>1, <2>2, <2>5, <2>6, <2>7, <2>9
    DEF SkipLastDot, More, LastDot, TypeOK, BehindOK, TrailingOK, WantsSlash, At, n
  <2>10. CASE SkipDot
    BY <2>1, <2>2, <2>5, <2>6, <2>7, <2>10
    DEF SkipDot, More, InnerDot, TypeOK, BehindOK, TrailingOK, WantsSlash, At, n
  <2>11. CASE Backtrack
    BY <2>1, <2>2, <2>5, <2>6, <2>7, <2>11
    DEF Backtrack, More, DotDot, TypeOK, BehindOK, TrailingOK, WantsSlash, At, n
  <2>12. CASE StartElement
    BY <2>1, <2>2, <2>5, <2>6, <2>7, <2>12, Appending, PathAssumption
    DEF StartElement, More, TypeOK, BehindOK, TrailingOK, WantsSlash, At, n
  <2>13. CASE CopyByte
    BY <2>1, <2>2, <2>5, <2>6, <2>7, <2>13, Appending, Lengths
    DEF CopyByte, InElement, TypeOK, BehindOK, TrailingOK, WantsSlash, At, n
  <2>14. CASE EndElement
    BY <2>1, <2>2, <2>5, <2>6, <2>7, <2>14
    DEF EndElement, InElement, TypeOK, BehindOK, TrailingOK, WantsSlash, At, n
  <2>15. CASE AppendSlash
    BY <2>1, <2>2, <2>5, <2>6, <2>7, <2>15, Appending, PathAssumption
    DEF AppendSlash, TypeOK, BehindOK, TrailingOK, WantsSlash, At, n
  <2>16. CASE Return
    <3>1. clean' \in Seq(Byte \cup {Zero})
      <4>1. CASE buf = <<>>
        <5>1. clean' = SubSeq(p, 1, w) /\ w <= Len(p)
          BY <2>16, <4>1 DEF Return, Size, n
        <5>2. \A i \in 1 .. w : p[i] \in Byte \cup {Zero}
          BY <2>2, <5>1
        <5> QED
          BY <2>2, <5>1, <5>2
      <4>2. CASE buf # <<>>
        <5>1. clean' = SubSeq(buf, 1, w) /\ w <= Len(buf)
          BY <2>16, <4>2 DEF Return, Size
        <5> QED
          BY <2>2, <5>1 DEF TypeOK
      <4> QED
        BY <4>1, <4>2
    <3>2. modified' \in BOOLEAN
      BY <2>16 DEF Return
    <3> QED
      BY <2>1, <2>2, <2>5, <2>6, <2>7, <2>16, <3>1, <3>2
      DEF Return, TypeOK, BehindOK, TrailingOK, WantsSlash, At, n
  <2> QED
    BY <1>2, <2>8, <2>9, <2>10, <2>11, <2>12, <2>13, <2>14, <2>15, <2>16 DEF Next
<1> QED
  BY <1>1, <1>2

\* Facts of a step: the path stays, and is not empty.
LEMMA StepFacts ==
  ASSUME IInv, Next
  PROVE  /\ p' = p /\ p # <<>> /\ n \in Nat /\ n > 0 /\ n' = n
         /\ p \in Seq(Byte) /\ Extra' = Extra /\ Extra \in {0, 1}
         /\ r \in Nat /\ r <= n /\ w \in Nat /\ w >= 1
<1>1. p' = p
  BY DEF Next, SkipSlash, SkipLastDot, SkipDot, Backtrack, StartElement,
         CopyByte, EndElement, AppendSlash, Return
<1>2. /\ n \in Nat /\ p \in Seq(Byte) /\ n' = n /\ Extra' = Extra
      /\ Extra \in {0, 1} /\ r \in Nat /\ r <= n /\ w \in Nat
  BY <1>1, Lengths DEF IInv, TypeOK, n, Extra, At
<1>3. p # <<>> /\ n > 0
  BY <1>2, Lengths DEF IInv, EmptyOK, Next, SkipSlash, SkipLastDot, SkipDot,
    Backtrack, StartElement, CopyByte, EndElement, AppendSlash, Return, More,
    InElement, WantsSlash, TypeOK
<1> QED
  BY <1>1, <1>2, <1>3 DEF IInv, BehindOK

\* The buffer is made where writing lags already, and never made to catch up.
LEMMA LagsStep == IInv /\ LagsOK /\ [Next]_vars => LagsOK'
<1> SUFFICES ASSUME IInv, LagsOK, [Next]_vars PROVE LagsOK'
  OBVIOUS
<1>1. CASE UNCHANGED vars
  BY <1>1 DEF LagsOK, vars, n, At, Extra, WantsSlash
<1>2. CASE Next
  <2>1. /\ p' = p /\ p # <<>> /\ n \in Nat /\ n > 0 /\ n' = n
        /\ p \in Seq(Byte) /\ Extra' = Extra /\ Extra \in {0, 1}
        /\ r \in Nat /\ r <= n /\ w \in Nat /\ w >= 1
    BY <1>2, StepFacts
  <2>2. CASE SkipSlash
    BY <2>1, <2>2 DEF SkipSlash, More, LagsOK, WantsSlash, At, n, IInv, BehindOK
  <2>3. CASE SkipLastDot
    BY <2>1, <2>3 DEF SkipLastDot, More, LastDot, LagsOK, WantsSlash, At, n
  <2>4. CASE SkipDot
    BY <2>1, <2>4 DEF SkipDot, More, InnerDot, LagsOK, WantsSlash, At, n
  <2>5. CASE Backtrack
    BY <2>1, <2>5 DEF Backtrack, More, DotDot, LagsOK, WantsSlash, At, n
  <2>6. CASE StartElement
    BY <2>1, <2>6 DEF StartElement, More, bufApp, LagsOK, WantsSlash, At, n,
      IInv, BehindOK, TrailingOK, RoomOK, Size, TypeOK
  <2>7. CASE CopyByte
    BY <2>1, <2>7 DEF CopyByte, InElement, bufApp, LagsOK, WantsSlash, At, n,
      IInv, BehindOK, RoomOK, Size, TypeOK
  <2>8. CASE EndElement
    BY <2>1, <2>8 DEF EndElement, InElement, LagsOK, WantsSlash, At, n,
      IInv, TrailingOK
  <2>9. CASE AppendSlash
    BY <2>1, <2>9 DEF AppendSlash, bufApp, LagsOK, WantsSlash, At, n,
      IInv, BehindOK, RoomOK, Size, TypeOK
  <2>10. CASE Return
    BY <2>1, <2>10 DEF Return, LagsOK, WantsSlash, At, n
  <2> QED
    BY <1>2, <2>2, <2>3, <2>4, <2>5, <2>6, <2>7, <2>8, <2>9, <2>10 DEF Next
<1> QED
  BY <1>1, <1>2

\* Only Return sets the results, and nothing happens after it.
LEMMA ResultStep == IInv /\ ResultOK /\ [Next]_vars => ResultOK'
<1> SUFFICES ASSUME IInv, ResultOK, [Next]_vars PROVE ResultOK'
  OBVIOUS
<1>1. CASE UNCHANGED vars
  BY <1>1 DEF ResultOK, vars, n
<1>2. CASE Return
  BY <1>2 DEF Return, ResultOK, n
<1>3. CASE Next /\ ~Return
  BY <1>3 DEF Next, SkipSlash, SkipLastDot, SkipDot, Backtrack, StartElement,
     CopyByte, EndElement, AppendSlash, ResultOK, More, InElement, WantsSlash
<1> QED
  BY <1>1, <1>2, <1>3

\* IInv is an invariant of cleanPath.
THEOREM Invariance == Spec => []FullInv
<1>1. Init => FullInv
  <2>1. ASSUME InitEmpty PROVE LagsOK /\ ResultOK
    BY <2>1 DEF InitEmpty, LagsOK, ResultOK
  <2>2. ASSUME InitScan PROVE LagsOK /\ ResultOK
    <3>1. n \in Nat /\ n > 0
      BY <2>2, Lengths DEF InitScan
    <3>2. buf # <<>> => Extra = 1 /\ buf[1] = "/"
      BY <2>2, <3>1 DEF InitScan, RootedBuffer, Extra
    <3>3. LagsOK
      BY <3>2 DEF LagsOK, Extra
    <3> QED
      BY <2>2, <3>3 DEF InitScan, ResultOK
  <2> QED
    BY InitInv, <2>1, <2>2 DEF FullInv, Init
<1>2. FullInv /\ [Next]_vars => FullInv'
  BY NextInv, LagsStep, ResultStep DEF FullInv
<1> QED
  BY <1>1, <1>2, PTL DEF Spec

\* cleanPath never indexes outside its path or its buffer, for paths of any
\* length.
THEOREM NeverPanics == Spec => []NoPanic
<1>1. IInv => NoPanic
  BY Lengths DEF IInv, TypeOK, RoomOK, BehindOK, EmptyOK, NoPanic, More, InElement,
    WantsSlash, Size, Extra
<1> QED
  BY Invariance, <1>1, PTL DEF FullInv

\* cleanPath says that it modified a path exactly when it did: the flag
\* derived from the buffer and a length is right for paths of any length.
THEOREM TellsModified == Spec => []ModifiedIsExact
<1>1. ASSUME FullInv, pc = "done", p # <<>> PROVE modified <=> clean # p
  <2>1. /\ n \in Nat /\ n > 0 /\ p \in Seq(Byte) /\ w \in 1 .. n + Extra
        /\ Extra \in {0, 1}
    BY <1>1, Lengths DEF FullInv, IInv, TypeOK, BehindOK, Extra
  <2>2. CASE buf = <<>> /\ w = n
    <3>1. clean = p
      BY <1>1, <2>1, <2>2 DEF FullInv, ResultOK, n
    <3> QED
      BY <1>1, <2>1, <2>2, <3>1 DEF FullInv, ResultOK
  <2>3. CASE w < n
    <3>1. Len(clean) = w
      BY <1>1, <2>1, <2>3 DEF FullInv, IInv, RoomOK, Size, ResultOK, n, TypeOK
    <3>2. clean # p
      BY <2>1, <2>3, <3>1 DEF n
    <3> QED
      BY <1>1, <2>1, <2>3, <3>2 DEF FullInv, ResultOK
  <2>4. CASE buf = <<>> /\ w > n
    BY <1>1, <2>1, <2>4 DEF FullInv, IInv, RoomOK, Size
  <2>5. CASE buf # <<>> /\ w >= n
    <3>1. Extra = 1 /\ buf[1] = "/" /\ At(0) # "/"
      BY <1>1, <2>1, <2>5 DEF FullInv, LagsOK, Extra
    <3>2. clean[1] = "/"
      BY <1>1, <2>1, <2>5, <3>1 DEF FullInv, IInv, RoomOK, Size, ResultOK, TypeOK
    <3>3. clean # p
      BY <3>1, <3>2 DEF At
    <3> QED
      BY <1>1, <2>5, <3>3 DEF FullInv, ResultOK
  <2> QED
    BY <2>1, <2>2, <2>3, <2>4, <2>5
<1> QED
  BY Invariance, <1>1, PTL DEF ModifiedIsExact

-----------------------------------------------------------------------------
(***************************************************************************)
(* What is left of the dots and slashes.                                   *)
(***************************************************************************)

\* An element of s ends before j.
Ended(s, j) == j > Len(s) \/ s[j] = "/"

\* s is rooted, and has no empty element and none that is . or ..
Clear(s) ==
  /\ Len(s) >= 1 /\ s[1] = "/"
  /\ \A i \in 1 .. Len(s) - 1 : s[i] = "/" =>
       /\ s[i + 1] # "/"
       /\ s[i + 1] = "." => /\ ~Ended(s, i + 2)
                            /\ s[i + 2] = "." => ~Ended(s, i + 3)

\* So far there is no empty element,
Separate == Out(0) = "/" /\ \A i \in 1 .. w - 1 : Out(i) = "/" => Out(i - 1) # "/"

\* none that is . or .. with a slash behind it,
NoneClosed ==
  \A i \in 2 .. w - 1 : Out(i) = "/" /\ Out(i - 1) = "." =>
    /\ Out(i - 2) # "/"
    /\ i > 2 /\ Out(i - 2) = "." => Out(i - 3) # "/"

\* nor at the end.
NoneOpen ==
  w > 1 /\ Out(w - 1) = "." =>
    /\ Out(w - 2) # "/"
    /\ w > 2 /\ Out(w - 2) = "." => Out(w - 3) # "/"

\* The element at e is copied to k.
Copies(k, e) ==
  /\ k >= 1 /\ e >= 0 /\ e < n /\ e <= r /\ w = k + (r - e)
  /\ Out(k - 1) = "/" /\ At(e) # "/"
  /\ \A i \in k .. w - 1 : Out(i) = At(e + (i - k)) /\ Out(i) # "/"
  /\ At(e) = "." =>
       /\ e + 1 < n /\ At(e + 1) # "/"
       /\ At(e + 1) = "." => e + 2 < n /\ At(e + 2) # "/"

FormOK ==
  p # <<>> =>
    /\ Separate /\ NoneClosed
    /\ pc = "loop" => NoneOpen /\ (w > 1 => Out(w - 1) # "/")
    /\ pc = "copy" => \E k, e \in 0 .. n + 1 : Copies(k, e)
    /\ pc \in {"return", "done"} => NoneOpen

ClearOK == pc = "done" => Clear(clean)

LEMMA OutStays == p' = p /\ buf' = buf => \A i : Out(i)' = Out(i)
BY DEF Out, At

\* A byte is written behind the others.
LEMMA ByteWritten ==
  ASSUME TypeOK, RoomOK, p # <<>>, NEW b \in Byte, bufApp(b), p' = p
  PROVE  /\ w' = w + 1 /\ w \in Nat
         /\ \A i \in 0 .. w - 1 : Out(i)' = Out(i)
         /\ \A i \in Nat : i = w => Out(i)' = b
<1>1. n \in Nat /\ n > 0 /\ p \in Seq(Byte) /\ w \in Nat /\ w' = w + 1
  BY Lengths DEF TypeOK, bufApp
<1>2. CASE buf # <<>>
  <2>1. /\ buf' = [buf EXCEPT ![w + 1] = b] /\ buf \in Seq(Byte \cup {Zero})
        /\ Len(buf) \in Nat /\ w < Len(buf)
    BY <1>2 DEF bufApp, Size, TypeOK
  <2>2. /\ buf' # <<>>
        /\ buf'[w + 1] = b
        /\ \A i \in 0 .. w - 1 : buf'[i + 1] = buf[i + 1]
    BY <1>1, <2>1
  <2> QED
    BY <1>1, <1>2, <2>2 DEF Out
<1>3. CASE buf = <<>> /\ At(w) = b
  BY <1>1, <1>3 DEF bufApp, Out, At
<1>4. CASE buf = <<>> /\ At(w) # b
  <2>1. /\ buf' = [i \in 1 .. n |-> IF i <= w THEN p[i]
                                    ELSE IF i = w + 1 THEN b ELSE Zero]
        /\ w < n
    BY <1>4 DEF bufApp, Size
  <2>2. /\ buf' # <<>>
        /\ buf'[w + 1] = b
        /\ \A i \in 0 .. w - 1 : buf'[i + 1] = p[i + 1]
    BY <1>1, <2>1
  <2> QED
    BY <1>1, <1>4, <2>2 DEF Out, At
<1> QED
  BY <1>2, <1>3, <1>4

LEMMA FormInit == Init => FormOK
<1> SUFFICES ASSUME InitScan PROVE FormOK
  BY DEF Init, InitEmpty, FormOK
<1>1. n \in Nat /\ n > 0 /\ w = 1
  BY Lengths DEF InitScan
<1>2. Out(0) = "/"
  BY <1>1 DEF InitScan, Out, RootedBuffer, At
<1> QED
  BY <1>1, <1>2 DEF FormOK, Separate, NoneClosed, NoneOpen, InitScan

\* Nothing is written and the scan goes on.
LEMMA SkipsKeepForm ==
  ASSUME IInv, FormOK, SkipSlash \/ SkipLastDot \/ SkipDot
  PROVE  FormOK'
<1>1. p' = p /\ p # <<>> /\ w' = w /\ buf' = buf /\ pc = "loop" /\ pc' = "loop"
  BY StepFacts DEF Next, SkipSlash, SkipLastDot, SkipDot, More
<1>2. \A i : Out(i)' = Out(i)
  BY <1>1, OutStays
<1> QED
  BY <1>1, <1>2 DEF FormOK, Separate, NoneClosed, NoneOpen

\* The last element is removed with its slash: the one before had that slash
\* behind it.
LEMMA BacktrackKeepsForm ==
  ASSUME IInv, FormOK, Backtrack
  PROVE  FormOK'
<1>1. /\ p' = p /\ p # <<>> /\ buf' = buf /\ pc = "loop" /\ pc' = "loop"
      /\ w \in Nat /\ w >= 1
  BY StepFacts DEF Next, Backtrack, More
<1>2. \A i : Out(i)' = Out(i)
  BY <1>1, OutStays
<1>3. CASE w' = w
  BY <1>1, <1>2, <1>3 DEF FormOK, Separate, NoneClosed, NoneOpen
<1>4. CASE \E k \in 1 .. w - 1 : StartsAt(k) /\ w' = k
  <2> PICK k \in 1 .. w - 1 : StartsAt(k) /\ w' = k
    BY <1>4
  <2>1. Separate /\ NoneClosed
    BY <1>1 DEF FormOK
  <2>2. Separate' /\ NoneClosed'
    BY <1>1, <1>2, <2>1 DEF Separate, NoneClosed
  <2>3. k > 1 => Out(k) = "/" /\ Out(k - 1) # "/"
    BY <1>1, <2>1 DEF Separate, StartsAt
  <2>4. NoneOpen'
    BY <1>1, <1>2, <2>1, <2>3 DEF NoneClosed, NoneOpen
  <2> QED
    BY <1>1, <1>2, <2>2, <2>3, <2>4 DEF FormOK
<1> QED
  BY <1>3, <1>4 DEF Backtrack

\* An element begins behind a slash, which closes the last one.
LEMMA StartKeepsForm ==
  ASSUME IInv, FormOK, StartElement
  PROVE  FormOK'
<1>1. /\ p' = p /\ p # <<>> /\ r' = r /\ pc = "loop" /\ pc' = "copy"
      /\ w \in Nat /\ w >= 1 /\ n \in Nat /\ n' = n /\ r \in Nat /\ r < n
      /\ \A i : At(i)' = At(i)
  BY StepFacts DEF Next, StartElement, More, At
<1>2. Separate /\ NoneClosed /\ NoneOpen /\ (w > 1 => Out(w - 1) # "/")
  BY <1>1 DEF FormOK
<1>3. /\ At(r) # "/"
      /\ At(r) = "." => /\ r + 1 < n /\ At(r + 1) # "/"
                        /\ At(r + 1) = "." => r + 2 < n /\ At(r + 2) # "/"
  BY <1>1 DEF StartElement, LastDot, InnerDot, DotDot
<1>4. CASE w = 1
  <2>1. w' = w /\ buf' = buf
    BY <1>4 DEF StartElement
  <2>2. \A i : Out(i)' = Out(i)
    BY <1>1, <2>1, OutStays
  <2>3. Copies(1, r)'
    BY <1>1, <1>2, <1>3, <1>4, <2>1, <2>2 DEF Copies, Separate
  <2>4. Separate' /\ NoneClosed'
    BY <1>2, <2>1, <2>2 DEF Separate, NoneClosed
  <2> QED
    BY <1>1, <2>3, <2>4 DEF FormOK
<1>5. CASE w > 1
  <2>1. bufApp("/")
    BY <1>5 DEF StartElement
  <2>2. /\ w' = w + 1 /\ \A i \in 0 .. w - 1 : Out(i)' = Out(i)
        /\ \A i \in Nat : i = w => Out(i)' = "/"
    BY <1>1, <2>1, ByteWritten, PathAssumption DEF IInv
  <2>3. Separate'
    BY <1>1, <1>2, <1>5, <2>2 DEF Separate
  <2>4. NoneClosed'
    BY <1>1, <1>2, <1>5, <2>2 DEF NoneClosed, NoneOpen
  <2>5. w + 1 <= n + 1
    BY <1>1, <2>2 DEF IInv, BehindOK, Extra
  <2>6. PICK k \in 0 .. n + 1 : k = w + 1
    BY <1>1, <2>5
  <2>7. Copies(k, r)'
    BY <1>1, <1>3, <2>2, <2>6 DEF Copies
  <2> QED
    BY <1>1, <2>3, <2>4, <2>6, <2>7 DEF FormOK
<1> QED
  BY <1>1, <1>4, <1>5

LEMMA CopyKeepsForm ==
  ASSUME IInv, FormOK, CopyByte
  PROVE  FormOK'
<1>1. /\ p' = p /\ p # <<>> /\ r' = r + 1 /\ pc = "copy" /\ pc' = "copy"
      /\ w \in Nat /\ w >= 1 /\ n \in Nat /\ n' = n /\ r \in Nat /\ r < n
      /\ At(r) # "/" /\ \A i : At(i)' = At(i)
  BY StepFacts DEF Next, CopyByte, InElement, At
<1>2. PICK k, e \in 0 .. n + 1 : Copies(k, e)
  BY <1>1 DEF FormOK
<1>3. /\ w' = w + 1 /\ \A i \in 0 .. w - 1 : Out(i)' = Out(i)
      /\ \A i \in Nat : i = w => Out(i)' = At(r)
  BY <1>1, ByteWritten, Lengths DEF IInv, TypeOK, CopyByte
<1>4. Separate /\ NoneClosed
  BY <1>1 DEF FormOK
<1>5. Separate' /\ NoneClosed'
  BY <1>1, <1>3, <1>4 DEF Separate, NoneClosed
<1>6. Copies(k, e)'
  <2>1. ASSUME NEW i \in k .. w
        PROVE  Out(i)' = At(e + (i - k)) /\ Out(i)' # "/"
    <3>1. CASE i < w
      BY <1>1, <1>2, <1>3, <2>1, <3>1 DEF Copies
    <3>2. CASE i = w
      <4>1. e + (i - k) = r
        BY <1>1, <1>2, <3>2 DEF Copies
      <4> QED
        BY <1>1, <1>3, <3>2, <4>1
    <3> QED
      BY <1>1, <2>1, <3>1, <3>2
  <2> QED
    BY <1>1, <1>2, <1>3, <2>1 DEF Copies
<1> QED
  BY <1>1, <1>5, <1>6 DEF FormOK

\* The element is the path's up to its slash or the end, and that is not . or ..
LEMMA EndKeepsForm ==
  ASSUME IInv, FormOK, EndElement
  PROVE  FormOK'
<1>1. /\ p' = p /\ p # <<>> /\ buf' = buf /\ w' = w /\ pc = "copy" /\ pc' = "loop"
      /\ w \in Nat /\ w >= 1 /\ n \in Nat /\ r \in Nat /\ r <= n
      /\ r = n \/ At(r) = "/"
  BY StepFacts DEF Next, EndElement, InElement
<1>2. \A i : Out(i)' = Out(i)
  BY <1>1, OutStays
<1>3. PICK k, e \in 0 .. n + 1 : Copies(k, e)
  BY <1>1 DEF FormOK
<1>4. r > e /\ w > k
  BY <1>1, <1>3 DEF Copies
<1>5. Out(w - 1) # "/"
  BY <1>1, <1>3, <1>4 DEF Copies
<1>6. NoneOpen
  <2>1. ASSUME Out(w - 1) = ".", Out(w - 2) = "/"
        PROVE  FALSE
    <3>1. k = w - 1 /\ e + 1 = r
      BY <1>1, <1>3, <1>4, <2>1 DEF Copies
    <3>2. At(e) = "."
      BY <1>3, <1>4, <2>1, <3>1 DEF Copies
    <3> QED
      BY <1>1, <1>3, <3>1, <3>2 DEF Copies
  <2>2. ASSUME Out(w - 1) = ".", Out(w - 2) = ".", w > 2, Out(w - 3) = "/"
        PROVE  FALSE
    <3>1. k = w - 2 /\ e + 2 = r
      BY <1>1, <1>3, <1>4, <2>2 DEF Copies
    <3>2. At(e) = "." /\ At(e + 1) = "."
      BY <1>1, <1>3, <1>4, <2>2, <3>1 DEF Copies
    <3> QED
      BY <1>1, <1>3, <3>1, <3>2 DEF Copies
  <2> QED
    BY <2>1, <2>2 DEF NoneOpen
<1> QED
  BY <1>1, <1>2, <1>5, <1>6 DEF FormOK, Separate, NoneClosed, NoneOpen

LEMMA SlashKeepsForm ==
  ASSUME IInv, FormOK, AppendSlash
  PROVE  FormOK'
<1>1. /\ p' = p /\ p # <<>> /\ pc = "loop" /\ pc' = "return"
      /\ w \in Nat /\ w > 1
  BY StepFacts DEF Next, AppendSlash, WantsSlash
<1>2. Separate /\ NoneClosed /\ NoneOpen /\ Out(w - 1) # "/"
  BY <1>1 DEF FormOK
<1>3. /\ w' = w + 1 /\ \A i \in 0 .. w - 1 : Out(i)' = Out(i)
      /\ \A i \in Nat : i = w => Out(i)' = "/"
  BY <1>1, ByteWritten, PathAssumption DEF IInv, AppendSlash
<1>4. Separate'
  BY <1>1, <1>2, <1>3 DEF Separate
<1>5. NoneClosed'
  BY <1>1, <1>2, <1>3 DEF NoneClosed, NoneOpen
<1>6. NoneOpen'
  BY <1>1, <1>3 DEF NoneOpen
<1> QED
  BY <1>1, <1>4, <1>5, <1>6 DEF FormOK

\* What is returned is what was written.
LEMMA ReturnClears ==
  ASSUME IInv, FormOK, Return
  PROVE  FormOK' /\ ClearOK'
<1>1. /\ p' = p /\ p # <<>> /\ buf' = buf /\ w' = w /\ pc' = "done"
      /\ w \in Nat /\ w >= 1 /\ w <= Size /\ p \in Seq(Byte)
  BY StepFacts DEF Next, Return
<1>2. Separate /\ NoneClosed /\ NoneOpen
  BY <1>1 DEF FormOK, Return
<1>3. \A i : Out(i)' = Out(i)
  BY <1>1, OutStays
<1>4. FormOK'
  BY <1>1, <1>2, <1>3 DEF FormOK, Separate, NoneClosed, NoneOpen
<1> DEFINE s == IF buf = <<>> THEN p ELSE buf
<1>5. clean' = SubSeq(s, 1, w)
  BY DEF Return
<1>6. s \in Seq(Byte \cup {Zero}) /\ w <= Len(s)
  <2>1. p \in Seq(Byte \cup {Zero})
    BY <1>1
  <2> QED
    BY <1>1, <2>1 DEF IInv, TypeOK, Size, n
<1>7. \A i \in 1 .. w : s[i] = Out(i - 1)
  BY <1>1 DEF Out, At
<1> HIDE DEF s
<1>8. Len(clean') = w /\ \A i \in 1 .. w : clean'[i] = Out(i - 1)
  BY <1>1, <1>5, <1>6, <1>7
<1> DEFINE t == clean'
<1>9. Clear(t)
  <2> HIDE DEF t
  <2>1. Len(t) = w /\ \A i \in 1 .. w : t[i] = Out(i - 1)
    BY <1>8 DEF t
  <2>2. t[1] = "/"
    BY <1>1, <1>2, <2>1 DEF Separate
  <2>3. ASSUME NEW i \in 1 .. w - 1, t[i] = "/"
        PROVE  t[i + 1] # "/"
    BY <1>1, <1>2, <2>1, <2>3 DEF Separate
  <2>4. ASSUME NEW i \in 1 .. w - 1, t[i] = "/", t[i + 1] = "."
        PROVE  ~Ended(t, i + 2)
    BY <1>1, <1>2, <2>1, <2>4 DEF Ended, NoneClosed, NoneOpen
  <2>5. ASSUME NEW i \in 1 .. w - 1, t[i] = "/", t[i + 1] = ".", t[i + 2] = "."
        PROVE  ~Ended(t, i + 3)
    <3>1. i + 2 <= w
      BY <1>1, <2>1, <2>4, <2>5 DEF Ended
    <3> QED
      BY <1>1, <1>2, <2>1, <2>5, <3>1 DEF Ended, NoneClosed, NoneOpen
  <2> QED
    BY <1>1, <2>1, <2>2, <2>3, <2>4, <2>5 DEF Clear
<1> QED
  BY <1>4, <1>9 DEF ClearOK

LEMMA FormStep == IInv /\ FormOK /\ ClearOK /\ [Next]_vars => FormOK' /\ ClearOK'
<1> SUFFICES ASSUME IInv, FormOK, ClearOK, [Next]_vars PROVE FormOK' /\ ClearOK'
  OBVIOUS
<1>1. CASE UNCHANGED vars
  <2>1. \A i : Out(i)' = Out(i)
    BY <1>1, OutStays DEF vars
  <2>2. \A k, e : Copies(k, e) => Copies(k, e)'
    BY <1>1, <2>1 DEF vars, Copies, At, n
  <2> QED
    BY <1>1, <2>1, <2>2
    DEF vars, FormOK, Separate, NoneClosed, NoneOpen, ClearOK, n
<1>2. CASE Return
  BY <1>2, ReturnClears
<1>3. CASE Next /\ ~Return
  <2>1. FormOK'
    BY <1>3, SkipsKeepForm, BacktrackKeepsForm, StartKeepsForm, CopyKeepsForm,
       EndKeepsForm, SlashKeepsForm DEF Next
  <2>2. pc' # "done"
    BY <1>3 DEF Next, SkipSlash, SkipLastDot, SkipDot, Backtrack, StartElement,
       CopyByte, EndElement, AppendSlash, More, InElement
  <2> QED
    BY <2>1, <2>2 DEF ClearOK
<1> QED
  BY <1>1, <1>2, <1>3

\* To the path that cleanPath returns none of its rules applies any more: it is
\* rooted and has no empty element, no . and no .., for paths of any length
\* (utils.go:111-123).
THEOREM NoRuleApplies == Spec => [](pc = "done" => Clear(clean))
<1>1. Init => FormOK /\ ClearOK
  <2>1. ASSUME InitEmpty PROVE ClearOK
    <3>1. clean = <<"/">>
      BY <2>1 DEF InitEmpty
    <3> QED
      BY <3>1 DEF ClearOK, Clear
  <2>2. ASSUME InitScan PROVE ClearOK
    BY <2>2 DEF InitScan, ClearOK
  <2> QED
    BY <2>1, <2>2, FormInit DEF Init
<1>2. FullInv /\ FormOK /\ ClearOK /\ [Next]_vars => FormOK' /\ ClearOK'
  BY FormStep DEF FullInv
<1>3. Spec => [](FormOK /\ ClearOK)
  BY <1>1, <1>2, Invariance, PTL DEF Spec
<1> QED
  BY <1>3, PTL DEF ClearOK

-----------------------------------------------------------------------------
\* Of a path that has nothing to clean, all is written where it stands: up to
\* what was read, or to the slash that was skipped last.
IdleOK ==
  p # <<>> /\ Clear(p) =>
    /\ buf = <<>>
    /\ trailing <=> n > 2 /\ At(n - 1) = "/"
    /\ pc = "loop" => \/ w = 1 /\ r = 1
                      \/ /\ w > 1 /\ r = w /\ At(r - 1) # "/"
                         /\ r < n => At(r) = "/"
                      \/ w > 1 /\ r = w + 1 /\ At(w) = "/"
    /\ pc = "copy" => w = r
    /\ pc = "return" => w = n
    /\ pc = "done" => clean = p /\ ~modified

\* What Clear says of a path, with bytes counted from 0.
LEMMA ClearBytes ==
  ASSUME p \in Path, Clear(p)
  PROVE  /\ At(0) = "/"
         /\ \A i \in Nat : i + 1 < n /\ At(i) = "/" =>
              /\ At(i + 1) # "/"
              /\ At(i + 1) = "." => /\ i + 2 < n /\ At(i + 2) # "/"
                                    /\ At(i + 2) = "." => i + 3 < n /\ At(i + 3) # "/"
<1>1. n \in Nat /\ n = Len(p) /\ n >= 1 /\ p[1] = "/"
  BY Lengths DEF Clear, n
<1>2. ASSUME NEW i \in Nat, i + 1 < n, At(i) = "/"
      PROVE  /\ At(i + 1) # "/"
             /\ At(i + 1) = "." => /\ i + 2 < n /\ At(i + 2) # "/"
                                   /\ At(i + 2) = "." => i + 3 < n /\ At(i + 3) # "/"
  <2>1. i + 1 \in 1 .. Len(p) - 1
    BY <1>1, <1>2
  <2> DEFINE j == i + 1
  <2>2. /\ p[j] = "/" => /\ p[j + 1] # "/"
                         /\ p[j + 1] = "." =>
                              /\ ~Ended(p, j + 2)
                              /\ p[j + 2] = "." => ~Ended(p, j + 3)
    BY <2>1 DEF Clear
  <2>3. j + 1 = i + 2 /\ j + 2 = i + 3 /\ j + 3 = i + 4
    OBVIOUS
  <2>4. At(i) = p[j] /\ At(i + 1) = p[i + 2] /\ At(i + 2) = p[i + 3] /\ At(i + 3) = p[i + 4]
    BY DEF At
  <2> HIDE DEF j
  <2> QED
    BY <1>1, <1>2, <2>2, <2>3, <2>4 DEF Ended
<1> QED
  BY <1>1, <1>2 DEF At

LEMMA IdleStep == IInv /\ IdleOK /\ [Next]_vars => IdleOK'
<1> SUFFICES ASSUME IInv, IdleOK, [Next]_vars PROVE IdleOK'
  OBVIOUS
<1>1. CASE UNCHANGED vars
  BY <1>1 DEF vars, IdleOK, n, At
<1>2. CASE Next
  <2>1. /\ p' = p /\ p # <<>> /\ n \in Nat /\ n > 0 /\ n' = n
        /\ p \in Seq(Byte) /\ r \in Nat /\ r <= n /\ w \in Nat /\ w >= 1
        /\ \A i : At(i)' = At(i)
    BY <1>2, StepFacts DEF At
  <2> SUFFICES ASSUME Clear(p) PROVE IdleOK'
    BY <2>1 DEF IdleOK
  <2>2. /\ buf = <<>> /\ (trailing <=> n > 2 /\ At(n - 1) = "/")
        /\ pc = "loop" => \/ w = 1 /\ r = 1
                          \/ /\ w > 1 /\ r = w /\ At(r - 1) # "/"
                             /\ r < n => At(r) = "/"
                          \/ w > 1 /\ r = w + 1 /\ At(w) = "/"
        /\ pc = "copy" => w = r
        /\ pc = "return" => w = n
    BY <2>1 DEF IdleOK
  <2>3. /\ At(0) = "/"
        /\ \A i \in Nat : i + 1 < n /\ At(i) = "/" =>
             /\ At(i + 1) # "/"
             /\ At(i + 1) = "." => /\ i + 2 < n /\ At(i + 2) # "/"
                                   /\ At(i + 2) = "." => i + 3 < n /\ At(i + 3) # "/"
    BY ClearBytes DEF IInv, TypeOK
  <2>4. pc = "loop" /\ r < n /\ At(r) # "/" =>
          ~LastDot /\ ~InnerDot /\ ~DotDot /\ (w > 1 => r = w + 1 /\ At(w) = "/")
    BY <2>1, <2>2, <2>3 DEF LastDot, InnerDot, DotDot
  <2>5. CASE SkipSlash
    <3>1. pc = "loop" /\ r < n /\ At(r) = "/" /\ r' = r + 1
          /\ UNCHANGED <<p, w, buf, trailing, pc>>
      BY <2>5 DEF SkipSlash, More
    <3>2. w > 1 /\ r = w
      BY <2>1, <2>2, <2>3, <3>1
    <3> QED
      BY <2>1, <2>2, <3>1, <3>2 DEF IdleOK
  <2>6. CASE SkipLastDot \/ SkipDot \/ Backtrack
    BY <2>1, <2>4, <2>6
    DEF SkipLastDot, SkipDot, Backtrack, More, LastDot, InnerDot, DotDot
  <2>7. CASE StartElement
    <3>1. pc = "loop" /\ r < n /\ At(r) # "/" /\ r' = r /\ pc' = "copy"
          /\ UNCHANGED <<p, trailing>>
      BY <2>7 DEF StartElement, More
    <3>2. w' = r /\ buf' = <<>>
      BY <2>1, <2>2, <2>4, <2>7, <3>1 DEF StartElement, bufApp
    <3> QED
      BY <2>1, <2>2, <3>1, <3>2 DEF IdleOK
  <2>8. CASE CopyByte
    <3>1. pc = "copy" /\ r' = r + 1 /\ pc' = "copy" /\ UNCHANGED <<p, trailing>>
      BY <2>8 DEF CopyByte, InElement
    <3>2. w' = r + 1 /\ buf' = <<>>
      BY <2>1, <2>2, <2>8, <3>1 DEF CopyByte, bufApp
    <3> QED
      BY <2>1, <2>2, <3>1, <3>2 DEF IdleOK
  <2>9. CASE EndElement
    <3>1. pc = "copy" /\ (r < n => At(r) = "/") /\ pc' = "loop"
          /\ UNCHANGED <<p, r, w, buf, trailing>>
      BY <2>9 DEF EndElement, InElement
    <3>2. r > 0 /\ At(r - 1) # "/"
      BY <2>1, <3>1 DEF IInv, TrailingOK
    <3>3. r > 1
      BY <2>1, <2>3, <3>2
    <3> QED
      BY <2>1, <2>2, <3>1, <3>2, <3>3 DEF IdleOK
  <2>10. CASE AppendSlash
    <3>1. /\ pc = "loop" /\ r = n /\ trailing /\ w > 1 /\ pc' = "return"
          /\ UNCHANGED <<p, trailing>> /\ bufApp("/")
      BY <2>1, <2>10 DEF AppendSlash, WantsSlash
    <3>2. w + 1 = n /\ At(w) = "/"
      BY <2>1, <2>2, <3>1
    <3>3. w' = n /\ buf' = <<>>
      BY <2>1, <2>2, <3>1, <3>2 DEF bufApp
    <3> QED
      BY <2>1, <2>2, <3>1, <3>3 DEF IdleOK
  <2>11. CASE Return
    <3>1. w = n
      <4>1. pc # "return" => pc = "loop" /\ r = n /\ ~(trailing /\ w > 1)
        BY <2>1, <2>11 DEF Return, WantsSlash
      <4> QED
        BY <2>1, <2>2, <4>1
    <3>2. /\ clean' = SubSeq(p, 1, n) /\ ~modified' /\ pc' = "done"
          /\ UNCHANGED <<p, buf, trailing>>
      <4>1. modified' = (buf # <<>> \/ w < n)
        BY <2>11 DEF Return
      <4>2. ~(buf # <<>> \/ w < n)
        BY <2>1, <2>2, <3>1
      <4>3. ~modified'
        BY <4>1, <4>2, Zenon
      <4> QED
        BY <2>2, <2>11, <3>1, <4>3 DEF Return
    <3>3. SubSeq(p, 1, n) = p
      BY <2>1 DEF n
    <3> QED
      BY <2>1, <2>2, <3>2, <3>3 DEF IdleOK
  <2> QED
    BY <1>2, <2>5, <2>6, <2>7, <2>8, <2>9, <2>10, <2>11 DEF Next
<1> QED
  BY <1>1, <1>2

\* A path to which no rule applies is returned as it is, and not said to be
\* modified: with NoRuleApplies, what was cleaned once stays as it is
\* (utils.go:111-123, 209-213).
THEOREM ClearPathsStay == Spec => [](pc = "done" /\ Clear(p) => clean = p /\ ~modified)
<1>1. Init => IdleOK
  <2> SUFFICES ASSUME InitScan, Clear(p) PROVE IdleOK
    BY DEF Init, InitEmpty, IdleOK
  <2>1. At(0) = "/"
    BY ClearBytes DEF InitScan
  <2> QED
    BY <2>1 DEF InitScan, IdleOK
<1>2. FullInv /\ IdleOK /\ [Next]_vars => IdleOK'
  BY IdleStep DEF FullInv
<1>3. Spec => []IdleOK
  BY <1>1, <1>2, Invariance, PTL DEF Spec
<1>4. IdleOK => (pc = "done" /\ Clear(p) => clean = p /\ ~modified)
  <2>1. p = <<>> => ~Clear(p)
    BY DEF Clear
  <2> QED
    BY <2>1 DEF IdleOK
<1> QED
  BY <1>3, <1>4, PTL

-----------------------------------------------------------------------------
(***************************************************************************)
(* The rules of CleanPathRules, one more byte or element at a time.        *)
(***************************************************************************)

\* Induction over 0 .. m.
LEMMA UpTo ==
  ASSUME NEW m \in Nat, NEW T \in SUBSET (0 .. m), 0 \in T,
         \A i \in T : i < m => i + 1 \in T
  PROVE  T = 0 .. m
<1> SUFFICES ASSUME (0 .. m) \ T # {} PROVE FALSE
  OBVIOUS
<1> DEFINE U == (0 .. m) \ T
<1>1. U \subseteq Nat /\ U # {}
  OBVIOUS
<1>2. PICK x \in U : \A y \in U : ~(<<y, x>> \in OpToRel(<, Nat))
  BY <1>1, NatLessThanWellFounded, WFMin
<1>3. x \in 0 .. m /\ x \notin T /\ x # 0
  OBVIOUS
<1>4. x - 1 \in 0 .. m /\ x - 1 < m /\ x - 1 < x /\ x - 1 \in Nat
  BY <1>3
<1>5. x - 1 \in T
  BY <1>1, <1>2, <1>4 DEF OpToRel
<1> QED
  BY <1>3, <1>4, <1>5

\* g begins with b and goes on by the steps F; g and h begin and go on alike.
Unrolls(g, m, b, F) == g[0] = b /\ \A i \in 1 .. m : g[i] = F[i][g[i - 1]]
Alike(g, h, m) ==
  g[0] = h[0] /\ \A i \in 1 .. m : g[i - 1] = h[i - 1] => g[i] = h[i]

\* A function defined by recursion on 0 .. m is there,
LEMMA Recursion ==
  ASSUME NEW m \in Nat, NEW V, NEW b \in V, NEW F \in [1 .. m -> [V -> V]]
  PROVE  \E g \in [0 .. m -> V] : Unrolls(g, m, b, F)
<1> DEFINE T == {j \in 0 .. m : \E g \in [0 .. j -> V] : Unrolls(g, j, b, F)}
<1>1. 0 \in T
  <2>1. /\ [i \in 0 .. 0 |-> b] \in [0 .. 0 -> V]
        /\ Unrolls([i \in 0 .. 0 |-> b], 0, b, F)
    BY DEF Unrolls
  <2>2. 0 \in 0 .. m
    OBVIOUS
  <2> QED
    BY <2>1, <2>2, Zenon
<1>2. ASSUME NEW j \in T, j < m PROVE j + 1 \in T
  <2>1. PICK g \in [0 .. j -> V] : Unrolls(g, j, b, F)
    BY <1>2
  <2> DEFINE h == [i \in 0 .. j + 1 |-> IF i <= j THEN g[i] ELSE F[j + 1][g[j]]]
  <2>2. F[j + 1][g[j]] \in V
    BY <1>2, <2>1
  <2>3. h \in [0 .. j + 1 -> V]
    BY <1>2, <2>1, <2>2
  <2>4. h[0] = b /\ \A i \in 0 .. j : h[i] = g[i]
    BY <1>2, <2>1 DEF Unrolls
  <2>5. h[j + 1] = F[j + 1][g[j]]
    BY <1>2
  <2> HIDE DEF h
  <2>6. Unrolls(h, j + 1, b, F)
    <3>1. ASSUME NEW i \in 1 .. j + 1 PROVE h[i] = F[i][h[i - 1]]
      <4>1. CASE i = j + 1
        BY <1>2, <2>4, <2>5, <4>1
      <4>2. CASE i # j + 1
        BY <1>2, <2>1, <2>4, <4>2 DEF Unrolls
      <4> QED
        BY <4>1, <4>2
    <3> QED
      BY <2>4, <3>1 DEF Unrolls
  <2> QED
    BY <1>2, <2>3, <2>6
<1>3. T = 0 .. m
  <2>1. T \in SUBSET (0 .. m)
    OBVIOUS
  <2> HIDE DEF T
  <2> QED
    BY <1>1, <1>2, <2>1, UpTo
<1>4. m \in 0 .. m
  OBVIOUS
<1> QED
  BY <1>3, <1>4, Zenon

\* and there is one only.
LEMMA SameValue ==
  ASSUME NEW m \in Nat, NEW g, NEW h, Alike(g, h, m)
  PROVE  g[m] = h[m]
<1> DEFINE T == {j \in 0 .. m : g[j] = h[j]}
<1>1. \A i \in T : i < m => i + 1 \in T
  <2> SUFFICES ASSUME NEW i \in T, i < m PROVE i + 1 \in T
    OBVIOUS
  <2>1. i + 1 \in 1 .. m /\ (i + 1) - 1 = i
    OBVIOUS
  <2> QED
    BY <2>1 DEF Alike
<1>2. T = 0 .. m
  <2>1. 0 \in T /\ T \in SUBSET (0 .. m)
    BY DEF Alike
  <2> HIDE DEF T
  <2> QED
    BY <1>1, <2>1, UpTo
<1> QED
  BY <1>2

\* What stands between slashes.
Name == Seq(Byte)

\* Kept is the last value of its recursion,
LEMMA KeptScan ==
  ASSUME NEW es \in Seq(Name)
  PROVE  \E g \in [0 .. Len(es) -> Seq(Name)] :
           /\ g[0] = <<>> /\ g[Len(es)] = Kept(es)
           /\ \A i \in 1 .. Len(es) : g[i] = Resolve(g[i - 1], es[i])
<1> DEFINE m == Len(es)
           F == [i \in 1 .. m |-> [k \in Seq(Name) |-> Resolve(k, es[i])]]
           Is(g) == g = [k \in 0 .. m |->
                           IF k = 0 THEN <<>> ELSE Resolve(g[k - 1], es[k])]
<1>1. m \in Nat
  OBVIOUS
<1>2. F \in [1 .. m -> [Seq(Name) -> Seq(Name)]]
  <2>1. ASSUME NEW k \in Seq(Name), NEW e \in Name PROVE Resolve(k, e) \in Seq(Name)
    BY DEF Resolve, Front
  <2>2. \A i \in 1 .. m : es[i] \in Name
    BY DEF Name
  <2>3. \A i \in 1 .. m :
          [k \in Seq(Name) |-> Resolve(k, es[i])] \in [Seq(Name) -> Seq(Name)]
    BY <2>1, <2>2, Zenon
  <2> HIDE DEF m
  <2> QED
    BY <2>3
<1>3. \A i \in 1 .. m : \A k \in Seq(Name) : F[i][k] = Resolve(k, es[i])
  OBVIOUS
<1> HIDE DEF F, Is
<1>4. PICK g \in [0 .. m -> Seq(Name)] : Unrolls(g, m, <<>>, F)
  <2>1. <<>> \in Seq(Name)
    OBVIOUS
  <2> HIDE DEF m
  <2> QED
    BY <1>1, <1>2, <2>1, Recursion, Zenon
<1>5. \A i \in 1 .. m : g[i - 1] \in Seq(Name) /\ g[i] = Resolve(g[i - 1], es[i])
  <2> TAKE i \in 1 .. m
  <2>1. i - 1 \in 0 .. m
    BY <1>1
  <2> QED
    BY <1>3, <1>4, <2>1 DEF Unrolls
<1>6. Is(g)
  <2>1. \A k \in 0 .. m : k # 0 => k \in 1 .. m
    BY <1>1
  <2>2. \A k \in 0 .. m : g[k] = IF k = 0 THEN <<>> ELSE Resolve(g[k - 1], es[k])
    BY <1>4, <1>5, <2>1, Zenon DEF Unrolls
  <2> HIDE DEF m
  <2> QED
    BY <2>2, Zenon DEF Is
<1> DEFINE h == CHOOSE h : Is(h)
<1>7. Is(h)
  BY <1>6, Zenon
<1>8. Kept(es) = h[m]
  BY Zenon DEF Kept, Is
<1> HIDE DEF h
<1>9. h[0] = <<>> /\ \A i \in 1 .. m : h[i] = Resolve(h[i - 1], es[i])
  <2> HIDE DEF m
  <2>1. /\ 0 \in 0 .. m
        /\ \A i \in 1 .. m : i \in 0 .. m /\ i # 0
    BY <1>1
  <2>2. \A k \in 0 .. m : h[k] = IF k = 0 THEN <<>> ELSE Resolve(h[k - 1], es[k])
    BY <1>7, Zenon DEF Is
  <2> QED
    BY <2>1, <2>2, Zenon
<1>10. g[m] = h[m]
  <2>1. Alike(g, h, m)
    BY <1>4, <1>5, <1>9, Zenon DEF Alike, Unrolls
  <2> HIDE DEF m
  <2> QED
    BY <1>1, <2>1, SameValue, Zenon
<1> QED
  BY <1>4, <1>5, <1>8, <1>10 DEF Unrolls

\* and one more element is one more step.
LEMMA KeptGrows ==
  /\ Kept(<<>>) = <<>>
  /\ \A es \in Seq(Name) : /\ Kept(es) \in Seq(Name)
                        /\ \A e \in Name : Kept(Append(es, e)) = Resolve(Kept(es), e)
<1>1. Kept(<<>>) = <<>>
  <2>1. <<>> \in Seq(Name) /\ Len(<<>>) = 0
    BY DEF Name
  <2> QED
    BY <2>1, KeptScan
<1>2. ASSUME NEW es \in Seq(Name)
      PROVE  /\ Kept(es) \in Seq(Name)
             /\ \A e \in Name : Kept(Append(es, e)) = Resolve(Kept(es), e)
  <2> DEFINE m == Len(es)
  <2>1. PICK g \in [0 .. m -> Seq(Name)] :
          /\ g[0] = <<>> /\ g[m] = Kept(es)
          /\ \A i \in 1 .. m : g[i] = Resolve(g[i - 1], es[i])
    BY KeptScan
  <2>2. Kept(es) \in Seq(Name) /\ m \in Nat
    BY <2>1
  <2>3. ASSUME NEW e \in Name PROVE Kept(Append(es, e)) = Resolve(Kept(es), e)
    <3> DEFINE t == Append(es, e)
    <3>1. /\ t \in Seq(Name) /\ Len(t) = m + 1 /\ t[m + 1] = e
          /\ \A i \in 1 .. m : t[i] = es[i]
      OBVIOUS
    <3> HIDE DEF t
    <3>2. PICK h \in [0 .. Len(t) -> Seq(Name)] :
            /\ h[0] = <<>> /\ h[Len(t)] = Kept(t)
            /\ \A i \in 1 .. Len(t) : h[i] = Resolve(h[i - 1], t[i])
      BY <3>1, KeptScan
    <3> HIDE DEF m
    <3>3. Alike(g, h, m)
      BY <2>1, <2>2, <3>1, <3>2 DEF Alike
    <3>4. g[m] = h[m]
      BY <2>2, <3>3, SameValue, Zenon
    <3>5. h[m + 1] = Resolve(h[m], e)
      <4>1. m + 1 \in 1 .. Len(t) /\ (m + 1) - 1 = m
        BY <2>2, <3>1
      <4> QED
        BY <3>1, <3>2, <4>1
    <3> QED
      BY <2>1, <3>1, <3>2, <3>4, <3>5 DEF t
  <2> QED
    BY <2>2, <2>3
<1> QED
  BY <1>1, <1>2

\* Joined is too,
LEMMA JoinedScan ==
  ASSUME NEW es \in Seq(Name)
  PROVE  \E g \in [0 .. Len(es) -> Name] :
           /\ g[0] = <<>> /\ g[Len(es)] = Joined(es)
           /\ \A i \in 1 .. Len(es) : g[i] = Below(g[i - 1], es[i])
<1> DEFINE m == Len(es)
           F == [i \in 1 .. m |-> [k \in Name |-> Below(k, es[i])]]
           Is(g) == g = [k \in 0 .. m |->
                           IF k = 0 THEN <<>> ELSE Below(g[k - 1], es[k])]
<1>1. m \in Nat
  OBVIOUS
<1>2. F \in [1 .. m -> [Name -> Name]]
  <2>1. ASSUME NEW k \in Name, NEW e \in Name PROVE Below(k, e) \in Name
    BY PathAssumption DEF Name, Below
  <2>2. \A i \in 1 .. m : es[i] \in Name
    BY DEF Name
  <2>3. \A i \in 1 .. m : [k \in Name |-> Below(k, es[i])] \in [Name -> Name]
    BY <2>1, <2>2, Zenon
  <2> HIDE DEF m
  <2> QED
    BY <2>3
<1>3. \A i \in 1 .. m : \A k \in Name : F[i][k] = Below(k, es[i])
  OBVIOUS
<1> HIDE DEF F, Is
<1>4. PICK g \in [0 .. m -> Name] : Unrolls(g, m, <<>>, F)
  <2>1. <<>> \in Name
    BY DEF Name
  <2> HIDE DEF m
  <2> QED
    BY <1>1, <1>2, <2>1, Recursion, Zenon
<1>5. \A i \in 1 .. m : g[i - 1] \in Name /\ g[i] = Below(g[i - 1], es[i])
  <2> TAKE i \in 1 .. m
  <2>1. i - 1 \in 0 .. m
    BY <1>1
  <2> QED
    BY <1>3, <1>4, <2>1 DEF Unrolls
<1>6. Is(g)
  <2>1. \A k \in 0 .. m : k # 0 => k \in 1 .. m
    BY <1>1
  <2>2. \A k \in 0 .. m : g[k] = IF k = 0 THEN <<>> ELSE Below(g[k - 1], es[k])
    BY <1>4, <1>5, <2>1, Zenon DEF Unrolls
  <2> HIDE DEF m
  <2> QED
    BY <2>2, Zenon DEF Is
<1> DEFINE h == CHOOSE h : Is(h)
<1>7. Is(h)
  BY <1>6, Zenon
<1>8. Joined(es) = h[m]
  BY Zenon DEF Joined, Is
<1> HIDE DEF h
<1>9. h[0] = <<>> /\ \A i \in 1 .. m : h[i] = Below(h[i - 1], es[i])
  <2> HIDE DEF m
  <2>1. /\ 0 \in 0 .. m
        /\ \A i \in 1 .. m : i \in 0 .. m /\ i # 0
    BY <1>1
  <2>2. \A k \in 0 .. m : h[k] = IF k = 0 THEN <<>> ELSE Below(h[k - 1], es[k])
    BY <1>7, Zenon DEF Is
  <2> QED
    BY <2>1, <2>2, Zenon
<1>10. g[m] = h[m]
  <2>1. Alike(g, h, m)
    BY <1>4, <1>5, <1>9, Zenon DEF Alike, Unrolls
  <2> HIDE DEF m
  <2> QED
    BY <1>1, <2>1, SameValue, Zenon
<1> QED
  BY <1>4, <1>5, <1>8, <1>10 DEF Unrolls

\* and so is what it grows by.
LEMMA JoinedGrows ==
  /\ Joined(<<>>) = <<>>
  /\ \A es \in Seq(Name) : /\ Joined(es) \in Name
                        /\ \A e \in Name : Joined(Append(es, e)) = Below(Joined(es), e)
<1>1. Joined(<<>>) = <<>>
  <2>1. <<>> \in Seq(Name) /\ Len(<<>>) = 0
    BY DEF Name
  <2> QED
    BY <2>1, JoinedScan
<1>2. ASSUME NEW es \in Seq(Name)
      PROVE  /\ Joined(es) \in Name
             /\ \A e \in Name : Joined(Append(es, e)) = Below(Joined(es), e)
  <2> DEFINE m == Len(es)
  <2>1. PICK g \in [0 .. m -> Name] :
          /\ g[0] = <<>> /\ g[m] = Joined(es)
          /\ \A i \in 1 .. m : g[i] = Below(g[i - 1], es[i])
    BY JoinedScan
  <2>2. Joined(es) \in Name /\ m \in Nat
    BY <2>1
  <2>3. ASSUME NEW e \in Name PROVE Joined(Append(es, e)) = Below(Joined(es), e)
    <3> DEFINE t == Append(es, e)
    <3>1. /\ t \in Seq(Name) /\ Len(t) = m + 1 /\ t[m + 1] = e
          /\ \A i \in 1 .. m : t[i] = es[i]
      OBVIOUS
    <3> HIDE DEF t
    <3>2. PICK h \in [0 .. Len(t) -> Name] :
            /\ h[0] = <<>> /\ h[Len(t)] = Joined(t)
            /\ \A i \in 1 .. Len(t) : h[i] = Below(h[i - 1], t[i])
      BY <3>1, JoinedScan
    <3> HIDE DEF m
    <3>3. Alike(g, h, m)
      BY <2>1, <2>2, <3>1, <3>2 DEF Alike
    <3>4. g[m] = h[m]
      BY <2>2, <3>3, SameValue, Zenon
    <3>5. h[m + 1] = Below(h[m], e)
      <4>1. m + 1 \in 1 .. Len(t) /\ (m + 1) - 1 = m
        BY <2>2, <3>1
      <4> QED
        BY <3>1, <3>2, <4>1
    <3> QED
      BY <2>1, <3>1, <3>2, <3>4, <3>5 DEF t
  <2> QED
    BY <2>2, <2>3
<1> QED
  BY <1>1, <1>2

\* With a byte more there are still elements.
LEMMA SplitOK ==
  ASSUME NEW es \in Seq(Name) \ {<<>>}, NEW c \in Byte
  PROVE  Split(es, c) \in Seq(Name) \ {<<>>}
<1>1. Len(es) \in Nat /\ Len(es) > 0 /\ es[Len(es)] \in Name
  OBVIOUS
<1>2. Append(Last(es), c) \in Name /\ <<>> \in Name
  BY <1>1 DEF Last, Name
<1>3. Front(es) \in Seq(Name)
  BY <1>1 DEF Front
<1>4. \A f \in Seq(Name), x \in Name : Append(f, x) \in Seq(Name) \ {<<>>}
  OBVIOUS
<1> QED
  BY <1>2, <1>3, <1>4 DEF Split

\* Elements is too, and there is always an element,
LEMMA ElementsScan ==
  ASSUME NEW s \in Name
  PROVE  \E g \in [0 .. Len(s) -> Seq(Name) \ {<<>>}] :
           /\ g[0] = <<<<>>>> /\ g[Len(s)] = Elements(s)
           /\ \A i \in 1 .. Len(s) : g[i] = Split(g[i - 1], s[i])
<1> DEFINE m == Len(s)
           F == [i \in 1 .. m |-> [k \in Seq(Name) \ {<<>>} |-> Split(k, s[i])]]
           Is(g) == g = [k \in 0 .. m |->
                           IF k = 0 THEN <<<<>>>> ELSE Split(g[k - 1], s[k])]
<1>1. m \in Nat
  OBVIOUS
<1>2. F \in [1 .. m -> [Seq(Name) \ {<<>>} -> Seq(Name) \ {<<>>}]]
  <2>1. ASSUME NEW k \in Seq(Name) \ {<<>>}, NEW e \in Byte
        PROVE  Split(k, e) \in Seq(Name) \ {<<>>}
    BY SplitOK
  <2>2. \A i \in 1 .. m : s[i] \in Byte
    BY DEF Name
  <2>3. \A i \in 1 .. m : [k \in Seq(Name) \ {<<>>} |-> Split(k, s[i])]
          \in [Seq(Name) \ {<<>>} -> Seq(Name) \ {<<>>}]
    BY <2>1, <2>2, Zenon
  <2> HIDE DEF m
  <2> QED
    BY <2>3
<1>3. \A i \in 1 .. m : \A k \in Seq(Name) \ {<<>>} : F[i][k] = Split(k, s[i])
  OBVIOUS
<1> HIDE DEF F, Is
<1>4. PICK g \in [0 .. m -> Seq(Name) \ {<<>>}] : Unrolls(g, m, <<<<>>>>, F)
  <2>1. <<<<>>>> \in Seq(Name) \ {<<>>}
    BY DEF Name
  <2> HIDE DEF m
  <2> QED
    BY <1>1, <1>2, <2>1, Recursion, Zenon
<1>5. \A i \in 1 .. m : /\ g[i - 1] \in Seq(Name) \ {<<>>}
                       /\ g[i] = Split(g[i - 1], s[i])
  <2> TAKE i \in 1 .. m
  <2>1. i - 1 \in 0 .. m
    BY <1>1
  <2> QED
    BY <1>3, <1>4, <2>1 DEF Unrolls
<1>6. Is(g)
  <2>1. \A k \in 0 .. m : k # 0 => k \in 1 .. m
    BY <1>1
  <2>2. \A k \in 0 .. m : g[k] = IF k = 0 THEN <<<<>>>> ELSE Split(g[k - 1], s[k])
    BY <1>4, <1>5, <2>1, Zenon DEF Unrolls
  <2> HIDE DEF m
  <2> QED
    BY <2>2, Zenon DEF Is
<1> DEFINE h == CHOOSE h : Is(h)
<1>7. Is(h)
  BY <1>6, Zenon
<1>8. Elements(s) = h[m]
  BY Zenon DEF Elements, Is
<1> HIDE DEF h
<1>9. h[0] = <<<<>>>> /\ \A i \in 1 .. m : h[i] = Split(h[i - 1], s[i])
  <2> HIDE DEF m
  <2>1. /\ 0 \in 0 .. m
        /\ \A i \in 1 .. m : i \in 0 .. m /\ i # 0
    BY <1>1
  <2>2. \A k \in 0 .. m : h[k] = IF k = 0 THEN <<<<>>>> ELSE Split(h[k - 1], s[k])
    BY <1>7, Zenon DEF Is
  <2> QED
    BY <2>1, <2>2, Zenon
<1>10. g[m] = h[m]
  <2>1. Alike(g, h, m)
    BY <1>4, <1>5, <1>9, Zenon DEF Alike, Unrolls
  <2> HIDE DEF m
  <2> QED
    BY <1>1, <2>1, SameValue, Zenon
<1> QED
  BY <1>4, <1>5, <1>8, <1>10 DEF Unrolls

\* and one more byte goes on from the elements before it.
LEMMA ElementsGrows ==
  /\ Elements(<<>>) = <<<<>>>>
  /\ \A s \in Name : /\ Elements(s) \in Seq(Name) \ {<<>>}
                        /\ \A e \in Byte : Elements(Append(s, e)) = Split(Elements(s), e)
<1>1. Elements(<<>>) = <<<<>>>>
  <2>1. <<>> \in Name /\ Len(<<>>) = 0
    BY DEF Name
  <2> QED
    BY <2>1, ElementsScan
<1>2. ASSUME NEW s \in Name
      PROVE  /\ Elements(s) \in Seq(Name) \ {<<>>}
             /\ \A e \in Byte : Elements(Append(s, e)) = Split(Elements(s), e)
  <2> DEFINE m == Len(s)
  <2>1. PICK g \in [0 .. m -> Seq(Name) \ {<<>>}] :
          /\ g[0] = <<<<>>>> /\ g[m] = Elements(s)
          /\ \A i \in 1 .. m : g[i] = Split(g[i - 1], s[i])
    BY ElementsScan
  <2>2. Elements(s) \in Seq(Name) \ {<<>>} /\ m \in Nat
    BY <2>1
  <2>3. ASSUME NEW e \in Byte PROVE Elements(Append(s, e)) = Split(Elements(s), e)
    <3> DEFINE t == Append(s, e)
    <3>1. /\ t \in Name /\ Len(t) = m + 1 /\ t[m + 1] = e
          /\ \A i \in 1 .. m : t[i] = s[i]
      OBVIOUS
    <3> HIDE DEF t
    <3>2. PICK h \in [0 .. Len(t) -> Seq(Name) \ {<<>>}] :
            /\ h[0] = <<<<>>>> /\ h[Len(t)] = Elements(t)
            /\ \A i \in 1 .. Len(t) : h[i] = Split(h[i - 1], t[i])
      BY <3>1, ElementsScan
    <3> HIDE DEF m
    <3>3. Alike(g, h, m)
      BY <2>1, <2>2, <3>1, <3>2 DEF Alike
    <3>4. g[m] = h[m]
      BY <2>2, <3>3, SameValue, Zenon
    <3>5. h[m + 1] = Split(h[m], e)
      <4>1. m + 1 \in 1 .. Len(t) /\ (m + 1) - 1 = m
        BY <2>2, <3>1
      <4> QED
        BY <3>1, <3>2, <4>1
    <3> QED
      BY <2>1, <3>1, <3>2, <3>4, <3>5 DEF t
  <2> QED
    BY <2>2, <2>3
<1> QED
  BY <1>1, <1>2

-----------------------------------------------------------------------------
(***************************************************************************)
(* The rules, on the part of a path that was read.                         *)
(***************************************************************************)

\* Of the first k bytes of q: the elements that a slash ended, with the rules
\* applied, and the one that goes on.
Read(q, k)    == Elements(SubSeq(q, 1, k))
Ready(q, k)   == Kept(Front(Read(q, k)))
Partial(q, k) == Last(Read(q, k))

\* The elements that are left when the last one ends here.
Left(q, k) == Resolve(Ready(q, k), Partial(q, k))

LEMMA FrontLast ==
  ASSUME NEW S, NEW s \in Seq(S)
  PROVE  /\ \A x \in S : Front(Append(s, x)) = s /\ Last(Append(s, x)) = x
         /\ s # <<>> => /\ Front(s) \in Seq(S) /\ Last(s) \in S
                        /\ s = Append(Front(s), Last(s))
<1>1. ASSUME NEW x \in S PROVE Front(Append(s, x)) = s /\ Last(Append(s, x)) = x
  BY DEF Front, Last
<1>2. ASSUME s # <<>>
      PROVE  Front(s) \in Seq(S) /\ Last(s) \in S /\ s = Append(Front(s), Last(s))
  <2>1. Len(s) \in Nat /\ Len(s) > 0
    BY <1>2
  <2>2. Front(s) \in Seq(S) /\ Last(s) \in S
    BY <2>1 DEF Front, Last
  <2>3. s = Append(Front(s), Last(s))
    BY <2>1 DEF Front, Last
  <2> QED
    BY <2>2, <2>3
<1> QED
  BY <1>1, <1>2

LEMMA ReadOK ==
  ASSUME NEW q \in Name, NEW k \in 0 .. Len(q)
  PROVE  /\ Read(q, k) \in Seq(Name) \ {<<>>}
         /\ Front(Read(q, k)) \in Seq(Name)
         /\ Ready(q, k) \in Seq(Name) /\ Partial(q, k) \in Name
         /\ Kept(Read(q, k)) = Left(q, k)
<1>1. SubSeq(q, 1, k) \in Name
  BY DEF Name
<1>2. Read(q, k) \in Seq(Name) \ {<<>>}
  BY <1>1, ElementsGrows DEF Read
<1> DEFINE es == Read(q, k)
<1>3. /\ Front(es) \in Seq(Name) /\ Last(es) \in Name
      /\ es = Append(Front(es), Last(es))
  BY <1>2, FrontLast
<1>4. Kept(Front(es)) \in Seq(Name)
  BY <1>3, KeptGrows
<1>5. Kept(Append(Front(es), Last(es))) = Resolve(Kept(Front(es)), Last(es))
  BY <1>3, KeptGrows
<1> QED
  BY <1>2, <1>3, <1>4, <1>5 DEF Ready, Partial, Left

\* Before the first byte there is one element, the empty one,
LEMMA ReadNothing ==
  ASSUME NEW q \in Name
  PROVE  Ready(q, 0) = <<>> /\ Partial(q, 0) = <<>>
<1>1. SubSeq(q, 1, 0) = <<>>
  BY DEF Name
<1>2. Read(q, 0) = <<<<>>>>
  BY <1>1, ElementsGrows DEF Read
<1>3. Front(<<<<>>>>) = <<>> /\ Last(<<<<>>>>) = <<>>
  BY DEF Front, Last
<1> QED
  BY <1>2, <1>3, KeptGrows DEF Ready, Partial

\* a slash ends the last element, and any other byte belongs to it.
LEMMA ReadByte ==
  ASSUME NEW q \in Name, NEW k \in Nat, k < Len(q)
  PROVE  /\ q[k + 1] = "/" => /\ Ready(q, k + 1) = Left(q, k)
                              /\ Partial(q, k + 1) = <<>>
         /\ q[k + 1] # "/" => /\ Ready(q, k + 1) = Ready(q, k)
                              /\ Partial(q, k + 1) = Append(Partial(q, k), q[k + 1])
<1> DEFINE es == Read(q, k)
           c == q[k + 1]
<1>1. /\ es \in Seq(Name) \ {<<>>} /\ Front(es) \in Seq(Name)
      /\ Partial(q, k) \in Name
      /\ Kept(es) = Left(q, k)
  BY ReadOK DEF Name
<1>2. c \in Byte /\ es \in Seq(Name)
  BY <1>1 DEF Name
<1>3. Read(q, k + 1) = Split(es, c)
  <2>1. SubSeq(q, 1, k + 1) = Append(SubSeq(q, 1, k), c) /\ SubSeq(q, 1, k) \in Name
    BY DEF Name
  <2> QED
    BY <1>2, <2>1, ElementsGrows DEF Read
<1>4. CASE c = "/"
  <2>1. Read(q, k + 1) = Append(es, <<>>)
    BY <1>3, <1>4 DEF Split
  <2>2. <<>> \in Name
    BY DEF Name
  <2> HIDE DEF es
  <2>3. Front(Append(es, <<>>)) = es /\ Last(Append(es, <<>>)) = <<>>
    BY <1>2, <2>2, FrontLast
  <2> QED
    BY <1>1, <1>4, <2>1, <2>3 DEF Ready, Partial
<1>5. CASE c # "/"
  <2>1. Read(q, k + 1) = Append(Front(es), Append(Partial(q, k), c))
    BY <1>3, <1>5 DEF Split, Partial
  <2>2. Append(Partial(q, k), c) \in Name
    BY <1>1, <1>2 DEF Name
  <2> DEFINE f == Front(es)
             e == Append(Partial(q, k), c)
  <2>3. Front(Append(f, e)) = f /\ Last(Append(f, e)) = e
    <3>1. f \in Seq(Name) /\ e \in Name
      BY <1>1, <2>2
    <3> HIDE DEF f, e
    <3> QED
      BY <3>1, FrontLast
  <2> QED
    BY <1>5, <2>1, <2>3, Zenon DEF Ready, Partial
<1> QED
  BY <1>4, <1>5

\* A name: not empty, and without a slash.
Plain(e) == e # <<>> /\ \A i \in 1 .. Len(e) : e[i] # "/"

\* The elements that are left are names, and the one that goes on is empty just
\* behind a slash.
WellRead(q, k) ==
  /\ \A i \in 1 .. Len(Partial(q, k)) : Partial(q, k)[i] # "/"
  /\ Partial(q, k) = <<>> <=> (k = 0 \/ q[k] = "/")
  /\ \A i \in 1 .. Len(Ready(q, k)) : Plain(Ready(q, k)[i])

\* The rules, one by one.
LEMMA Resolving ==
  ASSUME NEW kept, NEW e
  PROVE  /\ e = <<>> \/ e = <<".">> => Resolve(kept, e) = kept
         /\ e = <<".", ".">> =>
              Resolve(kept, e) = IF kept = <<>> THEN kept ELSE Front(kept)
         /\ e # <<>> /\ e # <<".">> /\ e # <<".", ".">> =>
              Resolve(kept, e) = Append(kept, e)
<1>1. <<".", ".">> # <<>> /\ <<".", ".">> # <<".">>
  OBVIOUS
<1> QED
  BY <1>1, Zenon DEF Resolve

\* The rules add names only.
LEMMA ResolvePlain ==
  ASSUME NEW kept \in Seq(Name), NEW e \in Name,
         \A i \in 1 .. Len(kept) : Plain(kept[i]), \A i \in 1 .. Len(e) : e[i] # "/"
  PROVE  /\ Resolve(kept, e) \in Seq(Name)
         /\ \A i \in 1 .. Len(Resolve(kept, e)) : Plain(Resolve(kept, e)[i])
<1>1. CASE Resolve(kept, e) = kept
  BY <1>1
<1>2. CASE kept # <<>> /\ Resolve(kept, e) = Front(kept)
  <2>1. /\ Front(kept) \in Seq(Name) /\ Len(Front(kept)) \in Nat
        /\ Len(Front(kept)) < Len(kept)
        /\ \A i \in 1 .. Len(Front(kept)) : Front(kept)[i] = kept[i]
    BY <1>2 DEF Front
  <2>2. \A i \in 1 .. Len(Front(kept)) : i \in 1 .. Len(kept)
    BY <2>1
  <2> QED
    BY <1>2, <2>1, <2>2
<1>3. CASE e # <<>> /\ Resolve(kept, e) = Append(kept, e)
  <2>1. Plain(e)
    BY <1>3 DEF Plain
  <2>2. /\ Append(kept, e) \in Seq(Name)
        /\ Len(Append(kept, e)) = Len(kept) + 1
        /\ Append(kept, e)[Len(kept) + 1] = e
        /\ \A i \in 1 .. Len(kept) : Append(kept, e)[i] = kept[i]
    OBVIOUS
  <2>3. \A i \in 1 .. Len(kept) + 1 : i \in 1 .. Len(kept) \/ i = Len(kept) + 1
    OBVIOUS
  <2> QED
    BY <1>3, <2>1, <2>2, <2>3
<1>4. \/ Resolve(kept, e) = kept
      \/ kept # <<>> /\ Resolve(kept, e) = Front(kept)
      \/ e # <<>> /\ Resolve(kept, e) = Append(kept, e)
  BY Resolving, Zenon
<1> QED
  BY <1>1, <1>2, <1>3, <1>4

LEMMA WellReadStep ==
  ASSUME NEW q \in Name, NEW k \in Nat, k < Len(q), WellRead(q, k)
  PROVE  WellRead(q, k + 1)
<1>1. Ready(q, k) \in Seq(Name) /\ Partial(q, k) \in Name
  BY ReadOK DEF Name
<1>2. /\ Left(q, k) \in Seq(Name)
      /\ \A i \in 1 .. Len(Left(q, k)) : Plain(Left(q, k)[i])
  BY <1>1, ResolvePlain DEF WellRead, Left
<1>3. CASE q[k + 1] = "/"
  <2>1. Ready(q, k + 1) = Left(q, k) /\ Partial(q, k + 1) = <<>>
    BY <1>3, ReadByte
  <2>2. Len(<<>>) = 0
    OBVIOUS
  <2> QED
    BY <1>2, <1>3, <2>1, <2>2 DEF WellRead
<1>4. CASE q[k + 1] # "/"
  <2> DEFINE c == q[k + 1]
             o == Partial(q, k)
  <2>1. Ready(q, k + 1) = Ready(q, k) /\ Partial(q, k + 1) = Append(o, c)
    BY <1>4, ReadByte
  <2>2. /\ Append(o, c) # <<>> /\ Len(Append(o, c)) = Len(o) + 1
        /\ Append(o, c)[Len(o) + 1] = c
        /\ \A i \in 1 .. Len(o) : Append(o, c)[i] = o[i]
    <3>1. c \in Byte /\ o \in Seq(Byte)
      BY <1>1 DEF Name
    <3> HIDE DEF o, c
    <3> QED
      BY <3>1
  <2>3. Len(o) \in Nat /\ \A i \in 1 .. Len(o) : o[i] # "/"
    BY <1>1 DEF WellRead, Name
  <2>4. \A i \in 1 .. Len(Append(o, c)) : Append(o, c)[i] # "/"
    <3> HIDE DEF o
    <3> QED
      BY <1>4, <2>2, <2>3
  <2>5. k + 1 # 0
    OBVIOUS
  <2> QED
    BY <1>4, <2>1, <2>2, <2>4, <2>5, Zenon DEF WellRead
<1> QED
  BY <1>3, <1>4

LEMMA AllWellRead ==
  ASSUME NEW q \in Name
  PROVE  \A k \in 0 .. Len(q) : WellRead(q, k)
<1> DEFINE T == {k \in 0 .. Len(q) : WellRead(q, k)}
<1>1. WellRead(q, 0)
  <2>1. Len(<<>>) = 0
    OBVIOUS
  <2> QED
    BY <2>1, ReadNothing DEF WellRead
<1>2. Len(q) \in Nat
  BY DEF Name
<1>3. \A k \in T : k < Len(q) => k + 1 \in T
  <2> SUFFICES ASSUME NEW k \in T, k < Len(q) PROVE k + 1 \in T
    OBVIOUS
  <2>1. k \in Nat /\ k + 1 \in 0 .. Len(q)
    BY <1>2
  <2> QED
    BY <2>1, WellReadStep
<1>4. T = 0 .. Len(q)
  <2>1. 0 \in T /\ T \in SUBSET (0 .. Len(q))
    BY <1>1, <1>2
  <2> HIDE DEF T
  <2> QED
    BY <1>2, <1>3, <2>1, UpTo
<1> QED
  BY <1>4

-----------------------------------------------------------------------------
(***************************************************************************)
(* What is written is what the rules leave of what was read.               *)
(***************************************************************************)

Rooted(kept) == IF kept = <<>> THEN <<"/">> ELSE Joined(kept)

\* t is what is written.
Wrote(t) == w = Len(t) /\ \A i \in 1 .. w : Out(i - 1) = t[i]

\* The element that is copied began at e, and is not a dot element.
Begun(e) ==
  /\ e < n /\ e <= r /\ At(e) # "/" /\ Partial(p, r) = SubSeq(p, e + 1, r)
  /\ At(e) = "." => /\ e + 1 < n /\ At(e + 1) # "/"
                    /\ At(e + 1) = "." => e + 2 < n /\ At(e + 2) # "/"

EndsInSlash == n > 2 /\ At(n - 1) = "/"

RulesOK ==
  /\ p # <<>> =>
       /\ pc = "loop" =>
            /\ Wrote(Rooted(Left(p, r)))
            /\ r < n /\ At(r) # "/" => Partial(p, r) = <<>>
            /\ trailing <=> EndsInSlash \/ (r = n /\ Partial(p, r) = <<".">>)
       /\ pc = "copy" =>
            /\ Wrote(Below(Joined(Ready(p, r)), Partial(p, r)))
            /\ \E e \in 0 .. n : Begun(e)
            /\ trailing <=> EndsInSlash
       /\ pc = "return" => Wrote(Canonical(p))
  /\ FollowsRules

\* What Below writes.
LEMMA BelowBytes ==
  ASSUME NEW t \in Name, NEW e \in Name
  PROVE  /\ Below(t, e) \in Name
         /\ Len(Below(t, e)) = Len(t) + 1 + Len(e)
         /\ \A i \in 1 .. Len(t) : Below(t, e)[i] = t[i]
         /\ Below(t, e)[Len(t) + 1] = "/"
         /\ \A i \in 1 .. Len(e) : Below(t, e)[Len(t) + 1 + i] = e[i]
BY PathAssumption DEF Name, Below

LEMMA BelowGrows ==
  ASSUME NEW t \in Name, NEW e \in Name, NEW c \in Byte
  PROVE  /\ Below(t, <<>>) = Append(t, "/")
         /\ Below(t, Append(e, c)) = Append(Below(t, e), c)
BY PathAssumption DEF Name, Below

LEMMA JoinedOK ==
  ASSUME NEW es \in Seq(Name)
  PROVE  /\ Joined(es) \in Name
         /\ es = <<>> => Joined(es) = <<>>
         /\ es # <<>> => Len(Joined(es)) > 0
<1>1. Joined(es) \in Name /\ Joined(<<>>) = <<>>
  BY JoinedGrows
<1>2. ASSUME es # <<>> PROVE Len(Joined(es)) > 0
  <2> DEFINE f == Front(es)
             e == Last(es)
  <2>1. f \in Seq(Name) /\ e \in Name /\ es = Append(f, e)
    BY <1>2, FrontLast
  <2> HIDE DEF f, e
  <2>2. Joined(es) = Below(Joined(f), e) /\ Joined(f) \in Name
    BY <2>1, JoinedGrows
  <2>3. Len(Joined(es)) = Len(Joined(f)) + 1 + Len(e)
    BY <2>1, <2>2, BelowBytes
  <2>4. Len(Joined(f)) \in Nat /\ Len(e) \in Nat
    BY <2>1, <2>2 DEF Name
  <2> QED
    BY <2>3, <2>4
<1> QED
  BY <1>1, <1>2

LEMMA RootedOK ==
  ASSUME NEW es \in Seq(Name)
  PROVE  Rooted(es) \in Name /\ Len(Rooted(es)) > 0
<1>1. <<"/">> \in Name /\ Len(<<"/">>) = 1
  BY PathAssumption DEF Name
<1> QED
  BY <1>1, JoinedOK DEF Rooted

LEMMA CanonicalOK ==
  ASSUME NEW q \in Name
  PROVE  Canonical(q) \in Name
<1> DEFINE k == Kept(Elements(q))
<1>1. Elements(q) \in Seq(Name)
  BY ElementsGrows
<1>2. k \in Seq(Name)
  BY <1>1, KeptGrows
<1>3. Joined(k) \in Name
  BY <1>2, JoinedOK
<1>4. \A t \in Name : t \o <<"/">> \in Name /\ t \o <<>> \in Name
  BY PathAssumption DEF Name
<1>5. <<"/">> \in Name
  BY PathAssumption DEF Name
<1> HIDE DEF k
<1> QED
  BY <1>3, <1>4, <1>5 DEF Canonical, k

LEMMA WroteStays ==
  ASSUME p' = p, buf' = buf, w' = w, NEW t, Wrote(t)
  PROVE  Wrote(t)'
<1>1. \A i : Out(i)' = Out(i)
  BY OutStays
<1> QED
  BY <1>1 DEF Wrote

LEMMA WroteMore ==
  ASSUME TypeOK, RoomOK, p # <<>>, NEW b \in Byte, bufApp(b), p' = p,
         NEW t \in Name, Wrote(t)
  PROVE  Append(t, b) \in Name /\ Wrote(Append(t, b))'
<1> DEFINE u == Append(t, b)
<1>1. /\ u \in Name /\ Len(u) = Len(t) + 1 /\ Len(t) \in Nat /\ u[Len(t) + 1] = b
      /\ \A i \in 1 .. Len(t) : u[i] = t[i]
  BY DEF Name
<1>2. w = Len(t) /\ \A i \in 1 .. w : Out(i - 1) = t[i]
  BY DEF Wrote
<1>3. /\ w' = w + 1 /\ w \in Nat
      /\ \A i \in 0 .. w - 1 : Out(i)' = Out(i)
      /\ \A i \in Nat : i = w => Out(i)' = b
  BY ByteWritten
<1> HIDE DEF u
<1>4. ASSUME NEW i \in 1 .. w + 1 PROVE Out(i - 1)' = u[i]
  <2>1. CASE i = w + 1
    BY <1>1, <1>2, <1>3, <2>1
  <2>2. CASE i # w + 1
    <3>1. i \in 1 .. w /\ i - 1 \in 0 .. w - 1
      BY <1>3, <2>2
    <3> QED
      BY <1>1, <1>2, <1>3, <3>1
  <2> QED
    BY <2>1, <2>2
<1>5. Wrote(u)'
  BY <1>1, <1>2, <1>3, <1>4 DEF Wrote
<1> QED
  BY <1>1, <1>5 DEF u

\* Where the scan stands.
LEMMA ReadFacts ==
  ASSUME IInv, p # <<>>
  PROVE  /\ p \in Name /\ n \in Nat /\ n > 0 /\ n = Len(p) /\ r \in 0 .. n
         /\ Ready(p, r) \in Seq(Name) /\ Partial(p, r) \in Name
         /\ Left(p, r) \in Seq(Name)
         /\ WellRead(p, r)
<1>1. p \in Name /\ n \in Nat /\ n > 0 /\ n = Len(p) /\ r \in 0 .. n
  BY Lengths DEF IInv, TypeOK, Name, n
<1>2. Ready(p, r) \in Seq(Name) /\ Partial(p, r) \in Name /\ WellRead(p, r)
  BY <1>1, ReadOK, AllWellRead
<1>3. Left(p, r) \in Seq(Name)
  BY <1>2, ResolvePlain DEF WellRead, Left
<1> QED
  BY <1>1, <1>2, <1>3

\* A slash, and a . that has a slash or the end behind it, leave what was left.
LEMMA SkipsFollowRules ==
  ASSUME IInv, RulesOK, SkipSlash \/ SkipLastDot \/ SkipDot
  PROVE  RulesOK'
<1>1. /\ p' = p /\ p # <<>> /\ w' = w /\ buf' = buf /\ pc = "loop" /\ pc' = "loop"
      /\ r' = r + 1 /\ r < n /\ n' = n
  BY StepFacts DEF Next, SkipSlash, SkipLastDot, SkipDot, More
<1>2. /\ p \in Name /\ n \in Nat /\ n > 0 /\ n = Len(p) /\ r \in Nat
      /\ Ready(p, r) \in Seq(Name)
  BY <1>1, ReadFacts
<1>3. /\ Wrote(Rooted(Left(p, r)))
      /\ At(r) # "/" => Partial(p, r) = <<>>
      /\ trailing <=> EndsInSlash
  BY <1>1, <1>2 DEF RulesOK
<1>4. Left(p, r + 1) = Left(p, r) /\ Partial(p, r + 1) \in {<<>>, <<".">>}
      /\ (Partial(p, r + 1) = <<".">> <=> At(r) = ".")
  <2>1. CASE At(r) = "/"
    <3>1. Ready(p, r + 1) = Left(p, r) /\ Partial(p, r + 1) = <<>>
      BY <1>1, <1>2, <2>1, ReadByte DEF At
    <3>2. <<>> # <<".">>
      OBVIOUS
    <3> QED
      BY <2>1, <3>1, <3>2, Resolving DEF Left
  <2>2. CASE At(r) = "."
    <3>1. Ready(p, r + 1) = Ready(p, r) /\ Partial(p, r + 1) = Append(<<>>, ".")
      BY <1>1, <1>2, <1>3, <2>2, ReadByte DEF At
    <3>2. Append(<<>>, ".") = <<".">>
      OBVIOUS
    <3> QED
      BY <1>3, <2>2, <3>1, <3>2, Resolving DEF Left
  <2> QED
    BY <2>1, <2>2 DEF SkipSlash, SkipLastDot, SkipDot, LastDot, InnerDot
<1>5. r + 1 < n /\ At(r + 1) # "/" => Partial(p, r + 1) = <<>>
  BY <1>1, <1>2, <1>4 DEF SkipSlash, SkipLastDot, SkipDot, LastDot, InnerDot
<1>6. trailing' <=> EndsInSlash \/ (r + 1 = n /\ Partial(p, r + 1) = <<".">>)
  BY <1>1, <1>2, <1>3, <1>4 DEF SkipSlash, SkipLastDot, SkipDot, LastDot, InnerDot
<1>7. Wrote(Rooted(Left(p, r)))'
  <2>1. PICK t : t = Rooted(Left(p, r))
    OBVIOUS
  <2>2. Wrote(t)'
    BY <1>1, <1>3, <2>1, WroteStays
  <2>3. t = Rooted(Left(p, r))'
    BY <1>1, <1>4, <2>1
  <2> QED
    BY <2>2, <2>3 DEF Wrote
<1>8. Partial(p, r)' = Partial(p, r + 1) /\ EndsInSlash' = EndsInSlash
  BY <1>1 DEF EndsInSlash, At
<1>9. At(r)' = At(r + 1)
  BY <1>1 DEF At
<1> QED
  BY <1>1, <1>5, <1>6, <1>7, <1>8, <1>9 DEF RulesOK, FollowsRules

\* Behind the elements f, the last one written is e: it starts at the slash
\* that was written between them.
LEMMA LastStarts ==
  ASSUME w \in Nat, NEW f \in Seq(Name), NEW e \in Name, Plain(e),
         Wrote(Rooted(Append(f, e)))
  PROVE  /\ w > 1
         /\ \A k \in 1 .. w - 1 : StartsAt(k) =>
              /\ k = Len(Rooted(f))
              /\ \A i \in 1 .. k : Out(i - 1) = Rooted(f)[i]
<1> DEFINE j == Joined(f)
           m == Len(j)
           t == Below(j, e)
<1>1. /\ j \in Name /\ m \in Nat /\ Len(e) \in Nat /\ Len(e) > 0
      /\ f = <<>> => m = 0
      /\ f # <<>> => m > 0
      /\ \A i \in 1 .. Len(e) : e[i] # "/"
  <2>1. j \in Name /\ (f = <<>> => j = <<>>) /\ (f # <<>> => m > 0)
    BY JoinedOK
  <2>2. Len(e) \in Nat /\ Len(e) > 0
    BY DEF Plain, Name
  <2> QED
    BY <2>1, <2>2 DEF Plain, Name
<1>2. Rooted(Append(f, e)) = t
  <2>1. /\ Append(f, e) \in Seq(Name)
        /\ Len(Append(f, e)) = Len(f) + 1 /\ Len(f) \in Nat
    OBVIOUS
  <2>2. Append(f, e) # <<>>
    BY <2>1
  <2> QED
    BY <2>2, JoinedGrows DEF Rooted
<1>3. /\ t \in Name
      /\ Len(t) = m + 1 + Len(e)
      /\ \A i \in 1 .. m : t[i] = j[i]
      /\ t[m + 1] = "/"
      /\ \A i \in 1 .. Len(e) : t[m + 1 + i] = e[i]
  BY <1>1, BelowBytes
<1>4. w = Len(t) /\ \A i \in 1 .. w : Out(i - 1) = t[i]
  BY <1>2 DEF Wrote
<1>5. Rooted(f) = IF f = <<>> THEN <<"/">> ELSE j
  BY DEF Rooted
<1> HIDE DEF j, m, t
<1>6. w > 1 /\ w = m + 1 + Len(e)
  BY <1>1, <1>3, <1>4
<1>7. Out(m) = "/"
  <2>1. m + 1 \in 1 .. w /\ (m + 1) - 1 = m
    BY <1>1, <1>6
  <2> QED
    BY <1>3, <1>4, <2>1
<1>8. ASSUME NEW i \in m + 1 .. w - 1 PROVE Out(i) # "/"
  <2>1. i - m \in 1 .. Len(e) /\ i + 1 \in 1 .. w /\ (i + 1) - 1 = i
        /\ m + 1 + (i - m) = i + 1
    BY <1>1, <1>6
  <2>2. Out(i) = t[i + 1]
    BY <1>4, <2>1
  <2>3. t[m + 1 + (i - m)] = e[i - m] /\ e[i - m] # "/"
    BY <1>1, <1>3, <2>1
  <2> QED
    BY <2>1, <2>2, <2>3
<1>9. ASSUME NEW k \in 1 .. w - 1, StartsAt(k)
      PROVE  k = IF f = <<>> THEN 1 ELSE m
  <2>1. k = 1 \/ Out(k) = "/"
    BY <1>9 DEF StartsAt
  <2>2. k = 1 \/ k <= m
    BY <1>1, <1>8, <2>1
  <2>3. ~(k < m)
    BY <1>1, <1>6, <1>7, <1>9 DEF StartsAt
  <2> QED
    BY <1>1, <2>2, <2>3
<1>10. ASSUME NEW k \in 1 .. w - 1, StartsAt(k)
       PROVE  k = Len(Rooted(f)) /\ \A i \in 1 .. k : Out(i - 1) = Rooted(f)[i]
  <2>1. CASE f = <<>>
    <3>1. /\ Rooted(f) = <<"/">> /\ k = 1 /\ m = 0
          /\ Len(<<"/">>) = 1 /\ <<"/">>[1] = "/"
      BY <1>1, <1>5, <1>9, <1>10, <2>1
    <3>2. \A i \in 1 .. 1 : i - 1 = 0 /\ i = 1
      OBVIOUS
    <3> QED
      BY <1>7, <3>1, <3>2
  <2>2. CASE f # <<>>
    <3>1. Rooted(f) = j /\ k = m
      BY <1>5, <1>9, <1>10, <2>2
    <3>2. \A i \in 1 .. m : i \in 1 .. w
      BY <1>1, <1>6
    <3> QED
      BY <1>3, <1>4, <3>1, <3>2 DEF m
  <2> QED
    BY <2>1, <2>2
<1> QED
  BY <1>6, <1>10

LEMMA TwoDots == Append(<<".">>, ".") = <<".", ".">>
<1>1. ASSUME NEW S, NEW one \in Seq(S), NEW c \in S, Len(one) = 1
      PROVE  Append(one, c) = <<one[1], c>>
  <2> DEFINE s == Append(one, c)
  <2>1. s \in Seq(S) /\ Len(s) = 2
    BY <1>1
  <2>2. s[1] = one[1] /\ s[2] = c
    <3>1. s[Len(one) + 1] = c /\ \A i \in 1 .. Len(one) : s[i] = one[i]
      OBVIOUS
    <3>2. Len(one) + 1 = 2 /\ 1 \in 1 .. Len(one)
      BY <1>1
    <3> HIDE DEF s
    <3> QED
      BY <3>1, <3>2, Zenon
  <2> HIDE DEF s
  <2>3. s = <<s[1], s[2]>>
    BY <2>1
  <2> QED
    BY <2>2, <2>3 DEF s
<1>2. <<".">> \in Seq({"."}) /\ Len(<<".">>) = 1 /\ <<".">>[1] = "." /\ "." \in {"."}
  OBVIOUS
<1> QED
  BY <1>1, <1>2

\* A .. removes the last element that is left, and what was written of it.
LEMMA BacktrackFollowsRules ==
  ASSUME IInv, RulesOK, Backtrack
  PROVE  RulesOK'
<1>1. /\ p' = p /\ p # <<>> /\ buf' = buf /\ pc = "loop" /\ pc' = "loop"
      /\ r' = r + 2 /\ r + 1 < n /\ n' = n /\ trailing' = trailing
      /\ At(r) = "." /\ At(r + 1) = "." /\ (r + 2 < n => At(r + 2) = "/")
  BY StepFacts DEF Next, Backtrack, More, DotDot
<1>2. /\ p \in Name /\ n \in Nat /\ n > 0 /\ n = Len(p) /\ r \in Nat /\ w \in Nat
      /\ Ready(p, r) \in Seq(Name) /\ WellRead(p, r)
  BY <1>1, ReadFacts DEF IInv, TypeOK
<1>3. /\ Wrote(Rooted(Left(p, r)))
      /\ Partial(p, r) = <<>>
      /\ trailing <=> EndsInSlash
  BY <1>1, <1>2 DEF RulesOK
<1> DEFINE K == Ready(p, r)
<1>4. /\ Left(p, r) = K
      /\ Partial(p, r + 2) = <<".", ".">>
      /\ Left(p, r + 2) = IF K = <<>> THEN K ELSE Front(K)
  <2>1. /\ Append(<<>>, ".") = <<".">> /\ Append(<<".">>, ".") = <<".", ".">>
        /\ (r + 1) + 1 = r + 2 /\ r + 1 \in Nat
    BY <1>2, TwoDots
  <2>2. Ready(p, r + 1) = K /\ Partial(p, r + 1) = <<".">>
    BY <1>1, <1>2, <1>3, <2>1, ReadByte DEF At
  <2>3. Ready(p, r + 2) = K /\ Partial(p, r + 2) = <<".", ".">>
    BY <1>1, <1>2, <2>1, <2>2, ReadByte DEF At
  <2> QED
    BY <1>3, <2>3, Resolving DEF Left
<1>5. PICK u : u = Rooted(Left(p, r + 2)) /\ Wrote(u)'
  <2>1. \A i : Out(i)' = Out(i)
    BY <1>1, OutStays
  <2>2. CASE K = <<>>
    <3>1. Rooted(Left(p, r + 2)) = <<"/">> /\ Rooted(Left(p, r)) = <<"/">>
      BY <1>4, <2>2 DEF Rooted
    <3>2. w = 1
      BY <1>3, <3>1 DEF Wrote
    <3>3. w' = w
      BY <3>2 DEF Backtrack
    <3>4. Wrote(<<"/">>)'
      BY <1>1, <1>3, <3>1, <3>3, WroteStays
    <3> QED
      BY <3>1, <3>4
  <2>3. CASE K # <<>>
    <3> DEFINE f == Front(K)
               e == Last(K)
    <3>1. f \in Seq(Name) /\ e \in Name /\ K = Append(f, e)
      BY <1>2, <2>3, FrontLast
    <3>2. Plain(e)
      BY <1>2, <2>3 DEF Last, WellRead
    <3> HIDE DEF f, e
    <3>3. PICK v : v = Rooted(f)
      OBVIOUS
    <3>4. /\ w > 1
          /\ \A k \in 1 .. w - 1 : StartsAt(k) =>
               k = Len(v) /\ \A i \in 1 .. k : Out(i - 1) = v[i]
      BY <1>2, <1>3, <1>4, <3>1, <3>2, <3>3, LastStarts
    <3>5. PICK k \in 1 .. w - 1 : StartsAt(k) /\ w' = k
      BY <3>4 DEF Backtrack
    <3>6. Wrote(v)'
      BY <2>1, <3>4, <3>5 DEF Wrote
    <3>7. v = Rooted(Left(p, r + 2))
      BY <1>4, <2>3, <3>3 DEF f
    <3> QED
      BY <3>6, <3>7
  <2> QED
    BY <2>2, <2>3
<1>6. Wrote(Rooted(Left(p, r)))'
  <2>1. u = Rooted(Left(p, r))'
    BY <1>1, <1>5
  <2> QED
    BY <1>5, <2>1 DEF Wrote
<1>7. Partial(p, r)' = Partial(p, r + 2) /\ EndsInSlash' = EndsInSlash
  BY <1>1 DEF EndsInSlash, At
<1>8. At(r)' = At(r + 2)
  BY <1>1 DEF At
<1>9. <<".", ".">> # <<".">>
  OBVIOUS
<1> QED
  BY <1>1, <1>3, <1>4, <1>6, <1>7, <1>8, <1>9 DEF RulesOK, FollowsRules

\* An element begins behind the elements that are left.
LEMMA StartFollowsRules ==
  ASSUME IInv, RulesOK, StartElement
  PROVE  RulesOK'
<1>1. /\ p' = p /\ p # <<>> /\ r' = r /\ pc = "loop" /\ pc' = "copy" /\ n' = n
      /\ r < n /\ At(r) # "/" /\ trailing' = trailing
      /\ At(r) = "." => /\ r + 1 < n /\ At(r + 1) # "/"
                        /\ At(r + 1) = "." => r + 2 < n /\ At(r + 2) # "/"
  BY StepFacts DEF Next, StartElement, More, LastDot, InnerDot, DotDot
<1>2. /\ p \in Name /\ n \in Nat /\ n > 0 /\ n = Len(p) /\ r \in Nat
      /\ Ready(p, r) \in Seq(Name) /\ Left(p, r) \in Seq(Name)
  BY <1>1, ReadFacts
<1>3. /\ Wrote(Rooted(Left(p, r)))
      /\ Partial(p, r) = <<>>
      /\ trailing <=> EndsInSlash
  BY <1>1, <1>2 DEF RulesOK
<1> DEFINE K == Ready(p, r)
<1>4. Left(p, r) = K
  BY <1>3, Resolving DEF Left
<1>5. PICK u : u = Below(Joined(K), <<>>) /\ Wrote(u)'
  <2>1. Joined(K) \in Name /\ <<>> \in Name /\ "/" \in Byte
    BY <1>2, JoinedOK, PathAssumption DEF Name
  <2>2. Below(Joined(K), <<>>) = Append(Joined(K), "/")
    BY <2>1, BelowGrows
  <2>3. CASE K = <<>>
    <3>1. Rooted(K) = <<"/">> /\ Joined(K) = <<>> /\ Append(<<>>, "/") = <<"/">>
      <4>1. Rooted(K) = <<"/">> /\ Append(<<>>, "/") = <<"/">>
        BY <2>3 DEF Rooted
      <4>2. Joined(K) = <<>>
        BY <1>2, <2>3, JoinedOK, Zenon
      <4> QED
        BY <4>1, <4>2
    <3>2. w = 1
      BY <1>3, <1>4, <3>1 DEF Wrote
    <3>3. w' = w /\ buf' = buf
      BY <3>2 DEF StartElement
    <3>4. Wrote(<<"/">>)'
      BY <1>1, <1>3, <1>4, <3>1, <3>3, WroteStays
    <3> QED
      BY <2>2, <3>1, <3>4
  <2>4. CASE K # <<>>
    <3>1. PICK t : t = Joined(K)
      OBVIOUS
    <3>2. t \in Name /\ Wrote(t) /\ Len(t) > 0 /\ t # <<>>
      BY <1>2, <1>3, <1>4, <2>1, <2>4, <3>1, JoinedOK DEF Rooted
    <3>3. \E f, e : f \in Seq(Name) /\ e \in Name /\ K = Append(f, e) /\ Plain(e)
      <4>1. WellRead(p, r)
        BY <1>1, ReadFacts
      <4>2. Plain(Last(K))
        BY <1>2, <2>4, <4>1 DEF Last, WellRead
      <4> QED
        BY <1>2, <2>4, <4>2, FrontLast
    <3>4. w > 1
      BY <1>3, <1>4, <3>3, LastStarts DEF IInv, TypeOK
    <3>5. bufApp("/")
      BY <3>4 DEF StartElement
    <3>6. Wrote(Append(t, "/"))'
      BY <1>1, <2>1, <3>2, <3>5, WroteMore DEF IInv
    <3> QED
      BY <2>2, <3>1, <3>6
  <2> QED
    BY <2>3, <2>4
<1>6. Wrote(Below(Joined(Ready(p, r)), Partial(p, r)))'
  <2>1. u = Below(Joined(Ready(p, r)), Partial(p, r))'
    BY <1>1, <1>3, <1>5
  <2> QED
    BY <1>5, <2>1 DEF Wrote
<1>7. Begun(r)'
  <2>1. SubSeq(p, r + 1, r) = <<>>
    BY <1>2 DEF Name
  <2> QED
    BY <1>1, <1>2, <1>3, <2>1 DEF Begun, At
<1>8. EndsInSlash' = EndsInSlash
  BY <1>1 DEF EndsInSlash, At
<1>9. \E e \in 0 .. n' : Begun(e)'
  BY <1>1, <1>2, <1>7
<1> QED
  BY <1>1, <1>3, <1>6, <1>8, <1>9 DEF RulesOK, FollowsRules

\* A byte of it is written behind the others.
LEMMA CopyFollowsRules ==
  ASSUME IInv, RulesOK, CopyByte
  PROVE  RulesOK'
<1>1. /\ p' = p /\ p # <<>> /\ r' = r + 1 /\ pc = "copy" /\ pc' = "copy" /\ n' = n
      /\ r < n /\ At(r) # "/" /\ trailing' = trailing /\ bufApp(At(r))
  BY StepFacts DEF Next, CopyByte, InElement
<1>2. /\ p \in Name /\ n \in Nat /\ n > 0 /\ n = Len(p) /\ r \in Nat
      /\ Ready(p, r) \in Seq(Name) /\ Partial(p, r) \in Name
  BY <1>1, ReadFacts
<1>3. PICK e \in 0 .. n : Begun(e)
  BY <1>1 DEF RulesOK
<1>4. /\ Wrote(Below(Joined(Ready(p, r)), Partial(p, r)))
      /\ trailing <=> EndsInSlash
  BY <1>1 DEF RulesOK
<1>5. /\ Ready(p, r + 1) = Ready(p, r)
      /\ Partial(p, r + 1) = Append(Partial(p, r), At(r))
  BY <1>1, <1>2, ReadByte DEF At
<1>6. PICK t, b : t = Below(Joined(Ready(p, r)), Partial(p, r)) /\ b = At(r)
  OBVIOUS
<1>7. b \in Byte /\ Joined(Ready(p, r)) \in Name
  BY <1>1, <1>2, <1>6, JoinedOK DEF At, Name
<1>8. t \in Name
  BY <1>2, <1>6, <1>7, BelowBytes
<1>9. Append(t, b) = Below(Joined(Ready(p, r + 1)), Partial(p, r + 1))
  <2>1. Below(Joined(Ready(p, r)), Append(Partial(p, r), b)) = Append(t, b)
    BY <1>2, <1>6, <1>7, BelowGrows
  <2> QED
    BY <1>5, <1>6, <2>1
<1>10. Wrote(Append(t, b))'
  BY <1>1, <1>4, <1>6, <1>7, <1>8, WroteMore DEF IInv
<1>11. Wrote(Below(Joined(Ready(p, r)), Partial(p, r)))'
  <2>1. Append(t, b) = Below(Joined(Ready(p, r)), Partial(p, r))'
    BY <1>1, <1>9
  <2> QED
    BY <1>10, <2>1 DEF Wrote
<1>12. Begun(e)'
  <2>1. Append(SubSeq(p, e + 1, r), At(r)) = SubSeq(p, e + 1, r + 1)
    BY <1>1, <1>2, <1>3 DEF Begun, Name, At
  <2>2. Partial(p, r + 1) = SubSeq(p, e + 1, r + 1)
    BY <1>3, <1>5, <2>1 DEF Begun
  <2>3. Partial(p, r)' = SubSeq(p, e + 1, r)'
    BY <1>1, <2>2
  <2>4. e <= r' /\ \A i : At(i)' = At(i)
    BY <1>1, <1>2, <1>3 DEF Begun, At
  <2> QED
    BY <1>1, <1>3, <2>3, <2>4 DEF Begun
<1>13. EndsInSlash' = EndsInSlash
  BY <1>1 DEF EndsInSlash, At
<1>14. \E i \in 0 .. n' : Begun(i)'
  BY <1>1, <1>12
<1> QED
  BY <1>1, <1>4, <1>11, <1>13, <1>14 DEF RulesOK, FollowsRules

\* The element is not a dot element: it is left, with those before it.
LEMMA EndFollowsRules ==
  ASSUME IInv, RulesOK, EndElement
  PROVE  RulesOK'
<1>1. /\ p' = p /\ p # <<>> /\ r' = r /\ w' = w /\ buf' = buf
      /\ pc = "copy" /\ pc' = "loop" /\ n' = n /\ trailing' = trailing
      /\ ~(r < n /\ At(r) # "/")
  BY StepFacts DEF Next, EndElement, InElement
<1>2. /\ p \in Name /\ n \in Nat /\ n > 0 /\ n = Len(p) /\ r \in 0 .. n
      /\ Ready(p, r) \in Seq(Name) /\ Partial(p, r) \in Name
  BY <1>1, ReadFacts
<1>3. PICK e \in 0 .. n : Begun(e)
  BY <1>1 DEF RulesOK
<1>4. /\ Wrote(Below(Joined(Ready(p, r)), Partial(p, r)))
      /\ trailing <=> EndsInSlash
  BY <1>1 DEF RulesOK
<1> DEFINE o == Partial(p, r)
<1>5. o # <<>> /\ o # <<".">> /\ o # <<".", ".">>
  <2>1. /\ Len(o) = r - e
        /\ Len(o) >= 1 => o[1] = At(e)
        /\ Len(o) >= 2 => o[2] = At(e + 1)
    BY <1>2, <1>3 DEF Begun, Name, At
  <2>2. r > e /\ r \in Nat /\ e \in Nat
    BY <1>1, <1>2, <1>3 DEF Begun
  <2> HIDE DEF o
  <2>3. ASSUME o = <<".">> PROVE FALSE
    <3>1. Len(o) = 1 /\ o[1] = "."
      BY <2>3
    <3>2. r - e = 1
      BY <2>1, <3>1
    <3>3. At(e) = "."
      BY <2>1, <3>1
    <3>4. r = e + 1
      BY <2>2, <3>2
    <3> QED
      BY <1>1, <1>3, <3>3, <3>4 DEF Begun
  <2>4. ASSUME o = <<".", ".">> PROVE FALSE
    <3>1. Len(o) = 2 /\ o[1] = "." /\ o[2] = "."
      BY <2>4
    <3>2. r - e = 2
      BY <2>1, <3>1
    <3>3. At(e) = "."
      BY <2>1, <3>1
    <3>4. At(e + 1) = "."
      <4>1. Len(o) >= 2
        BY <3>1
      <4>2. o[2] = At(e + 1)
        BY <2>1, <4>1, Zenon
      <4> QED
        BY <3>1, <4>2, Zenon
    <3>5. r = e + 2
      BY <2>2, <3>2
    <3> QED
      BY <1>1, <1>3, <3>3, <3>4, <3>5 DEF Begun
  <2>5. o # <<>>
    BY <1>2, <2>1, <2>2
  <2> QED
    BY <2>3, <2>4, <2>5
<1>6. Left(p, r) = Append(Ready(p, r), o)
  BY <1>5, Resolving DEF Left
<1>7. Rooted(Left(p, r)) = Below(Joined(Ready(p, r)), o)
  <2>1. Append(Ready(p, r), o) # <<>>
    BY <1>2, AppendProperties
  <2>2. Joined(Append(Ready(p, r), o)) = Below(Joined(Ready(p, r)), o)
    BY <1>2, JoinedGrows
  <2> QED
    BY <1>6, <2>1, <2>2 DEF Rooted
<1>8. Wrote(Rooted(Left(p, r)))'
  <2>1. PICK t : t = Rooted(Left(p, r))
    OBVIOUS
  <2>2. Wrote(t)'
    BY <1>1, <1>4, <1>7, <2>1, WroteStays
  <2>3. t = Rooted(Left(p, r))'
    BY <1>1, <2>1
  <2> QED
    BY <2>2, <2>3 DEF Wrote
<1>9. EndsInSlash' = EndsInSlash /\ At(r)' = At(r) /\ Partial(p, r)' = Partial(p, r)
  BY <1>1 DEF EndsInSlash, At
<1> QED
  BY <1>1, <1>4, <1>5, <1>8, <1>9 DEF RulesOK, FollowsRules

\* At the end of the path nothing is missing but the slash of a directory.
LEMMA AtEnd ==
  ASSUME IInv, RulesOK, p # <<>>, pc = "loop", r >= n
  PROVE  \E t \in Name :
           /\ Wrote(t) /\ (w > 1 <=> Kept(Elements(p)) # <<>>)
           /\ w > 1 /\ trailing => Canonical(p) = Append(t, "/")
           /\ ~(w > 1 /\ trailing) => Canonical(p) = t
<1>1. /\ p \in Name /\ n \in Nat /\ n > 0 /\ n = Len(p) /\ r = n /\ w \in Nat
      /\ Left(p, n) \in Seq(Name) /\ WellRead(p, n) /\ Partial(p, n) \in Name
      /\ Ready(p, n) \in Seq(Name)
  BY ReadFacts DEF IInv, TypeOK
<1>2. Read(p, n) = Elements(p)
  <2>1. SubSeq(p, 1, n) = p
    BY <1>1 DEF Name
  <2> QED
    BY <2>1 DEF Read
<1> DEFINE K == Left(p, n)
           dir == Last(Elements(p)) = <<".">> \/ (Last(Elements(p)) = <<>> /\ n > 2)
<1>3. Kept(Elements(p)) = K
  BY <1>1, <1>2, ReadOK
<1>4. Wrote(Rooted(K)) /\ Rooted(K) \in Name
  BY <1>1, RootedOK DEF RulesOK
<1>5. trailing <=> dir
  <2>1. Last(Elements(p)) = Partial(p, n)
    BY <1>2 DEF Partial
  <2>2. Partial(p, n) = <<>> <=> At(n - 1) = "/"
    BY <1>1 DEF WellRead, At
  <2>3. trailing <=> EndsInSlash \/ Partial(p, n) = <<".">>
    BY <1>1 DEF RulesOK
  <2> QED
    BY <2>1, <2>2, <2>3 DEF EndsInSlash
<1>6. w > 1 <=> K # <<>>
  <2>1. CASE K = <<>>
    <3>1. Rooted(K) = <<"/">>
      BY <2>1 DEF Rooted
    <3> QED
      BY <1>4, <2>1, <3>1 DEF Wrote
  <2>2. CASE K # <<>>
    <3>1. /\ Front(K) \in Seq(Name) /\ Last(K) \in Name
          /\ K = Append(Front(K), Last(K))
      BY <1>1, <2>2, FrontLast
    <3>2. Plain(Last(K))
      <4>1. \A i \in 1 .. Len(K) : Plain(K[i])
        BY <1>1, ResolvePlain DEF WellRead, Left
      <4> QED
        BY <1>1, <2>2, <4>1 DEF Last
    <3> QED
      BY <1>1, <1>4, <2>2, <3>1, <3>2, LastStarts
  <2> QED
    BY <2>1, <2>2
<1>7. Canonical(p) = IF K = <<>> THEN <<"/">>
                     ELSE Joined(K) \o (IF dir THEN <<"/">> ELSE <<>>)
  BY <1>1, <1>3 DEF Canonical
<1>8. K # <<>> => Rooted(K) = Joined(K)
  BY DEF Rooted
<1>9. \A t \in Name : t \o <<"/">> = Append(t, "/") /\ t \o <<>> = t
  BY PathAssumption DEF Name
<1> HIDE DEF K, dir
<1>10. w > 1 /\ trailing => Canonical(p) = Append(Rooted(K), "/")
  BY <1>4, <1>5, <1>6, <1>7, <1>8, <1>9
<1>11. ~(w > 1 /\ trailing) => Canonical(p) = Rooted(K)
  BY <1>4, <1>5, <1>6, <1>7, <1>8, <1>9 DEF Rooted
<1> QED
  BY <1>3, <1>4, <1>6, <1>10, <1>11

LEMMA SlashFollowsRules ==
  ASSUME IInv, RulesOK, AppendSlash
  PROVE  RulesOK'
<1>1. /\ p' = p /\ p # <<>> /\ pc = "loop" /\ pc' = "return"
      /\ r >= n /\ trailing /\ w > 1 /\ bufApp("/")
  BY StepFacts DEF Next, AppendSlash, WantsSlash
<1>2. PICK t \in Name : Wrote(t) /\ Canonical(p) = Append(t, "/")
  BY <1>1, AtEnd
<1>3. Wrote(Append(t, "/"))'
  BY <1>1, <1>2, WroteMore, PathAssumption DEF IInv
<1>4. Wrote(Canonical(p))'
  <2>1. Append(t, "/") = Canonical(p)'
    BY <1>1, <1>2
  <2> QED
    BY <1>3, <2>1 DEF Wrote
<1> QED
  BY <1>1, <1>4 DEF RulesOK, FollowsRules

\* What is returned is what was written.
LEMMA ReturnFollowsRules ==
  ASSUME IInv, RulesOK, Return
  PROVE  RulesOK'
<1>1. /\ p' = p /\ p # <<>> /\ pc' = "done" /\ w \in Nat /\ w <= Size
      /\ p \in Seq(Byte)
  BY StepFacts DEF Next, Return
<1>2. Wrote(Canonical(p))
  <2>1. CASE pc = "return"
    BY <1>1, <2>1 DEF RulesOK
  <2>2. CASE pc # "return"
    <3>1. pc = "loop" /\ r >= n /\ ~(w > 1 /\ trailing)
      BY <2>2 DEF Return, WantsSlash
    <3> QED
      BY <1>1, <3>1, AtEnd
  <2> QED
    BY <2>1, <2>2
<1> DEFINE s == IF buf = <<>> THEN p ELSE buf
           c == Canonical(p)
<1>3. clean' = SubSeq(s, 1, w)
  BY DEF Return
<1>4. s \in Seq(Byte \cup {Zero}) /\ w <= Len(s)
  <2>1. p \in Seq(Byte \cup {Zero})
    BY <1>1
  <2> QED
    BY <1>1, <2>1 DEF IInv, TypeOK, Size, n
<1>5. \A i \in 1 .. w : s[i] = Out(i - 1)
  BY <1>1 DEF Out, At
<1>6. c \in Seq(Byte \cup {Zero})
  BY <1>1, CanonicalOK DEF Name
<1> HIDE DEF s, c
<1>7. SubSeq(s, 1, w) = c
  BY <1>1, <1>2, <1>4, <1>5, <1>6 DEF Wrote, c
<1> QED
  BY <1>1, <1>3, <1>7 DEF RulesOK, FollowsRules, c

LEMMA RulesInit == Init => RulesOK
<1>1. ASSUME InitEmpty PROVE RulesOK
  <2>1. p = <<>> /\ clean = <<"/">> /\ Len(p) = 0
    BY <1>1 DEF InitEmpty
  <2>2. Elements(<<>>) = <<<<>>>> /\ Kept(<<>>) = <<>>
    BY ElementsGrows, KeptGrows
  <2>3. Kept(<<<<>>>>) = <<>>
    <3>1. <<<<>>>> = Append(<<>>, <<>>) /\ <<>> \in Name /\ <<>> \in Seq(Name)
      BY DEF Name
    <3>2. Kept(Append(<<>>, <<>>)) = Resolve(<<>>, <<>>)
      BY <2>2, <3>1, KeptGrows
    <3> QED
      BY <3>1, <3>2, Resolving
  <2>4. Canonical(<<>>) = <<"/">>
    BY <2>2, <2>3, Zenon DEF Canonical
  <2> QED
    BY <1>1, <2>1, <2>4 DEF RulesOK, FollowsRules
<1>2. ASSUME InitScan PROVE RulesOK
  <2>1. /\ p \in Name /\ p # <<>> /\ n \in Nat /\ n > 0 /\ n = Len(p)
        /\ w = 1 /\ pc = "loop" /\ trailing = EndsInSlash
    BY <1>2, Lengths DEF InitScan, Name, n, EndsInSlash
  <2>2. Ready(p, 0) = <<>> /\ Partial(p, 0) = <<>> /\ Left(p, 0) = <<>>
    BY <2>1, ReadNothing, Resolving DEF Left
  <2>3. Left(p, r) = <<>> /\ Partial(p, r) = <<>>
    <3>1. CASE At(0) = "/"
      <4>1. Ready(p, 1) = <<>> /\ Partial(p, 1) = <<>>
        <5>1. 0 + 1 = 1 /\ 0 \in Nat /\ p[0 + 1] = "/"
          BY <3>1 DEF At
        <5> QED
          BY <2>1, <2>2, <5>1, ReadByte
      <4>2. r = 1
        BY <1>2, <3>1 DEF InitScan
      <4> QED
        BY <4>1, <4>2, Resolving DEF Left
    <3>2. CASE At(0) # "/"
      BY <1>2, <2>2, <3>2 DEF InitScan
    <3> QED
      BY <3>1, <3>2
  <2>4. Out(0) = "/"
    BY <1>2, <2>1 DEF InitScan, Out, RootedBuffer, At
  <2>5. Wrote(Rooted(Left(p, r)))
    <3>1. Rooted(Left(p, r)) = <<"/">> /\ Len(<<"/">>) = 1 /\ <<"/">>[1] = "/"
      BY <2>3 DEF Rooted
    <3>2. \A i \in 1 .. 1 : i = 1 /\ i - 1 = 0
      OBVIOUS
    <3> QED
      BY <2>1, <2>4, <3>1, <3>2 DEF Wrote
  <2>6. <<>> # <<".">>
    OBVIOUS
  <2> QED
    BY <2>1, <2>3, <2>5, <2>6 DEF RulesOK, FollowsRules
<1> QED
  BY <1>1, <1>2 DEF Init

LEMMA RulesStep == IInv /\ RulesOK /\ [Next]_vars => RulesOK'
<1> SUFFICES ASSUME IInv, RulesOK, [Next]_vars PROVE RulesOK'
  OBVIOUS
<1>1. CASE UNCHANGED vars
  <2>1. /\ UNCHANGED <<p, r, w, buf, trailing, pc, clean>>
        /\ \A i : At(i)' = At(i) /\ Out(i)' = Out(i)
    BY <1>1, OutStays DEF vars, At
  <2>2. \A t : Wrote(t) => Wrote(t)'
    BY <2>1 DEF Wrote
  <2>3. \A e : Begun(e) => Begun(e)'
    BY <2>1 DEF Begun, n
  <2>4. EndsInSlash' = EndsInSlash /\ n' = n
    BY <2>1 DEF EndsInSlash, n
  <2> QED
    BY <2>1, <2>2, <2>3, <2>4 DEF RulesOK, FollowsRules, Wrote
<1>2. CASE Next
  BY <1>2, SkipsFollowRules, BacktrackFollowsRules, StartFollowsRules,
     CopyFollowsRules, EndFollowsRules, SlashFollowsRules, ReturnFollowsRules
  DEF Next
<1> QED
  BY <1>1, <1>2

\* The byte-wise scan computes what the rules of cleanPath's comment say of the
\* elements of the path, for paths of any length (utils.go:111-123).
THEOREM RulesFollowed == Spec => []FollowsRules
<1>1. FullInv /\ RulesOK /\ [Next]_vars => RulesOK'
  BY RulesStep DEF FullInv
<1>2. RulesOK => FollowsRules
  BY DEF RulesOK
<1> QED
  BY RulesInit, <1>1, <1>2, Invariance, PTL DEF Spec
=============================================================================
