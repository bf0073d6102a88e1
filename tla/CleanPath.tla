----------------------------- MODULE CleanPath -----------------------------
(***************************************************************************)
(* cleanPath of router/utils.go: the request's path is scanned once, from  *)
(* left to right, and its canonical form is written over it, in a buffer   *)
(* made only when the two first differ.                                    *)
(*                                                                         *)
(* A step is a turn of one of its loops.  Bytes are counted from 0 as in   *)
(* the source; a nil buffer is the empty sequence.  An index out of range  *)
(* disables the step: NoPanic says that none ever is.                      *)
(***************************************************************************)
EXTENDS Naturals, Sequences

CONSTANTS
  Byte,   \* the bytes of paths
  Path    \* the paths to clean

ASSUME PathAssumption == /\ {"/", "."} \subseteq Byte
                         /\ Path \subseteq Seq(Byte)

VARIABLES
  p,         \* the path
  r,         \* the next byte to process
  w,         \* the next byte to write
  buf,       \* the buffer, <<>> until it is made
  trailing,  \* whether a slash is to be written at the end
  pc,        \* "loop", "copy" (an element), "return" or "done"
  clean,     \* the results: the cleaned path
  modified   \* and whether it is another one

vars == <<p, r, w, buf, trailing, pc, clean, modified>>

n == Len(p)
At(i) == p[i + 1]

\* What make leaves in the bytes that are not written yet.
Zero == "NUL"

\* Mutant: the buffer is made as long as the path.
RootedBufferShort == [i \in 1 .. n |-> IF i = 1 THEN "/" ELSE Zero]
\* The buffer of a path that does not begin with a slash.
RootedBuffer == [i \in 1 .. n + 1 |-> IF i = 1 THEN "/" ELSE Zero]

\* The empty path is answered at once.
InitEmpty ==
  /\ p \in Path /\ p = <<>>
  /\ r = 0 /\ w = 0 /\ buf = <<>> /\ trailing = FALSE
  /\ pc = "done" /\ clean = <<"/">> /\ modified = FALSE

InitScan ==
  /\ p \in Path /\ p # <<>>
  /\ r = IF At(0) = "/" THEN 1 ELSE 0
  /\ w = 1
  /\ buf = IF At(0) = "/" THEN <<>> ELSE RootedBuffer
  /\ trailing = (n > 2 /\ At(n - 1) = "/")
  /\ pc = "loop" /\ clean = <<>> /\ modified = FALSE

Init == InitEmpty \/ InitScan

-----------------------------------------------------------------------------
(* The bytes written so far *)

\* How many bytes there is room for, and the k-th of those written.
Size == IF buf = <<>> THEN n ELSE Len(buf)
Out(k) == IF buf = <<>> THEN At(k) ELSE buf[k + 1]

\* bufApp: a byte that is the path's own needs no buffer.
bufApp(c) ==
  /\ w < Size
  /\ buf' = IF buf # <<>> THEN [buf EXCEPT ![w + 1] = c]
            ELSE IF At(w) = c THEN <<>>
            ELSE [i \in 1 .. n |-> IF i <= w THEN p[i]
                                   ELSE IF i = w + 1 THEN c ELSE Zero]
  /\ w' = w + 1

\* The last element written starts at k, its slash included.
StartsAt(k) ==
  /\ k = 1 \/ Out(k) = "/"
  /\ \A j \in k + 1 .. w - 1 : Out(j) # "/"

-----------------------------------------------------------------------------
(* The loop over the path *)

More    == pc = "loop" /\ r < n
LastDot == At(r) = "." /\ r + 1 = n
InnerDot == At(r) = "." /\ r + 1 < n /\ At(r + 1) = "/"
\* Mutant: names that begin with two dots are taken for the parent.
DotDotPrefix == At(r) = "." /\ r + 1 < n /\ At(r + 1) = "."
DotDot  == /\ At(r) = "." /\ r + 1 < n /\ At(r + 1) = "."
           /\ r + 2 < n => At(r + 2) = "/"

SkipSlash ==
  /\ More /\ At(r) = "/"
  /\ r' = r + 1
  /\ UNCHANGED <<p, w, buf, trailing, pc, clean, modified>>

SkipLastDot ==
  /\ More /\ LastDot
  /\ trailing' = TRUE
  /\ r' = r + 1
  /\ UNCHANGED <<p, w, buf, pc, clean, modified>>

SkipDot ==
  /\ More /\ InnerDot
  /\ r' = r + 1
  /\ UNCHANGED <<p, w, buf, trailing, pc, clean, modified>>

Backtrack ==
  /\ More /\ DotDot
  /\ r' = r + 2
  /\ IF w > 1 THEN \E k \in 1 .. w - 1 : StartsAt(k) /\ w' = k ELSE w' = w
  /\ UNCHANGED <<p, buf, trailing, pc, clean, modified>>

StartElement ==
  /\ More /\ At(r) # "/" /\ ~LastDot /\ ~InnerDot /\ ~DotDot
  /\ IF w > 1 THEN bufApp("/") ELSE UNCHANGED <<buf, w>>
  /\ pc' = "copy"
  /\ UNCHANGED <<p, r, trailing, clean, modified>>

InElement == pc = "copy" /\ r < n /\ At(r) # "/"

CopyByte ==
  /\ InElement
  /\ bufApp(At(r))
  /\ r' = r + 1
  /\ UNCHANGED <<p, trailing, pc, clean, modified>>

EndElement ==
  /\ pc = "copy" /\ ~InElement
  /\ pc' = "loop"
  /\ UNCHANGED <<p, r, w, buf, trailing, clean, modified>>

-----------------------------------------------------------------------------
(* The end *)

WantsSlash == pc = "loop" /\ r >= n /\ trailing /\ w > 1

AppendSlash ==
  /\ WantsSlash
  /\ bufApp("/")
  /\ pc' = "return"
  /\ UNCHANGED <<p, r, trailing, clean, modified>>

\* Mutant: a path is told apart by its buffer alone.
ReturnByBuffer ==
  /\ pc = "return" \/ (pc = "loop" /\ r >= n /\ ~WantsSlash)
  /\ w <= Size
  /\ clean' = SubSeq(IF buf = <<>> THEN p ELSE buf, 1, w)
  /\ modified' = (buf # <<>>)
  /\ pc' = "done"
  /\ UNCHANGED <<p, r, w, buf, trailing>>

Return ==
  /\ pc = "return" \/ (pc = "loop" /\ r >= n /\ ~WantsSlash)
  /\ w <= Size
  /\ clean' = SubSeq(IF buf = <<>> THEN p ELSE buf, 1, w)
  /\ modified' = (buf # <<>> \/ w < n)
  /\ pc' = "done"
  /\ UNCHANGED <<p, r, w, buf, trailing>>

Next ==
  \/ SkipSlash \/ SkipLastDot \/ SkipDot \/ Backtrack
  \/ StartElement \/ CopyByte \/ EndElement
  \/ AppendSlash \/ Return

Spec == Init /\ [][Next]_vars

-----------------------------------------------------------------------------
(* Properties *)

TypeOK ==
  /\ p \in Path
  /\ r \in 0 .. n /\ w \in Nat
  /\ buf \in Seq(Byte \cup {Zero})
  /\ trailing \in BOOLEAN /\ modified \in BOOLEAN
  /\ pc \in {"loop", "copy", "return", "done"}
  /\ clean \in Seq(Byte \cup {Zero})

\* Whatever the path, every byte is written inside the path or the buffer
\* (utils.go:190, utils.go:196, utils.go:205) and the result is a slice of it
\* (utils.go:210, utils.go:213): what is written never overtakes what is read,
\* with the slashes that cleanPath adds of its own.
NoPanic ==
  /\ More /\ At(r) # "/" /\ ~LastDot /\ ~InnerDot /\ ~DotDot /\ w > 1
       => w < Size
  /\ InElement => w < Size
  /\ WantsSlash => w < Size
  /\ w <= Size

\* ServeHTTP stores the cleaned path in the request only when it is told that
\* it was modified (router.go:45): that flag is never wrong, although it is
\* derived from the buffer and a length (utils.go:209-213).  The empty path is
\* the exception the code makes.
ModifiedIsExact == pc = "done" /\ p # <<>> => (modified <=> clean # p)
=============================================================================
