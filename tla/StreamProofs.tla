---------------------------- MODULE StreamProofs ----------------------------
(***************************************************************************)
(* Whatever the goroutines of streams go on doing with Contexts that were  *)
(* given back, a request has its Context, the data in it and its gzip      *)
(* writer to itself, and no message that send accepted is lost: for any    *)
(* number of requests, Contexts and writers.                               *)
(***************************************************************************)
EXTENDS Stream, Integers, TLAPS

\* Besides what is claimed, the Contexts in the pool hold no data.
IInv ==
  /\ PoolTypeOK
  /\ HeldAlone
  /\ \A c \in ctxPool : data[c] = {}

-----------------------------------------------------------------------------
LEMMA InitInv == Init => IInv
  BY PoolAssumption DEF Init, PoolInit, IInv, PoolTypeOK, HeldAlone, Holding

LEMMA CommitType ==
  ASSUME PoolTypeOK, NEW r, NEW by \in Requests, Commit(r, by)
  PROVE  header' \in [Requests -> Requests \cup {Nobody}]
  BY DEF PoolTypeOK, Commit

(* Steps that leave the pools and the Contexts alone. *)
LEMMA ProcessInv ==
  ASSUME IInv, UNCHANGED ProcessVars,
         header' \in [Requests -> Requests \cup {Nobody}]
  PROVE  IInv'
  BY DEF IInv, ProcessVars, PoolTypeOK, HeldAlone, Holding, Beneath

LEMMA GetInv ==
  ASSUME IInv, NEW r \in Requests, getCtx(r)
  PROVE  IInv'
  <1>1. PICK c \in ctxPool :
          /\ ctxPool' = ctxPool \ {c}
          /\ ctxOf' = [ctxOf EXCEPT ![r] = c]
          /\ \/ \E g \in Writers : getGzipRW(r, c, g)
             \/ Uncompressed(r, c)
    BY DEF getCtx
  <1>2. /\ phase[r] = "new" /\ phase' = [phase EXCEPT ![r] = "handling"]
        /\ data' = data /\ header' = header
    BY DEF getCtx
  <1>3. PoolTypeOK /\ c \in Contexts /\ data[c] = {}
        /\ \A q \in Requests : Holding(q) =>
             ctxOf[q] \in Contexts \ ctxPool /\ ctxOf[q] # c
    BY <1>1 DEF IInv, PoolTypeOK, HeldAlone
  <1>4. /\ ctxOf'[r] = c
        /\ \A q \in Requests \ {r} : ctxOf'[q] = ctxOf[q] /\ phase'[q] = phase[q]
        /\ phase'[r] = "handling"
        /\ phase' \in [Requests -> {"new", "handling", "resetting", "returned",
                                    "finished"}]
        /\ ctxOf' \in [Requests -> Contexts \cup {Nobody}]
        /\ ctxPool' \in SUBSET Contexts
    BY <1>1, <1>2, <1>3 DEF PoolTypeOK
  <1> DEFINE PointsTo(w) ==
          /\ dest' = [dest EXCEPT ![c] = w]
          /\ w \notin gzPool' /\ gzPool' \subseteq gzPool
          /\ (IF w \in Writers THEN target'[w] ELSE w) = r
          /\ \A g \in Writers \ {w} : target'[g] = target[g]
          /\ \A q \in Requests \ {r} : phase[q] = "handling" => dest[ctxOf[q]] # w
          /\ target' \in [Writers -> Requests \cup {Nobody}]
  <1>5. \E w \in Writers \cup Requests : PointsTo(w)
    <2>1. ASSUME NEW g \in Writers, getGzipRW(r, c, g)
          PROVE  \E w \in Writers \cup Requests : PointsTo(w)
      <3>1. \A q \in Requests \ {r} : phase[q] = "handling" => dest[ctxOf[q]] # g
        BY <2>1 DEF getGzipRW, IInv, HeldAlone, Holding
      <3>2. /\ dest' = [dest EXCEPT ![c] = g]
            /\ gzPool' = gzPool \ {g}
            /\ target' = [target EXCEPT ![g] = r]
        BY <2>1 DEF getGzipRW
      <3>3. PointsTo(g)  BY <1>3, <3>1, <3>2 DEF PoolTypeOK
      <3> QED  BY <3>3
    <2>2. ASSUME Uncompressed(r, c)  PROVE  \E w \in Writers \cup Requests : PointsTo(w)
      <3>1. \A q \in Requests \ {r} : phase[q] = "handling" => dest[ctxOf[q]] # r
        BY PoolAssumption DEF IInv, HeldAlone, Holding, Beneath
      <3>2. dest' = [dest EXCEPT ![c] = r] /\ gzPool' = gzPool /\ target' = target
        BY <2>2 DEF Uncompressed
      <3>3. PointsTo(r)  BY <1>3, <3>1, <3>2, PoolAssumption DEF PoolTypeOK
      <3> QED  BY <3>3
    <2> QED  BY <1>1, <2>1, <2>2
  <1>6. PICK w \in Writers \cup Requests : PointsTo(w)
    BY <1>5
  <1>7. /\ dest'[c] = w /\ \A d \in Contexts \ {c} : dest'[d] = dest[d]
        /\ dest' \in [Contexts -> Requests \cup Writers \cup {Nobody}]
    BY <1>3, <1>6 DEF PoolTypeOK
  <1>8. PoolTypeOK'
    BY <1>2, <1>3, <1>4, <1>6, <1>7 DEF PoolTypeOK
  <1>9. HeldAlone'
    <2> SUFFICES ASSUME NEW q \in Requests, Holding(q)'
        PROVE /\ ctxOf'[q] \in Contexts \ ctxPool'
              /\ data'[ctxOf'[q]] \subseteq {q}
              /\ \A p \in Requests \ {q} : Holding(p)' => ctxOf'[p] # ctxOf'[q]
              /\ phase'[q] = "handling" =>
                   /\ Beneath(dest[ctxOf[q]])' = q
                   /\ dest'[ctxOf'[q]] \notin gzPool'
                   /\ \A p \in Requests \ {q} : phase'[p] = "handling" =>
                        dest'[ctxOf'[p]] # dest'[ctxOf'[q]]
      BY DEF HeldAlone
    <2>1. \A p \in Requests \ {r} : Holding(p)' => Holding(p)
      BY <1>4 DEF Holding
    <2>2. \A p \in Requests \ {r} : Holding(p)' =>
            /\ ctxOf'[p] = ctxOf[p] /\ ctxOf[p] # c
            /\ ctxOf[p] \in Contexts \ ctxPool
            /\ dest'[ctxOf'[p]] = dest[ctxOf[p]]
      BY <1>3, <1>4, <1>7, <2>1
    <2>3. CASE q = r
      BY <1>1, <1>2, <1>3, <1>4, <1>6, <1>7, <2>1, <2>2, <2>3
         DEF Beneath, Holding
    <2>4. CASE q # r
      <3>1. /\ Holding(q) /\ ctxOf'[q] = ctxOf[q] /\ phase'[q] = phase[q]
            /\ ctxOf[q] \in Contexts \ ctxPool /\ ctxOf[q] # c
            /\ dest'[ctxOf'[q]] = dest[ctxOf[q]]
        BY <1>4, <2>1, <2>2, <2>4
      <3>2. /\ data[ctxOf[q]] \subseteq {q}
            /\ \A p \in Requests \ {q} : Holding(p) => ctxOf[p] # ctxOf[q]
            /\ phase[q] = "handling" =>
                 /\ Beneath(dest[ctxOf[q]]) = q
                 /\ dest[ctxOf[q]] \notin gzPool
                 /\ \A p \in Requests \ {q} : phase[p] = "handling" =>
                      dest[ctxOf[p]] # dest[ctxOf[q]]
        BY <3>1 DEF IInv, HeldAlone
      <3>3. ctxOf'[q] \in Contexts \ ctxPool' /\ data'[ctxOf'[q]] \subseteq {q}
        BY <1>1, <1>2, <3>1, <3>2
      <3>4. \A p \in Requests \ {q} : Holding(p)' => ctxOf'[p] # ctxOf'[q]
        BY <1>4, <2>1, <2>2, <3>1, <3>2
      <3>5. ASSUME phase'[q] = "handling"
            PROVE /\ Beneath(dest[ctxOf[q]])' = q
                  /\ dest'[ctxOf'[q]] \notin gzPool'
                  /\ \A p \in Requests \ {q} : phase'[p] = "handling" =>
                       dest'[ctxOf'[p]] # dest'[ctxOf'[q]]
        <4>1. dest[ctxOf[q]] # w  BY <1>6, <2>4, <3>1, <3>5
        <4>2. Beneath(dest[ctxOf[q]])' = q
          BY <1>6, <3>1, <3>2, <3>5, <4>1 DEF Beneath
        <4>3. \A p \in Requests \ {q} : phase'[p] = "handling" =>
                dest'[ctxOf'[p]] # dest'[ctxOf'[q]]
          <5> SUFFICES ASSUME NEW p \in Requests \ {q}, phase'[p] = "handling"
              PROVE dest'[ctxOf'[p]] # dest'[ctxOf'[q]]
            OBVIOUS
          <5>1. CASE p = r  BY <1>4, <1>7, <3>1, <4>1, <5>1
          <5>2. CASE p # r
            BY <1>4, <2>2, <3>1, <3>2, <3>5, <5>2 DEF Holding
          <5> QED  BY <5>1, <5>2
        <4> QED  BY <1>6, <3>1, <3>2, <3>5, <4>2, <4>3
      <3> QED  BY <3>3, <3>4, <3>5
    <2> QED  BY <2>3, <2>4
  <1>10. \A d \in ctxPool' : data'[d] = {}
    BY <1>1, <1>2 DEF IInv
  <1> QED  BY <1>8, <1>9, <1>10 DEF IInv

LEMMA SetInv ==
  ASSUME IInv, NEW r \in Requests, Set(r)
  PROVE  IInv'
  <1>1. /\ phase[r] = "handling" /\ data' = [data EXCEPT ![ctxOf[r]] = @ \cup {r}]
        /\ phase' = phase /\ ctxOf' = ctxOf /\ dest' = dest /\ target' = target
        /\ ctxPool' = ctxPool /\ gzPool' = gzPool /\ header' = header
    BY DEF Set
  <1>2. /\ ctxOf[r] \in Contexts \ ctxPool /\ data[ctxOf[r]] \subseteq {r}
        /\ \A q \in Requests \ {r} : Holding(q) => ctxOf[q] # ctxOf[r]
    BY <1>1 DEF IInv, HeldAlone, Holding
  <1>3. /\ data' \in [Contexts -> SUBSET Requests]
        /\ data'[ctxOf[r]] = data[ctxOf[r]] \cup {r}
        /\ \A d \in Contexts \ {ctxOf[r]} : data'[d] = data[d]
    BY <1>1, <1>2 DEF IInv, PoolTypeOK
  <1>4. PoolTypeOK'  BY <1>1, <1>3 DEF IInv, PoolTypeOK
  <1>5. \A d \in ctxPool' : data'[d] = {}
    BY <1>1, <1>2, <1>3 DEF IInv, PoolTypeOK
  <1>6. \A q \in Requests : Holding(q) => data'[ctxOf[q]] \subseteq {q}
    BY <1>2, <1>3 DEF IInv, HeldAlone
  <1>7. HeldAlone'
    BY <1>1, <1>6 DEF IInv, HeldAlone, Holding, Beneath
  <1> QED  BY <1>4, <1>5, <1>7 DEF IInv

LEMMA ResetInv ==
  ASSUME IInv, NEW r \in Requests, ResetWriter(r)
  PROVE  IInv'
  <1> DEFINE g == dest[ctxOf[r]]
  <1>1. /\ phase[r] = "handling" /\ g \in Writers
        /\ gzPool' = gzPool \cup {g}
        /\ phase' = [phase EXCEPT ![r] = "resetting"]
        /\ ctxOf' = ctxOf /\ dest' = dest /\ target' = target
        /\ data' = data /\ ctxPool' = ctxPool
    BY DEF ResetWriter, Gzipped
  <1>2. PoolTypeOK  BY DEF IInv
  <1>3. header' \in [Requests -> Requests \cup {Nobody}]
    BY <1>2, CommitType DEF ResetWriter
  <1>4. /\ phase'[r] = "resetting"
        /\ \A q \in Requests \ {r} : phase'[q] = phase[q]
        /\ \A q \in Requests : Holding(q)' <=> Holding(q)
    BY <1>1, <1>2 DEF PoolTypeOK, Holding
  <1>5. PoolTypeOK'  BY <1>1, <1>2, <1>3 DEF PoolTypeOK
  <1>6. \A q \in Requests \ {r} : phase[q] = "handling" => dest[ctxOf[q]] # g
    BY <1>1 DEF IInv, HeldAlone, Holding
  <1>7. HeldAlone'
    <2> SUFFICES ASSUME NEW q \in Requests, Holding(q)
        PROVE /\ ctxOf[q] \in Contexts \ ctxPool
              /\ data[ctxOf[q]] \subseteq {q}
              /\ \A p \in Requests \ {q} : Holding(p) => ctxOf[p] # ctxOf[q]
              /\ phase'[q] = "handling" =>
                   /\ Beneath(dest[ctxOf[q]]) = q
                   /\ dest[ctxOf[q]] \notin gzPool \cup {g}
                   /\ \A p \in Requests \ {q} : phase'[p] = "handling" =>
                        dest[ctxOf[p]] # dest[ctxOf[q]]
      BY <1>1, <1>4, Zenon DEF HeldAlone, Beneath
    <2> QED  BY <1>4, <1>6 DEF IInv, HeldAlone
  <1> QED  BY <1>1, <1>5, <1>7 DEF IInv

LEMMA PutInv ==
  ASSUME IInv, NEW r \in Requests, putCtx(r)
  PROVE  IInv'
  <1> DEFINE c == ctxOf[r]
  <1>1. /\ Holding(r) /\ phase' = [phase EXCEPT ![r] = "returned"]
        /\ dest' = [dest EXCEPT ![c] = Nobody]
        /\ data' = [data EXCEPT ![c] = {}]
        /\ ctxPool' = ctxPool \cup {c}
        /\ ctxOf' = ctxOf /\ target' = target /\ gzPool' = gzPool
        /\ header' = header
    BY DEF putCtx, Release, Holding
  <1>2. PoolTypeOK  BY DEF IInv
  <1>3. /\ c \in Contexts
        /\ \A q \in Requests \ {r} : Holding(q) => ctxOf[q] # c
    BY <1>1 DEF IInv, HeldAlone
  <1>4. /\ phase'[r] = "returned"
        /\ \A q \in Requests \ {r} : phase'[q] = phase[q]
        /\ data'[c] = {}
        /\ \A d \in Contexts \ {c} : dest'[d] = dest[d] /\ data'[d] = data[d]
    BY <1>1, <1>2, <1>3 DEF PoolTypeOK
  <1>5. PoolTypeOK'  BY <1>1, <1>2, <1>3 DEF PoolTypeOK
  <1>6. \A d \in ctxPool' : data'[d] = {}
    BY <1>1, <1>2, <1>3, <1>4 DEF IInv, PoolTypeOK
  <1>7. ~Holding(r)' /\ \A q \in Requests \ {r} : Holding(q)' <=> Holding(q)
    BY <1>4 DEF Holding
  <1>8. \A q \in Requests \ {r} : Holding(q) =>
          /\ ctxOf[q] \in Contexts \ ctxPool' /\ ctxOf[q] # c
          /\ dest'[ctxOf[q]] = dest[ctxOf[q]] /\ data'[ctxOf[q]] = data[ctxOf[q]]
    BY <1>1, <1>3, <1>4 DEF IInv, HeldAlone
  <1>9. HeldAlone'
    <2> SUFFICES ASSUME NEW q \in Requests \ {r}, Holding(q)
        PROVE /\ ctxOf[q] \in Contexts \ ctxPool'
              /\ data'[ctxOf[q]] \subseteq {q}
              /\ \A p \in Requests \ {q} : Holding(p)' => ctxOf[p] # ctxOf[q]
              /\ phase'[q] = "handling" =>
                   /\ Beneath(dest[ctxOf[q]])' = q
                   /\ dest'[ctxOf[q]] \notin gzPool
                   /\ \A p \in Requests \ {q} : phase'[p] = "handling" =>
                        dest'[ctxOf[p]] # dest'[ctxOf[q]]
      BY <1>1, <1>7 DEF HeldAlone
    <2>1. \A p \in Requests : phase'[p] = "handling" =>
            p # r /\ phase[p] = "handling" /\ Holding(p)
      BY <1>4 DEF Holding
    <2>2. phase'[q] = "handling" => Beneath(dest[ctxOf[q]])' = q
      BY <1>1, <1>8, <2>1 DEF IInv, HeldAlone, Beneath
    <2> QED  BY <1>4, <1>7, <1>8, <2>1, <2>2 DEF IInv, HeldAlone
  <1> QED  BY <1>5, <1>6, <1>9 DEF IInv

LEMMA FinishInv ==
  ASSUME IInv, NEW r \in Requests, Finish(r)
  PROVE  IInv'
  <1>1. /\ phase[r] = "returned" /\ phase' = [phase EXCEPT ![r] = "finished"]
        /\ UNCHANGED <<ctxOf, dest, target, data, ctxPool, gzPool>>
    BY DEF Finish
  <1>2. PoolTypeOK  BY DEF IInv
  <1>3. header' \in [Requests -> Requests \cup {Nobody}]
    BY <1>2, CommitType DEF Finish
  <1>4. /\ phase'[r] = "finished"
        /\ \A q \in Requests \ {r} : phase'[q] = phase[q]
        /\ \A q \in Requests : Holding(q)' <=> Holding(q)
        /\ \A q \in Requests : phase'[q] = "handling" <=> phase[q] = "handling"
    BY <1>1, <1>2 DEF PoolTypeOK, Holding
  <1>5. PoolTypeOK'  BY <1>1, <1>2, <1>3 DEF PoolTypeOK
  <1>6. HeldAlone'
    BY <1>1, <1>4 DEF IInv, HeldAlone, Beneath
  <1> QED  BY <1>1, <1>5, <1>6 DEF IInv

-----------------------------------------------------------------------------
LEMMA StepInv == IInv /\ [Next]_vars => IInv'
  <1> SUFFICES ASSUME IInv, [Next]_vars PROVE IInv'  OBVIOUS
  <1>0. PoolTypeOK /\ header \in [Requests -> Requests \cup {Nobody}]
    BY DEF IInv, PoolTypeOK
  <1>1. CASE UNCHANGED vars
    BY <1>0, <1>1, ProcessInv DEF vars, poolVars, ProcessVars
  <1>2. CASE Next
    <2>1. CASE Pool
      <3>1. PICK r \in Requests :
              \/ getCtx(r) \/ Set(r) \/ Respond(r) \/ ResetWriter(r) \/ putCtx(r)
              \/ Finish(r)
        BY <2>1 DEF Pool
      <3>2. CASE Respond(r)
        BY <1>0, <3>2, CommitType, ProcessInv DEF Respond, ProcessVars
      <3> QED  BY <3>1, <3>2, GetInv, SetInv, ResetInv, PutInv, FinishInv
    <2>2. ASSUME NEW r \in Requests, NewStream(r) \/ Send(r) \/ Cancel(r)
          PROVE IInv'
      BY <1>0, <2>2, ProcessInv
         DEF NewStream, Send, Cancel, poolVars, ProcessVars
    <2>3. ASSUME NEW r \in Requests, Process(r)  PROVE IInv'
      <3>1. CASE StartProcess(r)
        BY <1>0, <3>1, CommitType, ProcessInv DEF StartProcess, ProcessVars
      <3>2. CASE WriteMessage(r)
        BY <1>0, <3>2, CommitType, ProcessInv DEF WriteMessage, ProcessVars
      <3>3. CASE TakeMessage(r) \/ FailWrite(r) \/ Crash(r) \/ EndProcess(r)
        BY <1>0, <3>3, ProcessInv
           DEF TakeMessage, FailWrite, Crash, EndProcess, poolVars, ProcessVars
      <3> QED  BY <2>3, <3>1, <3>2, <3>3 DEF Process
    <2> QED  BY <1>2, <2>1, <2>2, <2>3 DEF Next, Step
  <1> QED  BY <1>1, <1>2

\* IInv is an invariant of the streams and the pools.
THEOREM Invariance == Spec => []IInv
  <1> QED  BY InitInv, StepInv, PTL DEF Spec

\* While its handlers run a request's Context, data and gzip writer are its own
\* (ctx.go:487-530, compression.go:27-33,70-73).
THEOREM ContextsAreOwned == Spec => []HeldAlone
  <1>1. IInv => HeldAlone  BY DEF IInv
  <1> QED  BY <1>1, Invariance, PTL

-----------------------------------------------------------------------------
(* Where the messages of streams end up *)

StreamTypes ==
  /\ wch \in [Requests -> Seq(Nat)]
  /\ proc \in [Requests -> {"none", "starting", "waiting", "writing", "ended"}]
  /\ taken \in [Requests -> Nat]
  /\ accepted \in [Requests -> Nat]
  /\ out \in [Requests -> Seq(Requests \X Nat)]

\* Only a request that got its Context has a stream.
StreamsHaveContexts ==
  \A r \in Requests : proc[r] # "none" => phase[r] # "new"

\* No request goes back to having none.
LEMMA PhaseMonotone ==
  ASSUME PoolTypeOK, [Next]_vars, NEW r \in Requests, phase[r] # "new"
  PROVE  phase'[r] # "new"
<1>1. CASE UNCHANGED phase
  BY <1>1
<1>2. ASSUME NEW q \in Requests,
             \E p \in {"handling", "resetting", "returned", "finished"} :
               phase' = [phase EXCEPT ![q] = p]
      PROVE  phase'[r] # "new"
  BY <1>2 DEF PoolTypeOK
<1> QED
  BY <1>1, <1>2
  DEF Next, Step, Pool, getCtx, Set, Respond, ResetWriter, putCtx, Finish,
      NewStream, Send, Process, StartProcess, TakeMessage, WriteMessage,
      FailWrite, Crash, EndProcess, Cancel, ProcessVars, poolVars, vars

LEMMA StreamTypesStep ==
  ASSUME StreamTypes, PoolTypeOK, [Next]_vars
  PROVE  StreamTypes'
<1> USE DEF StreamTypes
<1>1. CASE UNCHANGED vars \/ Pool
  BY <1>1 DEF vars, streamVars, Pool
<1>2. ASSUME NEW r \in Requests, NewStream(r) \/ Cancel(r) PROVE StreamTypes'
  BY <1>2 DEF NewStream, Cancel
<1>3. ASSUME NEW r \in Requests, Send(r) PROVE StreamTypes'
  <2>1. /\ wch' = [wch EXCEPT ![r] = Append(wch[r], accepted[r] + 1)]
        /\ accepted' = [accepted EXCEPT ![r] = accepted[r] + 1]
        /\ UNCHANGED <<proc, taken, out>>
    BY <1>3 DEF Send
  <2>2. accepted[r] + 1 \in Nat
    OBVIOUS
  <2>3. Append(wch[r], accepted[r] + 1) \in Seq(Nat)
    BY <2>2
  <2> QED
    BY <2>1, <2>2, <2>3
<1>4. ASSUME NEW r \in Requests, TakeMessage(r) PROVE StreamTypes'
  <2>1. Head(wch[r]) \in Nat /\ Tail(wch[r]) \in Seq(Nat)
    BY <1>4 DEF TakeMessage
  <2> QED
    BY <1>4, <2>1 DEF TakeMessage
<1>5. ASSUME NEW r \in Requests, WriteMessage(r) PROVE StreamTypes'
  <2> DEFINE to == Beneath(dest[ctxOf[r]])
  <2>1. /\ out' = [out EXCEPT ![to] = Append(@, <<r, taken[r]>>)]
        /\ taken' = [taken EXCEPT ![r] = 0]
        /\ proc' = [proc EXCEPT ![r] = "waiting"]
        /\ UNCHANGED <<wch, accepted>>
    BY <1>5 DEF WriteMessage
  <2> HIDE DEF to
  <2>2. <<r, taken[r]>> \in Requests \X Nat
    OBVIOUS
  <2>3. \A q \in Requests : Append(out[q], <<r, taken[r]>>) \in Seq(Requests \X Nat)
    BY <2>2
  <2>4. out' \in [Requests -> Seq(Requests \X Nat)]
    BY <2>1, <2>3
  <2> QED
    BY <2>1, <2>4
<1>6. ASSUME NEW r \in Requests,
             StartProcess(r) \/ FailWrite(r) \/ Crash(r) \/ EndProcess(r)
      PROVE  StreamTypes'
  <2>1. UNCHANGED <<wch, accepted, out>>
    BY <1>6 DEF StartProcess, FailWrite, Crash, EndProcess
  <2>2. CASE StartProcess(r)
    BY <2>1, <2>2 DEF StartProcess
  <2>3. CASE FailWrite(r)
    BY <2>1, <2>3 DEF FailWrite
  <2>4. CASE Crash(r) \/ EndProcess(r)
    BY <2>1, <2>4 DEF Crash, EndProcess
  <2> QED
    BY <1>6, <2>2, <2>3, <2>4
<1> QED
  BY <1>1, <1>2, <1>3, <1>4, <1>5, <1>6 DEF Next, Step, Process

LEMMA StreamsHaveContextsStep ==
  ASSUME StreamTypes, StreamsHaveContexts, PoolTypeOK, [Next]_vars
  PROVE  StreamsHaveContexts'
<1> SUFFICES ASSUME NEW r \in Requests, proc'[r] # "none"
             PROVE  phase'[r] # "new"
  BY DEF StreamsHaveContexts
<1>1. CASE proc[r] # "none"
  BY <1>1, PhaseMonotone DEF StreamsHaveContexts
<1>2. CASE proc[r] = "none"
  <2>1. PICK q \in Requests : NewStream(q) \/ Process(q)
    BY <1>2 DEF Next, Step, Pool, Send, Cancel, vars, streamVars
  <2>2. q = r /\ NewStream(r)
    BY <1>2, <2>1 DEF NewStream, Process, StartProcess, TakeMessage,
       WriteMessage, FailWrite, Crash, EndProcess, StreamTypes
  <2> QED
    BY <2>2, PhaseMonotone DEF NewStream
<1> QED
  BY <1>1, <1>2

\* A request whose handler runs writes to its own connection.
LEMMA OwnConnection ==
  ASSUME IInv, NEW r \in Requests, phase[r] = "handling"
  PROVE  dest[ctxOf[r]] # Nobody /\ Beneath(dest[ctxOf[r]]) = r
BY PoolAssumption DEF IInv, HeldAlone, Holding, Beneath

\* A header sent for r on r's own connection is no stray.
LEMMA OwnHeader ==
  ASSUME PoolTypeOK, NEW r \in Requests, Commit(r, r)
  PROVE  \A q \in Requests : header'[q] # header[q] => header'[q] = q
BY DEF PoolTypeOK, Commit

StraysStep ==
  (\A r \in Requests : ~Outlives(r)) =>
    /\ ~crashed'
    /\ \A r \in Requests :
         /\ out'[r] # out[r] => Last(out'[r])[1] = r
         /\ header'[r] # header[r] => header'[r] = r

LEMMA NoStray ==
  ASSUME IInv, StreamTypes, StreamsHaveContexts, Next
  PROVE  StraysStep
<1> SUFFICES ASSUME \A r \in Requests : ~Outlives(r)
             PROVE  /\ ~crashed'
                    /\ \A r \in Requests :
                         /\ out'[r] # out[r] => Last(out'[r])[1] = r
                         /\ header'[r] # header[r] => header'[r] = r
  BY DEF StraysStep
<1>0. PoolTypeOK /\ ~crashed
  BY DEF IInv, Next
<1>1. \A r \in Requests :
        proc[r] \in {"starting", "waiting", "writing"} => phase[r] = "handling"
  BY <1>0 DEF StreamsHaveContexts, Outlives, PoolTypeOK
<1>2. CASE Pool
  <2>1. crashed' = crashed /\ out' = out
    BY <1>2 DEF Pool, streamVars
  <2>2. PICK r \in Requests :
          \/ getCtx(r) \/ Set(r) \/ Respond(r) \/ ResetWriter(r) \/ putCtx(r)
          \/ Finish(r)
    BY <1>2 DEF Pool
  <2>3. CASE Respond(r)
    BY <1>0, <2>1, <2>3, OwnConnection, OwnHeader DEF Respond
  <2>4. CASE ResetWriter(r)
    <3>1. target[dest[ctxOf[r]]] = r
      BY <2>4, OwnConnection DEF ResetWriter, Gzipped, Beneath
    <3> QED
      BY <1>0, <2>1, <2>4, <3>1, OwnHeader DEF ResetWriter
  <2>5. CASE Finish(r)
    BY <1>0, <2>1, <2>5, OwnHeader DEF Finish
  <2>6. CASE getCtx(r) \/ Set(r) \/ putCtx(r)
    BY <1>0, <2>1, <2>6 DEF getCtx, Set, putCtx
  <2> QED
    BY <2>2, <2>3, <2>4, <2>5, <2>6
<1>3. ASSUME NEW r \in Requests, NewStream(r) \/ Send(r) \/ Cancel(r)
      PROVE  crashed' = crashed /\ out' = out /\ header' = header
  BY <1>3 DEF NewStream, Send, Cancel, poolVars
<1>4. ASSUME NEW r \in Requests, StartProcess(r)
      PROVE  /\ crashed' = crashed /\ out' = out
             /\ \A q \in Requests : header'[q] # header[q] => header'[q] = q
  <2>1. phase[r] = "handling"
    BY <1>1, <1>4 DEF StartProcess
  <2> QED
    BY <1>0, <1>4, <2>1, OwnConnection, OwnHeader DEF StartProcess
<1>5. ASSUME NEW r \in Requests, WriteMessage(r)
      PROVE  /\ crashed' = crashed
             /\ \A q \in Requests : out'[q] # out[q] => Last(out'[q])[1] = q
             /\ \A q \in Requests : header'[q] # header[q] => header'[q] = q
  <2>1. phase[r] = "handling"
    BY <1>1, <1>5 DEF WriteMessage
  <2>2. Beneath(dest[ctxOf[r]]) = r
    BY <2>1, OwnConnection
  <2>3. /\ out' = [out EXCEPT ![r] = Append(out[r], <<r, taken[r]>>)]
        /\ Commit(r, r) /\ crashed' = crashed
    BY <1>5, <2>2 DEF WriteMessage
  <2>4. /\ out[r] \in Seq(Requests \X Nat) /\ <<r, taken[r]>> \in Requests \X Nat
        /\ out'[r] = Append(out[r], <<r, taken[r]>>)
        /\ \A q \in Requests \ {r} : out'[q] = out[q]
    BY <2>3 DEF StreamTypes
  <2>5. Last(out'[r]) = <<r, taken[r]>>
    BY <2>4 DEF Last
  <2>6. Last(out'[r])[1] = r
    BY <2>5
  <2>7. \A q \in Requests : header'[q] # header[q] => header'[q] = q
    BY <1>0, <2>3, OwnHeader
  <2> QED
    BY <2>3, <2>4, <2>6, <2>7
<1>6. ASSUME NEW r \in Requests, TakeMessage(r) \/ FailWrite(r) \/ EndProcess(r)
      PROVE  crashed' = crashed /\ out' = out /\ header' = header
  BY <1>6 DEF TakeMessage, FailWrite, EndProcess, poolVars
<1>7. ASSUME NEW r \in Requests, Crash(r) PROVE FALSE
  <2>1. phase[r] = "handling"
    BY <1>1, <1>7 DEF Crash
  <2> QED
    BY <1>7, <2>1, OwnConnection DEF Crash
<1> QED
  BY <1>0, <1>2, <1>3, <1>4, <1>5, <1>6, <1>7 DEF Next, Step, Process

\* As long as no goroutine outlives its handler, whatever a stream sends goes
\* to its own connection, no header is sent on another's behalf and no write
\* panics, for any number of requests, Contexts and writers, any buffer and any
\* number of messages (stream.go:44, ctx.go:43).
THEOREM StraysOnlyOutlivedHolds == Spec => StraysOnlyOutlived
<1>1. Init => StreamTypes /\ StreamsHaveContexts
  BY DEF Init, StreamTypes, StreamsHaveContexts
<1>2. IInv => PoolTypeOK
  BY DEF IInv
<1>3. /\ StreamTypes /\ StreamsHaveContexts /\ PoolTypeOK /\ [Next]_vars
      => StreamTypes' /\ StreamsHaveContexts'
  BY StreamTypesStep, StreamsHaveContextsStep
<1>4. /\ IInv /\ StreamTypes /\ StreamsHaveContexts /\ [Next]_vars
      => [(\A r \in Requests : ~Outlives(r)) =>
            /\ ~crashed'
            /\ \A r \in Requests :
                 /\ out'[r] # out[r] => Last(out'[r])[1] = r
                 /\ header'[r] # header[r] => header'[r] = r]_vars
  BY NoStray DEF StraysStep
<1> QED
  BY <1>1, <1>2, <1>3, <1>4, Invariance, PTL DEF Spec, StraysOnlyOutlived

-----------------------------------------------------------------------------
(* What becomes of the messages that send accepted *)

\* A Context that was handed out stays known, and what it writes to is a
\* connection, or a gzip writer that was pointed at one.
LinksOK ==
  /\ \A r \in Requests : phase[r] # "new" => ctxOf[r] \in Contexts
  /\ \A c \in Contexts : dest[c] \in Writers => target[dest[c]] \in Requests

\* How many of its messages the goroutine of r took, and how many it is done
\* with.
Took(r)  == accepted[r] - Len(wch[r])
Done(r)  == IF proc[r] = "writing" THEN Took(r) - 1 ELSE Took(r)

\* The buffer holds the messages accepted last, in order, and the goroutine the
\* one before these.
BufferOK ==
  \A r \in Requests :
    /\ Len(wch[r]) <= accepted[r]
    /\ \A i \in 1..Len(wch[r]) : wch[r][i] = Took(r) + i
    /\ IF proc[r] = "writing" THEN taken[r] = Took(r) /\ taken[r] > 0
                              ELSE taken[r] = 0

\* Connections have got the messages that the goroutines are done with, those of
\* a stream in order and none twice; none is missing while the goroutine runs.
OutOK ==
  /\ \A c \in Requests : \A i \in 1..Len(out[c]) :
       out[c][i][2] \in 1..Done(out[c][i][1])
  /\ \A c \in Requests : \A i, j \in 1..Len(out[c]) :
       i < j /\ out[c][i][1] = out[c][j][1] => out[c][i][2] < out[c][j][2]
  /\ \A c, d \in Requests : \A i \in 1..Len(out[c]), j \in 1..Len(out[d]) :
       out[c][i] = out[d][j] => c = d
  /\ \A r \in Requests : proc[r] # "ended" =>
       \A m \in 1..Done(r) : \E c \in Requests : Wrote(c, r, m)

LEMMA LinksStep ==
  ASSUME PoolTypeOK, LinksOK, [Next]_vars
  PROVE  LinksOK'
<1> USE DEF PoolTypeOK, LinksOK
<1>1. CASE UNCHANGED <<phase, ctxOf, dest, target>>
  BY <1>1
<1>2. ASSUME NEW r \in Requests, getCtx(r) PROVE LinksOK'
  <2>1. PICK c \in ctxPool :
          /\ ctxOf' = [ctxOf EXCEPT ![r] = c]
          /\ \/ \E g \in Writers : getGzipRW(r, c, g)
             \/ Uncompressed(r, c)
    BY <1>2 DEF getCtx
  <2>2. /\ phase' = [phase EXCEPT ![r] = "handling"]
        /\ c \in Contexts
    BY <1>2 DEF getCtx
  <2>3. \A q \in Requests : phase'[q] # "new" => ctxOf'[q] \in Contexts
    BY <2>1, <2>2
  <2>4. ASSUME NEW g \in Writers, getGzipRW(r, c, g)
        PROVE  \A d \in Contexts : dest'[d] \in Writers => target'[dest'[d]] \in Requests
    BY <2>2, <2>4 DEF getGzipRW
  <2>5. ASSUME Uncompressed(r, c)
        PROVE  \A d \in Contexts : dest'[d] \in Writers => target'[dest'[d]] \in Requests
    BY <2>2, <2>5, PoolAssumption DEF Uncompressed
  <2> QED
    BY <2>1, <2>3, <2>4, <2>5
<1>3. ASSUME NEW r \in Requests, putCtx(r) PROVE LinksOK'
  <2>1. /\ dest' = [dest EXCEPT ![ctxOf[r]] = Nobody]
        /\ phase' = [phase EXCEPT ![r] = "returned"]
        /\ UNCHANGED <<ctxOf, target>>
        /\ phase[r] # "new"
    BY <1>3 DEF putCtx, Release
  <2> QED
    BY <2>1, PoolAssumption
<1>4. ASSUME NEW r \in Requests, ResetWriter(r) \/ Finish(r) PROVE LinksOK'
  <2>1. /\ \E p \in {"resetting", "finished"} : phase' = [phase EXCEPT ![r] = p]
        /\ UNCHANGED <<ctxOf, dest, target>>
        /\ phase[r] # "new"
    BY <1>4 DEF ResetWriter, Finish
  <2> QED
    BY <2>1
<1>5. [Next]_vars =>
        \/ UNCHANGED <<phase, ctxOf, dest, target>>
        \/ \E r \in Requests : getCtx(r) \/ putCtx(r) \/ ResetWriter(r) \/ Finish(r)
  BY DEF Next, Step, Pool, Set, Respond, NewStream, Send, Process, StartProcess,
         TakeMessage, WriteMessage, FailWrite, Crash, EndProcess, Cancel,
         ProcessVars, poolVars, vars
<1> QED
  BY <1>1, <1>2, <1>3, <1>4, <1>5

\* How far a goroutine is, in numbers.
LEMMA Counts ==
  ASSUME StreamTypes, NEW r \in Requests
  PROVE  /\ Len(wch[r]) \in Nat /\ accepted[r] \in Nat /\ taken[r] \in Nat
         /\ Took(r) \in Int /\ Done(r) \in Int
  BY DEF StreamTypes, Took, Done

\* Nothing is written, and no goroutine that runs on is done with more.
LEMMA OutKept ==
  ASSUME StreamTypes, OutOK, out' = out,
         \A r \in Requests :
           /\ Done(r)' \in Int /\ Done(r)' >= Done(r)
           /\ proc'[r] # "ended" => proc[r] # "ended" /\ Done(r)' = Done(r)
  PROVE  OutOK'
<1>1. ASSUME NEW c \in Requests, NEW i \in 1..Len(out[c])
      PROVE  out[c][i][2] \in 1..Done(out[c][i][1])'
  <2>1. out[c][i] \in Requests \X Nat
    BY DEF StreamTypes
  <2> DEFINE r == out[c][i][1]
  <2>2. r \in Requests /\ out[c][i][2] \in 1..Done(r)
    BY <2>1 DEF OutOK
  <2>3. Done(r) \in Int /\ Done(r)' \in Int /\ Done(r)' >= Done(r)
    BY <2>2, Counts
  <2> HIDE DEF r
  <2>4. out[c][i][2] \in 1..Done(r)'
    BY <2>2, <2>3
  <2> QED
    BY <2>4 DEF r
<1>2. \A r \in Requests : proc'[r] # "ended" =>
        \A m \in 1..Done(r)' : \E c \in Requests : Wrote(c, r, m)'
  BY DEF OutOK, Wrote
<1> QED
  BY <1>1, <1>2 DEF OutOK

\* A goroutine starts or ends with nothing in its hands.
LEMMA ProcMoves ==
  ASSUME StreamTypes, BufferOK, OutOK, NEW r \in Requests,
         proc[r] \in {"none", "starting", "waiting"},
         NEW p \in {"starting", "waiting", "ended"},
         proc[r] # "ended", proc' = [proc EXCEPT ![r] = p],
         UNCHANGED <<wch, taken, accepted, out>>
  PROVE  BufferOK' /\ OutOK'
<1>1. \A x \in Requests : proc'[x] = IF x = r THEN p ELSE proc[x]
  BY DEF StreamTypes
<1>2. \A x \in Requests : Took(x)' = Took(x) /\ Done(x)' = Done(x)
  BY <1>1 DEF Took, Done
<1>3. BufferOK'
  BY <1>1, <1>2 DEF BufferOK
<1>4. \A x \in Requests :
        /\ Done(x)' \in Int /\ Done(x)' >= Done(x)
        /\ proc'[x] # "ended" => proc[x] # "ended" /\ Done(x)' = Done(x)
  <2> SUFFICES ASSUME NEW x \in Requests
               PROVE  /\ Done(x)' \in Int /\ Done(x)' >= Done(x)
                      /\ proc'[x] # "ended" =>
                           proc[x] # "ended" /\ Done(x)' = Done(x)
    OBVIOUS
  <2>1. Done(x) \in Int
    BY Counts
  <2> QED
    BY <1>1, <1>2, <2>1
<1> QED
  BY <1>3, <1>4, OutKept

LEMMA SendKeeps ==
  ASSUME StreamTypes, BufferOK, OutOK, NEW r \in Requests, Send(r)
  PROVE  BufferOK' /\ OutOK'
<1> DEFINE a == accepted[r]
           q == wch[r]
<1>1. /\ wch' = [wch EXCEPT ![r] = Append(q, a + 1)]
      /\ accepted' = [accepted EXCEPT ![r] = a + 1]
      /\ UNCHANGED <<proc, taken, out>>
  BY DEF Send
<1>2. /\ q \in Seq(Nat) /\ a \in Nat /\ Len(q) \in Nat /\ Len(q) <= a
      /\ \A i \in 1..Len(q) : q[i] = a - Len(q) + i
  BY DEF StreamTypes, BufferOK, Took
<1>3. /\ wch'[r] = Append(q, a + 1) /\ accepted'[r] = a + 1
      /\ \A x \in Requests \ {r} : wch'[x] = wch[x] /\ accepted'[x] = accepted[x]
  BY <1>1 DEF StreamTypes
<1> HIDE DEF a, q
<1>4. /\ Len(Append(q, a + 1)) = Len(q) + 1
      /\ Append(q, a + 1)[Len(q) + 1] = a + 1
      /\ \A i \in 1..Len(q) : Append(q, a + 1)[i] = q[i]
  BY <1>2
<1>5. Took(r) = a - Len(q) /\ Took(r)' = a + 1 - (Len(q) + 1)
  <2>1. Took(r) = a - Len(q)
    BY DEF Took, a, q
  <2>2. Took(r)' = accepted'[r] - Len(wch'[r])
    BY DEF Took
  <2> QED
    BY <1>2, <1>3, <1>4, <2>1, <2>2
<1>6. Took(r)' = Took(r)
  BY <1>2, <1>5
<1>7. \A x \in Requests : Took(x)' = Took(x)
  <2> SUFFICES ASSUME NEW x \in Requests, x # r PROVE Took(x)' = Took(x)
    BY <1>6
  <2> QED
    BY <1>3 DEF Took
<1>8. BufferOK'
  <2> SUFFICES ASSUME NEW x \in Requests
               PROVE  /\ Len(wch'[x]) <= accepted'[x]
                      /\ \A i \in 1..Len(wch'[x]) : wch'[x][i] = Took(x) + i
                      /\ IF proc[x] = "writing"
                         THEN taken[x] = Took(x) /\ taken[x] > 0
                         ELSE taken[x] = 0
    BY <1>1, <1>7 DEF BufferOK
  <2>1. CASE x # r
    BY <1>3, <2>1 DEF BufferOK
  <2>2. CASE x = r
    <3>1. \A i \in 1..Len(q) + 1 : Append(q, a + 1)[i] = a - Len(q) + i
      BY <1>2, <1>4
    <3>2. Len(Append(q, a + 1)) <= a + 1
      BY <1>2, <1>4
    <3>3. IF proc[r] = "writing" THEN taken[r] = Took(r) /\ taken[r] > 0
                                 ELSE taken[r] = 0
      BY DEF BufferOK
    <3> QED
      BY <1>3, <1>4, <1>5, <2>2, <3>1, <3>2, <3>3
  <2> QED
    BY <2>1, <2>2
<1>9. \A x \in Requests : Done(x)' = Done(x) /\ Done(x) \in Int
  BY <1>1, <1>7, Counts DEF Done
<1>10. OutOK'
  <2>1. \A x \in Requests :
          /\ Done(x)' \in Int /\ Done(x)' >= Done(x)
          /\ proc'[x] # "ended" => proc[x] # "ended" /\ Done(x)' = Done(x)
    BY <1>1, <1>9
  <2> QED
    BY <1>1, <2>1, OutKept
<1> QED
  BY <1>8, <1>10

LEMMA TakeKeeps ==
  ASSUME StreamTypes, BufferOK, OutOK, NEW r \in Requests, TakeMessage(r)
  PROVE  BufferOK' /\ OutOK'
<1> DEFINE a == accepted[r]
           q == wch[r]
<1>1. /\ q # <<>> /\ proc[r] = "waiting"
      /\ wch' = [wch EXCEPT ![r] = Tail(q)]
      /\ taken' = [taken EXCEPT ![r] = Head(q)]
      /\ proc' = [proc EXCEPT ![r] = "writing"]
      /\ UNCHANGED <<accepted, out>>
  BY DEF TakeMessage
<1>2. /\ q \in Seq(Nat) /\ a \in Nat /\ Len(q) \in Nat /\ Len(q) <= a
      /\ \A i \in 1..Len(q) : q[i] = a - Len(q) + i
  BY DEF StreamTypes, BufferOK, Took
<1>3. /\ wch'[r] = Tail(q) /\ taken'[r] = Head(q) /\ proc'[r] = "writing"
      /\ \A x \in Requests \ {r} :
           wch'[x] = wch[x] /\ taken'[x] = taken[x] /\ proc'[x] = proc[x]
  BY <1>1 DEF StreamTypes
<1>4. Took(r) = a - Len(q) /\ Took(r)' = a - Len(Tail(q))
  BY <1>1, <1>3 DEF Took
<1> HIDE DEF a, q
<1>5. /\ Len(q) \in Nat \ {0} /\ Head(q) = q[1]
      /\ Len(Tail(q)) = Len(q) - 1
      /\ \A i \in 1..Len(q) - 1 : Tail(q)[i] = q[i + 1]
  BY <1>1, <1>2
<1>6. /\ Took(r)' = Took(r) + 1 /\ Took(r) \in Int
      /\ Head(q) = Took(r) + 1 /\ Head(q) > 0
  BY <1>2, <1>4, <1>5
<1>7. \A i \in 1..Len(q) - 1 : Tail(q)[i] = Took(r) + 1 + i
  <2> SUFFICES ASSUME NEW i \in 1..Len(q) - 1
               PROVE  Tail(q)[i] = Took(r) + 1 + i
    OBVIOUS
  <2>1. i + 1 \in 1..Len(q) /\ Tail(q)[i] = q[i + 1]
    BY <1>5
  <2>2. q[i + 1] = a - Len(q) + (i + 1)
    BY <1>2, <2>1
  <2> QED
    BY <1>2, <1>4, <2>1, <2>2
<1>8. \A x \in Requests \ {r} : Took(x)' = Took(x) /\ Done(x)' = Done(x)
  BY <1>1, <1>3 DEF Took, Done
<1>9. BufferOK'
  <2> SUFFICES ASSUME NEW x \in Requests
               PROVE  /\ Len(wch'[x]) <= accepted[x]
                      /\ \A i \in 1..Len(wch'[x]) : wch'[x][i] = Took(x)' + i
                      /\ IF proc'[x] = "writing"
                         THEN taken'[x] = Took(x)' /\ taken'[x] > 0
                         ELSE taken'[x] = 0
    BY <1>1 DEF BufferOK
  <2>1. CASE x # r
    BY <1>3, <1>8, <2>1 DEF BufferOK
  <2>2. CASE x = r
    <3>1. Len(Tail(q)) <= accepted[r]
      BY <1>2, <1>5 DEF a
    <3> QED
      BY <1>3, <1>5, <1>6, <1>7, <2>2, <3>1
  <2> QED
    BY <2>1, <2>2
<1>10. Done(r) = Took(r) /\ Done(r)' = Took(r)' - 1
  BY <1>1, <1>3 DEF Done
<1>11. \A x \in Requests : Done(x)' = Done(x) /\ Done(x) \in Int
  <2> SUFFICES ASSUME NEW x \in Requests
               PROVE  Done(x)' = Done(x) /\ Done(x) \in Int
    OBVIOUS
  <2>1. Done(r)' = Done(r)
    BY <1>6, <1>10
  <2> QED
    BY <1>8, <2>1, Counts
<1>12. \A x \in Requests :
         /\ Done(x)' \in Int /\ Done(x)' >= Done(x)
         /\ proc'[x] # "ended" => proc[x] # "ended" /\ Done(x)' = Done(x)
  BY <1>1, <1>3, <1>11
<1> QED
  BY <1>1, <1>9, <1>12, OutKept

LEMMA FailKeeps ==
  ASSUME StreamTypes, BufferOK, OutOK, NEW r \in Requests, FailWrite(r)
  PROVE  BufferOK' /\ OutOK'
<1>1. /\ proc[r] = "writing" /\ proc'[r] = "ended" /\ taken'[r] = 0
      /\ \A x \in Requests \ {r} : proc'[x] = proc[x] /\ taken'[x] = taken[x]
      /\ UNCHANGED <<wch, accepted, out>>
  BY DEF FailWrite, StreamTypes
<1>2. \A x \in Requests : Took(x)' = Took(x)
  BY <1>1 DEF Took
<1>3. BufferOK'
  BY <1>1, <1>2 DEF BufferOK
<1>4. /\ Done(r)' = Took(r) /\ Done(r) = Took(r) - 1
      /\ \A x \in Requests \ {r} : Done(x)' = Done(x)
  BY <1>1, <1>2 DEF Done
<1>5. ASSUME NEW x \in Requests
      PROVE  /\ Done(x)' \in Int /\ Done(x)' >= Done(x)
             /\ proc'[x] # "ended" => proc[x] # "ended" /\ Done(x)' = Done(x)
  <2>1. Done(x) \in Int /\ Took(x) \in Int
    BY Counts
  <2>2. CASE x = r
    BY <1>1, <1>4, <2>1, <2>2
  <2>3. CASE x # r
    BY <1>1, <1>4, <2>1, <2>3
  <2> QED
    BY <2>2, <2>3
<1> QED
  BY <1>1, <1>3, <1>5, OutKept

\* The message the goroutine holds is the next of its stream, and goes to the
\* end of one connection.
LEMMA WriteKeeps ==
  ASSUME StreamTypes, PoolTypeOK, StreamsHaveContexts, LinksOK, BufferOK, OutOK,
         NEW r \in Requests, WriteMessage(r)
  PROVE  BufferOK' /\ OutOK'
<1> DEFINE to == Beneath(dest[ctxOf[r]])
           t  == taken[r]
           o  == Append(out[to], <<r, t>>)
<1>1. /\ proc[r] = "writing" /\ dest[ctxOf[r]] # Nobody
      /\ out' = [out EXCEPT ![to] = o]
      /\ taken' = [taken EXCEPT ![r] = 0]
      /\ proc' = [proc EXCEPT ![r] = "waiting"]
      /\ UNCHANGED <<wch, accepted>>
  BY DEF WriteMessage
<1>2. to \in Requests
  <2>1. ctxOf[r] \in Contexts
    BY <1>1 DEF StreamsHaveContexts, LinksOK
  <2>2. dest[ctxOf[r]] \in Requests \cup Writers
    BY <1>1, <2>1 DEF PoolTypeOK
  <2> QED
    BY <2>1, <2>2 DEF LinksOK, Beneath
<1>3. /\ t = Took(r) /\ t \in Nat /\ t > 0
      /\ Done(r) = t - 1
  BY <1>1, Counts DEF BufferOK, Done
<1>4. /\ out'[to] = o /\ \A c \in Requests \ {to} : out'[c] = out[c]
      /\ proc'[r] = "waiting" /\ taken'[r] = 0
      /\ \A x \in Requests \ {r} : proc'[x] = proc[x] /\ taken'[x] = taken[x]
  BY <1>1, <1>2 DEF StreamTypes
<1> HIDE DEF to, t
<1>5. /\ out[to] \in Seq(Requests \X Nat) /\ <<r, t>> \in Requests \X Nat
      /\ Len(out[to]) \in Nat
  BY <1>2, <1>3 DEF StreamTypes
<1>6. /\ Len(o) = Len(out[to]) + 1 /\ o[Len(out[to]) + 1] = <<r, t>>
      /\ \A i \in 1..Len(out[to]) : o[i] = out[to][i]
  BY <1>5
<1> HIDE DEF o
<1>7. \A x \in Requests : Took(x)' = Took(x)
  BY <1>1 DEF Took
<1>8. Done(r)' = t /\ \A x \in Requests \ {r} : Done(x)' = Done(x)
  BY <1>3, <1>4, <1>7 DEF Done
<1>9. BufferOK'
  BY <1>1, <1>4, <1>7 DEF BufferOK
<1>10. \A c \in Requests : \A i \in 1..Len(out[c]) :
         /\ out[c][i] \in Requests \X Nat
         /\ out[c][i][2] \in 1..Done(out[c][i][1])
  BY DEF StreamTypes, OutOK
<1>11. ASSUME NEW c \in Requests, NEW i \in 1..Len(out'[c])
       PROVE  \/ i \in 1..Len(out[c]) /\ out'[c][i] = out[c][i]
              \/ c = to /\ i = Len(out[to]) + 1 /\ out'[c][i] = <<r, t>>
  BY <1>4, <1>5, <1>6
\* What was written before is another message.
<1>12. \A c \in Requests : \A i \in 1..Len(out[c]) :
         out[c][i][1] = r => out[c][i][2] < t
  <2> SUFFICES ASSUME NEW c \in Requests, NEW i \in 1..Len(out[c]),
                      out[c][i][1] = r
               PROVE  out[c][i][2] < t
    OBVIOUS
  <2>1. out[c][i][2] \in 1..t - 1
    BY <1>3, <1>10
  <2> QED
    BY <1>3, <2>1
<1>13. ASSUME NEW c \in Requests, NEW i \in 1..Len(out'[c])
       PROVE  (out[c][i][2] \in 1..Done(out[c][i][1]))'
  <2>1. PICK x, m : x = out'[c][i][1] /\ m = out'[c][i][2]
    OBVIOUS
  <2>2. x \in Requests /\ m \in 1..Done(x)'
    <3>1. CASE c = to /\ i = Len(out[to]) + 1 /\ out'[c][i] = <<r, t>>
      <4>1. x = r /\ m = t
        BY <2>1, <3>1
      <4> QED
        BY <1>3, <1>8, <4>1
    <3>2. CASE i \in 1..Len(out[c]) /\ out'[c][i] = out[c][i]
      <4>1. x \in Requests /\ m \in 1..Done(x)
        BY <1>10, <2>1, <3>2
      <4>2. CASE x = r
        BY <1>3, <1>8, <4>1, <4>2
      <4>3. CASE x # r
        <5>1. Done(x)' = Done(x)
          BY <1>8, <4>1, <4>3
        <5> QED
          BY <4>1, <5>1
      <4> QED
        BY <4>2, <4>3
    <3> QED
      BY <1>11, <3>1, <3>2
  <2>3. Done(out[c][i][1])' = Done(x)'
    BY <2>1 DEF Done, Took
  <2> QED
    BY <2>1, <2>2, <2>3
<1>14. ASSUME NEW c \in Requests, NEW i \in 1..Len(out'[c]),
              NEW j \in 1..Len(out'[c]), i < j, out'[c][i][1] = out'[c][j][1]
       PROVE  out'[c][i][2] < out'[c][j][2]
  <2>1. CASE j \in 1..Len(out[c]) /\ out'[c][j] = out[c][j]
    <3>1. Len(out[c]) \in Nat
      BY DEF StreamTypes
    <3>2. i \in 1..Len(out[c])
      BY <1>14, <2>1, <3>1
    <3>3. out'[c][i] = out[c][i]
      BY <1>5, <1>11, <3>2
    <3> QED
      BY <1>14, <2>1, <3>2, <3>3 DEF OutOK
  <2>2. CASE c = to /\ j = Len(out[to]) + 1 /\ out'[c][j] = <<r, t>>
    <3>1. i \in 1..Len(out[c]) /\ out'[c][i] = out[c][i]
      BY <1>5, <1>11, <1>14, <2>2
    <3>2. out[c][i][1] = r
      BY <1>14, <2>2, <3>1
    <3> QED
      BY <1>12, <2>2, <3>1, <3>2
  <2> QED
    BY <1>11, <2>1, <2>2
<1>15. ASSUME NEW c \in Requests, NEW d \in Requests,
              NEW i \in 1..Len(out'[c]), NEW j \in 1..Len(out'[d]),
              out'[c][i] = out'[d][j]
       PROVE  c = d
  <2>1. ASSUME NEW b \in Requests, NEW k \in 1..Len(out[b]),
               out[b][k] = <<r, t>>
        PROVE  FALSE
    <3>1. t < t
      BY <1>12, <2>1
    <3> QED
      BY <1>3, <3>1
  <2>2. CASE /\ i \in 1..Len(out[c]) /\ out'[c][i] = out[c][i]
             /\ j \in 1..Len(out[d]) /\ out'[d][j] = out[d][j]
    BY <1>15, <2>2 DEF OutOK
  <2> QED
    BY <1>11, <1>15, <2>1, <2>2
<1>16. ASSUME NEW x \in Requests, proc'[x] # "ended", NEW m \in 1..Done(x)'
       PROVE  \E c \in Requests : Wrote(c, x, m)'
  <2>1. ASSUME NEW c \in Requests, Wrote(c, x, m) PROVE Wrote(c, x, m)'
    <3>1. PICK i \in 1..Len(out[c]) : out[c][i] = <<x, m>>
      BY <2>1 DEF Wrote
    <3>2. Len(out[c]) \in Nat
      BY DEF StreamTypes
    <3>3. i \in 1..Len(out'[c]) /\ out'[c][i] = out[c][i]
      <4>1. CASE c = to
        BY <1>4, <1>5, <1>6, <4>1
      <4>2. CASE c # to
        BY <1>4, <4>2
      <4> QED
        BY <4>1, <4>2
    <3> QED
      BY <3>1, <3>3 DEF Wrote
  <2>2. CASE x = r /\ m = t
    <3>1. Len(out[to]) + 1 \in 1..Len(out'[to])
      BY <1>4, <1>5, <1>6
    <3>2. out'[to][Len(out[to]) + 1] = <<x, m>>
      BY <1>4, <1>6, <2>2
    <3>3. PICK c \in Requests : c = to
      BY <1>2
    <3>4. Wrote(c, x, m)'
      BY <3>1, <3>2, <3>3 DEF Wrote
    <3> QED
      BY <3>4
  <2>3. CASE ~(x = r /\ m = t)
    <3>1. m \in 1..Done(x)
      <4>1. CASE x = r
        BY <1>3, <1>8, <2>3, <4>1
      <4>2. CASE x # r
        BY <1>8, <4>2
      <4> QED
        BY <4>1, <4>2
    <3>2. proc[x] # "ended"
      BY <1>1, <1>4, <1>16
    <3>3. PICK c \in Requests : Wrote(c, x, m)
      BY <3>1, <3>2 DEF OutOK
    <3> QED
      BY <2>1, <3>3
  <2> QED
    BY <2>2, <2>3
<1>17. OutOK'
  BY <1>13, <1>14, <1>15, <1>16 DEF OutOK
<1> QED
  BY <1>9, <1>17

LEMMA KeptStep ==
  ASSUME StreamTypes, PoolTypeOK, StreamsHaveContexts, LinksOK, BufferOK, OutOK,
         [Next]_vars
  PROVE  BufferOK' /\ OutOK'
<1>1. CASE UNCHANGED <<wch, proc, taken, accepted, out>>
  <2>1. \A x \in Requests : Took(x)' = Took(x) /\ Done(x)' = Done(x)
    BY <1>1 DEF Took, Done
  <2>2. BufferOK'
    BY <1>1, <2>1 DEF BufferOK
  <2>3. \A x \in Requests :
          /\ Done(x)' \in Int /\ Done(x)' >= Done(x)
          /\ proc'[x] # "ended" => proc[x] # "ended" /\ Done(x)' = Done(x)
    <3> SUFFICES ASSUME NEW x \in Requests
                 PROVE  Done(x)' \in Int /\ Done(x)' >= Done(x)
      BY <1>1, <2>1
    <3>1. Done(x) \in Int
      BY Counts
    <3> QED
      BY <2>1, <3>1
  <2> QED
    BY <1>1, <2>2, <2>3, OutKept
<1>2. ASSUME NEW r \in Requests, NewStream(r) PROVE BufferOK' /\ OutOK'
  BY <1>2, ProcMoves DEF NewStream
<1>3. ASSUME NEW r \in Requests, StartProcess(r) PROVE BufferOK' /\ OutOK'
  BY <1>3, ProcMoves DEF StartProcess
<1>4. ASSUME NEW r \in Requests, EndProcess(r) PROVE BufferOK' /\ OutOK'
  BY <1>4, ProcMoves DEF EndProcess
<1>5. [Next]_vars =>
        \/ UNCHANGED <<wch, proc, taken, accepted, out>>
        \/ \E r \in Requests :
             \/ NewStream(r) \/ StartProcess(r) \/ EndProcess(r) \/ Send(r)
             \/ TakeMessage(r) \/ FailWrite(r) \/ WriteMessage(r)
  BY DEF Next, Step, Pool, Process, Cancel, Crash, streamVars, vars
<1> QED
  BY <1>1, <1>2, <1>3, <1>4, <1>5, SendKeeps, TakeKeeps, FailKeeps, WriteKeeps

LEMMA KeptInit == Init => LinksOK /\ BufferOK /\ OutOK
<1> SUFFICES ASSUME Init PROVE LinksOK /\ BufferOK /\ OutOK
  OBVIOUS
<1>1. LinksOK
  BY PoolAssumption DEF Init, PoolInit, LinksOK
<1>2. \A r \in Requests :
        /\ wch[r] = <<>> /\ out[r] = <<>> /\ accepted[r] = 0 /\ taken[r] = 0
        /\ proc[r] = "none" /\ Took(r) = 0 /\ Done(r) = 0
  <2> SUFFICES ASSUME NEW r \in Requests
               PROVE  /\ wch[r] = <<>> /\ out[r] = <<>>
                      /\ accepted[r] = 0 /\ taken[r] = 0
                      /\ proc[r] = "none" /\ Took(r) = 0 /\ Done(r) = 0
    OBVIOUS
  <2>1. /\ wch[r] = <<>> /\ out[r] = <<>> /\ accepted[r] = 0 /\ taken[r] = 0
        /\ proc[r] = "none"
    BY DEF Init
  <2>2. Len(<<>>) = 0 /\ 0 - 0 = 0
    OBVIOUS
  <2>3. Took(r) = 0
    BY <2>1, <2>2, Zenon DEF Took
  <2> QED
    BY <2>1, <2>3 DEF Done
<1>3. BufferOK
  <2> SUFFICES ASSUME NEW r \in Requests
               PROVE  /\ Len(wch[r]) <= accepted[r]
                      /\ \A i \in 1..Len(wch[r]) : wch[r][i] = Took(r) + i
                      /\ IF proc[r] = "writing"
                         THEN taken[r] = Took(r) /\ taken[r] > 0
                         ELSE taken[r] = 0
    BY DEF BufferOK
  <2>1. Len(wch[r]) = 0 /\ accepted[r] = 0 /\ proc[r] # "writing" /\ taken[r] = 0
    BY <1>2
  <2> QED
    BY <2>1
<1>4. OutOK
  BY <1>2 DEF OutOK
<1> QED
  BY <1>1, <1>3, <1>4

\* No message that send accepted is forgotten, sent twice or overtaken, for any
\* number of requests, Contexts and writers, any buffer and any number of
\* messages, also by a goroutine that outlives its handler
\* (stream.go:54-63, 91-104).
THEOREM NoMessageForgotten == Spec => []MessagesKept
<1>1. ASSUME StreamTypes, BufferOK, OutOK PROVE MessagesKept
  <2>1. ASSUME NEW r \in Requests, NEW m \in 1..accepted[r], proc[r] # "ended",
               m # taken[r], \A i \in 1..Len(wch[r]) : wch[r][i] # m
        PROVE  \E c \in Requests : Wrote(c, r, m)
    <3> DEFINE n == Len(wch[r])
    <3>1. /\ n \in Nat /\ accepted[r] \in Nat
          /\ Took(r) = accepted[r] - n
          /\ \A i \in 1..n : wch[r][i] = Took(r) + i
      BY <1>1, Counts DEF BufferOK, Took
    <3>2. m <= Took(r)
      <4> SUFFICES ASSUME m > Took(r) PROVE FALSE
        BY <3>1
      <4>1. m - Took(r) \in 1..n
        BY <3>1
      <4>2. wch[r][m - Took(r)] = m
        BY <3>1, <4>1
      <4> QED
        BY <2>1, <4>1, <4>2
    <3>3. m \in 1..Done(r)
      BY <1>1, <2>1, <3>1, <3>2 DEF BufferOK, Done
    <3> QED
      BY <1>1, <2>1, <3>3 DEF OutOK
  <2>2. ASSUME NEW c \in Requests, NEW i \in 1..Len(out[c])
        PROVE  out[c][i][2] \in 1..accepted[out[c][i][1]]
    <3> DEFINE r == out[c][i][1]
    <3>1. r \in Requests /\ out[c][i][2] \in 1..Done(r)
      BY <1>1 DEF StreamTypes, OutOK
    <3> HIDE DEF r
    <3>2. Done(r) \in Int /\ Done(r) <= accepted[r] /\ accepted[r] \in Nat
      BY <1>1, <3>1, Counts DEF Done, Took
    <3>3. out[c][i][2] \in 1..accepted[r]
      BY <3>1, <3>2
    <3> QED
      BY <3>3 DEF r
  <2> QED
    BY <1>1, <2>1, <2>2 DEF OutOK, MessagesKept
<1>2. Init => StreamTypes /\ StreamsHaveContexts /\ LinksOK /\ BufferOK /\ OutOK
  BY KeptInit DEF Init, StreamTypes, StreamsHaveContexts
<1>3. IInv => PoolTypeOK
  BY DEF IInv
<1>4. /\ StreamTypes /\ StreamsHaveContexts /\ LinksOK /\ BufferOK /\ OutOK
      /\ PoolTypeOK /\ [Next]_vars
      => (StreamTypes /\ StreamsHaveContexts /\ LinksOK /\ BufferOK /\ OutOK)'
  BY StreamTypesStep, StreamsHaveContextsStep, LinksStep, KeptStep
<1> QED
  BY <1>1, <1>2, <1>3, <1>4, Invariance, PTL DEF Spec
=============================================================================
