------------------------------- MODULE Stream -------------------------------
(***************************************************************************)
(* Single SSE streams: NewStream, Stream.send and processStream of         *)
(* sse/stream.go, over the pooled Context of ContextPool.                  *)
(*                                                                         *)
(* processStream is a goroutine that writes through the Context of the     *)
(* request it was started for.  Nothing waits for it: it ends when it sees *)
(* the request's context done, which net/http cancels when the client is   *)
(* gone or, the handler having returned, after putCtx.  A Go select with   *)
(* several ready cases takes any of them.                                  *)
(***************************************************************************)
EXTENDS ContextPool, Sequences, SequencesExt

CONSTANTS
  BufSize,        \* bufSize of NewStream, at least 1 here
  MaxSends        \* bound: MaxSends[r] messages are sent by r's handler

ASSUME StreamAssumption ==
  /\ BufSize \in Nat \ {0}
  /\ MaxSends \in [Requests -> Nat]

VARIABLES
  gone,           \* the connections on which a write failed
  cancelled,      \* the requests whose context is done
  wch,            \* wch[r]: the buffered messages of r's stream
  proc,           \* proc[r]: r's processStream: "none", "starting" (before the
                  \* first Flush), "waiting" in select, "writing", "ended"
  taken,          \* taken[r]: the message it took from wch, 0 for none
  accepted,       \* accepted[r]: how many messages send accepted
  out,            \* out[r]: what r's connection got, as <<stream, message>>
  crashed         \* a goroutine panicked: the process is gone

streamVars == <<gone, cancelled, wch, proc, taken, accepted, out, crashed>>
vars == <<poolVars, streamVars>>

Init ==
  /\ PoolInit
  /\ gone = {} /\ cancelled = {}
  /\ wch = [r \in Requests |-> <<>>]
  /\ proc = [r \in Requests |-> "none"]
  /\ taken = [r \in Requests |-> 0]
  /\ accepted = [r \in Requests |-> 0]
  /\ out = [r \in Requests |-> <<>>]
  /\ crashed = FALSE

-----------------------------------------------------------------------------
(* The handler *)

NewStream(r) ==
  /\ phase[r] = "handling" /\ proc[r] = "none"
  /\ proc' = [proc EXCEPT ![r] = "starting"]
  /\ UNCHANGED <<poolVars, gone, cancelled, wch, taken, accepted, out, crashed>>

\* Mutant: a full buffer drops its oldest message to make room.
SendDropsOldest(r) ==
  /\ phase[r] = "handling" /\ proc[r] # "none"
  /\ accepted[r] < MaxSends[r]
  /\ wch' = [wch EXCEPT ![r] =
              Append(IF Len(@) < BufSize THEN @ ELSE Tail(@), accepted[r] + 1)]
  /\ accepted' = [accepted EXCEPT ![r] = @ + 1]
  /\ UNCHANGED <<poolVars, gone, cancelled, proc, taken, out, crashed>>

\* send returns nil, also with the context done if the buffer has room: select
\* takes either case.  Its other results, os.ErrClosed and ErrBufferFull,
\* change nothing.
Send(r) ==
  /\ phase[r] = "handling" /\ proc[r] # "none"
  /\ accepted[r] < MaxSends[r]
  /\ Len(wch[r]) < BufSize
  /\ wch' = [wch EXCEPT ![r] = Append(@, accepted[r] + 1)]
  /\ accepted' = [accepted EXCEPT ![r] = @ + 1]
  /\ UNCHANGED <<poolVars, gone, cancelled, proc, taken, out, crashed>>

-----------------------------------------------------------------------------
(* processStream *)

ProcessVars == <<phase, ctxOf, dest, target, data, ctxPool, gzPool>>

\* The first Flush.  On a Context given back it does nothing: a nil
\* ResponseWriter is no Flusher.
StartProcess(r) ==
  /\ proc[r] = "starting"
  /\ proc' = [proc EXCEPT ![r] = "waiting"]
  /\ IF dest[ctxOf[r]] = Nobody THEN UNCHANGED header
                                ELSE Commit(Beneath(dest[ctxOf[r]]), r)
  /\ UNCHANGED <<ProcessVars, gone, cancelled, wch, taken, accepted, out,
                 crashed>>

TakeMessage(r) ==
  /\ proc[r] = "waiting" /\ wch[r] # <<>>
  /\ taken' = [taken EXCEPT ![r] = Head(wch[r])]
  /\ wch' = [wch EXCEPT ![r] = Tail(@)]
  /\ proc' = [proc EXCEPT ![r] = "writing"]
  /\ UNCHANGED <<poolVars, gone, cancelled, accepted, out, crashed>>

\* ctx.Write and ctx.Flush on whatever the Context's ResponseWriter is now.
WriteMessage(r) ==
  LET w == dest[ctxOf[r]] IN
  /\ proc[r] = "writing" /\ w # Nobody
  /\ out' = [out EXCEPT ![Beneath(w)] = Append(@, <<r, taken[r]>>)]
  /\ Commit(Beneath(w), r)
  /\ taken' = [taken EXCEPT ![r] = 0]
  /\ proc' = [proc EXCEPT ![r] = "waiting"]
  /\ UNCHANGED <<ProcessVars, gone, cancelled, wch, accepted, crashed>>

\* ctx.Write returns an error, the client being gone: the goroutine ends, and
\* nobody is told.
FailWrite(r) ==
  /\ proc[r] = "writing" /\ dest[ctxOf[r]] # Nobody
  /\ gone' = gone \cup {Beneath(dest[ctxOf[r]])}
  /\ proc' = [proc EXCEPT ![r] = "ended"]
  /\ taken' = [taken EXCEPT ![r] = 0]
  /\ UNCHANGED <<poolVars, cancelled, wch, accepted, out, crashed>>

\* ctx.Write on a Context that was given back: a method of a nil interface,
\* called in a goroutine that does not recover.
Crash(r) ==
  /\ proc[r] = "writing" /\ dest[ctxOf[r]] = Nobody
  /\ crashed' = TRUE
  /\ UNCHANGED <<poolVars, gone, cancelled, wch, proc, taken, accepted, out>>

\* Mutant: break, which leaves the select and not the loop.
EndProcessBreak(r) ==
  /\ proc[r] = "waiting" /\ r \in cancelled
  /\ UNCHANGED vars

\* Mutant: an empty buffer is taken for the end.
EndProcessIdle(r) ==
  /\ proc[r] = "waiting" /\ (r \in cancelled \/ wch[r] = <<>>)
  /\ proc' = [proc EXCEPT ![r] = "ended"]
  /\ UNCHANGED <<poolVars, gone, cancelled, wch, taken, accepted, out, crashed>>

EndProcess(r) ==
  /\ proc[r] = "waiting" /\ r \in cancelled
  /\ proc' = [proc EXCEPT ![r] = "ended"]
  /\ UNCHANGED <<poolVars, gone, cancelled, wch, taken, accepted, out, crashed>>

Process(r) == StartProcess(r) \/ TakeMessage(r) \/ WriteMessage(r)
              \/ FailWrite(r) \/ Crash(r) \/ EndProcess(r)

-----------------------------------------------------------------------------
(* The client and net/http *)

\* The client is found gone, or the handler has returned.
Cancel(r) ==
  /\ r \notin cancelled
  /\ phase[r] \in {"handling", "resetting", "returned"}
  /\ cancelled' = cancelled \cup {r}
  /\ UNCHANGED <<poolVars, gone, wch, proc, taken, accepted, out, crashed>>

\* net/http cancels the context before it finishes the response.
Pool ==
  /\ \E r \in Requests :
       \/ getCtx(r) \/ Set(r) \/ Respond(r) \/ ResetWriter(r) \/ putCtx(r)
       \/ r \in cancelled /\ Finish(r)
  /\ UNCHANGED streamVars

Step ==
  \/ Pool
  \/ \E r \in Requests : NewStream(r) \/ Send(r) \/ Process(r) \/ Cancel(r)

Next == ~crashed /\ Step

Spec == Init /\ [][Next]_vars

(* The runtime runs every goroutine that can go on; net/http cancels the   *)
(* context of a request that was served.  Handlers need not return.        *)
FairSpec == Spec /\ \A r \in Requests :
  /\ WF_vars(~crashed /\ Process(r))
  /\ WF_vars(~crashed /\ phase[r] = "returned" /\ Cancel(r))

-----------------------------------------------------------------------------
(* Properties *)

\* The Context of stream r was given back while r's goroutine still had it.
Outlives(r) ==
  phase[r] \in {"resetting", "returned", "finished"}
    /\ proc[r] \in {"starting", "waiting", "writing"}

\* As long as no goroutine outlives its handler, nothing a stream sends ends up
\* on another connection, no header is sent on another's behalf, and no write
\* panics (stream.go:44, ctx.go:43 "should never be used outside the handler").
StraysOnlyOutlived ==
  [][(\A r \in Requests : ~Outlives(r)) =>
       /\ ~crashed'
       /\ \A r \in Requests :
            /\ out'[r] # out[r] => Last(out'[r])[1] = r
            /\ header'[r] # header[r] => header'[r] = r]_vars

Wrote(c, r, m) == \E i \in 1..Len(out[c]) : out[c][i] = <<r, m>>

\* A message that send accepted is in the buffer, in the goroutine's hands or
\* written, until the goroutine ends, whether or not the handler still runs;
\* what is written was accepted, each message once, and on a connection those
\* of a stream are in the order in which they were sent (stream.go:54-63,
\* 91-104).
MessagesKept ==
  /\ \A r \in Requests : \A m \in 1..accepted[r] :
       \/ proc[r] = "ended"
       \/ m = taken[r]
       \/ \E i \in 1..Len(wch[r]) : wch[r][i] = m
       \/ \E c \in Requests : Wrote(c, r, m)
  /\ \A c \in Requests : \A i \in 1..Len(out[c]) :
       out[c][i][2] \in 1..accepted[out[c][i][1]]
  /\ \A c \in Requests : \A i, j \in 1..Len(out[c]) :
       i < j /\ out[c][i][1] = out[c][j][1] => out[c][i][2] < out[c][j][2]
  /\ \A c, d \in Requests : \A i \in 1..Len(out[c]), j \in 1..Len(out[d]) :
       out[c][i] = out[d][j] => c = d

\* The goroutine of a request that was served ends, whatever is still buffered
\* and whether the client is there (stream.go:91-104).
StreamEnds == \A r \in Requests :
  phase[r] = "returned" ~> (proc[r] \in {"none", "ended"} \/ crashed)

\* What send accepted is written, unless the client goes away or the handler
\* returns first (stream.go:54-63): no message is forgotten in the buffer.
AcceptedIsWritten == \A r \in Requests : \A m \in 1..MaxSends[r] :
  (accepted[r] >= m) ~>
    \/ <<r, m>> \in Range(out[r])
    \/ r \in gone \cup cancelled \/ phase[r] # "handling" \/ crashed
=============================================================================
