-------------------------------- MODULE Site --------------------------------
(***************************************************************************)
(* A server from its registration to an answer: the groups of Groups, and  *)
(* a request to a route of one of them, whose middlewares and handlers     *)
(* answer with what Responses offers.  The loops are those of              *)
(* groupHandlerChain.Serve for middlewares that call no Next (HandlerChain *)
(* has those), with CatchPanics set.  One request runs at a time: requests *)
(* share nothing here, and registration is over before the first.          *)
(***************************************************************************)
EXTENDS Groups, Responses

CONSTANTS
  MwDoes,         \* what middlewares may do
  HandlerDoes,    \* what handlers of routes made with AddRoute may do
  TypedDoes,      \* what handlers of routes made by gen.go may do
  MaxHandlers     \* bound: the handlers of a route

ASSUME SiteAssumption == MaxHandlers \in Nat \ {0}

\* The statuses a caller may give: none, or one that ends a request.
Code == {0} \cup 200..599

\* What handlers and middlewares may call on the Context, and return.
Doing ==
  {Quiet} \cup [call : {"Write", "WriteString"}]
    \cup [call : {"Printf"}, code : Code]
    \cup [call : {"EncodeCodec"}, codec : Codec, code : Code, value : Value]
    \cup [call : {"Encode"}, code : Code, value : Value]
    \cup [call : {"File"}, file : FileResult]

Returned ==
  {Nil, Break}
    \cup [kind : {"gen"}, codec : Codec, code : Code, error : BOOLEAN,
          value : {"struct"} \cup Failing]
    \cup [kind : {"cached"}, type : STRING, code : Code]
    \cup [kind : {"redirect"}, url : BOOLEAN]
    \cup [kind : {"file"}, type : STRING, file : FileResult]

\* What a middleware or a handler does, and one that gen.go made.
Deed == [call : Doing, resp : Returned]

TypedDeed ==
  UNION {handleOutOnly(t, w, Value, Code) \cup handleInOut(t, w, Value, Code) :
         t \in Codec, w \in BOOLEAN}

ASSUME DeedsAssumption == /\ MwDoes \cup HandlerDoes \subseteq Deed
                          /\ TypedDoes \subseteq TypedDeed

VARIABLES
  phase,          \* "setup", "middlewares", "handlers", "done"
  group,          \* the group of the route
  typed,          \* the route's only handler is one of gen.go
  left,           \* how many handlers of the route did not run yet
  mwIdx,
  next,           \* ctx.next is not nil
  c,              \* the Context
  ran             \* history: what each middleware and handler that ran did

siteVars == <<phase, group, typed, left, mwIdx, next, c, ran>>
vars == <<gvars, siteVars>>

Init ==
  /\ GroupsInit
  /\ phase = "setup"
  /\ group = Root /\ typed = FALSE /\ left = 0 /\ mwIdx = 0 /\ next = FALSE
  /\ c = Fresh(FALSE, TRUE, "json")
  /\ ran = <<>>

Register == phase = "setup" /\ GroupsNext /\ UNCHANGED siteVars

\* A request comes for a route: Serve makes the Context and calls ctx.Next.
Begin ==
  /\ phase = "setup"
  /\ phase' = "middlewares"
  /\ group' \in made
  /\ \/ typed' = TRUE /\ left' = 1
     \/ typed' = FALSE /\ left' \in 1..MaxHandlers
  /\ next' = TRUE
  /\ \E gz, get \in BOOLEAN, codec \in {"json", "msgpack"} :
       c' = Fresh(gz, get, codec)
  /\ UNCHANGED <<gvars, mwIdx, ran>>

\* The next of the chain does h.  Its panic, if any, is recovered.
Runs(h) ==
  /\ c' = Handle(c, Len(ran), h)
  /\ ran' = Append(ran, h)

\* A middleware runs; if it returned something the loop is over.
RunMiddleware(h) ==
  /\ phase = "middlewares"
  /\ mwIdx < Len(Middlewares(group)) /\ ~c.done
  /\ Runs(h)
  /\ mwIdx' = mwIdx + 1
  /\ next' = (h.resp # Break)
  /\ phase' = IF h.resp = Nil THEN phase ELSE "handlers"
  /\ UNCHANGED <<gvars, group, typed, left>>

EndMiddlewares ==
  /\ phase = "middlewares"
  /\ mwIdx >= Len(Middlewares(group)) \/ c.done
  /\ phase' = "handlers"
  /\ UNCHANGED <<gvars, group, typed, left, mwIdx, next, c, ran>>

RunHandler(h) ==
  /\ phase = "handlers" /\ next
  /\ left > 0 /\ ~c.done
  /\ h \in IF typed THEN TypedDoes ELSE HandlerDoes
  /\ Runs(h)
  /\ left' = left - 1
  /\ phase' = IF h.resp = Nil THEN phase ELSE "done"
  /\ UNCHANGED <<gvars, group, typed, mwIdx, next>>

EndHandlers ==
  /\ phase = "handlers"
  /\ ~next \/ left = 0 \/ c.done
  /\ phase' = "done"
  /\ UNCHANGED <<gvars, group, typed, left, mwIdx, next, c, ran>>

Next ==
  \/ Register \/ Begin
  \/ \E h \in MwDoes : RunMiddleware(h)
  \/ EndMiddlewares
  \/ \E h \in HandlerDoes \cup TypedDoes : RunHandler(h)
  \/ EndHandlers

Spec == Init /\ [][Next]_vars

-----------------------------------------------------------------------------
(* Properties *)

Calls(h)   == h.call.call \notin {"none", "typed"}
Returns(h) == h.resp \notin {Nil, Break}
Answers(h) == Calls(h) \/ Returns(h)

\* What an answer with a file asks for.
FileStatus == [served |-> 200, unmodified |-> 304, moved |-> 301, missing |-> 404]

OrOK(code) == IF code > 0 THEN code ELSE 200

\* The status a Response asks for, and a call on the Context.
AskedByResponse(r) ==
  CASE r.kind = "gen"      -> IF r.code > 0 THEN r.code ELSE IF r.error THEN 400 ELSE 200
    [] r.kind = "cached"   -> OrOK(r.code)
    [] r.kind = "redirect" -> IF r.url THEN 302 ELSE 200
    [] r.kind = "file"     -> FileStatus[r.file]

AskedByCall(m) ==
  CASE m.call = "File" -> FileStatus[m.file]
    [] m.call \in {"Printf", "EncodeCodec", "Encode"} -> OrOK(m.code)
    [] m.call = "typedError" -> IF m.code > 0 THEN m.code ELSE 500
    [] OTHER -> 200

\* The status h asks for, if it answers once.
Asked(h) == IF Returns(h) THEN AskedByResponse(h.resp) ELSE AskedByCall(h.call)

\* An answer that fails a precondition: its 412 is held back and then lost.
Lost(h) == \/ h.call.call = "File" /\ h.call.file = "precondition"
           \/ h.resp.kind = "file" /\ h.resp.file = "precondition"

\* An error without a code: its WriteHeader panics.  Under gzip that leaves the
\* 500 of the panic handler no header to set.
Panics(h) == h.call.call = "typedError" /\ h.call.code = 0
Masked(h) == Panics(h) /\ c.gz

Sent == IF c.sent = 0 THEN 200 ELSE c.sent

\* What i of ran did is the answer: it did one thing, and nobody else answered.
Sole(i) ==
  /\ Answers(ran[i]) /\ ~(Calls(ran[i]) /\ Returns(ran[i]))
  /\ \A j \in DOMAIN ran \ {i} : ~Answers(ran[j])

\* A request that was answered once gets what that answer asked for: its status
\* (a missing file's 404 too, whose page is replaced, an error without a code as
\* a 400, a panic's 500 unless gzip masks it), one body at most, and with a JSON or
\* msgpack body that content type or none (ctx.go:309-327, genresp.go:54-87,
\* gen.go:90-156).
AnsweredAsAsked ==
  phase = "done" /\ ~(\E i \in DOMAIN ran : Lost(ran[i])) =>
    \A i \in DOMAIN ran : Sole(i) =>
      /\ Sent = Asked(ran[i]) \/ Masked(ran[i])
      /\ Len(c.body) <= 1
      /\ \A p \in 1..Len(c.body) : c.body[p].as \in {"json", "msgpack"} =>
           c.sentType \in {c.body[p].as, ""}

\* Answers after which the Context is not done: those without a body (a Response
\* that cannot be encoded is one), and those whose body goes past Context.Write.
Unmarked(h) ==
  \/ h.call.call = "WriteString" \/ Lost(h)
  \/ h.call.call = "File" /\ h.call.file \in {"unmodified", "moved"}
  \/ h.resp.kind = "file" /\ h.resp.file \in {"unmodified", "moved"}
  \/ h.resp.kind = "gen" /\ (h.resp.code = 204 \/ ~Writes(h.resp.codec, h.resp.value))
  \/ h.resp.kind = "redirect" /\ ~(h.resp.url /\ c.get)

\* Status and body come from one answer, however many middlewares and handlers
\* there are, unless one of the answers left the Context open or a handler
\* wrote and also returned a Response (ctx.go:318-327, group.go:146-174).
OneAnswer ==
  LET senders == {c.body[p].by : p \in 1..Len(c.body)}
                   \cup (IF c.sent = 0 THEN {} ELSE {c.sentBy})
  IN \/ \A s, t \in senders : s = t
     \/ \E i \in DOMAIN ran :
          Unmarked(ran[i]) \/ (Calls(ran[i]) /\ Returns(ran[i]))

-----------------------------------------------------------------------------
(* What a comment of the code says, and the code does not do *)

\* "logs the panic and returns a JSON 500 error response" (server.go:26).  An
\* error without a code panics in WriteHeader; gzipRW counts that header as
\* written, and the 500 goes out as a 200.
PanicsAnswer500 ==
  phase = "done" =>
    \A i \in DOMAIN ran : Panics(ran[i]) /\ Sole(i) => Sent = 500
=============================================================================
