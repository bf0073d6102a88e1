----------------------------- MODULE Responses -----------------------------
(***************************************************************************)
(* What handlers can answer with: the writing methods of Context (ctx.go), *)
(* the Responses of genresp.go and resp.go, the codecs and the typed       *)
(* handlers of gen.go, as operators on the state of a Context and of the   *)
(* http.ResponseWriter below it.  That writer, http.ServeFile and          *)
(* http.Redirect are net/http's.  A body is the sequence of the parts that *)
(* were written to it, of which is kept who wrote them and in what format. *)
(***************************************************************************)
EXTENDS Integers, Sequences

Codec == {"json", "msgpack", "plain"}

\* What is encoded: "unencodable" is a value no codec makes anything of, "partly"
\* one whose encoding fails halfway.
Failing == {"unencodable", "partly"}
Value   == {"string", "bytes", "struct"} \cup Failing

\* What http.ServeFile finds: the file, one that the client has already, a path
\* that ends in /index.html, one whose precondition fails, or none it may read.
FileResult == {"served", "unmodified", "moved", "precondition", "missing"}

\* A Context as getCtx makes it: ctx.status, hijackServeContent and done, the
\* content type in the header map ("" for none), what was sent of the status
\* and the content type (0 while nothing was) and for whom, the body, whose
\* code runs, whether net/http panicked; whether a gzipRW is between, and its
\* wrote; whether the request is a GET and the codec its content type is for.
Fresh(gz, get, codec) ==
  [status |-> 0, hijack |-> FALSE, done |-> FALSE, type |-> "",
   sent |-> 0, sentType |-> "", sentBy |-> <<>>, body |-> <<>>,
   by |-> <<>>, panicked |-> FALSE,
   gz |-> gz, wrote |-> FALSE, get |-> get, codec |-> codec]

-----------------------------------------------------------------------------
(* The ResponseWriters: net/http's and gzipRW *)

\* The first WriteHeader counts; a code below 100 panics.
Commit(c, code) ==
  IF c.sent # 0 \/ c.panicked THEN c
  ELSE IF code < 100 THEN [c EXCEPT !.panicked = TRUE]
  ELSE [c EXCEPT !.sent = code, !.sentType = c.type, !.sentBy = c.by]

\* gzipRW remembers that it wrote before the header is written.
ensureHeaders(c, code) ==
  IF ~c.gz THEN Commit(c, code)
  ELSE IF c.wrote THEN c
  ELSE Commit([c EXCEPT !.wrote = TRUE], code)

\* A write commits to 200; a 204 and a 304 have no body.
Put(c, format) ==
  LET d == Commit(ensureHeaders(c, 200), 200) IN
  IF d.panicked \/ d.sent \in {204, 304} THEN d
  ELSE [d EXCEPT !.body = Append(@, [by |-> c.by, as |-> format])]

-----------------------------------------------------------------------------
(* Context *)

SetContentType(c, type) == IF type = "" THEN c ELSE [c EXCEPT !.type = type]

\* Mutant: the status of an error of http.ServeFile goes out.
WriteHeaderAnyway(c, code) == ensureHeaders([c EXCEPT !.status = code], code)

\* While http.ServeFile is at work (and after) an error's status is held back.
WriteHeader(c, code) ==
  LET d == [c EXCEPT !.status = code] IN
  IF c.hijack /\ code >= 400 THEN d ELSE ensureHeaders(d, code)

\* Mutant: the Context is not done.
WriteOutOnly(c, format) == Put(c, format)

WriteOut(c, format) == Put([c EXCEPT !.done = TRUE], format)

\* The body of such an error is replaced by a JSON response.
Write(c, format) ==
  IF c.hijack /\ c.status >= 400
  THEN LET d == SetContentType([c EXCEPT !.hijack = FALSE], "json")
       IN WriteOut(WriteHeader(d, d.status), "json")
  ELSE WriteOut(c, format)

\* Goes past Write.
WriteString(c, format) == Put(c, format)

\* The codecs.  Plain text of a string is written with io.WriteString, and there
\* is none of anything but a string or bytes.  JSON is encoded before it is
\* written; msgpack is written as it is encoded, so that a part may have gone out
\* before the error.
ContentType(codec) == IF codec = "plain" THEN "" ELSE codec

Writes(codec, value) ==
  CASE codec = "plain"   -> value \in {"string", "bytes"}
    [] codec = "json"    -> value \notin Failing
    [] codec = "msgpack" -> value # "unencodable"

\* Whoever calls Encode drops its error.
Encode(c, codec, value) ==
  IF ~Writes(codec, value) THEN c
  ELSE IF codec = "plain" /\ value = "string" THEN WriteString(c, "plain")
  ELSE Write(c, codec)

\* Context.Printf
Printf(c, code) ==
  LET d == SetContentType([c EXCEPT !.done = TRUE], "text") IN
  Write(IF code > 0 THEN WriteHeader(d, code) ELSE d, "text")

\* Context.EncodeCodec, and with it JSON and Msgpack; Encode takes the codec
\* from the request.
EncodeCodec(c, codec, code, value) ==
  LET d == SetContentType([c EXCEPT !.done = TRUE], ContentType(codec)) IN
  Encode(IF code > 0 THEN WriteHeader(d, code) ELSE d, codec, value)

\* Context.File: http.ServeFile.
File(c, file) ==
  LET d == [c EXCEPT !.hijack = TRUE] IN
  CASE file = "served" ->
         Write(WriteHeader([d EXCEPT !.type = IF @ = "" THEN "file" ELSE @], 200),
               "file")
    [] file = "unmodified"   -> WriteHeader([d EXCEPT !.type = ""], 304)
    [] file = "moved"        -> WriteHeader(d, 301)
    [] file = "precondition" -> WriteHeader(d, 412)
    [] file = "missing"      -> Write(WriteHeader([d EXCEPT !.type = "text"], 404),
                                      "text")

-----------------------------------------------------------------------------
(* Responses: "gen" is a GenResponse, "cached" a CachedResponse, "redirect" *)
(* and "file" what Redirect and File return.                                *)

Status(r) == IF r.code # 0 THEN r.code ELSE IF r.error THEN 400 ELSE 200

WriteGen(c, r) ==
  IF r.code = 204 THEN WriteHeader(c, 204)
  ELSE Encode(WriteHeader(SetContentType(c, ContentType(r.codec)), Status(r)),
              r.codec, r.value)

WriteCached(c, r) ==
  LET d == SetContentType(c, r.type) IN
  Write(IF r.code # 0 THEN WriteHeader(d, r.code) ELSE d, "cached")

\* An empty URL is an error nobody sees.  http.Redirect writes a page only if
\* it is a GET and no content type was set.
WriteRedirect(c, r) ==
  LET page == c.get /\ c.type = ""
      d == WriteHeader(IF page THEN SetContentType(c, "page") ELSE c, 302)
  IN IF ~r.url THEN c ELSE IF page THEN Write(d, "page") ELSE d

WriteFile(c, r) == File(SetContentType(c, r.type), r.file)

WriteToCtx(c, r) ==
  CASE r.kind = "gen"      -> WriteGen(c, r)
    [] r.kind = "cached"   -> WriteCached(c, r)
    [] r.kind = "redirect" -> WriteRedirect(c, r)
    [] r.kind = "file"     -> WriteFile(c, r)

-----------------------------------------------------------------------------
(* What a handler does: at most one call on its Context, then it returns nil, *)
(* Break or a Response.                                                       *)

Nil      == [kind |-> "nil"]
Break    == [kind |-> "Break"]

\* A GenResponse is a struct, and fails to encode if its Data does.
Gen(codec, code, error, value) ==
  [kind |-> "gen", codec |-> codec, code |-> code, error |-> error,
   value |-> IF value \in Failing THEN value ELSE "struct"]

Quiet    == [call |-> "none"]
Does(call, resp) == [call |-> call, resp |-> resp]

Call(c, m) ==
  CASE m.call = "none"        -> c
    [] m.call = "Write"       -> Write(c, "bytes")
    [] m.call = "WriteString" -> WriteString(c, "string")
    [] m.call = "Printf"      -> Printf(c, m.code)
    [] m.call = "EncodeCodec" -> EncodeCodec(c, m.codec, m.code, m.value)
    [] m.call = "Encode"      -> EncodeCodec(c, c.codec, m.code, m.value)
    [] m.call = "File"        -> File(c, m.file)
    [] m.call = "typed"       -> SetContentType(c, m.type)
    [] m.call = "typedBytes"  -> Write(SetContentType(c, m.type), "bytes")
    [] m.call = "typedValue"  ->
         Encode(SetContentType(c, m.type), m.codec, m.value)
    [] m.call = "typedError"  ->
         Encode(WriteHeader(SetContentType(c, m.type), m.code), m.codec, m.value)

\* handleError, of an error with this code (400 for one that is no HTTPError).
\* An HTTPError of the application's own may be unencodable; of a wrapped one only
\* the message is kept.
handleError(codec, wrap, type, code, value) ==
  IF wrap
  THEN Does([call |-> "typed", type |-> type], Gen(codec, code, TRUE, "struct"))
  ELSE Does([call |-> "typedError", type |-> type, codec |-> codec,
             code |-> code, value |-> value], Nil)

\* What follows the typed handler's return: type is the content type set so far.
Answered(codec, wrap, type, value) ==
  CASE wrap ->
         Does([call |-> "typed", type |-> type], Gen(codec, 200, FALSE, value))
    [] ~wrap /\ value = "bytes" ->
         Does([call |-> "typedBytes", type |-> type], Nil)
    [] OTHER -> Does([call |-> "typedValue", type |-> type, codec |-> codec,
                      value |-> value], Nil)

\* The handler of the application returns a value or an error.
Outcomes(codec, wrap, type, values, codes) ==
  {Answered(codec, wrap, type, v) : v \in values}
    \cup UNION {{handleError(codec, wrap, type, e, v) : e \in codes} :
               v \in values \ {"string", "bytes"}}

\* handleOutOnly (Get, Delete) and handleInOut (Post, Put, Patch); the body of a
\* request may be bad.
handleOutOnly(codec, wrap, values, codes) ==
  Outcomes(codec, wrap, "", values, codes)

handleInOut(codec, wrap, values, codes) ==
  {handleError(codec, wrap, "", 400, "struct")}
    \cup Outcomes(codec, wrap, ContentType(codec), values, codes)

\* DefaultPanicHandler, set by CatchPanics.
Recover(c) ==
  EncodeCodec([c EXCEPT !.panicked = FALSE], c.codec, 500, "struct")

\* A handler, or middleware, of the chain runs, and what it returns is written.
Handle(c, i, h) ==
  LET d == Call([c EXCEPT !.by = <<i, "call">>], h.call)
      e == IF d.panicked \/ h.resp \in {Nil, Break} THEN d
           ELSE WriteToCtx([d EXCEPT !.by = <<i, "response">>], h.resp)
  IN IF e.panicked THEN Recover(e) ELSE e
=============================================================================
