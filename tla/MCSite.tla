------------------------------- MODULE MCSite -------------------------------
(* An instance of Site for TLC: what middlewares and handlers may do. *)
EXTENDS Site

\* While a request is served, registration is over: all that its steps read of
\* it is how many middlewares the group has.
MCView == IF phase = "setup" THEN vars
          ELSE <<siteVars, Len(Middlewares(group))>>

MCAdditions == {<<m>> : m \in Middleware} \cup {<<>>}

MCWrites ==
  {[call |-> "Write"], [call |-> "WriteString"]}
    \cup [call : {"Printf"}, code : {0, 404}]
    \cup [call : {"Encode"}, code : {404}, value : {"struct"}]
    \cup [call : {"EncodeCodec"}, codec : {"json", "plain"}, code : {0, 404},
          value : {"string", "struct", "unencodable"}]
    \cup [call : {"File"},
          file : {"served", "unmodified", "moved", "precondition", "missing"}]

MCReturns ==
  {Gen("json", 200, FALSE, "struct"), Gen("msgpack", 0, TRUE, "struct"),
   Gen("json", 204, FALSE, "struct"), Gen("plain", 404, TRUE, "struct"),
   Gen("json", 404, FALSE, "partly"), Gen("msgpack", 404, FALSE, "partly")}
    \cup [kind : {"cached"}, type : {"", "json"}, code : {0, 204, 404}]
    \cup [kind : {"redirect"}, url : BOOLEAN]
    \cup [kind : {"file"}, type : {"", "text"},
          file : {"served", "precondition", "missing"}]

MCHandlerDoes ==
  {Does(Quiet, r) : r \in MCReturns \cup {Nil, Break}}
    \cup {Does(w, Nil) : w \in MCWrites}
    \cup {Does([call |-> "EncodeCodec", codec |-> "json", code |-> 200,
                value |-> "struct"], Gen("json", 400, TRUE, "struct"))}

MCMwDoes ==
  {Does(Quiet, Nil), Does(Quiet, Break), Does(Quiet, Gen("json", 400, TRUE, "struct")),
   Does(Quiet, Gen("json", 204, FALSE, "struct")), Does([call |-> "Write"], Nil),
   Does(Quiet, Gen("json", 200, FALSE, "unencodable")),
   Does([call |-> "File", file |-> "precondition"], Nil)}

MCTypedDoes ==
  UNION {handleOutOnly(t, w, Value, {0, 404})
           \cup handleInOut(t, w, Value, {0, 404}) : t \in Codec, w \in BOOLEAN}
=============================================================================
