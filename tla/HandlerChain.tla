---------------------------- MODULE HandlerChain ----------------------------
(***************************************************************************)
(* One request served by a route: groupHandlerChain.Serve of group.go with *)
(* the closures ctx.nextMW and ctx.next, and Context.NextMiddleware,       *)
(* NextHandler and Next of ctx.go, which middlewares and handlers may call *)
(* from inside the loops that run them.                                    *)
(*                                                                         *)
(* The goroutine's stack is a sequence of what is still to be done, the    *)
(* innermost call first: "Next", "NextMiddleware" and "NextHandler" are    *)
(* calls about to be made, "nextMW" and "next" are the running loops, "mw" *)
(* and "h" the code of a middleware and of a handler, which do anything    *)
(* the constants allow.                                                    *)
(***************************************************************************)
EXTENDS Naturals, Sequences

CONSTANTS
  NM,             \* len(ghc.g.mw), the middlewares of the group
  NH,             \* len(ghc.hc), the handlers of the route
  MwCalls,        \* what middlewares call on the context
  HCalls,         \* what handlers call on the context
  Responses,      \* what they return besides nil: "body" is a Response whose
                  \* WriteToCtx writes a body, "noBody" one that does not
                  \* (a redirect, a 304, a 204), "Break" is Break
  PanicHandlers   \* what Server.PanicHandler may be: "none" is nil, "writes"
                  \* writes a response (the default), "silent" does not

Call == {"Next", "NextMiddleware", "NextHandler"}

ASSUME ChainAssumption ==
  /\ NM \in Nat /\ NH \in Nat
  /\ MwCalls \subseteq Call /\ HCalls \subseteq Call
  /\ Responses \subseteq {"body", "noBody", "Break"}
  /\ PanicHandlers \subseteq {"none", "silent", "writes"}

VARIABLES
  stack,          \* what the goroutine has to do
  mwIdx, hIdx,    \* how many middlewares and handlers were started
  nextMW, next,   \* ctx.nextMW and ctx.next are not nil
  done,           \* ctx.done
  panicHandler,   \* Server.PanicHandler, fixed before the server runs
  outcome,        \* "serving", "returned", or "panicked" out of Serve
  events          \* history: what middlewares and handlers did: the kinds of
                  \* responses they returned ("mwBreak" and "hBreak" for Break),
                  \* the panic handlers that caught them, and "NextHandler" if
                  \* a middleware called that

vars == <<stack, mwIdx, hIdx, nextMW, next, done, panicHandler, outcome,
          events>>
ctxVars == <<nextMW, next, done>>

Init ==
  /\ stack = <<"Next">>
  /\ mwIdx = 0 /\ hIdx = 0
  /\ nextMW = TRUE /\ next = TRUE
  /\ done = FALSE
  /\ panicHandler \in PanicHandlers
  /\ outcome = "serving"
  /\ events = {}

At(frame) == stack # <<>> /\ Head(stack) = frame
Below     == Tail(stack)
User      == At("mw") \/ At("h")

-----------------------------------------------------------------------------
(* ctx.go *)

\* Mutant: the other way round.
CallNextSwapped ==
  /\ At("Next")
  /\ stack' = <<"NextHandler", "NextMiddleware">> \o Below
  /\ UNCHANGED <<mwIdx, hIdx, ctxVars, panicHandler, outcome, events>>

\* Next calls NextMiddleware and then NextHandler, whatever the former did.
CallNext ==
  /\ At("Next")
  /\ stack' = <<"NextMiddleware", "NextHandler">> \o Below
  /\ UNCHANGED <<mwIdx, hIdx, ctxVars, panicHandler, outcome, events>>

CallNextMiddleware ==
  /\ At("NextMiddleware")
  /\ stack' = (IF nextMW THEN <<"nextMW">> ELSE <<>>) \o Below
  /\ UNCHANGED <<mwIdx, hIdx, ctxVars, panicHandler, outcome, events>>

CallNextHandler ==
  /\ At("NextHandler")
  /\ stack' = (IF next THEN <<"next">> ELSE <<>>) \o Below
  /\ UNCHANGED <<mwIdx, hIdx, ctxVars, panicHandler, outcome, events>>

-----------------------------------------------------------------------------
(* The loops *)

StartMiddleware ==
  /\ At("nextMW") /\ mwIdx < NM /\ ~done
  /\ mwIdx' = mwIdx + 1
  /\ stack' = <<"mw">> \o stack
  /\ UNCHANGED <<hIdx, ctxVars, panicHandler, outcome, events>>

\* Mutant: the loop's end is taken for a Break.
EndMiddlewaresBreaking ==
  /\ At("nextMW") /\ (mwIdx >= NM \/ done)
  /\ nextMW' = FALSE /\ next' = FALSE
  /\ stack' = Below
  /\ UNCHANGED <<mwIdx, hIdx, done, panicHandler, outcome, events>>

EndMiddlewares ==
  /\ At("nextMW") /\ (mwIdx >= NM \/ done)
  /\ nextMW' = FALSE
  /\ stack' = Below
  /\ UNCHANGED <<mwIdx, hIdx, next, done, panicHandler, outcome, events>>

StartHandler ==
  /\ At("next") /\ hIdx < NH /\ ~done
  /\ hIdx' = hIdx + 1
  /\ stack' = <<"h">> \o stack
  /\ UNCHANGED <<mwIdx, ctxVars, panicHandler, outcome, events>>

\* Mutant: a written response is a reason to go round again, not to stop.
EndHandlersSpinning ==
  /\ At("next") /\ hIdx >= NH
  /\ next' = FALSE
  /\ stack' = Below
  /\ UNCHANGED <<mwIdx, hIdx, nextMW, done, panicHandler, outcome, events>>

EndHandlers ==
  /\ At("next") /\ (hIdx >= NH \/ done)
  /\ next' = FALSE
  /\ stack' = Below
  /\ UNCHANGED <<mwIdx, hIdx, nextMW, done, panicHandler, outcome, events>>

-----------------------------------------------------------------------------
(* The code of middlewares and handlers *)

UserCalls(c) ==
  /\ \/ At("mw") /\ c \in MwCalls
     \/ At("h") /\ c \in HCalls
  /\ stack' = <<c>> \o stack
  /\ events' = events \cup (IF At("mw") THEN {c} \cap {"NextHandler"} ELSE {})
  /\ UNCHANGED <<mwIdx, hIdx, ctxVars, panicHandler, outcome>>

\* Context.Write, and what is built on it.
UserWrites ==
  /\ User
  /\ done' = TRUE
  /\ UNCHANGED <<stack, mwIdx, hIdx, nextMW, next, panicHandler, outcome,
                 events>>

\* A nil Response: the loop goes on.
ReturnNil ==
  /\ User
  /\ stack' = Below
  /\ UNCHANGED <<mwIdx, hIdx, ctxVars, panicHandler, outcome, events>>

\* Mutant: a middleware's Break does not take ctx.next away.
ReturnMiddlewareKeepingNext(r) ==
  /\ At("mw")
  /\ done' = (done \/ r = "body")
  /\ nextMW' = FALSE
  /\ stack' = Tail(Below)
  /\ events' = events \cup {IF r = "Break" THEN "mwBreak" ELSE r}
  /\ UNCHANGED <<mwIdx, hIdx, next, panicHandler, outcome>>

\* A middleware's Response: written, or Break takes the handlers away; the
\* innermost middleware loop ends.
ReturnMiddleware(r) ==
  /\ At("mw")
  /\ done' = (done \/ r = "body")
  /\ next' = (next /\ r # "Break")
  /\ nextMW' = FALSE
  /\ stack' = Tail(Below)
  /\ events' = events \cup {IF r = "Break" THEN "mwBreak" ELSE r}
  /\ UNCHANGED <<mwIdx, hIdx, panicHandler, outcome>>

\* A handler's Response: written, unless it is Break; the innermost handler
\* loop ends.
ReturnHandler(r) ==
  /\ At("h")
  /\ done' = (done \/ r = "body")
  /\ next' = FALSE
  /\ stack' = Tail(Below)
  /\ events' = events \cup {IF r = "Break" THEN "hBreak" ELSE r}
  /\ UNCHANGED <<mwIdx, hIdx, nextMW, panicHandler, outcome>>

\* catchPanic, deferred by the innermost loop, recovers; the loop returns
\* before it could set its closure to nil.
PanicCaught ==
  /\ User /\ panicHandler # "none"
  /\ done' = (done \/ panicHandler = "writes")
  /\ stack' = Tail(Below)
  /\ events' = events \cup {panicHandler}
  /\ UNCHANGED <<mwIdx, hIdx, nextMW, next, panicHandler, outcome>>

\* Nothing recovers and Serve panics.
PanicEscapes ==
  /\ User /\ panicHandler = "none"
  /\ stack' = <<>>
  /\ outcome' = "panicked"
  /\ events' = events \cup {"none"}
  /\ UNCHANGED <<mwIdx, hIdx, ctxVars, panicHandler>>

\* Serve returns.
Return ==
  /\ stack = <<>> /\ outcome = "serving"
  /\ outcome' = "returned"
  /\ UNCHANGED <<stack, mwIdx, hIdx, ctxVars, panicHandler, events>>

-----------------------------------------------------------------------------
Next ==
  \/ CallNext \/ CallNextMiddleware \/ CallNextHandler
  \/ StartMiddleware \/ EndMiddlewares
  \/ StartHandler \/ EndHandlers
  \/ \E c \in Call : UserCalls(c)
  \/ UserWrites
  \/ ReturnNil
  \/ \E r \in Responses : ReturnMiddleware(r) \/ ReturnHandler(r)
  \/ PanicCaught \/ PanicEscapes
  \/ Return

Spec == Init /\ [][Next]_vars

(***************************************************************************)
(* The goroutine runs.  For the code of middlewares and handlers this says *)
(* that it returns once it has nothing left to call that has an effect.    *)
(***************************************************************************)
FairSpec == Spec /\ WF_vars(Next)
                 /\ SF_vars(ReturnNil)
-----------------------------------------------------------------------------
(* Properties *)

\* No handler runs before every middleware was started, however the
\* middlewares nest their calls (group.go:142-178), unless a middleware called
\* NextHandler, or one returned a response or panicked and nothing was written.
HandlersAfterMiddlewares ==
  hIdx > 0 /\ mwIdx < NM => events \cap {"NextHandler", "noBody", "silent"} # {}

\* Once a middleware returned Break no loop over the handlers is entered any
\* more, whoever calls for it; only one that was running then goes on
\* (group.go:153).
BreakStopsHandlers ==
  [][/\ "mwBreak" \in events
     /\ \A i \in DOMAIN stack : stack[i] # "next"
     => hIdx' = hIdx /\ (\A i \in DOMAIN stack' : stack'[i] # "next")]_vars

\* Serve returns with a middleware or a handler not run only if one of those
\* that ran wrote, returned a response or panicked (group.go:146, 165).
NobodySkipped ==
  outcome = "returned" /\ events \subseteq {"NextHandler"} /\ ~done
    => mwIdx = NM /\ hIdx = NH

\* Serve ends.
Terminates == <>(outcome # "serving")
=============================================================================
