# Verification of gserv

TLA+ models of the concurrent and stateful parts of gserv, TLC configurations
that check them on small instances, and TLAPS proofs for instances of every
size.  `PROJECT.json` lists every run, every property with a mutation of the
model that breaks it, every definition with the source lines it stands for,
and the hazards the properties are aimed at.

    tlc -config SSERouterSafety.cfg MCSSERouter      # check an instance
    tlapm SSERouterProofs.tla                        # check the proofs

## 1. Inventory

| Part | State | Operations | Interacts with |
|---|---|---|---|
| SSE router, `sse/sse.go` | `Router.mss` (id to stream) under `r.mux`; per stream `clients` under `ms.mux`, the channel `data`, a goroutine; per client a channel | `Handle`, `Send`; inside `getOrMake`, `add`, `remove`, `removeIfEmpty`, `process`, `trySend` | one goroutine per request calls `Handle`; any goroutine calls `Send` |
| Single SSE stream, `sse/stream.go` | channel `wch`, the request's done channel, a goroutine that holds the `Context` | `NewStream`, `SendData`, `SendAll`, `Ping`, `Retry` | the Context pool (`ctx.go`), the gzip pool (`compression.go`) |
| Groups, `group.go` | per group a slice of middlewares, whose array it may share | `Use`, `SubGroup`, `AddRoute` | the chain reads the slice on every request |
| Handler chain, `group.go`, `ctx.go` | indexes of the next middleware and handler, the closures `ctx.nextMW` and `ctx.next`, `ctx.done` | `Serve`, `Next`, `NextMiddleware`, `NextHandler`, returning a `Response` or `Break`, panics | called by the path router; calls user code that calls back |
| Rate limiter, `ratelimit.go` | per key three counters and window openings under a mutex; a locked map of limiters; a cleaner goroutine | `Allowed`, `RequestsLeft`, `LastAction`, `Get`, `clean` | a middleware per request; the ticker |
| Server, `server.go` | `servers` under `serversMux`, `closed` (atomic), a watcher goroutine per `http.Server` | `Run`, `Close`, `Shutdown`, `Closed`, `Addrs`, `SetKeepAlivesEnabled` | `net/http`; handlers may call back |
| TLS, `ssl.go` | as `server.go`, plus a second listener per call; the host white list | `RunAutoCertDyn`, `RunTLSAndAuto`, `AutoCertHosts` | `server.go`, autocert |
| Path router, `router/` | routes by method and prefix (fixed once serving), a pool of params, a disabled flag per route | `AddRoute`, `Match`, `ServeHTTP`, `DisableRoute`, `cleanPath` | called by `net/http`; calls the chain |
| Response cache, `cache.go` | a locked map from tags to responses and header maps; a cleaner goroutine | `CacheHandler`, `cleanCache` | runs the handler under the map's lock |
| Context, `ctx.go`, `compression.go` | pooled `Context` and gzip writers; per request `status`, `done`, `hijackServeContent` | `getCtx`, `putCtx`, `File`, `Write`, `WriteString`, `WriteHeader`, `Printf`, `Encode` | the chain, SSE streams, `http.ServeFile` |
| Responses, `genresp.go`, `resp.go`, `codecs.go`, `gen.go` | what they leave in the Context | `WriteToCtx`, `Encode`, the typed handlers | the chain calls them, they call the Context |
| Static files, `utils.go` | a semaphore | `StaticDirWithLimit` | `Context.File` |
| Stateless: CORS, logging, proxy, swagger, `apiutils/`, options | none that outlives a call | adapters, header setters | |

What is hard about each, and what makes it correct:

- **SSE router.** `removeIfEmpty` decides under one mutex and acts under
  another; `Send` blocks on an unbuffered channel while it holds a read lock;
  three kinds of goroutines close, send on and receive from shared channels.
  Correct when no channel operation panics, nothing leaks, nothing deadlocks,
  and clients see their topic's messages in order, none twice.
- **Handler chain.** The loops are re-entered by the code they run and take
  away each other's closures.  Correct when handlers wait for middlewares, Break
  keeps handlers from starting, nobody is skipped without a reason, and it ends.
- **Rate limiter.** The clock is read before the lock, windows of three lengths
  are counted in cascade, the cleaner drops limiters that may be in use.
  Correct when no window grants more than its quota and none is lost.
- **Server.** `Run`, contexts and shutdowns meet in any order; `Shutdown` blocks
  with a lock held.  Correct when what was tracked stops, a graceful shutdown
  drains, and the calls return.
- **SSE stream and pools.** A stream's goroutine uses a pooled `Context` after
  the handler returned it, and nothing waits for it.  Correct when nobody shares
  what is pooled, goroutines end, what was accepted is written, and whatever
  goes astray is due to a goroutine that outlived its handler.
- **Response cache.** A handler runs under the map's lock, header maps are
  shared, an item's age is not looked at on a hit.  Correct when a response is
  made once, labelled as it is sent, bounded in age, and requests are answered.
- **Groups and responses.** Slices share arrays; a dozen ways to answer set, or
  do not set, the flag that stops the chain; a file's error is caught half way
  through `http.ServeFile`.  Correct when a group has the middlewares it was
  given, and a request gets the one answer it was given, as asked.
- **Path router.** `cleanPath` looks ahead and backtracks over a buffer that may
  not exist; `match` picks a prefix with no way back and compares a number of
  slashes with a number of parts; params are borrowed from a shared pool.
  Correct when no index is out of range, cleaning follows its rules, a request is
  served by a route that fits it, of those that fit by the one that is documented,
  and no request sees another's params.
- **TLS.** Two listeners, one of them untracked, and a channel of capacity two
  for up to four results.  Correct when the call returns and its goroutines end.

## 2. Modules

| Module | Models | Checked by |
|---|---|---|
| `EventBus` | what the SSE router promises (abstract) | refined by `SSERouter` |
| `SSERouter`, `MCSSERouter` | `sse/sse.go` | `SSERouterSafety`, `SSERouterLive` |
| `SSERouterProofs` | theorems about `SSERouter` | TLAPS |
| `HandlerChain`, `MCHandlerChain` | `group.go` `Serve`, `ctx.go` `Next*` | `Chain` |
| `RateLimit` | the arithmetic of `ratelimit.go`, as operators | used by the next two |
| `Limiter` | one `Limiter` and its concurrent callers | `Limiters` |
| `LimiterPool` | `Limiters`: the map, the requests, the cleaner | `Limiters` |
| `MCLimiters` | an instance of both: a behaviour is one of either, the other standing still | `Limiters` |
| `LimiterProofs` | theorems about `Limiter` and `LimiterPool` | TLAPS |
| `ServerLifecycle` | `server.go` | `Server`, through `TLSServers` |
| `TLSServers`, `MCTLSServers` | the calls of `ssl.go`, over `ServerLifecycle` | `Server` |
| `ServerProofs` | theorems about `HandlerChain`, `ServerLifecycle` and `TLSServers` | TLAPS |
| `ContextPool` | `getCtx`, `putCtx`, the gzip pool | the next two |
| `Stream`, `MCStream` | `sse/stream.go`, over `ContextPool` | `Streams` |
| `StreamProofs` | theorems about both | TLAPS |
| `ResponseCache`, `MCResponseCache` | `cache.go` | `Cache` |
| `ResponseCacheProofs` | theorems about it | TLAPS |
| `Groups` | `Use`, `SubGroup` and Go's `append` | `Site` |
| `Responses` | the writing half of `ctx.go`, `genresp.go`, `resp.go`, `codecs.go`, `gen.go`, as operators | `Site` |
| `Site`, `MCSite` | registration, then a request (composes the two) | `Site`, `SitePanics` |
| `SiteProofs` | theorems about `Groups` and `Site` | TLAPS |
| `CleanPath` | `cleanPath` and `bufApp` of `router/utils.go` | the next two |
| `CleanPathRules`, `MCCleanPath` | the rules of its comment (reference definition) | `CleanPath` |
| `CleanPathProofs` | theorems about `CleanPath` | TLAPS |
| `Router` | `router/v3.go`, `ServeHTTP`, the params pool | the next two |
| `RouterRules`, `MCRouter` | what the documentation promises of a match | `Router`, `RouterStars` |
| `RouterProofs` | theorems about the pool and about `match` | TLAPS |

Operators whose comment begins with "Mutant:" are deliberate mistakes that no
specification uses; each one breaks the property `PROJECT.json` pairs it with.

### SSERouter

`hpc[h]` is where a call of `Handle` is: `getLock` (in `getOrMake`, waiting for
or holding `r.mux`), `got` (it has the stream and is not registered), `serve`
(the select loop), `leave` (the deferred `removeIfEmpty` is about to run
`remove`), `retire` (`remove` said empty; it wants `r.mux`).  `spc[p]` is where a
`Send` is: `rlock` (held back by an announced writer), `reading`, `sending` (at
`ms.data <- b`).  `proc[s]` is the goroutine of a stream.

`r.mux` is modelled as `sync.RWMutex` is written, because a reader may block
while it holds it: `Announce` is the writer's taking of the inner mutex and its
subtraction from the reader count, which holds new readers back (`RLock` then
goes to `rlock`); `HoldsLock` is the departure of the readers that were active;
`Unlock` admits all readers that waited.  `ms.mux` never blocks anybody inside,
so its critical sections (`Add`, `Remove`, `Deliver`) are single steps.  A send
on the unbuffered channel is the joint step `HandOver`.

`Retire` does what the code does and not what it means to: the inner `ms` of
`removeIfEmpty` is whatever stream the id has now, so a handler can retire a
stream it never used.  A stream identity is memory, used again when neither the
map, a goroutine nor a handler refers to it.

The payload is the number of the message; `makeData` may fail (`SendBadData`).
The variables `log` and `last` are history for `EventBus`.

### EventBus

Subscribers receive messages of their topic in publishing order, none twice;
messages may be dropped.  A subscriber may receive one message that was
published before it joined and no older one: the goroutine may be delivering
when a client is added, and takes the mutex after the addition.  `SSERouter`
implements it with `sub` defined from `hpc` and `topic`.

### HandlerChain

One request.  `stack` is what the goroutine has still to do: calls about to be
made, loops that run, and user code, which calls, writes, returns or panics as
the constants allow.  `nextMW` and `next` say whether the closures are set.
Responses are told apart by what they do to `ctx.done`: one that writes a body
sets it, one that does not (a redirect of a POST, a 304, a 204 `GenResponse`)
leaves it alone, Break writes nothing.  `PanicHandlers` are nil, one that writes
(the default one) and one that is silent; a caught panic ends the innermost loop
before the line that would set its closure to nil.

### RateLimit, Limiter, LimiterPool

`Counted`, `Refusal` and `Wait` are `Allowed` between lock and unlock, `Count`
one of its three blocks.  An attempt refused by a longer window is not counted
in a shorter one; it stays counted in the longer ones.  `Stamp` and
`CountAttempt` of `Limiter` (`ReadClock` and `Attempt` of `LimiterPool`) are two
steps since the clock is read before the lock; `Report` is `RequestsLeft`, a later
critical section.

In `LimiterPool` each operation of the locked map is a step; between them are
the cleaner's `Check` and `Delete` and a request's `GetLimiter` (or
`MakeLimiter`), `ReadClock` and `Attempt`.  A tick of the cleaner may come at any
time and be late.  `Idle` allows for the fraction of a second that the tick has
and `LastAction` has not.

### ServerLifecycle

`rpc[r]` is where a call of `Run` is, `watch[r]` the goroutine made by
`newHTTPServer`, `cpc[c]` where a `Close` or `Shutdown` is; `mux` is the holder
of `serversMux` where it may block (the other critical sections are steps that
need it free).  Handlers may call `Addrs` or `SetKeepAlivesEnabled`.  What
`net/http` does is external: `Serve` accepts until the server is in shutdown,
`http.Server.Shutdown` waits for the tracked connections or its context,
`http.Server.Close` forgets them.  Connections hijacked by h2c or by handlers
are not tracked by `net/http` and not modelled.

### TLSServers

The https server of `RunTLSAndAuto` and `RunAutoCertDyn` is a `Runner` of
`ServerLifecycle`, whose actions it takes part in: it is watched, tracked, shut
down and served like that of `Run`.  `how[r]` says which of them a `Runner` is, a
call of `Run` (`Plain`), one of the two of `ssl.go` (`Secure`) or none; `Calls` are
the combinations.  `call[r]` is where the call itself is,
`http[r]` the listener on :80 that nobody tracks, `owed[r]` the results each of
the goroutines of `RunTLSAndAuto` has still to send, `ch[r]` those in the
channel.  A goroutine sends one result after a shutdown and two after an error,
the call receives one and the channel holds two.

### ContextPool and Stream

`phase[r]` follows a request through `Serve`: `putCtx` is two steps
(`ResetWriter`, then `putCtx`), since the gzip writer is anyone's before the
Context is.  `dest[c]` is the Context's `ResponseWriter` and `target[g]` that of
a gzip writer, so that what a stray goroutine writes goes where it goes in the
code: to the connection of whoever has the Context or the writer now, or to a
nil interface (`Crash`).  `net/http` cancels a request's context after the
handler returned and only then finishes the response; a client may go away at any
time.  `processStream` takes a step at a time, and its `select` takes any case
that is ready.  `out[r]` is what a connection got, by stream and number.

### ResponseCache

`MustGet` is `genh.LMap`'s: it returns an item or runs the function that makes
one under the lock of the map (`Miss` to `Store`).  That function is the user's
handler, which may call its own server and wait (`Call`, `CallReturns`).  A hit
takes time to copy the item's header map (`EndCopy`), which is the very map the
item's maker goes on writing to (`SetHeaders`, `Answer`): a write while a copy
goes on makes the writer a member of `raced`.  Of a header map only the label
`Content-Encoding: gzip` is kept.  The cleaner reads the clock, waits for the
lock and compares with what it read (`Wake`, `Clean`).

### Groups, Responses, Site

A slice in `Groups` is an array, a length and a capacity; `append` writes in
place or into a fresh array with some room to spare, as it likes.  `declared`
is the history a group's middlewares are compared with.

`Responses` is a record for the state of a Context and of the writer below it,
and an operator for each method of the code on it.  Of a body is kept which
handler wrote it, whether itself or by the Response it returned, and in what
format; `http.ServeFile` is the calls it makes on the Context for a file that is
served, unmodified, moved, fails a precondition or is missing.  A value may be
`unencodable`, or fail to encode halfway (`partly`): the codecs then write nothing,
msgpack what it had encoded by then, and their callers drop the error (`Encode`),
after `WriteGen` has sent the status.

`Site` registers groups, then serves one request to a route of one of them, with
middlewares and handlers that do one thing each (of those in `MCSite`).  The
middlewares call no `Next`, which `HandlerChain` has; `CatchPanics` is set.  The
view of `Site.cfg` drops the groups once the request is served: nothing reads
them any more but by the number of middlewares, and `MiddlewaresAsDeclared` is
about registration.

### CleanPath

One step is one turn of a loop of `cleanPath`; bytes are counted from 0 as there.
`Out(k)` is byte k of what was written, which is the path itself as long as `buf`
is nil; `bufApp` makes the buffer at the first byte that differs.  The inner loop
that backtracks is one step: it goes to the `k` that `StartsAt` describes.  An index
out of range disables the step it would be in and breaks `NoPanic`.
`CleanPathRules` states the comment's four rules on the elements of a path
(`Canonical`).  It also states what the comment leaves out: a path read as rooted,
and a slash kept at the end of a path that ends in a dot element or in a slash, if
it has more than two bytes (so `a/` becomes `/a` and `ab/` becomes `/ab/`).  Its
operators over bytes and elements are recursive functions, each with one operator for
a step (`Split`, `Resolve`, `Below`), so that they can be proved about.

### Router

Paths are what `cleanPath` returns: segments, and whether a slash ends them.  A
pattern is a sequence of parts with the type of `nodePart`; `Prefix` and `Parts` are
what `splitPathToParts` makes of it.  The map from prefixes to routes is the
registration order with a filter (`Under`).  `match` is an operator: `Key` is the
prefix that `revSplitPathFn` stops at, `nsep` counts slashes as the code does,
`Applies` compares the segments that `splitPathFn` yields, `Bind` makes the params.
`AddRoute` is not enabled where the code panics; a router that serves gets no
routes, as its comment says.

`params[x]` holds the matches whose params were appended to wrapper `x`, so a
wrapper that is returned full or twice shows; a wrapper that outgrew `maxParams` is
dropped.  `sync.Pool` may forget what it holds (`Forget`), which is also what
`Match` does to the wrapper it takes and never returns.  Between `match` and the
handler, and while the handler runs, other requests and `DisableRoute` go on.
`RouterRules` states the documented matching on whole patterns and paths, for
every path in `Asked`, in every table that registration can make: `Candidates` are
the routes with the longest registered literals of the path, and
`MatchesAsDocumented` says which of them is found.

Patterns whose parts are not a slash and a name each (a `:` inside a segment,
doubled slashes) are not modelled.

## 3. Runs

| Run | Instance | Shows |
|---|---|---|
| `SSERouterSafety` | 3 clients, 2 senders, 2 topics, 3 streams, buffer 2, 2 messages; 0.9 M states | no panic, no leak, `EventBus` implemented |
| `SSERouterLive` | 2 clients, 2 senders, 1 topic, 2 streams, buffer 2, 3 messages; 94 k states | `Send` returns, `Handle` gets in and out, goroutines end, `EventBus` implemented by buffers that overflow |
| `Chain` | 3 middlewares, 3 handlers, every call, response and panic handler | order, Break, nobody skipped, ends |
| `Limiters` | windows of 4, 2 and 1 seconds; 3 callers, 6 attempts, 8 seconds, or 2 requests, 2 keys, 3 limiters, 6 seconds; 0.7 M states | quotas, retries, what the cleaner drops |
| `Server` | 2 `Run`s or 1 call of `ssl.go`, one closer, one request, every kind of shutdown; 37 k states | drains, stops, returns, senders end |
| `CleanPath` | every path of up to 7 bytes over `/`, `.` and two letters; 0.26 M states | indexes, rules, the modified flag |
| `Router` | tables of up to 2 of 13 routes, every path of up to 3 segments, 2 requests, 3 wrappers; 56 k states | fitting routes, the documented one of them, private params |
| `Streams` | 2 requests of 2 and 1 messages, 2 Contexts, 1 gzip writer, buffer 1; 0.4 M states | owned Contexts, strays, ends, no message lost or reordered |
| `Cache` | 3 requests, compressed or not, 1 tag, a ttl of 1, 4 seconds; 0.7 M states | labels, races, ages, answers |
| `Site` | 3 groups, 4 arrays, 2 middlewares, up to 2 handlers, every kind of answer; 0.4 M states | own middlewares, one answer as asked |

Two runs state what a comment of the code says, and TLC finds the behaviour of the
code that is otherwise.  Section 5 has the other disagreements.

| Run | Comment | Found |
|---|---|---|
| `RouterStars` | `router/v3.go:212` | a wildcard loses to a route registered before it |
| `SitePanics` | `server.go:26` | a panic's 500 goes out as a 200 |

Bounds, and why they are enough:

- *SSERouter*: three clients are one that leaves, one that leaves after it and one
  that joins in between, which is what it takes to retire a stream under a newcomer;
  three streams are the retired one, its successor and that of the other topic.
  `MaxMsg` bounds the calls of `Send` by their outcome, so Sends that fail are
  unlimited.  A buffer of two holds two messages whose order can be wrong.  In
  `SSERouterLive` nobody need read it while three messages are sent, so that it
  overflows.  `BufSize` 0 is not covered: it makes `trySend` a rendezvous, which
  drops more and can do nothing else that is new.
- *HandlerChain*: with three of each there is a first, a middle and a last to be
  in when the chain is called again.
- *Limiter*, *LimiterPool*: the windows are scaled to 4, 2 and 1 seconds, `LastTime`
  covers two of the longest, `MaxAttempts` exceeds every quota.  `CheckDuration` is no
  shorter than the longest window, as 90 minutes are not to an hour; `MaxTime` lets a
  limiter become idle, be dropped and be made again.  The two have no step in common:
  they are in one run because they have the quotas in common.
- *CleanPath*: seven bytes hold an element, one that is removed, the `..` that
  removes it and slashes around them; two letters tell elements apart.  What does
  not depend on length is proved.
- *Router*: two routes are one that is chosen and one that is passed over; the
  patterns have every mix of literals, params and a star in three parts.  With
  three routes (1.1 M states) the same holds.  Two requests share a wrapper if
  anything does; a third wrapper is there for one that is forgotten.
- *Streams*: two requests are the one whose goroutine outlives it and the one
  that gets its Context or its writer; there is a second Context, so that it may
  also get none of them.  `BufSize` 0 is not covered: `send` then only succeeds
  when the goroutine waits.
- *Cache*: three requests are one that fills the cache, one it waits for and one that
  meets both.  In four seconds an item can become older than twice a ttl of 1, since it
  came after the cleaner read the clock and the cleaner then waited for the lock, in one
  round or in both: with any term of the bound of `AgeBounded` less by one it is
  exceeded.  A ttl of 0 (a duration below a second) was run with three seconds; other
  ttls are proved.
- *Site*: a parent, a subgroup and its sibling are what it takes to overwrite a
  shared array; with two middlewares and two handlers every answer meets one
  before and one behind it, of either kind.
- *ServerLifecycle*, *TLSServers*: two servers, since one may use up the deadline or
  block the loop; the listeners of one call of `ssl.go`, each of which may fail or be
  shut down.  There is no bound on the number of requests, `Close`s and `Shutdown`s,
  but one closer makes them, one after the other: with a second, which only loses,
  TLC takes more than five minutes.  What a `Close` does that loses to a `Shutdown`
  still waiting is therefore in no run (section 5); `GracefulDrainsHolds` and
  `OnlyHandlersBlock` are proved for any number.

Fairness: `SSERouterLive` and `Server` assume that a goroutine that can run
does, that a mutex is not withheld for ever from one goroutine (`sync.Mutex`
switches to handing over to the longest waiter after a millisecond, hence SF for
the steps that acquire) and that senders on a channel are served in order (SF
for `HandOver`).  Nobody has to connect, to leave or to send; a context need not
be cancelled.  In `Server` handlers return, though they may use the server any
number of times before, and the goroutines of `ssl.go` run as well; no listener
need fail.  `Chain` assumes that user code returns when it repeatedly could.
`Streams` assumes that `processStream` runs and that `net/http` cancels the context of
a request that was served; handlers need
not return.  `Cache` assumes that a request that looks something up is served, and
that one a handler waits for arrives; the cleaner runs within the second when the
lock is free.  Groups, responses, the limiter and the router have no liveness to
speak of.  Deadlock checking is
off where things really stop (a served request, a bounded clock, a closed
server, a cleaned path, a router with no memory for another wrapper).

## 4. Proofs

For all values of the constants, from the assumptions named in the modules that
declare them: `BufSizeAssumption`, `NoneAssumption`, `WindowAssumption`,
`QuotaAssumption`, `LimiterAssumption`, `CleanAssumption`, `PathAssumption`,
`NoWrapperAssumption`, `DefAssumption`, `AskedAssumption`, `PoolAssumption`,
`CacheAssumption`, `GroupsAssumption`, `ChainAssumption`, `KindAssumption`,
`NoCloserAssumption`, `SiteAssumption`, `DeedsAssumption`.  They say which
constants are numbers and that a `No...` value is none of its set.  Those that say
more: the windows are those of an hour, a minute and a second in this order
(`WindowAssumption`), the cleaner waits at least an hour (`CleanAssumption`; the
code, 90 minutes), and handlers answer with no status or one from 200 to 599
(`DeedsAssumption`; `net/http` panics on codes that are none, and takes those below
200 for answers to come).  `BoundAssumption`, `AutoHeadAssumption`,
`StreamAssumption` and `CallAssumption` are used by no proof; TLC evaluates them.

Every inductive invariant below was first checked on the instance of its run.

**`SSERouterProofs`**: `TypeCorrect`, `NeverPanics`, `StreamsAreOwned`,
`GoroutinesAreOwned`, `SendersHoldStreams`, `BusRefined`, `NoCyclicWait`,
`NoDeadlock`.  The inductive invariant
`IInv` adds to the types: a delivering goroutine holds a message (`HeldOK`); calls
have their arguments (`ArgsOK`); a client is in `clients` exactly between `add` and
`remove`, with its channel open (`ClientsOK`); mapped streams are open, unshared and
used for one topic (`MapOK`); a blocked sender's stream is its topic's
(`SendersOK`), which no writer can change since `HoldsLock` needs the readers gone.
`NoPanic` is not inductive alone: that a closed stream is never sent on needs that
it is unmapped in the step that closes it and that a reader pins the map.
`BusRefined` is the step simulation of `EventBus`: each step publishes, delivers,
subscribes, leaves, or stutters.  That a message which is delivered is its
subscriber's next needs to know what is under way: the goroutine of a mapped stream
holds the latest message of its topic (`HeldIsLatest`), what is in a client's
channel is its topic's, in order and not yet written (`QueuesOK`), and the message
held is newer than that (`HeldIsNew`).
`NoCyclicWait` is what `SendReturns` and `HandleProgresses` rest on.  Readers wait
only for an announced writer, which is at one of its two `Lock` calls (`LockOK`), that
one for the active readers, and these for a goroutine that ranges over a channel that
is open, since a mapped stream has one (`GoroutineOK`).  From it follows `NoDeadlock`:
while a `Send` is out or a `Handle` call wants `r.mux`, a reader, a goroutine or a
writer can go on.  A writer in `getOrMake` still needs memory for a stream, which is
the bound of the model on `Stream`.

**`LimiterProofs`**, of one limiter: `LimiterTypes`, `QuotaKept`, `ReportsCount`,
`RetryMeetsOthersHolds`.  The grants of a window are among the attempts counted in
it, and an allowed caller was counted in every window; `CountOne`, `StagesCounted` and
`AttemptCounted` carry this through the cascade.  That the window of the second refuses
no retry needs that it was opened within the longer ones, or within older ones
(`SecondInside`), also when clock readings are counted out of order.
`ReportsCount`, that what an allowed caller is told to
have left never includes the request it just made, is proved and in no run.
Of the pool: `KeyQuotaHolds` and `DropsOnlyExpiredHolds`.  The quota of a key is
about all the limiters it ever had, so that the invariant has to remember: windows
of a key do not overlap and none has more than its quota (`Windows`), the limiter a
key has now counted what was allowed in its own windows while the others were over
before they opened (`CountedBy`), and a key without one has no window that is not
over (`Over`).  That dropping a limiter makes `Over` true is that the cleaner saw it
idle for longer than the longest window and nobody was in between (`CleanerOK`, and
`Attached`, which says that a request has the limiter of its key, until `raced`).

**`CleanPathProofs`**, for paths of every length over any bytes: `NeverPanics`,
`TellsModified`, `NoRuleApplies`, `ClearPathsStay`, `RulesFollowed`.  Writing stays
behind reading, and one byte further behind wherever a slash is to be added
(`BehindOK`, `TrailingOK`); an unrooted path has a byte more of room (`Extra`).  A
rooted path has a buffer only once a byte was dropped for good, so that what is
written is shorter than the path from then on, and an unrooted one has one from the
start (`LagsOK`): the flag is exact.  `NoRuleApplies`: what is returned is rooted
and has no empty element and none that is `.` or `..`.  What is written has none so
far (`Separate`, `NoneClosed`, `NoneOpen`), and the element in progress is a copy of
one of the path's that is neither (`Copies`); backtracking leaves a prefix whose
last element was closed before.  `ClearPathsStay`: of such a path everything is
written where it stands (`IdleOK`), so that it is returned unmodified.  Together,
cleaning twice is cleaning once.

`RulesFollowed` proves `FollowsRules`: what is returned is the path that the rules make
of the elements, for paths of every length.  There is a lemma for each recursive
function of `CleanPathRules` that says what it makes of nothing and of one more byte
or element (`ElementsGrows`, `KeptGrows`, `JoinedGrows`).  They rest on `Recursion`
and `SameValue`, that a function defined step by step is there and is the only one;
and these on `UpTo`, induction over a set of numbers, which follows from the library's
`WFMin`.  Of the first r bytes, `Ready` are the elements that a slash ended, with the
rules applied, and `Partial` is the one that goes on (`ReadByte` says how a byte
changes them).  The invariant (`RulesOK`) is that what is written is the rooted path
of what is left of the bytes read, while an element is copied that of `Ready` and of
`Partial` below it, and that `trailing` is what the rules say of the end.  Backtracking
finds the slash before the last element that is left, because names have none
(`LastStarts`).

**`RouterProofs`**: `ParamsStayPrivate`.  A wrapper in use is not in the pool, no two
requests have the same one, and those in the pool are empty.  `MatchesFit` and
`FoundAsDocumented`, for every table and every path: routes are what `AddRoute` makes, a
prefix of literals and parts that begin with a param, a star being last (`TableOK`).
That the least route and the longest prefix exist, so that `CHOOSE` means what the
loops do, is well-foundedness of the naturals (`LeastExists`, `GreatestExists`).

**`StreamProofs`**: `ContextsAreOwned`.  Contexts and gzip writers in use are not in
their pools, no two requests have the same one, and a request's data is its own.
Added to that: the Contexts in the pool hold no data, which is why `getCtx` need not
reset what `putCtx` did.  That goroutines which outlived their handlers go on using
Contexts does not break it: they write, but take nothing and return nothing.
`StraysOnlyOutlivedHolds` is about what they write: the Context of a goroutine whose
handler has not returned is its request's own, so that it writes to the request's
connection, and to a writer that has one.
`NoMessageForgotten` is what `AcceptedIsWritten` rests on, and says more: no message is
lost while the goroutine runs, nor written twice or out of order on a connection,
also by goroutines that outlive their handlers.  The buffer holds the messages
accepted last and the goroutine the one before them (`BufferOK`); connections have
all the others, each once (`OutOK`), and what a Context writes to is a connection, or
a gzip writer that was pointed at one (`LinksOK`).

**`ResponseCacheProofs`**: `RunsOnce` (of `MadeOnce`, which is
in no run: it rests on the atomicity of `MustGet`), `LabelsMatch`, `OnlyMakersRace`,
`HitsAreYoung`.  Whoever runs the handler holds the lock and finds its key empty
(`Locked`), a key says whether its request is compressed (`Keyed`), and an item is
the work of a request that stored it and is compressed as its key says
(`ItemsMade`, `GotMade`, `RacersMade`); so a header map that is copied has the label
of the request it is copied for.  `HitsAreYoung` needs of the cleaner only that what
its last round left was young by the clock it went by, or is newer (`AgeInv`).
`OnlyReentryBlocks` is what `Answered` rests on: the holder of the lock runs its
handler, and if that waits, then for a request other than its own (`WaitsOK`), which
goes on unless it asks the same map.

**`ServerProofs`**, of a chain of any length, whatever its code calls, writes,
returns or throws: `HandlersAfterMiddlewaresHolds`, `NobodySkippedHolds`,
`BreakStopsHandlersHolds`.  The invariant is about the frames of the stack.
Middlewares and handlers run in loops of their kind (`Nested`); a loop over the
handlers, or a call about to start one, has middlewares to run above it unless their
turn is over or somebody wrote (`HandlersWait`); as long as nothing happened that
ends a loop early, what is left of `Serve`'s own call of `Next` runs whoever did not
run yet (`ServesAll`); a middleware's Break took `ctx.next` away
(`BreakTakesNext`).

Of the lifecycle, for any number of calls and requests: `GracefulDrainsHolds`, and
`SecureServersDrain` for the steps of `ssl.go` as well.  Who is in the loop over
`servers` holds `serversMux` (`Exclusive`), so that the list is the one it began
with; the servers the loop is through with are in shutdown (`InLoop`) and, unless
there was a deadline, without connections (`Emptied`), which stays so since a server
in shutdown accepts nothing.
`OnlyHandlersBlock`, and `SecureServersBlockNobody` with those of `ssl.go`, are what
`ClosersReturn` and `TrackedServersStop` rest on: the holder of `serversMux` is at a
server of its loop or past the last, and waits only for a deadline or for handlers
that run, unless one of them wants the mutex (`Stuck`).  A connection is tracked just
while its request is handled (`ConnsHandled`), and a closer in its call has its kind
(`KindKnown`).

Of the results of `RunTLSAndAuto`: `SendersHaveRoomHolds`, that the results still owed
once it has returned fit into its channel unless both listeners failed.  By
`ResultsOK` those not received and the one that was are at most two for each listener
that failed and one for each that was shut down.  It is what `SendersEnd` rests on.
`ResultForCallHolds` is what `SecureCallReturns` rests on: while the call waits, its
https listener being over, a result is in the channel or on its way with room for it.
Whoever ends owes one, and only the call takes any (`Awaited`).

**`SiteProofs`**, of the groups: `MiddlewaresKept`, for any number of groups and any
capacities `append` chooses, and `ServedAsDeclared`, since serving changes no slice.
Not inductive alone: that `append` in place overwrites nobody's middlewares needs
that of the slices that share an array only one of the longest has room (`Apart`).
`SubGroup` keeps that: without middlewares of its own it shares the parent's array,
but the full-slice expression leaves it no room there.

Of the answers, for any middlewares and handlers: `AnsweredAsAskedHolds` and
`OneAnswerHolds`.  There is a lemma for each operator of `Responses` that says what
it may have sent and in whose name, also where encoding fails or a panic is
recovered.  By `SiteInv` the Context is as new while nobody answered (`Clean`);
whoever is alone in answering got what he asked for (`Granted`; gzip masks the
status of a panic); and unless somebody answered twice or left the Context open
(`Loose`) all that was sent is of one sender, who marked it as done or is followed
by nobody.

Only model-checked: everything under fairness (`SendReturns`, `HandleProgresses`,
`ProcessEnds`, `Terminates`, `TrackedServersStop`, `CancelStopsRun`,
`ClosersReturn`, `StreamEnds`, `AcceptedIsWritten`, `Answered`, `SecureCallReturns`,
`SendersEnd`), since the prover has neither ENABLED nor a rule for it.  What most of
them rest on can be said of a single state, and that is checked and proved: nobody
waits in a circle, or for what nobody does (`NoDeadlock`, `OnlyHandlersBlock`,
`OnlyReentryBlocks`, `ResultForCallHolds`, `SendersHaveRoomHolds`; their statements
stand in the proof modules, since the runs check the liveness itself).  That user
code and goroutines then go on is the fairness.

## 5. Where the code and its documentation differ

Behaviours that the models have because the code has them, and that the docs and
comments do not say, or say otherwise.  Two of them are shown by a
run whose property is the comment (`RouterStars`, `SitePanics`).  The properties of
the other runs hold with these behaviours; where one has an exception, it is one of
these.

SSE router, limiter, server:

- the cleaner-up may retire a stream in use (`sse/sse.go:89`): a client that joins
  while the last one leaves may be left on an unmapped stream, and `Send` returns
  "no registered listener" while it is being served;
- a key can get a second quota (`ratelimit.go:206`): the cleaner drops a limiter
  that was used since it looked (hence `KeyQuotaUnlessRaced`);
- the wait of a refusal is that of one window, while it is said to last until the
  next request can be made (`ratelimit.go:97`): the hour or the minute may refuse the
  retry, be it that the refused attempt was counted there, or that the minute is not
  over when the hour is (`RetryMeetsOthers` says which may); `LastAction` is the
  youngest window's opening
  (`ratelimit.go:144`);
- `Shutdown(0)` waits with the lock held for handlers, which may be waiting for
  the lock in `Addrs` (`server.go:277`; `ClosersReturn` excepts it);
- `Run` serves on a server that was closed (`server.go:197`); `Close` during a
  `Shutdown` that waits closes nothing (`server.go:240`), though it is said to close
  all servers and connections immediately (`server.go:238`); the watcher of a server
  lives until its context is done, long after the server (`server.go:146`);
- the listener on port 80 is tracked by nobody and survives `Close`, `Shutdown`
  and the context (`ssl.go:122`, `ssl.go:263`); a goroutine of `RunTLSAndAuto`
  whose listener fails sends twice (`ssl.go:265`, `ssl.go:267`), and when both fail
  the last send has neither room nor receiver (hence the case in `SendersEnd`).

Streams and cache:

- a `Context` must never be used outside its handler (`ctx.go:43`), but the
  goroutine of a stream is one that does (`sse/stream.go:44`): what it writes after
  the handler returned may reach the next request's connection, or a nil
  `ResponseWriter` (`StraysOnlyOutlived` says when);
- the header map stored with a cached response is the one its request goes on
  writing to (`cache.go:71`), unlocked, while hits copy it (`RacesOnlyWithMaker`);
- a hit's age is not looked at (`cache.go:64`), and the cleaner compares with a
  clock it read before it had the lock (`cache.go:23`), so that an item may be sent
  with a `max-age` it has exceeded (`AgeBounded` says by how much);
- a handler that asks its own server for something of the same cache waits for
  itself (`cache.go:65`; `Answered` excepts this).

Chain and responses:

- "any returned responses won't be written out" (`ctx.go:196`, `ctx.go:214`,
  `ctx.go:220`), but the loops write a returned response whatever `ctx.done` is
  (`group.go:151`, `group.go:170`): a handler that does both answers twice;
- a response without a body (a redirect of a POST, a 304, a 204) does not break
  the chain (`group.go:165` against `group.go:18` and `ctx.go:302`);
- nor does one that cannot be encoded: its status is sent (`genresp.go:84`), the
  error is dropped, `ctx.done` is not set, and what the next handler writes goes out
  under that status (`Unmarked` in `OneAnswer`);
- Break under a nested call ends only the innermost loop (`resp.go:27`), and
  `NextMiddleware` does not panic in a handler (`ctx.go:288`);
- a plain response never gets a body: its codec encodes strings, bytes and readers,
  and is given the response itself (`codecs.go:78`, `genresp.go:150`);
- a string written through `WriteString`, which the plain codec does, does not mark
  the Context as done, and the chain goes on (`codecs.go:72`);
- the typed handlers without a wrapped response set no content type for `GET` and
  `DELETE`, nor for an error in decoding a body (`gen.go:107`, `gen.go:153`);
- an error of a typed handler with no code of its own makes `WriteHeader(0)` panic
  (`gen.go:153`); under gzip the writer counts as written by then, so that the
  JSON 500 the panic handler is said to return (`server.go:26`) is sent as a 200
  (`SitePanics`; `Masked` in `AnsweredAsAsked`);
- the panic handler encodes for the content type of the request, which need not
  be JSON (`server.go:31`);
- `File` holds back the status of an error until `http.ServeFile` writes its body
  (`ctx.go:310`, `ctx.go:319`); a failed precondition has no body, so that its 412
  is never sent (`Lost` in `AnsweredAsAsked`); what holds it back
  stays set when `File` returns (`ctx.go:109`).

Path router:

- with a slash at the end the last part of a route is not compared
  (`router/v3.go:249`): `GET /users/5/` runs the handler of `/users/:id/edit`, and
  `/users/` that of `/users/:id`, with no id (`ServedByFit` and
  `MatchesAsDocumented` leave these paths out where no route has a star);
- `ServeHTTP` never looks for a HEAD handler unless `NoAutoHeadToGet` is set, so
  that one that is registered is not run (`router/router.go:50` against
  `router/doc.go:89`), while `Match` and `DisableRoute` find it
  (`router/v3.go:184`);
- a wildcard route wins within its group only if it was registered first
  (`router/v3.go:244` against `router/v3.go:212`; `RouterStars`);
- a star after another param gets all that is behind the prefix, the other
  param's segment included (`router/v3.go:279`), and between the prefix and the
  star nothing is compared;
- a shorter prefix is not tried when nothing under the longest applies
  (`router/v3.go:230`);
- `Match` takes a wrapper from the pool and never returns it, and a handler that
  panics loses its own (`router/router.go:63`).

## 6. Not modelled

- *Adapters and header setters* (`apiutils/`, `proxy.go`, `options.go`, secure
  cookies, the request log, `joinPath`): they keep nothing between calls and decide
  nothing another part depends on; a unit test reaches what they do.
- *CORS* (`mw.go`): the matching of origins is a comparison of strings.
- *`StaticDirWithLimit`'s semaphore*: taken before and given back by a `defer`
  after one call of `File`, which is modelled.
- *`AutoCertHosts`, the certificate manager*: a set under a lock, and autocert.
- *Swagger* (`router/swag.go`): builds a document once, while routes are added.
- *The old SSE implementation*: excluded from the build.
- *Reading*: `BindCodec`, decoding, cookies, forms: the decoder is a library's;
  that it fails is an answer of `Responses`.
- *A handler that panics inside `MustGet`* (`cache.go:65`): the panic unwinds through
  the critical section of `genh.LMap`, which is not in this repository; whether the
  lock is given back is up to it.  `Answered` and `OnlyReentryBlocks` are about
  handlers that return.
- Of modelled parts: `MixedCodec` and the client side of `GenResponse`; `Cached()`,
  which encodes ahead (the cache's item is a response as it is); empty files and
  `HEAD` requests in `Responses`; middlewares that call `Next` in `Site`
  (`HandlerChain` has them); a `ttlDuration` of 0 or less, for which there is no
  cleaner, and tags that themselves end in `:0` in `ResponseCache`; an unbuffered
  stream (`BufSize` 0); connections hijacked from `net/http`; patterns with a `:`
  inside a segment.

## 7. Plan

Done: the SSE router, the chain, the limiter and its pool, the server's life and
the calls of `ssl.go`, path cleaning and the router, single streams with the
pools they share, the response cache, groups, responses and their composition;
a theorem for every safety property a passing run checks; and, of what liveness
rests on, that nobody waits in a circle or for what nobody does.

What is left is liveness itself, which needs a prover with ENABLED, and the parts of
section 6.
