# A formal model of oxide-http

oxide-http is an HTTP server for Node.js. A Rust core on tokio and hyper accepts
connections, routes, validates, caches and limits; handlers and hooks run on the
single JS thread. This directory models the parts in which threads, callbacks,
timeouts and shutdown meet, and the decisions at the edge that every request
goes through. It holds TLA+ modules, the TLC configurations that check them on
small instances, and TLAPS proofs. `PROJECT.json` lists the runs, the source
lines behind every definition, mutants that show each property can fail, the
findings and the hazards.

    tlc -config MCBridge.cfg MCBridge      # a run
    tlapm BridgeProofs.tla                 # the proofs

## 1. The system

| Component | Where | State | Operations |
|---|---|---|---|
| Bridge | bridge.rs, end of `dispatch` in server.rs, `#drainBatch`/`#dispatch` in index.ts | ticket counter, `pending` table, `queue`, doorbell, `active` | enqueue, takeBatch, takeBody, respond, waitAbort |
| Overload protection | overload.rs, `handle` in server.rs | semaphore, `queued`, saturation streak, `overloaded` | acquire, release, should_shed |
| Connections and shutdown | `serve`, `serve_conn`, `drive` in server.rs, idle.rs, `listen` and `close` in lib.rs | stage channel, `live`, gauge, drain tokens, request guards | accept, handshake, request, graceful close, idle close, close() |
| Readiness | health.rs, `setReady`, `readyCheck` and its timer in index.ts, the admin port | `ready`, `shutting_down`, `overloaded`, reason, ticks under way | setReady, check tick, /healthz, /readyz |
| Response cache | cache.rs, `dispatch` | entries with expiry, path and key | key, lookup, maybe_store, purge |
| Pipeline | pipeline.ts, `#handleRequest`, context.ts | the context: response, `_finalized`, `_settled` | hooks, onion, handleError, withTimeout, onAbort |
| Server object | index.ts, `state`/`active` in lib.rs | `#listening`, `#closing`, `#closed`, `#autostart`, signal registry | listen, close, inject, signals |
| Routing | router.rs, `use`/`route`/`#add`/`#applyMounts` in index.ts, `buildChain` in pipeline.ts | lists of routes, middleware, hooks and mounts; one tree per method | register, mount, match, Allow |
| CORS | cors.rs, `handle_inner` in server.rs | none | preflight, headers of an answer |
| PROXY protocol | proxy_protocol.rs, `serve_conn` | bytes read, leftover to replay, peer address | read a prefix, v1, v2 |
| Bodies, multipart | stream.rs, multipart.rs, `read_body_task` | body channels, limits, current part | read, write, next_part, read_part |
| Schema, decompression | schema.rs, compress.rs | none | validate, decode |
| Metrics, access log | metrics.rs, server.rs | counters, log queue | /metrics |

**How they interact.** The accept loop (Shutdown) takes a connection, whose PROXY
prefix may say who the client is (ProxyProtocol). The connection task calls
`handle`, which passes the limiter (Overload), then the edge (Edge: preflight,
length, route table), then `dispatch`, which may answer from the cache (Cache)
or hands the request to JS through the bridge (Bridge). JS runs the chain of the
route (Routing, Pipeline), may read the body (BodyIo), and answers with the
synchronous `respond`. The server object (Server) creates and ends all of this;
`close()` first drops readiness (Readiness), then stops the accept loop, waits
for the drain, switches the bridge methods off and destroys the runtime.

**What is hard here.** Rust tasks on several threads share atomics and locks with
one JS thread that is woken by a coalescing doorbell. hyper drops a request's
future at any await when the client leaves, so that code after an await may
never run. JS code continues after awaits with facts that may be stale.
Timeouts race the work they bound. Shutdown races all of it. Bytes arrive in
pieces cut anywhere. Bases, prefixes and mounts are folded into one table when
listen() is called, and a middleware that is lost there is missed by no
request. The hazards in `PROJECT.json` name the lines.

## 2. The modules

One step is one critical section, one atomic operation, or what the JS thread
runs between two awaits. Comments above each action name the code it stands for.

- **RequestReply** is what the bridge promises to a connection task: at most one
  handler call per request, and an answer only from that call, or a refusal when the
  call could not start.
- **Bridge** is `Bridge::enqueue` in its three parts (register, publish, ring),
  `take_batch`, `take_body`, `respond`, the oneshot each task awaits, the abort
  guard, and the JS side up to the response. Handlers are arbitrary: they may
  read the body or not, answer buffered or streamed, or fail, and one that was
  answered by its timeout may ask for its body afterwards. A ticket is a
  number below `IdSpace` (2^32 in the code). `lapped` records that a ticket was
  drawn again while its first holder was still unanswered; then `insert`
  replaces a live entry, and the promise is withdrawn. `strays` records the requests
  whose body went to an answered handler that had the same ticket before them.
- **Overload** is `Limiter::acquire` atomic by atomic, with the queue, its timeout,
  the saturation streak and the verdict that drops readiness, and `handle`
  around it. `Disconnect` is a future dropped at one of its awaits: tokio's
  semaphore cleans up after it, the plain counters do not. A released permit
  goes to any waiter (tokio: the oldest); no property depends on the order.
  A clock read is a step of its own beside the atomic it belongs to (`MarkSaturated` and
  `MarkExchange`, `LoadSince` and `ShouldShed`); `overtaken` and `staleOrigin` record
  that a clear of the streak fell between the two.
- **Shutdown** is the start of the listeners, the accept loop with its limit, the
  connection task from spawn to the drop of its drain token, the idle watchdog,
  `inject` tasks, and `close()` with both deadlines. There is no clock: a timer
  may expire at any time after its start.
- **Readiness** EXTENDS Shutdown with the flags of health.rs, `setReady()`, the
  periodic `readyCheck` whose ticks may overlap, and the probes on a port of
  their own, whose accept loop ends when the stage is CLOSING, like the main one,
  or with the runtime.
- **Cache** is one cached route with a body schema, for GET, auto-HEAD and QUERY.
  Responses are told apart by what `maybe_store` looks at. The body hash is
  injective.
- **Pipeline** is one request in JS. Hooks, middleware and handler may write the
  response at any time while they run, return, throw or never settle; the model
  keeps who wrote the response last. The "before" stages are one sequence, and
  so are preSerialization and onSend: the code treats them alike.
- **ProxyProtocol** is the reader of the prefix: a connection is the shape of what its
  client sends (where the line ends, what the header says, how many bytes there
  are), cut into reads at any of `Cuts`, ended or timed out between them, and
  the leftover that is replayed to hyper.
- **Routing** holds the registration of an application as operators. An application
  is what it wrote for each of its Server objects; `use`, `addHook`, `add` and
  `route` make the lists of a Server of the calls on it, `applyMounts` folds the
  lists of mounted Servers into those of the one they are mounted in (a recursive
  function over the Servers), `ChainOf` is the chain `buildChain` selects, and
  `match_route` and `allowed_methods` are those of router.rs. `Declared` says
  what a declaration means without any of it: everything has a place, and covers
  what lies at or below; `Scopes`, `Places` and `Serves` are taken from it. A path
  is the sequence of what stands between its slashes. matchit is external.
- **Edge** EXTENDS Pipeline, ProxyProtocol and Routing: listen() folds the mounts and
  may fail and be called again, a
  connection brings its prefix and a request, the request is a preflight, too
  large, matched, unknown or of the wrong method, and a matched one runs its
  chain in Pipeline and answers with its CORS headers.
- **Server** is the server objects of a process. The native `close` and `inject`
  are asynchronous, so their bodies run later than the call, and an `inject`
  task may be aborted with the runtime. Event listeners are application code that
  runs inside listen() and close(): those of the `Meddlers` may throw, and one of
  'shutdown' may call close() before `#closing` is assigned, which makes a second run
  of its body (`Runs`). A listener that calls close() without guarding itself recurses
  until the stack is full, and is not modelled. `late` records that a server was started
  after `close()` had been called. All servers handle signals, which is the
  default.
- **Body** is a regular request body from the request head to the handler, and the
  response body: the early refusal by Content-Length, `buffer_body`,
  `read_body_task` frame by frame, the channels of capacity 1, the JS readers with
  their limit and decompression, the response pump and `ChannelBody`. A frame is
  the offset at which it ends. The handler may collect, stream, stop in the middle or never read.
- **Multipart** is `parse_task` event by event, `next_part` and `read_part` under the
  lock of `BodyIo`, the part iterator and the readers: every stream, text() or
  arrayBuffer() of a part object is a reader, a part object may make several, also when
  the iterator has moved on, and all of them read from the one event channel.
  Outstanding calls may get the lock in any order, because napi runs each as a task of
  its own. `strayed` records that the handler did not read the parts one after the
  other, each by one reader. The iterator is taken once.
- **BodyIo** puts the two together: a request has a regular body or a form.

`MC*` modules hold the instances, `*Proofs` modules the theorems.

## 3. The runs

| Run | Instance | Shows |
|---|---|---|
| `bridge` | 3 requests (one watched), 2 tickets | no lost wakeup; what JS sees is registered; no response reaches another request, and no body, except to a handler that asks after its own answer; a streamed response has its writer; onAbort only for dropped requests; no entry leaks; Bridge implements RequestReply |
| `bridge_live` | 2 requests, 1 ticket | every waiting request ends and every waitAbort() resolves while the server is open |
| `overload` | 3 requests and a probe, 1 slot, queue of 1 | permits are conserved, the queue is bounded and no counter runs below what it counts (`LimiterAccounts`); no idle slot while someone waits; readiness drops only after a streak, unless a clear falls beside a clock read; the queue drains |
| `shutdown` | MCReadiness: 3 peers, limit 2, 1 inject; or 2 checks with 2 ticks each; or 2 peers, shedding, probes and 2 calls of setReady() | the limit holds and every place is given back once; a drain without deadline is complete; nothing is cut before the deadline; "ready" means that the port is open and stays open through preShutdownDelay; close() resolves and leaves nothing behind; readiness comes to what the last check says |
| `cache` | 3 tasks, 7 request shapes, 1 entry, 1 purge per path | the cap holds; a replay was made for a request that passed the schema, goes to one that would pass if the codings agree, and was not purged |
| `pipeline` | MCEdge: all 192 chains with up to one hook of a kind and one with two; 5 applications under 5 methods and 11 paths; 4 CORS policies; 23 prefixes cut at 19 places | the handler runs at most once; the response is latched; no failure of the core is answered with an empty 200; after hooks run on every path; a timed request ends; a prefix within its limits is read alike however it is cut; a handler is reached only through the middleware and hooks that cover its place; 404, 405 and Allow tell the truth; a granted origin can read every answer of the edge |
| `server` | 2 objects, one with listeners that meddle, 1 listen, 2 inject, 1 signal | one native server per object, and the bridge reaches it to the end of the drain; a close() that resolves is complete; exit after the drain, except for a server whose own listener threw or called close(); all calls settle, those of an aborted inject included |
| `body` | 35 requests around a limit of 2, 8 forms with up to 3 readers, responses of up to 3 chunks | a body, a response or a form that looks complete is complete, whatever limit, timeout, disconnect and slow readers do; so is a part, if the parts are read one after the other; no limit or type check is passed; reader task and pump end |

Four more runs exhibit disagreements between the code and its documentation:

| Run | The code | The document |
|---|---|---|
| `overload_depth` | `queued` keeps the increment of a request whose client left while it waited; after `maxQueue` of them an empty queue refuses everyone | overload.rs:35 "Current queue depth" |
| `server_close` | listen() does not look at `#closed` after its await; close() resolves and the server starts | index.ts:770 "safe for concurrent calls" |
| `body_bare` | `request_has_body` knows no HTTP/2 body without Content-Length; the handler sees an empty body | README.md:232 "always yields the body exactly as the client sent it" |
| `body_parts` | a part object does not know whether it is the current one: a `read_part` left outstanding by an earlier part, or made later by one, takes a chunk, the end or the rejection of the current part, whose own reader then sees a clean end | stream.rs:183 "skipping the tail of an unread one", stream.rs:214 "Next chunk of the current part" |

Five more disagreements are conditions of properties that hold; dropping the condition
makes TLC exhibit them:

| Property, condition | Without it, the code | The document |
|---|---|---|
| `NoCrossTalk`, `strays` | `BodyRef.get` has no settled guard: a handler answered by its timeout that asks for its body when its ticket has been drawn again takes the new holder's, which then finds none | context.ts:525 "Only reachable after respond() already completed the request", lib.rs:700 |
| `ShedNeedsStreak`, `overtaken` | a request that clears the streak between a clock read and the atomic next to it (overload.rs 117-121, 126-135) is not seen, and readiness drops although a slot was free within the period | overload.rs:38 "How long continuous overload must last before readiness drops" |
| `HitIsValid`, equal `enc` | the key has the raw body and not Content-Encoding: a QUERY that would not decode, or that the schema would refuse, is answered from the entry of another coding | server.rs:1062 "cannot let an invalid request through", DESIGN.md:572 |
| `CloseIsComplete`, `InnerReturned` | 'shutdown' is emitted (index.ts:775) before `#closing` is assigned: a listener that calls close() takes the drain, and the outer close() resolves at once | index.ts:771 "they all await the same drain" |
| `ExitAfterDrain`, `Disturbed` | a 'shutdown' listener that throws ends close() before the native call, for good; after a signal the process exits with the server running | README.md:239 "one handler per process drains every server before exiting" |

A sixth is what `NoEmptyFailure` leaves unsaid: an error in preSerialization or onSend
behind a response that was already formed is swallowed (index.ts:1020) and does not reach
onError, so that the client gets the success, while index.ts:1019 says "an error in
onSend/preSerialization → 500", and DESIGN.md:217 and 349 that it goes to onError.

Smaller observations the models make visible, without a run of their own:

- Overload: `Metrics.in_flight` is never decremented for a request whose future is
  dropped (`CountersCover` states only the lower bound); the verdict of
  `should_shed` is stored in a second step, so a stale `true` can outlive the
  streak until the next request gets a slot; the limiter's 503 leaves without
  CORS headers, which only `handle_inner` sets.
- Readiness: `is_ready` and the reason are read one after the other, so a 503 may
  say "ready"; `setReady` before listen() has no effect, so the verdict of a
  check that ran before it is lost until the next tick; a late tick overwrites
  a newer verdict until the next one (`ReadinessFollowsCheck` is about the end);
  when the registration of the main listener fails after the admin port is up,
  that port says ready.
- Cache: a response computed before a purge may be stored after it.
- Bridge: with a ticket lapped after 2^32 requests a late `respond()` answers
  another request.
- Pipeline: onResponse also runs after the timeout branch and after onAbort, while
  DESIGN.md:244 says exactly one of the three happens; until the onTimeout hooks
  are over a late handler can still write the response, which DESIGN.md:238 says
  is discarded.
- Server: a 'listening' listener that throws rejects the listen() of a server that
  runs, and a 'close' listener that throws rejects a close() that is complete.
- Routing: normalizeBase makes an empty prefix of '/' (index.ts:315 "'' | '/' → ''"), and
  without a baseUrl `join` makes '/' of it again: `app.route('/', sub)` serves the
  route '/x' of the sub-app at '//x' while '/x' is a 404, and `app.use('/', fn)` covers
  only the path '/'; prefixes are compared with the pattern of a
  route, so a route '/:area/x' is not covered by `use('/admin')`; the middleware of
  a sub-app runs after all of its parent's, while DESIGN.md:174-175 says the
  order follows registration; with GET '/x' and ALL '/*rest', HEAD '/x' goes to
  the handler of ALL; the ALL branch of `allowed_methods` cannot be reached from
  `route_and_dispatch`.
- PROXY protocol: a v1 line of more than 107 bytes is accepted or refused depending
  on how it is cut, and one of 108 is always accepted; `PROXY TCP4` without
  addresses is accepted and leaves the socket's address.
- CORS: an answer to an origin that is not allowed carries no Vary.
- Shutdown: an `inject()` task holds no drain token, so that close() may end the
  runtime under it, although lib.rs:747 speaks of all in-flight requests.
- Bodies: a rejection that only the stream of an abandoned part gets to see leaves
  an iteration that ends as if the form were complete; a source that throws ends
  a streamed response like one that is done.

**Bounds.** Three requests are the least at which a ticket is reused while a third
request is in the queue, a waiter is overtaken at the semaphore, and the full
queue refuses someone; the protocols are symmetric in requests, and for the
bridge the proofs remove the bound. One slot and one queue place make every
branch of `acquire` happen. Clock values (`MaxNow`) are just past the one
threshold that matters. `MaxPurges`, `MaxSignals`, `MaxCalls` and `MaxManual` bound
counters that only count. Two ticks at a time are the least that can finish
out of order, and a second check replaces the first while a tick of the first is
under way. `MaxListens` of 2 lets a listen() fail and be
repeated with its mounts already folded in. `Cuts` holds the sizes at and next to
each length the parser compares with (12, 16, 28, 107, 256) and to the ends of the
prefixes. The applications nest bases, prefixes and mounts to a depth of three,
with paths in, above, below and beside their routes. `MaxChunks` of 3 fills the
response channel and the writer behind it. The bodies lie at and just above the
limit, in one frame and in several, and the forms at and just above each limit of
a form. `MaxReaders` of 3 lets two readers of one part meet a reader of another. In
`server`, the object that has the awaits, the listeners and the calls meets every order;
the other one is started by an inject() and closed by the signal.

`GuardsRun` and `AllowIsHonest` are about the applications that `WellFormed` admits.
Nothing is mounted at '/' and the Server that listens scopes nothing to '/' (see
above: there the code does something else). Every middleware, hook and route has an
id of its own, which only gives names to what is told apart anyway. A Server that is
mounted twice is written as two with the same calls, and one that is mounted in
itself, through another, is left out. A prefix covers the routes whose pattern it
is a prefix of; a parameter in the pattern is taken as it is written.

**Fairness.** tokio polls every task that can go on, its timers expire, and the event
loop runs every callback that is due: weak fairness on those steps. `Bridge` needs
strong fairness for the end of a handler and for the disconnect callback, since
they need the JS thread and the thread is busy now and then. Handlers settle
only in `bridge_live`, where `requestTimeout` provides it; in `overload`,
`shutdown` and `pipeline` they may hang for ever. Nothing makes a client send,
stay or leave, or the application call anything. The interval of the readiness
check fires again and again, and a tick ends at the latest with its timeout. In `pipeline` the hooks of the
timeout branch and the after hooks are assumed to settle: nothing in the code
bounds them.

**Deadlock** is checked in every run; `Quiet`, `Gone`, `Finished` and `AtRest` are the states in which
a system has ended.

## 4. The proofs

Eight modules hold theorems, for every value of the constants that the named
`ASSUME`s allow. Each one states an inductive invariant as a conjunction of named
parts, proves it with one lemma per part and one step per action, and derives the
properties of the runs from it.

| Module | Proved | The invariant behind it |
|---|---|---|
| `BridgeProofs` | all safety properties of `bridge`, and the refinement | below |
| `OverloadProofs` | `LimiterAccounts`, `NoStrandedWaiter`, `ShedNeedsStreak` | `Books` counts requests by label; `StreakIsFresh`: a streak that was not overtaken begins after the last clear |
| `ReadinessProofs` | `ConnectionCap`, `DrainComplete`, `NothingCutBeforeDeadline`, `ReadyMeansListening` | `Counters`, `TokensHeld`, `RequestsDriven`, `DrainOrder`, `CloseOrder` |
| `CacheProofs` | `StoreBounded`, `HitIsValid` | `StoreInv`: every entry has the key of its request, which passed the schema, and the purge count of its path; `HitInv` |
| `RoutingProofs` | `AsDeclared`: the lists after `#applyMounts` are what the application declared | none: induction over the Servers |
| `EdgeProofs` | `PrefixIsExact`, `GuardsRun`, `AllowIsHonest`, `GrantedIsReadable`; of Pipeline by itself `HandlerOnce`, `ResponseIsLatched`, `NoEmptyFailure`, `AfterHooksRun`; of ProxyProtocol by itself `PrefixIsParsed` | `EdgeInv`, made of `ConnInv` (`ReadingInv`, `DrainInv`, `VerdictInv`), `PipelineInv` (`OnionInv`, `ErrorInv`, `LatchInv`), `ServerInv`, `LeafInv`, `AnswerInv` |
| `ServerProofs` | `BridgeReachesServer`, `CloseIsComplete`, `ExitAfterDrain` | `CloseInStep`, `Life` |
| `BodyIoProofs` | `BodyIsWhole`, `ResponseIsWhole`, `FormIsWhole`, `OnlyAdmitted` | body: `GotInv`, `ChanInv`, `ReaderInv`, `DoneInv`; form: `ParserInv`, `Chain`, `JsInv` |

**Bridge.** For any set of requests and any number of tickets. `IInv` is:

- `TypeInv`: types, and a batch that is being dispatched is not empty;
- `NoLostWakeup` and `NoPendingLeak`;
- `TicketsMatch`: an entry lies under the ticket of the request it belongs to;
- `QueueOnce`: queue and batch together hold a request at most once, and only
  one that was published and not dispatched;
- `VisibleIsFresh`, `OwnsEntry`, `OwnsBody`, `OwnsReply`: until a ticket is lapped,
  entry and answer of a request are its own, and so is its body, but for what a
  handler took after its answer. This is the core of the
  argument: a request between insert and respond owns its entry, so that
  take_body and respond, which go by the ticket, act on the right request, as long
  as it is not yet answered;
- `SignalTruth`: the abort signal says how the future ended.

`Refinement` maps `pc` and `reply` to `phase`, `handler` to `work` and `lapped` to
`fault`, and shows that every step is a step of RequestReply or a stutter. Assumed:
`NoReq` is not a request, watched requests are requests, there is a ticket.

**Overload.** The properties speak of cardinalities, so the proof counts: `CountMove`
says how the number of requests at a set of labels changes when one request moves,
`MoveTwo` the same for a permit that is handed to a waiter, and each action is an
instance. `NoStrandedWaiter` is needed for the queue bound and inductive with it.
`ShedNeedsStreak` is an action property: it needs `StreakIsFresh`, since the test of
should_shed looks at the beginning of the streak only. A request that is between its
clock read and its atomic when the streak is cleared is in `overtaken`, and a streak it
begins has a `staleOrigin`; the theorem speaks of the verdicts that neither of them
touches. Assumed: finitely many
requests, at least one slot.

**Shutdown and Readiness.** The steps that Readiness adds leave the variables of
Shutdown alone, so the invariant is proved over the steps of Shutdown
(`ReadyStepIsShutdownStep`). `ConnectionCap` needs no more than the counters, but
`DrainComplete` rests on the tokens: a task holds its token from the spawn to its
very end (`TokensHeld`), and the drain is over only when there is none
(`DrainOrder`). `ReadyMeansListening` follows from `CloseOrder`: readiness is down
from the first step of close(), before the stage changes. Assumed: finitely many
peers, which are not inject tasks.

**Cache.** `HitIsValid` is about the moment of a replay, and inductive only with
what is true of an entry while it is stored (`EntryIsCurrent`): a purge removes all
entries of its path and counts, an insert stores the count of the moment and an answer
to a request that passed the schema. With the same Content-Encoding an equal key means an
equal decoded body, so that the request of the replay would have passed too. The bound
needs `RoomForOne`: whichever branch makes room, the sweep, the eviction or the
refresh of a key, leaves place for one. Requests, paths, TTL and capacity are arbitrary;
the capacity is not zero, which the code guarantees as well.

**Pipeline.** For chains with any numbers of hooks and middleware. `HandlerOnce` rests
on runOnion's `index`: it only grows, and a handler that ran has index at its end.
`ResponseIsLatched` needs that nothing is sent before the latch (`LatchInv`), and
`NoEmptyFailure` that a core that threw comes to its end only with a response. That an
error of an after hook replaces a response is not claimed, and not true.

**Server.** For any number of objects, calls and signals, and any set of `Meddlers`.
`Life` is the order in which a server that was not started late is started, drained and
closed; at most one of the two runs of close() has taken the state and drains (`Took`).
`CloseInStep` relates `#closing` to the run it is the promise of. The exceptions are
the disagreements of section 3: `late` is `server_close`; `CloseIsComplete` waits for the
inner run; `ExitAfterDrain` leaves out a server whose own listener threw or called close()
(`Disturbed`), and says that such a server does not cut the others short.

**PROXY protocol.** For every prefix, any chunking and any `Cuts`. `V1Verdict` and
`V2Verdict` say that what the parser decides on the bytes read so far is right for
all the bytes; `DrainInv` is the arithmetic of the replay. Of a v1 line of more than
107 bytes only that it is let in complete or not at all.

**Routing.** For every application that `WellFormed` admits: any number of Servers in
any tree of mounts, any base, prefix and path, any lists. `AsDeclared` says that the
lists of a folded Server, read as places, are `Declared`, that no id is there twice, and
that folding again changes nothing, which is what a second listen() after a failed one
does. `applyMounts`, `Declared` and the concatenation of lists are recursive functions.
Induction theorems with an operator parameter cannot be used, so the proof takes sets:
if the numbers at which a fact fails had a least member (`Least`, from the
well-foundedness of Nat), the fact would hold below it and so there. In this way
`FlattenFacts` shows that a concatenation exists and what it holds, `DeclaredUnfold` and
`FoldedUnfold` (both from the last Server backwards, since a Server mounts only later
ones) that the two recursive functions exist and satisfy their equations, and
`AsDeclared` that they agree. Inside a step the argument is about one prefix at a time:
what `normalizeBase`, `join` and `remap` do to the way a place is written leaves the
place alone, unless something is scoped to '/' where there is no base. `WellFormed` excludes
that at the root; inside a sub-app it is harmless, since the mount supplies a prefix.

**Edge.** For every application, option, request, prefix and chunking, and any number of
failed calls of listen(). `EdgeInv` joins the invariants of the connection and of the
pipeline with what holds between them: JS has nothing to do before the dispatch
(`PhaseInv`), the Servers are the declared ones or the folded ones and from listen() on
the folded ones (`ServerInv`), a dispatched leaf has exactly the guards of its place and
was declared for the request, and the chain that runs has at least its middleware
(`LeafInv`), and an answer is readable and truthful (`AnswerInv`). `GuardsRun` then
needs `OnionInv`: a handler that was called is at the end of the onion. `AllowIsHonest`
rests on `RouteFound` and `AllowServed`, which compare the trees of router.rs with
`Serves`; of matchit they use which patterns match a path, and not which one wins.
`GrantedIsReadable` is `CorsReadable` for every policy that `normalizeCors` lets through.
`AnsweredByJs` carries the theorems about the pipeline over to the requests of the edge.
Assumed: the scenarios are what `ScenariosAssumption` says, `None` is not the string "*".

**Bodies.** For bodies of any number of frames, any limit and any number of chunks of a
response. `Continues` says that the data on its way to JS continues what JS has; no
frame is anywhere but with JS, in the channel or in the hand of the reader, and a
reader that is over without a cut has passed all of them on. `BodyWhole` leaves out
the framing "bare", for which `body_bare` shows the opposite. So that sums of sizes
need no induction, a frame is given by the offset at which it ends.

**Forms.** For any form, any limits, any number of readers and any interleaving of the calls. The state of
an upload is spread over parse_task, the event in its hand, the event channel and the
readers, and none of them alone says what JS will see. `FormInv` therefore places
them on one walk through the form: there is a position q where JS is, r where it will be
after the event in the channel, and s where parse_task stands, and each event leads
from one position to the next (`LeadsTo`: a part only if the limits and the type check
let it in, a chunk only within its size limit). A step of parse_task moves s, a send
moves r, and a call that takes an event moves q; an event passes through unchanged
whoever takes it. That read_part never needs its safety net is `BetweenInv`: between two
parts a reader finds `ended` set, or the lock is next_part's, or the channel is closed.
That a cut upload is not taken for a whole one is `DeadInv`: a rejection that left the
channel was thrown to somebody. `PartsInv` is where `strayed` is needed: as long as the
parts are read one after the other, at most one reader has a call under way and it is
the one of the current part (`OneReads`, `OneEach`), it has what the events up to q
held (`HasAll`), or nothing was taken of the part yet (`Untouched`), and so it has all
of it when it meets the end (`Whole`). Assumed: the
offsets of a part's chunks do not fall, and `None` is no number (it is no HTTP status).

**Only model-checked:**

- all liveness (`EveryRequestEnds`, `SubscriptionResolves`, `QueueDrains`,
  `CloseResolves`, `ReadinessFollowsCheck`, `TimedRequestEnds`, `CallsSettle`,
  `BodyTasksEnd`): it needs fairness and ENABLED.

Every invariant and every safety action property of a passing run is a theorem.

## 5. Not modelled

JSON Schema, the codecs, TLS, HTTP framing: library code, present only as success
or failure. Option parsing, path parameter values, header and cookie formatting,
metrics text, listener socket options, cgroup files: sequential conversions and
I/O, no shared state. The access log: its queue is written without waiting and
lines are dropped when it is full, so it holds nobody up. A server that is mounted
in itself through another.

## 6. Plan

Done, in this order: Bridge with RequestReply and its proofs, Overload, Shutdown,
Cache, Pipeline, Server, Body and Multipart with BodyIo, Readiness, ProxyProtocol,
Routing and Edge. Then the proofs, in the same order. Left:

1. A composition of Bridge and Shutdown: requests in the bridge hold drain tokens,
   so a drain without deadline has delivered every answer.
2. The order in which the guards of a leaf run: `GuardsRun` says which run, and
   the observation about DESIGN.md:174-175 is about their order.
