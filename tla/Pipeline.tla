------------------------------ MODULE Pipeline ------------------------------
(***************************************************************************)
(* The life of one request in JS: runCore, runOnion, handleError and       *)
(* withTimeout of src/js/pipeline.ts, #handleRequest of src/js/index.ts    *)
(* and the response side of the context in src/js/context.ts.              *)
(*                                                                         *)
(* Four activities share the context: the core (hooks, onion, handler),    *)
(* the timeout branch, the disconnect watcher and the tail of              *)
(* #handleRequest.  A step is what the JS thread runs between two awaits.  *)
(* Hooks, middleware and the handler are application code: while one of    *)
(* them runs it may write the response at any time, it may return, throw,  *)
(* or never settle.  Of the response the model keeps who wrote it last.    *)
(***************************************************************************)
EXTENDS Naturals

CONSTANTS
  Chains,   \* the chains buildChain may produce: how many hooks of each kind
  MaxCalls  \* bound on the handler calls the model counts

ChainTypes == [before : Nat, middleware : Nat, onError : Nat, onTimeout : Nat,
               onAbort : Nat, after : Nat, onResponse : Nat,
               timed : BOOLEAN, watched : BOOLEAN]
ASSUME ChainsAssumption == Chains \subseteq ChainTypes
ASSUME BoundAssumption == MaxCalls \in Nat \ {0, 1}

VARIABLES
  chain,    \* the chain of the route; timed: requestTimeout is set; watched:
            \* onAbort hooks or detectDisconnect.  before = the hooks of the four
            \* "before" stages in order, after = preSerialization and onSend
  core,     \* runCore: "none", "new", "before", "onion", "error" or "over"
  coreAt,   \* the number of the core's hook that runs
  index,    \* runOnion's index, counted from 1: the deepest level dispatched
  running,  \* levels of the onion that run; level middleware + 1 is the handler
  calls,    \* history: how often the handler was called
  timer,    \* "off", "armed", "hooks", "latch" (after the hooks) or "done"
  timerAt,  \* the number of the onTimeout hook that runs
  watcher,  \* waitAbort(): "off", "waiting", "hooks", "ran" or "skipped"
  watchAt,  \* the number of the onAbort hook that runs
  gone,     \* the client has left
  tail,     \* #handleRequest: "race", "after", "onResponse" or "done"
  tailAt,   \* the number of the "after" or onResponse hook that runs
  res,      \* who wrote the response; "none" while it is not _finalized
  settled,  \* c._settled
  sent,     \* what went to respond(); "unsent" before that
  threw,    \* history: the core failed
  failed    \* history: an "after" hook threw

onionVars == <<index, running, calls>>
coreVars == <<core, coreAt, onionVars, threw>>
timerVars == <<timer, timerAt>>
watchVars == <<watcher, watchAt, gone>>
tailVars == <<tail, tailAt, sent, failed>>
vars == <<chain, core, coreAt, index, running, calls, timer, timerAt, watcher,
          watchAt, gone, tail, tailAt, res, settled, sent, threw, failed>>

\* A request with chain ch; "none" stands for the time before #handleRequest.
InitWith(ch, c) ==
  /\ chain = ch
  /\ core = c /\ coreAt = 1 /\ index = 0 /\ running = {} /\ calls = 0
  /\ timer = "off" /\ timerAt = 1
  /\ watcher = "off" /\ watchAt = 1 /\ gone = FALSE
  /\ tail = "race" /\ tailAt = 1
  /\ res = "none" /\ settled = FALSE
  /\ sent = "unsent" /\ threw = FALSE /\ failed = FALSE

Init == \E ch \in Chains : InitWith(ch, "new")

Handler == chain.middleware + 1
Finalized == res # "none"

\* Mutant of Set: the mutators do not look at _settled.
SetUnchecked(who) == res' = who

\* The mutators of the context (text, json, body): nothing once _settled.
Set(who) == res' = IF settled THEN res ELSE who

\* Set as a fallback: only when there is no response.
SetIfNone(who) == IF Finalized THEN UNCHANGED res ELSE Set(who)

-----------------------------------------------------------------------------
(* The core: runCore, runOnion and handleError.                            *)

\* Mutant of Dispatch: runOnion does not remember how deep it went.
DispatchAgain(i) ==
  /\ calls < MaxCalls
  /\ index' = i
  /\ running' = running \union {i}
  /\ calls' = IF i = Handler THEN calls + 1 ELSE calls

\* runOnion's dispatch(i): a level that was dispatched before is refused (the
\* caller's next() rejects, nothing else changes), or the level starts.
Dispatch(i) ==
  /\ i > index /\ calls < MaxCalls
  /\ index' = i
  /\ running' = running \union {i}
  /\ calls' = IF i = Handler THEN calls + 1 ELSE calls

\* #handleRequest up to its first await: the watcher, the timer, the core.
Begin ==
  /\ core = "new"
  /\ watcher' = IF chain.watched THEN "waiting" ELSE "off"
  /\ timer' = IF chain.timed THEN "armed" ELSE "off"
  /\ \/ chain.before > 0 /\ core' = "before" /\ UNCHANGED onionVars
     \/ chain.before = 0 /\ core' = "onion" /\ Dispatch(1)
  /\ UNCHANGED <<chain, coreAt, timerAt, watchAt, gone, tailVars, res, settled,
                 threw>>

\* A "before" hook returned: a response ends the core, else the next one runs,
\* and after the last the onion.
BeforeReturns ==
  /\ core = "before"
  /\ \/ Finalized /\ core' = "over" /\ UNCHANGED <<coreAt, onionVars>>
     \/ /\ ~Finalized /\ coreAt < chain.before
        /\ coreAt' = coreAt + 1
        /\ UNCHANGED <<core, onionVars>>
     \/ /\ ~Finalized /\ coreAt = chain.before
        /\ core' = "onion" /\ Dispatch(1)
        /\ UNCHANGED coreAt
  /\ UNCHANGED <<chain, timerVars, watchVars, tailVars, res, settled, threw>>

\* handleError: the onError hooks, or at once the default response, which takes
\* the place of whatever had been written.
Fail ==
  /\ threw' = TRUE
  /\ coreAt' = 1
  /\ IF chain.onError > 0 THEN core' = "error" /\ UNCHANGED res
                          ELSE core' = "over" /\ Set("default")

BeforeThrows ==
  /\ core = "before"
  /\ Fail
  /\ UNCHANGED <<chain, onionVars, timerVars, watchVars, tailVars, settled>>

\* A running middleware calls next(), whether or not it awaits it.
NextCalled(i) ==
  /\ i \in running /\ i < Handler
  /\ Dispatch(i + 1)
  /\ UNCHANGED <<chain, core, coreAt, timerVars, watchVars, tailVars, res,
                 settled, threw>>

\* Level i returns.  The value of the handler is applied if there is no
\* response yet (applyReturnValue); when level 1 is over, so is the core.
LevelReturns(i) ==
  /\ i \in running
  /\ running' = running \ {i}
  /\ \/ UNCHANGED res
     \/ i = Handler /\ SetIfNone("app")
  /\ core' = IF i = 1 THEN "over" ELSE core
  /\ UNCHANGED <<chain, coreAt, index, calls, timerVars, watchVars, tailVars,
                 settled, threw>>

\* Level i throws.  Only level 1 fails the core: what an inner level throws is up
\* to the middleware around it.
LevelThrows(i) ==
  /\ i \in running
  /\ running' = running \ {i}
  /\ IF i = 1 THEN Fail ELSE UNCHANGED <<core, coreAt, res, threw>>
  /\ UNCHANGED <<chain, index, calls, timerVars, watchVars, tailVars, settled>>

\* Mutant of ErrorHookReturns: onError hooks are trusted to respond.
ErrorHookReturnsEmpty ==
  /\ core = "error"
  /\ IF coreAt < chain.onError THEN coreAt' = coreAt + 1 /\ UNCHANGED core
                               ELSE core' = "over" /\ UNCHANGED coreAt
  /\ UNCHANGED <<chain, onionVars, timerVars, watchVars, tailVars, res, settled,
                 threw>>

\* An onError hook returned; after the last one a missing response is supplied.
ErrorHookReturns ==
  /\ core = "error"
  /\ \/ /\ coreAt < chain.onError
        /\ coreAt' = coreAt + 1
        /\ UNCHANGED <<core, res>>
     \/ /\ coreAt = chain.onError
        /\ core' = "over"
        /\ SetIfNone("default")
        /\ UNCHANGED coreAt
  /\ UNCHANGED <<chain, onionVars, timerVars, watchVars, tailVars, settled, threw>>

\* An onError hook threw: the default response, and no other hook.
ErrorHookThrows ==
  /\ core = "error"
  /\ core' = "over"
  /\ Set("default")
  /\ UNCHANGED <<chain, coreAt, onionVars, timerVars, watchVars, tailVars,
                 settled, threw>>

-----------------------------------------------------------------------------
(* The timeout branch of withTimeout.                                      *)

\* The timer runs only if the core is not over: clearTimeout follows the end of
\* the core without a return to the event loop.
TimerFires ==
  /\ timer = "armed" /\ core # "over"
  /\ timer' = IF chain.onTimeout > 0 THEN "hooks" ELSE "latch"
  /\ UNCHANGED <<chain, coreVars, timerAt, watchVars, tailVars, res, settled>>

TimeoutHookReturns ==
  /\ timer = "hooks"
  /\ IF timerAt < chain.onTimeout THEN timerAt' = timerAt + 1 /\ UNCHANGED timer
                                  ELSE timer' = "latch" /\ UNCHANGED timerAt
  /\ UNCHANGED <<chain, coreVars, watchVars, tailVars, res, settled>>

\* Mutant of TimeoutHookThrows: the error is not caught and nobody resolves.
TimeoutHookThrowsOut ==
  /\ timer = "hooks"
  /\ timer' = "off"
  /\ UNCHANGED <<chain, coreVars, timerAt, watchVars, tailVars, res, settled>>

\* The error is kept in c.error; the other hooks are skipped.
TimeoutHookThrows ==
  /\ timer = "hooks"
  /\ timer' = "latch"
  /\ UNCHANGED <<chain, coreVars, timerAt, watchVars, tailVars, res, settled>>

\* 504 if there is no response, then the latch; the race is resolved.
Latch ==
  /\ timer = "latch"
  /\ SetIfNone("504")
  /\ settled' = TRUE
  /\ timer' = "done"
  /\ UNCHANGED <<chain, coreVars, timerAt, watchVars, tailVars>>

-----------------------------------------------------------------------------
(* The disconnect watcher.                                                 *)

ClientLeaves ==
  /\ ~gone /\ core \notin {"none", "new"}
  /\ gone' = TRUE
  /\ UNCHANGED <<chain, coreVars, timerVars, watcher, watchAt, tailVars, res,
                 settled>>

\* waitAbort() resolves with true; with a settled response nothing is left to do.
WatcherFires ==
  /\ watcher = "waiting" /\ gone
  /\ watcher' = IF settled THEN "skipped"
                ELSE IF chain.onAbort > 0 THEN "hooks" ELSE "ran"
  /\ UNCHANGED <<chain, coreVars, timerVars, watchAt, gone, tailVars, res, settled>>

\* An onAbort hook is over; an error ends the branch and is swallowed.
AbortHookEnds(ok) ==
  /\ watcher = "hooks"
  /\ IF ok /\ watchAt < chain.onAbort THEN watchAt' = watchAt + 1 /\ UNCHANGED watcher
                                      ELSE watcher' = "ran" /\ UNCHANGED watchAt
  /\ UNCHANGED <<chain, coreVars, timerVars, gone, tailVars, res, settled>>

-----------------------------------------------------------------------------
(* The tail of #handleRequest.                                             *)

\* buildNativeResponse and respond() with response r.
Respond(r) ==
  /\ settled' = TRUE
  /\ sent' = r
  /\ tail' = IF chain.onResponse > 0 THEN "onResponse" ELSE "done"
  /\ tailAt' = 1

\* Mutant of RaceEnds: after a timeout the "after" hooks are skipped.
RaceEndsSkipping ==
  /\ tail = "race"
  /\ core = "over" \/ timer = "done"
  /\ timer' = IF timer = "armed" THEN "off" ELSE timer
  /\ \/ /\ chain.after > 0 /\ timer # "done"
        /\ tail' = "after"
        /\ UNCHANGED <<tailAt, sent, settled>>
     \/ (chain.after = 0 \/ timer = "done") /\ Respond(res)
  /\ UNCHANGED <<chain, coreVars, timerAt, watchVars, res, failed>>

\* Promise.race is settled by the core or by the timeout branch, and the timer is
\* cleared; without "after" hooks the response leaves at once.
RaceEnds ==
  /\ tail = "race"
  /\ core = "over" \/ timer = "done"
  /\ timer' = IF timer = "armed" THEN "off" ELSE timer
  /\ \/ /\ chain.after > 0
        /\ tail' = "after"
        /\ UNCHANGED <<tailAt, sent, settled>>
     \/ chain.after = 0 /\ Respond(res)
  /\ UNCHANGED <<chain, coreVars, timerAt, watchVars, res, failed>>

AfterReturns ==
  /\ tail = "after"
  /\ \/ /\ tailAt < chain.after
        /\ tailAt' = tailAt + 1
        /\ UNCHANGED <<tail, sent, settled>>
     \/ tailAt = chain.after /\ Respond(res)
  /\ UNCHANGED <<chain, coreVars, timerVars, watchVars, res, failed>>

\* An "after" hook threw: the other ones are skipped, and a missing response
\* becomes the 500.
AfterThrows ==
  /\ tail = "after"
  /\ failed' = TRUE
  /\ SetIfNone("default")
  /\ Respond(res')
  /\ UNCHANGED <<chain, coreVars, timerVars, watchVars>>

\* An onResponse hook is over; an error ends the loop and is swallowed.
ResponseHookEnds(ok) ==
  /\ tail = "onResponse"
  /\ IF ok /\ tailAt < chain.onResponse
     THEN tailAt' = tailAt + 1 /\ UNCHANGED tail
     ELSE tail' = "done" /\ UNCHANGED tailAt
  /\ UNCHANGED <<chain, coreVars, timerVars, watchVars, sent, failed, res, settled>>

-----------------------------------------------------------------------------
\* The application code that runs now, by the name it writes the response under.
Writers ==
  (IF core = "before" THEN {"before"} ELSE {})
    \union (IF running # {} THEN {"app"} ELSE {})
    \union (IF core = "error" THEN {"onError"} ELSE {})
    \union (IF timer = "hooks" THEN {"onTimeout"} ELSE {})
    \union (IF watcher = "hooks" THEN {"onAbort"} ELSE {})
    \union (IF tail \in {"after", "onResponse"} THEN {tail} ELSE {})

\* A hook, a middleware or the handler writes the response.
Write(who) ==
  /\ who \in Writers
  /\ Set(who)
  /\ UNCHANGED <<chain, coreVars, timerVars, watchVars, tailVars, settled>>

\* Nothing is left to run.
Over ==
  /\ core = "over" /\ running = {} /\ tail = "done"
  /\ timer \in {"off", "done"} /\ watcher # "hooks"

Quiet == Over /\ UNCHANGED vars

\* What the application code of the core does.
CoreStep ==
  \/ BeforeReturns \/ BeforeThrows \/ ErrorHookReturns \/ ErrorHookThrows
  \/ \E i \in running : NextCalled(i) \/ LevelReturns(i) \/ LevelThrows(i)

TimeoutStep == TimeoutHookReturns \/ TimeoutHookThrows \/ Latch
TailStep == RaceEnds \/ AfterReturns \/ AfterThrows
            \/ \E ok \in BOOLEAN : ResponseHookEnds(ok)

Step ==
  \/ Begin \/ CoreStep
  \/ TimerFires \/ TimeoutStep
  \/ ClientLeaves \/ WatcherFires \/ \E ok \in BOOLEAN : AbortHookEnds(ok)
  \/ TailStep
  \/ \E who \in Writers : Write(who)

Next == Step \/ Quiet

Spec == Init /\ [][Next]_vars

\* The event loop runs timers and continuations, and the hooks of the timeout
\* branch and of the tail settle.  The core may never settle.
Fairness ==
  /\ WF_vars(Begin) /\ WF_vars(TimerFires) /\ WF_vars(TimeoutStep)
  /\ WF_vars(TailStep)

-----------------------------------------------------------------------------
(* Properties.                                                             *)

\* The handler is called at most once, however often and from however many
\* middlewares next() is called, awaited or not (pipeline.ts 108-111).
HandlerOnce == calls <= 1

\* The latch (context.ts 772-817, pipeline.ts 192): whoever is still running when
\* the response has been handed to Rust - a handler past its timeout, a level
\* nobody awaited, the timeout branch, an onAbort or onResponse hook - cannot
\* change the response any more.
ResponseIsLatched == sent # "unsent" => res = sent

\* The empty 200 that stands for "no response" (pipeline.ts 129-144, 191, index.ts
\* 1018-1024) is sent only when the core came to its end and neither it nor an
\* "after" hook threw, whatever onError and onTimeout hooks do.  It does not say
\* that an error replaces a response that was written before it: that of an
\* "after" hook does not, although index.ts 1019 and DESIGN.md 217 say so.
NoEmptyFailure == sent = "none" => core = "over" /\ ~threw /\ ~failed

\* The "after" hooks run on every path - short circuit, error, timeout,
\* disconnect - before the response is sent (index.ts 1015-1017); only an
\* error of one of them skips the ones after it.
AfterHooksRun ==
  [][sent = "unsent" /\ sent' # "unsent" =>
       failed' \/ chain.after = 0 \/ (tail = "after" /\ tailAt = chain.after)]_vars

\* With requestTimeout every request is answered and its life ends, even if a
\* hook, a middleware or the handler never settles (pipeline.ts 170-198).
TimedRequestEnds == chain.timed ~> tail = "done"
=============================================================================
