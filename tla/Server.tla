------------------------------- MODULE Server -------------------------------
(***************************************************************************)
(* The JS server objects of one process: listen(), close() and inject() of *)
(* class Server and the shared signal handler in src/js/index.ts, with the *)
(* fields `state' and `active' of RustServer in src/src/lib.rs they act    *)
(* on.  JS code runs up to its next await in one step; the bodies of the   *)
(* asynchronous native methods (close, inject) run on tokio threads and    *)
(* are steps of their own.  The listeners of 'listening', 'shutdown' and   *)
(* 'close' are application code that runs inside listen() and close(): any *)
(* of them may throw, and one of 'shutdown' may call close() again.  How   *)
(* long the drain takes and what it does is the subject of Shutdown.       *)
(***************************************************************************)
EXTENDS Naturals, FiniteSets

CONSTANTS
  Servers,     \* the instances of class Server
  Schemas,     \* those with a schema on some route: listen() awaits the library
  Meddlers,    \* those with listeners of 'listening', 'shutdown' or 'close' that may
               \* throw, or that call close() on 'shutdown'
  Listens,     \* explicit calls of listen()
  Injects,     \* calls of inject()
  MaxSignals,  \* bound on the SIGTERM/SIGINT the process receives
  None         \* "nothing"

Calls == Listens \union Injects

\* The runs of the body of close(): the first one, and the one that a listener of
\* its 'shutdown' event starts before #closing is assigned.  One such listener
\* stands for any number.
Runs == {"outer", "inner"}

ASSUME ServersAssumption ==
  Schemas \subseteq Servers /\ Meddlers \subseteq Servers /\ None \notin Calls \union Servers
ASSUME CallsAssumption == Listens \intersect Injects = {} /\ IsFiniteSet(Calls)
ASSUME SignalAssumption == MaxSignals \in Nat

VARIABLES
  of,         \* the server each call was made on
  call,       \* the listen() of each call; an inject() may have one of its own
  inj,        \* the progress of each inject()
  awaits,     \* the listen() each inject() awaits
  autostart,  \* #autostart: the inject() whose listen() is in flight
  listening,  \* #listening
  closing,    \* #closing: "none", "pending", "settled" or "rejected"
  closed,     \* #closed
  signalled,  \* signalServers
  snapshots,  \* the servers each signal is waiting for
  exited,     \* process.exit() was called
  state,      \* RustServer.state: "none" or "running"
  gen,        \* how many servers the native listen() has started
  active,     \* RustServer.active: which of them the bridge methods reach, or 0
  drain,      \* of each run: its native close() is "none", "called", "draining" or
              \* "returned"; "over" when the run has come to its end
  late        \* history: a server was started after its native close() was called

jsVars == <<listening, closing, closed, signalled, snapshots, exited>>
callVars == <<of, call, inj, awaits, autostart>>
nativeVars == <<state, gen, active, drain, late>>
vars == <<of, call, inj, awaits, autostart, listening, closing, closed,
          signalled, snapshots, exited, state, gen, active, drain, late>>

Init ==
  /\ of = [k \in Calls |-> None]
  /\ call = [k \in Calls |-> "idle"]
  /\ inj = [i \in Injects |-> "idle"]
  /\ awaits = [i \in Injects |-> None]
  /\ autostart = [s \in Servers |-> None]
  /\ listening = [s \in Servers |-> FALSE]
  /\ closing = [s \in Servers |-> "none"]
  /\ closed = [s \in Servers |-> FALSE]
  /\ signalled = {} /\ snapshots = {} /\ exited = FALSE
  /\ state = [s \in Servers |-> "none"]
  /\ gen = [s \in Servers |-> 0]
  /\ active = [s \in Servers |-> 0]
  /\ drain = [s \in Servers |-> [r \in Runs |-> "none"]]
  /\ late = {}

-----------------------------------------------------------------------------
(* listen().                                                               *)

\* Mutant of Outcomes: the native listen() does not look at its state.
OutcomesUnchecked(s) == {"ok", "bind"}

\* The native listen(): an instance that runs refuses; else it binds or fails to.
Outcomes(s) == IF state[s] = "running" THEN {"already"} ELSE {"ok", "bind"}

\* listen() from the native call to its end, with the given outcome.
NativeListen(s, out) ==
  /\ out \in Outcomes(s)
  /\ IF out = "ok"
     THEN /\ state' = [state EXCEPT ![s] = "running"]
          /\ gen' = [gen EXCEPT ![s] = @ + 1]
          /\ active' = [active EXCEPT ![s] = gen[s] + 1]
          /\ listening' = [listening EXCEPT ![s] = TRUE]
          /\ signalled' = signalled \union {s}
          /\ late' = IF \E r \in Runs : drain[s][r] # "none" THEN late \union {s} ELSE late
     ELSE UNCHANGED <<state, gen, active, listening, signalled, late>>
  /\ UNCHANGED drain

\* How listen() ends after the native outcome: the listeners of 'listening' run
\* last, and one that throws rejects the promise of a server that runs.
Ends(s, out) == IF out = "ok" /\ s \in Meddlers THEN {"ok", "thrown"} ELSE {out}

\* The promise of the listen() of call k settles: #autostart is cleared, and the
\* inject() calls that await it go on or fail with it.
Settle(k, out) ==
  /\ call' = [call EXCEPT ![k] = out]
  /\ autostart' = [s \in Servers |-> IF autostart[s] = k THEN None ELSE autostart[s]]
  /\ inj' = [i \in Injects |->
               IF awaits[i] = k /\ inj[i] = "starting"
               THEN IF out = "ok" THEN "native" ELSE "failed"
               ELSE inj[i]]
  /\ UNCHANGED awaits

\* The application calls listen(): the two guards, then loadSchemaDeps() is
\* awaited or the native call follows at once.
Listen(k, s) ==
  /\ ~exited /\ of[k] = None
  /\ of' = [of EXCEPT ![k] = s]
  /\ \/ /\ closed[s]
        /\ Settle(k, "closed")
        /\ UNCHANGED <<nativeVars, listening, signalled>>
     \/ /\ ~closed[s] /\ listening[s]
        /\ Settle(k, "already")
        /\ UNCHANGED <<nativeVars, listening, signalled>>
     \/ /\ ~closed[s] /\ ~listening[s] /\ s \in Schemas
        /\ call' = [call EXCEPT ![k] = "deps"]
        /\ UNCHANGED <<inj, awaits, autostart, nativeVars, listening, signalled>>
     \/ /\ ~closed[s] /\ ~listening[s] /\ s \notin Schemas
        /\ \E out \in Outcomes(s) :
             NativeListen(s, out) /\ \E end \in Ends(s, out) : Settle(k, end)
  /\ UNCHANGED <<closing, closed, snapshots, exited>>

\* The listen() of call k continues after its await.  Nothing is looked at again.
ResumeListen(k) ==
  /\ ~exited /\ call[k] = "deps"
  /\ \E out \in Outcomes(of[k]) :
       NativeListen(of[k], out) /\ \E end \in Ends(of[k], out) : Settle(k, end)
  /\ UNCHANGED <<of, closing, closed, snapshots, exited>>

-----------------------------------------------------------------------------
(* inject().                                                               *)

\* #ensureListening on a server with schemas: join the listen() in flight, or
\* start one that is bound to wait for loadSchemaDeps().
Autostart(i, s) ==
  \/ /\ autostart[s] # None
     /\ awaits' = [awaits EXCEPT ![i] = autostart[s]]
     /\ UNCHANGED <<call, autostart>>
  \/ /\ autostart[s] = None
     /\ autostart' = [autostart EXCEPT ![s] = i]
     /\ awaits' = [awaits EXCEPT ![i] = i]
     /\ call' = [call EXCEPT ![i] = "deps"]

\* The application calls inject().
Inject(i, s) ==
  /\ ~exited /\ of[i] = None
  /\ of' = [of EXCEPT ![i] = s]
  /\ \/ /\ closed[s]
        /\ inj' = [inj EXCEPT ![i] = "failed"]
        /\ UNCHANGED <<call, awaits, autostart, nativeVars, listening, signalled>>
     \/ /\ ~closed[s] /\ listening[s]
        /\ inj' = [inj EXCEPT ![i] = "native"]
        /\ UNCHANGED <<call, awaits, autostart, nativeVars, listening, signalled>>
     \/ /\ ~closed[s] /\ ~listening[s] /\ s \in Schemas
        /\ Autostart(i, s)
        /\ inj' = [inj EXCEPT ![i] = "starting"]
        /\ UNCHANGED <<nativeVars, listening, signalled>>
     \/ /\ ~closed[s] /\ ~listening[s] /\ s \notin Schemas
        /\ \E out \in Outcomes(s) :
             /\ NativeListen(s, out)
             /\ \E end \in Ends(s, out) :
                  /\ call' = [call EXCEPT ![i] = end]
                  /\ inj' = [inj EXCEPT ![i] = IF end = "ok" THEN "native" ELSE "failed"]
        /\ UNCHANGED <<awaits, autostart>>
  /\ UNCHANGED <<closing, closed, snapshots, exited>>

\* The native inject() spawns its task on the runtime of a running server, or fails.
NativeInject(i) ==
  /\ ~exited /\ inj[i] = "native"
  /\ inj' = [inj EXCEPT ![i] = IF state[of[i]] = "running" THEN "task" ELSE "failed"]
  /\ UNCHANGED <<of, call, awaits, autostart, jsVars, nativeVars>>

\* The handler answers through the bridge; it need not.
InjectServed(i) ==
  /\ ~exited /\ inj[i] = "task" /\ active[of[i]] > 0
  /\ inj' = [inj EXCEPT ![i] = "served"]
  /\ UNCHANGED <<of, call, awaits, autostart, jsVars, nativeVars>>

Returned(s, r) == drain[s][r] \in {"returned", "over"}
Draining(s) == \E r \in Runs : drain[s][r] = "draining"

\* The server of s has been drained, or there was none, and no other one runs.
Gone(s) == state[s] = "none" /\ ~Draining(s) /\ \E r \in Runs : Returned(s, r)

\* The task is outside the drain: the end of the runtime drops it, and with it
\* the sender inject() waits for.
InjectAborted(i) ==
  /\ ~exited /\ inj[i] = "task"
  /\ Gone(of[i])
  /\ inj' = [inj EXCEPT ![i] = "failed"]
  /\ UNCHANGED <<of, call, awaits, autostart, jsVars, nativeVars>>

-----------------------------------------------------------------------------
(* close() and the signals.                                                *)

\* close() on the servers of S.  A call that finds #closing just returns it.  The
\* others emit 'shutdown' before anything else: a listener may call close(), which
\* does not find #closing yet, and may throw, which rejects #closing for good
\* without a call of the native close().
CloseAll(S) ==
  LET first == {s \in S : closing[s] = "none"}
      meddling == first \intersect Meddlers
  IN
  \E throws \in SUBSET meddling, reenters \in SUBSET meddling :
    /\ closing' = [s \in Servers |-> IF s \in throws THEN "rejected"
                                    ELSE IF s \in first THEN "pending" ELSE closing[s]]
    /\ drain' = [s \in Servers |->
                   [r \in Runs |->
                      IF s \in (IF r = "outer" THEN first \ throws ELSE reenters)
                      THEN "called" ELSE drain[s][r]]]

Close(s) ==
  /\ ~exited /\ closing[s] = "none"
  /\ CloseAll({s})
  /\ UNCHANGED <<callVars, listening, closed, signalled, snapshots, exited, state,
                 gen, active, late>>

\* Mutant of CloseTake: without a server it waits for a drain nobody makes.
CloseTakeWaits(s, r) ==
  /\ ~exited /\ drain[s][r] = "called" /\ state[s] = "running"
  /\ state' = [state EXCEPT ![s] = "none"]
  /\ drain' = [drain EXCEPT ![s][r] = "draining"]
  /\ UNCHANGED <<callVars, jsVars, gen, active, late>>

\* Mutant of CloseTake: the bridge methods are switched off at the start.
CloseTakeCutsBridge(s, r) ==
  /\ ~exited /\ drain[s][r] = "called"
  /\ state' = [state EXCEPT ![s] = "none"]
  /\ drain' = [drain EXCEPT ![s][r] = IF state[s] = "running" THEN "draining" ELSE "returned"]
  /\ active' = [active EXCEPT ![s] = 0]
  /\ UNCHANGED <<callVars, jsVars, gen, late>>

\* The native close() takes the state; without one it returns at once.
CloseTake(s, r) ==
  /\ ~exited /\ drain[s][r] = "called"
  /\ state' = [state EXCEPT ![s] = "none"]
  /\ drain' = [drain EXCEPT ![s][r] = IF state[s] = "running" THEN "draining" ELSE "returned"]
  /\ UNCHANGED <<callVars, jsVars, gen, active, late>>

\* The drain is over: the bridge methods stop and the native close() returns.
DrainEnds(s, r) ==
  /\ ~exited /\ drain[s][r] = "draining"
  /\ active' = [active EXCEPT ![s] = 0]
  /\ drain' = [drain EXCEPT ![s][r] = "returned"]
  /\ UNCHANGED <<callVars, jsVars, state, gen, late>>

\* The promise of a run of close() settles at its end; a listener of 'close' that
\* throws rejects it.  #closing holds the promise of the outer run.
RunEnds(s, r) ==
  /\ drain' = [drain EXCEPT ![s][r] = "over"]
  /\ IF r = "outer"
     THEN \E out \in {"settled"} \union (IF s \in Meddlers THEN {"rejected"} ELSE {}) :
            closing' = [closing EXCEPT ![s] = out]
     ELSE UNCHANGED closing

\* Mutant of CloseSettles: the server stays in the set of the signal handler.
CloseSettlesRegistered(s, r) ==
  /\ ~exited /\ drain[s][r] = "returned"
  /\ RunEnds(s, r)
  /\ listening' = [listening EXCEPT ![s] = FALSE]
  /\ closed' = [closed EXCEPT ![s] = TRUE]
  /\ UNCHANGED <<callVars, signalled, snapshots, exited, state, gen, active, late>>

\* A run of close() continues after its await.
CloseSettles(s, r) ==
  /\ ~exited /\ drain[s][r] = "returned"
  /\ RunEnds(s, r)
  /\ listening' = [listening EXCEPT ![s] = FALSE]
  /\ closed' = [closed EXCEPT ![s] = TRUE]
  /\ signalled' = signalled \ {s}
  /\ UNCHANGED <<callVars, snapshots, exited, state, gen, active, late>>

\* SIGTERM or SIGINT while the handler is installed: all servers are closed.
Signal ==
  /\ ~exited /\ signalled # {}
  /\ Cardinality(snapshots) < MaxSignals
  /\ snapshots' = snapshots \union {signalled}
  /\ CloseAll(signalled)
  /\ UNCHANGED <<callVars, listening, closed, signalled, exited, state, gen,
                 active, late>>

\* Mutant of Exit: the first server to finish ends the process.
ExitWithFirst ==
  /\ ~exited
  /\ \E S \in snapshots : \E s \in S : closing[s] \in {"settled", "rejected"}
  /\ exited' = TRUE
  /\ UNCHANGED <<callVars, listening, closing, closed, signalled, snapshots,
                 nativeVars>>

\* Promise.allSettled of one signal: the process exits, with 1 if one was rejected.
Exit ==
  /\ ~exited
  /\ \E S \in snapshots : \A s \in S : closing[s] \in {"settled", "rejected"}
  /\ exited' = TRUE
  /\ UNCHANGED <<callVars, listening, closing, closed, signalled, snapshots,
                 nativeVars>>

-----------------------------------------------------------------------------
\* The process has exited, or nothing is in progress and the application rests.
Quiet ==
  /\ \/ exited
     \/ /\ \A k \in Calls : call[k] # "deps"
        /\ \A i \in Injects : inj[i] \notin {"starting", "native"}
        /\ \A i \in Injects : inj[i] = "task" => ~Gone(of[i])
        /\ \A s \in Servers, r \in Runs : drain[s][r] \in {"none", "over"}
  /\ UNCHANGED vars

Next ==
  \/ \E s \in Servers : \/ \E k \in Listens : Listen(k, s)
                        \/ \E i \in Injects : Inject(i, s)
  \/ \E k \in Calls : ResumeListen(k)
  \/ \E i \in Injects : NativeInject(i) \/ InjectServed(i) \/ InjectAborted(i)
  \/ \E s \in Servers :
       Close(s) \/ \E r \in Runs : CloseTake(s, r) \/ DrainEnds(s, r) \/ CloseSettles(s, r)
  \/ Signal \/ Exit
  \/ Quiet

Spec == Init /\ [][Next]_vars

\* Modules load, tokio and the event loop run what can run, and the drain ends
\* (CloseResolves of Shutdown).  Each kind of step is taken finitely often, so that
\* one condition will do for all.  Nobody has to call listen(), inject() or close().
Fairness ==
  /\ WF_vars(\E k \in Calls : ResumeListen(k))
  /\ WF_vars(\E i \in Injects : NativeInject(i) \/ InjectAborted(i))
  /\ WF_vars(\E s \in Servers, r \in Runs :
               CloseTake(s, r) \/ DrainEnds(s, r) \/ CloseSettles(s, r))
  /\ WF_vars(Exit)

FairSpec == Spec /\ Fairness

-----------------------------------------------------------------------------
(* Properties.                                                             *)

\* While a server runs or drains, the bridge methods reach it (lib.rs 249-253,
\* 780-782), so that its responses are delivered to the end; and it is the only
\* one its object ever starts (README.md 241, lib.rs 281-288): listen() calls
\* that overtake each other in the await, a close() that was rejected or called
\* again by a listener replace nothing.
BridgeReachesServer ==
  \A s \in Servers \ late :
    state[s] = "running" \/ Draining(s) => active[s] = 1 /\ gen[s] = 1

\* The run of close() that a 'shutdown' listener started, if there is one, has
\* returned too.
InnerReturned(s) == drain[s]["inner"] = "none" \/ Returned(s, "inner")

\* After close() has resolved, nothing of the server is left: not running, not
\* listening, no bridge, out of the signal handler, which is removed with the
\* last server (index.ts 295-300, 772-786); provided no listen() was on its way
\* when close() was called, and once the close() that a listener of 'shutdown'
\* made is over as well.  A rejected close() promises nothing.
CloseIsComplete ==
  \A s \in Servers \ late : closing[s] = "settled" /\ InnerReturned(s) =>
    /\ state[s] = "none" /\ ~listening[s] /\ active[s] = 0
    /\ s \notin signalled

\* A listener of 'shutdown' threw, so that the native close() was not called, or
\* called close() itself.
Disturbed(s) == drain[s]["outer"] = "none" \/ drain[s]["inner"] # "none"

\* The process does not exit before the servers that the signal asked to close
\* have drained (index.ts 271-284), the first one to finish and one whose close()
\* is rejected wait for the rest; except for those whose own 'shutdown' listener
\* threw or called close(), of which README.md 239 and index.ts 771 promise it too.
ExitAfterDrain ==
  exited => \E S \in snapshots : \A s \in S \ late :
              Disturbed(s) \/ (state[s] = "none" /\ Returned(s, "outer"))

\* A close() or an inject() is under way that nothing but the server's own steps
\* can end; a handler may take its time as long as its server runs.
Unsettled ==
  \/ \E s \in Servers : closing[s] = "pending"
  \/ \E i \in Injects :
       \/ inj[i] \in {"starting", "native"}
       \/ inj[i] = "task" /\ state[of[i]] = "none" /\ of[i] \notin late

\* Every close() and every inject() settles, also when they meet a listen() that
\* fails, a server that never started, or each other; an inject() whose handler
\* hangs at the latest with its server (lib.rs 675-687).  The calls are finitely
\* many, so that each of them settles if all of them do.
CallsSettle == Unsettled ~> (~Unsettled \/ exited)

\* close() is documented as "Graceful shutdown: close the listener, finish in-flight
\* requests, then resolve. Idempotent and safe for concurrent calls" (index.ts
\* 770-771): when it has resolved, the server does not run.
CloseIsFinal == \A s \in Servers : closing[s] = "settled" => state[s] = "none"
=============================================================================
