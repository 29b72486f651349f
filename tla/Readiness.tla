----------------------------- MODULE Readiness -----------------------------
(***************************************************************************)
(* Readiness: the three flags of src/src/health.rs, their writers - close()*)
(* and the limiter's verdict in Rust, setReady() and the periodic check of *)
(* setReadinessCheck() in src/js/index.ts - and the port for probes,       *)
(* serve_admin() in src/src/server.rs, around the server of Shutdown.      *)
(*                                                                         *)
(* A tick of the check is asynchronous: it calls the callback, waits for   *)
(* its answer or its timeout, and then writes the flag.  Ticks may overlap *)
(* and end in any order, also after their check was replaced.  What a      *)
(* callback would say is `healthy'; not healthy is any way to fail: false, *)
(* an exception, or no answer before the timeout.                          *)
(***************************************************************************)
EXTENDS Shutdown

CONSTANTS
  Check,      \* the callbacks given to setReadinessCheck(), each at most once
  Tick,       \* bound: ticks of the check that may be under way at a time
  MaxManual,  \* bound: calls of setReady() by the application
  NoCheck     \* there is no interval timer

ASSUME CheckAssumption == NoCheck \notin Check /\ MaxManual \in Nat

VARIABLES
  js_not_ready,  \* Readiness.js_not_ready
  overloaded,    \* Readiness.overloaded
  timer,         \* #readinessTimer, by the callback its ticks call
  unused,        \* the callbacks that have not been installed
  healthy,       \* what each callback would answer
  tick,          \* the ticks: "idle", "running" (with the answer the callback
                 \* would have given at its start) or "settled" (with the verdict)
  manual,        \* how often setReady() was called by the application
  sheds,         \* overloadShedAfter is set
  closing,       \* close() of the JS object was called
  admin,         \* serve_admin(): "off", "accepting" or "over"; "none" without a port
  probe          \* a probe: "none", "connected", or the status it was given

checkVars == <<timer, unused, healthy, tick, manual, sheds>>
probeVars == <<admin, probe>>
readyVars == <<js_not_ready, overloaded, timer, unused, healthy, tick, manual,
               sheds, closing, admin, probe>>
allVars == <<vars, readyVars>>

Idle == [phase |-> "idle"]

\* With the given peers, callbacks and calls of setReady() still to come; port:
\* health.port is set; shed: overloadShedAfter is.
ReadyInit(peers, checks, calls, port, shed) ==
  /\ InitWith(peers)
  /\ js_not_ready = FALSE /\ overloaded = FALSE
  /\ timer = NoCheck /\ unused = checks
  /\ healthy = [k \in Check |-> k \in checks]
  /\ tick = [t \in Tick |-> Idle]
  /\ manual = MaxManual - calls
  /\ sheds = shed /\ closing = FALSE
  /\ admin = IF port THEN "off" ELSE "none"
  /\ probe = "none"

\* Readiness::is_ready().
is_ready == ~draining /\ ~js_not_ready /\ ~overloaded

-----------------------------------------------------------------------------
(* The flags.                                                              *)

\* RustServer.set_ready(): nothing before listen() and once close() has begun.
set_ready(ready) == js_not_ready' = IF Running THEN ~ready ELSE js_not_ready

\* app.setReady() by the application.
SetReady(ready) ==
  /\ manual < MaxManual
  /\ manual' = manual + 1
  /\ set_ready(ready)
  /\ UNCHANGED <<vars, overloaded, timer, unused, healthy, tick, sheds,
                 closing, probeVars>>

\* handle() got a slot: the overload is over.  The flag is stored some time after the
\* slot was taken.
SlotAcquired(c) ==
  /\ request[c] = "handler" /\ overloaded
  /\ overloaded' = FALSE
  /\ UNCHANGED <<vars, js_not_ready, checkVars, closing, probeVars>>

\* handle() was refused one: the limiter's verdict, and the connection closes.
Refused(c) ==
  /\ Shed(c)
  /\ overloaded' \in {FALSE, sheds}
  /\ UNCHANGED <<js_not_ready, checkVars, closing, probeVars>>

\* close() of the JS object stops the check and calls the native close().  Its
\* 'shutdown' listeners, and what happens if one throws, are in Server.
Close ==
  /\ ~closing
  /\ closing' = TRUE
  /\ timer' = NoCheck
  /\ UNCHANGED <<vars, js_not_ready, overloaded, unused, healthy, tick, manual, sheds,
                 probeVars>>

\* Mutant of NativeClose: the flag is set when the listener closes.
NativeCloseDrainsLate ==
  /\ closing /\ Running
  /\ closer' = "ready"
  /\ UNCHANGED <<stage, draining, accept, done, active, conn, request, countVars,
                 expired, cut, readyVars>>

\* The native close() begins.
NativeClose == closing /\ CloseStarts /\ UNCHANGED readyVars

-----------------------------------------------------------------------------
(* The periodic check.                                                     *)

\* A tick starts: the callback is called.
Call(t, k) ==
  /\ tick[t].phase = "idle"
  /\ tick' = [tick EXCEPT ![t] = [phase |-> "running", check |-> k, ok |-> healthy[k]]]

\* setReadinessCheck(k): replaces the timer and runs the first tick.
SetCheck(k) ==
  /\ k \in unused
  /\ unused' = unused \ {k}
  /\ timer' = k
  /\ \E t \in Tick : Call(t, k)
  /\ UNCHANGED <<vars, js_not_ready, overloaded, healthy, manual, sheds,
                 closing, probeVars>>

\* The interval timer fires.
TickStarts ==
  /\ timer # NoCheck
  /\ \E t \in Tick : Call(t, timer)
  /\ UNCHANGED <<vars, js_not_ready, overloaded, timer, unused, healthy, manual,
                 sheds, closing, probeVars>>

\* Promise.race: the callback answers, fails, or the timeout expires.
TickSettles(t) ==
  /\ tick[t].phase = "running"
  /\ \E ok \in {tick[t].ok, healthy[tick[t].check]} :
       tick' = [tick EXCEPT ![t] = [phase |-> "settled", check |-> @.check, ok |-> ok]]
  /\ UNCHANGED <<vars, js_not_ready, overloaded, timer, unused, healthy, manual,
                 sheds, closing, probeVars>>

\* Mutant of TickApplies: only a failure is reported.
TickAppliesFailure(t) ==
  /\ tick[t].phase = "settled"
  /\ tick' = [tick EXCEPT ![t] = Idle]
  /\ IF timer # NoCheck /\ ~tick[t].ok THEN set_ready(FALSE) ELSE UNCHANGED js_not_ready
  /\ UNCHANGED <<vars, overloaded, timer, unused, healthy, manual, sheds,
                 closing, probeVars>>

\* The tick continues: its verdict is written while there is a timer, be it the
\* timer of another check.
TickApplies(t) ==
  /\ tick[t].phase = "settled"
  /\ tick' = [tick EXCEPT ![t] = Idle]
  /\ IF timer # NoCheck THEN set_ready(tick[t].ok) ELSE UNCHANGED js_not_ready
  /\ UNCHANGED <<vars, overloaded, timer, unused, healthy, manual, sheds,
                 closing, probeVars>>

\* The database, the queue or whatever a callback looks at goes down or up.
HealthChanges(k) ==
  /\ timer = k
  /\ healthy' = [healthy EXCEPT ![k] = ~@]
  /\ UNCHANGED <<vars, js_not_ready, overloaded, timer, unused, tick, manual, sheds,
                 closing,
                 probeVars>>

-----------------------------------------------------------------------------
(* The port for probes.                                                    *)

\* listen() also spawns serve_admin(); wait_closing() or the runtime ends it.
AdminStarts ==
  /\ admin = "off" /\ Running
  /\ admin' = "accepting"
  /\ UNCHANGED <<vars, js_not_ready, overloaded, checkVars, closing, probe>>

AdminEnds ==
  /\ admin = "accepting" /\ (stage = "closing" \/ accept = "gone")
  /\ admin' = "over"
  /\ UNCHANGED <<vars, js_not_ready, overloaded, checkVars, closing, probe>>

\* A probe connects; its task holds no drain token.
ProbeConnects ==
  /\ admin = "accepting" /\ probe # "connected" /\ accept # "gone"
  /\ probe' = "connected"
  /\ UNCHANGED <<vars, js_not_ready, overloaded, checkVars, closing, admin>>

\* admin_response() to GET /readyz.
ProbeAnswered ==
  /\ probe = "connected" /\ accept # "gone"
  /\ probe' = IF is_ready THEN "200" ELSE "503"
  /\ UNCHANGED <<vars, js_not_ready, overloaded, checkVars, closing, admin>>

-----------------------------------------------------------------------------
ReadyNext ==
  \/ Background /\ UNCHANGED readyVars
  \/ NativeClose \/ Close
  \/ \E c \in Conn : SlotAcquired(c) \/ Refused(c)
  \/ \E ready \in BOOLEAN : SetReady(ready)
  \/ \E k \in Check : SetCheck(k) \/ HealthChanges(k)
  \/ TickStarts
  \/ \E t \in Tick : TickSettles(t) \/ TickApplies(t)
  \/ AdminStarts \/ AdminEnds \/ ProbeConnects \/ ProbeAnswered

\* Any peers, callbacks and calls of setReady() to come, with or without a port for
\* the probes and shedding.
Init ==
  \E peers \in SUBSET All, checks \in SUBSET Check, calls \in 0 .. MaxManual,
     port \in BOOLEAN, shed \in BOOLEAN : ReadyInit(peers, checks, calls, port, shed)

Spec == Init /\ [][ReadyNext]_allVars

\* Besides the tasks of Shutdown, the event loop: the interval timer fires, a
\* tick ends at the latest with its timeout, and goes on after its await.
ReadyFairness ==
  /\ Fairness
  /\ WF_allVars(NativeClose) /\ WF_allVars(TickStarts)
  /\ \A t \in Tick : WF_allVars(TickSettles(t)) /\ WF_allVars(TickApplies(t))

-----------------------------------------------------------------------------
(* Properties.                                                             *)

\* listen() spawned the accept loop, and registering its socket failed.
StartFailed == accept = "over" /\ stage = "running"

\* "drop readiness and keep accepting while the LB drains" (README.md 276, lib.rs
\* 763-774): as long as /readyz invites traffic the listener is there to take
\* it, whatever setReady(), a late tick of the check or the limiter write
\* during the shutdown.
ReadyMeansListening ==
  is_ready => accept \in {"unbound", "starting", "accepting"} \/ StartFailed

\* /readyz follows the check in force (index.ts 880-914): once what the callback
\* looks at stays up, or stays down, the flag comes to agree with it and keeps
\* agreeing, although ticks overlap, end late and may belong to an older check.
ReadinessFollowsCheck ==
  \A k \in Check :
    /\ <>[](Running /\ timer = k /\ healthy[k]) => <>[](~js_not_ready)
    /\ <>[](Running /\ timer = k /\ ~healthy[k]) => <>[]js_not_ready
=============================================================================
