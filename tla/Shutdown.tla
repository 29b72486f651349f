------------------------------ MODULE Shutdown ------------------------------
(***************************************************************************)
(* Connections and graceful shutdown: the accept loop serve(), the task of *)
(* a connection serve_conn()/drive() and wait_closing() in                 *)
(* src/src/server.rs, the idle watchdog of src/src/idle.rs, the draining   *)
(* flag of src/src/health.rs, and close() and inject() of RustServer in    *)
(* src/src/lib.rs.                                                         *)
(*                                                                         *)
(* Time is not modelled: a timer may expire at any point after it was      *)
(* started.  hyper and tokio are external; what the code relies on is that *)
(* a connection in graceful shutdown finishes its request and takes no     *)
(* other, and that shutting the runtime down drops every task.             *)
(***************************************************************************)
EXTENDS Integers, FiniteSets

CONSTANTS
  Conn,            \* connections through a socket
  Inject,          \* app.inject() calls: connections through a pipe
  MaxConnections,  \* maxConnections
  PreDelay         \* preShutdownDelay is not zero

ASSUME ConnAssumption == IsFiniteSet(Conn) /\ Conn \intersect Inject = {}
ASSUME OptionsAssumption == MaxConnections \in Nat /\ PreDelay \in BOOLEAN

VARIABLES
  stage,     \* the watch channel: "running", "pre" or "closing"
  draining,  \* Readiness.draining
  closer,    \* close(): "none", "ready" (flag set), "pre", "waiting", "returned"
  accept,    \* serve(): "unbound" before listen(), "starting", "accepting",
             \* "draining", "over", and "gone" with the runtime
  done,      \* the permit of the `done' Notify
  active,    \* RustServer.active is Some
  conn,      \* the task of each connection
  request,   \* what each connection is doing: "none", "handler" or "stream"
  live,      \* the counter behind maxConnections
  gauge,     \* Metrics.connections
  tokens,    \* the connections that hold a clone of drain_tx
  expired,   \* history: shutdownTimeout has expired
  cut        \* history: connections the server dropped in mid-request

closeVars == <<stage, draining, closer, done, active>>
countVars == <<live, gauge, tokens>>
vars == <<stage, draining, closer, accept, done, active, conn, request, live,
          gauge, tokens, expired, cut>>

All == Conn \union Inject

\* Before listen(), with the given peers and inject() calls still to come.
InitWith(peers) ==
  /\ stage = "running" /\ draining = FALSE /\ closer = "none"
  /\ accept = "unbound" /\ done = FALSE /\ active = FALSE
  /\ conn = [c \in All |-> IF c \in peers THEN "away" ELSE "closed"]
  /\ request = [c \in All |-> "none"]
  /\ live = 0 /\ gauge = 0 /\ tokens = {}
  /\ expired = FALSE /\ cut = {}

-----------------------------------------------------------------------------
(* serve(): the accept loop.                                               *)

\* RustServer.listen(), once the socket is bound: the runtime, the spawned accept
\* loop and the bridge methods.
Listen ==
  /\ accept = "unbound"
  /\ accept' = "starting"
  /\ active' = TRUE
  /\ UNCHANGED <<stage, draining, closer, done, conn, request, countVars, expired,
                 cut>>

\* The listening socket is registered with the reactor; if that fails, done is
\* signalled and there is no loop.
ServeStarts ==
  /\ accept = "starting"
  /\ \/ accept' = "accepting" /\ UNCHANGED done
     \/ accept' = "over" /\ done' = TRUE
  /\ UNCHANGED <<stage, draining, closer, active, conn, request, countVars,
                 expired, cut>>

\* Mutant of Accept: the limit is compared before the reservation.
AcceptOneTooMany(c) ==
  /\ accept = "accepting" /\ conn[c] = "away"
  /\ IF live > MaxConnections
     THEN /\ conn' = [conn EXCEPT ![c] = "closed"]
          /\ UNCHANGED <<live, tokens>>
     ELSE /\ conn' = [conn EXCEPT ![c] = "spawned"]
          /\ live' = live + 1
          /\ tokens' = tokens \union {c}
  /\ UNCHANGED <<closeVars, accept, request, gauge, expired, cut>>

\* Mutant of Accept: the task does not get a clone of drain_tx.
AcceptWithoutToken(c) ==
  /\ accept = "accepting" /\ conn[c] = "away"
  /\ IF live + 1 > MaxConnections
     THEN /\ conn' = [conn EXCEPT ![c] = "closed"]
          /\ UNCHANGED <<live, tokens>>
     ELSE /\ conn' = [conn EXCEPT ![c] = "spawned"]
          /\ live' = live + 1
          /\ UNCHANGED tokens
  /\ UNCHANGED <<closeVars, accept, request, gauge, expired, cut>>

\* One accepted connection: reserve, compare, and roll back or spawn.  The
\* select! is not biased: a connection may still win against CLOSING.
Accept(c) ==
  /\ accept = "accepting" /\ conn[c] = "away"
  /\ IF live + 1 > MaxConnections
     THEN /\ conn' = [conn EXCEPT ![c] = "closed"]
          /\ UNCHANGED <<live, tokens>>
     ELSE /\ conn' = [conn EXCEPT ![c] = "spawned"]
          /\ live' = live + 1
          /\ tokens' = tokens \union {c}
  /\ UNCHANGED <<closeVars, accept, request, gauge, expired, cut>>

\* wait_closing() wins the select!: the listener and the loop's drain_tx drop.
StopAccepting ==
  /\ accept = "accepting" /\ stage = "closing"
  /\ accept' = "draining"
  /\ UNCHANGED <<closeVars, conn, request, countVars, expired, cut>>

\* drain_rx.recv() returns None, or the deadline expires; then done.
Drained ==
  /\ accept = "draining"
  /\ \/ tokens = {} /\ UNCHANGED expired
     \/ expired' = TRUE
  /\ accept' = "over"
  /\ done' = TRUE
  /\ UNCHANGED <<stage, draining, closer, active, conn, request, countVars, cut>>

-----------------------------------------------------------------------------
(* serve_conn() and drive(): the task of one connection.                   *)

\* The task starts: the connections gauge, then PROXY prefix and TLS.
TaskStarts(c) ==
  /\ conn[c] = "spawned"
  /\ gauge' = gauge + 1
  /\ conn' = [conn EXCEPT ![c] = "handshake"]
  /\ UNCHANGED <<closeVars, accept, request, live, tokens, expired, cut>>

\* The task of c returns or is dropped: LiveGuard and ConnMetricGuard first, the
\* clone of drain_tx with the rest of the task.
TaskEnds(c) ==
  /\ conn' = [conn EXCEPT ![c] = IF c \in Conn THEN "ended" ELSE "closed"]
  /\ request' = [request EXCEPT ![c] = "none"]
  /\ live' = IF c \in Conn THEN live - 1 ELSE live
  /\ gauge' = IF c \in Conn THEN gauge - 1 ELSE gauge
  /\ UNCHANGED <<closeVars, accept, tokens, expired>>

TokenDropped(c) ==
  /\ conn[c] = "ended"
  /\ conn' = [conn EXCEPT ![c] = "closed"]
  /\ tokens' = tokens \ {c}
  /\ UNCHANGED <<closeVars, accept, request, live, gauge, expired, cut>>

\* The prefix and the handshake: drive() begins, or the task returns (also when
\* handshakeTimeout expires).  Nobody looks at the shutdown signal here.
Handshake(c) ==
  /\ conn[c] = "handshake"
  /\ \/ /\ conn' = [conn EXCEPT ![c] = "open"]
        /\ UNCHANGED <<closeVars, accept, request, countVars, expired, cut>>
     \/ TaskEnds(c) /\ UNCHANGED cut

\* A request arrives and its handler starts under a RequestGuard.
Request(c) ==
  /\ conn[c] = "open" /\ request[c] = "none"
  /\ request' = [request EXCEPT ![c] = "handler"]
  /\ UNCHANGED <<closeVars, accept, conn, countVars, expired, cut>>

\* handle() returns and the guard is dropped: the response is written at once
\* or its body is streamed.  A JS handler gets its answer through while the
\* bridge methods work, the Rust edges answer in any case.
HandlerReturns(c) ==
  /\ request[c] = "handler"
  /\ \E after \in {"none", "stream"} : request' = [request EXCEPT ![c] = after]
  /\ UNCHANGED <<closeVars, accept, conn, countVars, expired, cut>>

StreamEnds(c) ==
  /\ request[c] = "stream"
  /\ request' = [request EXCEPT ![c] = "none"]
  /\ UNCHANGED <<closeVars, accept, conn, countVars, expired, cut>>

\* wait_closing() returns in drive(): graceful_shutdown().
SeesClosing(c) ==
  /\ conn[c] = "open" /\ stage = "closing"
  /\ conn' = [conn EXCEPT ![c] = "graceful"]
  /\ UNCHANGED <<closeVars, accept, request, countVars, expired, cut>>

\* shed.notified(): handle() refused a request of this connection.
Shed(c) ==
  /\ conn[c] = "open" /\ request[c] = "handler"
  /\ conn' = [conn EXCEPT ![c] = "graceful"]
  /\ request' = [request EXCEPT ![c] = "none"]
  /\ UNCHANGED <<closeVars, accept, countVars, expired, cut>>

\* In graceful shutdown the connection ends when its request has ended.
GracefulEnds(c) ==
  /\ conn[c] = "graceful" /\ request[c] = "none"
  /\ TaskEnds(c)
  /\ UNCHANGED cut

\* The peer closes the connection.
ClientLeaves(c) ==
  /\ conn[c] \in {"handshake", "open", "graceful"}
  /\ TaskEnds(c)
  /\ UNCHANGED cut

\* Mutant of IdleExpires: requests in flight do not count.
IdleExpiresBusy(c) ==
  /\ conn[c] \in {"open", "graceful"}
  /\ TaskEnds(c)
  /\ cut' = IF request[c] = "handler" THEN cut \union {c} ELSE cut

\* watch_idle() returns: no request in flight and nothing moved on the socket.
IdleExpires(c) ==
  /\ conn[c] \in {"open", "graceful"} /\ request[c] # "handler"
  /\ TaskEnds(c)
  /\ UNCHANGED cut

-----------------------------------------------------------------------------
(* RustServer.inject() and RustServer.close().                             *)

\* RustServer.state is Some.
Running == accept # "unbound" /\ closer = "none"

\* inject(): handle() runs in a task of its own on the server's runtime, behind
\* neither the accept loop nor drive().  It needs a server that is not closing.
InjectStarts(c) ==
  /\ Running /\ conn[c] = "away"
  /\ conn' = [conn EXCEPT ![c] = "open"]
  /\ request' = [request EXCEPT ![c] = "handler"]
  /\ UNCHANGED <<closeVars, accept, countVars, expired, cut>>

InjectEnds(c) ==
  /\ conn[c] = "open" /\ request[c] = "none"
  /\ conn' = [conn EXCEPT ![c] = "closed"]
  /\ UNCHANGED <<closeVars, accept, request, countVars, expired, cut>>

\* close(): state.take() and set_draining(true).
CloseStarts ==
  /\ Running
  /\ draining' = TRUE
  /\ closer' = "ready"
  /\ UNCHANGED <<stage, accept, done, active, conn, request, countVars, expired,
                 cut>>

\* PRE_SHUTDOWN and the sleep, when preShutdownDelay is not zero.
SendPreShutdown ==
  /\ closer = "ready" /\ PreDelay
  /\ stage' = "pre"
  /\ closer' = "pre"
  /\ UNCHANGED <<draining, accept, done, active, conn, request, countVars,
                 expired, cut>>

\* Mutant of SendClosing: the delay lasts until the last connection has gone.
SendClosingWhenQuiet ==
  /\ closer = (IF PreDelay THEN "pre" ELSE "ready") /\ tokens = {}
  /\ stage' = "closing"
  /\ closer' = "waiting"
  /\ UNCHANGED <<draining, accept, done, active, conn, request, countVars,
                 expired, cut>>

\* CLOSING, after the delay if there is one.
SendClosing ==
  /\ closer = (IF PreDelay THEN "pre" ELSE "ready")
  /\ stage' = "closing"
  /\ closer' = "waiting"
  /\ UNCHANGED <<draining, accept, done, active, conn, request, countVars,
                 expired, cut>>

\* done.notified(), or close()'s own deadline (shutdownTimeout and a second
\* after CLOSING); then the bridge methods stop.
CloseReturns ==
  /\ closer = "waiting"
  /\ \/ done /\ done' = FALSE /\ UNCHANGED expired
     \/ expired' = TRUE /\ UNCHANGED done
  /\ active' = FALSE
  /\ closer' = "returned"
  /\ UNCHANGED <<stage, draining, accept, conn, request, countVars, cut>>

Alive == {c \in All : conn[c] \notin {"away", "ended", "closed"}}

\* The thread close() leaves behind: runtime.shutdown_timeout drops every task,
\* the accept loop's and the admin port's included.
RuntimeStops ==
  /\ closer = "returned" /\ accept # "gone"
  /\ accept' = "gone"
  /\ conn' = [c \in All |-> IF conn[c] = "away" THEN "away" ELSE "closed"]
  /\ request' = [c \in All |-> "none"]
  /\ cut' = cut \union {c \in All : request[c] # "none"}
  /\ live' = live - Cardinality(Alive \intersect Conn)
  /\ gauge' = gauge - Cardinality({c \in Alive \intersect Conn : conn[c] # "spawned"})
  /\ tokens' = {}
  /\ UNCHANGED <<closeVars, expired>>

Gone == accept = "gone" /\ UNCHANGED vars

-----------------------------------------------------------------------------
\* What a connection task does by itself, without a peer, a handler or a timer.
TaskStep(c) ==
  TaskStarts(c) \/ SeesClosing(c) \/ GracefulEnds(c) \/ TokenDropped(c)

\* Everything but the beginning of close() and a refusal by the limiter.
Background ==
  \/ Listen \/ ServeStarts \/ StopAccepting \/ Drained
  \/ SendPreShutdown \/ SendClosing \/ CloseReturns \/ RuntimeStops
  \/ \E c \in Conn : \/ Accept(c) \/ TaskStep(c) \/ Handshake(c) \/ Request(c)
                     \/ ClientLeaves(c) \/ IdleExpires(c)
  \/ \E c \in Inject : InjectStarts(c) \/ InjectEnds(c)
  \/ \E c \in All : HandlerReturns(c) \/ StreamEnds(c)
  \/ Gone

\* tokio polls what can run, its timers expire and the thread of close() runs.
\* Handlers may never return, peers may stay silent for ever, and there may be
\* no handshakeTimeout and no idleTimeout.
Fairness ==
  /\ WF_vars(ServeStarts) /\ WF_vars(StopAccepting) /\ WF_vars(Drained)
  /\ WF_vars(SendPreShutdown) /\ WF_vars(SendClosing)
  /\ WF_vars(CloseReturns) /\ WF_vars(RuntimeStops)
  /\ \A c \in Conn : WF_vars(TaskStep(c))

-----------------------------------------------------------------------------
(* Properties.                                                             *)

\* "the cap holds no matter how many tasks accept" (server.rs 261-268, 439-446):
\* never more connections than maxConnections, and every way a task can end
\* gives its place back exactly once, so that the server does not wear out; the
\* connections gauge counts the tasks that have started.
ConnectionCap ==
  /\ live <= MaxConnections
  /\ live = Cardinality(Alive \intersect Conn)
  /\ gauge = Cardinality({c \in Alive \intersect Conn : conn[c] # "spawned"})

\* Graceful shutdown (lib.rs 747-751, server.rs 297-309): when close() resolves
\* without the deadline, no request that came through a socket is unfinished;
\* those after CLOSING and those in mid-handshake included.
DrainComplete ==
  closer = "returned" /\ ~expired /\ accept # "gone" =>
    \A c \in Conn : conn[c] \in {"away", "ended", "closed"}

\* A request in its handler is never cut off by the server before the deadline:
\* not by the idle watchdog, not by shedding, not by the end of the runtime.
NothingCutBeforeDeadline == cut \intersect Conn # {} => expired

\* close() resolves even if handlers hang and peers are silent (lib.rs 776-778),
\* and no connection stays behind (lib.rs 753-757, 784-788): the port and the
\* event loop are let go.
CloseResolves ==
  closer # "none" ~> closer = "returned" /\ Alive = {} /\ tokens = {}
=============================================================================
