------------------------------ MODULE Overload ------------------------------
(***************************************************************************)
(* Overload protection: Limiter (src/src/overload.rs), the `overloaded'    *)
(* reason of Readiness (src/src/health.rs), the in-flight gauge of Metrics *)
(* (src/src/metrics.rs) and handle() (src/src/server.rs), which ties them  *)
(* together.  The requests run on several tokio threads and share nothing  *)
(* but atomics and the semaphore, so every atomic operation is a step, and *)
(* so is every reading of the clock (in milliseconds): a thread may rest   *)
(* between the clock and the atomic next to it.                            *)
(*                                                                         *)
(* A handle() future can be dropped only at an await: in the queue or in   *)
(* handle_inner (Disconnect).  The semaphore is tokio's (external): a      *)
(* released permit goes straight to a waiter if there is one.  tokio picks *)
(* the oldest, the model any: nothing below depends on the order.          *)
(***************************************************************************)
EXTENDS Naturals, FiniteSets

CONSTANTS
  Req,            \* the requests
  Probes,         \* those for /healthz, /readyz or /metrics on the main port
  MaxConcurrent,  \* maxConcurrentRequests
  MaxQueue,       \* maxQueue
  ShedAfter,      \* overloadShedAfter, in ticks of the clock
  MaxNow          \* bound: the clock stops here

ASSUME ReqAssumption == IsFiniteSet(Req) /\ Probes \subseteq Req
ASSUME LimitAssumption == MaxConcurrent \in Nat \ {0} /\ MaxQueue \in Nat
ASSUME ClockAssumption == ShedAfter \in Nat /\ MaxNow \in Nat

VARIABLES
  pc,          \* where each request is in handle()
  free,        \* permits in Limiter.sem
  queued,      \* Limiter.queued
  since,       \* Limiter.saturated_since_ms
  now,         \* base.elapsed()
  stamp,       \* the local of mark_saturated() (now) or should_shed() (since)
  verdict,     \* what should_shed() returned to each request
  overloaded,  \* Readiness.overloaded
  in_flight,   \* Metrics.in_flight
  goaway,      \* requests whose connection was asked to close (shed.notify_one)
  lastClear,   \* history: when clear_saturation() ran last
  overtaken,   \* history: requests whose stamp is from before the last clear
  staleOrigin  \* history: the streak began with such a stamp

limiterVars == <<free, queued>>
streakVars == <<since, stamp, lastClear, overtaken, staleOrigin>>
vars == <<pc, free, queued, since, now, stamp, verdict, overloaded,
          in_flight, goaway, lastClear, overtaken, staleOrigin>>

Init ==
  /\ pc = [r \in Req |-> "new"]
  /\ free = MaxConcurrent /\ queued = 0
  /\ since = 0 /\ now = 0 /\ stamp = [r \in Req |-> 0]
  /\ lastClear = 0 /\ overtaken = {} /\ staleOrigin = FALSE
  /\ verdict = [r \in Req |-> FALSE]
  /\ overloaded = FALSE /\ in_flight = 0 /\ goaway = {}

Goto(r, label) == pc' = [pc EXCEPT ![r] = label]

-----------------------------------------------------------------------------
(* handle(): the gauge and the probes.                                     *)

\* request_started(), then the probe test: probes come before the limiter.
Start(r) ==
  /\ pc[r] = "new"
  /\ in_flight' = in_flight + 1
  /\ Goto(r, IF r \in Probes THEN "finish" ELSE "try")
  /\ UNCHANGED <<limiterVars, streakVars, now, verdict, overloaded, goaway>>

\* request_finished(): reached only when the future runs to its end.
Finish(r) ==
  /\ pc[r] = "finish"
  /\ in_flight' = in_flight - 1
  /\ Goto(r, "done")
  /\ UNCHANGED <<limiterVars, streakVars, now, verdict, overloaded, goaway>>

-----------------------------------------------------------------------------
(* Limiter::acquire().                                                     *)

\* try_acquire_owned(): the fast path, or on to the queue.
TryAcquire(r) ==
  /\ pc[r] = "try"
  /\ IF free > 0 THEN free' = free - 1 /\ Goto(r, "clear")
                 ELSE UNCHANGED free /\ Goto(r, "mark")
  /\ UNCHANGED <<queued, streakVars, now, verdict, overloaded, in_flight, goaway>>

\* The requests between the two halves of mark_saturated() or should_shed().
MidStreak == {r \in Req : pc[r] \in {"exchange", "elapsed"}}

\* clear_saturation(): the streak is over.  Only the fast path calls it.
ClearSaturation(r) ==
  /\ pc[r] = "clear"
  /\ since' = 0
  /\ lastClear' = now /\ overtaken' = MidStreak /\ staleOrigin' = FALSE
  /\ Goto(r, "slot")
  /\ UNCHANGED <<limiterVars, now, stamp, verdict, overloaded, in_flight, goaway>>

\* mark_saturated() reads the clock,
MarkSaturated(r) ==
  /\ pc[r] = "mark"
  /\ stamp' = [stamp EXCEPT ![r] = now]
  /\ Goto(r, "exchange")
  /\ UNCHANGED <<limiterVars, since, now, verdict, overloaded, in_flight, goaway,
                 lastClear, overtaken, staleOrigin>>

\* then compare_exchange: the first refusal of a streak sets its origin, never 0.
\* Without a queue the request is refused at once.
MarkExchange(r) ==
  /\ pc[r] = "exchange"
  /\ IF since = 0
       THEN /\ since' = IF stamp[r] = 0 THEN 1 ELSE stamp[r]
            /\ staleOrigin' = (r \in overtaken)
       ELSE UNCHANGED <<since, staleOrigin>>
  /\ stamp' = [stamp EXCEPT ![r] = 0] /\ overtaken' = overtaken \ {r}
  /\ Goto(r, IF MaxQueue = 0 THEN "refuse" ELSE "join")
  /\ UNCHANGED <<limiterVars, now, verdict, overloaded, in_flight, goaway,
                 lastClear>>

\* queued.fetch_add(1) and the test on the depth before it.
JoinQueue(r) ==
  /\ pc[r] = "join"
  /\ queued' = queued + 1
  /\ Goto(r, IF queued >= MaxQueue THEN "full" ELSE "acquire")
  /\ UNCHANGED <<free, streakVars, now, verdict, overloaded,
                 in_flight, goaway>>

\* The queue is full: take the increment back and refuse.
LeaveFull(r) ==
  /\ pc[r] = "full"
  /\ queued' = queued - 1
  /\ Goto(r, "refuse")
  /\ UNCHANGED <<free, streakVars, now, verdict, overloaded,
                 in_flight, goaway>>

\* The first poll of acquire_owned().
AcquireOwned(r) ==
  /\ pc[r] = "acquire"
  /\ IF free > 0 THEN free' = free - 1 /\ Goto(r, "granted")
                 ELSE UNCHANGED free /\ Goto(r, "waiting")
  /\ UNCHANGED <<queued, streakVars, now, verdict, overloaded, in_flight, goaway>>

\* Mutant of QueueTimeout: acquire_owned() is awaited without a timeout.
QueueTimeoutMissing(r) == FALSE /\ UNCHANGED vars /\ r \in Req

\* tokio::time::timeout expires before a permit came.
QueueTimeout(r) ==
  /\ pc[r] = "waiting"
  /\ Goto(r, "gaveup")
  /\ UNCHANGED <<free, queued, streakVars, now, verdict, overloaded, in_flight,
                 goaway>>

\* After the wait: queued.fetch_sub(1), then the slot or the refusal.
LeaveQueue(r) ==
  /\ pc[r] \in {"granted", "gaveup"}
  /\ queued' = queued - 1
  /\ Goto(r, IF pc[r] = "granted" THEN "slot" ELSE "refuse")
  /\ UNCHANGED <<free, streakVars, now, verdict, overloaded, in_flight,
                 goaway>>

Waiting == {r \in Req : pc[r] = "waiting"}

\* r gives a permit back and goes on at label: a waiter takes it, if there is one.
Release(r, label) ==
  \/ /\ Waiting = {}
     /\ free' = free + 1
     /\ Goto(r, label)
  \/ \E w \in Waiting :
       /\ pc' = [pc EXCEPT ![r] = label, ![w] = "granted"]
       /\ UNCHANGED free

-----------------------------------------------------------------------------
(* handle(): what follows acquire().                                       *)

\* Slot::Acquired: set_overloaded(false), and handle_inner begins.
SlotAcquired(r) ==
  /\ pc[r] = "slot"
  /\ overloaded' = FALSE
  /\ Goto(r, "running")
  /\ UNCHANGED <<limiterVars, streakVars, now, verdict, in_flight, goaway>>

\* Mutant of Served: the permit goes back to the pool past the waiters.
ServedBypassesWaiters(r) ==
  /\ pc[r] = "running"
  /\ free' = free + 1
  /\ Goto(r, "finish")
  /\ UNCHANGED <<queued, streakVars, now, verdict, overloaded, in_flight, goaway>>

\* handle_inner returns and the permit is dropped.
Served(r) ==
  /\ pc[r] = "running"
  /\ Release(r, "finish")
  /\ UNCHANGED <<queued, streakVars, now, verdict, overloaded, in_flight, goaway>>

\* Mutant of LoadSince: "no overload" (0) is taken for a start at time 0.
LoadSinceFromZero(r) ==
  /\ pc[r] = "refuse"
  /\ stamp' = [stamp EXCEPT ![r] = since]
  /\ overtaken' = IF staleOrigin THEN overtaken \union {r} ELSE overtaken
  /\ Goto(r, "elapsed")
  /\ UNCHANGED <<limiterVars, since, now, verdict, overloaded, in_flight, goaway,
                 lastClear, staleOrigin>>

\* Slot::Rejected: should_shed() loads the origin; without a streak it is false,
LoadSince(r) ==
  /\ pc[r] = "refuse"
  /\ IF since = 0
       THEN /\ verdict' = [verdict EXCEPT ![r] = FALSE]
            /\ Goto(r, "verdict")
            /\ UNCHANGED <<stamp, overtaken>>
       ELSE /\ stamp' = [stamp EXCEPT ![r] = since]
            /\ overtaken' = IF staleOrigin THEN overtaken \union {r} ELSE overtaken
            /\ Goto(r, "elapsed")
            /\ UNCHANGED verdict
  /\ UNCHANGED <<limiterVars, since, now, overloaded, in_flight, goaway, lastClear,
                 staleOrigin>>

\* else it reads the clock and compares (saturating_sub) with the threshold.
ShouldShed(r) ==
  /\ pc[r] = "elapsed"
  /\ verdict' = [verdict EXCEPT ![r] =
                   (IF now > stamp[r] THEN now - stamp[r] ELSE 0) >= ShedAfter]
  /\ stamp' = [stamp EXCEPT ![r] = 0] /\ overtaken' = overtaken \ {r}
  /\ Goto(r, "verdict")
  /\ UNCHANGED <<limiterVars, since, now, overloaded, in_flight, goaway, lastClear,
                 staleOrigin>>

\* set_overloaded(should_shed()), shed.notify_one() and the 503.
Refuse(r) ==
  /\ pc[r] = "verdict"
  /\ overloaded' = verdict[r]
  /\ goaway' = goaway \union {r}
  /\ Goto(r, "finish")
  /\ UNCHANGED <<limiterVars, streakVars, now, verdict, in_flight>>

\* Mutant of Disconnect: the permit of a running request is forgotten.
DisconnectKeepsPermit(r) ==
  /\ \/ /\ pc[r] = "waiting"
        /\ Goto(r, "dropped")
        /\ UNCHANGED free
     \/ /\ pc[r] \in {"granted", "running"}
        /\ Goto(r, "dropped")
        /\ UNCHANGED free
  /\ UNCHANGED <<queued, streakVars, now, verdict, overloaded, in_flight, goaway>>

\* hyper drops the future at its await: the client left.  The semaphore cleans
\* up after a waiter and after a permit; neither queued nor in_flight has a guard.
Disconnect(r) ==
  /\ \/ /\ pc[r] = "waiting"
        /\ Goto(r, "dropped")
        /\ UNCHANGED free
     \/ /\ pc[r] \in {"granted", "running"}
        /\ Release(r, "dropped")
  /\ UNCHANGED <<queued, streakVars, now, verdict, overloaded, in_flight, goaway>>

Tick ==
  /\ now < MaxNow
  /\ now' = now + 1
  /\ UNCHANGED <<pc, limiterVars, streakVars, verdict, overloaded, in_flight,
                 goaway>>

Ended == {r \in Req : pc[r] \in {"done", "dropped"}}

\* Every request has ended.
Quiet == Ended = Req /\ UNCHANGED vars

-----------------------------------------------------------------------------
\* The steps acquire() and handle() take without waiting for anyone.
Proceed(r) ==
  \/ TryAcquire(r) \/ ClearSaturation(r) \/ MarkSaturated(r) \/ MarkExchange(r)
  \/ JoinQueue(r) \/ LeaveFull(r) \/ AcquireOwned(r) \/ LeaveQueue(r)
  \/ SlotAcquired(r) \/ LoadSince(r) \/ ShouldShed(r) \/ Refuse(r) \/ Finish(r)

Next ==
  \/ \E r \in Req : Start(r) \/ Proceed(r) \/ QueueTimeout(r)
                      \/ Served(r) \/ Disconnect(r)
  \/ Tick
  \/ Quiet

Spec == Init /\ [][Next]_vars

\* tokio polls what can run and its timers expire.  A handler may never return.
FairSpec ==
  Spec /\ \A r \in Req : WF_vars(Proceed(r)) /\ WF_vars(QueueTimeout(r))

-----------------------------------------------------------------------------
(* Properties.                                                             *)

\* The requests that hold a permit.
Holders == {r \in Req : pc[r] \in {"clear", "slot", "granted", "running"}}

\* The requests between queued.fetch_add(1) and queued.fetch_sub(1).
Counted == {r \in Req : pc[r] \in {"full", "acquire", "waiting", "granted", "gaveup"}}

\* The requests in the queue.
Queue == Counted \ {r \in Req : pc[r] = "full"}

\* The requests handle() has begun with and not finished or lost.
Handled == {r \in Req : pc[r] \notin {"new", "done", "dropped"}}

\* No permit is lost or made (overload.rs 69-109, server.rs 596-603): whichever
\* of a return, a timeout and a disconnect wins, the permits in the semaphore
\* and the ones held by requests add up to maxConcurrentRequests.
PermitsConserved == free + Cardinality(Holders) = MaxConcurrent

\* "The queue is bounded" (overload.rs 90-98): the optimistic increment lets at
\* most maxQueue requests wait, however many arrive at the same time.
QueueBounded == Cardinality(Queue) <= MaxQueue

\* The counters are unsigned or shown to an operator (overload.rs 36, metrics.rs
\* 32): they never run below what they count, whoever leaves in whatever order.
CountersCover == queued >= Cardinality(Counted) /\ in_flight >= Cardinality(Handled)

\* The books of the limiter are right in every state, although every request
\* touches them in several steps and may be dropped between any two of them.
LimiterAccounts == PermitsConserved /\ QueueBounded /\ CountersCover

\* A slot is never idle while a request waits for one (overload.rs 101): a waiter
\* that times out or leaves does not take a permit away with it.
NoStrandedWaiter == free > 0 => Waiting = {}

\* should_shed() answers r, and no clear_saturation() fell between the clock and
\* the atomic of the mark_saturated() that began the streak r judges, nor between
\* the load and the clock of r.
DecidesUndisturbed(r) == pc[r] = "elapsed" /\ r \notin overtaken

\* "An instant burst must not drop readiness" (overload.rs 113-136): a refusal
\* decides to shed only if for overloadShedAfter no request found a free slot
\* and cleared the streak, however long the threads rest between their steps and
\* whoever set the origin.  Excepted are the two windows of DecidesUndisturbed,
\* in which a clear comes too late to be seen; overload.rs 38 makes no exception.
ShedNeedsStreak ==
  [][\A r \in Req : DecidesUndisturbed(r) /\ pc'[r] = "verdict" /\ verdict'[r] =>
        now >= lastClear + ShedAfter]_vars

\* Nobody waits in the queue for ever, also when no handler ever returns
\* (overload.rs 100-102).
QueueDrains == \A r \in Req : pc[r] = "waiting" ~> pc[r] # "waiting"

\* Limiter.queued is documented as the "Current queue depth" (overload.rs 35).
QueuedIsDepth == queued = Cardinality(Counted)
=============================================================================
