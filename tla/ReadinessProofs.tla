-------------------------- MODULE ReadinessProofs --------------------------
(***************************************************************************)
(* Proofs about Shutdown and Readiness, for every set of peers and every   *)
(* limit.  Readiness leaves what Shutdown keeps alone except for the start *)
(* of close() and the refusal by the limiter, so the invariant is proved   *)
(* over the steps of Shutdown.                                             *)
(***************************************************************************)
EXTENDS Readiness, FiniteSetTheorems, TLAPS

Tasks == {"away", "spawned", "handshake", "open", "graceful", "ended", "closed"}
LiveTasks == {"spawned", "handshake", "open", "graceful"}
DrivenTasks == {"handshake", "open", "graceful"}

TypeInv ==
  /\ stage \in {"running", "pre", "closing"}
  /\ closer \in {"none", "ready", "pre", "waiting", "returned"}
  /\ accept \in {"unbound", "starting", "accepting", "draining", "over", "gone"}
  /\ draining \in BOOLEAN /\ done \in BOOLEAN /\ active \in BOOLEAN /\ expired \in BOOLEAN
  /\ conn \in [All -> Tasks]
  /\ request \in [All -> {"none", "handler", "stream"}]
  /\ live \in Int /\ gauge \in Int
  /\ tokens \subseteq Conn /\ cut \subseteq All

\* The connections whose task is in one of the given states.
At(f, T) == {c \in Conn : f[c] \in T}
Weight(task, T) == IF task \in T THEN 1 ELSE 0

\* The counters, in terms of At.
Counters ==
  /\ live <= MaxConnections
  /\ live = Cardinality(At(conn, LiveTasks))
  /\ gauge = Cardinality(At(conn, DrivenTasks))

\* A task holds its drain token from its spawn to its very end.
TokensHeld == \A c \in Conn : c \in tokens <=> conn[c] \notin {"away", "closed"}

\* Only a connection that is being driven has a request.
RequestsDriven == \A c \in Conn : request[c] # "none" => conn[c] \in {"open", "graceful"}

\* How far the accept loop, the drain and close() have come.
DrainOrder ==
  /\ accept \in {"unbound", "starting"} => tokens = {}
  /\ accept = "over" /\ ~expired => tokens = {}
  /\ done => accept \in {"over", "gone"}
  /\ closer = "returned" /\ ~expired => accept \in {"over", "gone"}

\* close() has begun: readiness is down from its first step on.
CloseOrder ==
  /\ closer # "none" => draining
  /\ closer = "none" => stage = "running"
  /\ accept = "draining" => closer # "none"
  /\ accept = "gone" => closer = "returned"

IInv == /\ TypeInv /\ Counters /\ TokensHeld /\ RequestsDriven
        /\ DrainOrder /\ CloseOrder /\ NothingCutBeforeDeadline

-----------------------------------------------------------------------------
(* Counting.                                                               *)

LEMMA AtFinite ==
  ASSUME NEW f, NEW T PROVE IsFiniteSet(At(f, T)) /\ Cardinality(At(f, T)) \in Nat
<1>1. At(f, T) \in SUBSET Conn
  BY DEF At
<1>2. IsFiniteSet(At(f, T))
  BY <1>1, ConnAssumption, FS_Subset
<1> QED BY <1>2, FS_CardinalityType

\* One connection enters or leaves a set of states.
LEMMA CountMove ==
  ASSUME NEW f \in [All -> Tasks], NEW c \in Conn, NEW b \in Tasks, NEW T,
         NEW g, g = [f EXCEPT ![c] = b]
  PROVE  Cardinality(At(g, T)) =
           Cardinality(At(f, T)) + Weight(b, T) - Weight(f[c], T)
<1>0. IsFiniteSet(At(f, T)) /\ Cardinality(At(f, T)) \in Nat /\ Conn \subseteq All
  BY AtFinite DEF All
<1>1. CASE b \in T
  <2>1. At(g, T) = At(f, T) \union {c}
    BY <1>0, <1>1 DEF At
  <2>2. c \in At(f, T) <=> f[c] \in T
    BY DEF At
  <2>3. Cardinality(At(g, T)) = IF c \in At(f, T) THEN Cardinality(At(f, T))
                                ELSE Cardinality(At(f, T)) + 1
    BY <1>0, <2>1, FS_AddElement
  <2> QED BY <1>0, <1>1, <2>2, <2>3 DEF Weight
<1>2. CASE b \notin T
  <2>1. At(g, T) = At(f, T) \ {c}
    BY <1>0, <1>2 DEF At
  <2>2. c \in At(f, T) <=> f[c] \in T
    BY DEF At
  <2>3. Cardinality(At(g, T)) = IF c \in At(f, T) THEN Cardinality(At(f, T)) - 1
                                ELSE Cardinality(At(f, T))
    BY <1>0, <2>1, FS_RemoveElement
  <2> QED BY <1>0, <1>2, <2>2, <2>3 DEF Weight
<1> QED BY <1>1, <1>2

\* The sets that the property counts.
LEMMA AliveIsAt ==
  ASSUME TypeInv
  PROVE  /\ Alive \intersect Conn = At(conn, LiveTasks)
         /\ {c \in Alive \intersect Conn : conn[c] # "spawned"} = At(conn, DrivenTasks)
BY DEF TypeInv, At, Alive, All, Tasks, LiveTasks, DrivenTasks

-----------------------------------------------------------------------------
(* The steps of Shutdown that a step of Readiness may contain.             *)

ShutdownStep ==
  \/ Background \/ CloseStarts
  \/ \E c \in Conn : Shed(c)
  \/ UNCHANGED vars

LEMMA ReadyStepIsShutdownStep == [ReadyNext]_allVars => ShutdownStep
BY DEF ReadyNext, allVars, ShutdownStep, NativeClose, Refused, SlotAcquired, Close, SetReady,
       SetCheck, HealthChanges, TickStarts, TickSettles, TickApplies, AdminStarts, AdminEnds,
       ProbeConnects, ProbeAnswered

LEMMA InitHolds == Init => IInv
<1> SUFFICES ASSUME NEW peers \in SUBSET All, InitWith(peers) PROVE IInv
  BY DEF Init, ReadyInit
<1>1. conn \in [All -> Tasks] /\ \A c \in All : conn[c] \in {"away", "closed"}
  BY DEF InitWith, Tasks
<1>2. At(conn, LiveTasks) = {} /\ At(conn, DrivenTasks) = {}
  BY <1>1 DEF At, LiveTasks, DrivenTasks, All
<1>3. Counters
  BY <1>2, FS_EmptySet, OptionsAssumption DEF Counters, InitWith
<1>4. request \in [All -> {"none", "handler", "stream"}] /\ \A c \in All : request[c] = "none"
  BY DEF InitWith
<1>5. TypeInv
  <2>1. draining \in BOOLEAN /\ done \in BOOLEAN /\ active \in BOOLEAN /\ expired \in BOOLEAN
    BY Zenon DEF InitWith
  <2> QED BY <1>1, <1>4, <2>1 DEF InitWith, TypeInv
<1>6. TokensHeld /\ RequestsDriven
  BY <1>1, <1>4 DEF TokensHeld, RequestsDriven, InitWith, All
<1>7. DrainOrder /\ CloseOrder /\ NothingCutBeforeDeadline
  BY DEF DrainOrder, CloseOrder, NothingCutBeforeDeadline, InitWith
<1> QED BY <1>3, <1>5, <1>6, <1>7 DEF IInv

LEMMA TypeStep == IInv /\ ShutdownStep => TypeInv'
<1> SUFFICES ASSUME IInv, ShutdownStep PROVE TypeInv'
  OBVIOUS
<1> USE DEF IInv, TypeInv, closeVars, countVars, Tasks, All
<1>1. CASE Listen \/ ServeStarts \/ StopAccepting \/ Drained
  BY <1>1 DEF Listen, ServeStarts, StopAccepting, Drained
<1>2. CASE SendPreShutdown \/ SendClosing \/ CloseReturns \/ CloseStarts
  BY <1>2 DEF SendPreShutdown, SendClosing, CloseReturns, CloseStarts
<1>3. CASE RuntimeStops
  <2>1. live' \in Int /\ gauge' \in Int
    BY <1>3, AliveIsAt, AtFinite DEF RuntimeStops
  <2> QED BY <1>3, <2>1 DEF RuntimeStops
<1>4. ASSUME NEW c \in Conn, Accept(c) \/ TaskStep(c) PROVE TypeInv'
  BY <1>4 DEF Accept, TaskStep, TaskStarts, SeesClosing, GracefulEnds, TokenDropped, TaskEnds
<1>5. ASSUME NEW c \in Conn, Handshake(c) \/ Request(c) \/ ClientLeaves(c) \/ IdleExpires(c)
      PROVE  TypeInv'
  BY <1>5 DEF Handshake, Request, ClientLeaves, IdleExpires, TaskEnds
<1>6. ASSUME NEW c \in Conn, Shed(c) PROVE TypeInv'
  BY <1>6 DEF Shed
<1>7. ASSUME NEW c \in Inject, InjectStarts(c) \/ InjectEnds(c) PROVE TypeInv'
  BY <1>7 DEF InjectStarts, InjectEnds
<1>8. ASSUME NEW c \in All, HandlerReturns(c) \/ StreamEnds(c) PROVE TypeInv'
  BY <1>8 DEF HandlerReturns, StreamEnds
<1>9. CASE UNCHANGED vars
  BY <1>9 DEF vars
<1> QED BY <1>1, <1>2, <1>3, <1>4, <1>5, <1>6, <1>7, <1>8, <1>9 DEF ShutdownStep, Background, Gone

\* The task of c goes on to b.
Moved(c, b) ==
  /\ Cardinality(At(conn', LiveTasks)) = live + Weight(b, LiveTasks) - Weight(conn[c], LiveTasks)
  /\ Cardinality(At(conn', DrivenTasks)) =
       gauge + Weight(b, DrivenTasks) - Weight(conn[c], DrivenTasks)

LEMMA CountersStep == IInv /\ ShutdownStep => Counters'
<1> SUFFICES ASSUME IInv, ShutdownStep PROVE Counters'
  OBVIOUS
<1>0. /\ conn \in [All -> Tasks] /\ Conn \subseteq All /\ live \in Int /\ gauge \in Int
      /\ MaxConnections \in Nat /\ live <= MaxConnections
      /\ live = Cardinality(At(conn, LiveTasks)) /\ gauge = Cardinality(At(conn, DrivenTasks))
  BY OptionsAssumption DEF IInv, TypeInv, Counters, All
<1>b. ASSUME NEW c \in Conn, NEW b \in Tasks, conn' = [conn EXCEPT ![c] = b] PROVE Moved(c, b)
  <2>1. ASSUME NEW T
        PROVE  Cardinality(At(conn', T)) =
                 Cardinality(At(conn, T)) + Weight(b, T) - Weight(conn[c], T)
    BY <1>0, <1>b, CountMove
  <2>2. Cardinality(At(conn', LiveTasks)) =
          Cardinality(At(conn, LiveTasks)) + Weight(b, LiveTasks) - Weight(conn[c], LiveTasks)
    BY <2>1
  <2>3. Cardinality(At(conn', DrivenTasks)) =
          Cardinality(At(conn, DrivenTasks)) + Weight(b, DrivenTasks) - Weight(conn[c], DrivenTasks)
    BY <2>1
  <2> QED BY <1>0, <2>2, <2>3 DEF Moved
<1>e. ASSUME NEW c \in Inject, NEW b, conn' = [conn EXCEPT ![c] = b], NEW T
      PROVE  At(conn', T) = At(conn, T)
  <2>1. \A x \in Conn : conn'[x] = conn[x]
    BY <1>0, <1>e, ConnAssumption
  <2> QED BY <2>1 DEF At
<1> USE <1>0 DEF closeVars, countVars
<1>c. ASSUME UNCHANGED <<conn, live, gauge>> PROVE Counters'
  BY <1>c DEF Counters
<1>d. ASSUME NEW c \in Conn, TaskEnds(c), conn[c] \in DrivenTasks PROVE Counters'
  <2>1. conn' = [conn EXCEPT ![c] = "ended"] /\ live' = live - 1 /\ gauge' = gauge - 1
    BY <1>d DEF TaskEnds
  <2>2. Moved(c, "ended")
    BY <1>b, <2>1 DEF Tasks
  <2> QED BY <1>d, <2>1, <2>2 DEF Moved, Counters, Weight, LiveTasks, DrivenTasks
<1>1. CASE Listen \/ ServeStarts \/ StopAccepting \/ Drained
  BY <1>1, <1>c DEF Listen, ServeStarts, StopAccepting, Drained
<1>2. CASE SendPreShutdown \/ SendClosing \/ CloseReturns \/ CloseStarts
  BY <1>2, <1>c DEF SendPreShutdown, SendClosing, CloseReturns, CloseStarts
<1>3. CASE RuntimeStops
  <2>1. At(conn', LiveTasks) = {} /\ At(conn', DrivenTasks) = {}
    BY <1>3 DEF RuntimeStops, At, LiveTasks, DrivenTasks
  <2>2. live' = 0 /\ gauge' = 0
    <3>1. /\ live' = live - Cardinality(At(conn, LiveTasks))
          /\ gauge' = gauge - Cardinality(At(conn, DrivenTasks))
      BY <1>3, AliveIsAt, Zenon DEF RuntimeStops, IInv
    <3> QED BY <3>1
  <2> QED BY <2>1, <2>2, FS_EmptySet DEF Counters
<1>4. ASSUME NEW c \in Conn, Accept(c) PROVE Counters'
  <2>1. PICK b \in {"closed", "spawned"} : conn' = [conn EXCEPT ![c] = b]
    BY <1>4 DEF Accept
  <2>2. Moved(c, b)
    BY <1>b, <2>1 DEF Tasks
  <2> QED BY <1>4, <2>1, <2>2 DEF Accept, Moved, Counters, Weight, LiveTasks, DrivenTasks
<1>5. ASSUME NEW c \in Conn, TaskStarts(c) PROVE Counters'
  <2>1. Moved(c, "handshake")
    BY <1>5, <1>b DEF TaskStarts, Tasks
  <2> QED BY <1>5, <2>1 DEF TaskStarts, Moved, Counters, Weight, LiveTasks, DrivenTasks
<1>6. ASSUME NEW c \in Conn, SeesClosing(c) \/ Shed(c) PROVE Counters'
  <2>1. Moved(c, "graceful")
    BY <1>6, <1>b DEF SeesClosing, Shed, Tasks
  <2> QED BY <1>6, <2>1 DEF SeesClosing, Shed, Moved, Counters, Weight, LiveTasks, DrivenTasks
<1>7. ASSUME NEW c \in Conn, GracefulEnds(c) \/ ClientLeaves(c) \/ IdleExpires(c) PROVE Counters'
  BY <1>7, <1>d DEF GracefulEnds, ClientLeaves, IdleExpires, DrivenTasks
<1>8. ASSUME NEW c \in Conn, TokenDropped(c) PROVE Counters'
  <2>1. Moved(c, "closed")
    BY <1>8, <1>b DEF TokenDropped, Tasks
  <2> QED BY <1>8, <2>1 DEF TokenDropped, Moved, Counters, Weight, LiveTasks, DrivenTasks
<1>9. ASSUME NEW c \in Conn, Handshake(c) PROVE Counters'
  <2>1. CASE conn' = [conn EXCEPT ![c] = "open"] /\ UNCHANGED countVars
    <3>1. Moved(c, "open")
      BY <1>b, <2>1 DEF Tasks
    <3> QED BY <1>9, <2>1, <3>1 DEF Handshake, Moved, Counters, Weight, LiveTasks, DrivenTasks
  <2>2. CASE TaskEnds(c)
    BY <1>9, <1>d, <2>2 DEF Handshake, DrivenTasks
  <2> QED BY <1>9, <2>1, <2>2 DEF Handshake
<1>10. ASSUME NEW c \in Conn, Request(c) PROVE Counters'
  BY <1>10, <1>c DEF Request
<1>11. ASSUME NEW c \in Inject, InjectStarts(c) \/ InjectEnds(c) PROVE Counters'
  <2>1. PICK b \in {"open", "closed"} : conn' = [conn EXCEPT ![c] = b] /\ UNCHANGED <<live, gauge>>
    BY <1>11 DEF InjectStarts, InjectEnds
  <2>2. ASSUME NEW T PROVE At(conn', T) = At(conn, T)
    BY <1>e, <2>1
  <2>3. At(conn', LiveTasks) = At(conn, LiveTasks) /\ At(conn', DrivenTasks) = At(conn, DrivenTasks)
    BY <2>2
  <2> QED BY <2>1, <2>3 DEF Counters
<1>12. ASSUME NEW c \in All, HandlerReturns(c) \/ StreamEnds(c) PROVE Counters'
  BY <1>12, <1>c DEF HandlerReturns, StreamEnds
<1>13. CASE UNCHANGED vars
  BY <1>13, <1>c DEF vars
<1> QED BY <1>1, <1>2, <1>3, <1>4, <1>5, <1>6, <1>7, <1>8, <1>9, <1>10, <1>11, <1>12, <1>13
        DEF ShutdownStep, Background, TaskStep, Gone

\* Tokens and requests follow the task of their connection.
LEMMA TaskStateStep == IInv /\ ShutdownStep => TokensHeld' /\ RequestsDriven'
<1> SUFFICES ASSUME IInv, ShutdownStep PROVE TokensHeld' /\ RequestsDriven'
  OBVIOUS
<1> USE DEF IInv, TypeInv, TokensHeld, RequestsDriven, closeVars, countVars, All
<1>1. CASE Listen \/ ServeStarts \/ StopAccepting \/ Drained
  BY <1>1 DEF Listen, ServeStarts, StopAccepting, Drained
<1>2. CASE SendPreShutdown \/ SendClosing \/ CloseReturns \/ CloseStarts
  BY <1>2 DEF SendPreShutdown, SendClosing, CloseReturns, CloseStarts
<1>3. CASE RuntimeStops
  BY <1>3 DEF RuntimeStops
<1>4. ASSUME NEW c \in Conn, Accept(c) \/ TaskStep(c) PROVE TokensHeld' /\ RequestsDriven'
  BY <1>4 DEF Accept, TaskStep, TaskStarts, SeesClosing, GracefulEnds, TokenDropped, TaskEnds
<1>5. ASSUME NEW c \in Conn, Handshake(c) \/ Request(c) \/ ClientLeaves(c) \/ IdleExpires(c)
      PROVE  TokensHeld' /\ RequestsDriven'
  BY <1>5 DEF Handshake, Request, ClientLeaves, IdleExpires, TaskEnds
<1>6. ASSUME NEW c \in Conn, Shed(c) PROVE TokensHeld' /\ RequestsDriven'
  BY <1>6 DEF Shed
<1>7. ASSUME NEW c \in Inject, InjectStarts(c) \/ InjectEnds(c)
      PROVE  TokensHeld' /\ RequestsDriven'
  BY <1>7, ConnAssumption DEF InjectStarts, InjectEnds
<1>8. ASSUME NEW c \in All, HandlerReturns(c) \/ StreamEnds(c)
      PROVE  TokensHeld' /\ RequestsDriven'
  BY <1>8 DEF HandlerReturns, StreamEnds
<1>9. CASE UNCHANGED vars
  BY <1>9 DEF vars
<1> QED BY <1>1, <1>2, <1>3, <1>4, <1>5, <1>6, <1>7, <1>8, <1>9 DEF ShutdownStep, Background, Gone

\* The order of the shutdown.
LEMMA OrderStep == IInv /\ ShutdownStep => DrainOrder' /\ CloseOrder'
<1> SUFFICES ASSUME IInv, ShutdownStep PROVE DrainOrder' /\ CloseOrder'
  OBVIOUS
<1> USE DEF IInv, TypeInv, DrainOrder, CloseOrder, closeVars, countVars
<1>1. CASE Listen \/ ServeStarts \/ StopAccepting \/ Drained
  BY <1>1 DEF Listen, ServeStarts, StopAccepting, Drained
<1>2. CASE SendPreShutdown \/ SendClosing \/ CloseReturns \/ CloseStarts
  BY <1>2 DEF SendPreShutdown, SendClosing, CloseReturns, CloseStarts, Running
<1>3. CASE RuntimeStops
  BY <1>3 DEF RuntimeStops
<1>4. ASSUME NEW c \in Conn, Accept(c) \/ TaskStep(c) PROVE DrainOrder' /\ CloseOrder'
  BY <1>4 DEF Accept, TaskStep, TaskStarts, SeesClosing, GracefulEnds, TokenDropped, TaskEnds
<1>5. ASSUME NEW c \in Conn, Handshake(c) \/ Request(c) \/ ClientLeaves(c) \/ IdleExpires(c)
      PROVE  DrainOrder' /\ CloseOrder'
  BY <1>5 DEF Handshake, Request, ClientLeaves, IdleExpires, TaskEnds
<1>6. ASSUME NEW c \in Conn, Shed(c) PROVE DrainOrder' /\ CloseOrder'
  BY <1>6 DEF Shed
<1>7. ASSUME NEW c \in Inject, InjectStarts(c) \/ InjectEnds(c) PROVE DrainOrder' /\ CloseOrder'
  BY <1>7 DEF InjectStarts, InjectEnds
<1>8. ASSUME NEW c \in All, HandlerReturns(c) \/ StreamEnds(c) PROVE DrainOrder' /\ CloseOrder'
  BY <1>8 DEF HandlerReturns, StreamEnds
<1>9. CASE UNCHANGED vars
  BY <1>9 DEF vars
<1> QED BY <1>1, <1>2, <1>3, <1>4, <1>5, <1>6, <1>7, <1>8, <1>9 DEF ShutdownStep, Background, Gone

\* A close() that resolved in time leaves no task behind.
LEMMA DrainIsComplete == IInv => DrainComplete
BY DEF IInv, TypeInv, TokensHeld, DrainOrder, DrainComplete

LEMMA CutStep == IInv /\ ShutdownStep => NothingCutBeforeDeadline'
<1> SUFFICES ASSUME IInv, ShutdownStep PROVE NothingCutBeforeDeadline'
  OBVIOUS
<1> USE DEF IInv, NothingCutBeforeDeadline, closeVars, countVars
\* Only the end of the runtime cuts requests off, and by then there is none.
<1>1. CASE RuntimeStops
  <2>1. SUFFICES ASSUME ~expired PROVE cut' \intersect Conn = {}
    BY <1>1 DEF RuntimeStops
  <2>2. \A c \in Conn : conn[c] \in {"away", "ended", "closed"}
    BY <1>1, <2>1, DrainIsComplete DEF RuntimeStops, DrainComplete
  <2>3. \A c \in Conn : request[c] = "none"
    BY <2>2 DEF RequestsDriven
  <2> QED BY <1>1, <2>1, <2>3 DEF RuntimeStops
<1>2. CASE Listen \/ ServeStarts \/ StopAccepting \/ Drained
  BY <1>2 DEF Listen, ServeStarts, StopAccepting, Drained
<1>3. CASE SendPreShutdown \/ SendClosing \/ CloseReturns \/ CloseStarts
  BY <1>3 DEF SendPreShutdown, SendClosing, CloseReturns, CloseStarts
<1>4. ASSUME NEW c \in Conn, Accept(c) \/ TaskStep(c) \/ Shed(c) PROVE NothingCutBeforeDeadline'
  BY <1>4 DEF Accept, TaskStep, TaskStarts, SeesClosing, GracefulEnds, TokenDropped, TaskEnds, Shed
<1>5. ASSUME NEW c \in Conn, Handshake(c) \/ Request(c) \/ ClientLeaves(c) \/ IdleExpires(c)
      PROVE  NothingCutBeforeDeadline'
  BY <1>5 DEF Handshake, Request, ClientLeaves, IdleExpires, TaskEnds
<1>6. ASSUME NEW c \in Inject, InjectStarts(c) \/ InjectEnds(c) PROVE NothingCutBeforeDeadline'
  BY <1>6 DEF InjectStarts, InjectEnds
<1>7. ASSUME NEW c \in All, HandlerReturns(c) \/ StreamEnds(c) PROVE NothingCutBeforeDeadline'
  BY <1>7 DEF HandlerReturns, StreamEnds
<1>8. CASE UNCHANGED vars
  BY <1>8 DEF vars
<1> QED BY <1>1, <1>2, <1>3, <1>4, <1>5, <1>6, <1>7, <1>8 DEF ShutdownStep, Background, Gone

-----------------------------------------------------------------------------
(* The theorems.                                                           *)

\* Counters, tokens and the order of the shutdown are right in every reachable
\* state.
THEOREM Invariance == Spec => []IInv
<1>1. IInv /\ [ReadyNext]_allVars => IInv'
  BY ReadyStepIsShutdownStep, TypeStep, CountersStep, TaskStateStep, OrderStep, CutStep DEF IInv
<1> QED BY <1>1, InitHolds, PTL DEF Spec

\* maxConnections holds, and every end of a connection task gives its place and
\* its count in the gauge back once (serve(), LiveGuard, ConnMetricGuard).
THEOREM CapHolds == Spec => []ConnectionCap
<1>1. IInv => ConnectionCap
  BY AliveIsAt DEF IInv, Counters, ConnectionCap
<1> QED BY <1>1, Invariance, PTL

\* A close() that resolves before its deadline has drained every connection.
THEOREM DrainCompletes == Spec => []DrainComplete
BY DrainIsComplete, Invariance, PTL

\* No request of a socket is cut off by the server before the deadline.
THEOREM NothingCut == Spec => []NothingCutBeforeDeadline
<1>1. IInv => NothingCutBeforeDeadline
  BY DEF IInv
<1> QED BY <1>1, Invariance, PTL

\* As long as /readyz says ready the listener is there, whatever setReady(), the
\* check and the limiter write while close() runs.
THEOREM ReadyListens == Spec => []ReadyMeansListening
<1>1. IInv => ReadyMeansListening
  BY DEF IInv, TypeInv, CloseOrder, ReadyMeansListening, is_ready, StartFailed
<1> QED BY <1>1, Invariance, PTL
=============================================================================
