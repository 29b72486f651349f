---------------------------- MODULE ServerProofs ----------------------------
(***************************************************************************)
(* Proofs about Server: for every number of server objects, of calls and   *)
(* of signals, the bridge methods reach the one server that an object      *)
(* starts, a resolved close() leaves nothing behind, and the process waits *)
(* for the drain of the servers a signal found, whatever the listeners of  *)
(* some of them do.                                                        *)
(***************************************************************************)
EXTENDS Server, TLAPS

Outs == {"ok", "bind", "already", "closed", "thrown"}

Stages == {"none", "called", "draining", "returned", "over"}

\* What the steps of the native side read and write.
NativeTypes ==
  /\ state \in [Servers -> {"none", "running"}]
  /\ gen \in [Servers -> Nat]
  /\ active \in [Servers -> Nat]
  /\ drain \in [Servers -> [Runs -> Stages]]
  /\ closing \in [Servers -> {"none", "pending", "settled", "rejected"}]
  /\ signalled \subseteq Servers
  /\ late \subseteq Servers

FlagTypes ==
  /\ listening \in [Servers -> BOOLEAN]
  /\ closed \in [Servers -> BOOLEAN]
  /\ exited \in BOOLEAN

CallTypes ==
  /\ of \in [Calls -> Servers \union {None}]
  /\ call \in [Calls -> {"idle", "deps"} \union Outs]
  /\ inj \in [Injects -> {"idle", "starting", "native", "task", "served", "failed"}]
  /\ awaits \in [Injects -> Calls \union {None}]
  /\ autostart \in [Servers -> Calls \union {None}]
  /\ snapshots \subseteq SUBSET Servers

TypeInv == NativeTypes /\ FlagTypes /\ CallTypes

\* A listen() that waits for the schema library belongs to a server.
WaitingHasServer == \A k \in Calls : call[k] = "deps" => of[k] \in Servers

\* The two halves of close() keep in step, and only a server whose native close()
\* has been called is late.
CloseInStep ==
  \A s \in Servers :
    /\ closing[s] = "none" => \A r \in Runs : drain[s][r] = "none"
    /\ closing[s] = "pending" => drain[s]["outer"] # "none"
    /\ closing[s] = "settled" => drain[s]["outer"] = "over"
    /\ closing[s] = "rejected" => drain[s]["outer"] \in {"none", "over"}
    /\ s \in late => \E r \in Runs : drain[s][r] # "none"

\* The native close() of run r has taken the state, or found none.
Took(s, r) == drain[s][r] \notin {"none", "called"}

\* The life of a server that was not started behind the back of its close():
\* not started, running, draining in one run, returned and over.
Life(s) ==
  /\ state[s] = "running" => gen[s] = 1 /\ active[s] = 1 /\ \A r \in Runs : ~Took(s, r)
  /\ state[s] = "none" /\ (\A r \in Runs : ~Took(s, r)) => gen[s] = 0
  /\ state[s] = "none" /\ ~Draining(s) => active[s] = 0
  /\ \A r \in Runs : drain[s][r] = "draining" =>
       /\ gen[s] = 1 /\ active[s] = 1
       /\ \A q \in Runs : drain[s][q] = "draining" => q = r
  /\ (\E r \in Runs : drain[s][r] = "over") => ~listening[s] /\ s \notin signalled

Lives == \A s \in Servers \ late : Life(s)

IInv == TypeInv /\ WaitingHasServer /\ CloseInStep /\ Lives /\ ExitAfterDrain

-----------------------------------------------------------------------------

LEMMA InitHolds == Init => IInv
<1> SUFFICES ASSUME Init PROVE IInv
  OBVIOUS
<1>1. NativeTypes
  BY DEF Init, NativeTypes, Stages
<1>2. FlagTypes
  BY Zenon DEF Init, FlagTypes
<1>3. CallTypes
  BY DEF Init, CallTypes
<1>4. WaitingHasServer /\ CloseInStep /\ Lives /\ ExitAfterDrain
  BY DEF Init, WaitingHasServer, CloseInStep, Lives, Life, ExitAfterDrain
<1> QED BY <1>1, <1>2, <1>3, <1>4 DEF IInv, TypeInv

\* Invariants of the native side, which the calls reach only through NativeListen.
NativeInv == NativeTypes /\ FlagTypes /\ CloseInStep /\ Lives

LEMMA NativeListenStep ==
  ASSUME NativeInv, NEW s \in Servers, NEW out, NativeListen(s, out),
         UNCHANGED <<closing, closed, exited>>
  PROVE  NativeInv'
<1>1. CASE out = "ok"
  <2>0. state[s] = "none" /\ state' = [state EXCEPT ![s] = "running"]
    BY <1>1 DEF NativeListen, Outcomes, NativeInv, NativeTypes
  <2>1. NativeTypes'
    <3>1. late' \subseteq Servers
      BY <1>1 DEF NativeListen, NativeInv, NativeTypes
    <3>2. gen[s] + 1 \in Nat
      BY DEF NativeInv, NativeTypes
    <3> QED BY <1>1, <3>1, <3>2 DEF NativeListen, NativeInv, NativeTypes
  <2>2. FlagTypes'
    BY <1>1, Zenon DEF NativeListen, NativeInv, FlagTypes
  <2>3. CloseInStep'
    BY <1>1 DEF NativeListen, NativeInv, NativeTypes, CloseInStep
  <2>4. ASSUME NEW r \in Servers \ late' PROVE Life(r)'
    <3>1. r \notin late /\ Life(r)
      BY <1>1 DEF NativeListen, NativeInv, Lives
    <3>2. CASE r = s
      <4>1. \A q \in Runs : drain[s][q] = "none"
        BY <1>1, <3>2 DEF NativeListen, NativeInv, CloseInStep
      <4> QED BY <1>1, <2>0, <3>1, <3>2, <4>1
              DEF NativeListen, NativeInv, NativeTypes, Life, Took, Draining
    <3>3. CASE r # s
      BY <1>1, <3>1, <3>3 DEF NativeListen, NativeInv, NativeTypes, FlagTypes, Life, Took, Draining
    <3> QED BY <3>2, <3>3
  <2> QED BY <2>1, <2>2, <2>3, <2>4 DEF NativeInv, Lives
<1>2. CASE out # "ok"
  BY <1>2 DEF NativeListen, NativeInv, NativeTypes, FlagTypes, CloseInStep, Lives, Life, Took, Draining
<1> QED BY <1>1, <1>2

\* A step that leaves the native side and the flags alone.
LEMMA NativeKept ==
  ASSUME NativeInv, UNCHANGED <<nativeVars, listening, closing, closed, signalled, exited>>
  PROVE  NativeInv'
BY DEF NativeInv, nativeVars, NativeTypes, FlagTypes, CloseInStep, Lives, Life, Took, Draining

LEMMA SettleStep ==
  ASSUME CallTypes, NEW k \in Calls, NEW out \in Outs, Settle(k, out),
         NEW s \in Servers, of' = of \/ of' = [of EXCEPT ![k] = s], UNCHANGED snapshots,
         WaitingHasServer
  PROVE  CallTypes' /\ WaitingHasServer'
<1>1. CallTypes'
  BY DEF CallTypes, Settle
<1>2. WaitingHasServer'
  BY DEF CallTypes, Settle, WaitingHasServer, Outs
<1> QED BY <1>1, <1>2

\* close() is called on some servers.
LEMMA CloseAllStep ==
  ASSUME NativeInv, NEW S \in SUBSET Servers, CloseAll(S),
         UNCHANGED <<listening, closed, signalled, exited, state, gen, active, late>>
  PROVE  NativeInv'
<1> DEFINE first == {s \in S : closing[s] = "none"}
<1>1. PICK throws \in SUBSET (first \intersect Meddlers),
           reenters \in SUBSET (first \intersect Meddlers) :
        /\ closing' = [s \in Servers |-> IF s \in throws THEN "rejected"
                                        ELSE IF s \in first THEN "pending" ELSE closing[s]]
        /\ drain' = [s \in Servers |->
                       [r \in Runs |->
                          IF s \in (IF r = "outer" THEN first \ throws ELSE reenters)
                          THEN "called" ELSE drain[s][r]]]
  BY DEF CloseAll
<1>2. \A s \in Servers, r \in Runs :
        drain'[s][r] = drain[s][r] \/ (drain[s][r] = "none" /\ drain'[s][r] = "called")
  BY <1>1 DEF NativeInv, CloseInStep
<1>3. NativeTypes' /\ FlagTypes'
  BY <1>1 DEF NativeInv, NativeTypes, FlagTypes, Stages
<1>4. CloseInStep'
  BY <1>1 DEF NativeInv, NativeTypes, CloseInStep, Runs
<1>5. Lives'
  <2>1. \A s \in Servers, r \in Runs :
          /\ Took(s, r)' <=> Took(s, r)
          /\ drain'[s][r] = "draining" <=> drain[s][r] = "draining"
          /\ drain'[s][r] = "over" <=> drain[s][r] = "over"
    BY <1>2 DEF Took
  <2> QED BY <2>1 DEF NativeInv, Lives, Life, Draining
<1> QED BY <1>3, <1>4, <1>5 DEF NativeInv

LEMMA CloseTakeStep ==
  ASSUME NativeInv, NEW s \in Servers, NEW r \in Runs, CloseTake(s, r)
  PROVE  NativeInv'
<1> USE DEF CloseTake, jsVars
<1>1. NativeTypes' /\ FlagTypes'
  BY DEF NativeInv, NativeTypes, FlagTypes, Stages
<1>2. CloseInStep'
  BY DEF NativeInv, NativeTypes, CloseInStep, Runs
<1>3. ASSUME NEW t \in Servers \ late' PROVE Life(t)'
  BY <1>3 DEF NativeInv, NativeTypes, Lives, Life, Took, Draining
<1> QED BY <1>1, <1>2, <1>3 DEF NativeInv, Lives

LEMMA DrainEndsStep ==
  ASSUME NativeInv, NEW s \in Servers, NEW r \in Runs, DrainEnds(s, r)
  PROVE  NativeInv'
<1> USE DEF DrainEnds, jsVars
<1>1. NativeTypes' /\ FlagTypes'
  BY DEF NativeInv, NativeTypes, FlagTypes, Stages
<1>2. CloseInStep'
  BY DEF NativeInv, NativeTypes, CloseInStep, Runs
<1>3. ASSUME NEW t \in Servers \ late' PROVE Life(t)'
  BY <1>3 DEF NativeInv, NativeTypes, Lives, Life, Took, Draining
<1> QED BY <1>1, <1>2, <1>3 DEF NativeInv, Lives

LEMMA CloseSettlesStep ==
  ASSUME NativeInv, NEW s \in Servers, NEW r \in Runs, CloseSettles(s, r)
  PROVE  NativeInv'
<1> USE DEF CloseSettles, RunEnds
<1>1. NativeTypes'
  BY DEF NativeInv, NativeTypes, Stages
<1>2. FlagTypes'
  BY Zenon DEF NativeInv, FlagTypes
<1>3. CloseInStep'
  BY DEF NativeInv, NativeTypes, CloseInStep, Runs
<1>4. ASSUME NEW t \in Servers \ late' PROVE Life(t)'
  BY <1>4 DEF NativeInv, NativeTypes, FlagTypes, Lives, Life, Took, Draining
<1> QED BY <1>1, <1>2, <1>3, <1>4 DEF NativeInv, Lives

LEMMA NativeStep == IInv /\ [Next]_vars => NativeInv'
<1> SUFFICES ASSUME IInv, [Next]_vars PROVE NativeInv'
  OBVIOUS
<1>0. NativeInv /\ CallTypes /\ WaitingHasServer
  BY DEF IInv, TypeInv, NativeInv
<1>1. ASSUME NEW s \in Servers, NEW k \in Listens, Listen(k, s) PROVE NativeInv'
  BY <1>0, <1>1, NativeListenStep, NativeKept DEF Listen
<1>2. ASSUME NEW s \in Servers, NEW i \in Injects, Inject(i, s) PROVE NativeInv'
  BY <1>0, <1>2, NativeListenStep, NativeKept DEF Inject
<1>3. ASSUME NEW k \in Calls, ResumeListen(k) PROVE NativeInv'
  <2>1. of[k] \in Servers
    BY <1>0, <1>3 DEF ResumeListen, WaitingHasServer
  <2> QED BY <1>0, <1>3, <2>1, NativeListenStep DEF ResumeListen
<1>4. ASSUME NEW i \in Injects, NativeInject(i) \/ InjectServed(i) \/ InjectAborted(i)
      PROVE  NativeInv'
  BY <1>0, <1>4, NativeKept DEF NativeInject, InjectServed, InjectAborted, jsVars
<1>5. ASSUME NEW s \in Servers, Close(s) PROVE NativeInv'
  <2>1. {s} \in SUBSET Servers
    OBVIOUS
  <2> QED BY <1>0, <1>5, <2>1, CloseAllStep DEF Close
<1>6. ASSUME NEW s \in Servers, NEW r \in Runs, CloseTake(s, r) PROVE NativeInv'
  BY <1>0, <1>6, CloseTakeStep
<1>7. ASSUME NEW s \in Servers, NEW r \in Runs, DrainEnds(s, r) PROVE NativeInv'
  BY <1>0, <1>7, DrainEndsStep
<1>8. ASSUME NEW s \in Servers, NEW r \in Runs, CloseSettles(s, r) PROVE NativeInv'
  BY <1>0, <1>8, CloseSettlesStep
<1>9. CASE Signal
  <2>1. signalled \in SUBSET Servers
    BY <1>0 DEF NativeInv, NativeTypes
  <2> QED BY <1>0, <1>9, <2>1, CloseAllStep DEF Signal
<1>10. CASE Exit
  <2>1. FlagTypes'
    BY <1>0, <1>10, Zenon DEF Exit, NativeInv, FlagTypes
  <2> QED BY <1>0, <1>10, <2>1
          DEF Exit, nativeVars, NativeInv, NativeTypes, CloseInStep, Lives, Life, Took, Draining
<1>11. CASE UNCHANGED vars
  BY <1>0, <1>11, NativeKept DEF vars, nativeVars
<1> QED BY <1>1, <1>2, <1>3, <1>4, <1>5, <1>6, <1>7, <1>8, <1>9, <1>10, <1>11 DEF Next, Quiet

LEMMA CallStep == IInv /\ [Next]_vars => CallTypes' /\ WaitingHasServer'
<1> SUFFICES ASSUME IInv, [Next]_vars PROVE CallTypes' /\ WaitingHasServer'
  OBVIOUS
<1>0. CallTypes /\ WaitingHasServer /\ signalled \subseteq Servers
  BY DEF IInv, TypeInv, NativeTypes
<1>o. ASSUME NEW s PROVE Outcomes(s) \subseteq Outs
  BY DEF Outcomes, Outs
<1>1. ASSUME NEW s \in Servers, NEW k \in Listens, Listen(k, s)
      PROVE  CallTypes' /\ WaitingHasServer'
  <2>0. k \in Calls /\ of' = [of EXCEPT ![k] = s] /\ UNCHANGED snapshots
    BY <1>1 DEF Listen, Calls
  <2>1. ASSUME NEW out \in Outs, Settle(k, out) PROVE CallTypes' /\ WaitingHasServer'
    BY <1>0, <2>0, <2>1, SettleStep
  <2>2. CASE call' = [call EXCEPT ![k] = "deps"] /\ UNCHANGED <<inj, awaits, autostart>>
    BY <1>0, <2>0, <2>2 DEF CallTypes, WaitingHasServer
  <2> QED BY <1>1, <1>o, <2>1, <2>2 DEF Listen, Ends, Outs
<1>2. ASSUME NEW s \in Servers, NEW i \in Injects, Inject(i, s)
      PROVE  CallTypes' /\ WaitingHasServer'
  <2>0. i \in Calls /\ of' = [of EXCEPT ![i] = s] /\ UNCHANGED snapshots
    BY <1>2 DEF Inject, Calls
  <2>1. inj' \in [Injects -> {"idle", "starting", "native", "task", "served", "failed"}]
    BY <1>0, <1>2 DEF Inject, CallTypes
  <2>2. CASE UNCHANGED <<call, awaits, autostart>>
    BY <1>0, <2>0, <2>1, <2>2 DEF CallTypes, WaitingHasServer
  <2>3. CASE Autostart(i, s)
    BY <1>0, <2>0, <2>1, <2>3 DEF Autostart, CallTypes, WaitingHasServer
  <2>4. ASSUME NEW out \in Outs, call' = [call EXCEPT ![i] = out], UNCHANGED <<awaits, autostart>>
        PROVE  CallTypes' /\ WaitingHasServer'
    BY <1>0, <2>0, <2>1, <2>4 DEF CallTypes, WaitingHasServer, Outs
  <2> QED BY <1>2, <1>o, <2>2, <2>3, <2>4 DEF Inject, Ends, Outs
<1>3. ASSUME NEW k \in Calls, ResumeListen(k) PROVE CallTypes' /\ WaitingHasServer'
  <2>1. of[k] \in Servers
    BY <1>0, <1>3 DEF ResumeListen, WaitingHasServer
  <2>2. PICK out \in Outs : Settle(k, out)
    BY <1>3, <1>o DEF ResumeListen, Ends, Outs
  <2> QED BY <1>0, <1>3, <2>1, <2>2, SettleStep DEF ResumeListen
<1>4. ASSUME NEW i \in Injects, NativeInject(i) \/ InjectServed(i) \/ InjectAborted(i)
      PROVE  CallTypes' /\ WaitingHasServer'
  BY <1>0, <1>4 DEF NativeInject, InjectServed, InjectAborted, jsVars, CallTypes, WaitingHasServer
<1>5. CASE Signal
  BY <1>0, <1>5 DEF Signal, callVars, CallTypes, WaitingHasServer
<1>6. CASE UNCHANGED <<callVars, snapshots>>
  BY <1>0, <1>6 DEF callVars, CallTypes, WaitingHasServer
<1> QED BY <1>1, <1>2, <1>3, <1>4, <1>5, <1>6
        DEF Next, Quiet, Close, CloseTake, DrainEnds, CloseSettles, Exit, vars, callVars, jsVars

\* Exit finds a signal all of whose servers have settled, and nothing moves after it.
LEMMA ExitStep == IInv /\ [Next]_vars => ExitAfterDrain'
<1> SUFFICES ASSUME IInv, [Next]_vars PROVE ExitAfterDrain'
  OBVIOUS
<1>1. CASE UNCHANGED vars
  BY <1>1 DEF vars, IInv, ExitAfterDrain, Disturbed, Returned
<1>2. CASE Exit
  <2>1. PICK S \in snapshots : \A s \in S : closing[s] \in {"settled", "rejected"}
    BY <1>2 DEF Exit
  <2>2. S \subseteq Servers
    BY DEF IInv, TypeInv, CallTypes
  <2>3. ASSUME NEW s \in S \ late
        PROVE  Disturbed(s) \/ (state[s] = "none" /\ Returned(s, "outer"))
    <3>1. s \in Servers /\ "outer" \in Runs /\ state[s] \in {"none", "running"}
      BY <2>2 DEF IInv, TypeInv, NativeTypes, Runs
    <3>2. drain[s]["outer"] \in {"none", "over"}
      BY <2>1, <3>1 DEF IInv, CloseInStep
    <3>3. state[s] = "running" => ~Took(s, "outer")
      BY <3>1 DEF IInv, Lives, Life
    <3> QED BY <3>1, <3>2, <3>3 DEF Disturbed, Returned, Took
  <2> QED BY <1>2, <2>3 DEF Exit, nativeVars, ExitAfterDrain, Disturbed, Returned
<1>3. CASE ~exited'
  BY <1>3 DEF ExitAfterDrain
<1>4. [Next]_vars => UNCHANGED vars \/ Exit \/ (~exited /\ UNCHANGED exited)
  BY DEF Next, Quiet, Listen, Inject, ResumeListen, NativeInject, InjectServed, InjectAborted,
         Close, CloseTake, DrainEnds, CloseSettles, Signal, jsVars
<1> QED BY <1>1, <1>2, <1>3, <1>4

-----------------------------------------------------------------------------

\* Along every behaviour the inductive invariant holds: close() in JS and in
\* Rust keep in step, and a server not started late goes once through its life.
THEOREM Invariance == Spec => []IInv
<1>1. IInv /\ [Next]_vars => IInv'
  BY NativeStep, CallStep, ExitStep DEF IInv, TypeInv, NativeInv
<1> QED BY InitHolds, <1>1, PTL DEF Spec

\* Whatever listen() and inject() calls overtake each other in their awaits, an
\* object starts one server, and the bridge methods reach it until it has
\* drained (RustServer.active in lib.rs), whatever its listeners do.
THEOREM BridgeReaches == Spec => []BridgeReachesServer
<1>1. IInv => BridgeReachesServer
  BY DEF IInv, Lives, Life, Draining, BridgeReachesServer
<1> QED BY Invariance, <1>1, PTL

\* A close() that has resolved, and with it the one that a listener of 'shutdown'
\* made, has left nothing of a server that no listen() started behind its back.
THEOREM CloseCompletes == Spec => []CloseIsComplete
<1>1. ASSUME IInv, NEW s \in Servers \ late, closing[s] = "settled", InnerReturned(s)
      PROVE  state[s] = "none" /\ ~listening[s] /\ active[s] = 0 /\ s \notin signalled
  <2>1. Life(s) /\ state[s] \in {"none", "running"}
    BY <1>1 DEF IInv, TypeInv, NativeTypes, Lives
  <2>2. drain[s]["outer"] = "over" /\ "outer" \in Runs
    BY <1>1 DEF IInv, CloseInStep, Runs
  <2>3. ~Draining(s)
    BY <1>1, <2>2 DEF InnerReturned, Returned, Draining, Runs
  <2> QED BY <2>1, <2>2, <2>3 DEF Life, Took
<1>2. IInv => CloseIsComplete
  BY <1>1 DEF CloseIsComplete
<1> QED BY Invariance, <1>2, PTL

\* The process exits only after the drain of all servers that one signal found,
\* but for those whose own 'shutdown' listener threw or called close().
THEOREM ExitWaits == Spec => []ExitAfterDrain
BY Invariance, PTL DEF IInv
=============================================================================
