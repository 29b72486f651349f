--------------------------- MODULE OverloadProofs ---------------------------
(***************************************************************************)
(* Proofs about Overload, for every set of requests, every limit, queue    *)
(* and clock.  The books of the limiter are kept in numbers, so the proofs *)
(* count: a step moves one request, or two, from label to label, and the   *)
(* number of requests at a set of labels changes accordingly.              *)
(***************************************************************************)
EXTENDS Overload, FiniteSetTheorems, TLAPS

Labels == {"new", "try", "clear", "mark", "exchange", "join", "full", "acquire", "waiting",
           "granted", "gaveup", "slot", "running", "refuse", "elapsed", "verdict", "finish",
           "done", "dropped"}
HoldLabels == {"clear", "slot", "granted", "running"}
CountLabels == {"full", "acquire", "waiting", "granted", "gaveup"}
QueueLabels == {"acquire", "waiting", "granted", "gaveup"}
HandleLabels == Labels \ {"new", "done", "dropped"}

\* The requests at the given labels, and how many they are.
At(f, L) == {q \in Req : f[q] \in L}
Count(f, L) == Cardinality(At(f, L))
Weight(label, L) == IF label \in L THEN 1 ELSE 0

TypeInv ==
  /\ pc \in [Req -> Labels]
  /\ free \in Nat /\ queued \in Nat /\ in_flight \in Nat
  /\ since \in Nat /\ now \in Nat /\ lastClear \in Nat
  /\ stamp \in [Req -> Nat] /\ overtaken \in SUBSET Req /\ staleOrigin \in BOOLEAN
  /\ verdict \in [Req -> BOOLEAN] /\ overloaded \in BOOLEAN
  /\ goaway \in SUBSET Req

\* The books in terms of Count.
Books ==
  /\ free + Count(pc, HoldLabels) = MaxConcurrent
  /\ Count(pc, QueueLabels) <= MaxQueue
  /\ queued >= Count(pc, CountLabels)
  /\ in_flight >= Count(pc, HandleLabels)

\* A streak begins after the last time it was cleared, unless its origin was
\* overtaken; and what a request holds between its two halves is from after the
\* last clear, unless the request was overtaken.
StreakIsFresh ==
  /\ lastClear <= now
  /\ since # 0 /\ ~staleOrigin => lastClear <= since
  /\ \A q \in Req : pc[q] \in {"exchange", "elapsed"} /\ q \notin overtaken =>
                      lastClear <= stamp[q]

IInv == TypeInv /\ Books /\ NoStrandedWaiter /\ StreakIsFresh

-----------------------------------------------------------------------------
(* Counting.                                                               *)

LEMMA CountType ==
  ASSUME NEW f, NEW L PROVE Count(f, L) \in Nat /\ IsFiniteSet(At(f, L))
<1>1. At(f, L) \in SUBSET Req
  BY DEF At
<1>2. IsFiniteSet(At(f, L))
  BY <1>1, ReqAssumption, FS_Subset
<1> QED BY <1>2, FS_CardinalityType DEF Count

\* One request moves from its label to another.
LEMMA CountMove ==
  ASSUME NEW f \in [Req -> Labels], NEW r \in Req, NEW b \in Labels, NEW L
  PROVE  Count([f EXCEPT ![r] = b], L) = Count(f, L) + Weight(b, L) - Weight(f[r], L)
<1> DEFINE g == [f EXCEPT ![r] = b]
<1>0. IsFiniteSet(At(f, L)) /\ Count(f, L) \in Nat
  BY CountType
<1>1. CASE b \in L
  <2>1. At(g, L) = At(f, L) \union {r}
    BY <1>1 DEF At
  <2>2. r \in At(f, L) <=> f[r] \in L
    BY DEF At
  <2>3. Cardinality(At(g, L)) = IF r \in At(f, L) THEN Cardinality(At(f, L))
                                ELSE Cardinality(At(f, L)) + 1
    BY <1>0, <2>1, FS_AddElement
  <2> QED BY <1>0, <1>1, <2>2, <2>3 DEF Count, Weight
<1>2. CASE b \notin L
  <2>1. At(g, L) = At(f, L) \ {r}
    BY <1>2 DEF At
  <2>2. r \in At(f, L) <=> f[r] \in L
    BY DEF At
  <2>3. Cardinality(At(g, L)) = IF r \in At(f, L) THEN Cardinality(At(f, L)) - 1
                                ELSE Cardinality(At(f, L))
    BY <1>0, <2>1, FS_RemoveElement
  <2> QED BY <1>0, <1>2, <2>2, <2>3 DEF Count, Weight
<1> QED BY <1>1, <1>2

\* The counts the books are about, when r goes to label b.
Moved(f, g, a, b) ==
  /\ g \in [Req -> Labels]
  /\ \A L \in {HoldLabels, CountLabels, QueueLabels, HandleLabels} :
       Count(g, L) = Count(f, L) + Weight(b, L) - Weight(a, L)

LEMMA MoveOne ==
  ASSUME NEW f \in [Req -> Labels], NEW r \in Req, NEW b \in Labels
  PROVE  Moved(f, [f EXCEPT ![r] = b], f[r], b)
BY CountMove DEF Moved

LEMMA MoveTwo ==
  ASSUME NEW f \in [Req -> Labels], NEW r \in Req, NEW w \in Req, r # w,
         NEW b \in Labels, NEW c \in Labels
  PROVE  \E g : Moved(f, g, f[r], b) /\ Moved(g, [f EXCEPT ![r] = b, ![w] = c], f[w], c)
<1> DEFINE g == [f EXCEPT ![r] = b]
<1>1. g \in [Req -> Labels] /\ g[w] = f[w] /\ [f EXCEPT ![r] = b, ![w] = c] = [g EXCEPT ![w] = c]
  OBVIOUS
<1>2. Moved(f, g, f[r], b)
  BY MoveOne
<1> HIDE DEF g
<1>3. Moved(g, [g EXCEPT ![w] = c], g[w], c)
  BY <1>1, MoveOne
<1> QED BY <1>1, <1>2, <1>3

\* What the books need to know of the numbers.
Numbers(f) ==
  /\ Count(f, HoldLabels) \in Nat /\ Count(f, CountLabels) \in Nat
  /\ Count(f, QueueLabels) \in Nat /\ Count(f, HandleLabels) \in Nat
  /\ Count(f, QueueLabels) <= Count(f, CountLabels)

LEMMA NumbersHold == ASSUME NEW f PROVE Numbers(f)
<1>1. At(f, QueueLabels) \in SUBSET At(f, CountLabels)
  BY DEF At, QueueLabels, CountLabels
<1>2. IsFiniteSet(At(f, CountLabels))
  BY CountType
<1>3. Cardinality(At(f, QueueLabels)) <= Cardinality(At(f, CountLabels))
  BY <1>1, <1>2, FS_Subset
<1> QED BY <1>3, CountType DEF Numbers, Count

\* r goes to label b and w is granted a permit.
Swapped(r, b, w) ==
  \A L \in {HoldLabels, CountLabels, QueueLabels, HandleLabels} :
    Count(pc', L) = Count(pc, L) + Weight(b, L) - Weight(pc[r], L)
                      + Weight("granted", L) - Weight(pc[w], L)

\* A request that is somewhere is counted there.
LEMMA CountPositive ==
  ASSUME NEW f \in [Req -> Labels], NEW r \in Req, NEW L, f[r] \in L
  PROVE  Count(f, L) >= 1
<1>1. r \in At(f, L) /\ IsFiniteSet(At(f, L)) /\ Count(f, L) \in Nat
  BY CountType DEF At
<1>2. Cardinality(At(f, L)) # 0
  BY <1>1, FS_EmptySet
<1> QED BY <1>1, <1>2 DEF Count

\* The books are what the property says.
LEMMA BooksAreAccounts == ASSUME TypeInv PROVE Books <=> LimiterAccounts
<1>1. /\ Holders = At(pc, HoldLabels) /\ Counted = At(pc, CountLabels)
      /\ Queue = At(pc, QueueLabels)
  BY DEF At, Holders, Counted, Queue, HoldLabels, CountLabels, QueueLabels
<1>2. Handled = At(pc, HandleLabels)
  BY DEF At, Handled, HandleLabels, TypeInv
<1> QED BY <1>1, <1>2 DEF Books, LimiterAccounts, PermitsConserved, QueueBounded,
             CountersCover, Count

-----------------------------------------------------------------------------
LEMMA InitHolds == Init => IInv
<1> SUFFICES ASSUME Init PROVE IInv
  OBVIOUS
<1>1. pc = [r \in Req |-> "new"]
  BY DEF Init
<1>2. TypeInv /\ StreakIsFresh
  <2>1. /\ pc \in [Req -> Labels] /\ free \in Nat /\ queued \in Nat /\ in_flight \in Nat
        /\ since \in Nat /\ now \in Nat /\ lastClear \in Nat /\ StreakIsFresh
        /\ stamp \in [Req -> Nat] /\ overtaken \in SUBSET Req
    BY LimitAssumption DEF Init, StreakIsFresh, Labels
  <2>2. /\ verdict \in [Req -> BOOLEAN] /\ overloaded \in BOOLEAN /\ goaway \in SUBSET Req
        /\ staleOrigin \in BOOLEAN
    BY Zenon DEF Init
  <2> QED BY <2>1, <2>2 DEF TypeInv
<1>3. At(pc, HoldLabels) = {} /\ At(pc, CountLabels) = {} /\ At(pc, QueueLabels) = {}
      /\ At(pc, HandleLabels) = {}
  BY <1>1 DEF At, HoldLabels, CountLabels, QueueLabels, HandleLabels
<1>4. Books
  BY <1>3, FS_EmptySet, LimitAssumption DEF Books, Count, Init
<1>5. NoStrandedWaiter
  BY <1>1 DEF NoStrandedWaiter, Waiting
<1> QED BY <1>2, <1>4, <1>5 DEF IInv

\* Types and streak.
LEMMA TypeStep == IInv /\ [Next]_vars => TypeInv'
<1> SUFFICES ASSUME IInv, [Next]_vars PROVE TypeInv'
  OBVIOUS
<1> USE LimitAssumption DEF TypeInv, IInv, limiterVars, streakVars, Goto, Labels
<1>0. Numbers(pc)
  BY NumbersHold
<1>1. ASSUME NEW r \in Req, Start(r) PROVE TypeInv'
  BY <1>1 DEF Start
<1>2. ASSUME NEW r \in Req, Proceed(r) PROVE TypeInv'
  <2>1. CASE TryAcquire(r) \/ MarkSaturated(r) \/ JoinQueue(r)
    BY <2>1 DEF TryAcquire, MarkSaturated, JoinQueue
  <2>8. CASE ClearSaturation(r)
    <3>1. staleOrigin' \in BOOLEAN /\ overtaken' \in SUBSET Req
      BY <2>8, Zenon DEF ClearSaturation, MidStreak
    <3> QED BY <2>8, <3>1 DEF ClearSaturation
  <2>9. CASE MarkExchange(r)
    <3>0. (r \in overtaken) \in BOOLEAN
      OBVIOUS
    <3>5. staleOrigin \in BOOLEAN
      OBVIOUS
    <3>3. staleOrigin' = (r \in overtaken) \/ staleOrigin' = staleOrigin
      BY <2>9, Zenon DEF MarkExchange
    <3>4. staleOrigin' \in BOOLEAN
      BY <3>0, <3>3, <3>5
    <3>1. staleOrigin' \in BOOLEAN /\ overtaken' \in SUBSET Req
      BY <2>9, <3>4, Zenon DEF MarkExchange
    <3>2. since' \in Nat /\ stamp' \in [Req -> Nat] /\ pc' \in [Req -> Labels]
      BY <2>9 DEF MarkExchange
    <3> QED BY <2>9, <3>1, <3>2 DEF MarkExchange
  <2>10. CASE LoadSince(r)
    <3>1. verdict' \in [Req -> BOOLEAN] /\ overtaken' \in SUBSET Req
      BY <2>10, Zenon DEF LoadSince
    <3>2. stamp' \in [Req -> Nat] /\ pc' \in [Req -> Labels]
      BY <2>10 DEF LoadSince
    <3> QED BY <2>10, <3>1, <3>2 DEF LoadSince
  <2>2. CASE LeaveFull(r) \/ LeaveQueue(r)
    <3>1. pc[r] \in CountLabels
      BY <2>2 DEF LeaveFull, LeaveQueue, CountLabels
    <3>2. queued >= 1
      BY <1>0, <3>1, CountPositive DEF Books, Numbers
    <3> QED BY <2>2, <3>2 DEF LeaveFull, LeaveQueue
  <2>3. CASE AcquireOwned(r)
    BY <2>3 DEF AcquireOwned
  <2>7. CASE SlotAcquired(r)
    BY <2>7 DEF SlotAcquired
  <2>6. CASE Refuse(r)
    <3>1. overloaded' \in BOOLEAN
      BY <2>6, Zenon DEF Refuse
    <3> QED BY <2>6, <3>1 DEF Refuse
  <2>5. CASE ShouldShed(r)
    <3> DEFINE v == (IF now > stamp[r] THEN now - stamp[r] ELSE 0) >= ShedAfter
    <3>3. v \in BOOLEAN
      OBVIOUS
    <3>1. v \in BOOLEAN /\ verdict' = [verdict EXCEPT ![r] = v]
      BY <2>5, <3>3, Zenon DEF ShouldShed
    <3> HIDE DEF v
    <3>2. verdict' \in [Req -> BOOLEAN]
      BY <3>1, Zenon
    <3> QED BY <2>5, <3>2 DEF ShouldShed
  <2>4. CASE Finish(r)
    <3>1. pc[r] \in HandleLabels
      BY <2>4 DEF Finish, HandleLabels
    <3>2. in_flight >= 1
      BY <1>0, <3>1, CountPositive DEF Books, Numbers
    <3> QED BY <2>4, <3>2 DEF Finish
  <2> QED BY <1>2, <2>1, <2>2, <2>3, <2>4, <2>5, <2>6, <2>7, <2>8, <2>9, <2>10 DEF Proceed
<1>3. ASSUME NEW r \in Req, QueueTimeout(r) PROVE TypeInv'
  BY <1>3 DEF QueueTimeout
<1>4. ASSUME NEW r \in Req, Served(r) \/ Disconnect(r) PROVE TypeInv'
  BY <1>4 DEF Served, Disconnect, Release, Waiting
<1>5. CASE Tick
  BY <1>5 DEF Tick
<1>6. CASE UNCHANGED vars
  BY <1>6 DEF vars
<1> QED BY <1>1, <1>2, <1>3, <1>4, <1>5, <1>6 DEF Next, Quiet

\* The books.
LEMMA BooksStep == IInv /\ [Next]_vars => Books'
<1> SUFFICES ASSUME IInv, [Next]_vars PROVE Books'
  OBVIOUS
<1> USE LimitAssumption DEF IInv, limiterVars, streakVars
<1>0. pc \in [Req -> Labels] /\ Numbers(pc) /\ free \in Nat /\ queued \in Nat /\ in_flight \in Nat
  BY NumbersHold DEF TypeInv
\* r alone moves.
<1>a. ASSUME NEW r \in Req, NEW b \in Labels, Goto(r, b) PROVE Moved(pc, pc', pc[r], b)
  BY <1>0, <1>a, MoveOne DEF Goto
<1> DEFINE Labelled(r, b) == Goto(r, b) /\ Moved(pc, pc', pc[r], b)
<1>b. ASSUME NEW r \in Req, NEW b \in Labels, Goto(r, b) PROVE Labelled(r, b)
  BY <1>a, <1>b
\* r gives its permit to w.
<1>c. ASSUME NEW r \in Req, NEW w \in Req, r # w, NEW b \in Labels,
             pc' = [pc EXCEPT ![r] = b, ![w] = "granted"]
      PROVE  Swapped(r, b, w)
  <2>1. PICK f : Moved(pc, f, pc[r], b) /\ Moved(f, pc', pc[w], "granted")
    <3>1. "granted" \in Labels
      BY DEF Labels
    <3>2. \E f : /\ Moved(pc, f, pc[r], b)
                /\ Moved(f, [pc EXCEPT ![r] = b, ![w] = "granted"], pc[w], "granted")
      BY <1>0, <1>c, <3>1, MoveTwo
    <3> QED BY <1>c, <3>2
  <2> SUFFICES ASSUME NEW L \in {HoldLabels, CountLabels, QueueLabels, HandleLabels}
               PROVE  Count(pc', L) = Count(pc, L) + Weight(b, L) - Weight(pc[r], L)
                                        + Weight("granted", L) - Weight(pc[w], L)
    BY DEF Swapped
  <2>2. Count(pc, L) \in Nat /\ Count(f, L) \in Nat /\ Count(pc', L) \in Nat
    BY CountType
  <2>3. Count(f, L) = Count(pc, L) + Weight(b, L) - Weight(pc[r], L)
    BY <2>1 DEF Moved
  <2>4. Count(pc', L) = Count(f, L) + Weight("granted", L) - Weight(pc[w], L)
    BY <2>1 DEF Moved
  <2> QED BY <2>2, <2>3, <2>4 DEF Weight
<1> USE <1>0 DEF Moved, Numbers, Weight, HoldLabels, CountLabels, QueueLabels, HandleLabels,
                 Labels, Books
<1>1. ASSUME NEW r \in Req, Start(r) \/ Finish(r) PROVE Books'
  <2>1. PICK b \in {"finish", "try", "done"} : Goto(r, b)
    BY <1>1 DEF Start, Finish
  <2>2. Labelled(r, b)
    BY <1>b, <2>1
  <2> QED BY <1>1, <2>1, <2>2 DEF Start, Finish, Goto
<1>2. ASSUME NEW r \in Req, TryAcquire(r) \/ AcquireOwned(r) PROVE Books'
  <2>1. PICK b \in {"clear", "mark", "granted", "waiting"} : Goto(r, b)
    BY <1>2 DEF TryAcquire, AcquireOwned
  <2>2. Labelled(r, b)
    BY <1>b, <2>1
  <2> QED BY <1>2, <2>1, <2>2 DEF TryAcquire, AcquireOwned, Goto
<1>3. ASSUME NEW r \in Req, ClearSaturation(r) \/ MarkSaturated(r) \/ MarkExchange(r) \/ SlotAcquired(r)
      PROVE  Books'
  <2>1. PICK b \in {"slot", "exchange", "refuse", "join", "running"} : Goto(r, b)
    BY <1>3 DEF ClearSaturation, MarkSaturated, MarkExchange, SlotAcquired
  <2>2. Labelled(r, b)
    BY <1>b, <2>1
  <2> QED BY <1>3, <2>1, <2>2 DEF ClearSaturation, MarkSaturated, MarkExchange, SlotAcquired, Goto
<1>4. ASSUME NEW r \in Req, JoinQueue(r) PROVE Books'
  <2>1. PICK b \in {"full", "acquire"} : Goto(r, b)
    BY <1>4 DEF JoinQueue
  <2>2. Labelled(r, b)
    BY <1>b, <2>1
  <2> QED BY <1>4, <2>1, <2>2 DEF JoinQueue, Goto
<1>5. ASSUME NEW r \in Req, LeaveFull(r) \/ LeaveQueue(r) PROVE Books'
  <2>1. PICK b \in {"refuse", "slot"} : Goto(r, b)
    BY <1>5 DEF LeaveFull, LeaveQueue
  <2>2. Labelled(r, b)
    BY <1>b, <2>1
  <2> QED BY <1>5, <2>1, <2>2 DEF LeaveFull, LeaveQueue, Goto
<1>6. ASSUME NEW r \in Req, LoadSince(r) \/ ShouldShed(r) \/ Refuse(r) \/ QueueTimeout(r)
      PROVE  Books'
  <2>1. PICK b \in {"elapsed", "verdict", "finish", "gaveup"} : Goto(r, b)
    BY <1>6 DEF LoadSince, ShouldShed, Refuse, QueueTimeout
  <2>2. Labelled(r, b)
    BY <1>b, <2>1
  <2> QED BY <1>6, <2>1, <2>2 DEF LoadSince, ShouldShed, Refuse, QueueTimeout, Goto
\* A permit that is given back is taken by a waiter or returns to the semaphore.
<1>7. ASSUME NEW r \in Req, NEW b \in {"finish", "dropped"}, pc[r] \in {"granted", "running"},
             Release(r, b), UNCHANGED <<queued, in_flight>>
      PROVE  Books'
  <2>1. CASE free' = free + 1 /\ Goto(r, b)
    <3>1. Labelled(r, b)
      BY <1>b, <2>1
    <3> QED BY <1>7, <2>1, <3>1
  <2>2. ASSUME NEW w \in Waiting, pc' = [pc EXCEPT ![r] = b, ![w] = "granted"], UNCHANGED free
        PROVE  Books'
    <3>1. w \in Req /\ pc[w] = "waiting" /\ w # r
      BY <1>7, <2>2 DEF Waiting
    <3>2. Swapped(r, b, w)
      BY <1>c, <2>2, <3>1
    <3> QED BY <1>7, <2>2, <3>1, <3>2 DEF Swapped
  <2> QED BY <1>7, <2>1, <2>2 DEF Release
<1>8. ASSUME NEW r \in Req, Served(r) PROVE Books'
  BY <1>7, <1>8 DEF Served
<1>9. ASSUME NEW r \in Req, Disconnect(r) PROVE Books'
  <2>1. CASE pc[r] = "waiting" /\ Goto(r, "dropped") /\ UNCHANGED free
    BY <1>9, <1>b, <2>1 DEF Disconnect
  <2> QED BY <1>7, <1>9, <2>1 DEF Disconnect
<1>10. CASE Tick \/ UNCHANGED vars
  BY <1>10 DEF Tick, vars
<1> QED BY <1>1, <1>2, <1>3, <1>4, <1>5, <1>6, <1>8, <1>9, <1>10 DEF Next, Proceed, Quiet

LEMMA StrandedStep == IInv /\ [Next]_vars => NoStrandedWaiter'
<1> SUFFICES ASSUME IInv, [Next]_vars PROVE NoStrandedWaiter'
  OBVIOUS
<1> USE DEF IInv, TypeInv, limiterVars, streakVars, NoStrandedWaiter, Waiting, Goto
<1>1. ASSUME NEW r \in Req, Start(r) \/ Proceed(r) \/ QueueTimeout(r)
      PROVE  NoStrandedWaiter'
  BY <1>1 DEF Start, Proceed, QueueTimeout, TryAcquire, ClearSaturation, MarkSaturated,
              MarkExchange, JoinQueue, LeaveFull, AcquireOwned, LeaveQueue, SlotAcquired, LoadSince,
              ShouldShed, Refuse, Finish
<1>2. ASSUME NEW r \in Req, Served(r) \/ Disconnect(r) PROVE NoStrandedWaiter'
  BY <1>2 DEF Served, Disconnect, Release
<1>3. CASE Tick \/ UNCHANGED vars
  BY <1>3 DEF Tick, vars
<1> QED BY <1>1, <1>2, <1>3 DEF Next, Quiet

LEMMA StreakStep == IInv /\ [Next]_vars => StreakIsFresh'
<1> SUFFICES ASSUME IInv, [Next]_vars PROVE StreakIsFresh'
  OBVIOUS
<1> USE DEF IInv, TypeInv, limiterVars, streakVars, StreakIsFresh, Goto, Labels
<1>1. ASSUME NEW r \in Req, Start(r) \/ QueueTimeout(r) \/ Finish(r) PROVE StreakIsFresh'
  BY <1>1 DEF Start, QueueTimeout, Finish
<1>2. ASSUME NEW r \in Req, TryAcquire(r) \/ JoinQueue(r) \/ LeaveFull(r) \/ AcquireOwned(r)
                              \/ LeaveQueue(r) \/ SlotAcquired(r) \/ Refuse(r)
      PROVE  StreakIsFresh'
  BY <1>2 DEF TryAcquire, JoinQueue, LeaveFull, AcquireOwned, LeaveQueue, SlotAcquired, Refuse
<1>3. ASSUME NEW r \in Req, ClearSaturation(r) PROVE StreakIsFresh'
  BY <1>3 DEF ClearSaturation, MidStreak
<1>4. ASSUME NEW r \in Req, MarkSaturated(r) PROVE StreakIsFresh'
  BY <1>4 DEF MarkSaturated
<1>5. ASSUME NEW r \in Req, MarkExchange(r) PROVE StreakIsFresh'
  <2>1. since' # 0 /\ ~staleOrigin' => lastClear <= since'
    <3>1. CASE since # 0
      BY <1>5, <3>1 DEF MarkExchange
    <3>2. CASE since = 0
      <4>1. staleOrigin' = (r \in overtaken) /\ pc[r] = "exchange"
        BY <1>5, <3>2, Zenon DEF MarkExchange
      <4>2. ~staleOrigin' => r \notin overtaken
        BY <4>1, Zenon
      <4> QED BY <1>5, <3>2, <4>1, <4>2 DEF MarkExchange
    <3> QED BY <3>1, <3>2
  <2> QED BY <1>5, <2>1 DEF MarkExchange
<1>6. ASSUME NEW r \in Req, LoadSince(r) PROVE StreakIsFresh'
  BY <1>6 DEF LoadSince
<1>7. ASSUME NEW r \in Req, ShouldShed(r) PROVE StreakIsFresh'
  BY <1>7 DEF ShouldShed
<1>8. ASSUME NEW r \in Req, Served(r) \/ Disconnect(r) PROVE StreakIsFresh'
  BY <1>8 DEF Served, Disconnect, Release, Waiting
<1>9. CASE Tick \/ UNCHANGED vars
  BY <1>9 DEF Tick, vars
<1> QED BY <1>1, <1>2, <1>3, <1>4, <1>5, <1>6, <1>7, <1>8, <1>9 DEF Next, Proceed, Quiet

-----------------------------------------------------------------------------
(* The theorems.                                                           *)

\* The books, the waiters and the streak are right in every reachable state.
THEOREM Invariance == Spec => []IInv
<1>1. IInv /\ [Next]_vars => IInv'
  BY TypeStep, BooksStep, StrandedStep, StreakStep DEF IInv
<1> QED BY <1>1, InitHolds, PTL DEF Spec

\* Permits are conserved, the queue is bounded and the counters cover what they
\* count (Limiter::acquire and handle()), for every limit and any number of
\* requests.
THEOREM AccountsHold == Spec => []LimiterAccounts
<1>1. IInv => LimiterAccounts
  BY BooksAreAccounts DEF IInv
<1> QED BY <1>1, Invariance, PTL

\* No slot is idle while a request waits for it in acquire_owned().
THEOREM NobodyStranded == Spec => []NoStrandedWaiter
<1>1. IInv => NoStrandedWaiter
  BY DEF IInv
<1> QED BY <1>1, Invariance, PTL

\* should_shed() decides to shed only when no request took the fast path for
\* overloadShedAfter, for every number of requests, every limit and every time a
\* thread rests between its steps: the origin and the clock a request compares
\* are from the present streak, unless a clear fell into one of the two windows.
THEOREM SheddingNeedsStreak == Spec => ShedNeedsStreak
<1> DEFINE A == \A r \in Req : DecidesUndisturbed(r) /\ pc'[r] = "verdict" /\ verdict'[r] =>
                  now >= lastClear + ShedAfter
<1>1. IInv /\ [Next]_vars => [A]_vars
  <2> SUFFICES ASSUME IInv, Next, NEW q \in Req, DecidesUndisturbed(q), pc'[q] = "verdict",
                      verdict'[q]
               PROVE  now >= lastClear + ShedAfter
    OBVIOUS
  <2>0. pc[q] = "elapsed" /\ q \notin overtaken
    BY DEF DecidesUndisturbed
  <2>1. ShouldShed(q)
    <3> USE <2>0 DEF IInv, TypeInv, Goto
    <3>1. PICK r \in Req : Start(r) \/ Proceed(r) \/ QueueTimeout(r) \/ Served(r) \/ Disconnect(r)
      BY DEF Next, Tick, Quiet, vars
    <3>2. CASE Served(r) \/ Disconnect(r)
      BY <3>2 DEF Served, Disconnect, Release, Waiting
    <3>3. CASE Start(r) \/ Proceed(r) \/ QueueTimeout(r)
      BY <3>3 DEF Start, Proceed, QueueTimeout, TryAcquire, ClearSaturation, MarkSaturated,
                  MarkExchange, JoinQueue, LeaveFull, AcquireOwned, LeaveQueue, SlotAcquired,
                  LoadSince, ShouldShed, Refuse, Finish
    <3> QED BY <3>1, <3>2, <3>3
  <2>2. (IF now > stamp[q] THEN now - stamp[q] ELSE 0) >= ShedAfter
    BY <2>1 DEF ShouldShed, IInv, TypeInv
  <2>3. lastClear <= stamp[q] /\ lastClear <= now /\ stamp[q] \in Nat
    BY <2>0 DEF IInv, TypeInv, StreakIsFresh
  <2> QED BY <2>2, <2>3, ClockAssumption DEF IInv, TypeInv
<1> QED BY <1>1, Invariance, PTL DEF Spec, ShedNeedsStreak
=============================================================================
