---------------------------- MODULE CacheProofs -----------------------------
(***************************************************************************)
(* Proofs about Cache: for every set of requests, limit and number of      *)
(* tasks, the store keeps its bound and one entry per key, and a replay is *)
(* of an answer to a validated request that no purge has dropped.          *)
(***************************************************************************)
EXTENDS Cache, FiniteSetTheorems, TLAPS

\* What dispatch() holds of a request between its awaits.
TaskTypes ==
  /\ pc \in [Task -> {"new", "buffer", "handler", "store", "hit", "js", "refused", "dropped"}]
  /\ shape \in [Task -> Shapes \union {None}]
  /\ answer \in [Task -> Kinds \union {None}]
  /\ \A t \in Task : pc[t] \in {"buffer", "handler", "store"} => shape[t] \in Shapes
  /\ \A t \in Task : pc[t] \in {"handler", "store"} => Passes(shape[t])
  /\ DOMAIN served = Task

ClockTypes == now \in Nat /\ purges \in [Paths -> Nat]

\* An entry has the key of the request it was made for, which passed the schema,
\* and its path was not purged since it was stored.
EntryIsCurrent(e) ==
  /\ e.shape \in Shapes /\ e.key = key(e.shape) /\ Passes(e.shape)
  /\ e.purged = purges[e.shape.path]

StoreInv ==
  /\ IsFiniteSet(store)
  /\ \A e \in store : EntryIsCurrent(e)

\* A replay compared the keys under the lock, of an entry that was current.
HitInv ==
  \A t \in Task : served[t] # None =>
    LET h == served[t] IN
    /\ h.shape \in Shapes /\ h.entry.shape \in Shapes
    /\ key(h.shape) = key(h.entry.shape) /\ Passes(h.entry.shape)
    /\ h.purged = h.entry.purged

IInv == TaskTypes /\ ClockTypes /\ StoreInv /\ StoreBounded /\ HitInv

-----------------------------------------------------------------------------

LEMMA InitHolds == Init => IInv
<1> SUFFICES ASSUME Init PROVE IInv
  OBVIOUS
<1>1. TaskTypes /\ ClockTypes /\ HitInv
  BY DEF Init, TaskTypes, ClockTypes, HitInv
<1>2. StoreInv /\ StoreBounded
  BY FS_EmptySet, LimitsAssumption DEF Init, StoreInv, StoreBounded
<1> QED BY <1>1, <1>2 DEF IInv

\* A smaller store keeps its invariants.
LEMMA Shrinks ==
  ASSUME StoreInv, StoreBounded, NEW S, S \subseteq store
  PROVE  /\ IsFiniteSet(S) /\ Cardinality(S) \in Nat /\ Cardinality(S) <= Cardinality(store)
         /\ Cardinality(S) <= MaxEntries
         /\ \A d, e \in S : d.key = e.key => d = e
<1>1. IsFiniteSet(store)
  BY DEF StoreInv
<1>2. IsFiniteSet(S) /\ Cardinality(S) <= Cardinality(store)
  BY <1>1, FS_Subset
<1>3. Cardinality(S) \in Nat /\ Cardinality(store) \in Nat
  BY <1>1, <1>2, FS_CardinalityType
<1> QED BY <1>2, <1>3, LimitsAssumption DEF StoreBounded

\* Whichever branch maybe_store takes to make room, one entry fits in.
LEMMA RoomForOne ==
  ASSUME StoreInv, StoreBounded, NEW k, NEW kept \in Room(k), NEW rest,
         rest = {e \in kept : e.key # k}
  PROVE  rest \subseteq store /\ Cardinality(rest) < MaxEntries
<1> DEFINE swept == {e \in store : e.expires > now}
<1>0. IsFiniteSet(store) /\ Cardinality(store) \in Nat /\ MaxEntries \in Nat
      /\ Cardinality(store) <= MaxEntries
  BY FS_CardinalityType, LimitsAssumption DEF StoreInv, StoreBounded
<1>1. CASE kept = store /\ Cardinality(store) < MaxEntries
  <2>1. rest \subseteq store
    BY <1>1
  <2> QED BY <1>0, <1>1, <2>1, Shrinks
<1>2. ASSUME kept = store, NEW d \in store, d.key = k
      PROVE  rest \subseteq store /\ Cardinality(rest) < MaxEntries
  <2>1. rest \subseteq store \ {d}
    BY <1>2
  <2>2. IsFiniteSet(store \ {d}) /\ Cardinality(store \ {d}) = Cardinality(store) - 1
    BY <1>0, FS_RemoveElement
  <2>3. Cardinality(rest) <= Cardinality(store \ {d})
    BY <2>1, <2>2, FS_Subset
  <2>4. rest \subseteq store
    BY <2>1
  <2>5. Cardinality(rest) \in Nat
    BY <2>4, Shrinks
  <2> QED BY <1>0, <2>2, <2>3, <2>4, <2>5
<1>3. CASE kept = swept /\ Cardinality(swept) < MaxEntries
  <2>1. rest \subseteq swept /\ rest \subseteq store
    BY <1>3
  <2>2. IsFiniteSet(swept) /\ Cardinality(swept) \in Nat /\ Cardinality(rest) \in Nat
    BY <2>1, Shrinks
  <2>3. Cardinality(rest) <= Cardinality(swept)
    BY <2>1, <2>2, FS_Subset
  <2> QED BY <1>0, <1>3, <2>1, <2>2, <2>3
<1>4. ASSUME NEW d \in swept, kept = swept \ {d}
      PROVE  rest \subseteq store /\ Cardinality(rest) < MaxEntries
  <2>1. rest \subseteq store \ {d} /\ d \in store
    BY <1>4
  <2>2. IsFiniteSet(store \ {d}) /\ Cardinality(store \ {d}) = Cardinality(store) - 1
    BY <1>0, <2>1, FS_RemoveElement
  <2>3. Cardinality(rest) <= Cardinality(store \ {d})
    BY <2>1, <2>2, FS_Subset
  <2>4. rest \subseteq store
    BY <2>1
  <2>5. Cardinality(rest) \in Nat
    BY <2>4, Shrinks
  <2> QED BY <1>0, <2>2, <2>3, <2>4, <2>5
<1> QED BY <1>1, <1>2, <1>3, <1>4 DEF Room

\* insert() after room was made.
LEMMA InsertStep ==
  ASSUME StoreInv, StoreBounded, UNCHANGED purges, NEW entry, EntryIsCurrent(entry),
         NEW kept \in Room(entry.key),
         store' = {e \in kept : e.key # entry.key} \union {entry}
  PROVE  StoreInv' /\ StoreBounded'
<1> DEFINE rest == {e \in kept : e.key # entry.key}
<1>1. rest \subseteq store /\ Cardinality(rest) < MaxEntries
  BY RoomForOne
<1>2. IsFiniteSet(rest) /\ Cardinality(rest) \in Nat /\ \A d, e \in rest : d.key = e.key => d = e
  BY <1>1, Shrinks
<1>3. \A e \in rest : e.key # entry.key
  OBVIOUS
<1>4. store' = rest \union {entry}
  OBVIOUS
<1> HIDE DEF rest
<1>5. IsFiniteSet(store') /\ Cardinality(store') <= Cardinality(rest) + 1
  <2>1. entry \notin rest
    BY <1>3
  <2>2. IsFiniteSet(rest \union {entry}) /\ Cardinality(rest \union {entry}) = Cardinality(rest) + 1
    BY <1>2, <2>1, FS_AddElement
  <2>3. IsFiniteSet(store') /\ Cardinality(store') = Cardinality(rest) + 1
    BY <1>4, <2>2, Zenon
  <2> QED BY <1>2, <2>3
<1>6. Cardinality(store') <= MaxEntries
  BY <1>1, <1>2, <1>5, LimitsAssumption, FS_CardinalityType
<1>7. \A d, e \in store' : d.key = e.key => d = e
  BY <1>2, <1>3, <1>4
<1>8. \A e \in store' : EntryIsCurrent(e)'
  BY <1>1, <1>4 DEF StoreInv, EntryIsCurrent
<1> QED BY <1>5, <1>6, <1>7, <1>8 DEF StoreInv, StoreBounded

LEMMA RemoveStep ==
  ASSUME StoreInv, StoreBounded, UNCHANGED purges, store' \subseteq store
  PROVE  StoreInv' /\ StoreBounded'
<1>1. IsFiniteSet(store') /\ Cardinality(store') <= MaxEntries
      /\ \A d, e \in store' : d.key = e.key => d = e
  BY Shrinks
<1>2. \A e \in store' : EntryIsCurrent(e)'
  BY DEF StoreInv, EntryIsCurrent
<1> QED BY <1>1, <1>2 DEF StoreInv, StoreBounded

LEMMA StoreStep == IInv /\ [Next]_vars => StoreInv' /\ StoreBounded' /\ ClockTypes'
<1> SUFFICES ASSUME IInv, [Next]_vars PROVE StoreInv' /\ StoreBounded' /\ ClockTypes'
  OBVIOUS
<1>0. StoreInv /\ StoreBounded /\ ClockTypes /\ TaskTypes
  BY DEF IInv
<1>1. CASE store' \subseteq store /\ UNCHANGED <<purges, now>>
  BY <1>0, <1>1, RemoveStep DEF ClockTypes
<1>2. ASSUME NEW t \in Task, StoreAndReply(t) PROVE StoreInv' /\ StoreBounded' /\ ClockTypes'
  <2>1. shape[t] \in Shapes /\ Passes(shape[t])
    BY <1>0, <1>2 DEF StoreAndReply, TaskTypes
  <2> DEFINE entry == [key |-> key(shape[t]), shape |-> shape[t], kind |-> answer[t],
                       expires |-> now + Ttl, purged |-> purges[shape[t].path]]
  <2>2. entry.key = key(shape[t]) /\ EntryIsCurrent(entry)
    BY <2>1 DEF EntryIsCurrent
  <2>3. UNCHANGED <<purges, now>>
    BY <1>2 DEF StoreAndReply
  <2>4. CASE \E kept \in Room(key(shape[t])) :
               store' = {e \in kept : e.key # key(shape[t])} \union {entry}
    <3> PICK kept \in Room(key(shape[t])) :
               store' = {e \in kept : e.key # key(shape[t])} \union {entry}
      BY <2>4
    <3> HIDE DEF entry
    <3>1. StoreInv' /\ StoreBounded'
      BY <1>0, <2>2, <2>3, InsertStep
    <3> QED BY <1>0, <2>3, <3>1 DEF ClockTypes
  <2>5. CASE UNCHANGED store
    BY <1>1, <2>3, <2>5
  <2> QED BY <1>2, <2>4, <2>5 DEF StoreAndReply
<1>3. ASSUME NEW ps \in SUBSET Paths, Purge(ps) PROVE StoreInv' /\ StoreBounded' /\ ClockTypes'
  <2>1. ClockTypes'
    BY <1>0, <1>3 DEF Purge, ClockTypes
  <2>2. store' \subseteq store
    BY <1>3 DEF Purge
  <2>3. IsFiniteSet(store') /\ Cardinality(store') <= MaxEntries
        /\ \A d, e \in store' : d.key = e.key => d = e
    BY <1>0, <2>2, Shrinks
  <2>4. ASSUME NEW e \in store' PROVE EntryIsCurrent(e)'
    <3>1. e \in store /\ e.shape.path \notin ps /\ EntryIsCurrent(e)
      BY <1>0, <1>3 DEF Purge, StoreInv
    <3>2. e.shape.path \in Paths
      BY <3>1 DEF EntryIsCurrent, Paths
    <3>3. purges'[e.shape.path] = purges[e.shape.path]
      BY <1>3, <3>1, <3>2 DEF Purge
    <3> QED BY <3>1, <3>3 DEF EntryIsCurrent
  <2> QED BY <2>1, <2>3, <2>4 DEF StoreInv, StoreBounded
<1>4. CASE Tick
  BY <1>0, <1>4, RemoveStep DEF Tick, ClockTypes
<1>5. ASSUME NEW t \in Task, NEW s \in Shapes, ArriveGet(t, s) \/ ArriveQuery(t, s)
      PROVE  store' \subseteq store /\ UNCHANGED <<purges, now>>
  BY <1>5 DEF ArriveGet, ArriveQuery, lookup
<1>6. ASSUME NEW t \in Task,
             BufferFails(t) \/ Buffered(t) \/ Disconnect(t) \/ \E kind \in Kinds : Answers(t, kind)
      PROVE  store' \subseteq store /\ UNCHANGED <<purges, now>>
  BY <1>6 DEF BufferFails, Buffered, Disconnect, Answers, lookup
<1>7. Purge(Paths) \/ (\E p \in Paths : Purge({p})) => \E ps \in SUBSET Paths : Purge(ps)
  OBVIOUS
<1> QED BY <1>1, <1>2, <1>3, <1>4, <1>5, <1>6, <1>7 DEF Next, Quiet, vars

\* The lookup of a request: where its task can be afterwards.
LEMMA LookupTask ==
  ASSUME TaskTypes, NEW t \in Task, NEW s \in Shapes, NEW ACTION missed,
         missed => ((ToHandler(t, s) /\ Passes(s)) \/ Ends(t, "refused")), lookup(t, s, missed)
  PROVE  TaskTypes'
<1>1. CASE ToHandler(t, s) /\ Passes(s) /\ UNCHANGED served
  BY <1>1 DEF ToHandler, TaskTypes
<1>2. CASE Ends(t, "refused") /\ UNCHANGED served
  BY <1>2 DEF Ends, TaskTypes
<1>3. ASSUME NEW e \in Found(s), Replay(t, s, e) PROVE TaskTypes'
  BY <1>3 DEF Replay, Ends, TaskTypes
<1> QED BY <1>1, <1>2, <1>3 DEF lookup

LEMMA TaskStep == IInv /\ [Next]_vars => TaskTypes'
<1> SUFFICES ASSUME IInv, [Next]_vars PROVE TaskTypes'
  OBVIOUS
<1>0. TaskTypes
  BY DEF IInv
<1>1. ASSUME NEW t \in Task, NEW s \in Shapes, ArriveGet(t, s) PROVE TaskTypes'
  <2>1. Passes(s)
    BY <1>1 DEF ArriveGet, Passes
  <2> QED BY <1>0, <1>1, <2>1, LookupTask DEF ArriveGet
<1>2. ASSUME NEW t \in Task, NEW s \in Shapes, ArriveQuery(t, s) PROVE TaskTypes'
  BY <1>0, <1>2 DEF ArriveQuery, TaskTypes
<1>3. ASSUME NEW t \in Task, Buffered(t) PROVE TaskTypes'
  <2>1. shape[t] \in Shapes
    BY <1>0, <1>3 DEF Buffered, TaskTypes
  <2>2. Validates(shape[t]) => Passes(shape[t])
    BY DEF Passes
  <2> QED BY <1>0, <1>3, <2>1, <2>2, LookupTask DEF Buffered
<1>4. ASSUME NEW t \in Task, NEW kind \in Kinds, Answers(t, kind) PROVE TaskTypes'
  BY <1>0, <1>4 DEF Answers, TaskTypes
<1>5. ASSUME NEW t \in Task, BufferFails(t) \/ StoreAndReply(t) \/ Disconnect(t) PROVE TaskTypes'
  <2>1. PICK how \in {"refused", "js", "dropped"} : Ends(t, how) /\ UNCHANGED served
    BY <1>5 DEF BufferFails, StoreAndReply, Disconnect
  <2> QED BY <1>0, <2>1 DEF Ends, TaskTypes
<1>6. CASE UNCHANGED <<pc, shape, answer, served>>
  BY <1>0, <1>6 DEF TaskTypes
<1> QED BY <1>1, <1>2, <1>3, <1>4, <1>5, <1>6 DEF Next, Purge, Tick, Quiet, vars

LEMMA HitStep == IInv /\ [Next]_vars => HitInv'
<1> SUFFICES ASSUME IInv, [Next]_vars PROVE HitInv'
  OBVIOUS
<1>0. TaskTypes /\ StoreInv /\ HitInv
  BY DEF IInv
<1>1. CASE UNCHANGED served
  BY <1>0, <1>1 DEF HitInv
<1>2. ASSUME NEW t \in Task, NEW s \in Shapes, NEW e \in Found(s), Replay(t, s, e) PROVE HitInv'
  <2>1. e \in store /\ e.key = key(s)
    BY DEF Found
  <2>2. /\ e.shape \in Shapes /\ key(e.shape) = key(s) /\ Passes(e.shape)
        /\ e.purged = purges[e.shape.path]
    BY <1>0, <2>1 DEF StoreInv, EntryIsCurrent
  <2>3. e.shape.path = s.path
    BY <2>2 DEF key
  <2>4. served' = [served EXCEPT ![t] = [shape |-> s, entry |-> e, purged |-> purges[s.path]]]
    BY <1>2 DEF Replay
  <2> QED BY <1>0, <2>2, <2>3, <2>4 DEF TaskTypes, HitInv
<1>3. ASSUME NEW t \in Task, NEW s \in Shapes, NEW ACTION missed, lookup(t, s, missed) PROVE HitInv'
  BY <1>1, <1>2, <1>3 DEF lookup
<1>4. ASSUME NEW t \in Task, NEW s \in Shapes, ArriveGet(t, s) PROVE HitInv'
  BY <1>3, <1>4 DEF ArriveGet
<1>5. ASSUME NEW t \in Task, Buffered(t) PROVE HitInv'
  <2>1. shape[t] \in Shapes
    BY <1>0, <1>5 DEF Buffered, TaskTypes
  <2> QED BY <1>3, <1>5, <2>1 DEF Buffered
<1> QED BY <1>1, <1>4, <1>5
        DEF Next, ArriveQuery, BufferFails, Answers, StoreAndReply, Disconnect, Purge, Tick,
            Quiet, vars

-----------------------------------------------------------------------------

\* Along every behaviour the inductive invariant holds: the entries of the store
\* are current, and every replay was of a current entry with the same key.
THEOREM Invariance == Spec => []IInv
<1>1. IInv /\ [Next]_vars => IInv'
  BY TaskStep, StoreStep, HitStep DEF IInv
<1> QED BY InitHolds, <1>1, PTL DEF Spec

\* maxEntries holds for every limit and every number of tasks that miss, refresh
\* and evict at once, and a key has one entry (maybe_store in cache.rs).
THEOREM StoreKeepsBound == Spec => []StoreBounded
BY Invariance, PTL DEF IInv

\* A replayed answer was made for a request that passed the schema, the one it
\* goes to would pass it under the same Content-Encoding, and its path was not
\* purged since (dispatch(), LeafCache::key, lookup and purge).
THEOREM HitsAreValid == Spec => []HitIsValid
<1>1. ASSUME IInv PROVE HitIsValid
  <2>1. ASSUME NEW h \in Hits
        PROVE  /\ Passes(h.entry.shape) /\ h.purged = h.entry.purged
               /\ h.shape.enc = h.entry.shape.enc => Passes(h.shape)
    <3>1. PICK t \in Task : h = served[t] /\ h # None
      BY DEF Hits
    <3>2. /\ key(h.shape) = key(h.entry.shape) /\ h.purged = h.entry.purged
          /\ Passes(h.entry.shape)
      BY <1>1, <3>1 DEF IInv, HitInv
    <3>3. CASE h.shape.method = "QUERY"
      <4>1. h.entry.shape.method = "QUERY" /\ h.entry.shape.raw = h.shape.raw
        BY <3>2, <3>3 DEF key
      <4> QED BY <3>2, <4>1 DEF Passes, Validates
    <3>4. CASE h.shape.method # "QUERY"
      BY <3>2, <3>4 DEF Passes
    <3> QED BY <3>3, <3>4
  <2> QED BY <2>1 DEF HitIsValid, HitWasValidated, HitNotPurged
<1> QED BY Invariance, <1>1, PTL
=============================================================================
