------------------------------- MODULE Cache --------------------------------
(***************************************************************************)
(* The native response cache of one route: LeafCache in src/src/cache.rs,  *)
(* the way dispatch() in src/src/server.rs goes through it, and            *)
(* RustServer.purge_cache in src/src/lib.rs.  The route has a body schema. *)
(*                                                                         *)
(* A request is a record: its method (HEAD is an auto-HEAD, answered by    *)
(* the GET route), its path with query string, the values of the `vary'    *)
(* headers, its raw body and its Content-Encoding.  A raw body "plain"     *)
(* holds valid JSON; "packed" holds the same, compressed.  The hash of the *)
(* raw body is taken to be injective.                                      *)
(***************************************************************************)
EXTENDS Naturals, FiniteSets

CONSTANTS
  Task,        \* the tasks that serve the requests
  Shapes,      \* the requests
  MaxEntries,  \* maxEntries
  Ttl,         \* ttl, in ticks of the clock
  MaxNow,      \* bound: the clock stops here
  MaxPurges,   \* bound on the calls of purgeCache
  None         \* "nothing"

ASSUME ShapesAssumption ==
  Shapes \subseteq [method : {"GET", "HEAD", "QUERY"}, path : STRING, vary : STRING,
                    raw : {"empty", "plain", "packed"}, enc : {"identity", "gzip"}]
ASSUME LimitsAssumption ==
  MaxEntries \in Nat \ {0} /\ Ttl \in Nat \ {0} /\ MaxNow \in Nat /\ MaxPurges \in Nat

\* What a handler may answer, as far as maybe_store tells answers apart.
Kinds == {"ok", "not200", "streamed", "large", "cookie", "nostore"}

\* LeafCache::key, from the effective method: auto-HEAD shares the GET entries,
\* and only QUERY has its body in the key.
key(s) ==
  <<IF s.method = "HEAD" THEN "GET" ELSE s.method, s.path, s.vary,
    IF s.method = "QUERY" THEN s.raw ELSE "empty">>

\* compress::decode succeeds on the buffered body.
Decodes(s) == s.enc = "identity" \/ s.raw = "packed"

\* LeafSchema::validate succeeds on the decoded body.
Validates(s) == (s.enc = "gzip" /\ s.raw = "packed") \/ (s.enc = "identity" /\ s.raw = "plain")

VARIABLES
  pc,      \* where each task is in dispatch()
  shape,   \* the request of each task
  answer,  \* what JS answered to each task
  served,  \* what each request was replayed from the cache
  store,   \* LeafCache.store: a set of entries, one per key
  now,     \* Instant::now()
  purges   \* history: how often each path was purged

vars == <<pc, shape, answer, served, store, now, purges>>

Paths == {s.path : s \in Shapes}

Init ==
  /\ pc = [t \in Task |-> "new"]
  /\ shape = [t \in Task |-> None]
  /\ answer = [t \in Task |-> None]
  /\ served = [t \in Task |-> None]
  /\ store = {}
  /\ now = 0
  /\ purges = [p \in Paths |-> 0]

Found(s) == {e \in store : e.key = key(s)}

\* The request of t is over; nothing of it is left.
Ends(t, how) ==
  /\ pc' = [pc EXCEPT ![t] = how]
  /\ shape' = [shape EXCEPT ![t] = None]
  /\ answer' = [answer EXCEPT ![t] = None]

\* t replays entry e to request s.
Replay(t, s, e) ==
  /\ served' = [served EXCEPT ![t] =
       [shape |-> s, entry |-> e, purged |-> purges[s.path]]]
  /\ Ends(t, "hit")

-----------------------------------------------------------------------------
(* dispatch(), from the lookup on.                                         *)

\* LeafCache::lookup under the lock, and what dispatch() does with it: a live
\* entry is replayed at once, an expired one is removed, and after a miss the
\* request goes on with `missed'.
lookup(t, s, missed) ==
  \/ \E e \in Found(s) :
       /\ e.expires > now
       /\ Replay(t, s, e)
       /\ UNCHANGED store
  \/ /\ \A e \in Found(s) : e.expires <= now
     /\ store' = store \ Found(s)
     /\ missed
     /\ UNCHANGED served

\* After a miss the request goes to JS; key and path are kept for the store step.
ToHandler(t, s) ==
  /\ pc' = [pc EXCEPT ![t] = "handler"]
  /\ shape' = [shape EXCEPT ![t] = s]
  /\ UNCHANGED answer

\* A GET or an auto-HEAD: the lookup comes before any work on the body.  They
\* carry no body here, and what the schema says of their query is in the key.
ArriveGet(t, s) ==
  /\ pc[t] = "new" /\ s.method # "QUERY"
  /\ lookup(t, s, ToHandler(t, s))
  /\ UNCHANGED <<now, purges>>

\* A QUERY: buffer_body() awaits its body.
ArriveQuery(t, s) ==
  /\ pc[t] = "new" /\ s.method = "QUERY"
  /\ shape' = [shape EXCEPT ![t] = s]
  /\ pc' = [pc EXCEPT ![t] = "buffer"]
  /\ UNCHANGED <<answer, served, store, now, purges>>

\* The body of a QUERY did not arrive whole (413, 408, 400), or cannot be decoded.
BufferFails(t) ==
  /\ pc[t] = "buffer"
  /\ Ends(t, "refused")
  /\ UNCHANGED <<served, store, now, purges>>

\* The body of a QUERY is buffered and decoded: the lookup, and after a miss the
\* schema, which refuses with 400.
Buffered(t) ==
  LET s == shape[t] IN
  /\ pc[t] = "buffer" /\ Decodes(s)
  /\ lookup(t, s, IF Validates(s) THEN ToHandler(t, s) ELSE Ends(t, "refused"))
  /\ UNCHANGED <<now, purges>>

\* The handler answers through the bridge.
Answers(t, kind) ==
  /\ pc[t] = "handler"
  /\ answer' = [answer EXCEPT ![t] = kind]
  /\ pc' = [pc EXCEPT ![t] = "store"]
  /\ UNCHANGED <<shape, served, store, now, purges>>

\* maybe_store, first half: status 200, not streamed, small enough, no
\* Set-Cookie, no Cache-Control: no-store or private.
Eligible(kind) == kind \notin {"not200", "streamed", "large", "cookie", "nostore"}

\* Mutant of Room: the sweep of expired entries is taken for enough.
RoomBySweepOnly(k) ==
  IF Cardinality(store) >= MaxEntries /\ \A e \in store : e.key # k
  THEN {{e \in store : e.expires > now}}
  ELSE {store}

\* maybe_store, second half: the possible contents of the store when there is
\* room for key k.  Expired entries are swept, then an arbitrary one goes.
Room(k) ==
  LET swept == {e \in store : e.expires > now} IN
  IF Cardinality(store) < MaxEntries \/ \E e \in store : e.key = k THEN {store}
  ELSE IF Cardinality(swept) < MaxEntries THEN {swept}
  ELSE {swept \ {e} : e \in swept}

\* done_rx.await returns: maybe_store, then the response is built.  insert()
\* replaces the entry of the same key.
StoreAndReply(t) ==
  LET s == shape[t]
      k == key(s)
      entry == [key |-> k, shape |-> s, kind |-> answer[t], expires |-> now + Ttl,
                purged |-> purges[s.path]]
  IN
  /\ pc[t] = "store"
  /\ IF Eligible(answer[t])
     THEN \E kept \in Room(k) : store' = {e \in kept : e.key # k} \union {entry}
     ELSE UNCHANGED store
  /\ Ends(t, "js")
  /\ UNCHANGED <<served, now, purges>>

\* The client leaves: the future is dropped at its await and stores nothing.
Disconnect(t) ==
  /\ pc[t] \in {"buffer", "handler", "store"}
  /\ Ends(t, "dropped")
  /\ UNCHANGED <<served, store, now, purges>>

-----------------------------------------------------------------------------
(* The application and the clock.                                          *)

\* Mutant of Purge: of one path only the GET variants are dropped.
PurgeGetOnly(ps) ==
  /\ \A p \in ps : purges[p] < MaxPurges
  /\ store' = {e \in store : e.shape.path \notin ps \/ e.key[1] # "GET"}
  /\ purges' = [p \in Paths |-> IF p \in ps THEN purges[p] + 1 ELSE purges[p]]
  /\ UNCHANGED <<pc, shape, answer, served, now>>

\* purgeCache(path), or purgeCache() for all paths: LeafCache::purge.
Purge(ps) ==
  /\ \A p \in ps : purges[p] < MaxPurges
  /\ store' = {e \in store : e.shape.path \notin ps}
  /\ purges' = [p \in Paths |-> IF p \in ps THEN purges[p] + 1 ELSE purges[p]]
  /\ UNCHANGED <<pc, shape, answer, served, now>>

Tick ==
  /\ now < MaxNow
  /\ now' = now + 1
  /\ UNCHANGED <<pc, shape, answer, served, store, purges>>

Quiet ==
  /\ \A t \in Task : pc[t] \in {"hit", "js", "refused", "dropped"}
  /\ UNCHANGED vars

Next ==
  \/ \E t \in Task :
       \/ \E s \in Shapes : ArriveGet(t, s) \/ ArriveQuery(t, s)
       \/ BufferFails(t) \/ Buffered(t)
       \/ \E kind \in Kinds : Answers(t, kind)
       \/ StoreAndReply(t) \/ Disconnect(t)
  \/ \E p \in Paths : Purge({p})
  \/ Purge(Paths)
  \/ Tick
  \/ Quiet

Spec == Init /\ [][Next]_vars

-----------------------------------------------------------------------------
(* Properties.                                                             *)

\* The replays so far.
Hits == {served[t] : t \in Task} \ {None}

\* The cap is a memory guard (cache.rs 159-171): concurrent misses, refreshes
\* and evictions never leave more than maxEntries entries, nor two for one key.
StoreBounded ==
  /\ Cardinality(store) <= MaxEntries
  /\ \A d, e \in store : d.key = e.key => d = e

\* What dispatch() would have found out about s, had there been no hit.
Passes(s) == s.method = "QUERY" => Validates(s)

\* A hit skips the schema (server.rs 1062-1078): the answer was made for a request
\* that passed it, and a replay for the same Content-Encoding goes to a request
\* that would pass as well, although the lookup of one request and the insert of
\* the other are separated by the body, the schema and the handler.  For another
\* Content-Encoding, which is not in the key, a hit proves nothing, although
\* server.rs 1062 and DESIGN.md 572 say that it does.
HitWasValidated ==
  \A h \in Hits :
    /\ Passes(h.entry.shape)
    /\ h.shape.enc = h.entry.shape.enc => Passes(h.shape)

\* purgeCache(path) drops all variants of the path (cache.rs 176-190): what was
\* stored before a purge of its path is not replayed after it.
HitNotPurged == \A h \in Hits : h.purged = h.entry.purged

\* A replay is as good as the answer it stands for: validated, and not purged
\* since, whatever misses, refreshes and purges came between.
HitIsValid == HitWasValidated /\ HitNotPurged
=============================================================================
