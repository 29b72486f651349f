---------------------------- MODULE BridgeProofs ----------------------------
(***************************************************************************)
(* Proofs about Bridge, for every set of requests and every ticket space.  *)
(***************************************************************************)
EXTENDS Bridge, TLAPS

-----------------------------------------------------------------------------
(* The inductive invariant, in named parts.                                *)

\* The for loop of #drainBatch always has a request left.
RunHasBatch == js = "run" => batch # <<>>

TypeInv == TypeOK /\ RunHasBatch

Early == {"new", "insert", "push"}

\* An entry is stored under the ticket of its request.
TicketsMatch ==
  \A i \in Ids : pending[i] # NoReq =>
    reqId[pending[i]] = i /\ pc[pending[i]] \notin {"new", "insert"}

\* r is in the queue or in the batch, at one place only.
QueueOnce ==
  /\ \A i, j \in 1 .. Len(queue) : queue[i] = queue[j] => i = j
  /\ \A i, j \in 1 .. Len(batch) : batch[i] = batch[j] => i = j
  /\ \A i \in 1 .. Len(queue), j \in 1 .. Len(batch) : queue[i] # batch[j]

\* What JS can see has been pushed and has not been dispatched.
VisibleIsFresh ==
  /\ \A i \in 1 .. Len(queue) : handler[queue[i]] = "none" /\ pc[queue[i]] \notin Early
  /\ \A i \in 1 .. Len(batch) : handler[batch[i]] = "none" /\ pc[batch[i]] \notin Early
  /\ \A r \in Req : pc[r] \in Early => handler[r] = "none"

\* Until a ticket is lapped, an unanswered request owns its entry.
OwnsEntry ==
  ~lapped => \A r \in Req :
    pc[r] \notin {"new", "insert"} /\ handler[r] # "done" => Entry(r) = r

\* Until a ticket is lapped, bodies and answers stay with their request, but for
\* the bodies a handler took after its answer.
OwnsBody ==
  ~lapped => \A r \in Req :
    /\ io[r] \in {NoReq, r} \/ (handler[r] = "done" /\ io[r] \in strays)
    /\ handler[r] = "none" => io[r] = NoReq
    /\ io[r] = r => body[r] = "taken"
    /\ handler[r] # "done" /\ io[r] = NoReq => body[r] = "parts" \/ r \in strays
    /\ watch[r] = "waiting" => io[r] = r

OwnsReply ==
  ~lapped => \A r \in Req :
    /\ reply[r].by \in {NoReq, r}
    /\ reply[r].st # "closed"
    /\ handler[r] # "done" => reply[r].st = "open"
    /\ reply[r].streamed => io[r] = r

\* The signal reports an abort only for a dropped future.
SignalTruth ==
  /\ \A r \in Req : signal[r] = "abort" => pc[r] = "dropped"
  /\ ~lapped => \A r \in aborts : pc[r] = "dropped"

IInv == /\ TypeInv /\ NoLostWakeup /\ NoPendingLeak
        /\ TicketsMatch /\ QueueOnce /\ VisibleIsFresh
        /\ OwnsEntry /\ OwnsBody /\ OwnsReply /\ SignalTruth
-----------------------------------------------------------------------------
(* Facts about the operators and the actions with several outcomes, stated *)
(* pointwise: the invariance proofs below use these instead of the         *)
(* definitions.                                                            *)

BodyStates == {"parts", "taken", "dropped"}
Replies == [st : {"open", "sent", "closed"}, by : Req \union {NoReq},
            streamed : BOOLEAN]

\* Dropping a Pending changes at most the parts of its own request.
LEMMA DropPartsType ==
  ASSUME NEW b \in [Req -> BodyStates], NEW p \in Req
  PROVE  /\ DropParts(b, p) \in [Req -> BodyStates]
         /\ \A q \in Req : q # p => DropParts(b, p)[q] = b[q]
         /\ \A q \in Req : b[q] = "taken" => DropParts(b, p)[q] = "taken"
BY DEF DropParts, BodyStates

\* An insert over a live entry sets lapped and leaves the types alone.
LEMMA InsertFacts ==
  ASSUME TypeOK, NEW r \in Req, InsertPending(r), Entry(r) # NoReq
  PROVE  /\ body' \in [Req -> BodyStates]
         /\ reply' \in [Req -> Replies]
         /\ lapped' = TRUE
<1>1. Entry(r) \in Req /\ body \in [Req -> BodyStates] /\ reply \in [Req -> Replies]
  BY DEF TypeOK, Entry, BodyStates, Replies
<1>2. /\ body' = DropParts(body, Entry(r))
      /\ reply' = [reply EXCEPT ![Entry(r)] = SenderDropped]
      /\ lapped' = TRUE
  BY DEF InsertPending
<1>3. SenderDropped \in Replies
  BY DEF SenderDropped, Replies
<1> QED BY <1>1, <1>2, <1>3, DropPartsType

\* What a respond() call for r with `streams' does to the table, the oneshots
\* and the parts: it empties the slot of r's ticket when the server is open and
\* touches only the request that slot held.
EndFacts(r, streams) ==
  /\ pending' \in [Ids -> Req \union {NoReq}]
  /\ reply' \in [Req -> Replies]
  /\ body' \in [Req -> BodyStates]
  /\ \A i \in Ids : i # reqId[r] => pending'[i] = pending[i]
  /\ \A i \in Ids : pending'[i] \in {NoReq, pending[i]}
  /\ active => pending'[reqId[r]] = NoReq
  /\ \A q \in Req : q # Entry(r) => reply'[q] = reply[q] /\ body'[q] = body[q]
  /\ \A q \in Req : body[q] = "taken" => body'[q] = "taken"
  /\ ~active => reply' = reply
  /\ \A q \in Req : \/ reply'[q] = reply[q]
                    \/ /\ reply'[q].st = "sent" /\ reply'[q].by = r
                       /\ reply'[q].streamed = streams

\* respond() has these effects, also after takeBody took the parts of the slot.
LEMMA RespondEffect ==
  ASSUME TypeOK, NEW r \in Req, NEW s \in BOOLEAN, NEW b \in [Req -> BodyStates],
         \A q \in Req : q # Entry(r) => b[q] = body[q],
         \A q \in Req : body[q] = "taken" => b[q] = "taken",
         Respond(r, s, b)
  PROVE  EndFacts(r, s) /\ \A q \in Req : b[q] = "taken" => body'[q] = "taken"
<1>0. /\ pending \in [Ids -> Req \union {NoReq}] /\ reply \in [Req -> Replies]
      /\ reqId[r] \in Ids
  BY DEF TypeOK, Replies
<1>1. CASE active /\ Entry(r) # NoReq
  <2>1. Entry(r) \in Req
    BY <1>0, <1>1 DEF Entry
  <2> DEFINE sent == [st |-> "sent", by |-> r, streamed |-> s]
  <2>2. sent \in Replies /\ sent.st = "sent" /\ sent.by = r /\ sent.streamed = s
    BY DEF Replies
  <2>3. /\ pending' = [pending EXCEPT ![reqId[r]] = NoReq]
        /\ reply' = [reply EXCEPT ![Entry(r)] = IF pc[Entry(r)] = "dropped" THEN @ ELSE sent]
        /\ body' = DropParts(b, Entry(r))
    BY <1>1 DEF Respond
  <2> HIDE DEF sent
  <2>4. pending' \in [Ids -> Req \union {NoReq}] /\ pending'[reqId[r]] = NoReq
        /\ \A i \in Ids : i # reqId[r] => pending'[i] = pending[i]
    BY <1>0, <2>3
  <2>5. /\ reply' \in [Req -> Replies]
        /\ \A q \in Req : q # Entry(r) => reply'[q] = reply[q]
        /\ \A q \in Req : reply'[q] = reply[q] \/ reply'[q] = sent
    BY <1>0, <2>1, <2>2, <2>3
  <2>6. /\ body' \in [Req -> BodyStates]
        /\ \A q \in Req : q # Entry(r) => body'[q] = b[q]
        /\ \A q \in Req : b[q] = "taken" => body'[q] = "taken"
    BY <2>1, <2>3, DropPartsType
  <2> QED BY <1>1, <2>2, <2>4, <2>5, <2>6 DEF EndFacts
<1>2. CASE ~(active /\ Entry(r) # NoReq)
  <2>1. body' = b /\ pending' = pending /\ reply' = reply
    BY <1>2 DEF Respond
  <2> QED BY <1>0, <1>2, <2>1 DEF EndFacts, Entry
<1> QED BY <1>1, <1>2

\* A buffered answer.
FullFacts(r) ==
  /\ handler[r] = "running" /\ js = "idle"
  /\ handler' = [handler EXCEPT ![r] = "done"]
  /\ EndFacts(r, FALSE)
  /\ UNCHANGED <<pc, reqId, next_id, queue, js, batch, bells, io, signal, watch,
                 aborts, active, lapped, strays>>

LEMMA RespondFullEffect ==
  ASSUME TypeOK, NEW r \in Req, RespondFull(r) PROVE FullFacts(r)
<1>1. Respond(r, FALSE, body) /\ body \in [Req -> BodyStates]
  BY DEF RespondFull, TypeOK, BodyStates
<1>2. EndFacts(r, FALSE)
  BY <1>1, RespondEffect
<1> QED BY <1>2 DEF FullFacts, RespondFull, taskVars, jsVars

\* A streamed answer: the context holds a BodyIo afterwards, r's own when the
\* slot is r's, and its parts are taken.
StreamFacts(r) ==
  /\ handler[r] = "running" /\ js = "idle"
  /\ handler' = [handler EXCEPT ![r] = "done"]
  /\ EndFacts(r, TRUE)
  /\ \/ io[r] # NoReq /\ io' = io
     \/ /\ io[r] = NoReq /\ Entry(r) \in Req /\ body'[Entry(r)] = "taken"
        /\ io' = [io EXCEPT ![r] = Entry(r)]
  /\ UNCHANGED <<pc, reqId, next_id, queue, js, batch, bells, signal, watch,
                 aborts, active, lapped, strays>>

LEMMA RespondStreamEffect ==
  ASSUME TypeOK, NEW r \in Req, RespondStream(r) PROVE StreamFacts(r)
<1>0. body \in [Req -> BodyStates] /\ Entry(r) \in Req \union {NoReq}
  BY DEF TypeOK, BodyStates, Entry
<1>1. CASE io[r] # NoReq
  <2>1. Respond(r, TRUE, body) /\ io' = io
    BY <1>1 DEF RespondStream
  <2>2. EndFacts(r, TRUE)
    BY <1>0, <2>1, RespondEffect
  <2> QED BY <1>1, <2>1, <2>2 DEF StreamFacts, RespondStream, taskVars, jsVars
<1>2. CASE io[r] = NoReq
  <2> DEFINE b == [body EXCEPT ![Entry(r)] = "taken"]
  <2>1. /\ Respond(r, TRUE, b) /\ io' = [io EXCEPT ![r] = Entry(r)] /\ CanTake(r)
    BY <1>2 DEF RespondStream
  <2>2. Entry(r) \in Req
    BY <1>0, <2>1 DEF CanTake
  <2>3. /\ b \in [Req -> BodyStates] /\ b[Entry(r)] = "taken"
        /\ \A q \in Req : q # Entry(r) => b[q] = body[q]
        /\ \A q \in Req : body[q] = "taken" => b[q] = "taken"
    BY <1>0, <2>2 DEF BodyStates
  <2> HIDE DEF b
  <2>4. EndFacts(r, TRUE) /\ body'[Entry(r)] = "taken"
    BY <2>1, <2>2, <2>3, RespondEffect
  <2> QED BY <1>2, <2>1, <2>2, <2>4 DEF StreamFacts, RespondStream, taskVars, jsVars
<1> QED BY <1>1, <1>2

\* The three outcomes of a dispatch.
StartPlain(r) ==
  /\ handler' = [handler EXCEPT ![r] = "running"]
  /\ UNCHANGED <<pending, body, reply, io, watch>>
StartWatched(r) ==
  /\ CanTake(r) /\ Entry(r) \in Req
  /\ handler' = [handler EXCEPT ![r] = "running"]
  /\ watch' = [watch EXCEPT ![r] = "waiting"]
  /\ io' = [io EXCEPT ![r] = Entry(r)]
  /\ body' = [body EXCEPT ![Entry(r)] = "taken"]
  /\ UNCHANGED <<pending, reply>>
StartThrows(r) ==
  /\ ~CanTake(r)
  /\ handler' = [handler EXCEPT ![r] = "done"]
  /\ EndFacts(r, FALSE)
  /\ UNCHANGED <<io, watch>>
DispatchFacts(r) ==
  /\ js = "run" /\ Len(batch) \in Nat /\ Len(batch) > 0 /\ r = batch[1]
  /\ batch' \in Seq(Req) /\ Len(batch') = Len(batch) - 1
  /\ \A i \in 1 .. Len(batch') : batch'[i] = batch[i + 1]
  /\ js' \in {"take", "run"} /\ (js' = "run" => batch' # <<>>)
  /\ UNCHANGED <<pc, reqId, next_id, queue, bells, signal, aborts, active, lapped,
                 strays>>
  /\ \A q \in Req : q # r => handler'[q] = handler[q]
  /\ StartPlain(r) \/ StartWatched(r) \/ StartThrows(r)

LEMMA DispatchEffect ==
  ASSUME TypeInv, NEW r \in Req, Dispatch(r) PROVE DispatchFacts(r)
<1>1. /\ js = "run" /\ r = Head(batch) /\ batch' = Tail(batch)
      /\ js' = (IF Tail(batch) = <<>> THEN "take" ELSE "run")
      /\ UNCHANGED <<pc, reqId, next_id, queue, bells, signal, aborts, active, lapped,
                 strays>>
  BY DEF Dispatch, taskVars
<1>2. batch \in Seq(Req) /\ batch # <<>>
  BY <1>1 DEF TypeInv, TypeOK, RunHasBatch
<1>3. /\ Len(batch) \in Nat /\ Len(batch) > 0 /\ r = batch[1]
      /\ batch' \in Seq(Req) /\ Len(batch') = Len(batch) - 1
      /\ \A i \in 1 .. Len(batch') : batch'[i] = batch[i + 1]
  BY <1>1, <1>2
<1>4. js' \in {"take", "run"} /\ (js' = "run" => batch' # <<>>)
  BY <1>1
<1>5. StartPlain(r) \/ StartWatched(r) \/ StartThrows(r)
  <2>1. CASE r \notin Watched
    BY <2>1 DEF Dispatch, StartPlain
  <2>2. CASE r \in Watched /\ CanTake(r)
    <3>1. Entry(r) \in Req
      BY <2>2 DEF CanTake, Entry, TypeInv, TypeOK
    <3> QED BY <2>2, <3>1 DEF Dispatch, StartWatched
  <2>3. CASE r \in Watched /\ ~CanTake(r)
    <3>1. /\ Respond(r, FALSE, body) /\ handler' = [handler EXCEPT ![r] = "done"]
          /\ UNCHANGED <<io, watch>>
      BY <2>3 DEF Dispatch
    <3>2. body \in [Req -> BodyStates] /\ TypeOK
      BY DEF TypeInv, TypeOK, BodyStates
    <3>3. EndFacts(r, FALSE)
      BY <3>1, <3>2, RespondEffect
    <3> QED BY <2>3, <3>1, <3>3 DEF StartThrows
  <2> QED BY <2>1, <2>2, <2>3
<1>6. \A q \in Req : q # r => handler'[q] = handler[q]
  <2>1. handler' = [handler EXCEPT ![r] = "running"] \/ handler' = [handler EXCEPT ![r] = "done"]
    BY <1>5 DEF StartPlain, StartWatched, StartThrows
  <2> QED BY <2>1 DEF TypeInv, TypeOK
<1> QED BY <1>1, <1>3, <1>4, <1>5, <1>6 DEF DispatchFacts

\* Until a ticket is lapped, a handler call and a request in a batch find
\* their own entry.
LEMMA OwnsOwnEntry ==
  ASSUME TypeInv, VisibleIsFresh, OwnsEntry, ~lapped, NEW r \in Req,
         handler[r] = "running" \/ (handler[r] = "none" /\ pc[r] \notin Early)
  PROVE  Entry(r) = r
<1>1. pc[r] \notin Early
  BY DEF VisibleIsFresh
<1> QED BY <1>1 DEF OwnsEntry, Early

-----------------------------------------------------------------------------
(* Each part is preserved by every step.                                   *)

\* Every step keeps the types, and the drain loop never runs past its batch.
LEMMA TypeStep ==
  ASSUME TypeInv, [Next]_vars PROVE TypeInv'
<1> USE ReqAssumption, IdSpaceAssumption DEF TypeInv, TypeOK, RunHasBatch, Ids, BodyStates, Replies
<1>1. ASSUME NEW r \in Req, NextReqId(r) PROVE TypeInv'
  BY <1>1 DEF NextReqId, taskVars, jsVars, Entry
<1>2. ASSUME NEW r \in Req, InsertPending(r) PROVE TypeInv'
  <2>1. CASE Entry(r) = NoReq
    BY <1>2, <2>1 DEF InsertPending, jsVars, Entry
  <2>2. CASE Entry(r) # NoReq
    BY <1>2, <2>2, InsertFacts DEF InsertPending, jsVars, Entry
  <2> QED BY <2>1, <2>2
<1>3. ASSUME NEW r \in Req, Push(r) PROVE TypeInv'
  BY <1>3 DEF Push, taskVars, jsVars, Entry
<1>4. ASSUME NEW r \in Req, Ring(r) PROVE TypeInv'
  BY <1>4 DEF Ring, taskVars, jsVars, Entry
<1>5. ASSUME NEW r \in Req, Finish(r) PROVE TypeInv'
  BY <1>5 DEF Finish, taskVars, jsVars, Entry
<1>6. ASSUME NEW r \in Req, Disconnect(r) PROVE TypeInv'
  BY <1>6 DEF Disconnect, taskVars, jsVars, Entry
<1>7. ASSUME NEW r \in Req, Dispatch(r) PROVE TypeInv'
  <2>0. DispatchFacts(r)
    BY <1>7, DispatchEffect
  <2>1. CASE StartPlain(r)
    BY <2>0, <2>1 DEF DispatchFacts, StartPlain, Entry
  <2>2. CASE StartWatched(r)
    BY <2>0, <2>2 DEF DispatchFacts, StartWatched, Entry, CanTake
  <2>3. CASE StartThrows(r)
    BY <2>0, <2>3 DEF DispatchFacts, StartThrows, EndFacts, Entry, CanTake
  <2> QED BY <2>0, <2>1, <2>2, <2>3 DEF DispatchFacts
<1>8. ASSUME NEW r \in Req, UseBody(r) PROVE TypeInv'
  BY <1>8 DEF UseBody, CanTake, taskVars, jsVars, Entry
<1>9. ASSUME NEW r \in Req, RespondFull(r) PROVE TypeInv'
  <2>1. FullFacts(r)
    BY <1>9, RespondFullEffect
  <2> QED BY <2>1 DEF FullFacts, EndFacts, Entry
<1>10. ASSUME NEW r \in Req, RespondStream(r) PROVE TypeInv'
  <2>1. StreamFacts(r)
    BY <1>10, RespondStreamEffect
  <2>2. io' \in [Req -> Req \union {NoReq}]
    BY <2>1 DEF StreamFacts
  <2> QED BY <2>1, <2>2 DEF StreamFacts, EndFacts
<1>11. ASSUME NEW r \in Req, AbortSeen(r) PROVE TypeInv'
  BY <1>11 DEF AbortSeen, taskVars, jsVars, Entry
<1>12. CASE Wake
  BY <1>12 DEF Wake, taskVars, jsVars, Entry
<1>13. CASE TakeBatch
  <2>1. CASE active /\ queue # <<>>
    BY <1>13, <2>1 DEF TakeBatch, Entry, taskVars
  <2>2. CASE ~(active /\ queue # <<>>)
    BY <1>13, <2>2 DEF TakeBatch, Entry, taskVars
  <2> QED BY <2>1, <2>2
<1>14. CASE Close
  BY <1>14 DEF Close, taskVars, jsVars, Entry
<1>15. CASE UNCHANGED vars
  BY <1>15 DEF vars, Entry
<1> QED
  BY <1>1, <1>2, <1>3, <1>4, <1>5, <1>6, <1>7, <1>8, <1>9, <1>10, <1>11, <1>12, <1>13, <1>14, <1>15 DEF Next, Task, Script, Quiet

\* No step leaves a request queued with nobody about to look.
LEMMA WakeupStep ==
  ASSUME TypeInv, NoLostWakeup, [Next]_vars PROVE NoLostWakeup'
<1> USE ReqAssumption, IdSpaceAssumption DEF TypeInv, TypeOK, RunHasBatch, Ids, BodyStates, Replies, NoLostWakeup
<1>1. ASSUME NEW r \in Req, NextReqId(r) PROVE NoLostWakeup'
  BY <1>1 DEF NextReqId, taskVars, jsVars, Entry
<1>2. ASSUME NEW r \in Req, InsertPending(r) PROVE NoLostWakeup'
  <2>1. CASE Entry(r) = NoReq
    BY <1>2, <2>1 DEF InsertPending, jsVars, Entry
  <2>2. CASE Entry(r) # NoReq
    BY <1>2, <2>2, InsertFacts DEF InsertPending, jsVars, Entry
  <2> QED BY <2>1, <2>2
<1>3. ASSUME NEW r \in Req, Push(r) PROVE NoLostWakeup'
  BY <1>3 DEF Push, taskVars, jsVars, Entry
<1>4. ASSUME NEW r \in Req, Ring(r) PROVE NoLostWakeup'
  BY <1>4 DEF Ring, taskVars, jsVars, Entry
<1>5. ASSUME NEW r \in Req, Finish(r) PROVE NoLostWakeup'
  BY <1>5 DEF Finish, taskVars, jsVars, Entry
<1>6. ASSUME NEW r \in Req, Disconnect(r) PROVE NoLostWakeup'
  BY <1>6 DEF Disconnect, taskVars, jsVars, Entry
<1>7. ASSUME NEW r \in Req, Dispatch(r) PROVE NoLostWakeup'
  <2>0. DispatchFacts(r)
    BY <1>7, DispatchEffect
  <2>1. CASE StartPlain(r)
    BY <2>0, <2>1 DEF DispatchFacts, StartPlain, Entry
  <2>2. CASE StartWatched(r)
    BY <2>0, <2>2 DEF DispatchFacts, StartWatched, Entry, CanTake
  <2>3. CASE StartThrows(r)
    BY <2>0, <2>3 DEF DispatchFacts, StartThrows, EndFacts, Entry, CanTake
  <2> QED BY <2>0, <2>1, <2>2, <2>3 DEF DispatchFacts
<1>8. ASSUME NEW r \in Req, UseBody(r) PROVE NoLostWakeup'
  BY <1>8 DEF UseBody, CanTake, taskVars, jsVars, Entry
<1>9. ASSUME NEW r \in Req, RespondFull(r) PROVE NoLostWakeup'
  <2>1. FullFacts(r)
    BY <1>9, RespondFullEffect
  <2> QED BY <2>1 DEF FullFacts, EndFacts, Entry
<1>10. ASSUME NEW r \in Req, RespondStream(r) PROVE NoLostWakeup'
  <2>1. StreamFacts(r)
    BY <1>10, RespondStreamEffect
  <2> QED BY <2>1 DEF StreamFacts, EndFacts, Entry
<1>11. ASSUME NEW r \in Req, AbortSeen(r) PROVE NoLostWakeup'
  BY <1>11 DEF AbortSeen, taskVars, jsVars, Entry
<1>12. CASE Wake
  BY <1>12 DEF Wake, taskVars, jsVars, Entry
<1>13. CASE TakeBatch
  <2>1. CASE active /\ queue # <<>>
    BY <1>13, <2>1 DEF TakeBatch, Entry, taskVars
  <2>2. CASE ~(active /\ queue # <<>>)
    BY <1>13, <2>2 DEF TakeBatch, Entry, taskVars
  <2> QED BY <2>1, <2>2
<1>14. CASE Close
  BY <1>14 DEF Close, taskVars, jsVars, Entry
<1>15. CASE UNCHANGED vars
  BY <1>15 DEF vars, Entry
<1> QED
  BY <1>1, <1>2, <1>3, <1>4, <1>5, <1>6, <1>7, <1>8, <1>9, <1>10, <1>11, <1>12, <1>13, <1>14, <1>15 DEF Next, Task, Script, Quiet

\* Entries stay under the ticket of their request.
LEMMA TicketsStep ==
  ASSUME TypeInv, TicketsMatch, [Next]_vars PROVE TicketsMatch'
<1> USE ReqAssumption, IdSpaceAssumption DEF TypeInv, TypeOK, RunHasBatch, Ids, BodyStates, Replies, TicketsMatch
<1>1. ASSUME NEW r \in Req, NextReqId(r) PROVE TicketsMatch'
  BY <1>1 DEF NextReqId, taskVars, jsVars, Entry
<1>2. ASSUME NEW r \in Req, InsertPending(r) PROVE TicketsMatch'
  <2>1. CASE Entry(r) = NoReq
    BY <1>2, <2>1 DEF InsertPending, jsVars, Entry
  <2>2. CASE Entry(r) # NoReq
    BY <1>2, <2>2, InsertFacts DEF InsertPending, jsVars, Entry
  <2> QED BY <2>1, <2>2
<1>3. ASSUME NEW r \in Req, Push(r) PROVE TicketsMatch'
  BY <1>3 DEF Push, taskVars, jsVars, Entry
<1>4. ASSUME NEW r \in Req, Ring(r) PROVE TicketsMatch'
  BY <1>4 DEF Ring, taskVars, jsVars, Entry
<1>5. ASSUME NEW r \in Req, Finish(r) PROVE TicketsMatch'
  BY <1>5 DEF Finish, taskVars, jsVars, Entry
<1>6. ASSUME NEW r \in Req, Disconnect(r) PROVE TicketsMatch'
  BY <1>6 DEF Disconnect, taskVars, jsVars, Entry
<1>7. ASSUME NEW r \in Req, Dispatch(r) PROVE TicketsMatch'
  <2>0. DispatchFacts(r)
    BY <1>7, DispatchEffect
  <2>1. (\A i \in Ids : pending'[i] \in {NoReq, pending[i]}) /\ UNCHANGED <<pc, reqId>>
    BY <2>0 DEF DispatchFacts, StartPlain, StartWatched, StartThrows, EndFacts
  <2> QED BY <2>1
<1>8. ASSUME NEW r \in Req, UseBody(r) PROVE TicketsMatch'
  BY <1>8 DEF UseBody, CanTake, taskVars, jsVars, Entry
<1>9. ASSUME NEW r \in Req, RespondFull(r) PROVE TicketsMatch'
  <2>1. FullFacts(r)
    BY <1>9, RespondFullEffect
  <2>2. (\A i \in Ids : pending'[i] \in {NoReq, pending[i]}) /\ UNCHANGED <<pc, reqId>>
    BY <2>1 DEF FullFacts, EndFacts
  <2> QED BY <2>2
<1>10. ASSUME NEW r \in Req, RespondStream(r) PROVE TicketsMatch'
  <2>1. StreamFacts(r)
    BY <1>10, RespondStreamEffect
  <2>2. (\A i \in Ids : pending'[i] \in {NoReq, pending[i]}) /\ UNCHANGED <<pc, reqId>>
    BY <2>1 DEF StreamFacts, EndFacts
  <2> QED BY <2>2
<1>11. ASSUME NEW r \in Req, AbortSeen(r) PROVE TicketsMatch'
  BY <1>11 DEF AbortSeen, taskVars, jsVars, Entry
<1>12. CASE Wake
  BY <1>12 DEF Wake, taskVars, jsVars, Entry
<1>13. CASE TakeBatch
  <2>1. CASE active /\ queue # <<>>
    BY <1>13, <2>1 DEF TakeBatch, Entry, taskVars
  <2>2. CASE ~(active /\ queue # <<>>)
    BY <1>13, <2>2 DEF TakeBatch, Entry, taskVars
  <2> QED BY <2>1, <2>2
<1>14. CASE Close
  BY <1>14 DEF Close, taskVars, jsVars, Entry
<1>15. CASE UNCHANGED vars
  BY <1>15 DEF vars, Entry
<1> QED
  BY <1>1, <1>2, <1>3, <1>4, <1>5, <1>6, <1>7, <1>8, <1>9, <1>10, <1>11, <1>12, <1>13, <1>14, <1>15 DEF Next, Task, Script, Quiet

\* A pushed request is at one place and undispatched until it is dispatched.
LEMMA VisibleStep ==
  ASSUME TypeInv, QueueOnce, VisibleIsFresh, [Next]_vars PROVE (QueueOnce /\ VisibleIsFresh)'
<1> USE ReqAssumption, IdSpaceAssumption DEF TypeInv, TypeOK, RunHasBatch, Ids, BodyStates, Replies, QueueOnce, VisibleIsFresh, Early
<1>1. ASSUME NEW r \in Req, NextReqId(r) PROVE (QueueOnce /\ VisibleIsFresh)'
  BY <1>1 DEF NextReqId, taskVars, jsVars, Entry
<1>2. ASSUME NEW r \in Req, InsertPending(r) PROVE (QueueOnce /\ VisibleIsFresh)'
  <2>1. CASE Entry(r) = NoReq
    BY <1>2, <2>1 DEF InsertPending, jsVars, Entry
  <2>2. CASE Entry(r) # NoReq
    BY <1>2, <2>2, InsertFacts DEF InsertPending, jsVars, Entry
  <2> QED BY <2>1, <2>2
<1>3. ASSUME NEW r \in Req, Push(r) PROVE (QueueOnce /\ VisibleIsFresh)'
  <2>1. /\ pc[r] = "push" /\ queue' = Append(queue, r) /\ UNCHANGED <<batch, handler>>
        /\ \A q \in Req : q # r => pc'[q] = pc[q]
        /\ pc'[r] \in {"ring", "wait"}
    BY <1>3 DEF Push, jsVars
  <2>2. handler[r] = "none"
    BY <2>1
  <2>3. /\ queue \in Seq(Req) /\ Len(queue') = Len(queue) + 1 /\ queue'[Len(queue) + 1] = r
        /\ \A i \in 1 .. Len(queue) : queue'[i] = queue[i] /\ queue[i] \in Req /\ queue[i] # r
        /\ \A i \in 1 .. Len(batch) : batch[i] \in Req /\ batch[i] # r
    BY <2>1
  <2>4. QueueOnce'
    BY <2>1, <2>3
  <2>5. VisibleIsFresh'
    BY <2>1, <2>2, <2>3
  <2> QED BY <2>4, <2>5
<1>4. ASSUME NEW r \in Req, Ring(r) PROVE (QueueOnce /\ VisibleIsFresh)'
  BY <1>4 DEF Ring, taskVars, jsVars, Entry
<1>5. ASSUME NEW r \in Req, Finish(r) PROVE (QueueOnce /\ VisibleIsFresh)'
  BY <1>5 DEF Finish, taskVars, jsVars, Entry
<1>6. ASSUME NEW r \in Req, Disconnect(r) PROVE (QueueOnce /\ VisibleIsFresh)'
  BY <1>6 DEF Disconnect, taskVars, jsVars, Entry
<1>7. ASSUME NEW r \in Req, Dispatch(r) PROVE (QueueOnce /\ VisibleIsFresh)'
  <2>0. DispatchFacts(r)
    BY <1>7, DispatchEffect
  <2>a. handler[r] = "none" /\ pc[r] \notin Early
    BY <2>0 DEF DispatchFacts
  <2>2. /\ \A i \in 1 .. Len(batch') : batch'[i] = batch[i + 1] /\ i + 1 \in 1 .. Len(batch)
        /\ 1 \in 1 .. Len(batch) /\ r = batch[1]
        /\ UNCHANGED <<pc, queue>> /\ Len(batch') \in Nat
        /\ \A q \in Req : q # r => handler'[q] = handler[q]
    BY <2>0 DEF DispatchFacts
  <2>1. QueueOnce'
    <3>1. ASSUME NEW i \in 1 .. Len(batch'), NEW j \in 1 .. Len(batch'),
                 batch'[i] = batch'[j]
          PROVE  i = j
      <4>1. i + 1 = j + 1
        BY <2>2, <3>1
      <4> QED BY <2>2, <4>1
    <3>2. ASSUME NEW i \in 1 .. Len(queue), NEW j \in 1 .. Len(batch')
          PROVE  queue[i] # batch'[j]
      BY <2>2
    <3> QED BY <2>2, <3>1, <3>2
  <2>3. /\ \A i \in 1 .. Len(batch') : batch'[i] # r /\ batch'[i] \in Req
        /\ \A i \in 1 .. Len(queue) : queue[i] # r /\ queue[i] \in Req
    <3>1. ASSUME NEW i \in 1 .. Len(batch') PROVE batch'[i] # r /\ batch'[i] \in Req
      <4>1. batch'[i] = batch[i + 1] /\ i + 1 \in 1 .. Len(batch) /\ i + 1 # 1
        BY <2>2
      <4> QED BY <2>2, <4>1
    <3> QED BY <2>2, <3>1
  <2>5. VisibleIsFresh'
    <3>1. ASSUME NEW i \in 1 .. Len(batch')
          PROVE  handler'[batch'[i]] = "none" /\ pc[batch'[i]] \notin Early
      <4>1. batch'[i] = batch[i + 1] /\ i + 1 \in 1 .. Len(batch)
        BY <2>2
      <4>2. handler'[batch'[i]] = handler[batch'[i]]
        BY <2>2, <2>3
      <4> QED BY <4>1, <4>2
    <3>2. ASSUME NEW i \in 1 .. Len(queue)
          PROVE  handler'[queue[i]] = "none"
      BY <2>2, <2>3
    <3>3. \A q \in Req : pc[q] \in Early => handler'[q] = "none"
      BY <2>a, <2>2
    <3> QED BY <2>2, <3>1, <3>2, <3>3
  <2> QED BY <2>1, <2>5
<1>8. ASSUME NEW r \in Req, UseBody(r) PROVE (QueueOnce /\ VisibleIsFresh)'
  BY <1>8 DEF UseBody, CanTake, taskVars, jsVars, Entry
<1>9. ASSUME NEW r \in Req, RespondFull(r) PROVE (QueueOnce /\ VisibleIsFresh)'
  <2>1. FullFacts(r)
    BY <1>9, RespondFullEffect
  <2> QED BY <2>1 DEF FullFacts, EndFacts, Entry
<1>10. ASSUME NEW r \in Req, RespondStream(r) PROVE (QueueOnce /\ VisibleIsFresh)'
  <2>1. StreamFacts(r)
    BY <1>10, RespondStreamEffect
  <2> QED BY <2>1 DEF StreamFacts, EndFacts, Entry
<1>11. ASSUME NEW r \in Req, AbortSeen(r) PROVE (QueueOnce /\ VisibleIsFresh)'
  BY <1>11 DEF AbortSeen, taskVars, jsVars, Entry
<1>12. CASE Wake
  BY <1>12 DEF Wake, taskVars, jsVars, Entry
<1>13. CASE TakeBatch
  <2>1. CASE active /\ queue # <<>>
    BY <1>13, <2>1 DEF TakeBatch, Entry, taskVars
  <2>2. CASE ~(active /\ queue # <<>>)
    BY <1>13, <2>2 DEF TakeBatch, Entry, taskVars
  <2> QED BY <2>1, <2>2
<1>14. CASE Close
  BY <1>14 DEF Close, taskVars, jsVars, Entry
<1>15. CASE UNCHANGED vars
  <2>1. pc' = pc /\ queue' = queue /\ batch' = batch /\ handler' = handler
    BY <1>15 DEF vars
  <2> HIDE DEF TypeInv, TypeOK
  <2>2. QueueOnce'
    BY <2>1
  <2>3. VisibleIsFresh'
    BY <2>1
  <2> QED BY <2>2, <2>3
<1> QED
  BY <1>1, <1>2, <1>3, <1>4, <1>5, <1>6, <1>7, <1>8, <1>9, <1>10, <1>11, <1>12, <1>13, <1>14, <1>15 DEF Next, Task, Script, Quiet

\* The handler that ends takes its entry with it.
LEMMA LeakStep ==
  ASSUME TypeInv, TicketsMatch, VisibleIsFresh, NoPendingLeak, [Next]_vars PROVE NoPendingLeak'
<1> USE ReqAssumption, IdSpaceAssumption DEF TypeInv, TypeOK, RunHasBatch, Ids, BodyStates, Replies, TicketsMatch, VisibleIsFresh, Early, NoPendingLeak
<1>1. ASSUME NEW r \in Req, NextReqId(r) PROVE NoPendingLeak'
  BY <1>1 DEF NextReqId, taskVars, jsVars, Entry
<1>2. ASSUME NEW r \in Req, InsertPending(r) PROVE NoPendingLeak'
  <2>1. CASE Entry(r) = NoReq
    BY <1>2, <2>1 DEF InsertPending, jsVars, Entry
  <2>2. CASE Entry(r) # NoReq
    BY <1>2, <2>2, InsertFacts DEF InsertPending, jsVars, Entry
  <2> QED BY <2>1, <2>2
<1>3. ASSUME NEW r \in Req, Push(r) PROVE NoPendingLeak'
  BY <1>3 DEF Push, taskVars, jsVars, Entry
<1>4. ASSUME NEW r \in Req, Ring(r) PROVE NoPendingLeak'
  BY <1>4 DEF Ring, taskVars, jsVars, Entry
<1>5. ASSUME NEW r \in Req, Finish(r) PROVE NoPendingLeak'
  BY <1>5 DEF Finish, taskVars, jsVars, Entry
<1>6. ASSUME NEW r \in Req, Disconnect(r) PROVE NoPendingLeak'
  BY <1>6 DEF Disconnect, taskVars, jsVars, Entry
<1>7. ASSUME NEW r \in Req, Dispatch(r) PROVE NoPendingLeak'
  <2>0. DispatchFacts(r)
    BY <1>7, DispatchEffect
  <2>1. CASE StartPlain(r)
    BY <2>0, <2>1 DEF DispatchFacts, StartPlain, Entry
  <2>2. CASE StartWatched(r)
    BY <2>0, <2>2 DEF DispatchFacts, StartWatched, Entry, CanTake
  <2>3. CASE StartThrows(r)
    BY <2>0, <2>3 DEF DispatchFacts, StartThrows, EndFacts, Entry, CanTake
  <2> QED BY <2>0, <2>1, <2>2, <2>3 DEF DispatchFacts
<1>8. ASSUME NEW r \in Req, UseBody(r) PROVE NoPendingLeak'
  BY <1>8 DEF UseBody, CanTake, taskVars, jsVars, Entry
<1>9. ASSUME NEW r \in Req, RespondFull(r) PROVE NoPendingLeak'
  <2>1. FullFacts(r)
    BY <1>9, RespondFullEffect
  <2> QED BY <2>1 DEF FullFacts, EndFacts, Entry
<1>10. ASSUME NEW r \in Req, RespondStream(r) PROVE NoPendingLeak'
  <2>1. StreamFacts(r)
    BY <1>10, RespondStreamEffect
  <2> QED BY <2>1 DEF StreamFacts, EndFacts, Entry
<1>11. ASSUME NEW r \in Req, AbortSeen(r) PROVE NoPendingLeak'
  BY <1>11 DEF AbortSeen, taskVars, jsVars, Entry
<1>12. CASE Wake
  BY <1>12 DEF Wake, taskVars, jsVars, Entry
<1>13. CASE TakeBatch
  <2>1. CASE active /\ queue # <<>>
    BY <1>13, <2>1 DEF TakeBatch, Entry, taskVars
  <2>2. CASE ~(active /\ queue # <<>>)
    BY <1>13, <2>2 DEF TakeBatch, Entry, taskVars
  <2> QED BY <2>1, <2>2
<1>14. CASE Close
  BY <1>14 DEF Close, taskVars, jsVars, Entry
<1>15. CASE UNCHANGED vars
  BY <1>15 DEF vars, Entry
<1> QED
  BY <1>1, <1>2, <1>3, <1>4, <1>5, <1>6, <1>7, <1>8, <1>9, <1>10, <1>11, <1>12, <1>13, <1>14, <1>15 DEF Next, Task, Script, Quiet

\* A request keeps its entry until its handler answers.
LEMMA EntryStep ==
  ASSUME TypeInv, VisibleIsFresh, OwnsEntry, [Next]_vars PROVE OwnsEntry'
<1> USE ReqAssumption, IdSpaceAssumption DEF TypeInv, TypeOK, RunHasBatch, Ids, BodyStates, Replies, VisibleIsFresh, Early, OwnsEntry
<1>1. ASSUME NEW r \in Req, NextReqId(r) PROVE OwnsEntry'
  BY <1>1 DEF NextReqId, taskVars, jsVars, Entry
<1>2. ASSUME NEW r \in Req, InsertPending(r) PROVE OwnsEntry'
  <2>1. CASE Entry(r) = NoReq
    BY <1>2, <2>1 DEF InsertPending, jsVars, Entry
  <2>2. CASE Entry(r) # NoReq
    BY <1>2, <2>2, InsertFacts DEF InsertPending, jsVars, Entry
  <2> QED BY <2>1, <2>2
<1>3. ASSUME NEW r \in Req, Push(r) PROVE OwnsEntry'
  BY <1>3 DEF Push, taskVars, jsVars, Entry
<1>4. ASSUME NEW r \in Req, Ring(r) PROVE OwnsEntry'
  BY <1>4 DEF Ring, taskVars, jsVars, Entry
<1>5. ASSUME NEW r \in Req, Finish(r) PROVE OwnsEntry'
  BY <1>5 DEF Finish, taskVars, jsVars, Entry
<1>6. ASSUME NEW r \in Req, Disconnect(r) PROVE OwnsEntry'
  BY <1>6 DEF Disconnect, taskVars, jsVars, Entry
<1>7. ASSUME NEW r \in Req, Dispatch(r) PROVE OwnsEntry'
  <2>0. DispatchFacts(r)
    BY <1>7, DispatchEffect
  <2>a. handler[r] = "none" /\ pc[r] \notin Early
    BY <2>0 DEF DispatchFacts
  <2> SUFFICES ASSUME ~lapped, NEW q \in Req, pc[q] \notin {"new", "insert"},
                      handler'[q] # "done"
               PROVE  pending'[reqId[q]] = q
    BY <2>0 DEF DispatchFacts, Entry
  <2>c. handler[q] # "done"
    BY <2>0, <2>a DEF DispatchFacts
  <2>1. Entry(r) = r /\ Entry(q) = q
    BY <2>a, <2>c, OwnsOwnEntry
  <2>2. CASE UNCHANGED pending
    BY <2>1, <2>2 DEF Entry
  <2>3. CASE StartThrows(r)
    BY <2>1, <2>3 DEF StartThrows, EndFacts, Entry
  <2> QED BY <2>0, <2>2, <2>3 DEF DispatchFacts, StartPlain, StartWatched
<1>8. ASSUME NEW r \in Req, UseBody(r) PROVE OwnsEntry'
  BY <1>8 DEF UseBody, CanTake, taskVars, jsVars, Entry
<1>9. ASSUME NEW r \in Req, RespondFull(r) PROVE OwnsEntry'
  <2>1. FullFacts(r)
    BY <1>9, RespondFullEffect
  <2> SUFFICES ASSUME ~lapped, NEW q \in Req, pc[q] \notin {"new", "insert"},
                      q # r, handler[q] # "done"
               PROVE  pending'[reqId[q]] = q
    BY <2>1 DEF FullFacts, Entry
  <2>2. Entry(r) = r /\ Entry(q) = q
    BY <2>1, OwnsOwnEntry DEF FullFacts
  <2> QED BY <2>1, <2>2 DEF FullFacts, EndFacts, Entry
<1>10. ASSUME NEW r \in Req, RespondStream(r) PROVE OwnsEntry'
  <2>1. StreamFacts(r)
    BY <1>10, RespondStreamEffect
  <2> SUFFICES ASSUME ~lapped, NEW q \in Req, pc[q] \notin {"new", "insert"},
                      q # r, handler[q] # "done"
               PROVE  pending'[reqId[q]] = q
    BY <2>1 DEF StreamFacts, Entry
  <2>2. Entry(r) = r /\ Entry(q) = q
    BY <2>1, OwnsOwnEntry DEF StreamFacts
  <2> QED BY <2>1, <2>2 DEF StreamFacts, EndFacts, Entry
<1>11. ASSUME NEW r \in Req, AbortSeen(r) PROVE OwnsEntry'
  BY <1>11 DEF AbortSeen, taskVars, jsVars, Entry
<1>12. CASE Wake
  BY <1>12 DEF Wake, taskVars, jsVars, Entry
<1>13. CASE TakeBatch
  <2>1. CASE active /\ queue # <<>>
    BY <1>13, <2>1 DEF TakeBatch, Entry, taskVars
  <2>2. CASE ~(active /\ queue # <<>>)
    BY <1>13, <2>2 DEF TakeBatch, Entry, taskVars
  <2> QED BY <2>1, <2>2
<1>14. CASE Close
  BY <1>14 DEF Close, taskVars, jsVars, Entry
<1>15. CASE UNCHANGED vars
  BY <1>15 DEF vars, Entry
<1> QED
  BY <1>1, <1>2, <1>3, <1>4, <1>5, <1>6, <1>7, <1>8, <1>9, <1>10, <1>11, <1>12, <1>13, <1>14, <1>15 DEF Next, Task, Script, Quiet

\* A BodyIo is built from the parts of the request that asks for it.
LEMMA BodyStep ==
  ASSUME TypeInv, VisibleIsFresh, OwnsEntry, OwnsBody, [Next]_vars PROVE OwnsBody'
<1> USE ReqAssumption, IdSpaceAssumption DEF TypeInv, TypeOK, RunHasBatch, Ids, BodyStates, Replies, VisibleIsFresh, Early, OwnsEntry, OwnsBody
<1>1. ASSUME NEW r \in Req, NextReqId(r) PROVE OwnsBody'
  BY <1>1 DEF NextReqId, taskVars, jsVars, Entry
<1>2. ASSUME NEW r \in Req, InsertPending(r) PROVE OwnsBody'
  <2>1. CASE Entry(r) = NoReq
    BY <1>2, <2>1 DEF InsertPending, jsVars, Entry
  <2>2. CASE Entry(r) # NoReq
    BY <1>2, <2>2, InsertFacts DEF InsertPending, jsVars, Entry
  <2> QED BY <2>1, <2>2
<1>3. ASSUME NEW r \in Req, Push(r) PROVE OwnsBody'
  BY <1>3 DEF Push, taskVars, jsVars, Entry
<1>4. ASSUME NEW r \in Req, Ring(r) PROVE OwnsBody'
  BY <1>4 DEF Ring, taskVars, jsVars, Entry
<1>5. ASSUME NEW r \in Req, Finish(r) PROVE OwnsBody'
  BY <1>5 DEF Finish, taskVars, jsVars, Entry
<1>6. ASSUME NEW r \in Req, Disconnect(r) PROVE OwnsBody'
  BY <1>6 DEF Disconnect, taskVars, jsVars, Entry
<1>7. ASSUME NEW r \in Req, Dispatch(r) PROVE OwnsBody'
  <2>0. DispatchFacts(r)
    BY <1>7, DispatchEffect
  <2>a. handler[r] = "none" /\ pc[r] \notin Early
    BY <2>0 DEF DispatchFacts
  <2> SUFFICES ASSUME ~lapped PROVE OwnsBody'
    BY <2>0 DEF DispatchFacts
  <2>b. Entry(r) = r
    BY <2>a, OwnsOwnEntry
  <2>1. CASE StartPlain(r)
    BY <2>0, <2>1 DEF DispatchFacts, StartPlain
  <2>2. CASE StartWatched(r)
    BY <2>0, <2>2, <2>b DEF DispatchFacts, StartWatched
  <2>3. CASE StartThrows(r)
    <3>1. /\ \A q \in Req : q # r => body'[q] = body[q]
          /\ \A q \in Req : q # r => handler'[q] = handler[q]
          /\ handler'[r] = "done" /\ io[r] = NoReq /\ UNCHANGED <<io, watch, strays>>
      BY <2>0, <2>3, <2>a, <2>b DEF StartThrows, EndFacts, DispatchFacts
    <3>2. ASSUME NEW q \in Req
          PROVE  /\ io'[q] \in {NoReq, q} \/ (handler'[q] = "done" /\ io'[q] \in strays')
                 /\ handler'[q] = "none" => io'[q] = NoReq
                 /\ io'[q] = q => body'[q] = "taken"
                 /\ handler'[q] # "done" /\ io'[q] = NoReq => body'[q] = "parts" \/ q \in strays'
                 /\ watch'[q] = "waiting" => io'[q] = q
      <4>1. CASE q # r
        BY <3>1, <4>1
      <4>2. CASE q = r
        BY <3>1, <4>2
      <4> QED BY <4>1, <4>2
    <3> QED BY <3>2
  <2> QED BY <2>0, <2>1, <2>2, <2>3 DEF DispatchFacts
<1>8. ASSUME NEW r \in Req, UseBody(r) PROVE OwnsBody'
  <2> SUFFICES ASSUME ~lapped PROVE OwnsBody'
    BY <1>8 DEF UseBody
  <2>1. CASE handler[r] = "running"
    <3>1. Entry(r) = r
      BY <2>1, OwnsOwnEntry
    <3>2. /\ io' = [io EXCEPT ![r] = r] /\ body' = [body EXCEPT ![r] = "taken"]
          /\ UNCHANGED <<handler, watch, lapped, strays>>
      BY <1>8, <2>1, <3>1 DEF UseBody
    <3> QED BY <2>1, <3>2
  <2>2. CASE handler[r] = "done"
    <3>1. Entry(r) \in Req /\ body[Entry(r)] = "parts"
      BY <1>8 DEF UseBody, CanTake, Entry
    <3>2. /\ io' = [io EXCEPT ![r] = Entry(r)] /\ body' = [body EXCEPT ![Entry(r)] = "taken"]
          /\ strays' = strays \union {Entry(r)} /\ io[r] = NoReq
          /\ UNCHANGED <<handler, watch, lapped>>
      BY <1>8, <2>2 DEF UseBody
    <3> QED BY <2>2, <3>1, <3>2
  <2> QED BY <1>8, <2>1, <2>2 DEF UseBody
<1>9. ASSUME NEW r \in Req, RespondFull(r) PROVE OwnsBody'
  <2>1. FullFacts(r)
    BY <1>9, RespondFullEffect
  <2> QED BY <2>1 DEF FullFacts, EndFacts, Entry
<1>10. ASSUME NEW r \in Req, RespondStream(r) PROVE OwnsBody'
  <2>1. StreamFacts(r)
    BY <1>10, RespondStreamEffect
  <2> QED BY <2>1 DEF StreamFacts, EndFacts, Entry
<1>11. ASSUME NEW r \in Req, AbortSeen(r) PROVE OwnsBody'
  BY <1>11 DEF AbortSeen, taskVars, jsVars, Entry
<1>12. CASE Wake
  BY <1>12 DEF Wake, taskVars, jsVars, Entry
<1>13. CASE TakeBatch
  <2>1. CASE active /\ queue # <<>>
    BY <1>13, <2>1 DEF TakeBatch, Entry, taskVars
  <2>2. CASE ~(active /\ queue # <<>>)
    BY <1>13, <2>2 DEF TakeBatch, Entry, taskVars
  <2> QED BY <2>1, <2>2
<1>14. CASE Close
  BY <1>14 DEF Close, taskVars, jsVars, Entry
<1>15. CASE UNCHANGED vars
  BY <1>15 DEF vars, Entry
<1> QED
  BY <1>1, <1>2, <1>3, <1>4, <1>5, <1>6, <1>7, <1>8, <1>9, <1>10, <1>11, <1>12, <1>13, <1>14, <1>15 DEF Next, Task, Script, Quiet

\* An answer goes to the request whose handler gave it.
LEMMA ReplyStep ==
  ASSUME TypeInv, VisibleIsFresh, OwnsEntry, OwnsBody, OwnsReply, [Next]_vars PROVE OwnsReply'
<1> USE ReqAssumption, IdSpaceAssumption DEF TypeInv, TypeOK, RunHasBatch, Ids, BodyStates, Replies, VisibleIsFresh, Early, OwnsEntry, OwnsBody, OwnsReply
<1>1. ASSUME NEW r \in Req, NextReqId(r) PROVE OwnsReply'
  BY <1>1 DEF NextReqId, taskVars, jsVars, Entry
<1>2. ASSUME NEW r \in Req, InsertPending(r) PROVE OwnsReply'
  <2>1. CASE Entry(r) = NoReq
    BY <1>2, <2>1 DEF InsertPending, jsVars, Entry
  <2>2. CASE Entry(r) # NoReq
    BY <1>2, <2>2, InsertFacts DEF InsertPending, jsVars, Entry
  <2> QED BY <2>1, <2>2
<1>3. ASSUME NEW r \in Req, Push(r) PROVE OwnsReply'
  BY <1>3 DEF Push, taskVars, jsVars, Entry
<1>4. ASSUME NEW r \in Req, Ring(r) PROVE OwnsReply'
  BY <1>4 DEF Ring, taskVars, jsVars, Entry
<1>5. ASSUME NEW r \in Req, Finish(r) PROVE OwnsReply'
  BY <1>5 DEF Finish, taskVars, jsVars, Entry
<1>6. ASSUME NEW r \in Req, Disconnect(r) PROVE OwnsReply'
  BY <1>6 DEF Disconnect, taskVars, jsVars, Entry
<1>7. ASSUME NEW r \in Req, Dispatch(r) PROVE OwnsReply'
  <2>0. DispatchFacts(r)
    BY <1>7, DispatchEffect
  <2>a. handler[r] = "none" /\ pc[r] \notin Early
    BY <2>0 DEF DispatchFacts
  <2> SUFFICES ASSUME ~lapped PROVE OwnsReply'
    BY <2>0 DEF DispatchFacts
  <2>b. Entry(r) = r
    BY <2>a, OwnsOwnEntry
  <2>1. CASE StartPlain(r)
    BY <2>0, <2>1 DEF DispatchFacts, StartPlain
  <2>2. CASE StartWatched(r)
    BY <2>0, <2>2, <2>b DEF DispatchFacts, StartWatched
  <2>3. CASE StartThrows(r)
    <3>1. /\ \A q \in Req : q # r => reply'[q] = reply[q]
          /\ \A q \in Req : q # r => handler'[q] = handler[q]
          /\ \/ reply'[r] = reply[r]
             \/ reply'[r].st = "sent" /\ reply'[r].by = r /\ reply'[r].streamed = FALSE
          /\ handler'[r] = "done" /\ UNCHANGED io
      BY <2>3, <2>b DEF StartThrows, EndFacts
    <3>2. ASSUME NEW q \in Req
          PROVE  /\ reply'[q].by \in {NoReq, q} /\ reply'[q].st # "closed"
                 /\ handler'[q] # "done" => reply'[q].st = "open"
                 /\ reply'[q].streamed => io'[q] = q
      <4>1. CASE q # r
        BY <3>1, <4>1
      <4>2. CASE q = r
        BY <3>1, <4>2
      <4> QED BY <4>1, <4>2
    <3> QED BY <3>2
  <2> QED BY <2>0, <2>1, <2>2, <2>3 DEF DispatchFacts
<1>8. ASSUME NEW r \in Req, UseBody(r) PROVE OwnsReply'
  BY <1>8 DEF UseBody, CanTake, taskVars, jsVars, Entry
<1>9. ASSUME NEW r \in Req, RespondFull(r) PROVE OwnsReply'
  <2>1. FullFacts(r)
    BY <1>9, RespondFullEffect
  <2> SUFFICES ASSUME ~lapped, NEW q \in Req
               PROVE  /\ reply'[q].by \in {NoReq, q} /\ reply'[q].st # "closed"
                      /\ handler'[q] # "done" => reply'[q].st = "open"
                      /\ reply'[q].streamed => io'[q] = q
    BY <2>1 DEF FullFacts
  <2>2. Entry(r) = r
    BY <2>1, OwnsOwnEntry DEF FullFacts
  <2>3. CASE q # r
    BY <2>1, <2>2, <2>3 DEF FullFacts, EndFacts
  <2>4. CASE q = r
    BY <2>1, <2>2, <2>4 DEF FullFacts, EndFacts
  <2> QED BY <2>3, <2>4
<1>10. ASSUME NEW r \in Req, RespondStream(r) PROVE OwnsReply'
  <2>1. StreamFacts(r)
    BY <1>10, RespondStreamEffect
  <2> SUFFICES ASSUME ~lapped, NEW q \in Req
               PROVE  /\ reply'[q].by \in {NoReq, q} /\ reply'[q].st # "closed"
                      /\ handler'[q] # "done" => reply'[q].st = "open"
                      /\ reply'[q].streamed => io'[q] = q
    BY <2>1 DEF StreamFacts
  <2>2. Entry(r) = r
    BY <2>1, OwnsOwnEntry DEF StreamFacts
  <2>3. CASE q # r
    BY <2>1, <2>2, <2>3 DEF StreamFacts, EndFacts
  <2>4. CASE q = r
    BY <2>1, <2>2, <2>4 DEF StreamFacts, EndFacts
  <2> QED BY <2>3, <2>4
<1>11. ASSUME NEW r \in Req, AbortSeen(r) PROVE OwnsReply'
  BY <1>11 DEF AbortSeen, taskVars, jsVars, Entry
<1>12. CASE Wake
  BY <1>12 DEF Wake, taskVars, jsVars, Entry
<1>13. CASE TakeBatch
  <2>1. CASE active /\ queue # <<>>
    BY <1>13, <2>1 DEF TakeBatch, Entry, taskVars
  <2>2. CASE ~(active /\ queue # <<>>)
    BY <1>13, <2>2 DEF TakeBatch, Entry, taskVars
  <2> QED BY <2>1, <2>2
<1>14. CASE Close
  BY <1>14 DEF Close, taskVars, jsVars, Entry
<1>15. CASE UNCHANGED vars
  BY <1>15 DEF vars, Entry
<1> QED
  BY <1>1, <1>2, <1>3, <1>4, <1>5, <1>6, <1>7, <1>8, <1>9, <1>10, <1>11, <1>12, <1>13, <1>14, <1>15 DEF Next, Task, Script, Quiet

\* Only a dropped future is reported as an abort.
LEMMA SignalStep ==
  ASSUME TypeInv, OwnsBody, SignalTruth, [Next]_vars PROVE SignalTruth'
<1> USE ReqAssumption, IdSpaceAssumption DEF TypeInv, TypeOK, RunHasBatch, Ids, BodyStates, Replies, OwnsBody, SignalTruth
<1>1. ASSUME NEW r \in Req, NextReqId(r) PROVE SignalTruth'
  BY <1>1 DEF NextReqId, taskVars, jsVars, Entry
<1>2. ASSUME NEW r \in Req, InsertPending(r) PROVE SignalTruth'
  <2>1. CASE Entry(r) = NoReq
    BY <1>2, <2>1 DEF InsertPending, jsVars, Entry
  <2>2. CASE Entry(r) # NoReq
    BY <1>2, <2>2, InsertFacts DEF InsertPending, jsVars, Entry
  <2> QED BY <2>1, <2>2
<1>3. ASSUME NEW r \in Req, Push(r) PROVE SignalTruth'
  BY <1>3 DEF Push, taskVars, jsVars, Entry
<1>4. ASSUME NEW r \in Req, Ring(r) PROVE SignalTruth'
  BY <1>4 DEF Ring, taskVars, jsVars, Entry
<1>5. ASSUME NEW r \in Req, Finish(r) PROVE SignalTruth'
  BY <1>5 DEF Finish, taskVars, jsVars, Entry
<1>6. ASSUME NEW r \in Req, Disconnect(r) PROVE SignalTruth'
  BY <1>6 DEF Disconnect, taskVars, jsVars, Entry
<1>7. ASSUME NEW r \in Req, Dispatch(r) PROVE SignalTruth'
  <2>0. DispatchFacts(r)
    BY <1>7, DispatchEffect
  <2>1. CASE StartPlain(r)
    BY <2>0, <2>1 DEF DispatchFacts, StartPlain, Entry
  <2>2. CASE StartWatched(r)
    BY <2>0, <2>2 DEF DispatchFacts, StartWatched, Entry, CanTake
  <2>3. CASE StartThrows(r)
    BY <2>0, <2>3 DEF DispatchFacts, StartThrows, EndFacts, Entry, CanTake
  <2> QED BY <2>0, <2>1, <2>2, <2>3 DEF DispatchFacts
<1>8. ASSUME NEW r \in Req, UseBody(r) PROVE SignalTruth'
  BY <1>8 DEF UseBody, CanTake, taskVars, jsVars, Entry
<1>9. ASSUME NEW r \in Req, RespondFull(r) PROVE SignalTruth'
  <2>1. FullFacts(r)
    BY <1>9, RespondFullEffect
  <2> QED BY <2>1 DEF FullFacts, EndFacts, Entry
<1>10. ASSUME NEW r \in Req, RespondStream(r) PROVE SignalTruth'
  <2>1. StreamFacts(r)
    BY <1>10, RespondStreamEffect
  <2> QED BY <2>1 DEF StreamFacts, EndFacts, Entry
<1>11. ASSUME NEW r \in Req, AbortSeen(r) PROVE SignalTruth'
  BY <1>11 DEF AbortSeen, taskVars, jsVars, Entry
<1>12. CASE Wake
  BY <1>12 DEF Wake, taskVars, jsVars, Entry
<1>13. CASE TakeBatch
  <2>1. CASE active /\ queue # <<>>
    BY <1>13, <2>1 DEF TakeBatch, Entry, taskVars
  <2>2. CASE ~(active /\ queue # <<>>)
    BY <1>13, <2>2 DEF TakeBatch, Entry, taskVars
  <2> QED BY <2>1, <2>2
<1>14. CASE Close
  BY <1>14 DEF Close, taskVars, jsVars, Entry
<1>15. CASE UNCHANGED vars
  BY <1>15 DEF vars, Entry
<1> QED
  BY <1>1, <1>2, <1>3, <1>4, <1>5, <1>6, <1>7, <1>8, <1>9, <1>10, <1>11, <1>12, <1>13, <1>14, <1>15 DEF Next, Task, Script, Quiet

-----------------------------------------------------------------------------
(* The theorems.                                                           *)

\* The invariant holds initially.
LEMMA InitInv == Init => IInv
<1> SUFFICES ASSUME Init PROVE IInv
  OBVIOUS
<1> USE ReqAssumption, IdSpaceAssumption DEF Init
<1>1. TypeInv
  <2>1. NoReply \in Replies /\ 0 \in Ids /\ <<>> \in Seq(Req)
    BY DEF NoReply, Replies, Ids
  <2> QED BY <2>1 DEF TypeInv, TypeOK, RunHasBatch, Replies
<1>2. NoLostWakeup /\ NoPendingLeak /\ TicketsMatch
  BY DEF NoLostWakeup, NoPendingLeak, TicketsMatch, Ids
<1>3. QueueOnce /\ VisibleIsFresh
  BY DEF QueueOnce, VisibleIsFresh, Early
<1>4. OwnsEntry /\ OwnsBody /\ OwnsReply /\ SignalTruth
  BY DEF OwnsEntry, OwnsBody, OwnsReply, SignalTruth, NoReply
<1> QED BY <1>1, <1>2, <1>3, <1>4 DEF IInv

\* Every step preserves it.
LEMMA NextInv == IInv /\ [Next]_vars => IInv'
<1> SUFFICES ASSUME IInv, [Next]_vars PROVE IInv'
  OBVIOUS
<1>1. TypeInv' /\ NoLostWakeup' /\ TicketsMatch' /\ (QueueOnce /\ VisibleIsFresh)'
  BY TypeStep, WakeupStep, TicketsStep, VisibleStep DEF IInv
<1>2. NoPendingLeak' /\ OwnsEntry' /\ OwnsBody' /\ OwnsReply' /\ SignalTruth'
  BY LeakStep, EntryStep, BodyStep, ReplyStep, SignalStep DEF IInv
<1> QED BY <1>1, <1>2 DEF IInv

\* The invariant holds in every reachable state.
THEOREM Invariance == Spec => []IInv
BY InitInv, NextInv, PTL DEF Spec

\* Every variable of the bridge keeps its type (bridge.rs, server.rs dispatch,
\* index.ts #drainBatch/#handleRequest).
THEOREM TypeCorrect == Spec => []TypeOK
<1>1. IInv => TypeOK
  BY DEF IInv, TypeInv
<1> QED BY <1>1, Invariance, PTL

\* The doorbell protocol of enqueue()/takeBatch() loses no wakeup, for any
\* number of connection tasks.
THEOREM WakeupNeverLost == Spec => []NoLostWakeup
<1>1. IInv => NoLostWakeup
  BY DEF IInv
<1> QED BY <1>1, Invariance, PTL

\* What JS sees in the queue is registered, owns its body unless a late takeBody
\* took it, and is new.
THEOREM VisibleRegistered == Spec => []VisibleIsRegistered
<1>1. IInv => VisibleIsRegistered
  <2> SUFFICES ASSUME IInv, ~lapped, NEW r \in Req,
                      \/ \E i \in 1 .. Len(queue) : queue[i] = r
                      \/ \E i \in 1 .. Len(batch) : batch[i] = r
               PROVE  /\ Entry(r) = r /\ handler[r] = "none"
                      /\ body[r] = "parts" \/ r \in strays
    BY DEF VisibleIsRegistered
  <2>1. handler[r] = "none" /\ pc[r] \notin Early
    BY DEF IInv, VisibleIsFresh
  <2>2. Entry(r) = r
    BY <2>1, OwnsOwnEntry DEF IInv
  <2>3. body[r] = "parts" \/ r \in strays
    BY <2>1 DEF IInv, OwnsBody
  <2> QED BY <2>1, <2>2, <2>3
<1> QED BY <1>1, Invariance, PTL

\* respond() never mixes up two requests while tickets are not lapped, and
\* takeBody() only for a handler that calls it after its answer, for any width of
\* the ticket counter.
THEOREM ResponsesStayApart == Spec => []NoCrossTalk
<1>1. IInv => NoCrossTalk
  BY DEF IInv, NoCrossTalk, OwnsReply, OwnsBody
<1> QED BY <1>1, Invariance, PTL

\* A streamed response reaches hyper with the writer of its own body alive, for
\* any width of the ticket counter.
THEOREM StreamsHaveWriters == Spec => []StreamHasWriter
<1>1. IInv => StreamHasWriter
  BY DEF IInv, StreamHasWriter, OwnsReply, OwnsBody
<1> QED BY <1>1, Invariance, PTL

\* onAbort runs only for requests whose client left.
THEOREM AbortsAreTrue == Spec => []NoFalseAbort
<1>1. IInv => NoFalseAbort
  BY DEF IInv, NoFalseAbort, SignalTruth
<1> QED BY <1>1, Invariance, PTL

\* While the server is open, the pending table holds no request whose handler is
\* over, also when its client had left before.
THEOREM TablesDoNotLeak == Spec => []NoPendingLeak
<1>1. IInv => NoPendingLeak
  BY DEF IInv
<1> QED BY <1>1, Invariance, PTL

-----------------------------------------------------------------------------
(* The refinement.                                                         *)

\* A step that leaves pc, reply and handler alone is a stuttering step.
LEMMA StutterStep ==
  ASSUME UNCHANGED <<pc, reply, handler, lapped>>
  PROVE  UNCHANGED Abstract!vars
BY DEF phaseBar, workBar, Abstract!vars

\* Every step of the bridge is a step of RequestReply or a stuttering step.
LEMMA Simulation ==
  ASSUME IInv, [Next]_vars PROVE [Abstract!Next]_(Abstract!vars)
<1> USE DEF Abstract!Next, Abstract!vars
<1> SUFFICES ASSUME ~lapped' PROVE [Abstract!Next]_(Abstract!vars)
  OBVIOUS
<1> USE ReqAssumption DEF IInv, TypeInv, TypeOK
<1>1. ASSUME NEW r \in Req, NextReqId(r) PROVE UNCHANGED Abstract!vars
  BY <1>1 DEF NextReqId, phaseBar, workBar
<1>2. ASSUME NEW r \in Req, InsertPending(r) PROVE UNCHANGED Abstract!vars
  <2>1. /\ pc[r] = "insert" /\ pc' = [pc EXCEPT ![r] = "push"]
        /\ UNCHANGED <<reply, handler, lapped>>
    BY <1>2 DEF InsertPending
  <2> QED BY <2>1 DEF phaseBar, workBar
<1>3. ASSUME NEW r \in Req, Push(r) PROVE Abstract!Submit(r)
  <2>1. pc[r] = "push" /\ ~lapped /\ UNCHANGED <<reply, handler, lapped>>
        /\ (pc' = [pc EXCEPT ![r] = "ring"] \/ pc' = [pc EXCEPT ![r] = "wait"])
    BY <1>3 DEF Push
  <2>2. reply[r].st = "open"
    BY <2>1 DEF OwnsReply, VisibleIsFresh, Early
  <2>3. phaseBar[r] = "new" /\ workBar' = workBar
    BY <2>1 DEF phaseBar, workBar
  <2>4. phaseBar' = [phaseBar EXCEPT ![r] = "open"]
    <3>1. pc'[r] \in {"ring", "wait"} /\ \A q \in Req : q # r => pc'[q] = pc[q]
      BY <2>1
    <3> QED BY <2>1, <2>2, <3>1 DEF phaseBar
  <2> QED BY <2>1, <2>3, <2>4 DEF Abstract!Submit
<1>4. ASSUME NEW r \in Req, Ring(r) PROVE UNCHANGED Abstract!vars
  BY <1>4 DEF Ring, phaseBar, workBar
<1>5. ASSUME NEW r \in Req, Finish(r) PROVE UNCHANGED Abstract!vars
  BY <1>5 DEF Finish, phaseBar, workBar
<1>6. ASSUME NEW r \in Req, Disconnect(r) PROVE Abstract!Leave(r)
  BY <1>6 DEF Disconnect, Abstract!Leave, phaseBar, workBar
<1>7. ASSUME NEW r \in Req, Dispatch(r)
      PROVE  Abstract!Start(r) \/ Abstract!Refuse(r) \/ Abstract!Discard(r)
  <2>0. DispatchFacts(r)
    BY <1>7, DispatchEffect
  <2>1. handler[r] = "none" /\ pc[r] \notin Early /\ ~lapped
        /\ UNCHANGED <<pc, lapped>>
    BY <2>0 DEF DispatchFacts, VisibleIsFresh
  <2>2. CASE StartPlain(r) \/ StartWatched(r)
    <3>1. handler' = [handler EXCEPT ![r] = "running"] /\ UNCHANGED reply
      BY <2>2 DEF StartPlain, StartWatched
    <3> QED BY <2>1, <3>1 DEF Abstract!Start, phaseBar, workBar, Early
  <2>3. CASE StartThrows(r)
    <3>1. Entry(r) = r /\ reply[r].st = "open"
      BY <2>1, OwnsOwnEntry DEF OwnsReply
    <3>2. handler' = [handler EXCEPT ![r] = "done"] /\ EndFacts(r, FALSE)
      BY <2>3 DEF StartThrows
    <3>3. /\ \A q \in Req : q # r => reply'[q] = reply[q]
          /\ reply'[r] = reply[r] \/ reply'[r].st = "sent"
      BY <3>1, <3>2 DEF EndFacts
    <3>4. workBar[r] = "none" /\ workBar' = [workBar EXCEPT ![r] = "finished"]
      BY <2>1, <3>2 DEF workBar
    <3>5. CASE reply'[r] = reply[r] \/ pc[r] = "dropped"
      <4>1. phaseBar' = phaseBar /\ phaseBar[r] # "new"
        BY <2>1, <3>3, <3>5 DEF phaseBar, Early
      <4> QED BY <2>1, <3>4, <4>1 DEF Abstract!Discard
    <3>6. CASE reply'[r].st = "sent" /\ pc[r] # "dropped"
      <4>1. phaseBar[r] = "open"
        BY <2>1, <3>1, <3>6 DEF phaseBar, Early
      <4>2. phaseBar' = [phaseBar EXCEPT ![r] = "answered"]
        BY <2>1, <3>3, <3>6 DEF phaseBar, Early
      <4> QED BY <2>1, <3>4, <4>1, <4>2 DEF Abstract!Refuse
    <3> QED BY <3>3, <3>5, <3>6
  <2> QED BY <2>0, <2>2, <2>3 DEF DispatchFacts
<1>8. ASSUME NEW r \in Req, UseBody(r) PROVE UNCHANGED Abstract!vars
  BY <1>8, StutterStep DEF UseBody, taskVars
<1>9. ASSUME NEW r \in Req, RespondFull(r) \/ RespondStream(r)
      PROVE  Abstract!Answer(r) \/ Abstract!Discard(r)
  <2>1. \E s \in BOOLEAN : EndFacts(r, s)
    BY <1>9, RespondFullEffect, RespondStreamEffect DEF FullFacts, StreamFacts
  <2>2. /\ handler[r] = "running" /\ handler' = [handler EXCEPT ![r] = "done"]
        /\ UNCHANGED <<pc, lapped>> /\ ~lapped
    BY <1>9, RespondFullEffect, RespondStreamEffect DEF FullFacts, StreamFacts
  <2>3. Entry(r) = r /\ pc[r] \notin Early /\ reply[r].st = "open"
    BY <2>2, OwnsOwnEntry DEF VisibleIsFresh, OwnsReply
  <2>4. /\ \A q \in Req : q # r => reply'[q] = reply[q]
        /\ reply'[r] = reply[r] \/ reply'[r].st = "sent"
    BY <2>1, <2>3 DEF EndFacts
  <2>5. workBar[r] = "running" /\ workBar' = [workBar EXCEPT ![r] = "finished"]
    BY <2>2 DEF workBar
  <2>6. CASE reply'[r] = reply[r] \/ pc[r] = "dropped"
    <3>1. phaseBar' = phaseBar
      BY <2>2, <2>4, <2>6 DEF phaseBar
    <3>2. phaseBar[r] # "new"
      BY <2>3 DEF phaseBar, Early
    <3> QED BY <2>2, <2>5, <3>1, <3>2 DEF Abstract!Discard
  <2>7. CASE reply'[r].st = "sent" /\ pc[r] # "dropped"
    <3>1. phaseBar[r] = "open"
      BY <2>3, <2>7 DEF phaseBar, Early
    <3>2. phaseBar' = [phaseBar EXCEPT ![r] = "answered"]
      BY <2>2, <2>3, <2>4, <2>7 DEF phaseBar, Early
    <3> QED BY <2>2, <2>5, <3>1, <3>2 DEF Abstract!Answer
  <2> QED BY <2>4, <2>6, <2>7
<1>10. ASSUME NEW r \in Req, AbortSeen(r) PROVE UNCHANGED Abstract!vars
  BY <1>10, StutterStep DEF AbortSeen, taskVars
<1>11. CASE Wake \/ TakeBatch \/ Close \/ UNCHANGED vars
  BY <1>11, StutterStep DEF Wake, TakeBatch, Close, vars, taskVars
<1> QED
  BY <1>1, <1>2, <1>3, <1>4, <1>5, <1>6, <1>7, <1>8, <1>9, <1>10, <1>11
  DEF Next, Task, Script, Quiet

\* The bridge implements the abstract request/reply service until a ticket is
\* lapped: one handler call per request, and only that call's answer, or the 500
\* of #dispatch when it could not start.
THEOREM Refinement == Spec => ImplementsRequestReply
<1>1. Init => Abstract!Init
  BY DEF Init, NoReply, Abstract!Init, phaseBar, workBar
<1>2. IInv /\ [Next]_vars => [Abstract!Next]_(Abstract!vars)
  BY Simulation
<1> QED BY <1>1, <1>2, Invariance, PTL DEF Spec, ImplementsRequestReply, Abstract!Spec
=============================================================================
