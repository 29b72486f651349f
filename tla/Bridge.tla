------------------------------- MODULE Bridge -------------------------------
(***************************************************************************)
(* The Rust/JS bridge: src/src/bridge.rs with the end of `dispatch' in     *)
(* src/src/server.rs (the producer, one task per request on the tokio      *)
(* threads) and #drainBatch/#dispatch/#handleRequest in src/js/index.ts    *)
(* (the consumer, the single JS thread).  One step of this module is one   *)
(* critical section or one uninterrupted run of the JS thread; what        *)
(* separates two steps is an unlock, an await or a thread switch.          *)
(*                                                                         *)
(* A request is an element of Req and is dispatched once.  Its ticket is a *)
(* number below IdSpace (2^32 in the code: an AtomicU32 that wraps).       *)
(***************************************************************************)
EXTENDS Naturals, Sequences

CONSTANTS
  Req,      \* the requests
  NoReq,    \* "no request"
  Watched,  \* requests for which JS subscribes to the disconnect signal
  IdSpace   \* how many different tickets there are

ASSUME ReqAssumption == NoReq \notin Req /\ Watched \subseteq Req
ASSUME IdSpaceAssumption == IdSpace \in Nat \ {0}

Ids == 0 .. IdSpace - 1

VARIABLES
  pc,       \* where the task of each request is in dispatch()
  reqId,    \* the ticket of each request (0 until it is drawn)
  next_id,  \* Bridge.next_id
  pending,  \* Bridge.pending: ticket -> the request waiting under it
  body,     \* where the BodyParts of each request are
  reply,    \* the oneshot each task awaits
  queue,    \* Bridge.queue
  bells,    \* doorbell calls the event loop has not run yet
  js,       \* the JS thread: "idle", at takeBatch ("take"), in the for loop ("run")
  batch,    \* what is left of the batch being dispatched
  handler,  \* the handler call for each request
  io,       \* the request whose BodyIo the context of each request holds
  signal,   \* AbortSignal: "armed", or how it fired
  watch,    \* the waitAbort() promise of each request
  aborts,   \* the requests for which the onAbort hooks ran
  active,   \* RustServer.active is Some: the bridge methods reach the bridge
  lapped,   \* history: an insert found a live entry under its ticket
  strays    \* history: requests whose BodyParts went to a handler already answered

taskVars == <<pc, reqId, next_id>>
jsVars == <<js, batch, bells>>
vars == <<pc, reqId, next_id, pending, body, reply, queue, bells, js, batch,
          handler, io, signal, watch, aborts, active, lapped, strays>>

NoReply == [st |-> "open", by |-> NoReq, streamed |-> FALSE]
SenderDropped == [st |-> "closed", by |-> NoReq, streamed |-> FALSE]

Init ==
  /\ pc = [r \in Req |-> "new"]
  /\ reqId = [r \in Req |-> 0]
  /\ next_id = 0
  /\ pending = [i \in Ids |-> NoReq]
  /\ body = [r \in Req |-> "parts"]
  /\ reply = [r \in Req |-> NoReply]
  /\ queue = <<>>
  /\ bells = 0
  /\ js = "idle"
  /\ batch = <<>>
  /\ handler = [r \in Req |-> "none"]
  /\ io = [r \in Req |-> NoReq]
  /\ signal = [r \in Req |-> "armed"]
  /\ watch = [r \in Req |-> "off"]
  /\ aborts = {}
  /\ active = TRUE
  /\ lapped = FALSE
  /\ strays = {}

-----------------------------------------------------------------------------
(* The connection task: dispatch() from next_req_id() to the response.     *)

\* Mutant of NextReqId: the counter is wider than the tickets JS can hold.
NextReqIdWider(r) ==
  /\ pc[r] = "new"
  /\ reqId' = [reqId EXCEPT ![r] = next_id % IdSpace]
  /\ next_id' = next_id + 1
  /\ pc' = [pc EXCEPT ![r] = "insert"]
  /\ UNCHANGED <<pending, body, reply, queue, jsVars, handler, io, signal,
                 watch, aborts, active, lapped, strays>>

\* next_id.fetch_add(1): the ticket, wrapping at the width of the counter.
NextReqId(r) ==
  /\ pc[r] = "new"
  /\ reqId' = [reqId EXCEPT ![r] = next_id]
  /\ next_id' = (next_id + 1) % IdSpace
  /\ pc' = [pc EXCEPT ![r] = "insert"]
  /\ UNCHANGED <<pending, body, reply, queue, jsVars, handler, io, signal,
                 watch, aborts, active, lapped, strays>>

\* The Pending that is stored under r's ticket now, be it r's or another's.
Entry(r) == pending[reqId[r]]

\* Dropping a Pending drops the BodyParts nobody took.
DropParts(b, p) == [b EXCEPT ![p] = IF @ = "parts" THEN "dropped" ELSE @]

\* Mutant of InsertPending: keep the entry that is there (entry().or_insert).
InsertPendingKeepsOld(r) ==
  /\ pc[r] = "insert"
  /\ pending' = [pending EXCEPT ![reqId[r]] = IF @ = NoReq THEN r ELSE @]
  /\ pc' = [pc EXCEPT ![r] = "push"]
  /\ UNCHANGED <<reqId, next_id, body, reply, queue, jsVars, handler, io,
                 signal, watch, aborts, active, lapped, strays>>

\* Mutant of InsertPending: the registration is forgotten.
InsertPendingForgotten(r) ==
  /\ pc[r] = "insert"
  /\ pc' = [pc EXCEPT ![r] = "push"]
  /\ UNCHANGED <<reqId, next_id, pending, body, reply, queue, jsVars, handler,
                 io, signal, watch, aborts, active, lapped, strays>>

\* enqueue(), first critical section.  insert() replaces an entry that is
\* still there; dropping that Pending drops its oneshot sender.
InsertPending(r) ==
  /\ pc[r] = "insert"
  /\ pending' = [pending EXCEPT ![reqId[r]] = r]
  /\ IF Entry(r) = NoReq
     THEN UNCHANGED <<body, reply, lapped>>
     ELSE /\ body' = DropParts(body, Entry(r))
          /\ reply' = [reply EXCEPT ![Entry(r)] = SenderDropped]
          /\ lapped' = TRUE
  /\ pc' = [pc EXCEPT ![r] = "push"]
  /\ UNCHANGED <<reqId, next_id, queue, jsVars, handler, io, signal, watch,
                 aborts, active, strays>>

\* Mutant of Push: the emptiness test is the wrong way round.
PushRingsWhenNonEmpty(r) ==
  /\ pc[r] = "push"
  /\ queue' = Append(queue, r)
  /\ pc' = [pc EXCEPT ![r] = IF queue # <<>> THEN "ring" ELSE "wait"]
  /\ UNCHANGED <<reqId, next_id, pending, body, reply, jsVars, handler, io,
                 signal, watch, aborts, active, lapped, strays>>

\* enqueue(), second critical section: was_empty and push under one lock.
Push(r) ==
  /\ pc[r] = "push"
  /\ queue' = Append(queue, r)
  /\ pc' = [pc EXCEPT ![r] = IF queue = <<>> THEN "ring" ELSE "wait"]
  /\ UNCHANGED <<reqId, next_id, pending, body, reply, jsVars, handler, io,
                 signal, watch, aborts, active, lapped, strays>>

\* enqueue(), after the unlock: the doorbell call is queued for the event loop.
Ring(r) ==
  /\ pc[r] = "ring"
  /\ bells' = bells + 1
  /\ pc' = [pc EXCEPT ![r] = "wait"]
  /\ UNCHANGED <<reqId, next_id, pending, body, reply, queue, js, batch,
                 handler, io, signal, watch, aborts, active, lapped, strays>>

\* Mutant of Finish: the guard fires only when the request was cut off.
FinishSilently(r) ==
  /\ pc[r] = "wait"
  /\ reply[r].st # "open"
  /\ pc' = [pc EXCEPT ![r] = "done"]
  /\ UNCHANGED <<reqId, next_id, pending, body, reply, queue, jsVars, handler,
                 io, signal, watch, aborts, active, lapped, strays>>

\* done_rx.await returns: the JS response, or 500 when the sender was dropped;
\* then abort.complete(), and the guard fires as the future returns.
Finish(r) ==
  /\ pc[r] = "wait"
  /\ reply[r].st # "open"
  /\ pc' = [pc EXCEPT ![r] = "done"]
  /\ signal' = [signal EXCEPT ![r] = "complete"]
  /\ UNCHANGED <<reqId, next_id, pending, body, reply, queue, jsVars, handler,
                 io, watch, aborts, active, lapped, strays>>

\* hyper drops the future at its await (the client left, or the runtime is
\* being shut down): only the guard runs, the Pending stays in the table.
Disconnect(r) ==
  /\ pc[r] = "wait"
  /\ pc' = [pc EXCEPT ![r] = "dropped"]
  /\ signal' = [signal EXCEPT ![r] = "abort"]
  /\ UNCHANGED <<reqId, next_id, pending, body, reply, queue, jsVars, handler,
                 io, watch, aborts, active, lapped, strays>>

-----------------------------------------------------------------------------
(* The bridge methods JS calls, through RustServer.active.                 *)

\* take_body finds the parts under r's ticket.
CanTake(r) == active /\ Entry(r) # NoReq /\ body[Entry(r)] = "parts"

\* Mutant of Respond: get() instead of remove(), the entry stays.
RespondKeepsEntry(r, streams, parts) ==
  IF active /\ Entry(r) # NoReq
  THEN /\ reply' = [reply EXCEPT ![Entry(r)] =
                      IF pc[Entry(r)] = "dropped" THEN @
                      ELSE [st |-> "sent", by |-> r, streamed |-> streams]]
       /\ body' = DropParts(parts, Entry(r))
       /\ UNCHANGED pending
  ELSE /\ body' = parts
       /\ UNCHANGED <<pending, reply>>

\* respond(req_id, res): remove the entry and send; a receiver that vanished,
\* an unknown ticket and a closed server are ignored.  `parts' is the state of
\* the BodyParts when the call is made.
Respond(r, streams, parts) ==
  IF active /\ Entry(r) # NoReq
  THEN /\ pending' = [pending EXCEPT ![reqId[r]] = NoReq]
       /\ reply' = [reply EXCEPT ![Entry(r)] =
                      IF pc[Entry(r)] = "dropped" THEN @
                      ELSE [st |-> "sent", by |-> r, streamed |-> streams]]
       /\ body' = DropParts(parts, Entry(r))
  ELSE /\ body' = parts
       /\ UNCHANGED <<pending, reply>>

\* RustServer.close() after the drain or its deadline.
Close ==
  /\ active
  /\ active' = FALSE
  /\ UNCHANGED <<taskVars, pending, body, reply, queue, jsVars, handler, io,
                 signal, watch, aborts, lapped, strays>>

-----------------------------------------------------------------------------
(* The JS thread.                                                          *)

\* The event loop runs one queued doorbell call: #drainBatch starts.
Wake ==
  /\ js = "idle" /\ bells > 0
  /\ bells' = bells - 1
  /\ js' = "take"
  /\ UNCHANGED <<taskVars, pending, body, reply, queue, batch, handler, io,
                 signal, watch, aborts, active, lapped, strays>>

\* Mutant of TakeBatch: the queue is copied, not taken.
TakeBatchCopies ==
  /\ js = "take"
  /\ IF active /\ queue # <<>>
     THEN /\ batch' = queue
          /\ js' = "run"
     ELSE /\ js' = "idle"
          /\ UNCHANGED batch
  /\ UNCHANGED <<taskVars, pending, body, reply, queue, bells, handler, io,
                 signal, watch, aborts, active, lapped, strays>>

\* takeBatch(): everything queued, nothing when the server is closed; an empty
\* batch ends the drain.
TakeBatch ==
  /\ js = "take"
  /\ IF active /\ queue # <<>>
     THEN /\ batch' = queue
          /\ queue' = <<>>
          /\ js' = "run"
     ELSE /\ js' = "idle"
          /\ UNCHANGED <<batch, queue>>
  /\ UNCHANGED <<taskVars, pending, body, reply, bells, handler, io, signal,
                 watch, aborts, active, lapped, strays>>

\* One iteration of the for loop: #dispatch up to its first await.  A request
\* nobody watches just starts its handler; a watched one first takes its BodyIo
\* for waitAbort(), and if that throws, #dispatch answers 500 and is over.
Dispatch(r) ==
  /\ js = "run" /\ r = Head(batch)
  /\ batch' = Tail(batch)
  /\ js' = IF Tail(batch) = <<>> THEN "take" ELSE "run"
  /\ \/ /\ r \notin Watched
        /\ handler' = [handler EXCEPT ![r] = "running"]
        /\ UNCHANGED <<pending, body, reply, io, watch>>
     \/ /\ r \in Watched /\ CanTake(r)
        /\ handler' = [handler EXCEPT ![r] = "running"]
        /\ watch' = [watch EXCEPT ![r] = "waiting"]
        /\ io' = [io EXCEPT ![r] = Entry(r)]
        /\ body' = [body EXCEPT ![Entry(r)] = "taken"]
        /\ UNCHANGED <<pending, reply>>
     \/ /\ r \in Watched /\ ~CanTake(r)
        /\ handler' = [handler EXCEPT ![r] = "done"]
        /\ Respond(r, FALSE, body)
        /\ UNCHANGED <<io, watch>>
  /\ UNCHANGED <<taskVars, queue, bells, signal, aborts, active, lapped, strays>>

\* The handler reads its body for the first time: BodyRef.get -> takeBody.  When
\* nothing is there the handler fails, and answers as in RespondFull.  Nothing
\* stops a handler that its timeout has answered for: it may still call, and what
\* it finds is whatever lies under its old ticket.  (A watched request holds its
\* BodyIo since its dispatch.)
UseBody(r) ==
  /\ \/ handler[r] = "running" /\ UNCHANGED strays
     \/ /\ handler[r] = "done" /\ r \notin Watched /\ js = "idle"
        /\ strays' = strays \union {Entry(r)}
  /\ io[r] = NoReq /\ CanTake(r)
  /\ io' = [io EXCEPT ![r] = Entry(r)]
  /\ body' = [body EXCEPT ![Entry(r)] = "taken"]
  /\ UNCHANGED <<taskVars, pending, reply, queue, jsVars, handler, signal,
                 watch, aborts, active, lapped>>

\* #handleRequest ends with a buffered answer, or #dispatch answers 500 for it.
RespondFull(r) ==
  /\ handler[r] = "running" /\ js = "idle"
  /\ Respond(r, FALSE, body)
  /\ handler' = [handler EXCEPT ![r] = "done"]
  /\ UNCHANGED <<taskVars, queue, jsVars, io, signal, watch, aborts, active,
                 lapped, strays>>

\* Mutant of RespondStream: respond first, fetch the BodyIo afterwards.
RespondBeforePump(r) ==
  /\ handler[r] = "running" /\ js = "idle"
  /\ Respond(r, TRUE, body)
  /\ handler' = [handler EXCEPT ![r] = "done"]
  /\ UNCHANGED <<taskVars, queue, jsVars, io, signal, watch, aborts, active,
                 lapped, strays>>

\* #handleRequest ends with a streamed answer: buildNativeResponse starts the
\* pump, which fetches the BodyIo if the handler has not, before respond().
RespondStream(r) ==
  /\ handler[r] = "running" /\ js = "idle"
  /\ \/ /\ io[r] # NoReq
        /\ Respond(r, TRUE, body)
        /\ UNCHANGED io
     \/ /\ io[r] = NoReq /\ CanTake(r)
        /\ io' = [io EXCEPT ![r] = Entry(r)]
        /\ Respond(r, TRUE, [body EXCEPT ![Entry(r)] = "taken"])
  /\ handler' = [handler EXCEPT ![r] = "done"]
  /\ UNCHANGED <<taskVars, queue, jsVars, signal, watch, aborts, active,
                 lapped, strays>>

\* Mutant of AbortSeen: the callback ignores what the signal says.
AbortSeenAlwaysAborts(r) ==
  /\ watch[r] = "waiting" /\ js = "idle"
  /\ signal[io[r]] # "armed"
  /\ watch' = [watch EXCEPT ![r] = "resolved"]
  /\ aborts' = aborts \union {r}
  /\ UNCHANGED <<taskVars, pending, body, reply, queue, jsVars, handler, io,
                 signal, active, lapped, strays>>

\* The waitAbort() promise resolves; the onAbort hooks run when the future was
\* dropped and the response is not settled.
AbortSeen(r) ==
  /\ watch[r] = "waiting" /\ js = "idle"
  /\ signal[io[r]] # "armed"
  /\ watch' = [watch EXCEPT ![r] = "resolved"]
  /\ aborts' = IF signal[io[r]] = "abort" /\ handler[r] # "done"
               THEN aborts \union {r} ELSE aborts
  /\ UNCHANGED <<taskVars, pending, body, reply, queue, jsVars, handler, io,
                 signal, active, lapped, strays>>

-----------------------------------------------------------------------------
\* Every request has ended on both sides and the event loop has nothing to do.
Quiet ==
  /\ \A r \in Req : /\ pc[r] \in {"done", "dropped"}
                    /\ handler[r] # "running" /\ watch[r] # "waiting"
  /\ js = "idle" /\ bells = 0
  /\ UNCHANGED vars

Task(r) == \/ NextReqId(r) \/ InsertPending(r) \/ Push(r) \/ Ring(r)
           \/ Finish(r) \/ Disconnect(r)
Script(r) == \/ Dispatch(r) \/ UseBody(r) \/ RespondFull(r)
             \/ RespondStream(r) \/ AbortSeen(r)

Next ==
  \/ \E r \in Req : Task(r) \/ Script(r)
  \/ Wake \/ TakeBatch \/ Close
  \/ Quiet

Spec == Init /\ [][Next]_vars

\* tokio polls every task that can go on, the event loop runs every callback,
\* and a handler settles (by itself or by requestTimeout).  Nothing makes a
\* client send, leave or stay, and nothing makes the application close.
Fairness ==
  /\ \A r \in Req : /\ WF_vars(InsertPending(r) \/ Push(r) \/ Ring(r) \/ Finish(r))
                    /\ WF_vars(Dispatch(r))
                    /\ SF_vars(RespondFull(r) \/ RespondStream(r))
                    /\ SF_vars(AbortSeen(r))
  /\ WF_vars(Wake \/ TakeBatch)

FairSpec == Spec /\ Fairness

-----------------------------------------------------------------------------
(* Properties.                                                             *)

\* Every variable keeps its type.
TypeOK ==
  /\ pc \in [Req -> {"new", "insert", "push", "ring", "wait", "done", "dropped"}]
  /\ reqId \in [Req -> Ids]
  /\ next_id \in Ids
  /\ pending \in [Ids -> Req \union {NoReq}]
  /\ body \in [Req -> {"parts", "taken", "dropped"}]
  /\ reply \in [Req -> [st : {"open", "sent", "closed"},
                        by : Req \union {NoReq}, streamed : BOOLEAN]]
  /\ queue \in Seq(Req) /\ batch \in Seq(Req)
  /\ bells \in Nat
  /\ js \in {"idle", "take", "run"}
  /\ handler \in [Req -> {"none", "running", "done"}]
  /\ io \in [Req -> Req \union {NoReq}]
  /\ signal \in [Req -> {"armed", "abort", "complete"}]
  /\ watch \in [Req -> {"off", "waiting", "resolved"}]
  /\ aborts \in SUBSET Req
  /\ active \in BOOLEAN /\ lapped \in BOOLEAN
  /\ strays \in SUBSET Req

\* enqueue() rings only on the empty -> non-empty transition and after the
\* unlock (bridge.rs 118-130): no request may be left in the queue with the JS
\* thread asleep, no bell queued and no task about to ring.
NoLostWakeup ==
  active /\ queue # <<>> =>
    bells > 0 \/ js # "idle" \/ \E r \in Req : pc[r] = "ring"

\* enqueue() registers before it publishes (bridge.rs 118-125): whatever JS can
\* see in the queue or in a batch still has its own entry and its own body (or
\* lost it to a late takeBody), and has not been dispatched before, even when
\* its client has left.
VisibleIsRegistered ==
  ~lapped => \A r \in Req :
    ((\E i \in 1 .. Len(queue) : queue[i] = r)
       \/ (\E i \in 1 .. Len(batch) : batch[i] = r)) =>
      /\ Entry(r) = r /\ handler[r] = "none"
      /\ body[r] = "parts" \/ r \in strays

\* The ticket is the only thing that ties a response and a body to a request
\* (bridge.rs 138-160): as long as no ticket is reused while its first holder is
\* unanswered, no task receives another request's response, and a handler holds
\* another request's body only if it asked after its own answer had been sent.
NoCrossTalk ==
  ~lapped => \A r \in Req :
    /\ reply[r].by \in {NoReq, r}
    /\ io[r] \in {NoReq, r} \/ (handler[r] = "done" /\ io[r] \in strays)

\* A streamed response reaches hyper with its writer alive: the BodyIo was taken
\* before respond() dropped the rest of the Pending (context.ts 846-853), so
\* the client is not sent an empty body.
StreamHasWriter ==
  ~lapped => \A r \in Req : reply[r].streamed => body[r] = "taken" /\ io[r] = r

\* Client-disconnect detection (server.rs 1117-1185, index.ts 985-1003): the
\* onAbort hooks run only for a request whose future was dropped, never for one
\* whose response went out.
NoFalseAbort == ~lapped => \A r \in aborts : pc[r] = "dropped"

\* The pending table does not leak (bridge.rs 155-160): while the server is open
\* a request whose handler is over has no entry left, also when the client had
\* disconnected before.
NoPendingLeak ==
  active => \A i \in Ids : pending[i] # NoReq => handler[pending[i]] # "done"

\* A request that waits while the server is open is answered or its client leaves.
EveryRequestEnds ==
  \A r \in Req : pc[r] = "wait" ~> (pc[r] \in {"done", "dropped"} \/ ~active)

\* waitAbort() resolves for finished requests too (stream.rs 48-53): a
\* subscription is not leaked when the request ends normally.
SubscriptionResolves ==
  \A r \in Req : watch[r] = "waiting" ~> (watch[r] = "resolved" \/ ~active)

-----------------------------------------------------------------------------
(* The bridge implements RequestReply until a ticket is lapped.            *)

phaseBar == [r \in Req |->
  IF pc[r] \in {"new", "insert", "push"} THEN "new"
  ELSE IF pc[r] = "dropped" THEN "gone"
  ELSE IF reply[r].st = "open" THEN "open" ELSE "answered"]

workBar == [r \in Req |-> IF handler[r] = "done" THEN "finished" ELSE handler[r]]

Abstract == INSTANCE RequestReply
              WITH phase <- phaseBar, work <- workBar, fault <- lapped

\* At most one handler call per request, and only its own answer; a request
\* whose BodyIo is gone before its call gets the 500 of #dispatch.
ImplementsRequestReply == Abstract!Spec
=============================================================================
