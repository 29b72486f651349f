---------------------------- MODULE RequestReply ----------------------------
(***************************************************************************)
(* What the Rust/JS bridge promises to a connection task, with the queue,  *)
(* the ticket numbers, the doorbell and the pending table left out: a      *)
(* request that was handed over is run by at most one handler call, and an *)
(* answer it receives was produced by that very call, or says that the     *)
(* call could not start.  Nothing promises that every request is answered: *)
(* the client may leave and the server may close.  `fault' tells that the  *)
(* promise was withdrawn (see Bridge).                                     *)
(***************************************************************************)
CONSTANT Req

VARIABLES phase,   \* phase[r]: the request as its connection task sees it
          work,    \* work[r]: the handler call made for the request
          fault    \* the promise no longer holds

vars == <<phase, work, fault>>

Init ==
  /\ phase = [r \in Req |-> "new"]
  /\ work = [r \in Req |-> "none"]
  /\ fault = FALSE

\* The task hands the request over.
Submit(r) ==
  /\ phase[r] = "new"
  /\ phase' = [phase EXCEPT ![r] = "open"]
  /\ UNCHANGED <<work, fault>>

\* The one handler call for r starts, whether or not the client still waits.
Start(r) ==
  /\ phase[r] # "new"
  /\ work[r] = "none"
  /\ work' = [work EXCEPT ![r] = "running"]
  /\ UNCHANGED <<phase, fault>>

\* The handler call ends and its answer reaches the waiting task.
Answer(r) ==
  /\ work[r] = "running"
  /\ phase[r] = "open"
  /\ work' = [work EXCEPT ![r] = "finished"]
  /\ phase' = [phase EXCEPT ![r] = "answered"]
  /\ UNCHANGED fault

\* The handler call cannot start, and an error is the answer.
Refuse(r) ==
  /\ work[r] = "none"
  /\ phase[r] = "open"
  /\ work' = [work EXCEPT ![r] = "finished"]
  /\ phase' = [phase EXCEPT ![r] = "answered"]
  /\ UNCHANGED fault

\* The answer is dropped, because the task is gone or the server is closed.
Discard(r) ==
  /\ phase[r] # "new"
  /\ work[r] \in {"none", "running"}
  /\ work' = [work EXCEPT ![r] = "finished"]
  /\ UNCHANGED <<phase, fault>>

\* The connection dies before the task has written an answer.
Leave(r) ==
  /\ phase[r] \in {"open", "answered"}
  /\ phase' = [phase EXCEPT ![r] = "gone"]
  /\ UNCHANGED <<work, fault>>

Next ==
  \/ \E r \in Req : Submit(r) \/ Start(r) \/ Answer(r) \/ Refuse(r)
                      \/ Discard(r) \/ Leave(r)
  \/ fault'

Spec == Init /\ [][Next]_vars
=============================================================================
