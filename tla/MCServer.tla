------------------------------ MODULE MCServer ------------------------------
(***************************************************************************)
(* Small instances of Server.  MCServer.cfg: s1 has schemas, so that its   *)
(* listen() has an await, and event listeners that may throw or call       *)
(* close(); s2 has neither and is closed by the signal; one listen() and   *)
(* one inject() on s1, and one inject() on either.  MCServerClose.cfg: one *)
(* server with schemas and one listen().                                   *)
(***************************************************************************)
EXTENDS Server

CONSTANTS
  Home,     \* the server of the calls in Pinned
  Pinned,   \* the other calls are made on any server
  Resident  \* the servers that only a signal closes

MCNext ==
  /\ Next
  /\ \A k \in Pinned : of'[k] \in {None, Home}
  /\ \A s \in Resident : closing'[s] # "none" => snapshots' # {}

MCSpec == Init /\ [][MCNext]_vars /\ Fairness
=============================================================================
