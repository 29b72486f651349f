----------------------------- MODULE MCOverload -----------------------------
(***************************************************************************)
(* Small instances of Overload: one slot and a queue of one, so that three *)
(* requests meet the fast path, the queue, the full queue and the timeout; *)
(* a fourth request is a probe.                                            *)
(***************************************************************************)
EXTENDS Overload, TLC
=============================================================================
