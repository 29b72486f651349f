---------------------------- MODULE MCReadiness ----------------------------
(***************************************************************************)
(* Small instances of Readiness with a preShutdownDelay, so that all stages*)
(* of the shutdown happen.  Either three peers compete for two connections *)
(* and an inject() runs beside them; or nobody connects, and two checks    *)
(* follow each other with two ticks under way at a time; or two peers, of  *)
(* which one may be refused by the limiter, and the probes of a port of    *)
(* their own meet calls of setReady().                                     *)
(***************************************************************************)
EXTENDS Readiness

MCInit ==
  \/ ReadyInit(All, {}, 0, FALSE, FALSE)
  \/ ReadyInit({}, Check, 1, FALSE, FALSE)
  \/ ReadyInit(CHOOSE cs \in SUBSET Conn : Cardinality(cs) = 2, {}, 2, TRUE, TRUE)

MCSpec == MCInit /\ [][ReadyNext]_allVars /\ ReadyFairness
=============================================================================
