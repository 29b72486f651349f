------------------------------ MODULE MCBridge ------------------------------
(***************************************************************************)
(* Small instances of Bridge.  MCBridge.cfg: three requests, one of them   *)
(* watched for disconnects, and two tickets, so that tickets are reused    *)
(* after and before their first holder is answered.  MCBridgeLive.cfg: two *)
(* requests and one ticket, for the liveness properties.                   *)
(***************************************************************************)
EXTENDS Bridge, TLC

\* The requests nobody watches are interchangeable.
Symmetry == Permutations(Req \ Watched)
=============================================================================
