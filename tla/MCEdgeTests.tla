---------------------------- MODULE MCEdgeTests ----------------------------
(***************************************************************************)
(* Canary files for the checks of EdgeTests.                               *)
(***************************************************************************)
EXTENDS EdgeTests

(* Six zones with four canaries: one that is unavailable and the last one  *)
(* to be submitted are named twice.                                        *)
SharedCanaries == <<2, 3, 4, 5, 3, 5>>
(* The unavailable canary is the one two zones share.                      *)
SharedUnavailable == <<2, 3, 4, 3>>
============================================================================
