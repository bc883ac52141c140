------------------------------ MODULE MCRuntimes ------------------------------
(***************************************************************************)
(* Small instances of the runtimes for TLC.                                *)
(***************************************************************************)
EXTENDS Runtimes

CONSTANTS q, p, m1, m2

FaultTimes == {-1, 1}
=============================================================================
