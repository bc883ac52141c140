------------------------------ MODULE MCSimClock ------------------------------
(***************************************************************************)
(* SimClock alone, where a killed id may be spawned again.                 *)
(***************************************************************************)
EXTENDS SimClock

CONSTANTS q, p, m1
=============================================================================
