----------------------------- MODULE VirtualStops -----------------------------
(***************************************************************************)
(* Virtual stops (dispatch/virtual_stop.py): the gateway moves both ends   *)
(* of a request to the nearest stop of a regular grid before it computes   *)
(* their cells (gateway._prepare).  One dimension, integer places.         *)
(*                                                                         *)
(* Two doors that are far enough apart for a trip may have the same stop,  *)
(* so a request can ask for a ride of length zero.                         *)
(***************************************************************************)
EXTENDS Integers, Sequences, SequencesExt

CONSTANTS Area, Spacing, MaxWalk

ASSUME GridAssumption == Area \in Nat /\ Spacing \in Nat \ {0} /\ MaxWalk \in Nat

\* __post_init__: n + 1 stops, the ends of the area included.
Stops ==
  LET n == IF Area < Spacing THEN 1 ELSE Area \div Spacing
  IN  [i \in 1 .. n + 1 |-> (Area * (i - 1)) \div n]

Walk(p, s) == IF p < s THEN s - p ELSE p - s

\* snap: of the stops within MaxWalk the nearest, of two as near the later; the
\* door itself if there is none.
Snap(p) ==
  LET near == {i \in DOMAIN Stops : Walk(p, Stops[i]) <= MaxWalk}
      best == {i \in near : \A j \in near :
                 \/ Walk(p, Stops[i]) < Walk(p, Stops[j])
                 \/ Walk(p, Stops[i]) = Walk(p, Stops[j]) /\ i >= j}
  IN  IF near = {} THEN p ELSE Stops[CHOOSE i \in best : TRUE]
=============================================================================
