--------------------------- MODULE MCDispatchCluster ---------------------------
(***************************************************************************)
(* Small instances of DispatchCluster for TLC.                             *)
(***************************************************************************)
EXTENDS DispatchCluster

CONSTANTS w1, w2, w3,     \* workers
          c1, c2,         \* coordinators
          ca, cb,         \* cells
          r1, r2, r3,     \* requests
          va, vb          \* vehicles

\* w1 wins cell ca and w2 wins cell cb; w3 takes ca when it joins and is the last
\* choice for cb, where it ties with w1.
WeightsOfThree ==
  (ca :> (w1 :> 2 @@ w2 :> 1 @@ w3 :> 3)) @@ (cb :> (w1 :> 1 @@ w2 :> 2 @@ w3 :> 1))

WeightsOfTwo ==
  (ca :> (w1 :> 2 @@ w2 :> 1)) @@ (cb :> (w1 :> 1 @@ w2 :> 2))

RanksOfThree == w1 :> 0 @@ w2 :> 1 @@ w3 :> 2
RanksOfTwo == w1 :> 0 @@ w2 :> 1

\* All requests compete for the worker of ca.
PickupsOfTwo == r1 :> ca @@ r2 :> ca
PickupsOfThree == r1 :> ca @@ r2 :> ca @@ r3 :> ca
PickupsOfNone == <<>>

HomesOfTwo == va :> ca @@ vb :> cb
HomeOfOne == va :> ca

\* A bound: nodes are cut off, or the heartbeats of one are lost, but not both.
OneSpell == faults["partition"] + faults["lost_spell"] <= 1
=============================================================================
