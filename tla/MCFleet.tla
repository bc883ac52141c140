------------------------------- MODULE MCFleet -------------------------------
(***************************************************************************)
(* Small instances of Fleet for TLC: places 0 .. 4 on a line.              *)
(***************************************************************************)
EXTENDS Fleet, VirtualStops

CONSTANTS va, vb, r1, r2, r3, r4

\* Depots at both ends.  r1, a party of two, and r2 go the same way and overlap;
\* r3 comes the other way; both doors of r4 have the same stop.
Depots == va :> 0 @@ vb :> 4
Boarding == r1 :> 1 @@ r2 :> 2 @@ r3 :> 3 @@ r4 :> 2
Alighting == r1 :> 4 @@ r2 :> 4 @@ r3 :> 1 @@ r4 :> 2
Party == r1 :> 2 @@ r2 :> 1 @@ r3 :> 1 @@ r4 :> 1

\* The doors, in tenths of the distance of two stops, that the gateway snaps to
\* these places.
PickupDoor == r1 :> 12 @@ r2 :> 17 @@ r3 :> 30 @@ r4 :> 23
DropoffDoor == r1 :> 40 @@ r2 :> 38 @@ r3 :> 7 @@ r4 :> 17

ASSUME PlacesAreStops ==
  \A r \in {r1, r2, r3, r4} :
    /\ Snap(PickupDoor[r]) = 10 * Boarding[r]
    /\ Snap(DropoffDoor[r]) = 10 * Alighting[r]

\* TLC evaluates a definition once, but one that replaces a constant every time.
Origins == Boarding
Destinations == Alighting
Parties == Party
Centers == Boarding

OneOfTwo == {{r1, r2, r3}, {r1, r4}}

\* StraightRouter.
StraightRoad(a, b, t) == IF a < b THEN a + t ELSE a - t

\* One vehicle whose first passenger waits at the end of the line.
LoneDepot == va :> 0
LoneOrigins == r1 :> 4 @@ r2 :> 3 @@ r3 :> 2
LoneDestinations == r1 :> 1 @@ r2 :> 1 @@ r3 :> 4
LoneParties == r1 :> 1 @@ r2 :> 1 @@ r3 :> 1
LoneCenters == LoneOrigins

\* OSMRouter on a road twice as long as the straight line that comes to b from
\* behind, driven at constant speed in the time of the straight line.
LoopRoad(a, b, t) ==
  LET straight == TravelTime(a, b)
      way      == IF 4 * t <= 3 * straight THEN 2 * t ELSE 3 * straight - 2 * t
  IN  IF a < b THEN a + way ELSE a - way
=============================================================================
