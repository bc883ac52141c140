------------------------------ MODULE Insertion ------------------------------
(***************************************************************************)
(* The two dispatch engines of drt_sim: greedy insertion with pooling      *)
(* (dispatch/insertion.py) and the nearest idle vehicle                    *)
(* (dispatch/baseline.py), as operators on a vehicle's location, route and *)
(* passengers.                                                             *)
(*                                                                         *)
(* Places are integers on a line and a unit of distance takes a unit of    *)
(* time, which keeps what the engines rely on: travel times that add up    *)
(* and obey the triangle inequality.  Times are relative to the current    *)
(* moment: age[r] is how long r has waited or, once on board, has ridden.  *)
(***************************************************************************)
EXTENDS Integers, FiniteSets, SequencesExt

CONSTANTS Request,
          Origin, Destination,    \* place of every request's ends
          PartySize,
          Capacity,               \* seats of every vehicle
          MaxWait,
          DetourNum, DetourDen    \* max_detour_factor as a fraction

ASSUME DemandAssumption ==
  /\ Origin \in [Request -> Int] /\ Destination \in [Request -> Int]
  /\ PartySize \in [Request -> Nat \ {0}]
  /\ Capacity \in Nat /\ MaxWait \in Nat
  /\ DetourNum \in Nat /\ DetourDen \in Nat \ {0}

Stop == [request : Request, stop_type : {"pickup", "dropoff"}]

Pickup(r) == [request |-> r, stop_type |-> "pickup"]
Dropoff(r) == [request |-> r, stop_type |-> "dropoff"]

Place(stop) ==
  IF stop.stop_type = "pickup" THEN Origin[stop.request] ELSE Destination[stop.request]

\* travel_time_seconds.
TravelTime(a, b) == IF a < b THEN b - a ELSE a - b

DirectTime(r) == TravelTime(Origin[r], Destination[r])

\* Arrival time at every stop of the route, for a vehicle that is at `location` now.
Eta(location, route) ==
  LET eta[i \in 0 .. Len(route)] ==
        IF i = 0 THEN 0
        ELSE eta[i - 1] + TravelTime(IF i = 1 THEN location ELSE Place(route[i - 1]),
                                     Place(route[i]))
  IN  eta

\* Passengers after every stop of the route.
Load(onboard, route) ==
  LET load[i \in 0 .. Len(route)] ==
        IF i = 0 THEN onboard
        ELSE IF route[i].stop_type = "pickup"
             THEN load[i - 1] + PartySize[route[i].request]
             ELSE load[i - 1] - PartySize[route[i].request]
  IN  load

\* Mutant: the time a passenger has been on board is left out.
RideFromNow(route, i, eta, age) ==
  LET pickups == {j \in 1 .. i - 1 : route[j] = Pickup(route[i].request)}
  IN  IF pickups = {} THEN eta[i] ELSE eta[i] - eta[CHOOSE j \in pickups : TRUE]

\* Time request r will have spent on board at stop i: since its pickup on this
\* route or, when it is on board already, since boarded_at.
Ride(route, i, eta, age) ==
  LET r == route[i].request
      pickups == {j \in 1 .. i - 1 : route[j] = Pickup(r)}
  IN  IF pickups = {} THEN age[r] + eta[i]
                      ELSE eta[i] - eta[CHOOSE j \in pickups : TRUE]

\* Mutant: only the new passenger's limits are checked.
FeasibleForLast(route, vehicle, age) ==
  LET eta  == Eta(vehicle.location, route)
      load == Load(vehicle.onboard, route)
      kept == {vehicle.route[i] : i \in 1 .. Len(vehicle.route)}
  IN  \A i \in 1 .. Len(route) :
        LET r == route[i].request
        IN  /\ route[i].stop_type = "pickup" => load[i] <= Capacity
            /\ route[i] = Pickup(r) /\ route[i] \notin kept => age[r] + eta[i] <= MaxWait
            /\ route[i] = Dropoff(r) /\ route[i] \notin kept =>
                 Ride(route, i, eta, age) * DetourDen <= DirectTime(r) * DetourNum

\* Mutant: a pickup may find all seats but one taken.
FeasibleOverbooked(route, vehicle, age) ==
  LET eta  == Eta(vehicle.location, route)
      load == Load(vehicle.onboard, route)
  IN  \A i \in 1 .. Len(route) :
        LET r == route[i].request
        IN  /\ route[i] = Pickup(r) => load[i - 1] < Capacity /\ age[r] + eta[i] <= MaxWait
            /\ route[i] = Dropoff(r) /\ DirectTime(r) > 0 =>
                 Ride(route, i, eta, age) * DetourDen <= DirectTime(r) * DetourNum

\* _feasible: seats, waiting and detour of every passenger of the route.
Feasible(route, vehicle, age) ==
  LET eta  == Eta(vehicle.location, route)
      load == Load(vehicle.onboard, route)
  IN  \A i \in 1 .. Len(route) :
        LET r == route[i].request
        IN  /\ route[i] = Pickup(r) => load[i] <= Capacity /\ age[r] + eta[i] <= MaxWait
            /\ route[i] = Dropoff(r) /\ DirectTime(r) > 0 =>
                 Ride(route, i, eta, age) * DetourDen <= DirectTime(r) * DetourNum

\* Mutant: range(pi, n), the dropoff is never the last stop of a pooled route.
InsertionsBeforeEnd(route, r) ==
  {InsertAt(InsertAt(route, i[1] + 1, Pickup(r)), i[2] + 2, Dropoff(r)) :
     i \in {x \in (0 .. Len(route)) \X (0 .. Len(route)) :
              x[1] <= x[2] /\ (x[2] < Len(route) \/ route = <<>>)}}

\* The pairs (pi, di) the engine tries, pi <= di, and the routes they give.
Insertions(route, r) ==
  {InsertAt(InsertAt(route, i[1] + 1, Pickup(r)), i[2] + 2, Dropoff(r)) :
     i \in {x \in (0 .. Len(route)) \X (0 .. Len(route)) : x[1] <= x[2]}}

AddedCost(vehicle, route) ==
  Eta(vehicle.location, route)[Len(route)]
    - Eta(vehicle.location, vehicle.route)[Len(vehicle.route)]

Cheapest(plans) == {p \in plans : \A q \in plans : p.added_cost <= q.added_cost}

\* DispatchEngine.dispatch over the vehicles in fleet, a function.  Which of two
\* equally cheap insertions comes first in the code's order is left open.
InsertionPlans(fleet, r, age) ==
  Cheapest(UNION {{[vehicle_id |-> v, new_route |-> route,
                    added_cost |-> AddedCost(fleet[v], route)] :
                     route \in {x \in Insertions(fleet[v].route, r) :
                                  Feasible(x, fleet[v], age)}} : v \in DOMAIN fleet})

\* Mutant: the vehicle need not be idle.
NearestPlans(fleet, r) ==
  Cheapest({[vehicle_id |-> v, new_route |-> fleet[v].route \o <<Pickup(r), Dropoff(r)>>,
             added_cost |-> TravelTime(fleet[v].location, Origin[r])] : v \in DOMAIN fleet})

\* NearestIdleEngine.dispatch.
NearestIdlePlans(fleet, r) ==
  Cheapest({[vehicle_id |-> v, new_route |-> <<Pickup(r), Dropoff(r)>>,
             added_cost |-> TravelTime(fleet[v].location, Origin[r])] :
              v \in {u \in DOMAIN fleet : fleet[u].route = <<>>}})
=============================================================================
