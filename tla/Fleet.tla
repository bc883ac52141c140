-------------------------------- MODULE Fleet --------------------------------
(***************************************************************************)
(* The data plane of drt_sim: requests are planned into routes by a        *)
(* dispatch engine (worker._try_dispatch, module Insertion) while World    *)
(* moves the vehicles along their routes every motion_dt seconds and       *)
(* serves the stops they reach (world.py).                                 *)
(*                                                                         *)
(* A dispatch may fall anywhere between two steps of World, so it plans on *)
(* locations that are up to motion_dt ahead of the moment.  Which vehicles *)
(* a worker owns is left open (DispatchCluster): it plans on any set.  A   *)
(* plan is committed in the step that makes it (VehicleStore).             *)
(***************************************************************************)
EXTENDS Insertion

CONSTANTS Vehicle,
          Depot,                \* where every vehicle starts
          CellCenter,           \* centre of the cell of a request's origin
          MinMove,              \* rebalance_min_move_km
          MotionDt,
          RoadPoint(_, _, _),   \* Router.path_km: place on the way from a to b after t
          Engines,              \* dispatch engines that may be configured
          NoTarget, NoSegment, NoVehicle,
          Demands,              \* bound: sets of requests that may appear together
          AgeCap                \* bound: ages are not told apart above it

ASSUME FleetAssumption ==
  /\ Depot \in [Vehicle -> Int]
  /\ CellCenter \in [Request -> Int]
  /\ MotionDt \in Nat \ {0} /\ MinMove \in Nat
  /\ Engines \subseteq {"insertion", "baseline"} /\ Engines # {}
  /\ NoTarget \notin Int /\ NoVehicle \notin Vehicle
  /\ Demands \subseteq SUBSET Request
  /\ AgeCap \in Nat /\ AgeCap > MaxWait + MotionDt
  /\ \A r \in Request : AgeCap * DetourDen > DirectTime(r) * DetourNum + MotionDt * DetourDen

VARIABLES
  engine,        \* config.dispatch.engine
  vehicle,       \* Vehicle: location, route, onboard, reposition_target
  segment,       \* World._seg: the way to the current target and the time spent on it
  status,        \* Request.status, "unborn" before the gateway emits it
  assigned,      \* Request.assigned_vehicle
  age,           \* time since request_time while waiting, since pickup_time on board
  phase          \* time since World last moved the vehicles

vars == <<engine, vehicle, segment, status, assigned, age, phase>>

TypeOK ==
  /\ engine \in Engines
  /\ vehicle \in [Vehicle -> [location : Int, route : Seq(Stop), onboard : Nat,
                              reposition_target : Int \cup {NoTarget}]]
  /\ segment \in [Vehicle -> [start : Int, to : Int, elapsed : Nat] \cup {NoSegment}]
  /\ \A v \in Vehicle :
       segment[v] = NoSegment \/ segment[v].elapsed < TravelTime(segment[v].start, segment[v].to)
  /\ status \in [Request -> {"unborn", "pending", "assigned", "onboard", "completed",
                             "rejected"}]
  /\ assigned \in [Request -> Vehicle \cup {NoVehicle}]
  /\ age \in [Request -> 0 .. AgeCap]
  /\ phase \in 0 .. MotionDt

\* World takes its first step at time 0.
Init ==
  /\ engine \in Engines
  /\ vehicle = [v \in Vehicle |-> [location |-> Depot[v], route |-> <<>>, onboard |-> 0,
                                   reposition_target |-> NoTarget]]
  /\ segment = [v \in Vehicle |-> NoSegment]
  /\ status = [r \in Request |-> "unborn"]
  /\ assigned = [r \in Request |-> NoVehicle]
  /\ age = [r \in Request |-> 0]
  /\ phase = MotionDt

-----------------------------------------------------------------------------
(***************************************************************************)
(* Time, demand and dispatch.                                              *)
(***************************************************************************)
\* Ages that matter: no engine takes a request that has waited for longer.
Oldest(r) == CASE status[r] = "pending" -> MaxWait + 1
               [] status[r] \in {"assigned", "onboard"} -> AgeCap
               [] OTHER -> 0

Tick ==
  /\ phase < MotionDt
  /\ phase' = phase + 1
  /\ age' = [r \in Request |-> IF age[r] < Oldest(r) THEN age[r] + 1 ELSE age[r]]
  /\ UNCHANGED <<engine, vehicle, segment, status, assigned>>

Emit(r) ==
  /\ status[r] = "unborn"
  /\ \E demand \in Demands : {r} \cup {q \in Request : status[q] # "unborn"} \subseteq demand
  /\ status' = [status EXCEPT ![r] = "pending"]
  /\ UNCHANGED <<engine, vehicle, segment, assigned, age, phase>>

\* What the configured engine may propose for r on the vehicles of a worker.
Plans(owned, r) ==
  LET candidates == [v \in owned |-> vehicle[v]]
  IN  IF engine = "insertion" THEN InsertionPlans(candidates, r, age)
                              ELSE NearestIdlePlans(candidates, r)

\* Mutant: a vehicle that gets a route keeps its reposition target.
DispatchKeepsTarget(owned, r) ==
  /\ status[r] = "pending"
  /\ LET plans == Plans(owned, r)
     IN  \/ \E plan \in plans :
              /\ vehicle' = [vehicle EXCEPT ![plan.vehicle_id].route = plan.new_route]
              /\ status' = [status EXCEPT ![r] = "assigned"]
              /\ assigned' = [assigned EXCEPT ![r] = plan.vehicle_id]
         \/ /\ plans = {}
            /\ status' = [status EXCEPT ![r] = "rejected"]
            /\ UNCHANGED <<vehicle, assigned>>
  /\ age' = [age EXCEPT ![r] = IF status'[r] = "rejected" THEN 0 ELSE @]
  /\ UNCHANGED <<engine, segment, phase>>

\* _try_dispatch.
Dispatch(owned, r) ==
  /\ status[r] = "pending"
  /\ LET plans == Plans(owned, r)
     IN  \/ \E plan \in plans :
              /\ vehicle' = [vehicle EXCEPT ![plan.vehicle_id].route = plan.new_route,
                                            ![plan.vehicle_id].reposition_target = NoTarget]
              /\ status' = [status EXCEPT ![r] = "assigned"]
              /\ assigned' = [assigned EXCEPT ![r] = plan.vehicle_id]
         \/ /\ plans = {}
            /\ status' = [status EXCEPT ![r] = "rejected"]
            /\ UNCHANGED <<vehicle, assigned>>
  /\ age' = [age EXCEPT ![r] = IF status'[r] = "rejected" THEN 0 ELSE @]
  /\ UNCHANGED <<engine, segment, phase>>

\* _rebalance_idle sends an idle vehicle to a cell where a request was rejected.
Rebalance(v, r) ==
  /\ status[r] = "rejected"
  /\ vehicle[v].route = <<>> /\ vehicle[v].reposition_target = NoTarget
  /\ TravelTime(vehicle[v].location, CellCenter[r]) > MinMove
  /\ vehicle' = [vehicle EXCEPT ![v].reposition_target = CellCenter[r]]
  /\ UNCHANGED <<engine, segment, status, assigned, age, phase>>

-----------------------------------------------------------------------------
(***************************************************************************)
(* World.                                                                  *)
(***************************************************************************)
\* _segment: the cached way to the target, or a new one from here.
SegmentTo(v, target) ==
  IF segment[v] # NoSegment /\ segment[v].to = target
  THEN segment[v]
  ELSE [start |-> vehicle[v].location, to |-> target, elapsed |-> 0]

\* Mutant: the time already spent on the segment is forgotten.
RemainingFromStart(seg) == TravelTime(seg.start, seg.to)

Remaining(seg) == TravelTime(seg.start, seg.to) - seg.elapsed

\* Time until the vehicle reaches every stop of its route.
Reach(v) ==
  LET route == vehicle[v].route
      first == Remaining(SegmentTo(v, Place(route[1])))
      later == Eta(Place(route[1]), Tail(route))
  IN  [i \in 1 .. Len(route) |-> first + later[i - 1]]

\* Number of stops that one step of World serves: a stop is looked at only while
\* some of the step's time is left.
ServedStops(v) ==
  LET reach == Reach(v)
  IN  Cardinality({i \in DOMAIN reach : /\ reach[i] <= MotionDt
                                        /\ i > 1 => reach[i - 1] < MotionDt})

\* Mutant: a party counts as one passenger.
OnboardRequests(v) ==
  LET route == vehicle[v].route
      onboard[i \in 0 .. Len(route)] ==
        IF i = 0 THEN vehicle[v].onboard
        ELSE IF route[i].stop_type = "pickup" THEN onboard[i - 1] + 1
             ELSE IF onboard[i - 1] > 1 THEN onboard[i - 1] - 1 ELSE 0
  IN  onboard

\* _process_stop on the number of passengers: what it is after every stop.
Onboard(v) ==
  LET route == vehicle[v].route
      onboard[i \in 0 .. Len(route)] ==
        IF i = 0 THEN vehicle[v].onboard
        ELSE LET party == PartySize[route[i].request]
             IN  IF route[i].stop_type = "pickup" THEN onboard[i - 1] + party
                 ELSE IF onboard[i - 1] > party THEN onboard[i - 1] - party ELSE 0
  IN  onboard

\* _advance: the vehicle and its segment after a step that serves k stops.
Advanced(v, k) ==
  LET route  == SubSeq(vehicle[v].route, k + 1, Len(vehicle[v].route))
      here   == IF k = 0 THEN vehicle[v].location ELSE Place(vehicle[v].route[k])
      time   == IF k = 0 THEN MotionDt ELSE MotionDt - Reach(v)[k]
      goal   == vehicle[v].reposition_target
      target == IF route = <<>> THEN goal ELSE Place(route[1])
      seg    == IF k = 0 THEN SegmentTo(v, target)
                ELSE [start |-> here, to |-> target, elapsed |-> 0]
      at(place, heading) == [location |-> place, route |-> route, onboard |-> Onboard(v)[k],
                             reposition_target |-> heading]
  IN  IF time = 0 \/ target = NoTarget
      THEN [vehicle |-> at(here, goal), segment |-> NoSegment]
      ELSE IF time >= Remaining(seg)
      THEN [vehicle |-> at(target, NoTarget), segment |-> NoSegment]
      ELSE [vehicle |-> at(RoadPoint(seg.start, seg.to, seg.elapsed + time), goal),
            segment |-> [seg EXCEPT !.elapsed = @ + time]]

\* Mutant: a dropoff in the step of its pickup is overwritten by the pickup.
StatusPickupWins(served, r) ==
  IF Pickup(r) \in served THEN "onboard"
  ELSE IF Dropoff(r) \in served THEN "completed"
  ELSE status[r]

\* _process_stop on a request, for the stops served in a step.
StatusAfter(served, r) ==
  IF Dropoff(r) \in served THEN "completed"
  ELSE IF Pickup(r) \in served THEN "onboard"
  ELSE status[r]

\* run of World: every vehicle moves for motion_dt.
WorldStep ==
  /\ phase = MotionDt
  /\ phase' = 0
  /\ \E stops \in {[v \in Vehicle |-> ServedStops(v)]} :
       LET moved  == [v \in Vehicle |-> Advanced(v, stops[v])]
           served == UNION {{vehicle[v].route[i] : i \in 1 .. stops[v]} : v \in Vehicle}
       IN  /\ vehicle' = [v \in Vehicle |-> moved[v].vehicle]
           /\ segment' = [v \in Vehicle |-> moved[v].segment]
           /\ status' = [r \in Request |-> StatusAfter(served, r)]
           /\ age' = [r \in Request |->
                IF {Pickup(r), Dropoff(r)} \cap served # {} THEN 0 ELSE age[r]]
  /\ UNCHANGED <<engine, assigned>>

Next ==
  \/ Tick
  \/ \E r \in Request : Emit(r)
  \/ \E owned \in SUBSET Vehicle, r \in Request : Dispatch(owned, r)
  \/ \E v \in Vehicle, r \in Request : Rebalance(v, r)
  \/ WorldStep

Spec == Init /\ [][Next]_vars

\* World's loop sleeps motion_dt and goes on for ever.
FairSpec == Spec /\ WF_vars(Tick) /\ WF_vars(WorldStep)

-----------------------------------------------------------------------------
(***************************************************************************)
(* Properties.                                                             *)
(***************************************************************************)
Riding(v, s) == {r \in Request : assigned[r] = v /\ status[r] = s}

\* Routes, passengers and requests agree: a route serves exactly the requests
\* assigned to its vehicle that are not completed, each pickup before its dropoff
\* and none twice, and onboard counts the parties between the two.
RoutesServeBookings ==
  \A v \in Vehicle :
    LET route   == vehicle[v].route
        waiting == Riding(v, "assigned")
        aboard  == Riding(v, "onboard")
    IN  /\ IsInjective(route)
        /\ ToSet(route) = {Pickup(r) : r \in waiting}
                            \cup {Dropoff(r) : r \in waiting \cup aboard}
        /\ \A i, j \in 1 .. Len(route) :
             route[i].request = route[j].request /\ i < j => route[i].stop_type = "pickup"
        /\ vehicle[v].onboard = MapThenSumSet(LAMBDA r : PartySize[r], aboard)

\* No vehicle has, or will have along its route, more passengers than seats.
WithinCapacity ==
  engine = "insertion" =>
    \A v \in Vehicle : \A i \in 0 .. Len(vehicle[v].route) :
      Load(vehicle[v].onboard, vehicle[v].route)[i] <= Capacity

\* Whoever is booked later, a passenger waits at most max_wait, plus one step of
\* World, which serves and stamps stops every motion_dt only (insertion.py:98-104).
WaitHonoured ==
  engine = "insertion" =>
    \A r \in Request : status[r] = "assigned" => age[r] <= MaxWait + MotionDt

\* Whoever is booked after boarding, a ride takes at most the direct time times
\* max_detour_factor, plus one step of World (insertion.py:101-103).
DetourHonoured ==
  engine = "insertion" =>
    \A r \in Request : status[r] = "onboard" /\ DirectTime(r) > 0 =>
      (age[r] - MotionDt) * DetourDen <= DirectTime(r) * DetourNum

\* The baseline never pools (baseline.py:3-5).
BaselineDoesNotPool ==
  engine = "baseline" =>
    \A v \in Vehicle : Cardinality(Riding(v, "assigned") \cup Riding(v, "onboard")) <= 1

\* A vehicle drives to a demand cell only while it has nobody to serve
\* (models.py:85): passengers' routes never end in a leftover deadhead.
DeadheadOnlyWhenIdle ==
  \A v \in Vehicle : vehicle[v].route # <<>> => vehicle[v].reposition_target = NoTarget

\* All ways to cut the route in three and put r's stops between the parts.
Interleavings(route, r) ==
  {SubSeq(route, 1, cut[1]) \o <<Pickup(r)>> \o SubSeq(route, cut[1] + 1, cut[2])
     \o <<Dropoff(r)>> \o SubSeq(route, cut[2] + 1, Len(route)) :
     cut \in {x \in (0 .. Len(route)) \X (0 .. Len(route)) : x[1] <= x[2]}}

\* The engine rejects a request only if no vehicle can take it in without breaking
\* a limit or the order of its stops, and otherwise adds as little travel as any
\* (insertion.py:3-10).
EngineMissesNothing ==
  engine = "insertion" =>
    \A r \in Request : status[r] = "pending" =>
      LET costs == UNION {{AddedCost(vehicle[v], route) :
                             route \in {x \in Interleavings(vehicle[v].route, r) :
                                          Feasible(x, vehicle[v], age)}} : v \in Vehicle}
          chosen == {p.added_cost : p \in Plans(Vehicle, r)}
      IN  chosen = {c \in costs : \A d \in costs : c <= d}

\* Every booked passenger arrives.
BookedArrive ==
  \A r \in Request : (status[r] = "assigned") ~> (status[r] = "completed")
=============================================================================
