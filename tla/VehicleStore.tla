---------------------------- MODULE VehicleStore ----------------------------
(***************************************************************************)
(* The vehicle store of drt_sim (store.py) under writers that plan on a    *)
(* vehicle they read and commit later, as tests/test_no_double_assign.py   *)
(* drives it and as the store is meant for deployments of one process per  *)
(* shard.  In the simulator itself a worker reads and commits in one       *)
(* uninterrupted step (DispatchCluster).                                   *)
(*                                                                         *)
(* A route is abstracted to the requests it serves.  World, which takes    *)
(* stops off a route between the workers' steps, is not part of this       *)
(* module.                                                                 *)
(***************************************************************************)
EXTENDS Naturals

CONSTANTS Node,           \* workers, the writers
          Vehicle,
          Request,
          NoPlan, NoBooking,
          MaxMigrations   \* bound on the changes of owner of a vehicle

ASSUME StoreAssumption ==
  /\ MaxMigrations \in Nat
  /\ NoPlan \notin [by : Node, vehicle : Vehicle, expected_version : Nat,
                    new_route : SUBSET Request, since : Nat]
  /\ NoBooking \notin [by : Node, on : Vehicle]

VARIABLES
  vehicles,     \* _vehicles: owner_node, version and route of every vehicle
  replica,      \* _replica: the follower's copy of every vehicle
  plan,         \* request -> the InsertionPlan a worker holds for it
  booking,      \* request -> the commit that was acknowledged
  migrations    \* history: changes of owner of every vehicle

vars == <<vehicles, replica, plan, booking, migrations>>

VehicleState == [owner_node : Node, version : Nat, route : SUBSET Request]

\* An InsertionPlan with the worker that holds it.  `since` is history: the
\* changes of owner the vehicle had seen when it was read.
InsertionPlan == [by : Node, vehicle : Vehicle, expected_version : Nat,
                  new_route : SUBSET Request, since : Nat]

Booking == [by : Node, on : Vehicle]

TypeOK ==
  /\ vehicles \in [Vehicle -> VehicleState]
  /\ replica \in [Vehicle -> VehicleState]
  /\ plan \in [Request -> InsertionPlan \cup {NoPlan}]
  /\ booking \in [Request -> Booking \cup {NoBooking}]
  /\ migrations \in [Vehicle -> Nat]

\* register of every vehicle.
Init ==
  /\ \E owner \in [Vehicle -> Node] :
       vehicles = [v \in Vehicle |-> [owner_node |-> owner[v], version |-> 0, route |-> {}]]
  /\ replica = vehicles
  /\ plan = [r \in Request |-> NoPlan]
  /\ booking = [r \in Request |-> NoBooking]
  /\ migrations = [v \in Vehicle |-> 0]

\* Mutant: the write is not copied to the follower.
NotReplicated(v, state) ==
  /\ vehicles' = [vehicles EXCEPT ![v] = state]
  /\ UNCHANGED replica

\* A write to the authoritative copy with its _replicate.
Write(v, state) ==
  /\ vehicles' = [vehicles EXCEPT ![v] = state]
  /\ replica' = [replica EXCEPT ![v] = state]

\* Mutant: the plan carries the version before the one it read.
PlanOnOlderVersion(n, v, r) ==
  /\ booking[r] = NoBooking /\ plan[r] = NoPlan
  /\ vehicles[v].owner_node = n
  /\ plan' = [plan EXCEPT ![r] =
       [by |-> n, vehicle |-> v, expected_version |-> vehicles[v].version - 1,
        new_route |-> vehicles[v].route \cup {r}, since |-> migrations[v]]]
  /\ UNCHANGED <<vehicles, replica, booking, migrations>>

\* vehicles_owned_by and the engine: worker n plans request r on a vehicle of its
\* own and takes the vehicle's version along.  Two workers that hold the same
\* request are a matter of DispatchCluster: here one plans it at a time.
Plan(n, v, r) ==
  /\ booking[r] = NoBooking /\ plan[r] = NoPlan
  /\ vehicles[v].owner_node = n
  /\ plan' = [plan EXCEPT ![r] =
       [by |-> n, vehicle |-> v, expected_version |-> vehicles[v].version,
        new_route |-> vehicles[v].route \cup {r}, since |-> migrations[v]]]
  /\ UNCHANGED <<vehicles, replica, booking, migrations>>

\* Mutant: the version is not compared.
OwnerMayWrite(p) == vehicles[p.vehicle].owner_node = p.by

\* commit_assignment accepts the plan: the writer is the owner and nobody has
\* written since it read.
Accepts(p) ==
  /\ vehicles[p.vehicle].owner_node = p.by
  /\ vehicles[p.vehicle].version = p.expected_version

Commit(r) ==
  LET p == plan[r]
      v == vehicles[p.vehicle]
  IN  /\ p # NoPlan
      /\ Accepts(p)
      /\ Write(p.vehicle, [owner_node |-> v.owner_node, version |-> v.version + 1,
                            route |-> p.new_route])
      /\ booking' = [booking EXCEPT ![r] = [by |-> p.by, on |-> p.vehicle]]
      /\ plan' = [plan EXCEPT ![r] = NoPlan]
      /\ UNCHANGED migrations

\* Mutant: a worker whose commit was blocked sticks to its plan.
KeepPlan(r) ==
  /\ plan[r] # NoPlan
  /\ ~ Accepts(plan[r])
  /\ UNCHANGED vars

\* not_owner or version_conflict: the worker drops the plan and will try again.
CommitBlocked(r) ==
  /\ plan[r] # NoPlan
  /\ ~ Accepts(plan[r])
  /\ plan' = [plan EXCEPT ![r] = NoPlan]
  /\ UNCHANGED <<vehicles, replica, booking, migrations>>

\* Mutant: a change of owner keeps the version.
ReassignSameVersion(v, n) ==
  /\ migrations[v] < MaxMigrations
  /\ n # vehicles[v].owner_node
  /\ Write(v, [vehicles[v] EXCEPT !.owner_node = n])
  /\ migrations' = [migrations EXCEPT ![v] = @ + 1]
  /\ UNCHANGED <<plan, booking>>

\* reassign_owner, which the leader calls when the map names another worker.
Reassign(v, n) ==
  /\ migrations[v] < MaxMigrations
  /\ n # vehicles[v].owner_node
  /\ Write(v, [owner_node |-> n, version |-> vehicles[v].version + 1,
               route |-> vehicles[v].route])
  /\ migrations' = [migrations EXCEPT ![v] = @ + 1]
  /\ UNCHANGED <<plan, booking>>

\* recover_from_replica.
Recover(v) ==
  /\ vehicles' = [vehicles EXCEPT ![v] = replica[v]]
  /\ UNCHANGED <<replica, plan, booking, migrations>>

Next ==
  \/ \E n \in Node, v \in Vehicle, r \in Request : Plan(n, v, r)
  \/ \E r \in Request : Commit(r)
  \/ \E r \in Request : CommitBlocked(r)
  \/ \E v \in Vehicle, n \in Node : Reassign(v, n)
  \/ \E v \in Vehicle : Recover(v)

Spec == Init /\ [][Next]_vars

\* A worker ticks for ever: it plans a request it holds and commits what it planned.
Fairness ==
  \A r \in Request :
    /\ WF_vars(\E n \in Node, v \in Vehicle : Plan(n, v, r))
    /\ WF_vars(Commit(r) \/ CommitBlocked(r))

FairSpec == Spec /\ Fairness

-----------------------------------------------------------------------------
(***************************************************************************)
(* Properties.                                                             *)
(***************************************************************************)
\* A request that a commit acknowledged is on the route of that vehicle, and a
\* route serves nobody else: no concurrent commit, change of owner or recovery
\* loses it or leaves it on a second vehicle (store.py:8-16).
NoLostAssignment ==
  \A v \in Vehicle :
    vehicles[v].route = {r \in Request : booking[r] # NoBooking /\ booking[r].on = v}

\* A commit whose plan was made before the vehicle last changed its owner never
\* succeeds, also when the vehicle has come back to the same owner since
\* (store.py:100).
NoCommitAcrossMigration ==
  [][\A r \in Request :
       booking[r] = NoBooking /\ booking'[r] # NoBooking
         => plan[r].since = migrations[plan[r].vehicle]]_vars

\* Optimistic commits make progress: a writer is blocked only because another one
\* wrote, so every request is booked once the fleet stops migrating.
EventuallyBooked == \A r \in Request : <>(booking[r] # NoBooking)

\* The store implements the abstract one: every commit that succeeds is one
\* atomic booking by the owner of that moment on the route of that moment.
Abstract ==
  INSTANCE AtomicAssignment WITH
    owner <- [v \in Vehicle |-> vehicles[v].owner_node],
    route <- [v \in Vehicle |-> vehicles[v].route]

BooksAtomically == Abstract!Spec
=============================================================================
