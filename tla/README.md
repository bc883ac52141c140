# Verification of drt-dispatch-sim

TLA+ modules, TLC runs and TLAPS proofs for `drt_sim`, a simulator of a
distributed dispatch system for demand-responsive transport. Sources are cited
relative to `src/drt_sim/` unless they start with `README.md` or `tests/`.

* [1. The system](#1-the-system)
* [2. Modules and how they correspond to the
  code](#2-modules-and-how-they-correspond-to-the-code)
* [3. Runs](#3-runs)
* [4. Fairness](#4-fairness)
* [5. Proofs](#5-proofs)
* [6. Findings](#6-findings)
* [7. Abstractions](#7-abstractions)
* [8. Not modelled](#8-not-modelled)
* [9. Plan](#9-plan)

## 1. The system

All nodes are coroutines ("actors") of one runtime with one thread. Between two
`await`s an actor runs without interruption, so that is the size of a step in
the models. Nodes interact by messages over a bus that delays, reorders, drops
and duplicates them, and through three shared objects: the vehicle store, the
lease registry and the request registry.

| Component | State | Operations | Interacts with | Hard behaviour | What makes it correct |
|---|---|---|---|---|---|
| Sharding `sharding.py` | none (`ShardMap` values) | `owner_of_cell`, `build_shard_map`, `diff` | coordinator, worker, gateway | ties of the hash, order of the nodes | total map; a cell moves only away from a node that left or to one that joined |
| Gateway `gateway.py` | `_view`, `_buffer` | emit, snap, route by view, buffer before the first view | publishes requests to workers, receives views | stale view, requests before the first view | no request is dropped |
| Worker `worker.py` | `_view`, `pending`, `seen`, `_demand` | ingest with dedupe, batch, reroute, dispatch and commit, spill, idle rebalancing, heartbeat | bus, store, engine | duplicates, stale routing, queue limit, blocked commit | a request is decided once; none is lost or handed round for ever |
| Coordinator `coordinator.py` | `alive_workers`, `down_workers`, `shard_map`, `_spill_buffer`, `is_leader`; shared lease | track heartbeats, elect, detect failures, rebalance, reinject spills, publish views | bus, store (`reassign_owner`), lease | leader dies at any moment, partitions, joins while nobody leads | map, members, versions and vehicle owners agree; every view converges |
| SimBus `bus/sim_bus.py` | messages in flight, `partition` | publish, deliver later, lose, duplicate, cut off | everybody | reordering, loss, duplicates, partitions | (environment) |
| Vehicle store `store.py` | `_vehicles`, `_replica` | register, optimistic commit, change of owner, recover | workers, leader, World | read-plan-commit races, A-B-A of owners, recovery | an acknowledged booking is atomic and never lost |
| Dispatch engines `dispatch/` | none | cheapest feasible insertion; nearest idle vehicle | worker | limits of passengers already booked, index bounds | rejects only what is infeasible; existing passengers keep their limits |
| World `world.py` | `_seg`, vehicles' location, route, onboard; requests' status and stamps | move by `motion_dt`, pick up, drop off, finish a deadhead | store, registry, router | interleaved with route changes; several stops in a step | routes, passengers and requests agree; promises hold; everyone arrives |
| Routing `routing.py` | caches | polyline between two points | World | a road is not the straight line | the schedule is that of the straight line |
| Cluster controller `cluster.py` | the wiring | start, kill, add a worker, partition, heal | all | faults at any moment | (environment) |
| Simulation runtime `sim_clock.py` | event heap, inboxes, coroutines | spawn, kill, deliver, sleep, receive | all | kill with steps scheduled, wake-up races | one resumption per await; messages in order, once, to the living |
| Asyncio runtime `async_runtime.py` | tasks, queues | the same interface | `live_cluster.py` | cancellation, calls that run late | the same |
| Redis mode `cluster_redis.py`, `bus/redis_bus.py` | lease key, streams, a cursor per process | acquire and renew, heartbeat, poll, report a view | processes | non-atomic renewal, TTL, late reads, crashes between any two commands | one leader at a time, a view that becomes true |
| Demand, virtual stops, geometry | random streams | sample requests, snap | gateway | two doors with one stop | (inputs) |
| Metrics, tracing, experiments, dashboard, CLI, config | statistics | read the state | all | none | none that is protocol |

Per-component status and the hazards, each with its line and the properties
that watch it, are in `PROJECT.json`.

## 2. Modules and how they correspond to the code

```
HrwSharding  <-EXTENDS-  DispatchCluster      control plane and request flow
AtomicAssignment  <-INSTANCE-  VehicleStore   one vehicle store, many writers
Insertion  <-EXTENDS-  Fleet                  data plane: engines and World
VirtualStops  <-EXTENDS-  MCFleet             where the requests of an instance are
Mailboxes  <-INSTANCE-  ActorRuntime  <-EXTENDS-  SimClock, AsyncRuntime
                        ActorRuntime  <-EXTENDS-  Runtimes   either runtime
RedisControl                                  the control plane of processes over Redis
```

`*_proofs` modules hold the theorems, `MC*` modules and their `.cfg` files the
instances. Every definition is mapped to its lines in `PROJECT.json`. An operator
whose comment starts with "Mutant:" is a wrong variant of the definition below it;
no specification uses one, and each property is known to fail under one.

**HrwSharding** (`sharding.py`). `Weight` is the SHA-256 weight of a cell and a
worker, left uninterpreted: any weights, ties included. `OwnerOfCell` is the
`max` over nodes sorted by id, so the smaller id (`Rank`) wins a tie.

**DispatchCluster** (`gateway.py`, `worker.py`, `coordinator.py`, `bus/sim_bus.py`,
`cluster.py`). One action per uninterrupted run of an actor.

| Variable | Code |
|---|---|
| `life`, `cut`, `faults` | actors alive, `SimBus.partition`, injected faults (bound) |
| `reqNet`, `spillNet`, `hbNet`, `viewNet` | messages scheduled by the bus or in a mailbox, by topic |
| `emitted`, `buffer`, `view` | emitted requests, `Gateway._buffer`, `_view` |
| `pending`, `seen`, `decisions` | `Worker.pending`, `Worker.seen`, the history of dispatch results |
| `owner` | `owner_node` of every vehicle |
| `lease`, `members`, `smap`, `spillBuf`, `overdue` | lease holder, `alive_workers`, `shard_map`, `_spill_buffer`, for which pairs of a coordinator and a worker `now - last_seen > heartbeat_timeout` |

`Emit` is the gateway's loop body; `GatewayReceivesView`, `WorkerReceivesView`,
`WorkerReceivesRequest` and `CoordinatorReceivesSpill` are the branches of
`_drain`/`_ingest`; `WorkerTick` is `_process_batch` (dispatch or reroute),
`_maybe_spill` and the heartbeat; `LeaderTick` is the whole coordinator loop of
the holder of the lease (ingest heartbeats with a rebalance per join, renew,
detect failures with one rebalance, reinject, publish), `FollowerTick` that of
another candidate; `KillWorker`, `KillLeader`, `AddWorker`, `SetPartition`,
`HealPartition` are the controls of `cluster.py`; `Duplicate` is the bus.

Three actions say when `heartbeat_timeout` may have passed (`coordinator.py:158-162`,
which tests every worker's `last_seen` by itself and does not ask why it is old):

- `HeartbeatTimeout(w)`: the worker is dead or cut off. Without a loss the candidates
  heard of it last within a latency and a tick of each other (0.1 s and 2 s by
  default), and a successor takes over no sooner than `lease_ttl` (5 s) after the last
  tick of the old leader, so no leader changes between their timeouts; they pass in one step.
- `CutOffTimeout(c, w)`: the coordinator is cut off. Each worker has a timeout of its
  own, in any order: one that joined has another phase than the rest.
- `HeartbeatsLost(c, w)`: the bus loses what the worker sends to this one coordinator
  (`sim_bus.py:86-88`) until the timeout has passed there. The worker may be running
  and connected, or dead (then this coordinator finds out before the others);
  `MaxLostSpells` bounds how often. A loss too short for that changes nothing.

In each of them a heartbeat sent afterwards is kept in flight until the coordinator
ingests it, which withdraws the timeout, or takes back a worker already removed.

**AtomicAssignment** is what `store.py:3-16` promises: a booking is one atomic
step of the vehicle's current owner on the current route, and is never taken back.

**VehicleStore** (`store.py`) has the optimistic commit apart from the planning:
`Plan` reads the vehicle with its version, `Commit` is `commit_assignment` that
succeeds, `CommitBlocked` one that fails and the worker's retry, `Reassign` is
`reassign_owner`, `Recover` is `recover_from_replica`. Both copies of every vehicle
are state; `migrations` and the plan's `since` are history for one property.
`BooksAtomically` is the refinement of AtomicAssignment.

**Insertion** (`dispatch/insertion.py`, `dispatch/baseline.py`): the search over
positions, the feasibility check of every passenger on a candidate route, the
cost, and the nearest idle vehicle, as operators on a vehicle.

**Fleet** (`world.py`, the dispatch and rebalancing part of `worker.py`).

| Variable | Code |
|---|---|
| `engine` | `config.dispatch.engine` |
| `vehicle` | `location`, `route`, `onboard`, `reposition_target` |
| `segment` | `World._seg`: start, target and time spent |
| `status`, `assigned` | `Request.status`, `assigned_vehicle` |
| `age` | now minus `request_time` while waiting, minus `pickup_time` on board |
| `phase` | time since World's last step |

`Tick` is time, `Dispatch` is `_try_dispatch` with either engine, `Rebalance` is
`_rebalance_idle` for one vehicle, `WorldStep` moves every vehicle by `motion_dt`
(`_advance`, `_process_stop`). A dispatch falls anywhere between two steps of
World, on any subset of the fleet, as the owner of any shard would. What changes along a
route (`Eta`, `Load`, `Onboard`, `Reach`) is a recursive function of the position.

**VirtualStops** (`dispatch/virtual_stop.py`, `gateway.py:70-84`): the grid of stops
and the snapping of a door to the nearest one within the walking distance. The
assumption `PlacesAreStops` of MCFleet says that the places of its requests are what
the gateway makes of their doors, so that the degenerate case the grid makes
possible, two doors with one stop, is part of the run.

**Mailboxes** is what a runtime promises its actors: messages delivered to a live
actor are handed over once and in order; a killed actor gets nothing more and a
spawned one starts empty.

**ActorRuntime, SimClock, AsyncRuntime** (`sim_clock.py`, `async_runtime.py`).
ActorRuntime has the state, the initial states and the properties; the other two the
steps of each runtime; Runtimes runs the same cluster on either, as `cluster.py`
does, which takes the runtime as an argument.

| Variable | `sim_clock.py` | `async_runtime.py` |
|---|---|---|
| `alive`, `running` | `_alive`; the coroutine has not ended | `_alive`; the task is not done |
| `waiting`, `inbox` | `_waiting`, `_inboxes` | blocked in `Queue.get`; the queue |
| `agenda` | the heap: steps, deliveries, faults, by (time, seq) | `call_later` calls, the start, wake-up or end of sleep of a task |
| `published`, `got`, `incarnation` | history (the first two) and bound | the same |

`StepToRecv`, `StepToSleep` and `StepToEnd` are the three ways in which a run of a
coroutine ends; `RunDelivery` is `deliver`; `Kill`, `Spawn`, `RunFault` are `kill`,
`spawn` and a fault scheduled by `cluster.py`. On SimClock only the head of the heap
runs, and the clock moves when nothing is due; on AsyncRuntime any due call may run
next and time passes regardless. There a kill cancels the task: `Cancelled` takes the one
call that would resume it out of the agenda. `ImplementsMailboxes` is the refinement: a mailbox
is the message that a scheduled step carries, if any, and then the inbox.

**RedisControl** (`cluster_redis.py`, `bus/redis_bus.py`). One action per Redis
command, so that any process, a crash or time may come between two of them.

| Variable | Code |
|---|---|
| `up`, `crashes` | processes that run, and the bound on crashes |
| `key`, `ttl` | the value of `drt:leader` and what is left of its `PX` |
| `unread` | what lies beyond each coordinator's stream cursor, as the set of workers heard |
| `stream` | the last entry of `cluster_view` |
| `pc`, `since`, `isLeader` | where in the loop of `run_coordinator_node`, time since its round began, `is_leader` |
| `lastSeen`, `reported` | ages of `last_seen`, `view["alive"]` |
| `quiet` | time since the worker's last heartbeat |

`TryAcquire`, `ReadHolder` and `Renew` are the three commands of `try_acquire`,
`PollAndReport` the rest of the round, `Subscribe` the fixing of the cursor,
`Heartbeat` the worker's `XADD`, `Tick` time.

## 3. Runs

States are distinct states. No run replaces a definition; every bound is a
constant, but for the constraint `OneSpell` of `membership`. Deadlock is checked in all of them but `runtime` and `respawn`, where every
actor may have ended or been killed with nothing left to do.

| Run | Instance | What it shows |
|---|---|---|
| `static` (51 700) | 2 workers, 2 candidates, 3 requests for one cell, queue limit 1, one duplicate, one leader kill | no request is decided twice by a worker, booked twice, reported rejected while it is carried, or lost, through spill, reinjection, duplicates and failover; and every emitted request is decided |
| `handover` (215 000) | 1 worker, another joins, one may die; 2 requests, queue limit 0 | reroutes and spills across a change of ownership book nobody twice and drop nobody |
| `membership` (569 800) | 2 workers, 1 coordinator; one worker or the coordinator is cut off and heals, or a worker's heartbeats are lost for a timeout (`OneSpell`) | workers are taken out one by one, together or to the last, and come back in every order: a version names one map; map, members and vehicle owners stay in step |
| `failover` (13 700) | 3 workers (with a tie of weights), 2 candidates, one worker and the leader die | map, members and owners agree after a failover, cells move minimally, orphaned vehicles find live owners, views converge |
| `store` (33 600) | 2 writers, 2 vehicles, 3 requests, 2 changes of owner per vehicle | an acknowledged booking is one atomic booking and is never lost; stale plans are fenced; retries succeed |
| `fleet` (135 300) | 2 vehicles, 3 requests or 2 of which one has both doors at one stop, places 0..4, 3 seats, wait 4, detour 2, `motion_dt` 2, both engines | routes and bookings agree; seats, waits and detours hold for all; deadheads never carry on into a route; the engine finds every feasible cheapest insertion; everyone booked arrives |
| `runtime` (38 000) | either runtime; an actor that blocks in `recv`, one that polls, spawned late, killed by a call or a scheduled fault or ended; 2 messages, latency 0 or 1, sleep 1 or 2, a fault due at 1 or in the past | one resumption per await, no lost wake-up, mailboxes as promised, what is given to an actor that lives on is received |
| `redis` (813 300) | 2 coordinators, 1 worker, TTL 4, round up to 2, renewal within 1 of its attempt, heartbeats every 1 to 2, timeout 2, two crashes | one leader at a time, never deposed; no live worker is reported down; the view becomes true |
| `replayed_spill`, `heal_then_failover`, `road`, `respawn` | | the findings of section 6 |

Why the bounds are enough. The protocol errors that the properties exclude need
two workers on one cell or one vehicle (a third to distinguish staying from
leaving), two candidates for a failover, one failure of each kind and a queue at
its limit; throughput, queue limit and reinjection rate are 1, 0 or 1, so a queue
is at its limit with a request or two. In `membership` nobody joins for the first time: a
worker that comes back and one that is new make the same changes (`coordinator.py:142-151`);
`handover` has the new one. Two changes of owner let a vehicle leave
and come back. In the fleet instance two requests overlap in the same direction,
one of them a party of two, and one comes the other way: TLC reaches routes of
five stops, three bookings on one vehicle, two parties on board at once, all
seats taken, and rides and waits beyond their limit by as much as the slack of one
step allows, so none of the limits holds for lack of a case. `Demands` bounds which
requests come up together. In the runtime instance a message can arrive before,
while and after its receiver waits, two can be due at once, and a kill can fall
between the scheduling of a step and the step; on AsyncRuntime the killed id is spawned
again, on SimClock not, since the program never does (`respawn` does). In the Redis
instance a unit of time stands for about 200 ms of the defaults (lease 800 ms, round
300 ms of sleep and up to 50 ms of poll, heartbeats every 300 ms); the slack between
round, call and TTL, and between heartbeats and their timeout (1000 ms by default), is
the least that `TimingAssumption` allows.

**Waits and detours, with their slack.** World serves stops every `motion_dt` only
and stamps them then, so a passenger planned to the limit may be stamped up to one
step late. `WaitHonoured` and `DetourHonoured` state the limits plus that one step:
lateness does not add up along a route or over later insertions. TLC shows that
without the slack both fail.

**Rides of length zero.** The engine skips the detour limit of a ride whose direct
time is zero (`insertion.py:127`), and the default configuration has such rides:
stops every 0.5, walks up to 0.4, doors 0.3 apart or more. `DetourHonoured` leaves
them out like the code. In the engine itself such a passenger can be carried around
between two stops at one place (212 s in one random small case); whether
`README.md:58`, which speaks of the limits of all passengers, means them too is for
its authors to say. All other properties include them.

## 4. Fairness

*DispatchCluster*: every actor that runs sleeps for a fixed time and is woken
(`sim_clock.py:149-192`), and drains its mailbox at each tick: weak fairness of the
ticks (a leader's tick takes in all that has arrived and publishes when due), of
the delivery of requests, spills and the oldest view in flight to each node (a
message has a finite delay, `sim_bus.py:105-111`), and of the heartbeat timeouts
(time passes). Faults, joins, emission and losses have none.

What the bus may lose (`loss_prob`): a request, a spill or a view that is lost stays in
flight for ever, which every safety run allows. A lost heartbeat shows only through the
timeout, which is why `HeartbeatsLost` is an action; `membership` takes it, and the
theorems of section 5 cover it unless their condition names it. `static` (its membership is
fixed), `handover` and `failover` have no lost spell. The liveness properties are about
a bus that loses nothing: no lost spell, and fairness delivers the rest.

*VehicleStore*: a worker keeps planning the requests it holds and commits what it
planned. *Fleet*: time passes and World's loop never ends. The dispatch itself
needs no fairness.

*Runtimes*: on SimClock `run_until` takes the next call and the clock moves when
none is due; on AsyncRuntime time passes and the event loop gets round to every task
and every call that is due. *RedisControl*: time passes, and a process that has not
crashed goes on. How late it may be is not fairness but the guard `Punctual` of
`Tick`: the timeouts of the code presuppose a round shorter than the lease.

## 5. Proofs

Every invariant and every action property that a passing run checks is stated by a
theorem, and so are both refinements. What follows from which assumptions:

| Theorems | Beyond the named assumptions on the constants |
|---|---|
| `TypeCorrect` (three modules), `RuntimeTypeCorrect` | nothing |
| `ShardMapIsTotal`, `MinimalMovement`, `CellsMoveMinimally`, `DecidedAtMostOncePerWorker` | nothing |
| `BookingsAreKept`, `MigrationFencesCommits`, `StoreImplementsAtomicAssignment` | nothing |
| `AtMostOneLeader`, `LeaderIsNotDeposed`, `LiveWorkersAreReported` | nothing (`TimingAssumption` is about constants) |
| `EveryActorIsResumedOnce`, `NoWakeUpIsLost`, `MailboxesAreImplemented` | nothing |
| `OnlyTheIdleDeadhead`, `RoutesAreOfBookings`, `TheBaselineNeverPools`, `SeatsSuffice`, `TheEngineMissesNothing` | nothing |
| `FleetTypeCorrect` | `Roads`: what the router returns is a place |
| `WaitsAreHonoured`, `DetoursAreHonoured` | `EvenRoads`: from the point of a road the rest takes the rest of the time |
| `VersionsIdentifyMapsUntilFailover`, `MapFollowsMembershipUntilFailover`, `OwnershipFollowsMapUntilFailover` | `NoLeaderKilled` |
| `MapFollowsMembershipWhileNobodyJoins` | `NobodyJoined`: any deaths, partitions and losses, of leaders too |
| `OwnershipFollowsMapAcrossFailover` | none beside those in the property: `OnlyDeaths` (nobody has joined or been cut off, no worker timed out over lost heartbeats) and a worker is left |
| `RequestsAreNotLost` | a candidate runs (the property itself speaks of runs without worker losses) |
| `NoDoubleBookingWhileStatic`, `BookedStaysAssignedWhileStatic` | `StaticMembership`: no worker died, joined, was cut off or timed out over lost heartbeats |
| `NoDoubleBookingWhileUnreplayed`, `BookedStaysAssignedWhileUnreplayed` | `Unreplayed`: no leader was killed, nothing duplicated |

The named assumptions (`WeightAssumption`, `RankAssumption`, `ConfigAssumption`,
`IdAssumption`, `StoreAssumption`, `DemandAssumption`, `FleetAssumption`,
`RuntimeAssumption`) say no more than that the constants have their types, identifiers of
different kinds differ, workers and initial actors are finite sets and rates positive; and, for RedisControl, `TimingAssumption`, of which
the proofs of the lease need `MaxRound + MaxCall < LeaseTtl` (a coordinator comes round
and finishes its renewal before its lease is out) and that of `LiveWorkersAreReported`
`HbInterval + MaxLag <= HbTimeout` (a heartbeat, late as it may be, comes within the
timeout).

The conditions in the right column are conditions on the state, not on the model: the
theorem is about every behaviour, up to the first fault that breaks the condition. They
are needed. `replayed_spill`, `heal_then_failover` and `road` are runs in which the
property fails without its condition, and section 6 names the faults that break the
control-plane properties beyond theirs.

*HrwSharding_proofs.* `Beats` is asymmetric and total, and among the workers of
highest weight one has the lowest rank, so every non-empty set of workers has exactly
one winner per cell. Then
`ShardMapIsTotal` (every cell has an owner among the nodes) and `MinimalMovement`
(between two worker sets a cell moves only if its old owner left or its new
owner is new), ties included.

*DispatchCluster_proofs.*
- `TypeCorrect`: inductive is `TypeInv == TypeOK /\ MapsBuilt`:
  `TypeOK` alone does not say that a coordinator's map is the map of its own node
  set, which is what makes the next map's owners well defined.
- `DecidedAtMostOncePerWorker`: the property is not
  inductive, since a queue could hold a request twice, or hold one already decided. The
  strengthening `DedupeInv` says that queues hold no request twice
  (`QueuesDistinct`), that what is queued is in `seen` (`QueuedIsSeen`), and that what
  a worker has decided is in its `seen` and out of its queue (`DecidedIsDone`). Each
  way into and out of the queue preserves it.
- `CellsMoveMinimally`: from `MinimalMovement` and `MapsBuilt`.

*ControlPlane_proofs.* A tick of a leader goes through a list of maps, one per join and
one for the failures; `TickMapsInOrder` says that their versions go up and that the last
one is of the surviving members.
- `FirstTermInv`, until a leader is killed: the followers still hold the first map, every
  map in a view, in flight or in use is one the leader had, and versions are in the order
  in which it had them; members, map and owners go together; before the first election
  nothing has happened to the membership.
- `JoinlessInv`, where nobody has joined, whatever else happens: candidates that have not
  led hold the first map and the first members (`CandidatesKeepFirstView`), since only
  first workers are ever heard (`OnlyFirstWorkersHeard`) and only a leader removes one; so
  a successor starts with a map of its members and rebalances with every change of
  them. A partition or a lost heartbeat removes nobody from a follower's view.
- `DeathsInv`, where nothing happens but deaths: no live worker is ever missed
  (`NobodyMissed`), and whoever an earlier leader removed is overdue for every
  candidate (`CandidatesKnowTheDead`), so the successor's first tick, from its stale
  map, ends with the same members as its predecessor's last. Rendezvous hashing then gives
  the same owners. When no worker is left nobody rebalances, which is why the property
  asks for one. The condition cannot be weakened to partitions or lost heartbeats: either way
  the dead leader may have moved the vehicles of a worker that its successor never
  misses (`heal_then_failover`).

*RequestFlow_proofs.*
- `RequestsAreNotLost`: `ReachInv` (every map that anyone holds gives each cell to a worker
  that can be reached) and `FlowInv` (what a worker has seen is decided or queued; an
  emitted request is in the buffer, in flight, queued, decided, or held by *every* live
  candidate). The last disjunct is what survives a failover, and what `replayed_spill`
  costs.
- While the membership is static, `StaticInv`: there is one map, so copies of a request
  are only ever at the worker of its cell, which decides it at most once by `DedupeInv`,
  whatever is duplicated or replayed.
- Until something is replayed, `SoleCopyInv`: `Places` is where a request is, counting
  only the leader's copy of a spill, and it has at most one element. Every action that
  moves a request empties one place and fills another.

*VehicleStore_proofs.* `StoreInv`: the replica equals the authoritative copy, a plan
never has a later version than its vehicle, a plan with the current version was
made on the current route and since the last change of owner, and routes hold exactly the
acknowledged bookings. From it `TypeCorrect`, `BookingsAreKept`, `MigrationFencesCommits`
and `StoreImplementsAtomicAssignment` (initial states map to initial states; `Commit`
maps to `Book`, `Reassign` to `Migrate`, every other step to a stutter).

*RedisControl_proofs.* `OneLeader` is not inductive: it says nothing of the key.
`LeaseInv` adds that a live leader holds the key
(`LeaderHoldsKey`), that a coordinator between `GET` and `SET` still does
(`RenewerHoldsKey`), that the time left exceeds what may pass before its next attempt
(`LeaseOutlastsRound`) and that a renewal is not held up (`CallsAreShort`). From it
`AtMostOneLeader` and `LeaderIsNotDeposed`. Without the assumption on the timing the
separate `GET` and `SET` let a slow coordinator overwrite the lease of another.
`LiveWorkersAreReported` needs `HeartbeatInv`: a coordinator that has heard a worker and
has nothing of it unread does not think it older than its last heartbeat is
(`MemoryIsFresh`), and one that has not read yet leads nobody (`NewIsUninformed`).

*Fleet_proofs.* The argument follows the data: what a route is, what a dispatch does to
one, what a step of World does to one.
- Recursive functions of a position are reasoned about by induction on positions, which
  the proofs get from the least position where a claim fails (`LeastNatural`,
  `PositionInduction`): a function with the recurrence exists (`StepwiseExists`), so
  `EtaSteps`, `LoadSteps`, `OnboardSteps` and `ReachSteps` give the steps of each. The
  number of passengers of a set of parties is characterised the same way, by its least
  subset (`SubsetInduction`, `CountExists`, `CountIsUnique`).
- `InsertedByEngine`: the two `insort`s of a plan put pickup and dropoff at two positions
  and keep the order of the rest. Everything about a dispatch follows from that.
- `Shape` types vehicles and requests; with it `OnlyTheIdleDeadhead`.
- `Bookings`: each vehicle's route has the pickups of those who wait for it and the
  dropoffs of those who wait or ride, once each and in order, its count is that of those on
  board, and who is booked has a vehicle. An insertion keeps it (`InsertedFits`) and so
  does serving the front of a route (`RestFits`). It gives `RoutesAreOfBookings`, and with
  `ServedAlone` `TheBaselineNeverPools`. With the load along a route that is served from
  the front (`LoadOfRest`) it gives `SeatsSuffice`.
- `Whereabouts` (on `Roads`): a vehicle is on a way to its first stop that it has not
  finished, or at a place.
- `PromisesKept` (on `EvenRoads`): by the plan's own times, measured from the last step of
  World, every pickup is within the wait and every dropoff within the detour limit. The
  engine checks it of a new route for everybody on it (`FeasiblePromises`), and a step of
  World takes as much off the plan as off the clock (`PromisesAfterStep`), since on even
  roads World reaches each stop when the plan says (`ReachIsEta`). The slack of a step is
  between what the clock shows and when World looks. `StraightRoadsAreEven` shows that the
  straight router meets the condition.
- `TheEngineMissesNothing`: inserting at position i and then j with i <= j gives exactly the
  interleavings of the property (`EngineTriesAll`), so the cheapest feasible insertion is
  the cheapest feasible interleaving.

*Runtimes_proofs.* Both runtimes at once, by the mode. The agenda is a sequence; what the
proofs use of it is what one call more (`Put`, `Scheduled`) and one call less (`Taken`,
`Rest`) do to the calls that would resume an actor.
- `RuntimeInv`: pending calls are typed and in the order of their time, and for each actor
  `Resumption`: one step if it runs and does not wait; none if it waits or has ended, or is
  dead and the runtime cancels; a waiting actor runs with an empty inbox. It gives
  `RuntimeTypeCorrect`, `EveryActorIsResumedOnce` and `NoWakeUpIsLost`. On the virtual-time
  runtime nothing is said of the dead, whose step stays in the heap; hence it needs that an
  id is spawned once there (`respawn` shows what happens otherwise).
- `MailboxesAreImplemented`: every step is a delivery, a receipt of the oldest messages, a
  kill or a spawn of one mailbox, or leaves all as they are (`Promise`). That a mailbox is
  well defined, one message in a step and then the inbox, rests on `Resumption`.

TLC finds `FirstTermInv`, `JoinlessInv`, `DeathsInv`, `SoleCopyInv` and `PromisesKept` to hold as
invariants of the instances of section 3 too.

Only model-checked: liveness (`OrphansRecovered`, `ViewsConverge`, `EventuallyDecided`,
`EventuallyBooked`, `BookedArrive`, `EventuallyReceived`, `ViewBecomesTrue`), which TLAPS
does not prove under fairness; and the counterexamples of section 6.

## 6. Findings

Each is a run that TLC refutes; all but `respawn` were also reproduced by running the
code itself.

- `replayed_spill`: every candidate buffers every spilled request, only the leader
  drains. A promoted one feeds back what the dead leader had fed back already; a
  worker that inherited the cell has not seen the ids and books them again.
- `heal_then_failover`: the dead leader had moved the vehicles of a worker that was
  cut off; its successor leads with its own older map and does not reconcile the
  owners, so routing and ownership disagree.
- `road`: with a road router the vehicle's location is a point of the road while its
  remaining time is that of the straight line; the engine plans from the location
  and promises waits that cannot be kept. The default configuration uses such a router
  (`config/default.yaml`).
- `respawn`: `SimRuntime.kill` says that the id may be spawned again after a
  failure, but leaves the actor's scheduled step in the heap, where it is found by
  id: it resumes the new coroutine beside the coroutine's own first step. Nothing in
  the program spawns a killed id today. `AsyncioRuntime` cancels the task and has no
  such step.

Beyond the fault bounds of the passing runs, and with no run of their own because they
have the cause of `heal_then_failover`, a promoted candidate's stale map (TLC finds each
by raising the bounds as said; the last two were reproduced by running the code):

- the owners disagree just so if the worker was not cut off but the bus lost its
  heartbeats to the leader (`heal_then_failover` with no partition and one lost spell);
- a follower that hears of a new worker adds it to `alive_workers` and does not rebalance;
  promoted, it leads with a map that leaves the worker out, which owns no cell until
  the membership changes again (`LeaderMapFollowsMembership` fails in `heal_then_failover`
  with one initial worker instead of two and no partition);
- a promoted candidate counts versions from its own map: with two workers dead, the old
  leader's map without the first and its successor's without either are both version 1
  (`VersionIdentifiesMap` fails in `failover` with two worker kills).

No property is stated for two more observations: over Redis a new leader that finds
what its own view began with publishes nothing, so the last entry of the stream may
remain the dead leader's; and the renewal is by "the owner only" (a comment at
`cluster_redis.py:43`) only as long as the coordinator is punctual.

## 7. Abstractions

- A mailbox is merged with the messages in flight: taking a message out touches only
  state that no other actor reads before the next tick. Heartbeats, whose ingestion
  can rebalance, are ingested by the coordinator's tick itself.
- A message in flight to a node that is cut off is delivered after the heal or never.
- `is_leader` and the lease are one: that a leader which runs loses its lease is left out,
  since it renews at each tick, long before `lease_ttl`.
- Only heartbeats that matter are kept in flight (of a worker the coordinator does not
  hold alive, or one that ends a timeout); a view already held is not kept twice.
- The gateway's end at `duration` and handoff notices, which change no state, are
  left out.
- A commit cannot fail in DispatchCluster: planning and committing have no `await`
  between them. VehicleStore is where they are apart, as `tests/test_no_double_assign.py`
  drives them. Its routes are sets of requests, and World's changes are not part of it, so
  neither is a replica that is stale because World moved the vehicle (`store.py:121`).
- The engine in DispatchCluster may answer with any vehicle of the worker or none.
- Fleet has integer places on a line and unit speed; what the code relies on, additive
  times and the triangle inequality, is kept. Ages are relative to now and saturate at
  `AgeCap`, above every limit they are compared with. Which of two equally cheap
  insertions wins is left open.
- The decaying demand signal of `_rebalance_idle` is any rejected request, and its
  decision for all idle vehicles a sequence of decisions for one.
- `StraightRoad` is the straight router; `LoopRoad` is one road on which the location
  comes near the end before its time.
- The runtimes' actors are reduced to how they suspend: `recv`, `try_recv` and sleep, or
  return. Times are integers and relative to now.
- Polling and the report that follows are one step of RedisControl: between them the
  coordinator uses only what it read, and the key is not touched. Ages saturate
  above the timeout. The version number of a view and the 1000-entry trimming of
  streams are left out, and a poll reads all there is (the code: up to 256 entries).

## 8. Not modelled

- Demand sampling, the projection and hexagonal cells: inputs that the models leave open.
- `AsyncioRuntime.kill` of an actor whose spawn is still pending because the loop has not
  started: no caller does so. `SimRuntime.run_forever`: nothing calls it. An actor
  that raises: it stops the program.
- The OSM graph behind the road router, and its caches: a road is any function of time.
- `simulator.py`: an earlier prototype that nothing in the distributed program imports.
- Metrics, tracing, experiments, dashboard, CLI, configuration: they read or wire what
  the models describe.

## 9. Plan

Items 1 to 6 are built.

1. Control plane and request flow: HrwSharding, DispatchCluster, their proofs.
2. Store: AtomicAssignment, VehicleStore, the refinement and its proofs.
3. Data plane: Insertion, Fleet.
4. Runtimes: Mailboxes, ActorRuntime, SimClock, AsyncRuntime, Runtimes.
5. RedisControl and its proofs; VirtualStops.
6. Proofs of every invariant and action property of the passing runs.
7. Left: what the control plane keeps across a failover after a join or a partition, if
   the promoted candidate reconciled its map (section 6 says that it does not), and
   the replica of a vehicle that World has moved since it was copied.
