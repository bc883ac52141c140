---------------------------- MODULE DispatchCluster ----------------------------
(***************************************************************************)
(* The dispatch cluster of drt_sim: the gateway emits ride requests and    *)
(* routes them by the cluster view, workers queue and dispatch them, the   *)
(* coordinators elect a leader that watches heartbeats, reassigns shards,  *)
(* publishes views and feeds spilled requests back, all over a bus that    *)
(* delays, reorders and duplicates messages and cuts partitioned nodes off.*)
(*                                                                         *)
(* One action is one uninterrupted run of an actor between two awaits      *)
(* (src/drt_sim/sim_clock.py, async_runtime.py: one thread, no preemption).*)
(* An actor's mailbox is part of its messages in flight: taking a message  *)
(* out at delivery touches only state that no other actor reads before the *)
(* next tick.  Heartbeats, whose ingestion can rebalance the cluster, are  *)
(* therefore ingested by the tick itself.                                  *)
(***************************************************************************)
EXTENDS HrwSharding, SequencesExt

CONSTANTS
  Coordinator,        \* coordinator candidates
  Gateway,            \* the gateway's actor id
  Request,            \* ride requests the demand generator will emit
  Vehicle,
  PickupCell,         \* cell of a request's (snapped) origin
  HomeCell,           \* cell a vehicle was placed in
  InitialWorkers,
  ThroughputPerTick,  \* requests a worker handles per tick
  QueueHighWater,     \* backlog above which a worker spills
  ReinjectPerTick,    \* spilled requests the leader feeds back per tick
  NoView,             \* a node that has received no view yet
  NoPlan,             \* the engine found no feasible insertion
  Nobody              \* no lease holder, no owner

CONSTANTS             \* bounds on the environment
  Partitions,         \* sets of nodes the control panel may cut off
  MaxWorkerKills, MaxLeaderKills, MaxPartitions, MaxDuplicates,
  MaxLostSpells       \* times that a coordinator times a worker out over lost heartbeats

FaultKind == {"kill_worker", "kill_leader", "partition", "duplicate", "lost_spell"}

Actor == Worker \cup Coordinator \cup {Gateway}
Viewer == Worker \cup {Gateway}      \* subscribers of CLUSTER_STATE

ASSUME ConfigAssumption ==
  /\ PickupCell \in [Request -> Cell]
  /\ HomeCell \in [Vehicle -> Cell]
  /\ InitialWorkers \subseteq Worker /\ InitialWorkers # {}
  /\ ThroughputPerTick \in Nat \ {0}
  /\ QueueHighWater \in Nat
  /\ ReinjectPerTick \in Nat \ {0}
  /\ Partitions \subseteq SUBSET (Worker \cup Coordinator)
  /\ {MaxWorkerKills, MaxLeaderKills, MaxPartitions, MaxDuplicates, MaxLostSpells} \subseteq Nat

ASSUME IdAssumption ==
  /\ IsFiniteSet(Worker)
  /\ Worker \cap Coordinator = {} /\ Gateway \notin Worker \cup Coordinator
  /\ Nobody \notin Actor
  /\ NoPlan \notin Vehicle
  /\ NoView \notin ShardMap

VARIABLES
  life,       \* actor -> "unborn" (a worker not added yet), "up" or "dead"
  cut,        \* SimBus.partition: nodes cut off from the bus
  faults,     \* faults injected so far, by kind
  reqNet,     \* worker -> request -> copies in flight on the worker's topic
  spillNet,   \* coordinator -> request -> copies in flight on SPILL
  hbNet,      \* <<coordinator, worker>>: a heartbeat that will matter is in flight
  viewNet,    \* <<viewer, shard map>>: cluster views in flight
  emitted,    \* requests the gateway has emitted
  buffer,     \* Gateway._buffer: requests waiting for the first view
  view,       \* _view of every worker and of the gateway
  pending,    \* Worker.pending
  seen,       \* Worker.seen, the ids the worker deduplicates on
  decisions,  \* request -> what workers decided, in order: which vehicle or NoPlan
  owner,      \* owner_node of every vehicle in the store
  lease,      \* LeaseRegistry.holder
  members,    \* Coordinator.alive_workers
  smap,       \* Coordinator.shard_map
  spillBuf,   \* Coordinator._spill_buffer
  overdue     \* <<coordinator, worker>>: heartbeat_timeout has passed

envVars     == <<life, cut, faults>>
netVars     == <<reqNet, spillNet, hbNet, viewNet>>
gatewayVars == <<emitted, buffer>>
workerVars  == <<pending, seen, decisions>>
controlVars == <<lease, members, smap, spillBuf, overdue>>
vars == <<envVars, netVars, gatewayVars, view, workerVars, owner, controlVars>>

TypeOK ==
  /\ life \in [Actor -> {"unborn", "up", "dead"}]
  /\ cut \subseteq Worker \cup Coordinator
  /\ faults \in [FaultKind -> Nat]
  /\ reqNet \in [Worker -> [Request -> Nat]]
  /\ spillNet \in [Coordinator -> [Request -> Nat]]
  /\ hbNet \subseteq Coordinator \X Worker
  /\ viewNet \subseteq Viewer \X ShardMap
  /\ emitted \subseteq Request /\ buffer \subseteq emitted
  /\ view \in [Viewer -> ShardMap \cup {NoView}]
  /\ pending \in [Worker -> Seq(Request)]
  /\ seen \in [Worker -> SUBSET Request]
  /\ decisions \in [Request -> Seq([by : Worker, on : Vehicle \cup {NoPlan}])]
  /\ owner \in [Vehicle -> Worker]
  /\ lease \in Coordinator \cup {Nobody}
  /\ members \in [Coordinator -> SUBSET Worker]
  /\ smap \in [Coordinator -> ShardMap]
  /\ spillBuf \in [Coordinator -> Seq(Request)]
  /\ overdue \subseteq Coordinator \X Worker

InitialMap == BuildShardMap(InitialWorkers, 0)

Init ==
  /\ life = [a \in Actor |-> IF a \in Worker \ InitialWorkers THEN "unborn" ELSE "up"]
  /\ cut = {}
  /\ faults = [f \in FaultKind |-> 0]
  /\ reqNet = [w \in Worker |-> [r \in Request |-> 0]]
  /\ spillNet = [c \in Coordinator |-> [r \in Request |-> 0]]
  /\ hbNet = {} /\ viewNet = {}
  /\ emitted = {} /\ buffer = {}
  /\ view = [a \in Viewer |-> NoView]
  /\ pending = [w \in Worker |-> <<>>]
  /\ seen = [w \in Worker |-> {}]
  /\ decisions = [r \in Request |-> <<>>]
  /\ owner = [v \in Vehicle |-> InitialMap.cell_owner[HomeCell[v]]]
  /\ lease = Nobody
  /\ members = [c \in Coordinator |-> InitialWorkers]
  /\ smap = [c \in Coordinator |-> InitialMap]
  /\ spillBuf = [c \in Coordinator |-> <<>>]
  /\ overdue = {}

-----------------------------------------------------------------------------
(***************************************************************************)
(* The bus.  publish drops what a cut-off sender says and what is for a    *)
(* cut-off receiver; a request, spill or view in flight may stay there for *)
(* ever, which is how its loss looks.  The loss of heartbeats shows when   *)
(* heartbeat_timeout has passed (HeartbeatsLost).                          *)
(***************************************************************************)
Least(a, b) == IF a < b THEN a ELSE b

Up(a) == life[a] = "up"

Reaches(from, to) == Up(to) /\ from \notin cut /\ to \notin cut

OwnerIn(map, cell) == IF map = NoView THEN Nobody ELSE map.cell_owner[cell]

\* reqNet once `from` has published copies[r] copies of every request r to the
\* topic of the worker that `map` makes the owner of its pickup cell.
Forward(from, map, copies) ==
  [w \in Worker |-> [r \in Request |->
     reqNet[w][r] + IF OwnerIn(map, PickupCell[r]) = w /\ Reaches(from, w)
                    THEN copies[r] ELSE 0]]

OneEach(rs) == [r \in Request |-> IF r \in rs THEN 1 ELSE 0]

\* Mutant: a view is sent only to nodes that have none yet.
PublishedToNewcomers(from, maps) ==
  {x \in Viewer \X maps : Reaches(from, x[1]) /\ view[x[1]] = NoView}

\* Views that `from` puts in flight when it publishes `maps`.  One that repeats
\* what its receiver holds, with no other view on its way there, changes nothing
\* when it arrives and is not kept.
Published(from, maps) ==
  {x \in Viewer \X maps :
     /\ Reaches(from, x[1])
     /\ ~ (maps = {view[x[1]]} /\ \A y \in viewNet : y[1] # x[1])}

\* _deliver_to's dup_prob: a second copy of a message in flight.
Duplicate ==
  /\ faults["duplicate"] < MaxDuplicates
  /\ faults' = [faults EXCEPT !["duplicate"] = @ + 1]
  /\ \E r \in Request :
       \/ /\ \E w \in Worker : /\ reqNet[w][r] > 0
                               /\ reqNet' = [reqNet EXCEPT ![w][r] = @ + 1]
          /\ UNCHANGED spillNet
       \/ /\ \E c \in Coordinator : /\ spillNet[c][r] > 0
                                    /\ spillNet' = [spillNet EXCEPT ![c][r] = @ + 1]
          /\ UNCHANGED reqNet
  /\ UNCHANGED <<life, cut, hbNet, viewNet, gatewayVars, view, workerVars, owner,
                 controlVars>>

-----------------------------------------------------------------------------
(***************************************************************************)
(* The gateway.                                                            *)
(***************************************************************************)
Emit(r) ==
  /\ r \notin emitted
  /\ emitted' = emitted \cup {r}
  /\ IF view[Gateway] = NoView
     THEN buffer' = buffer \cup {r} /\ UNCHANGED reqNet
     ELSE /\ reqNet' = Forward(Gateway, view[Gateway], OneEach({r}))
          /\ UNCHANGED buffer
  /\ UNCHANGED <<envVars, spillNet, hbNet, viewNet, view, workerVars, owner, controlVars>>

\* Mutant: the buffer is flushed before the new view is in place.
FlushBeforeView(m) ==
  /\ <<Gateway, m>> \in viewNet
  /\ viewNet' = viewNet \ {<<Gateway, m>>}
  /\ reqNet' = Forward(Gateway, view[Gateway], OneEach(buffer))
  /\ view' = [view EXCEPT ![Gateway] = m]
  /\ buffer' = {}
  /\ UNCHANGED <<envVars, spillNet, hbNet, emitted, workerVars, owner, controlVars>>

\* _drain with its _flush_buffer.
GatewayReceivesView(m) ==
  /\ <<Gateway, m>> \in viewNet
  /\ viewNet' = viewNet \ {<<Gateway, m>>}
  /\ view' = [view EXCEPT ![Gateway] = m]
  /\ reqNet' = Forward(Gateway, m, OneEach(buffer))
  /\ buffer' = {}
  /\ UNCHANGED <<envVars, spillNet, hbNet, emitted, workerVars, owner, controlVars>>

-----------------------------------------------------------------------------
(***************************************************************************)
(* A dispatch worker.                                                      *)
(***************************************************************************)
WorkerReceivesView(w, m) ==
  /\ Up(w)
  /\ <<w, m>> \in viewNet
  /\ viewNet' = viewNet \ {<<w, m>>}
  /\ view' = [view EXCEPT ![w] = m]
  /\ UNCHANGED <<envVars, reqNet, spillNet, hbNet, gatewayVars, workerVars, owner,
                 controlVars>>

\* Mutant: a request is queued without the check against seen.
IngestAnyCopy(w, r) ==
  /\ Up(w)
  /\ reqNet[w][r] > 0
  /\ reqNet' = [reqNet EXCEPT ![w][r] = @ - 1]
  /\ seen' = [seen EXCEPT ![w] = @ \cup {r}]
  /\ pending' = [pending EXCEPT ![w] = Append(@, r)]
  /\ UNCHANGED <<envVars, spillNet, hbNet, viewNet, gatewayVars, view, decisions, owner,
                 controlVars>>

\* Mutant: a request is handed over although no copy of it is in the mailbox.
IngestFromEmptyMailbox(w, r) ==
  /\ Up(w)
  /\ r \in emitted
  /\ reqNet' = [reqNet EXCEPT ![w][r] = @ - 1]
  /\ IF r \in seen[w]
     THEN UNCHANGED <<pending, seen>>
     ELSE /\ seen' = [seen EXCEPT ![w] = @ \cup {r}]
          /\ pending' = [pending EXCEPT ![w] = Append(@, r)]
  /\ UNCHANGED <<envVars, spillNet, hbNet, viewNet, gatewayVars, view, decisions, owner,
                 controlVars>>

\* _ingest of a request: a copy of one the worker has seen is dropped.
WorkerReceivesRequest(w, r) ==
  /\ Up(w)
  /\ reqNet[w][r] > 0
  /\ reqNet' = [reqNet EXCEPT ![w][r] = @ - 1]
  /\ IF r \in seen[w]
     THEN UNCHANGED <<pending, seen>>
     ELSE /\ seen' = [seen EXCEPT ![w] = @ \cup {r}]
          /\ pending' = [pending EXCEPT ![w] = Append(@, r)]
  /\ UNCHANGED <<envVars, spillNet, hbNet, viewNet, gatewayVars, view, decisions, owner,
                 controlVars>>

\* The head of the queue that this tick handles, and what stays behind it.
BatchSize(w) == Least(Len(pending[w]), ThroughputPerTick)

Batch(w) == {pending[w][i] : i \in 1 .. BatchSize(w)}

\* Mutant: the last request of the batch stays in the queue.
BacklogOffByOne(w) == SubSeq(pending[w], ThroughputPerTick, Len(pending[w]))

Backlog(w) == SubSeq(pending[w], BatchSize(w) + 1, Len(pending[w]))

\* Requests of the batch whose cell another worker owns in this worker's view.
Rerouted(w) ==
  {r \in Batch(w) : OwnerIn(view[w], PickupCell[r]) \notin {Nobody, w}}

\* Mutant: a rerouted request is dispatched as well.
DispatchedAnyway(w) == Batch(w)

Dispatched(w) == Batch(w) \ Rerouted(w)

\* Requests above the high-water mark, taken from the tail.
Spilled(w) == {Backlog(w)[i] : i \in QueueHighWater + 1 .. Len(Backlog(w))}

\* Mutant: a spilled request stays in seen.
ReleasedOnReroute(w) == Rerouted(w)

\* What the worker hands on, and may therefore receive anew.
Released(w) == Rerouted(w) \cup Spilled(w)

OwnedBy(w) == {v \in Vehicle : owner[v] = w}

\* _process_batch, _maybe_spill and, when it is due, the heartbeat.  The engine
\* plans over the vehicles the store says the worker owns or finds no plan; the
\* commit follows without an await, so the owner and the version it checks are
\* the ones the plan was made on and it succeeds.  Of the heartbeats only those
\* are kept in flight that will change what a coordinator knows.
WorkerTick(w, beats) ==
  /\ Up(w)
  /\ \E plan \in [Dispatched(w) -> OwnedBy(w) \cup {NoPlan}] :
       decisions' = [r \in Request |->
          IF r \in Dispatched(w) THEN Append(decisions[r], [by |-> w, on |-> plan[r]])
                                 ELSE decisions[r]]
  /\ pending' = [pending EXCEPT ![w] =
       SubSeq(Backlog(w), 1, Least(Len(Backlog(w)), QueueHighWater))]
  /\ seen' = [seen EXCEPT ![w] = @ \ Released(w)]
  /\ reqNet' = Forward(w, view[w], OneEach(Rerouted(w)))
  /\ spillNet' = [c \in Coordinator |-> [r \in Request |->
       spillNet[c][r] + IF r \in Spilled(w) /\ Reaches(w, c) THEN 1 ELSE 0]]
  /\ hbNet' = hbNet \cup
       {x \in Coordinator \X {w} :
          beats /\ Reaches(w, x[1]) /\ (w \notin members[x[1]] \/ x \in overdue)}
  /\ UNCHANGED <<envVars, viewNet, gatewayVars, view, owner, controlVars>>

-----------------------------------------------------------------------------
(***************************************************************************)
(* A coordinator.  is_leader, as its last tick left it, is lease = c: a    *)
(* leader that runs renews its lease long before lease_ttl has passed.     *)
(***************************************************************************)
\* LeaseRegistry.try_acquire succeeds: the lease is free, its own, or it ran out
\* because its holder died.
CanLead(c) == lease \in {Nobody, c} \/ (lease # Nobody /\ life[lease] = "dead")

\* Mutant: a candidate that does not lead drops spilled requests.
OnlyLeaderBuffers(c, r) ==
  /\ Up(c)
  /\ spillNet[c][r] > 0
  /\ spillNet' = [spillNet EXCEPT ![c][r] = @ - 1]
  /\ spillBuf' = IF lease = c THEN [spillBuf EXCEPT ![c] = Append(@, r)] ELSE spillBuf
  /\ UNCHANGED <<envVars, reqNet, hbNet, viewNet, gatewayVars, view, workerVars, owner,
                 lease, members, smap, overdue>>

\* _ingest of a spilled request: every candidate buffers it.
CoordinatorReceivesSpill(c, r) ==
  /\ Up(c)
  /\ spillNet[c][r] > 0
  /\ spillNet' = [spillNet EXCEPT ![c][r] = @ - 1]
  /\ spillBuf' = [spillBuf EXCEPT ![c] = Append(@, r)]
  /\ UNCHANGED <<envVars, reqNet, hbNet, viewNet, gatewayVars, view, workerVars, owner,
                 lease, members, smap, overdue>>

Arrived(c) == {w \in Worker : <<c, w>> \in hbNet}

\* A candidate that does not get the lease only keeps its membership up to date.
FollowerTick(c, heard) ==
  /\ Up(c) /\ ~ CanLead(c)
  /\ heard \subseteq Arrived(c)
  /\ hbNet' = hbNet \ ({c} \X heard)
  /\ members' = [members EXCEPT ![c] = @ \cup heard]
  /\ overdue' = overdue \ ({c} \X heard)
  /\ UNCHANGED <<envVars, reqNet, spillNet, viewNet, gatewayVars, view, workerVars, owner,
                 lease, smap, spillBuf>>

\* Mutant: a join is recorded without a rebalance.
JoinWithoutRebalance(c, joins) == <<>>

\* Maps of the rebalances that a leader makes while it ingests the heartbeats of
\* unknown or downed workers in the given order: one rebalance per join.
JoinMaps(c, joins) ==
  IF lease # c THEN <<>>
  ELSE [i \in DOMAIN joins |->
          BuildShardMap(members[c] \cup {joins[j] : j \in 1 .. i}, smap[c].version + i)]

MapAfterJoins(c, joins) ==
  LET maps == JoinMaps(c, joins) IN IF maps = <<>> THEN smap[c] ELSE Last(maps)

\* Members whose heartbeat_timeout has passed after those just heard.
NewlyDown(c, heard) ==
  {w \in members[c] \cup heard : <<c, w>> \in overdue /\ w \notin heard}

Survivors(c, heard) == (members[c] \cup heard) \ NewlyDown(c, heard)

\* Mutant: a leader that has just taken over removes the dead without a rebalance.
ReshardedByIncumbent(c, heard) ==
  lease = c /\ NewlyDown(c, heard) # {} /\ Survivors(c, heard) # {}

\* _detect_failures rebalances once for all it found, unless nobody is left.
Resharded(c, heard) == NewlyDown(c, heard) # {} /\ Survivors(c, heard) # {}

\* Mutant: the rebalance after a failure keeps the version.
NewMapSameVersion(c, heard, joins) ==
  LET map == MapAfterJoins(c, joins)
  IN IF Resharded(c, heard) THEN BuildShardMap(Survivors(c, heard), map.version) ELSE map

NewMap(c, heard, joins) ==
  LET map == MapAfterJoins(c, joins)
  IN IF Resharded(c, heard) THEN BuildShardMap(Survivors(c, heard), map.version + 1)
                            ELSE map

\* Mutant: only the vehicles of workers that left find a new owner.
RehomeOrphansOnly(c, map) ==
  [v \in Vehicle |-> IF owner[v] \in map.nodes THEN owner[v]
                     ELSE map.cell_owner[HomeCell[v]]]

\* Mutant: the vehicles move before the new map is in place.
RehomedByOldMap(c, map) ==
  IF map = smap[c] THEN owner ELSE [v \in Vehicle |-> smap[c].cell_owner[HomeCell[v]]]

\* A rebalance moves every vehicle to the worker that its home cell now has.
Rehomed(c, map) ==
  IF map = smap[c] THEN owner ELSE [v \in Vehicle |-> map.cell_owner[HomeCell[v]]]

ReinjectSize(c) == Least(Len(spillBuf[c]), ReinjectPerTick)

\* How often _reinject_spill publishes each request: the buffer may hold a
\* request more than once.
Reinjected(c) ==
  [r \in Request |-> Cardinality({i \in 1 .. ReinjectSize(c) : spillBuf[c][i] = r})]

\* The leader ingests heartbeats (a join rebalances), takes or renews the lease,
\* detects failures, feeds spilled requests back and publishes its view when one
\* is due, always after an election or a rebalance.
LeaderTick(c, heard, joins, due) ==
  /\ Up(c) /\ CanLead(c)
  /\ heard \subseteq Arrived(c)
  /\ joins \in SetToSeqs(heard \ members[c])
  /\ lease' = c
  /\ hbNet' = hbNet \ ({c} \X heard)
  /\ members' = [members EXCEPT ![c] = Survivors(c, heard)]
  /\ overdue' = overdue \ ({c} \X (heard \cup NewlyDown(c, heard)))
  /\ smap' = [smap EXCEPT ![c] = NewMap(c, heard, joins)]
  /\ owner' = Rehomed(c, smap'[c])
  /\ reqNet' = Forward(c, smap'[c], Reinjected(c))
  /\ spillBuf' = [spillBuf EXCEPT ![c] = SubSeq(@, ReinjectSize(c) + 1, Len(@))]
  /\ viewNet' = viewNet \cup Published(c, ToSet(JoinMaps(c, joins)) \cup
       IF due \/ lease # c \/ Resharded(c, heard) THEN {smap'[c]} ELSE {})
  /\ UNCHANGED <<envVars, spillNet, gatewayVars, view, workerVars>>

-----------------------------------------------------------------------------
(***************************************************************************)
(* Faults and the control panel (cluster.py), and the passing of time.     *)
(***************************************************************************)
\* Runtime.kill: the actor never runs again and its mailbox is gone.
KillWorker(w) ==
  /\ Up(w)
  /\ faults["kill_worker"] < MaxWorkerKills
  /\ faults' = [faults EXCEPT !["kill_worker"] = @ + 1]
  /\ life' = [life EXCEPT ![w] = "dead"]
  /\ pending' = [pending EXCEPT ![w] = <<>>]
  /\ reqNet' = [reqNet EXCEPT ![w] = [r \in Request |-> 0]]
  /\ viewNet' = {x \in viewNet : x[1] # w}
  /\ UNCHANGED <<cut, spillNet, hbNet, gatewayVars, view, seen, decisions, owner, controlVars>>

KillLeader ==
  /\ lease # Nobody /\ Up(lease)
  /\ faults["kill_leader"] < MaxLeaderKills
  /\ faults' = [faults EXCEPT !["kill_leader"] = @ + 1]
  /\ life' = [life EXCEPT ![lease] = "dead"]
  /\ spillNet' = [spillNet EXCEPT ![lease] = [r \in Request |-> 0]]
  /\ spillBuf' = [spillBuf EXCEPT ![lease] = <<>>]
  /\ hbNet' = hbNet \ ({lease} \X Worker)
  /\ UNCHANGED <<cut, reqNet, viewNet, gatewayVars, view, workerVars, owner, lease, members,
                 smap, overdue>>

\* The new worker runs with an empty queue and no view; its heartbeat announces it.
\* The control panel opens once the candidates have ticked, at time 0.
AddWorker(w) ==
  /\ life[w] = "unborn"
  /\ lease # Nobody
  /\ life' = [life EXCEPT ![w] = "up"]
  /\ UNCHANGED <<cut, faults, netVars, gatewayVars, view, workerVars, owner, controlVars>>

\* set_partition replaces the set of cut-off nodes; heal_partition empties it.
SetPartition(nodes) ==
  /\ nodes # {} /\ nodes # cut
  /\ faults["partition"] < MaxPartitions
  /\ faults' = [faults EXCEPT !["partition"] = @ + 1]
  /\ cut' = nodes
  /\ UNCHANGED <<life, netVars, gatewayVars, view, workerVars, owner, controlVars>>

HealPartition ==
  /\ cut # {}
  /\ cut' = {}
  /\ UNCHANGED <<life, faults, netVars, gatewayVars, view, workerVars, owner, controlVars>>

\* Nothing of worker w reaches coordinator c any more.
Silent(c, w) ==
  /\ life[w] = "dead" \/ c \in cut \/ w \in cut
  /\ <<c, w>> \notin hbNet

\* heartbeat_timeout has passed since each of these coordinators heard of the worker.
\* Every candidate has ticked, at time 0, before the first timeout.
TimeOut(due) ==
  /\ lease # Nobody
  /\ ~ due \subseteq overdue
  /\ overdue' = overdue \cup due
  /\ UNCHANGED <<life, cut, netVars, gatewayVars, view, workerVars, owner, lease, members,
                 smap, spillBuf>>

\* The timeout of a worker that is dead or cut off.  It passes at every coordinator
\* at once: without a loss last_seen differs between them by a latency and a tick,
\* and a successor takes over no sooner than lease_ttl after the last tick of the old
\* leader.  Messages on their way arrive long before.
HeartbeatTimeout(w) ==
  LET due == {c \in Coordinator : Up(c) /\ w \in members[c]} \X {w}
  IN /\ life[w] = "dead" \/ w \in cut
     /\ \A x \in due : Silent(x[1], w)
     /\ TimeOut(due)
     /\ UNCHANGED faults

\* At a coordinator that is cut off every worker has a timeout of its own.
CutOffTimeout(c, w) ==
  /\ c \in cut /\ Up(c)
  /\ w \in members[c]
  /\ Silent(c, w)
  /\ TimeOut({<<c, w>>})
  /\ UNCHANGED faults

\* _deliver_to's loss_prob: the bus loses what the worker sends to one coordinator,
\* heartbeat after heartbeat, until heartbeat_timeout has passed there.
HeartbeatsLost(c, w) ==
  /\ Up(c)
  /\ w \in members[c]
  /\ faults["lost_spell"] < MaxLostSpells
  /\ faults' = [faults EXCEPT !["lost_spell"] = @ + 1]
  /\ TimeOut({<<c, w>>})

-----------------------------------------------------------------------------
Next ==
  \/ Duplicate
  \/ \E r \in Request : Emit(r)
  \/ \E x \in viewNet : IF x[1] = Gateway THEN GatewayReceivesView(x[2])
                                          ELSE WorkerReceivesView(x[1], x[2])
  \/ \E w \in Worker, r \in Request : WorkerReceivesRequest(w, r)
  \/ \E w \in Worker, beats \in BOOLEAN : WorkerTick(w, beats)
  \/ \E c \in Coordinator, r \in Request : CoordinatorReceivesSpill(c, r)
  \/ \E c \in Coordinator : \E heard \in SUBSET Arrived(c) :
       \/ FollowerTick(c, heard)
       \/ \E joins \in SetToSeqs(heard \ members[c]), due \in BOOLEAN :
            LeaderTick(c, heard, joins, due)
  \/ \E w \in Worker : KillWorker(w) \/ AddWorker(w)
  \/ KillLeader
  \/ \E nodes \in Partitions : SetPartition(nodes)
  \/ HealPartition
  \/ \E w \in Worker : HeartbeatTimeout(w)
  \/ \E c \in Coordinator, w \in Worker : CutOffTimeout(c, w) \/ HeartbeatsLost(c, w)

Spec == Init /\ [][Next]_vars

(***************************************************************************)
(* Every actor's timer fires again and again, an actor drains its whole    *)
(* mailbox when it runs, and the bus delivers what it has scheduled, the   *)
(* oldest view first in the long run.  Losses have no fairness.            *)
(***************************************************************************)
OldestViewArrives(a) ==
  \E x \in viewNet :
    /\ x[1] = a
    /\ \A y \in viewNet : y[1] = a => x[2].version <= y[2].version
    /\ IF a = Gateway THEN GatewayReceivesView(x[2]) ELSE WorkerReceivesView(a, x[2])

FullLeaderTick(c) ==
  \E joins \in SetToSeqs(Arrived(c) \ members[c]) : LeaderTick(c, Arrived(c), joins, TRUE)

Fairness ==
  /\ \A a \in Viewer : WF_vars(OldestViewArrives(a))
  /\ \A w \in Worker : /\ WF_vars(WorkerTick(w, TRUE))
                       /\ WF_vars(HeartbeatTimeout(w))
                       /\ \A r \in Request : WF_vars(WorkerReceivesRequest(w, r))
  /\ \A c \in Coordinator : /\ WF_vars(FullLeaderTick(c))
                            /\ WF_vars(FollowerTick(c, Arrived(c)))
                            /\ \A w \in Worker : WF_vars(CutOffTimeout(c, w))
                            /\ \A r \in Request : WF_vars(CoordinatorReceivesSpill(c, r))

FairSpec == Spec /\ Fairness

-----------------------------------------------------------------------------
(***************************************************************************)
(* Safety.                                                                 *)
(***************************************************************************)
\* A worker decides a request at most once, however often the bus, a reroute or
\* the coordinators' reinjection hands it a copy: pending, seen and the discards
\* of seen on every way out of the queue keep in step (worker.py: _ingest,
\* _reroute, _maybe_spill).
AtMostOncePerWorker ==
  \A r \in Request : \A i, j \in DOMAIN decisions[r] :
    decisions[r][i].by = decisions[r][j].by => i = j

\* A passenger is booked on at most one vehicle, once (README.md, "at-least-once +
\* idempotence": a request is dispatched only once even if its message is delivered
\* twice).  It takes the dedupe of every worker and the routing together.
NoDoubleBooking ==
  \A r \in Request : \A i, j \in DOMAIN decisions[r] :
    decisions[r][i].on # NoPlan /\ decisions[r][j].on # NoPlan => i = j

\* A request that a vehicle carries is not reported as rejected: req.status holds
\* what was decided last (worker.py: _try_dispatch).
BookedStaysAssigned ==
  \A r \in Request : \A i \in DOMAIN decisions[r] :
    decisions[r][i].on # NoPlan => Last(decisions[r]).on # NoPlan

\* While no worker has died and nobody has been cut off, an emitted request that
\* nobody has decided is still somewhere: with the gateway, on its way, queued, or
\* spilled to a coordinator that runs.
NoRequestLost ==
  faults["kill_worker"] = 0 /\ faults["partition"] = 0 =>
    \A r \in emitted :
      \/ r \in buffer
      \/ decisions[r] # <<>>
      \/ \E w \in Worker : Up(w) /\ (reqNet[w][r] > 0 \/ Contains(pending[w], r))
      \/ \E c \in Coordinator : Up(c) /\ (spillNet[c][r] > 0 \/ Contains(spillBuf[c], r))

\* Every map in use with the same version is the same map: a node may tell by the
\* version alone whether its view is stale (sharding.py and protocol.py say so).
MapsInUse ==
  {smap[c] : c \in {d \in Coordinator : Up(d)}} \cup {x[2] : x \in viewNet}
    \cup ({view[a] : a \in {b \in Viewer : Up(b)}} \ {NoView})

VersionIdentifiesMap ==
  \A m1, m2 \in MapsInUse : m1.version = m2.version => m1 = m2

\* The leader's shard map is the map of the workers it holds alive: whatever
\* changed the membership was followed by a rebalance (coordinator.py, module
\* docstring).  A leader that holds nobody alive keeps its last map.
LeaderMapFollowsMembership ==
  lease # Nobody /\ Up(lease) /\ members[lease] # {} =>
    smap[lease].nodes = members[lease]

\* The store's vehicle owners and the leader's shard map say the same, so a request
\* that is routed by the map meets the vehicles of its cell (coordinator.py:
\* _rebalance moves both).
OwnershipFollowsMap ==
  lease # Nobody /\ Up(lease) =>
    \A v \in Vehicle : owner[v] = smap[lease].cell_owner[HomeCell[v]]

NobodyJoined == \A w \in Worker \ InitialWorkers : life[w] = "unborn"

\* Nothing has happened to the cluster but deaths: nobody has joined or been cut
\* off, and no heartbeats were lost for so long that a running worker timed out.
OnlyDeaths == NobodyJoined /\ faults["partition"] = 0 /\ faults["lost_spell"] = 0

\* Then they also say the same across failovers, from the moment a successor leads:
\* its first tick starts from a map that knows nothing of what the dead leader did
\* (coordinator.py: every candidate keeps the health of the workers).
OwnershipFollowsMapAcrossDeaths ==
  OnlyDeaths /\ (\E w \in Worker : Up(w)) => OwnershipFollowsMap

(***************************************************************************)
(* Steps.                                                                  *)
(***************************************************************************)
\* A coordinator's new map moves a cell only away from a worker that left or to a
\* worker that joined, never between two that stay (sharding.py: only part of the
\* cells move), also when one tick covers several joins and failures.
MinimalMigration ==
  [][\A c \in Coordinator : \A cell \in ChangedCells(smap'[c], smap[c]) :
       \/ smap[c].cell_owner[cell] \notin smap'[c].nodes
       \/ smap'[c].cell_owner[cell] \notin smap[c].nodes]_vars

(***************************************************************************)
(* Liveness.                                                               *)
(***************************************************************************)
\* Once the faults are over, vehicles of dead workers have found a live owner for
\* good, as long as a worker lives (failover without an operator).
OrphansRecovered ==
  (\E w \in Worker : [](Up(w))) => <>[](\A v \in Vehicle : Up(owner[v]))

\* Some candidate leads for good, and the gateway and every worker that runs end
\* up with its shard map: periodic publication makes views eventually consistent.
ViewsConverge ==
  <>[](/\ lease # Nobody /\ Up(lease)
       /\ \A a \in Viewer : Up(a) => view[a] = smap[lease])

\* Every emitted request is eventually assigned or rejected: spilling and
\* rerouting do not hand it round for ever.
EventuallyDecided ==
  \A r \in Request : r \in emitted ~> decisions[r] # <<>>
=============================================================================
