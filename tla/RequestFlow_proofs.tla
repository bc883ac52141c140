--------------------------- MODULE RequestFlow_proofs ---------------------------
(***************************************************************************)
(* Proofs about what becomes of a request in module DispatchCluster: none  *)
(* is lost while no worker dies and nobody is cut off, and none is booked  *)
(* twice while either the membership or the leader stays what it is.       *)
(***************************************************************************)
EXTENDS ControlPlane_proofs

-----------------------------------------------------------------------------
(***************************************************************************)
(* Without deaths of workers and without partitions every map that anyone  *)
(* holds gives each cell to a worker that can be reached.                  *)
(***************************************************************************)
NoLossSoFar == faults["kill_worker"] = 0 /\ faults["partition"] = 0

Serving(map) == \A cell \in Cell : map.cell_owner[cell] \in Worker /\ Up(map.cell_owner[cell])

NobodyOut == cut = {} /\ \A w \in Worker : life[w] # "dead"

MembersAreUp ==
  /\ \A c \in Coordinator : \A w \in members[c] : Up(w)
  /\ \A x \in hbNet : Up(x[2])

MapsServe ==
  /\ \A c \in Coordinator : Serving(smap[c])
  /\ \A x \in viewNet : Serving(x[2])
  /\ \A a \in Viewer : view[a] # NoView => Serving(view[a])

ReachInv == NoLossSoFar => NobodyOut /\ MembersAreUp /\ MapsServe

LEMMA BuiltMapServes ==
  ASSUME NEW m, Built(m), \A w \in m.nodes : Up(w)
  PROVE  Serving(m)
<1>1. /\ m.nodes \in SUBSET Worker /\ m.nodes # {} /\ m.version \in Nat
      /\ m = BuildShardMap(m.nodes, m.version)
  BY DEF Built, ShardMap
<1>2. \A cell \in Cell : m.cell_owner[cell] \in m.nodes
  BY <1>1, ShardMapIsTotal
<1>3. QED
  BY <1>1, <1>2 DEF Serving

LEMMA ReachInit == Init => ReachInv
<1> SUFFICES ASSUME Init PROVE ReachInv
  OBVIOUS
<1>1. \A w \in InitialWorkers : Up(w)
  BY ConfigAssumption DEF Init, Up, Actor
<1>2. NobodyOut /\ MembersAreUp
  BY <1>1 DEF Init, NobodyOut, MembersAreUp, Actor
<1>3. InitialMap.nodes = InitialWorkers
  BY DEF InitialMap, BuildShardMap
<1>4. Serving(InitialMap)
  BY <1>1, <1>3, InitialMapIsBuilt, BuiltMapServes
<1>5. MapsServe
  BY <1>4 DEF Init, MapsServe
<1>6. QED
  BY <1>2, <1>5 DEF ReachInv

\* The maps that a leader's tick brings into use serve every cell.
LEMMA TickMapsServe ==
  ASSUME TypeInv, MembersAreUp, MapsServe, NEW c \in Coordinator,
         NEW heard \in SUBSET Arrived(c), NEW joins \in SetToSeqs(heard \ members[c])
  PROVE  \A m \in MapsOfTick(c, heard, joins) : Serving(m)
<1>1. heard \in SUBSET Worker
  BY DEF Arrived
<1>2. \A w \in members[c] \cup heard : Up(w)
  BY DEF MembersAreUp, Arrived
<1>3. \A m \in MapsOfTick(c, heard, joins) :
        Built(m) /\ (m = smap[c] \/ m.nodes \subseteq members[c] \cup heard)
  BY <1>1, TickMapsInOrder
<1>4. QED
  BY <1>2, <1>3, BuiltMapServes DEF MapsServe

LEMMA ReachStep == TypeInv /\ ReachInv /\ [Next]_vars => ReachInv'
<1> SUFFICES ASSUME TypeInv, ReachInv, [Next]_vars, NoLossSoFar'
             PROVE  ReachInv'
  BY DEF ReachInv
<1> USE DEF ReachInv, FaultKind
<1>1. /\ TypeOK
      /\ faults["kill_worker"] \in Nat /\ faults["partition"] \in Nat
      /\ life \in [Actor -> {"unborn", "up", "dead"}]
      /\ members \in [Coordinator -> SUBSET Worker]
      /\ lease \in Coordinator \cup {Nobody} /\ Nobody \notin Coordinator
      /\ Worker \cap Coordinator = {}
  BY IdAssumption DEF TypeInv, TypeOK, Actor
<1>2. ASSUME NEW w \in Worker, KillWorker(w) PROVE ReachInv'
  BY <1>1, <1>2 DEF KillWorker, NoLossSoFar, TypeOK
<1>3. ASSUME NEW nodes \in Partitions, SetPartition(nodes) PROVE ReachInv'
  BY <1>1, <1>3 DEF SetPartition, NoLossSoFar, TypeOK
\* Steps that leave membership and maps alone, or let them shrink.
<1>4. ASSUME NoLossSoFar, cut' = cut,
             \A w \in Worker : life'[w] # "dead" /\ (Up(w) => Up(w)'),
             UNCHANGED <<members, smap, view>>, hbNet' \subseteq hbNet, viewNet' \subseteq viewNet
      PROVE  ReachInv'
  <2>1. \A m : Serving(m) => Serving(m)'
    BY <1>4 DEF Serving
  <2>2. hbNet \subseteq Coordinator \X Worker /\ \A c \in Coordinator : members[c] \subseteq Worker
    BY <1>1 DEF TypeOK
  <2>3. NobodyOut' /\ MembersAreUp'
    BY <1>4, <2>2 DEF NobodyOut, MembersAreUp
  <2>4. MapsServe'
    BY <1>4, <2>1 DEF MapsServe
  <2>5. QED
    BY <2>3, <2>4
<1>5. ASSUME \/ Duplicate
             \/ \E r \in Request : Emit(r)
             \/ \E w \in Worker, r \in Request : WorkerReceivesRequest(w, r)
             \/ \E c \in Coordinator, r \in Request : CoordinatorReceivesSpill(c, r)
             \/ TimeoutStep
             \/ UNCHANGED vars
      PROVE  ReachInv'
  <2>1. /\ UNCHANGED <<life, cut, members, smap, hbNet, viewNet, view>>
        /\ faults'["kill_worker"] = faults["kill_worker"]
        /\ faults'["partition"] = faults["partition"]
    BY <1>1, <1>5, TimeoutFrame
       DEF Duplicate, Emit, WorkerReceivesRequest, CoordinatorReceivesSpill, vars, envVars,
           netVars, controlVars, TypeOK
  <2>2. NoLossSoFar
    BY <2>1 DEF NoLossSoFar
  <2>3. QED
    BY <1>4, <2>1, <2>2 DEF NobodyOut, Up
<1>6. CASE HealPartition
  <2>1. cut # {} /\ UNCHANGED faults
    BY <1>6 DEF HealPartition
  <2>2. QED
    BY <2>1 DEF NoLossSoFar, NobodyOut
<1>7. ASSUME NEW x \in viewNet,
             (GatewayReceivesView(x[2]) /\ x[1] = Gateway) \/ WorkerReceivesView(x[1], x[2])
      PROVE  ReachInv'
  <2>1. /\ viewNet' \subseteq viewNet
        /\ view' = [view EXCEPT ![x[1]] = x[2]]
        /\ UNCHANGED <<life, cut, faults, members, smap, hbNet>>
    BY <1>7 DEF GatewayReceivesView, WorkerReceivesView, envVars, controlVars
  <2>2. NoLossSoFar /\ NobodyOut' /\ MembersAreUp' /\ \A m : Serving(m) => Serving(m)'
    BY <2>1 DEF NoLossSoFar, NobodyOut, MembersAreUp, Serving, Up
  <2>3. \A a \in Viewer : view'[a] = view[a] \/ view'[a] = x[2]
    BY <1>1, <2>1 DEF TypeOK
  <2>4. MapsServe'
    BY <2>1, <2>2, <2>3 DEF MapsServe
  <2>5. QED
    BY <2>2, <2>4
<1>8. ASSUME NEW w \in Worker, NEW beats \in BOOLEAN, WorkerTick(w, beats) PROVE ReachInv'
  <2>1. /\ Up(w)
        /\ hbNet' \subseteq hbNet \cup Coordinator \X {w}
        /\ UNCHANGED <<life, cut, faults, members, smap, viewNet, view>>
    BY <1>8 DEF WorkerTick, envVars, controlVars
  <2>2. NoLossSoFar /\ NobodyOut' /\ MembersAreUp'
    BY <2>1 DEF NoLossSoFar, NobodyOut, MembersAreUp, Up
  <2>3. MapsServe'
    BY <2>1, <2>2 DEF MapsServe, Serving, Up
  <2>4. QED
    BY <2>2, <2>3
<1>9. ASSUME NEW c \in Coordinator, NEW heard, heard \in SUBSET Arrived(c),
             FollowerTick(c, heard)
      PROVE  ReachInv'
  <2>1. /\ hbNet' \subseteq hbNet
        /\ members' = [members EXCEPT ![c] = @ \cup heard]
        /\ UNCHANGED <<life, cut, faults, smap, viewNet, view>>
    BY <1>9 DEF FollowerTick, envVars
  <2>2. NoLossSoFar /\ NobodyOut'
    BY <2>1 DEF NoLossSoFar, NobodyOut
  <2>3. \A w \in heard : Up(w)
    BY <1>9, <2>2 DEF Arrived, MembersAreUp
  <2>4. MembersAreUp'
    BY <1>1, <2>1, <2>2, <2>3 DEF MembersAreUp, Up
  <2>5. MapsServe'
    BY <2>1, <2>2 DEF MapsServe, Serving, Up
  <2>6. QED
    BY <2>2, <2>4, <2>5
<1>10. ASSUME NEW c \in Coordinator, NEW heard \in SUBSET Arrived(c),
              NEW joins \in SetToSeqs(heard \ members[c]), NEW due \in BOOLEAN,
              LeaderTick(c, heard, joins, due)
       PROVE  ReachInv'
  <2> DEFINE new == NewMap(c, heard, joins)
             tick == MapsOfTick(c, heard, joins)
  <2>1. /\ hbNet' \subseteq hbNet
        /\ members' = [members EXCEPT ![c] = Survivors(c, heard)]
        /\ smap' = [smap EXCEPT ![c] = new]
        /\ UNCHANGED <<life, cut, faults, view>>
    BY <1>10 DEF LeaderTick, envVars
  <2>2. NoLossSoFar /\ NobodyOut' /\ \A m : Serving(m) => Serving(m)'
    BY <2>1 DEF NoLossSoFar, NobodyOut, Serving, Up
  <2>3. \A w \in Survivors(c, heard) : Up(w)
    BY <2>2 DEF Arrived, MembersAreUp, Survivors
  <2>4. MembersAreUp'
    BY <1>1, <2>1, <2>2, <2>3 DEF MembersAreUp, Up
  <2>5. \A m \in tick : Serving(m)
    BY <2>2, TickMapsServe
  <2>6. new \in tick /\ smap'[c] = new
    BY <2>1 DEF MapsOfTick, TypeInv, TypeOK
  <2>7. \A x \in viewNet' : x \in viewNet \/ x[2] \in tick
    BY <1>10, <2>6 DEF LeaderTick, Published, MapsOfTick
  <2> HIDE DEF new, tick
  <2>8. \A d \in Coordinator : smap'[d] = smap[d] \/ smap'[d] = new
    BY <1>1, <2>1 DEF TypeOK
  <2>9. MapsServe'
    BY <2>1, <2>2, <2>5, <2>6, <2>7, <2>8 DEF MapsServe
  <2>10. QED
    BY <2>2, <2>4, <2>9
<1>11. ASSUME NEW w \in Worker, AddWorker(w) PROVE ReachInv'
  <2>1. /\ life' = [life EXCEPT ![w] = "up"]
        /\ UNCHANGED <<cut, faults, members, smap, hbNet, viewNet, view>>
    BY <1>11 DEF AddWorker, controlVars, netVars
  <2>2. NoLossSoFar /\ \A x \in Worker : life'[x] # "dead" /\ (Up(x) => Up(x)')
    BY <1>1, <2>1 DEF NoLossSoFar, NobodyOut, Up, Actor
  <2>3. QED
    BY <1>4, <2>1, <2>2
<1>12. CASE KillLeader
  <2>1. /\ life' = [life EXCEPT ![lease] = "dead"]
        /\ hbNet' \subseteq hbNet
        /\ faults'["kill_worker"] = faults["kill_worker"]
        /\ faults'["partition"] = faults["partition"]
        /\ lease # Nobody
        /\ UNCHANGED <<cut, members, smap, viewNet, view>>
    BY <1>1, <1>12 DEF KillLeader, TypeOK
  <2>2. NoLossSoFar /\ \A x \in Worker : life'[x] = life[x]
    BY <1>1, <2>1 DEF NoLossSoFar, Actor
  <2>3. QED
    BY <1>4, <2>1, <2>2 DEF NobodyOut, Up
<1>13. QED
  BY <1>2, <1>3, <1>5, <1>6, <1>7, <1>8, <1>9, <1>10, <1>11, <1>12
     DEF Next, TimeoutStep

-----------------------------------------------------------------------------
(***************************************************************************)
(* An undecided request is somewhere.  A request that left a queue is      *)
(* decided, on its way to another worker, or with every candidate that     *)
(* runs: a spill reaches all of them, so it survives their deaths.         *)
(***************************************************************************)
LEMMA ForwardFacts ==
  ASSUME TypeOK, NEW from, NEW map, NEW copies \in [Request -> Nat], NEW r \in Request
  PROVE  /\ \A w \in Worker : /\ reqNet[w][r] \in Nat
                              /\ Forward(from, map, copies)[w][r] >= reqNet[w][r]
         /\ \A w \in Worker :
              OwnerIn(map, PickupCell[r]) = w /\ Reaches(from, w) =>
                Forward(from, map, copies)[w][r] = reqNet[w][r] + copies[r]
         /\ \A w \in Worker :
              copies[r] = 0 \/ OwnerIn(map, PickupCell[r]) # w =>
                Forward(from, map, copies)[w][r] = reqNet[w][r]
<1>1. \A w \in Worker : reqNet[w][r] \in Nat
  BY DEF TypeOK
<1>2. \A w \in Worker : Forward(from, map, copies)[w][r] =
        reqNet[w][r] + IF OwnerIn(map, PickupCell[r]) = w /\ Reaches(from, w)
                       THEN copies[r] ELSE 0
  BY DEF Forward
<1>3. QED
  BY <1>1, <1>2

\* Every queued request is handled, spilled or kept by a tick.
LEMMA TickCovers ==
  ASSUME TypeOK, NEW w \in Worker, NEW k \in 1 .. Len(pending[w])
  PROVE  \/ pending[w][k] \in Batch(w) \cup Spilled(w)
         \/ \E i \in 1 .. Len(Kept(w)) : Kept(w)[i] = pending[w][k]
<1> DEFINE n == BatchSize(w)
           L == Len(pending[w])
           B == Len(Backlog(w))
           K == Len(Kept(w))
<1>1. L \in Nat /\ n \in 0 .. L /\ B = L - n
  <2>1. pending[w] \in Seq(Request)
    BY DEF TypeOK
  <2>2. QED
    BY <2>1, BatchFacts
<1>2. \A i \in 1 .. B : Backlog(w)[i] = pending[w][n + i]
  BY BatchFacts
<1>3. /\ K = Least(B, QueueHighWater)
      /\ \A i \in 1 .. K : Kept(w)[i] = Backlog(w)[i]
  BY KeptFacts DEF Kept
<1>4. QueueHighWater \in Nat
  BY ConfigAssumption
<1>5. CASE k <= n
  BY <1>1, <1>5 DEF Batch, n
<1>6. CASE k > n
  <2> DEFINE i == k - n
  <2>1. i \in 1 .. B /\ pending[w][k] = Backlog(w)[i]
    <3>1. i \in 1 .. B /\ n + i = k
      BY <1>1, <1>6
    <3>2. QED
      BY <1>2, <3>1
  <2> HIDE DEF i
  <2>2. CASE i <= QueueHighWater
    <3>1. i \in 1 .. K
      BY <1>1, <1>3, <1>4, <2>1, <2>2 DEF Least
    <3>2. QED
      BY <1>3, <2>1, <3>1
  <2>3. CASE i > QueueHighWater
    <3>1. i \in QueueHighWater + 1 .. B
      BY <1>1, <1>4, <2>1, <2>3
    <3>2. QED
      BY <2>1, <3>1 DEF Spilled
  <2>4. QED
    BY <1>1, <1>4, <2>1, <2>2, <2>3
<1>7. QED
  BY <1>1, <1>5, <1>6

Queued(w, r) == Contains(pending[w], r)

\* Coordinator c has the spilled request or will receive it.
HeldBy(c, r) == spillNet[c][r] > 0 \/ Contains(spillBuf[c], r)

AtWorker(r) == \E w \in Worker : Up(w) /\ (reqNet[w][r] > 0 \/ Queued(w, r))

Somewhere(r) ==
  \/ r \in buffer
  \/ decisions[r] # <<>>
  \/ AtWorker(r)
  \/ \A c \in Coordinator : Up(c) => HeldBy(c, r)

SeenIsAccountedFor ==
  \A w \in Worker : \A r \in seen[w] : decisions[r] # <<>> \/ Queued(w, r)

FlowInv ==
  NoLossSoFar => SeenIsAccountedFor /\ \A r \in emitted : Somewhere(r)

LEMMA FlowWorkerTick ==
  ASSUME TypeInv, DedupeInv, NobodyOut, MapsServe, SeenIsAccountedFor,
         \A r \in emitted : Somewhere(r),
         NEW w \in Worker, NEW beats \in BOOLEAN, WorkerTick(w, beats)
  PROVE  SeenIsAccountedFor' /\ \A r \in emitted' : Somewhere(r)'
<1>1. TypeOK
  BY DEF TypeInv
<1>2. PICK plan \in [Dispatched(w) -> OwnedBy(w) \cup {NoPlan}] :
        decisions' = [r \in Request |->
          IF r \in Dispatched(w) THEN Append(decisions[r], [by |-> w, on |-> plan[r]])
                                 ELSE decisions[r]]
  BY DEF WorkerTick
<1>3. /\ pending'[w] = Kept(w)
      /\ seen'[w] = seen[w] \ (Rerouted(w) \cup Spilled(w))
      /\ \A x \in Worker \ {w} : pending'[x] = pending[x] /\ seen'[x] = seen[x]
      /\ Up(w) /\ emitted \subseteq Request
      /\ UNCHANGED <<life, cut, emitted, buffer, view, spillBuf>>
  BY <1>1 DEF WorkerTick, Kept, TypeOK, Released, envVars, gatewayVars, controlVars
<1>4. \A r \in Dispatched(w) : r \in Request => decisions'[r] # <<>>
  <2> SUFFICES ASSUME NEW r \in Dispatched(w), r \in Request PROVE decisions'[r] # <<>>
    OBVIOUS
  <2> DEFINE D == [by : Worker, on : Vehicle \cup {NoPlan}]
             d == [by |-> w, on |-> plan[r]]
  <2>1. decisions[r] \in Seq(D) /\ decisions'[r] = Append(decisions[r], d)
    BY <1>1, <1>2 DEF TypeOK
  <2> HIDE DEF D, d
  <2>2. QED
    BY <2>1
<1>5. \A r \in Request : decisions[r] # <<>> => decisions'[r] # <<>>
  BY <1>2, <1>4
<1>6. ASSUME NEW r \in Request, Queued(w, r)
      PROVE  r \in Dispatched(w) \/ r \in Rerouted(w) \/ r \in Spilled(w) \/ Queued(w, r)'
  <2>1. PICK k \in 1 .. Len(pending[w]) : pending[w][k] = r
    BY <1>6 DEF Queued, Contains
  <2>2. CASE r \in Batch(w)
    BY <2>2 DEF Dispatched
  <2>3. CASE \E i \in 1 .. Len(Kept(w)) : Kept(w)[i] = r
    BY <1>3, <2>3 DEF Queued, Contains
  <2>4. QED
    BY <1>1, <2>1, <2>2, <2>3, TickCovers
<1>7. \A x \in Worker \ {w}, r \in Request : Queued(x, r) => Queued(x, r)'
  BY <1>3 DEF Queued
<1>8. SeenIsAccountedFor'
  <2> SUFFICES ASSUME NEW x \in Worker, NEW r \in seen'[x]
               PROVE  decisions'[r] # <<>> \/ Queued(x, r)'
    BY DEF SeenIsAccountedFor
  <2>1. r \in seen[x] /\ r \in Request
    BY <1>1, <1>3 DEF TypeOK
  <2>2. decisions[r] # <<>> \/ Queued(x, r)
    BY <2>1 DEF SeenIsAccountedFor
  <2>3. CASE x = w
    <3>1. r \notin Rerouted(w) \cup Spilled(w)
      BY <1>3, <2>3
    <3>2. QED
      BY <1>4, <1>5, <1>6, <2>1, <2>2, <2>3, <3>1
  <2>4. CASE x # w
    BY <1>5, <1>7, <2>1, <2>2, <2>4
  <2>5. QED
    BY <2>3, <2>4
<1>9. ASSUME NEW r \in Request, r \in Rerouted(w) PROVE AtWorker(r)'
  <2>1. /\ OwnerIn(view[w], PickupCell[r]) \notin {Nobody, w}
        /\ view[w] # NoView
    BY <1>9 DEF Rerouted, OwnerIn
  <2>2. PICK o \in Worker : o = OwnerIn(view[w], PickupCell[r]) /\ Up(o)
    BY <2>1, ConfigAssumption DEF OwnerIn, MapsServe, Serving, Viewer
  <2>3. Reaches(w, o)
    BY <2>2 DEF NobodyOut, Reaches
  <2>4. OneEach(Rerouted(w)) \in [Request -> Nat] /\ OneEach(Rerouted(w))[r] = 1
    BY <1>9, OneEachType DEF OneEach
  <2>5. reqNet' = Forward(w, view[w], OneEach(Rerouted(w)))
    BY DEF WorkerTick
  <2>6. reqNet'[o][r] = reqNet[o][r] + 1 /\ reqNet[o][r] \in Nat
    BY <1>1, <2>2, <2>3, <2>4, <2>5, ForwardFacts
  <2>7. reqNet'[o][r] > 0 /\ Up(o)'
    BY <1>3, <2>2, <2>6 DEF Up
  <2>8. QED
    BY <2>7 DEF AtWorker
<1>10. \A c \in Coordinator, r \in Request :
         /\ spillNet[c][r] \in Nat
         /\ spillNet'[c][r] = spillNet[c][r] + IF r \in Spilled(w) /\ Reaches(w, c) THEN 1 ELSE 0
  BY <1>1 DEF WorkerTick, TypeOK
<1>11. ASSUME NEW r \in Request, r \in Spilled(w), NEW c \in Coordinator, Up(c)
       PROVE  HeldBy(c, r)'
  BY <1>10, <1>11 DEF NobodyOut, Reaches, HeldBy
<1>12. \A c \in Coordinator, r \in Request : HeldBy(c, r) => HeldBy(c, r)'
  BY <1>3, <1>10 DEF HeldBy
<1>13. ASSUME NEW r \in Request, AtWorker(r)
       PROVE  AtWorker(r)' \/ decisions'[r] # <<>> \/ \A c \in Coordinator : Up(c)' => HeldBy(c, r)'
  <2>1. PICK x \in Worker : Up(x) /\ (reqNet[x][r] > 0 \/ Queued(x, r))
    BY <1>13 DEF AtWorker
  <2>2. CASE reqNet[x][r] > 0
    <3>1. reqNet'[x][r] >= reqNet[x][r] /\ reqNet[x][r] \in Nat /\ reqNet'[x][r] \in Nat
      <4>1. reqNet' = Forward(w, view[w], OneEach(Rerouted(w)))
        BY DEF WorkerTick
      <4>2. reqNet' \in [Worker -> [Request -> Nat]]
        BY <1>1, <4>1, ForwardType, OneEachType
      <4>3. QED
        BY <1>1, <4>1, <4>2, ForwardFacts, OneEachType
    <3>2. QED
      BY <1>3, <2>1, <2>2, <3>1 DEF AtWorker, Up
  <2>3. CASE Queued(x, r) /\ x # w
    BY <1>3, <1>7, <2>1, <2>3 DEF AtWorker, Up
  <2>4. CASE Queued(w, r)
    <3>1. CASE Queued(w, r)'
      BY <1>3, <3>1 DEF AtWorker, Up
    <3>2. CASE r \in Spilled(w)
      BY <1>3, <1>11, <3>2 DEF Up
    <3>3. QED
      BY <1>4, <1>6, <1>9, <2>4, <3>1, <3>2
  <2>5. QED
    BY <2>1, <2>2, <2>3, <2>4
<1>14. ASSUME NEW r \in emitted' PROVE Somewhere(r)'
  <2>1. r \in emitted /\ r \in Request /\ Somewhere(r)
    BY <1>3, <1>14
  <2>2. QED
    BY <1>3, <1>5, <1>12, <1>13, <2>1 DEF Somewhere, Up
<1>15. QED
  BY <1>8, <1>14

LEMMA ForwardKeeps ==
  ASSUME TypeOK, NEW from, NEW map, NEW copies \in [Request -> Nat],
         NEW w \in Worker, NEW r \in Request, reqNet[w][r] > 0
  PROVE  Forward(from, map, copies)[w][r] > 0
<1>1. /\ reqNet[w][r] \in Nat /\ Forward(from, map, copies)[w][r] >= reqNet[w][r]
      /\ Forward(from, map, copies) \in [Worker -> [Request -> Nat]]
  BY ForwardFacts, ForwardType
<1>2. QED
  BY <1>1

\* Publishing requests under a map that serves puts each with a live worker.
LEMMA ForwardDelivers ==
  ASSUME TypeOK, NobodyOut, NEW from, from \notin cut,
         NEW map, map # NoView, Serving(map), NEW copies \in [Request -> Nat],
         NEW r \in Request, copies[r] > 0
  PROVE  \E w \in Worker : Up(w) /\ Forward(from, map, copies)[w][r] > 0
<1>1. PICK w \in Worker : w = map.cell_owner[PickupCell[r]] /\ Up(w)
  BY ConfigAssumption DEF Serving
<1>2. OwnerIn(map, PickupCell[r]) = w /\ Reaches(from, w)
  BY <1>1 DEF OwnerIn, NobodyOut, Reaches
<1>3. Forward(from, map, copies)[w][r] = reqNet[w][r] + copies[r] /\ reqNet[w][r] \in Nat
  BY <1>2, ForwardFacts
<1>4. copies[r] \in Nat
  OBVIOUS
<1>5. QED
  BY <1>1, <1>3, <1>4

\* What Somewhere needs of a step that does not take a request anywhere else.
LEMMA StillSomewhere ==
  ASSUME NEW r, Somewhere(r),
         r \in buffer => r \in buffer',
         decisions' = decisions,
         \A w \in Worker : /\ Up(w) => Up(w)'
                           /\ reqNet[w][r] > 0 => reqNet'[w][r] > 0
                           /\ Queued(w, r) => Queued(w, r)',
         \A c \in Coordinator : /\ Up(c)' => Up(c)
                                /\ Up(c)' /\ HeldBy(c, r) => HeldBy(c, r)'
  PROVE  Somewhere(r)'
BY DEF Somewhere, AtWorker

LEMMA FlowWorkerReceives ==
  ASSUME TypeInv, SeenIsAccountedFor, \A r \in emitted : Somewhere(r),
         NEW w \in Worker, NEW q \in Request, WorkerReceivesRequest(w, q)
  PROVE  SeenIsAccountedFor' /\ \A r \in emitted' : Somewhere(r)'
<1>1. /\ TypeOK
      /\ pending[w] \in Seq(Request) /\ seen \in [Worker -> SUBSET Request]
      /\ pending \in [Worker -> Seq(Request)]
      /\ reqNet \in [Worker -> [Request -> Nat]] /\ emitted \subseteq Request
  BY DEF TypeInv, TypeOK
<1>2. /\ Up(w) /\ reqNet' = [reqNet EXCEPT ![w][q] = @ - 1]
      /\ UNCHANGED <<life, emitted, buffer, decisions, spillNet, spillBuf>>
  BY DEF WorkerReceivesRequest, envVars, gatewayVars, controlVars
<1>3. /\ \A x \in Worker : \A r \in Request : Queued(x, r) => Queued(x, r)'
      /\ q \notin seen[w] => Queued(w, q)'
      /\ \A x \in Worker : seen'[x] \subseteq seen[x] \cup (IF x = w THEN {q} ELSE {})
  <2>1. CASE q \in seen[w]
    BY <2>1 DEF WorkerReceivesRequest, Queued
  <2>2. CASE q \notin seen[w]
    <3>1. /\ pending' = [pending EXCEPT ![w] = Append(pending[w], q)]
          /\ seen' = [seen EXCEPT ![w] = seen[w] \cup {q}]
      BY <2>2 DEF WorkerReceivesRequest
    <3>2. /\ Len(pending'[w]) = Len(pending[w]) + 1 /\ Len(pending[w]) \in Nat
          /\ \A i \in 1 .. Len(pending[w]) : pending'[w][i] = pending[w][i]
          /\ pending'[w][Len(pending[w]) + 1] = q
          /\ \A x \in Worker \ {w} : pending'[x] = pending[x]
      BY <1>1, <3>1
    <3>3. QED
      BY <1>1, <3>1, <3>2 DEF Queued, Contains
  <2>3. QED
    BY <2>1, <2>2
<1>4. SeenIsAccountedFor'
  BY <1>1, <1>2, <1>3 DEF SeenIsAccountedFor
<1>5. ASSUME NEW r \in emitted' PROVE Somewhere(r)'
  <2>1. r \in Request /\ Somewhere(r)
    BY <1>1, <1>2, <1>5
  <2>2. CASE r = q
    <3>1. decisions[q] # <<>> \/ Queued(w, q)'
      BY <1>3 DEF SeenIsAccountedFor
    <3>2. QED
      BY <1>2, <2>2, <3>1 DEF Somewhere, AtWorker, Up
  <2>3. CASE r # q
    <3>1. \A x \in Worker : reqNet'[x][r] = reqNet[x][r]
      BY <1>1, <1>2, <2>1, <2>3
    <3>2. QED
      BY <1>2, <1>3, <2>1, <3>1, StillSomewhere DEF Up, HeldBy
  <2>4. QED
    BY <2>2, <2>3
<1>6. QED
  BY <1>4, <1>5

\* What is left of a sequence without its first k elements.
LEMMA RestFacts ==
  ASSUME NEW S, NEW s \in Seq(S), NEW k \in 0 .. Len(s)
  PROVE  /\ SubSeq(s, k + 1, Len(s)) \in Seq(S)
         /\ Len(SubSeq(s, k + 1, Len(s))) = Len(s) - k
         /\ \A j \in 1 .. Len(s) - k : SubSeq(s, k + 1, Len(s))[j] = s[k + j]
<1>1. PICK n \in Nat : n = Len(s)
  OBVIOUS
<1>2. k + 1 \in Int /\ n \in Int /\ \A i \in k + 1 .. n : s[i] \in S
  BY <1>1
<1>3. /\ SubSeq(s, k + 1, n) \in Seq(S)
      /\ Len(SubSeq(s, k + 1, n)) = IF k + 1 <= n THEN n - (k + 1) + 1 ELSE 0
      /\ \A j \in 1 .. n - (k + 1) + 1 : SubSeq(s, k + 1, n)[j] = s[k + 1 + j - 1]
  BY <1>2, SubSeqProperties
<1>4. n - (k + 1) + 1 = n - k /\ \A j \in 1 .. n - k : k + 1 + j - 1 = k + j
  BY <1>1
<1>5. Len(SubSeq(s, k + 1, n)) = n - k
  BY <1>1, <1>3
<1>6. QED
  BY <1>1, <1>3, <1>4, <1>5

\* The leader feeds back what it takes out of its buffer.
LEMMA FlowLeaderTick ==
  ASSUME TypeInv, NobodyOut, MembersAreUp, MapsServe, \A r \in emitted : Somewhere(r),
         NEW c \in Coordinator, NEW heard \in SUBSET Arrived(c),
         NEW joins \in SetToSeqs(heard \ members[c]), NEW due \in BOOLEAN,
         LeaderTick(c, heard, joins, due)
  PROVE  \A r \in emitted' : Somewhere(r)'
<1> DEFINE new == NewMap(c, heard, joins)
<1>1. /\ TypeOK /\ Reinjected(c) \in [Request -> Nat]
      /\ ReinjectSize(c) \in 0 .. Len(spillBuf[c])
      /\ spillBuf \in [Coordinator -> Seq(Request)] /\ spillBuf[c] \in Seq(Request)
      /\ emitted \subseteq Request
      /\ reqNet \in [Worker -> [Request -> Nat]]
  <2>1. TypeOK
    BY DEF TypeInv
  <2>2. /\ Reinjected(c) \in [Request -> Nat]
        /\ ReinjectSize(c) \in 0 .. Len(spillBuf[c])
    BY <2>1, ReinjectFacts
  <2>3. QED
    BY <2>1, <2>2 DEF TypeOK
<1> PICK L \in Nat : L = Len(spillBuf[c])
  BY <1>1
<1> PICK k \in 0 .. L : k = ReinjectSize(c)
  BY <1>1
<1>2. /\ reqNet' = Forward(c, new, Reinjected(c))
      /\ spillBuf' = [spillBuf EXCEPT ![c] = SubSeq(spillBuf[c], k + 1, L)]
      /\ UNCHANGED <<life, emitted, buffer, decisions, pending, spillNet>>
  <2>1. smap'[c] = new
    BY <1>1 DEF LeaderTick, TypeOK
  <2>2. QED
    BY <2>1 DEF LeaderTick, envVars, gatewayVars, workerVars
<1>3. new \in ShardMap /\ new # NoView /\ Serving(new)
  <2>1. new \in MapsOfTick(c, heard, joins)
    BY DEF MapsOfTick
  <2>2. heard \in SUBSET Worker
    BY DEF Arrived
  <2>3. new \in ShardMap /\ Serving(new)
    BY <2>1, <2>2, TickMapsServe, TickMapsInOrder DEF Built
  <2>4. QED
    BY <2>3, IdAssumption
<1> HIDE DEF new
<1>4. \A w \in Worker, r \in Request : reqNet[w][r] > 0 => reqNet'[w][r] > 0
  <2>1. \A w \in Worker, r \in Request :
          reqNet[w][r] \in Nat /\ reqNet'[w][r] >= reqNet[w][r]
    BY <1>1, <1>2, ForwardFacts
  <2>2. reqNet' \in [Worker -> [Request -> Nat]]
    BY <1>1, <1>2, ForwardType
  <2>3. QED
    BY <1>1, <2>1, <2>2
<1>5. ASSUME NEW r \in Request, NEW i \in 1 .. k, spillBuf[c][i] = r
      PROVE  \E w \in Worker : Up(w) /\ reqNet'[w][r] > 0
  <2>1. IsFiniteSet({j \in 1 .. k : spillBuf[c][j] = r})
    <3>1. IsFiniteSet(1 .. k)
      BY FS_Interval
    <3>2. QED
      BY <3>1, FS_Subset
  <2>2. Reinjected(c)[r] # 0
    BY <1>5, <2>1, FS_EmptySet DEF Reinjected
  <2>3. Reinjected(c)[r] > 0
    BY <1>1, <2>2
  <2>4. QED
    BY <1>1, <1>2, <1>3, <2>3, ForwardDelivers DEF NobodyOut
<1>6. ASSUME NEW r \in Request, Contains(spillBuf[c], r)
      PROVE  Contains(spillBuf'[c], r) \/ \E w \in Worker : Up(w) /\ reqNet'[w][r] > 0
  <2>1. PICK i \in 1 .. L : spillBuf[c][i] = r
    BY <1>6 DEF Contains
  <2>2. CASE i <= k
    BY <1>1, <1>5, <2>1, <2>2
  <2>3. CASE i > k
    <3>1. spillBuf'[c] = SubSeq(spillBuf[c], k + 1, L)
      BY <1>1, <1>2
    <3>2. /\ Len(spillBuf'[c]) = L - k
          /\ \A j \in 1 .. L - k : spillBuf'[c][j] = spillBuf[c][k + j]
      <4>1. k \in 0 .. Len(spillBuf[c]) /\ spillBuf[c] \in Seq(Request)
        BY <1>1
      <4>2. QED
        BY SMTT(30), <3>1, <4>1, RestFacts
    <3>3. i - k \in 1 .. L - k /\ k + (i - k) = i
      BY <1>1, <2>3
    <3>4. QED
      BY <2>1, <3>2, <3>3 DEF Contains
  <2>4. QED
    BY <1>1, <2>2, <2>3
<1>7. ASSUME NEW r \in emitted' PROVE Somewhere(r)'
  <2>1. r \in Request /\ Somewhere(r)
    BY <1>1, <1>2, <1>7
  <2>2. CASE \E w \in Worker : Up(w) /\ reqNet'[w][r] > 0
    BY <1>2, <2>2 DEF Somewhere, AtWorker, Up
  <2>3. CASE ~ \E w \in Worker : Up(w) /\ reqNet'[w][r] > 0
    <3>1. \A d \in Coordinator : Contains(spillBuf[d], r) => Contains(spillBuf'[d], r)
      BY <1>1, <1>2, <1>6, <2>1, <2>3
    <3>2. QED
      BY <1>2, <1>4, <2>1, <3>1, StillSomewhere DEF Up, HeldBy, Queued
  <2>4. QED
    BY <2>2, <2>3
<1>8. QED
  BY <1>7

LEMMA FlowInit == Init => FlowInv
BY DEF Init, FlowInv, SeenIsAccountedFor

LEMMA FlowStep == TypeInv /\ DedupeInv /\ ReachInv /\ FlowInv /\ [Next]_vars => FlowInv'
<1> SUFFICES ASSUME TypeInv, DedupeInv, ReachInv, FlowInv, [Next]_vars, NoLossSoFar'
             PROVE  FlowInv'
  BY DEF FlowInv
<1> USE DEF FlowInv, FaultKind
<1>1. /\ TypeOK
      /\ faults["kill_worker"] \in Nat /\ faults["partition"] \in Nat
      /\ faults["lost_spell"] \in Nat
      /\ life \in [Actor -> {"unborn", "up", "dead"}]
      /\ lease \in Coordinator \cup {Nobody} /\ Nobody \notin Coordinator
      /\ Worker \cap Coordinator = {} /\ Gateway \notin Worker \cup Coordinator
      /\ Gateway \in Viewer /\ cut \subseteq Worker \cup Coordinator
      /\ reqNet \in [Worker -> [Request -> Nat]]
      /\ spillNet \in [Coordinator -> [Request -> Nat]]
      /\ spillBuf \in [Coordinator -> Seq(Request)]
      /\ emitted \subseteq Request /\ buffer \subseteq emitted
  BY IdAssumption DEF TypeInv, TypeOK, Actor, Viewer
<1>2. ASSUME NEW w \in Worker, KillWorker(w) PROVE FlowInv'
  BY <1>1, <1>2 DEF KillWorker, NoLossSoFar, TypeOK
<1>3. ASSUME NEW nodes \in Partitions, SetPartition(nodes) PROVE FlowInv'
  BY <1>1, <1>3 DEF SetPartition, NoLossSoFar, TypeOK
\* Steps that decide, queue and take in nothing.
<1>4. ASSUME NoLossSoFar, UNCHANGED <<emitted, buffer, workerVars>>,
             \A w \in Worker, r \in Request : reqNet[w][r] > 0 => reqNet'[w][r] > 0,
             \A w \in Worker : Up(w) => Up(w)',
             \A c \in Coordinator, r \in Request :
               /\ Up(c)' => Up(c)
               /\ Up(c)' /\ HeldBy(c, r) => HeldBy(c, r)'
      PROVE  FlowInv'
  <2>1. SeenIsAccountedFor'
    BY <1>4 DEF SeenIsAccountedFor, Queued, workerVars
  <2>2. ASSUME NEW r \in emitted' PROVE Somewhere(r)'
    <3>1. r \in Request /\ Somewhere(r)
      BY <1>1, <1>4, <2>2
    <3>2. QED
      BY <1>4, <3>1, StillSomewhere DEF Queued, workerVars
  <2>3. QED
    BY <2>1, <2>2
<1>5. ASSUME \/ \E w \in Worker, m \in ShardMap : WorkerReceivesView(w, m)
             \/ \E c \in Coordinator : \E heard \in SUBSET Arrived(c) : FollowerTick(c, heard)
             \/ HealPartition
             \/ TimeoutStep
             \/ UNCHANGED vars
      PROVE  FlowInv'
  <2>1. /\ UNCHANGED <<life, reqNet, spillNet, emitted, buffer, workerVars, spillBuf>>
        /\ faults'["kill_worker"] = faults["kill_worker"]
        /\ faults'["partition"] = faults["partition"]
    BY <1>1, <1>5, TimeoutFrame
       DEF WorkerReceivesView, FollowerTick, HealPartition, vars, envVars, netVars, gatewayVars,
           controlVars
  <2>2. NoLossSoFar
    BY <2>1 DEF NoLossSoFar
  <2>3. QED
    BY <1>4, <2>1, <2>2 DEF Up, HeldBy
<1>6. CASE Duplicate
  <2>1. /\ UNCHANGED <<life, emitted, buffer, workerVars, spillBuf>>
        /\ faults'["kill_worker"] = faults["kill_worker"]
        /\ faults'["partition"] = faults["partition"]
    BY <1>1, <1>6 DEF Duplicate, gatewayVars, controlVars, TypeOK
  <2>2. /\ \A w \in Worker, r \in Request : reqNet[w][r] > 0 => reqNet'[w][r] > 0
        /\ \A c \in Coordinator, r \in Request : spillNet[c][r] > 0 => spillNet'[c][r] > 0
    <3>1. ASSUME NEW r \in Request, NEW w \in Worker, reqNet' = [reqNet EXCEPT ![w][r] = @ + 1]
          PROVE  \A x \in Worker, q \in Request : reqNet[x][q] > 0 => reqNet'[x][q] > 0
      BY <1>1, <3>1
    <3>2. ASSUME NEW r \in Request, NEW c \in Coordinator,
                 spillNet' = [spillNet EXCEPT ![c][r] = @ + 1]
          PROVE  \A d \in Coordinator, q \in Request : spillNet[d][q] > 0 => spillNet'[d][q] > 0
      BY <1>1, <3>2
    <3>3. QED
      BY <1>6, <3>1, <3>2 DEF Duplicate
  <2>3. NoLossSoFar
    BY <2>1 DEF NoLossSoFar
  <2>4. QED
    BY <1>4, <2>1, <2>2, <2>3 DEF Up, HeldBy
<1>7. ASSUME NEW r \in Request, Emit(r) PROVE FlowInv'
  <2>1. /\ emitted' = emitted \cup {r}
        /\ UNCHANGED <<life, cut, faults, spillNet, pending, seen, decisions, spillBuf>>
    BY <1>7 DEF Emit, envVars, workerVars, controlVars
  <2>2. NoLossSoFar /\ SeenIsAccountedFor'
    BY <2>1 DEF NoLossSoFar, SeenIsAccountedFor, Queued
  <2>3. NobodyOut /\ MapsServe /\ OneEach({r}) \in [Request -> Nat] /\ OneEach({r})[r] = 1
    BY <2>2, OneEachType DEF ReachInv, OneEach
  <2>4. buffer \subseteq buffer' /\ (view[Gateway] = NoView => r \in buffer')
    BY <1>7 DEF Emit
  <2>5. \A w \in Worker, q \in Request : reqNet[w][q] > 0 => reqNet'[w][q] > 0
    <3>1. CASE view[Gateway] = NoView
      BY <1>7, <3>1 DEF Emit
    <3>2. CASE view[Gateway] # NoView
      <4>1. reqNet' = Forward(Gateway, view[Gateway], OneEach({r}))
        BY <1>7, <3>2 DEF Emit
      <4>2. QED
        BY <1>1, <2>3, <4>1, ForwardKeeps
    <3>3. QED
      BY <3>1, <3>2
  <2>6. Somewhere(r)'
    <3>1. CASE view[Gateway] = NoView
      BY <2>4, <3>1 DEF Somewhere
    <3>2. CASE view[Gateway] # NoView
      <4>1. reqNet' = Forward(Gateway, view[Gateway], OneEach({r}))
        BY <1>7, <3>2 DEF Emit
      <4>2. Serving(view[Gateway]) /\ Gateway \notin cut
        BY <1>1, <2>3, <3>2 DEF MapsServe
      <4>3. OneEach({r})[r] > 0
        BY <2>3
      <4>4. \E w \in Worker : Up(w) /\ Forward(Gateway, view[Gateway], OneEach({r}))[w][r] > 0
        BY <1>1, <2>3, <3>2, <4>2, <4>3, ForwardDelivers
      <4>5. QED
        BY <2>1, <4>1, <4>4 DEF Somewhere, AtWorker, Up
    <3>3. QED
      BY <3>1, <3>2
  <2>7. ASSUME NEW q \in emitted PROVE Somewhere(q)'
    <3>1. Somewhere(q) /\ q \in Request
      BY <1>1, <2>2
    <3>2. QED
      BY <2>1, <2>4, <2>5, <3>1, StillSomewhere DEF Up, Queued, HeldBy
  <2>8. QED
    BY <2>1, <2>2, <2>6, <2>7
<1>8. ASSUME NEW m \in ShardMap, GatewayReceivesView(m) PROVE FlowInv'
  <2>1. /\ reqNet' = Forward(Gateway, m, OneEach(buffer)) /\ <<Gateway, m>> \in viewNet
        /\ UNCHANGED <<life, cut, faults, emitted, spillNet, pending, seen, decisions, spillBuf>>
    BY <1>8 DEF GatewayReceivesView, envVars, workerVars, controlVars
  <2>2. NoLossSoFar /\ SeenIsAccountedFor'
    BY <2>1 DEF NoLossSoFar, SeenIsAccountedFor, Queued
  <2>3. NobodyOut /\ Serving(m) /\ m # NoView /\ Gateway \notin cut
    BY <1>1, <2>1, <2>2, IdAssumption DEF ReachInv, MapsServe
  <2>4. OneEach(buffer) \in [Request -> Nat]
    BY OneEachType
  <2>5. \A w \in Worker, q \in Request : reqNet[w][q] > 0 => reqNet'[w][q] > 0
    BY <1>1, <2>1, <2>4, ForwardKeeps
  <2>6. ASSUME NEW q \in emitted PROVE Somewhere(q)'
    <3>1. Somewhere(q) /\ q \in Request
      BY <1>1, <2>2
    <3>2. CASE q \in buffer
      <4>1. OneEach(buffer)[q] > 0
        BY <3>1, <3>2 DEF OneEach
      <4>2. \E w \in Worker : Up(w) /\ reqNet'[w][q] > 0
        BY <1>1, <2>1, <2>3, <2>4, <3>1, <4>1, ForwardDelivers
      <4>3. QED
        BY <2>1, <4>2 DEF Somewhere, AtWorker, Up
    <3>3. CASE q \notin buffer
      BY <2>1, <2>5, <3>1, <3>3, StillSomewhere DEF Up, Queued, HeldBy
    <3>4. QED
      BY <3>2, <3>3
  <2>7. QED
    BY <2>1, <2>2, <2>6
<1>9. ASSUME NEW w \in Worker, NEW r \in Request, WorkerReceivesRequest(w, r) PROVE FlowInv'
  <2>1. NoLossSoFar
    BY <1>9 DEF WorkerReceivesRequest, envVars, NoLossSoFar
  <2>2. QED
    BY <1>9, <2>1, FlowWorkerReceives
<1>10. ASSUME NEW w \in Worker, NEW beats \in BOOLEAN, WorkerTick(w, beats) PROVE FlowInv'
  <2>1. NoLossSoFar
    BY <1>10 DEF WorkerTick, envVars, NoLossSoFar
  <2>2. QED
    BY <1>10, <2>1, FlowWorkerTick DEF ReachInv
<1>11. ASSUME NEW c \in Coordinator, NEW r \in Request, CoordinatorReceivesSpill(c, r)
       PROVE  FlowInv'
  <2>1. /\ spillNet' = [spillNet EXCEPT ![c][r] = @ - 1]
        /\ spillBuf' = [spillBuf EXCEPT ![c] = Append(spillBuf[c], r)]
        /\ UNCHANGED <<life, faults, reqNet, emitted, buffer, workerVars>>
    BY <1>11 DEF CoordinatorReceivesSpill, envVars, gatewayVars
  <2>2. NoLossSoFar
    BY <2>1 DEF NoLossSoFar
  <2>3. \A q \in Request : Contains(spillBuf[c], q) \/ q = r => Contains(spillBuf'[c], q)
    <3>1. spillBuf[c] \in Seq(Request) /\ spillBuf'[c] = Append(spillBuf[c], r)
      BY <1>1, <2>1
    <3>2. /\ Len(spillBuf'[c]) = Len(spillBuf[c]) + 1 /\ Len(spillBuf[c]) \in Nat
          /\ spillBuf'[c][Len(spillBuf[c]) + 1] = r
          /\ \A i \in 1 .. Len(spillBuf[c]) : spillBuf'[c][i] = spillBuf[c][i]
      BY <3>1
    <3>3. QED
      BY <3>2 DEF Contains
  <2>4. \A d \in Coordinator, q \in Request : d # c \/ q # r => spillNet'[d][q] = spillNet[d][q]
    BY <1>1, <2>1
  <2>5. \A d \in Coordinator, q \in Request : HeldBy(d, q) => HeldBy(d, q)'
    BY <1>1, <2>1, <2>3, <2>4 DEF HeldBy
  <2>6. QED
    BY <1>4, <2>1, <2>2, <2>5 DEF Up
<1>12. ASSUME NEW c \in Coordinator, NEW heard \in SUBSET Arrived(c),
              NEW joins \in SetToSeqs(heard \ members[c]), NEW due \in BOOLEAN,
              LeaderTick(c, heard, joins, due)
       PROVE  FlowInv'
  <2>1. NoLossSoFar /\ UNCHANGED <<seen, decisions, pending>>
    BY <1>12 DEF LeaderTick, envVars, workerVars, NoLossSoFar
  <2>2. \A r \in emitted' : Somewhere(r)'
    BY <1>12, <2>1, FlowLeaderTick DEF ReachInv
  <2>3. SeenIsAccountedFor'
    BY <2>1 DEF SeenIsAccountedFor, Queued
  <2>4. QED
    BY <2>2, <2>3
<1>13. ASSUME NEW w \in Worker, AddWorker(w) PROVE FlowInv'
  <2>1. /\ life' = [life EXCEPT ![w] = "up"]
        /\ UNCHANGED <<faults, reqNet, spillNet, emitted, buffer, workerVars, spillBuf>>
    BY <1>13 DEF AddWorker, netVars, gatewayVars, controlVars
  <2>2. NoLossSoFar
    BY <2>1 DEF NoLossSoFar
  <2>3. /\ \A x \in Worker : Up(x) => Up(x)'
        /\ \A c \in Coordinator : Up(c)' => Up(c)
    BY <1>1, <2>1 DEF Up, Actor
  <2>4. QED
    BY <1>4, <2>1, <2>2, <2>3 DEF HeldBy
\* What the dead leader held every other candidate holds as well.
<1>14. CASE KillLeader
  <2>1. /\ lease # Nobody /\ life' = [life EXCEPT ![lease] = "dead"]
        /\ spillNet' = [spillNet EXCEPT ![lease] = [r \in Request |-> 0]]
        /\ spillBuf' = [spillBuf EXCEPT ![lease] = <<>>]
        /\ faults'["kill_worker"] = faults["kill_worker"]
        /\ faults'["partition"] = faults["partition"]
        /\ UNCHANGED <<reqNet, emitted, buffer, workerVars>>
    BY <1>1, <1>14 DEF KillLeader, gatewayVars, TypeOK
  <2>2. NoLossSoFar
    BY <2>1 DEF NoLossSoFar
  <2>3. /\ \A x \in Worker : Up(x) => Up(x)'
        /\ \A c \in Coordinator : Up(c)' => Up(c) /\ c # lease
    BY <1>1, <2>1 DEF Up, Actor
  <2>4. \A c \in Coordinator \ {lease} : spillNet'[c] = spillNet[c] /\ spillBuf'[c] = spillBuf[c]
    BY <1>1, <2>1
  <2>5. QED
    BY <1>4, <2>1, <2>2, <2>3, <2>4 DEF HeldBy
<1>15. ASSUME NEW x \in viewNet, IF x[1] = Gateway THEN GatewayReceivesView(x[2])
                                                   ELSE WorkerReceivesView(x[1], x[2])
       PROVE  FlowInv'
  <2>1. x[1] \in Worker \cup {Gateway} /\ x[2] \in ShardMap
    BY <1>1 DEF TypeOK, Viewer
  <2>2. QED
    BY <1>5, <1>8, <1>15, <2>1
<1>16. QED
  BY <1>2, <1>3, <1>5, <1>6, <1>7, <1>9, <1>10, <1>11, <1>12, <1>13, <1>14, <1>15
     DEF Next, TimeoutStep

LEMMA FlowInvariant == Spec => [](TypeInv /\ DedupeInv /\ ReachInv /\ FlowInv)
<1>1. Init => TypeInv /\ DedupeInv /\ ReachInv /\ FlowInv
  BY TypeInvInit, DedupeInvInit, ReachInit, FlowInit
<1>2. TypeInv /\ DedupeInv /\ ReachInv /\ FlowInv /\ [Next]_vars
        => (TypeInv /\ DedupeInv /\ ReachInv /\ FlowInv)'
  BY TypeInvStep, DedupeInvStep, ReachStep, FlowStep
<1>3. QED
  BY <1>1, <1>2, PTL DEF Spec

\* While no worker has died and nobody has been cut off, an emitted request that nobody
\* has decided is buffered at the gateway, on its way to a worker that runs, queued, or
\* with a candidate that runs (gateway.py, worker.py: _reroute, _maybe_spill,
\* coordinator.py: _reinject_spill).  Leaders may die, as long as one candidate is left:
\* every candidate buffers every spill.
THEOREM RequestsAreNotLost ==
  Spec => []((\E c \in Coordinator : Up(c)) => NoRequestLost)
<1>1. TypeInv /\ FlowInv => ((\E c \in Coordinator : Up(c)) => NoRequestLost)
  <2> SUFFICES ASSUME TypeInv, FlowInv, NEW c \in Coordinator, Up(c), NoLossSoFar,
                      NEW r \in emitted
               PROVE  \/ r \in buffer
                      \/ decisions[r] # <<>>
                      \/ \E w \in Worker : Up(w) /\ (reqNet[w][r] > 0 \/ Contains(pending[w], r))
                      \/ \E d \in Coordinator :
                           Up(d) /\ (spillNet[d][r] > 0 \/ Contains(spillBuf[d], r))
    BY DEF NoRequestLost, NoLossSoFar
  <2>1. Somewhere(r)
    BY DEF FlowInv
  <2>2. QED
    BY <2>1 DEF Somewhere, AtWorker, HeldBy, Queued
<1>2. QED
  BY <1>1, FlowInvariant, PTL

-----------------------------------------------------------------------------
(***************************************************************************)
(* Bookings while the membership stays what it was at the start.  Every    *)
(* node that has a map then has the first one, so only one worker ever     *)
(* sees a request, whatever the bus duplicates and whichever leaders die.  *)
(***************************************************************************)
StaticMembership == NoLossSoFar /\ faults["lost_spell"] = 0 /\ NobodyJoined

\* The worker whose cell the request starts in.
Home(r) == InitialMap.cell_owner[PickupCell[r]]

MembershipUnmoved ==
  /\ cut = {} /\ hbNet = {} /\ overdue = {}
  /\ \A w \in InitialWorkers : Up(w)
  /\ \A c \in Coordinator : members[c] = InitialWorkers

OneMap ==
  /\ \A c \in Coordinator : smap[c] = InitialMap
  /\ \A x \in viewNet : x[2] = InitialMap
  /\ \A a \in Viewer : view[a] \in {InitialMap, NoView}

OnlyAtHome ==
  \A r \in Request :
    /\ \A w \in Worker : reqNet[w][r] > 0 \/ Queued(w, r) => w = Home(r)
    /\ \A i \in 1 .. Len(decisions[r]) : decisions[r][i].by = Home(r)

StaticInv == StaticMembership => MembershipUnmoved /\ OneMap /\ OnlyAtHome

LEMMA StaticInit == Init => StaticInv
<1> SUFFICES ASSUME Init PROVE StaticInv
  OBVIOUS
<1>1. MembershipUnmoved
  BY ConfigAssumption DEF Init, MembershipUnmoved, Up, Actor
<1>2. OneMap
  BY DEF Init, OneMap
<1>3. OnlyAtHome
  BY DEF Init, OnlyAtHome, Queued, Contains
<1>4. QED
  BY <1>1, <1>2, <1>3 DEF StaticInv

LEMMA ForwardHome ==
  ASSUME TypeOK, OnlyAtHome, NEW from, NEW map, map \in {InitialMap, NoView},
         NEW copies \in [Request -> Nat], NEW w \in Worker, NEW r \in Request,
         Forward(from, map, copies)[w][r] > 0
  PROVE  w = Home(r)
<1>1. CASE OwnerIn(map, PickupCell[r]) # w
  BY <1>1, ForwardFacts DEF OnlyAtHome
<1>2. CASE OwnerIn(map, PickupCell[r]) = w
  BY <1>2, IdAssumption DEF OwnerIn, Home, Actor
<1>3. QED
  BY <1>1, <1>2

\* A leader has nothing to do but to feed back and to publish.
LEMMA StaticLeaderTick ==
  ASSUME TypeInv, MembershipUnmoved, OneMap, OnlyAtHome,
         NEW c \in Coordinator, NEW heard \in SUBSET Arrived(c),
         NEW joins \in SetToSeqs(heard \ members[c]), NEW due \in BOOLEAN,
         LeaderTick(c, heard, joins, due)
  PROVE  MembershipUnmoved' /\ OneMap' /\ OnlyAtHome'
<1>1. /\ TypeOK
      /\ smap \in [Coordinator -> ShardMap] /\ members \in [Coordinator -> SUBSET Worker]
      /\ Reinjected(c) \in [Request -> Nat]
  BY ReinjectFacts DEF TypeInv, TypeOK
<1>2. heard = {} /\ joins = <<>> /\ NewlyDown(c, heard) = {}
  <2>1. heard = {} /\ NewlyDown(c, heard) = {}
    BY DEF Arrived, NewlyDown, MembershipUnmoved
  <2>2. joins \in [1 .. 0 -> {}]
    <3>1. heard \ members[c] = {} /\ Cardinality({}) = 0
      BY <2>1, FS_EmptySet
    <3>2. QED
      BY <3>1 DEF SetToSeqs
  <2>3. QED
    BY <2>1, <2>2
<1>3. JoinMaps(c, joins) = <<>> /\ NewMap(c, heard, joins) = smap[c]
  BY <1>2 DEF JoinMaps, MapAfterJoins, NewMap, Resharded
<1>4. Survivors(c, heard) = members[c] /\ ToSet(JoinMaps(c, joins)) = {}
  BY <1>2, <1>3 DEF Survivors, ToSet
<1>5. /\ smap' = smap /\ members' = members
      /\ hbNet' \subseteq hbNet /\ overdue' \subseteq overdue
      /\ viewNet' \subseteq viewNet \cup Published(c, {InitialMap})
      /\ reqNet' = Forward(c, InitialMap, Reinjected(c))
      /\ UNCHANGED <<life, cut, view, pending, decisions>>
  <2>1. smap' = [smap EXCEPT ![c] = smap[c]] /\ members' = [members EXCEPT ![c] = members[c]]
    BY <1>3, <1>4 DEF LeaderTick
  <2>2. smap' = smap /\ members' = members /\ smap'[c] = InitialMap
    BY <1>1, <2>1 DEF OneMap
  <2>3. viewNet' = viewNet \cup Published(c, IF due \/ lease # c THEN {InitialMap} ELSE {})
    BY <1>2, <1>4, <2>2 DEF LeaderTick, Resharded
  <2>4. viewNet' \subseteq viewNet \cup Published(c, {InitialMap})
    BY <2>3 DEF Published
  <2>5. QED
    BY <2>2, <2>4 DEF LeaderTick, envVars, workerVars
<1>6. MembershipUnmoved'
  BY <1>5 DEF MembershipUnmoved, Up
<1>7. OneMap'
  BY <1>5 DEF OneMap, Published
<1>8. OnlyAtHome'
  <2>1. \A w \in Worker, r \in Request : reqNet'[w][r] > 0 => w = Home(r)
    BY <1>1, <1>5, ForwardHome
  <2>2. QED
    BY <1>5, <2>1 DEF OnlyAtHome, Queued, Home
<1>9. QED
  BY <1>6, <1>7, <1>8

LEMMA StaticWorkerTick ==
  ASSUME TypeInv, DedupeInv, MembershipUnmoved, OneMap, OnlyAtHome,
         NEW w \in Worker, w \in InitialWorkers, NEW beats \in BOOLEAN, WorkerTick(w, beats)
  PROVE  MembershipUnmoved' /\ OneMap' /\ OnlyAtHome'
<1>1. TypeOK /\ QueuesDistinct
  BY DEF TypeInv, DedupeInv
<1>2. PICK plan \in [Dispatched(w) -> OwnedBy(w) \cup {NoPlan}] :
        decisions' = [r \in Request |->
          IF r \in Dispatched(w) THEN Append(decisions[r], [by |-> w, on |-> plan[r]])
                                 ELSE decisions[r]]
  BY DEF WorkerTick
<1>3. /\ pending'[w] = Kept(w)
      /\ \A x \in Worker \ {w} : pending'[x] = pending[x]
      /\ reqNet' = Forward(w, view[w], OneEach(Rerouted(w)))
      /\ UNCHANGED <<life, cut, overdue, members, smap, viewNet, view>>
  BY <1>1 DEF WorkerTick, Kept, TypeOK, envVars, controlVars
<1>4. MembershipUnmoved' /\ OneMap'
  <2>1. hbNet' = hbNet
    BY DEF WorkerTick, MembershipUnmoved
  <2>2. QED
    BY <1>3, <2>1 DEF MembershipUnmoved, OneMap, Up
<1>5. \A x \in Worker, r \in Request : reqNet'[x][r] > 0 => x = Home(r)
  <2>1. view[w] \in {InitialMap, NoView} /\ OneEach(Rerouted(w)) \in [Request -> Nat]
    BY OneEachType DEF OneMap, Viewer
  <2>2. QED
    BY <1>1, <1>3, <2>1, ForwardHome
<1>6. \A x \in Worker, r \in Request : Queued(x, r)' => Queued(x, r)
  <2>1. \A i \in 1 .. Len(Kept(w)) : \E k \in 1 .. Len(pending[w]) : Kept(w)[i] = pending[w][k]
    BY <1>1, TickMoves
  <2>2. QED
    BY <1>3, <2>1 DEF Queued, Contains
<1>7. ASSUME NEW r \in Request, NEW i \in 1 .. Len(decisions'[r])
      PROVE  decisions'[r][i].by = Home(r)
  <2> DEFINE D == [by : Worker, on : Vehicle \cup {NoPlan}]
             d == [by |-> w, on |-> plan[r]]
  <2>1. decisions[r] \in Seq(D)
    BY <1>1 DEF TypeOK
  <2>2. decisions'[r] = IF r \in Dispatched(w) THEN Append(decisions[r], d) ELSE decisions[r]
    BY <1>2
  <2>3. d.by = w
    OBVIOUS
  <2> HIDE DEF D, d
  <2>4. CASE i \in 1 .. Len(decisions[r])
    BY <2>1, <2>2, <2>4 DEF OnlyAtHome
  <2>5. CASE i \notin 1 .. Len(decisions[r])
    <3>1. r \in Dispatched(w) /\ decisions'[r][i] = d
      BY <2>1, <2>2, <2>5
    <3>2. Queued(w, r)
      BY <1>1, <3>1, TickMoves DEF Dispatched, Queued, Contains
    <3>3. QED
      BY <2>3, <3>1, <3>2 DEF OnlyAtHome
  <2>6. QED
    BY <2>4, <2>5
<1>8. OnlyAtHome'
  BY <1>5, <1>6, <1>7 DEF OnlyAtHome, Home
<1>9. QED
  BY <1>4, <1>8

LEMMA StaticStep == TypeInv /\ DedupeInv /\ StaticInv /\ [Next]_vars => StaticInv'
<1> SUFFICES ASSUME TypeInv, DedupeInv, StaticInv, [Next]_vars, StaticMembership'
             PROVE  StaticInv'
  BY DEF StaticInv
<1> USE DEF StaticInv, FaultKind
<1>1. /\ TypeOK
      /\ faults["kill_worker"] \in Nat /\ faults["partition"] \in Nat
      /\ faults["lost_spell"] \in Nat
      /\ life \in [Actor -> {"unborn", "up", "dead"}]
      /\ lease \in Coordinator \cup {Nobody} /\ Nobody \notin Coordinator
      /\ Worker \cap Coordinator = {} /\ Gateway \notin Worker \cup Coordinator
      /\ Gateway \in Viewer /\ InitialWorkers \subseteq Worker
      /\ reqNet \in [Worker -> [Request -> Nat]]
      /\ pending \in [Worker -> Seq(Request)]
      /\ view \in [Viewer -> ShardMap \cup {NoView}]
      /\ members \in [Coordinator -> SUBSET Worker]
  BY IdAssumption, ConfigAssumption DEF TypeInv, TypeOK, Actor, Viewer
<1>2. ASSUME NEW w \in Worker, KillWorker(w) PROVE StaticInv'
  BY <1>1, <1>2 DEF KillWorker, StaticMembership, NoLossSoFar, NobodyJoined, TypeOK
<1>3. ASSUME NEW nodes \in Partitions, SetPartition(nodes) PROVE StaticInv'
  BY <1>1, <1>3 DEF SetPartition, StaticMembership, NoLossSoFar, NobodyJoined, TypeOK
<1>4. CASE HealPartition
  <2>1. StaticMembership /\ cut # {}
    BY <1>4 DEF HealPartition, StaticMembership, NoLossSoFar, NobodyJoined
  <2>2. QED
    BY <2>1 DEF MembershipUnmoved
<1>5. ASSUME NEW w \in Worker, AddWorker(w) PROVE StaticInv'
  <2>1. life[w] = "unborn" /\ life' = [life EXCEPT ![w] = "up"] /\ UNCHANGED faults
    BY <1>5 DEF AddWorker
  <2>2. life'[w] = "up" /\ \A x \in Worker \ {w} : life'[x] = life[x]
    BY <1>1, <2>1 DEF Actor
  <2>3. w \in InitialWorkers /\ StaticMembership
    BY <2>1, <2>2 DEF StaticMembership, NoLossSoFar, NobodyJoined
  <2>4. QED
    BY <2>1, <2>3 DEF MembershipUnmoved, Up
\* Steps that leave the control plane and the queues alone.
<1>6. ASSUME StaticMembership,
             UNCHANGED <<cut, overdue, members, smap, viewNet, view, decisions>>,
             hbNet' \subseteq hbNet,
             \A w \in InitialWorkers : Up(w) => Up(w)',
             \A w \in Worker, r \in Request :
               reqNet'[w][r] > 0 \/ Queued(w, r)' => reqNet[w][r] > 0 \/ Queued(w, r) \/ w = Home(r)
      PROVE  StaticInv'
  <2>1. MembershipUnmoved'
    BY <1>6 DEF MembershipUnmoved
  <2>2. OneMap'
    BY <1>6 DEF OneMap
  <2>3. OnlyAtHome'
    BY <1>6 DEF OnlyAtHome, Home
  <2>4. QED
    BY <2>1, <2>2, <2>3
<1>7. ASSUME \/ \E c \in Coordinator, r \in Request : CoordinatorReceivesSpill(c, r)
             \/ UNCHANGED vars
      PROVE  StaticInv'
  <2>1. UNCHANGED <<life, cut, faults, overdue, members, smap, viewNet, view, decisions,
                    hbNet, reqNet, pending>>
    BY <1>7 DEF CoordinatorReceivesSpill, vars, envVars, netVars, workerVars, controlVars
  <2>2. StaticMembership
    BY <2>1 DEF StaticMembership, NoLossSoFar, NobodyJoined
  <2>3. QED
    BY <1>6, <2>1, <2>2 DEF Up, Queued
<1>8. CASE Duplicate
  <2>1. /\ UNCHANGED <<life, cut, overdue, members, smap, viewNet, view, decisions,
                       hbNet, pending>>
        /\ faults'["kill_worker"] = faults["kill_worker"]
        /\ faults'["partition"] = faults["partition"]
        /\ faults'["lost_spell"] = faults["lost_spell"]
    BY <1>1, <1>8 DEF Duplicate, workerVars, controlVars, TypeOK
  <2>2. StaticMembership
    BY <2>1 DEF StaticMembership, NoLossSoFar, NobodyJoined
  <2>3. ASSUME NEW w \in Worker, NEW r \in Request, reqNet'[w][r] > 0 PROVE reqNet[w][r] > 0
    <3>1. ASSUME NEW x \in Worker, NEW q \in Request, reqNet[x][q] > 0,
                 reqNet' = [reqNet EXCEPT ![x][q] = @ + 1]
          PROVE  reqNet[w][r] > 0
      BY <1>1, <2>3, <3>1
    <3>2. QED
      BY <1>8, <2>3, <3>1 DEF Duplicate
  <2>4. QED
    BY <1>6, <2>1, <2>2, <2>3 DEF Up, Queued
<1>9. ASSUME NEW r \in Request, Emit(r) PROVE StaticInv'
  <2>1. UNCHANGED <<life, cut, faults, overdue, members, smap, viewNet, view, decisions,
                    hbNet, pending>>
    BY <1>9 DEF Emit, envVars, workerVars, controlVars
  <2>2. StaticMembership
    BY <2>1 DEF StaticMembership, NoLossSoFar, NobodyJoined
  <2>3. ASSUME NEW w \in Worker, NEW q \in Request, reqNet'[w][q] > 0
        PROVE  reqNet[w][q] > 0 \/ w = Home(q)
    <3>1. CASE view[Gateway] = NoView
      BY <1>9, <2>3, <3>1 DEF Emit
    <3>2. CASE view[Gateway] # NoView
      <4>1. reqNet' = Forward(Gateway, view[Gateway], OneEach({r}))
        BY <1>9, <3>2 DEF Emit
      <4>2. view[Gateway] \in {InitialMap, NoView} /\ OneEach({r}) \in [Request -> Nat]
        BY <1>1, <2>2, OneEachType DEF OneMap
      <4>3. QED
        BY <1>1, <2>2, <2>3, <4>1, <4>2, ForwardHome
    <3>3. QED
      BY <3>1, <3>2
  <2>4. QED
    BY <1>6, <2>1, <2>2, <2>3 DEF Up, Queued
<1>10. ASSUME NEW x \in viewNet, IF x[1] = Gateway THEN GatewayReceivesView(x[2])
                                                   ELSE WorkerReceivesView(x[1], x[2])
       PROVE  StaticInv'
  <2>1. /\ UNCHANGED <<life, cut, faults, overdue, members, smap, decisions, hbNet, pending>>
        /\ viewNet' \subseteq viewNet
        /\ view' = [view EXCEPT ![x[1]] = x[2]]
        /\ reqNet' = reqNet \/ reqNet' = Forward(Gateway, x[2], OneEach(buffer))
    BY <1>10 DEF GatewayReceivesView, WorkerReceivesView, envVars, workerVars, controlVars
  <2>2. StaticMembership
    BY <2>1 DEF StaticMembership, NoLossSoFar, NobodyJoined
  <2>3. x[2] = InitialMap
    BY <2>2 DEF OneMap
  <2>4. MembershipUnmoved'
    BY <2>1, <2>2 DEF MembershipUnmoved, Up
  <2>5. OneMap'
    BY <1>1, <2>1, <2>2, <2>3 DEF OneMap
  <2>6. \A w \in Worker, q \in Request : reqNet'[w][q] > 0 => reqNet[w][q] > 0 \/ w = Home(q)
    <3>1. OneEach(buffer) \in [Request -> Nat]
      BY OneEachType
    <3>2. QED
      BY <1>1, <2>1, <2>2, <2>3, <3>1, ForwardHome
  <2>7. OnlyAtHome'
    BY <2>1, <2>2, <2>6 DEF OnlyAtHome, Queued, Home
  <2>8. QED
    BY <2>4, <2>5, <2>7
<1>11. ASSUME NEW w \in Worker, NEW r \in Request, WorkerReceivesRequest(w, r)
       PROVE  StaticInv'
  <2>1. /\ reqNet[w][r] > 0 /\ reqNet' = [reqNet EXCEPT ![w][r] = @ - 1]
        /\ pending' = pending \/ pending' = [pending EXCEPT ![w] = Append(pending[w], r)]
        /\ UNCHANGED <<life, cut, faults, overdue, members, smap, viewNet, view, decisions, hbNet>>
    BY <1>11 DEF WorkerReceivesRequest, envVars, controlVars
  <2>2. StaticMembership
    BY <2>1 DEF StaticMembership, NoLossSoFar, NobodyJoined
  <2>3. \A x \in Worker, q \in Request : reqNet'[x][q] > 0 => reqNet[x][q] > 0
    BY <1>1, <2>1
  <2>4. ASSUME NEW x \in Worker, NEW q \in Request, Queued(x, q)'
        PROVE  Queued(x, q) \/ reqNet[x][q] > 0
    <3>1. CASE pending' = pending \/ x # w
      BY <1>1, <2>1, <2>4, <3>1 DEF Queued
    <3>2. CASE x = w /\ pending' # pending
      <4>1. pending'[w] = Append(pending[w], r) /\ pending[w] \in Seq(Request)
        BY <1>1, <2>1, <3>2
      <4>2. /\ Len(pending'[w]) = Len(pending[w]) + 1 /\ Len(pending[w]) \in Nat
            /\ pending'[w][Len(pending[w]) + 1] = r
            /\ \A i \in 1 .. Len(pending[w]) : pending'[w][i] = pending[w][i]
        BY <4>1
      <4>3. Queued(w, q) \/ q = r
        BY <2>4, <3>2, <4>2 DEF Queued, Contains
      <4>4. QED
        BY <2>1, <3>2, <4>3
    <3>3. QED
      BY <3>1, <3>2
  <2>5. QED
    BY <1>6, <2>1, <2>2, <2>3, <2>4 DEF Up
<1>12. ASSUME NEW w \in Worker, NEW beats \in BOOLEAN, WorkerTick(w, beats) PROVE StaticInv'
  <2>1. Up(w) /\ StaticMembership
    BY <1>12 DEF WorkerTick, envVars, StaticMembership, NoLossSoFar, NobodyJoined
  <2>2. w \in InitialWorkers
    BY <2>1 DEF StaticMembership, NobodyJoined, Up
  <2>3. QED
    BY <1>12, <2>1, <2>2, StaticWorkerTick
<1>13. ASSUME NEW c \in Coordinator, NEW heard, heard \in SUBSET Arrived(c),
              FollowerTick(c, heard)
       PROVE  StaticInv'
  <2>1. /\ UNCHANGED <<life, cut, faults, smap, viewNet, view, decisions, reqNet, pending>>
        /\ hbNet' \subseteq hbNet /\ overdue' \subseteq overdue
        /\ members' = [members EXCEPT ![c] = @ \cup heard]
    BY <1>13 DEF FollowerTick, envVars, workerVars
  <2>2. StaticMembership
    BY <2>1 DEF StaticMembership, NoLossSoFar, NobodyJoined
  <2>3. heard = {} /\ overdue = {}
    BY <1>13, <2>2 DEF MembershipUnmoved, Arrived
  <2>4. members' = members /\ overdue' = overdue
    BY <1>1, <2>1, <2>3
  <2>5. QED
    BY <1>6, <2>1, <2>2, <2>4 DEF Up, Queued
<1>14. ASSUME NEW c \in Coordinator, NEW heard \in SUBSET Arrived(c),
              NEW joins \in SetToSeqs(heard \ members[c]), NEW due \in BOOLEAN,
              LeaderTick(c, heard, joins, due)
       PROVE  StaticInv'
  <2>1. StaticMembership
    BY <1>14 DEF LeaderTick, envVars, StaticMembership, NoLossSoFar, NobodyJoined
  <2>2. QED
    BY <1>14, <2>1, StaticLeaderTick
<1>15. CASE KillLeader
  <2>1. /\ lease # Nobody /\ life' = [life EXCEPT ![lease] = "dead"]
        /\ hbNet' \subseteq hbNet
        /\ faults'["kill_worker"] = faults["kill_worker"]
        /\ faults'["partition"] = faults["partition"]
        /\ faults'["lost_spell"] = faults["lost_spell"]
        /\ UNCHANGED <<cut, overdue, members, smap, viewNet, view, decisions, reqNet, pending>>
    BY <1>1, <1>15 DEF KillLeader, workerVars, TypeOK
  <2>2. \A w \in Worker : life'[w] = life[w]
    BY <1>1, <2>1 DEF Actor
  <2>3. StaticMembership
    BY <2>1, <2>2 DEF StaticMembership, NoLossSoFar, NobodyJoined
  <2>4. QED
    BY <1>1, <1>6, <2>1, <2>2, <2>3 DEF Up, Queued
\* Nobody is cut off, no worker is dead and nobody's heartbeats are lost.
<1>16. CASE TimeoutStep
  <2>1. StaticMembership
    <3>1. /\ life' = life
          /\ \A f \in FaultKind \ {"lost_spell"} : faults'[f] = faults[f]
          /\ faults'["lost_spell"] >= faults["lost_spell"]
      BY <1>1, <1>16, TimeoutFrame
    <3>2. QED
      BY <1>1, <3>1 DEF StaticMembership, NoLossSoFar, NobodyJoined
  <2>2. cut = {} /\ \A w \in Worker : life[w] # "dead"
    BY <2>1 DEF StaticMembership, NobodyJoined, MembershipUnmoved, Up
  <2>3. PICK c \in Coordinator, w \in Worker : HeartbeatsLost(c, w)
    BY <1>16, <2>2 DEF TimeoutStep, HeartbeatTimeout, CutOffTimeout
  <2>4. faults'["lost_spell"] = faults["lost_spell"] + 1
    BY <1>1, <2>3 DEF HeartbeatsLost, TypeOK
  <2>5. QED
    BY <1>1, <2>4 DEF StaticMembership
<1>17. QED
  BY <1>2, <1>3, <1>4, <1>5, <1>7, <1>8, <1>9, <1>10, <1>11, <1>12, <1>13, <1>14, <1>15,
     <1>16 DEF Next, TimeoutStep

LEMMA StaticInvariant == Spec => [](TypeInv /\ DedupeInv /\ StaticInv)
<1>1. Init => TypeInv /\ DedupeInv /\ StaticInv
  BY TypeInvInit, DedupeInvInit, StaticInit
<1>2. TypeInv /\ DedupeInv /\ StaticInv /\ [Next]_vars => (TypeInv /\ DedupeInv /\ StaticInv)'
  BY TypeInvStep, DedupeInvStep, StaticStep
<1>3. QED
  BY <1>1, <1>2, PTL DEF Spec

DecidedOnce == \A r \in Request : Len(decisions[r]) <= 1

LEMMA DecidedOnceSettles ==
  ASSUME TypeOK, DecidedOnce
  PROVE  NoDoubleBooking /\ BookedStaysAssigned
<1>1. \A r \in Request : /\ Len(decisions[r]) \in Nat /\ Len(decisions[r]) <= 1
                         /\ DOMAIN decisions[r] = 1 .. Len(decisions[r])
  BY DecisionFacts DEF DecidedOnce
<1>2. NoDoubleBooking
  BY <1>1 DEF NoDoubleBooking
<1>3. BookedStaysAssigned
  <2> SUFFICES ASSUME NEW r \in Request, NEW i \in DOMAIN decisions[r],
                      decisions[r][i].on # NoPlan
               PROVE  Last(decisions[r]).on # NoPlan
    BY DEF BookedStaysAssigned
  <2>1. i = Len(decisions[r])
    BY <1>1
  <2>2. QED
    BY <2>1 DEF Last
<1>4. QED
  BY <1>2, <1>3

LEMMA StaticDecidesOnce ==
  ASSUME TypeOK, DedupeInv, StaticInv, StaticMembership PROVE DecidedOnce
<1> SUFFICES ASSUME NEW r \in Request PROVE Len(decisions[r]) <= 1
  BY DEF DecidedOnce
<1>1. Len(decisions[r]) \in Nat /\ DOMAIN decisions[r] = 1 .. Len(decisions[r])
  BY DecisionFacts
<1>2. \A i, j \in 1 .. Len(decisions[r]) : i = j
  BY <1>1 DEF StaticInv, OnlyAtHome, DedupeInv, AtMostOncePerWorker
<1>3. QED
  <2>1. SUFFICES ASSUME Len(decisions[r]) > 1 PROVE FALSE
    BY <1>1
  <2>2. 1 \in 1 .. Len(decisions[r]) /\ 2 \in 1 .. Len(decisions[r])
    BY <1>1, <2>1
  <2>3. QED
    BY <1>2, <2>2

\* While no worker joins, dies, is cut off or times out over lost heartbeats, a
\* passenger is booked on at most one vehicle, however many copies the bus makes and
\* however many leaders die and replay their spill buffers.
THEOREM NoDoubleBookingWhileStatic == Spec => [](StaticMembership => NoDoubleBooking)
<1>1. TypeInv /\ DedupeInv /\ StaticInv => (StaticMembership => NoDoubleBooking)
  BY StaticDecidesOnce, DecidedOnceSettles DEF TypeInv
<1>2. QED
  BY <1>1, StaticInvariant, PTL

\* There a booking is never followed by a rejection either.
THEOREM BookedStaysAssignedWhileStatic == Spec => [](StaticMembership => BookedStaysAssigned)
<1>1. TypeInv /\ DedupeInv /\ StaticInv => (StaticMembership => BookedStaysAssigned)
  BY StaticDecidesOnce, DecidedOnceSettles DEF TypeInv
<1>2. QED
  BY <1>1, StaticInvariant, PTL

-----------------------------------------------------------------------------
(***************************************************************************)
(* Bookings while the bus makes no second copy and no leader dies: however *)
(* the membership changes, there is at most one copy of a request that can *)
(* still be decided.  A spill reaches every candidate, but only the leader *)
(* ever feeds its copy back, and the leader stays the same.                *)
(***************************************************************************)
Unreplayed == faults["kill_leader"] = 0 /\ faults["duplicate"] = 0

\* Where request r is, apart from the copies that no leader will feed back.
Places(r) ==
  ({"buffered"} \X {g \in {Gateway} : r \in buffer})
    \cup ({"sent"} \X {w \in Worker : reqNet[w][r] > 0})
    \cup ({"queued"} \X {w \in Worker : Queued(w, r)})
    \cup ({"spilled"} \X {c \in {lease} \ {Nobody} : spillNet[c][r] > 0})
    \cup ({"held"} \X {c \in {lease} \ {Nobody} : Contains(spillBuf[c], r)})
    \cup ({"decided"} \X {d \in {Nobody} : decisions[r] # <<>>})

Settled(r) ==
  /\ \A p, q \in Places(r) : p = q
  /\ r \notin emitted => Places(r) = {}
  /\ \A w \in Worker : reqNet[w][r] <= 1
  /\ lease # Nobody => spillNet[lease][r] <= 1
  /\ Len(decisions[r]) <= 1

HeldDistinct ==
  lease # Nobody =>
    \A i, j \in 1 .. Len(spillBuf[lease]) : spillBuf[lease][i] = spillBuf[lease][j] => i = j

\* Requests move only once there is a map, hence a leader.
StillUntilElected ==
  lease = Nobody =>
    /\ viewNet = {} /\ \A a \in Viewer : view[a] = NoView
    /\ \A w \in Worker, r \in Request : reqNet[w][r] = 0 /\ ~ Queued(w, r)
    /\ \A c \in Coordinator, r \in Request : spillNet[c][r] = 0 /\ ~ Contains(spillBuf[c], r)

SoleCopyInv ==
  Unreplayed => /\ \A r \in Request : Settled(r)
                /\ HeldDistinct
                /\ StillUntilElected

NoneSent(r) == \A w \in Worker : reqNet[w][r] = 0
NoneQueued(r) == \A w \in Worker : ~ Queued(w, r)
NoneSpilled(r) == lease # Nobody => spillNet[lease][r] = 0
NoneHeld(r) == lease # Nobody => ~ Contains(spillBuf[lease], r)
Undecided(r) == decisions[r] = <<>>

\* A copy in one place rules out copies in the others.
LEMMA SoleFacts ==
  ASSUME TypeOK, NEW r \in Request, Settled(r)
  PROVE  /\ r \in buffer =>
              NoneSent(r) /\ NoneQueued(r) /\ NoneSpilled(r) /\ NoneHeld(r) /\ Undecided(r)
         /\ \A w \in Worker : reqNet[w][r] > 0 =>
              /\ r \notin buffer /\ \A x \in Worker \ {w} : reqNet[x][r] = 0
              /\ NoneQueued(r) /\ NoneSpilled(r) /\ NoneHeld(r) /\ Undecided(r)
         /\ \A w \in Worker : Queued(w, r) =>
              /\ r \notin buffer /\ \A x \in Worker \ {w} : ~ Queued(x, r)
              /\ NoneSent(r) /\ NoneSpilled(r) /\ NoneHeld(r) /\ Undecided(r)
         /\ lease # Nobody /\ spillNet[lease][r] > 0 =>
              r \notin buffer /\ NoneSent(r) /\ NoneQueued(r) /\ NoneHeld(r) /\ Undecided(r)
         /\ lease # Nobody /\ Contains(spillBuf[lease], r) =>
              r \notin buffer /\ NoneSent(r) /\ NoneQueued(r) /\ NoneSpilled(r) /\ Undecided(r)
         /\ r \notin emitted =>
              /\ r \notin buffer /\ NoneSent(r) /\ NoneQueued(r)
              /\ NoneSpilled(r) /\ NoneHeld(r) /\ Undecided(r)
<1>1. /\ \A w \in Worker : reqNet[w][r] \in Nat
      /\ lease # Nobody => spillNet[lease][r] \in Nat
  BY DEF TypeOK
<1>2. /\ r \in buffer => <<"buffered", Gateway>> \in Places(r)
      /\ \A w \in Worker : reqNet[w][r] # 0 => <<"sent", w>> \in Places(r)
      /\ \A w \in Worker : Queued(w, r) => <<"queued", w>> \in Places(r)
      /\ lease # Nobody /\ spillNet[lease][r] # 0 => <<"spilled", lease>> \in Places(r)
      /\ lease # Nobody /\ Contains(spillBuf[lease], r) => <<"held", lease>> \in Places(r)
      /\ decisions[r] # <<>> => <<"decided", Nobody>> \in Places(r)
  BY <1>1 DEF Places
<1>3. \A p, q \in Places(r) : p = q
  BY DEF Settled
<1>4. r \notin emitted => Places(r) = {}
  BY DEF Settled
<1> USE DEF NoneSent, NoneQueued, NoneSpilled, NoneHeld, Undecided
<1>5. CASE r \in buffer
  <2>1. \A q \in Places(r) : q = <<"buffered", Gateway>>
    BY <1>2, <1>3, <1>5
  <2>2. NoneSent(r) /\ NoneQueued(r) /\ NoneSpilled(r) /\ NoneHeld(r) /\ Undecided(r)
    BY <1>2, <2>1
  <2>3. r \in emitted
    BY <1>2, <1>4, <1>5
  <2>4. /\ \A w \in Worker : ~ (reqNet[w][r] > 0) /\ ~ Queued(w, r)
        /\ lease # Nobody => ~ (spillNet[lease][r] > 0) /\ ~ Contains(spillBuf[lease], r)
    BY <2>2
  <2>5. QED
    BY <1>5, <2>2, <2>3, <2>4
<1>6. CASE r \notin buffer
  <2>1. ASSUME NEW w \in Worker, reqNet[w][r] > 0
        PROVE  /\ \A x \in Worker \ {w} : reqNet[x][r] = 0
               /\ NoneQueued(r) /\ NoneSpilled(r) /\ NoneHeld(r) /\ Undecided(r)
    <3> reqNet[w][r] # 0
      BY <1>1, <2>1
    <3>1. \A q \in Places(r) : q = <<"sent", w>>
      BY <1>2, <1>3
    <3>2. \A x \in Worker \ {w} : <<"sent", x>> # <<"sent", w>>
      OBVIOUS
    <3>3. \A x \in Worker \ {w} : reqNet[x][r] = 0
      BY <1>2, <3>1, <3>2
    <3>4. NoneQueued(r) /\ NoneSpilled(r) /\ NoneHeld(r) /\ Undecided(r)
      BY <1>2, <3>1
    <3>5. QED
      BY <3>3, <3>4
  <2>2. ASSUME NEW w \in Worker, Queued(w, r)
        PROVE  /\ \A x \in Worker \ {w} : ~ Queued(x, r)
               /\ NoneSent(r) /\ NoneSpilled(r) /\ NoneHeld(r) /\ Undecided(r)
    <3>1. \A q \in Places(r) : q = <<"queued", w>>
      BY <1>2, <1>3, <2>2
    <3>2. QED
      BY <1>2, <3>1
  <2>3. ASSUME lease # Nobody, spillNet[lease][r] > 0
        PROVE  NoneSent(r) /\ NoneQueued(r) /\ NoneHeld(r) /\ Undecided(r)
    <3>1. \A q \in Places(r) : q = <<"spilled", lease>>
      BY <1>1, <1>2, <1>3, <2>3
    <3>2. QED
      BY <1>2, <3>1
  <2>4. ASSUME lease # Nobody, Contains(spillBuf[lease], r)
        PROVE  NoneSent(r) /\ NoneQueued(r) /\ NoneSpilled(r) /\ Undecided(r)
    <3>1. \A q \in Places(r) : q = <<"held", lease>>
      BY <1>2, <1>3, <2>4
    <3>2. QED
      BY <1>2, <3>1
  <2>5. r \notin emitted => /\ NoneSent(r) /\ NoneQueued(r)
                            /\ NoneSpilled(r) /\ NoneHeld(r) /\ Undecided(r)
    BY <1>2, <1>4
  <2>6. QED
    BY <1>6, <2>1, <2>2, <2>3, <2>4, <2>5
<1>7. QED
  BY <1>5, <1>6

\* Publishing the only copy leaves one copy, with the owner of the cell.
LEMMA ForwardSole ==
  ASSUME TypeOK, NEW from, NEW map, NEW copies \in [Request -> Nat], NEW r \in Request,
         copies[r] <= 1, NoneSent(r), NEW w \in Worker
  PROVE  /\ Forward(from, map, copies)[w][r] <= 1
         /\ Forward(from, map, copies)[w][r] > 0 => w = OwnerIn(map, PickupCell[r])
<1>1. Forward(from, map, copies)[w][r] =
        0 + IF OwnerIn(map, PickupCell[r]) = w /\ Reaches(from, w) THEN copies[r] ELSE 0
  BY DEF Forward, NoneSent
<1>2. copies[r] \in Nat
  OBVIOUS
<1>3. QED
  BY <1>1, <1>2

LEMMA ForwardLeaves ==
  ASSUME TypeOK, NEW from, NEW map, NEW copies \in [Request -> Nat], NEW r \in Request,
         copies[r] = 0, NEW w \in Worker
  PROVE  Forward(from, map, copies)[w][r] = reqNet[w][r]
BY ForwardFacts

\* A step that brings no copy of r anywhere.
LEMMA SettledAlone ==
  ASSUME NEW r, Settled(r), r \in emitted => r \in emitted', r \in buffer' => r \in buffer,
         \A w \in Worker : /\ reqNet'[w][r] = reqNet[w][r] \/ reqNet'[w][r] = 0
                           /\ Queued(w, r)' => Queued(w, r),
         lease' = lease, decisions'[r] = decisions[r],
         lease # Nobody => /\ spillNet'[lease][r] = spillNet[lease][r]
                           /\ Contains(spillBuf'[lease], r) => Contains(spillBuf[lease], r)
  PROVE  Settled(r)'
<1>1. Places(r)' \subseteq Places(r)
  BY DEF Places
<1>2. QED
  BY <1>1 DEF Settled

\* A step that leaves at most one copy of r, at place p.
LEMMA SettledAt ==
  ASSUME NEW r, NEW p, Places(r)' \subseteq {p}, r \in emitted',
         \A w \in Worker : reqNet'[w][r] <= 1,
         lease' # Nobody => spillNet'[lease'][r] <= 1,
         Len(decisions'[r]) <= 1
  PROVE  Settled(r)'
BY DEF Settled

LEMMA SoleWorkerTick ==
  ASSUME TypeOK, QueuesDistinct, \A r \in Request : Settled(r),
         NEW w \in Worker, NEW beats \in BOOLEAN, WorkerTick(w, beats)
  PROVE  \A r \in Request : Settled(r)'
<1>1. PICK plan \in [Dispatched(w) -> OwnedBy(w) \cup {NoPlan}] :
        decisions' = [r \in Request |->
          IF r \in Dispatched(w) THEN Append(decisions[r], [by |-> w, on |-> plan[r]])
                                 ELSE decisions[r]]
  BY DEF WorkerTick
<1>2. /\ pending'[w] = Kept(w)
      /\ \A x \in Worker \ {w} : pending'[x] = pending[x]
      /\ reqNet' = Forward(w, view[w], OneEach(Rerouted(w)))
      /\ OneEach(Rerouted(w)) \in [Request -> Nat]
      /\ UNCHANGED <<emitted, buffer, lease, spillBuf>>
  BY OneEachType DEF WorkerTick, Kept, TypeOK, envVars, gatewayVars, controlVars
<1>3. /\ \A i \in 1 .. Len(Kept(w)) :
           /\ Kept(w)[i] \notin Batch(w) \cup Spilled(w)
           /\ \E k \in 1 .. Len(pending[w]) : Kept(w)[i] = pending[w][k]
      /\ Batch(w) \cap Spilled(w) = {}
      /\ \A r \in Batch(w) \cup Spilled(w) : Queued(w, r)
      /\ Rerouted(w) \subseteq Batch(w) /\ Dispatched(w) = Batch(w) \ Rerouted(w)
  BY TickMoves DEF Queued, Contains, Rerouted, Dispatched
<1>4. \A x \in Worker, r \in Request :
        Queued(x, r)' => Queued(x, r) /\ (x = w => r \notin Batch(w) \cup Spilled(w))
  BY <1>2, <1>3 DEF Queued, Contains
<1>5. \A c \in Coordinator, r \in Request :
        /\ spillNet[c][r] \in Nat
        /\ spillNet'[c][r] = spillNet[c][r] + IF r \in Spilled(w) /\ Reaches(w, c) THEN 1 ELSE 0
  BY DEF WorkerTick, TypeOK
<1>6. lease # Nobody => lease \in Coordinator
  BY DEF TypeOK
<1> SUFFICES ASSUME NEW r \in Request PROVE Settled(r)'
  OBVIOUS
<1>7. lease # Nobody /\ r \notin Spilled(w) => spillNet'[lease][r] = spillNet[lease][r]
  BY <1>5, <1>6
<1>8. r \notin Rerouted(w) => \A x \in Worker : reqNet'[x][r] = reqNet[x][r]
  BY <1>2, ForwardLeaves DEF OneEach
<1>9. r \notin Dispatched(w) => decisions'[r] = decisions[r]
  BY <1>1
<1>10. CASE r \notin Batch(w) \cup Spilled(w)
  BY <1>2, <1>3, <1>4, <1>7, <1>8, <1>9, <1>10, SettledAlone
<1>11. CASE r \in Batch(w) \cup Spilled(w)
  <2>1. /\ Queued(w, r) /\ r \in emitted
        /\ r \notin buffer /\ \A x \in Worker \ {w} : ~ Queued(x, r)
        /\ NoneSent(r) /\ NoneSpilled(r) /\ NoneHeld(r) /\ Undecided(r)
    <3>1. Queued(w, r)
      BY <1>3, <1>11
    <3>2. QED
      BY <3>1, SoleFacts DEF NoneQueued
  <2>2. \A x \in Worker : ~ Queued(x, r)'
    BY <1>4, <1>11, <2>1
  <2>3. r \notin buffer' /\ r \in emitted' /\ (lease' # Nobody => ~ Contains(spillBuf'[lease'], r))
    BY <1>2, <2>1 DEF NoneHeld
  <2>4. CASE r \in Dispatched(w)
    <3>1. r \notin Rerouted(w) /\ r \notin Spilled(w)
      BY <1>3, <2>4
    <3>2. /\ \A x \in Worker : reqNet'[x][r] = 0
          /\ lease' # Nobody => spillNet'[lease'][r] = 0
      BY <1>2, <1>7, <1>8, <2>1, <3>1 DEF NoneSent, NoneSpilled
    <3>3. Len(decisions'[r]) = 1
      BY <1>1, <2>1, <2>4 DEF Undecided
    <3>4. Places(r)' \subseteq {<<"decided", Nobody>>}
      BY <2>2, <2>3, <3>2 DEF Places
    <3>5. /\ \A x \in Worker : reqNet'[x][r] <= 1
          /\ lease' # Nobody => spillNet'[lease'][r] <= 1
          /\ Len(decisions'[r]) <= 1
      BY <3>2, <3>3
    <3>6. QED
      BY <2>3, <3>4, <3>5, SettledAt
  <2>5. CASE r \in Rerouted(w)
    <3>1. PICK o : o = OwnerIn(view[w], PickupCell[r])
      OBVIOUS
    <3>2. r \notin Spilled(w) /\ r \notin Dispatched(w)
      BY <1>3, <2>5
    <3>3. decisions'[r] = <<>> /\ (lease' # Nobody => spillNet'[lease'][r] = 0)
      BY <1>2, <1>7, <1>9, <2>1, <3>2 DEF NoneSpilled, Undecided
    <3>4. \A x \in Worker : reqNet'[x][r] <= 1 /\ (reqNet'[x][r] > 0 => x = o)
      BY <1>2, <2>1, <3>1, ForwardSole DEF OneEach
    <3>5. Places(r)' \subseteq {<<"sent", o>>}
      BY <2>2, <2>3, <3>3, <3>4 DEF Places
    <3>6. /\ \A x \in Worker : reqNet'[x][r] <= 1
          /\ lease' # Nobody => spillNet'[lease'][r] <= 1
          /\ Len(decisions'[r]) <= 1
      BY <3>3, <3>4
    <3>7. QED
      BY <2>3, <3>5, <3>6, SettledAt
  <2>6. CASE r \in Spilled(w)
    <3>1. r \notin Rerouted(w) /\ r \notin Dispatched(w)
      BY <1>3, <2>6
    <3>2. decisions'[r] = <<>> /\ \A x \in Worker : reqNet'[x][r] = 0
      BY <1>8, <1>9, <2>1, <3>1 DEF NoneSent, Undecided
    <3>3. lease' # Nobody => spillNet'[lease'][r] <= 1
      BY <1>2, <1>5, <1>6, <2>1 DEF NoneSpilled
    <3>4. Places(r)' \subseteq {<<"spilled", lease'>>}
      BY <2>2, <2>3, <3>2 DEF Places
    <3>5. /\ \A x \in Worker : reqNet'[x][r] <= 1
          /\ Len(decisions'[r]) <= 1
      BY <3>2
    <3>6. QED
      BY <2>3, <3>3, <3>4, <3>5, SettledAt
  <2>7. QED
    BY <1>3, <1>11, <2>4, <2>5, <2>6
<1>12. QED
  BY <1>10, <1>11

LEMMA SoleWorkerReceives ==
  ASSUME TypeOK, \A r \in Request : Settled(r),
         NEW w \in Worker, NEW q \in Request, WorkerReceivesRequest(w, q)
  PROVE  \A r \in Request : Settled(r)'
<1>1. /\ reqNet[w][q] > 0 /\ reqNet' = [reqNet EXCEPT ![w][q] = @ - 1]
      /\ pending' = pending \/ pending' = [pending EXCEPT ![w] = Append(pending[w], q)]
      /\ UNCHANGED <<emitted, buffer, lease, spillNet, spillBuf, decisions>>
  BY DEF WorkerReceivesRequest, envVars, gatewayVars, controlVars
<1>2. /\ reqNet \in [Worker -> [Request -> Nat]] /\ pending \in [Worker -> Seq(Request)]
  BY DEF TypeOK
<1>3. \A x \in Worker, r \in Request :
        Queued(x, r)' => Queued(x, r) \/ (x = w /\ r = q)
  <2>1. \A i \in 1 .. Len(Append(pending[w], q)) :
          \/ Append(pending[w], q)[i] = q
          \/ i \in 1 .. Len(pending[w]) /\ Append(pending[w], q)[i] = pending[w][i]
    <3>1. pending[w] \in Seq(Request)
      BY <1>2
    <3>2. QED
      BY <3>1
  <2>2. QED
    BY <1>1, <1>2, <2>1 DEF Queued, Contains
<1> SUFFICES ASSUME NEW r \in Request PROVE Settled(r)'
  OBVIOUS
<1>4. CASE r # q
  <2>1. \A x \in Worker : reqNet'[x][r] = reqNet[x][r]
    BY <1>1, <1>2, <1>4
  <2>2. QED
    BY <1>1, <1>3, <1>4, <2>1, SettledAlone
<1>5. CASE r = q
  <2>1. /\ q \notin buffer /\ \A x \in Worker \ {w} : reqNet[x][q] = 0
        /\ NoneQueued(q) /\ NoneSpilled(q) /\ NoneHeld(q) /\ Undecided(q)
    BY <1>1, SoleFacts
  <2>2. reqNet[w][q] <= 1 /\ reqNet[w][q] \in Nat /\ reqNet'[w][q] = reqNet[w][q] - 1
    BY <1>1, <1>2 DEF Settled
  <2>3. \A x \in Worker : reqNet'[x][q] = 0
    BY <1>1, <1>2, <2>1, <2>2
  <2>4. q \in emitted
    <3>1. ~ NoneSent(q)
      BY <1>1 DEF NoneSent
    <3>2. QED
      BY <3>1, SoleFacts
  <2>5. Places(q)' \subseteq {<<"queued", w>>}
    BY <1>1, <1>3, <2>1, <2>3 DEF Places, NoneQueued, NoneSpilled, NoneHeld, Undecided
  <2>6. /\ \A x \in Worker : reqNet'[x][q] <= 1
        /\ lease' # Nobody => spillNet'[lease'][q] <= 1
        /\ Len(decisions'[q]) <= 1 /\ q \in emitted'
    BY <1>1, <2>1, <2>3, <2>4 DEF NoneSpilled, Undecided
  <2>7. QED
    BY <1>5, <2>5, <2>6, SettledAt
<1>6. QED
  BY <1>4, <1>5

\* The leader, which is the first one, feeds back the only copy of what it holds.
LEMMA SoleLeaderTick ==
  ASSUME TypeOK, \A r \in Request : Settled(r), HeldDistinct, StillUntilElected, CandidatesLive,
         NEW c \in Coordinator, NEW heard, NEW joins, NEW due \in BOOLEAN,
         LeaderTick(c, heard, joins, due)
  PROVE  (\A r \in Request : Settled(r)') /\ HeldDistinct'
<1>1. /\ lease \in {Nobody, c} /\ lease' = c /\ c # Nobody
      /\ spillBuf \in [Coordinator -> Seq(Request)] /\ spillBuf[c] \in Seq(Request)
      /\ Reinjected(c) \in [Request -> Nat]
      /\ ReinjectSize(c) \in 0 .. Len(spillBuf[c])
      /\ \A r \in Request : decisions[r] \in Seq([by : Worker, on : Vehicle \cup {NoPlan}])
  <2>1. lease \in {Nobody, c} /\ c # Nobody
    BY IdAssumption DEF LeaderTick, CanLead, CandidatesLive, Up, TypeOK, Actor
  <2>2. Reinjected(c) \in [Request -> Nat] /\ ReinjectSize(c) \in 0 .. Len(spillBuf[c])
    BY ReinjectFacts
  <2>3. QED
    BY <2>1, <2>2 DEF LeaderTick, TypeOK
<1> PICK L \in Nat : L = Len(spillBuf[c])
  BY <1>1
<1> PICK k \in 0 .. L : k = ReinjectSize(c)
  BY <1>1
<1> PICK map : map = smap'[c]
  OBVIOUS
<1>2. /\ reqNet' = Forward(c, map, Reinjected(c))
      /\ spillBuf' = [spillBuf EXCEPT ![c] = SubSeq(spillBuf[c], k + 1, L)]
      /\ UNCHANGED <<emitted, buffer, decisions, pending, spillNet>>
  BY DEF LeaderTick, gatewayVars, workerVars
<1>3. /\ Len(spillBuf'[c]) = L - k
      /\ \A j \in 1 .. L - k : spillBuf'[c][j] = spillBuf[c][k + j]
  <2>1. spillBuf'[c] = SubSeq(spillBuf[c], k + 1, L)
    BY <1>1, <1>2
  <2>2. k \in 0 .. Len(spillBuf[c]) /\ spillBuf[c] \in Seq(Request)
    BY <1>1
  <2>3. /\ Len(SubSeq(spillBuf[c], k + 1, Len(spillBuf[c]))) = Len(spillBuf[c]) - k
        /\ \A j \in 1 .. Len(spillBuf[c]) - k :
             SubSeq(spillBuf[c], k + 1, Len(spillBuf[c]))[j] = spillBuf[c][k + j]
    BY <2>2, RestFacts
  <2>4. QED
    BY <2>1, <2>3
<1>4. \A i, j \in 1 .. L : spillBuf[c][i] = spillBuf[c][j] => i = j
  <2>1. CASE lease = c
    BY <1>1, <2>1 DEF HeldDistinct
  <2>2. CASE lease = Nobody
    <3>1. \A i \in 1 .. L : spillBuf[c][i] \in Request
      BY <1>1
    <3>2. QED
      BY <2>2, <3>1 DEF StillUntilElected, Contains
  <2>3. QED
    BY <1>1, <2>1, <2>2
<1>5. HeldDistinct'
  <2>1. \A j \in 1 .. L - k : k + j \in 1 .. L
    OBVIOUS
  <2>2. \A i, j \in 1 .. L - k : k + i = k + j => i = j
    OBVIOUS
  <2>3. \A i, j \in 1 .. L - k : spillBuf'[c][i] = spillBuf'[c][j] => i = j
    BY SMTT(30), <1>3, <1>4, <2>1, <2>2
  <2>4. QED
    BY <1>1, <1>3, <2>3 DEF HeldDistinct
<1> SUFFICES ASSUME NEW r \in Request PROVE Settled(r)'
  BY <1>5
<1>6. Contains(spillBuf'[c], r) =>
        \E i \in 1 .. L : i > k /\ spillBuf[c][i] = r
  <2>1. \A j \in 1 .. L - k : k + j \in 1 .. L /\ k + j > k
    OBVIOUS
  <2>2. QED
    BY <1>3, <2>1 DEF Contains
<1>7. \A d \in Worker : Queued(d, r)' <=> Queued(d, r)
  BY <1>2 DEF Queued
<1>8. CASE \E i \in 1 .. k : spillBuf[c][i] = r
  <2>1. PICK i \in 1 .. k : spillBuf[c][i] = r
    BY <1>8
  <2>2. i \in 1 .. L
    OBVIOUS
  <2>3. Contains(spillBuf[c], r) /\ lease = c
    <3>1. Contains(spillBuf[c], r)
      BY <2>1, <2>2 DEF Contains
    <3>2. QED
      BY <1>1, <3>1 DEF StillUntilElected
  <2>4. /\ r \notin buffer /\ NoneSent(r) /\ NoneQueued(r) /\ NoneSpilled(r) /\ Undecided(r)
        /\ r \in emitted
    <3>1. ~ NoneHeld(r)
      BY <1>1, <2>3 DEF NoneHeld
    <3>2. QED
      BY <1>1, <2>3, <3>1, SoleFacts
  <2>5. ~ Contains(spillBuf'[c], r)
    BY <1>4, <1>6, <2>1, <2>2
  <2>6. Reinjected(c)[r] = 1
    <3>1. {j \in 1 .. k : spillBuf[c][j] = r} = {i}
      BY <1>4, <2>1
    <3>2. Cardinality({i}) = 1
      BY FS_Singleton
    <3>3. Reinjected(c)[r] = Cardinality({j \in 1 .. k : spillBuf[c][j] = r})
      BY DEF Reinjected
    <3>4. QED
      BY <3>1, <3>2, <3>3
  <2>7. \A w \in Worker : /\ reqNet'[w][r] <= 1
                          /\ reqNet'[w][r] > 0 => w = OwnerIn(map, PickupCell[r])
    <3>1. Reinjected(c) \in [Request -> Nat] /\ Reinjected(c)[r] <= 1
      BY <1>1, <2>6
    <3>2. QED
      BY <1>2, <2>4, <3>1, ForwardSole
  <2>8. spillNet'[c][r] = 0 /\ decisions'[r] = <<>>
    BY <1>1, <1>2, <2>3, <2>4 DEF NoneSpilled, Undecided
  <2>9. PICK o : o = OwnerIn(map, PickupCell[r])
    OBVIOUS
  <2>10. Places(r)' \subseteq {<<"sent", o>>}
    BY SMTT(30), <1>1, <1>2, <1>7, <2>4, <2>5, <2>7, <2>8, <2>9 DEF Places, NoneQueued
  <2>11. /\ r \in emitted' /\ \A w \in Worker : reqNet'[w][r] <= 1
         /\ lease' # Nobody => spillNet'[lease'][r] <= 1
         /\ Len(decisions'[r]) <= 1
    BY <1>1, <1>2, <2>4, <2>7, <2>8
  <2>12. QED
    BY <2>10, <2>11, SettledAt
<1>9. CASE ~ \E i \in 1 .. k : spillBuf[c][i] = r
  <2>1. Reinjected(c)[r] = 0
    <3>1. {j \in 1 .. k : spillBuf[c][j] = r} = {}
      BY <1>9
    <3>2. QED
      BY <3>1, FS_EmptySet DEF Reinjected
  <2>2. \A w \in Worker : reqNet'[w][r] = reqNet[w][r]
    BY <1>1, <1>2, <2>1, ForwardLeaves
  <2>3. Contains(spillBuf'[c], r) => Contains(spillBuf[c], r)
    BY <1>6 DEF Contains
  <2>4. CASE lease = c
    BY <1>1, <1>2, <1>7, <2>2, <2>3, <2>4, SettledAlone
  <2>5. CASE lease = Nobody
    <3>1. spillNet'[c][r] = 0 /\ ~ Contains(spillBuf'[c], r)
      BY <1>2, <2>3, <2>5 DEF StillUntilElected
    <3>2. Places(r)' \subseteq Places(r)
      BY <1>1, <1>2, <1>7, <2>2, <3>1 DEF Places
    <3>3. lease' # Nobody => spillNet'[lease'][r] <= 1
      BY <1>1, <3>1
    <3>4. QED
      BY <1>2, <2>2, <3>2, <3>3 DEF Settled
  <2>6. QED
    BY <1>1, <2>4, <2>5
<1>10. QED
  BY <1>8, <1>9

LEMMA SoleSpillReceived ==
  ASSUME TypeOK, \A r \in Request : Settled(r), HeldDistinct, StillUntilElected,
         NEW c \in Coordinator, NEW q \in Request, CoordinatorReceivesSpill(c, q)
  PROVE  (\A r \in Request : Settled(r)') /\ HeldDistinct'
<1>1. /\ spillNet[c][q] > 0 /\ spillNet' = [spillNet EXCEPT ![c][q] = @ - 1]
      /\ spillBuf' = [spillBuf EXCEPT ![c] = Append(spillBuf[c], q)]
      /\ UNCHANGED <<emitted, buffer, lease, reqNet, pending, decisions>>
  BY DEF CoordinatorReceivesSpill, gatewayVars, workerVars
<1>2. /\ spillNet \in [Coordinator -> [Request -> Nat]]
      /\ spillBuf \in [Coordinator -> Seq(Request)]
      /\ lease \in Coordinator \cup {Nobody}
  BY DEF TypeOK
<1>3. lease \in Coordinator /\ lease # Nobody
  BY <1>1, <1>2, IdAssumption DEF StillUntilElected, Actor
<1>4. \A w \in Worker, r \in Request : Queued(w, r)' <=> Queued(w, r)
  BY <1>1 DEF Queued
<1>5. CASE c # lease
  <2>1. spillNet'[lease] = spillNet[lease] /\ spillBuf'[lease] = spillBuf[lease]
    BY <1>1, <1>2, <1>3, <1>5
  <2>2. HeldDistinct'
    <3>1. \A i, j \in 1 .. Len(spillBuf'[lease]) :
            spillBuf'[lease][i] = spillBuf'[lease][j] => i = j
      BY <1>3, <2>1 DEF HeldDistinct
    <3>2. QED
      BY <1>1, <3>1 DEF HeldDistinct
  <2>3. ASSUME NEW r \in Request PROVE Settled(r)'
    BY <1>1, <1>4, <2>1, SettledAlone
  <2>4. QED
    BY <2>2, <2>3
<1>6. CASE c = lease
  <2>1. /\ q \notin buffer /\ NoneSent(q) /\ NoneQueued(q) /\ NoneHeld(q) /\ Undecided(q)
        /\ q \in emitted
    <3>1. ~ NoneSpilled(q)
      BY <1>1, <1>3, <1>6 DEF NoneSpilled
    <3>2. QED
      BY <1>1, <1>3, <1>6, <3>1, SoleFacts
  <2>2. PICK n \in Nat : n = Len(spillBuf[c])
    BY <1>2
  <2>3. /\ Len(spillBuf'[c]) = n + 1 /\ spillBuf'[c][n + 1] = q
        /\ \A i \in 1 .. n : spillBuf'[c][i] = spillBuf[c][i]
    <3>1. spillBuf'[c] = Append(spillBuf[c], q) /\ spillBuf[c] \in Seq(Request)
      BY <1>1, <1>2
    <3>2. QED
      BY <2>2, <3>1
  <2>4. HeldDistinct'
    <3>1. \A i, j \in 1 .. n : spillBuf[c][i] = spillBuf[c][j] => i = j
      BY <1>3, <1>6, <2>2 DEF HeldDistinct
    <3>2. \A i \in 1 .. n : spillBuf[c][i] # q
      BY <1>3, <1>6, <2>1, <2>2 DEF NoneHeld, Contains
    <3>3. \A i, j \in 1 .. n + 1 : spillBuf'[c][i] = spillBuf'[c][j] => i = j
      <4>1. \A i \in 1 .. n + 1 : i \in 1 .. n \/ i = n + 1
        OBVIOUS
      <4>2. QED
        BY <2>3, <3>1, <3>2, <4>1
    <3>4. QED
      BY <1>1, <1>6, <2>3, <3>3 DEF HeldDistinct
  <2>5. ASSUME NEW r \in Request, r # q PROVE Settled(r)'
    <3>1. spillNet'[c][r] = spillNet[c][r]
      BY <1>1, <1>2, <2>5
    <3>2. Contains(spillBuf'[c], r) => Contains(spillBuf[c], r)
      BY <2>2, <2>3, <2>5 DEF Contains
    <3>3. QED
      BY <1>1, <1>4, <1>6, <3>1, <3>2, SettledAlone
  <2>6. Settled(q)'
    <3>1. spillNet[c][q] <= 1 /\ spillNet[c][q] \in Nat /\ spillNet'[c][q] = spillNet[c][q] - 1
      BY <1>1, <1>2, <1>3, <1>6 DEF Settled
    <3>2. spillNet'[c][q] = 0
      BY <1>1, <3>1
    <3>3. Places(q)' \subseteq {<<"held", c>>}
      BY <1>1, <1>4, <1>6, <2>1, <3>2 DEF Places, NoneSent, NoneQueued, Undecided
    <3>4. /\ \A w \in Worker : reqNet'[w][q] <= 1
          /\ lease' # Nobody => spillNet'[lease'][q] <= 1
          /\ Len(decisions'[q]) <= 1 /\ q \in emitted'
      BY <1>1, <1>6, <2>1, <3>2 DEF NoneSent, Undecided
    <3>5. QED
      BY <3>3, <3>4, SettledAt
  <2>7. QED
    BY <2>4, <2>5, <2>6
<1>7. QED
  BY <1>5, <1>6

LEMMA SoleCopyInit == Init => SoleCopyInv
<1> SUFFICES ASSUME Init PROVE SoleCopyInv
  OBVIOUS
<1>1. StillUntilElected /\ HeldDistinct
  BY DEF Init, StillUntilElected, HeldDistinct, Queued, Contains
<1>2. ASSUME NEW r \in Request PROVE Settled(r)
  <2>1. Places(r) = {}
    BY <1>2 DEF Init, Places, Queued, Contains
  <2>2. (\A w \in Worker : reqNet[w][r] = 0) /\ decisions[r] = <<>> /\ lease = Nobody
    BY <1>2 DEF Init
  <2>3. QED
    BY <2>1, <2>2 DEF Settled
<1>3. QED
  BY <1>1, <1>2 DEF SoleCopyInv

LEMMA SoleCopyStep ==
  TypeInv /\ DedupeInv /\ FirstTermInv /\ SoleCopyInv /\ [Next]_vars => SoleCopyInv'
<1> SUFFICES ASSUME TypeInv, DedupeInv, FirstTermInv, SoleCopyInv, [Next]_vars, Unreplayed'
             PROVE  SoleCopyInv'
  BY DEF SoleCopyInv
<1> USE DEF SoleCopyInv, FaultKind
<1>1. /\ TypeOK /\ QueuesDistinct
      /\ faults["kill_leader"] \in Nat /\ faults["duplicate"] \in Nat
      /\ lease \in Coordinator \cup {Nobody} /\ Nobody \notin Coordinator
      /\ Gateway \in Viewer
      /\ reqNet \in [Worker -> [Request -> Nat]]
      /\ pending \in [Worker -> Seq(Request)]
      /\ viewNet \subseteq Viewer \X ShardMap
      /\ emitted \subseteq Request /\ buffer \subseteq emitted
  BY IdAssumption DEF TypeInv, TypeOK, DedupeInv, Actor, Viewer
<1>2. CASE Duplicate
  BY <1>1, <1>2 DEF Duplicate, Unreplayed, TypeOK
<1>3. CASE KillLeader
  BY <1>1, <1>3 DEF KillLeader, Unreplayed, TypeOK
\* Steps that move no request.
<1>4. ASSUME Unreplayed,
             UNCHANGED <<emitted, buffer, reqNet, pending, spillNet, spillBuf, decisions, lease>>,
             lease = Nobody => UNCHANGED <<viewNet, view>>
      PROVE  SoleCopyInv'
  <2>1. \A r \in Request : Settled(r)'
    BY <1>4, SettledAlone DEF Queued
  <2>2. HeldDistinct' /\ StillUntilElected'
    BY <1>4 DEF HeldDistinct, StillUntilElected, Queued
  <2>3. QED
    BY <2>1, <2>2
<1>5. ASSUME \/ \E c \in Coordinator : \E heard \in SUBSET Arrived(c) : FollowerTick(c, heard)
             \/ \E w \in Worker : AddWorker(w)
             \/ HealPartition
             \/ TimeoutStep
             \/ UNCHANGED vars
      PROVE  SoleCopyInv'
  <2>1. /\ UNCHANGED <<emitted, buffer, reqNet, pending, spillNet, spillBuf, decisions,
                       lease, viewNet, view>>
        /\ faults'["kill_leader"] = faults["kill_leader"]
        /\ faults'["duplicate"] = faults["duplicate"]
    BY <1>1, <1>5, TimeoutFrame
       DEF FollowerTick, AddWorker, HealPartition, vars, envVars, netVars, gatewayVars,
           workerVars, controlVars
  <2>2. Unreplayed
    BY <2>1 DEF Unreplayed
  <2>3. QED
    BY <1>4, <2>1, <2>2
<1>6. ASSUME NEW nodes \in Partitions, SetPartition(nodes) PROVE SoleCopyInv'
  <2>1. /\ UNCHANGED <<emitted, buffer, reqNet, pending, spillNet, spillBuf, decisions,
                       lease, viewNet, view>>
        /\ faults'["kill_leader"] = faults["kill_leader"]
        /\ faults'["duplicate"] = faults["duplicate"]
    BY <1>1, <1>6 DEF SetPartition, netVars, gatewayVars, workerVars, controlVars, TypeOK
  <2>2. Unreplayed
    BY <2>1 DEF Unreplayed
  <2>3. QED
    BY <1>4, <2>1, <2>2
<1>7. ASSUME NEW w \in Worker, KillWorker(w) PROVE SoleCopyInv'
  <2>1. /\ pending' = [pending EXCEPT ![w] = <<>>]
        /\ reqNet' = [reqNet EXCEPT ![w] = [r \in Request |-> 0]]
        /\ viewNet' \subseteq viewNet
        /\ UNCHANGED <<emitted, buffer, spillNet, spillBuf, decisions, lease, view>>
        /\ faults'["kill_leader"] = faults["kill_leader"]
        /\ faults'["duplicate"] = faults["duplicate"]
    BY <1>1, <1>7 DEF KillWorker, gatewayVars, controlVars, TypeOK
  <2>2. Unreplayed
    BY <2>1 DEF Unreplayed
  <2>3. \A x \in Worker, r \in Request :
          /\ reqNet'[x][r] = reqNet[x][r] \/ reqNet'[x][r] = 0
          /\ Queued(x, r)' => Queued(x, r)
    BY <1>1, <2>1 DEF Queued, Contains
  <2>4. \A r \in Request : Settled(r)'
    BY <2>1, <2>2, <2>3, SettledAlone
  <2>5. HeldDistinct'
    BY <2>1, <2>2 DEF HeldDistinct
  <2>6. StillUntilElected'
    BY <2>1, <2>2, <2>3 DEF StillUntilElected
  <2>7. QED
    BY <2>4, <2>5, <2>6
<1>8. ASSUME NEW q \in Request, Emit(q) PROVE SoleCopyInv'
  <2>1. /\ q \notin emitted /\ emitted' = emitted \cup {q}
        /\ UNCHANGED <<faults, pending, spillNet, spillBuf, decisions, lease, viewNet, view>>
        /\ \A r \in Request : r # q => (r \in buffer' => r \in buffer)
    BY <1>8 DEF Emit, envVars, workerVars, controlVars
  <2>2. Unreplayed
    BY <2>1 DEF Unreplayed
  <2>3. OneEach({q}) \in [Request -> Nat] /\ \A r \in Request : OneEach({q})[r] = IF r = q THEN 1 ELSE 0
    BY OneEachType DEF OneEach
  <2>4. view[Gateway] = NoView => reqNet' = reqNet /\ buffer' = buffer \cup {q}
    BY <1>8 DEF Emit
  <2>5. view[Gateway] # NoView =>
          reqNet' = Forward(Gateway, view[Gateway], OneEach({q})) /\ buffer' = buffer
    BY <1>8 DEF Emit
  <2>6. ASSUME NEW r \in Request, r # q PROVE Settled(r)'
    <3>1. \A w \in Worker : reqNet'[w][r] = reqNet[w][r]
      <4>1. OneEach({q})[r] = 0
        BY <2>3, <2>6
      <4>2. \A w \in Worker :
              Forward(Gateway, view[Gateway], OneEach({q}))[w][r] = reqNet[w][r]
        <5>1. TypeOK /\ OneEach({q}) \in [Request -> Nat]
          BY <1>1, <2>3
        <5>2. QED
          BY <4>1, <5>1, ForwardLeaves
      <4>3. QED
        BY <2>4, <2>5, <4>2
    <3>2. QED
      BY <2>1, <2>2, <2>6, <3>1, SettledAlone DEF Queued
  <2>7. Settled(q)'
    <3>1. /\ q \notin buffer /\ NoneSent(q) /\ NoneQueued(q)
          /\ NoneSpilled(q) /\ NoneHeld(q) /\ Undecided(q)
      BY <1>1, <2>1, <2>2, SoleFacts
    <3>2. /\ q \in emitted' /\ Len(decisions'[q]) <= 1
          /\ lease' # Nobody => spillNet'[lease'][q] <= 1
      BY <2>1, <3>1 DEF NoneSpilled, Undecided
    <3>3. CASE view[Gateway] = NoView
      <4>1. Places(q)' \subseteq {<<"buffered", Gateway>>}
        BY <2>1, <2>4, <3>1, <3>3
           DEF Places, Queued, NoneSent, NoneQueued, NoneSpilled, NoneHeld, Undecided
      <4>2. \A w \in Worker : reqNet'[w][q] <= 1
        BY <2>4, <3>1, <3>3 DEF NoneSent
      <4>3. QED
        BY <3>2, <4>1, <4>2, SettledAt
    <3>4. CASE view[Gateway] # NoView
      <4>1. PICK o : o = OwnerIn(view[Gateway], PickupCell[q])
        OBVIOUS
      <4>2. OneEach({q})[q] <= 1
        BY <2>3
      <4>3. \A w \in Worker : reqNet'[w][q] <= 1 /\ (reqNet'[w][q] > 0 => w = o)
        BY ZenonT(30), <1>1, <2>3, <2>5, <3>1, <3>4, <4>1, <4>2, ForwardSole
      <4>4. Places(q)' \subseteq {<<"sent", o>>}
        BY <2>1, <2>5, <3>1, <3>4, <4>3
           DEF Places, Queued, NoneQueued, NoneSpilled, NoneHeld, Undecided
      <4>5. QED
        BY <3>2, <4>3, <4>4, SettledAt
    <3>5. QED
      BY <3>3, <3>4
  <2>8. HeldDistinct' /\ StillUntilElected'
    BY <1>1, <2>1, <2>2, <2>4 DEF HeldDistinct, StillUntilElected, Queued
  <2>9. QED
    BY <2>6, <2>7, <2>8
<1>9. ASSUME NEW m, GatewayReceivesView(m) PROVE SoleCopyInv'
  <2>1. /\ <<Gateway, m>> \in viewNet /\ buffer' = {}
        /\ reqNet' = Forward(Gateway, m, OneEach(buffer))
        /\ UNCHANGED <<faults, emitted, pending, spillNet, spillBuf, decisions, lease>>
    BY <1>9 DEF GatewayReceivesView, envVars, workerVars, controlVars
  <2>2. Unreplayed
    BY <2>1 DEF Unreplayed
  <2>3. lease # Nobody
    BY <2>1, <2>2 DEF StillUntilElected
  <2>4. /\ OneEach(buffer) \in [Request -> Nat]
        /\ \A r \in Request : OneEach(buffer)[r] = IF r \in buffer THEN 1 ELSE 0
    BY OneEachType DEF OneEach
  <2>5. ASSUME NEW r \in Request, r \notin buffer PROVE Settled(r)'
    <3>1. OneEach(buffer)[r] = 0
      BY <2>4, <2>5
    <3>2. \A w \in Worker : Forward(Gateway, m, OneEach(buffer))[w][r] = reqNet[w][r]
      <4>1. TypeOK /\ OneEach(buffer) \in [Request -> Nat]
        BY <1>1, <2>4
      <4>2. QED
        BY <3>1, <4>1, ForwardLeaves
    <3>3. QED
      BY <2>1, <2>2, <3>2, SettledAlone DEF Queued
  <2>6. ASSUME NEW r \in Request, r \in buffer PROVE Settled(r)'
    <3>1. NoneSent(r) /\ NoneQueued(r) /\ NoneSpilled(r) /\ NoneHeld(r) /\ Undecided(r)
      BY <1>1, <2>2, <2>6, SoleFacts
    <3>2. PICK o : o = OwnerIn(m, PickupCell[r])
      OBVIOUS
    <3>3. OneEach(buffer)[r] <= 1
      BY <2>4
    <3>4. \A w \in Worker : reqNet'[w][r] <= 1 /\ (reqNet'[w][r] > 0 => w = o)
      BY <1>1, <2>1, <2>4, <3>1, <3>2, <3>3, ForwardSole
    <3>5. Places(r)' \subseteq {<<"sent", o>>}
      BY <2>1, <3>1, <3>4 DEF Places, Queued, NoneQueued, NoneSpilled, NoneHeld, Undecided
    <3>6. /\ r \in emitted' /\ Len(decisions'[r]) <= 1
          /\ lease' # Nobody => spillNet'[lease'][r] <= 1
      BY <1>1, <2>1, <2>6, <3>1 DEF NoneSpilled, Undecided
    <3>7. QED
      BY <3>4, <3>5, <3>6, SettledAt
  <2>7. HeldDistinct' /\ StillUntilElected'
    BY <2>1, <2>2, <2>3 DEF HeldDistinct, StillUntilElected
  <2>8. QED
    BY <2>5, <2>6, <2>7
<1>10. ASSUME NEW w \in Worker, NEW m, WorkerReceivesView(w, m) PROVE SoleCopyInv'
  <2>1. /\ <<w, m>> \in viewNet
        /\ UNCHANGED <<faults, emitted, buffer, reqNet, pending, spillNet, spillBuf, decisions, lease>>
    BY <1>10 DEF WorkerReceivesView, envVars, gatewayVars, workerVars, controlVars
  <2>2. Unreplayed
    BY <2>1 DEF Unreplayed
  <2>3. lease # Nobody
    BY <2>1, <2>2 DEF StillUntilElected
  <2>4. QED
    BY <1>4, <2>1, <2>2, <2>3
<1>11. ASSUME NEW w \in Worker, NEW q \in Request, WorkerReceivesRequest(w, q)
       PROVE  SoleCopyInv'
  <2>1. /\ reqNet[w][q] > 0
        /\ UNCHANGED <<faults, spillBuf, lease>>
    BY <1>11 DEF WorkerReceivesRequest, envVars, controlVars
  <2>2. Unreplayed
    BY <2>1 DEF Unreplayed
  <2>3. lease # Nobody
    BY <2>1, <2>2 DEF StillUntilElected
  <2>4. HeldDistinct' /\ StillUntilElected'
    BY <2>1, <2>2, <2>3 DEF HeldDistinct, StillUntilElected
  <2>5. QED
    BY <1>1, <1>11, <2>2, <2>4, SoleWorkerReceives
<1>12. ASSUME NEW w \in Worker, NEW beats \in BOOLEAN, WorkerTick(w, beats) PROVE SoleCopyInv'
  <2>1. UNCHANGED <<faults, spillBuf, lease, viewNet, view>>
    BY <1>12 DEF WorkerTick, envVars, controlVars
  <2>2. Unreplayed
    BY <2>1 DEF Unreplayed
  <2>3. HeldDistinct'
    BY <2>1, <2>2 DEF HeldDistinct
  <2>4. StillUntilElected'
    <3> SUFFICES ASSUME lease = Nobody
                 PROVE  /\ \A x \in Worker, r \in Request : reqNet'[x][r] = 0 /\ ~ Queued(x, r)'
                        /\ \A c \in Coordinator, r \in Request : spillNet'[c][r] = 0
      BY <2>1, <2>2 DEF StillUntilElected
    <3>1. \A x \in Worker, r \in Request : reqNet[x][r] = 0 /\ ~ Queued(x, r)
      BY <2>2 DEF StillUntilElected
    <3>2. Batch(w) = {} /\ Spilled(w) = {} /\ \A x \in Worker, r \in Request : ~ Queued(x, r)'
      <4>1. /\ \A i \in 1 .. Len(Kept(w)) : \E k \in 1 .. Len(pending[w]) : Kept(w)[i] = pending[w][k]
            /\ \A r \in Batch(w) \cup Spilled(w) : Queued(w, r)
        BY <1>1, TickMoves DEF Queued, Contains
      <4>2. Batch(w) \cup Spilled(w) \subseteq Request
        BY <1>1, BatchFacts
      <4>3. /\ pending'[w] = Kept(w)
            /\ \A x \in Worker \ {w} : pending'[x] = pending[x]
        BY <1>1, <1>12 DEF WorkerTick, Kept
      <4>4. QED
        BY <3>1, <4>1, <4>2, <4>3 DEF Queued, Contains
    <3>3. reqNet' = Forward(w, view[w], OneEach(Rerouted(w))) /\ Rerouted(w) = {}
      BY <1>12, <3>2 DEF WorkerTick, Rerouted
    <3>4. \A x \in Worker, r \in Request : reqNet'[x][r] = reqNet[x][r]
      <4>1. OneEach(Rerouted(w)) \in [Request -> Nat] /\ \A r \in Request : OneEach(Rerouted(w))[r] = 0
        BY <3>3, OneEachType DEF OneEach
      <4>2. QED
        BY <1>1, <3>3, <4>1, ForwardLeaves
    <3>5. \A c \in Coordinator, r \in Request : spillNet'[c][r] = spillNet[c][r] + 0
      BY <1>12, <3>2 DEF WorkerTick
    <3>6. QED
      BY <2>2, <3>1, <3>2, <3>4, <3>5 DEF StillUntilElected
  <2>5. QED
    BY <1>1, <1>12, <2>2, <2>3, <2>4, SoleWorkerTick
<1>13. ASSUME NEW c \in Coordinator, NEW q \in Request, CoordinatorReceivesSpill(c, q)
       PROVE  SoleCopyInv'
  <2>1. spillNet[c][q] > 0 /\ UNCHANGED <<faults, lease>>
    BY <1>13 DEF CoordinatorReceivesSpill, envVars
  <2>2. Unreplayed
    BY <2>1 DEF Unreplayed
  <2>3. lease # Nobody
    BY <2>1, <2>2 DEF StillUntilElected
  <2>4. StillUntilElected'
    BY <2>1, <2>3 DEF StillUntilElected
  <2>5. QED
    BY <1>1, <1>13, <2>2, <2>4, SoleSpillReceived
<1>14. ASSUME NEW c \in Coordinator, NEW heard \in SUBSET Arrived(c),
              NEW joins \in SetToSeqs(heard \ members[c]), NEW due \in BOOLEAN,
              LeaderTick(c, heard, joins, due)
       PROVE  SoleCopyInv'
  <2>1. lease' = c /\ UNCHANGED faults
    BY <1>14 DEF LeaderTick, envVars
  <2>2. Unreplayed
    BY <2>1 DEF Unreplayed
  <2>3. StillUntilElected'
    BY <1>1, <2>1 DEF StillUntilElected
  <2>4. CandidatesLive
    BY <2>2 DEF FirstTermInv, NoLeaderKilled, Unreplayed
  <2>5. QED
    BY <1>1, <1>14, <2>2, <2>3, <2>4, SoleLeaderTick
<1>15. ASSUME NEW x \in viewNet, IF x[1] = Gateway THEN GatewayReceivesView(x[2])
                                                   ELSE WorkerReceivesView(x[1], x[2])
       PROVE  SoleCopyInv'
  <2>1. x[1] \in Worker \cup {Gateway}
    BY <1>1 DEF Viewer
  <2>2. QED
    BY <1>9, <1>10, <1>15, <2>1
<1>16. QED
  BY <1>2, <1>3, <1>5, <1>6, <1>7, <1>8, <1>11, <1>12, <1>13, <1>14, <1>15
     DEF Next, TimeoutStep

LEMMA SoleCopyInvariant == Spec => [](TypeInv /\ DedupeInv /\ FirstTermInv /\ SoleCopyInv)
<1>1. Init => TypeInv /\ DedupeInv /\ FirstTermInv /\ SoleCopyInv
  BY TypeInvInit, DedupeInvInit, FirstTermInit, SoleCopyInit
<1>2. TypeInv /\ DedupeInv /\ FirstTermInv /\ SoleCopyInv /\ [Next]_vars
        => (TypeInv /\ DedupeInv /\ FirstTermInv /\ SoleCopyInv)'
  BY TypeInvStep, DedupeInvStep, FirstTermStep, SoleCopyStep
<1>3. QED
  BY <1>1, <1>2, PTL DEF Spec

\* While no leader has been killed and the bus has duplicated nothing, a passenger is
\* booked on at most one vehicle, whatever workers join, die or are cut off: reroutes
\* and spills move the only copy (worker.py: _reroute, _maybe_spill; coordinator.py:
\* _reinject_spill).
THEOREM NoDoubleBookingWhileUnreplayed == Spec => [](Unreplayed => NoDoubleBooking)
<1>1. TypeInv /\ SoleCopyInv => (Unreplayed => NoDoubleBooking)
  BY DecidedOnceSettles DEF TypeInv, SoleCopyInv, Settled, DecidedOnce
<1>2. QED
  BY <1>1, SoleCopyInvariant, PTL

\* There a booking is never followed by a rejection either.
THEOREM BookedStaysAssignedWhileUnreplayed == Spec => [](Unreplayed => BookedStaysAssigned)
<1>1. TypeInv /\ SoleCopyInv => (Unreplayed => BookedStaysAssigned)
  BY DecidedOnceSettles DEF TypeInv, SoleCopyInv, Settled, DecidedOnce
<1>2. QED
  BY <1>1, SoleCopyInvariant, PTL
=============================================================================
