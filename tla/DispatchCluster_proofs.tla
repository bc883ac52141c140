------------------------- MODULE DispatchCluster_proofs -------------------------
(***************************************************************************)
(* Proofs about module DispatchCluster, for every number of workers,       *)
(* coordinators, requests and vehicles and every bound on the faults.      *)
(***************************************************************************)
EXTENDS DispatchCluster, HrwSharding_proofs, FiniteSetTheorems, SequenceTheorems

-----------------------------------------------------------------------------
(***************************************************************************)
(* Types of the operators the actions are built from.                      *)
(***************************************************************************)
LEMMA ForwardType ==
  ASSUME TypeOK, NEW from, NEW map, NEW copies \in [Request -> Nat]
  PROVE  Forward(from, map, copies) \in [Worker -> [Request -> Nat]]
BY DEF Forward, TypeOK

LEMMA OneEachType ==
  ASSUME NEW rs PROVE OneEach(rs) \in [Request -> Nat]
BY DEF OneEach

LEMMA PublishedType ==
  ASSUME NEW from, NEW maps \in SUBSET ShardMap
  PROVE  Published(from, maps) \subseteq Viewer \X ShardMap
BY DEF Published

\* Setting one of the counters of messages in flight to a natural number.
LEMMA CountersTyped ==
  ASSUME NEW S, NEW net \in [S -> [Request -> Nat]], NEW s \in S, NEW r \in Request
  PROVE  /\ net[s][r] \in Nat
         /\ [net EXCEPT ![s][r] = @ + 1] \in [S -> [Request -> Nat]]
         /\ net[s][r] > 0 => [net EXCEPT ![s][r] = @ - 1] \in [S -> [Request -> Nat]]
<1>1. net[s] \in [Request -> Nat] /\ net[s][r] \in Nat
  OBVIOUS
<1>2. ASSUME NEW n \in Nat
      PROVE  [net EXCEPT ![s][r] = n] \in [S -> [Request -> Nat]]
  <2>1. [net[s] EXCEPT ![r] = n] \in [Request -> Nat]
    BY <1>1
  <2>2. QED
    BY <2>1
<1>3. net[s][r] + 1 \in Nat /\ (net[s][r] > 0 => net[s][r] - 1 \in Nat)
  BY <1>1
<1>4. QED
  BY <1>1, <1>2, <1>3

LEMMA BatchFacts ==
  ASSUME TypeOK, NEW w \in Worker
  PROVE  /\ BatchSize(w) \in 0 .. Len(pending[w])
         /\ Backlog(w) \in Seq(Request)
         /\ Len(Backlog(w)) = Len(pending[w]) - BatchSize(w)
         /\ \A i \in 1 .. Len(Backlog(w)) : Backlog(w)[i] = pending[w][BatchSize(w) + i]
         /\ Batch(w) \subseteq Request /\ Spilled(w) \subseteq Request
<1>1. pending[w] \in Seq(Request) /\ Len(pending[w]) \in Nat
  BY DEF TypeOK
<1>2. BatchSize(w) \in 0 .. Len(pending[w])
  BY <1>1, ConfigAssumption DEF BatchSize, Least
<1>3. /\ Backlog(w) \in Seq(Request)
      /\ Len(Backlog(w)) = Len(pending[w]) - BatchSize(w)
      /\ \A i \in 1 .. Len(Backlog(w)) : Backlog(w)[i] = pending[w][BatchSize(w) + i]
  BY <1>1, <1>2, SubSeqProperties DEF Backlog
<1>4. Batch(w) \subseteq Request
  BY <1>1, <1>2 DEF Batch
<1>5. Spilled(w) \subseteq Request
  BY <1>3, ConfigAssumption DEF Spilled
<1>6. QED
  BY <1>2, <1>3, <1>4, <1>5

\* The queue a tick leaves behind is a prefix of the backlog.
LEMMA KeptFacts ==
  ASSUME TypeOK, NEW w \in Worker
  PROVE  LET kept == SubSeq(Backlog(w), 1, Least(Len(Backlog(w)), QueueHighWater))
         IN  /\ kept \in Seq(Request)
             /\ Len(kept) = Least(Len(Backlog(w)), QueueHighWater)
             /\ Len(kept) <= Len(Backlog(w)) /\ Len(kept) <= QueueHighWater
             /\ \A i \in 1 .. Len(kept) : kept[i] = Backlog(w)[i]
<1>1. Backlog(w) \in Seq(Request) /\ Len(Backlog(w)) \in Nat
  BY BatchFacts
<1>2. /\ Least(Len(Backlog(w)), QueueHighWater) \in 0 .. Len(Backlog(w))
      /\ Least(Len(Backlog(w)), QueueHighWater) <= QueueHighWater
  BY <1>1, ConfigAssumption DEF Least
<1>3. QED
  BY <1>1, <1>2, SubSeqProperties

-----------------------------------------------------------------------------
(***************************************************************************)
(* The maps a coordinator builds.                                          *)
(***************************************************************************)
\* A map that build_shard_map made for a non-empty set of workers.
Built(map) ==
  /\ map \in ShardMap
  /\ map.nodes # {}
  /\ map = BuildShardMap(map.nodes, map.version)

LEMMA BuildIsBuilt ==
  ASSUME NEW nodes \in SUBSET Worker, nodes # {}, NEW version \in Nat
  PROVE  Built(BuildShardMap(nodes, version))
BY ShardMapIsTotal DEF Built, BuildShardMap

LEMMA JoinsFacts ==
  ASSUME NEW S \in SUBSET Worker, NEW joins \in SetToSeqs(S)
  PROVE  /\ Len(joins) \in Nat /\ DOMAIN joins = 1 .. Len(joins)
         /\ joins \in Seq(S)
         /\ \A i \in DOMAIN joins : joins[i] \in S
<1>1. Cardinality(S) \in Nat
  BY IdAssumption, FS_Subset, FS_CardinalityType
<1>2. joins \in [1 .. Cardinality(S) -> S]
  BY DEF SetToSeqs
<1>3. QED
  BY <1>1, <1>2

LEMMA JoinMapsFacts ==
  ASSUME TypeOK, NEW c \in Coordinator, Built(smap[c]),
         NEW heard \in SUBSET Worker, NEW joins \in SetToSeqs(heard \ members[c])
  PROVE  /\ JoinMaps(c, joins) \in Seq(ShardMap)
         /\ ToSet(JoinMaps(c, joins)) \subseteq ShardMap
         /\ Built(MapAfterJoins(c, joins))
<1>1. /\ Len(joins) \in Nat /\ DOMAIN joins = 1 .. Len(joins)
      /\ \A i \in DOMAIN joins : joins[i] \in Worker
  BY JoinsFacts
<1>2. CASE lease # c
  BY <1>2 DEF JoinMaps, MapAfterJoins, ToSet, Built
<1>3. CASE lease = c
  <2> DEFINE grown(i) == members[c] \cup {joins[j] : j \in 1 .. i}
  <2>1. ASSUME NEW i \in 1 .. Len(joins)
        PROVE  /\ grown(i) \in SUBSET Worker /\ grown(i) # {}
               /\ smap[c].version + i \in Nat
    <3>1. \A j \in 1 .. i : joins[j] \in Worker
      BY <1>1
    <3>2. joins[1] \in grown(i)
      OBVIOUS
    <3>3. members[c] \in SUBSET Worker /\ smap[c].version \in Nat
      BY DEF TypeOK, ShardMap
    <3>4. QED
      BY SMTT(30), <3>1, <3>2, <3>3
  <2>2. ASSUME NEW i \in 1 .. Len(joins)
        PROVE  Built(BuildShardMap(grown(i), smap[c].version + i))
    BY <2>1, BuildIsBuilt
  <2>3. JoinMaps(c, joins) =
          [i \in 1 .. Len(joins) |-> BuildShardMap(grown(i), smap[c].version + i)]
    BY <1>1, <1>3 DEF JoinMaps
  <2> HIDE DEF grown
  <2>4. /\ JoinMaps(c, joins) \in [1 .. Len(joins) -> ShardMap]
        /\ \A i \in 1 .. Len(joins) : Built(JoinMaps(c, joins)[i])
    BY <2>2, <2>3 DEF Built
  <2>5. JoinMaps(c, joins) \in Seq(ShardMap) /\ Len(JoinMaps(c, joins)) = Len(joins)
    BY <2>4, <1>1
  <2>6. ToSet(JoinMaps(c, joins)) \subseteq ShardMap
    BY <2>4 DEF ToSet
  <2>7. Built(MapAfterJoins(c, joins))
    <3>1. CASE JoinMaps(c, joins) = <<>>
      BY <3>1 DEF MapAfterJoins
    <3>2. CASE JoinMaps(c, joins) # <<>>
      <4>1. Len(joins) \in 1 .. Len(joins)
        BY <2>5, <3>2, <1>1
      <4>2. QED
        BY <4>1, <2>4, <2>5, <3>2 DEF MapAfterJoins, Last
    <3>3. QED
      BY <3>1, <3>2
  <2>8. QED
    BY <2>5, <2>6, <2>7
<1>4. QED
  BY <1>2, <1>3

LEMMA NewMapIsBuilt ==
  ASSUME TypeOK, NEW c \in Coordinator, Built(smap[c]),
         NEW heard \in SUBSET Worker, NEW joins \in SetToSeqs(heard \ members[c])
  PROVE  Built(NewMap(c, heard, joins))
<1>1. Built(MapAfterJoins(c, joins))
  BY JoinMapsFacts
<1>2. CASE Resharded(c, heard)
  <2>1. Survivors(c, heard) \in SUBSET Worker /\ Survivors(c, heard) # {}
    BY <1>2 DEF Resharded, Survivors, TypeOK
  <2>2. MapAfterJoins(c, joins).version + 1 \in Nat
    BY <1>1 DEF Built, ShardMap
  <2>3. QED
    BY <1>2, <2>1, <2>2, BuildIsBuilt DEF NewMap
<1>3. CASE ~ Resharded(c, heard)
  BY <1>1, <1>3 DEF NewMap
<1>4. QED
  BY <1>2, <1>3

LEMMA ReinjectFacts ==
  ASSUME TypeOK, NEW c \in Coordinator
  PROVE  /\ ReinjectSize(c) \in 0 .. Len(spillBuf[c])
         /\ Reinjected(c) \in [Request -> Nat]
         /\ SubSeq(spillBuf[c], ReinjectSize(c) + 1, Len(spillBuf[c])) \in Seq(Request)
<1>1. spillBuf[c] \in Seq(Request) /\ Len(spillBuf[c]) \in Nat
  BY DEF TypeOK
<1>2. ReinjectSize(c) \in 0 .. Len(spillBuf[c])
  BY <1>1, ConfigAssumption DEF ReinjectSize, Least
<1>3. ASSUME NEW r \in Request
      PROVE Cardinality({i \in 1 .. ReinjectSize(c) : spillBuf[c][i] = r}) \in Nat
  <2>1. IsFiniteSet(1 .. ReinjectSize(c))
    BY <1>2, FS_Interval
  <2>2. IsFiniteSet({i \in 1 .. ReinjectSize(c) : spillBuf[c][i] = r})
    BY <2>1, FS_Subset
  <2>3. QED
    BY <2>2, FS_CardinalityType
<1>4. QED
  BY <1>1, <1>2, <1>3, SubSeqProperties DEF Reinjected

-----------------------------------------------------------------------------
(***************************************************************************)
(* Type correctness, together with: every coordinator's map is one that    *)
(* build_shard_map made.                                                   *)
(***************************************************************************)
MapsBuilt == \A c \in Coordinator : Built(smap[c])

TypeInv == TypeOK /\ MapsBuilt

LEMMA InitialMapIsBuilt == Built(InitialMap)
BY ConfigAssumption, BuildIsBuilt DEF InitialMap

LEMMA TypeInvInit == Init => TypeInv
<1> SUFFICES ASSUME Init PROVE TypeInv
  OBVIOUS
<1>1. /\ Built(InitialMap) /\ InitialMap \in ShardMap
      /\ \A cell \in Cell : InitialMap.cell_owner[cell] \in Worker
  BY InitialMapIsBuilt DEF Built, ShardMap
<1>2. owner \in [Vehicle -> Worker]
  BY <1>1, ConfigAssumption DEF Init
<1>3. QED
  BY <1>1, <1>2, ConfigAssumption DEF Init, TypeInv, TypeOK, MapsBuilt, Actor, Viewer

LEMMA WorkerTickType ==
  ASSUME TypeInv, NEW w \in Worker, NEW beats \in BOOLEAN, WorkerTick(w, beats)
  PROVE  TypeInv'
<1>1. TypeOK
  BY DEF TypeInv
<1>2. PICK plan \in [Dispatched(w) -> OwnedBy(w) \cup {NoPlan}] :
        decisions' = [r \in Request |->
          IF r \in Dispatched(w) THEN Append(decisions[r], [by |-> w, on |-> plan[r]])
                                 ELSE decisions[r]]
  BY DEF WorkerTick
<1>3. decisions' \in [Request -> Seq([by : Worker, on : Vehicle \cup {NoPlan}])]
  <2> DEFINE D == [by : Worker, on : Vehicle \cup {NoPlan}]
  <2>1. decisions \in [Request -> Seq(D)]
    BY <1>1 DEF TypeOK
  <2>2. \A r \in Dispatched(w) : [by |-> w, on |-> plan[r]] \in D
    BY <1>2 DEF OwnedBy
  <2> HIDE DEF D
  <2>3. ASSUME NEW r \in Request
        PROVE  (IF r \in Dispatched(w) THEN Append(decisions[r], [by |-> w, on |-> plan[r]])
                                       ELSE decisions[r]) \in Seq(D)
    <3>1. decisions[r] \in Seq(D)
      BY <2>1
    <3>2. CASE r \in Dispatched(w)
      <4> DEFINE d == [by |-> w, on |-> plan[r]]
      <4>1. d \in D
        BY <2>2, <3>2
      <4> HIDE DEF d
      <4>2. Append(decisions[r], d) \in Seq(D)
        BY <3>1, <4>1
      <4>3. QED
        BY <3>2, <4>2 DEF d
    <3>3. QED
      BY <3>1, <3>2
  <2>4. decisions' \in [Request -> Seq(D)]
    BY <1>2, <2>3
  <2>5. QED
    BY <2>4 DEF D
<1>4. pending' \in [Worker -> Seq(Request)]
  BY <1>1, KeptFacts DEF WorkerTick, TypeOK
<1>5. reqNet' \in [Worker -> [Request -> Nat]]
  BY <1>1, ForwardType, OneEachType DEF WorkerTick
<1>6. spillNet' \in [Coordinator -> [Request -> Nat]]
  BY <1>1 DEF WorkerTick, TypeOK
<1>7. seen' \in [Worker -> SUBSET Request]
  BY <1>1 DEF WorkerTick, TypeOK
<1>8. hbNet' \subseteq Coordinator \X Worker
  BY <1>1 DEF WorkerTick, TypeOK
<1>9. QED
  BY <1>1, <1>3, <1>4, <1>5, <1>6, <1>7, <1>8
     DEF TypeInv, MapsBuilt, WorkerTick, TypeOK, envVars, gatewayVars, controlVars

LEMMA LeaderTickType ==
  ASSUME TypeInv, NEW c \in Coordinator, NEW heard, NEW joins, NEW due \in BOOLEAN,
         LeaderTick(c, heard, joins, due)
  PROVE  TypeInv'
<1> USE DEF LeaderTick
<1>1. TypeOK /\ Built(smap[c]) /\ heard \in SUBSET Worker
      /\ joins \in SetToSeqs(heard \ members[c])
  BY DEF TypeInv, MapsBuilt, Arrived
<1>2. /\ Built(NewMap(c, heard, joins)) /\ NewMap(c, heard, joins) \in ShardMap
      /\ \A cell \in Cell : NewMap(c, heard, joins).cell_owner[cell] \in Worker
  <2>1. Built(NewMap(c, heard, joins))
    BY <1>1, NewMapIsBuilt
  <2>2. QED
    BY <2>1 DEF Built, ShardMap
<1>3. smap' \in [Coordinator -> ShardMap] /\ MapsBuilt' /\ smap'[c] = NewMap(c, heard, joins)
  BY <1>1, <1>2 DEF TypeOK, TypeInv, MapsBuilt
<1>4. owner' \in [Vehicle -> Worker]
  BY <1>1, <1>2, <1>3, ConfigAssumption DEF TypeOK, Rehomed
<1>5. members' \in [Coordinator -> SUBSET Worker]
  BY <1>1 DEF TypeOK, Survivors
<1>6. reqNet' \in [Worker -> [Request -> Nat]]
  BY <1>1, ForwardType, ReinjectFacts
<1>7. spillBuf' \in [Coordinator -> Seq(Request)]
  BY <1>1, ReinjectFacts DEF TypeOK
<1>8. viewNet' \subseteq Viewer \X ShardMap
  <2>1. ToSet(JoinMaps(c, joins)) \subseteq ShardMap
    BY <1>1, JoinMapsFacts
  <2> DEFINE maps == ToSet(JoinMaps(c, joins)) \cup
               (IF due \/ lease # c \/ Resharded(c, heard) THEN {smap'[c]} ELSE {})
  <2>2. maps \in SUBSET ShardMap
    BY <2>1, <1>2, <1>3
  <2>3. viewNet' = viewNet \cup Published(c, maps)
    OBVIOUS
  <2> HIDE DEF maps
  <2>4. QED
    BY <2>2, <2>3, <1>1, PublishedType DEF TypeOK
<1>9. QED
  BY <1>1, <1>3, <1>4, <1>5, <1>6, <1>7, <1>8
     DEF TypeInv, TypeOK, envVars, gatewayVars, workerVars

\* A heartbeat_timeout passes, for whatever reason.
TimeoutStep ==
  \/ \E w \in Worker : HeartbeatTimeout(w)
  \/ \E c \in Coordinator, w \in Worker : CutOffTimeout(c, w) \/ HeartbeatsLost(c, w)

\* All that changes is who is overdue, and a count of the reasons.
LEMMA TimeoutFrame ==
  ASSUME TypeOK, TimeoutStep
  PROVE  /\ lease # Nobody
         /\ overdue \subseteq overdue' /\ overdue' \subseteq Coordinator \X Worker
         /\ UNCHANGED <<life, cut, netVars, gatewayVars, view, workerVars, owner, lease,
                        members, smap, spillBuf>>
         /\ faults' \in [FaultKind -> Nat] /\ faults'["lost_spell"] >= faults["lost_spell"]
         /\ \A f \in FaultKind \ {"lost_spell"} : faults'[f] = faults[f]
<1>1. ASSUME NEW due \in SUBSET (Coordinator \X Worker), TimeOut(due)
      PROVE  /\ lease # Nobody
             /\ overdue \subseteq overdue' /\ overdue' \subseteq Coordinator \X Worker
             /\ UNCHANGED <<life, cut, netVars, gatewayVars, view, workerVars, owner, lease,
                            members, smap, spillBuf>>
  BY <1>1 DEF TimeOut, TypeOK
<1>2. ASSUME UNCHANGED faults
      PROVE  /\ faults' \in [FaultKind -> Nat] /\ faults'["lost_spell"] >= faults["lost_spell"]
             /\ \A f \in FaultKind \ {"lost_spell"} : faults'[f] = faults[f]
  BY <1>2 DEF TypeOK, FaultKind
<1>3. ASSUME NEW w \in Worker, HeartbeatTimeout(w)
      PROVE  UNCHANGED faults /\ \E due \in SUBSET (Coordinator \X Worker) : TimeOut(due)
  <2> DEFINE due == {c \in Coordinator : Up(c) /\ w \in members[c]} \X {w}
  <2>1. due \in SUBSET (Coordinator \X Worker) /\ TimeOut(due) /\ UNCHANGED faults
    BY <1>3 DEF HeartbeatTimeout
  <2>2. QED
    BY <2>1
<1>4. ASSUME NEW c \in Coordinator, NEW w \in Worker, CutOffTimeout(c, w)
      PROVE  UNCHANGED faults /\ \E due \in SUBSET (Coordinator \X Worker) : TimeOut(due)
  <2>1. {<<c, w>>} \in SUBSET (Coordinator \X Worker) /\ TimeOut({<<c, w>>})
    BY <1>4 DEF CutOffTimeout
  <2>2. QED
    BY <1>4, <2>1 DEF CutOffTimeout
<1>5. ASSUME NEW c \in Coordinator, NEW w \in Worker, HeartbeatsLost(c, w)
      PROVE  /\ faults' = [faults EXCEPT !["lost_spell"] = @ + 1]
             /\ \E due \in SUBSET (Coordinator \X Worker) : TimeOut(due)
  <2>1. {<<c, w>>} \in SUBSET (Coordinator \X Worker) /\ TimeOut({<<c, w>>})
    BY <1>5 DEF HeartbeatsLost
  <2>2. QED
    BY <1>5, <2>1 DEF HeartbeatsLost
<1>6. ASSUME faults' = [faults EXCEPT !["lost_spell"] = @ + 1]
      PROVE  /\ faults' \in [FaultKind -> Nat] /\ faults'["lost_spell"] >= faults["lost_spell"]
             /\ \A f \in FaultKind \ {"lost_spell"} : faults'[f] = faults[f]
  BY <1>6 DEF TypeOK, FaultKind
<1>7. QED
  BY <1>1, <1>2, <1>3, <1>4, <1>5, <1>6 DEF TimeoutStep

LEMMA TypeInvStep == TypeInv /\ [Next]_vars => TypeInv'
<1> SUFFICES ASSUME TypeInv, [Next]_vars PROVE TypeInv'
  OBVIOUS
<1> USE DEF TypeInv, MapsBuilt
<1>1. CASE Duplicate
  <2>1. ASSUME NEW r \in Request, NEW w \in Worker,
               reqNet' = [reqNet EXCEPT ![w][r] = @ + 1], UNCHANGED spillNet
        PROVE  /\ reqNet' \in [Worker -> [Request -> Nat]]
               /\ spillNet' \in [Coordinator -> [Request -> Nat]]
    BY <2>1, CountersTyped DEF TypeOK
  <2>2. ASSUME NEW r \in Request, NEW c \in Coordinator,
               spillNet' = [spillNet EXCEPT ![c][r] = @ + 1], UNCHANGED reqNet
        PROVE  /\ reqNet' \in [Worker -> [Request -> Nat]]
               /\ spillNet' \in [Coordinator -> [Request -> Nat]]
    BY <2>2, CountersTyped DEF TypeOK
  <2>3. faults' \in [FaultKind -> Nat]
    BY SMTT(30), <1>1 DEF Duplicate, TypeOK, FaultKind
  <2>4. QED
    BY <1>1, <2>1, <2>2, <2>3 DEF Duplicate, TypeOK, gatewayVars, workerVars, controlVars
<1>2. ASSUME NEW r \in Request, Emit(r) PROVE TypeInv'
  <2>1. reqNet' \in [Worker -> [Request -> Nat]]
    <3>1. Forward(Gateway, view[Gateway], OneEach({r})) \in [Worker -> [Request -> Nat]]
      BY ForwardType, OneEachType
    <3>2. QED
      BY <1>2, <3>1 DEF Emit, TypeOK
  <2>2. emitted' \subseteq Request /\ buffer' \subseteq emitted'
    BY <1>2 DEF Emit, TypeOK
  <2>3. QED
    BY <1>2, <2>1, <2>2 DEF Emit, TypeOK, envVars, workerVars, controlVars
<1>3. ASSUME NEW m, GatewayReceivesView(m) PROVE TypeInv'
  BY <1>3, ForwardType, OneEachType
     DEF GatewayReceivesView, TypeOK, Viewer, envVars, workerVars, controlVars
<1>4. ASSUME NEW w \in Worker, NEW m, WorkerReceivesView(w, m) PROVE TypeInv'
  BY <1>4 DEF WorkerReceivesView, TypeOK, Viewer, envVars, gatewayVars, workerVars, controlVars
<1>5. ASSUME NEW w \in Worker, NEW r \in Request, WorkerReceivesRequest(w, r) PROVE TypeInv'
  <2>1. reqNet' \in [Worker -> [Request -> Nat]]
    BY <1>5, CountersTyped DEF WorkerReceivesRequest, TypeOK
  <2>2. pending' \in [Worker -> Seq(Request)] /\ seen' \in [Worker -> SUBSET Request]
    <3>1. Append(pending[w], r) \in Seq(Request) /\ seen[w] \cup {r} \in SUBSET Request
      BY DEF TypeOK
    <3>2. CASE r \in seen[w]
      BY <1>5, <3>2 DEF WorkerReceivesRequest, TypeOK
    <3>3. CASE r \notin seen[w]
      <4>1. /\ pending' = [pending EXCEPT ![w] = Append(pending[w], r)]
            /\ seen' = [seen EXCEPT ![w] = seen[w] \cup {r}]
        BY <1>5, <3>3 DEF WorkerReceivesRequest
      <4>2. QED
        BY <3>1, <4>1 DEF TypeOK
    <3>4. QED
      BY <3>2, <3>3
  <2>3. QED
    BY <1>5, <2>1, <2>2 DEF WorkerReceivesRequest, TypeOK, envVars, gatewayVars, controlVars
<1>6. ASSUME NEW w \in Worker, NEW beats \in BOOLEAN, WorkerTick(w, beats) PROVE TypeInv'
  BY <1>6, WorkerTickType
<1>7. ASSUME NEW c \in Coordinator, NEW r \in Request, CoordinatorReceivesSpill(c, r)
      PROVE TypeInv'
  <2>1. spillNet' \in [Coordinator -> [Request -> Nat]]
    BY <1>7 DEF CoordinatorReceivesSpill, TypeOK
  <2>2. spillBuf' \in [Coordinator -> Seq(Request)]
    BY <1>7 DEF CoordinatorReceivesSpill, TypeOK
  <2>3. QED
    BY <1>7, <2>1, <2>2
       DEF CoordinatorReceivesSpill, TypeOK, envVars, gatewayVars, workerVars
<1>8. ASSUME NEW c \in Coordinator, NEW heard, FollowerTick(c, heard) PROVE TypeInv'
  BY <1>8 DEF FollowerTick, TypeOK, Arrived, envVars, gatewayVars, workerVars
<1>9. ASSUME NEW c \in Coordinator, NEW heard, NEW joins, NEW due \in BOOLEAN,
             LeaderTick(c, heard, joins, due)
      PROVE TypeInv'
  BY <1>9, LeaderTickType
<1>10. ASSUME NEW w \in Worker, KillWorker(w) PROVE TypeInv'
  <2>1. reqNet' \in [Worker -> [Request -> Nat]]
    <3>1. [r \in Request |-> 0] \in [Request -> Nat]
      OBVIOUS
    <3>2. QED
      BY <1>10, <3>1 DEF KillWorker, TypeOK
  <2>4. pending' \in [Worker -> Seq(Request)]
    <3>1. <<>> \in Seq(Request)
      OBVIOUS
    <3>2. QED
      BY <1>10, <3>1 DEF KillWorker, TypeOK
  <2>2. /\ faults' \in [FaultKind -> Nat]
        /\ life' \in [Actor -> {"unborn", "up", "dead"}]
    BY <1>10 DEF KillWorker, TypeOK, Actor, FaultKind
  <2>3. QED
    BY <1>10, <2>1, <2>2, <2>4 DEF KillWorker, TypeOK, gatewayVars, controlVars
<1>11. ASSUME NEW w \in Worker, AddWorker(w) PROVE TypeInv'
  BY <1>11 DEF AddWorker, TypeOK, netVars, gatewayVars, workerVars, controlVars
<1>12. CASE KillLeader
  <2>1. /\ spillNet' \in [Coordinator -> [Request -> Nat]]
        /\ spillBuf' \in [Coordinator -> Seq(Request)]
    <3>1. [r \in Request |-> 0] \in [Request -> Nat] /\ <<>> \in Seq(Request)
      OBVIOUS
    <3>2. spillNet' = [spillNet EXCEPT ![lease] = [r \in Request |-> 0]]
      BY <1>12 DEF KillLeader
    <3>3. spillBuf' = [spillBuf EXCEPT ![lease] = <<>>]
      BY <1>12 DEF KillLeader
    <3>4. spillNet' \in [Coordinator -> [Request -> Nat]]
      BY <3>1, <3>2 DEF TypeOK
    <3>5. spillBuf' \in [Coordinator -> Seq(Request)]
      BY <3>1, <3>3 DEF TypeOK
    <3>6. QED
      BY <3>4, <3>5
  <2>2. /\ faults' \in [FaultKind -> Nat]
        /\ life' \in [Actor -> {"unborn", "up", "dead"}]
    BY <1>12 DEF KillLeader, TypeOK, Actor, FaultKind
  <2>3. QED
    BY <1>12, <2>1, <2>2 DEF KillLeader, TypeOK, gatewayVars, workerVars
<1>13. ASSUME NEW nodes \in Partitions, SetPartition(nodes) PROVE TypeInv'
  <2>1. faults' \in [FaultKind -> Nat]
    BY <1>13 DEF SetPartition, TypeOK, FaultKind
  <2>2. cut' \subseteq Worker \cup Coordinator
    BY <1>13, ConfigAssumption DEF SetPartition
  <2>3. QED
    BY <1>13, <2>1, <2>2
       DEF SetPartition, TypeOK, netVars, gatewayVars, workerVars, controlVars
<1>14. CASE HealPartition
  BY <1>14 DEF HealPartition, TypeOK, netVars, gatewayVars, workerVars, controlVars
<1>15. CASE TimeoutStep
  BY <1>15, TimeoutFrame DEF TypeOK, netVars, gatewayVars, workerVars
<1>16. CASE UNCHANGED vars
  BY <1>16 DEF vars, TypeOK, envVars, netVars, gatewayVars, workerVars, controlVars
<1>17. ASSUME NEW x \in viewNet, x[1] # Gateway PROVE x[1] \in Worker
  BY <1>17 DEF TypeOK, Viewer
<1>18. QED
  BY <1>1, <1>2, <1>3, <1>4, <1>5, <1>6, <1>7, <1>8, <1>9, <1>10, <1>11, <1>12, <1>13,
     <1>14, <1>15, <1>16, <1>17 DEF Next, TimeoutStep

THEOREM TypeInvariant == Spec => []TypeInv
<1>1. QED
  BY TypeInvInit, TypeInvStep, PTL DEF Spec

\* The variables keep their types, whatever the constants.
THEOREM TypeCorrect == Spec => []TypeOK
<1>1. QED
  BY TypeInvariant, PTL DEF TypeInv

-----------------------------------------------------------------------------
(***************************************************************************)
(* A worker decides a request at most once.  On its own that is not        *)
(* inductive: it needs that a queue holds no request twice, that what is   *)
(* queued is in seen, and that what the worker decided stays in seen and   *)
(* out of the queue.                                                       *)
(***************************************************************************)
QueuesDistinct ==
  \A w \in Worker : \A i, j \in 1 .. Len(pending[w]) :
    pending[w][i] = pending[w][j] => i = j

QueuedIsSeen ==
  \A w \in Worker : \A i \in 1 .. Len(pending[w]) : pending[w][i] \in seen[w]

\* Worker w is through with request r.
DoneBy(w, r) ==
  /\ r \in seen[w]
  /\ \A i \in 1 .. Len(pending[w]) : pending[w][i] # r

DecidedIsDone ==
  \A r \in Request : \A i \in 1 .. Len(decisions[r]) : DoneBy(decisions[r][i].by, r)

DedupeInv == QueuesDistinct /\ QueuedIsSeen /\ DecidedIsDone /\ AtMostOncePerWorker

\* What WorkerTick leaves in the queue, against what it takes out of it.
Kept(w) == SubSeq(Backlog(w), 1, Least(Len(Backlog(w)), QueueHighWater))

LEMMA TickMoves ==
  ASSUME TypeOK, QueuesDistinct, NEW w \in Worker
  PROVE  /\ Len(Kept(w)) \in Nat
         /\ \A i \in 1 .. Len(Kept(w)) :
              /\ Kept(w)[i] \notin Batch(w) \cup Spilled(w)
              /\ \E k \in 1 .. Len(pending[w]) : Kept(w)[i] = pending[w][k]
         /\ \A i, j \in 1 .. Len(Kept(w)) : Kept(w)[i] = Kept(w)[j] => i = j
         /\ Batch(w) \cap Spilled(w) = {}
         /\ \A r \in Batch(w) \cup Spilled(w) :
              \E k \in 1 .. Len(pending[w]) : r = pending[w][k]
<1> DEFINE n == BatchSize(w)
           L == Len(pending[w])
           B == Len(Backlog(w))
           K == Len(Kept(w))
<1>1. L \in Nat /\ n \in 0 .. L /\ B = L - n
  <2>1. pending[w] \in Seq(Request)
    BY DEF TypeOK
  <2>2. QED
    BY <2>1, BatchFacts
<1>2. \A i \in 1 .. B : Backlog(w)[i] = pending[w][n + i]
  BY BatchFacts
<1>3. K \in Nat /\ K <= B /\ K <= QueueHighWater /\ \A i \in 1 .. K : Kept(w)[i] = Backlog(w)[i]
  BY <1>1, KeptFacts DEF Kept
<1>4. \A r \in Batch(w) : \E i \in 1 .. n : r = pending[w][i]
  BY DEF Batch
<1>5. \A r \in Spilled(w) : \E i \in QueueHighWater + 1 .. B : r = Backlog(w)[i]
  BY DEF Spilled
<1>6. \A i, j \in 1 .. L : pending[w][i] = pending[w][j] => i = j
  BY DEF QueuesDistinct
<1> QueueHighWater \in Nat
  BY ConfigAssumption
<1> HIDE DEF n, L, B, K
<1>7. \A i \in 1 .. K : n + i \in 1 .. L /\ Kept(w)[i] = pending[w][n + i]
  BY <1>1, <1>2, <1>3
<1>8. \A r \in Spilled(w) : \E k \in n + QueueHighWater + 1 .. L : r = pending[w][k]
  <2>1. ASSUME NEW i \in QueueHighWater + 1 .. B
        PROVE  n + i \in n + QueueHighWater + 1 .. L /\ Backlog(w)[i] = pending[w][n + i]
    BY <1>1, <1>2
  <2>2. QED
    BY <1>5, <2>1
<1>9. \A i \in 1 .. K : Kept(w)[i] \notin Batch(w)
  BY <1>1, <1>3, <1>4, <1>6, <1>7
<1>10. \A i \in 1 .. K : Kept(w)[i] \notin Spilled(w)
  BY <1>1, <1>3, <1>6, <1>7, <1>8
<1>11. Batch(w) \cap Spilled(w) = {}
  BY <1>1, <1>4, <1>6, <1>8
<1>12. \A i, j \in 1 .. K : Kept(w)[i] = Kept(w)[j] => i = j
  BY <1>1, <1>3, <1>6, <1>7
<1>13. \A r \in Batch(w) \cup Spilled(w) : \E k \in 1 .. L : r = pending[w][k]
  <2>1. \A k \in 1 .. n : k \in 1 .. L
    BY <1>1
  <2>2. \A k \in n + QueueHighWater + 1 .. L : k \in 1 .. L
    BY <1>1
  <2>3. QED
    BY <1>4, <1>8, <2>1, <2>2
<1>14. QED
  BY <1>3, <1>7, <1>9, <1>10, <1>11, <1>12, <1>13 DEF K, L

LEMMA DecisionFacts ==
  ASSUME TypeOK, NEW r \in Request
  PROVE  /\ Len(decisions[r]) \in Nat /\ DOMAIN decisions[r] = 1 .. Len(decisions[r])
         /\ \A i \in 1 .. Len(decisions[r]) : decisions[r][i].by \in Worker
<1> DEFINE D == [by : Worker, on : Vehicle \cup {NoPlan}]
<1>1. decisions[r] \in Seq(D)
  BY DEF TypeOK
<1>2. \A e \in D : e.by \in Worker
  OBVIOUS
<1> HIDE DEF D
<1>3. QED
  BY <1>1, <1>2

LEMMA WorkerTickDedupes ==
  ASSUME TypeOK, DedupeInv, NEW w \in Worker, NEW beats \in BOOLEAN, WorkerTick(w, beats)
  PROVE  DedupeInv'
<1> USE DEF DedupeInv
<1>1. PICK plan \in [Dispatched(w) -> OwnedBy(w) \cup {NoPlan}] :
        decisions' = [r \in Request |->
          IF r \in Dispatched(w) THEN Append(decisions[r], [by |-> w, on |-> plan[r]])
                                 ELSE decisions[r]]
  BY DEF WorkerTick
<1>2. /\ pending'[w] = Kept(w)
      /\ seen'[w] = seen[w] \ (Rerouted(w) \cup Spilled(w))
      /\ \A x \in Worker \ {w} : pending'[x] = pending[x] /\ seen'[x] = seen[x]
  BY DEF WorkerTick, Kept, TypeOK, Released
<1>3. Rerouted(w) \subseteq Batch(w) /\ Dispatched(w) = Batch(w) \ Rerouted(w)
  BY DEF Rerouted, Dispatched
<1>4. QueuesDistinct'
  BY <1>2, TickMoves DEF QueuesDistinct
<1>5. QueuedIsSeen'
  <2>1. ASSUME NEW i \in 1 .. Len(Kept(w)) PROVE Kept(w)[i] \in seen'[w]
    <3>1. PICK k \in 1 .. Len(pending[w]) : Kept(w)[i] = pending[w][k]
      BY TickMoves
    <3>2. Kept(w)[i] \notin Batch(w) \cup Spilled(w)
      BY TickMoves
    <3>3. Kept(w)[i] \in seen[w]
      BY <3>1 DEF QueuedIsSeen
    <3>4. QED
      BY <1>2, <1>3, <3>2, <3>3
  <2>2. QED
    BY <1>2, <2>1 DEF QueuedIsSeen
\* A request the worker is through with stays so: it is not in the queue.
<1>6. ASSUME NEW x \in Worker, NEW r \in Request, DoneBy(x, r) PROVE DoneBy(x, r)'
  <2>1. CASE x # w
    BY <1>2, <1>6, <2>1 DEF DoneBy
  <2>2. CASE x = w
    <3>1. r \notin Batch(w) \cup Spilled(w)
      BY <1>6, <2>2, TickMoves DEF DoneBy
    <3>2. r \in seen'[w]
      BY <1>2, <1>3, <1>6, <2>2, <3>1 DEF DoneBy
    <3>3. \A i \in 1 .. Len(Kept(w)) : Kept(w)[i] # r
      BY <1>6, <2>2, TickMoves DEF DoneBy
    <3>4. QED
      BY <1>2, <2>2, <3>2, <3>3 DEF DoneBy
  <2>3. QED
    BY <2>1, <2>2
\* A request the tick dispatches was queued, so the worker was not through with
\* it, and is now.
<1>7. ASSUME NEW r \in Dispatched(w) PROVE ~ DoneBy(w, r) /\ DoneBy(w, r)'
  <2>1. r \in Batch(w) /\ r \notin Rerouted(w) \cup Spilled(w)
    BY <1>3, TickMoves
  <2>2. PICK k \in 1 .. Len(pending[w]) : r = pending[w][k]
    BY <2>1, TickMoves
  <2>3. r \in seen'[w]
    BY <1>2, <2>1, <2>2 DEF QueuedIsSeen
  <2>4. \A i \in 1 .. Len(Kept(w)) : Kept(w)[i] # r
    BY <2>1, TickMoves
  <2>5. QED
    BY <1>2, <2>2, <2>3, <2>4 DEF DoneBy
<1>8. ASSUME NEW r \in Request
      PROVE  /\ Len(decisions[r]) \in Nat /\ DOMAIN decisions[r] = 1 .. Len(decisions[r])
             /\ \A i \in 1 .. Len(decisions[r]) : decisions[r][i].by \in Worker
             /\ DOMAIN decisions'[r] = 1 .. Len(decisions'[r])
             /\ \A i \in 1 .. Len(decisions[r]) : decisions'[r][i] = decisions[r][i]
             /\ r \notin Dispatched(w) => Len(decisions'[r]) = Len(decisions[r])
             /\ r \in Dispatched(w) =>
                  /\ Len(decisions'[r]) = Len(decisions[r]) + 1
                  /\ decisions'[r][Len(decisions[r]) + 1].by = w
  <2> DEFINE D == [by : Worker, on : Vehicle \cup {NoPlan}]
             d == [by |-> w, on |-> plan[r]]
  <2>1. decisions[r] \in Seq(D)
    BY DEF TypeOK
  <2>2. \A i \in 1 .. Len(decisions[r]) : decisions[r][i].by \in Worker
    <3> HIDE DEF D, d
    <3>1. \A i \in 1 .. Len(decisions[r]) : decisions[r][i] \in D
      BY <2>1
    <3>2. \A e \in D : e.by \in Worker
      BY DEF D
    <3>3. QED
      BY <3>1, <3>2
  <2>3. d.by = w
    OBVIOUS
  <2>4. decisions'[r] = IF r \in Dispatched(w) THEN Append(decisions[r], d) ELSE decisions[r]
    BY <1>1
  <2> HIDE DEF d, D
  <2>5. CASE r \in Dispatched(w)
    BY <2>1, <2>2, <2>3, <2>4, <2>5
  <2>6. CASE r \notin Dispatched(w)
    BY <2>1, <2>2, <2>4, <2>6
  <2>7. QED
    BY <2>5, <2>6
<1>9. DecidedIsDone'
  <2> SUFFICES ASSUME NEW r \in Request, NEW i \in 1 .. Len(decisions'[r])
               PROVE  DoneBy(decisions[r][i].by, r)'
    BY DEF DecidedIsDone
  <2>1. CASE i \in 1 .. Len(decisions[r])
    <3>1. DoneBy(decisions[r][i].by, r) /\ decisions[r][i].by \in Worker
      BY <1>8, <2>1 DEF DecidedIsDone
    <3>2. QED
      BY <1>6, <1>8, <2>1, <3>1
  <2>2. CASE i \notin 1 .. Len(decisions[r])
    <3>1. r \in Dispatched(w) /\ i = Len(decisions[r]) + 1
      BY <1>8, <2>2
    <3>2. QED
      BY <1>7, <1>8, <3>1
  <2>3. QED
    BY <2>1, <2>2
<1>10. AtMostOncePerWorker'
  <2> SUFFICES ASSUME NEW r \in Request,
                      NEW i \in 1 .. Len(decisions'[r]), NEW j \in 1 .. Len(decisions'[r]),
                      decisions'[r][i].by = decisions'[r][j].by
               PROVE  i = j
    BY <1>8 DEF AtMostOncePerWorker
  <2> DEFINE n == Len(decisions[r])
  <2>1. CASE i \in 1 .. n /\ j \in 1 .. n
    BY <1>8, <2>1 DEF AtMostOncePerWorker
  <2>2. ASSUME NEW p \in 1 .. n, r \in Dispatched(w)
        PROVE  decisions'[r][p].by # w
    <3>1. DoneBy(decisions[r][p].by, r)
      BY DEF DecidedIsDone
    <3>2. QED
      BY <1>7, <1>8, <2>2, <3>1
  <2>3. QED
    BY <1>8, <2>1, <2>2
<1>11. QED
  BY <1>4, <1>5, <1>9, <1>10

LEMMA WorkerReceivesRequestDedupes ==
  ASSUME TypeOK, DedupeInv, NEW w \in Worker, NEW r \in Request, WorkerReceivesRequest(w, r)
  PROVE  DedupeInv'
<1> USE DEF DedupeInv
<1>1. CASE r \in seen[w]
  BY <1>1 DEF WorkerReceivesRequest, QueuesDistinct, QueuedIsSeen, DecidedIsDone, DoneBy,
              AtMostOncePerWorker
<1>2. CASE r \notin seen[w]
  <2> DEFINE L == Len(pending[w])
  <2>1. /\ seen'[w] = seen[w] \cup {r}
        /\ pending'[w] = Append(pending[w], r)
        /\ \A x \in Worker \ {w} : pending'[x] = pending[x] /\ seen'[x] = seen[x]
        /\ UNCHANGED decisions
    BY <1>2 DEF WorkerReceivesRequest, TypeOK
  <2>2. pending[w] \in Seq(Request) /\ L \in Nat
    BY DEF TypeOK
  <2>3. /\ Len(pending'[w]) = L + 1
        /\ \A i \in 1 .. L : pending'[w][i] = pending[w][i]
        /\ pending'[w][L + 1] = r
    BY <2>1, <2>2
  <2>4. \A i \in 1 .. L : pending[w][i] # r
    BY <1>2 DEF QueuedIsSeen
  <2> HIDE DEF L
  <2>5. QueuesDistinct'
    <3>1. \A i, j \in 1 .. L : pending[w][i] = pending[w][j] => i = j
      BY DEF QueuesDistinct, L
    <3>2. \A i, j \in 1 .. L + 1 : pending'[w][i] = pending'[w][j] => i = j
      BY <2>2, <2>3, <2>4, <3>1
    <3>3. QED
      BY SMTT(30), <2>1, <2>3, <3>2 DEF QueuesDistinct
  <2>6. QueuedIsSeen'
    <3>1. \A i \in 1 .. L : pending[w][i] \in seen[w]
      BY DEF QueuedIsSeen, L
    <3>2. \A i \in 1 .. L + 1 : pending'[w][i] \in seen'[w]
      BY <2>1, <2>2, <2>3, <3>1
    <3>3. QED
      BY <2>1, <2>3, <3>2 DEF QueuedIsSeen
  <2>7. ASSUME NEW x \in Worker, NEW q \in Request, DoneBy(x, q)
        PROVE  DoneBy(x, q)'
    <3>1. CASE x # w
      BY <2>1, <2>7, <3>1 DEF DoneBy
    <3>2. CASE x = w
      <4>1. q \in seen[w] /\ q # r
        BY <1>2, <2>7, <3>2 DEF DoneBy
      <4>2. \A i \in 1 .. L : pending[w][i] # q
        BY <2>7, <3>2 DEF DoneBy, L
      <4>3. \A i \in 1 .. L + 1 : pending'[w][i] # q
        BY SMTT(30), <2>2, <2>3, <4>1, <4>2
      <4>4. QED
        BY <2>1, <2>3, <3>2, <4>1, <4>3 DEF DoneBy
    <3>3. QED
      BY <3>1, <3>2
  <2>8. DecidedIsDone'
    <3> SUFFICES ASSUME NEW q \in Request, NEW i \in 1 .. Len(decisions[q])
                 PROVE  DoneBy(decisions[q][i].by, q)'
      BY <2>1 DEF DecidedIsDone
    <3>1. decisions[q][i].by \in Worker
      BY DecisionFacts
    <3>2. DoneBy(decisions[q][i].by, q)
      BY DEF DecidedIsDone
    <3>3. QED
      BY <2>1, <2>7, <3>1, <3>2
  <2>9. AtMostOncePerWorker'
    BY <2>1 DEF AtMostOncePerWorker
  <2>10. QED
    BY <2>5, <2>6, <2>8, <2>9
<1>3. QED
  BY <1>1, <1>2

\* A killed worker loses its queue and keeps, in the record, what it has seen.
LEMMA KillWorkerDedupes ==
  ASSUME TypeOK, DedupeInv, NEW w \in Worker, KillWorker(w)
  PROVE  DedupeInv'
<1>1. /\ pending'[w] = <<>>
      /\ \A x \in Worker \ {w} : pending'[x] = pending[x]
      /\ UNCHANGED <<seen, decisions>>
  BY DEF KillWorker, TypeOK
<1>2. QueuesDistinct' /\ QueuedIsSeen'
  BY <1>1 DEF DedupeInv, QueuesDistinct, QueuedIsSeen
<1>3. ASSUME NEW x \in Worker, NEW r \in Request, DoneBy(x, r) PROVE DoneBy(x, r)'
  BY <1>1, <1>3 DEF DoneBy
<1>4. DecidedIsDone'
  <2> SUFFICES ASSUME NEW r \in Request, NEW i \in 1 .. Len(decisions[r])
               PROVE  DoneBy(decisions[r][i].by, r)'
    BY <1>1 DEF DecidedIsDone
  <2>1. decisions[r][i].by \in Worker /\ DoneBy(decisions[r][i].by, r)
    BY DecisionFacts DEF DedupeInv, DecidedIsDone
  <2>2. QED
    BY <1>1, <1>3, <2>1
<1>5. QED
  BY <1>1, <1>2, <1>4 DEF DedupeInv, AtMostOncePerWorker

LEMMA DedupeInvInit == Init => DedupeInv
BY DEF Init, DedupeInv, QueuesDistinct, QueuedIsSeen, DecidedIsDone, AtMostOncePerWorker

LEMMA DedupeInvStep == TypeInv /\ DedupeInv /\ [Next]_vars => DedupeInv'
<1> SUFFICES ASSUME TypeInv, DedupeInv, [Next]_vars PROVE DedupeInv'
  OBVIOUS
<1>1. TypeOK
  BY DEF TypeInv
<1>2. CASE UNCHANGED workerVars
  BY <1>2 DEF workerVars, DedupeInv, QueuesDistinct, QueuedIsSeen, DecidedIsDone, DoneBy,
              AtMostOncePerWorker
<1>3. ASSUME NEW w \in Worker, NEW r \in Request, WorkerReceivesRequest(w, r) PROVE DedupeInv'
  BY <1>1, <1>3, WorkerReceivesRequestDedupes
<1>4. ASSUME NEW w \in Worker, NEW beats \in BOOLEAN, WorkerTick(w, beats) PROVE DedupeInv'
  BY <1>1, <1>4, WorkerTickDedupes
<1>5. ASSUME NEW w \in Worker, KillWorker(w) PROVE DedupeInv'
  BY <1>1, <1>5, KillWorkerDedupes
<1>6. ASSUME NEW x \in viewNet, GatewayReceivesView(x[2]) \/ WorkerReceivesView(x[1], x[2])
      PROVE  UNCHANGED workerVars
  BY <1>6 DEF GatewayReceivesView, WorkerReceivesView
<1>7. ASSUME NEW c \in Coordinator, NEW heard,
             \/ FollowerTick(c, heard)
             \/ \E joins \in SetToSeqs(heard \ members[c]), due \in BOOLEAN :
                  LeaderTick(c, heard, joins, due)
      PROVE  UNCHANGED workerVars
  BY <1>7 DEF FollowerTick, LeaderTick
<1>8. ASSUME \/ Duplicate
             \/ \E r \in Request : Emit(r)
             \/ \E c \in Coordinator, r \in Request : CoordinatorReceivesSpill(c, r)
             \/ \E w \in Worker : AddWorker(w)
             \/ KillLeader
             \/ \E nodes \in Partitions : SetPartition(nodes)
             \/ HealPartition
             \/ TimeoutStep
             \/ UNCHANGED vars
      PROVE  UNCHANGED workerVars
  BY <1>1, <1>8, TimeoutFrame
     DEF Duplicate, Emit, CoordinatorReceivesSpill, AddWorker, KillLeader, SetPartition,
         HealPartition, vars
<1>9. QED
  BY <1>2, <1>3, <1>4, <1>5, <1>6, <1>7, <1>8 DEF Next, TimeoutStep

\* No worker decides a request twice, however often the bus, reroutes and reinjections
\* hand it a copy, and whatever crashes (worker.py: _ingest, _process_batch, _reroute,
\* _maybe_spill).
THEOREM DecidedAtMostOncePerWorker == Spec => []AtMostOncePerWorker
<1>1. Init => TypeInv /\ DedupeInv
  BY TypeInvInit, DedupeInvInit
<1>2. TypeInv /\ DedupeInv /\ [Next]_vars => (TypeInv /\ DedupeInv)'
  BY TypeInvStep, DedupeInvStep
<1>3. DedupeInv => AtMostOncePerWorker
  BY DEF DedupeInv
<1>4. QED
  BY <1>1, <1>2, <1>3, PTL DEF Spec

-----------------------------------------------------------------------------
(***************************************************************************)
(* A coordinator's maps move no cell between workers that stay.            *)
(***************************************************************************)
\* Whatever joins and failures one tick of a leader covers, and whatever the hash
\* weights are, its new map moves a cell only away from a worker that left or to a
\* worker that joined (sharding.py: rendezvous hashing).
THEOREM CellsMoveMinimally == Spec => MinimalMigration
<1> DEFINE Moves ==
      \A c \in Coordinator : \A cell \in ChangedCells(smap'[c], smap[c]) :
        \/ smap[c].cell_owner[cell] \notin smap'[c].nodes
        \/ smap'[c].cell_owner[cell] \notin smap[c].nodes
<1>1. TypeInv /\ TypeInv' /\ [Next]_vars => [Moves]_vars
  <2> SUFFICES ASSUME TypeInv, TypeInv' PROVE Moves
    OBVIOUS
  <2> SUFFICES ASSUME NEW c \in Coordinator, NEW cell \in ChangedCells(smap'[c], smap[c])
               PROVE  \/ smap[c].cell_owner[cell] \notin smap'[c].nodes
                      \/ smap'[c].cell_owner[cell] \notin smap[c].nodes
    OBVIOUS
  <2>1. Built(smap[c]) /\ Built(smap'[c])
    BY DEF TypeInv, MapsBuilt
  <2>2. QED
    BY <2>1, MinimalMovement DEF Built, ShardMap
<1>2. QED
  BY <1>1, TypeInvariant, PTL DEF Spec, MinimalMigration
=============================================================================
