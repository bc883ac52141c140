--------------------------- MODULE ControlPlane_proofs ---------------------------
(***************************************************************************)
(* Proofs about the control plane of module DispatchCluster: membership,   *)
(* shard maps and vehicle owners agree, and versions tell maps apart, as   *)
(* long as no leader has been killed.  Two of the three also hold across a *)
(* failover in a cluster that only loses workers.                          *)
(***************************************************************************)
EXTENDS DispatchCluster_proofs

-----------------------------------------------------------------------------
(***************************************************************************)
(* The maps of one leader tick, in the order it makes them.                *)
(***************************************************************************)
\* An order of the joining workers names each of them.
LEMMA JoinsCover ==
  ASSUME NEW S \in SUBSET Worker, NEW joins \in SetToSeqs(S)
  PROVE  /\ DOMAIN joins = 1 .. Len(joins) /\ Len(joins) \in Nat
         /\ \A i \in DOMAIN joins : joins[i] \in S
         /\ {joins[i] : i \in DOMAIN joins} = S
<1> DEFINE n == Cardinality(S)
<1>1. IsFiniteSet(S) /\ n \in Nat
  BY IdAssumption, FS_Subset, FS_CardinalityType
<1>2. joins \in [1 .. n -> S] /\ \A i, j \in 1 .. n : i # j => joins[i] # joins[j]
  BY DEF SetToSeqs
<1> HIDE DEF n
<1>3. joins \in Injection(1 .. n, S)
  BY <1>2 DEF Injection, IsInjective
<1>4. Cardinality(1 .. n) = n
  BY <1>1, FS_Interval
<1>5. joins \in Surjection(1 .. n, S)
  BY <1>1, <1>3, <1>4, FS_Injection DEF n
<1>6. \A x \in S : \E i \in 1 .. n : joins[i] = x
  BY <1>5 DEF Surjection
<1>7. QED
  BY <1>1, <1>2, <1>6

\* The maps that the joins of one tick lead to: each has the next version, and the
\* last one has every member and everyone who joined.
LEMMA JoinMapsInOrder ==
  ASSUME TypeInv, NEW c \in Coordinator,
         NEW heard \in SUBSET Worker, NEW joins \in SetToSeqs(heard \ members[c])
  PROVE  LET maps  == ToSet(JoinMaps(c, joins))
             after == MapAfterJoins(c, joins)
         IN  /\ after.version \in Nat /\ smap[c].version \in Nat
             /\ \A m \in maps :
                  /\ Built(m)
                  /\ m.nodes \subseteq members[c] \cup heard
                  /\ smap[c].version < m.version /\ m.version <= after.version
             /\ \A m1, m2 \in maps : m1.version = m2.version => m1 = m2
             /\ \/ after = smap[c] /\ maps = {}
                \/ after \in maps /\ lease = c /\ after.nodes = members[c] \cup heard
             /\ maps = {} => lease # c \/ heard \subseteq members[c]
<1> DEFINE n == Len(joins)
           grown(i) == members[c] \cup {joins[j] : j \in 1 .. i}
           map(i) == BuildShardMap(grown(i), smap[c].version + i)
<1>1. /\ n \in Nat /\ DOMAIN joins = 1 .. n
      /\ \A i \in 1 .. n : joins[i] \in heard \ members[c]
      /\ {joins[i] : i \in 1 .. n} = heard \ members[c]
  BY JoinsCover
<1>2. /\ members[c] \in SUBSET Worker /\ smap[c].version \in Nat
      /\ Built(smap[c])
  BY DEF TypeInv, TypeOK, MapsBuilt, ShardMap, Built
<1>3. CASE lease # c
  <2>1. JoinMaps(c, joins) = <<>>
    BY <1>3 DEF JoinMaps
  <2>2. ToSet(JoinMaps(c, joins)) = {} /\ MapAfterJoins(c, joins) = smap[c]
    BY <2>1 DEF ToSet, MapAfterJoins
  <2>3. QED
    BY <1>2, <1>3, <2>2
<1>4. CASE lease = c
  <2>1. JoinMaps(c, joins) = [i \in 1 .. n |-> map(i)]
    BY <1>1, <1>4 DEF JoinMaps
  <2>2. ASSUME NEW i \in 1 .. n
        PROVE  /\ map(i).version = smap[c].version + i
               /\ map(i).nodes = grown(i)
               /\ Built(map(i))
               /\ grown(i) \subseteq members[c] \cup heard
    <3>1. grown(i) \in SUBSET Worker /\ grown(i) \subseteq members[c] \cup heard
      BY <1>1, <1>2
    <3>2. grown(i) # {}
      BY <1>1
    <3>3. smap[c].version + i \in Nat
      BY <1>2
    <3> HIDE DEF grown
    <3>4. map(i).version = smap[c].version + i /\ map(i).nodes = grown(i)
      BY DEF BuildShardMap
    <3>5. Built(map(i))
      BY <3>1, <3>2, <3>3, BuildIsBuilt
    <3>6. QED
      BY <3>1, <3>4, <3>5
  <2>3. grown(n) = members[c] \cup heard
    BY <1>1
  <2> HIDE DEF grown, map, n
  <2>4. /\ ToSet(JoinMaps(c, joins)) = {map(i) : i \in 1 .. n}
        /\ Len(JoinMaps(c, joins)) = n
    BY <1>1, <2>1 DEF ToSet
  <2>5. CASE n = 0
    <3>1. JoinMaps(c, joins) = <<>>
      BY <2>1, <2>5
    <3>2. ToSet(JoinMaps(c, joins)) = {} /\ MapAfterJoins(c, joins) = smap[c]
      BY <3>1 DEF ToSet, MapAfterJoins
    <3>3. heard \subseteq members[c]
      BY <1>1, <2>5
    <3>4. QED
      BY <1>2, <3>2, <3>3
  <2>6. CASE n # 0
    <3>1. n \in 1 .. n
      BY <1>1, <2>6
    <3>2. JoinMaps(c, joins) # <<>>
      BY <2>4, <2>6
    <3>3. MapAfterJoins(c, joins) = map(n)
      BY <2>1, <2>4, <3>1, <3>2 DEF MapAfterJoins, Last
    <3>4. map(n) \in {map(i) : i \in 1 .. n}
      BY <3>1
    <3>5. map(n).version = smap[c].version + n /\ map(n).nodes = members[c] \cup heard
      BY <2>2, <2>3, <3>1
    <3>6. \A i \in 1 .. n : /\ smap[c].version < map(i).version
                            /\ map(i).version <= map(n).version
      BY <1>1, <1>2, <2>2, <3>5
    <3>7. \A i, j \in 1 .. n : map(i).version = map(j).version => i = j
      BY <1>1, <1>2, <2>2
    <3>8. \A m1, m2 \in {map(i) : i \in 1 .. n} : m1.version = m2.version => m1 = m2
      BY <3>7
    <3>9. map(n).version \in Nat
      BY <1>1, <1>2, <3>5
    <3>10. QED
      BY <1>2, <1>4, <2>2, <2>4, <3>3, <3>4, <3>5, <3>6, <3>8, <3>9
  <2>7. QED
    BY <2>5, <2>6
<1>5. QED
  BY <1>3, <1>4

\* The maps that a leader's tick brings into use: one per join and the last.
MapsOfTick(c, heard, joins) == ToSet(JoinMaps(c, joins)) \cup {NewMap(c, heard, joins)}

LEMMA TickMapsInOrder ==
  ASSUME TypeInv, NEW c \in Coordinator,
         NEW heard \in SUBSET Worker, NEW joins \in SetToSeqs(heard \ members[c])
  PROVE  LET new == NewMap(c, heard, joins)
         IN  /\ \A m \in MapsOfTick(c, heard, joins) :
                  /\ Built(m) /\ m.version \in Nat
                  /\ m = smap[c] \/ smap[c].version < m.version
                  /\ m.version <= new.version
                  /\ m = smap[c] \/ m.nodes \subseteq members[c] \cup heard
             /\ \A m1, m2 \in MapsOfTick(c, heard, joins) :
                  m1.version = m2.version => m1 = m2
             /\ smap[c].version <= new.version
             /\ Resharded(c, heard) => new.nodes = Survivors(c, heard) /\ new # smap[c]
             /\ ~ Resharded(c, heard) =>
                  \/ new = smap[c] /\ (lease # c \/ heard \subseteq members[c])
                  \/ new.nodes = members[c] \cup heard /\ lease = c
<1> DEFINE maps == ToSet(JoinMaps(c, joins))
           after == MapAfterJoins(c, joins)
           new == NewMap(c, heard, joins)
<1>1. /\ after.version \in Nat /\ smap[c].version \in Nat
      /\ \A m \in maps :
           /\ Built(m)
           /\ m.nodes \subseteq members[c] \cup heard
           /\ smap[c].version < m.version /\ m.version <= after.version
      /\ \A m1, m2 \in maps : m1.version = m2.version => m1 = m2
      /\ \/ after = smap[c] /\ maps = {}
         \/ after \in maps /\ lease = c /\ after.nodes = members[c] \cup heard
      /\ maps = {} => lease # c \/ heard \subseteq members[c]
  BY JoinMapsInOrder
<1>2. Built(smap[c]) /\ Built(new)
  BY NewMapIsBuilt DEF TypeInv, MapsBuilt
<1>3. \A m : Built(m) => m.version \in Nat
  BY DEF Built, ShardMap
<1>4. CASE Resharded(c, heard)
  <2>1. new = BuildShardMap(Survivors(c, heard), after.version + 1)
    BY <1>4 DEF NewMap
  <2>2. new.nodes = Survivors(c, heard) /\ new.version = after.version + 1
    BY <2>1 DEF BuildShardMap
  <2>3. Survivors(c, heard) \subseteq members[c] \cup heard
    BY DEF Survivors
  <2>4. after.version >= smap[c].version
    BY <1>1
  <2> HIDE DEF new, maps, after
  <2>5. new.version > smap[c].version /\ \A m \in maps : m.version < new.version
    BY <1>1, <1>3, <2>2, <2>4
  <2>6. \A m1, m2 \in maps \cup {new} : m1.version = m2.version => m1 = m2
    BY <1>1, <1>3, <2>5
  <2>7. new # smap[c]
    BY <1>1, <2>5
  <2>8. \A m \in maps \cup {new} :
          /\ Built(m) /\ m.version \in Nat /\ smap[c].version < m.version
          /\ m.version <= new.version /\ m.nodes \subseteq members[c] \cup heard
    BY <1>1, <1>2, <1>3, <2>2, <2>3, <2>5
  <2>9. smap[c].version <= new.version
    BY <1>1, <1>2, <1>3, <2>5
  <2>10. QED
    BY <1>4, <2>2, <2>6, <2>7, <2>8, <2>9 DEF MapsOfTick, maps, new
<1>5. CASE ~ Resharded(c, heard)
  <2>1. new = after
    BY <1>5 DEF NewMap
  <2> HIDE DEF new, maps, after
  <2>2. CASE after = smap[c] /\ maps = {}
    BY <1>1, <1>2, <1>3, <1>5, <2>1, <2>2 DEF MapsOfTick, maps, new
  <2>3. CASE after \in maps /\ lease = c /\ after.nodes = members[c] \cup heard
    <3>1. maps \cup {new} = maps
      BY <2>1, <2>3
    <3>2. smap[c].version <= new.version
      BY <1>1, <1>3, <2>1, <2>3
    <3>3. QED
      BY <1>1, <1>3, <1>5, <2>1, <2>3, <3>1, <3>2 DEF MapsOfTick, maps, new
  <2>4. QED
    BY <1>1, <2>2, <2>3
<1>6. QED
  BY <1>4, <1>5

-----------------------------------------------------------------------------
(***************************************************************************)
(* Until a leader is killed there is one leader, and its map is ahead of   *)
(* every other: the followers hold the first map, and every view that is   *)
(* in flight or in use is a map the leader once had.                       *)
(***************************************************************************)
NoLeaderKilled == faults["kill_leader"] = 0

CurrentMap == IF lease = Nobody THEN InitialMap ELSE smap[lease]

KnownMaps ==
  {smap[c] : c \in Coordinator} \cup {x[2] : x \in viewNet}
    \cup ({view[a] : a \in Viewer} \ {NoView})

\* Candidates do not die of anything else.
CandidatesLive == \A c \in Coordinator : Up(c)

\* Before the first election nothing has happened to the membership.
QuietUntilElected ==
  lease = Nobody =>
    /\ hbNet = {} /\ overdue = {}
    /\ \A w \in Worker : Up(w) => w \in InitialWorkers
    /\ \A c \in Coordinator : members[c] = InitialWorkers

FollowersKeepFirstMap == \A c \in Coordinator : c # lease => smap[c] = InitialMap

OwnersFollowCurrentMap ==
  \A v \in Vehicle : owner[v] = CurrentMap.cell_owner[HomeCell[v]]

MembersFollowMap ==
  lease # Nobody /\ members[lease] # {} => smap[lease].nodes = members[lease]

VersionsInOrder ==
  /\ \A m \in KnownMaps : m.version \in Nat /\ m.version <= CurrentMap.version
  /\ \A m1, m2 \in KnownMaps \cup {CurrentMap} : m1.version = m2.version => m1 = m2

FirstTermInv ==
  NoLeaderKilled =>
    /\ CandidatesLive
    /\ QuietUntilElected
    /\ FollowersKeepFirstMap
    /\ OwnersFollowCurrentMap
    /\ MembersFollowMap
    /\ VersionsInOrder

LEMMA FirstTermInit == Init => FirstTermInv
<1> SUFFICES ASSUME Init PROVE FirstTermInv
  OBVIOUS
<1>1. Built(InitialMap) /\ InitialMap.nodes = InitialWorkers /\ InitialMap.version \in Nat
  BY InitialMapIsBuilt DEF InitialMap, BuildShardMap
<1>2. CandidatesLive /\ QuietUntilElected
  BY IdAssumption DEF Init, CandidatesLive, QuietUntilElected, Up, Actor
<1>3. FollowersKeepFirstMap /\ OwnersFollowCurrentMap /\ MembersFollowMap
  BY DEF Init, FollowersKeepFirstMap, OwnersFollowCurrentMap, MembersFollowMap, CurrentMap
<1>4. CurrentMap = InitialMap /\ KnownMaps \subseteq {InitialMap}
  BY DEF Init, CurrentMap, KnownMaps
<1>5. VersionsInOrder
  BY <1>1, <1>4 DEF VersionsInOrder
<1>6. QED
  BY <1>2, <1>3, <1>5 DEF FirstTermInv

\* In its first term a leader that ticks continues with the current map.
LEMMA FirstTermLeaderTick ==
  ASSUME TypeInv, FirstTermInv, NoLeaderKilled,
         NEW c \in Coordinator, NEW heard, NEW joins, NEW due \in BOOLEAN,
         heard \in SUBSET Arrived(c), joins \in SetToSeqs(heard \ members[c]),
         LeaderTick(c, heard, joins, due)
  PROVE  FirstTermInv'
<1> DEFINE new == NewMap(c, heard, joins)
           tick == MapsOfTick(c, heard, joins)
<1> USE DEF FirstTermInv
<1>1. /\ heard \in SUBSET Worker /\ members[c] \in SUBSET Worker
      /\ Built(smap[c]) /\ smap[c].version \in Nat
      /\ smap \in [Coordinator -> ShardMap] /\ members \in [Coordinator -> SUBSET Worker]
      /\ lease \in Coordinator \cup {Nobody} /\ Nobody \notin Coordinator
  BY IdAssumption DEF TypeInv, TypeOK, MapsBuilt, Built, ShardMap, Arrived, Actor
<1>2. lease \in {Nobody, c} /\ smap[c] = CurrentMap
  BY <1>1 DEF LeaderTick, CanLead, CandidatesLive, Up, CurrentMap, FollowersKeepFirstMap
<1>3. /\ lease' = c
      /\ smap' = [smap EXCEPT ![c] = new]
      /\ members' = [members EXCEPT ![c] = Survivors(c, heard)]
      /\ owner' = Rehomed(c, new)
      /\ UNCHANGED <<life, faults, view>>
  BY <1>1 DEF LeaderTick, envVars
<1>4. smap'[c] = new /\ CurrentMap' = new /\ members'[c] = Survivors(c, heard)
  BY <1>1, <1>3 DEF CurrentMap
<1>5. /\ \A m \in tick : /\ m.version \in Nat /\ m.version <= new.version
                         /\ m = smap[c] \/ smap[c].version < m.version
      /\ \A m1, m2 \in tick : m1.version = m2.version => m1 = m2
      /\ smap[c].version <= new.version
      /\ Resharded(c, heard) => new.nodes = Survivors(c, heard) /\ new # smap[c]
      /\ ~ Resharded(c, heard) =>
           \/ new = smap[c] /\ (lease # c \/ heard \subseteq members[c])
           \/ new.nodes = members[c] \cup heard /\ lease = c
      /\ new \in tick
  BY <1>1, TickMapsInOrder DEF MapsOfTick
<1> HIDE DEF new, tick
<1>6. CandidatesLive' /\ QuietUntilElected'
  BY <1>1, <1>3 DEF CandidatesLive, QuietUntilElected, Up
<1>7. FollowersKeepFirstMap'
  BY <1>1, <1>2, <1>3 DEF FollowersKeepFirstMap
<1>8. OwnersFollowCurrentMap'
  <2>1. CASE new = smap[c]
    BY <1>2, <1>3, <1>4, <2>1 DEF OwnersFollowCurrentMap, Rehomed
  <2>2. CASE new # smap[c]
    BY <1>3, <1>4, <2>2 DEF OwnersFollowCurrentMap, Rehomed
  <2>3. QED
    BY <2>1, <2>2
<1>9. MembersFollowMap'
  <2> SUFFICES ASSUME Survivors(c, heard) # {}
               PROVE  new.nodes = Survivors(c, heard)
    BY <1>3, <1>4 DEF MembersFollowMap
  <2>1. CASE Resharded(c, heard)
    BY <1>5, <2>1
  <2>2. CASE ~ Resharded(c, heard)
    <3>1. NewlyDown(c, heard) = {} /\ Survivors(c, heard) = members[c] \cup heard
      BY <2>2 DEF Resharded, Survivors
    <3>2. CASE lease = c
      BY <1>1, <1>5, <2>2, <3>1, <3>2 DEF MembersFollowMap
    <3>3. CASE lease # c
      <4>1. lease = Nobody /\ heard = {} /\ members[c] = InitialWorkers
        BY <1>2, <3>3 DEF QuietUntilElected, Arrived
      <4>2. new = smap[c] /\ smap[c] = InitialMap
        BY <1>2, <1>5, <2>2, <3>3, <4>1 DEF CurrentMap
      <4>3. InitialMap.nodes = InitialWorkers
        BY DEF InitialMap, BuildShardMap
      <4>4. QED
        BY <3>1, <4>1, <4>2, <4>3
    <3>4. QED
      BY <3>2, <3>3
  <2>3. QED
    BY <2>1, <2>2
<1>10. VersionsInOrder'
  <2>1. KnownMaps' \subseteq KnownMaps \cup tick
    <3>1. ASSUME NEW m, m \in {x[2] : x \in viewNet'} PROVE m \in KnownMaps \cup tick
      <4>1. PICK x \in viewNet' : m = x[2]
        BY <3>1
      <4>2. x \in viewNet \/ x \in Viewer \X tick
        BY <1>4 DEF LeaderTick, Published, tick, MapsOfTick, new
      <4>3. QED
        BY <4>1, <4>2 DEF KnownMaps
    <3>2. ASSUME NEW d \in Coordinator PROVE smap'[d] \in KnownMaps \cup tick
      BY <1>1, <1>3, <1>5 DEF KnownMaps
    <3>3. QED
      BY <1>3, <3>1, <3>2 DEF KnownMaps
  <2>2. smap[c] \in KnownMaps
    BY DEF KnownMaps
  <2>3. \A m \in KnownMaps : m.version \in Nat /\ m.version <= smap[c].version
    BY <1>2 DEF VersionsInOrder
  <2>4. \A m1, m2 \in KnownMaps : m1.version = m2.version => m1 = m2
    BY DEF VersionsInOrder
  <2>5. \A m1 \in KnownMaps, m2 \in tick : m1.version = m2.version => m1 = m2
    BY <1>1, <1>5, <2>2, <2>3, <2>4
  <2>6. \A m \in KnownMaps \cup tick : m.version \in Nat /\ m.version <= new.version
    BY <1>1, <1>5, <2>3
  <2>7. \A m1, m2 \in KnownMaps \cup tick : m1.version = m2.version => m1 = m2
    BY <1>5, <2>4, <2>5
  <2>8. QED
    BY <1>4, <1>5, <2>1, <2>6, <2>7 DEF VersionsInOrder
<1>11. QED
  BY <1>6, <1>7, <1>8, <1>9, <1>10

\* Any other step leaves the current map and its members alone and brings no map
\* into use that was not known.
LEMMA FirstTermFrame ==
  ASSUME FirstTermInv, NoLeaderKilled,
         UNCHANGED <<lease, smap, owner>>,
         lease # Nobody => members'[lease] = members[lease],
         CandidatesLive', QuietUntilElected', KnownMaps' \subseteq KnownMaps
  PROVE  FirstTermInv'
<1> USE DEF FirstTermInv
<1>1. CurrentMap' = CurrentMap
  BY DEF CurrentMap
<1>2. FollowersKeepFirstMap' /\ OwnersFollowCurrentMap' /\ MembersFollowMap'
  BY <1>1 DEF FollowersKeepFirstMap, OwnersFollowCurrentMap, MembersFollowMap
<1>3. VersionsInOrder'
  BY <1>1 DEF VersionsInOrder
<1>4. QED
  BY <1>2, <1>3

LEMMA FirstTermStep == TypeInv /\ FirstTermInv /\ [Next]_vars => FirstTermInv'
<1> SUFFICES ASSUME TypeInv, FirstTermInv, [Next]_vars, NoLeaderKilled'
             PROVE  FirstTermInv'
  BY DEF FirstTermInv
<1> USE DEF FaultKind
<1>1. /\ TypeOK
      /\ lease \in Coordinator \cup {Nobody} /\ Nobody \notin Coordinator
      /\ Worker \cap Coordinator = {} /\ faults["kill_leader"] \in Nat
  BY IdAssumption DEF TypeInv, TypeOK, Actor
<1>2. CASE KillLeader
  BY <1>1, <1>2 DEF KillLeader, NoLeaderKilled, TypeOK
<1>3. ASSUME NoLeaderKilled,
             UNCHANGED <<life, lease, members, smap, owner, overdue, hbNet, viewNet, view>>
      PROVE  FirstTermInv'
  <2>1. CandidatesLive' /\ QuietUntilElected'
    BY <1>3 DEF FirstTermInv, CandidatesLive, QuietUntilElected, Up
  <2>2. KnownMaps' \subseteq KnownMaps
    BY <1>3 DEF KnownMaps
  <2>3. QED
    BY <1>3, <2>1, <2>2, FirstTermFrame
<1>4. ASSUME \/ Duplicate
             \/ \E r \in Request : Emit(r)
             \/ \E w \in Worker, r \in Request : WorkerReceivesRequest(w, r)
             \/ \E c \in Coordinator, r \in Request : CoordinatorReceivesSpill(c, r)
             \/ \E nodes \in Partitions : SetPartition(nodes)
             \/ HealPartition
             \/ UNCHANGED vars
      PROVE  FirstTermInv'
  <2>1. UNCHANGED <<life, lease, members, smap, owner, overdue, hbNet, viewNet, view>>
    BY <1>4 DEF Duplicate, Emit, WorkerReceivesRequest, CoordinatorReceivesSpill, SetPartition,
                HealPartition, vars, envVars, netVars, controlVars
  <2>2. faults'["kill_leader"] = faults["kill_leader"]
    BY <1>1, <1>4 DEF Duplicate, Emit, WorkerReceivesRequest, CoordinatorReceivesSpill,
                SetPartition, HealPartition, vars, envVars, TypeOK
  <2>3. QED
    BY <1>3, <2>1, <2>2 DEF NoLeaderKilled
<1>5. ASSUME NEW x \in viewNet,
             (GatewayReceivesView(x[2]) /\ x[1] = Gateway) \/ WorkerReceivesView(x[1], x[2])
      PROVE  FirstTermInv'
  <2>1. /\ viewNet' = viewNet \ {<<x[1], x[2]>>}
        /\ view' = [view EXCEPT ![x[1]] = x[2]]
        /\ UNCHANGED <<life, faults, lease, members, smap, owner, overdue, hbNet>>
    BY <1>5 DEF GatewayReceivesView, WorkerReceivesView, envVars, controlVars
  <2>2. KnownMaps' \subseteq KnownMaps
    <3>1. x[2] \in KnownMaps
      BY DEF KnownMaps
    <3>2. \A a \in Viewer : view'[a] = view[a] \/ view'[a] = x[2]
      BY <1>1, <2>1 DEF TypeOK
    <3>3. QED
      BY <2>1, <3>1, <3>2 DEF KnownMaps
  <2>3. CandidatesLive' /\ QuietUntilElected' /\ NoLeaderKilled
    BY <2>1 DEF FirstTermInv, CandidatesLive, QuietUntilElected, Up, NoLeaderKilled
  <2>4. QED
    BY <2>1, <2>2, <2>3, FirstTermFrame
<1>6. ASSUME NEW w \in Worker, NEW beats \in BOOLEAN, WorkerTick(w, beats) PROVE FirstTermInv'
  <2>1. /\ Up(w) /\ NoLeaderKilled
        /\ UNCHANGED <<life, faults, lease, members, smap, owner, overdue, viewNet, view>>
    BY <1>6 DEF WorkerTick, envVars, controlVars, NoLeaderKilled
  <2>2. QuietUntilElected'
    <3> SUFFICES ASSUME lease = Nobody PROVE hbNet' = {}
      BY <2>1 DEF FirstTermInv, QuietUntilElected, Up
    <3>1. /\ hbNet = {} /\ overdue = {} /\ w \in InitialWorkers
          /\ \A c \in Coordinator : members[c] = InitialWorkers
      BY <2>1 DEF FirstTermInv, QuietUntilElected
    <3>2. QED
      BY <1>6, <3>1 DEF WorkerTick
  <2>3. CandidatesLive' /\ KnownMaps' \subseteq KnownMaps
    BY <2>1 DEF FirstTermInv, CandidatesLive, Up, KnownMaps
  <2>4. QED
    BY <2>1, <2>2, <2>3, FirstTermFrame
<1>7. ASSUME NEW c \in Coordinator, NEW heard, FollowerTick(c, heard) PROVE FirstTermInv'
  <2>1. /\ lease # Nobody /\ lease # c /\ NoLeaderKilled
        /\ members' = [members EXCEPT ![c] = @ \cup heard]
        /\ UNCHANGED <<life, lease, smap, owner, viewNet, view>>
    BY <1>7 DEF FollowerTick, CanLead, envVars, NoLeaderKilled
  <2>2. members'[lease] = members[lease]
    BY <1>1, <2>1 DEF TypeOK
  <2>3. CandidatesLive' /\ QuietUntilElected' /\ KnownMaps' \subseteq KnownMaps
    BY <2>1 DEF FirstTermInv, CandidatesLive, QuietUntilElected, Up, KnownMaps
  <2>4. QED
    BY <2>1, <2>2, <2>3, FirstTermFrame
<1>8. ASSUME NEW c \in Coordinator, NEW heard \in SUBSET Arrived(c),
             NEW joins \in SetToSeqs(heard \ members[c]), NEW due \in BOOLEAN,
             LeaderTick(c, heard, joins, due)
      PROVE  FirstTermInv'
  <2>1. NoLeaderKilled
    BY <1>8 DEF LeaderTick, envVars, NoLeaderKilled
  <2>2. QED
    BY <1>8, <2>1, FirstTermLeaderTick
<1>9. ASSUME NEW w \in Worker, KillWorker(w) PROVE FirstTermInv'
  <2>1. /\ life' = [life EXCEPT ![w] = "dead"]
        /\ viewNet' \subseteq viewNet
        /\ NoLeaderKilled
        /\ UNCHANGED <<lease, members, smap, owner, overdue, hbNet, view>>
    BY <1>1, <1>9 DEF KillWorker, controlVars, NoLeaderKilled, TypeOK
  <2>2. (\A c \in Coordinator : Up(c)') /\ \A x \in Worker : Up(x)' => Up(x)
    BY <1>1, <2>1 DEF Up, TypeOK, Actor, FirstTermInv, CandidatesLive
  <2>3. CandidatesLive' /\ QuietUntilElected'
    BY <2>1, <2>2 DEF FirstTermInv, CandidatesLive, QuietUntilElected
  <2>4. KnownMaps' \subseteq KnownMaps
    BY <2>1 DEF KnownMaps
  <2>5. QED
    BY <2>1, <2>3, <2>4, FirstTermFrame
<1>10. ASSUME NEW w \in Worker, AddWorker(w) PROVE FirstTermInv'
  <2>1. /\ life' = [life EXCEPT ![w] = "up"]
        /\ lease # Nobody /\ NoLeaderKilled
        /\ UNCHANGED <<lease, members, smap, owner, overdue, hbNet, viewNet, view>>
    BY <1>10 DEF AddWorker, controlVars, netVars, NoLeaderKilled
  <2>2. CandidatesLive' /\ QuietUntilElected' /\ KnownMaps' \subseteq KnownMaps
    BY <1>1, <2>1 DEF Up, TypeOK, Actor, FirstTermInv, CandidatesLive, QuietUntilElected, KnownMaps
  <2>3. QED
    BY <2>1, <2>2, FirstTermFrame
<1>11. CASE TimeoutStep
  <2>1. /\ lease # Nobody
        /\ UNCHANGED <<life, lease, members, smap, owner, hbNet, viewNet, view>>
    BY <1>1, <1>11, TimeoutFrame DEF netVars
  <2>2. NoLeaderKilled
    BY <1>1, <1>11, TimeoutFrame DEF NoLeaderKilled, FaultKind
  <2>3. CandidatesLive' /\ QuietUntilElected' /\ KnownMaps' \subseteq KnownMaps
    BY <2>1, <2>2 DEF Up, FirstTermInv, CandidatesLive, QuietUntilElected, KnownMaps
  <2>4. QED
    BY <2>1, <2>2, <2>3, FirstTermFrame
<1>12. QED
  BY <1>2, <1>4, <1>5, <1>6, <1>7, <1>8, <1>9, <1>10, <1>11 DEF Next, TimeoutStep

LEMMA FirstTermInvariant == Spec => [](TypeInv /\ FirstTermInv)
<1>1. Init => TypeInv /\ FirstTermInv
  BY TypeInvInit, FirstTermInit
<1>2. TypeInv /\ FirstTermInv /\ [Next]_vars => (TypeInv /\ FirstTermInv)'
  BY TypeInvStep, FirstTermStep
<1>3. QED
  BY <1>1, <1>2, PTL DEF Spec

\* Until a leader is killed, a version names one map, whatever joins, failures,
\* partitions and delays there are: a node may tell by the version alone whether its
\* view is stale (sharding.py, protocol.py).  The leader numbers its maps, and a
\* follower's map is the first one.
THEOREM VersionsIdentifyMapsUntilFailover ==
  Spec => [](NoLeaderKilled => VersionIdentifiesMap)
<1>1. FirstTermInv => (NoLeaderKilled => VersionIdentifiesMap)
  <2> SUFFICES ASSUME FirstTermInv, NoLeaderKilled PROVE VersionIdentifiesMap
    OBVIOUS
  <2>1. MapsInUse \subseteq KnownMaps
    BY DEF MapsInUse, KnownMaps
  <2>2. QED
    BY <2>1 DEF FirstTermInv, VersionsInOrder, VersionIdentifiesMap
<1>2. QED
  BY <1>1, FirstTermInvariant, PTL

\* Until a leader is killed, the leader's map is the map of the workers it holds
\* alive (coordinator.py: every change of alive_workers rebalances).
THEOREM MapFollowsMembershipUntilFailover ==
  Spec => [](NoLeaderKilled => LeaderMapFollowsMembership)
<1>1. FirstTermInv => (NoLeaderKilled => LeaderMapFollowsMembership)
  BY DEF FirstTermInv, MembersFollowMap, LeaderMapFollowsMembership
<1>2. QED
  BY <1>1, FirstTermInvariant, PTL

\* Until a leader is killed, the store's vehicle owners are those of the leader's
\* map: routing by the map meets the vehicles of the cell (coordinator.py:
\* _rebalance moves both in one step).
THEOREM OwnershipFollowsMapUntilFailover ==
  Spec => [](NoLeaderKilled => OwnershipFollowsMap)
<1>1. FirstTermInv => (NoLeaderKilled => OwnershipFollowsMap)
  BY DEF FirstTermInv, OwnersFollowCurrentMap, CurrentMap, OwnershipFollowsMap
<1>2. QED
  BY <1>1, FirstTermInvariant, PTL

-----------------------------------------------------------------------------
(***************************************************************************)
(* A cluster that no worker joins, whatever dies, is cut off or is lost.   *)
(* A candidate hears only of workers that its first map knows, so it takes *)
(* over with the map of the workers it holds alive.                        *)
(***************************************************************************)
Candidate(c) == c \in Coordinator /\ Up(c) /\ c # lease

CandidatesKeepFirstView ==
  \A c \in Coordinator : Candidate(c) => smap[c] = InitialMap /\ members[c] = InitialWorkers

OnlyFirstWorkersHeard ==
  /\ \A c \in Coordinator : members[c] \subseteq InitialWorkers
  /\ hbNet \subseteq Coordinator \X InitialWorkers

JoinlessInv ==
  NobodyJoined => OnlyFirstWorkersHeard /\ CandidatesKeepFirstView /\ MembersFollowMap

LEMMA JoinlessInit == Init => JoinlessInv
BY DEF Init, JoinlessInv, OnlyFirstWorkersHeard, CandidatesKeepFirstView, MembersFollowMap

LEMMA JoinlessLeaderTick ==
  ASSUME TypeInv, JoinlessInv, NobodyJoined,
         NEW c \in Coordinator, NEW heard, NEW joins, NEW due \in BOOLEAN,
         heard \in SUBSET Arrived(c), joins \in SetToSeqs(heard \ members[c]),
         LeaderTick(c, heard, joins, due)
  PROVE  JoinlessInv'
<1> DEFINE new == NewMap(c, heard, joins)
           left == Survivors(c, heard)
<1> USE DEF JoinlessInv
<1>1. /\ heard \in SUBSET Worker /\ heard \subseteq InitialWorkers
      /\ members[c] \subseteq InitialWorkers
      /\ smap \in [Coordinator -> ShardMap] /\ members \in [Coordinator -> SUBSET Worker]
      /\ lease \in Coordinator \cup {Nobody} /\ Nobody \notin Coordinator
  <2>1. /\ smap \in [Coordinator -> ShardMap] /\ members \in [Coordinator -> SUBSET Worker]
        /\ lease \in Coordinator \cup {Nobody} /\ Nobody \notin Coordinator
    BY IdAssumption DEF TypeInv, TypeOK, Actor
  <2>2. \A w \in heard : w \in Worker /\ <<c, w>> \in hbNet
    BY DEF Arrived
  <2>3. hbNet \subseteq Coordinator \X InitialWorkers /\ members[c] \subseteq InitialWorkers
    BY DEF OnlyFirstWorkersHeard
  <2>4. QED
    BY <2>1, <2>2, <2>3
<1>2. /\ lease' = c /\ hbNet' \subseteq hbNet
      /\ smap' = [smap EXCEPT ![c] = new]
      /\ members' = [members EXCEPT ![c] = left]
      /\ Up(c) /\ UNCHANGED life
  BY DEF LeaderTick, envVars
<1>3. smap'[c] = new /\ members'[c] = left /\ left \subseteq InitialWorkers
  BY <1>1, <1>2 DEF Survivors
<1>4. /\ Resharded(c, heard) => new.nodes = left
      /\ ~ Resharded(c, heard) =>
           \/ new = smap[c] /\ (lease # c \/ heard \subseteq members[c])
           \/ new.nodes = members[c] \cup heard /\ lease = c
  BY <1>1, TickMapsInOrder
<1>5. lease # c => smap[c] = InitialMap /\ members[c] = InitialWorkers
  BY <1>2 DEF CandidatesKeepFirstView, Candidate
<1>6. OnlyFirstWorkersHeard'
  BY <1>1, <1>2, <1>3 DEF OnlyFirstWorkersHeard
<1>7. CandidatesKeepFirstView'
  <2> SUFFICES ASSUME NEW d \in Coordinator, Candidate(d)'
               PROVE  smap'[d] = InitialMap /\ members'[d] = InitialWorkers
    BY DEF CandidatesKeepFirstView
  <2>1. d # c /\ Candidate(d)
    BY <1>1, <1>2 DEF Candidate, Up, LeaderTick, CanLead
  <2>2. QED
    BY <1>1, <1>2, <2>1 DEF CandidatesKeepFirstView
<1>8. MembersFollowMap'
  <2> SUFFICES ASSUME left # {} PROVE new.nodes = left
    BY <1>2, <1>3 DEF MembersFollowMap
  <2>1. CASE Resharded(c, heard)
    BY <1>4, <2>1
  <2>2. CASE ~ Resharded(c, heard)
    <3>1. left = members[c] \cup heard
      BY <2>2 DEF Resharded, Survivors
    <3>2. CASE lease = c
      BY <1>1, <1>4, <2>2, <3>1, <3>2 DEF MembersFollowMap
    <3>3. CASE lease # c
      <4>1. left = InitialWorkers /\ new = InitialMap
        BY <1>1, <1>4, <1>5, <2>2, <3>1, <3>3
      <4>2. InitialMap.nodes = InitialWorkers
        BY DEF InitialMap, BuildShardMap
      <4>3. QED
        BY <4>1, <4>2
    <3>4. QED
      BY <3>2, <3>3
  <2>3. QED
    BY <2>1, <2>2
<1>9. QED
  BY <1>6, <1>7, <1>8

LEMMA JoinlessStep == TypeInv /\ JoinlessInv /\ [Next]_vars => JoinlessInv'
<1> SUFFICES ASSUME TypeInv, JoinlessInv, [Next]_vars, NobodyJoined'
             PROVE  JoinlessInv'
  BY DEF JoinlessInv
<1> USE DEF JoinlessInv
<1>1. /\ TypeOK
      /\ lease \in Coordinator \cup {Nobody} /\ Nobody \notin Coordinator
      /\ Worker \cap Coordinator = {} /\ InitialWorkers \subseteq Worker
      /\ life \in [Actor -> {"unborn", "up", "dead"}]
      /\ members \in [Coordinator -> SUBSET Worker]
  BY IdAssumption, ConfigAssumption DEF TypeInv, TypeOK, Actor
\* Steps that leave maps and membership alone and make nobody a candidate.
<1>2. ASSUME NobodyJoined, hbNet' \subseteq hbNet, UNCHANGED <<lease, members, smap>>,
             \A c \in Coordinator : Candidate(c)' => Candidate(c)
      PROVE  JoinlessInv'
  BY <1>2 DEF OnlyFirstWorkersHeard, CandidatesKeepFirstView, MembersFollowMap
<1>3. ASSUME \/ Duplicate
             \/ \E r \in Request : Emit(r)
             \/ \E x \in viewNet : GatewayReceivesView(x[2]) \/ WorkerReceivesView(x[1], x[2])
             \/ \E w \in Worker, r \in Request : WorkerReceivesRequest(w, r)
             \/ \E c \in Coordinator, r \in Request : CoordinatorReceivesSpill(c, r)
             \/ \E nodes \in Partitions : SetPartition(nodes)
             \/ HealPartition
             \/ TimeoutStep
             \/ UNCHANGED vars
      PROVE  JoinlessInv'
  <2>1. UNCHANGED <<life, lease, members, smap, hbNet>>
    BY <1>1, <1>3, TimeoutFrame
       DEF Duplicate, Emit, GatewayReceivesView, WorkerReceivesView, WorkerReceivesRequest,
           CoordinatorReceivesSpill, SetPartition, HealPartition, vars, envVars, netVars,
           controlVars
  <2>2. NobodyJoined /\ \A c \in Coordinator : Candidate(c)' => Candidate(c)
    BY <2>1 DEF NobodyJoined, Candidate, Up
  <2>3. QED
    BY <1>2, <2>1, <2>2
<1>4. ASSUME NEW w \in Worker, NEW beats \in BOOLEAN, WorkerTick(w, beats) PROVE JoinlessInv'
  <2>1. /\ Up(w) /\ hbNet' \subseteq hbNet \cup Coordinator \X {w}
        /\ UNCHANGED <<life, lease, members, smap>>
    BY <1>4 DEF WorkerTick, envVars, controlVars
  <2>2. NobodyJoined /\ w \in InitialWorkers
    BY <2>1 DEF NobodyJoined, Up
  <2>3. QED
    BY <2>1, <2>2 DEF OnlyFirstWorkersHeard, CandidatesKeepFirstView, MembersFollowMap,
                      Candidate, Up
<1>5. ASSUME NEW c \in Coordinator, NEW heard, heard \in SUBSET Arrived(c),
             FollowerTick(c, heard)
      PROVE  JoinlessInv'
  <2>1. /\ lease # c /\ hbNet' \subseteq hbNet
        /\ members' = [members EXCEPT ![c] = @ \cup heard]
        /\ UNCHANGED <<life, lease, smap>>
    BY <1>5 DEF FollowerTick, CanLead, envVars
  <2>2. NobodyJoined /\ \A d \in Coordinator : Candidate(d)' => Candidate(d)
    BY <2>1 DEF NobodyJoined, Candidate, Up
  <2>3. heard \subseteq InitialWorkers
    BY <1>5, <2>2 DEF Arrived, OnlyFirstWorkersHeard
  <2>4. \A d \in Coordinator : /\ members'[d] \subseteq members[d] \cup InitialWorkers
                                /\ members[d] \subseteq members'[d]
    BY <1>1, <2>1, <2>3
  <2>5. OnlyFirstWorkersHeard'
    BY <2>1, <2>2, <2>4 DEF OnlyFirstWorkersHeard
  <2>6. CandidatesKeepFirstView'
    BY <2>1, <2>2, <2>4 DEF CandidatesKeepFirstView
  <2>7. MembersFollowMap'
    BY <1>1, <2>1, <2>2 DEF MembersFollowMap
  <2>8. QED
    BY <2>5, <2>6, <2>7
<1>6. ASSUME NEW c \in Coordinator, NEW heard \in SUBSET Arrived(c),
             NEW joins \in SetToSeqs(heard \ members[c]), NEW due \in BOOLEAN,
             LeaderTick(c, heard, joins, due)
      PROVE  JoinlessInv'
  <2>1. NobodyJoined
    BY <1>6 DEF LeaderTick, envVars, NobodyJoined
  <2>2. QED
    BY <1>6, <2>1, JoinlessLeaderTick
<1>7. ASSUME NEW w \in Worker, KillWorker(w) \/ AddWorker(w) PROVE JoinlessInv'
  <2>1. /\ life'[w] # "unborn"
        /\ \A a \in Actor : a # w => life'[a] = life[a]
        /\ UNCHANGED <<lease, members, smap, hbNet>>
    BY <1>1, <1>7 DEF KillWorker, AddWorker, controlVars, netVars, Actor
  <2>2. NobodyJoined /\ \A c \in Coordinator : Candidate(c)' => Candidate(c)
    BY <1>1, <2>1 DEF NobodyJoined, Candidate, Up, Actor
  <2>3. QED
    BY <1>2, <2>1, <2>2
<1>8. CASE KillLeader
  <2>1. /\ lease # Nobody /\ life' = [life EXCEPT ![lease] = "dead"]
        /\ hbNet' \subseteq hbNet
        /\ UNCHANGED <<lease, members, smap>>
    BY <1>8 DEF KillLeader
  <2>2. NobodyJoined /\ \A c \in Coordinator : Candidate(c)' => Candidate(c)
    BY <1>1, <2>1 DEF NobodyJoined, Candidate, Up, Actor
  <2>3. QED
    BY <1>2, <2>1, <2>2
<1>9. QED
  BY <1>3, <1>4, <1>5, <1>6, <1>7, <1>8 DEF Next, TimeoutStep

LEMMA JoinlessInvariant == Spec => [](TypeInv /\ JoinlessInv)
<1>1. Init => TypeInv /\ JoinlessInv
  BY TypeInvInit, JoinlessInit
<1>2. TypeInv /\ JoinlessInv /\ [Next]_vars => (TypeInv /\ JoinlessInv)'
  BY TypeInvStep, JoinlessStep
<1>3. QED
  BY <1>1, <1>2, PTL DEF Spec

\* As long as no worker joins, the leader's map is the map of the workers it holds
\* alive across any number of failovers, partitions, deaths and lost heartbeats
\* (coordinator.py: every candidate starts from the first map and keeps the health of
\* the workers; _detect_failures rebalances).
THEOREM MapFollowsMembershipWhileNobodyJoins ==
  Spec => [](NobodyJoined => LeaderMapFollowsMembership)
<1>1. JoinlessInv => (NobodyJoined => LeaderMapFollowsMembership)
  BY DEF JoinlessInv, MembersFollowMap, LeaderMapFollowsMembership
<1>2. QED
  BY <1>1, JoinlessInvariant, PTL

-----------------------------------------------------------------------------
(***************************************************************************)
(* A cluster to which nothing happens but deaths.  There a failover keeps  *)
(* the vehicles' owners and the map together as well, because every        *)
(* candidate finds the same timeouts: what the old leader did away with is *)
(* what its successor finds overdue on its first tick.                     *)
(***************************************************************************)
\* No live worker has been missed, so none has to announce itself.
NobodyMissed ==
  /\ cut = {} /\ hbNet = {}
  /\ \A x \in overdue : life[x[2]] = "dead"
  /\ \A w \in InitialWorkers : life[w] # "unborn"
  /\ \A c \in Coordinator, w \in InitialWorkers : Up(w) => w \in members[c]

\* A candidate holds for overdue whom any live coordinator does, and whom the
\* last leader has removed.
CandidatesKnowTheDead ==
  /\ lease = Nobody => overdue = {}
  /\ \A c, d \in Coordinator, w \in InitialWorkers :
       Candidate(d) /\ Up(c) /\ <<c, w>> \in overdue => <<d, w>> \in overdue
  /\ \A d \in Coordinator, w \in InitialWorkers :
       Candidate(d) /\ lease # Nobody /\ w \notin members[lease] => <<d, w>> \in overdue

OwnersFollowWhileServed == (\E w \in Worker : Up(w)) => OwnersFollowCurrentMap

DeathsInv == OnlyDeaths => NobodyMissed /\ CandidatesKnowTheDead /\ OwnersFollowWhileServed

LEMMA DeathsInit == Init => DeathsInv
<1> SUFFICES ASSUME Init PROVE DeathsInv
  OBVIOUS
<1>1. NobodyMissed /\ CandidatesKnowTheDead
  BY ConfigAssumption DEF Init, NobodyMissed, CandidatesKnowTheDead, Candidate, Actor
<1>2. OwnersFollowWhileServed
  BY DEF Init, OwnersFollowWhileServed, OwnersFollowCurrentMap, CurrentMap
<1>3. QED
  BY <1>1, <1>2 DEF DeathsInv

LEMMA DeathsLeaderTick ==
  ASSUME TypeInv, JoinlessInv, DeathsInv, OnlyDeaths,
         NEW c \in Coordinator, NEW heard, NEW joins, NEW due \in BOOLEAN,
         heard \in SUBSET Arrived(c), joins \in SetToSeqs(heard \ members[c]),
         LeaderTick(c, heard, joins, due)
  PROVE  DeathsInv'
<1> DEFINE new == NewMap(c, heard, joins)
           gone == NewlyDown(c, heard)
           left == Survivors(c, heard)
<1> USE DEF DeathsInv
<1>0. OnlyFirstWorkersHeard /\ CandidatesKeepFirstView /\ MembersFollowMap
  BY DEF JoinlessInv, OnlyDeaths
<1>1. /\ heard = {} /\ Up(c) /\ \A d \in Coordinator : members[d] \subseteq InitialWorkers
      /\ smap \in [Coordinator -> ShardMap] /\ members \in [Coordinator -> SUBSET Worker]
      /\ lease \in Coordinator \cup {Nobody} /\ Nobody \notin Coordinator
      /\ overdue \subseteq Coordinator \X Worker
      /\ InitialWorkers \subseteq Worker
  BY <1>0, IdAssumption, ConfigAssumption
     DEF TypeInv, TypeOK, Arrived, Actor, NobodyMissed, LeaderTick, OnlyFirstWorkersHeard
<1>2. /\ gone = {w \in members[c] : <<c, w>> \in overdue}
      /\ left = members[c] \ gone
      /\ \A w \in InitialWorkers : Up(w) => w \in left
  BY <1>1 DEF NewlyDown, Survivors, NobodyMissed, Up
<1>3. /\ lease' = c /\ hbNet' = {}
      /\ smap' = [smap EXCEPT ![c] = new]
      /\ members' = [members EXCEPT ![c] = left]
      /\ owner' = Rehomed(c, new)
      /\ overdue' = overdue \ ({c} \X gone)
      /\ UNCHANGED <<life, cut, faults, view>>
  BY <1>1 DEF LeaderTick, envVars, NobodyMissed
<1>4. smap'[c] = new /\ CurrentMap' = new /\ members'[c] = left
  BY <1>1, <1>3 DEF CurrentMap
<1>5. /\ gone # {} /\ left # {} => new.nodes = left /\ new # smap[c]
      /\ gone = {} => new = smap[c]
  <2>1. /\ heard \in SUBSET Worker
        /\ Resharded(c, heard) <=> gone # {} /\ left # {}
    BY <1>1 DEF Resharded
  <2>2. /\ Resharded(c, heard) => new.nodes = left /\ new # smap[c]
        /\ ~ Resharded(c, heard) =>
             \/ new = smap[c]
             \/ new.nodes = members[c] \cup heard /\ lease = c
    BY <2>1, TickMapsInOrder
  <2>3. ~ Resharded(c, heard) => new = smap[c]
    <3>1. joins = <<>>
      <4>1. heard \ members[c] = {}
        BY <1>1
      <4>2. Cardinality({}) = 0
        BY FS_EmptySet
      <4>3. joins \in [1 .. 0 -> {}]
        BY <4>1, <4>2 DEF SetToSeqs
      <4>4. QED
        BY <4>3
    <3>2. JoinMaps(c, joins) = <<>>
      BY <3>1 DEF JoinMaps
    <3>3. QED
      BY <3>2 DEF NewMap, MapAfterJoins
  <2>4. QED
    BY <2>1, <2>2, <2>3
<1> HIDE DEF new, gone, left
<1>6. NobodyMissed'
  <2>1. \A d \in Coordinator, w \in InitialWorkers : Up(w) => w \in members'[d]
    BY <1>1, <1>2, <1>3 DEF NobodyMissed
  <2>2. QED
    BY <1>3, <2>1 DEF NobodyMissed, Up
<1>7. \A d \in Coordinator : Candidate(d)' => d # c /\ Candidate(d)
  BY <1>3, <1>1 DEF Candidate, Up, LeaderTick, CanLead
<1>8. CandidatesKnowTheDead'
  <2>1. \A d \in Coordinator, w \in InitialWorkers :
          Candidate(d)' /\ <<d, w>> \in overdue => <<d, w>> \in overdue'
    BY <1>3, <1>7
  <2>2. ASSUME NEW a \in Coordinator, NEW d \in Coordinator, NEW w \in InitialWorkers,
               Candidate(d)', Up(a), <<a, w>> \in overdue
        PROVE  <<d, w>> \in overdue'
    BY <1>7, <2>1, <2>2 DEF CandidatesKnowTheDead
  <2>3. ASSUME NEW d \in Coordinator, NEW w \in InitialWorkers,
               Candidate(d)', w \notin left
        PROVE  <<d, w>> \in overdue'
    <3>1. CASE <<c, w>> \in overdue
      BY <1>1, <2>2, <2>3, <3>1
    <3>2. CASE <<c, w>> \notin overdue
      <4>1. w \notin members[c]
        BY <1>2, <2>3, <3>2
      <4>2. lease = c
        BY <1>0, <1>1, <4>1 DEF CandidatesKeepFirstView, Candidate
      <4>3. QED
        BY <1>1, <1>7, <2>1, <2>3, <4>1, <4>2 DEF CandidatesKnowTheDead
    <3>3. QED
      BY <3>1, <3>2
  <2>4. \A a, d \in Coordinator, w \in InitialWorkers :
          Candidate(d)' /\ Up(a)' /\ <<a, w>> \in overdue' => <<d, w>> \in overdue'
    BY <1>3, <2>2 DEF Up
  <2>5. \A d \in Coordinator, w \in InitialWorkers :
          Candidate(d)' /\ w \notin members'[lease'] => <<d, w>> \in overdue'
    BY <1>3, <1>4, <2>3
  <2>6. lease' # Nobody
    BY <1>1, <1>3
  <2>7. QED
    BY <2>4, <2>5, <2>6 DEF CandidatesKnowTheDead
<1>9. lease # c => smap[c] = InitialMap /\ members[c] = InitialWorkers
  BY <1>0, <1>1 DEF CandidatesKeepFirstView, Candidate
<1>10. OwnersFollowWhileServed'
  <2> SUFFICES ASSUME NEW w \in Worker, Up(w), NEW v \in Vehicle
               PROVE  owner'[v] = new.cell_owner[HomeCell[v]]
    BY <1>3, <1>4 DEF OwnersFollowWhileServed, OwnersFollowCurrentMap, Up
  <2>1. w \in InitialWorkers /\ left # {}
    BY <1>2 DEF OnlyDeaths, NobodyJoined, Up
  <2>2. owner[v] = CurrentMap.cell_owner[HomeCell[v]]
    BY DEF OwnersFollowWhileServed, OwnersFollowCurrentMap
  <2>3. CASE gone # {}
    BY <1>3, <1>5, <2>1, <2>3 DEF Rehomed
  <2>4. CASE gone = {}
    <3>1. new = smap[c] /\ owner' = owner
      BY <1>3, <1>5, <2>4 DEF Rehomed
    <3>2. CASE lease = c
      BY <1>1, <2>2, <3>1, <3>2 DEF CurrentMap
    <3>3. CASE lease = Nobody
      BY <1>1, <1>9, <2>2, <3>1, <3>3 DEF CurrentMap
\* The old leader had removed nobody: its map may have another version, but it is
\* the map of the same workers.
    <3>4. CASE lease # c /\ lease # Nobody
      <4>1. \A x \in InitialWorkers : <<c, x>> \notin overdue
        BY <1>2, <1>9, <2>4, <3>4
      <4>2. InitialWorkers \subseteq members[lease]
        BY <1>1, <3>4, <4>1 DEF CandidatesKnowTheDead, Candidate
      <4>3. members[lease] = InitialWorkers
        BY <1>1, <3>4, <4>2
      <4>4. smap[lease].nodes = InitialWorkers
        BY <1>0, <2>1, <3>4, <4>3 DEF MembersFollowMap
      <4>5. smap[lease] = BuildShardMap(InitialWorkers, smap[lease].version)
        BY <1>1, <3>4, <4>4 DEF TypeInv, MapsBuilt, Built
      <4>6. smap[lease].cell_owner = InitialMap.cell_owner
        BY <4>5 DEF BuildShardMap, InitialMap
      <4>7. QED
        BY <1>9, <2>2, <3>1, <3>4, <4>6 DEF CurrentMap
    <3>5. QED
      BY <3>2, <3>3, <3>4
  <2>5. QED
    BY <2>3, <2>4
<1>11. QED
  BY <1>6, <1>8, <1>10

LEMMA DeathsStep == TypeInv /\ JoinlessInv /\ DeathsInv /\ [Next]_vars => DeathsInv'
<1> SUFFICES ASSUME TypeInv, JoinlessInv, DeathsInv, [Next]_vars, OnlyDeaths'
             PROVE  DeathsInv'
  BY DEF DeathsInv
<1> USE DEF DeathsInv, FaultKind
<1>1. /\ TypeOK
      /\ lease \in Coordinator \cup {Nobody} /\ Nobody \notin Coordinator
      /\ Worker \cap Coordinator = {}
      /\ faults["partition"] \in Nat /\ faults["lost_spell"] \in Nat
      /\ InitialWorkers \subseteq Worker
      /\ life \in [Actor -> {"unborn", "up", "dead"}]
      /\ members \in [Coordinator -> SUBSET Worker]
  BY IdAssumption, ConfigAssumption DEF TypeInv, TypeOK, Actor
<1>2. ASSUME NEW nodes \in Partitions, SetPartition(nodes) PROVE DeathsInv'
  BY <1>1, <1>2 DEF SetPartition, OnlyDeaths, NobodyJoined, TypeOK
<1>3. ASSUME OnlyDeaths, UNCHANGED <<life, cut, lease, members, smap, owner, overdue, hbNet>>
      PROVE  DeathsInv'
  BY <1>3 DEF NobodyMissed, CandidatesKnowTheDead, OwnersFollowWhileServed,
              OwnersFollowCurrentMap, CurrentMap, Candidate, Up
<1>4. ASSUME \/ Duplicate
             \/ \E r \in Request : Emit(r)
             \/ \E x \in viewNet : GatewayReceivesView(x[2]) \/ WorkerReceivesView(x[1], x[2])
             \/ \E w \in Worker, r \in Request : WorkerReceivesRequest(w, r)
             \/ \E c \in Coordinator, r \in Request : CoordinatorReceivesSpill(c, r)
             \/ UNCHANGED vars
      PROVE  DeathsInv'
  <2>1. /\ UNCHANGED <<life, cut, lease, members, smap, owner, overdue, hbNet>>
        /\ faults'["partition"] = faults["partition"]
        /\ faults'["lost_spell"] = faults["lost_spell"]
    BY <1>1, <1>4 DEF Duplicate, Emit, GatewayReceivesView, WorkerReceivesView,
                WorkerReceivesRequest, CoordinatorReceivesSpill, vars, envVars, netVars,
                controlVars, TypeOK
  <2>2. OnlyDeaths
    BY <2>1 DEF OnlyDeaths, NobodyJoined
  <2>3. QED
    BY <1>3, <2>1, <2>2
<1>5. CASE HealPartition
  <2>1. OnlyDeaths
    BY <1>5 DEF HealPartition, OnlyDeaths, NobodyJoined
  <2>2. QED
    BY <1>5, <2>1 DEF HealPartition, NobodyMissed
<1>6. ASSUME NEW w \in Worker, NEW beats \in BOOLEAN, WorkerTick(w, beats) PROVE DeathsInv'
  <2>1. /\ Up(w) /\ OnlyDeaths
        /\ UNCHANGED <<life, cut, lease, members, smap, owner, overdue>>
    BY <1>6 DEF WorkerTick, envVars, controlVars, OnlyDeaths, NobodyJoined
  <2>2. w \in InitialWorkers /\ \A c \in Coordinator : w \in members[c] /\ <<c, w>> \notin overdue
    BY <2>1 DEF OnlyDeaths, NobodyJoined, NobodyMissed, Up
  <2>3. hbNet' = hbNet
    BY <1>6, <2>2 DEF WorkerTick
  <2>4. QED
    BY <1>3, <2>1, <2>3
<1>7. ASSUME NEW c \in Coordinator, NEW heard, heard \in SUBSET Arrived(c),
             FollowerTick(c, heard)
      PROVE  DeathsInv'
  <2>1. OnlyDeaths /\ UNCHANGED <<life, cut, lease, smap, owner>>
    BY <1>7 DEF FollowerTick, envVars, OnlyDeaths, NobodyJoined
  <2>2. heard = {}
    BY <1>7, <2>1 DEF NobodyMissed, Arrived
  <2>3. UNCHANGED <<members, overdue, hbNet>>
    BY <1>1, <1>7, <2>2 DEF FollowerTick
  <2>4. QED
    BY <1>3, <2>1, <2>3
<1>8. ASSUME NEW c \in Coordinator, NEW heard \in SUBSET Arrived(c),
             NEW joins \in SetToSeqs(heard \ members[c]), NEW due \in BOOLEAN,
             LeaderTick(c, heard, joins, due)
      PROVE  DeathsInv'
  <2>1. OnlyDeaths
    BY <1>8 DEF LeaderTick, envVars, OnlyDeaths, NobodyJoined
  <2>2. QED
    BY <1>8, <2>1, DeathsLeaderTick
<1>9. ASSUME NEW w \in Worker, KillWorker(w) PROVE DeathsInv'
  <2>1. /\ Up(w) /\ life' = [life EXCEPT ![w] = "dead"]
        /\ faults'["partition"] = faults["partition"]
        /\ faults'["lost_spell"] = faults["lost_spell"]
        /\ UNCHANGED <<cut, lease, members, smap, owner, overdue, hbNet>>
    BY <1>1, <1>9 DEF KillWorker, controlVars, TypeOK
  <2>2. /\ \A c \in Coordinator : life'[c] = life[c]
        /\ \A x \in Worker \ {w} : life'[x] = life[x]
        /\ life'[w] = "dead" /\ life[w] = "up"
    BY <1>1, <2>1 DEF Actor, Up
  <2>3. OnlyDeaths
    BY <2>1, <2>2 DEF OnlyDeaths, NobodyJoined
  <2>4. NobodyMissed'
    BY <1>1, <2>1, <2>2, <2>3 DEF NobodyMissed, Up, TypeOK
  <2>5. \A c \in Coordinator : (Candidate(c)' <=> Candidate(c)) /\ (Up(c)' <=> Up(c))
    BY <1>1, <2>1, <2>2 DEF Candidate, Up
  <2>6. CandidatesKnowTheDead'
    BY <2>1, <2>3, <2>5 DEF CandidatesKnowTheDead
  <2>7. OwnersFollowWhileServed'
    BY <2>1, <2>2, <2>3 DEF OwnersFollowWhileServed, OwnersFollowCurrentMap, CurrentMap, Up
  <2>8. QED
    BY <2>4, <2>6, <2>7
<1>10. ASSUME NEW w \in Worker, AddWorker(w) PROVE DeathsInv'
  <2>1. life[w] = "unborn" /\ life' = [life EXCEPT ![w] = "up"] /\ UNCHANGED faults
    BY <1>10 DEF AddWorker
  <2>2. life'[w] = "up" /\ \A x \in Worker \ {w} : life'[x] = life[x]
    BY <1>1, <2>1 DEF Actor
  <2>3. w \in InitialWorkers /\ OnlyDeaths
    BY <2>1, <2>2 DEF OnlyDeaths, NobodyJoined
  <2>4. QED
    BY <2>1, <2>3 DEF NobodyMissed
<1>11. CASE KillLeader
  <2>1. /\ lease # Nobody /\ life' = [life EXCEPT ![lease] = "dead"]
        /\ hbNet' \subseteq hbNet
        /\ faults'["partition"] = faults["partition"]
        /\ faults'["lost_spell"] = faults["lost_spell"]
        /\ UNCHANGED <<cut, lease, members, smap, owner, overdue>>
    BY <1>1, <1>11 DEF KillLeader, TypeOK
  <2>2. /\ \A w \in Worker : life'[w] = life[w]
        /\ \A c \in Coordinator \ {lease} : life'[c] = life[c]
        /\ life'[lease] = "dead"
    BY <1>1, <2>1 DEF Actor
  <2>3. OnlyDeaths
    BY <2>1, <2>2 DEF OnlyDeaths, NobodyJoined
  <2>4. NobodyMissed'
    BY <1>1, <2>1, <2>2, <2>3 DEF NobodyMissed, Up, TypeOK
  <2>5. \A c \in Coordinator : (Candidate(c)' <=> Candidate(c)) /\ (Up(c)' => Up(c))
    BY <1>1, <2>1, <2>2 DEF Candidate, Up
  <2>6. CandidatesKnowTheDead'
    BY <2>1, <2>3, <2>5 DEF CandidatesKnowTheDead
  <2>7. OwnersFollowWhileServed'
    BY <2>1, <2>2, <2>3 DEF OwnersFollowWhileServed, OwnersFollowCurrentMap, CurrentMap, Up
  <2>8. QED
    BY <2>4, <2>6, <2>7
\* A dead worker's timeout passes at every candidate that runs.
<1>12. ASSUME NEW w \in Worker, HeartbeatTimeout(w) PROVE DeathsInv'
  <2> DEFINE due == {c \in Coordinator : Up(c) /\ w \in members[c]} \X {w}
  <2>1. /\ life[w] = "dead" \/ w \in cut
        /\ TimeOut(due) /\ UNCHANGED faults
    BY <1>12 DEF HeartbeatTimeout
  <2>2. /\ lease # Nobody
        /\ overdue' = overdue \cup due
        /\ UNCHANGED <<life, cut, lease, members, smap, owner, hbNet>>
    BY <2>1 DEF TimeOut, netVars
  <2>3. OnlyDeaths /\ life[w] = "dead" /\ CandidatesKeepFirstView
    BY <2>1, <2>2 DEF OnlyDeaths, NobodyJoined, NobodyMissed, JoinlessInv
  <2>4. w \in InitialWorkers
    BY <2>3 DEF OnlyDeaths, NobodyJoined
  <2>5. /\ \A c \in Coordinator : <<c, w>> \in due <=> Up(c) /\ w \in members[c]
        /\ \A x \in due : x[2] = w
    OBVIOUS
  <2> HIDE DEF due
  <2>6. NobodyMissed'
    BY <2>2, <2>3, <2>5 DEF NobodyMissed, Up
  <2>7. CandidatesKnowTheDead'
    <3>1. \A d \in Coordinator : Candidate(d) => <<d, w>> \in due
      BY <2>3, <2>4, <2>5 DEF CandidatesKeepFirstView, Candidate
    <3>2. \A c \in Coordinator, x \in InitialWorkers :
            <<c, x>> \in overdue' => <<c, x>> \in overdue \/ x = w
      BY <2>2, <2>5
    <3>3. \A c \in Coordinator : (Candidate(c)' <=> Candidate(c)) /\ (Up(c)' <=> Up(c))
      BY <2>2 DEF Candidate, Up
    <3>4. QED
      BY <2>2, <2>3, <3>1, <3>2, <3>3 DEF CandidatesKnowTheDead
  <2>8. OwnersFollowWhileServed'
    BY <2>2, <2>3 DEF OwnersFollowWhileServed, OwnersFollowCurrentMap, CurrentMap, Up
  <2>9. QED
    BY <2>6, <2>7, <2>8
\* Nobody is cut off, and nobody's heartbeats are lost.
<1>13. ASSUME NEW c \in Coordinator, NEW w \in Worker, CutOffTimeout(c, w) PROVE DeathsInv'
  <2>1. c \in cut /\ UNCHANGED <<life, faults>>
    BY <1>13 DEF CutOffTimeout, TimeOut
  <2>2. QED
    BY <2>1 DEF OnlyDeaths, NobodyJoined, NobodyMissed
<1>14. ASSUME NEW c \in Coordinator, NEW w \in Worker, HeartbeatsLost(c, w) PROVE DeathsInv'
  <2>1. faults'["lost_spell"] = faults["lost_spell"] + 1
    BY <1>1, <1>14 DEF HeartbeatsLost, TypeOK
  <2>2. QED
    BY <1>1, <2>1 DEF OnlyDeaths
<1>15. QED
  BY <1>2, <1>4, <1>5, <1>6, <1>7, <1>8, <1>9, <1>10, <1>11, <1>12, <1>13, <1>14 DEF Next

LEMMA DeathsInvariant == Spec => [](TypeInv /\ JoinlessInv /\ DeathsInv)
<1>1. Init => TypeInv /\ JoinlessInv /\ DeathsInv
  BY TypeInvInit, JoinlessInit, DeathsInit
<1>2. TypeInv /\ JoinlessInv /\ DeathsInv /\ [Next]_vars
        => (TypeInv /\ JoinlessInv /\ DeathsInv)'
  BY TypeInvStep, JoinlessStep, DeathsStep
<1>3. QED
  BY <1>1, <1>2, PTL DEF Spec

\* While nothing happens to the cluster but deaths, the vehicles' owners follow the
\* leader's map too, also between the death of a leader and the first tick of the next,
\* as long as a worker is left to own them (coordinator.py: every candidate tracks the
\* heartbeats, and a successor detects what the dead leader had detected).
THEOREM OwnershipFollowsMapAcrossFailover == Spec => []OwnershipFollowsMapAcrossDeaths
<1>1. DeathsInv => OwnershipFollowsMapAcrossDeaths
  BY DEF DeathsInv, OwnersFollowWhileServed, OwnersFollowCurrentMap, CurrentMap,
         OwnershipFollowsMapAcrossDeaths, OwnershipFollowsMap
<1>2. QED
  BY <1>1, DeathsInvariant, PTL
=============================================================================
