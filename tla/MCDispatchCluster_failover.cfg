\* Three workers and two candidates: a worker and the leader die, and the cluster recovers.
SPECIFICATION FairSpec
CONSTANTS
  w1 = w1  w2 = w2  w3 = w3  c1 = c1  c2 = c2  ca = ca  cb = cb
  r1 = r1  r2 = r2  r3 = r3  va = va  vb = vb
  Worker = {w1, w2, w3}
  InitialWorkers = {w1, w2, w3}
  Coordinator = {c1, c2}
  Gateway = gateway
  Cell = {ca, cb}
  Request = {}
  Vehicle = {va, vb}
  Weight <- WeightsOfThree
  MaxWeight = 3
  Rank <- RanksOfThree
  PickupCell <- PickupsOfNone
  HomeCell <- HomesOfTwo
  ThroughputPerTick = 1
  QueueHighWater = 0
  ReinjectPerTick = 1
  NoView = NoView
  NoPlan = NoPlan
  Nobody = Nobody
  Partitions = {}
  MaxWorkerKills = 1
  MaxLeaderKills = 1
  MaxPartitions = 0
  MaxDuplicates = 0
  MaxLostSpells = 0
INVARIANTS
  LeaderMapFollowsMembership
  OwnershipFollowsMapAcrossDeaths
PROPERTIES
  MinimalMigration
  OrphansRecovered
  ViewsConverge
