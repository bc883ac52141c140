\* Membership alone: a worker or the leader is cut off and heals, or heartbeats are lost.
SPECIFICATION Spec
CONSTANTS
  w1 = w1  w2 = w2  w3 = w3  c1 = c1  c2 = c2  ca = ca  cb = cb
  r1 = r1  r2 = r2  r3 = r3  va = va  vb = vb
  Worker = {w1, w2}
  InitialWorkers = {w1, w2}
  Coordinator = {c1}
  Gateway = gateway
  Cell = {ca, cb}
  Request = {}
  Vehicle = {va, vb}
  Weight <- WeightsOfTwo
  MaxWeight = 3
  Rank <- RanksOfTwo
  PickupCell <- PickupsOfNone
  HomeCell <- HomesOfTwo
  ThroughputPerTick = 1
  QueueHighWater = 0
  ReinjectPerTick = 1
  NoView = NoView
  NoPlan = NoPlan
  Nobody = Nobody
  Partitions = {{w1}, {c1}}
  MaxWorkerKills = 0
  MaxLeaderKills = 0
  MaxPartitions = 1
  MaxDuplicates = 0
  MaxLostSpells = 1
INVARIANTS
  VersionIdentifiesMap
  LeaderMapFollowsMembership
  OwnershipFollowsMap
CONSTRAINT OneSpell
