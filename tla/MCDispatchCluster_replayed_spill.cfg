\* A new leader feeds spills back that the old leader had fed back.
SPECIFICATION Spec
CONSTANTS
  w1 = w1  w2 = w2  w3 = w3  c1 = c1  c2 = c2  ca = ca  cb = cb
  r1 = r1  r2 = r2  r3 = r3  va = va  vb = vb
  Worker = {w1, w2}
  InitialWorkers = {w1, w2}
  Coordinator = {c1, c2}
  Gateway = gateway
  Cell = {ca, cb}
  Request = {r1, r2}
  Vehicle = {va}
  Weight <- WeightsOfTwo
  MaxWeight = 3
  Rank <- RanksOfTwo
  PickupCell <- PickupsOfTwo
  HomeCell <- HomeOfOne
  ThroughputPerTick = 1
  QueueHighWater = 0
  ReinjectPerTick = 1
  NoView = NoView
  NoPlan = NoPlan
  Nobody = Nobody
  Partitions = {}
  MaxWorkerKills = 1
  MaxLeaderKills = 1
  MaxPartitions = 0
  MaxDuplicates = 0
  MaxLostSpells = 0
INVARIANTS
  NoDoubleBooking
