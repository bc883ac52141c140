\* Two coordinators and a worker, of which any two may die.
SPECIFICATION FairSpec
CONSTANTS
  c1 = c1  c2 = c2  w1 = w1
  Coordinator = {c1, c2}
  Worker = {w1}
  Nobody = Nobody
  LeaseTtl = 4
  LeaseRenew = 1
  HbInterval = 1
  HbTimeout = 2
  MaxRound = 2
  MaxCall = 1
  MaxLag = 1
  MaxCrashes = 2
INVARIANTS
  TypeOK
  OneLeader
  LiveWorkerNotReported
PROPERTIES
  LeaderStays
  ViewBecomesTrue
