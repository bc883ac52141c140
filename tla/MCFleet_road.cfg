SPECIFICATION FairSpec
CONSTANTS
  va = va  vb = vb  r1 = r1  r2 = r2  r3 = r3  r4 = r4
  Vehicle = {va}
  Request = {r1, r2, r3}
  Origin <- LoneOrigins
  Destination <- LoneDestinations
  PartySize <- LoneParties
  Capacity = 3
  MaxWait = 4
  DetourNum = 2
  DetourDen = 1
  Depot <- LoneDepot
  CellCenter <- LoneCenters
  MinMove = 1
  MotionDt = 1
  RoadPoint <- LoopRoad
  Engines = {"insertion"}
  NoTarget = NoTarget
  NoSegment = NoSegment
  NoVehicle = NoVehicle
  Demands = {{r1, r2, r3}}
  Area = 40
  Spacing = 10
  MaxWalk = 8
  AgeCap = 8
INVARIANTS
  WaitHonoured
