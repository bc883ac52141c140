SPECIFICATION FairSpec
CONSTANTS
  va = va  vb = vb  r1 = r1  r2 = r2  r3 = r3  r4 = r4
  Vehicle = {va, vb}
  Request = {r1, r2, r3, r4}
  Origin <- Origins
  Destination <- Destinations
  PartySize <- Parties
  Capacity = 3
  MaxWait = 4
  DetourNum = 2
  DetourDen = 1
  Depot <- Depots
  CellCenter <- Centers
  MinMove = 1
  MotionDt = 2
  RoadPoint <- StraightRoad
  Engines = {"insertion", "baseline"}
  NoTarget = NoTarget
  NoSegment = NoSegment
  NoVehicle = NoVehicle
  Demands <- OneOfTwo
  Area = 40
  Spacing = 10
  MaxWalk = 8
  AgeCap = 9
INVARIANTS
  TypeOK
  RoutesServeBookings
  WithinCapacity
  WaitHonoured
  DetourHonoured
  BaselineDoesNotPool
  DeadheadOnlyWhenIdle
  EngineMissesNothing
PROPERTIES
  BookedArrive
