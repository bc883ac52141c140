\* A killed id is spawned again on the virtual-time runtime.
SPECIFICATION Spec
CONSTANTS
  q = q  p = p  m1 = m1
  Receiver = {q}
  Poller = {p}
  InitialActors = {q, p}
  Message = {m1}
  Latency = {0, 1}
  SleepTime = {1, 2}
  FaultTime = {}
  MaxIncarnations = 2
  NoMessage = NoMessage
INVARIANTS
  OneResumption
CHECK_DEADLOCK FALSE
