\* Both runtimes: a receiver, a poller that is spawned later, killed or ended, two messages.
SPECIFICATION RuntimesSpec
CONSTANTS
  q = q  p = p  m1 = m1  m2 = m2
  Receiver = {q}
  Poller = {p}
  InitialActors = {q}
  Message = {m1, m2}
  Latency = {0, 1}
  SleepTime = {1, 2}
  FaultTime <- FaultTimes
  MaxIncarnations = 2
  NoMessage = NoMessage
INVARIANTS
  TypeOK
  OneResumption
  WaitingMeansEmpty
PROPERTIES
  ImplementsMailboxes
  EventuallyReceived
CHECK_DEADLOCK FALSE
