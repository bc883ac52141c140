-------------------------- MODULE RedisControl_proofs --------------------------
(***************************************************************************)
(* The lease over Redis elects at most one leader, and the leader reports  *)
(* no live worker down, for any number of processes and any timing within  *)
(* TimingAssumption.                                                       *)
(***************************************************************************)
EXTENDS RedisControl, TLAPS

\* Every step of every process and of the server keeps the types; the lease key is
\* held exactly as long as it has time to live.
THEOREM TypeCorrect == Spec => []TypeOK
<1>1. Init => TypeOK
  BY TimingAssumption DEF Init, TypeOK, NeverHeard, Stale
<1>2. TypeOK /\ [Next]_vars => TypeOK'
  <2> SUFFICES ASSUME TypeOK, [Next]_vars PROVE TypeOK'
    OBVIOUS
  <2> USE TimingAssumption DEF TypeOK
  <2>1. ASSUME NEW c \in Coordinator, Subscribe(c) PROVE TypeOK'
    BY <2>1 DEF Subscribe, serverVars, viewVars
  <2>2. ASSUME NEW c \in Coordinator, TryAcquire(c) PROVE TypeOK'
    <3>1. since' \in [Coordinator -> 0..MaxRound]
      BY <2>2 DEF TryAcquire
    <3>2. pc' \in [Coordinator -> {"new", "asleep", "holder", "renew", "poll"}]
      BY <2>2 DEF TryAcquire
    <3>3. /\ key' \in Coordinator \cup {Nobody} /\ ttl' \in 0..LeaseTtl
          /\ (key' = Nobody) <=> (ttl' = 0)
          /\ isLeader' \in [Coordinator -> BOOLEAN]
      <4>1. LeaseTtl \in Nat \ {0}
        OBVIOUS
      <4>2. CASE key = Nobody
        <5>1. /\ key' = c /\ ttl' = LeaseTtl
              /\ isLeader' = [isLeader EXCEPT ![c] = TRUE]
          BY <2>2, <4>2 DEF TryAcquire
        <5> QED
          BY <4>1, <5>1
      <4>3. CASE key # Nobody
        BY <2>2, <4>3 DEF TryAcquire
      <4> QED
        BY <4>2, <4>3
    <3>4. UNCHANGED <<up, crashes, unread, stream, lastSeen, reported, quiet>>
      BY <2>2 DEF TryAcquire, viewVars
    <3> QED
      BY <3>1, <3>2, <3>3, <3>4
  <2>3. ASSUME NEW c \in Coordinator, ReadHolder(c) PROVE TypeOK'
    BY <2>3 DEF ReadHolder, serverVars, viewVars
  <2>4. ASSUME NEW c \in Coordinator, Renew(c) PROVE TypeOK'
    BY <2>4 DEF Renew, viewVars
  <2>5. ASSUME NEW c \in Coordinator, PollAndReport(c) PROVE TypeOK'
    <3>1. Heard(c) \in [Worker -> 0..NeverHeard]
      BY DEF Heard, NeverHeard
    <3>2. AliveBy(Heard(c)) \in SUBSET Worker
      BY DEF AliveBy
    <3>3. lastSeen' \in [Coordinator -> [Worker -> 0..NeverHeard]]
      BY <2>5, <3>1 DEF PollAndReport
    <3>4. reported' \in [Coordinator -> SUBSET Worker]
      BY <2>5, <3>2 DEF PollAndReport
    <3>5. stream' \in [leader : Coordinator \cup {Nobody}, alive : SUBSET Worker]
      BY <2>5, <3>2 DEF PollAndReport
    <3> QED
      BY <2>5, <3>3, <3>4, <3>5 DEF PollAndReport, serverVars
  <2>6. ASSUME NEW w \in Worker, Heartbeat(w) PROVE TypeOK'
    BY <2>6 DEF Heartbeat, serverVars, coordinatorVars, viewVars
  <2>7. ASSUME NEW p \in Coordinator \cup Worker, Crash(p) PROVE TypeOK'
    BY <2>7 DEF Crash, serverVars, coordinatorVars, viewVars
  <2>8. ASSUME Tick PROVE TypeOK'
    <3>1. lastSeen' \in [Coordinator -> [Worker -> 0..NeverHeard]]
      <4>1. \A age \in 0..NeverHeard : Older(age) \in 0..NeverHeard
        BY DEF Older, NeverHeard, Stale
      <4> QED
        BY <2>8, <4>1 DEF Tick
    <3>2. since' \in [Coordinator -> 0..MaxRound]
      BY <2>8 DEF Tick, Punctual
    <3>3. quiet' \in [Worker -> 0..(HbInterval + MaxLag)]
      BY <2>8 DEF Tick, Punctual
    <3> QED
      BY <2>8, <3>1, <3>2, <3>3 DEF Tick
  <2>9. CASE UNCHANGED vars
    BY <2>9 DEF vars, serverVars, coordinatorVars, viewVars
  <2> QED
    BY <2>1, <2>2, <2>3, <2>4, <2>5, <2>6, <2>7, <2>8, <2>9 DEF Next
<1> QED
  BY <1>1, <1>2, PTL DEF Spec

-----------------------------------------------------------------------------
(***************************************************************************)
(* Why there is one leader: who takes itself for the leader holds the key, *)
(* and the key has more time left than its holder may take to renew it.    *)
(***************************************************************************)
LeaderHoldsKey == \A c \in Coordinator \cap up : isLeader[c] <=> key = c

RenewerHoldsKey == \A c \in Coordinator \cap up : pc[c] = "renew" => key = c

Renewing(c) == pc[c] \in {"holder", "renew"}

\* A round begins with the attempt at the lease; the last SET is at most a whole
\* round older than that while the renewal is under way.
LeaseOutlastsRound ==
  \A c \in Coordinator \cap up : key = c =>
    /\ pc[c] # "new"
    /\ ttl + since[c] >= IF Renewing(c) THEN LeaseTtl - MaxRound ELSE LeaseTtl

CallsAreShort == \A c \in Coordinator \cap up : Renewing(c) => since[c] <= MaxCall

LeaseInv ==
  /\ TypeOK
  /\ LeaderHoldsKey
  /\ RenewerHoldsKey
  /\ LeaseOutlastsRound
  /\ CallsAreShort

LEMMA LeaseInvInit == Init => LeaseInv
  <1> SUFFICES ASSUME Init PROVE LeaseInv
    OBVIOUS
  <1>1. TypeOK
    BY TimingAssumption DEF Init, TypeOK, NeverHeard, Stale
  <1> QED
    BY <1>1, TimingAssumption
    DEF Init, LeaseInv, LeaderHoldsKey, RenewerHoldsKey, LeaseOutlastsRound, CallsAreShort, Renewing

\* The steps of the coordinators.
LEMMA LeaseInvCoordinator ==
  ASSUME LeaseInv, TypeOK', NEW c \in Coordinator,
         Subscribe(c) \/ TryAcquire(c) \/ ReadHolder(c) \/ Renew(c) \/ PollAndReport(c)
  PROVE  LeaseInv'
  <1> USE TimingAssumption
      DEF LeaseInv, TypeOK, LeaderHoldsKey, RenewerHoldsKey, LeaseOutlastsRound, CallsAreShort, Renewing
  <1>1. CASE Subscribe(c)
    BY <1>1 DEF Subscribe, serverVars
  <1>2. CASE TryAcquire(c)
    <2>1. CASE key = Nobody
      BY <1>2, <2>1 DEF TryAcquire
    <2>2. CASE key # Nobody
      BY <1>2, <2>2 DEF TryAcquire
    <2> QED
      BY <2>1, <2>2
  <1>3. CASE ReadHolder(c)
    BY <1>3 DEF ReadHolder, serverVars
  <1>4. CASE Renew(c)
    BY <1>4 DEF Renew
  <1>5. CASE PollAndReport(c)
    BY <1>5 DEF PollAndReport, serverVars
  <1> QED
    BY <1>1, <1>2, <1>3, <1>4, <1>5

\* Time: the lease of a live coordinator does not run out.
LEMMA LeaseInvTick ==
  ASSUME LeaseInv, TypeOK', Tick
  PROVE  LeaseInv'
  <1> USE TimingAssumption
      DEF LeaseInv, TypeOK, LeaderHoldsKey, RenewerHoldsKey, LeaseOutlastsRound, CallsAreShort, Renewing
  <1>1. ASSUME NEW c \in Coordinator \cap up, key = c PROVE ttl >= 2
    BY <1>1 DEF Tick, Punctual
  <1>2. \A c \in Coordinator \cap up : key' = c <=> key = c
    BY <1>1 DEF Tick
  <1>3. \A c \in Coordinator \cap up : pc[c] # "new" => since'[c] = since[c] + 1
    BY DEF Tick
  <1>4. LeaderHoldsKey' /\ RenewerHoldsKey'
    BY <1>2 DEF Tick
  <1>5. LeaseOutlastsRound'
    BY <1>1, <1>2, <1>3 DEF Tick
  <1>6. CallsAreShort'
    BY <1>3 DEF Tick, Punctual
  <1> QED
    BY <1>4, <1>5, <1>6

LEMMA LeaseInvInductive == Spec => []LeaseInv
<1>1. LeaseInv /\ TypeOK' /\ [Next]_vars => LeaseInv'
  <2> SUFFICES ASSUME LeaseInv, TypeOK', [Next]_vars PROVE LeaseInv'
    OBVIOUS
  <2>1. ASSUME NEW w \in Worker, Heartbeat(w) PROVE LeaseInv'
    BY <2>1 DEF Heartbeat, serverVars, coordinatorVars, LeaseInv, LeaderHoldsKey, RenewerHoldsKey,
                LeaseOutlastsRound, CallsAreShort, Renewing
  <2>2. ASSUME NEW p \in Coordinator \cup Worker, Crash(p) PROVE LeaseInv'
    BY <2>2 DEF Crash, serverVars, coordinatorVars, LeaseInv, LeaderHoldsKey, RenewerHoldsKey,
                LeaseOutlastsRound, CallsAreShort, Renewing
  <2>3. CASE UNCHANGED vars
    BY <2>3 DEF vars, serverVars, coordinatorVars, LeaseInv, LeaderHoldsKey, RenewerHoldsKey,
                LeaseOutlastsRound, CallsAreShort, Renewing
  <2> QED
    BY <2>1, <2>2, <2>3, LeaseInvCoordinator, LeaseInvTick DEF Next
<1> QED
  BY <1>1, LeaseInvInit, TypeCorrect, PTL DEF Spec

\* At most one live coordinator takes itself for the leader.
THEOREM AtMostOneLeader == Spec => []OneLeader
<1>1. LeaseInv => OneLeader
  BY DEF LeaseInv, LeaderHoldsKey, OneLeader
<1> QED
  BY <1>1, LeaseInvInductive, PTL

\* A live leader stays the leader, and only the holder of the key publishes.
THEOREM LeaderIsNotDeposed == Spec => LeaderStays
<1> DEFINE Stays == /\ \A c \in Coordinator : isLeader[c] /\ c \in up' => isLeader'[c]
                    /\ stream' # stream => key = stream'.leader
<1>1. LeaseInv /\ [Next]_vars => [Stays]_vars
  <2> SUFFICES ASSUME LeaseInv, Next PROVE Stays
    OBVIOUS
  <2> USE DEF LeaseInv, TypeOK, LeaderHoldsKey
  <2>1. ASSUME NEW c \in Coordinator, Subscribe(c) PROVE Stays
    BY <2>1 DEF Subscribe, viewVars
  <2>2. ASSUME NEW c \in Coordinator, TryAcquire(c) PROVE Stays
    BY <2>2 DEF TryAcquire, viewVars
  <2>3. ASSUME NEW c \in Coordinator, ReadHolder(c) PROVE Stays
    BY <2>3 DEF ReadHolder, viewVars
  <2>4. ASSUME NEW c \in Coordinator, Renew(c) PROVE Stays
    BY <2>4 DEF Renew, viewVars
  <2>5. ASSUME NEW c \in Coordinator, PollAndReport(c) PROVE Stays
    BY <2>5 DEF PollAndReport
  <2>6. ASSUME NEW w \in Worker, Heartbeat(w) PROVE Stays
    BY <2>6 DEF Heartbeat, coordinatorVars, viewVars
  <2>7. ASSUME NEW p \in Coordinator \cup Worker, Crash(p) PROVE Stays
    BY <2>7 DEF Crash, coordinatorVars, viewVars
  <2>8. CASE Tick
    BY <2>8 DEF Tick
  <2> QED
    BY <2>1, <2>2, <2>3, <2>4, <2>5, <2>6, <2>7, <2>8 DEF Next
<1> QED
  BY <1>1, LeaseInvInductive, PTL DEF Spec, LeaderStays

-----------------------------------------------------------------------------
(***************************************************************************)
(* Why a live worker is not reported down: no heartbeat falls between two  *)
(* reads of the stream, so what a coordinator remembers of a worker is no  *)
(* older than the worker's last heartbeat, unless that one is unread.      *)
(***************************************************************************)
\* A coordinator that has not subscribed has heard nobody and leads nothing.
NewIsUninformed ==
  \A c \in Coordinator : pc[c] = "new" =>
    ~ isLeader[c] /\ \A w \in Worker : lastSeen[c][w] = NeverHeard

MemoryIsFresh ==
  \A c \in Coordinator, w \in Worker \cap up :
    lastSeen[c][w] # NeverHeard /\ w \notin unread[c] => lastSeen[c][w] <= quiet[w]

HeartbeatInv == NewIsUninformed /\ MemoryIsFresh /\ LiveWorkerNotReported

LEMMA HeartbeatInvPoll ==
  ASSUME TypeOK, HeartbeatInv, NEW c \in Coordinator, PollAndReport(c)
  PROVE  HeartbeatInv'
  <1> USE TimingAssumption DEF HeartbeatInv, NewIsUninformed, MemoryIsFresh, TypeOK
  <1>1. /\ \A w \in Worker : lastSeen'[c][w] = IF w \in unread[c] THEN 0 ELSE lastSeen[c][w]
        /\ \A d \in Coordinator \ {c} : lastSeen'[d] = lastSeen[d] /\ pc'[d] = pc[d]
        /\ pc[c] = "poll" /\ pc'[c] = "asleep"
        /\ \A d \in Coordinator \ {c} : reported'[d] = reported[d] /\ unread'[d] = unread[d]
        /\ UNCHANGED <<up, isLeader, quiet>>
    BY DEF PollAndReport, Heard
  <1>2. ASSUME NEW w \in Worker \cap up, lastSeen'[c][w] # NeverHeard
        PROVE  lastSeen'[c][w] <= quiet[w] /\ lastSeen'[c][w] <= HbTimeout
    <2>1. quiet[w] \in 0..HbTimeout
      OBVIOUS
    <2>2. CASE w \in unread[c]
      BY <1>1, <2>1, <2>2
    <2>3. CASE w \notin unread[c]
      <3>1. lastSeen'[c][w] = lastSeen[c][w] /\ lastSeen[c][w] <= quiet[w]
        BY <1>1, <1>2, <2>3
      <3>2. lastSeen[c][w] \in 0..NeverHeard
        OBVIOUS
      <3> QED
        BY <2>1, <3>1, <3>2 DEF NeverHeard, Stale
    <2> QED
      BY <2>2, <2>3
  <1>3. NewIsUninformed'
    BY <1>1
  <1>4. MemoryIsFresh'
    <2> SUFFICES ASSUME NEW d \in Coordinator, NEW w \in Worker \cap up,
                        lastSeen'[d][w] # NeverHeard, w \notin unread'[d]
                 PROVE  lastSeen'[d][w] <= quiet[w]
      BY <1>1
    <2>1. CASE d = c
      BY <1>2, <2>1
    <2>2. CASE d # c
      BY <1>1, <2>2
    <2> QED
      BY <2>1, <2>2
  <1>5. LiveWorkerNotReported'
    <2> SUFFICES ASSUME NEW d \in Coordinator \cap up, NEW w \in Worker \cap up,
                        lastSeen'[d][w] # NeverHeard, pc'[d] = "asleep", isLeader[d]
                 PROVE  w \in reported'[d]
      BY <1>1 DEF LiveWorkerNotReported
    <2>1. CASE d = c
      <3>1. reported'[c] = {x \in Worker : lastSeen'[c][x] <= HbTimeout}
        BY <2>1 DEF PollAndReport, AliveBy
      <3> QED
        BY <1>2, <2>1, <3>1
    <2>2. CASE d # c
      BY <1>1, <2>2 DEF LiveWorkerNotReported
    <2> QED
      BY <2>1, <2>2
  <1> QED
    BY <1>3, <1>4, <1>5

LEMMA HeartbeatInvTick ==
  ASSUME TypeOK, HeartbeatInv, Tick
  PROVE  HeartbeatInv'
  <1> USE TimingAssumption DEF HeartbeatInv, NewIsUninformed, MemoryIsFresh, TypeOK
  <1>1. ASSUME NEW c \in Coordinator, NEW w \in Worker
        PROVE  /\ lastSeen[c][w] \in 0..NeverHeard
               /\ lastSeen'[c][w] = Older(lastSeen[c][w])
    BY DEF Tick
  <1>2. \A age \in 0..NeverHeard :
          /\ Older(age) <= age + 1
          /\ (Older(age) = NeverHeard) <=> (age = NeverHeard)
    BY DEF Older, NeverHeard, Stale
  <1>3. \A w \in Worker \cap up : quiet'[w] = quiet[w] + 1
    BY DEF Tick
  <1>4. UNCHANGED <<up, unread, pc, isLeader, reported>>
    BY DEF Tick
  <1>5. NewIsUninformed'
    BY <1>1, <1>2, <1>4
  <1>6. MemoryIsFresh'
    <2> SUFFICES ASSUME NEW c \in Coordinator, NEW w \in Worker \cap up,
                        lastSeen'[c][w] # NeverHeard, w \notin unread[c]
                 PROVE  lastSeen'[c][w] <= quiet'[w]
      BY <1>4
    <2>1. lastSeen[c][w] <= quiet[w] /\ lastSeen'[c][w] <= lastSeen[c][w] + 1
      BY <1>1, <1>2
    <2>2. lastSeen'[c][w] \in Int /\ lastSeen[c][w] \in Int /\ quiet[w] \in Int
      BY <1>1 DEF Older, NeverHeard, Stale
    <2> QED
      BY <1>3, <2>1, <2>2
  <1>7. LiveWorkerNotReported'
    BY <1>1, <1>2, <1>4 DEF LiveWorkerNotReported
  <1> QED
    BY <1>5, <1>6, <1>7

LEMMA HeartbeatInvInductive == Spec => []HeartbeatInv
<1>1. Init => HeartbeatInv
  BY DEF Init, HeartbeatInv, NewIsUninformed, MemoryIsFresh, LiveWorkerNotReported
<1>2. TypeOK /\ HeartbeatInv /\ [Next]_vars => HeartbeatInv'
  <2> SUFFICES ASSUME TypeOK, HeartbeatInv, [Next]_vars PROVE HeartbeatInv'
    OBVIOUS
  <2> USE DEF HeartbeatInv, NewIsUninformed, MemoryIsFresh, LiveWorkerNotReported
  <2>1. ASSUME NEW c \in Coordinator, Subscribe(c) PROVE HeartbeatInv'
    BY <2>1 DEF Subscribe, viewVars, TypeOK
  <2>2. ASSUME NEW c \in Coordinator, TryAcquire(c) PROVE HeartbeatInv'
    BY <2>2 DEF TryAcquire, viewVars, TypeOK
  <2>3. ASSUME NEW c \in Coordinator, ReadHolder(c) PROVE HeartbeatInv'
    BY <2>3 DEF ReadHolder, viewVars, TypeOK
  <2>4. ASSUME NEW c \in Coordinator, Renew(c) PROVE HeartbeatInv'
    BY <2>4 DEF Renew, viewVars, TypeOK
  <2>5. ASSUME NEW w \in Worker, Heartbeat(w) PROVE HeartbeatInv'
    <3>1. /\ \A c \in Coordinator : pc[c] # "new" => unread'[c] = unread[c] \cup {w}
          /\ \A x \in Worker \ {w} : quiet'[x] = quiet[x]
          /\ UNCHANGED <<up, pc, isLeader, lastSeen, reported>>
      BY <2>5 DEF Heartbeat, coordinatorVars, viewVars, TypeOK
    <3> QED
      BY <3>1
  <2>6. ASSUME NEW p \in Coordinator \cup Worker, Crash(p) PROVE HeartbeatInv'
    BY <2>6 DEF Crash, coordinatorVars, viewVars
  <2>7. CASE UNCHANGED vars
    BY <2>7 DEF vars, coordinatorVars, viewVars
  <2> QED
    BY <2>1, <2>2, <2>3, <2>4, <2>5, <2>6, <2>7, HeartbeatInvPoll, HeartbeatInvTick DEF Next
<1> QED
  BY <1>1, <1>2, TypeCorrect, PTL DEF Spec

\* A worker that lives and has been heard is in the view of whoever leads, whatever
\* the delays within TimingAssumption: heartbeats are stamped when they are read, and
\* the cursor skips none (bus/redis_bus.py: poll; cluster_redis.py: _run_coordinator).
THEOREM LiveWorkersAreReported == Spec => []LiveWorkerNotReported
<1>1. HeartbeatInv => LiveWorkerNotReported
  BY DEF HeartbeatInv
<1> QED
  BY <1>1, HeartbeatInvInductive, PTL
=============================================================================
