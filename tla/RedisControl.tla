----------------------------- MODULE RedisControl -----------------------------
(***************************************************************************)
(* The control plane over Redis (cluster_redis.py, bus/redis_bus.py):      *)
(* worker processes publish heartbeats to a stream, coordinator processes  *)
(* compete for a lease key with a time to live, read the stream each from  *)
(* a cursor of its own, and the one that holds the lease publishes a view. *)
(*                                                                         *)
(* Every command is one atomic step of the Redis server; between two of    *)
(* them any other process may run and time may pass.  Tick is one unit of  *)
(* time.  It is bounded by the punctuality the timeouts presuppose: a live *)
(* process is not held up for longer than MaxRound, MaxCall and MaxLag.    *)
(***************************************************************************)
EXTENDS Integers, FiniteSets

CONSTANTS Coordinator, Worker, Nobody,
          LeaseTtl,       \* lease_ttl_ms
          LeaseRenew,     \* lease_renew: a coordinator sleeps this long between two rounds
          HbInterval,     \* hb_interval: a worker sleeps this long between two heartbeats
          HbTimeout,      \* hb_timeout
          MaxRound,       \* longest time from one attempt at the lease to the next
          MaxCall,        \* longest time from the attempt to the end of the renewal
          MaxLag,         \* longest delay of a heartbeat beyond its interval
          MaxCrashes      \* bound: processes that crash or end

ASSUME TimingAssumption ==
  /\ {LeaseTtl, LeaseRenew, HbInterval, HbTimeout, MaxRound, MaxCall, MaxLag, MaxCrashes} \subseteq Nat
  /\ LeaseRenew > 0 /\ HbInterval > 0
  /\ LeaseRenew < MaxRound
  /\ MaxRound + MaxCall < LeaseTtl
  /\ HbInterval + MaxLag <= HbTimeout
  /\ Nobody \notin Coordinator

VARIABLES
  up,         \* processes that run
  crashes,    \* how many have crashed
  \* the Redis server
  key, ttl,   \* the lease: its value and the time it has left
  unread,     \* coordinator -> workers with a heartbeat beyond its cursor
  stream,     \* the last entry of cluster_view: who published whom as alive
  \* coordinators
  pc,         \* where in its round
  since,      \* time since its round began
  isLeader,   \* is_leader
  lastSeen,   \* worker -> time since its last heartbeat was read
  reported,   \* view["alive"]
  \* workers
  quiet       \* time since its last heartbeat

serverVars == <<key, ttl>>
coordinatorVars == <<pc, since, isLeader>>
viewVars == <<lastSeen, reported, stream>>
vars == <<up, crashes, serverVars, unread, coordinatorVars, viewVars, quiet>>

\* A heartbeat older than the timeout is as old as any; one never heard is told apart.
Stale == HbTimeout + 1
NeverHeard == HbTimeout + 2

Init ==
  /\ up = Coordinator \cup Worker
  /\ crashes = 0
  /\ key = Nobody /\ ttl = 0
  /\ unread = [c \in Coordinator |-> {}]
  /\ stream = [leader |-> Nobody, alive |-> {}]
  /\ pc = [c \in Coordinator |-> "new"]
  /\ since = [c \in Coordinator |-> 0]
  /\ isLeader = [c \in Coordinator |-> FALSE]
  /\ lastSeen = [c \in Coordinator |-> [w \in Worker |-> NeverHeard]]
  /\ reported = [c \in Coordinator |-> Worker]
  /\ quiet = [w \in Worker |-> HbInterval]

-----------------------------------------------------------------------------
(***************************************************************************)
(* Coordinators.                                                           *)
(***************************************************************************)
\* subscribe: the cursor is fixed at the end of the stream.
Subscribe(c) ==
  /\ c \in up /\ pc[c] = "new"
  /\ unread' = [unread EXCEPT ![c] = {}]
  /\ pc' = [pc EXCEPT ![c] = "asleep"]
  /\ since' = [since EXCEPT ![c] = LeaseRenew]
  /\ UNCHANGED <<up, crashes, serverVars, isLeader, viewVars, quiet>>

\* Mutant: SET without NX.
TryAcquireAnyway(c) ==
  /\ c \in up /\ pc[c] = "asleep" /\ since[c] >= LeaseRenew
  /\ since' = [since EXCEPT ![c] = 0]
  /\ key' = c /\ ttl' = LeaseTtl
  /\ isLeader' = [isLeader EXCEPT ![c] = TRUE]
  /\ pc' = [pc EXCEPT ![c] = "poll"]
  /\ UNCHANGED <<up, crashes, unread, viewVars, quiet>>

\* try_acquire, SET NX PX: takes the key if nobody holds it ...
TryAcquire(c) ==
  /\ c \in up /\ pc[c] = "asleep" /\ since[c] >= LeaseRenew
  /\ since' = [since EXCEPT ![c] = 0]
  /\ \/ /\ key = Nobody
        /\ key' = c /\ ttl' = LeaseTtl
        /\ isLeader' = [isLeader EXCEPT ![c] = TRUE]
        /\ pc' = [pc EXCEPT ![c] = "poll"]
     \/ /\ key # Nobody
        /\ pc' = [pc EXCEPT ![c] = "holder"]
        /\ UNCHANGED <<key, ttl, isLeader>>
  /\ UNCHANGED <<up, crashes, unread, viewVars, quiet>>

\* Mutant: the owner does not recognise its own lease.
ReadHolderForgetful(c) ==
  /\ c \in up /\ pc[c] = "holder"
  /\ pc' = [pc EXCEPT ![c] = "poll"]
  /\ isLeader' = [isLeader EXCEPT ![c] = FALSE]
  /\ UNCHANGED <<up, crashes, serverVars, unread, since, viewVars, quiet>>

\* ... GET: the owner goes on to renew ...
ReadHolder(c) ==
  /\ c \in up /\ pc[c] = "holder"
  /\ \/ /\ key = c
        /\ pc' = [pc EXCEPT ![c] = "renew"]
        /\ UNCHANGED isLeader
     \/ /\ key # c
        /\ pc' = [pc EXCEPT ![c] = "poll"]
        /\ isLeader' = [isLeader EXCEPT ![c] = FALSE]
  /\ UNCHANGED <<up, crashes, serverVars, unread, since, viewVars, quiet>>

\* Mutant: the renewal sets the key with no time to live, and it never expires.
RenewWithoutExpiry(c) ==
  /\ c \in up /\ pc[c] = "renew"
  /\ key' = c /\ ttl' = 0
  /\ isLeader' = [isLeader EXCEPT ![c] = TRUE]
  /\ pc' = [pc EXCEPT ![c] = "poll"]
  /\ UNCHANGED <<up, crashes, unread, since, viewVars, quiet>>

\* ... SET PX: with no regard to who holds the key by now.
Renew(c) ==
  /\ c \in up /\ pc[c] = "renew"
  /\ key' = c /\ ttl' = LeaseTtl
  /\ isLeader' = [isLeader EXCEPT ![c] = TRUE]
  /\ pc' = [pc EXCEPT ![c] = "poll"]
  /\ UNCHANGED <<up, crashes, unread, since, viewVars, quiet>>

\* The heartbeats read are stamped with the time of reading, not of sending.
Heard(c) == [w \in Worker |-> IF w \in unread[c] THEN 0 ELSE lastSeen[c][w]]

\* Mutant: a heartbeat once heard never grows old.
AliveOnceHeard(seen) == {w \in Worker : seen[w] # NeverHeard}

AliveBy(seen) == {w \in Worker : seen[w] <= HbTimeout}

\* poll, then the leader judges the workers and publishes a view that has changed.
PollAndReport(c) ==
  /\ c \in up /\ pc[c] = "poll"
  /\ lastSeen' = [lastSeen EXCEPT ![c] = Heard(c)]
  /\ unread' = [unread EXCEPT ![c] = {}]
  /\ pc' = [pc EXCEPT ![c] = "asleep"]
  /\ IF isLeader[c]
     THEN /\ reported' = [reported EXCEPT ![c] = AliveBy(Heard(c))]
          /\ stream' = IF AliveBy(Heard(c)) = reported[c]
                       THEN stream
                       ELSE [leader |-> c, alive |-> AliveBy(Heard(c))]
     ELSE UNCHANGED <<reported, stream>>
  /\ UNCHANGED <<up, crashes, serverVars, since, isLeader, quiet>>

-----------------------------------------------------------------------------
(***************************************************************************)
(* Workers, crashes, time.                                                 *)
(***************************************************************************)
\* Mutant: the cursor is "$" at every poll, so entries between two polls are lost.
HeartbeatMissed(w) ==
  /\ w \in up /\ quiet[w] >= HbInterval
  /\ quiet' = [quiet EXCEPT ![w] = 0]
  /\ unread' = [c \in Coordinator |-> IF pc[c] = "poll" THEN unread[c] \cup {w} ELSE unread[c]]
  /\ UNCHANGED <<up, crashes, serverVars, coordinatorVars, viewVars>>

\* XADD: every coordinator that has subscribed will find the entry.
Heartbeat(w) ==
  /\ w \in up /\ quiet[w] >= HbInterval
  /\ quiet' = [quiet EXCEPT ![w] = 0]
  /\ unread' = [c \in Coordinator |-> IF pc[c] = "new" THEN {} ELSE unread[c] \cup {w}]
  /\ UNCHANGED <<up, crashes, serverVars, coordinatorVars, viewVars>>

\* A process is terminated, or its duration is over.
Crash(p) ==
  /\ p \in up /\ crashes < MaxCrashes
  /\ up' = up \ {p}
  /\ crashes' = crashes + 1
  /\ UNCHANGED <<serverVars, unread, coordinatorVars, viewVars, quiet>>

\* Time must not pass while one of these is overdue.
Punctual ==
  /\ \A c \in Coordinator \cap up : pc[c] # "new" =>
       /\ since[c] < MaxRound
       /\ pc[c] \in {"holder", "renew"} => since[c] < MaxCall
  /\ \A w \in Worker \cap up : quiet[w] < HbInterval + MaxLag

Older(age) == IF age < Stale THEN age + 1 ELSE age

Tick ==
  /\ Punctual
  /\ ttl' = IF ttl = 0 THEN 0 ELSE ttl - 1
  /\ key' = IF ttl <= 1 THEN Nobody ELSE key
  /\ since' = [c \in Coordinator |->
                 IF c \in up /\ pc[c] # "new" THEN since[c] + 1 ELSE since[c]]
  /\ lastSeen' = [c \in Coordinator |-> [w \in Worker |-> Older(lastSeen[c][w])]]
  /\ quiet' = [w \in Worker |-> IF w \in up THEN quiet[w] + 1 ELSE quiet[w]]
  /\ UNCHANGED <<up, crashes, unread, pc, isLeader, reported, stream>>

Next ==
  \/ \E c \in Coordinator :
       Subscribe(c) \/ TryAcquire(c) \/ ReadHolder(c) \/ Renew(c) \/ PollAndReport(c)
  \/ \E w \in Worker : Heartbeat(w)
  \/ \E p \in Coordinator \cup Worker : Crash(p)
  \/ Tick

Spec == Init /\ [][Next]_vars

\* Time passes, and a process that has not crashed goes on.
Fairness ==
  /\ WF_vars(Tick)
  /\ \A c \in Coordinator :
       WF_vars(Subscribe(c) \/ TryAcquire(c) \/ ReadHolder(c) \/ Renew(c) \/ PollAndReport(c))
  /\ \A w \in Worker : WF_vars(Heartbeat(w))

FairSpec == Spec /\ Fairness

-----------------------------------------------------------------------------
(***************************************************************************)
(* Properties.                                                             *)
(***************************************************************************)
TypeOK ==
  /\ up \subseteq Coordinator \cup Worker
  /\ crashes \in 0..MaxCrashes
  /\ key \in Coordinator \cup {Nobody}
  /\ ttl \in 0..LeaseTtl
  /\ (key = Nobody) <=> (ttl = 0)
  /\ unread \in [Coordinator -> SUBSET Worker]
  /\ stream \in [leader : Coordinator \cup {Nobody}, alive : SUBSET Worker]
  /\ pc \in [Coordinator -> {"new", "asleep", "holder", "renew", "poll"}]
  /\ since \in [Coordinator -> 0..MaxRound]
  /\ isLeader \in [Coordinator -> BOOLEAN]
  /\ lastSeen \in [Coordinator -> [Worker -> 0..NeverHeard]]
  /\ reported \in [Coordinator -> SUBSET Worker]
  /\ quiet \in [Worker -> 0..(HbInterval + MaxLag)]

\* At most one live coordinator takes itself for the leader, at every moment and
\* not only when it looks at the key: is_leader is remembered over the poll, the
\* report and the sleep, and the renewal reads and writes in two commands.
OneLeader ==
  \A c, d \in Coordinator \cap up : isLeader[c] /\ isLeader[d] => c = d

\* A leader that lives is never deposed, and nobody else publishes a view.
LeaderStays ==
  [][/\ \A c \in Coordinator : isLeader[c] /\ c \in up' => isLeader'[c]
     /\ stream' # stream => key = stream'.leader]_vars

\* A live worker that a coordinator has heard is never reported down: no heartbeat
\* is skipped between two reads of the stream.
LiveWorkerNotReported ==
  \A c \in Coordinator \cap up, w \in Worker \cap up :
    lastSeen[c][w] # NeverHeard /\ pc[c] = "asleep" /\ isLeader[c] => w \in reported[c]

\* When the crashes are over a live coordinator leads for good, and its view is
\* the truth: it took over an expired lease, and found every dead worker.
ViewBecomesTrue ==
  (\E c \in Coordinator : [](c \in up)) =>
    <>[](\E c \in Coordinator \cap up : isLeader[c] /\ key = c /\ reported[c] = Worker \cap up)
=============================================================================
