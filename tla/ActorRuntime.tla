----------------------------- MODULE ActorRuntime -----------------------------
(***************************************************************************)
(* What the two runtimes of drt_sim have in common: the actors, the        *)
(* messages on their way, and what must hold on either runtime.  SimClock  *)
(* is the virtual-time runtime, AsyncRuntime the one on asyncio.           *)
(*                                                                         *)
(* A pending call (a coroutine to step, a message to deliver, a fault to   *)
(* apply) is a record of `agenda` with the time left until it is due.      *)
(***************************************************************************)
EXTENDS Integers, Sequences, FiniteSets, SequencesExt

CONSTANTS Receiver,        \* actors that loop on recv (MetricsActor)
          Poller,          \* actors that drain with try_recv and sleep (all others)
          InitialActors,   \* actors the cluster spawns before the runtime runs
          Message,
          Latency,         \* delays of the bus
          SleepTime,       \* what pollers sleep
          FaultTime,       \* when an injected fault is due; the config allows any number
          MaxIncarnations, \* bound: how often one id is spawned
          NoMessage

Actor == Receiver \cup Poller

ASSUME RuntimeAssumption ==
  /\ Receiver \cap Poller = {}
  /\ InitialActors \subseteq Actor /\ IsFiniteSet(InitialActors)
  /\ Latency \subseteq Nat
  /\ SleepTime \subseteq Nat \ {0}
  /\ FaultTime \subseteq Int
  /\ MaxIncarnations \in Nat \ {0}
  /\ NoMessage \notin Message

VARIABLES alive,         \* _alive
          running,       \* the actor's coroutine has not ended
          waiting,       \* blocked in recv on an empty inbox
          inbox,
          agenda,        \* pending calls in the order of (time, seq)
          published,     \* messages the bus has taken
          got,           \* history: what each incarnation was handed
          incarnation    \* history and bound: how often each id was spawned

vars == <<alive, running, waiting, inbox, agenda, published, got, incarnation>>

Call(due, run, a, m) == [due |-> due, run |-> run, actor |-> a, msg |-> m]

StepOf(a, m, due) == Call(due, "step", a, m)

\* Mutant: the call goes to the end of the queue whenever it is due.
ScheduleLast(pending, call) == Append(pending, call)

\* Schedule a call after all that are due no later; a time in the past is now.
ScheduleAt(pending, call) ==
  LET at    == IF call.due < 0 THEN 0 ELSE call.due
      later == {i \in DOMAIN pending : pending[i].due > at}
      place == IF later = {} THEN Len(pending) + 1 ELSE CHOOSE i \in later : \A j \in later : i <= j
  IN  InsertAt(pending, place, [call EXCEPT !.due = at])

\* The first steps of the actors that the cluster spawns, and at most one fault.
Init ==
  /\ alive = [a \in Actor |-> a \in InitialActors]
  /\ running = alive
  /\ waiting = [a \in Actor |-> FALSE]
  /\ inbox = [a \in Actor |-> <<>>]
  /\ \E order \in SetToSeqs(InitialActors) :
       LET spawned == [i \in DOMAIN order |-> StepOf(order[i], NoMessage, 0)]
       IN  agenda \in {spawned}
             \cup {ScheduleAt(spawned, Call(at, "kill", a, NoMessage)) : at \in FaultTime, a \in Poller}
  /\ published = {}
  /\ got = [a \in Actor |-> <<>>]
  /\ incarnation = [a \in Actor |-> IF a \in InitialActors THEN 1 ELSE 0]

\* The bus takes a message and schedules its delivery.
Publish(m, a, latency) ==
  /\ m \notin published
  /\ published' = published \cup {m}
  /\ agenda' = ScheduleAt(agenda, Call(latency, "deliver", a, m))
  /\ UNCHANGED <<alive, running, waiting, inbox, got, incarnation>>

-----------------------------------------------------------------------------
(***************************************************************************)
(* Properties of either runtime.                                           *)
(***************************************************************************)
\* Pending calls are kept in the order of their time, none of them in the past.
TypeOK ==
  /\ alive \in [Actor -> BOOLEAN]
  /\ running \in [Actor -> BOOLEAN]
  /\ waiting \in [Actor -> BOOLEAN]
  /\ \A a \in Actor : ToSet(inbox[a]) \cup ToSet(got[a]) \subseteq published
  /\ published \subseteq Message
  /\ incarnation \in [Actor -> 0..MaxIncarnations]
  /\ \A i \in DOMAIN agenda :
       /\ agenda[i] \in [due : Nat, run : {"step", "deliver", "kill"}, actor : Actor,
                         msg : Message \cup {NoMessage}]
       /\ i > 1 => agenda[i - 1].due <= agenda[i].due

StepsOf(a) == {i \in DOMAIN agenda : agenda[i].run = "step" /\ agenda[i].actor = a}

\* A live actor whose coroutine has not ended is resumed by exactly one thing: one
\* pending step, or the next message if it waits in recv.  Two would step a
\* coroutine twice for one await, none would leave it asleep for ever.
OneResumption ==
  \A a \in Actor : alive[a] /\ running[a] =>
    IF waiting[a] THEN StepsOf(a) = {} ELSE \E i \in StepsOf(a) : StepsOf(a) = {i}

\* No lost wake-up: an actor waits in recv only while its inbox is empty.
WaitingMeansEmpty == \A a \in Actor : waiting[a] => alive[a] /\ running[a] /\ inbox[a] = <<>>

\* Either runtime implements the mailboxes: once each, in order, and never to an
\* actor that was killed.  A message in a pending step counts as not handed over.
Carried(a) ==
  LET calls == {i \in StepsOf(a) : agenda[i].msg # NoMessage}
  IN  IF calls = {} THEN <<>> ELSE <<agenda[CHOOSE i \in calls : TRUE].msg>>

MailboxOf(a) == IF alive[a] THEN Carried(a) \o inbox[a] ELSE <<>>

Promised == INSTANCE Mailboxes WITH mailbox <- [a \in Actor |-> MailboxOf(a)]

ImplementsMailboxes == Promised!Spec

\* Every message a live actor is given is handed to it in the end, unless it is
\* killed or returns first.
EventuallyReceived ==
  \A a \in Actor, m \in Message :
    m \in ToSet(MailboxOf(a)) ~> m \in ToSet(got[a]) \/ ~alive[a] \/ ~running[a]
=============================================================================
