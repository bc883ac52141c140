----------------------------- MODULE AsyncRuntime -----------------------------
(***************************************************************************)
(* AsyncioRuntime (async_runtime.py): the same interface on an asyncio     *)
(* event loop.  Time is real, so calls run late and those that are due run *)
(* in any order; a task takes all it can get before it suspends again.     *)
(* A "step" is what resumes a task: its start, the end of its sleep, or    *)
(* the wake-up of its Queue.get.                                           *)
(***************************************************************************)
EXTENDS ActorRuntime

\* Real time passes whether or not due calls have run.
TimePasses ==
  /\ \E i \in DOMAIN agenda : agenda[i].due > 0
  /\ agenda' = [i \in DOMAIN agenda |->
                  [agenda[i] EXCEPT !.due = IF @ = 0 THEN 0 ELSE @ - 1]]
  /\ UNCHANGED <<alive, running, waiting, inbox, published, got, incarnation>>

\* The i-th pending call is due.
DueAt(i, run) == i \in DOMAIN agenda /\ agenda[i].due = 0 /\ agenda[i].run = run

\* Mutant: put_nowait leaves a waiting get asleep.
RunDeliverySilent(i) ==
  /\ DueAt(i, "deliver")
  /\ inbox' = IF alive[agenda[i].actor]
              THEN [inbox EXCEPT ![agenda[i].actor] = Append(@, agenda[i].msg)]
              ELSE inbox
  /\ agenda' = RemoveAt(agenda, i)
  /\ UNCHANGED <<alive, running, waiting, published, got, incarnation>>

\* deliver: put_nowait leaves the message in the queue and wakes a waiting get.
RunDelivery(i) ==
  /\ DueAt(i, "deliver")
  /\ LET a == agenda[i].actor
     IN  \/ /\ ~alive[a]
            /\ agenda' = RemoveAt(agenda, i)
            /\ UNCHANGED <<waiting, inbox>>
         \/ /\ alive[a] /\ ~waiting[a]
            /\ inbox' = [inbox EXCEPT ![a] = Append(@, agenda[i].msg)]
            /\ agenda' = RemoveAt(agenda, i)
            /\ UNCHANGED waiting
         \/ /\ alive[a] /\ waiting[a]
            /\ waiting' = [waiting EXCEPT ![a] = FALSE]
            /\ inbox' = [inbox EXCEPT ![a] = Append(@, agenda[i].msg)]
            /\ agenda' = ScheduleAt(RemoveAt(agenda, i), StepOf(a, NoMessage, 0))
  /\ UNCHANGED <<alive, running, published, got, incarnation>>

\* The task gets what its queue holds ...
TakesAll(a) ==
  /\ got' = [got EXCEPT ![a] = @ \o inbox[a]]
  /\ inbox' = [inbox EXCEPT ![a] = <<>>]

\* ... and blocks in the next get ...
StepToRecv(i) ==
  /\ DueAt(i, "step")
  /\ agenda[i].actor \in Receiver
  /\ TakesAll(agenda[i].actor)
  /\ waiting' = [waiting EXCEPT ![agenda[i].actor] = TRUE]
  /\ agenda' = RemoveAt(agenda, i)
  /\ UNCHANGED <<alive, running, published, incarnation>>

\* ... or sleeps ...
StepToSleep(i) ==
  /\ DueAt(i, "step")
  /\ agenda[i].actor \in Poller
  /\ TakesAll(agenda[i].actor)
  /\ \E dt \in SleepTime :
       agenda' = ScheduleAt(RemoveAt(agenda, i), StepOf(agenda[i].actor, NoMessage, dt))
  /\ UNCHANGED <<alive, running, waiting, published, incarnation>>

\* ... or ends.
StepToEnd(i) ==
  /\ DueAt(i, "step")
  /\ agenda[i].actor \in Poller
  /\ running' = [running EXCEPT ![agenda[i].actor] = FALSE]
  /\ agenda' = RemoveAt(agenda, i)
  /\ UNCHANGED <<alive, waiting, inbox, published, got, incarnation>>

\* Mutant: the task is forgotten and not cancelled.
StoppedUncancelled(a, pending) ==
  /\ alive' = [alive EXCEPT ![a] = FALSE]
  /\ running' = [running EXCEPT ![a] = FALSE]
  /\ waiting' = [waiting EXCEPT ![a] = FALSE]
  /\ inbox' = [inbox EXCEPT ![a] = <<>>]
  /\ agenda' = pending

\* The pending calls without the one that would resume the task of a.
Cancelled(pending, a) ==
  LET steps == {i \in DOMAIN pending : pending[i].run = "step" /\ pending[i].actor = a}
  IN  IF steps = {} THEN pending ELSE RemoveAt(pending, CHOOSE i \in steps : TRUE)

\* kill: the task is cancelled, so nothing resumes it, and its queue drained.
Stopped(a, pending) ==
  /\ alive' = [alive EXCEPT ![a] = FALSE]
  /\ running' = [running EXCEPT ![a] = FALSE]
  /\ waiting' = [waiting EXCEPT ![a] = FALSE]
  /\ inbox' = [inbox EXCEPT ![a] = <<>>]
  /\ agenda' = Cancelled(pending, a)

Kill(a) ==
  /\ alive[a]
  /\ Stopped(a, agenda)
  /\ UNCHANGED <<published, got, incarnation>>

RunFault(i) ==
  /\ DueAt(i, "kill")
  /\ LET a == agenda[i].actor
     IN  IF alive[a]
         THEN Stopped(a, RemoveAt(agenda, i))
         ELSE /\ agenda' = RemoveAt(agenda, i)
              /\ UNCHANGED <<alive, running, waiting, inbox>>
  /\ UNCHANGED <<published, got, incarnation>>

\* A new context with a queue of its own, and a new task.
Spawn(a) ==
  /\ ~alive[a] /\ incarnation[a] < MaxIncarnations
  /\ alive' = [alive EXCEPT ![a] = TRUE]
  /\ running' = [running EXCEPT ![a] = TRUE]
  /\ inbox' = [inbox EXCEPT ![a] = <<>>]
  /\ agenda' = ScheduleAt(agenda, StepOf(a, NoMessage, 0))
  /\ got' = [got EXCEPT ![a] = <<>>]
  /\ incarnation' = [incarnation EXCEPT ![a] = @ + 1]
  /\ UNCHANGED <<waiting, published>>

RunStep(i) == StepToRecv(i) \/ StepToSleep(i) \/ StepToEnd(i)

Next ==
  \/ \E i \in DOMAIN agenda : RunDelivery(i) \/ RunStep(i) \/ RunFault(i)
  \/ TimePasses
  \/ \E m \in Message, a \in Actor, l \in Latency : Publish(m, a, l)
  \/ \E a \in Actor : Kill(a) \/ Spawn(a)

Spec == Init /\ [][Next]_vars

\* The loop runs every task and every call that is due, and time passes.
Fairness ==
  /\ WF_vars(TimePasses)
  /\ \A a \in Actor : WF_vars(\E i \in StepsOf(a) : RunStep(i))
  /\ \A m \in Message : WF_vars(\E i \in DOMAIN agenda : agenda[i].msg = m /\ RunDelivery(i))
=============================================================================
