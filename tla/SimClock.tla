------------------------------- MODULE SimClock -------------------------------
(***************************************************************************)
(* Runtime (sim_clock.py): virtual time, one heap of calls, coroutines     *)
(* driven by hand.  The first call of the heap runs when it is due; the    *)
(* clock moves only when none is due.                                      *)
(***************************************************************************)
EXTENDS ActorRuntime

\* run_until: no call is due, the clock moves on.
ClockAdvances ==
  /\ agenda # <<>> /\ Head(agenda).due > 0
  /\ agenda' = [i \in DOMAIN agenda |-> [agenda[i] EXCEPT !.due = @ - 1]]
  /\ UNCHANGED <<alive, running, waiting, inbox, published, got, incarnation>>

Due(run) == agenda # <<>> /\ Head(agenda).due = 0 /\ Head(agenda).run = run

\* Mutant: the message an actor is woken with stays in its inbox.
RunDeliveryKeeps ==
  /\ Due("deliver")
  /\ LET call == Head(agenda)
         a    == call.actor
         box  == Append(inbox[a], call.msg)
     IN  \/ /\ ~alive[a]
            /\ agenda' = Tail(agenda)
            /\ UNCHANGED <<waiting, inbox>>
         \/ /\ alive[a] /\ ~waiting[a]
            /\ inbox' = [inbox EXCEPT ![a] = box]
            /\ agenda' = Tail(agenda)
            /\ UNCHANGED waiting
         \/ /\ alive[a] /\ waiting[a]
            /\ waiting' = [waiting EXCEPT ![a] = FALSE]
            /\ inbox' = [inbox EXCEPT ![a] = box]
            /\ agenda' = ScheduleAt(Tail(agenda), StepOf(a, Head(box), 0))
  /\ UNCHANGED <<alive, running, published, got, incarnation>>

\* deliver: dropped for the dead; an actor that waits is woken with the oldest message.
RunDelivery ==
  /\ Due("deliver")
  /\ LET call == Head(agenda)
         a    == call.actor
         box  == Append(inbox[a], call.msg)
     IN  \/ /\ ~alive[a]
            /\ agenda' = Tail(agenda)
            /\ UNCHANGED <<waiting, inbox>>
         \/ /\ alive[a] /\ ~waiting[a]
            /\ inbox' = [inbox EXCEPT ![a] = box]
            /\ agenda' = Tail(agenda)
            /\ UNCHANGED waiting
         \/ /\ alive[a] /\ waiting[a]
            /\ waiting' = [waiting EXCEPT ![a] = FALSE]
            /\ inbox' = [inbox EXCEPT ![a] = Tail(box)]
            /\ agenda' = ScheduleAt(Tail(agenda), StepOf(a, Head(box), 0))
  /\ UNCHANGED <<alive, running, published, got, incarnation>>

Handed(call) == IF call.msg = NoMessage THEN <<>> ELSE <<call.msg>>

\* _step of a dead actor or of a coroutine that has ended.
SkipStep ==
  /\ Due("step")
  /\ ~alive[Head(agenda).actor] \/ ~running[Head(agenda).actor]
  /\ agenda' = Tail(agenda)
  /\ UNCHANGED <<alive, running, waiting, inbox, published, got, incarnation>>

\* Mutant: recv waits without a look at the inbox.
StepToRecvBlind ==
  /\ Due("step")
  /\ LET a == Head(agenda).actor
     IN  /\ a \in Receiver /\ alive[a] /\ running[a]
         /\ got' = [got EXCEPT ![a] = @ \o Handed(Head(agenda))]
         /\ waiting' = [waiting EXCEPT ![a] = TRUE]
         /\ agenda' = Tail(agenda)
  /\ UNCHANGED <<alive, running, inbox, published, incarnation>>

\* The coroutine runs to its next recv: the oldest message, if there is one, comes
\* back as a step of its own.
StepToRecv ==
  /\ Due("step")
  /\ LET a == Head(agenda).actor
     IN  /\ a \in Receiver /\ alive[a] /\ running[a]
         /\ got' = [got EXCEPT ![a] = @ \o Handed(Head(agenda))]
         /\ \/ /\ inbox[a] # <<>>
               /\ inbox' = [inbox EXCEPT ![a] = Tail(@)]
               /\ agenda' = ScheduleAt(Tail(agenda), StepOf(a, Head(inbox[a]), 0))
               /\ UNCHANGED waiting
            \/ /\ inbox[a] = <<>>
               /\ waiting' = [waiting EXCEPT ![a] = TRUE]
               /\ agenda' = Tail(agenda)
               /\ UNCHANGED inbox
  /\ UNCHANGED <<alive, running, published, incarnation>>

\* The coroutine drains its inbox with try_recv and sleeps.
StepToSleep ==
  /\ Due("step")
  /\ LET a == Head(agenda).actor
     IN  /\ a \in Poller /\ alive[a] /\ running[a]
         /\ got' = [got EXCEPT ![a] = @ \o Handed(Head(agenda)) \o inbox[a]]
         /\ inbox' = [inbox EXCEPT ![a] = <<>>]
         /\ \E dt \in SleepTime : agenda' = ScheduleAt(Tail(agenda), StepOf(a, NoMessage, dt))
  /\ UNCHANGED <<alive, running, waiting, published, incarnation>>

\* The coroutine returns (the gateway at the end of its run).
StepToEnd ==
  /\ Due("step")
  /\ LET a == Head(agenda).actor
     IN  /\ a \in Poller /\ alive[a] /\ running[a]
         /\ running' = [running EXCEPT ![a] = FALSE]
         /\ agenda' = Tail(agenda)
  /\ UNCHANGED <<alive, waiting, inbox, published, got, incarnation>>

\* kill: the inbox is emptied and the coroutine dropped, its pending step stays.
Stopped(a) ==
  /\ alive' = [alive EXCEPT ![a] = FALSE]
  /\ running' = [running EXCEPT ![a] = FALSE]
  /\ waiting' = [waiting EXCEPT ![a] = FALSE]
  /\ inbox' = [inbox EXCEPT ![a] = <<>>]

Kill(a) ==
  /\ alive[a]
  /\ Stopped(a)
  /\ UNCHANGED <<agenda, published, got, incarnation>>

\* A scheduled fault kills its target if it still lives.
RunFault ==
  /\ Due("kill")
  /\ agenda' = Tail(agenda)
  /\ LET a == Head(agenda).actor
     IN  IF alive[a] THEN Stopped(a) ELSE UNCHANGED <<alive, running, waiting, inbox>>
  /\ UNCHANGED <<published, got, incarnation>>

Spawn(a) ==
  /\ ~alive[a] /\ incarnation[a] < MaxIncarnations
  /\ alive' = [alive EXCEPT ![a] = TRUE]
  /\ running' = [running EXCEPT ![a] = TRUE]
  /\ agenda' = ScheduleAt(agenda, StepOf(a, NoMessage, 0))
  /\ got' = [got EXCEPT ![a] = <<>>]
  /\ incarnation' = [incarnation EXCEPT ![a] = @ + 1]
  /\ UNCHANGED <<waiting, inbox, published>>

RunUntil == RunDelivery \/ SkipStep \/ StepToRecv \/ StepToSleep \/ StepToEnd \/ RunFault

Next ==
  \/ RunUntil
  \/ ClockAdvances
  \/ \E m \in Message, a \in Actor, l \in Latency : Publish(m, a, l)
  \/ \E a \in Actor : Kill(a) \/ Spawn(a)

Spec == Init /\ [][Next]_vars

\* run_until goes on, and so does the clock.
Fairness == WF_vars(RunUntil) /\ WF_vars(ClockAdvances)

FairSpec == Spec /\ Fairness
=============================================================================
