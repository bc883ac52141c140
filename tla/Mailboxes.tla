------------------------------- MODULE Mailboxes -------------------------------
(***************************************************************************)
(* What a runtime of drt_sim promises its actors (sim_clock.py, and        *)
(* async_runtime.py as its drop-in replacement): a message delivered to a  *)
(* live actor is handed to it once and in the order of delivery; an actor  *)
(* that is killed gets nothing more, and one that is spawned starts with   *)
(* an empty mailbox.                                                       *)
(***************************************************************************)
EXTENDS Naturals, Sequences

CONSTANTS Actor, Message

VARIABLES alive,     \* actor -> is it running
          mailbox,   \* actor -> messages delivered and not handed over
          got        \* actor -> messages handed to its present incarnation

vars == <<alive, mailbox, got>>

Init ==
  /\ alive \in [Actor -> BOOLEAN]
  /\ mailbox = [a \in Actor |-> <<>>]
  /\ got = [a \in Actor |-> <<>>]

Deliver(a, m) ==
  /\ alive[a]
  /\ mailbox' = [mailbox EXCEPT ![a] = Append(@, m)]
  /\ UNCHANGED <<alive, got>>

\* An actor takes the n oldest messages.
Receive(a, n) ==
  /\ alive[a]
  /\ got' = [got EXCEPT ![a] = @ \o SubSeq(mailbox[a], 1, n)]
  /\ mailbox' = [mailbox EXCEPT ![a] = SubSeq(@, n + 1, Len(@))]
  /\ UNCHANGED alive

Kill(a) ==
  /\ alive[a]
  /\ alive' = [alive EXCEPT ![a] = FALSE]
  /\ mailbox' = [mailbox EXCEPT ![a] = <<>>]
  /\ UNCHANGED got

Spawn(a) ==
  /\ ~alive[a]
  /\ alive' = [alive EXCEPT ![a] = TRUE]
  /\ got' = [got EXCEPT ![a] = <<>>]
  /\ UNCHANGED mailbox

Next ==
  \E a \in Actor :
    \/ \E m \in Message : Deliver(a, m)
    \/ \E n \in 1..Len(mailbox[a]) : Receive(a, n)
    \/ Kill(a)
    \/ Spawn(a)

Spec == Init /\ [][Next]_vars
=============================================================================
