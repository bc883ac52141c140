--------------------------- MODULE AtomicAssignment ---------------------------
(***************************************************************************)
(* What the vehicle store of drt_sim promises (store.py, the rules in its  *)
(* docstring): a booking is one atomic step of the vehicle's owner of that *)
(* moment, made on the route of that moment, and it is never taken back.   *)
(***************************************************************************)
CONSTANTS Node, Vehicle, Request, NoBooking

Booking == [by : Node, on : Vehicle]

VARIABLES owner,     \* the single writer of every vehicle
          route,     \* the requests every vehicle serves
          booking    \* request -> who booked it on which vehicle

vars == <<owner, route, booking>>

Init ==
  /\ owner \in [Vehicle -> Node]
  /\ route = [v \in Vehicle |-> {}]
  /\ booking = [r \in Request |-> NoBooking]

Book(v, r) ==
  /\ booking[r] = NoBooking
  /\ booking' = [booking EXCEPT ![r] = [by |-> owner[v], on |-> v]]
  /\ route' = [route EXCEPT ![v] = @ \cup {r}]
  /\ UNCHANGED owner

Migrate(v, n) ==
  /\ owner' = [owner EXCEPT ![v] = n]
  /\ UNCHANGED <<route, booking>>

Next ==
  \/ \E v \in Vehicle, r \in Request : Book(v, r)
  \/ \E v \in Vehicle, n \in Node : Migrate(v, n)

Spec == Init /\ [][Next]_vars
=============================================================================
