-------------------------- MODULE VehicleStore_proofs --------------------------
(***************************************************************************)
(* Proofs about module VehicleStore, for every number of workers, vehicles *)
(* and requests and every number of migrations.                            *)
(***************************************************************************)
EXTENDS VehicleStore, TLAPS

-----------------------------------------------------------------------------
(***************************************************************************)
(* The inductive invariant: a plan's version is never ahead of its         *)
(* vehicle's, and as long as the two agree nothing that the plan was made  *)
(* from has changed.                                                       *)
(***************************************************************************)
PlanIsFaithful(r) ==
  LET p == plan[r]
      v == vehicles[p.vehicle]
  IN  /\ p.expected_version <= v.version
      /\ p.expected_version = v.version =>
           /\ p.by = v.owner_node
           /\ p.new_route = v.route \cup {r}
           /\ p.since = migrations[p.vehicle]

PlansAreFaithful ==
  \A r \in Request :
    plan[r] # NoPlan => booking[r] = NoBooking /\ PlanIsFaithful(r)

StoreInv ==
  /\ TypeOK
  /\ replica = vehicles
  /\ PlansAreFaithful
  /\ NoLostAssignment

LEMMA InitStoreInv == Init => StoreInv
<1> SUFFICES ASSUME Init PROVE StoreInv
  OBVIOUS
<1> USE StoreAssumption DEF Init
<1>1. PICK owner \in [Vehicle -> Node] :
        vehicles = [v \in Vehicle |-> [owner_node |-> owner[v], version |-> 0, route |-> {}]]
  OBVIOUS
<1>2. TypeOK
  BY <1>1 DEF TypeOK, VehicleState
<1>3. PlansAreFaithful
  BY DEF PlansAreFaithful
<1>4. NoLostAssignment
  BY <1>1 DEF NoLostAssignment
<1>5. QED
  BY <1>2, <1>3, <1>4 DEF StoreInv

-----------------------------------------------------------------------------
LEMMA PlanKeepsInv ==
  ASSUME StoreInv, NEW n \in Node, NEW v \in Vehicle, NEW r \in Request, Plan(n, v, r)
  PROVE  StoreInv'
<1> DEFINE p == [by |-> n, vehicle |-> v, expected_version |-> vehicles[v].version,
                 new_route |-> vehicles[v].route \cup {r}, since |-> migrations[v]]
<1> USE DEF StoreInv
<1>1. /\ vehicles[v] \in VehicleState /\ migrations[v] \in Nat
      /\ vehicles[v].version \in Nat /\ vehicles[v].route \subseteq Request
  BY DEF TypeOK, VehicleState
<1>2. p \in InsertionPlan
  BY <1>1 DEF InsertionPlan
<1>3. plan' = [plan EXCEPT ![r] = p]
  BY DEF Plan
<1>4. TypeOK'
  BY <1>2, <1>3 DEF Plan, TypeOK
<1>5. PlanIsFaithful(r)'
  BY <1>1, <1>3 DEF Plan, PlanIsFaithful, TypeOK
<1>6. PlansAreFaithful'
  <2> SUFFICES ASSUME NEW q \in Request, plan'[q] # NoPlan
               PROVE  booking'[q] = NoBooking /\ PlanIsFaithful(q)'
    BY DEF PlansAreFaithful
  <2>1. CASE q = r
    BY <2>1, <1>3, <1>5 DEF Plan, TypeOK
  <2>2. CASE q # r
    <3>1. plan'[q] = plan[q]
      BY <2>2, <1>3 DEF TypeOK
    <3>2. booking[q] = NoBooking /\ PlanIsFaithful(q)
      BY <3>1 DEF PlansAreFaithful
    <3>3. QED
      BY <3>1, <3>2 DEF Plan, PlanIsFaithful
  <2>3. QED
    BY <2>1, <2>2
<1>7. QED
  BY <1>4, <1>6 DEF Plan, NoLostAssignment

\* What a commit that is accepted finds and leaves.
LEMMA CommitFacts ==
  ASSUME StoreInv, NEW r \in Request, Commit(r)
  PROVE  LET p == plan[r]
         IN  /\ p \in InsertionPlan /\ p.vehicle \in Vehicle
             /\ booking[r] = NoBooking
             /\ p.by = vehicles[p.vehicle].owner_node
             /\ p.since = migrations[p.vehicle]
             /\ vehicles' = [vehicles EXCEPT ![p.vehicle] =
                  [owner_node |-> vehicles[p.vehicle].owner_node,
                   version |-> vehicles[p.vehicle].version + 1,
                   route |-> vehicles[p.vehicle].route \cup {r}]]
             /\ replica' = vehicles'
             /\ booking' = [booking EXCEPT ![r] =
                  [by |-> vehicles[p.vehicle].owner_node, on |-> p.vehicle]]
             /\ plan' = [plan EXCEPT ![r] = NoPlan]
             /\ migrations' = migrations
<1> DEFINE p == plan[r]
<1> USE DEF StoreInv
<1>1. p \in InsertionPlan /\ p.vehicle \in Vehicle
  BY DEF Commit, TypeOK, InsertionPlan
<1>2. p # NoPlan /\ Accepts(p)
  BY DEF Commit
<1>3. booking[r] = NoBooking /\ PlanIsFaithful(r)
  BY <1>2 DEF PlansAreFaithful
<1>4. /\ p.by = vehicles[p.vehicle].owner_node
      /\ p.new_route = vehicles[p.vehicle].route \cup {r}
      /\ p.since = migrations[p.vehicle]
  BY <1>2, <1>3 DEF Accepts, PlanIsFaithful
<1>5. QED
  BY <1>1, <1>3, <1>4 DEF Commit, Write

LEMMA CommitKeepsInv ==
  ASSUME StoreInv, NEW r \in Request, Commit(r)
  PROVE  StoreInv'
<1> DEFINE u == plan[r].vehicle
           state == [owner_node |-> vehicles[u].owner_node,
                     version |-> vehicles[u].version + 1,
                     route |-> vehicles[u].route \cup {r}]
<1> USE StoreAssumption DEF StoreInv
<1>1. /\ u \in Vehicle
      /\ booking[r] = NoBooking
      /\ vehicles' = [vehicles EXCEPT ![u] = state]
      /\ replica' = vehicles'
      /\ booking' = [booking EXCEPT ![r] = [by |-> vehicles[u].owner_node, on |-> u]]
      /\ plan' = [plan EXCEPT ![r] = NoPlan]
      /\ migrations' = migrations
  BY CommitFacts
<1>2. /\ vehicles[u] \in VehicleState /\ vehicles[u].version \in Nat
      /\ state \in VehicleState /\ vehicles[u].owner_node \in Node
  BY <1>1 DEF TypeOK, VehicleState
<1>3. TypeOK'
  BY <1>1, <1>2 DEF TypeOK, Booking
<1>4. PlansAreFaithful'
  <2> SUFFICES ASSUME NEW q \in Request, plan'[q] # NoPlan
               PROVE  booking'[q] = NoBooking /\ PlanIsFaithful(q)'
    BY DEF PlansAreFaithful
  <2>1. q # r /\ plan'[q] = plan[q]
    BY <1>1 DEF TypeOK
  <2>2. booking[q] = NoBooking /\ PlanIsFaithful(q)
    BY <2>1 DEF PlansAreFaithful
  <2>3. booking'[q] = NoBooking
    BY <1>1, <2>1, <2>2 DEF TypeOK
  <2>4. plan[q] \in InsertionPlan /\ plan[q].vehicle \in Vehicle
        /\ plan[q].expected_version \in Nat
    BY <2>1 DEF TypeOK, InsertionPlan
  <2>5. CASE plan[q].vehicle = u
    BY <1>1, <1>2, <2>1, <2>2, <2>4, <2>5 DEF PlanIsFaithful, TypeOK
  <2>6. CASE plan[q].vehicle # u
    BY <1>1, <2>1, <2>2, <2>4, <2>6 DEF PlanIsFaithful, TypeOK
  <2>7. QED
    BY <2>3, <2>5, <2>6, <2>1
<1>5. NoLostAssignment'
  <2> SUFFICES ASSUME NEW v \in Vehicle
               PROVE  vehicles'[v].route
                        = {q \in Request : booking'[q] # NoBooking /\ booking'[q].on = v}
    BY DEF NoLostAssignment
  <2>1. vehicles[v].route = {q \in Request : booking[q] # NoBooking /\ booking[q].on = v}
    BY DEF NoLostAssignment
  <2>2. /\ booking'[r] = [by |-> vehicles[u].owner_node, on |-> u]
        /\ booking'[r] # NoBooking /\ booking'[r].on = u
        /\ \A q \in Request : q # r => booking'[q] = booking[q]
    BY <1>1, <1>2 DEF TypeOK
  <2>3. CASE v = u
    <3>1. vehicles'[v].route = vehicles[v].route \cup {r}
      BY <1>1, <2>3 DEF TypeOK
    <3>2. QED
      BY <1>1, <2>1, <2>2, <2>3, <3>1
  <2>4. CASE v # u
    <3>1. vehicles'[v].route = vehicles[v].route
      BY <1>1, <2>4 DEF TypeOK
    <3>2. QED
      BY <1>1, <2>1, <2>2, <2>4, <3>1
  <2>5. QED
    BY <2>3, <2>4
<1>6. QED
  BY <1>1, <1>3, <1>4, <1>5

LEMMA CommitBlockedKeepsInv ==
  ASSUME StoreInv, NEW r \in Request, CommitBlocked(r)
  PROVE  StoreInv'
<1> USE DEF StoreInv
<1>1. TypeOK'
  BY DEF CommitBlocked, TypeOK
<1>2. PlansAreFaithful'
  <2> SUFFICES ASSUME NEW q \in Request, plan'[q] # NoPlan
               PROVE  booking'[q] = NoBooking /\ PlanIsFaithful(q)'
    BY DEF PlansAreFaithful
  <2>1. plan'[q] = plan[q]
    BY DEF CommitBlocked, TypeOK
  <2>2. booking[q] = NoBooking /\ PlanIsFaithful(q)
    BY <2>1 DEF PlansAreFaithful
  <2>3. QED
    BY <2>1, <2>2 DEF CommitBlocked, PlanIsFaithful
<1>3. QED
  BY <1>1, <1>2 DEF CommitBlocked, NoLostAssignment

LEMMA ReassignKeepsInv ==
  ASSUME StoreInv, NEW v \in Vehicle, NEW n \in Node, Reassign(v, n)
  PROVE  StoreInv'
<1> DEFINE state == [owner_node |-> n, version |-> vehicles[v].version + 1,
                     route |-> vehicles[v].route]
<1> USE DEF StoreInv
<1>1. /\ vehicles[v] \in VehicleState /\ vehicles[v].version \in Nat
      /\ state \in VehicleState /\ migrations[v] \in Nat
  BY DEF TypeOK, VehicleState
<1>2. /\ vehicles' = [vehicles EXCEPT ![v] = state]
      /\ replica' = vehicles'
      /\ migrations' = [migrations EXCEPT ![v] = @ + 1]
      /\ plan' = plan /\ booking' = booking
  BY DEF Reassign, Write
<1>3. TypeOK'
  BY <1>1, <1>2 DEF TypeOK
<1>4. PlansAreFaithful'
  <2> SUFFICES ASSUME NEW q \in Request, plan[q] # NoPlan
               PROVE  booking[q] = NoBooking /\ PlanIsFaithful(q)'
    BY <1>2 DEF PlansAreFaithful
  <2>1. booking[q] = NoBooking /\ PlanIsFaithful(q)
    BY DEF PlansAreFaithful
  <2>2. plan[q] \in InsertionPlan /\ plan[q].vehicle \in Vehicle
        /\ plan[q].expected_version \in Nat
    BY DEF TypeOK, InsertionPlan
  <2>3. CASE plan[q].vehicle = v
    BY <1>1, <1>2, <2>1, <2>2, <2>3 DEF PlanIsFaithful, TypeOK
  <2>4. CASE plan[q].vehicle # v
    BY <1>2, <2>1, <2>2, <2>4 DEF PlanIsFaithful, TypeOK
  <2>5. QED
    BY <2>1, <2>3, <2>4
<1>5. \A x \in Vehicle : vehicles'[x].route = vehicles[x].route
  BY <1>2 DEF TypeOK
<1>6. QED
  BY <1>2, <1>3, <1>4, <1>5 DEF NoLostAssignment

LEMMA RecoverChangesNothing ==
  ASSUME StoreInv, NEW v \in Vehicle, Recover(v)
  PROVE  UNCHANGED vars
BY DEF StoreInv, TypeOK, Recover, vars

LEMMA UnchangedKeepsInv ==
  ASSUME StoreInv, UNCHANGED vars
  PROVE  StoreInv'
BY DEF StoreInv, TypeOK, PlansAreFaithful, PlanIsFaithful, NoLostAssignment, vars

LEMMA StoreInvStep ==
  ASSUME StoreInv, [Next]_vars
  PROVE  StoreInv'
<1>1. ASSUME NEW n \in Node, NEW v \in Vehicle, NEW r \in Request, Plan(n, v, r)
      PROVE  StoreInv'
  BY <1>1, PlanKeepsInv
<1>2. ASSUME NEW r \in Request, Commit(r) PROVE StoreInv'
  BY <1>2, CommitKeepsInv
<1>3. ASSUME NEW r \in Request, CommitBlocked(r) PROVE StoreInv'
  BY <1>3, CommitBlockedKeepsInv
<1>4. ASSUME NEW v \in Vehicle, NEW n \in Node, Reassign(v, n) PROVE StoreInv'
  BY <1>4, ReassignKeepsInv
<1>5. ASSUME NEW v \in Vehicle, Recover(v) PROVE StoreInv'
  BY <1>5, RecoverChangesNothing, UnchangedKeepsInv
<1>6. CASE UNCHANGED vars
  BY <1>6, UnchangedKeepsInv
<1>7. QED
  BY <1>1, <1>2, <1>3, <1>4, <1>5, <1>6 DEF Next

LEMMA SpecStoreInv == Spec => []StoreInv
BY InitStoreInv, StoreInvStep, PTL DEF Spec

-----------------------------------------------------------------------------
(***************************************************************************)
(* The theorems.                                                           *)
(***************************************************************************)
\* Every writer keeps the store's types: versions are numbers, routes hold requests,
\* and a commit or a migration stores a whole vehicle state and nothing else.
THEOREM TypeCorrect == Spec => []TypeOK
<1>1. StoreInv => TypeOK
  BY DEF StoreInv
<1>2. QED
  BY <1>1, SpecStoreInv, PTL

\* Whatever the writers do, no acknowledged booking is lost or doubled, also when
\* a vehicle is recovered from its replica.
THEOREM BookingsAreKept == Spec => []NoLostAssignment
<1>1. StoreInv => NoLostAssignment
  BY DEF StoreInv
<1>2. QED
  BY <1>1, SpecStoreInv, PTL

\* The version makes every commit fail whose vehicle changed owners since the
\* plan, also when the owner is the same again.
THEOREM MigrationFencesCommits == Spec => NoCommitAcrossMigration
<1> DEFINE Fenced == \A r \in Request :
                       booking[r] = NoBooking /\ booking'[r] # NoBooking
                         => plan[r].since = migrations[plan[r].vehicle]
<1>1. StoreInv /\ [Next]_vars => [Fenced]_vars
  <2> SUFFICES ASSUME StoreInv, Next, NEW r \in Request,
                      booking[r] = NoBooking, booking'[r] # NoBooking
               PROVE  plan[r].since = migrations[plan[r].vehicle]
    OBVIOUS
  <2>1. ASSUME NEW q \in Request, Commit(q)
        PROVE  plan[r].since = migrations[plan[r].vehicle]
    <3>1. booking' = [booking EXCEPT ![q] =
            [by |-> vehicles[plan[q].vehicle].owner_node, on |-> plan[q].vehicle]]
      BY <2>1, CommitFacts
    <3>2. q = r
      BY <3>1 DEF StoreInv, TypeOK
    <3>3. QED
      BY <2>1, <3>2, CommitFacts
  <2>2. ASSUME booking' = booking PROVE FALSE
    BY <2>2
  <2>3. QED
    BY <2>1, <2>2 DEF Next, Plan, CommitBlocked, Reassign, Recover
<1>2. QED
  BY <1>1, SpecStoreInv, PTL DEF Spec, NoCommitAcrossMigration

-----------------------------------------------------------------------------
(***************************************************************************)
(* Refinement.                                                             *)
(***************************************************************************)
LEMMA InitRefines == Init => Abstract!Init
<1> SUFFICES ASSUME Init PROVE Abstract!Init
  OBVIOUS
<1>1. PICK owner \in [Vehicle -> Node] :
        vehicles = [v \in Vehicle |-> [owner_node |-> owner[v], version |-> 0, route |-> {}]]
  BY DEF Init
<1>2. [v \in Vehicle |-> vehicles[v].owner_node] \in [Vehicle -> Node]
  BY <1>1
<1>3. [v \in Vehicle |-> vehicles[v].route] = [v \in Vehicle |-> {}]
  BY <1>1
<1>4. QED
  BY <1>2, <1>3 DEF Init, Abstract!Init

LEMMA StepRefines ==
  ASSUME StoreInv, [Next]_vars
  PROVE  [Abstract!Next]_(Abstract!vars)
<1> DEFINE owner == [v \in Vehicle |-> vehicles[v].owner_node]
           route == [v \in Vehicle |-> vehicles[v].route]
<1> USE DEF StoreInv
<1>1. ASSUME NEW r \in Request, Commit(r)
      PROVE  Abstract!Next
  <2> DEFINE u == plan[r].vehicle
  <2>1. /\ u \in Vehicle
        /\ booking[r] = NoBooking
        /\ vehicles' = [vehicles EXCEPT ![u] =
             [owner_node |-> vehicles[u].owner_node,
              version |-> vehicles[u].version + 1,
              route |-> vehicles[u].route \cup {r}]]
        /\ booking' = [booking EXCEPT ![r] =
             [by |-> vehicles[u].owner_node, on |-> u]]
    BY <1>1, CommitFacts
  <2>2. owner' = owner
    BY <2>1 DEF TypeOK
  <2>3. route' = [route EXCEPT ![u] = @ \cup {r}]
    BY <2>1 DEF TypeOK
  <2>4. booking' = [booking EXCEPT ![r] = [by |-> owner[u], on |-> u]]
    BY <2>1
  <2>5. Abstract!Book(u, r)
    BY <2>1, <2>2, <2>3, <2>4 DEF Abstract!Book
  <2>6. QED
    BY <2>1, <2>5 DEF Abstract!Next
<1>2. ASSUME NEW v \in Vehicle, NEW n \in Node, Reassign(v, n)
      PROVE  Abstract!Next
  <2>1. vehicles' = [vehicles EXCEPT ![v] =
          [owner_node |-> n, version |-> vehicles[v].version + 1,
           route |-> vehicles[v].route]]
    BY <1>2 DEF Reassign, Write
  <2>2. vehicles[v] \in VehicleState
    BY DEF TypeOK
  <2>3. owner' = [owner EXCEPT ![v] = n]
    BY <2>1, <2>2 DEF TypeOK, VehicleState
  <2>4. route' = route
    BY <2>1, <2>2 DEF TypeOK, VehicleState
  <2>5. Abstract!Migrate(v, n)
    BY <1>2, <2>3, <2>4 DEF Abstract!Migrate, Reassign
  <2>6. QED
    BY <2>5 DEF Abstract!Next
<1>3. ASSUME vehicles' = vehicles, booking' = booking
      PROVE  UNCHANGED Abstract!vars
  BY <1>3 DEF Abstract!vars
<1>4. ASSUME NEW v \in Vehicle, Recover(v)
      PROVE  UNCHANGED Abstract!vars
  BY <1>4, <1>3, RecoverChangesNothing DEF vars
<1>5. QED
  BY <1>1, <1>2, <1>3, <1>4 DEF Next, Plan, CommitBlocked, vars

\* The store with its read-plan-commit gap implements atomic bookings by the
\* owner of the moment.
THEOREM StoreImplementsAtomicAssignment == Spec => BooksAtomically
BY InitRefines, StepRefines, SpecStoreInv, PTL DEF Spec, BooksAtomically, Abstract!Spec
=============================================================================
