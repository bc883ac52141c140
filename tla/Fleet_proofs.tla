------------------------------- MODULE Fleet_proofs -------------------------------
(***************************************************************************)
(* Proofs about the data plane of drt_sim (modules Insertion and Fleet).   *)
(***************************************************************************)
EXTENDS Fleet, FiniteSetTheorems, WellFoundedInduction, TLAPS

-----------------------------------------------------------------------------
(***************************************************************************)
(* Sums and times along a route are functions defined by recursion on the  *)
(* position.  Such a definition is a choice among the functions that       *)
(* satisfy its equation, so that there is one comes first.                 *)
(***************************************************************************)
\* A set of natural numbers that is not empty has a least element.
LEMMA LeastNatural ==
  ASSUME NEW S \in SUBSET Nat, S # {}
  PROVE  \E i \in S : \A j \in S : i <= j
<1> DEFINE Less == OpToRel(<, Nat)
<1>1. IsWellFoundedOn(Less, Nat)
  BY NatLessThanWellFounded
<1>2. \A i, j \in S : <<j, i>> \in Less <=> j < i
  BY DEF OpToRel
<1> HIDE DEF Less
<1>3. PICK i \in S : \A j \in S : <<j, i>> \notin Less
  BY <1>1, WFMin
<1>4. ASSUME NEW j \in S PROVE i <= j
  <2>1. ~(j < i)
    BY <1>2, <1>3
  <2> QED
    BY <2>1
<1> QED
  BY <1>4

\* Induction on the positions of a route, over the set of those that are fine.
LEMMA PositionInduction ==
  ASSUME NEW n \in Nat, NEW Fine, 0 \in Fine,
         \A i \in 1 .. n : i - 1 \in Fine => i \in Fine
  PROVE  \A i \in 0 .. n : i \in Fine
<1> DEFINE Bad == {i \in 0 .. n : i \notin Fine}
<1> SUFFICES ASSUME Bad # {} PROVE FALSE
  OBVIOUS
<1>1. Bad \in SUBSET Nat
  OBVIOUS
<1> HIDE DEF Bad
<1>2. PICK i \in Bad : \A j \in Bad : i <= j
  BY <1>1, LeastNatural
<1>3. i \in 1 .. n
  BY <1>2 DEF Bad
<1>4. i - 1 \notin Bad
  BY <1>2, <1>3
<1>5. i - 1 \in Fine
  BY <1>3, <1>4 DEF Bad
<1>6. i \in Fine
  BY <1>3, <1>5
<1> QED
  BY <1>2, <1>6 DEF Bad

\* f starts at `first` and goes on by `step` up to position n.
Stepwise(f, n, first, step) ==
  /\ f \in [0 .. n -> Int]
  /\ f[0] = first
  /\ \A i \in 1 .. n : f[i] = step[<<i, f[i - 1]>>]

\* For every first value and every step there is such a function on 0 .. n.
LEMMA StepwiseExists ==
  ASSUME NEW n \in Nat, NEW first \in Int, NEW step \in [(1 .. n) \X Int -> Int]
  PROVE  \E f : Stepwise(f, n, first, step)
<1> DEFINE Fine == {m \in 0 .. n : \E f : Stepwise(f, m, first, step)}
<1>1. 0 \in Fine
  <2>1. Stepwise([i \in 0 .. 0 |-> first], 0, first, step)
    BY DEF Stepwise
  <2> QED
    BY <2>1
<1>2. \A m \in 1 .. n : m - 1 \in Fine => m \in Fine
  <2> SUFFICES ASSUME NEW m \in 1 .. n, m - 1 \in Fine PROVE m \in Fine
    OBVIOUS
  <2>1. PICK f : Stepwise(f, m - 1, first, step)
    BY Zenon
  <2> DEFINE g == [i \in 0 .. m |-> IF i = m THEN step[<<m, f[m - 1]>>] ELSE f[i]]
  <2>2. f \in [0 .. m - 1 -> Int] /\ f[0] = first
        /\ \A i \in 1 .. m - 1 : f[i] = step[<<i, f[i - 1]>>]
    BY <2>1 DEF Stepwise
  <2>3. step[<<m, f[m - 1]>>] \in Int
    BY <2>2
  <2>4. g \in [0 .. m -> Int]
    BY <2>2, <2>3
  <2>5. g[0] = first
    BY <2>2
  <2>6. ASSUME NEW i \in 1 .. m PROVE g[i] = step[<<i, g[i - 1]>>]
    <3>1. g[i - 1] = f[i - 1]
      OBVIOUS
    <3>2. CASE i = m
      <4>1. g[m] = step[<<m, f[m - 1]>>]
        OBVIOUS
      <4> QED
        BY <3>1, <3>2, <4>1
    <3>3. CASE i # m
      <4>1. i \in 1 .. m - 1
        BY <3>3
      <4>2. g[i] = f[i]
        BY <3>3
      <4> QED
        BY <2>2, <3>1, <4>1, <4>2
    <3> QED
      BY <3>2, <3>3
  <2> HIDE DEF g
  <2>7. Stepwise(g, m, first, step)
    BY <2>4, <2>5, <2>6 DEF Stepwise
  <2> QED
    BY <2>7
<1> HIDE DEF Fine
<1>3. n \in Fine
  BY <1>1, <1>2, PositionInduction
<1> QED
  BY <1>3 DEF Fine

\* Places and travel times are numbers.
LEMMA PlaceType ==
  ASSUME NEW s \in Stop
  PROVE  Place(s) \in Int /\ s.request \in Request /\ s.stop_type \in {"pickup", "dropoff"}
BY DemandAssumption DEF Place, Stop

LEMMA TravelTimeFacts ==
  ASSUME NEW a \in Int, NEW b \in Int
  PROVE  /\ TravelTime(a, b) \in Nat /\ TravelTime(a, a) = 0
         /\ TravelTime(a, b) = 0 => a = b
BY DEF TravelTime

\* Time from the stop before, or from where the vehicle is, to the i-th stop.
Leg(location, route, i) ==
  TravelTime(IF i = 1 THEN location ELSE Place(route[i - 1]), Place(route[i]))

LEMMA LegType ==
  ASSUME NEW location \in Int, NEW route \in Seq(Stop), NEW i \in 1 .. Len(route)
  PROVE  Leg(location, route, i) \in Nat
<1>1. Place(route[i]) \in Int
  BY PlaceType
<1>2. CASE i = 1
  BY <1>1, <1>2, TravelTimeFacts DEF Leg
<1>3. CASE i # 1
  <2>1. route[i - 1] \in Stop
    BY <1>3
  <2>2. Place(route[i - 1]) \in Int
    BY <2>1, PlaceType
  <2> QED
    BY <1>1, <1>3, <2>2, TravelTimeFacts DEF Leg
<1> QED
  BY <1>2, <1>3

\* Arrival times add up the ways between the stops.
LEMMA EtaSteps ==
  ASSUME NEW location \in Int, NEW route \in Seq(Stop)
  PROVE  /\ Eta(location, route) \in [0 .. Len(route) -> Int]
         /\ Eta(location, route)[0] = 0
         /\ \A i \in 1 .. Len(route) :
              Eta(location, route)[i] = Eta(location, route)[i - 1] + Leg(location, route, i)
<1> DEFINE n == Len(route)
           Body(g) == [i \in 0 .. n |-> IF i = 0 THEN 0 ELSE g[i - 1] + Leg(location, route, i)]
           step == [p \in (1 .. n) \X Int |-> p[2] + Leg(location, route, p[1])]
           f == Eta(location, route)
<1>1. n \in Nat /\ 0 \in Int
  OBVIOUS
<1>2. \A i \in 1 .. n : Leg(location, route, i) \in Int
  BY LegType
<1>3. f = CHOOSE g : g = Body(g)
  BY DEF Eta, Leg
<1> HIDE DEF n, f
<1>4. step \in [(1 .. n) \X Int -> Int]
  BY <1>2
<1>5. \A i \in 1 .. n, x \in Int : step[<<i, x>>] = x + Leg(location, route, i)
  OBVIOUS
<1> HIDE DEF step
<1>6. PICK h : Stepwise(h, n, 0, step)
  BY <1>1, <1>4, StepwiseExists, Zenon
<1>7. h = Body(h)
  <2>1. h \in [0 .. n -> Int] /\ h[0] = 0 /\ \A i \in 1 .. n : h[i] = step[<<i, h[i - 1]>>]
    BY <1>6 DEF Stepwise
  <2>2. ASSUME NEW i \in 1 .. n PROVE h[i] = h[i - 1] + Leg(location, route, i)
    <3>1. h[i - 1] \in Int
      BY <1>1, <2>1
    <3> QED
      BY <2>1, <3>1, <1>5
  <2> QED
    BY <2>1, <2>2
<1>8. f = Body(f)
  <2> HIDE DEF Body
  <2> QED
    BY <1>3, <1>7
<1>9. DOMAIN f = 0 .. n /\ f = [i \in 0 .. n |-> f[i]] /\ f[0] = 0
  <2> DEFINE rhs == Body(f)
  <2>1. DOMAIN rhs = 0 .. n /\ rhs = [i \in 0 .. n |-> rhs[i]] /\ rhs[0] = 0
    BY <1>1
  <2> HIDE DEF Body, rhs
  <2>2. f = rhs
    BY <1>8 DEF rhs
  <2> QED
    BY <2>1, <2>2
<1>10. ASSUME NEW i \in 1 .. n PROVE f[i] = f[i - 1] + Leg(location, route, i)
  <2> DEFINE rhs == Body(f)
  <2>1. rhs[i] = f[i - 1] + Leg(location, route, i)
    OBVIOUS
  <2> HIDE DEF Body, rhs
  <2> QED
    BY <1>8, <2>1 DEF rhs
<1> HIDE DEF Body
<1> DEFINE Fine == {i \in 0 .. n : f[i] \in Int}
<1>11. 0 \in Fine
  BY <1>1, <1>9
<1>12. \A i \in 1 .. n : i - 1 \in Fine => i \in Fine
  BY <1>2, <1>10
<1> HIDE DEF Fine
<1>13. \A i \in 0 .. n : i \in Fine
  BY <1>1, <1>11, <1>12, PositionInduction
<1>14. \A i \in 0 .. n : f[i] \in Int
  BY <1>13 DEF Fine
<1> QED
  BY <1>9, <1>10, <1>14 DEF f, n

\* What a stop does to the number of passengers: as the engines plan it ...
LoadAfter(stop, n) ==
  IF stop.stop_type = "pickup" THEN n + PartySize[stop.request] ELSE n - PartySize[stop.request]

\* ... and as World does it.
OnboardAfter(stop, n) ==
  IF stop.stop_type = "pickup" THEN n + PartySize[stop.request]
  ELSE IF n > PartySize[stop.request] THEN n - PartySize[stop.request] ELSE 0

LEMMA AfterType ==
  ASSUME NEW s \in Stop, NEW n \in Int
  PROVE  LoadAfter(s, n) \in Int /\ OnboardAfter(s, n) \in Int
BY PlaceType, DemandAssumption DEF LoadAfter, OnboardAfter

\* Loads add up what the stops do.
LEMMA LoadSteps ==
  ASSUME NEW onboard \in Int, NEW route \in Seq(Stop)
  PROVE  /\ Load(onboard, route) \in [0 .. Len(route) -> Int]
         /\ Load(onboard, route)[0] = onboard
         /\ \A i \in 1 .. Len(route) :
              Load(onboard, route)[i] = LoadAfter(route[i], Load(onboard, route)[i - 1])
<1> DEFINE n == Len(route)
           Body(g) == [i \in 0 .. n |-> IF i = 0 THEN onboard ELSE LoadAfter(route[i], g[i - 1])]
           step == [p \in (1 .. n) \X Int |-> LoadAfter(route[p[1]], p[2])]
           f == Load(onboard, route)
<1>1. n \in Nat /\ onboard \in Int
  OBVIOUS
<1>2. ASSUME NEW i \in 1 .. n, NEW x \in Int PROVE LoadAfter(route[i], x) \in Int
  <2>1. route[i] \in Stop
    OBVIOUS
  <2> QED
    BY <2>1, AfterType
<1>3. f = CHOOSE g : g = Body(g)
  BY DEF Load, LoadAfter
<1> HIDE DEF n, f
<1>4. step \in [(1 .. n) \X Int -> Int]
  BY <1>2
<1>5. \A i \in 1 .. n, x \in Int : step[<<i, x>>] = LoadAfter(route[i], x)
  OBVIOUS
<1> HIDE DEF step
<1>6. PICK h : Stepwise(h, n, onboard, step)
  BY <1>1, <1>4, StepwiseExists, Zenon
<1>7. h = Body(h)
  <2>1. h \in [0 .. n -> Int] /\ h[0] = onboard
        /\ \A i \in 1 .. n : h[i] = step[<<i, h[i - 1]>>]
    BY <1>6 DEF Stepwise
  <2>2. ASSUME NEW i \in 1 .. n PROVE h[i] = LoadAfter(route[i], h[i - 1])
    <3>1. h[i - 1] \in Int
      BY <1>1, <2>1
    <3> QED
      BY <2>1, <3>1, <1>5
  <2> QED
    BY <2>1, <2>2
<1>8. f = Body(f)
  <2> HIDE DEF Body
  <2> QED
    BY <1>3, <1>7
<1>9. DOMAIN f = 0 .. n /\ f = [i \in 0 .. n |-> f[i]] /\ f[0] = onboard
  <2> DEFINE rhs == Body(f)
  <2>1. DOMAIN rhs = 0 .. n /\ rhs = [i \in 0 .. n |-> rhs[i]] /\ rhs[0] = onboard
    BY <1>1
  <2> HIDE DEF Body, rhs
  <2>2. f = rhs
    BY <1>8 DEF rhs
  <2> QED
    BY <2>1, <2>2
<1>10. ASSUME NEW i \in 1 .. n PROVE f[i] = LoadAfter(route[i], f[i - 1])
  <2> DEFINE rhs == Body(f)
  <2>1. rhs[i] = LoadAfter(route[i], f[i - 1])
    OBVIOUS
  <2> HIDE DEF Body, rhs
  <2> QED
    BY <1>8, <2>1 DEF rhs
<1> HIDE DEF Body
<1> DEFINE Fine == {i \in 0 .. n : f[i] \in Int}
<1>11. 0 \in Fine
  BY <1>1, <1>9
<1>12. ASSUME NEW i \in 1 .. n, i - 1 \in Fine PROVE i \in Fine
  <2>1. f[i] \in Int
    BY <1>2, <1>10, <1>12
  <2> QED
    BY <2>1
<1> HIDE DEF Fine
<1>13. \A i \in 0 .. n : i \in Fine
  BY <1>1, <1>11, <1>12, PositionInduction
<1>14. \A i \in 0 .. n : f[i] \in Int
  BY <1>13 DEF Fine
<1> QED
  BY <1>9, <1>10, <1>14 DEF f, n

\* So does the number of passengers when World serves the stops.
LEMMA OnboardSteps ==
  ASSUME NEW v, NEW route, route = vehicle[v].route, route \in Seq(Stop), vehicle[v].onboard \in Int
  PROVE  /\ Onboard(v) \in [0 .. Len(route) -> Int]
         /\ Onboard(v)[0] = vehicle[v].onboard
         /\ \A i \in 1 .. Len(route) :
              Onboard(v)[i] = OnboardAfter(route[i], Onboard(v)[i - 1])
<1> DEFINE n == Len(route)
           Body(g) == [i \in 0 .. n |-> IF i = 0 THEN vehicle[v].onboard ELSE OnboardAfter(route[i], g[i - 1])]
           step == [p \in (1 .. n) \X Int |-> OnboardAfter(route[p[1]], p[2])]
           f == Onboard(v)
<1>1. n \in Nat /\ vehicle[v].onboard \in Int
  OBVIOUS
<1>2. ASSUME NEW i \in 1 .. n, NEW x \in Int PROVE OnboardAfter(route[i], x) \in Int
  <2>1. route[i] \in Stop
    OBVIOUS
  <2> QED
    BY <2>1, AfterType
<1>3. f = CHOOSE g : g = Body(g)
  BY DEF Onboard, OnboardAfter
<1> HIDE DEF n, f
<1>4. step \in [(1 .. n) \X Int -> Int]
  BY <1>2
<1>5. \A i \in 1 .. n, x \in Int : step[<<i, x>>] = OnboardAfter(route[i], x)
  OBVIOUS
<1> HIDE DEF step
<1>6. PICK h : Stepwise(h, n, vehicle[v].onboard, step)
  BY <1>1, <1>4, StepwiseExists, Zenon
<1>7. h = Body(h)
  <2>1. h \in [0 .. n -> Int] /\ h[0] = vehicle[v].onboard
        /\ \A i \in 1 .. n : h[i] = step[<<i, h[i - 1]>>]
    BY <1>6 DEF Stepwise
  <2>2. ASSUME NEW i \in 1 .. n PROVE h[i] = OnboardAfter(route[i], h[i - 1])
    <3>1. h[i - 1] \in Int
      BY <1>1, <2>1
    <3> QED
      BY <2>1, <3>1, <1>5
  <2> QED
    BY <2>1, <2>2
<1>8. f = Body(f)
  <2> HIDE DEF Body
  <2> QED
    BY <1>3, <1>7
<1>9. DOMAIN f = 0 .. n /\ f = [i \in 0 .. n |-> f[i]] /\ f[0] = vehicle[v].onboard
  <2> DEFINE rhs == Body(f)
  <2>1. DOMAIN rhs = 0 .. n /\ rhs = [i \in 0 .. n |-> rhs[i]] /\ rhs[0] = vehicle[v].onboard
    BY <1>1
  <2> HIDE DEF Body, rhs
  <2>2. f = rhs
    BY <1>8 DEF rhs
  <2> QED
    BY <2>1, <2>2
<1>10. ASSUME NEW i \in 1 .. n PROVE f[i] = OnboardAfter(route[i], f[i - 1])
  <2> DEFINE rhs == Body(f)
  <2>1. rhs[i] = OnboardAfter(route[i], f[i - 1])
    OBVIOUS
  <2> HIDE DEF Body, rhs
  <2> QED
    BY <1>8, <2>1 DEF rhs
<1> HIDE DEF Body
<1> DEFINE Fine == {i \in 0 .. n : f[i] \in Int}
<1>11. 0 \in Fine
  BY <1>1, <1>9
<1>12. ASSUME NEW i \in 1 .. n, i - 1 \in Fine PROVE i \in Fine
  <2>1. f[i] \in Int
    BY <1>2, <1>10, <1>12
  <2> QED
    BY <2>1
<1> HIDE DEF Fine
<1>13. \A i \in 0 .. n : i \in Fine
  BY <1>1, <1>11, <1>12, PositionInduction
<1>14. \A i \in 0 .. n : f[i] \in Int
  BY <1>13 DEF Fine
<1> QED
  BY <1>9, <1>10, <1>14 DEF f, n

-----------------------------------------------------------------------------
(***************************************************************************)
(* Number of passengers of a set of requests.                              *)
(***************************************************************************)
\* Induction on a finite set, over the set of its subsets that are fine.
LEMMA SubsetInduction ==
  ASSUME NEW S, IsFiniteSet(S), NEW Fine, {} \in Fine,
         \A s \in SUBSET S : s # {} /\ (\A x \in s : s \ {x} \in Fine) => s \in Fine
  PROVE  \A s \in SUBSET S : s \in Fine
<1> DEFINE Bad == {s \in SUBSET S : s \notin Fine}
<1> SUFFICES ASSUME Bad # {} PROVE FALSE
  OBVIOUS
<1>1. Bad \subseteq FiniteSubsetsOf(S)
  BY FS_FiniteSubsetsOfFinite
<1> HIDE DEF Bad
<1>2. PICK s \in Bad : \A t \in Bad : <<t, s>> \notin StrictSubsetOrdering(S)
  BY <1>1, FS_StrictSubsetOrderingWellFounded, WFMin
<1>3. s \in SUBSET S /\ s \notin Fine
  BY <1>2 DEF Bad
<1>4. ASSUME NEW x \in s PROVE s \ {x} \in Fine
  <2>1. <<s \ {x}, s>> \in StrictSubsetOrdering(S)
    BY <1>3 DEF StrictSubsetOrdering
  <2> QED
    BY <1>2, <1>3, <2>1 DEF Bad
<1> QED
  BY <1>3, <1>4

\* f gives every subset of S the number of passengers of its requests.
CountsParties(f, S) ==
  /\ f \in [SUBSET S -> Int]
  /\ f[{}] = 0
  /\ \A s \in SUBSET S : \A r \in s : f[s] = PartySize[r] + f[s \ {r}]

LEMMA CountExists ==
  ASSUME NEW S \in SUBSET Request, IsFiniteSet(S)
  PROVE  \E f : CountsParties(f, S)
<1> DEFINE Fine == {s \in SUBSET S : \E f : CountsParties(f, s)}
<1>1. {} \in Fine
  <2>1. CountsParties([s \in SUBSET {} |-> 0], {})
    BY DEF CountsParties
  <2> QED
    BY <2>1
<1>2. ASSUME NEW s \in SUBSET S, s # {}, \A x \in s : s \ {x} \in Fine
      PROVE  s \in Fine
  <2>1. PICK y \in s : s \ {y} \in Fine
    BY <1>2
  <2>2. PICK f : CountsParties(f, s \ {y})
    BY <2>1
  <2> DEFINE g == [t \in SUBSET s |-> IF y \in t THEN PartySize[y] + f[t \ {y}] ELSE f[t]]
  <2>3. f \in [SUBSET (s \ {y}) -> Int] /\ f[{}] = 0
    BY <2>2 DEF CountsParties
  <2>4. ASSUME NEW t \in SUBSET (s \ {y}), NEW r \in t PROVE f[t] = PartySize[r] + f[t \ {r}]
    BY <2>2 DEF CountsParties
  <2>5. \A r \in s : PartySize[r] \in Int
    BY DemandAssumption
  <2>6. g \in [SUBSET s -> Int]
    <3> SUFFICES ASSUME NEW t \in SUBSET s
                 PROVE  (IF y \in t THEN PartySize[y] + f[t \ {y}] ELSE f[t]) \in Int
      OBVIOUS
    <3>1. CASE y \in t
      <4>1. t \ {y} \in SUBSET (s \ {y})
        OBVIOUS
      <4> QED
        BY <2>3, <2>5, <3>1, <4>1
    <3>2. CASE y \notin t
      <4>1. t \in SUBSET (s \ {y})
        BY <3>2
      <4> QED
        BY <2>3, <3>2, <4>1
    <3> QED
      BY <3>1, <3>2
  <2>7. g[{}] = 0
    BY <2>3
  <2>8. ASSUME NEW t \in SUBSET s, NEW r \in t PROVE g[t] = PartySize[r] + g[t \ {r}]
    <3>1. CASE y \notin t
      <4>1. t \in SUBSET (s \ {y}) /\ g[t] = f[t] /\ g[t \ {r}] = f[t \ {r}]
        BY <3>1
      <4> QED
        BY <2>4, <4>1
    <3>2. CASE r = y
      <4>1. g[t] = PartySize[y] + f[t \ {y}] /\ g[t \ {r}] = f[t \ {y}]
        BY <3>2
      <4> QED
        BY <3>2, <4>1
    <3>3. CASE y \in t /\ r # y
      <4>1. g[t] = PartySize[y] + f[t \ {y}]
        BY <3>3
      <4>2. y \in t \ {r} /\ t \ {r} \in SUBSET s /\ (t \ {r}) \ {y} = (t \ {y}) \ {r}
        BY <3>3
      <4>3. g[t \ {r}] = PartySize[y] + f[(t \ {r}) \ {y}]
        BY <4>2
      <4>4. t \ {y} \in SUBSET (s \ {y}) /\ r \in t \ {y}
        BY <3>3
      <4>5. f[t \ {y}] = PartySize[r] + f[(t \ {y}) \ {r}]
        BY <2>4, <4>4
      <4>6. (t \ {y}) \ {r} \in SUBSET (s \ {y})
        OBVIOUS
      <4>7. f[(t \ {y}) \ {r}] \in Int /\ PartySize[r] \in Int /\ PartySize[y] \in Int
        BY <2>3, <2>5, <4>6
      <4> HIDE DEF g
      <4>8. g[t \ {r}] = PartySize[y] + f[(t \ {y}) \ {r}]
        BY <4>2, <4>3
      <4> QED
        BY <4>1, <4>5, <4>7, <4>8
    <3> QED
      BY <3>1, <3>2, <3>3
  <2> HIDE DEF g
  <2>9. CountsParties(g, s)
    BY <2>6, <2>7, <2>8 DEF CountsParties
  <2> QED
    BY <2>9
<1> HIDE DEF Fine
<1>3. S \in Fine
  BY <1>1, <1>2, SubsetInduction
<1> QED
  BY <1>3 DEF Fine

\* Two such functions agree where both are defined.
LEMMA CountIsUnique ==
  ASSUME NEW S \in SUBSET Request, IsFiniteSet(S), NEW f, NEW g, f[{}] = 0, g[{}] = 0,
         \A s \in SUBSET S : s # {} =>
           \E r \in s : f[s] = PartySize[r] + f[s \ {r}] /\ g[s] = PartySize[r] + g[s \ {r}]
  PROVE  f[S] = g[S]
<1> DEFINE Fine == {s \in SUBSET S : f[s] = g[s]}
<1>1. {} \in Fine
  OBVIOUS
<1>2. ASSUME NEW s \in SUBSET S, s # {}, \A r \in s : s \ {r} \in Fine
      PROVE  s \in Fine
  <2>1. PICK r \in s : f[s] = PartySize[r] + f[s \ {r}] /\ g[s] = PartySize[r] + g[s \ {r}]
    BY <1>2
  <2>2. f[s \ {r}] = g[s \ {r}]
    BY <1>2
  <2> QED
    BY <2>1, <2>2
<1> HIDE DEF Fine
<1>3. S \in Fine
  BY <1>1, <1>2, SubsetInduction
<1> QED
  BY <1>3 DEF Fine

Parties(S) == MapThenSumSet(LAMBDA r : PartySize[r], S)

\* What the fold computes.
LEMMA PartiesCounts ==
  ASSUME NEW S \in SUBSET Request, IsFiniteSet(S)
  PROVE  \A f : CountsParties(f, S) => Parties(S) = f[S]
<1> SUFFICES ASSUME NEW f, CountsParties(f, S) PROVE Parties(S) = f[S]
  OBVIOUS
<1> DEFINE Body(g) == [s \in SUBSET S |->
                         IF s = {} THEN 0
                         ELSE PartySize[CHOOSE x \in s : TRUE] + g[s \ {CHOOSE x \in s : TRUE}]]
           iter == CHOOSE g : g = Body(g)
<1>1. Parties(S) = iter[S]
  BY DEF Parties, MapThenSumSet, MapThenFoldSet
<1>2. f = Body(f)
  <2>1. f \in [SUBSET S -> Int] /\ f[{}] = 0
    BY DEF CountsParties
  <2>2. ASSUME NEW s \in SUBSET S PROVE f[s] = Body(f)[s]
    <3>1. CASE s = {}
      BY <2>1, <3>1
    <3>2. CASE s # {}
      <4> DEFINE x == CHOOSE y \in s : TRUE
      <4>1. x \in s
        BY <3>2
      <4>2. f[s] = PartySize[x] + f[s \ {x}]
        BY <4>1 DEF CountsParties
      <4>3. Body(f)[s] = PartySize[x] + f[s \ {x}]
        BY <3>2
      <4> QED
        BY <4>2, <4>3
    <3> QED
      BY <3>1, <3>2
  <2> QED
    BY <2>1, <2>2
<1> HIDE DEF Body
<1>3. iter = Body(iter)
  BY <1>2
<1> HIDE DEF iter
<1>4. iter[{}] = 0
  <2>1. Body(iter)[{}] = 0
    BY DEF Body
  <2> QED
    BY <1>3, <2>1
<1>5. ASSUME NEW s \in SUBSET S, s # {}
      PROVE  \E r \in s : iter[s] = PartySize[r] + iter[s \ {r}] /\ f[s] = PartySize[r] + f[s \ {r}]
  <2> DEFINE x == CHOOSE y \in s : TRUE
  <2>1. x \in s
    BY <1>5
  <2>2. Body(iter)[s] = PartySize[x] + iter[s \ {x}]
    BY <1>5 DEF Body
  <2>3. f[s] = PartySize[x] + f[s \ {x}]
    BY <2>1 DEF CountsParties
  <2> QED
    BY <1>3, <2>1, <2>2, <2>3
<1>6. iter[S] = f[S]
  BY <1>4, <1>5, CountIsUnique DEF CountsParties
<1> QED
  BY <1>1, <1>6

\* One request more or less.
LEMMA PartiesOneMore ==
  ASSUME NEW S \in SUBSET Request, IsFiniteSet(S), NEW r \in S
  PROVE  Parties(S) \in Int /\ Parties(S \ {r}) \in Int
         /\ Parties(S) = Parties(S \ {r}) + PartySize[r]
<1>1. PICK f : CountsParties(f, S)
  BY CountExists
<1>2. Parties(S) = f[S]
  BY <1>1, PartiesCounts
<1> DEFINE T == S \ {r}
           g == [s \in SUBSET T |-> f[s]]
<1>3. CountsParties(g, T)
  BY <1>1 DEF CountsParties
<1>4. T \in SUBSET Request /\ IsFiniteSet(T)
  BY FS_Subset
<1> HIDE DEF g
<1>5. Parties(T) = g[T]
  BY <1>3, <1>4, PartiesCounts
<1>6. g[T] = f[T]
  BY DEF g
<1>7. f \in [SUBSET S -> Int] /\ f[S] = PartySize[r] + f[T]
  BY <1>1 DEF CountsParties
<1>8. f[S] \in Int /\ f[T] \in Int /\ PartySize[r] \in Int
  BY <1>7, DemandAssumption
<1> QED
  BY <1>2, <1>5, <1>6, <1>7, <1>8

LEMMA PartiesOfNone == Parties({}) = 0
<1>1. PICK f : CountsParties(f, {})
  BY CountExists, FS_EmptySet
<1>2. Parties({}) = f[{}]
  BY <1>1, PartiesCounts, FS_EmptySet
<1> QED
  BY <1>1, <1>2 DEF CountsParties

LEMMA PartiesNat ==
  ASSUME NEW S \in SUBSET Request, IsFiniteSet(S)
  PROVE  Parties(S) \in Nat
<1> DEFINE Fine == {s \in SUBSET S : Parties(s) \in Nat}
<1>1. {} \in Fine
  BY PartiesOfNone
<1>2. ASSUME NEW s \in SUBSET S, s # {}, \A r \in s : s \ {r} \in Fine
      PROVE  s \in Fine
  <2>1. PICK r \in s : Parties(s \ {r}) \in Nat
    BY <1>2
  <2>2. Parties(s) = Parties(s \ {r}) + PartySize[r]
    BY PartiesOneMore, FS_Subset
  <2> QED
    BY <2>1, <2>2, DemandAssumption
<1> HIDE DEF Fine
<1>3. S \in Fine
  BY <1>1, <1>2, SubsetInduction
<1> QED
  BY <1>3 DEF Fine

-----------------------------------------------------------------------------
(***************************************************************************)
(* Routes: what an engine proposes, and what World leaves of one.          *)
(***************************************************************************)
LEMMA StopType ==
  ASSUME NEW r \in Request
  PROVE  Pickup(r) \in Stop /\ Dropoff(r) \in Stop
BY DEF Pickup, Dropoff, Stop

LEMMA InsertAtShape ==
  ASSUME NEW S, NEW s \in Seq(S), NEW e \in S, NEW i \in 1 .. Len(s) + 1
  PROVE  /\ InsertAt(s, i, e) \in Seq(S)
         /\ Len(InsertAt(s, i, e)) = Len(s) + 1
         /\ \A m \in 1 .. Len(s) + 1 :
              InsertAt(s, i, e)[m] = IF m < i THEN s[m] ELSE IF m = i THEN e ELSE s[m - 1]
<1> DEFINE before == SubSeq(s, 1, i - 1)
           after == SubSeq(s, i, Len(s))
<1>1. /\ before \in Seq(S) /\ Len(before) = i - 1
      /\ \A m \in 1 .. i - 1 : before[m] = s[m]
  OBVIOUS
<1>2. /\ after \in Seq(S) /\ Len(after) = Len(s) - i + 1
      /\ \A m \in 1 .. Len(s) - i + 1 : after[m] = s[i + m - 1]
  OBVIOUS
<1>3. InsertAt(s, i, e) = (before \o <<e>>) \o after
  BY DEF InsertAt
<1> HIDE DEF before, after
<1> DEFINE head == before \o <<e>>
<1>4. /\ head \in Seq(S) /\ Len(head) = i
      /\ \A m \in 1 .. i : head[m] = IF m < i THEN s[m] ELSE e
  BY <1>1
<1> HIDE DEF head
<1> DEFINE all == head \o after
<1>5. /\ all \in Seq(S) /\ Len(all) = Len(s) + 1
      /\ \A m \in 1 .. i : all[m] = head[m]
      /\ \A m \in i + 1 .. Len(s) + 1 : all[m] = after[m - i]
  BY <1>2, <1>4
<1>6. ASSUME NEW m \in i + 1 .. Len(s) + 1 PROVE after[m - i] = s[m - 1]
  BY <1>2
<1>7. InsertAt(s, i, e) = all
  BY <1>3 DEF head
<1> HIDE DEF all
<1> QED
  BY <1>4, <1>5, <1>6, <1>7

\* `new` is `route` with r's pickup put after i stops and its dropoff after j.
Inserted(new, route, r, i, j) ==
  /\ new \in Seq(Stop) /\ Len(new) = Len(route) + 2
  /\ \A m \in 1 .. Len(route) + 2 :
       new[m] = IF m <= i THEN route[m]
                ELSE IF m = i + 1 THEN Pickup(r)
                ELSE IF m <= j + 1 THEN route[m - 1]
                ELSE IF m = j + 2 THEN Dropoff(r)
                ELSE route[m - 2]

LEMMA InsertStop ==
  ASSUME NEW s \in Seq(Stop), NEW e \in Stop, NEW i \in 1 .. Len(s) + 1
  PROVE  /\ InsertAt(s, i, e) \in Seq(Stop)
         /\ Len(InsertAt(s, i, e)) = Len(s) + 1
         /\ \A m \in 1 .. Len(s) + 1 :
              InsertAt(s, i, e)[m] = IF m < i THEN s[m] ELSE IF m = i THEN e ELSE s[m - 1]
BY InsertAtShape

\* The engine's two insertions put the stops where they should be.
LEMMA InsertedByEngine ==
  ASSUME NEW route \in Seq(Stop), NEW r \in Request,
         NEW i \in 0 .. Len(route), NEW j \in 0 .. Len(route), i <= j
  PROVE  Inserted(InsertAt(InsertAt(route, i + 1, Pickup(r)), j + 2, Dropoff(r)), route, r, i, j)
<1>1. PICK new : new = InsertAt(InsertAt(route, i + 1, Pickup(r)), j + 2, Dropoff(r))
  OBVIOUS
<1>2. PICK p, q, e, f : q = i + 1 /\ p = j + 2 /\ e = Pickup(r) /\ f = Dropoff(r)
  OBVIOUS
<1>3. e \in Stop /\ f \in Stop
  BY <1>2, StopType
<1>4. PICK once : once = InsertAt(route, q, e)
  OBVIOUS
<1>5. /\ once \in Seq(Stop) /\ Len(once) = Len(route) + 1
      /\ \A m \in 1 .. Len(route) + 1 :
           once[m] = IF m < q THEN route[m] ELSE IF m = q THEN e ELSE route[m - 1]
  <2>1. q \in 1 .. Len(route) + 1
    BY <1>2
  <2>2. /\ InsertAt(route, q, e) \in Seq(Stop)
        /\ Len(InsertAt(route, q, e)) = Len(route) + 1
        /\ \A m \in 1 .. Len(route) + 1 :
             InsertAt(route, q, e)[m] = IF m < q THEN route[m] ELSE IF m = q THEN e ELSE route[m - 1]
    BY ZenonT(30), <1>3, <2>1, InsertStop
  <2> QED
    BY <1>4, <2>2
<1>6. /\ new \in Seq(Stop) /\ Len(new) = Len(once) + 1
      /\ \A m \in 1 .. Len(once) + 1 :
           new[m] = IF m < p THEN once[m] ELSE IF m = p THEN f ELSE once[m - 1]
  <2>1. once \in Seq(Stop) /\ f \in Stop /\ p \in 1 .. Len(once) + 1
    BY <1>2, <1>3, <1>5
  <2>2. /\ InsertAt(once, p, f) \in Seq(Stop)
        /\ Len(InsertAt(once, p, f)) = Len(once) + 1
        /\ \A m \in 1 .. Len(once) + 1 :
             InsertAt(once, p, f)[m] = IF m < p THEN once[m] ELSE IF m = p THEN f ELSE once[m - 1]
    BY ZenonT(30), <2>1, InsertStop
  <2>3. new = InsertAt(once, p, f)
    BY <1>1, <1>2, <1>4
  <2> QED
    BY <2>2, <2>3
<1>7. Inserted(new, route, r, i, j)
  <2>1. i \in Nat /\ j \in Nat /\ Len(route) \in Nat /\ i <= j /\ j <= Len(route)
    OBVIOUS
  <2>2. new \in Seq(Stop) /\ Len(new) = Len(route) + 2
    BY <1>5, <1>6, <2>1
  <2>3. ASSUME NEW m \in 1 .. Len(route) + 2
        PROVE  new[m] = IF m <= i THEN route[m]
                        ELSE IF m = i + 1 THEN e
                        ELSE IF m <= j + 1 THEN route[m - 1]
                        ELSE IF m = j + 2 THEN f
                        ELSE route[m - 2]
    <3>1. new[m] = IF m < p THEN once[m] ELSE IF m = p THEN f ELSE once[m - 1]
      BY <1>5, <1>6, <2>1
    <3>2. CASE m < p
      <4>1. m \in 1 .. Len(route) + 1
        BY <1>2, <2>1, <3>2
      <4>2. once[m] = IF m < q THEN route[m] ELSE IF m = q THEN e ELSE route[m - 1]
        BY <1>5, <4>1
      <4> QED
        BY <1>2, <2>1, <3>1, <3>2, <4>2
    <3>3. CASE m = p
      BY <1>2, <2>1, <3>1, <3>3
    <3>4. CASE m > p
      <4>1. PICK l : l = m - 1
        OBVIOUS
      <4>2. l \in 1 .. Len(route) + 1 /\ l > q /\ l - 1 = m - 2
        BY <1>2, <2>1, <3>4, <4>1
      <4>3. once[l] = route[m - 2]
        BY <1>2, <1>5, <2>1, <4>2
      <4> QED
        BY <1>2, <2>1, <3>1, <3>4, <4>1, <4>3
    <3> QED
      BY <1>2, <2>1, <3>2, <3>3, <3>4
  <2> QED
    BY <1>2, <2>2, <2>3 DEF Inserted
<1> QED
  BY <1>1, <1>7

LEMMA InsertionsAreInserted ==
  ASSUME NEW route \in Seq(Stop), NEW r \in Request, NEW new \in Insertions(route, r)
  PROVE  \E i, j \in 0 .. Len(route) : i <= j /\ Inserted(new, route, r, i, j)
<1>1. PICK x \in (0 .. Len(route)) \X (0 .. Len(route)) :
        /\ x[1] <= x[2]
        /\ new = InsertAt(InsertAt(route, x[1] + 1, Pickup(r)), x[2] + 2, Dropoff(r))
  BY Zenon DEF Insertions
<1>2. PICK i, j : i = x[1] /\ j = x[2]
  OBVIOUS
<1>3. i \in 0 .. Len(route) /\ j \in 0 .. Len(route) /\ i <= j
  BY <1>1, <1>2
<1>4. new = InsertAt(InsertAt(route, i + 1, Pickup(r)), j + 2, Dropoff(r))
  BY <1>1, <1>2
<1>5. Inserted(new, route, r, i, j)
  BY <1>3, <1>4, InsertedByEngine
<1> QED
  BY <1>3, <1>5

-----------------------------------------------------------------------------
(***************************************************************************)
(* The shape of the state, which needs no assumption on the road, and what *)
(* the two steps that change routes do to it.                              *)
(***************************************************************************)
VehicleAt(places) ==
  [location : places, route : Seq(Stop), onboard : Nat,
   reposition_target : Int \cup {NoTarget}]

Shape ==
  /\ engine \in {"insertion", "baseline"}
  /\ \E places : vehicle \in [Vehicle -> VehicleAt(places)]
  /\ status \in [Request -> {"unborn", "pending", "assigned", "onboard", "completed",
                             "rejected"}]
  /\ assigned \in [Request -> Vehicle \cup {NoVehicle}]
  /\ age \in [Request -> 0 .. AgeCap]
  /\ phase \in 0 .. MotionDt

LEMMA ShapeOfVehicle ==
  ASSUME Shape, NEW v \in Vehicle
  PROVE  /\ vehicle[v].route \in Seq(Stop) /\ Len(vehicle[v].route) \in Nat
         /\ vehicle[v].onboard \in Nat /\ vehicle[v].reposition_target \in Int \cup {NoTarget}
<1>1. PICK places : vehicle \in [Vehicle -> VehicleAt(places)]
  BY DEF Shape
<1>2. vehicle[v] \in VehicleAt(places)
  BY <1>1
<1>3. vehicle[v].route \in Seq(Stop)
  BY <1>2 DEF VehicleAt
<1> QED
  BY <1>2, <1>3 DEF VehicleAt

\* A booked plan: `new` becomes the route of v.
Booked(v, r, new) ==
  /\ vehicle' = [vehicle EXCEPT ![v].route = new, ![v].reposition_target = NoTarget]
  /\ status' = [status EXCEPT ![r] = "assigned"]
  /\ assigned' = [assigned EXCEPT ![r] = v]
  /\ age' = age

\* The engines propose only routes with the request's two stops put into the present
\* one: feasible ones the one, on idle vehicles the other.
LEMMA PlansAreInsertions ==
  ASSUME Shape, NEW owned \in SUBSET Vehicle, NEW r \in Request, NEW plan \in Plans(owned, r)
  PROVE  /\ plan.vehicle_id \in owned
         /\ \E i, j \in 0 .. Len(vehicle[plan.vehicle_id].route) :
              i <= j /\ Inserted(plan.new_route, vehicle[plan.vehicle_id].route, r, i, j)
         /\ engine = "insertion" => Feasible(plan.new_route, vehicle[plan.vehicle_id], age)
         /\ engine = "baseline" => vehicle[plan.vehicle_id].route = <<>>
<1> DEFINE fleet == [v \in owned |-> vehicle[v]]
<1>1. CASE engine = "insertion"
  <2>1. plan \in InsertionPlans(fleet, r, age)
    BY <1>1 DEF Plans
  <2>2. PICK v \in owned :
          /\ plan.vehicle_id = v
          /\ plan.new_route \in Insertions(fleet[v].route, r)
          /\ Feasible(plan.new_route, fleet[v], age)
    BY <2>1 DEF InsertionPlans, Cheapest
  <2>3. fleet[v] = vehicle[v] /\ vehicle[v].route \in Seq(Stop)
    BY ShapeOfVehicle
  <2> HIDE DEF fleet
  <2>4. \E i, j \in 0 .. Len(vehicle[v].route) :
          i <= j /\ Inserted(plan.new_route, vehicle[v].route, r, i, j)
    BY <2>2, <2>3, InsertionsAreInserted
  <2> QED
    BY <1>1, <2>2, <2>3, <2>4
<1>2. CASE engine = "baseline"
  <2>1. plan \in NearestIdlePlans(fleet, r)
    BY <1>2 DEF Plans
  <2>2. PICK v \in owned :
          /\ fleet[v].route = <<>> /\ plan.vehicle_id = v
          /\ plan.new_route = <<Pickup(r), Dropoff(r)>>
    <3> DEFINE Offer(v) == [vehicle_id |-> v, new_route |-> <<Pickup(r), Dropoff(r)>>,
                            added_cost |-> TravelTime(fleet[v].location, Origin[r])]
    <3>1. DOMAIN fleet = owned
      OBVIOUS
    <3> HIDE DEF fleet
    <3>2. PICK v \in {u \in DOMAIN fleet : fleet[u].route = <<>>} : plan = Offer(v)
      BY <2>1, Zenon DEF NearestIdlePlans, Cheapest
    <3>3. v \in owned /\ fleet[v].route = <<>>
      BY <3>1, <3>2
    <3>4. plan.vehicle_id = v /\ plan.new_route = <<Pickup(r), Dropoff(r)>>
      BY <3>2
    <3> QED
      BY <3>3, <3>4
  <2>3. vehicle[v].route = <<>>
    BY <2>2
  <2>4. Inserted(plan.new_route, <<>>, r, 0, 0)
    <3>1. PICK e, f : e = Pickup(r) /\ f = Dropoff(r)
      OBVIOUS
    <3>2. e \in Stop /\ f \in Stop
      BY <3>1, StopType
    <3>3. PICK new : new = <<e, f>>
      OBVIOUS
    <3>4. new \in Seq(Stop) /\ Len(new) = 2 /\ new[1] = e /\ new[2] = f
      BY <3>2, <3>3
    <3>5. ASSUME NEW m \in 1 .. 2
          PROVE  new[m] = IF m <= 0 THEN <<>>[m] ELSE IF m = 0 + 1 THEN e
                          ELSE IF m <= 0 + 1 THEN <<>>[m - 1]
                          ELSE IF m = 0 + 2 THEN f ELSE <<>>[m - 2]
      BY <3>4
    <3>6. Len(<<>>) + 2 = 2
      OBVIOUS
    <3>7. plan.new_route = new
      BY <2>2, <3>1, <3>3
    <3> QED
      BY <3>1, <3>4, <3>5, <3>6, <3>7 DEF Inserted
  <2> QED
    BY <1>2, <2>2, <2>3, <2>4
<1> QED
  BY <1>1, <1>2 DEF Shape

LEMMA DispatchOutcome ==
  ASSUME Shape, NEW owned \in SUBSET Vehicle, NEW r \in Request, Dispatch(owned, r)
  PROVE  /\ status[r] = "pending"
         /\ UNCHANGED <<engine, segment, phase>>
         /\ \/ \E v \in Vehicle : \E i, j \in 0 .. Len(vehicle[v].route), new \in Seq(Stop) :
                 /\ i <= j /\ Inserted(new, vehicle[v].route, r, i, j)
                 /\ engine = "insertion" => Feasible(new, vehicle[v], age)
                 /\ engine = "baseline" => vehicle[v].route = <<>>
                 /\ Booked(v, r, new)
            \/ /\ status' = [status EXCEPT ![r] = "rejected"]
               /\ age' = [age EXCEPT ![r] = 0]
               /\ UNCHANGED <<vehicle, assigned>>
<1>1. status[r] = "pending" /\ UNCHANGED <<engine, segment, phase>>
  BY DEF Dispatch
<1>2. status \in [Request -> {"unborn", "pending", "assigned", "onboard", "completed",
                             "rejected"}] /\ age \in [Request -> 0 .. AgeCap]
  BY DEF Shape
<1>3. age' = [age EXCEPT ![r] = IF status'[r] = "rejected" THEN 0 ELSE @]
  BY DEF Dispatch
<1>4. CASE \E plan \in Plans(owned, r) :
             /\ vehicle' = [vehicle EXCEPT ![plan.vehicle_id].route = plan.new_route,
                                           ![plan.vehicle_id].reposition_target = NoTarget]
             /\ status' = [status EXCEPT ![r] = "assigned"]
             /\ assigned' = [assigned EXCEPT ![r] = plan.vehicle_id]
  <2>1. PICK plan \in Plans(owned, r) :
             /\ vehicle' = [vehicle EXCEPT ![plan.vehicle_id].route = plan.new_route,
                                           ![plan.vehicle_id].reposition_target = NoTarget]
             /\ status' = [status EXCEPT ![r] = "assigned"]
             /\ assigned' = [assigned EXCEPT ![r] = plan.vehicle_id]
    BY <1>4
  <2>2. PICK v, new : v = plan.vehicle_id /\ new = plan.new_route
    OBVIOUS
  <2>3. /\ v \in Vehicle
        /\ \E i, j \in 0 .. Len(vehicle[v].route) :
              i <= j /\ Inserted(new, vehicle[v].route, r, i, j)
        /\ engine = "insertion" => Feasible(new, vehicle[v], age)
        /\ engine = "baseline" => vehicle[v].route = <<>>
    BY <2>2, PlansAreInsertions
  <2>4. status'[r] = "assigned"
    BY <1>2, <2>1
  <2>5. age' = age
    BY <1>2, <1>3, <2>4
  <2>6. Booked(v, r, new)
    BY <2>1, <2>2, <2>5 DEF Booked
  <2>7. PICK i \in 0 .. Len(vehicle[v].route), j \in 0 .. Len(vehicle[v].route) :
          i <= j /\ Inserted(new, vehicle[v].route, r, i, j)
    BY <2>3
  <2>8. new \in Seq(Stop)
    BY <2>7 DEF Inserted
  <2> QED
    BY <1>1, <2>3, <2>6, <2>7, <2>8
<1>5. CASE /\ status' = [status EXCEPT ![r] = "rejected"]
           /\ UNCHANGED <<vehicle, assigned>>
  <2>1. status'[r] = "rejected"
    BY <1>2, <1>5
  <2> QED
    BY <1>1, <1>3, <1>5, <2>1
<1> QED
  BY <1>4, <1>5 DEF Dispatch

LEMMA OnboardNat ==
  ASSUME Shape, NEW v \in Vehicle, NEW k \in 0 .. Len(vehicle[v].route)
  PROVE  Onboard(v)[k] \in Nat
<1> DEFINE n == Len(vehicle[v].route)
           Fine == {i \in 0 .. n : Onboard(v)[i] \in Nat}
<1>1. /\ vehicle[v].route \in Seq(Stop) /\ n \in Nat
      /\ vehicle[v].onboard \in Nat /\ vehicle[v].onboard \in Int
  BY ShapeOfVehicle
<1>2. /\ Onboard(v)[0] = vehicle[v].onboard
      /\ \A i \in 1 .. n : Onboard(v)[i] = OnboardAfter(vehicle[v].route[i], Onboard(v)[i - 1])
  BY <1>1, OnboardSteps
<1>3. 0 \in Fine
  BY <1>1, <1>2
<1>4. ASSUME NEW i \in 1 .. n, i - 1 \in Fine PROVE i \in Fine
  <2>1. Onboard(v)[i - 1] \in Nat
    BY <1>4
  <2>2. vehicle[v].route[i] \in Stop
    BY <1>1
  <2>3. PartySize[vehicle[v].route[i].request] \in Nat
    BY <2>2, PlaceType, DemandAssumption
  <2>4. OnboardAfter(vehicle[v].route[i], Onboard(v)[i - 1]) \in Nat
    BY <2>1, <2>3 DEF OnboardAfter
  <2> QED
    BY <1>2, <2>4
<1> HIDE DEF Fine
<1>5. \A i \in 0 .. n : i \in Fine
  BY <1>1, <1>3, <1>4, PositionInduction
<1> QED
  BY <1>5 DEF Fine

\* No step of World serves more stops than there are.
LEMMA ServedStopsType ==
  ASSUME Shape, NEW v \in Vehicle
  PROVE  ServedStops(v) \in 0 .. Len(vehicle[v].route)
<1> DEFINE n == Len(vehicle[v].route)
           served == {i \in DOMAIN Reach(v) : /\ Reach(v)[i] <= MotionDt
                                              /\ i > 1 => Reach(v)[i - 1] < MotionDt}
<1>1. n \in Nat
  BY ShapeOfVehicle
<1>2. DOMAIN Reach(v) = 1 .. n
  BY DEF Reach
<1>3. served \in SUBSET (1 .. n)
  BY <1>2
<1>4. ServedStops(v) = Cardinality(served)
  BY DEF ServedStops
<1> HIDE DEF served
<1>5. IsFiniteSet(1 .. n) /\ Cardinality(1 .. n) = n
  BY <1>1, FS_Interval
<1>6. IsFiniteSet(served) /\ Cardinality(served) <= n
  BY <1>3, <1>5, FS_Subset
<1>7. Cardinality(served) \in Nat
  BY <1>6, FS_CardinalityType
<1> QED
  BY <1>1, <1>4, <1>6, <1>7

\* Where ever the vehicle ends up, the rest of its route and its passengers are these.
LEMMA AdvancedShape ==
  ASSUME NEW v \in Vehicle, NEW k
  PROVE  \E place, heading :
           /\ heading \in {vehicle[v].reposition_target, NoTarget}
           /\ Advanced(v, k).vehicle =
                [location |-> place,
                 route |-> SubSeq(vehicle[v].route, k + 1, Len(vehicle[v].route)),
                 onboard |-> Onboard(v)[k], reposition_target |-> heading]
BY DEF Advanced

\* The stops that v serves in a step of World that serves k of them.
Served(v, k) == {vehicle[v].route[i] : i \in 1 .. k}

LEMMA WorldOutcome ==
  ASSUME Shape, WorldStep
  PROVE  \E k \in [Vehicle -> Nat] :
           /\ \A v \in Vehicle :
                /\ k[v] = ServedStops(v) /\ k[v] \in 0 .. Len(vehicle[v].route)
                /\ vehicle'[v] = Advanced(v, k[v]).vehicle
                /\ segment'[v] = Advanced(v, k[v]).segment
           /\ DOMAIN vehicle' = Vehicle /\ DOMAIN segment' = Vehicle
           /\ vehicle' = [v \in Vehicle |-> vehicle'[v]]
           /\ segment' = [v \in Vehicle |-> segment'[v]]
           /\ status' = [r \in Request |-> StatusAfter(UNION {Served(v, k[v]) : v \in Vehicle}, r)]
           /\ age' = [r \in Request |->
                IF {Pickup(r), Dropoff(r)} \cap UNION {Served(v, k[v]) : v \in Vehicle} # {}
                THEN 0 ELSE age[r]]
           /\ phase = MotionDt /\ phase' = 0 /\ UNCHANGED <<engine, assigned>>
<1>1. PICK k : k = [v \in Vehicle |-> ServedStops(v)]
  OBVIOUS
<1>2. ASSUME NEW v \in Vehicle
      PROVE  k[v] = ServedStops(v) /\ k[v] \in 0 .. Len(vehicle[v].route)
  BY <1>1, ServedStopsType
<1>3. k \in [Vehicle -> Nat]
  BY <1>1, <1>2
<1>4. /\ vehicle' = [v \in Vehicle |-> Advanced(v, k[v]).vehicle]
      /\ segment' = [v \in Vehicle |-> Advanced(v, k[v]).segment]
      /\ status' = [r \in Request |-> StatusAfter(UNION {Served(v, k[v]) : v \in Vehicle}, r)]
      /\ age' = [r \in Request |->
           IF {Pickup(r), Dropoff(r)} \cap UNION {Served(v, k[v]) : v \in Vehicle} # {}
           THEN 0 ELSE age[r]]
      /\ phase = MotionDt /\ phase' = 0 /\ UNCHANGED <<engine, assigned>>
  <2> DEFINE Outcome(stops) ==
        LET moved  == [v \in Vehicle |-> Advanced(v, stops[v])]
            served == UNION {{vehicle[v].route[i] : i \in 1 .. stops[v]} : v \in Vehicle}
        IN  /\ vehicle' = [v \in Vehicle |-> moved[v].vehicle]
            /\ segment' = [v \in Vehicle |-> moved[v].segment]
            /\ status' = [r \in Request |-> StatusAfter(served, r)]
            /\ age' = [r \in Request |->
                 IF {Pickup(r), Dropoff(r)} \cap served # {} THEN 0 ELSE age[r]]
  <2>1. /\ phase = MotionDt /\ phase' = 0 /\ UNCHANGED <<engine, assigned>>
        /\ \E stops \in {[v \in Vehicle |-> ServedStops(v)]} : Outcome(stops)
    BY DEF WorldStep
  <2> HIDE DEF Outcome
  <2>2. Outcome(k)
    BY <1>1, <2>1
  <2>3. /\ vehicle' = [v \in Vehicle |-> [u \in Vehicle |-> Advanced(u, k[u])][v].vehicle]
        /\ segment' = [v \in Vehicle |-> [u \in Vehicle |-> Advanced(u, k[u])][v].segment]
    BY <2>2 DEF Outcome
  <2>4. \A v \in Vehicle : [u \in Vehicle |-> Advanced(u, k[u])][v] = Advanced(v, k[v])
    OBVIOUS
  <2>5. /\ vehicle' = [v \in Vehicle |-> Advanced(v, k[v]).vehicle]
        /\ segment' = [v \in Vehicle |-> Advanced(v, k[v]).segment]
    BY <2>3, <2>4
  <2>6. /\ status' = [r \in Request |-> StatusAfter(UNION {Served(v, k[v]) : v \in Vehicle}, r)]
        /\ age' = [r \in Request |->
             IF {Pickup(r), Dropoff(r)} \cap UNION {Served(v, k[v]) : v \in Vehicle} # {}
             THEN 0 ELSE age[r]]
    BY <2>2, Zenon DEF Outcome, Served
  <2> QED
    BY <2>1, <2>5, <2>6
<1> QED
  BY <1>2, <1>3, <1>4

LEMMA BookedVehicle ==
  ASSUME Shape, NEW v \in Vehicle, NEW r \in Request, NEW new \in Seq(Stop), Booked(v, r, new)
  PROVE  /\ \E places : vehicle' \in [Vehicle -> VehicleAt(places)]
         /\ vehicle'[v].route = new /\ vehicle'[v].reposition_target = NoTarget
         /\ vehicle'[v].location = vehicle[v].location /\ vehicle'[v].onboard = vehicle[v].onboard
         /\ \A u \in Vehicle \ {v} : vehicle'[u] = vehicle[u]
<1>1. PICK places : vehicle \in [Vehicle -> VehicleAt(places)]
  BY DEF Shape
<1>2. vehicle' = [vehicle EXCEPT ![v].route = new, ![v].reposition_target = NoTarget]
  BY DEF Booked
<1>3. /\ vehicle'[v] = [vehicle[v] EXCEPT !.route = new, !.reposition_target = NoTarget]
      /\ \A u \in Vehicle \ {v} : vehicle'[u] = vehicle[u]
      /\ DOMAIN vehicle' = Vehicle /\ vehicle' = [u \in Vehicle |-> vehicle'[u]]
  BY <1>1, <1>2
<1>4. vehicle[v] \in VehicleAt(places) /\ \A u \in Vehicle : vehicle[u] \in VehicleAt(places)
  BY <1>1
<1>5. /\ vehicle'[v].route = new /\ vehicle'[v].reposition_target = NoTarget
      /\ vehicle'[v].location = vehicle[v].location /\ vehicle'[v].onboard = vehicle[v].onboard
      /\ vehicle'[v] \in VehicleAt(places)
  BY <1>3, <1>4 DEF VehicleAt
<1>6. vehicle' \in [Vehicle -> VehicleAt(places)]
  BY <1>1, <1>2 DEF VehicleAt
<1> QED
  BY <1>3, <1>5, <1>6

\* The rest of a route, stop by stop.
LEMMA RestOfRoute ==
  ASSUME NEW route \in Seq(Stop), NEW k \in 0 .. Len(route), NEW rest,
         rest = SubSeq(route, k + 1, Len(route))
  PROVE  /\ rest \in Seq(Stop) /\ Len(rest) = Len(route) - k
         /\ \A i \in 1 .. Len(rest) : rest[i] = route[k + i]
         /\ rest # <<>> => route # <<>>
<1>1. /\ rest \in Seq(Stop) /\ Len(rest) = Len(route) - k
      /\ \A i \in 1 .. Len(rest) : rest[i] = route[k + i]
  OBVIOUS
<1>2. route = <<>> => rest = <<>>
  BY <1>1
<1> QED
  BY <1>1, <1>2

LEMMA MovedVehicle ==
  ASSUME Shape, NEW v \in Vehicle, NEW k \in 0 .. Len(vehicle[v].route),
         vehicle'[v] = Advanced(v, k).vehicle
  PROVE  /\ vehicle'[v] \in VehicleAt({vehicle'[v].location})
         /\ vehicle'[v].route = SubSeq(vehicle[v].route, k + 1, Len(vehicle[v].route))
         /\ vehicle'[v].route \in Seq(Stop)
         /\ Len(vehicle'[v].route) = Len(vehicle[v].route) - k
         /\ \A i \in 1 .. Len(vehicle'[v].route) : vehicle'[v].route[i] = vehicle[v].route[k + i]
         /\ vehicle'[v].route # <<>> => vehicle[v].route # <<>>
         /\ vehicle'[v].onboard = Onboard(v)[k]
         /\ vehicle'[v].reposition_target \in {vehicle[v].reposition_target, NoTarget}
<1>1. PICK place, heading :
           /\ heading \in {vehicle[v].reposition_target, NoTarget}
           /\ Advanced(v, k).vehicle =
                [location |-> place,
                 route |-> SubSeq(vehicle[v].route, k + 1, Len(vehicle[v].route)),
                 onboard |-> Onboard(v)[k], reposition_target |-> heading]
  BY AdvancedShape
<1>2. PICK w : w = vehicle'[v]
  OBVIOUS
<1>3. PICK route, rest : route = vehicle[v].route /\ rest = SubSeq(route, k + 1, Len(route))
  OBVIOUS
<1>4. /\ route \in Seq(Stop) /\ vehicle[v].reposition_target \in Int \cup {NoTarget}
      /\ k \in 0 .. Len(route)
  BY <1>3, ShapeOfVehicle
<1>5. /\ rest \in Seq(Stop) /\ Len(rest) = Len(route) - k
      /\ \A i \in 1 .. Len(rest) : rest[i] = route[k + i]
      /\ rest # <<>> => route # <<>>
  BY ZenonT(30), <1>3, <1>4, RestOfRoute
<1>6. PICK n : n = Onboard(v)[k] /\ n \in Nat
  BY OnboardNat
<1>7. w = [location |-> place, route |-> rest, onboard |-> n, reposition_target |-> heading]
  BY <1>1, <1>2, <1>3, <1>6
<1>8. /\ w.location = place /\ w.route = rest /\ w.onboard = n /\ w.reposition_target = heading
      /\ w \in VehicleAt({w.location})
  BY <1>1, <1>4, <1>5, <1>6, <1>7 DEF VehicleAt
<1> QED
  BY <1>1, <1>2, <1>3, <1>5, <1>6, <1>8

LEMMA ShapeInit == Init => Shape
<1> SUFFICES ASSUME Init PROVE Shape
  OBVIOUS
<1>1. engine \in {"insertion", "baseline"}
  BY FleetAssumption DEF Init
<1>2. vehicle \in [Vehicle -> VehicleAt(Int)]
  BY FleetAssumption DEF Init, VehicleAt
<1>3. AgeCap \in Nat /\ MotionDt \in Nat
  BY FleetAssumption
<1> QED
  BY <1>1, <1>2, <1>3 DEF Init, Shape

LEMMA ShapeStep == Shape /\ [Next]_vars => Shape'
<1> SUFFICES ASSUME Shape, [Next]_vars PROVE Shape'
  OBVIOUS
<1>1. CASE Tick
  <2>1. AgeCap \in Nat /\ MaxWait \in Nat /\ MotionDt \in Nat /\ AgeCap > MaxWait + MotionDt
    BY FleetAssumption, DemandAssumption
  <2>2. ASSUME NEW r \in Request
        PROVE  (IF age[r] < Oldest(r) THEN age[r] + 1 ELSE age[r]) \in 0 .. AgeCap
    <3>1. Oldest(r) \in Nat /\ Oldest(r) <= AgeCap
      <4> MotionDt # 0
        BY FleetAssumption
      <4> QED
        BY <2>1 DEF Oldest
    <3>2. age[r] \in 0 .. AgeCap
      BY DEF Shape
    <3> QED
      BY <2>1, <3>1, <3>2
  <2>3. age' \in [Request -> 0 .. AgeCap]
    BY <1>1, <2>2 DEF Tick
  <2>4. phase' \in 0 .. MotionDt
    BY <1>1, <2>1 DEF Tick, Shape
  <2> QED
    BY <1>1, <2>3, <2>4 DEF Tick, Shape
<1>2. ASSUME NEW r \in Request, Emit(r) PROVE Shape'
  BY <1>2 DEF Emit, Shape
<1>3. ASSUME NEW owned \in SUBSET Vehicle, NEW r \in Request, Dispatch(owned, r) PROVE Shape'
  <2>1. UNCHANGED <<engine, phase>>
    BY <1>3, DispatchOutcome
  <2>2. CASE /\ status' = [status EXCEPT ![r] = "rejected"]
             /\ age' = [age EXCEPT ![r] = 0]
             /\ UNCHANGED <<vehicle, assigned>>
    <3>1. AgeCap \in Nat
      BY FleetAssumption
    <3> QED
      BY <2>1, <2>2, <3>1 DEF Shape
  <2>3. ASSUME NEW v \in Vehicle, NEW new \in Seq(Stop), Booked(v, r, new)
        PROVE  Shape'
    <3>1. \E places : vehicle' \in [Vehicle -> VehicleAt(places)]
      BY <2>3, BookedVehicle
    <3>2. /\ status' = [status EXCEPT ![r] = "assigned"]
          /\ assigned' = [assigned EXCEPT ![r] = v]
          /\ age' = age
      BY <2>3 DEF Booked
    <3> QED
      BY <2>1, <3>1, <3>2 DEF Shape
  <2> QED
    BY <1>3, <2>2, <2>3, DispatchOutcome
<1>4. ASSUME NEW v \in Vehicle, NEW r \in Request, Rebalance(v, r) PROVE Shape'
  <2>1. PICK places : vehicle \in [Vehicle -> VehicleAt(places)]
    BY DEF Shape
  <2>2. CellCenter[r] \in Int
    BY FleetAssumption
  <2>3. vehicle' = [vehicle EXCEPT ![v].reposition_target = CellCenter[r]]
    BY <1>4 DEF Rebalance
  <2>4. vehicle' \in [Vehicle -> VehicleAt(places)]
    BY <2>1, <2>2, <2>3 DEF VehicleAt
  <2> QED
    BY <1>4, <2>4 DEF Rebalance, Shape
<1>5. CASE WorldStep
  <2>1. PICK k \in [Vehicle -> Nat] :
           /\ \A v \in Vehicle :
                /\ k[v] \in 0 .. Len(vehicle[v].route)
                /\ vehicle'[v] = Advanced(v, k[v]).vehicle
           /\ vehicle' = [v \in Vehicle |-> vehicle'[v]]
           /\ status' = [r \in Request |-> StatusAfter(UNION {Served(v, k[v]) : v \in Vehicle}, r)]
           /\ age' = [r \in Request |->
                IF {Pickup(r), Dropoff(r)} \cap UNION {Served(v, k[v]) : v \in Vehicle} # {}
                THEN 0 ELSE age[r]]
           /\ phase' = 0 /\ UNCHANGED <<engine, assigned>>
    BY <1>5, WorldOutcome
  <2> DEFINE places == {vehicle'[v].location : v \in Vehicle}
  <2>2. ASSUME NEW v \in Vehicle PROVE vehicle'[v] \in VehicleAt(places)
    <3>1. vehicle'[v] \in VehicleAt({vehicle'[v].location})
      BY <2>1, MovedVehicle
    <3> QED
      BY <3>1 DEF VehicleAt
  <2> HIDE DEF places
  <2>3. vehicle' \in [Vehicle -> VehicleAt(places)]
    BY <2>1, <2>2
  <2>4. status' \in [Request -> {"unborn", "pending", "assigned", "onboard", "completed",
                                 "rejected"}]
    BY <2>1 DEF Shape, StatusAfter
  <2>5. age' \in [Request -> 0 .. AgeCap] /\ phase' \in 0 .. MotionDt
    BY <2>1, FleetAssumption DEF Shape
  <2> QED
    BY <2>1, <2>3, <2>4, <2>5 DEF Shape
<1>6. CASE UNCHANGED vars
  BY <1>6 DEF vars, Shape
<1> QED
  BY <1>1, <1>2, <1>3, <1>4, <1>5, <1>6 DEF Next

LEMMA ShapeAlways == Spec => []Shape
BY ShapeInit, ShapeStep, PTL DEF Spec

-----------------------------------------------------------------------------
(***************************************************************************)
(* Deadheading.                                                            *)
(***************************************************************************)
\* The step that gives a vehicle a route takes its reposition target away, and only
\* an idle vehicle gets one (worker.py, _try_dispatch and _rebalance_idle).
THEOREM OnlyTheIdleDeadhead == Spec => []DeadheadOnlyWhenIdle
<1>1. Init => DeadheadOnlyWhenIdle
  BY DEF Init, DeadheadOnlyWhenIdle
<1>2. Shape /\ DeadheadOnlyWhenIdle /\ [Next]_vars => DeadheadOnlyWhenIdle'
  <2> SUFFICES ASSUME Shape, DeadheadOnlyWhenIdle, [Next]_vars,
                      NEW u \in Vehicle, vehicle'[u].route # <<>>
               PROVE  vehicle'[u].reposition_target = NoTarget
    BY DEF DeadheadOnlyWhenIdle
  <2>1. ASSUME UNCHANGED vehicle PROVE vehicle'[u].reposition_target = NoTarget
    BY <2>1 DEF DeadheadOnlyWhenIdle
  <2>2. CASE Tick \/ \E r \in Request : Emit(r)
    BY <2>1, <2>2 DEF Tick, Emit
  <2>3. ASSUME NEW owned \in SUBSET Vehicle, NEW r \in Request, Dispatch(owned, r)
        PROVE  vehicle'[u].reposition_target = NoTarget
    <3>1. ASSUME NEW v \in Vehicle, NEW new \in Seq(Stop), Booked(v, r, new)
          PROVE  vehicle'[u].reposition_target = NoTarget
      <4>1. CASE u = v
        BY <3>1, <4>1, BookedVehicle
      <4>2. CASE u # v
        <5>1. vehicle'[u] = vehicle[u]
          BY <3>1, <4>2, BookedVehicle
        <5> QED
          BY <5>1 DEF DeadheadOnlyWhenIdle
      <4> QED
        BY <4>1, <4>2
    <3> QED
      BY <2>1, <2>3, <3>1, DispatchOutcome
  <2>4. ASSUME NEW v \in Vehicle, NEW r \in Request, Rebalance(v, r)
        PROVE  vehicle'[u].reposition_target = NoTarget
    <3>1. PICK places : vehicle \in [Vehicle -> VehicleAt(places)]
      BY DEF Shape
    <3>2. vehicle' = [vehicle EXCEPT ![v].reposition_target = CellCenter[r]]
          /\ vehicle[v].route = <<>>
      BY <2>4 DEF Rebalance
    <3>3. u # v => vehicle'[u] = vehicle[u]
      BY <3>1, <3>2
    <3>4. vehicle'[v].route = <<>>
      <4>1. vehicle[v] \in VehicleAt(places)
        BY <3>1
      <4>2. vehicle'[v] = [vehicle[v] EXCEPT !.reposition_target = CellCenter[r]]
        BY <3>1, <3>2
      <4> QED
        BY <3>2, <4>1, <4>2 DEF VehicleAt
    <3> QED
      BY <3>3, <3>4 DEF DeadheadOnlyWhenIdle
  <2>5. CASE WorldStep
    <3>1. PICK k \in [Vehicle -> Nat] :
            k[u] \in 0 .. Len(vehicle[u].route) /\ vehicle'[u] = Advanced(u, k[u]).vehicle
      BY <2>5, WorldOutcome
    <3>2. /\ vehicle'[u].route # <<>> => vehicle[u].route # <<>>
          /\ vehicle'[u].reposition_target \in {vehicle[u].reposition_target, NoTarget}
      BY <3>1, MovedVehicle
    <3> QED
      BY <3>2 DEF DeadheadOnlyWhenIdle
  <2>6. CASE UNCHANGED vars
    BY <2>1, <2>6 DEF vars
  <2> QED
    BY <2>2, <2>3, <2>4, <2>5, <2>6 DEF Next
<1> QED
  BY <1>1, <1>2, ShapeAlways, PTL DEF Spec

-----------------------------------------------------------------------------
(***************************************************************************)
(* Routes serve bookings.                                                  *)
(***************************************************************************)
LEMMA StopKinds ==
  /\ \A s \in Stop : s.request \in Request /\ s \in {Pickup(s.request), Dropoff(s.request)}
  /\ \A r, q \in Request : Pickup(r) = Pickup(q) => r = q
  /\ \A r, q \in Request : Dropoff(r) = Dropoff(q) => r = q
  /\ \A r, q \in Request : Pickup(r) # Dropoff(q)
  /\ \A r \in Request : Pickup(r).stop_type = "pickup" /\ Dropoff(r).stop_type = "dropoff"
                        /\ Pickup(r).request = r /\ Dropoff(r).request = r
BY DEF Stop, Pickup, Dropoff

\* The route serves those who wait and those who ride, each stop once and in order.
RouteFits(route, waiting, aboard) ==
  /\ \A i, j \in 1 .. Len(route) : route[i] = route[j] => i = j
  /\ \A i \in 1 .. Len(route), r \in Request : route[i] = Pickup(r) => r \in waiting
  /\ \A i \in 1 .. Len(route), r \in Request : route[i] = Dropoff(r) => r \in waiting \cup aboard
  /\ \A r \in waiting : \E i \in 1 .. Len(route) : route[i] = Pickup(r)
  /\ \A r \in waiting \cup aboard : \E i \in 1 .. Len(route) : route[i] = Dropoff(r)
  /\ \A i, j \in 1 .. Len(route), r \in Request :
       route[i] = Dropoff(r) /\ route[j] = Pickup(r) => j < i

\* Apart from positions p and d, new[m] is the stop old[m] of the route.
OldPositions(old, new, route, p, d) ==
  /\ old \in [1 .. Len(new) -> 0 .. Len(route)]
  /\ \A m \in 1 .. Len(new) : m \notin {p, d} =>
       old[m] \in 1 .. Len(route) /\ new[m] = route[old[m]]
  /\ \A l, m \in (1 .. Len(new)) \ {p, d} : l < m <=> old[l] < old[m]
  /\ \A o \in 1 .. Len(route) : \E m \in (1 .. Len(new)) \ {p, d} : old[m] = o

LEMMA InsertedPositions ==
  ASSUME NEW route \in Seq(Stop), NEW r \in Request, NEW new,
         NEW i \in 0 .. Len(route), NEW j \in 0 .. Len(route), i <= j,
         Inserted(new, route, r, i, j)
  PROVE  /\ new \in Seq(Stop) /\ Len(new) = Len(route) + 2
         /\ new[i + 1] = Pickup(r) /\ new[j + 2] = Dropoff(r)
         /\ i + 1 \in 1 .. Len(new) /\ j + 2 \in 1 .. Len(new)
         /\ \E old : OldPositions(old, new, route, i + 1, j + 2)
<1> DEFINE n == Len(route)
           old == [m \in 1 .. n + 2 |-> IF m <= i THEN m
                                        ELSE IF m = i + 1 THEN 0
                                        ELSE IF m <= j + 1 THEN m - 1
                                        ELSE IF m = j + 2 THEN 0
                                        ELSE m - 2]
<1>1. n \in Nat /\ new \in Seq(Stop) /\ Len(new) = n + 2
  BY DEF Inserted
<1>2. new[i + 1] = Pickup(r) /\ new[j + 2] = Dropoff(r)
  BY <1>1 DEF Inserted
<1>3. old \in [1 .. n + 2 -> 0 .. n]
  BY <1>1
<1>4. ASSUME NEW m \in 1 .. n + 2, m \notin {i + 1, j + 2}
      PROVE  old[m] \in 1 .. n /\ new[m] = route[old[m]]
  BY <1>1, <1>4 DEF Inserted
<1>5. ASSUME NEW l \in (1 .. n + 2) \ {i + 1, j + 2}, NEW m \in (1 .. n + 2) \ {i + 1, j + 2}
      PROVE  l < m <=> old[l] < old[m]
  BY <1>1
<1>6. ASSUME NEW o \in 1 .. n
      PROVE  \E m \in (1 .. n + 2) \ {i + 1, j + 2} : old[m] = o
  <2>1. CASE o <= i
    <3>1. o \in (1 .. n + 2) \ {i + 1, j + 2} /\ old[o] = o
      BY <1>1, <2>1
    <3> QED
      BY <3>1
  <2>2. CASE o > i /\ o <= j
    <3>1. o + 1 \in (1 .. n + 2) \ {i + 1, j + 2} /\ old[o + 1] = o
      BY <1>1, <2>2
    <3> QED
      BY <3>1
  <2>3. CASE o > j
    <3>1. o + 2 \in (1 .. n + 2) \ {i + 1, j + 2} /\ old[o + 2] = o
      BY <1>1, <2>3
    <3> QED
      BY <3>1
  <2> QED
    BY <2>1, <2>2, <2>3
<1> HIDE DEF old
<1>7. OldPositions(old, new, route, i + 1, j + 2)
  BY <1>1, <1>3, <1>4, <1>5, <1>6 DEF OldPositions
<1>8. i + 1 \in 1 .. Len(new) /\ j + 2 \in 1 .. Len(new)
  BY <1>1
<1> QED
  BY <1>1, <1>2, <1>7, <1>8

LEMMA InsertedFits ==
  ASSUME NEW route \in Seq(Stop), NEW W \in SUBSET Request, NEW A \in SUBSET Request,
         RouteFits(route, W, A), NEW r \in Request, r \notin W \cup A, NEW new,
         NEW i \in 0 .. Len(route), NEW j \in 0 .. Len(route), i <= j,
         Inserted(new, route, r, i, j)
  PROVE  RouteFits(new, W \cup {r}, A)
<1> DEFINE N == Len(new)
           p == i + 1
           d == j + 2
<1>1. /\ new \in Seq(Stop) /\ N = Len(route) + 2 /\ N \in Nat
      /\ new[p] = Pickup(r) /\ new[d] = Dropoff(r) /\ p \in 1 .. N /\ d \in 1 .. N /\ p < d
  BY InsertedPositions
<1>a. PICK old : OldPositions(old, new, route, p, d)
  BY InsertedPositions
<1>2. /\ \A m \in 1 .. N : m \notin {p, d} =>
           old[m] \in 1 .. Len(route) /\ new[m] = route[old[m]]
      /\ \A l, m \in (1 .. N) \ {p, d} : l < m <=> old[l] < old[m]
      /\ \A o \in 1 .. Len(route) : \E m \in (1 .. N) \ {p, d} : old[m] = o
  BY <1>a DEF OldPositions
<1> HIDE DEF N, p, d
<1>3. ASSUME NEW m \in (1 .. N) \ {p, d} PROVE new[m] # Pickup(r) /\ new[m] # Dropoff(r)
  <2>1. old[m] \in 1 .. Len(route) /\ new[m] = route[old[m]]
    BY <1>2
  <2> QED
    BY <2>1 DEF RouteFits
<1>4. ASSUME NEW l \in 1 .. N, NEW m \in 1 .. N, new[l] = new[m] PROVE l = m
  <2>1. CASE l \in {p, d} \/ m \in {p, d}
    BY <1>1, <1>3, <1>4, <2>1, StopKinds
  <2>2. CASE l \notin {p, d} /\ m \notin {p, d}
    <3>1. route[old[l]] = route[old[m]] /\ old[l] \in 1 .. Len(route) /\ old[m] \in 1 .. Len(route)
      BY <1>2, <1>4, <2>2
    <3>2. old[l] = old[m]
      BY <3>1 DEF RouteFits
    <3>3. ~(l < m) /\ ~(m < l)
      BY <1>2, <2>2, <3>1, <3>2
    <3> QED
      BY <1>1, <3>3
  <2> QED
    BY <2>1, <2>2
<1>5. ASSUME NEW m \in 1 .. N, NEW q \in Request
      PROVE  /\ new[m] = Pickup(q) => q \in W \cup {r}
             /\ new[m] = Dropoff(q) => q \in (W \cup {r}) \cup A
  <2>1. CASE m \in {p, d}
    BY <1>1, <2>1, StopKinds
  <2>2. CASE m \notin {p, d}
    <3>1. old[m] \in 1 .. Len(route) /\ new[m] = route[old[m]]
      BY <1>2, <2>2
    <3> QED
      BY <3>1 DEF RouteFits
  <2> QED
    BY <2>1, <2>2
<1>6. ASSUME NEW s, NEW o \in 1 .. Len(route), route[o] = s
      PROVE  \E m \in 1 .. N : new[m] = s
  <2>1. PICK m \in (1 .. N) \ {p, d} : old[m] = o
    BY <1>2
  <2>2. new[m] = route[old[m]]
    BY <1>2
  <2> QED
    BY <1>6, <2>1, <2>2
<1>7. ASSUME NEW q \in W \cup {r} PROVE \E m \in 1 .. N : new[m] = Pickup(q)
  <2>1. CASE q = r
    BY <1>1, <2>1
  <2>2. CASE q \in W
    <3>1. PICK o \in 1 .. Len(route) : route[o] = Pickup(q)
      BY <2>2 DEF RouteFits
    <3> QED
      BY <1>6, <3>1
  <2> QED
    BY <2>1, <2>2
<1>8. ASSUME NEW q \in (W \cup {r}) \cup A PROVE \E m \in 1 .. N : new[m] = Dropoff(q)
  <2>1. CASE q = r
    BY <1>1, <2>1
  <2>2. CASE q \in W \cup A
    <3>1. PICK o \in 1 .. Len(route) : route[o] = Dropoff(q)
      BY <2>2 DEF RouteFits
    <3> QED
      BY <1>6, <3>1
  <2> QED
    BY <2>1, <2>2
<1>9. ASSUME NEW l \in 1 .. N, NEW m \in 1 .. N, NEW q \in Request,
             new[l] = Dropoff(q), new[m] = Pickup(q)
      PROVE  m < l
  <2>1. CASE q = r
    <3>1. l = d /\ m = p
      BY <1>1, <1>4, <1>9, <2>1
    <3> QED
      BY <1>1, <3>1
  <2>2. CASE q # r
    <3>1. l \notin {p, d} /\ m \notin {p, d}
      BY <1>1, <1>9, <2>2, StopKinds
    <3>2. /\ route[old[l]] = Dropoff(q) /\ old[l] \in 1 .. Len(route)
          /\ route[old[m]] = Pickup(q) /\ old[m] \in 1 .. Len(route)
      BY <1>2, <1>9, <3>1
    <3>3. old[m] < old[l]
      BY <3>2 DEF RouteFits
    <3> QED
      BY <1>2, <3>1, <3>3
  <2> QED
    BY <2>1, <2>2
<1> QED
  BY <1>4, <1>5, <1>7, <1>8, <1>9 DEF RouteFits, N

\* Who still waits, and who is on board, once the stops in S have been served.
StillWaiting(W, S) == {r \in W : Pickup(r) \notin S}
NowAboard(W, A, S) == {r \in W \cup A : Dropoff(r) \notin S /\ (r \in A \/ Pickup(r) \in S)}

\* The first k stops of a route.
First(route, k) == {route[i] : i \in 1 .. k}

LEMMA RestFits ==
  ASSUME NEW route \in Seq(Stop), NEW W \in SUBSET Request, NEW A \in SUBSET Request,
         W \cap A = {}, RouteFits(route, W, A), NEW k \in 0 .. Len(route), NEW rest,
         Len(rest) = Len(route) - k, \A i \in 1 .. Len(rest) : rest[i] = route[k + i]
  PROVE  RouteFits(rest, StillWaiting(W, First(route, k)), NowAboard(W, A, First(route, k)))
<1> DEFINE n == Len(route)
           S == First(route, k)
<1>1. n \in Nat /\ Len(rest) \in 0 .. n /\ k + Len(rest) = n
  OBVIOUS
<1>2. ASSUME NEW m \in 1 .. n PROVE route[m] \in S <=> m <= k
  BY <1>1 DEF First, RouteFits
<1> HIDE DEF S
<1>3. ASSUME NEW i \in 1 .. Len(rest), NEW j \in 1 .. Len(rest), rest[i] = rest[j] PROVE i = j
  <2>1. k + i \in 1 .. n /\ k + j \in 1 .. n /\ route[k + i] = route[k + j]
    BY <1>1, <1>3
  <2>2. k + i = k + j
    BY <2>1 DEF RouteFits
  <2> QED
    BY <2>2
<1>4. ASSUME NEW i \in 1 .. Len(rest), NEW r \in Request, rest[i] = Pickup(r)
      PROVE  r \in StillWaiting(W, S)
  <2>1. k + i \in 1 .. n /\ route[k + i] = Pickup(r) /\ ~(k + i <= k)
    BY <1>1, <1>4
  <2>2. r \in W /\ Pickup(r) \notin S
    BY <1>2, <2>1 DEF RouteFits
  <2> QED
    BY <2>2 DEF StillWaiting
<1>5. ASSUME NEW i \in 1 .. Len(rest), NEW r \in Request, rest[i] = Dropoff(r)
      PROVE  r \in StillWaiting(W, S) \cup NowAboard(W, A, S)
  <2>1. k + i \in 1 .. n /\ route[k + i] = Dropoff(r) /\ ~(k + i <= k)
    BY <1>1, <1>5
  <2>2. r \in W \cup A /\ Dropoff(r) \notin S
    BY <1>2, <2>1 DEF RouteFits
  <2> QED
    BY <2>2 DEF StillWaiting, NowAboard
<1>6. ASSUME NEW m \in 1 .. n, route[m] \notin S
      PROVE  \E i \in 1 .. Len(rest) : rest[i] = route[m]
  <2>1. ~(m <= k)
    BY <1>2, <1>6
  <2>2. m - k \in 1 .. Len(rest) /\ rest[m - k] = route[k + (m - k)] /\ k + (m - k) = m
    BY <1>1, <2>1
  <2> QED
    BY <2>2
<1>7. ASSUME NEW r \in StillWaiting(W, S) PROVE \E i \in 1 .. Len(rest) : rest[i] = Pickup(r)
  <2>1. r \in W /\ Pickup(r) \notin S
    BY DEF StillWaiting
  <2>2. PICK m \in 1 .. n : route[m] = Pickup(r)
    BY <2>1 DEF RouteFits
  <2> QED
    BY <1>6, <2>1, <2>2
<1>8. ASSUME NEW r \in StillWaiting(W, S) \cup NowAboard(W, A, S)
      PROVE  \E i \in 1 .. Len(rest) : rest[i] = Dropoff(r)
  <2>1. r \in W \cup A /\ r \in Request
    BY DEF StillWaiting, NowAboard
  <2>2. PICK m \in 1 .. n : route[m] = Dropoff(r)
    BY <2>1 DEF RouteFits
  <2>3. Dropoff(r) \notin S
    <3>1. CASE r \in NowAboard(W, A, S)
      BY <3>1 DEF NowAboard
    <3>2. CASE r \in StillWaiting(W, S)
      <4>1. r \in W /\ Pickup(r) \notin S
        BY <3>2 DEF StillWaiting
      <4>2. PICK l \in 1 .. n : route[l] = Pickup(r)
        BY <4>1 DEF RouteFits
      <4>3. l < m
        BY <2>1, <2>2, <4>2 DEF RouteFits
      <4>4. ~(l <= k)
        BY <1>2, <4>1, <4>2
      <4>5. ~(m <= k)
        BY <1>1, <4>3, <4>4
      <4> QED
        BY <1>2, <2>2, <4>5
    <3> QED
      BY <3>1, <3>2
  <2> QED
    BY <1>6, <2>2, <2>3
<1>9. ASSUME NEW i \in 1 .. Len(rest), NEW j \in 1 .. Len(rest), NEW r \in Request,
             rest[i] = Dropoff(r), rest[j] = Pickup(r)
      PROVE  j < i
  <2>1. k + i \in 1 .. n /\ k + j \in 1 .. n /\ route[k + i] = Dropoff(r) /\ route[k + j] = Pickup(r)
    BY <1>1, <1>9
  <2>2. k + j < k + i
    BY <2>1 DEF RouteFits
  <2> QED
    BY <2>2
<1> QED
  BY <1>3, <1>4, <1>5, <1>7, <1>8, <1>9 DEF RouteFits, S

\* Those whom a route serves are finitely many.
LEMMA ServedAreFinite ==
  ASSUME NEW route \in Seq(Stop), NEW W \in SUBSET Request, NEW A \in SUBSET Request,
         RouteFits(route, W, A)
  PROVE  IsFiniteSet(W \cup A)
<1> DEFINE n == Len(route)
           f == [i \in 1 .. n |-> route[i].request]
<1>1. n \in Nat /\ IsFiniteSet(1 .. n)
  BY FS_Interval
<1>2. PICK T : T = {f[i] : i \in 1 .. n}
  OBVIOUS
<1>3. f \in Surjection(1 .. n, T)
  BY <1>2 DEF Surjection
<1> HIDE DEF f
<1>4. IsFiniteSet(T)
  BY <1>1, <1>3, FS_Surjection
<1>5. W \cup A \subseteq T
  <2> SUFFICES ASSUME NEW r \in W \cup A PROVE r \in T
    OBVIOUS
  <2>1. PICK i \in 1 .. n : route[i] = Dropoff(r)
    BY DEF RouteFits
  <2>2. f[i] = r
    BY <2>1, StopKinds DEF f
  <2> QED
    BY <1>2, <2>2
<1> QED
  BY <1>4, <1>5, FS_Subset

\* Every route fits the bookings on its vehicle, and the count its passengers.
RouteOf(v) ==
  /\ RouteFits(vehicle[v].route, Riding(v, "assigned"), Riding(v, "onboard"))
  /\ vehicle[v].onboard = Parties(Riding(v, "onboard"))

\* Whoever is booked or rides does so on a vehicle.
BookedOnVehicle ==
  \A r \in Request : status[r] \in {"assigned", "onboard"} => assigned[r] \in Vehicle

Bookings == (\A v \in Vehicle : RouteOf(v)) /\ BookedOnVehicle

LEMMA RidingType ==
  ASSUME NEW v
  PROVE  /\ Riding(v, "assigned") \in SUBSET Request /\ Riding(v, "onboard") \in SUBSET Request
         /\ Riding(v, "assigned") \cap Riding(v, "onboard") = {}
BY DEF Riding

\* Passengers are counted right, whatever stops have been served, and as the engines
\* planned it.
LEMMA OnboardCountsParties ==
  ASSUME Shape, NEW v \in Vehicle, RouteOf(v)
  PROVE  \A k \in 0 .. Len(vehicle[v].route) :
           /\ Onboard(v)[k] = Parties(NowAboard(Riding(v, "assigned"), Riding(v, "onboard"),
                                                First(vehicle[v].route, k)))
           /\ Load(vehicle[v].onboard, vehicle[v].route)[k] = Onboard(v)[k]
<1>0. PICK route, W, A, load :
        /\ load = Load(vehicle[v].onboard, vehicle[v].route)
        /\ route = vehicle[v].route
        /\ W = Riding(v, "assigned") /\ A = Riding(v, "onboard")
  OBVIOUS
<1>7. W \in SUBSET Request /\ A \in SUBSET Request /\ W \cap A = {}
  BY <1>0, RidingType
<1>8. RouteFits(route, W, A) /\ vehicle[v].onboard = Parties(A)
  BY <1>0 DEF RouteOf
<1> USE <1>7, <1>8
<1> DEFINE n == Len(route)
           Now(k) == NowAboard(W, A, First(route, k))
           Fine == {k \in 0 .. n : Onboard(v)[k] = Parties(Now(k)) /\ load[k] = Parties(Now(k))}
<1>1. route \in Seq(Stop) /\ n \in Nat /\ vehicle[v].onboard \in Int
  BY <1>0, ShapeOfVehicle
<1>2. /\ Onboard(v)[0] = vehicle[v].onboard
      /\ \A i \in 1 .. n : Onboard(v)[i] = OnboardAfter(route[i], Onboard(v)[i - 1])
  BY <1>0, <1>1, OnboardSteps
<1>9. /\ load[0] = vehicle[v].onboard
      /\ \A i \in 1 .. n : load[i] = LoadAfter(route[i], load[i - 1])
  BY <1>0, <1>1, LoadSteps
<1>3. \A k \in 0 .. n : Now(k) \in SUBSET Request /\ Now(k) \subseteq W \cup A /\ IsFiniteSet(Now(k))
  <2>1. IsFiniteSet(W \cup A)
    BY <1>1, ServedAreFinite
  <2>2. \A k \in 0 .. n : Now(k) \in SUBSET Request /\ Now(k) \subseteq W \cup A
    BY DEF NowAboard
  <2> QED
    BY <2>1, <2>2, FS_Subset
<1>4. 0 \in Fine
  <2>1. First(route, 0) = {}
    BY DEF First
  <2>2. Now(0) = A
    BY <2>1 DEF NowAboard
  <2> QED
    BY <1>1, <1>2, <1>9, <2>2
<1>5. ASSUME NEW i \in 1 .. n, i - 1 \in Fine PROVE i \in Fine
  <2>1. PICK before, after : before = Now(i - 1) /\ after = Now(i)
    OBVIOUS
  <2>2. /\ before \in SUBSET Request /\ IsFiniteSet(before)
        /\ after \in SUBSET Request /\ IsFiniteSet(after)
    BY <1>1, <1>3, <2>1
  <2>3. Onboard(v)[i - 1] = Parties(before) /\ load[i - 1] = Parties(before)
    BY <1>5, <2>1
  <2>4. PICK r \in Request : route[i] \in {Pickup(r), Dropoff(r)}
    BY <1>1, StopKinds
  <2>5. First(route, i) = First(route, i - 1) \cup {route[i]}
    BY <1>1 DEF First
  <2>6. ASSUME NEW j \in 1 .. n PROVE route[j] \in First(route, i - 1) <=> j <= i - 1
    BY <1>1 DEF First, RouteFits
  <2>7. CASE route[i] = Pickup(r)
    <3>1. r \in W /\ r \notin A
      BY <2>7 DEF RouteFits
    <3>2. Pickup(r) \notin First(route, i - 1)
      BY <2>6, <2>7
    <3>3. PICK j \in 1 .. n : route[j] = Dropoff(r)
      BY <3>1 DEF RouteFits
    <3>4. i < j
      BY <2>7, <3>3 DEF RouteFits
    <3>5. Dropoff(r) \notin First(route, i - 1)
      BY <1>1, <2>6, <3>3, <3>4
    <3>6. r \notin before
      BY <2>1, <3>1, <3>2 DEF NowAboard
    <3>7. after = before \cup {r}
      BY <2>1, <2>5, <2>7, <3>1, <3>5, StopKinds DEF NowAboard
    <3>8. Parties(after) = Parties(after \ {r}) + PartySize[r]
      BY <2>2, <3>7, PartiesOneMore
    <3>9. after \ {r} = before
      BY <3>6, <3>7
    <3>10. Parties(after) = Parties(before) + PartySize[r]
      BY <3>8, <3>9
    <3>11. Onboard(v)[i] = Parties(before) + PartySize[r]
      BY <1>2, <2>3, <2>7, StopKinds DEF OnboardAfter
    <3>12. load[i] = Parties(before) + PartySize[r]
      BY <1>9, <2>3, <2>7, StopKinds DEF LoadAfter
    <3> QED
      BY <2>1, <3>10, <3>11, <3>12
  <2>8. CASE route[i] = Dropoff(r)
    <3>1. r \in W \cup A
      BY <2>8 DEF RouteFits
    <3>2. Dropoff(r) \notin First(route, i - 1)
      BY <2>6, <2>8
    <3>3. r \in A \/ Pickup(r) \in First(route, i - 1)
      <4> SUFFICES ASSUME r \in W PROVE Pickup(r) \in First(route, i - 1)
        BY <3>1
      <4>1. PICK j \in 1 .. n : route[j] = Pickup(r)
        BY DEF RouteFits
      <4>2. j < i
        BY <2>8, <4>1 DEF RouteFits
      <4>3. j <= i - 1
        BY <4>2
      <4> QED
        BY <2>6, <4>1, <4>3
    <3>4. r \in before
      BY <2>1, <3>1, <3>2, <3>3 DEF NowAboard
    <3>5. after = before \ {r}
      BY <2>1, <2>5, <2>8, StopKinds DEF NowAboard
    <3>6. Parties(before) = Parties(after) + PartySize[r]
      BY <2>2, <3>4, <3>5, PartiesOneMore
    <3>7. Parties(after) \in Nat /\ PartySize[r] \in Nat \ {0}
      BY <2>2, PartiesNat, DemandAssumption
    <3>8. Onboard(v)[i] = IF Parties(before) > PartySize[r] THEN Parties(before) - PartySize[r] ELSE 0
      BY <1>2, <2>3, <2>8, StopKinds DEF OnboardAfter
    <3>9. Onboard(v)[i] = Parties(after)
      BY <3>6, <3>7, <3>8
    <3>10. load[i] = Parties(before) - PartySize[r]
      BY <1>9, <2>3, <2>8, StopKinds DEF LoadAfter
    <3>11. load[i] = Parties(after)
      BY <3>6, <3>7, <3>10
    <3> QED
      BY <2>1, <3>9, <3>11
  <2> QED
    BY <2>4, <2>7, <2>8
<1> HIDE DEF Fine
<1>6. \A k \in 0 .. n : k \in Fine
  BY <1>1, <1>4, <1>5, PositionInduction
<1> QED
  BY <1>0, <1>6 DEF Fine

\* Nothing changes for a vehicle whose requests and route stay as they are.
LEMMA RouteOfKept ==
  ASSUME NEW v \in Vehicle, RouteOf(v), vehicle'[v].route = vehicle[v].route,
         vehicle'[v].onboard = vehicle[v].onboard,
         Riding(v, "assigned")' = Riding(v, "assigned"),
         Riding(v, "onboard")' = Riding(v, "onboard")
  PROVE  RouteOf(v)'
BY DEF RouteOf

LEMMA BookingsInit == Init => Bookings
<1> SUFFICES ASSUME Init PROVE Bookings
  OBVIOUS
<1>1. BookedOnVehicle
  BY DEF Init, BookedOnVehicle
<1>2. ASSUME NEW v \in Vehicle PROVE RouteOf(v)
  <2>1. vehicle[v].route = <<>> /\ vehicle[v].onboard = 0
    BY DEF Init
  <2>2. Riding(v, "assigned") = {} /\ Riding(v, "onboard") = {}
    BY DEF Init, Riding
  <2>3. Len(<<>>) = 0
    OBVIOUS
  <2>4. RouteFits(<<>>, {}, {})
    BY <2>3 DEF RouteFits
  <2> QED
    BY <2>1, <2>2, <2>4, PartiesOfNone DEF RouteOf
<1> QED
  BY <1>1, <1>2 DEF Bookings

LEMMA BookingsDispatch ==
  ASSUME Shape, Bookings, NEW owned \in SUBSET Vehicle, NEW r \in Request, Dispatch(owned, r)
  PROVE  Bookings'
<1>1. status[r] = "pending" /\ status \in [Request -> {"unborn", "pending", "assigned",
        "onboard", "completed", "rejected"}] /\ assigned \in [Request -> Vehicle \cup {NoVehicle}]
  BY DispatchOutcome DEF Shape
<1>2. CASE /\ status' = [status EXCEPT ![r] = "rejected"]
           /\ UNCHANGED <<vehicle, assigned>>
  <2>1. ASSUME NEW v \in Vehicle PROVE RouteOf(v)'
    <3>1. Riding(v, "assigned")' = Riding(v, "assigned") /\ Riding(v, "onboard")' = Riding(v, "onboard")
      BY <1>1, <1>2 DEF Riding
    <3> QED
      BY <1>2, <3>1, RouteOfKept DEF Bookings
  <2>2. BookedOnVehicle'
    BY <1>1, <1>2 DEF Bookings, BookedOnVehicle
  <2> QED
    BY <2>1, <2>2 DEF Bookings
<1>3. ASSUME NEW w \in Vehicle, NEW i \in 0 .. Len(vehicle[w].route),
             NEW j \in 0 .. Len(vehicle[w].route), NEW new \in Seq(Stop),
             i <= j, Inserted(new, vehicle[w].route, r, i, j), Booked(w, r, new)
      PROVE  Bookings'
  <2>1. status' = [status EXCEPT ![r] = "assigned"] /\ assigned' = [assigned EXCEPT ![r] = w]
    BY <1>3 DEF Booked
  <2>2. ASSUME NEW v \in Vehicle, v # w PROVE RouteOf(v)'
    <3>1. Riding(v, "assigned")' = Riding(v, "assigned") /\ Riding(v, "onboard")' = Riding(v, "onboard")
      BY <1>1, <2>1, <2>2 DEF Riding
    <3>2. vehicle'[v] = vehicle[v]
      BY <1>3, <2>2, BookedVehicle
    <3> QED
      BY <3>1, <3>2, RouteOfKept DEF Bookings
  <2>3. RouteOf(w)'
    <3>1. PICK W, A : W = Riding(w, "assigned") /\ A = Riding(w, "onboard")
      OBVIOUS
    <3>2. Riding(w, "assigned")' = W \cup {r} /\ Riding(w, "onboard")' = A
      BY <1>1, <2>1, <3>1 DEF Riding
    <3>3. r \notin W \cup A /\ W \in SUBSET Request /\ A \in SUBSET Request
      BY <1>1, <3>1 DEF Riding
    <3>4. PICK route : route = vehicle[w].route
      OBVIOUS
    <3>5. RouteFits(route, W, A) /\ vehicle[w].onboard = Parties(A) /\ route \in Seq(Stop)
      BY <3>1, <3>4, ShapeOfVehicle DEF Bookings, RouteOf
    <3>6. RouteFits(new, W \cup {r}, A)
      BY <1>3, <3>3, <3>4, <3>5, InsertedFits
    <3>7. vehicle'[w].route = new /\ vehicle'[w].onboard = vehicle[w].onboard
      BY <1>3, BookedVehicle
    <3> QED
      BY <3>2, <3>5, <3>6, <3>7 DEF RouteOf
  <2>4. BookedOnVehicle'
    BY <1>1, <2>1 DEF Bookings, BookedOnVehicle
  <2> QED
    BY <2>2, <2>3, <2>4 DEF Bookings
<1> QED
  BY <1>2, <1>3, DispatchOutcome

\* A step of World serves a request's stops on its own vehicle only.
LEMMA ServedByOwnVehicle ==
  ASSUME Shape, Bookings, NEW k \in [Vehicle -> Nat],
         \A v \in Vehicle : k[v] \in 0 .. Len(vehicle[v].route),
         NEW r \in Request, NEW s \in {Pickup(r), Dropoff(r)}
  PROVE  \A v \in Vehicle :
           s \in First(vehicle[v].route, k[v]) =>
             /\ r \in Riding(v, "assigned") \cup Riding(v, "onboard") /\ assigned[r] = v
             /\ s = Pickup(r) => r \in Riding(v, "assigned")
<1> SUFFICES ASSUME NEW v \in Vehicle, s \in First(vehicle[v].route, k[v])
             PROVE  /\ r \in Riding(v, "assigned") \cup Riding(v, "onboard") /\ assigned[r] = v
                    /\ s = Pickup(r) => r \in Riding(v, "assigned")
  OBVIOUS
<1>1. Len(vehicle[v].route) \in Nat
  BY ShapeOfVehicle
<1>2. PICK i \in 1 .. k[v] : vehicle[v].route[i] = s
  BY DEF First
<1>3. i \in 1 .. Len(vehicle[v].route)
  BY <1>1, <1>2
<1>4. /\ r \in Riding(v, "assigned") \cup Riding(v, "onboard")
      /\ s = Pickup(r) => r \in Riding(v, "assigned")
  BY <1>2, <1>3 DEF Bookings, RouteOf, RouteFits
<1> QED
  BY <1>4 DEF Riding

LEMMA BookingsWorld ==
  ASSUME Shape, Bookings, WorldStep
  PROVE  Bookings'
<1>1. PICK k \in [Vehicle -> Nat] :
        /\ \A v \in Vehicle :
             /\ k[v] \in 0 .. Len(vehicle[v].route)
             /\ vehicle'[v] = Advanced(v, k[v]).vehicle
        /\ status' = [r \in Request |-> StatusAfter(UNION {Served(v, k[v]) : v \in Vehicle}, r)]
        /\ UNCHANGED assigned
  BY WorldOutcome
<1>2. PICK served : served = UNION {First(vehicle[v].route, k[v]) : v \in Vehicle}
  OBVIOUS
<1>3. \A r \in Request : status'[r] = StatusAfter(served, r)
  BY <1>1, <1>2 DEF Served, First
<1>4. status \in [Request -> {"unborn", "pending", "assigned", "onboard", "completed", "rejected"}]
  BY DEF Shape
<1>5. ASSUME NEW v \in Vehicle, NEW r \in Request, assigned[r] = v,
             NEW s \in {Pickup(r), Dropoff(r)}
      PROVE  s \in served <=> s \in First(vehicle[v].route, k[v])
  BY <1>1, <1>2, <1>5, ServedByOwnVehicle
<1>6. ASSUME NEW v \in Vehicle PROVE RouteOf(v)'
  <2>1. PICK route, W, A, S : /\ route = vehicle[v].route
                              /\ W = Riding(v, "assigned") /\ A = Riding(v, "onboard")
                              /\ S = First(route, k[v])
    OBVIOUS
  <2>2. /\ route \in Seq(Stop) /\ k[v] \in 0 .. Len(route) /\ Len(route) \in Nat
        /\ W \in SUBSET Request /\ A \in SUBSET Request /\ W \cap A = {}
        /\ RouteFits(route, W, A) /\ vehicle[v].onboard = Parties(A)
    BY <1>1, <2>1, ShapeOfVehicle, RidingType DEF Bookings, RouteOf
  <2>3. ASSUME NEW r \in W, Dropoff(r) \in S PROVE Pickup(r) \in S
    <3>1. PICK i \in 1 .. k[v] : route[i] = Dropoff(r)
      BY <2>1, <2>3 DEF First
    <3>2. PICK j \in 1 .. Len(route) : route[j] = Pickup(r)
      BY <2>2 DEF RouteFits
    <3>3. i \in 1 .. Len(route) /\ r \in Request
      BY <2>2
    <3>4. j < i
      BY <2>2, <3>1, <3>2, <3>3 DEF RouteFits
    <3>5. j \in 1 .. k[v]
      BY <2>2, <3>1, <3>2, <3>4
    <3> QED
      BY <2>1, <3>2, <3>5 DEF First
  <2>4. ASSUME NEW r \in Request, assigned[r] = v
        PROVE  /\ status'[r] = IF Dropoff(r) \in S THEN "completed"
                               ELSE IF Pickup(r) \in S THEN "onboard" ELSE status[r]
               /\ r \in W <=> status[r] = "assigned"
               /\ r \in A <=> status[r] = "onboard"
               /\ Pickup(r) \in S => r \in W
    <3>1. /\ Dropoff(r) \in served <=> Dropoff(r) \in S
          /\ Pickup(r) \in served <=> Pickup(r) \in S
      BY <1>5, <2>1, <2>4
    <3>2. Pickup(r) \in S => r \in W
      BY <1>1, <2>1, ServedByOwnVehicle
    <3> QED
      BY <1>3, <2>1, <2>4, <3>1, <3>2 DEF StatusAfter, Riding
  <2>5. \A r \in Request : r \in W \cup A => assigned[r] = v
    BY <2>1 DEF Riding
  <2>6. Riding(v, "assigned")' = StillWaiting(W, S)
    <3>1. ASSUME NEW r \in Request
          PROVE  (assigned[r] = v /\ status'[r] = "assigned") <=> (r \in W /\ Pickup(r) \notin S)
      BY <2>3, <2>4, <2>5
    <3> QED
      BY <1>1, <2>2, <3>1 DEF Riding, StillWaiting
  <2>7. Riding(v, "onboard")' = NowAboard(W, A, S)
    <3>1. ASSUME NEW r \in Request
          PROVE  (assigned[r] = v /\ status'[r] = "onboard") <=>
                   (r \in W \cup A /\ Dropoff(r) \notin S /\ (r \in A \/ Pickup(r) \in S))
      BY <2>4, <2>5
    <3> QED
      BY <1>1, <2>2, <3>1 DEF Riding, NowAboard
  <2>8. /\ vehicle'[v].onboard = Onboard(v)[k[v]]
        /\ Len(vehicle'[v].route) = Len(route) - k[v]
        /\ \A i \in 1 .. Len(vehicle'[v].route) : vehicle'[v].route[i] = route[k[v] + i]
    BY <1>1, <2>1, MovedVehicle
  <2>9. PICK rest : rest = vehicle'[v].route
    OBVIOUS
  <2>10. RouteFits(rest, StillWaiting(W, S), NowAboard(W, A, S))
    BY <2>1, <2>2, <2>8, <2>9, RestFits
  <2>11. Onboard(v)[k[v]] = Parties(NowAboard(W, A, S))
    <3>1. RouteOf(v)
      BY DEF Bookings
    <3> QED
      BY <1>1, <2>1, <3>1, OnboardCountsParties
  <2> QED
    BY <2>6, <2>7, <2>8, <2>9, <2>10, <2>11 DEF RouteOf
<1>7. BookedOnVehicle'
  <2> SUFFICES ASSUME NEW r \in Request, status'[r] \in {"assigned", "onboard"}
               PROVE  assigned[r] \in Vehicle
    BY <1>1 DEF BookedOnVehicle
  <2>1. CASE status'[r] = status[r]
    BY <2>1 DEF Bookings, BookedOnVehicle
  <2>2. CASE status'[r] # status[r]
    <3>1. Pickup(r) \in served
      BY <1>3, <2>2 DEF StatusAfter
    <3>2. PICK v \in Vehicle : Pickup(r) \in First(vehicle[v].route, k[v])
      BY <1>2, <3>1
    <3> QED
      BY <1>1, <3>2, ServedByOwnVehicle
  <2> QED
    BY <2>1, <2>2
<1> QED
  BY <1>6, <1>7 DEF Bookings

\* A step that leaves routes, passengers and bookings alone leaves them in agreement.
LEMMA BookingsUndisturbed ==
  ASSUME Shape, Bookings, UNCHANGED assigned,
         \A r \in Request : status'[r] = status[r] \/ {status'[r], status[r]} \subseteq {"unborn", "pending"},
         \A v \in Vehicle : /\ vehicle'[v].route = vehicle[v].route
                            /\ vehicle'[v].onboard = vehicle[v].onboard
  PROVE  Bookings'
<1>1. ASSUME NEW v \in Vehicle PROVE RouteOf(v)'
  <2>1. Riding(v, "assigned")' = Riding(v, "assigned") /\ Riding(v, "onboard")' = Riding(v, "onboard")
    BY DEF Riding
  <2> QED
    BY <2>1, RouteOfKept DEF Bookings
<1>2. BookedOnVehicle'
  BY DEF Bookings, BookedOnVehicle
<1> QED
  BY <1>1, <1>2 DEF Bookings

LEMMA BookingsStep == Shape /\ Bookings /\ [Next]_vars => Bookings'
<1> SUFFICES ASSUME Shape, Bookings, [Next]_vars PROVE Bookings'
  OBVIOUS
<1>1. CASE Tick
  BY <1>1, BookingsUndisturbed DEF Tick
<1>2. ASSUME NEW r \in Request, Emit(r) PROVE Bookings'
  <2>1. status \in [Request -> {"unborn", "pending", "assigned", "onboard", "completed", "rejected"}]
    BY DEF Shape
  <2>2. status' = [status EXCEPT ![r] = "pending"] /\ status[r] = "unborn"
        /\ UNCHANGED <<vehicle, assigned>>
    BY <1>2 DEF Emit
  <2>3. \A q \in Request : status'[q] = status[q] \/ {status'[q], status[q]} \subseteq {"unborn", "pending"}
    BY <2>1, <2>2
  <2> QED
    BY <2>2, <2>3, BookingsUndisturbed
<1>3. ASSUME NEW owned \in SUBSET Vehicle, NEW r \in Request, Dispatch(owned, r) PROVE Bookings'
  BY <1>3, BookingsDispatch
<1>4. ASSUME NEW v \in Vehicle, NEW r \in Request, Rebalance(v, r) PROVE Bookings'
  <2>1. PICK places : vehicle \in [Vehicle -> VehicleAt(places)]
    BY DEF Shape
  <2>2. vehicle' = [vehicle EXCEPT ![v].reposition_target = CellCenter[r]]
        /\ UNCHANGED <<status, assigned>>
    BY <1>4 DEF Rebalance
  <2>3. ASSUME NEW u \in Vehicle
        PROVE  vehicle'[u].route = vehicle[u].route /\ vehicle'[u].onboard = vehicle[u].onboard
    <3>1. vehicle[u] \in VehicleAt(places)
      BY <2>1
    <3>2. vehicle'[u] = IF u = v THEN [vehicle[u] EXCEPT !.reposition_target = CellCenter[r]]
                        ELSE vehicle[u]
      BY <2>1, <2>2
    <3> QED
      BY <3>1, <3>2 DEF VehicleAt
  <2> QED
    BY <2>2, <2>3, BookingsUndisturbed
<1>5. CASE WorldStep
  BY <1>5, BookingsWorld
<1>6. CASE UNCHANGED vars
  BY <1>6, BookingsUndisturbed DEF vars
<1> QED
  BY <1>1, <1>2, <1>3, <1>4, <1>5, <1>6 DEF Next

LEMMA BookingsAlways == Spec => []Bookings
BY BookingsInit, BookingsStep, ShapeAlways, PTL DEF Spec

\* However dispatches and the steps of World interleave, and whatever is still open of
\* the road between them, routes, passengers and requests agree: the vehicle will stop
\* once for everyone who waits or rides, pickup first, and for nobody else, and its
\* count is that of the parties on board (models.py, Vehicle; world.py, _process_stop).
THEOREM RoutesAreOfBookings == Spec => []RoutesServeBookings
<1>1. Shape /\ Bookings => RoutesServeBookings
  <2> SUFFICES ASSUME Shape, Bookings, NEW v \in Vehicle,
                      NEW route, route = vehicle[v].route,
                      NEW W, W = Riding(v, "assigned"), NEW A, A = Riding(v, "onboard")
               PROVE  /\ IsInjective(route)
                      /\ ToSet(route) = {Pickup(r) : r \in W} \cup {Dropoff(r) : r \in W \cup A}
                      /\ \A i, j \in 1 .. Len(route) :
                           route[i].request = route[j].request /\ i < j => route[i].stop_type = "pickup"
                      /\ vehicle[v].onboard = MapThenSumSet(LAMBDA r : PartySize[r], A)
    BY DEF RoutesServeBookings
  <2>1. route \in Seq(Stop) /\ Len(route) \in Nat /\ DOMAIN route = 1 .. Len(route)
    BY ShapeOfVehicle
  <2>2. RouteFits(route, W, A) /\ vehicle[v].onboard = Parties(A)
    BY DEF Bookings, RouteOf
  <2>3. W \in SUBSET Request /\ A \in SUBSET Request
    BY RidingType
  <2>4. IsInjective(route)
    BY <2>1, <2>2 DEF RouteFits, IsInjective
  <2>5. ToSet(route) = {Pickup(r) : r \in W} \cup {Dropoff(r) : r \in W \cup A}
    <3>1. ASSUME NEW s \in ToSet(route)
          PROVE  s \in {Pickup(r) : r \in W} \cup {Dropoff(r) : r \in W \cup A}
      <4>1. PICK i \in 1 .. Len(route) : route[i] = s
        BY <2>1, <3>1 DEF ToSet
      <4>2. PICK r \in Request : s = Pickup(r) \/ s = Dropoff(r)
        BY <2>1, <4>1, StopKinds
      <4>3. CASE s = Pickup(r)
        BY <2>2, <4>1, <4>3 DEF RouteFits
      <4>4. CASE s = Dropoff(r)
        BY <2>2, <4>1, <4>4 DEF RouteFits
      <4> QED
        BY <4>2, <4>3, <4>4
    <3>2. ASSUME NEW r \in W PROVE Pickup(r) \in ToSet(route)
      <4>1. PICK i \in 1 .. Len(route) : route[i] = Pickup(r)
        BY <2>2 DEF RouteFits
      <4> QED
        BY <2>1, <4>1 DEF ToSet
    <3>3. ASSUME NEW r \in W \cup A PROVE Dropoff(r) \in ToSet(route)
      <4>1. PICK i \in 1 .. Len(route) : route[i] = Dropoff(r)
        BY <2>2 DEF RouteFits
      <4> QED
        BY <2>1, <4>1 DEF ToSet
    <3> QED
      BY <3>1, <3>2, <3>3
  <2>6. ASSUME NEW i \in 1 .. Len(route), NEW j \in 1 .. Len(route),
               route[i].request = route[j].request, i < j
        PROVE  route[i].stop_type = "pickup"
    <3>1. PICK r \in Request : r = route[i].request
      BY <2>1, StopKinds
    <3>2. route[i] \in {Pickup(r), Dropoff(r)} /\ route[j] \in {Pickup(r), Dropoff(r)}
      BY <2>1, <2>6, <3>1, StopKinds
    <3>3. route[i] # route[j]
      BY <2>2, <2>6 DEF RouteFits
    <3>4. route[i] = Dropoff(r) => route[j] = Pickup(r)
      BY <3>2, <3>3
    <3>5. route[i] # Dropoff(r)
      BY <2>2, <2>6, <3>4 DEF RouteFits
    <3> QED
      BY <3>2, <3>5, StopKinds
  <2> QED
    BY <2>2, <2>4, <2>5, <2>6 DEF Parties
<1> QED
  BY <1>1, BookingsAlways, ShapeAlways, PTL

-----------------------------------------------------------------------------
(***************************************************************************)
(* The baseline.                                                           *)
(***************************************************************************)
\* Under the baseline all stops of a route are one request's.
Alone(route) ==
  \A i, j \in 1 .. Len(route) : route[i].request = route[j].request

ServedAlone == engine = "baseline" => \A v \in Vehicle : Alone(vehicle[v].route)

LEMMA ServedAloneStep == Shape /\ ServedAlone /\ [Next]_vars => ServedAlone'
<1> SUFFICES ASSUME Shape, ServedAlone, [Next]_vars, engine' = "baseline", NEW u \in Vehicle
             PROVE  Alone(vehicle'[u].route)
  BY DEF ServedAlone
<1>1. ASSUME engine' = engine, vehicle'[u].route = vehicle[u].route
      PROVE  Alone(vehicle'[u].route)
  BY <1>1 DEF ServedAlone
<1>2. CASE Tick \/ (\E r \in Request : Emit(r)) \/ UNCHANGED vars
  BY <1>1, <1>2 DEF Tick, Emit, vars
<1>3. ASSUME NEW owned \in SUBSET Vehicle, NEW r \in Request, Dispatch(owned, r)
      PROVE  Alone(vehicle'[u].route)
  <2>1. ASSUME NEW v \in Vehicle, NEW new \in Seq(Stop), Booked(v, r, new),
               NEW i \in 0 .. Len(vehicle[v].route), NEW j \in 0 .. Len(vehicle[v].route), i <= j,
               Inserted(new, vehicle[v].route, r, i, j), vehicle[v].route = <<>>, engine' = engine
        PROVE  Alone(vehicle'[u].route)
    <3>1. Len(vehicle[v].route) = 0 /\ i = 0 /\ j = 0
      BY <2>1
    <3>2. Len(new) = 2 /\ new[1] = Pickup(r) /\ new[2] = Dropoff(r)
      BY <2>1, <3>1 DEF Inserted
    <3>3. Alone(new)
      BY <3>2, StopKinds DEF Alone
    <3>4. CASE u = v
      BY <2>1, <3>3, <3>4, BookedVehicle
    <3>5. CASE u # v
      <4>1. vehicle'[u] = vehicle[u]
        BY <2>1, <3>5, BookedVehicle
      <4> QED
        BY <1>1, <2>1, <4>1
    <3> QED
      BY <3>4, <3>5
  <2>2. engine' = engine
    BY <1>3, DispatchOutcome
  <2> QED
    <3>1. engine = "baseline"
      BY <2>2
    <3>2. CASE UNCHANGED vehicle
      BY <1>1, <2>2, <3>2
    <3>3. ASSUME NEW v \in Vehicle, NEW i \in 0 .. Len(vehicle[v].route),
                 NEW j \in 0 .. Len(vehicle[v].route), NEW new \in Seq(Stop),
                 i <= j, Inserted(new, vehicle[v].route, r, i, j), Booked(v, r, new),
                 engine = "baseline" => vehicle[v].route = <<>>
          PROVE  Alone(vehicle'[u].route)
      BY <2>1, <2>2, <3>1, <3>3
    <3> QED
      BY <1>3, <3>2, <3>3, DispatchOutcome
<1>4. ASSUME NEW v \in Vehicle, NEW r \in Request, Rebalance(v, r)
      PROVE  Alone(vehicle'[u].route)
  <2>1. PICK places : vehicle \in [Vehicle -> VehicleAt(places)]
    BY DEF Shape
  <2>2. vehicle' = [vehicle EXCEPT ![v].reposition_target = CellCenter[r]] /\ engine' = engine
    BY <1>4 DEF Rebalance
  <2>3. vehicle[u] \in VehicleAt(places)
    BY <2>1
  <2>4. vehicle'[u] = IF u = v THEN [vehicle[u] EXCEPT !.reposition_target = CellCenter[r]]
                      ELSE vehicle[u]
    BY <2>1, <2>2
  <2>5. vehicle'[u].route = vehicle[u].route
    BY <2>3, <2>4 DEF VehicleAt
  <2> QED
    BY <1>1, <2>2, <2>5
<1>5. CASE WorldStep
  <2>1. PICK k \in [Vehicle -> Nat] :
          /\ k[u] \in 0 .. Len(vehicle[u].route) /\ vehicle'[u] = Advanced(u, k[u]).vehicle
          /\ engine' = engine
    BY <1>5, WorldOutcome
  <2>2. PICK route, rest, n : route = vehicle[u].route /\ rest = vehicle'[u].route /\ n = k[u]
    OBVIOUS
  <2>3. /\ Len(rest) = Len(route) - n /\ n \in 0 .. Len(route) /\ Len(route) \in Nat
        /\ \A i \in 1 .. Len(rest) : rest[i] = route[n + i]
    BY <2>1, <2>2, MovedVehicle, ShapeOfVehicle
  <2>4. Alone(route)
    BY <2>1, <2>2 DEF ServedAlone
  <2>5. \A i \in 1 .. Len(rest) : n + i \in 1 .. Len(route)
    BY <2>3
  <2>6. Alone(rest)
    BY <2>3, <2>4, <2>5 DEF Alone
  <2> QED
    BY <2>2, <2>6
<1> QED
  BY <1>2, <1>3, <1>4, <1>5 DEF Next

\* The baseline books a vehicle only when its route is empty, and the route is empty
\* only when nobody waits for it or rides it: no vehicle ever has two passengers'
\* requests, whatever the other workers and World do meanwhile (baseline.py:3-5).
THEOREM TheBaselineNeverPools == Spec => []BaselineDoesNotPool
<1>1. Init => ServedAlone
  <2>1. Len(<<>>) = 0
    OBVIOUS
  <2> QED
    BY <2>1 DEF Init, ServedAlone, Alone
<1>2. Spec => []ServedAlone
  BY <1>1, ServedAloneStep, ShapeAlways, PTL DEF Spec
<1>3. Shape /\ Bookings /\ ServedAlone => BaselineDoesNotPool
  <2> SUFFICES ASSUME Shape, Bookings, ServedAlone, engine = "baseline", NEW v \in Vehicle,
                      NEW S, S = Riding(v, "assigned") \cup Riding(v, "onboard")
               PROVE  Cardinality(S) <= 1
    BY DEF BaselineDoesNotPool
  <2>1. S \subseteq Request
    BY RidingType
  <2>2. ASSUME NEW r \in S, NEW q \in S PROVE r = q
    <3>1. RouteFits(vehicle[v].route, Riding(v, "assigned"), Riding(v, "onboard"))
      BY DEF Bookings, RouteOf
    <3>2. PICK i \in 1 .. Len(vehicle[v].route) : vehicle[v].route[i] = Dropoff(r)
      BY <3>1 DEF RouteFits
    <3>3. PICK j \in 1 .. Len(vehicle[v].route) : vehicle[v].route[j] = Dropoff(q)
      BY <3>1 DEF RouteFits
    <3>4. vehicle[v].route[i].request = vehicle[v].route[j].request
      BY DEF ServedAlone, Alone
    <3> QED
      BY <2>1, <3>2, <3>3, <3>4, StopKinds
  <2>3. CASE S = {}
    BY <2>3, FS_EmptySet
  <2>4. CASE S # {}
    <3>1. PICK r : S = {r}
      BY <2>2, <2>4
    <3>2. Cardinality({r}) = 1
      BY FS_Singleton
    <3> QED
      BY <3>1, <3>2
  <2> QED
    BY <2>3, <2>4
<1> QED
  BY <1>2, <1>3, BookingsAlways, ShapeAlways, PTL

-----------------------------------------------------------------------------
(***************************************************************************)
(* Seats.                                                                  *)
(***************************************************************************)
\* The loads along the rest of a route are the last of those along the route.
LEMMA LoadOfRest ==
  ASSUME NEW onboard \in Int, NEW route \in Seq(Stop), NEW k \in 0 .. Len(route),
         NEW rest \in Seq(Stop), Len(rest) = Len(route) - k,
         \A i \in 1 .. Len(rest) : rest[i] = route[k + i]
  PROVE  \A i \in 0 .. Len(rest) :
           Load(Load(onboard, route)[k], rest)[i] = Load(onboard, route)[k + i]
<1>1. PICK load, later : load = Load(onboard, route) /\ later = Load(load[k], rest)
  OBVIOUS
<1>2. /\ load \in [0 .. Len(route) -> Int]
      /\ \A i \in 1 .. Len(route) : load[i] = LoadAfter(route[i], load[i - 1])
  BY <1>1, LoadSteps
<1>3. load[k] \in Int /\ Len(rest) \in Nat /\ Len(route) \in Nat
  <2>1. Len(rest) \in Nat /\ Len(route) \in Nat
    OBVIOUS
  <2>2. load[k] \in Int
    BY <1>2
  <2> QED
    BY <2>1, <2>2
<1>4. /\ later[0] = load[k]
      /\ \A i \in 1 .. Len(rest) : later[i] = LoadAfter(rest[i], later[i - 1])
  BY ZenonT(30), <1>1, <1>3, LoadSteps
<1> DEFINE Fine == {i \in 0 .. Len(rest) : later[i] = load[k + i]}
<1>5. 0 \in Fine
  BY <1>3, <1>4
<1>6. ASSUME NEW i \in 1 .. Len(rest), i - 1 \in Fine PROVE i \in Fine
  <2>1. later[i - 1] = load[k + i - 1]
    BY <1>6
  <2>2. k + i \in 1 .. Len(route) /\ (k + i) - 1 = k + i - 1
    BY <1>3
  <2>3. load[k + i] = LoadAfter(route[k + i], load[k + i - 1])
    BY <1>2, <2>2
  <2>4. later[i] = LoadAfter(rest[i], later[i - 1]) /\ rest[i] = route[k + i]
    BY <1>4
  <2> QED
    BY <2>1, <2>3, <2>4
<1> HIDE DEF Fine
<1>7. \A i \in 0 .. Len(rest) : i \in Fine
  BY <1>3, <1>5, <1>6, PositionInduction
<1> QED
  BY <1>1, <1>7 DEF Fine

\* The engine looks at the seats after pickups only; a dropoff frees some.
LEMMA FeasibleSeats ==
  ASSUME Shape, NEW v \in Vehicle, NEW new \in Seq(Stop), Feasible(new, vehicle[v], age),
         vehicle[v].onboard <= Capacity
  PROVE  \A i \in 0 .. Len(new) : Load(vehicle[v].onboard, new)[i] <= Capacity
<1>1. PICK load, n : load = Load(vehicle[v].onboard, new) /\ n = vehicle[v].onboard
  OBVIOUS
<1>2. n \in Nat /\ Len(new) \in Nat /\ Capacity \in Nat /\ n <= Capacity
  BY <1>1, ShapeOfVehicle, DemandAssumption
<1>3. /\ load \in [0 .. Len(new) -> Int] /\ load[0] = n
      /\ \A i \in 1 .. Len(new) : load[i] = LoadAfter(new[i], load[i - 1])
  BY <1>1, <1>2, LoadSteps
<1>4. \A i \in 1 .. Len(new) : new[i] = Pickup(new[i].request) => load[i] <= Capacity
  BY <1>1 DEF Feasible
<1> DEFINE Fine == {i \in 0 .. Len(new) : load[i] <= Capacity}
<1>5. 0 \in Fine
  BY <1>2, <1>3
<1>6. ASSUME NEW i \in 1 .. Len(new), i - 1 \in Fine PROVE i \in Fine
  <2>1. new[i] \in Stop
    OBVIOUS
  <2>2. PICK r \in Request : r = new[i].request /\ new[i] \in {Pickup(r), Dropoff(r)}
    BY <2>1, StopKinds
  <2>3. CASE new[i] = Pickup(r)
    <3>1. new[i] = Pickup(new[i].request)
      BY <2>2, <2>3
    <3>2. load[i] <= Capacity
      BY <1>4, <3>1
    <3> QED
      BY <1>2, <3>2
  <2>4. CASE new[i] = Dropoff(r)
    <3>1. load[i] = load[i - 1] - PartySize[r]
      BY <1>3, <2>4, StopKinds DEF LoadAfter
    <3>2. load[i - 1] <= Capacity /\ load[i - 1] \in Int /\ load[i] \in Int
      <4>1. i - 1 \in 0 .. Len(new) /\ i \in 0 .. Len(new)
        BY <1>2
      <4>2. load[i - 1] <= Capacity
        BY <1>6
      <4>3. load \in [0 .. Len(new) -> Int]
        BY <1>3
      <4> QED
        BY <4>1, <4>2, <4>3
    <3>3. PartySize[r] \in Nat
      BY DemandAssumption
    <3> QED
      BY <1>2, <3>1, <3>2, <3>3
  <2> QED
    BY <2>2, <2>3, <2>4
<1> HIDE DEF Fine
<1>7. \A i \in 0 .. Len(new) : i \in Fine
  BY <1>2, <1>5, <1>6, PositionInduction
<1> QED
  BY <1>1, <1>7 DEF Fine

\* Insertion checks the seats of a whole route, with everyone who has to be picked up and
\* dropped on the way; World then serves the route from the front, and what it counts is
\* what was planned: a vehicle never has more passengers than seats, now or at any stop
\* ahead (insertion.py, _feasible; world.py, _process_stop).
THEOREM SeatsSuffice == Spec => []WithinCapacity
<1>1. Init => WithinCapacity
  <2> SUFFICES ASSUME Init, NEW v \in Vehicle, NEW i \in 0 .. Len(vehicle[v].route)
               PROVE  Load(vehicle[v].onboard, vehicle[v].route)[i] <= Capacity
    BY DEF WithinCapacity
  <2>1. vehicle[v].route = <<>> /\ vehicle[v].onboard = 0
    BY DEF Init
  <2>2. <<>> \in Seq(Stop) /\ Len(<<>>) = 0 /\ 0 \in Int
    OBVIOUS
  <2>3. i = 0
    BY <2>1, <2>2
  <2>4. Load(0, <<>>)[0] = 0
    BY <2>2, LoadSteps
  <2> QED
    BY <2>1, <2>3, <2>4, DemandAssumption
<1>2. Shape /\ Bookings /\ WithinCapacity /\ [Next]_vars => WithinCapacity'
  <2> SUFFICES ASSUME Shape, Bookings, WithinCapacity, [Next]_vars, engine' = "insertion",
                      NEW u \in Vehicle
               PROVE  \A i \in 0 .. Len(vehicle'[u].route) :
                        Load(vehicle'[u].onboard, vehicle'[u].route)[i] <= Capacity
    BY DEF WithinCapacity
  <2> DEFINE Goal == \A i \in 0 .. Len(vehicle'[u].route) :
                        Load(vehicle'[u].onboard, vehicle'[u].route)[i] <= Capacity
  <2>1. ASSUME engine' = engine, vehicle'[u].route = vehicle[u].route,
               vehicle'[u].onboard = vehicle[u].onboard
        PROVE  Goal
    BY <2>1 DEF WithinCapacity
  <2>2. CASE Tick \/ (\E r \in Request : Emit(r)) \/ UNCHANGED vars
    BY <2>1, <2>2 DEF Tick, Emit, vars
  <2>3. ASSUME NEW owned \in SUBSET Vehicle, NEW r \in Request, Dispatch(owned, r) PROVE Goal
    <3>1. engine' = engine
      BY <2>3, DispatchOutcome
    <3>2. CASE UNCHANGED vehicle
      BY <2>1, <3>1, <3>2
    <3>3. ASSUME NEW v \in Vehicle, NEW new \in Seq(Stop), Booked(v, r, new),
                 Feasible(new, vehicle[v], age)
          PROVE  Goal
      <4>1. CASE u = v
        <5>1. vehicle'[u].route = new /\ vehicle'[u].onboard = vehicle[u].onboard
          BY <3>3, <4>1, BookedVehicle
        <5>2. vehicle[u].onboard <= Capacity
          <6>1. vehicle[u].route \in Seq(Stop) /\ Len(vehicle[u].route) \in Nat
                /\ vehicle[u].onboard \in Int
            BY ShapeOfVehicle
          <6>2. Load(vehicle[u].onboard, vehicle[u].route)[0] = vehicle[u].onboard
            BY <6>1, LoadSteps
          <6>3. 0 \in 0 .. Len(vehicle[u].route)
            BY <6>1
          <6>4. Load(vehicle[u].onboard, vehicle[u].route)[0] <= Capacity
            BY <3>1, <6>3 DEF WithinCapacity
          <6> QED
            BY <6>2, <6>4
        <5> QED
          BY <3>3, <4>1, <5>1, <5>2, FeasibleSeats
      <4>2. CASE u # v
        <5>1. vehicle'[u] = vehicle[u]
          BY <3>3, <4>2, BookedVehicle
        <5> QED
          BY <2>1, <3>1, <5>1
      <4> QED
        BY <4>1, <4>2
    <3>4. engine = "insertion"
      BY <3>1
    <3> HIDE DEF Goal
    <3>5. ASSUME NEW v \in Vehicle, NEW i \in 0 .. Len(vehicle[v].route),
                 NEW j \in 0 .. Len(vehicle[v].route), NEW new \in Seq(Stop),
                 engine = "insertion" => Feasible(new, vehicle[v], age), Booked(v, r, new)
          PROVE  Goal
      BY <3>3, <3>4, <3>5
    <3> QED
      BY <2>3, <3>2, <3>5, DispatchOutcome
  <2>4. ASSUME NEW v \in Vehicle, NEW r \in Request, Rebalance(v, r) PROVE Goal
    <3>1. PICK places : vehicle \in [Vehicle -> VehicleAt(places)]
      BY DEF Shape
    <3>2. vehicle' = [vehicle EXCEPT ![v].reposition_target = CellCenter[r]] /\ engine' = engine
      BY <2>4 DEF Rebalance
    <3>3. vehicle[u] \in VehicleAt(places)
      BY <3>1
    <3>4. vehicle'[u] = IF u = v THEN [vehicle[u] EXCEPT !.reposition_target = CellCenter[r]]
                        ELSE vehicle[u]
      BY <3>1, <3>2
    <3>5. vehicle'[u].route = vehicle[u].route /\ vehicle'[u].onboard = vehicle[u].onboard
      BY <3>3, <3>4 DEF VehicleAt
    <3> QED
      BY <2>1, <3>2, <3>5
  <2>5. CASE WorldStep
    <3>1. PICK k \in [Vehicle -> Nat] :
            /\ k[u] \in 0 .. Len(vehicle[u].route) /\ vehicle'[u] = Advanced(u, k[u]).vehicle
            /\ engine' = engine
      BY <2>5, WorldOutcome
    <3>2. PICK route, rest, m, onboard :
            /\ route = vehicle[u].route /\ rest = vehicle'[u].route /\ m = k[u]
            /\ onboard = vehicle[u].onboard
      OBVIOUS
    <3>3. /\ rest \in Seq(Stop) /\ Len(rest) = Len(route) - m
          /\ \A i \in 1 .. Len(rest) : rest[i] = route[m + i]
          /\ vehicle'[u].onboard = Onboard(u)[m]
      BY <3>1, <3>2, MovedVehicle
    <3>4. /\ route \in Seq(Stop) /\ m \in 0 .. Len(route) /\ Len(route) \in Nat /\ onboard \in Int
      BY <3>1, <3>2, ShapeOfVehicle
    <3>5. Onboard(u)[m] = Load(onboard, route)[m]
      <4>1. RouteOf(u)
        BY DEF Bookings
      <4>2. Load(vehicle[u].onboard, vehicle[u].route)[k[u]] = Onboard(u)[k[u]]
        BY <3>1, <4>1, OnboardCountsParties
      <4> QED
        BY <3>2, <4>2
    <3>6. \A i \in 0 .. Len(rest) : Load(Load(onboard, route)[m], rest)[i] = Load(onboard, route)[m + i]
      BY <3>3, <3>4, LoadOfRest
    <3>7. \A i \in 0 .. Len(rest) : m + i \in 0 .. Len(route)
      BY <3>3, <3>4
    <3>8. \A i \in 0 .. Len(route) : Load(onboard, route)[i] <= Capacity
      BY <3>1, <3>2 DEF WithinCapacity
    <3>9. \A i \in 0 .. Len(rest) : Load(Load(onboard, route)[m], rest)[i] <= Capacity
      BY <3>6, <3>7, <3>8
    <3> QED
      BY <3>2, <3>3, <3>5, <3>9
  <2> QED
    BY <2>2, <2>3, <2>4, <2>5 DEF Next
<1> QED
  BY <1>1, <1>2, BookingsAlways, ShapeAlways, PTL DEF Spec

-----------------------------------------------------------------------------
(***************************************************************************)
(* Time: when the vehicle reaches its stops, and what World does in a step.*)
(***************************************************************************)
Way == [start : Int, to : Int, elapsed : Nat]

\* The vehicle is somewhere, and if it is on a way it has not finished it.
Located(v) ==
  /\ vehicle[v].location \in Int
  /\ segment[v] = NoSegment \/ ( /\ segment[v] \in Way
                                 /\ segment[v].elapsed < TravelTime(segment[v].start, segment[v].to) )

LEMMA RemainingType ==
  ASSUME NEW seg \in Way
  PROVE  /\ seg.start \in Int /\ seg.to \in Int /\ seg.elapsed \in Nat
         /\ TravelTime(seg.start, seg.to) \in Nat /\ Remaining(seg) \in Int
         /\ Remaining(seg) = TravelTime(seg.start, seg.to) - seg.elapsed
         /\ seg.elapsed <= TravelTime(seg.start, seg.to) => Remaining(seg) \in Nat
<1>1. seg.start \in Int /\ seg.to \in Int /\ seg.elapsed \in Nat
  BY DEF Way
<1>2. TravelTime(seg.start, seg.to) \in Nat
  BY <1>1, TravelTimeFacts
<1> QED
  BY <1>1, <1>2 DEF Remaining

\* The way to a target, begun or new.
LEMMA SegmentToFits ==
  ASSUME NEW v \in Vehicle, Located(v), NEW target \in Int, NEW seg, seg = SegmentTo(v, target)
  PROVE  /\ seg \in Way /\ seg.to = target
         /\ seg.elapsed <= TravelTime(seg.start, seg.to)
         /\ Remaining(seg) \in Nat
         /\ \/ seg = segment[v] /\ segment[v] # NoSegment
            \/ seg.start = vehicle[v].location /\ seg.elapsed = 0
<1>1. CASE segment[v] # NoSegment /\ segment[v].to = target
  <2>1. seg = segment[v] /\ seg \in Way /\ seg.elapsed < TravelTime(seg.start, seg.to)
    BY <1>1 DEF SegmentTo, Located
  <2>2. TravelTime(seg.start, seg.to) \in Nat /\ seg.elapsed \in Nat
    BY <2>1, RemainingType
  <2>3. seg.elapsed <= TravelTime(seg.start, seg.to)
    BY <2>1, <2>2
  <2> QED
    BY <1>1, <2>1, <2>3, RemainingType
<1>2. CASE ~(segment[v] # NoSegment /\ segment[v].to = target)
  <2>1. PICK here : here = vehicle[v].location /\ here \in Int
    BY DEF Located
  <2>2. seg = [start |-> here, to |-> target, elapsed |-> 0]
    BY <1>2, <2>1 DEF SegmentTo
  <2>3. seg \in Way /\ seg.to = target /\ seg.start = here /\ seg.elapsed = 0
    BY <2>1, <2>2 DEF Way
  <2>4. TravelTime(seg.start, seg.to) \in Nat
    BY <2>3, RemainingType
  <2>5. seg.elapsed <= TravelTime(seg.start, seg.to)
    BY <2>3, <2>4
  <2> QED
    BY <2>1, <2>3, <2>5, RemainingType
<1> QED
  BY <1>1, <1>2

\* The first stop is reached at the end of the way to it, the others leg by leg.
LEMMA ReachSteps ==
  ASSUME Shape, NEW v \in Vehicle, Located(v), NEW route, route = vehicle[v].route
  PROVE  /\ Reach(v) \in [1 .. Len(route) -> Int]
         /\ Len(route) > 0 =>
              /\ Place(route[1]) \in Int
              /\ Reach(v)[1] = Remaining(SegmentTo(v, Place(route[1])))
         /\ \A i \in 2 .. Len(route) :
              Reach(v)[i] = Reach(v)[i - 1] + TravelTime(Place(route[i - 1]), Place(route[i]))
<1>1. route \in Seq(Stop) /\ Len(route) \in Nat
  BY ShapeOfVehicle
<1>2. CASE Len(route) = 0
  <2>1. 1 .. Len(route) = {}
    BY <1>2
  <2>2. Reach(v) \in [1 .. Len(route) -> Int]
    BY <2>1 DEF Reach
  <2> QED
    BY <1>2, <2>2
<1>3. CASE Len(route) > 0
  <2>1. PICK place : place = Place(route[1]) /\ place \in Int
    <3>1. route[1] \in Stop
      BY <1>1, <1>3
    <3> QED
      BY <3>1, PlaceType
  <2>2. PICK tail : tail = Tail(route)
    OBVIOUS
  <2>3. /\ tail \in Seq(Stop) /\ Len(tail) = Len(route) - 1
        /\ \A i \in 1 .. Len(tail) : tail[i] = route[i + 1]
    BY <1>1, <1>3, <2>2
  <2>4. PICK later : later = Eta(place, tail)
    OBVIOUS
  <2>5. /\ later \in [0 .. Len(tail) -> Int] /\ later[0] = 0
        /\ \A i \in 1 .. Len(tail) : later[i] = later[i - 1] + Leg(place, tail, i)
    BY <2>1, <2>3, <2>4, EtaSteps
  <2>6. PICK first : first = Remaining(SegmentTo(v, place)) /\ first \in Int
    <3>1. Remaining(SegmentTo(v, place)) \in Nat
      BY <2>1, SegmentToFits
    <3> QED
      BY <3>1
  <2>7. Reach(v) = [i \in 1 .. Len(route) |-> first + later[i - 1]]
    BY <2>1, <2>2, <2>4, <2>6 DEF Reach
  <2>8. \A i \in 1 .. Len(route) : i - 1 \in 0 .. Len(tail) /\ later[i - 1] \in Int
    BY SMTT(30), <1>1, <2>3, <2>5
  <2>9. Reach(v) \in [1 .. Len(route) -> Int] /\ Reach(v)[1] = first
    BY <1>3, <2>5, <2>6, <2>7, <2>8
  <2>10. ASSUME NEW i \in 2 .. Len(route)
         PROVE  Reach(v)[i] = Reach(v)[i - 1] + TravelTime(Place(route[i - 1]), Place(route[i]))
    <3>1. i - 1 \in 1 .. Len(tail) /\ i \in 1 .. Len(route) /\ i - 1 \in 1 .. Len(route)
      BY <1>1, <2>3
    <3>2. tail[i - 1] = route[i]
      BY <1>1, <2>3, <3>1
    <3>3. i - 1 # 1 => i - 2 \in 1 .. Len(tail) /\ tail[i - 2] = route[i - 1]
      BY <1>1, <2>3, <3>1
    <3>4. Leg(place, tail, i - 1) = TravelTime(Place(route[i - 1]), Place(route[i]))
      <4>1. CASE i - 1 = 1
        BY <2>1, <3>2, <4>1 DEF Leg
      <4>2. CASE i - 1 # 1
        <5>1. (i - 1) - 1 = i - 2
          OBVIOUS
        <5> QED
          BY <3>2, <3>3, <4>2, <5>1 DEF Leg
      <4> QED
        BY <4>1, <4>2
    <3>5. PICK leg : leg = Leg(place, tail, i - 1) /\ leg \in Int
      BY <2>1, <2>3, <3>1, LegType
    <3>6. later[i - 1] = later[i - 2] + leg
      BY <2>5, <3>1, <3>5
    <3>7. later[i - 1] \in Int /\ later[i - 2] \in Int
      BY <2>8, <3>1
    <3>8. Reach(v)[i] = first + later[i - 1] /\ Reach(v)[i - 1] = first + later[i - 2]
      BY <2>7, <3>1
    <3>9. Reach(v)[i] = Reach(v)[i - 1] + leg
      <4>1. PICK x, y : x = later[i - 1] /\ y = later[i - 2]
        OBVIOUS
      <4>2. x \in Int /\ y \in Int /\ x = y + leg
        BY <3>6, <3>7, <4>1
      <4>3. first + x = (first + y) + leg
        BY <2>6, <3>5, <4>2
      <4> QED
        BY <3>8, <4>1, <4>3
    <3> QED
      BY <3>4, <3>5, <3>9
  <2> QED
    BY <2>1, <2>6, <2>9, <2>10
<1> QED
  BY <1>1, <1>2, <1>3

\* The vehicle never reaches a stop before the stop in front of it.
LEMMA ReachGrows ==
  ASSUME Shape, NEW v \in Vehicle, Located(v), NEW route, route = vehicle[v].route
  PROVE  /\ \A i \in 1 .. Len(route) : Reach(v)[i] \in Nat
         /\ \A i \in 2 .. Len(route) : Reach(v)[i - 1] <= Reach(v)[i]
<1>1. route \in Seq(Stop) /\ Len(route) \in Nat
  BY ShapeOfVehicle
<1>2. PICK reach : reach = Reach(v)
  OBVIOUS
<1>3. /\ reach \in [1 .. Len(route) -> Int]
      /\ Len(route) > 0 => reach[1] \in Nat
  <2>1. Len(route) > 0 => reach[1] \in Nat
    BY <1>2, ReachSteps, SegmentToFits
  <2> QED
    BY <1>2, <2>1, ReachSteps
<1>4. ASSUME NEW i \in 2 .. Len(route) PROVE reach[i - 1] <= reach[i]
  <2>1. route[i] \in Stop /\ route[i - 1] \in Stop
    BY <1>1
  <2>2. PICK leg : leg = TravelTime(Place(route[i - 1]), Place(route[i])) /\ leg \in Nat
    BY <2>1, PlaceType, TravelTimeFacts
  <2>3. reach[i] = reach[i - 1] + leg
    BY <1>2, <2>2, ReachSteps
  <2>4. reach[i - 1] \in Int
    BY <1>3
  <2> QED
    BY <2>2, <2>3, <2>4
<1> DEFINE Fine == {i \in 0 .. Len(route) : i = 0 \/ reach[i] \in Nat}
<1>5. 0 \in Fine
  BY <1>1
<1>6. ASSUME NEW i \in 1 .. Len(route), i - 1 \in Fine PROVE i \in Fine
  <2>1. CASE i = 1
    BY <1>1, <1>3, <2>1
  <2>2. CASE i # 1
    <3>1. i \in 2 .. Len(route) /\ i - 1 # 0 /\ i \in 0 .. Len(route)
      BY <1>1, <2>2
    <3>2. reach[i - 1] \in Nat /\ reach[i] \in Int /\ reach[i - 1] <= reach[i]
      BY <1>3, <1>4, <1>6, <3>1
    <3>3. reach[i] \in Nat
      BY <3>2
    <3> QED
      BY <3>1, <3>3
  <2> QED
    BY <2>1, <2>2
<1> HIDE DEF Fine
<1>7. \A i \in 0 .. Len(route) : i \in Fine
  BY <1>1, <1>5, <1>6, PositionInduction
<1>8. \A i \in 1 .. Len(route) : reach[i] \in Nat
  <2>1. ASSUME NEW i \in 1 .. Len(route) PROVE reach[i] \in Nat
    <3>1. i \in 0 .. Len(route) /\ i # 0
      BY <1>1
    <3> QED
      BY <1>7, <3>1 DEF Fine
  <2> QED
    BY <2>1
<1> QED
  BY <1>2, <1>4, <1>8

\* A set of positions that holds with a position all those before it.
LEMMA PrefixIsInterval ==
  ASSUME NEW n \in Nat, NEW S \in SUBSET (1 .. n), \A i \in S : i > 1 => i - 1 \in S
  PROVE  \E k \in 0 .. n : S = 1 .. k /\ Cardinality(S) = k
<1> DEFINE Out == {i \in 1 .. n + 1 : i \notin S}
<1>1. n + 1 \in Out /\ Out \in SUBSET Nat
  OBVIOUS
<1> HIDE DEF Out
<1>2. PICK l \in Out : \A i \in Out : l <= i
  BY <1>1, LeastNatural
<1>3. l \in 1 .. n + 1 /\ l \notin S
  BY <1>2 DEF Out
<1>4. \A i \in 1 .. l - 1 : i \in S
  <2>1. ASSUME NEW i \in 1 .. l - 1, i \notin S PROVE FALSE
    <3>1. i \in Out
      BY <1>3, <2>1 DEF Out
    <3> QED
      BY <1>2, <1>3, <3>1
  <2> QED
    BY <2>1
<1>5. ASSUME NEW i \in S, i > l - 1 PROVE FALSE
  <2> DEFINE Above == {m \in S : m > l}
  <2>1. i \in Above
    BY <1>3, <1>5
  <2>2. Above \in SUBSET Nat
    <3>1. S \subseteq Nat
      OBVIOUS
    <3> QED
      BY <3>1
  <2> HIDE DEF Above
  <2>3. PICK m \in Above : \A j \in Above : m <= j
    BY <2>1, <2>2, LeastNatural
  <2>4. m \in S /\ m > l /\ m \in 1 .. n
    BY <2>3 DEF Above
  <2>5. m - 1 \in S
    BY <1>3, <2>4
  <2>6. m - 1 # l
    BY <1>3, <2>5
  <2>7. m - 1 \in Above
    BY <1>3, <2>4, <2>5, <2>6 DEF Above
  <2>8. m <= m - 1
    BY <2>3, <2>7
  <2> QED
    BY <2>4, <2>8
<1>6. S = 1 .. l - 1
  <2>1. ASSUME NEW i \in S PROVE i \in 1 .. l - 1
    <3>1. i \in 1 .. n /\ ~(i > l - 1)
      BY <1>5
    <3> QED
      BY <1>3, <3>1
  <2> QED
    BY <1>4, <2>1
<1>7. l - 1 \in 0 .. n
  BY <1>3
<1>8. Cardinality(1 .. l - 1) = l - 1
  BY <1>7, FS_Interval
<1> QED
  BY <1>6, <1>7, <1>8

\* World serves the stops it reaches in the step, and stops looking when the step's
\* time is used up.
LEMMA ServedInTime ==
  ASSUME Shape, NEW v \in Vehicle, Located(v), NEW route, route = vehicle[v].route,
         NEW k, k = ServedStops(v)
  PROVE  /\ k \in 0 .. Len(route)
         /\ \A i \in 1 .. k : Reach(v)[i] <= MotionDt
         /\ k > 0 => Reach(v)[k] <= MotionDt
         /\ k < Len(route) => \/ Reach(v)[k + 1] > MotionDt
                              \/ k > 0 /\ Reach(v)[k] = MotionDt
<1>1. Len(route) \in Nat /\ MotionDt \in Nat
  BY ShapeOfVehicle, FleetAssumption
<1>2. PICK reach : reach = Reach(v)
  OBVIOUS
<1>3. /\ DOMAIN reach = 1 .. Len(route)
      /\ \A i \in 1 .. Len(route) : reach[i] \in Nat
      /\ \A i \in 2 .. Len(route) : reach[i - 1] <= reach[i]
  BY <1>2, ReachSteps, ReachGrows
<1> DEFINE S == {i \in DOMAIN Reach(v) : /\ Reach(v)[i] <= MotionDt
                                         /\ i > 1 => Reach(v)[i - 1] < MotionDt}
<1>4. ServedStops(v) = Cardinality(S)
  BY DEF ServedStops
<1>11. ASSUME NEW i \in 1 .. Len(route)
       PROVE  i \in S <=> reach[i] <= MotionDt /\ (i > 1 => reach[i - 1] < MotionDt)
  <2>1. i \in DOMAIN Reach(v)
    BY <1>2, <1>3
  <2>2. i \in S <=> Reach(v)[i] <= MotionDt /\ (i > 1 => Reach(v)[i - 1] < MotionDt)
    BY <2>1
  <2> QED
    BY <1>2, <2>2
<1>0. S \in SUBSET (1 .. Len(route))
  BY <1>2, <1>3
<1> HIDE DEF S
<1>5. k = Cardinality(S)
  BY <1>4
<1>6. ASSUME NEW i \in S, i > 1 PROVE i - 1 \in S
  <2>1. i \in 2 .. Len(route) /\ i - 1 \in 1 .. Len(route) /\ reach[i - 1] < MotionDt
    BY <1>0, <1>1, <1>6, <1>11
  <2>2. reach[i - 1] <= MotionDt
    BY <1>1, <1>3, <2>1
  <2>3. i - 1 > 1 => reach[i - 2] < MotionDt
    <3>1. SUFFICES ASSUME i - 1 > 1 PROVE reach[i - 2] < MotionDt
      OBVIOUS
    <3>2. i - 1 \in 2 .. Len(route) /\ i - 2 \in 1 .. Len(route) /\ (i - 1) - 1 = i - 2
      BY <1>1, <2>1, <3>1
    <3>3. reach[i - 2] <= reach[i - 1] /\ reach[i - 2] \in Nat /\ reach[i - 1] \in Nat
      BY <1>3, <2>1, <3>2
    <3> QED
      BY <1>1, <2>1, <3>3
  <2>4. (i - 1) - 1 = i - 2
    BY <2>1
  <2> QED
    BY <1>11, <2>1, <2>2, <2>3, <2>4
<1>7. PICK m \in 0 .. Len(route) : S = 1 .. m /\ Cardinality(S) = m
  BY <1>0, <1>1, <1>6, PrefixIsInterval
<1>8. k = m
  BY <1>5, <1>7
<1>12. \A i \in 1 .. k : reach[i] <= MotionDt
  BY <1>0, <1>7, <1>8, <1>11
<1>9. k > 0 => reach[k] <= MotionDt
  <2>1. k > 0 => k \in S
    BY <1>1, <1>7, <1>8
  <2> QED
    BY <1>0, <1>11, <2>1
<1>10. k < Len(route) => reach[k + 1] > MotionDt \/ (k > 0 /\ reach[k] = MotionDt)
  <2> SUFFICES ASSUME k < Len(route) PROVE reach[k + 1] > MotionDt \/ (k > 0 /\ reach[k] = MotionDt)
    OBVIOUS
  <2>1. k + 1 \in 1 .. Len(route) /\ k + 1 \notin S /\ (k + 1) - 1 = k
    BY <1>1, <1>7, <1>8
  <2>2. ~(reach[k + 1] <= MotionDt) \/ ~(k + 1 > 1 => reach[k] < MotionDt)
    BY <1>11, <2>1
  <2>3. reach[k + 1] \in Nat
    BY <1>3, <2>1
  <2>4. k > 0 => reach[k] \in Nat
    BY <1>1, <1>3, <1>7, <1>8
  <2> QED
    BY <1>1, <1>7, <1>8, <1>9, <2>2, <2>3, <2>4
<1> QED
  BY <1>2, <1>7, <1>8, <1>9, <1>10, <1>12

\* What the router gives for a time on the way is a place ...
Roads ==
  \A a, b \in Int : \A t \in 0 .. TravelTime(a, b) : RoadPoint(a, b, t) \in Int

\* ... and one from which the rest of the way takes the rest of the time: the straight
\* router.
EvenRoads ==
  /\ Roads
  /\ \A a, b \in Int : \A t \in 0 .. TravelTime(a, b) :
       TravelTime(RoadPoint(a, b, t), b) = TravelTime(a, b) - t

\* StraightRouter's interpolation on the line is even.
LEMMA StraightRoadsAreEven ==
  ASSUME \A a, b \in Int : \A t \in Nat : RoadPoint(a, b, t) = IF a < b THEN a + t ELSE a - t
  PROVE  EvenRoads
<1> SUFFICES ASSUME NEW a \in Int, NEW b \in Int, NEW t \in 0 .. TravelTime(a, b)
             PROVE  /\ RoadPoint(a, b, t) \in Int
                    /\ TravelTime(RoadPoint(a, b, t), b) = TravelTime(a, b) - t
  BY DEF EvenRoads, Roads
<1>1. t \in Nat /\ t <= (IF a < b THEN b - a ELSE a - b)
  BY TravelTimeFacts DEF TravelTime
<1>2. PICK p : p = RoadPoint(a, b, t) /\ p = IF a < b THEN a + t ELSE a - t
  BY <1>1
<1> QED
  BY <1>1, <1>2 DEF TravelTime

\* The three ends of a vehicle's step: it stops here, it arrives, or it is on its way.
LEMMA StepEnds ==
  ASSUME Shape, NEW v \in Vehicle, NEW route, route = vehicle[v].route,
         NEW k \in 0 .. Len(route),
         NEW here, here = IF k = 0 THEN vehicle[v].location ELSE Place(route[k]),
         NEW time, time = IF k = 0 THEN MotionDt ELSE MotionDt - Reach(v)[k],
         NEW target, target = IF k = Len(route) THEN vehicle[v].reposition_target
                              ELSE Place(route[k + 1]),
         NEW seg, seg = IF k = 0 THEN SegmentTo(v, target)
                        ELSE [start |-> here, to |-> target, elapsed |-> 0],
         NEW place, place = Advanced(v, k).vehicle.location,
         NEW way, way = Advanced(v, k).segment
  PROVE  \/ (time = 0 \/ target = NoTarget) /\ place = here /\ way = NoSegment
         \/ /\ time # 0 /\ target # NoTarget /\ time >= Remaining(seg)
            /\ place = target /\ way = NoSegment
         \/ /\ time # 0 /\ target # NoTarget /\ ~(time >= Remaining(seg))
            /\ place = RoadPoint(seg.start, seg.to, seg.elapsed + time)
            /\ way = [seg EXCEPT !.elapsed = @ + time]
<1>1. PICK rest : rest = SubSeq(route, k + 1, Len(route))
  OBVIOUS
<1>2. route \in Seq(Stop) /\ Len(route) \in Nat
  BY ShapeOfVehicle
<1>3. /\ rest \in Seq(Stop) /\ Len(rest) = Len(route) - k
      /\ \A i \in 1 .. Len(rest) : rest[i] = route[k + i]
  BY <1>1, <1>2, RestOfRoute
<1>4. target = IF rest = <<>> THEN vehicle[v].reposition_target ELSE Place(rest[1])
  <2>1. CASE k = Len(route)
    <3>1. rest = <<>>
      BY <1>3, <2>1
    <3> QED
      BY <2>1, <3>1
  <2>2. CASE k # Len(route)
    <3>1. rest # <<>> /\ rest[1] = route[k + 1]
      BY <1>2, <1>3, <2>2
    <3> QED
      BY <2>2, <3>1
  <2> QED
    BY <2>1, <2>2
<1> DEFINE At(p, heading) == [location |-> p, route |-> rest, onboard |-> Onboard(v)[k],
                              reposition_target |-> heading]
           Goal == vehicle[v].reposition_target
<1>5. Advanced(v, k) =
        IF time = 0 \/ target = NoTarget
        THEN [vehicle |-> At(here, Goal), segment |-> NoSegment]
        ELSE IF time >= Remaining(seg)
        THEN [vehicle |-> At(target, NoTarget), segment |-> NoSegment]
        ELSE [vehicle |-> At(RoadPoint(seg.start, seg.to, seg.elapsed + time), Goal),
              segment |-> [seg EXCEPT !.elapsed = @ + time]]
  BY <1>1, <1>4 DEF Advanced
<1>6. CASE time = 0 \/ target = NoTarget
  <2>1. Advanced(v, k) = [vehicle |-> At(here, Goal), segment |-> NoSegment]
    BY <1>5, <1>6
  <2> QED
    BY <1>6, <2>1
<1>7. CASE ~(time = 0 \/ target = NoTarget) /\ time >= Remaining(seg)
  <2>1. Advanced(v, k) = [vehicle |-> At(target, NoTarget), segment |-> NoSegment]
    BY <1>5, <1>7
  <2> QED
    BY <1>7, <2>1
<1>8. CASE ~(time = 0 \/ target = NoTarget) /\ ~(time >= Remaining(seg))
  <2>1. Advanced(v, k) =
          [vehicle |-> At(RoadPoint(seg.start, seg.to, seg.elapsed + time), Goal),
           segment |-> [seg EXCEPT !.elapsed = @ + time]]
    BY <1>5, <1>8
  <2>2. PICK p : p = RoadPoint(seg.start, seg.to, seg.elapsed + time)
    OBVIOUS
  <2>3. PICK further : further = [seg EXCEPT !.elapsed = @ + time]
    OBVIOUS
  <2>4. Advanced(v, k) = [vehicle |-> At(p, Goal), segment |-> further]
    BY <2>1, <2>2, <2>3
  <2>5. place = p /\ way = further
    BY <2>4
  <2>6. time # 0 /\ target # NoTarget
    BY <1>8
  <2> QED
    BY Zenon, <1>8, <2>2, <2>3, <2>5, <2>6
<1> QED
  BY <1>6, <1>7, <1>8

\* The rest of the way is the way from here.
OnTime(v) ==
  segment[v] = NoSegment \/ TravelTime(vehicle[v].location, segment[v].to) = Remaining(segment[v])

\* A step of World leaves the vehicle at a place, on a way it has not finished.
LEMMA StepLocated ==
  ASSUME Roads, Shape, NEW v \in Vehicle, Located(v), NEW k, k = ServedStops(v),
         NEW place, place = Advanced(v, k).vehicle.location,
         NEW way, way = Advanced(v, k).segment
  PROVE  /\ place \in Int
         /\ way = NoSegment \/ (way \in Way /\ way.elapsed < TravelTime(way.start, way.to))
         /\ EvenRoads => way = NoSegment \/ TravelTime(place, way.to) = Remaining(way)
         /\ EvenRoads /\ k < Len(vehicle[v].route) =>
              TravelTime(place, Place(vehicle[v].route[k + 1])) = Reach(v)[k + 1] - MotionDt
<1>1. PICK route, goal : route = vehicle[v].route /\ goal = vehicle[v].reposition_target
  OBVIOUS
<1>2. /\ route \in Seq(Stop) /\ Len(route) \in Nat /\ goal \in Int \cup {NoTarget}
      /\ MotionDt \in Nat \ {0} /\ NoTarget \notin Int
  BY <1>1, ShapeOfVehicle, FleetAssumption
<1>3. /\ k \in 0 .. Len(route)
      /\ k > 0 => Reach(v)[k] <= MotionDt
      /\ k < Len(route) => Reach(v)[k + 1] > MotionDt \/ (k > 0 /\ Reach(v)[k] = MotionDt)
  BY <1>1, ServedInTime
<1>4. PICK here : here = IF k = 0 THEN vehicle[v].location ELSE Place(route[k])
  OBVIOUS
<1>5. PICK time : time = IF k = 0 THEN MotionDt ELSE MotionDt - Reach(v)[k]
  OBVIOUS
<1>6. PICK target : target = IF k = Len(route) THEN goal ELSE Place(route[k + 1])
  OBVIOUS
<1>7. PICK seg : seg = IF k = 0 THEN SegmentTo(v, target)
                       ELSE [start |-> here, to |-> target, elapsed |-> 0]
  OBVIOUS
<1>8. \/ (time = 0 \/ target = NoTarget) /\ place = here /\ way = NoSegment
      \/ /\ time # 0 /\ target # NoTarget /\ time >= Remaining(seg)
         /\ place = target /\ way = NoSegment
      \/ /\ time # 0 /\ target # NoTarget /\ ~(time >= Remaining(seg))
         /\ place = RoadPoint(seg.start, seg.to, seg.elapsed + time)
         /\ way = [seg EXCEPT !.elapsed = @ + time]
  BY <1>1, <1>3, <1>4, <1>5, <1>6, <1>7, StepEnds
<1>9. here \in Int
  <2>1. CASE k = 0
    BY <1>4, <2>1 DEF Located
  <2>2. CASE k # 0
    <3>1. route[k] \in Stop
      BY <1>2, <1>3, <2>2
    <3> QED
      BY <1>4, <2>2, <3>1, PlaceType
  <2> QED
    BY <2>1, <2>2
<1>10. k > 0 => Reach(v)[k] \in Nat
  BY <1>1, <1>2, <1>3, ReachGrows
<1>11. time \in Nat
  BY <1>2, <1>3, <1>5, <1>10
<1>12. target \in Int \cup {NoTarget} /\ (k < Len(route) => target \in Int)
  <2>1. CASE k = Len(route)
    BY <1>2, <1>6, <2>1
  <2>2. CASE k # Len(route)
    <3>1. route[k + 1] \in Stop
      BY <1>2, <1>3, <2>2
    <3> QED
      BY <1>6, <2>2, <3>1, PlaceType
  <2> QED
    BY <2>1, <2>2
<1>13. ASSUME target \in Int
       PROVE  /\ seg \in Way /\ seg.to = target /\ Remaining(seg) \in Nat
              /\ seg.elapsed <= TravelTime(seg.start, seg.to)
              /\ k # 0 => Remaining(seg) = TravelTime(here, target)
  <2>1. CASE k = 0
    <3>1. seg = SegmentTo(v, target)
      BY <1>7, <2>1
    <3> QED
      BY <1>13, <2>1, <3>1, SegmentToFits
  <2>2. CASE k # 0
    <3>1. seg = [start |-> here, to |-> target, elapsed |-> 0]
      BY <1>7, <2>2
    <3>2. seg \in Way /\ seg.start = here /\ seg.to = target /\ seg.elapsed = 0
      BY <1>9, <1>13, <3>1 DEF Way
    <3>3. TravelTime(here, target) \in Nat
      BY <1>9, <1>13, TravelTimeFacts
    <3>4. Remaining(seg) = TravelTime(here, target) - 0
      BY <3>2 DEF Remaining
    <3> QED
      BY <3>2, <3>3, <3>4
  <2> QED
    BY <2>1, <2>2
<1>14. ASSUME k < Len(route) PROVE Reach(v)[k + 1] - MotionDt = Remaining(seg) - time
  <2>1. target = Place(route[k + 1]) /\ target \in Int
    BY <1>2, <1>3, <1>6, <1>12, <1>14
  <2>2. CASE k = 0
    <3>1. seg = SegmentTo(v, target)
      BY <1>7, <2>2
    <3>2. Reach(v)[1] = Remaining(SegmentTo(v, Place(route[1])))
      BY <1>1, <1>2, <1>14, <2>2, ReachSteps
    <3>3. k + 1 = 1 /\ time = MotionDt
      BY <1>5, <2>2
    <3> QED
      BY <2>1, <3>1, <3>2, <3>3
  <2>3. CASE k # 0
    <3>1. k + 1 \in 2 .. Len(route) /\ (k + 1) - 1 = k
      BY <1>2, <1>3, <1>14, <2>3
    <3>2. Reach(v)[k + 1] = Reach(v)[k] + TravelTime(Place(route[k]), Place(route[k + 1]))
      BY <1>1, <3>1, ReachSteps
    <3>3. PICK rem, reach : rem = Remaining(seg) /\ reach = Reach(v)[k] /\ rem \in Nat /\ reach \in Nat
      BY <1>3, <1>10, <1>13, <2>1, <2>3
    <3>4. rem = TravelTime(Place(route[k]), Place(route[k + 1]))
      BY <1>4, <1>13, <2>1, <2>3, <3>3
    <3>5. Reach(v)[k + 1] = reach + rem /\ time = MotionDt - reach
      BY <1>5, <2>3, <3>2, <3>3, <3>4
    <3>6. (reach + rem) - MotionDt = rem - (MotionDt - reach)
      BY <1>2, <3>3
    <3> QED
      BY <3>3, <3>5, <3>6
  <2> QED
    BY <2>2, <2>3
<1>15. CASE (time = 0 \/ target = NoTarget) /\ place = here /\ way = NoSegment
  <2>1. ASSUME EvenRoads, k < Len(route)
        PROVE  TravelTime(place, Place(route[k + 1])) = Reach(v)[k + 1] - MotionDt
    <3>1. target = Place(route[k + 1]) /\ target \in Int
      BY <1>2, <1>3, <1>6, <1>12, <2>1
    <3>2. time = 0 /\ k # 0
      BY <1>2, <1>5, <1>15, <3>1
    <3>3. Remaining(seg) = TravelTime(here, target) /\ Remaining(seg) \in Nat
      BY <1>13, <3>1, <3>2
    <3> QED
      BY <1>14, <1>15, <2>1, <3>1, <3>2, <3>3
  <2>2. EvenRoads /\ k < Len(vehicle[v].route) =>
          TravelTime(place, Place(vehicle[v].route[k + 1])) = Reach(v)[k + 1] - MotionDt
    BY <1>1, <2>1
  <2>3. place \in Int /\ way = NoSegment
    BY <1>9, <1>15
  <2> QED
    BY <2>2, <2>3
<1>16. CASE /\ time # 0 /\ target # NoTarget /\ time >= Remaining(seg)
            /\ place = target /\ way = NoSegment
  <2>1. target \in Int
    BY <1>12, <1>16
  <2>2. ~(k < Len(route))
    <3> SUFFICES ASSUME k < Len(route) PROVE FALSE
      OBVIOUS
    <3>1. PICK rem, next : rem = Remaining(seg) /\ next = Reach(v)[k + 1] /\ rem \in Nat
      BY <1>13, <2>1
    <3>2. next \in Nat
      BY <1>1, <1>2, <1>3, <3>1, ReachGrows
    <3>3. next - MotionDt = rem - time
      BY <1>14, <3>1
    <3>4. k > 0 => Reach(v)[k] # MotionDt
      BY <1>2, <1>3, <1>5, <1>10, <1>16
    <3>5. next > MotionDt
      BY <1>3, <3>1, <3>4
    <3>6. time >= rem
      BY <1>16, <3>1
    <3> QED
      BY <1>2, <1>11, <3>1, <3>2, <3>3, <3>5, <3>6
  <2>3. ~(k < Len(vehicle[v].route)) /\ place \in Int /\ way = NoSegment
    BY <1>1, <1>16, <2>1, <2>2
  <2> QED
    BY <2>3
<1>17. CASE /\ time # 0 /\ target # NoTarget /\ ~(time >= Remaining(seg))
            /\ place = RoadPoint(seg.start, seg.to, seg.elapsed + time)
            /\ way = [seg EXCEPT !.elapsed = @ + time]
  <2>1. target \in Int
    BY <1>12, <1>17
  <2>2. /\ seg \in Way /\ seg.to = target /\ Remaining(seg) \in Nat
        /\ seg.elapsed <= TravelTime(seg.start, seg.to)
    BY <1>13, <2>1
  <2>3. PICK a, b, t, whole : /\ a = seg.start /\ b = seg.to /\ t = seg.elapsed
                              /\ whole = TravelTime(a, b)
    OBVIOUS
  <2>4. a \in Int /\ b \in Int /\ t \in Nat /\ whole \in Nat /\ Remaining(seg) = whole - t
    BY <2>2, <2>3, RemainingType
  <2>5. t + time \in 0 .. whole /\ t + time < whole /\ t + time \in Nat
    BY <1>11, <1>17, <2>4
  <2>6. place = RoadPoint(a, b, t + time) /\ way = [seg EXCEPT !.elapsed = t + time]
    BY <1>17, <2>3
  <2>7. place \in Int
    BY <2>3, <2>4, <2>5, <2>6 DEF Roads
  <2>8. way \in Way /\ way.start = a /\ way.to = b /\ way.elapsed = t + time
    BY <2>2, <2>3, <2>5, <2>6 DEF Way
  <2>9. EvenRoads => TravelTime(place, b) = whole - (t + time)
    BY <2>3, <2>4, <2>5, <2>6 DEF EvenRoads
  <2>10. Remaining(way) = whole - (t + time)
    BY <2>3, <2>8 DEF Remaining
  <2>11. ASSUME EvenRoads, k < Len(route)
         PROVE  TravelTime(place, Place(route[k + 1])) = Reach(v)[k + 1] - MotionDt
    <3>1. b = Place(route[k + 1])
      BY <1>2, <1>3, <1>6, <2>2, <2>3, <2>11
    <3>2. whole - (t + time) = (whole - t) - time
      BY <1>11, <2>4
    <3> QED
      BY <1>14, <2>4, <2>9, <2>11, <3>1, <3>2
  <2> QED
    BY <1>1, <2>3, <2>5, <2>7, <2>8, <2>9, <2>10, <2>11
<1> QED
  BY <1>8, <1>15, <1>16, <1>17

\* Vehicles and their ways, on roads that lead somewhere and, even, take the time.
Whereabouts ==
  /\ DOMAIN segment = Vehicle /\ segment = [v \in Vehicle |-> segment[v]]
  /\ \A v \in Vehicle : Located(v)
  /\ EvenRoads => \A v \in Vehicle : OnTime(v)

LEMMA WhereaboutsInit == Init => Whereabouts
<1> SUFFICES ASSUME Init PROVE Whereabouts
  OBVIOUS
<1>1. segment = [v \in Vehicle |-> NoSegment]
  BY DEF Init
<1>2. DOMAIN segment = Vehicle /\ segment = [v \in Vehicle |-> segment[v]]
  BY <1>1
<1>3. ASSUME NEW v \in Vehicle PROVE Located(v) /\ OnTime(v)
  <2>1. vehicle[v].location \in Int
    BY FleetAssumption DEF Init
  <2> QED
    BY <1>1, <2>1 DEF Located, OnTime
<1> QED
  BY <1>2, <1>3 DEF Whereabouts

LEMMA WhereaboutsKept ==
  ASSUME Whereabouts, UNCHANGED segment,
         \A v \in Vehicle : vehicle'[v].location = vehicle[v].location
  PROVE  Whereabouts'
<1>1. ASSUME NEW v \in Vehicle PROVE Located(v)'
  BY DEF Whereabouts, Located
<1>2. ASSUME EvenRoads, NEW v \in Vehicle PROVE OnTime(v)'
  BY <1>2 DEF Whereabouts, OnTime
<1> QED
  BY <1>1, <1>2 DEF Whereabouts

\* Only World moves a vehicle.
LEMMA OthersDoNotMove ==
  ASSUME Shape, [Next]_vars, ~WorldStep
  PROVE  UNCHANGED segment /\ \A v \in Vehicle : vehicle'[v].location = vehicle[v].location
<1>1. CASE Tick \/ (\E r \in Request : Emit(r)) \/ UNCHANGED vars
  BY <1>1 DEF Tick, Emit, vars
<1>2. ASSUME NEW owned \in SUBSET Vehicle, NEW r \in Request, Dispatch(owned, r)
      PROVE  UNCHANGED segment /\ \A v \in Vehicle : vehicle'[v].location = vehicle[v].location
  <2>1. UNCHANGED segment
    BY <1>2, DispatchOutcome
  <2>2. ASSUME NEW v \in Vehicle, NEW new \in Seq(Stop), Booked(v, r, new), NEW u \in Vehicle
        PROVE  vehicle'[u].location = vehicle[u].location
    <3>1. CASE u = v
      BY <2>2, <3>1, BookedVehicle
    <3>2. CASE u # v
      <4>1. vehicle'[u] = vehicle[u]
        BY <2>2, <3>2, BookedVehicle
      <4> QED
        BY <4>1
    <3> QED
      BY <3>1, <3>2
  <2> QED
    BY <1>2, <2>1, <2>2, DispatchOutcome
<1>3. ASSUME NEW v \in Vehicle, NEW r \in Request, Rebalance(v, r)
      PROVE  UNCHANGED segment /\ \A u \in Vehicle : vehicle'[u].location = vehicle[u].location
  <2>1. PICK places : vehicle \in [Vehicle -> VehicleAt(places)]
    BY DEF Shape
  <2>2. vehicle' = [vehicle EXCEPT ![v].reposition_target = CellCenter[r]] /\ UNCHANGED segment
    BY <1>3 DEF Rebalance
  <2>3. ASSUME NEW u \in Vehicle PROVE vehicle'[u].location = vehicle[u].location
    <3>1. vehicle[u] \in VehicleAt(places)
      BY <2>1
    <3>2. vehicle'[u] = IF u = v THEN [vehicle[u] EXCEPT !.reposition_target = CellCenter[r]]
                        ELSE vehicle[u]
      BY <2>1, <2>2
    <3> QED
      BY <3>1, <3>2 DEF VehicleAt
  <2> QED
    BY <2>2, <2>3
<1> QED
  BY <1>1, <1>2, <1>3 DEF Next

LEMMA WhereaboutsStep ==
  Roads /\ Shape /\ Whereabouts /\ [Next]_vars => Whereabouts'
<1> SUFFICES ASSUME Roads, Shape, Whereabouts, [Next]_vars PROVE Whereabouts'
  OBVIOUS
<1>1. CASE ~WorldStep
  BY <1>1, OthersDoNotMove, WhereaboutsKept
<1>2. CASE WorldStep
  <2>1. PICK k \in [Vehicle -> Nat] :
          /\ \A v \in Vehicle :
               /\ k[v] = ServedStops(v)
               /\ vehicle'[v] = Advanced(v, k[v]).vehicle
               /\ segment'[v] = Advanced(v, k[v]).segment
          /\ DOMAIN segment' = Vehicle /\ segment' = [v \in Vehicle |-> segment'[v]]
    BY <1>2, WorldOutcome
  <2>2. ASSUME NEW v \in Vehicle PROVE Located(v)' /\ (EvenRoads => OnTime(v)')
    <3>1. Located(v)
      BY DEF Whereabouts
    <3>2. PICK place, way : place = vehicle'[v].location /\ way = segment'[v]
      OBVIOUS
    <3>3. /\ place = Advanced(v, k[v]).vehicle.location /\ way = Advanced(v, k[v]).segment
          /\ k[v] = ServedStops(v)
      BY <2>1, <3>2
    <3>4. /\ place \in Int
          /\ way = NoSegment \/ (way \in Way /\ way.elapsed < TravelTime(way.start, way.to))
          /\ EvenRoads => way = NoSegment \/ TravelTime(place, way.to) = Remaining(way)
      BY <3>1, <3>3, StepLocated
    <3>5. Located(v)'
      BY <3>2, <3>4 DEF Located
    <3>6. EvenRoads => OnTime(v)'
      BY <3>2, <3>4 DEF OnTime
    <3> QED
      BY <3>5, <3>6
  <2> QED
    BY <2>1, <2>2 DEF Whereabouts
<1> QED
  BY <1>1, <1>2

LEMMA WhereaboutsAlways == Spec => [](Roads => Whereabouts)
<1>1. Init => (Roads => Whereabouts)
  BY WhereaboutsInit
<1>2. Shape /\ (Roads => Whereabouts) /\ [Next]_vars => (Roads => Whereabouts)'
  BY WhereaboutsStep
<1> QED
  BY <1>1, <1>2, ShapeAlways, PTL DEF Spec

\* Whatever road the router returns, if its points are places: vehicles are at places, on
\* ways they have not finished (world.py, _advance), and no age or clock leaves its range.
THEOREM FleetTypeCorrect == Spec => [](Roads => TypeOK)
<1>1. Init => engine \in Engines
  BY DEF Init
<1>2. Shape /\ engine \in Engines /\ [Next]_vars => (engine \in Engines)'
  <2> SUFFICES ASSUME Shape, engine \in Engines, [Next]_vars PROVE engine' \in Engines
    OBVIOUS
  <2>1. ASSUME NEW owned \in SUBSET Vehicle, NEW r \in Request, Dispatch(owned, r)
        PROVE  engine' = engine
    BY <2>1, DispatchOutcome
  <2>2. CASE WorldStep
    BY <2>2 DEF WorldStep
  <2> QED
    BY <2>1, <2>2 DEF Next, Tick, Emit, Rebalance, vars
<1>3. Spec => [](engine \in Engines)
  BY <1>1, <1>2, ShapeAlways, PTL DEF Spec
<1>4. Shape /\ engine \in Engines /\ (Roads => Whereabouts) => (Roads => TypeOK)
  <2> SUFFICES ASSUME Shape, engine \in Engines, Whereabouts PROVE TypeOK
    OBVIOUS
  <2>1. vehicle \in [Vehicle -> VehicleAt(Int)]
    <3>1. PICK places : vehicle \in [Vehicle -> VehicleAt(places)]
      BY DEF Shape
    <3>2. ASSUME NEW v \in Vehicle PROVE vehicle[v] \in VehicleAt(Int)
      <4>1. vehicle[v] \in VehicleAt(places) /\ vehicle[v].location \in Int
        BY <3>1 DEF Whereabouts, Located
      <4> QED
        BY <4>1 DEF VehicleAt
    <3> QED
      BY <3>1, <3>2
  <2>2. segment \in [Vehicle -> Way \cup {NoSegment}]
    BY DEF Whereabouts, Located
  <2>3. \A v \in Vehicle :
          segment[v] = NoSegment \/ segment[v].elapsed < TravelTime(segment[v].start, segment[v].to)
    BY DEF Whereabouts, Located
  <2> QED
    BY <2>1, <2>2, <2>3 DEF TypeOK, Shape, VehicleAt, Way
<1> QED
  BY <1>3, <1>4, ShapeAlways, WhereaboutsAlways, PTL

-----------------------------------------------------------------------------
(***************************************************************************)
(* Promises to passengers.                                                 *)
(***************************************************************************)
\* On even roads World arrives when the engine thinks it does.
LEMMA ReachIsEta ==
  ASSUME Shape, NEW v \in Vehicle, Located(v), OnTime(v),
         NEW route, route = vehicle[v].route, NEW eta, eta = Eta(vehicle[v].location, route)
  PROVE  \A i \in 1 .. Len(route) : Reach(v)[i] = eta[i] /\ eta[i] \in Nat
<1>1. PICK here, n, reach : here = vehicle[v].location /\ n = Len(route) /\ reach = Reach(v)
  OBVIOUS
<1>2. here \in Int /\ n \in Nat /\ route \in Seq(Stop)
  BY <1>1, ShapeOfVehicle DEF Located
<1>3. /\ eta \in [0 .. n -> Int] /\ eta[0] = 0
      /\ \A i \in 1 .. n : eta[i] = eta[i - 1] + Leg(here, route, i)
  BY <1>1, <1>2, EtaSteps
<1>4. /\ n > 0 => reach[1] = Remaining(SegmentTo(v, Place(route[1]))) /\ Place(route[1]) \in Int
      /\ \A i \in 2 .. n : reach[i] = reach[i - 1] + TravelTime(Place(route[i - 1]), Place(route[i]))
      /\ \A i \in 1 .. n : reach[i] \in Nat
  BY <1>1, ReachSteps, ReachGrows
<1>5. n > 0 => reach[1] = eta[1]
  <2> SUFFICES ASSUME n > 0 PROVE reach[1] = eta[1]
    OBVIOUS
  <2>1. PICK target, seg : target = Place(route[1]) /\ seg = SegmentTo(v, target)
    OBVIOUS
  <2>2. /\ seg \in Way /\ seg.to = target
        /\ \/ seg = segment[v] /\ segment[v] # NoSegment
           \/ seg.start = here /\ seg.elapsed = 0
    BY <1>1, <1>4, <2>1, SegmentToFits
  <2>3. TravelTime(here, target) \in Nat
    BY <1>2, <1>4, <2>1, TravelTimeFacts
  <2>4. Remaining(seg) = TravelTime(here, target)
    <3>1. CASE seg = segment[v] /\ segment[v] # NoSegment
      BY <1>1, <2>2, <3>1 DEF OnTime
    <3>2. CASE seg.start = here /\ seg.elapsed = 0
      <4>1. Remaining(seg) = TravelTime(here, target) - 0
        BY <2>2, <3>2 DEF Remaining
      <4> QED
        BY <2>3, <4>1
    <3> QED
      BY <2>2, <3>1, <3>2
  <2>5. Leg(here, route, 1) = TravelTime(here, target)
    BY <2>1 DEF Leg
  <2>6. 1 \in 1 .. n /\ 1 - 1 = 0
    BY <1>2
  <2>7. eta[1] = 0 + TravelTime(here, target)
    BY <1>3, <2>5, <2>6
  <2> QED
    BY <1>4, <2>1, <2>3, <2>4, <2>7
<1> DEFINE Fine == {i \in 0 .. n : i = 0 \/ reach[i] = eta[i]}
<1>6. 0 \in Fine
  BY <1>2
<1>7. ASSUME NEW i \in 1 .. n, i - 1 \in Fine PROVE i \in Fine
  <2>1. CASE i = 1
    BY <1>2, <1>5, <2>1
  <2>2. CASE i # 1
    <3>1. i \in 2 .. n /\ i \in 0 .. n /\ i - 1 # 0
      BY <1>2, <2>2
    <3>2. reach[i - 1] = eta[i - 1]
      BY <1>7, <3>1
    <3>3. Leg(here, route, i) = TravelTime(Place(route[i - 1]), Place(route[i]))
      BY <2>2 DEF Leg
    <3>4. reach[i] = eta[i]
      BY <1>3, <1>4, <3>1, <3>2, <3>3
    <3> QED
      BY <3>1, <3>4
  <2> QED
    BY <2>1, <2>2
<1> HIDE DEF Fine
<1>8. \A i \in 0 .. n : i \in Fine
  BY <1>2, <1>6, <1>7, PositionInduction
<1>9. ASSUME NEW i \in 1 .. n PROVE reach[i] = eta[i]
  <2>1. i \in 0 .. n /\ i # 0
    BY <1>2
  <2> QED
    BY <1>8, <2>1 DEF Fine
<1> QED
  BY <1>1, <1>4, <1>9

\* A step of World takes its time off all arrival times.
LEMMA EtaAfterStep ==
  ASSUME EvenRoads, Shape, NEW v \in Vehicle, Located(v), OnTime(v),
         NEW k, k = ServedStops(v), vehicle'[v] = Advanced(v, k).vehicle
  PROVE  /\ \A i \in 1 .. Len(vehicle'[v].route) :
              Eta(vehicle'[v].location, vehicle'[v].route)[i] =
                Eta(vehicle[v].location, vehicle[v].route)[k + i] - MotionDt
         /\ \A i \in 1 .. k : Eta(vehicle[v].location, vehicle[v].route)[i] <= MotionDt
<1>12. PICK route, eta, place, rest, later :
         /\ route = vehicle[v].route /\ eta = Eta(vehicle[v].location, route)
         /\ place = vehicle'[v].location /\ rest = vehicle'[v].route /\ later = Eta(place, rest)
  OBVIOUS
<1>13. /\ rest \in Seq(Stop) /\ Len(rest) = Len(route) - k
       /\ \A i \in 1 .. Len(rest) : rest[i] = route[k + i]
       /\ place = Advanced(v, k).vehicle.location
  BY <1>12, ServedInTime, MovedVehicle
<1>1. PICK n, m : n = Len(route) /\ m = Len(rest)
  OBVIOUS
<1>2. /\ n \in Nat /\ m \in Nat /\ route \in Seq(Stop) /\ MotionDt \in Nat
      /\ k \in 0 .. n /\ m = n - k
  BY <1>1, <1>12, <1>13, ShapeOfVehicle, ServedInTime, FleetAssumption
<1>3. /\ place \in Int
      /\ k < n => TravelTime(place, Place(route[k + 1])) = Reach(v)[k + 1] - MotionDt
  BY <1>1, <1>12, <1>13, StepLocated DEF EvenRoads
<1>4. /\ later \in [0 .. m -> Int] /\ later[0] = 0
      /\ \A i \in 1 .. m : later[i] = later[i - 1] + Leg(place, rest, i)
  BY <1>1, <1>3, <1>12, <1>13, EtaSteps
<1>5. /\ eta \in [0 .. n -> Int] /\ eta[0] = 0
      /\ \A i \in 1 .. n : eta[i] = eta[i - 1] + Leg(vehicle[v].location, route, i)
  BY <1>1, <1>2, <1>12, EtaSteps DEF Located
<1>6. \A i \in 1 .. n : Reach(v)[i] = eta[i] /\ eta[i] \in Nat
  BY <1>1, <1>12, ReachIsEta
<1> DEFINE Fine == {i \in 0 .. m : i = 0 \/ later[i] = eta[k + i] - MotionDt}
<1>7. 0 \in Fine
  BY <1>2
<1>8. ASSUME NEW i \in 1 .. m, i - 1 \in Fine PROVE i \in Fine
  <2>1. k + i \in 1 .. n /\ i \in 0 .. m /\ rest[i] = route[k + i]
    BY <1>1, <1>2, <1>13
  <2>2. CASE i = 1
    <3>1. k < n /\ k + 1 \in 1 .. n
      BY <1>2, <2>1, <2>2
    <3>2. Leg(place, rest, 1) = TravelTime(place, Place(route[k + 1]))
      BY <2>1, <2>2 DEF Leg
    <3>3. PICK next : next = eta[k + 1] /\ next \in Nat /\ Reach(v)[k + 1] = next
      BY <1>6, <3>1
    <3>4. Leg(place, rest, 1) = next - MotionDt
      BY <1>3, <3>1, <3>2, <3>3
    <3>5. 1 - 1 = 0 /\ 1 \in 1 .. m
      BY <2>2
    <3>6. later[1] = 0 + (next - MotionDt)
      BY <1>4, <3>4, <3>5
    <3>7. 0 + (next - MotionDt) = next - MotionDt
      BY <1>2, <3>3
    <3>8. later[i] = eta[k + i] - MotionDt
      BY <2>2, <3>3, <3>6, <3>7
    <3> QED
      BY <2>1, <3>8
  <2>3. CASE i # 1
    <3>1. i - 1 # 0 /\ (k + i) - 1 \in 1 .. n /\ k + i # 1 /\ (k + i) - 1 = k + (i - 1)
          /\ i - 1 \in 1 .. m
      <4>1. /\ i \in Nat /\ i >= 2 /\ i <= m /\ m \in Nat
            /\ k \in Nat /\ n \in Nat /\ k + m = n
        BY <1>2, <2>3
      <4> QED
        BY <4>1
    <3>2. later[i - 1] = eta[k + (i - 1)] - MotionDt
      BY <1>8, <3>1
    <3>3. rest[i - 1] = route[k + (i - 1)]
      BY <1>1, <1>13, <3>1
    <3>4. Leg(place, rest, i) = TravelTime(Place(route[k + (i - 1)]), Place(route[k + i]))
      BY <2>1, <2>3, <3>3 DEF Leg
    <3>5. Leg(vehicle[v].location, route, k + i) =
            TravelTime(Place(route[k + (i - 1)]), Place(route[k + i]))
      BY <3>1 DEF Leg
    <3>6. PICK leg : leg = Leg(place, rest, i) /\ leg \in Nat
      BY <1>1, <1>3, <1>13, LegType
    <3>7. PICK x, y : x = eta[k + (i - 1)] /\ y = eta[k + i] /\ x \in Nat /\ y \in Nat
      BY <1>6, <2>1, <3>1
    <3>8. y = x + leg
      BY <1>5, <2>1, <3>1, <3>4, <3>5, <3>6, <3>7
    <3>9. later[i] = (x - MotionDt) + leg
      BY <1>4, <3>2, <3>6, <3>7
    <3>10. (x - MotionDt) + leg = (x + leg) - MotionDt
      BY <1>2, <3>6, <3>7
    <3>11. later[i] = eta[k + i] - MotionDt
      BY <3>7, <3>8, <3>9, <3>10
    <3> QED
      BY <2>1, <3>11
  <2> QED
    BY <2>2, <2>3
<1> HIDE DEF Fine
<1>9. \A i \in 0 .. m : i \in Fine
  BY <1>2, <1>7, <1>8, PositionInduction
<1>10. ASSUME NEW i \in 1 .. m PROVE later[i] = eta[k + i] - MotionDt
  <2>1. i \in 0 .. m /\ i # 0
    BY <1>2
  <2> QED
    BY <1>9, <2>1 DEF Fine
<1>11. ASSUME NEW i \in 1 .. k PROVE eta[i] <= MotionDt
  <2>1. Reach(v)[i] <= MotionDt /\ i \in 1 .. n
    BY <1>1, <1>2, <1>12, ServedInTime
  <2> QED
    BY <1>6, <2>1
<1> QED
  BY <1>1, <1>10, <1>11, <1>12

\* A ride of r within the detour it accepts.
InTime(ride, r) == DirectTime(r) > 0 => ride * DetourDen <= DirectTime(r) * DetourNum

LEMMA ShorterIsInTime ==
  ASSUME NEW r \in Request, NEW x \in Int, NEW y \in Int, y <= x, InTime(x, r)
  PROVE  InTime(y, r)
<1>1. PICK d, n, den : d = DirectTime(r) /\ n = DetourNum /\ den = DetourDen
  OBVIOUS
<1>2. den \in Nat
  BY <1>1, DemandAssumption
<1>3. y * den <= x * den
  <2>1. PICK z \in Nat : x = y + z
    <3>1. x - y \in Nat /\ x = y + (x - y)
      OBVIOUS
    <3> QED
      BY <3>1
  <2>2. x * den = y * den + z * den /\ z * den \in Nat /\ y * den \in Int
    BY <1>2, <2>1
  <2> QED
    BY <2>2
<1>4. d \in Int /\ n \in Int
  <2>1. Origin[r] \in Int /\ Destination[r] \in Int /\ n \in Int
    BY <1>1, DemandAssumption
  <2>2. TravelTime(Origin[r], Destination[r]) \in Nat
    BY <2>1, TravelTimeFacts
  <2>3. d = TravelTime(Origin[r], Destination[r])
    BY <1>1 DEF DirectTime
  <2> QED
    BY <2>1, <2>2, <2>3
<1>5. x * den \in Int /\ y * den \in Int /\ d * n \in Int
  BY <1>2, <1>4
<1>6. d > 0 => x * den <= d * n
  BY <1>1 DEF InTime
<1>7. d > 0 => y * den <= d * n
  BY <1>3, <1>5, <1>6
<1> QED
  BY <1>1, <1>7 DEF InTime

\* What a route with the arrival times eta keeps for passengers who have waited or ridden
\* for since[r] now.
Promises(route, eta, since) ==
  /\ \A i \in 1 .. Len(route), r \in Request :
       route[i] = Pickup(r) => since[r] + eta[i] <= MaxWait
  /\ \A i \in 1 .. Len(route), r \in Request :
       route[i] = Dropoff(r) /\ (\A j \in 1 .. Len(route) : route[j] # Pickup(r)) =>
         InTime(since[r] + eta[i], r)
  /\ \A i, j \in 1 .. Len(route), r \in Request :
       route[i] = Dropoff(r) /\ route[j] = Pickup(r) => InTime(eta[i] - eta[j], r)

LEMMA PromisesLess ==
  ASSUME NEW route \in Seq(Stop), NEW eta \in [0 .. Len(route) -> Int],
         NEW since \in [Request -> Int], NEW less \in [Request -> Int],
         \A r \in Request : less[r] <= since[r], Promises(route, eta, since)
  PROVE  Promises(route, eta, less)
<1>1. ASSUME NEW i \in 1 .. Len(route), NEW r \in Request
      PROVE  /\ since[r] + eta[i] \in Int /\ less[r] + eta[i] \in Int
             /\ less[r] + eta[i] <= since[r] + eta[i]
  <2>1. eta[i] \in Int /\ since[r] \in Int /\ less[r] \in Int /\ less[r] <= since[r]
    <3>1. Len(route) \in Nat
      OBVIOUS
    <3>2. i \in 0 .. Len(route)
      BY <3>1
    <3> QED
      BY <3>2
  <2> QED
    BY <2>1
<1>2. ASSUME NEW i \in 1 .. Len(route), NEW r \in Request, route[i] = Pickup(r)
      PROVE  less[r] + eta[i] <= MaxWait
  <2>1. since[r] + eta[i] <= MaxWait
    BY <1>2 DEF Promises
  <2> QED
    BY <1>1, <2>1, DemandAssumption
<1>3. ASSUME NEW i \in 1 .. Len(route), NEW r \in Request, route[i] = Dropoff(r),
             \A j \in 1 .. Len(route) : route[j] # Pickup(r)
      PROVE  InTime(less[r] + eta[i], r)
  <2>1. InTime(since[r] + eta[i], r)
    BY <1>3 DEF Promises
  <2> QED
    BY <1>1, <2>1, ShorterIsInTime
<1> QED
  BY <1>2, <1>3 DEF Promises

\* The engine proposes only what keeps all promises on the vehicle's route.
LEMMA FeasiblePromises ==
  ASSUME NEW new \in Seq(Stop), NEW W, NEW A, RouteFits(new, W, A),
         NEW car, NEW eta, eta = Eta(car.location, new), eta \in [0 .. Len(new) -> Int],
         NEW since \in [Request -> Int], Feasible(new, car, since)
  PROVE  Promises(new, eta, since)
<1>1. \A i \in 1 .. Len(new) :
        /\ new[i] = Pickup(new[i].request) => since[new[i].request] + eta[i] <= MaxWait
        /\ new[i] = Dropoff(new[i].request) => InTime(Ride(new, i, eta, since), new[i].request)
  BY DEF Feasible, InTime
<1>2. ASSUME NEW i \in 1 .. Len(new), NEW r \in Request, new[i] = Pickup(r)
      PROVE  since[r] + eta[i] <= MaxWait
  <2>1. new[i].request = r
    BY <1>2, StopKinds
  <2> QED
    BY <1>1, <1>2, <2>1
<1>3. ASSUME NEW i \in 1 .. Len(new), NEW r \in Request, new[i] = Dropoff(r)
      PROVE  InTime(Ride(new, i, eta, since), r)
  <2>1. new[i].request = r
    BY <1>3, StopKinds
  <2> QED
    BY <1>1, <1>3, <2>1
<1>4. ASSUME NEW i \in 1 .. Len(new), NEW r \in Request, new[i] = Dropoff(r),
             \A j \in 1 .. Len(new) : new[j] # Pickup(r)
      PROVE  InTime(since[r] + eta[i], r)
  <2>1. new[i].request = r
    BY <1>4, StopKinds
  <2>2. {j \in 1 .. i - 1 : new[j] = Pickup(new[i].request)} = {}
    BY <1>4, <2>1
  <2>3. Ride(new, i, eta, since) = since[r] + eta[i]
    BY <2>1, <2>2 DEF Ride
  <2> QED
    BY <1>3, <1>4, <2>3
<1>5. ASSUME NEW i \in 1 .. Len(new), NEW j \in 1 .. Len(new), NEW r \in Request,
             new[i] = Dropoff(r), new[j] = Pickup(r)
      PROVE  InTime(eta[i] - eta[j], r)
  <2>1. new[i].request = r
    BY <1>5, StopKinds
  <2>2. j < i
    BY <1>5 DEF RouteFits
  <2>3. {m \in 1 .. i - 1 : new[m] = Pickup(new[i].request)} = {j}
    <3>1. j \in 1 .. i - 1
      BY <2>2
    <3>2. \A m \in 1 .. i - 1 : new[m] = Pickup(r) => m = j
      <4>1. \A m \in 1 .. i - 1 : m \in 1 .. Len(new)
        OBVIOUS
      <4> QED
        BY <1>5, <4>1 DEF RouteFits
    <3> QED
      BY <1>5, <2>1, <3>1, <3>2
  <2>4. (CHOOSE m \in {j} : TRUE) = j
    OBVIOUS
  <2>5. Ride(new, i, eta, since) = eta[i] - eta[j]
    BY <2>3, <2>4 DEF Ride
  <2> QED
    BY <1>3, <1>5, <2>5
<1> QED
  BY <1>2, <1>4, <1>5 DEF Promises

\* World serves the first k stops of a route on time and leaves `rest`, with the arrival
\* times `later`.  `now` is measured, for those with stops on the route, from the step
\* that served their pickup or from where `since` was.
OnTimeStep(route, W, A, k, eta, since, rest, later, now) ==
  /\ route \in Seq(Stop) /\ rest \in Seq(Stop) /\ k \in 0 .. Len(route)
  /\ RouteFits(route, W, A)
  /\ Len(rest) = Len(route) - k /\ \A i \in 1 .. Len(rest) : rest[i] = route[k + i]
  /\ eta \in [0 .. Len(route) -> Int]
  /\ \A i \in 1 .. Len(rest) : later[i] = eta[k + i] - MotionDt
  /\ \A i \in 1 .. k : eta[i] <= MotionDt
  /\ since \in [Request -> Int]
  /\ \A r \in W \cup A :
       now[r] = IF {Pickup(r), Dropoff(r)} \cap First(route, k) # {} THEN 0
                ELSE since[r] + MotionDt

LEMMA PromisesAfterStep ==
  ASSUME NEW route, NEW W, NEW A, NEW k, NEW eta, NEW since, NEW rest, NEW later, NEW now,
         OnTimeStep(route, W, A, k, eta, since, rest, later, now), Promises(route, eta, since)
  PROVE  Promises(rest, later, now)
<1>0. /\ route \in Seq(Stop) /\ rest \in Seq(Stop) /\ k \in 0 .. Len(route)
      /\ RouteFits(route, W, A)
      /\ Len(rest) = Len(route) - k /\ \A i \in 1 .. Len(rest) : rest[i] = route[k + i]
      /\ eta \in [0 .. Len(route) -> Int]
      /\ \A i \in 1 .. Len(rest) : later[i] = eta[k + i] - MotionDt
      /\ \A i \in 1 .. k : eta[i] <= MotionDt
      /\ since \in [Request -> Int]
      /\ \A r \in W \cup A :
           now[r] = IF {Pickup(r), Dropoff(r)} \cap First(route, k) # {} THEN 0
                    ELSE since[r] + MotionDt
  BY DEF OnTimeStep
<1> USE <1>0
<1>1. PICK n, m, dt : n = Len(route) /\ m = Len(rest) /\ dt = MotionDt
  OBVIOUS
<1>2. n \in Nat /\ m \in Nat /\ k \in Nat /\ k + m = n /\ dt \in Nat
  BY <1>1, FleetAssumption
<1>3. ASSUME NEW i \in 1 .. m
      PROVE  /\ k + i \in 1 .. n /\ k + i > k /\ rest[i] = route[k + i]
             /\ eta[k + i] \in Int /\ later[i] = eta[k + i] - dt /\ later[i] \in Int
  <2>1. k + i \in 1 .. n /\ k + i > k /\ k + i \in 0 .. n
    BY <1>2
  <2>2. eta[k + i] \in Int
    BY <1>1, <2>1
  <2> QED
    BY <1>1, <1>2, <2>1, <2>2
<1>4. ASSUME NEW i \in 1 .. n, NEW s, route[i] = s
      PROVE  s \in First(route, k) <=> i <= k
  <2>1. \A j \in 1 .. k : j \in 1 .. n
    BY <1>2
  <2>2. \A j \in 1 .. n : route[j] = route[i] => j = i
    BY <1>1 DEF RouteFits
  <2>3. s \in First(route, k) <=> \E j \in 1 .. k : route[j] = s
    BY DEF First
  <2>4. i <= k => i \in 1 .. k
    BY <1>2
  <2>5. \A j \in 1 .. k : j <= k
    BY <1>2
  <2> QED
    BY <1>4, <2>1, <2>2, <2>3, <2>4, <2>5
<1>5. ASSUME NEW i \in 1 .. m, NEW r \in Request, rest[i] = Pickup(r)
      PROVE  now[r] + later[i] <= MaxWait
  <2>1. route[k + i] = Pickup(r) /\ k + i \in 1 .. n
    BY <1>3, <1>5
  <2>2. r \in W
    BY <1>1, <2>1 DEF RouteFits
  <2>3. Pickup(r) \notin First(route, k)
    <3>1. ~(k + i <= k)
      BY <1>2, <1>3
    <3> QED
      BY <1>4, <2>1, <3>1
  <2>4. PICK d \in 1 .. n : route[d] = Dropoff(r)
    BY <1>1, <2>2 DEF RouteFits
  <2>5. k + i < d
    BY <1>1, <2>1, <2>4 DEF RouteFits
  <2>6. Dropoff(r) \notin First(route, k)
    <3>1. ~(d <= k)
      BY <1>2, <2>5
    <3> QED
      BY <1>4, <2>4, <3>1
  <2>7. now[r] = since[r] + dt
    BY <1>1, <2>2, <2>3, <2>6
  <2>8. since[r] + eta[k + i] <= MaxWait
    BY <1>1, <2>1 DEF Promises
  <2>9. since[r] \in Int /\ eta[k + i] \in Int /\ later[i] = eta[k + i] - dt
    BY <1>3
  <2>10. (since[r] + dt) + (eta[k + i] - dt) = since[r] + eta[k + i]
    BY <1>2, <2>9
  <2> QED
    BY <2>7, <2>8, <2>9, <2>10
<1>6. ASSUME NEW i \in 1 .. m, NEW r \in Request, rest[i] = Dropoff(r)
      PROVE  /\ route[k + i] = Dropoff(r) /\ k + i \in 1 .. n /\ r \in W \cup A
             /\ Dropoff(r) \notin First(route, k)
  <2>1. route[k + i] = Dropoff(r) /\ k + i \in 1 .. n
    BY <1>3, <1>6
  <2>2. r \in W \cup A
    BY <1>1, <2>1 DEF RouteFits
  <2>3. ~(k + i <= k)
    BY <1>2, <1>3
  <2>4. Dropoff(r) \notin First(route, k)
    BY <1>4, <2>1, <2>3
  <2> QED
    BY <2>1, <2>2, <2>4
<1>7. ASSUME NEW i \in 1 .. m, NEW r \in Request, rest[i] = Dropoff(r),
             \A j \in 1 .. m : rest[j] # Pickup(r)
      PROVE  InTime(now[r] + later[i], r)
  <2>1. /\ route[k + i] = Dropoff(r) /\ k + i \in 1 .. n /\ r \in W \cup A
        /\ Dropoff(r) \notin First(route, k)
    BY <1>6, <1>7
  <2>2. eta[k + i] \in Int /\ later[i] = eta[k + i] - dt
    BY <1>3
  <2>3. CASE \A j \in 1 .. n : route[j] # Pickup(r)
    <3>1. InTime(since[r] + eta[k + i], r)
      BY <1>1, <2>1, <2>3 DEF Promises
    <3>2. Pickup(r) \notin First(route, k)
      <4>1. \A j \in 1 .. k : j \in 1 .. n
        BY <1>2
      <4> QED
        BY <2>3, <4>1 DEF First
    <3>3. now[r] = since[r] + dt
      BY <1>1, <2>1, <3>2
    <3>4. (since[r] + dt) + (eta[k + i] - dt) = since[r] + eta[k + i]
      <4>1. since[r] \in Int
        OBVIOUS
      <4> QED
        BY <1>2, <2>2, <4>1
    <3> QED
      BY <2>2, <3>1, <3>3, <3>4
  <2>4. ASSUME NEW j \in 1 .. n, route[j] = Pickup(r) PROVE InTime(now[r] + later[i], r)
    <3>1. j <= k
      <4> SUFFICES ASSUME j > k PROVE FALSE
        BY <1>2
      <4>1. j - k \in 1 .. m /\ k + (j - k) = j
        BY <1>2
      <4>2. rest[j - k] = route[j]
        BY <1>1, <4>1
      <4> QED
        BY <1>7, <2>4, <4>1, <4>2
    <3>2. Pickup(r) \in First(route, k)
      BY <1>4, <2>4, <3>1
    <3>3. now[r] = 0
      BY <2>1, <3>2
    <3>4. InTime(eta[k + i] - eta[j], r)
      BY <1>1, <2>1, <2>4 DEF Promises
    <3>5. eta[j] <= dt /\ eta[j] \in Int
      <4>1. j \in 1 .. k /\ j \in 0 .. n
        BY <1>2, <3>1
      <4> QED
        BY <1>1, <4>1
    <3>6. /\ eta[k + i] - eta[j] \in Int /\ 0 + (eta[k + i] - dt) \in Int
          /\ 0 + (eta[k + i] - dt) <= eta[k + i] - eta[j]
      <4>1. PICK x, y : x = eta[k + i] /\ y = eta[j]
        OBVIOUS
      <4>2. x \in Int /\ y \in Int /\ y <= dt
        BY <2>2, <3>5, <4>1
      <4>3. x - y \in Int /\ 0 + (x - dt) \in Int /\ 0 + (x - dt) <= x - y
        BY <1>2, <4>2
      <4> QED
        BY <4>1, <4>3
    <3>7. InTime(0 + (eta[k + i] - dt), r)
      BY <3>4, <3>6, ShorterIsInTime
    <3> QED
      BY <2>2, <3>3, <3>7
  <2> QED
    BY <2>3, <2>4
<1>8. ASSUME NEW i \in 1 .. m, NEW j \in 1 .. m, NEW r \in Request, rest[i] = Dropoff(r),
             rest[j] = Pickup(r)
      PROVE  InTime(later[i] - later[j], r)
  <2>1. /\ route[k + i] = Dropoff(r) /\ k + i \in 1 .. n
        /\ route[k + j] = Pickup(r) /\ k + j \in 1 .. n
    BY <1>3, <1>8
  <2>2. InTime(eta[k + i] - eta[k + j], r)
    BY <1>1, <2>1 DEF Promises
  <2>3. /\ eta[k + i] \in Int /\ later[i] = eta[k + i] - dt
        /\ eta[k + j] \in Int /\ later[j] = eta[k + j] - dt
    BY <1>3
  <2>4. (eta[k + i] - dt) - (eta[k + j] - dt) = eta[k + i] - eta[k + j]
    <3>1. PICK x, y : x = eta[k + i] /\ y = eta[k + j] /\ x \in Int /\ y \in Int
      BY <2>3
    <3>2. (x - dt) - (y - dt) = x - y
      BY <1>2, <3>1
    <3> QED
      BY <3>1, <3>2
  <2> QED
    BY <2>2, <2>3, <2>4
<1> QED
  BY <1>1, <1>5, <1>7, <1>8 DEF Promises

\* How long everyone has waited or ridden, at the time the locations are of.
Since == [r \in Request |-> age[r] - phase]

PromisesOf(v) ==
  Promises(vehicle[v].route, Eta(vehicle[v].location, vehicle[v].route), Since)

PromisesKept == engine = "insertion" => \A v \in Vehicle : PromisesOf(v)

LEMMA SinceType ==
  ASSUME Shape
  PROVE  /\ Since \in [Request -> Int]
         /\ \A r \in Request : Since[r] = age[r] - phase /\ age[r] \in Nat /\ Since[r] <= age[r]
         /\ phase \in Nat /\ phase <= MotionDt
<1>1. /\ \A r \in Request : age[r] \in Nat
      /\ phase \in Nat /\ phase <= MotionDt
  <2>1. AgeCap \in Nat /\ MotionDt \in Nat
    BY FleetAssumption
  <2> QED
    BY <2>1 DEF Shape
<1> QED
  BY <1>1 DEF Since

\* A vehicle that keeps its route and place keeps its promises as long as nobody's time
\* runs ahead of World's.
LEMMA PromisesOfKept ==
  ASSUME Shape, Shape', NEW v \in Vehicle, Located(v), PromisesOf(v),
         vehicle'[v].route = vehicle[v].route, vehicle'[v].location = vehicle[v].location,
         \A r \in Request : Since'[r] <= Since[r]
  PROVE  PromisesOf(v)'
<1>1. PICK route, here, eta, since, now :
        /\ route = vehicle[v].route /\ here = vehicle[v].location /\ eta = Eta(here, route)
        /\ since = Since /\ now = Since'
  OBVIOUS
<1>2. route \in Seq(Stop) /\ here \in Int
  BY <1>1, ShapeOfVehicle DEF Located
<1>3. eta \in [0 .. Len(route) -> Int]
  BY <1>1, <1>2, EtaSteps
<1>4. since \in [Request -> Int]
  BY <1>1, SinceType
<1>5. now \in [Request -> Int]
  <2>1. \A r \in Request : age'[r] - phase' \in Int
    <3>1. \A r \in Request : age'[r] \in Nat
      <4>1. AgeCap \in Nat
        BY FleetAssumption
      <4> QED
        BY <4>1 DEF Shape
    <3>2. phase' \in Nat
      <4>1. MotionDt \in Nat
        BY FleetAssumption
      <4> QED
        BY <4>1 DEF Shape
    <3> QED
      BY <3>1, <3>2
  <2> QED
    BY <1>1, <2>1 DEF Since
<1>6. Promises(route, eta, since)
  BY <1>1 DEF PromisesOf
<1>7. \A r \in Request : now[r] <= since[r]
  BY <1>1
<1>8. Promises(route, eta, now)
  BY <1>2, <1>3, <1>4, <1>5, <1>6, <1>7, PromisesLess
<1> QED
  BY <1>1, <1>8 DEF PromisesOf

\* A booked plan keeps the promises it was checked for.
LEMMA PromisesOfBooked ==
  ASSUME Shape, Bookings, NEW v \in Vehicle, Located(v), NEW r \in Request, status[r] = "pending",
         NEW new \in Seq(Stop),
         NEW i \in 0 .. Len(vehicle[v].route), NEW j \in 0 .. Len(vehicle[v].route), i <= j,
         Inserted(new, vehicle[v].route, r, i, j), Feasible(new, vehicle[v], age)
  PROVE  Promises(new, Eta(vehicle[v].location, new), Since)
<1>1. PICK route, W, A, car, eta :
        /\ route = vehicle[v].route /\ W = Riding(v, "assigned") /\ A = Riding(v, "onboard")
        /\ car = vehicle[v] /\ eta = Eta(car.location, new)
  OBVIOUS
<1>2. route \in Seq(Stop) /\ RouteFits(route, W, A)
  BY <1>1, ShapeOfVehicle DEF Bookings, RouteOf
<1>3. W \in SUBSET Request /\ A \in SUBSET Request /\ r \notin W \cup A
  BY <1>1 DEF Riding
<1>4. RouteFits(new, W \cup {r}, A)
  BY <1>1, <1>2, <1>3, InsertedFits
<1>5. eta \in [0 .. Len(new) -> Int]
  BY <1>1, EtaSteps DEF Located
<1>6. PICK since : since = age
  OBVIOUS
<1>7. since \in [Request -> Int]
  <2>1. \A q \in Request : age[q] \in Int
    BY SinceType
  <2> QED
    BY <1>6, <2>1 DEF Shape
<1>8. Feasible(new, car, since)
  BY <1>1, <1>6
<1>9. Promises(new, eta, since)
  BY <1>1, <1>4, <1>5, <1>7, <1>8, FeasiblePromises
<1>10. PICK less : less = Since
  OBVIOUS
<1>11. less \in [Request -> Int] /\ \A q \in Request : less[q] <= since[q]
  BY <1>6, <1>10, SinceType
<1>12. Promises(new, eta, less)
  BY <1>5, <1>7, <1>9, <1>11, PromisesLess
<1> QED
  BY <1>1, <1>10, <1>12

\* So does a step of World: it arrives in time.
LEMMA PromisesOfMoved ==
  ASSUME EvenRoads, Shape, Bookings, WorldStep, NEW v \in Vehicle, Located(v), OnTime(v),
         PromisesOf(v)
  PROVE  PromisesOf(v)'
<1>1. PICK k \in [Vehicle -> Nat] :
        /\ \A u \in Vehicle :
             /\ k[u] = ServedStops(u) /\ k[u] \in 0 .. Len(vehicle[u].route)
             /\ vehicle'[u] = Advanced(u, k[u]).vehicle
        /\ age' = [r \in Request |->
             IF {Pickup(r), Dropoff(r)} \cap UNION {Served(u, k[u]) : u \in Vehicle} # {}
             THEN 0 ELSE age[r]]
        /\ phase = MotionDt /\ phase' = 0
  BY WorldOutcome
<1>2. PICK route, W, A, m, eta, since, now, place, rest, later :
        /\ route = vehicle[v].route /\ W = Riding(v, "assigned") /\ A = Riding(v, "onboard")
        /\ m = k[v] /\ eta = Eta(vehicle[v].location, route) /\ since = Since /\ now = Since'
        /\ place = vehicle'[v].location /\ rest = vehicle'[v].route /\ later = Eta(place, rest)
  OBVIOUS
<1>3. /\ route \in Seq(Stop) /\ m \in 0 .. Len(route) /\ Len(route) \in Nat
      /\ W \in SUBSET Request /\ A \in SUBSET Request /\ W \cap A = {}
      /\ RouteFits(route, W, A)
  BY <1>1, <1>2, ShapeOfVehicle, RidingType DEF Bookings, RouteOf
<1>4. eta \in [0 .. Len(route) -> Int]
  <2>1. vehicle[v].location \in Int
    BY DEF Located
  <2> QED
    BY <1>2, <1>3, <2>1, EtaSteps
<1>5. /\ rest \in Seq(Stop) /\ Len(rest) = Len(route) - m
      /\ \A i \in 1 .. Len(rest) : rest[i] = route[m + i]
  BY <1>1, <1>2, MovedVehicle
<1>6. /\ \A i \in 1 .. Len(rest) : later[i] = eta[m + i] - MotionDt
      /\ \A i \in 1 .. m : eta[i] <= MotionDt
  <2>1. m = ServedStops(v) /\ vehicle'[v] = Advanced(v, m).vehicle
    BY <1>1, <1>2
  <2>2. /\ \A i \in 1 .. Len(vehicle'[v].route) :
              Eta(vehicle'[v].location, vehicle'[v].route)[i] =
                Eta(vehicle[v].location, vehicle[v].route)[m + i] - MotionDt
        /\ \A i \in 1 .. m : Eta(vehicle[v].location, vehicle[v].route)[i] <= MotionDt
    BY <2>1, EtaAfterStep
  <2> QED
    BY <1>2, <2>2
<1>7. /\ since \in [Request -> Int]
      /\ \A r \in Request : since[r] = age[r] - MotionDt /\ age[r] \in Nat
  BY <1>1, <1>2, SinceType
<1>8. \A r \in Request : now[r] = age'[r] - 0 /\ age'[r] \in Nat
  <2>1. ASSUME NEW r \in Request PROVE age'[r] \in Nat
    <3>1. age'[r] = 0 \/ age'[r] = age[r]
      BY <1>1
    <3> QED
      BY <1>7, <3>1
  <2>2. \A r \in Request : Since'[r] = age'[r] - phase'
    BY DEF Since
  <2> QED
    BY <1>1, <1>2, <2>1, <2>2
<1>10. ASSUME NEW r \in W \cup A
       PROVE  now[r] = IF {Pickup(r), Dropoff(r)} \cap First(route, m) # {} THEN 0
                       ELSE since[r] + MotionDt
  <2>1. r \in Request /\ assigned[r] = v
    BY <1>2, <1>10 DEF Riding
  <2>2. PICK served : served = UNION {First(vehicle[u].route, k[u]) : u \in Vehicle}
    OBVIOUS
  <2>3. ASSUME NEW s \in {Pickup(r), Dropoff(r)} PROVE s \in served <=> s \in First(route, m)
    <3>1. \A u \in Vehicle : s \in First(vehicle[u].route, k[u]) => assigned[r] = u
      BY <1>1, <2>1, ServedByOwnVehicle
    <3>2. s \in served <=> \E u \in Vehicle : s \in First(vehicle[u].route, k[u])
      BY <2>2
    <3> QED
      BY <1>2, <2>1, <3>1, <3>2
  <2>4. age'[r] = IF {Pickup(r), Dropoff(r)} \cap served # {} THEN 0 ELSE age[r]
    BY <1>1, <2>1, <2>2 DEF Served, First
  <2>5. {Pickup(r), Dropoff(r)} \cap served = {Pickup(r), Dropoff(r)} \cap First(route, m)
    BY <2>3
  <2>6. now[r] = age'[r] /\ age[r] = since[r] + MotionDt
    <3>1. now[r] = age'[r] - 0 /\ age'[r] \in Nat /\ since[r] = age[r] - MotionDt /\ age[r] \in Nat
      BY <1>7, <1>8, <2>1
    <3>2. MotionDt \in Nat
      BY FleetAssumption
    <3> QED
      BY <3>1, <3>2
  <2> QED
    BY <2>4, <2>5, <2>6
<1>11. Promises(route, eta, since)
  BY <1>2 DEF PromisesOf
<1>12. Promises(rest, later, now)
  <2>1. route \in Seq(Stop) /\ rest \in Seq(Stop) /\ m \in 0 .. Len(route)
    BY <1>3, <1>5
  <2>2. W \in SUBSET Request /\ A \in SUBSET Request /\ W \cap A = {} /\ RouteFits(route, W, A)
    BY <1>3
  <2>3. since \in [Request -> Int]
    BY <1>7
  <2>4. OnTimeStep(route, W, A, m, eta, since, rest, later, now)
    BY <1>4, <1>5, <1>6, <1>10, <2>1, <2>2, <2>3 DEF OnTimeStep
  <2> QED
    BY <1>11, <2>4, PromisesAfterStep
<1> QED
  BY <1>2, <1>12 DEF PromisesOf

LEMMA PromisesInit == Init => PromisesKept
<1> SUFFICES ASSUME Init, NEW v \in Vehicle PROVE PromisesOf(v)
  BY DEF PromisesKept
<1>1. vehicle[v].route = <<>> /\ Len(<<>>) = 0
  BY DEF Init
<1>2. 1 .. Len(vehicle[v].route) = {}
  BY <1>1
<1> QED
  BY <1>2 DEF PromisesOf, Promises

LEMMA PromisesStep ==
  EvenRoads /\ Shape /\ Bookings /\ Whereabouts /\ PromisesKept /\ [Next]_vars => PromisesKept'
<1> SUFFICES ASSUME EvenRoads, Shape, Bookings, Whereabouts, PromisesKept, [Next]_vars,
                    engine' = "insertion", NEW u \in Vehicle
             PROVE  PromisesOf(u)'
  BY DEF PromisesKept
<1>1. Shape'
  BY ShapeStep
<1>2. Located(u) /\ OnTime(u)
  BY DEF Whereabouts
<1>3. ASSUME engine' = engine PROVE PromisesOf(u)
  BY <1>3 DEF PromisesKept
<1>4. ASSUME vehicle'[u].route = vehicle[u].route, vehicle'[u].location = vehicle[u].location,
             engine' = engine,
             \A r \in Request : age'[r] - phase' <= age[r] - phase
      PROVE  PromisesOf(u)'
  <2>1. ASSUME NEW r \in Request PROVE Since'[r] <= Since[r]
    <3>1. Since'[r] = age'[r] - phase' /\ Since[r] = age[r] - phase
      BY DEF Since
    <3> QED
      BY <1>4, <3>1
  <2> QED
    BY <1>1, <1>2, <1>3, <1>4, <2>1, PromisesOfKept
<1>5. \A r \in Request : age[r] \in Nat /\ phase \in Nat
  BY SinceType
<1>6. CASE WorldStep
  <2>1. engine' = engine
    BY <1>6 DEF WorldStep
  <2> QED
    BY <1>2, <1>3, <1>6, <2>1, PromisesOfMoved
<1>7. CASE Tick
  <2>1. ASSUME NEW r \in Request PROVE age'[r] - phase' <= age[r] - phase
    <3>1. phase' = phase + 1 /\ (age'[r] = age[r] + 1 \/ age'[r] = age[r])
      BY <1>7 DEF Tick
    <3>2. age[r] \in Nat /\ phase \in Nat
      BY <1>5
    <3> QED
      BY <3>1, <3>2
  <2>2. vehicle' = vehicle /\ engine' = engine
    BY <1>7 DEF Tick
  <2> QED
    BY <1>4, <2>1, <2>2
<1>8. ASSUME UNCHANGED <<engine, age, phase>>, vehicle'[u].route = vehicle[u].route,
             vehicle'[u].location = vehicle[u].location
      PROVE  PromisesOf(u)'
  <2>1. \A r \in Request : age'[r] - phase' <= age[r] - phase
    BY <1>5, <1>8
  <2> QED
    BY <1>4, <1>8, <2>1
<1>9. CASE (\E r \in Request : Emit(r)) \/ UNCHANGED vars
  BY <1>8, <1>9 DEF Emit, vars
<1>10. ASSUME NEW v \in Vehicle, NEW r \in Request, Rebalance(v, r) PROVE PromisesOf(u)'
  <2>1. PICK places : vehicle \in [Vehicle -> VehicleAt(places)]
    BY DEF Shape
  <2>2. vehicle' = [vehicle EXCEPT ![v].reposition_target = CellCenter[r]]
        /\ UNCHANGED <<engine, age, phase>>
    BY <1>10 DEF Rebalance
  <2>3. vehicle[u] \in VehicleAt(places)
    BY <2>1
  <2>4. vehicle'[u] = IF u = v THEN [vehicle[u] EXCEPT !.reposition_target = CellCenter[r]]
                      ELSE vehicle[u]
    BY <2>1, <2>2
  <2>5. vehicle'[u].route = vehicle[u].route /\ vehicle'[u].location = vehicle[u].location
    BY <2>3, <2>4 DEF VehicleAt
  <2> QED
    BY <1>8, <2>2, <2>5
<1>11. ASSUME NEW owned \in SUBSET Vehicle, NEW r \in Request, Dispatch(owned, r)
       PROVE  PromisesOf(u)'
  <2>1. UNCHANGED <<engine, phase>> /\ status[r] = "pending"
    BY <1>11, DispatchOutcome
  <2>2. ASSUME age' = [age EXCEPT ![r] = 0], UNCHANGED vehicle PROVE PromisesOf(u)'
    <3>1. ASSUME NEW q \in Request PROVE age'[q] - phase' <= age[q] - phase
      <4>1. age'[q] = 0 \/ age'[q] = age[q]
        BY <2>2 DEF Shape
      <4>2. age[q] \in Nat /\ phase \in Nat
        BY <1>5
      <4> QED
        BY <2>1, <4>1, <4>2
    <3> QED
      BY <1>4, <2>1, <2>2, <3>1
  <2>3. ASSUME NEW v \in Vehicle, NEW i \in 0 .. Len(vehicle[v].route),
               NEW j \in 0 .. Len(vehicle[v].route), NEW new \in Seq(Stop),
               i <= j, Inserted(new, vehicle[v].route, r, i, j),
               Feasible(new, vehicle[v], age), Booked(v, r, new)
        PROVE  PromisesOf(u)'
    <3>1. age' = age /\ phase' = phase
      BY <2>1, <2>3 DEF Booked
    <3>2. CASE u = v
      <4>1. Promises(new, Eta(vehicle[u].location, new), Since)
        BY <1>2, <2>1, <2>3, <3>2, PromisesOfBooked
      <4>2. vehicle'[u].route = new /\ vehicle'[u].location = vehicle[u].location
        BY <2>3, <3>2, BookedVehicle
      <4>3. Since' = Since
        BY <3>1 DEF Since
      <4> QED
        BY <4>1, <4>2, <4>3 DEF PromisesOf
    <3>3. CASE u # v
      <4>1. vehicle'[u] = vehicle[u]
        BY <2>3, <3>3, BookedVehicle
      <4> QED
        BY <1>8, <2>1, <3>1, <4>1
    <3> QED
      BY <3>2, <3>3
  <2>4. engine = "insertion"
    BY <2>1
  <2>5. ASSUME NEW v \in Vehicle, NEW i \in 0 .. Len(vehicle[v].route),
               NEW j \in 0 .. Len(vehicle[v].route), NEW new \in Seq(Stop),
               i <= j, Inserted(new, vehicle[v].route, r, i, j),
               engine = "insertion" => Feasible(new, vehicle[v], age), Booked(v, r, new)
        PROVE  PromisesOf(u)'
    BY <2>3, <2>4, <2>5
  <2> QED
    BY <1>11, <2>2, <2>5, DispatchOutcome
<1> QED
  BY <1>6, <1>7, <1>9, <1>10, <1>11 DEF Next

LEMMA PromisesAlways == Spec => [](EvenRoads => PromisesKept)
<1>1. Init => (EvenRoads => PromisesKept)
  BY PromisesInit
<1>2. EvenRoads => Roads
  BY DEF EvenRoads
<1>3. Shape /\ Bookings /\ (Roads => Whereabouts) /\ (EvenRoads => PromisesKept) /\ [Next]_vars
        => (EvenRoads => PromisesKept)'
  BY <1>2, PromisesStep
<1> QED
  BY <1>1, <1>3, ShapeAlways, BookingsAlways, WhereaboutsAlways, PTL DEF Spec

\* Later bookings do not break earlier ones, World is as fast as the plan, and whoever has
\* a pickup on a route is picked up in time, give or take a step of World, if roads are
\* even (insertion.py:98-104).
THEOREM WaitsAreHonoured == Spec => [](EvenRoads => WaitHonoured)
<1>1. /\ Shape /\ Bookings /\ (Roads => Whereabouts) /\ (EvenRoads => PromisesKept)
      => (EvenRoads => WaitHonoured)
  <2> SUFFICES ASSUME Shape, Bookings, Roads => Whereabouts, EvenRoads, PromisesKept,
                      engine = "insertion", NEW r \in Request, status[r] = "assigned"
               PROVE  age[r] <= MaxWait + MotionDt
    BY DEF WaitHonoured
  <2>1. PICK v \in Vehicle : v = assigned[r]
    BY DEF Bookings, BookedOnVehicle
  <2>2. Located(v) /\ OnTime(v) /\ PromisesOf(v)
    BY DEF EvenRoads, Whereabouts, PromisesKept
  <2>3. r \in Riding(v, "assigned")
    BY <2>1 DEF Riding
  <2>4. PICK i \in 1 .. Len(vehicle[v].route) : vehicle[v].route[i] = Pickup(r)
    BY <2>3 DEF Bookings, RouteOf, RouteFits
  <2>5. Since[r] + Eta(vehicle[v].location, vehicle[v].route)[i] <= MaxWait
    BY <2>2, <2>4 DEF PromisesOf, Promises
  <2>6. PICK eta : eta = Eta(vehicle[v].location, vehicle[v].route)[i] /\ eta \in Nat
    BY <2>2, ReachIsEta
  <2>7. Since[r] = age[r] - phase /\ age[r] \in Nat /\ phase \in Nat /\ phase <= MotionDt
    BY SinceType
  <2>8. MaxWait \in Nat /\ MotionDt \in Nat
    BY DemandAssumption, FleetAssumption
  <2>9. (age[r] - phase) + eta <= MaxWait
    BY <2>5, <2>6, <2>7
  <2> QED
    BY <2>6, <2>7, <2>8, <2>9
<1> QED
  BY <1>1, ShapeAlways, BookingsAlways, WhereaboutsAlways, PromisesAlways, PTL

\* Nor does a booking make the ride of somebody on board too long (insertion.py:101-103).
THEOREM DetoursAreHonoured == Spec => [](EvenRoads => DetourHonoured)
<1>1. /\ Shape /\ Bookings /\ (Roads => Whereabouts) /\ (EvenRoads => PromisesKept)
      => (EvenRoads => DetourHonoured)
  <2> SUFFICES ASSUME Shape, Bookings, Roads => Whereabouts, EvenRoads, PromisesKept,
                      engine = "insertion", NEW r \in Request, status[r] = "onboard",
                      DirectTime(r) > 0
               PROVE  (age[r] - MotionDt) * DetourDen <= DirectTime(r) * DetourNum
    BY DEF DetourHonoured
  <2>1. PICK v \in Vehicle : v = assigned[r]
    BY DEF Bookings, BookedOnVehicle
  <2>2. Located(v) /\ OnTime(v) /\ PromisesOf(v)
    BY DEF EvenRoads, Whereabouts, PromisesKept
  <2>3. r \in Riding(v, "onboard") /\ r \notin Riding(v, "assigned")
    BY <2>1 DEF Riding
  <2>4. RouteFits(vehicle[v].route, Riding(v, "assigned"), Riding(v, "onboard"))
    BY DEF Bookings, RouteOf
  <2>5. PICK i \in 1 .. Len(vehicle[v].route) : vehicle[v].route[i] = Dropoff(r)
    BY <2>3, <2>4 DEF RouteFits
  <2>6. \A j \in 1 .. Len(vehicle[v].route) : vehicle[v].route[j] # Pickup(r)
    BY <2>3, <2>4 DEF RouteFits
  <2>7. InTime(Since[r] + Eta(vehicle[v].location, vehicle[v].route)[i], r)
    BY <2>2, <2>5, <2>6 DEF PromisesOf, Promises
  <2>8. PICK eta : eta = Eta(vehicle[v].location, vehicle[v].route)[i] /\ eta \in Nat
    BY <2>2, ReachIsEta
  <2>9. Since[r] = age[r] - phase /\ age[r] \in Nat /\ phase \in Nat /\ phase <= MotionDt
    BY SinceType
  <2>10. MotionDt \in Nat
    BY FleetAssumption
  <2>11. /\ (age[r] - phase) + eta \in Int /\ age[r] - MotionDt \in Int
         /\ age[r] - MotionDt <= (age[r] - phase) + eta
    BY <2>8, <2>9, <2>10
  <2>12. InTime((age[r] - phase) + eta, r)
    BY <2>7, <2>8, <2>9
  <2>13. InTime(age[r] - MotionDt, r)
    BY <2>11, <2>12, ShorterIsInTime
  <2> QED
    BY <2>13 DEF InTime
<1> QED
  BY <1>1, ShapeAlways, BookingsAlways, WhereaboutsAlways, PromisesAlways, PTL

-----------------------------------------------------------------------------
(***************************************************************************)
(* The engine misses nothing: the routes it tries are all the ways to put  *)
(* the two stops into the route, so its plans are the cheapest of all.     *)
(***************************************************************************)
LEMMA InsertedIsUnique ==
  ASSUME NEW route \in Seq(Stop), NEW r, NEW i \in 0 .. Len(route), NEW j \in 0 .. Len(route),
         NEW one, NEW other, Inserted(one, route, r, i, j), Inserted(other, route, r, i, j)
  PROVE  one = other
<1>1. /\ one \in Seq(Stop) /\ other \in Seq(Stop)
      /\ Len(one) = Len(route) + 2 /\ Len(other) = Len(route) + 2
      /\ \A m \in 1 .. Len(route) + 2 : one[m] = other[m]
  BY DEF Inserted
<1> QED
  BY <1>1

LEMMA StopsJoined ==
  ASSUME NEW s \in Seq(Stop), NEW t \in Seq(Stop)
  PROVE  /\ s \o t \in Seq(Stop) /\ Len(s \o t) = Len(s) + Len(t)
         /\ \A m \in 1 .. Len(s) + Len(t) :
              (s \o t)[m] = IF m <= Len(s) THEN s[m] ELSE t[m - Len(s)]
OBVIOUS

\* Cut in three with the two stops between the parts, a route is the same.
LEMMA InterleavedIsInserted ==
  ASSUME NEW route \in Seq(Stop), NEW r \in Request,
         NEW i \in 0 .. Len(route), NEW j \in 0 .. Len(route), i <= j
  PROVE  Inserted(SubSeq(route, 1, i) \o <<Pickup(r)>> \o SubSeq(route, i + 1, j)
                    \o <<Dropoff(r)>> \o SubSeq(route, j + 1, Len(route)), route, r, i, j)
<1>1. PICK e, f, n : e = Pickup(r) /\ f = Dropoff(r) /\ n = Len(route)
  OBVIOUS
<1>2. e \in Stop /\ f \in Stop /\ n \in Nat /\ i \in Nat /\ j \in Nat /\ i <= j /\ j <= n
  BY <1>1, StopType
<1>3. PICK a, b, c : a = SubSeq(route, 1, i) /\ b = SubSeq(route, i + 1, j)
                     /\ c = SubSeq(route, j + 1, n)
  OBVIOUS
<1>4. a \in Seq(Stop) /\ Len(a) = i /\ \A m \in 1 .. i : a[m] = route[m]
  BY <1>1, <1>2, <1>3
<1>5. b \in Seq(Stop) /\ Len(b) = j - i /\ \A m \in 1 .. j - i : b[m] = route[i + m]
  BY <1>1, <1>2, <1>3
<1>6. c \in Seq(Stop) /\ Len(c) = n - j /\ \A m \in 1 .. n - j : c[m] = route[j + m]
  BY <1>1, <1>2, <1>3
<1>7. PICK w : w = a \o <<e>>
  OBVIOUS
<1>8. w \in Seq(Stop) /\ Len(w) = i + 1
      /\ \A m \in 1 .. i + 1 : w[m] = IF m <= i THEN route[m] ELSE e
  BY <1>2, <1>4, <1>7
<1>9. PICK x : x = w \o b
  OBVIOUS
<1>10. x \in Seq(Stop) /\ Len(x) = j + 1
       /\ \A m \in 1 .. j + 1 : x[m] = IF m <= i THEN route[m] ELSE IF m = i + 1 THEN e ELSE route[m - 1]
  <2>1. /\ x \in Seq(Stop) /\ Len(x) = Len(w) + Len(b)
        /\ \A m \in 1 .. Len(w) + Len(b) :
             x[m] = IF m <= Len(w) THEN w[m] ELSE b[m - Len(w)]
    BY <1>5, <1>8, <1>9, StopsJoined
  <2>2. Len(w) = i + 1 /\ Len(w) + Len(b) = j + 1
    BY <1>2, <1>5, <1>8
  <2>3. ASSUME NEW m \in 1 .. j + 1
        PROVE  x[m] = IF m <= i THEN route[m] ELSE IF m = i + 1 THEN e ELSE route[m - 1]
    <3>1. x[m] = IF m <= i + 1 THEN w[m] ELSE b[m - (i + 1)]
      BY <2>1, <2>2
    <3>2. CASE m <= i + 1
      <4>1. m \in 1 .. i + 1
        BY <1>2, <3>2
      <4>2. w[m] = IF m <= i THEN route[m] ELSE e
        BY <1>8, <4>1
      <4> QED
        BY <1>2, <3>1, <3>2, <4>2
    <3>3. CASE m > i + 1
      <4>1. PICK l : l = m - (i + 1)
        OBVIOUS
      <4>2. l \in 1 .. j - i /\ i + l = m - 1
        BY <1>2, <3>3, <4>1
      <4>3. b[l] = route[m - 1]
        BY <1>5, <4>2
      <4> QED
        BY <1>2, <3>1, <3>3, <4>1, <4>3
    <3> QED
      BY <1>2, <3>2, <3>3
  <2> QED
    BY <2>1, <2>2, <2>3
<1>11. PICK y : y = x \o <<f>>
  OBVIOUS
<1>12. y \in Seq(Stop) /\ Len(y) = j + 2
       /\ \A m \in 1 .. j + 2 : y[m] = IF m <= j + 1 THEN x[m] ELSE f
  BY <1>2, <1>10, <1>11
<1>13. PICK z : z = y \o c
  OBVIOUS
<1>14. z \in Seq(Stop) /\ Len(z) = n + 2
       /\ \A m \in 1 .. n + 2 : z[m] = IF m <= j + 2 THEN y[m] ELSE c[m - (j + 2)]
  <2>1. /\ z \in Seq(Stop) /\ Len(z) = Len(y) + Len(c)
        /\ \A m \in 1 .. Len(y) + Len(c) :
             z[m] = IF m <= Len(y) THEN y[m] ELSE c[m - Len(y)]
    BY <1>6, <1>12, <1>13, StopsJoined
  <2>2. Len(y) = j + 2 /\ Len(y) + Len(c) = n + 2
    BY <1>2, <1>6, <1>12
  <2> QED
    BY <2>1, <2>2
<1>16. ASSUME NEW m \in 1 .. n + 2
       PROVE  z[m] = IF m <= i THEN route[m] ELSE IF m = i + 1 THEN e
                     ELSE IF m <= j + 1 THEN route[m - 1] ELSE IF m = j + 2 THEN f
                     ELSE route[m - 2]
  <2>1. z[m] = IF m <= j + 2 THEN y[m] ELSE c[m - (j + 2)]
    BY <1>14
  <2>2. CASE m <= j + 1
    <3>1. m \in 1 .. j + 1 /\ m \in 1 .. j + 2
      BY <1>2, <2>2
    <3>2. y[m] = x[m]
      BY <1>12, <2>2, <3>1
    <3>3. x[m] = IF m <= i THEN route[m] ELSE IF m = i + 1 THEN e ELSE route[m - 1]
      BY <1>10, <3>1
    <3> QED
      BY <1>2, <2>1, <2>2, <3>2, <3>3
  <2>3. CASE m = j + 2
    <3>1. y[j + 2] = f
      BY <1>2, <1>12
    <3> QED
      BY <1>2, <2>1, <2>3, <3>1
  <2>4. CASE m > j + 2
    <3>1. PICK l : l = m - (j + 2)
      OBVIOUS
    <3>2. l \in 1 .. n - j /\ j + l = m - 2
      BY <1>2, <2>4, <3>1
    <3>3. c[l] = route[m - 2]
      BY <1>6, <3>2
    <3> QED
      BY <1>2, <2>1, <2>4, <3>1, <3>3
  <2> QED
    BY <1>2, <2>2, <2>3, <2>4
<1>17. Inserted(z, route, r, i, j)
  BY <1>1, <1>14, <1>16 DEF Inserted
<1>18. z = SubSeq(route, 1, i) \o <<Pickup(r)>> \o SubSeq(route, i + 1, j)
             \o <<Dropoff(r)>> \o SubSeq(route, j + 1, Len(route))
  BY <1>1, <1>3, <1>7, <1>9, <1>11, <1>13
<1> QED
  BY <1>17, <1>18

LEMMA EngineTriesAll ==
  ASSUME NEW route \in Seq(Stop), NEW r \in Request
  PROVE  Insertions(route, r) = Interleavings(route, r)
<1> DEFINE n == Len(route)
           Pairs == {x \in (0 .. n) \X (0 .. n) : x[1] <= x[2]}
           Tried(x) == InsertAt(InsertAt(route, x[1] + 1, Pickup(r)), x[2] + 2, Dropoff(r))
           Cut(x) == SubSeq(route, 1, x[1]) \o <<Pickup(r)>> \o SubSeq(route, x[1] + 1, x[2])
                       \o <<Dropoff(r)>> \o SubSeq(route, x[2] + 1, n)
<1>1. ASSUME NEW x \in Pairs PROVE Tried(x) = Cut(x)
  <2>1. PICK i, j : i = x[1] /\ j = x[2]
    OBVIOUS
  <2>2. i \in 0 .. Len(route) /\ j \in 0 .. Len(route) /\ i <= j
    BY <2>1
  <2>3. PICK one : one = InsertAt(InsertAt(route, i + 1, Pickup(r)), j + 2, Dropoff(r))
    OBVIOUS
  <2>4. PICK other : other = SubSeq(route, 1, i) \o <<Pickup(r)>> \o SubSeq(route, i + 1, j)
                    \o <<Dropoff(r)>> \o SubSeq(route, j + 1, Len(route))
    OBVIOUS
  <2>5. Inserted(one, route, r, i, j)
    BY <2>2, <2>3, InsertedByEngine
  <2>6. Inserted(other, route, r, i, j)
    BY <2>2, <2>4, InterleavedIsInserted
  <2>7. one = other
    BY <2>2, <2>5, <2>6, InsertedIsUnique
  <2> QED
    BY <2>1, <2>3, <2>4, <2>7
<1>2. Insertions(route, r) = {Tried(x) : x \in Pairs}
  BY DEF Insertions
<1>3. Interleavings(route, r) = {Cut(x) : x \in Pairs}
  BY DEF Interleavings
<1> HIDE DEF Pairs, Tried, Cut
<1> QED
  BY <1>1, <1>2, <1>3, Zenon

LEMMA CheapestOfAll ==
  ASSUME Shape, engine = "insertion", NEW r \in Request
  PROVE  LET costs == UNION {{AddedCost(vehicle[v], route) :
                             route \in {x \in Interleavings(vehicle[v].route, r) :
                                          Feasible(x, vehicle[v], age)}} : v \in Vehicle}
             chosen == {p.added_cost : p \in Plans(Vehicle, r)}
         IN  chosen = {c \in costs : \A d \in costs : c <= d}
<1> DEFINE Routes(v) == {x \in Interleavings(vehicle[v].route, r) : Feasible(x, vehicle[v], age)}
           Plan(v, route) == [vehicle_id |-> v, new_route |-> route,
                              added_cost |-> AddedCost(vehicle[v], route)]
           Offers == UNION {{Plan(v, route) : route \in Routes(v)} : v \in Vehicle}
           costs == UNION {{AddedCost(vehicle[v], route) : route \in Routes(v)} : v \in Vehicle}
           fleet == [v \in Vehicle |-> vehicle[v]]
           Given(v) == {[vehicle_id |-> v, new_route |-> route,
                         added_cost |-> AddedCost(fleet[v], route)] :
                          route \in {x \in Insertions(fleet[v].route, r) :
                                       Feasible(x, fleet[v], age)}}
<1>1. ASSUME NEW v \in Vehicle
      PROVE  Given(v) = {Plan(v, route) : route \in Routes(v)}
  <2>1. fleet[v] = vehicle[v]
    OBVIOUS
  <2>2. Insertions(vehicle[v].route, r) = Interleavings(vehicle[v].route, r)
    BY ShapeOfVehicle, EngineTriesAll
  <2> HIDE DEF fleet
  <2> QED
    BY <2>1, <2>2, Zenon
<1>2. DOMAIN fleet = Vehicle
  OBVIOUS
<1> HIDE DEF fleet
<1>3. Plans(Vehicle, r) = InsertionPlans(fleet, r, age)
  BY DEF Plans, fleet
<1>4. InsertionPlans(fleet, r, age) = Cheapest(Offers)
  <2>1. InsertionPlans(fleet, r, age) = Cheapest(UNION {Given(v) : v \in Vehicle})
    BY <1>2, Zenon DEF InsertionPlans
  <2> HIDE DEF Given, Plan, Routes
  <2>2. UNION {Given(v) : v \in Vehicle} = Offers
    BY <1>1
  <2> QED
    BY <2>1, <2>2, Zenon
<1>5. ASSUME NEW v, NEW route PROVE Plan(v, route).added_cost = AddedCost(vehicle[v], route)
  OBVIOUS
<1> HIDE DEF Plan, Routes
<1>6. costs = {p.added_cost : p \in Offers}
  <2> DEFINE Cost(v, route) == AddedCost(vehicle[v], route)
  <2>1. \A v, route : Plan(v, route).added_cost = Cost(v, route)
    BY <1>5
  <2>2. costs = UNION {{Cost(v, route) : route \in Routes(v)} : v \in Vehicle}
    OBVIOUS
  <2> HIDE DEF Cost, costs
  <2>3. \A c : c \in costs <=> \E v \in Vehicle : \E route \in Routes(v) : c = Cost(v, route)
    BY <2>2
  <2>4. \A p : p \in Offers <=> \E v \in Vehicle : \E route \in Routes(v) : p = Plan(v, route)
    OBVIOUS
  <2> HIDE DEF Offers
  <2>5. ASSUME NEW c \in costs PROVE c \in {p.added_cost : p \in Offers}
    <3> PICK v \in Vehicle : \E route \in Routes(v) : c = Cost(v, route)
      BY <2>3
    <3>1. PICK route \in Routes(v) : c = Cost(v, route)
      OBVIOUS
    <3>2. Plan(v, route) \in Offers /\ Plan(v, route).added_cost = c
      BY <2>1, <2>4, <3>1
    <3> QED
      BY <3>2, Zenon
  <2>6. ASSUME NEW p \in Offers PROVE p.added_cost \in costs
    <3> PICK v \in Vehicle : \E route \in Routes(v) : p = Plan(v, route)
      BY <2>4
    <3>1. PICK route \in Routes(v) : p = Plan(v, route)
      OBVIOUS
    <3> QED
      BY <2>1, <2>3, <3>1, Zenon
  <2> QED
    BY <2>5, <2>6, Zenon
<1> HIDE DEF Offers
<1>7. {p.added_cost : p \in Cheapest(Offers)} = {c \in costs : \A d \in costs : c <= d}
  BY <1>6 DEF Cheapest
<1> QED
  BY <1>3, <1>4, <1>7 DEF costs, Routes

\* A request is rejected only if no way to put its stops into any vehicle's route
\* keeps every limit, and is otherwise booked at the least added travel.
THEOREM TheEngineMissesNothing == Spec => []EngineMissesNothing
<1>1. Shape => EngineMissesNothing
  <2> SUFFICES ASSUME Shape, engine = "insertion", NEW r \in Request
               PROVE  LET costs == UNION {{AddedCost(vehicle[v], route) :
                                     route \in {x \in Interleavings(vehicle[v].route, r) :
                                          Feasible(x, vehicle[v], age)}} : v \in Vehicle}
                          chosen == {p.added_cost : p \in Plans(Vehicle, r)}
                      IN  chosen = {c \in costs : \A d \in costs : c <= d}
    BY Zenon DEF EngineMissesNothing
  <2> QED
    BY CheapestOfAll, Zenon
<1> QED
  BY <1>1, ShapeAlways, PTL
=============================================================================
