--------------------------- MODULE Runtimes_proofs ---------------------------
(***************************************************************************)
(* Theorems about the two runtimes, for any actors, messages and delays:   *)
(* an actor is resumed by exactly one thing, waits only on an empty inbox, *)
(* and either runtime implements the mailboxes it promises.                *)
(*                                                                         *)
(* The agenda is reasoned about through what one pending call more, or one *)
(* less, does to the calls that resume an actor.                           *)
(***************************************************************************)
EXTENDS Runtimes, FiniteSetTheorems, WellFoundedInduction, TLAPS

-----------------------------------------------------------------------------
(***************************************************************************)
(* Sequences of pending calls.                                             *)
(***************************************************************************)
PendingCall == [due : Nat, run : {"step", "deliver", "kill"}, actor : Actor,
                msg : Message \cup {NoMessage}]

InOrder(q) == \A i \in DOMAIN q : i > 1 => q[i - 1].due <= q[i].due

\* `new` is q with e at place p ...
Put(new, q, p, e) ==
  /\ Len(new) = Len(q) + 1
  /\ \A m \in 1 .. Len(q) + 1 :
       new[m] = IF m < p THEN q[m] ELSE IF m = p THEN e ELSE q[m - 1]

\* ... and without its i-th call.
Taken(new, q, i) ==
  /\ Len(new) = Len(q) - 1
  /\ \A m \in 1 .. Len(q) - 1 : new[m] = IF m < i THEN q[m] ELSE q[m + 1]

LEMMA PutByInsertAt ==
  ASSUME NEW S, NEW q \in Seq(S), NEW e \in S, NEW p \in 1 .. Len(q) + 1
  PROVE  InsertAt(q, p, e) \in Seq(S) /\ Put(InsertAt(q, p, e), q, p, e)
<1> DEFINE before == SubSeq(q, 1, p - 1)
           after == SubSeq(q, p, Len(q))
<1>1. /\ before \in Seq(S) /\ Len(before) = p - 1
      /\ \A m \in 1 .. p - 1 : before[m] = q[m]
  OBVIOUS
<1>2. /\ after \in Seq(S) /\ Len(after) = Len(q) - p + 1
      /\ \A m \in 1 .. Len(q) - p + 1 : after[m] = q[p + m - 1]
  OBVIOUS
<1>3. InsertAt(q, p, e) = (before \o <<e>>) \o after
  BY DEF InsertAt
<1> HIDE DEF before, after
<1> DEFINE head == before \o <<e>>
<1>4. /\ head \in Seq(S) /\ Len(head) = p
      /\ \A m \in 1 .. p : head[m] = IF m < p THEN q[m] ELSE e
  BY <1>1
<1> HIDE DEF head
<1> DEFINE all == head \o after
<1>5. /\ all \in Seq(S) /\ Len(all) = Len(q) + 1
      /\ \A m \in 1 .. p : all[m] = head[m]
      /\ \A m \in p + 1 .. Len(q) + 1 : all[m] = after[m - p]
  BY <1>2, <1>4
<1>6. ASSUME NEW m \in p + 1 .. Len(q) + 1 PROVE after[m - p] = q[m - 1]
  BY <1>2
<1>7. InsertAt(q, p, e) = all
  BY <1>3 DEF head
<1> HIDE DEF all
<1> QED
  BY <1>4, <1>5, <1>6, <1>7 DEF Put

LEMMA Joined ==
  ASSUME NEW S, NEW s \in Seq(S), NEW t \in Seq(S)
  PROVE  /\ s \o t \in Seq(S) /\ Len(s \o t) = Len(s) + Len(t)
         /\ \A m \in 1 .. Len(s) + Len(t) :
              (s \o t)[m] = IF m <= Len(s) THEN s[m] ELSE t[m - Len(s)]
OBVIOUS

LEMMA AppendLast ==
  ASSUME NEW S, NEW s \in Seq(S), NEW t \in Seq(S), NEW e \in S
  PROVE  s \o Append(t, e) = Append(s \o t, e)
<1> DEFINE u == Append(t, e)
           one == s \o u
           w == s \o t
           other == Append(w, e)
<1>1. /\ u \in Seq(S) /\ Len(u) = Len(t) + 1
      /\ \A i \in 1 .. Len(t) + 1 : u[i] = IF i <= Len(t) THEN t[i] ELSE e
  OBVIOUS
<1> HIDE DEF u
<1>2. /\ one \in Seq(S) /\ Len(one) = Len(s) + Len(u)
      /\ \A i \in 1 .. Len(s) + Len(u) :
           one[i] = IF i <= Len(s) THEN s[i] ELSE u[i - Len(s)]
  BY <1>1, Joined
<1>3. /\ w \in Seq(S) /\ Len(w) = Len(s) + Len(t)
      /\ \A i \in 1 .. Len(s) + Len(t) :
           w[i] = IF i <= Len(s) THEN s[i] ELSE t[i - Len(s)]
  BY Joined
<1> HIDE DEF one, w
<1>4. /\ other \in Seq(S) /\ Len(other) = Len(w) + 1
      /\ \A i \in 1 .. Len(w) + 1 : other[i] = IF i <= Len(w) THEN w[i] ELSE e
  BY <1>3
<1> HIDE DEF other
<1>5. Len(s) \in Nat /\ Len(t) \in Nat /\ Len(one) = Len(other)
  BY <1>1, <1>2, <1>3, <1>4
<1>6. ASSUME NEW i \in 1 .. Len(one) PROVE one[i] = other[i]
  <2>1. CASE i <= Len(s)
    <3>1. one[i] = s[i] /\ w[i] = s[i] /\ other[i] = w[i]
      BY <1>1, <1>2, <1>3, <1>4, <1>5, <2>1
    <3> QED
      BY <3>1
  <2>2. CASE i > Len(s)
    <3>1. PICK k : k = i - Len(s)
      OBVIOUS
    <3>2. k \in 1 .. Len(t) + 1
      BY <1>1, <1>2, <1>5, <2>2, <3>1
    <3>3. one[i] = IF k <= Len(t) THEN t[k] ELSE e
      BY <1>1, <1>2, <1>5, <2>2, <3>1, <3>2
    <3>4. CASE k <= Len(t)
      <4>1. w[i] = t[k] /\ other[i] = w[i]
        BY <1>1, <1>2, <1>3, <1>4, <1>5, <2>2, <3>1, <3>4
      <4> QED
        BY <3>3, <3>4, <4>1
    <3>5. CASE k > Len(t)
      <4>1. other[i] = e
        BY <1>1, <1>2, <1>3, <1>4, <1>5, <2>2, <3>1, <3>5
      <4> QED
        BY <1>5, <3>1, <3>2, <3>3, <3>5, <4>1
    <3> QED
      BY <1>5, <3>2, <3>4, <3>5
  <2> QED
    BY <1>5, <2>1, <2>2
<1>7. one = other
  BY <1>2, <1>4, <1>5, <1>6
<1> QED
  BY <1>7 DEF one, other, u, w

LEMMA TakenByRemoveAt ==
  ASSUME NEW S, NEW q \in Seq(S), NEW i \in 1 .. Len(q)
  PROVE  RemoveAt(q, i) \in Seq(S) /\ Taken(RemoveAt(q, i), q, i)
<1> DEFINE before == SubSeq(q, 1, i - 1)
           after == SubSeq(q, i + 1, Len(q))
           all == before \o after
<1>1. /\ before \in Seq(S) /\ Len(before) = i - 1
      /\ \A m \in 1 .. i - 1 : before[m] = q[m]
  OBVIOUS
<1>2. /\ after \in Seq(S) /\ Len(after) = Len(q) - i
      /\ \A m \in 1 .. Len(q) - i : after[m] = q[i + m]
  OBVIOUS
<1>3. RemoveAt(q, i) = all
  BY DEF RemoveAt
<1> HIDE DEF before, after
<1>4. /\ all \in Seq(S) /\ Len(all) = Len(q) - 1
      /\ \A m \in 1 .. i - 1 : all[m] = before[m]
      /\ \A m \in i .. Len(q) - 1 : all[m] = after[m - (i - 1)]
  <2>1. /\ all \in Seq(S) /\ Len(all) = Len(before) + Len(after)
        /\ \A m \in 1 .. Len(before) + Len(after) :
             all[m] = IF m <= Len(before) THEN before[m] ELSE after[m - Len(before)]
    BY <1>1, <1>2, Joined
  <2> HIDE DEF all
  <2>2. Len(before) + Len(after) = Len(q) - 1 /\ Len(before) = i - 1
    BY <1>1, <1>2
  <2> QED
    BY SMTT(30), <2>1, <2>2
<1>5. ASSUME NEW m \in i .. Len(q) - 1 PROVE after[m - (i - 1)] = q[m + 1]
  BY <1>2
<1> HIDE DEF all
<1>6. ASSUME NEW m \in 1 .. Len(q) - 1 PROVE all[m] = IF m < i THEN q[m] ELSE q[m + 1]
  <2>1. CASE m < i
    <3>1. m \in 1 .. i - 1
      BY <2>1
    <3> QED
      BY <1>1, <1>4, <2>1, <3>1
  <2>2. CASE m >= i
    <3>1. m \in i .. Len(q) - 1
      BY <2>2
    <3> QED
      BY <1>4, <1>5, <2>2, <3>1
  <2> QED
    BY <2>1, <2>2
<1> QED
  BY <1>3, <1>4, <1>6 DEF Taken

LEMMA TakenByTail ==
  ASSUME NEW S, NEW q \in Seq(S), q # <<>>
  PROVE  Tail(q) \in Seq(S) /\ Taken(Tail(q), q, 1) /\ 1 \in DOMAIN q /\ Head(q) = q[1]
BY DEF Taken

\* A set of natural numbers that is not empty has a least element.
LEMMA LeastNatural ==
  ASSUME NEW S \in SUBSET Nat, S # {}
  PROVE  \E i \in S : \A j \in S : i <= j
<1> DEFINE Less == OpToRel(<, Nat)
<1>1. IsWellFoundedOn(Less, Nat)
  BY NatLessThanWellFounded
<1>2. \A i, j \in S : <<j, i>> \in Less <=> j < i
  BY DEF OpToRel
<1> HIDE DEF Less
<1>3. PICK i \in S : \A j \in S : <<j, i>> \notin Less
  BY <1>1, WFMin
<1>4. ASSUME NEW j \in S PROVE i <= j
  <2>1. ~(j < i)
    BY <1>2, <1>3
  <2> QED
    BY <2>1
<1> QED
  BY <1>4

\* The calls of a schedule stay in the order of their time.
LEMMA OrderOfScheduled ==
  ASSUME NEW S, NEW q \in Seq(S), \A c \in S : c.due \in Nat, InOrder(q),
         NEW call, NEW e \in S, e = [call EXCEPT !.due = IF call.due < 0 THEN 0 ELSE call.due],
         e.due = IF call.due < 0 THEN 0 ELSE call.due
  PROVE  \E p \in 1 .. Len(q) + 1 :
           /\ ScheduleAt(q, call) \in Seq(S)
           /\ Put(ScheduleAt(q, call), q, p, e)
           /\ InOrder(ScheduleAt(q, call))
<1> DEFINE at == IF call.due < 0 THEN 0 ELSE call.due
           later == {i \in DOMAIN q : q[i].due > at}
           p == IF later = {} THEN Len(q) + 1 ELSE CHOOSE i \in later : \A j \in later : i <= j
<1>1. ScheduleAt(q, call) = InsertAt(q, p, e)
  <2>1. ScheduleAt(q, call) = InsertAt(q, p, [call EXCEPT !.due = at])
    BY DEF ScheduleAt
  <2> HIDE DEF p
  <2> QED
    BY <2>1
<1>0. at = e.due /\ e.due \in Nat
  OBVIOUS
<1> HIDE DEF at
<1>2. /\ p \in 1 .. Len(q) + 1
      /\ \A i \in 1 .. p - 1 : q[i].due <= e.due
      /\ p <= Len(q) => q[p].due > e.due
  <2>1. CASE later = {}
    <3>1. p = Len(q) + 1
      BY <2>1
    <3>2. \A i \in 1 .. Len(q) : q[i].due <= e.due
      BY <1>0, <2>1
    <3> HIDE DEF p
    <3> QED
      BY <3>1, <3>2
  <2>2. CASE later # {}
    <3>1. later \in SUBSET Nat /\ later \subseteq 1 .. Len(q)
      OBVIOUS
    <3>2. \E i \in later : \A j \in later : i <= j
      <4> HIDE DEF later
      <4> QED
        BY <2>2, <3>1, LeastNatural
    <3>3. p \in later /\ \A j \in later : p <= j
      <4> HIDE DEF later
      <4> QED
        BY <2>2, <3>2
    <3>4. p \in 1 .. Len(q) /\ q[p].due > e.due
      BY <1>0, <3>1, <3>3
    <3> HIDE DEF p
    <3>5. ASSUME NEW i \in 1 .. p - 1 PROVE q[i].due <= e.due
      <4>1. i \in DOMAIN q /\ i \notin later
        <5> HIDE DEF later
        <5> QED
          BY <3>1, <3>3, <3>4
      <4> QED
        BY <1>0, <4>1
    <3> QED
      BY <3>4, <3>5
  <2> QED
    BY <2>1, <2>2
<1> HIDE DEF p, later
<1>3. InsertAt(q, p, e) \in Seq(S) /\ Put(InsertAt(q, p, e), q, p, e)
  BY <1>2, PutByInsertAt
<1>4. InOrder(InsertAt(q, p, e))
  <2>1. PICK new : new = InsertAt(q, p, e)
    OBVIOUS
  <2>2. /\ new \in Seq(S) /\ Len(new) = Len(q) + 1
        /\ \A m \in 1 .. Len(q) + 1 :
             new[m] = IF m < p THEN q[m] ELSE IF m = p THEN e ELSE q[m - 1]
    BY <1>3, <2>1 DEF Put
  <2>3. \A i \in 1 .. Len(q) : q[i].due \in Nat /\ (i > 1 => q[i - 1].due <= q[i].due)
    BY DEF InOrder
  <2>4. e.due \in Nat
    OBVIOUS
  <2>5. ASSUME NEW i \in 1 .. Len(q) + 1, i > 1 PROVE new[i - 1].due <= new[i].due
    <3>1. /\ i - 1 \in 1 .. Len(q) + 1
          /\ new[i] = IF i < p THEN q[i] ELSE IF i = p THEN e ELSE q[i - 1]
          /\ new[i - 1] = IF i - 1 < p THEN q[i - 1] ELSE IF i - 1 = p THEN e ELSE q[i - 2]
      BY <2>2, <2>5
    <3>2. CASE i < p
      <4>1. i \in 1 .. Len(q)
        BY <1>2, <3>2
      <4> QED
        BY <1>2, <2>3, <2>5, <3>1, <3>2, <4>1
    <3>3. CASE i = p
      <4>1. p - 1 \in 1 .. p - 1
        BY <1>2, <2>5, <3>3
      <4>2. q[p - 1].due <= e.due
        BY <1>2, <4>1
      <4> QED
        BY <1>2, <3>1, <3>3, <4>2
    <3>4. CASE i = p + 1
      BY <1>2, <2>3, <2>4, <2>5, <3>1, <3>4
    <3>5. CASE i > p + 1
      <4>1. i - 1 \in 1 .. Len(q) /\ i - 1 > 1
        BY <1>2, <2>5, <3>5
      <4>2. q[(i - 1) - 1].due <= q[i - 1].due
        BY <2>3, <4>1
      <4>3. (i - 1) - 1 = i - 2
        OBVIOUS
      <4> QED
        BY <1>2, <3>1, <3>5, <4>2, <4>3
    <3> QED
      BY <1>2, <3>2, <3>3, <3>4, <3>5
  <2>6. \A i \in DOMAIN new : i > 1 => new[i - 1].due <= new[i].due
    BY <2>2, <2>5
  <2>7. InOrder(new)
    BY <2>6 DEF InOrder
  <2> QED
    BY <2>1, <2>7
<1>5. /\ ScheduleAt(q, call) \in Seq(S)
      /\ Put(ScheduleAt(q, call), q, p, e)
      /\ InOrder(ScheduleAt(q, call))
  BY <1>1, <1>3, <1>4, Zenon
<1> QED
  BY <1>2, <1>5, Zenon

LEMMA OrderOfRest ==
  ASSUME NEW S, NEW q \in Seq(S), \A c \in S : c.due \in Nat, InOrder(q),
         NEW i \in DOMAIN q, NEW new \in Seq(S), Taken(new, q, i)
  PROVE  InOrder(new)
<1>1. \A m \in 1 .. Len(q) : q[m].due \in Nat /\ (m > 1 => q[m - 1].due <= q[m].due)
  <2>1. \A m \in 1 .. Len(q) : q[m] \in S
    OBVIOUS
  <2>2. DOMAIN q = 1 .. Len(q)
    OBVIOUS
  <2>3. \A m \in 1 .. Len(q) : m > 1 => q[m - 1].due <= q[m].due
    BY <2>2, Zenon DEF InOrder
  <2> QED
    BY <2>1, <2>3
<1>2. /\ Len(new) = Len(q) - 1
      /\ \A m \in 1 .. Len(q) - 1 : new[m] = IF m < i THEN q[m] ELSE q[m + 1]
  BY DEF Taken
<1>3. ASSUME NEW m \in DOMAIN new, m > 1 PROVE new[m - 1].due <= new[m].due
  <2>1. /\ m \in 1 .. Len(q) - 1 /\ m - 1 \in 1 .. Len(q) - 1 /\ i \in 1 .. Len(q)
        /\ new[m] = IF m < i THEN q[m] ELSE q[m + 1]
        /\ new[m - 1] = IF m - 1 < i THEN q[m - 1] ELSE q[(m - 1) + 1]
    BY <1>2, <1>3
  <2>2. /\ q[m].due \in Nat /\ q[m - 1].due \in Nat /\ q[m + 1].due \in Nat
        /\ q[m - 1].due <= q[m].due
    <3>1. m \in 1 .. Len(q) /\ m - 1 \in 1 .. Len(q) /\ m + 1 \in 1 .. Len(q)
      BY <2>1
    <3> QED
      BY <1>1, <1>3, <3>1
  <2>3. q[m].due <= q[m + 1].due
    <3>1. m + 1 \in 1 .. Len(q) /\ m + 1 > 1 /\ (m + 1) - 1 = m
      BY <1>3, <2>1
    <3> QED
      BY <1>1, <3>1
  <2>4. (m - 1) + 1 = m
    BY <2>1
  <2>5. CASE m < i
    BY <2>1, <2>2, <2>5
  <2>6. CASE m >= i /\ m - 1 < i
    BY <2>1, <2>2, <2>3, <2>6
  <2>7. CASE m - 1 >= i
    BY <2>1, <2>2, <2>3, <2>4, <2>7
  <2> QED
    BY <2>1, <2>5, <2>6, <2>7
<1> QED
  BY <1>3 DEF InOrder

-----------------------------------------------------------------------------
(***************************************************************************)
(* The pending steps of one actor.                                         *)
(***************************************************************************)
Resumes(call, a) == call.run = "step" /\ call.actor = a

\* Nothing resumes a, ...
NoStep(q, a) == \A i \in DOMAIN q : ~Resumes(q[i], a)

\* ... or one call does, which carries m.
OneStep(q, a, m) ==
  \E i \in DOMAIN q : /\ Resumes(q[i], a) /\ q[i].msg = m
                      /\ \A j \in DOMAIN q : Resumes(q[j], a) => j = i

LEMMA StepsAfterPut ==
  ASSUME NEW S, NEW q \in Seq(S), NEW new \in Seq(S), NEW e, NEW p \in 1 .. Len(q) + 1,
         Put(new, q, p, e), NEW a
  PROVE  /\ ~Resumes(e, a) /\ NoStep(q, a) => NoStep(new, a)
         /\ ~Resumes(e, a) => \A m : OneStep(q, a, m) => OneStep(new, a, m)
         /\ Resumes(e, a) /\ NoStep(q, a) => OneStep(new, a, e.msg)
<1>1. /\ DOMAIN new = 1 .. Len(q) + 1 /\ DOMAIN q = 1 .. Len(q) /\ Len(q) \in Nat
      /\ \A m \in 1 .. Len(q) + 1 :
           new[m] = IF m < p THEN q[m] ELSE IF m = p THEN e ELSE q[m - 1]
  BY DEF Put
<1>2. ASSUME NEW m \in DOMAIN new, m # p, NEW l, l = IF m < p THEN m ELSE m - 1
      PROVE  l \in DOMAIN q /\ new[m] = q[l]
  BY <1>1, <1>2
<1>3. new[p] = e /\ p \in DOMAIN new
  BY <1>1
<1>4. ASSUME ~Resumes(e, a), NoStep(q, a) PROVE NoStep(new, a)
  <2>1. ASSUME NEW m \in DOMAIN new PROVE ~Resumes(new[m], a)
    <3>1. CASE m = p
      BY <1>3, <1>4, <3>1
    <3>2. CASE m # p
      <4>1. PICK l : l = IF m < p THEN m ELSE m - 1
        OBVIOUS
      <4>2. l \in DOMAIN q /\ new[m] = q[l]
        BY <1>2, <3>2, <4>1
      <4> QED
        BY <1>4, <4>2 DEF NoStep
    <3> QED
      BY <3>1, <3>2
  <2> QED
    BY <2>1 DEF NoStep
<1>5. ASSUME ~Resumes(e, a), NEW m, OneStep(q, a, m) PROVE OneStep(new, a, m)
  <2>1. PICK i \in DOMAIN q : /\ Resumes(q[i], a) /\ q[i].msg = m
                              /\ \A j \in DOMAIN q : Resumes(q[j], a) => j = i
    BY <1>5 DEF OneStep
  <2>2. PICK k : k = IF i < p THEN i ELSE i + 1
    OBVIOUS
  <2>3. k \in DOMAIN new /\ new[k] = q[i]
    BY <1>1, <2>2
  <2>4. ASSUME NEW j \in DOMAIN new, Resumes(new[j], a) PROVE j = k
    <3>1. j # p
      BY <1>3, <1>5, <2>4
    <3>2. PICK l : l = IF j < p THEN j ELSE j - 1
      OBVIOUS
    <3>3. l \in DOMAIN q /\ new[j] = q[l]
      BY <1>2, <3>1, <3>2
    <3>4. l = i
      BY <2>1, <2>4, <3>3
    <3> QED
      BY <1>1, <2>2, <3>1, <3>2, <3>4
  <2> QED
    BY <2>1, <2>3, <2>4 DEF OneStep
<1>6. ASSUME Resumes(e, a), NoStep(q, a) PROVE OneStep(new, a, e.msg)
  <2>1. ASSUME NEW j \in DOMAIN new, Resumes(new[j], a) PROVE j = p
    <3> SUFFICES ASSUME j # p PROVE FALSE
      OBVIOUS
    <3>1. PICK l : l = IF j < p THEN j ELSE j - 1
      OBVIOUS
    <3>2. l \in DOMAIN q /\ new[j] = q[l]
      BY <1>2, <3>1
    <3> QED
      BY <1>6, <2>1, <3>2 DEF NoStep
  <2> QED
    BY <1>3, <1>6, <2>1 DEF OneStep
<1> QED
  BY <1>4, <1>5, <1>6

LEMMA StepsAfterTaken ==
  ASSUME NEW S, NEW q \in Seq(S), NEW new \in Seq(S), NEW i \in DOMAIN q, Taken(new, q, i), NEW a
  PROVE  /\ NoStep(q, a) => NoStep(new, a)
         /\ ~Resumes(q[i], a) => \A m : OneStep(q, a, m) => OneStep(new, a, m)
         /\ Resumes(q[i], a) =>
              \A m : OneStep(q, a, m) => q[i].msg = m /\ NoStep(new, a)
<1>1. /\ DOMAIN new = 1 .. Len(q) - 1 /\ DOMAIN q = 1 .. Len(q) /\ Len(q) \in Nat
      /\ \A m \in 1 .. Len(q) - 1 : new[m] = IF m < i THEN q[m] ELSE q[m + 1]
  BY DEF Taken
<1>2. ASSUME NEW m \in DOMAIN new, NEW l, l = IF m < i THEN m ELSE m + 1
      PROVE  l \in DOMAIN q /\ l # i /\ new[m] = q[l]
  BY <1>1, <1>2
<1>3. ASSUME NoStep(q, a) PROVE NoStep(new, a)
  <2>1. ASSUME NEW m \in DOMAIN new PROVE ~Resumes(new[m], a)
    <3>1. PICK l : l = IF m < i THEN m ELSE m + 1
      OBVIOUS
    <3>2. l \in DOMAIN q /\ new[m] = q[l]
      BY <1>2, <3>1
    <3> QED
      BY <1>3, <3>2 DEF NoStep
  <2> QED
    BY <2>1 DEF NoStep
<1>4. ASSUME ~Resumes(q[i], a), NEW m, OneStep(q, a, m) PROVE OneStep(new, a, m)
  <2>1. PICK k \in DOMAIN q : /\ Resumes(q[k], a) /\ q[k].msg = m
                              /\ \A j \in DOMAIN q : Resumes(q[j], a) => j = k
    BY <1>4 DEF OneStep
  <2>2. k # i
    BY <1>4, <2>1
  <2>3. PICK n : n = IF k < i THEN k ELSE k - 1
    OBVIOUS
  <2>4. n \in DOMAIN new /\ new[n] = q[k]
    BY <1>1, <2>2, <2>3
  <2>5. ASSUME NEW j \in DOMAIN new, Resumes(new[j], a) PROVE j = n
    <3>1. PICK l : l = IF j < i THEN j ELSE j + 1
      OBVIOUS
    <3>2. l \in DOMAIN q /\ new[j] = q[l]
      BY <1>2, <3>1
    <3>3. l = k
      BY <2>1, <2>5, <3>2
    <3> QED
      BY <1>1, <2>2, <2>3, <3>1, <3>3
  <2> QED
    BY <2>1, <2>4, <2>5 DEF OneStep
<1>5. ASSUME Resumes(q[i], a), NEW m, OneStep(q, a, m) PROVE q[i].msg = m /\ NoStep(new, a)
  <2>1. PICK k \in DOMAIN q : /\ Resumes(q[k], a) /\ q[k].msg = m
                              /\ \A j \in DOMAIN q : Resumes(q[j], a) => j = k
    BY <1>5 DEF OneStep
  <2>2. k = i
    BY <1>5, <2>1
  <2>3. ASSUME NEW j \in DOMAIN new PROVE ~Resumes(new[j], a)
    <3>1. PICK l : l = IF j < i THEN j ELSE j + 1
      OBVIOUS
    <3>2. l \in DOMAIN q /\ l # i /\ new[j] = q[l]
      BY <1>2, <3>1
    <3> QED
      BY <2>1, <2>2, <3>2
  <2> QED
    BY <2>1, <2>2, <2>3 DEF NoStep
<1> QED
  BY <1>3, <1>4, <1>5

\* Time does not change what a call resumes.
LEMMA StepsAfterTime ==
  ASSUME NEW q, NEW new, DOMAIN new = DOMAIN q,
         \A i \in DOMAIN q : /\ new[i].run = q[i].run /\ new[i].actor = q[i].actor
                             /\ new[i].msg = q[i].msg,
         NEW a
  PROVE  /\ NoStep(q, a) => NoStep(new, a)
         /\ \A m : OneStep(q, a, m) => OneStep(new, a, m)
BY Zenon DEF NoStep, OneStep, Resumes

-----------------------------------------------------------------------------
(***************************************************************************)
(* What the two steps of an agenda, a call less and a call more, keep.     *)
(***************************************************************************)
Kept(q, new, b) ==
  /\ NoStep(q, b) => NoStep(new, b)
  /\ \A m : OneStep(q, b, m) => OneStep(new, b, m)

\* `new` is what is left of q when its i-th call has run.
Rest(new, q, i) ==
  /\ \A b : NoStep(q, b) => NoStep(new, b)
  /\ \A b : ~Resumes(q[i], b) => Kept(q, new, b)
  /\ \A b : Resumes(q[i], b) => \A m : OneStep(q, b, m) => q[i].msg = m /\ NoStep(new, b)

LEMMA RestOfTaken ==
  ASSUME NEW S, NEW q \in Seq(S), \A c \in S : c.due \in Nat, InOrder(q),
         NEW i \in DOMAIN q, NEW new \in Seq(S), Taken(new, q, i)
  PROVE  InOrder(new) /\ Rest(new, q, i)
<1>1. InOrder(new)
  BY OrderOfRest
<1>2. ASSUME NEW b
      PROVE  /\ NoStep(q, b) => NoStep(new, b)
             /\ ~Resumes(q[i], b) => Kept(q, new, b)
             /\ Resumes(q[i], b) => \A m : OneStep(q, b, m) => q[i].msg = m /\ NoStep(new, b)
  <2>1. /\ NoStep(q, b) => NoStep(new, b)
        /\ ~Resumes(q[i], b) => \A m : OneStep(q, b, m) => OneStep(new, b, m)
        /\ Resumes(q[i], b) => \A m : OneStep(q, b, m) => q[i].msg = m /\ NoStep(new, b)
    BY StepsAfterTaken
  <2> QED
    BY <2>1 DEF Kept
<1> QED
  BY <1>1, <1>2 DEF Rest

LEMMA RestByRemoveAt ==
  ASSUME NEW S, NEW q \in Seq(S), \A c \in S : c.due \in Nat, InOrder(q), NEW i \in DOMAIN q
  PROVE  RemoveAt(q, i) \in Seq(S) /\ InOrder(RemoveAt(q, i)) /\ Rest(RemoveAt(q, i), q, i)
<1>1. PICK new : new = RemoveAt(q, i)
  OBVIOUS
<1>2. i \in 1 .. Len(q)
  OBVIOUS
<1>3. new \in Seq(S) /\ Taken(new, q, i)
  BY <1>1, <1>2, TakenByRemoveAt
<1>4. InOrder(new) /\ Rest(new, q, i)
  BY <1>3, RestOfTaken
<1> QED
  BY <1>1, <1>3, <1>4

LEMMA RestByTail ==
  ASSUME NEW S, NEW q \in Seq(S), \A c \in S : c.due \in Nat, InOrder(q), q # <<>>
  PROVE  /\ Tail(q) \in Seq(S) /\ InOrder(Tail(q)) /\ Rest(Tail(q), q, 1)
         /\ 1 \in DOMAIN q /\ Head(q) = q[1]
<1>1. PICK new : new = Tail(q)
  OBVIOUS
<1>2. /\ new \in Seq(S) /\ Taken(new, q, 1)
      /\ 1 \in DOMAIN q /\ Head(q) = q[1]
  BY <1>1, TakenByTail
<1>3. InOrder(new) /\ Rest(new, q, 1)
  BY <1>2, RestOfTaken
<1> QED
  BY <1>1, <1>2, <1>3

\* Time 0 stands for a time in the past.
NotPast(due) == IF due < 0 THEN 0 ELSE due

LEMMA Scheduled ==
  ASSUME NEW S, NEW q \in Seq(S), \A c \in S : c.due \in Nat, InOrder(q),
         NEW due \in Int, NEW run, NEW a, NEW m, Call(NotPast(due), run, a, m) \in S
  PROVE  LET new == ScheduleAt(q, Call(due, run, a, m))
         IN  /\ new \in Seq(S) /\ InOrder(new)
             /\ \A b : run # "step" \/ a # b => Kept(q, new, b)
             /\ run = "step" /\ NoStep(q, a) => OneStep(new, a, m)
<1>1. PICK call, e, new : /\ call = Call(due, run, a, m) /\ e = Call(NotPast(due), run, a, m)
                          /\ new = ScheduleAt(q, call)
  OBVIOUS
<1>2. /\ e \in S /\ e = [call EXCEPT !.due = IF call.due < 0 THEN 0 ELSE call.due]
      /\ e.due = IF call.due < 0 THEN 0 ELSE call.due
  BY <1>1 DEF Call, NotPast
<1>3. PICK p \in 1 .. Len(q) + 1 : new \in Seq(S) /\ Put(new, q, p, e) /\ InOrder(new)
  BY <1>1, <1>2, OrderOfScheduled
<1>4. /\ \A b : Resumes(e, b) <=> run = "step" /\ a = b
      /\ e.msg = m
  BY <1>1 DEF Resumes, Call
<1>5. ASSUME NEW b
      PROVE  /\ ~Resumes(e, b) /\ NoStep(q, b) => NoStep(new, b)
             /\ ~Resumes(e, b) => \A x : OneStep(q, b, x) => OneStep(new, b, x)
             /\ Resumes(e, b) /\ NoStep(q, b) => OneStep(new, b, e.msg)
  BY <1>3, StepsAfterPut
<1>6. \A b : run # "step" \/ a # b => Kept(q, new, b)
  BY <1>4, <1>5 DEF Kept
<1>7. run = "step" /\ NoStep(q, a) => OneStep(new, a, m)
  BY <1>4, <1>5
<1> QED
  BY <1>1, <1>3, <1>6, <1>7

-----------------------------------------------------------------------------
(***************************************************************************)
(* The inductive invariant.                                                *)
(***************************************************************************)
\* Messages come from the bus, and only a woken receiver of the virtual-time
\* runtime is handed one with its step.
FineCall ==
  {c \in PendingCall :
     /\ c.run = "deliver" => c.msg \in published
     /\ c.run = "step" => c.msg \in published \cup {NoMessage}
     /\ c.run = "step" /\ (mode = "live" \/ c.actor \in Poller) => c.msg = NoMessage}

Typed ==
  /\ mode \in {"sim", "live"}
  /\ alive \in [Actor -> BOOLEAN]
  /\ running \in [Actor -> BOOLEAN]
  /\ waiting \in [Actor -> BOOLEAN]
  /\ published \in SUBSET Message
  /\ inbox \in [Actor -> Seq(published)]
  /\ got \in [Actor -> Seq(published)]
  /\ incarnation \in [Actor -> 0 .. MaxIncarnations]
  /\ agenda \in Seq(FineCall) /\ InOrder(agenda)

\* What resumes a, whatever it does.  Where a killed task is not cancelled, its step
\* stays, so nothing is said of the dead, who are not spawned again there.
Resumption(a) ==
  /\ running[a] => alive[a]
  /\ waiting[a] => a \in Receiver /\ running[a] /\ inbox[a] = <<>>
  /\ running[a] /\ ~waiting[a] => \E m : OneStep(agenda, a, m)
  /\ alive[a] /\ (waiting[a] \/ ~running[a]) => NoStep(agenda, a)
  /\ ~alive[a] => inbox[a] = <<>>
  /\ ~alive[a] /\ (mode = "live" \/ incarnation[a] = 0) => NoStep(agenda, a)
  /\ alive[a] => incarnation[a] # 0

RuntimeInv == Typed /\ \A a \in Actor : Resumption(a)

LEMMA FineDue == \A c \in FineCall : c.due \in Nat
BY DEF FineCall, PendingCall

LEMMA InitialOrder ==
  ASSUME NEW order \in SetToSeqs(InitialActors)
  PROVE  /\ order \in Seq(InitialActors)
         /\ \A i, j \in DOMAIN order : order[i] = order[j] => i = j
         /\ \A a \in InitialActors : \E i \in DOMAIN order : order[i] = a
<1> DEFINE n == Cardinality(InitialActors)
<1>1. /\ order \in [1 .. n -> InitialActors]
      /\ \A i, j \in 1 .. n : i # j => order[i] # order[j]
  BY DEF SetToSeqs
<1>2. n \in Nat /\ IsFiniteSet(InitialActors)
  BY RuntimeAssumption, FS_CardinalityType
<1>3. order \in Injection(1 .. n, InitialActors)
  BY <1>1 DEF Injection, IsInjective
<1>4. Cardinality(1 .. n) = n
  BY <1>2, FS_Interval
<1>5. order \in Surjection(1 .. n, InitialActors)
  BY <1>2, <1>3, <1>4, FS_Injection
<1>6. \A a \in InitialActors : \E i \in 1 .. n : order[i] = a
  BY <1>5 DEF Surjection
<1> HIDE DEF n
<1> QED
  BY <1>1, <1>2, <1>6

LEMMA RuntimeInvInit == RuntimesInit => RuntimeInv
<1> SUFFICES ASSUME Init, mode \in {"sim", "live"} PROVE RuntimeInv
  BY DEF RuntimesInit
<1>1. /\ alive = [a \in Actor |-> a \in InitialActors] /\ running = alive
      /\ waiting = [a \in Actor |-> FALSE] /\ inbox = [a \in Actor |-> <<>>]
      /\ published = {} /\ got = [a \in Actor |-> <<>>]
      /\ incarnation = [a \in Actor |-> IF a \in InitialActors THEN 1 ELSE 0]
  BY DEF Init
<1>2. PICK order \in SetToSeqs(InitialActors) :
        LET spawned == [i \in DOMAIN order |-> StepOf(order[i], NoMessage, 0)]
        IN  agenda \in {spawned}
              \cup {ScheduleAt(spawned, Call(at, "kill", a, NoMessage)) :
                      at \in FaultTime, a \in Poller}
  BY DEF Init
<1>3. /\ order \in Seq(InitialActors)
      /\ \A i, j \in DOMAIN order : order[i] = order[j] => i = j
      /\ \A a \in InitialActors : \E i \in DOMAIN order : order[i] = a
  BY InitialOrder
<1>4. PICK spawned : spawned = [i \in DOMAIN order |-> StepOf(order[i], NoMessage, 0)]
  OBVIOUS
<1>5. /\ DOMAIN spawned = DOMAIN order
      /\ \A i \in DOMAIN spawned :
           /\ spawned[i] \in FineCall /\ spawned[i].due = 0
           /\ spawned[i].run = "step" /\ spawned[i].actor = order[i] /\ spawned[i].msg = NoMessage
  BY <1>3, <1>4, RuntimeAssumption DEF StepOf, Call, FineCall, PendingCall
<1>6. spawned \in Seq(FineCall)
  <2>1. DOMAIN order = 1 .. Len(order) /\ Len(order) \in Nat
    BY <1>3
  <2>2. spawned \in [1 .. Len(order) -> FineCall]
    BY <1>4, <1>5, <2>1
  <2> QED
    BY <2>1, <2>2
<1>7. InOrder(spawned)
  <2>1. DOMAIN spawned = 1 .. Len(spawned) /\ Len(spawned) \in Nat
    BY <1>6
  <2>2. ASSUME NEW i \in DOMAIN spawned, i > 1 PROVE spawned[i - 1].due <= spawned[i].due
    <3>1. i - 1 \in DOMAIN spawned
      BY <2>1, <2>2
    <3> QED
      BY <1>5, <3>1
  <2> QED
    BY <2>2 DEF InOrder
<1>8. ASSUME NEW a \in Actor
      PROVE  /\ a \in InitialActors => OneStep(spawned, a, NoMessage)
             /\ a \notin InitialActors => NoStep(spawned, a)
  <2>1. CASE a \in InitialActors
    <3>1. PICK i \in DOMAIN order : order[i] = a
      BY <1>3, <2>1
    <3> QED
      BY <1>3, <1>5, <2>1, <3>1 DEF OneStep, Resumes
  <2>2. CASE a \notin InitialActors
    <3>1. \A i \in DOMAIN order : order[i] \in InitialActors
      BY <1>3
    <3> QED
      BY <1>5, <2>2, <3>1 DEF NoStep, Resumes
  <2> QED
    BY <2>1, <2>2
<1>9. agenda \in Seq(FineCall) /\ InOrder(agenda) /\ \A a \in Actor : Kept(spawned, agenda, a)
  <2>1. CASE agenda = spawned
    BY <1>6, <1>7, <2>1 DEF Kept
  <2>2. CASE \E at \in FaultTime, a \in Poller :
               agenda = ScheduleAt(spawned, Call(at, "kill", a, NoMessage))
    <3>1. PICK at \in FaultTime, a \in Poller :
                 agenda = ScheduleAt(spawned, Call(at, "kill", a, NoMessage))
      BY <2>2
    <3>2. at \in Int /\ Call(NotPast(at), "kill", a, NoMessage) \in FineCall
      BY RuntimeAssumption DEF Call, NotPast, FineCall, PendingCall, Actor
    <3>3. /\ agenda \in Seq(FineCall) /\ InOrder(agenda)
          /\ \A b : "kill" # "step" \/ a # b => Kept(spawned, agenda, b)
      BY <1>6, <1>7, <3>1, <3>2, FineDue, Scheduled, Zenon
    <3> QED
      BY <3>3
  <2> QED
    <3>1. agenda \in {spawned} \cup {ScheduleAt(spawned, Call(at, "kill", a, NoMessage)) :
                                       at \in FaultTime, a \in Poller}
      BY <1>2, <1>4
    <3>2. \/ agenda = spawned
          \/ \E at \in FaultTime, a \in Poller :
               agenda = ScheduleAt(spawned, Call(at, "kill", a, NoMessage))
      BY <3>1
    <3> QED
      BY <2>1, <2>2, <3>2, Zenon
<1>10. Typed
  <2>1. inbox \in [Actor -> Seq(published)] /\ got \in [Actor -> Seq(published)]
    BY <1>1
  <2>2. incarnation \in [Actor -> 0 .. MaxIncarnations]
    BY <1>1, RuntimeAssumption
  <2> QED
    BY <1>1, <1>9, <2>1, <2>2 DEF Typed
<1>11. ASSUME NEW a \in Actor PROVE Resumption(a)
  <2>1. /\ alive[a] = (a \in InitialActors) /\ running[a] = alive[a] /\ waiting[a] = FALSE
        /\ inbox[a] = <<>> /\ incarnation[a] = IF a \in InitialActors THEN 1 ELSE 0
    BY <1>1
  <2>2. CASE a \in InitialActors
    <3>1. OneStep(agenda, a, NoMessage)
      BY <1>8, <1>9, <2>2 DEF Kept
    <3>2. alive[a] /\ running[a] /\ ~waiting[a] /\ incarnation[a] = 1
      BY <2>1, <2>2
    <3> QED
      BY <3>1, <3>2 DEF Resumption
  <2>3. CASE a \notin InitialActors
    <3>1. NoStep(agenda, a)
      BY <1>8, <1>9, <2>3 DEF Kept
    <3>2. ~alive[a] /\ ~running[a] /\ ~waiting[a] /\ inbox[a] = <<>>
      BY <2>1, <2>3
    <3> QED
      BY <3>1, <3>2 DEF Resumption
  <2> QED
    BY <2>2, <2>3
<1> QED
  BY <1>10, <1>11 DEF RuntimeInv

-----------------------------------------------------------------------------
(***************************************************************************)
(* The words of the two instances mean what they mean here.                *)
(***************************************************************************)
LEMMA SimWords ==
  /\ \A pending, call : Sim!ScheduleAt(pending, call) = ScheduleAt(pending, call)
  /\ \A a, m, due : Sim!StepOf(a, m, due) = Call(due, "step", a, m)
BY DEF Sim!ScheduleAt, ScheduleAt, Sim!InsertAt, InsertAt, Sim!StepOf, Sim!Call, Call

LEMMA LiveWords ==
  /\ \A pending, call : Live!ScheduleAt(pending, call) = ScheduleAt(pending, call)
  /\ \A a, m, due : Live!StepOf(a, m, due) = Call(due, "step", a, m)
  /\ \A pending, i : Live!RemoveAt(pending, i) = RemoveAt(pending, i)
BY DEF Live!ScheduleAt, ScheduleAt, Live!InsertAt, InsertAt, Live!StepOf, Live!Call, Call,
       Live!RemoveAt, RemoveAt

-----------------------------------------------------------------------------
(***************************************************************************)
(* What a step leaves alone, and the mailboxes that are promised.          *)
(***************************************************************************)
\* The step is not about b: the steps of the dead may go.
Untouched(b) ==
  /\ alive'[b] = alive[b] /\ running'[b] = running[b] /\ waiting'[b] = waiting[b]
  /\ inbox'[b] = inbox[b] /\ incarnation'[b] = incarnation[b] /\ mode' = mode
  /\ NoStep(agenda, b) => NoStep(agenda', b)
  /\ alive[b] => Kept(agenda, agenda', b)

LEMMA ResumptionKept ==
  ASSUME NEW b \in Actor, Resumption(b), Untouched(b)
  PROVE  Resumption(b)'
<1>1. /\ alive'[b] = alive[b] /\ running'[b] = running[b] /\ waiting'[b] = waiting[b]
      /\ inbox'[b] = inbox[b] /\ incarnation'[b] = incarnation[b] /\ mode' = mode
      /\ NoStep(agenda, b) => NoStep(agenda', b)
      /\ alive[b] => \A m : OneStep(agenda, b, m) => OneStep(agenda', b, m)
  BY DEF Untouched, Kept
<1> QED
  BY <1>1 DEF Resumption

\* The messages in a's pending steps.
CarriedIn(q, a) ==
  LET calls == {i \in DOMAIN q : Resumes(q[i], a) /\ q[i].msg # NoMessage}
  IN  IF calls = {} THEN <<>> ELSE <<q[CHOOSE i \in calls : TRUE].msg>>

Handed(m) == IF m = NoMessage THEN <<>> ELSE <<m>>

LEMMA CarriedBySteps ==
  ASSUME NEW q, NEW a
  PROVE  /\ NoStep(q, a) => CarriedIn(q, a) = <<>>
         /\ \A m : OneStep(q, a, m) => CarriedIn(q, a) = Handed(m)
<1> DEFINE calls == {i \in DOMAIN q : Resumes(q[i], a) /\ q[i].msg # NoMessage}
<1>1. CarriedIn(q, a) = IF calls = {} THEN <<>> ELSE <<q[CHOOSE i \in calls : TRUE].msg>>
  BY DEF CarriedIn
<1>2. NoStep(q, a) => calls = {}
  BY DEF NoStep
<1>3. ASSUME NEW m, OneStep(q, a, m) PROVE CarriedIn(q, a) = Handed(m)
  <2>1. PICK i \in DOMAIN q : /\ Resumes(q[i], a) /\ q[i].msg = m
                              /\ \A j \in DOMAIN q : Resumes(q[j], a) => j = i
    BY <1>3 DEF OneStep
  <2>2. CASE m = NoMessage
    <3>1. calls = {}
      BY <2>1, <2>2
    <3> HIDE DEF calls
    <3> QED
      BY <1>1, <2>2, <3>1 DEF Handed
  <2>3. CASE m # NoMessage
    <3>1. calls = {i}
      BY <2>1, <2>3
    <3> HIDE DEF calls
    <3>2. (CHOOSE j \in calls : TRUE) = i
      BY <3>1
    <3> QED
      BY <1>1, <2>1, <2>3, <3>1, <3>2 DEF Handed
  <2> QED
    BY <2>2, <2>3
<1> HIDE DEF calls
<1> QED
  BY <1>1, <1>2, <1>3

LEMMA Mailbox ==
  ASSUME NEW a
  PROVE  /\ ~alive[a] => MailboxOf(a) = <<>>
         /\ alive[a] => MailboxOf(a) = CarriedIn(agenda, a) \o inbox[a]
<1> DEFINE one == {i \in StepsOf(a) : agenda[i].msg # NoMessage}
           other == {i \in DOMAIN agenda : Resumes(agenda[i], a) /\ agenda[i].msg # NoMessage}
<1>1. one = other
  BY DEF StepsOf, Resumes
<1>2. Carried(a) = CarriedIn(agenda, a)
  <2>1. Carried(a) = IF one = {} THEN <<>> ELSE <<agenda[CHOOSE i \in one : TRUE].msg>>
    BY DEF Carried
  <2>2. CarriedIn(agenda, a) = IF other = {} THEN <<>> ELSE <<agenda[CHOOSE i \in other : TRUE].msg>>
    BY DEF CarriedIn
  <2> HIDE DEF one, other
  <2> QED
    BY <1>1, <2>1, <2>2
<1> QED
  BY <1>2 DEF MailboxOf

LEMMA MailboxNext ==
  ASSUME NEW a
  PROVE  /\ ~alive'[a] => MailboxOf(a)' = <<>>
         /\ alive'[a] => MailboxOf(a)' = CarriedIn(agenda', a) \o inbox'[a]
<1> DEFINE one == {i \in StepsOf(a)' : agenda'[i].msg # NoMessage}
           other == {i \in DOMAIN agenda' : Resumes(agenda'[i], a) /\ agenda'[i].msg # NoMessage}
<1>1. one = other
  BY DEF StepsOf, Resumes
<1>2. Carried(a)' = CarriedIn(agenda', a)
  <2>1. Carried(a)' = IF one = {} THEN <<>> ELSE <<agenda'[CHOOSE i \in one : TRUE].msg>>
    BY DEF Carried
  <2>2. CarriedIn(agenda', a) = IF other = {} THEN <<>> ELSE <<agenda'[CHOOSE i \in other : TRUE].msg>>
    BY DEF CarriedIn
  <2> HIDE DEF one, other
  <2> QED
    BY <1>1, <2>1, <2>2
<1> QED
  BY <1>2 DEF MailboxOf

LEMMA MailboxKept ==
  ASSUME NEW b \in Actor, Resumption(b), Untouched(b)
  PROVE  MailboxOf(b)' = MailboxOf(b)
<1>1. /\ alive'[b] = alive[b] /\ inbox'[b] = inbox[b]
      /\ NoStep(agenda, b) => NoStep(agenda', b)
      /\ alive[b] => \A m : OneStep(agenda, b, m) => OneStep(agenda', b, m)
  BY DEF Untouched, Kept
<1>2. CASE ~alive[b]
  BY <1>1, <1>2, Mailbox, MailboxNext
<1>3. CASE alive[b]
  <2>1. NoStep(agenda, b) \/ \E m : OneStep(agenda, b, m)
    BY <1>3 DEF Resumption
  <2>2. CarriedIn(agenda', b) = CarriedIn(agenda, b)
    BY <1>1, <1>3, <2>1, CarriedBySteps
  <2> QED
    BY <1>1, <1>3, <2>2, Mailbox, MailboxNext
<1> QED
  BY <1>2, <1>3

\* What the runtimes promise of a step.
Promise == Promised!Next \/ UNCHANGED Promised!vars

Boxes == [a \in Actor |-> MailboxOf(a)]

LEMMA PromiseVars ==
  /\ Promised!vars = <<alive, Boxes, got>>
  /\ Promised!vars' = <<alive', Boxes', got'>>
BY DEF Promised!vars, Boxes

\* All mailboxes but a's stay as they are.
OnlyMailboxOf(a, box) == Boxes' = [Boxes EXCEPT ![a] = box]

LEMMA OneMailbox ==
  ASSUME NEW a \in Actor, \A b \in Actor \ {a} : MailboxOf(b)' = MailboxOf(b)
  PROVE  OnlyMailboxOf(a, MailboxOf(a)')
BY DEF OnlyMailboxOf, Boxes

LEMMA PromiseOfNothing ==
  ASSUME alive' = alive, got' = got, \A b \in Actor : MailboxOf(b)' = MailboxOf(b)
  PROVE  Promise
<1>1. Boxes' = Boxes
  BY DEF Boxes
<1> QED
  BY <1>1, PromiseVars DEF Promise

LEMMA PromiseOfDelivery ==
  ASSUME NEW a \in Actor, NEW m \in Message, alive[a], alive' = alive, got' = got,
         \A b \in Actor \ {a} : MailboxOf(b)' = MailboxOf(b),
         MailboxOf(a)' = Append(MailboxOf(a), m)
  PROVE  Promise
<1>1. Boxes' = [Boxes EXCEPT ![a] = Append(Boxes[a], m)]
  BY DEF Boxes
<1>2. Promised!Deliver(a, m)
  BY <1>1 DEF Promised!Deliver, Boxes
<1> QED
  BY <1>2 DEF Promise, Promised!Next

LEMMA PromiseOfReceipt ==
  ASSUME NEW a \in Actor, NEW n \in 0 .. Len(MailboxOf(a)), NEW S, MailboxOf(a) \in Seq(S),
         got \in [Actor -> Seq(S)], alive[a], alive' = alive,
         got' = [got EXCEPT ![a] = got[a] \o SubSeq(MailboxOf(a), 1, n)],
         \A b \in Actor \ {a} : MailboxOf(b)' = MailboxOf(b),
         MailboxOf(a)' = SubSeq(MailboxOf(a), n + 1, Len(MailboxOf(a)))
  PROVE  Promise
<1>1. CASE n = 0
  <2>1. PICK s : s = MailboxOf(a)
    OBVIOUS
  <2>2. s \in Seq(S) /\ SubSeq(s, 1, 0) = <<>> /\ SubSeq(s, 1, Len(s)) = s
    BY <2>1
  <2>3. got[a] \o <<>> = got[a]
    BY got[a] \in Seq(S)
  <2>4. got' = got
    BY <1>1, <2>1, <2>2, <2>3
  <2>5. MailboxOf(a)' = MailboxOf(a)
    BY <1>1, <2>1, <2>2
  <2> QED
    BY <2>4, <2>5, PromiseOfNothing
<1>2. CASE n # 0
  <2>1. Boxes' = [Boxes EXCEPT ![a] = SubSeq(Boxes[a], n + 1, Len(Boxes[a]))]
    BY DEF Boxes
  <2>2. Promised!Receive(a, n)
    BY <2>1 DEF Promised!Receive, Boxes
  <2>3. n \in 1 .. Len(Boxes[a])
    BY <1>2 DEF Boxes
  <2> QED
    BY <2>2, <2>3 DEF Promise, Promised!Next, Boxes
<1> QED
  BY <1>1, <1>2

LEMMA PromiseOfKill ==
  ASSUME NEW a \in Actor, alive[a], alive' = [alive EXCEPT ![a] = FALSE], got' = got,
         \A b \in Actor \ {a} : MailboxOf(b)' = MailboxOf(b), MailboxOf(a)' = <<>>
  PROVE  Promise
<1>1. Boxes' = [Boxes EXCEPT ![a] = <<>>]
  BY DEF Boxes
<1>2. Promised!Kill(a)
  BY <1>1 DEF Promised!Kill, Boxes
<1> QED
  BY <1>2 DEF Promise, Promised!Next

LEMMA PromiseOfSpawn ==
  ASSUME NEW a \in Actor, ~alive[a], alive' = [alive EXCEPT ![a] = TRUE],
         got' = [got EXCEPT ![a] = <<>>],
         \A b \in Actor \ {a} : MailboxOf(b)' = MailboxOf(b), MailboxOf(a)' = MailboxOf(a)
  PROVE  Promise
<1>1. Boxes' = Boxes
  BY DEF Boxes
<1>2. Promised!Spawn(a)
  BY <1>1 DEF Promised!Spawn, Boxes
<1> QED
  BY <1>2 DEF Promise, Promised!Next

LEMMA CarriedType ==
  ASSUME RuntimeInv, NEW a \in Actor, alive[a]
  PROVE  CarriedIn(agenda, a) \in Seq(published)
<1>1. agenda \in Seq(FineCall)
  BY DEF RuntimeInv, Typed
<1>2. CASE NoStep(agenda, a)
  <2>1. CarriedIn(agenda, a) = <<>> /\ <<>> \in Seq(published)
    BY <1>2, CarriedBySteps
  <2> QED
    BY <2>1
<1>3. CASE \E m : OneStep(agenda, a, m)
  <2>1. PICK m : OneStep(agenda, a, m)
    BY <1>3
  <2>2. PICK i \in DOMAIN agenda : Resumes(agenda[i], a) /\ agenda[i].msg = m
    BY <2>1 DEF OneStep
  <2>3. agenda[i] \in FineCall
    BY <1>1
  <2>4. m \in published \cup {NoMessage}
    BY <2>2, <2>3 DEF FineCall, Resumes
  <2>5. Handed(m) \in Seq(published)
    BY <2>4 DEF Handed
  <2> QED
    BY <2>1, <2>5, CarriedBySteps
<1> QED
  BY <1>2, <1>3 DEF RuntimeInv, Resumption

LEMMA MailboxType ==
  ASSUME RuntimeInv, NEW a \in Actor
  PROVE  MailboxOf(a) \in Seq(published)
<1>1. inbox[a] \in Seq(published)
  BY DEF RuntimeInv, Typed
<1>2. CASE ~alive[a]
  <2>1. MailboxOf(a) = <<>> /\ <<>> \in Seq(published)
    BY <1>2, Mailbox
  <2> QED
    BY <2>1
<1>3. CASE alive[a]
  <2>1. CarriedIn(agenda, a) \in Seq(published)
    BY <1>3, CarriedType
  <2>2. CarriedIn(agenda, a) \o inbox[a] \in Seq(published)
    BY <1>1, <2>1, Joined
  <2>3. MailboxOf(a) = CarriedIn(agenda, a) \o inbox[a]
    BY <1>3, Mailbox
  <2> QED
    BY <2>2, <2>3
<1> QED
  BY <1>2, <1>3

-----------------------------------------------------------------------------
(***************************************************************************)
(* The steps, each for both runtimes: `rest` is the agenda without the     *)
(* i-th call, which has run.                                               *)
(***************************************************************************)
RestOf(rest, i) ==
  /\ i \in DOMAIN agenda /\ agenda[i] \in FineCall
  /\ rest \in Seq(FineCall) /\ InOrder(rest) /\ Rest(rest, agenda, i)

LEMMA RestIsTail ==
  ASSUME RuntimeInv, agenda # <<>>
  PROVE  RestOf(Tail(agenda), 1) /\ Head(agenda) = agenda[1]
<1>1. agenda \in Seq(FineCall) /\ InOrder(agenda)
  BY DEF RuntimeInv, Typed
<1>2. /\ Tail(agenda) \in Seq(FineCall) /\ InOrder(Tail(agenda)) /\ Rest(Tail(agenda), agenda, 1)
      /\ 1 \in DOMAIN agenda /\ Head(agenda) = agenda[1]
  BY <1>1, FineDue, RestByTail
<1>3. agenda[1] \in FineCall
  BY <1>1, <1>2
<1> QED
  BY <1>2, <1>3 DEF RestOf

LEMMA RestIsRemoved ==
  ASSUME RuntimeInv, NEW i \in DOMAIN agenda
  PROVE  RestOf(RemoveAt(agenda, i), i)
<1>1. agenda \in Seq(FineCall) /\ InOrder(agenda)
  BY DEF RuntimeInv, Typed
<1>2. RemoveAt(agenda, i) \in Seq(FineCall) /\ InOrder(RemoveAt(agenda, i))
      /\ Rest(RemoveAt(agenda, i), agenda, i)
  BY <1>1, FineDue, RestByRemoveAt
<1>3. agenda[i] \in FineCall
  BY <1>1
<1> QED
  BY <1>2, <1>3 DEF RestOf

LEMMA FineSame == mode' = mode /\ published' = published => FineCall' = FineCall
BY DEF FineCall

LEMMA Concluded ==
  ASSUME RuntimeInv, NEW a \in Actor, Typed', Resumption(a)', \A b \in Actor \ {a} : Untouched(b)
  PROVE  RuntimeInv' /\ \A b \in Actor \ {a} : MailboxOf(b)' = MailboxOf(b)
<1>1. ASSUME NEW b \in Actor \ {a} PROVE Resumption(b)' /\ MailboxOf(b)' = MailboxOf(b)
  <2>1. b \in Actor /\ Resumption(b) /\ Untouched(b)
    BY DEF RuntimeInv
  <2>2. Resumption(b)'
    BY <2>1, ResumptionKept
  <2>3. MailboxOf(b)' = MailboxOf(b)
    BY <2>1, MailboxKept
  <2> QED
    BY <2>2, <2>3
<1>2. \A b \in Actor : Resumption(b)'
  BY <1>1
<1> QED
  BY <1>1, <1>2 DEF RuntimeInv

\* A call that does nothing: for the dead, or for a coroutine that has ended.
LEMMA NothingStep ==
  ASSUME RuntimeInv, NEW i, NEW rest, RestOf(rest, i), agenda' = rest,
         \A b \in Actor : Resumes(agenda[i], b) => ~running[b],
         UNCHANGED <<alive, running, waiting, inbox, published, got, incarnation, mode>>
  PROVE  RuntimeInv' /\ Promise
<1>1. Typed'
  BY FineSame DEF RuntimeInv, Typed, RestOf
<1>2. ASSUME NEW b \in Actor PROVE Untouched(b)
  <2>1. NoStep(agenda, b) => NoStep(rest, b)
    BY DEF RestOf, Rest
  <2>2. CASE ~Resumes(agenda[i], b)
    <3>1. Kept(agenda, rest, b)
      BY <2>2 DEF RestOf, Rest
    <3> QED
      BY <2>1, <3>1 DEF Untouched
  <2>3. CASE Resumes(agenda[i], b)
    <3>1. Resumption(b) /\ ~running[b] /\ i \in DOMAIN agenda
      BY <2>3 DEF RuntimeInv, RestOf
    <3>2. ~alive[b]
      BY <2>3, <3>1 DEF Resumption, NoStep
    <3> QED
      BY <2>1, <3>2 DEF Untouched
  <2> QED
    BY <2>2, <2>3
<1>3. ASSUME NEW b \in Actor PROVE Resumption(b)' /\ MailboxOf(b)' = MailboxOf(b)
  <2>1. Resumption(b) /\ Untouched(b)
    BY <1>2 DEF RuntimeInv
  <2> QED
    BY <2>1, ResumptionKept, MailboxKept
<1>4. RuntimeInv'
  BY <1>1, <1>3 DEF RuntimeInv
<1> QED
  BY <1>3, <1>4, PromiseOfNothing

\* What is known of a live actor.
LEMMA OfTheLiving ==
  ASSUME RuntimeInv, NEW a \in Actor
  PROVE  /\ waiting[a] => /\ alive[a] /\ running[a] /\ a \in Receiver /\ inbox[a] = <<>>
                          /\ NoStep(agenda, a) /\ MailboxOf(a) = <<>>
         /\ running[a] => alive[a]
         /\ alive[a] => incarnation[a] # 0
         /\ \A m : alive[a] /\ OneStep(agenda, a, m) => MailboxOf(a) = Handed(m) \o inbox[a]
         /\ alive[a] /\ NoStep(agenda, a) => MailboxOf(a) = <<>> \o inbox[a]
         /\ inbox[a] \in Seq(published) /\ <<>> \o inbox[a] = inbox[a]
<1>1. Resumption(a) /\ inbox[a] \in Seq(published)
  BY DEF RuntimeInv, Typed
<1>2. <<>> \o inbox[a] = inbox[a] /\ <<>> \o <<>> = <<>>
  BY <1>1
<1>3. alive[a] /\ NoStep(agenda, a) => MailboxOf(a) = <<>> \o inbox[a]
  BY CarriedBySteps, Mailbox
<1>4. \A m : alive[a] /\ OneStep(agenda, a, m) => MailboxOf(a) = Handed(m) \o inbox[a]
  BY CarriedBySteps, Mailbox
<1>5. /\ waiting[a] => /\ alive[a] /\ running[a] /\ a \in Receiver /\ inbox[a] = <<>>
                       /\ NoStep(agenda, a)
      /\ running[a] => alive[a]
      /\ alive[a] => incarnation[a] # 0
  BY <1>1 DEF Resumption
<1>6. waiting[a] => MailboxOf(a) = <<>>
  BY <1>2, <1>3, <1>5
<1> QED
  BY <1>1, <1>2, <1>3, <1>4, <1>5, <1>6

\* A message is put into the inbox of an actor that does not wait for it.
LEMMA DeliveryToTheBusy ==
  ASSUME RuntimeInv, NEW i, NEW rest, RestOf(rest, i), agenda' = rest,
         NEW a, a = agenda[i].actor, agenda[i].run = "deliver", alive[a], ~waiting[a],
         inbox' = [inbox EXCEPT ![a] = Append(inbox[a], agenda[i].msg)],
         UNCHANGED <<alive, running, waiting, published, got, incarnation, mode>>
  PROVE  RuntimeInv' /\ Promise
<1>1. PICK m : m = agenda[i].msg
  OBVIOUS
<1>2. a \in Actor /\ m \in published /\ m \in Message
  BY <1>1 DEF RestOf, FineCall, PendingCall, RuntimeInv, Typed
<1>3. /\ inbox \in [Actor -> Seq(published)] /\ inbox' = [inbox EXCEPT ![a] = Append(inbox[a], m)]
      /\ inbox[a] \in Seq(published) /\ Append(inbox[a], m) \in Seq(published)
  BY <1>1, <1>2 DEF RuntimeInv, Typed
<1>4. Typed'
  <2>1. inbox' \in [Actor -> Seq(published)]
    BY <1>2, <1>3
  <2> QED
    BY <2>1, FineSame DEF RuntimeInv, Typed, RestOf
<1>5. \A b \in Actor : Kept(agenda, agenda', b)
  BY DEF RestOf, Rest, Resumes
<1>6. ASSUME NEW b \in Actor \ {a} PROVE Untouched(b)
  BY <1>2, <1>3, <1>5 DEF Untouched, Kept
<1>7. Resumption(a)'
  BY <1>2, <1>5 DEF Resumption, RuntimeInv, Kept
<1>8. RuntimeInv' /\ \A b \in Actor \ {a} : MailboxOf(b)' = MailboxOf(b)
  BY <1>2, <1>4, <1>6, <1>7, Concluded
<1>9. MailboxOf(a)' = Append(MailboxOf(a), m)
  <2>1. CarriedIn(agenda', a) = CarriedIn(agenda, a)
    <3>1. NoStep(agenda, a) \/ \E x : OneStep(agenda, a, x)
      BY <1>2 DEF RuntimeInv, Resumption
    <3> QED
      BY <1>2, <1>5, <3>1, CarriedBySteps DEF Kept
  <2>2. MailboxOf(a) = CarriedIn(agenda, a) \o inbox[a] /\ MailboxOf(a) \in Seq(published)
    BY <1>2, Mailbox, MailboxType
  <2>3. MailboxOf(a)' = CarriedIn(agenda, a) \o Append(inbox[a], m)
    BY <1>2, <1>3, <2>1, MailboxNext
  <2>4. CarriedIn(agenda, a) \in Seq(published)
    BY <1>2, CarriedType
  <2>5. PICK s, t : s = CarriedIn(agenda, a) /\ t = inbox[a]
    OBVIOUS
  <2>6. s \o Append(t, m) = Append(s \o t, m)
    <3>1. s \in Seq(published) /\ t \in Seq(published) /\ m \in published
      BY <1>2, <1>3, <2>4, <2>5
    <3> QED
      BY <3>1, AppendLast
  <2>7. MailboxOf(a) = s \o t /\ MailboxOf(a)' = s \o Append(t, m)
    BY <2>2, <2>3, <2>5
  <2> QED
    BY <2>6, <2>7
<1> QED
  BY <1>2, <1>8, <1>9, PromiseOfDelivery

\* `new` is `rest` and one step for a that carries m.
StepAdded(new, rest, a, m) ==
  /\ new \in Seq(FineCall) /\ InOrder(new)
  /\ \A b : a # b => Kept(rest, new, b)
  /\ NoStep(rest, a) => OneStep(new, a, m)

\* Only a receiver of the virtual-time runtime is handed a message with its step.
Fit(a, m) == m = NoMessage \/ (m \in published /\ mode # "live" /\ a \notin Poller)

LEMMA StepScheduled ==
  ASSUME RuntimeInv, NEW rest \in Seq(FineCall), InOrder(rest), NEW a \in Actor, NEW m, Fit(a, m),
         NEW due \in Nat
  PROVE  StepAdded(ScheduleAt(rest, Call(due, "step", a, m)), rest, a, m)
<1>0. PICK new : new = ScheduleAt(rest, Call(due, "step", a, m))
  OBVIOUS
<1>1. NotPast(due) = due /\ due \in Int
  BY DEF NotPast
<1>2. Call(NotPast(due), "step", a, m) \in FineCall
  BY <1>1 DEF Call, FineCall, PendingCall, RuntimeInv, Typed, Fit
<1>3. /\ new \in Seq(FineCall) /\ InOrder(new)
      /\ \A b : "step" # "step" \/ a # b => Kept(rest, new, b)
      /\ "step" = "step" /\ NoStep(rest, a) => OneStep(new, a, m)
  BY <1>0, <1>1, <1>2, FineDue, Scheduled, Zenon
<1>4. StepAdded(new, rest, a, m)
  BY <1>3 DEF StepAdded
<1> QED
  BY <1>0, <1>4

\* Calls taken for a and put for a are nothing to the others.
LEMMA KeptTwice ==
  ASSUME NEW i, NEW rest, RestOf(rest, i), NEW new, NEW b,
         Kept(rest, new, b), ~Resumes(agenda[i], b)
  PROVE  Kept(agenda, new, b)
<1>1. Kept(agenda, rest, b)
  BY DEF RestOf, Rest
<1> QED
  BY <1>1 DEF Kept

\* A message wakes an actor that waits: its step carries the message, or the message
\* is in the inbox.
Wakes(i, rest, a, m, box) ==
  /\ RestOf(rest, i) /\ a = agenda[i].actor /\ agenda[i].run = "deliver" /\ waiting[a]
  /\ m = NoMessage \/ (m \in published /\ mode # "live")
  /\ box \in Seq(published) /\ Handed(m) \o box = <<agenda[i].msg>>
  /\ agenda' = ScheduleAt(rest, Call(0, "step", a, m))
  /\ waiting' = [waiting EXCEPT ![a] = FALSE]
  /\ inbox' = [inbox EXCEPT ![a] = box]
  /\ UNCHANGED <<alive, running, published, got, incarnation, mode>>

LEMMA DeliveryWakes ==
  ASSUME RuntimeInv, NEW i, NEW rest, NEW a, NEW m, NEW box, Wakes(i, rest, a, m, box)
  PROVE  RuntimeInv' /\ Promise
<1> USE DEF Wakes
<1>1. a \in Actor /\ agenda[i].msg \in published /\ agenda[i].msg \in Message
  BY DEF RestOf, FineCall, PendingCall, RuntimeInv, Typed
<1>2. /\ alive[a] /\ running[a] /\ a \in Receiver /\ NoStep(agenda, a) /\ MailboxOf(a) = <<>>
      /\ incarnation[a] # 0
  BY <1>1, OfTheLiving
<1>3. a \notin Poller
  BY <1>2, RuntimeAssumption
<1>4. rest \in Seq(FineCall) /\ InOrder(rest) /\ NoStep(rest, a)
  BY <1>2 DEF RestOf, Rest
<1>5. /\ agenda' \in Seq(FineCall) /\ InOrder(agenda')
      /\ \A b : a # b => Kept(rest, agenda', b)
      /\ OneStep(agenda', a, m)
  <2>1. Fit(a, m) /\ 0 \in Nat
    BY <1>3 DEF Fit
  <2>2. StepAdded(ScheduleAt(rest, Call(0, "step", a, m)), rest, a, m)
    BY <1>1, <1>4, <2>1, StepScheduled
  <2>3. StepAdded(agenda', rest, a, m)
    BY <2>2
  <2> QED
    BY <1>4, <2>3 DEF StepAdded
<1>6. Typed'
  <2>1. inbox' \in [Actor -> Seq(published)] /\ waiting' \in [Actor -> BOOLEAN]
    BY <1>1 DEF RuntimeInv, Typed
  <2> QED
    BY <1>5, <2>1, FineSame DEF RuntimeInv, Typed
<1>7. ASSUME NEW b, a # b PROVE Kept(agenda, agenda', b)
  <2>1. Kept(rest, agenda', b) /\ ~Resumes(agenda[i], b)
    BY <1>5, <1>7 DEF Resumes
  <2> QED
    BY <2>1, KeptTwice
<1>8. ASSUME NEW b \in Actor \ {a} PROVE Untouched(b)
  BY <1>7 DEF Untouched, RuntimeInv, Typed, Kept
<1>9. /\ alive'[a] /\ running'[a] /\ ~waiting'[a] /\ incarnation'[a] # 0 /\ inbox'[a] = box
  BY <1>1, <1>2 DEF RuntimeInv, Typed
<1>10. Resumption(a)'
  BY <1>5, <1>9 DEF Resumption
<1>11. RuntimeInv' /\ \A b \in Actor \ {a} : MailboxOf(b)' = MailboxOf(b)
  BY <1>1, <1>6, <1>8, <1>10, Concluded
<1>12. MailboxOf(a)' = Append(MailboxOf(a), agenda[i].msg)
  <2>1. MailboxOf(a)' = Handed(m) \o box
    <3>1. CarriedIn(agenda', a) = Handed(m)
      BY <1>5, CarriedBySteps
    <3> QED
      BY ZenonT(30), <1>9, <3>1, MailboxNext
  <2>2. Append(<<>>, agenda[i].msg) = <<agenda[i].msg>>
    OBVIOUS
  <2> QED
    BY <1>2, <2>1, <2>2
<1> QED
  BY <1>1, <1>2, <1>11, <1>12, PromiseOfDelivery

\* What is known when an actor's step is due.
LEMMA StepIsTheOne ==
  ASSUME RuntimeInv, NEW i, NEW rest, RestOf(rest, i), NEW a, Resumes(agenda[i], a),
         alive[a], running[a]
  PROVE  /\ a \in Actor /\ ~waiting[a] /\ OneStep(agenda, a, agenda[i].msg) /\ NoStep(rest, a)
         /\ MailboxOf(a) = Handed(agenda[i].msg) \o inbox[a]
         /\ MailboxOf(a) \in Seq(published) /\ inbox[a] \in Seq(published)
         /\ incarnation[a] # 0
         /\ \A b : a # b => ~Resumes(agenda[i], b)
         /\ mode = "live" \/ a \in Poller => agenda[i].msg = NoMessage
<1>1. a \in Actor /\ i \in DOMAIN agenda /\ agenda[i] \in FineCall
  BY DEF RestOf, Resumes, FineCall, PendingCall
<1>2. Resumption(a)
  BY <1>1 DEF RuntimeInv
<1>3. ~NoStep(agenda, a)
  BY <1>1 DEF NoStep
<1>4. ~waiting[a] /\ \E m : OneStep(agenda, a, m)
  BY <1>2, <1>3 DEF Resumption
<1>5. PICK m : OneStep(agenda, a, m)
  BY <1>4
<1>6. agenda[i].msg = m /\ NoStep(rest, a)
  BY <1>5 DEF RestOf, Rest
<1>7. /\ MailboxOf(a) = Handed(agenda[i].msg) \o inbox[a] /\ inbox[a] \in Seq(published)
      /\ incarnation[a] # 0
  BY <1>1, <1>5, <1>6, OfTheLiving
<1>8. MailboxOf(a) \in Seq(published)
  BY <1>1, MailboxType
<1>9. mode = "live" \/ a \in Poller => agenda[i].msg = NoMessage
  BY <1>1 DEF Resumes, FineCall
<1> QED
  BY <1>1, <1>4, <1>5, <1>6, <1>7, <1>8, <1>9 DEF Resumes

\* The two parts of a mailbox: what is handed over and what is kept.
LEMMA Parted ==
  ASSUME NEW S, NEW h \in Seq(S), NEW t \in Seq(S)
  PROVE  /\ SubSeq(h \o t, 1, Len(h)) = h /\ SubSeq(h \o t, Len(h) + 1, Len(h \o t)) = t
         /\ Len(h) \in 0 .. Len(h \o t)
<1> DEFINE w == h \o t
<1>1. /\ w \in Seq(S) /\ Len(w) = Len(h) + Len(t)
      /\ \A m \in 1 .. Len(h) + Len(t) : w[m] = IF m <= Len(h) THEN h[m] ELSE t[m - Len(h)]
  BY Joined
<1> HIDE DEF w
<1>2. Len(h) \in Nat /\ Len(t) \in Nat
  OBVIOUS
<1>3. SubSeq(w, 1, Len(h)) = h
  <2> DEFINE one == SubSeq(w, 1, Len(h))
  <2>1. one \in Seq(S) /\ Len(one) = Len(h) /\ \A m \in 1 .. Len(h) : one[m] = w[m]
    BY <1>1, <1>2
  <2> HIDE DEF one
  <2>2. \A m \in 1 .. Len(h) : one[m] = h[m]
    BY <1>1, <1>2, <2>1
  <2>3. one = h
    BY <2>1, <2>2
  <2> QED
    BY <2>3 DEF one
<1>4. SubSeq(w, Len(h) + 1, Len(w)) = t
  <2> DEFINE two == SubSeq(w, Len(h) + 1, Len(w))
  <2>1. /\ two \in Seq(S) /\ Len(two) = Len(t)
        /\ \A m \in 1 .. Len(t) : two[m] = w[Len(h) + m]
    BY <1>1, <1>2
  <2> HIDE DEF two
  <2>2. ASSUME NEW m \in 1 .. Len(t) PROVE two[m] = t[m]
    <3>1. PICK k : k = Len(h) + m
      OBVIOUS
    <3>2. k \in 1 .. Len(h) + Len(t) /\ ~(k <= Len(h)) /\ k - Len(h) = m
      BY <1>2, <3>1
    <3>3. two[m] = w[k]
      BY <2>1, <3>1
    <3> QED
      BY <1>1, <3>2, <3>3
  <2>3. two = t
    BY <2>1, <2>2
  <2> QED
    BY <2>3 DEF two
<1>5. Len(h) \in 0 .. Len(w)
  BY <1>1, <1>2
<1> QED
  BY <1>3, <1>4, <1>5 DEF w

LEMMA PromiseOfFirst ==
  ASSUME Typed, NEW a \in Actor, alive[a], alive' = alive,
         NEW h \in Seq(published), NEW t \in Seq(published), MailboxOf(a) = h \o t,
         got' = [got EXCEPT ![a] = got[a] \o h],
         \A b \in Actor \ {a} : MailboxOf(b)' = MailboxOf(b), MailboxOf(a)' = t
  PROVE  Promise
<1>1. h \in Seq(published) /\ t \in Seq(published)
  OBVIOUS
<1>2. PICK n : n = Len(h)
  OBVIOUS
<1>3. /\ SubSeq(h \o t, 1, n) = h /\ SubSeq(h \o t, n + 1, Len(h \o t)) = t
      /\ n \in 0 .. Len(h \o t) /\ h \o t \in Seq(published)
  BY <1>1, <1>2, Parted, Joined
<1>4. /\ n \in 0 .. Len(MailboxOf(a)) /\ MailboxOf(a) \in Seq(published)
      /\ got' = [got EXCEPT ![a] = got[a] \o SubSeq(MailboxOf(a), 1, n)]
      /\ MailboxOf(a)' = SubSeq(MailboxOf(a), n + 1, Len(MailboxOf(a)))
  BY <1>3
<1>5. got \in [Actor -> Seq(published)]
  BY DEF Typed
<1> QED
  BY <1>4, <1>5, PromiseOfReceipt

\* A coroutine that has taken all it could get waits for more.
LEMMA BlocksStep ==
  ASSUME RuntimeInv, NEW i, NEW rest, RestOf(rest, i), agenda' = rest,
         NEW a, Resumes(agenda[i], a), alive[a], running[a], a \in Receiver,
         got' = [got EXCEPT ![a] = got[a] \o MailboxOf(a)],
         waiting' = [waiting EXCEPT ![a] = TRUE], inbox' = [inbox EXCEPT ![a] = <<>>],
         UNCHANGED <<alive, running, published, incarnation, mode>>
  PROVE  RuntimeInv' /\ Promise
<1>1. /\ a \in Actor /\ ~waiting[a] /\ NoStep(rest, a) /\ MailboxOf(a) \in Seq(published)
      /\ incarnation[a] # 0 /\ \A b : a # b => ~Resumes(agenda[i], b)
  BY StepIsTheOne
<1>2. <<>> \in Seq(published) /\ got[a] \in Seq(published)
  BY <1>1 DEF RuntimeInv, Typed
<1>3. got[a] \o MailboxOf(a) \in Seq(published) /\ MailboxOf(a) \o <<>> = MailboxOf(a)
  BY <1>1, <1>2, Joined
<1>4. Typed'
  <2>1. /\ inbox' \in [Actor -> Seq(published)] /\ waiting' \in [Actor -> BOOLEAN]
        /\ got' \in [Actor -> Seq(published)]
    BY <1>1, <1>2, <1>3 DEF RuntimeInv, Typed
  <2> QED
    BY <2>1, FineSame DEF RuntimeInv, Typed, RestOf
<1>5. ASSUME NEW b \in Actor \ {a} PROVE Untouched(b)
  <2>1. Kept(agenda, agenda', b)
    BY <1>1 DEF RestOf, Rest
  <2> QED
    BY <2>1 DEF Untouched, RuntimeInv, Typed, Kept
<1>6. alive'[a] /\ running'[a] /\ waiting'[a] /\ incarnation'[a] # 0 /\ inbox'[a] = <<>>
  BY <1>1 DEF RuntimeInv, Typed
<1>7. Resumption(a)'
  BY <1>1, <1>6 DEF Resumption
<1>8. RuntimeInv' /\ \A b \in Actor \ {a} : MailboxOf(b)' = MailboxOf(b)
  BY <1>1, <1>4, <1>5, <1>7, Concluded
<1>9. MailboxOf(a)' = <<>>
  <2>1. CarriedIn(agenda', a) = <<>>
    BY <1>1, CarriedBySteps
  <2> QED
    BY <1>6, <2>1, MailboxNext
<1> QED
  BY <1>1, <1>2, <1>3, <1>8, <1>9, PromiseOfFirst DEF RuntimeInv

\* A coroutine goes on with a step of its own: to sleep, with an empty inbox, or to be
\* handed the oldest message left in it.
GoesOn(i, rest, a, m, due, h, box) ==
  /\ RestOf(rest, i) /\ Resumes(agenda[i], a) /\ alive[a] /\ running[a]
  /\ Fit(a, m) /\ due \in Nat /\ agenda' = ScheduleAt(rest, Call(due, "step", a, m))
  /\ h \in Seq(published) /\ box \in Seq(published) /\ Handed(m) \o box \in Seq(published)
  /\ MailboxOf(a) = h \o (Handed(m) \o box)
  /\ got' = [got EXCEPT ![a] = got[a] \o h]
  /\ inbox' = [inbox EXCEPT ![a] = box]
  /\ UNCHANGED <<alive, running, waiting, published, incarnation, mode>>

LEMMA GoesOnStep ==
  ASSUME RuntimeInv, NEW i, NEW rest, NEW a, NEW m, NEW due, NEW h, NEW box,
         GoesOn(i, rest, a, m, due, h, box)
  PROVE  RuntimeInv' /\ Promise
<1> USE DEF GoesOn
<1>1. /\ a \in Actor /\ ~waiting[a] /\ NoStep(rest, a)
      /\ incarnation[a] # 0 /\ \A b : a # b => ~Resumes(agenda[i], b)
  BY StepIsTheOne
<1>2. rest \in Seq(FineCall) /\ InOrder(rest)
  BY DEF RestOf
<1>3. StepAdded(agenda', rest, a, m)
  <2>1. StepAdded(ScheduleAt(rest, Call(due, "step", a, m)), rest, a, m)
    BY <1>1, <1>2, StepScheduled
  <2> QED
    BY <2>1
<1>4. got[a] \o h \in Seq(published)
  <2>1. got[a] \in Seq(published)
    BY <1>1 DEF RuntimeInv, Typed
  <2> QED
    BY <2>1, Joined
<1>5. Typed'
  <2>1. inbox' \in [Actor -> Seq(published)] /\ got' \in [Actor -> Seq(published)]
    BY <1>1, <1>4 DEF RuntimeInv, Typed
  <2> QED
    BY <1>3, <2>1, FineSame DEF RuntimeInv, Typed, StepAdded
<1>6. ASSUME NEW b \in Actor \ {a} PROVE Untouched(b)
  <2>1. Kept(rest, agenda', b) /\ ~Resumes(agenda[i], b)
    BY <1>1, <1>3 DEF StepAdded
  <2>2. Kept(agenda, agenda', b)
    BY <2>1, KeptTwice
  <2> QED
    BY <2>2 DEF Untouched, RuntimeInv, Typed, Kept
<1>7. alive'[a] /\ running'[a] /\ ~waiting'[a] /\ incarnation'[a] # 0 /\ inbox'[a] = box
  BY <1>1 DEF RuntimeInv, Typed
<1>8. OneStep(agenda', a, m)
  BY <1>1, <1>3 DEF StepAdded
<1>9. Resumption(a)'
  BY <1>7, <1>8 DEF Resumption
<1>10. RuntimeInv' /\ \A b \in Actor \ {a} : MailboxOf(b)' = MailboxOf(b)
  BY <1>1, <1>5, <1>6, <1>9, Concluded
<1>11. MailboxOf(a)' = Handed(m) \o box
  <2>1. CarriedIn(agenda', a) = Handed(m)
    BY <1>8, CarriedBySteps
  <2> QED
    BY <1>7, <2>1, MailboxNext
<1>12. Typed /\ alive' = alive
  BY DEF RuntimeInv
<1> QED
  BY <1>1, <1>10, <1>11, <1>12, PromiseOfFirst

\* A coroutine returns.  Its step carried nothing.
LEMMA EndsStep ==
  ASSUME RuntimeInv, NEW i, NEW rest, RestOf(rest, i), agenda' = rest,
         NEW a, Resumes(agenda[i], a), alive[a], running[a], a \in Poller,
         running' = [running EXCEPT ![a] = FALSE],
         UNCHANGED <<alive, waiting, inbox, published, got, incarnation, mode>>
  PROVE  RuntimeInv' /\ Promise
<1>1. /\ a \in Actor /\ ~waiting[a] /\ NoStep(rest, a) /\ agenda[i].msg = NoMessage
      /\ MailboxOf(a) = Handed(agenda[i].msg) \o inbox[a]
      /\ incarnation[a] # 0 /\ \A b : a # b => ~Resumes(agenda[i], b)
  BY StepIsTheOne
<1>2. Typed'
  <2>1. running' \in [Actor -> BOOLEAN]
    BY DEF RuntimeInv, Typed
  <2> QED
    BY <2>1, FineSame DEF RuntimeInv, Typed, RestOf
<1>3. ASSUME NEW b \in Actor \ {a} PROVE Untouched(b)
  <2>1. Kept(agenda, agenda', b)
    BY <1>1 DEF RestOf, Rest
  <2> QED
    BY <2>1 DEF Untouched, RuntimeInv, Typed, Kept
<1>4. alive'[a] /\ ~running'[a] /\ ~waiting'[a] /\ incarnation'[a] # 0 /\ inbox'[a] = inbox[a]
  BY <1>1 DEF RuntimeInv, Typed
<1>5. Resumption(a)'
  BY <1>1, <1>4 DEF Resumption
<1>6. RuntimeInv' /\ \A b \in Actor \ {a} : MailboxOf(b)' = MailboxOf(b)
  BY <1>1, <1>2, <1>3, <1>5, Concluded
<1>7. MailboxOf(a)' = MailboxOf(a)
  <2>1. CarriedIn(agenda', a) = <<>>
    BY <1>1, CarriedBySteps
  <2>2. MailboxOf(a)' = <<>> \o inbox[a]
    BY <1>4, <2>1, MailboxNext
  <2> QED
    BY <1>1, <2>2 DEF Handed
<1> QED
  BY <1>6, <1>7, PromiseOfNothing

\* An actor is killed: whatever its pending step may still do is nothing to a dead
\* actor, and on the event loop it is cancelled.
LEMMA StopsStep ==
  ASSUME RuntimeInv, NEW a \in Actor, alive[a],
         agenda' \in Seq(FineCall), InOrder(agenda'),
         \A b \in Actor \ {a} : Kept(agenda, agenda', b), mode = "live" => NoStep(agenda', a),
         alive' = [alive EXCEPT ![a] = FALSE], running' = [running EXCEPT ![a] = FALSE],
         waiting' = [waiting EXCEPT ![a] = FALSE], inbox' = [inbox EXCEPT ![a] = <<>>],
         UNCHANGED <<published, got, incarnation, mode>>
  PROVE  RuntimeInv' /\ Promise
<1>1. Typed'
  <2>1. /\ alive' \in [Actor -> BOOLEAN] /\ running' \in [Actor -> BOOLEAN]
        /\ waiting' \in [Actor -> BOOLEAN] /\ inbox' \in [Actor -> Seq(published)]
    <3>1. <<>> \in Seq(published)
      OBVIOUS
    <3> QED
      BY <3>1 DEF RuntimeInv, Typed
  <2> QED
    BY <2>1, FineSame DEF RuntimeInv, Typed
<1>2. ASSUME NEW b \in Actor \ {a} PROVE Untouched(b)
  <2>1. Kept(agenda, agenda', b)
    OBVIOUS
  <2> QED
    BY <2>1 DEF Untouched, RuntimeInv, Typed, Kept
<1>3. /\ ~alive'[a] /\ ~running'[a] /\ ~waiting'[a] /\ inbox'[a] = <<>>
      /\ incarnation'[a] = incarnation[a] /\ mode' = mode
  BY DEF RuntimeInv, Typed
<1>4. incarnation[a] # 0
  BY OfTheLiving
<1>5. Resumption(a)'
  BY <1>3, <1>4 DEF Resumption
<1>6. RuntimeInv' /\ \A b \in Actor \ {a} : MailboxOf(b)' = MailboxOf(b)
  BY <1>1, <1>2, <1>5, Concluded
<1>7. MailboxOf(a)' = <<>>
  BY <1>3, MailboxNext
<1> QED
  BY <1>6, <1>7, PromiseOfKill

\* The cancelled task is resumed by nothing.
LEMMA CancelledTask ==
  ASSUME NEW q \in Seq(FineCall), InOrder(q), NEW a,
         NoStep(q, a) \/ \E m : OneStep(q, a, m)
  PROVE  /\ Live!Cancelled(q, a) \in Seq(FineCall) /\ InOrder(Live!Cancelled(q, a))
         /\ NoStep(Live!Cancelled(q, a), a) /\ \A b : a # b => Kept(q, Live!Cancelled(q, a), b)
<1> DEFINE steps == {i \in DOMAIN q : q[i].run = "step" /\ q[i].actor = a}
<1>1. Live!Cancelled(q, a) = IF steps = {} THEN q ELSE RemoveAt(q, CHOOSE i \in steps : TRUE)
  BY LiveWords DEF Live!Cancelled
<1>2. steps = {i \in DOMAIN q : Resumes(q[i], a)}
  BY DEF Resumes
<1> HIDE DEF steps
<1>3. CASE steps = {}
  <2>1. NoStep(q, a)
    BY <1>2, <1>3 DEF NoStep
  <2>2. \A b : Kept(q, q, b)
    BY DEF Kept
  <2> QED
    BY <1>1, <1>3, <2>1, <2>2
<1>4. CASE steps # {}
  <2>1. PICK k : k = CHOOSE i \in steps : TRUE
    OBVIOUS
  <2>2. k \in steps
    BY <1>4, <2>1, Zenon
  <2>3. k \in DOMAIN q /\ Resumes(q[k], a)
    BY <1>2, <2>2
  <2>4. PICK new : new = RemoveAt(q, k)
    OBVIOUS
  <2>5. new \in Seq(FineCall) /\ InOrder(new) /\ Rest(new, q, k)
    BY <2>3, <2>4, FineDue, RestByRemoveAt
  <2>6. ~NoStep(q, a)
    BY <2>3 DEF NoStep
  <2>7. NoStep(new, a)
    BY <2>3, <2>5, <2>6 DEF Rest
  <2>8. ASSUME NEW b, a # b PROVE Kept(q, new, b)
    <3>1. ~Resumes(q[k], b)
      BY <2>3, <2>8 DEF Resumes
    <3> QED
      BY <2>5, <3>1 DEF Rest
  <2>9. Live!Cancelled(q, a) = new
    BY <1>1, <1>4, <2>1, <2>4
  <2> QED
    BY <2>5, <2>7, <2>8, <2>9
<1> QED
  BY <1>3, <1>4

\* A new coroutine: nothing else resumes it.
LEMMA SpawnsStep ==
  ASSUME RuntimeInv, NEW a \in Actor, ~alive[a], mode = "live" \/ incarnation[a] = 0,
         incarnation[a] < MaxIncarnations,
         alive' = [alive EXCEPT ![a] = TRUE], running' = [running EXCEPT ![a] = TRUE],
         agenda' = ScheduleAt(agenda, Call(0, "step", a, NoMessage)),
         got' = [got EXCEPT ![a] = <<>>], inbox' = inbox,
         incarnation' = [incarnation EXCEPT ![a] = incarnation[a] + 1],
         UNCHANGED <<waiting, published, mode>>
  PROVE  RuntimeInv' /\ Promise
<1>1. /\ Resumption(a) /\ agenda \in Seq(FineCall) /\ InOrder(agenda)
      /\ incarnation[a] \in 0 .. MaxIncarnations /\ MaxIncarnations \in Nat
  BY RuntimeAssumption DEF RuntimeInv, Typed
<1>2. NoStep(agenda, a) /\ ~waiting[a] /\ inbox[a] = <<>>
  BY <1>1 DEF Resumption
<1>3. StepAdded(agenda', agenda, a, NoMessage)
  <2>1. Fit(a, NoMessage) /\ 0 \in Nat
    BY DEF Fit
  <2>2. StepAdded(ScheduleAt(agenda, Call(0, "step", a, NoMessage)), agenda, a, NoMessage)
    BY <1>1, <2>1, StepScheduled
  <2> QED
    BY <2>2
<1>4. Typed'
  <2>1. /\ alive' \in [Actor -> BOOLEAN] /\ running' \in [Actor -> BOOLEAN]
        /\ got' \in [Actor -> Seq(published)]
    <3>1. <<>> \in Seq(published)
      OBVIOUS
    <3> QED
      BY <3>1 DEF RuntimeInv, Typed
  <2>2. incarnation' \in [Actor -> 0 .. MaxIncarnations]
    <3>1. incarnation[a] + 1 \in 0 .. MaxIncarnations
      BY <1>1
    <3> QED
      BY <3>1 DEF RuntimeInv, Typed
  <2> QED
    BY <1>3, <2>1, <2>2, FineSame DEF RuntimeInv, Typed, StepAdded
<1>5. ASSUME NEW b \in Actor \ {a} PROVE Untouched(b)
  <2>1. Kept(agenda, agenda', b)
    BY <1>3 DEF StepAdded
  <2> QED
    BY <2>1 DEF Untouched, RuntimeInv, Typed, Kept
<1>6. alive'[a] /\ running'[a] /\ ~waiting'[a] /\ inbox'[a] = <<>> /\ incarnation'[a] # 0
  <2>1. incarnation[a] + 1 # 0
    BY <1>1
  <2> QED
    BY <1>2, <2>1 DEF RuntimeInv, Typed
<1>7. OneStep(agenda', a, NoMessage)
  BY <1>2, <1>3 DEF StepAdded
<1>8. Resumption(a)'
  BY <1>6, <1>7 DEF Resumption
<1>9. RuntimeInv' /\ \A b \in Actor \ {a} : MailboxOf(b)' = MailboxOf(b)
  BY <1>4, <1>5, <1>8, Concluded
<1>10. MailboxOf(a)' = MailboxOf(a)
  <2>1. CarriedIn(agenda', a) = <<>>
    BY <1>7, CarriedBySteps DEF Handed
  <2>2. MailboxOf(a)' = <<>> \o <<>>
    BY <1>6, <2>1, MailboxNext
  <2>3. MailboxOf(a) = <<>>
    BY Mailbox
  <2> QED
    BY <2>2, <2>3
<1> QED
  BY <1>9, <1>10, PromiseOfSpawn

\* The bus takes a message.
LEMMA PublishesStep ==
  ASSUME RuntimeInv, NEW m \in Message, NEW a \in Actor, NEW l \in Latency,
         published' = published \cup {m},
         agenda' = ScheduleAt(agenda, Call(l, "deliver", a, m)),
         UNCHANGED <<alive, running, waiting, inbox, got, incarnation, mode>>
  PROVE  RuntimeInv' /\ Promise
<1>1. agenda \in Seq(FineCall) /\ InOrder(agenda) /\ published \in SUBSET Message
  BY DEF RuntimeInv, Typed
<1>2. FineCall \subseteq FineCall'
  BY DEF FineCall
<1>3. PICK T : T = FineCall'
  OBVIOUS
<1>4. agenda \in Seq(T) /\ \A c \in T : c.due \in Nat
  <2>1. \A c \in T : c.due \in Nat
    BY <1>3 DEF FineCall, PendingCall
  <2>2. FineCall \subseteq T
    BY <1>2, <1>3
  <2>3. agenda \in Seq(T)
    <3>1. PICK s : s = agenda
      OBVIOUS
    <3>2. PICK F : F = FineCall
      OBVIOUS
    <3>3. s \in Seq(F) /\ F \subseteq T
      BY <1>1, <2>2, <3>1, <3>2
    <3>4. s \in Seq(T)
      BY <3>3
    <3> QED
      BY <3>1, <3>4
  <2> QED
    BY <2>1, <2>3
<1>5. l \in Int /\ l \in Nat /\ NotPast(l) = l
  BY RuntimeAssumption DEF NotPast
<1>6. Call(NotPast(l), "deliver", a, m) \in T
  BY <1>3, <1>5 DEF FineCall, PendingCall, Call
<1>7. PICK new : new = ScheduleAt(agenda, Call(l, "deliver", a, m))
  OBVIOUS
<1>8. /\ new \in Seq(T) /\ InOrder(new)
      /\ \A b : "deliver" # "step" \/ a # b => Kept(agenda, new, b)
  BY <1>1, <1>4, <1>5, <1>6, <1>7, Scheduled, Zenon
<1>9. agenda' \in Seq(FineCall') /\ InOrder(agenda') /\ \A b : Kept(agenda, agenda', b)
  BY <1>3, <1>7, <1>8
<1>10. Typed'
  <2>1. Seq(published) \subseteq Seq(published')
    <3>1. PICK P, Q : P = published /\ Q = published'
      OBVIOUS
    <3>2. P \subseteq Q
      BY <3>1
    <3>3. Seq(P) \subseteq Seq(Q)
      BY <3>2
    <3> QED
      BY <3>1, <3>3
  <2>2. inbox' \in [Actor -> Seq(published')] /\ got' \in [Actor -> Seq(published')]
    BY <2>1 DEF RuntimeInv, Typed
  <2> QED
    BY <1>9, <2>2 DEF RuntimeInv, Typed
<1>11. ASSUME NEW b \in Actor PROVE Resumption(b)' /\ MailboxOf(b)' = MailboxOf(b)
  <2>1. Resumption(b) /\ Untouched(b)
    BY <1>9 DEF RuntimeInv, Untouched, Kept
  <2> QED
    BY <2>1, ResumptionKept, MailboxKept
<1>12. RuntimeInv'
  BY <1>10, <1>11 DEF RuntimeInv
<1> QED
  BY <1>11, <1>12, PromiseOfNothing

\* Time passes: the i-th call is due in d[i].
LEMMA TimeStep ==
  ASSUME RuntimeInv, NEW d \in [DOMAIN agenda -> Nat],
         \A i \in DOMAIN agenda : i > 1 => d[i - 1] <= d[i],
         agenda' = [i \in DOMAIN agenda |-> [agenda[i] EXCEPT !.due = d[i]]],
         UNCHANGED <<alive, running, waiting, inbox, published, got, incarnation, mode>>
  PROVE  RuntimeInv' /\ Promise
<1>1. agenda \in Seq(FineCall)
  BY DEF RuntimeInv, Typed
<1>2. \A i \in DOMAIN agenda : agenda[i] \in FineCall
  BY <1>1
<1>3. /\ DOMAIN agenda' = DOMAIN agenda
      /\ \A i \in DOMAIN agenda :
           /\ agenda'[i] \in FineCall /\ agenda'[i].due = d[i]
           /\ agenda'[i].run = agenda[i].run /\ agenda'[i].actor = agenda[i].actor
           /\ agenda'[i].msg = agenda[i].msg
  <2>1. ASSUME NEW i \in DOMAIN agenda
        PROVE  /\ agenda'[i] \in FineCall /\ agenda'[i].due = d[i]
               /\ agenda'[i].run = agenda[i].run /\ agenda'[i].actor = agenda[i].actor
               /\ agenda'[i].msg = agenda[i].msg
    <3>1. agenda'[i] = [agenda[i] EXCEPT !.due = d[i]] /\ agenda[i] \in FineCall /\ d[i] \in Nat
      BY <1>2
    <3> QED
      BY <3>1 DEF FineCall, PendingCall
  <2> QED
    BY <2>1
<1>4. agenda' \in Seq(FineCall)
  <2>1. PICK n : n = Len(agenda)
    OBVIOUS
  <2>2. n \in Nat /\ DOMAIN agenda = 1 .. n
    BY <1>1, <2>1
  <2>3. agenda' \in [1 .. n -> FineCall]
    BY <1>3, <2>2
  <2> QED
    BY <2>2, <2>3
<1>5. InOrder(agenda')
  <2>1. ASSUME NEW i \in DOMAIN agenda', i > 1 PROVE agenda'[i - 1].due <= agenda'[i].due
    <3>1. i - 1 \in DOMAIN agenda /\ i \in DOMAIN agenda
      BY <1>1, <1>3, <2>1
    <3> QED
      BY <1>3, <2>1, <3>1
  <2> QED
    BY <2>1 DEF InOrder
<1>6. \A b : Kept(agenda, agenda', b)
  BY <1>3, StepsAfterTime DEF Kept
<1>7. Typed'
  BY <1>4, <1>5, FineSame DEF RuntimeInv, Typed
<1>8. ASSUME NEW b \in Actor PROVE Resumption(b)' /\ MailboxOf(b)' = MailboxOf(b)
  <2>1. Resumption(b) /\ Untouched(b)
    BY <1>6 DEF RuntimeInv, Untouched, Kept
  <2> QED
    BY <2>1, ResumptionKept, MailboxKept
<1>9. RuntimeInv'
  BY <1>7, <1>8 DEF RuntimeInv
<1> QED
  BY <1>8, <1>9, PromiseOfNothing

-----------------------------------------------------------------------------
(***************************************************************************)
(* The virtual-time runtime.                                               *)
(***************************************************************************)
LEMMA SimActor == Sim!Actor = Actor
BY DEF Sim!Actor, Actor

\* When the first call is due.
LEMMA SimDue ==
  ASSUME RuntimeInv, NEW run, Sim!Due(run)
  PROVE  /\ RestOf(Tail(agenda), 1) /\ Head(agenda) = agenda[1] /\ agenda[1].run = run
         /\ agenda[1].actor \in Actor
         /\ run = "deliver" => agenda[1].msg \in published /\ agenda[1].msg \in Message
<1>1. agenda # <<>> /\ Head(agenda).run = run
  BY DEF Sim!Due
<1>2. RestOf(Tail(agenda), 1) /\ Head(agenda) = agenda[1]
  BY <1>1, RestIsTail
<1>3. agenda[1] \in FineCall
  BY <1>2 DEF RestOf
<1>4. published \subseteq Message
  BY DEF RuntimeInv, Typed
<1> QED
  BY <1>1, <1>2, <1>3, <1>4 DEF FineCall, PendingCall

LEMMA SimDelivery ==
  ASSUME RuntimeInv, mode = "sim", Sim!RunDelivery, mode' = mode
  PROVE  RuntimeInv' /\ Promise
<1>1. PICK rest : rest = Tail(agenda)
  OBVIOUS
<1>2. PICK a, m : a = agenda[1].actor /\ m = agenda[1].msg
  OBVIOUS
<1>3. /\ RestOf(rest, 1) /\ Head(agenda) = agenda[1] /\ agenda[1].run = "deliver"
      /\ a \in Actor /\ m \in published /\ m \in Message
  <2>1. Sim!Due("deliver")
    BY DEF Sim!RunDelivery
  <2> QED
    BY <1>1, <1>2, <2>1, SimDue
<1>4. UNCHANGED <<alive, running, published, got, incarnation, mode>>
  BY DEF Sim!RunDelivery
<1>5. \/ /\ ~alive[a] /\ agenda' = rest /\ UNCHANGED <<waiting, inbox>>
      \/ /\ alive[a] /\ ~waiting[a] /\ agenda' = rest /\ UNCHANGED waiting
         /\ inbox' = [inbox EXCEPT ![a] = Append(inbox[a], m)]
      \/ /\ alive[a] /\ waiting[a] /\ waiting' = [waiting EXCEPT ![a] = FALSE]
         /\ inbox' = [inbox EXCEPT ![a] = Tail(Append(inbox[a], m))]
         /\ agenda' = ScheduleAt(rest, Call(0, "step", a, Head(Append(inbox[a], m))))
  BY <1>1, <1>2, <1>3, SimWords, Zenon DEF Sim!RunDelivery
<1>6. CASE ~alive[a] /\ agenda' = rest /\ UNCHANGED <<waiting, inbox>>
  <2>1. \A b \in Actor : Resumes(agenda[1], b) => ~running[b]
    BY <1>3 DEF Resumes
  <2> QED
    BY <1>3, <1>4, <1>6, <2>1, NothingStep
<1>7. CASE /\ alive[a] /\ ~waiting[a] /\ agenda' = rest /\ UNCHANGED waiting
           /\ inbox' = [inbox EXCEPT ![a] = Append(inbox[a], m)]
  BY <1>2, <1>3, <1>4, <1>7, DeliveryToTheBusy
<1>8. CASE /\ alive[a] /\ waiting[a] /\ waiting' = [waiting EXCEPT ![a] = FALSE]
           /\ inbox' = [inbox EXCEPT ![a] = Tail(Append(inbox[a], m))]
           /\ agenda' = ScheduleAt(rest, Call(0, "step", a, Head(Append(inbox[a], m))))
  <2>1. inbox[a] = <<>>
    BY <1>3, <1>8, OfTheLiving
  <2>2. Head(Append(<<>>, m)) = m /\ Tail(Append(<<>>, m)) = <<>> /\ <<>> \in Seq(published)
    OBVIOUS
  <2>3. /\ inbox' = [inbox EXCEPT ![a] = <<>>]
        /\ agenda' = ScheduleAt(rest, Call(0, "step", a, m))
    BY <1>8, <2>1, <2>2
  <2>4. Handed(m) \o <<>> = <<agenda[1].msg>>
    BY <1>2, <1>3, RuntimeAssumption DEF Handed
  <2>5. m = NoMessage \/ (m \in published /\ mode # "live")
    BY <1>3
  <2>6. Wakes(1, rest, a, m, <<>>)
    BY <1>2, <1>3, <1>4, <1>8, <2>2, <2>3, <2>4, <2>5 DEF Wakes
  <2> QED
    BY <2>6, DeliveryWakes
<1> QED
  BY <1>5, <1>6, <1>7, <1>8

LEMMA SimSkip ==
  ASSUME RuntimeInv, mode = "sim", Sim!SkipStep, mode' = mode
  PROVE  RuntimeInv' /\ Promise
<1>1. Sim!Due("step")
  BY DEF Sim!SkipStep
<1>2. PICK rest, a : rest = Tail(agenda) /\ a = agenda[1].actor
  OBVIOUS
<1>3. RestOf(rest, 1) /\ Head(agenda) = agenda[1] /\ agenda[1].run = "step" /\ a \in Actor
  BY <1>1, <1>2, SimDue
<1>4. /\ ~alive[a] \/ ~running[a]
      /\ agenda' = rest
      /\ UNCHANGED <<alive, running, waiting, inbox, published, got, incarnation, mode>>
  BY <1>2, <1>3 DEF Sim!SkipStep
<1>5. ~running[a]
  BY <1>3, <1>4, OfTheLiving
<1>6. \A b \in Actor : Resumes(agenda[1], b) => ~running[b]
  BY <1>2, <1>5 DEF Resumes
<1> QED
  BY <1>3, <1>4, <1>6, NothingStep

\* The first message of an inbox and the others.
LEMMA FirstAndOthers ==
  ASSUME NEW S, NEW s \in Seq(S), s # <<>>
  PROVE  Head(s) \in S /\ Tail(s) \in Seq(S) /\ <<Head(s)>> \o Tail(s) = s
OBVIOUS

LEMMA HandedType == \A m : m \in published \cup {NoMessage} => Handed(m) \in Seq(published)
BY DEF Handed

LEMMA SimRecv ==
  ASSUME RuntimeInv, mode = "sim", Sim!StepToRecv, mode' = mode
  PROVE  RuntimeInv' /\ Promise
<1>1. Sim!Due("step")
  BY DEF Sim!StepToRecv
<1>2. PICK rest, a, x : rest = Tail(agenda) /\ a = agenda[1].actor /\ x = agenda[1].msg
  OBVIOUS
<1>3. RestOf(rest, 1) /\ Head(agenda) = agenda[1] /\ agenda[1].run = "step" /\ a \in Actor
  BY <1>1, <1>2, SimDue
<1>4. /\ a \in Receiver /\ alive[a] /\ running[a]
      /\ got' = [got EXCEPT ![a] = got[a] \o Handed(x)]
      /\ \/ /\ inbox[a] # <<>>
            /\ inbox' = [inbox EXCEPT ![a] = Tail(inbox[a])]
            /\ agenda' = ScheduleAt(rest, Call(0, "step", a, Head(inbox[a])))
            /\ UNCHANGED waiting
         \/ /\ inbox[a] = <<>>
            /\ waiting' = [waiting EXCEPT ![a] = TRUE]
            /\ agenda' = rest
            /\ UNCHANGED inbox
      /\ UNCHANGED <<alive, running, published, incarnation, mode>>
  BY <1>2, <1>3, SimWords DEF Sim!StepToRecv, Sim!Handed, Handed
<1>5. Resumes(agenda[1], a)
  BY <1>2, <1>3 DEF Resumes
<1>6. MailboxOf(a) = Handed(x) \o inbox[a] /\ inbox[a] \in Seq(published)
  BY <1>2, <1>3, <1>4, <1>5, StepIsTheOne
<1>7. Handed(x) \in Seq(published)
  <2>1. agenda[1] \in FineCall
    BY <1>3 DEF RestOf
  <2> QED
    BY <1>2, <1>3, <2>1, HandedType DEF FineCall
<1>8. CASE /\ inbox[a] # <<>>
           /\ inbox' = [inbox EXCEPT ![a] = Tail(inbox[a])]
           /\ agenda' = ScheduleAt(rest, Call(0, "step", a, Head(inbox[a])))
           /\ UNCHANGED waiting
  <2>1. PICK m, box : m = Head(inbox[a]) /\ box = Tail(inbox[a])
    OBVIOUS
  <2>2. m \in published /\ box \in Seq(published) /\ <<m>> \o box = inbox[a]
    BY <1>6, <1>8, <2>1, FirstAndOthers
  <2>3. m \in Message /\ m # NoMessage
    BY <2>2, RuntimeAssumption DEF RuntimeInv, Typed
  <2>4. Handed(m) \o box = inbox[a]
    BY <2>2, <2>3 DEF Handed
  <2>5. Fit(a, m)
    BY <1>4, <2>2, RuntimeAssumption DEF Fit
  <2>6. /\ agenda' = ScheduleAt(rest, Call(0, "step", a, m)) /\ 0 \in Nat
        /\ inbox' = [inbox EXCEPT ![a] = box]
        /\ MailboxOf(a) = Handed(x) \o (Handed(m) \o box)
        /\ Handed(m) \o box \in Seq(published)
    BY <1>6, <1>8, <2>1, <2>4
  <2>7. GoesOn(1, rest, a, m, 0, Handed(x), box)
    BY <1>3, <1>4, <1>5, <1>7, <1>8, <2>2, <2>5, <2>6 DEF GoesOn
  <2> QED
    BY <2>7, GoesOnStep
<1>9. CASE /\ inbox[a] = <<>>
           /\ waiting' = [waiting EXCEPT ![a] = TRUE]
           /\ agenda' = rest
           /\ UNCHANGED inbox
  <2>1. MailboxOf(a) = Handed(x)
    BY <1>6, <1>7, <1>9
  <2>2. inbox' = [inbox EXCEPT ![a] = <<>>]
    BY <1>9 DEF RuntimeInv, Typed
  <2> QED
    BY <1>3, <1>4, <1>5, <1>9, <2>1, <2>2, BlocksStep
<1> QED
  BY <1>4, <1>8, <1>9

LEMMA SimSleep ==
  ASSUME RuntimeInv, mode = "sim", Sim!StepToSleep, mode' = mode
  PROVE  RuntimeInv' /\ Promise
<1>1. Sim!Due("step")
  BY DEF Sim!StepToSleep
<1>2. PICK rest, a : rest = Tail(agenda) /\ a = agenda[1].actor
  OBVIOUS
<1>3. RestOf(rest, 1) /\ Head(agenda) = agenda[1] /\ agenda[1].run = "step" /\ a \in Actor
  BY <1>1, <1>2, SimDue
<1>4. /\ a \in Poller /\ alive[a] /\ running[a]
      /\ got' = [got EXCEPT ![a] = got[a] \o Handed(agenda[1].msg) \o inbox[a]]
      /\ inbox' = [inbox EXCEPT ![a] = <<>>]
      /\ UNCHANGED <<alive, running, waiting, published, incarnation, mode>>
  BY <1>2, <1>3 DEF Sim!StepToSleep, Sim!Handed, Handed
<1>5. PICK dt \in SleepTime : agenda' = ScheduleAt(rest, Call(dt, "step", a, NoMessage))
  BY <1>2, <1>3, SimWords DEF Sim!StepToSleep
<1>6. Resumes(agenda[1], a)
  BY <1>2, <1>3 DEF Resumes
<1>7. /\ MailboxOf(a) = Handed(agenda[1].msg) \o inbox[a] /\ inbox[a] \in Seq(published)
      /\ MailboxOf(a) \in Seq(published) /\ agenda[1].msg = NoMessage
  BY <1>3, <1>4, <1>6, StepIsTheOne
<1>8. got[a] \in Seq(published) /\ <<>> \in Seq(published) /\ Handed(NoMessage) = <<>>
  BY <1>3 DEF RuntimeInv, Typed, Handed
<1>9. got' = [got EXCEPT ![a] = got[a] \o MailboxOf(a)]
  BY <1>4, <1>7, <1>8
<1>10. /\ Handed(NoMessage) \o <<>> \in Seq(published) /\ Fit(a, NoMessage) /\ dt \in Nat
       /\ MailboxOf(a) = MailboxOf(a) \o (Handed(NoMessage) \o <<>>)
  BY <1>7, <1>8, RuntimeAssumption DEF Fit
<1>11. GoesOn(1, rest, a, NoMessage, dt, MailboxOf(a), <<>>)
  BY <1>3, <1>4, <1>5, <1>6, <1>7, <1>8, <1>9, <1>10 DEF GoesOn
<1> QED
  BY <1>11, GoesOnStep

LEMMA SimEnd ==
  ASSUME RuntimeInv, mode = "sim", Sim!StepToEnd, mode' = mode
  PROVE  RuntimeInv' /\ Promise
<1>1. Sim!Due("step")
  BY DEF Sim!StepToEnd
<1>2. PICK rest, a : rest = Tail(agenda) /\ a = agenda[1].actor
  OBVIOUS
<1>3. RestOf(rest, 1) /\ Head(agenda) = agenda[1] /\ agenda[1].run = "step" /\ a \in Actor
  BY <1>1, <1>2, SimDue
<1>4. /\ a \in Poller /\ alive[a] /\ running[a] /\ agenda' = rest
      /\ running' = [running EXCEPT ![a] = FALSE]
      /\ UNCHANGED <<alive, waiting, inbox, published, got, incarnation, mode>>
  BY <1>2, <1>3 DEF Sim!StepToEnd
<1>5. Resumes(agenda[1], a)
  BY <1>2, <1>3 DEF Resumes
<1> QED
  BY <1>3, <1>4, <1>5, EndsStep

LEMMA SimKill ==
  ASSUME RuntimeInv, mode = "sim", NEW a \in Actor, Sim!Kill(a), mode' = mode
  PROVE  RuntimeInv' /\ Promise
<1>1. /\ alive[a] /\ agenda' = agenda
      /\ alive' = [alive EXCEPT ![a] = FALSE] /\ running' = [running EXCEPT ![a] = FALSE]
      /\ waiting' = [waiting EXCEPT ![a] = FALSE] /\ inbox' = [inbox EXCEPT ![a] = <<>>]
      /\ UNCHANGED <<published, got, incarnation, mode>>
  BY DEF Sim!Kill, Sim!Stopped
<1>2. agenda' \in Seq(FineCall) /\ InOrder(agenda') /\ mode # "live"
  BY <1>1 DEF RuntimeInv, Typed
<1>3. \A b \in Actor \ {a} : Kept(agenda, agenda', b)
  BY <1>1 DEF Kept
<1> QED
  BY <1>1, <1>2, <1>3, StopsStep

LEMMA SimFault ==
  ASSUME RuntimeInv, mode = "sim", Sim!RunFault, mode' = mode
  PROVE  RuntimeInv' /\ Promise
<1>1. Sim!Due("kill")
  BY DEF Sim!RunFault
<1>2. PICK rest, a : rest = Tail(agenda) /\ a = agenda[1].actor
  OBVIOUS
<1>3. RestOf(rest, 1) /\ Head(agenda) = agenda[1] /\ agenda[1].run = "kill" /\ a \in Actor
  BY <1>1, <1>2, SimDue
<1>4. agenda' = rest /\ UNCHANGED <<published, got, incarnation, mode>>
  BY <1>2 DEF Sim!RunFault
<1>5. /\ alive[a] => /\ alive' = [alive EXCEPT ![a] = FALSE]
                     /\ running' = [running EXCEPT ![a] = FALSE]
                     /\ waiting' = [waiting EXCEPT ![a] = FALSE]
                     /\ inbox' = [inbox EXCEPT ![a] = <<>>]
      /\ ~alive[a] => UNCHANGED <<alive, running, waiting, inbox>>
  BY <1>2, <1>3 DEF Sim!RunFault, Sim!Stopped
<1>6. \A b : ~Resumes(agenda[1], b)
  BY <1>3 DEF Resumes
<1>7. CASE alive[a]
  <2>1. agenda' \in Seq(FineCall) /\ InOrder(agenda') /\ \A b \in Actor \ {a} : Kept(agenda, agenda', b)
    BY <1>3, <1>4, <1>6 DEF RestOf, Rest
  <2> QED
    BY <1>3, <1>4, <1>5, <1>7, <2>1, StopsStep
<1>8. CASE ~alive[a]
  <2>1. \A b \in Actor : Resumes(agenda[1], b) => ~running[b]
    BY <1>6
  <2>2. UNCHANGED <<alive, running, waiting, inbox, published, got, incarnation, mode>>
    BY <1>4, <1>5, <1>8
  <2> QED
    BY <1>3, <1>4, <2>1, <2>2, NothingStep
<1> QED
  BY <1>7, <1>8

\* No call is due, so every one has time left.
LEMMA SimClock ==
  ASSUME RuntimeInv, mode = "sim", Sim!ClockAdvances, mode' = mode
  PROVE  RuntimeInv' /\ Promise
<1>1. /\ agenda # <<>> /\ Head(agenda).due > 0
      /\ agenda' = [i \in DOMAIN agenda |-> [agenda[i] EXCEPT !.due = agenda[i].due - 1]]
      /\ UNCHANGED <<alive, running, waiting, inbox, published, got, incarnation, mode>>
  BY DEF Sim!ClockAdvances
<1>2. /\ agenda \in Seq(FineCall) /\ DOMAIN agenda = 1 .. Len(agenda) /\ Len(agenda) \in Nat
      /\ Head(agenda) = agenda[1]
  BY <1>1 DEF RuntimeInv, Typed
<1>3. \A i \in DOMAIN agenda : agenda[i].due \in Nat
  BY <1>2, FineDue
<1>4. \A i \in DOMAIN agenda : i > 1 => agenda[i - 1].due <= agenda[i].due
  BY DEF RuntimeInv, Typed, InOrder
<1>5. \A i \in DOMAIN agenda : agenda[i].due > 0
  <2> DEFINE due == {i \in DOMAIN agenda : ~(agenda[i].due > 0)}
  <2>1. due \in SUBSET Nat /\ due \subseteq DOMAIN agenda
    BY <1>2
  <2>2. SUFFICES ASSUME due # {} PROVE FALSE
    OBVIOUS
  <2>3. PICK i \in due : \A j \in due : i <= j
    <3> HIDE DEF due
    <3> QED
      BY <2>1, <2>2, LeastNatural
  <2>4. i \in DOMAIN agenda /\ i # 1
    BY <1>1, <1>2, <2>3
  <2>5. i - 1 \in DOMAIN agenda /\ i > 1 /\ i \in Nat
    BY <1>2, <2>4
  <2>6. agenda[i - 1].due > 0
    <3>1. i - 1 \notin due
      <4> HIDE DEF due
      <4> QED
        BY <2>3, <2>5
    <3> QED
      BY <2>5, <3>1
  <2> QED
    BY <1>3, <1>4, <2>3, <2>4, <2>5, <2>6
<1>6. PICK d : d = [i \in DOMAIN agenda |-> agenda[i].due - 1]
  OBVIOUS
<1>7. d \in [DOMAIN agenda -> Nat]
  BY <1>3, <1>5, <1>6
<1>8. ASSUME NEW i \in DOMAIN agenda, i > 1 PROVE d[i - 1] <= d[i]
  <2>1. i - 1 \in DOMAIN agenda
    BY <1>2, <1>8
  <2> QED
    BY <1>3, <1>4, <1>6, <1>8, <2>1
<1>9. agenda' = [i \in DOMAIN agenda |-> [agenda[i] EXCEPT !.due = d[i]]]
  BY <1>1, <1>6
<1> QED
  BY <1>1, <1>7, <1>8, <1>9, TimeStep

LEMMA SimStep ==
  ASSUME RuntimeInv, mode = "sim", Sim!Next, mode' = mode
  PROVE  RuntimeInv' /\ Promise
<1>1. CASE Sim!RunUntil
  BY <1>1, SimDelivery, SimSkip, SimRecv, SimSleep, SimEnd, SimFault DEF Sim!RunUntil
<1>2. CASE Sim!ClockAdvances
  BY <1>2, SimClock
<1>3. ASSUME NEW m \in Message, NEW a \in Actor, NEW l \in Latency, Sim!Publish(m, a, l)
      PROVE  RuntimeInv' /\ Promise
  <2>1. /\ published' = published \cup {m}
        /\ agenda' = ScheduleAt(agenda, Call(l, "deliver", a, m))
        /\ UNCHANGED <<alive, running, waiting, inbox, got, incarnation, mode>>
    BY <1>3, SimWords DEF Sim!Publish, Sim!Call, Call
  <2> QED
    BY <2>1, PublishesStep
<1>4. ASSUME NEW a \in Actor, Sim!Kill(a) PROVE RuntimeInv' /\ Promise
  BY <1>4, SimKill
<1>5. ASSUME NEW a \in Actor, Sim!Spawn(a) PROVE RuntimeInv' /\ Promise
  <2>1. /\ ~alive[a] /\ incarnation[a] < 1
        /\ alive' = [alive EXCEPT ![a] = TRUE] /\ running' = [running EXCEPT ![a] = TRUE]
        /\ agenda' = ScheduleAt(agenda, Call(0, "step", a, NoMessage))
        /\ got' = [got EXCEPT ![a] = <<>>] /\ inbox' = inbox
        /\ incarnation' = [incarnation EXCEPT ![a] = incarnation[a] + 1]
        /\ UNCHANGED <<waiting, published, mode>>
    BY <1>5, SimWords DEF Sim!Spawn
  <2>2. incarnation[a] = 0 /\ incarnation[a] < MaxIncarnations
    BY <2>1, RuntimeAssumption DEF RuntimeInv, Typed
  <2> QED
    BY <2>1, <2>2, SpawnsStep
<1> QED
  BY <1>1, <1>2, <1>3, <1>4, <1>5, SimActor DEF Sim!Next

-----------------------------------------------------------------------------
(***************************************************************************)
(* The runtime on an event loop.                                           *)
(***************************************************************************)
LEMMA LiveActor == Live!Actor = Actor
BY DEF Live!Actor, Actor

\* When the i-th call is due.
LEMMA LiveDue ==
  ASSUME RuntimeInv, NEW i, NEW run, Live!DueAt(i, run)
  PROVE  /\ RestOf(RemoveAt(agenda, i), i) /\ agenda[i].run = run /\ agenda[i].actor \in Actor
         /\ Live!RemoveAt(agenda, i) = RemoveAt(agenda, i)
         /\ run = "deliver" => agenda[i].msg \in published /\ agenda[i].msg \in Message
<1>1. i \in DOMAIN agenda /\ agenda[i].run = run
  BY DEF Live!DueAt
<1>2. RestOf(RemoveAt(agenda, i), i)
  BY <1>1, RestIsRemoved
<1>3. agenda[i] \in FineCall
  BY <1>2 DEF RestOf
<1>4. published \subseteq Message
  BY DEF RuntimeInv, Typed
<1> QED
  BY <1>1, <1>2, <1>3, <1>4, LiveWords DEF FineCall, PendingCall

\* A task is resumed only while it lives, and takes what its queue holds.
LEMMA LiveStepIsTheOne ==
  ASSUME RuntimeInv, mode = "live", NEW i, Live!DueAt(i, "step"),
         NEW a, a = agenda[i].actor
  PROVE  /\ a \in Actor /\ Resumes(agenda[i], a) /\ alive[a] /\ running[a]
         /\ MailboxOf(a) = inbox[a] /\ inbox[a] \in Seq(published)
<1>1. /\ RestOf(RemoveAt(agenda, i), i) /\ agenda[i].run = "step" /\ a \in Actor
  BY LiveDue
<1>2. Resumes(agenda[i], a) /\ i \in DOMAIN agenda
  BY <1>1 DEF Resumes, RestOf
<1>3. ~NoStep(agenda, a)
  BY <1>2 DEF NoStep
<1>4. Resumption(a)
  BY <1>1 DEF RuntimeInv
<1>5. alive[a] /\ running[a]
  BY <1>3, <1>4 DEF Resumption
<1>6. /\ MailboxOf(a) = Handed(agenda[i].msg) \o inbox[a] /\ agenda[i].msg = NoMessage
      /\ inbox[a] \in Seq(published)
  BY <1>1, <1>2, <1>5, StepIsTheOne
<1>7. <<>> \o inbox[a] = inbox[a]
  BY <1>6
<1> QED
  BY <1>1, <1>2, <1>5, <1>6, <1>7 DEF Handed

LEMMA LiveDelivery ==
  ASSUME RuntimeInv, mode = "live", NEW i, Live!RunDelivery(i), mode' = mode
  PROVE  RuntimeInv' /\ Promise
<1>1. PICK rest, a, m : rest = RemoveAt(agenda, i) /\ a = agenda[i].actor /\ m = agenda[i].msg
  OBVIOUS
<1>2. Live!DueAt(i, "deliver")
  BY DEF Live!RunDelivery
<1>3. /\ RestOf(rest, i) /\ agenda[i].run = "deliver" /\ a \in Actor
      /\ Live!RemoveAt(agenda, i) = rest /\ m \in published /\ m \in Message
  BY <1>1, <1>2, LiveDue
<1>4. UNCHANGED <<alive, running, published, got, incarnation, mode>>
  BY DEF Live!RunDelivery
<1>5. \/ /\ ~alive[a] /\ agenda' = rest /\ UNCHANGED <<waiting, inbox>>
      \/ /\ alive[a] /\ ~waiting[a] /\ agenda' = rest /\ UNCHANGED waiting
         /\ inbox' = [inbox EXCEPT ![a] = Append(inbox[a], m)]
      \/ /\ alive[a] /\ waiting[a] /\ waiting' = [waiting EXCEPT ![a] = FALSE]
         /\ inbox' = [inbox EXCEPT ![a] = Append(inbox[a], m)]
         /\ agenda' = ScheduleAt(rest, Call(0, "step", a, NoMessage))
  BY <1>1, <1>3, LiveWords, Zenon DEF Live!RunDelivery
<1>6. CASE ~alive[a] /\ agenda' = rest /\ UNCHANGED <<waiting, inbox>>
  <2>1. \A b \in Actor : Resumes(agenda[i], b) => ~running[b]
    BY <1>3 DEF Resumes
  <2> QED
    BY <1>3, <1>4, <1>6, <2>1, NothingStep
<1>7. CASE /\ alive[a] /\ ~waiting[a] /\ agenda' = rest /\ UNCHANGED waiting
           /\ inbox' = [inbox EXCEPT ![a] = Append(inbox[a], m)]
  BY <1>1, <1>3, <1>4, <1>7, DeliveryToTheBusy
<1>8. CASE /\ alive[a] /\ waiting[a] /\ waiting' = [waiting EXCEPT ![a] = FALSE]
           /\ inbox' = [inbox EXCEPT ![a] = Append(inbox[a], m)]
           /\ agenda' = ScheduleAt(rest, Call(0, "step", a, NoMessage))
  <2>1. inbox[a] = <<>>
    BY <1>3, <1>8, OfTheLiving
  <2>2. <<m>> \in Seq(published) /\ Append(<<>>, m) = <<m>> /\ <<>> \o <<m>> = <<m>>
    BY <1>3
  <2>3. inbox' = [inbox EXCEPT ![a] = <<m>>] /\ Handed(NoMessage) \o <<m>> = <<agenda[i].msg>>
    BY <1>1, <1>8, <2>1, <2>2 DEF Handed
  <2>4. Wakes(i, rest, a, NoMessage, <<m>>)
    BY <1>1, <1>3, <1>4, <1>8, <2>2, <2>3 DEF Wakes
  <2> QED
    BY <2>4, DeliveryWakes
<1> QED
  BY <1>5, <1>6, <1>7, <1>8

LEMMA LiveRecv ==
  ASSUME RuntimeInv, mode = "live", NEW i, Live!StepToRecv(i), mode' = mode
  PROVE  RuntimeInv' /\ Promise
<1>1. PICK rest, a : rest = RemoveAt(agenda, i) /\ a = agenda[i].actor
  OBVIOUS
<1>2. Live!DueAt(i, "step")
  BY DEF Live!StepToRecv
<1>3. RestOf(rest, i) /\ Live!RemoveAt(agenda, i) = rest
  BY <1>1, <1>2, LiveDue
<1>4. /\ Resumes(agenda[i], a) /\ alive[a] /\ running[a] /\ MailboxOf(a) = inbox[a]
  BY <1>1, <1>2, LiveStepIsTheOne
<1>5. /\ a \in Receiver /\ agenda' = rest
      /\ got' = [got EXCEPT ![a] = got[a] \o inbox[a]]
      /\ waiting' = [waiting EXCEPT ![a] = TRUE]
      /\ inbox' = [inbox EXCEPT ![a] = <<>>]
      /\ UNCHANGED <<alive, running, published, incarnation, mode>>
  BY <1>1, <1>3 DEF Live!StepToRecv, Live!TakesAll
<1> QED
  BY <1>3, <1>4, <1>5, BlocksStep

LEMMA LiveSleep ==
  ASSUME RuntimeInv, mode = "live", NEW i, Live!StepToSleep(i), mode' = mode
  PROVE  RuntimeInv' /\ Promise
<1>1. PICK rest, a : rest = RemoveAt(agenda, i) /\ a = agenda[i].actor
  OBVIOUS
<1>2. Live!DueAt(i, "step")
  BY DEF Live!StepToSleep
<1>3. RestOf(rest, i) /\ Live!RemoveAt(agenda, i) = rest
  BY <1>1, <1>2, LiveDue
<1>4. /\ Resumes(agenda[i], a) /\ alive[a] /\ running[a]
      /\ MailboxOf(a) = inbox[a] /\ inbox[a] \in Seq(published)
  BY <1>1, <1>2, LiveStepIsTheOne
<1>5. /\ got' = [got EXCEPT ![a] = got[a] \o MailboxOf(a)]
      /\ inbox' = [inbox EXCEPT ![a] = <<>>]
      /\ UNCHANGED <<alive, running, waiting, published, incarnation, mode>>
  BY <1>1, <1>4 DEF Live!StepToSleep, Live!TakesAll
<1>6. PICK dt \in SleepTime : agenda' = ScheduleAt(rest, Call(dt, "step", a, NoMessage))
  BY <1>1, <1>3, LiveWords DEF Live!StepToSleep
<1>7. Handed(NoMessage) = <<>> /\ <<>> \in Seq(published) /\ <<>> \o <<>> = <<>>
  BY DEF Handed
<1>8. /\ Handed(NoMessage) \o <<>> \in Seq(published) /\ Fit(a, NoMessage) /\ dt \in Nat
      /\ MailboxOf(a) = MailboxOf(a) \o (Handed(NoMessage) \o <<>>)
  BY <1>4, <1>7, RuntimeAssumption DEF Fit
<1>9. GoesOn(i, rest, a, NoMessage, dt, MailboxOf(a), <<>>)
  BY <1>3, <1>4, <1>5, <1>6, <1>7, <1>8 DEF GoesOn
<1> QED
  BY <1>9, GoesOnStep

LEMMA LiveEnd ==
  ASSUME RuntimeInv, mode = "live", NEW i, Live!StepToEnd(i), mode' = mode
  PROVE  RuntimeInv' /\ Promise
<1>1. PICK rest, a : rest = RemoveAt(agenda, i) /\ a = agenda[i].actor
  OBVIOUS
<1>2. Live!DueAt(i, "step")
  BY DEF Live!StepToEnd
<1>3. RestOf(rest, i) /\ Live!RemoveAt(agenda, i) = rest
  BY <1>1, <1>2, LiveDue
<1>4. Resumes(agenda[i], a) /\ alive[a] /\ running[a]
  BY <1>1, <1>2, LiveStepIsTheOne
<1>5. /\ a \in Poller /\ agenda' = rest
      /\ running' = [running EXCEPT ![a] = FALSE]
      /\ UNCHANGED <<alive, waiting, inbox, published, got, incarnation, mode>>
  BY <1>1, <1>3 DEF Live!StepToEnd
<1> QED
  BY <1>3, <1>4, <1>5, EndsStep

LEMMA LiveKill ==
  ASSUME RuntimeInv, mode = "live", NEW a \in Actor, Live!Kill(a), mode' = mode
  PROVE  RuntimeInv' /\ Promise
<1>1. /\ alive[a] /\ agenda' = Live!Cancelled(agenda, a)
      /\ alive' = [alive EXCEPT ![a] = FALSE] /\ running' = [running EXCEPT ![a] = FALSE]
      /\ waiting' = [waiting EXCEPT ![a] = FALSE] /\ inbox' = [inbox EXCEPT ![a] = <<>>]
      /\ UNCHANGED <<published, got, incarnation, mode>>
  BY DEF Live!Kill, Live!Stopped
<1>2. agenda \in Seq(FineCall) /\ InOrder(agenda) /\ (NoStep(agenda, a) \/ \E m : OneStep(agenda, a, m))
  BY <1>1 DEF RuntimeInv, Typed, Resumption
<1>3. /\ agenda' \in Seq(FineCall) /\ InOrder(agenda') /\ NoStep(agenda', a)
      /\ \A b \in Actor \ {a} : Kept(agenda, agenda', b)
  BY <1>1, <1>2, CancelledTask
<1> QED
  BY <1>1, <1>3, StopsStep

LEMMA LiveFault ==
  ASSUME RuntimeInv, mode = "live", NEW i, Live!RunFault(i), mode' = mode
  PROVE  RuntimeInv' /\ Promise
<1>1. PICK rest, a : rest = RemoveAt(agenda, i) /\ a = agenda[i].actor
  OBVIOUS
<1>2. Live!DueAt(i, "kill")
  BY DEF Live!RunFault
<1>3. /\ RestOf(rest, i) /\ Live!RemoveAt(agenda, i) = rest
      /\ agenda[i].run = "kill" /\ a \in Actor
  BY <1>1, <1>2, LiveDue
<1>4. UNCHANGED <<published, got, incarnation, mode>>
  BY DEF Live!RunFault
<1>5. /\ alive[a] => /\ agenda' = Live!Cancelled(rest, a)
                     /\ alive' = [alive EXCEPT ![a] = FALSE]
                     /\ running' = [running EXCEPT ![a] = FALSE]
                     /\ waiting' = [waiting EXCEPT ![a] = FALSE]
                     /\ inbox' = [inbox EXCEPT ![a] = <<>>]
      /\ ~alive[a] => agenda' = rest /\ UNCHANGED <<alive, running, waiting, inbox>>
  BY <1>1, <1>3 DEF Live!RunFault, Live!Stopped
<1>6. \A b : ~Resumes(agenda[i], b)
  BY <1>3 DEF Resumes
<1>7. \A b : Kept(agenda, rest, b)
  BY <1>3, <1>6 DEF RestOf, Rest
<1>8. CASE alive[a]
  <2>1. rest \in Seq(FineCall) /\ InOrder(rest)
    BY <1>3 DEF RestOf
  <2>2. NoStep(agenda, a) \/ \E m : OneStep(agenda, a, m)
    BY <1>3 DEF RuntimeInv, Resumption
  <2>3. NoStep(rest, a) \/ \E m : OneStep(rest, a, m)
    BY <1>7, <2>2 DEF Kept
  <2>4. /\ agenda' \in Seq(FineCall) /\ InOrder(agenda') /\ NoStep(agenda', a)
        /\ \A b : a # b => Kept(rest, agenda', b)
    BY <1>5, <1>8, <2>1, <2>3, CancelledTask
  <2>5. \A b \in Actor \ {a} : Kept(agenda, agenda', b)
    BY <1>7, <2>4 DEF Kept
  <2> QED
    BY <1>3, <1>4, <1>5, <1>8, <2>4, <2>5, StopsStep
<1>9. CASE ~alive[a]
  <2>1. \A b \in Actor : Resumes(agenda[i], b) => ~running[b]
    BY <1>6
  <2>2. /\ agenda' = rest
        /\ UNCHANGED <<alive, running, waiting, inbox, published, got, incarnation, mode>>
    BY <1>4, <1>5, <1>9
  <2> QED
    BY <1>3, <2>1, <2>2, NothingStep
<1> QED
  BY <1>8, <1>9

\* Calls that are late stay due.
LEMMA LiveTime ==
  ASSUME RuntimeInv, mode = "live", Live!TimePasses, mode' = mode
  PROVE  RuntimeInv' /\ Promise
<1>1. /\ agenda' = [i \in DOMAIN agenda |->
                      [agenda[i] EXCEPT !.due = IF agenda[i].due = 0 THEN 0 ELSE agenda[i].due - 1]]
      /\ UNCHANGED <<alive, running, waiting, inbox, published, got, incarnation, mode>>
  BY DEF Live!TimePasses
<1>2. agenda \in Seq(FineCall) /\ DOMAIN agenda = 1 .. Len(agenda) /\ Len(agenda) \in Nat
  BY DEF RuntimeInv, Typed
<1>3. \A i \in DOMAIN agenda : agenda[i].due \in Nat
  BY <1>2, FineDue
<1>4. \A i \in DOMAIN agenda : i > 1 => agenda[i - 1].due <= agenda[i].due
  BY DEF RuntimeInv, Typed, InOrder
<1>5. PICK d : d = [i \in DOMAIN agenda |-> IF agenda[i].due = 0 THEN 0 ELSE agenda[i].due - 1]
  OBVIOUS
<1>6. d \in [DOMAIN agenda -> Nat]
  BY <1>3, <1>5
<1>7. ASSUME NEW i \in DOMAIN agenda, i > 1 PROVE d[i - 1] <= d[i]
  <2>1. i - 1 \in DOMAIN agenda
    BY <1>2, <1>7
  <2> QED
    BY <1>3, <1>4, <1>5, <1>7, <2>1
<1>8. agenda' = [i \in DOMAIN agenda |-> [agenda[i] EXCEPT !.due = d[i]]]
  BY <1>1, <1>5
<1> QED
  BY <1>1, <1>6, <1>7, <1>8, TimeStep

LEMMA LiveStep ==
  ASSUME RuntimeInv, mode = "live", Live!Next, mode' = mode
  PROVE  RuntimeInv' /\ Promise
<1>1. ASSUME NEW i, Live!RunDelivery(i) \/ Live!RunStep(i) \/ Live!RunFault(i)
      PROVE  RuntimeInv' /\ Promise
  BY <1>1, LiveDelivery, LiveRecv, LiveSleep, LiveEnd, LiveFault DEF Live!RunStep
<1>2. CASE Live!TimePasses
  BY <1>2, LiveTime
<1>3. ASSUME NEW m \in Message, NEW a \in Actor, NEW l \in Latency, Live!Publish(m, a, l)
      PROVE  RuntimeInv' /\ Promise
  <2>1. /\ published' = published \cup {m}
        /\ agenda' = ScheduleAt(agenda, Call(l, "deliver", a, m))
        /\ UNCHANGED <<alive, running, waiting, inbox, got, incarnation, mode>>
    BY <1>3, LiveWords DEF Live!Publish, Live!Call, Call
  <2> QED
    BY <2>1, PublishesStep
<1>4. ASSUME NEW a \in Actor, Live!Kill(a) PROVE RuntimeInv' /\ Promise
  BY <1>4, LiveKill
<1>5. ASSUME NEW a \in Actor, Live!Spawn(a) PROVE RuntimeInv' /\ Promise
  <2>1. /\ ~alive[a] /\ incarnation[a] < MaxIncarnations
        /\ alive' = [alive EXCEPT ![a] = TRUE] /\ running' = [running EXCEPT ![a] = TRUE]
        /\ agenda' = ScheduleAt(agenda, Call(0, "step", a, NoMessage))
        /\ got' = [got EXCEPT ![a] = <<>>] /\ inbox' = [inbox EXCEPT ![a] = <<>>]
        /\ incarnation' = [incarnation EXCEPT ![a] = incarnation[a] + 1]
        /\ UNCHANGED <<waiting, published, mode>>
    BY <1>5, LiveWords DEF Live!Spawn
  <2>2. inbox[a] = <<>> /\ inbox \in [Actor -> Seq(published)]
    BY <2>1 DEF RuntimeInv, Typed, Resumption
  <2>3. inbox' = inbox
    BY <2>1, <2>2
  <2> QED
    BY <2>1, <2>3, SpawnsStep
<1> QED
  BY <1>1, <1>2, <1>3, <1>4, <1>5, LiveActor DEF Live!Next

-----------------------------------------------------------------------------
(***************************************************************************)
(* The theorems.                                                           *)
(***************************************************************************)
LEMMA RuntimeStep ==
  ASSUME RuntimeInv, [SimNext \/ LiveNext]_<<vars, mode>>
  PROVE  RuntimeInv' /\ Promise
<1>1. CASE SimNext
  BY <1>1, SimStep DEF SimNext
<1>2. CASE LiveNext
  BY <1>2, LiveStep DEF LiveNext
<1>3. CASE UNCHANGED <<vars, mode>>
  <2>1. UNCHANGED <<alive, running, waiting, inbox, agenda, published, got, incarnation, mode>>
    BY <1>3 DEF vars
  <2>2. \A b \in Actor : Resumption(b)' /\ MailboxOf(b)' = MailboxOf(b)
    <3>1. ASSUME NEW b \in Actor PROVE Resumption(b)' /\ MailboxOf(b)' = MailboxOf(b)
      <4>1. Resumption(b) /\ Untouched(b)
        BY <2>1 DEF RuntimeInv, Untouched, Kept
      <4> QED
        BY <4>1, ResumptionKept, MailboxKept
    <3> QED
      BY <3>1
  <2>3. Typed'
    BY <2>1, FineSame DEF RuntimeInv, Typed
  <2>4. RuntimeInv'
    BY <2>2, <2>3 DEF RuntimeInv
  <2> QED
    BY <2>1, <2>2, <2>4, PromiseOfNothing
<1> QED
  BY <1>1, <1>2, <1>3

LEMMA RuntimeInvAlways == RuntimesSpec => []RuntimeInv
<1>1. RuntimesInit => RuntimeInv
  BY RuntimeInvInit
<1>2. RuntimeInv /\ [SimNext \/ LiveNext]_<<vars, mode>> => RuntimeInv'
  BY RuntimeStep
<1> QED
  BY <1>1, <1>2, PTL DEF RuntimesSpec

LEMMA StepsKnown ==
  \A a : /\ NoStep(agenda, a) => StepsOf(a) = {}
         /\ (\E m : OneStep(agenda, a, m)) => \E i \in StepsOf(a) : StepsOf(a) = {i}
<1> SUFFICES ASSUME NEW a
             PROVE  /\ NoStep(agenda, a) => StepsOf(a) = {}
                    /\ (\E m : OneStep(agenda, a, m)) => \E i \in StepsOf(a) : StepsOf(a) = {i}
  OBVIOUS
<1>1. StepsOf(a) = {i \in DOMAIN agenda : Resumes(agenda[i], a)}
  BY DEF StepsOf, Resumes
<1>2. ASSUME NEW m, OneStep(agenda, a, m) PROVE \E i \in StepsOf(a) : StepsOf(a) = {i}
  <2>1. PICK i \in DOMAIN agenda : /\ Resumes(agenda[i], a)
                                   /\ \A j \in DOMAIN agenda : Resumes(agenda[j], a) => j = i
    BY <1>2 DEF OneStep
  <2>2. i \in StepsOf(a) /\ StepsOf(a) = {i}
    BY <1>1, <2>1
  <2> QED
    BY <2>2
<1> QED
  BY <1>1, <1>2 DEF NoStep

\* The state of a runtime is well formed: every pending call is typed, none is due in
\* the past, and they are in the order of their time.
THEOREM RuntimeTypeCorrect == RuntimesSpec => []TypeOK
<1>1. RuntimeInv => TypeOK
  <2> SUFFICES ASSUME RuntimeInv PROVE TypeOK
    OBVIOUS
  <2>1. /\ alive \in [Actor -> BOOLEAN] /\ running \in [Actor -> BOOLEAN]
        /\ waiting \in [Actor -> BOOLEAN] /\ published \subseteq Message
        /\ incarnation \in [Actor -> 0 .. MaxIncarnations]
    BY DEF RuntimeInv, Typed
  <2>2. ASSUME NEW a \in Actor PROVE ToSet(inbox[a]) \cup ToSet(got[a]) \subseteq published
    <3>1. inbox[a] \in Seq(published) /\ got[a] \in Seq(published)
      BY DEF RuntimeInv, Typed
    <3> QED
      BY <3>1 DEF ToSet
  <2>3. ASSUME NEW i \in DOMAIN agenda
        PROVE  /\ agenda[i] \in [due : Nat, run : {"step", "deliver", "kill"}, actor : Actor,
                                 msg : Message \cup {NoMessage}]
               /\ i > 1 => agenda[i - 1].due <= agenda[i].due
    <3>1. agenda[i] \in FineCall
      BY DEF RuntimeInv, Typed
    <3>2. i > 1 => agenda[i - 1].due <= agenda[i].due
      BY DEF RuntimeInv, Typed, InOrder
    <3> QED
      BY <3>1, <3>2 DEF FineCall, PendingCall
  <2> QED
    BY <2>1, <2>2, <2>3 DEF TypeOK
<1> QED
  BY <1>1, RuntimeInvAlways, PTL

\* A live actor is resumed by exactly one thing: its one pending step, or the next
\* message it waits for.  So no coroutine is stepped twice for one await, and none
\* sleeps for ever, whatever the order of deliveries, kills and spawns (sim_clock.py:
\* _step, deliver; async_runtime.py: deliver).
THEOREM EveryActorIsResumedOnce == RuntimesSpec => []OneResumption
<1>1. RuntimeInv => OneResumption
  <2> SUFFICES ASSUME RuntimeInv, NEW a \in Actor, alive[a], running[a]
               PROVE  IF waiting[a] THEN StepsOf(a) = {} ELSE \E i \in StepsOf(a) : StepsOf(a) = {i}
    BY DEF OneResumption
  <2>1. Resumption(a)
    BY DEF RuntimeInv
  <2>2. CASE waiting[a]
    BY <2>1, <2>2, StepsKnown DEF Resumption
  <2>3. CASE ~waiting[a]
    BY <2>1, <2>3, StepsKnown DEF Resumption
  <2> QED
    BY <2>2, <2>3
<1> QED
  BY <1>1, RuntimeInvAlways, PTL

\* No wake-up is lost: an actor waits in recv only while its inbox is empty (_step, deliver).
THEOREM NoWakeUpIsLost == RuntimesSpec => []WaitingMeansEmpty
<1>1. RuntimeInv => WaitingMeansEmpty
  <2> SUFFICES ASSUME RuntimeInv, NEW a \in Actor, waiting[a]
               PROVE  alive[a] /\ running[a] /\ inbox[a] = <<>>
    BY DEF WaitingMeansEmpty
  <2> QED
    BY OfTheLiving
<1> QED
  BY <1>1, RuntimeInvAlways, PTL

\* Both runtimes implement the mailboxes: every message that reaches a live actor is
\* handed to it once and in the order of delivery, and a killed actor is handed none.
THEOREM MailboxesAreImplemented == RuntimesSpec => ImplementsMailboxes
<1>1. RuntimesInit => Promised!Init
  <2> SUFFICES ASSUME RuntimesInit PROVE Promised!Init
    OBVIOUS
  <2>1. RuntimeInv
    BY RuntimeInvInit
  <2>2. alive \in [Actor -> BOOLEAN] /\ got = [a \in Actor |-> <<>>]
    BY <2>1 DEF RuntimeInv, Typed, RuntimesInit, Init
  <2>3. ASSUME NEW a \in Actor PROVE MailboxOf(a) = <<>>
    <3>1. published = {} /\ MailboxOf(a) \in Seq(published)
      BY <2>1, MailboxType DEF RuntimesInit, Init
    <3>2. PICK s : s = MailboxOf(a)
      OBVIOUS
    <3>3. s \in Seq({})
      BY <3>1, <3>2
    <3>4. s = <<>>
      BY <3>3
    <3> QED
      BY <3>2, <3>4
  <2>4. Boxes = [a \in Actor |-> <<>>]
    BY <2>3 DEF Boxes
  <2> QED
    BY <2>2, <2>4 DEF Promised!Init, Boxes
<1>2. RuntimeInv /\ [SimNext \/ LiveNext]_<<vars, mode>> => [Promised!Next]_Promised!vars
  BY RuntimeStep DEF Promise
<1> QED
  BY <1>1, <1>2, RuntimeInvAlways, PTL DEF RuntimesSpec, ImplementsMailboxes, Promised!Spec
=============================================================================
