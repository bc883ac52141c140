--------------------------- MODULE HrwSharding_proofs ---------------------------
(***************************************************************************)
(* What highest-random-weight hashing promises, for every set of cells and *)
(* workers and every hash function: proofs about module HrwSharding.       *)
(***************************************************************************)
EXTENDS HrwSharding, WellFoundedInduction, TLAPS

\* A non-empty set of naturals has a least element.
LEMMA LeastNatural ==
  ASSUME NEW S, S \subseteq Nat, S # {}
  PROVE  \E x \in S : \A y \in S : x <= y
<1>1. \E x \in S : \A y \in S : ~ (<<y, x>> \in OpToRel(<, Nat))
  BY NatLessThanWellFounded, WFMin, Zenon
<1>2. \A x, y \in Nat : <<y, x>> \in OpToRel(<, Nat) <=> y < x
  BY DEF OpToRel
<1>3. PICK x \in S : \A y \in S : ~ (<<y, x>> \in OpToRel(<, Nat))
  BY <1>1, Zenon
<1>4. \A y \in S : ~ (y < x)
  BY <1>2, <1>3, Zenon
<1>5. QED
  BY <1>4

\* Every non-empty set of workers has one that beats all others on a cell, and
\* only one: max() over the sorted nodes (sharding.py: owner_of_cell) is a function
\* of the set, also when hash weights tie.
LEMMA BestWorkerExists ==
  ASSUME NEW cell \in Cell, NEW nodes \in SUBSET Worker, nodes # {}
  PROVE  \E n \in nodes : \A m \in nodes \ {n} : Beats(cell, n, m)
<1> USE WeightAssumption, RankAssumption
<1> DEFINE Gaps == {MaxWeight - Weight[cell][n] : n \in nodes}
           Heaviest == {n \in nodes : \A m \in nodes : Weight[cell][m] <= Weight[cell][n]}
           Ranks == {Rank[n] : n \in Heaviest}
<1>1. Gaps \subseteq Nat /\ Gaps # {}
  OBVIOUS
<1>2. PICK n0 \in nodes : \A m \in nodes : MaxWeight - Weight[cell][n0] <= MaxWeight - Weight[cell][m]
  <2>1. PICK x \in Gaps : \A y \in Gaps : x <= y
    BY <1>1, LeastNatural
  <2>2. QED
    BY <2>1
<1>3. n0 \in Heaviest
  BY <1>2
<1>4. Ranks \subseteq Nat /\ Ranks # {}
  BY <1>3
<1>5. PICK n \in Heaviest : \A m \in Heaviest : Rank[n] <= Rank[m]
  <2>1. PICK x \in Ranks : \A y \in Ranks : x <= y
    BY <1>4, LeastNatural
  <2>2. QED
    BY <2>1
<1>6. ASSUME NEW m \in nodes \ {n} PROVE Beats(cell, n, m)
  <2>1. CASE Weight[cell][m] = Weight[cell][n]
    <3>1. m \in Heaviest
      BY <2>1
    <3>2. Rank[n] < Rank[m]
      BY <1>5, <3>1
    <3>3. QED
      BY <2>1, <3>2 DEF Beats
  <2>2. CASE Weight[cell][m] # Weight[cell][n]
    BY <2>2 DEF Beats
  <2>3. QED
    BY <2>1, <2>2
<1>7. QED
  BY <1>5, <1>6

\* No worker beats another that beats it: the winner is unique.
LEMMA BeatsIsAsymmetric ==
  ASSUME NEW cell \in Cell, NEW m \in Worker, NEW n \in Worker, Beats(cell, m, n)
  PROVE  ~ Beats(cell, n, m)
BY WeightAssumption, RankAssumption DEF Beats

\* The owner of a cell is the worker of the set that beats every other.
LEMMA OwnerWins ==
  ASSUME NEW cell \in Cell, NEW nodes \in SUBSET Worker, nodes # {}
  PROVE  /\ OwnerOfCell(cell, nodes) \in nodes
         /\ \A m \in nodes \ {OwnerOfCell(cell, nodes)} :
              Beats(cell, OwnerOfCell(cell, nodes), m)
BY BestWorkerExists DEF OwnerOfCell

LEMMA OwnerIsTheWinner ==
  ASSUME NEW cell \in Cell, NEW nodes \in SUBSET Worker, NEW n \in nodes,
         \A m \in nodes \ {n} : Beats(cell, n, m)
  PROVE  OwnerOfCell(cell, nodes) = n
<1>1. OwnerOfCell(cell, nodes) \in nodes
  BY OwnerWins
<1>2. SUFFICES ASSUME OwnerOfCell(cell, nodes) # n PROVE FALSE
  OBVIOUS
<1>3. Beats(cell, n, OwnerOfCell(cell, nodes))
  BY <1>1, <1>2
<1>4. Beats(cell, OwnerOfCell(cell, nodes), n)
  BY <1>2, OwnerWins
<1>5. QED
  BY <1>1, <1>3, <1>4, BeatsIsAsymmetric

\* A shard map of a non-empty set of workers is well formed, and every cell has an
\* owner in the set: no cell is ever without a live worker (build_shard_map).
THEOREM ShardMapIsTotal ==
  ASSUME NEW nodes \in SUBSET Worker, nodes # {}, NEW version \in Nat
  PROVE  /\ BuildShardMap(nodes, version) \in ShardMap
         /\ \A cell \in Cell : BuildShardMap(nodes, version).cell_owner[cell] \in nodes
BY OwnerWins DEF BuildShardMap, ShardMap

\* Minimal movement (sharding.py, module docstring; test_sharding.py): between any
\* two sets of workers, a cell changes hands only if its old owner left or its new
\* owner is new.
THEOREM MinimalMovement ==
  ASSUME NEW old \in SUBSET Worker, old # {}, NEW new \in SUBSET Worker, new # {},
         NEW v1 \in Nat, NEW v2 \in Nat,
         NEW cell \in ChangedCells(BuildShardMap(new, v2), BuildShardMap(old, v1))
  PROVE  \/ BuildShardMap(old, v1).cell_owner[cell] \notin new
         \/ BuildShardMap(new, v2).cell_owner[cell] \notin old
<1> DEFINE o == OwnerOfCell(cell, old)
           n == OwnerOfCell(cell, new)
<1>1. /\ cell \in Cell /\ o # n
      /\ BuildShardMap(old, v1).cell_owner[cell] = o
      /\ BuildShardMap(new, v2).cell_owner[cell] = n
  BY DEF ChangedCells, BuildShardMap
<1>2. SUFFICES ASSUME o \in new, n \in old PROVE FALSE
  BY <1>1
<1>3. Beats(cell, o, n)
  BY <1>1, <1>2, OwnerWins
<1>4. Beats(cell, n, o)
  BY <1>1, <1>2, OwnerWins
<1>5. QED
  BY <1>1, <1>2, <1>3, <1>4, BeatsIsAsymmetric
=============================================================================
