------------------------------ MODULE HrwSharding ------------------------------
(***************************************************************************)
(* Geo sharding by highest random weight (src/drt_sim/sharding.py): every  *)
(* cell of the service area belongs to the worker whose hash weight for    *)
(* that cell is the largest, so the map of a set of workers follows from   *)
(* the set alone.                                                          *)
(***************************************************************************)
EXTENDS Integers, FiniteSets

CONSTANTS
  Cell,        \* H3 cells that cover the service area
  Worker,      \* ids a dispatch worker can ever have
  Weight,      \* _hash_weight: first eight bytes of SHA-256("cell|node")
  MaxWeight,   \* 2^64 - 1 in the code
  Rank         \* position of a worker id in the order sorted() gives

\* SHA-256 is left uninterpreted: nothing is assumed of the weights but their
\* range, so two workers may tie on a cell.
ASSUME WeightAssumption ==
  /\ MaxWeight \in Nat
  /\ Weight \in [Cell -> [Worker -> 0 .. MaxWeight]]

\* sorted() orders distinct ids strictly.
ASSUME RankAssumption ==
  /\ Rank \in [Worker -> Nat]
  /\ \A m, n \in Worker : Rank[m] = Rank[n] => m = n

-----------------------------------------------------------------------------
\* max() keeps the first of equal weights, and build_shard_map passes the nodes
\* sorted: the smaller id wins a tie.
Beats(cell, m, n) ==
  \/ Weight[cell][m] > Weight[cell][n]
  \/ Weight[cell][m] = Weight[cell][n] /\ Rank[m] < Rank[n]

\* Mutant: a hash modulo the number of nodes picks the owner.
OwnerByModulo(cell, nodes) ==
  CHOOSE n \in nodes :
    Cardinality({m \in nodes : Rank[m] < Rank[n]}) =
      Weight[cell][CHOOSE m \in nodes : \A x \in nodes : Rank[m] <= Rank[x]]
        % Cardinality(nodes)

OwnerOfCell(cell, nodes) ==
  CHOOSE n \in nodes : \A m \in nodes \ {n} : Beats(cell, n, m)

\* Callers pass a non-empty set: the initial workers, or what _rebalance checked.
BuildShardMap(nodes, version) ==
  [version    |-> version,
   nodes      |-> nodes,
   cell_owner |-> [cell \in Cell |-> OwnerOfCell(cell, nodes)]]

ShardMap ==
  [version : Nat, nodes : SUBSET Worker, cell_owner : [Cell -> Worker]]

\* ShardMap.diff: the cells whose owner the new map changes.
ChangedCells(new, old) ==
  {cell \in Cell : new.cell_owner[cell] # old.cell_owner[cell]}
=============================================================================
