----------------------------- MODULE Crossover -----------------------------
(***************************************************************************)
(* How the genetic search makes the permutation of a gene: a new one       *)
(* (Gene), or a child of two (merge: a copy, PMX or OX1) that is mutated.  *)
(* The loops whose order matters run one iteration per step; std::vector   *)
(* does not check an index, so that one out of range is undefined.         *)
(***************************************************************************)
EXTENDS Integers, FiniteSets

CONSTANTS
  MaxCells,   \* most cells in a block
  MaxSwaps    \* most swaps of a mutation (9 for a new gene, 4 for a child)

ASSUME CrossoverAssumption == MaxCells \in Nat \ {0} /\ MaxSwaps \in Nat

VARIABLES
  n, a, b,      \* number_of_cells and the parents
  op,           \* the way the permutation is made
  l, r,         \* the part of parent a that a crossover keeps
  at, i, j,     \* statement and loop variables
  perm, used,   \* the permutation being made and the numbers in it
  to, path,     \* PMX: where b has the number a has here; places passed
  swaps         \* swaps still to be done

parents == <<n, a, b, op, l, r>>
makeVars == <<parents, at, i, j, perm, used, to, path, swaps>>

Pos   == 0 .. n - 1
Empty == -1
Permutations(S) == {f \in [S -> S] : \A x, y \in S : f[x] = f[y] => x = y}
Kept  == l .. r

MakeInit ==
  /\ n \in 1 .. MaxCells
  /\ a \in Permutations(Pos) /\ b \in Permutations(Pos)
  /\ op \in {"new", "copy", "PMX", "OX1"}
  /\ l \in Pos /\ r \in Pos /\ l <= r      \* two draws, swapped if need be
  /\ at = "start" /\ i = 0 /\ j = 0
  /\ perm = [x \in Pos |-> Empty] /\ used = {}
  /\ to = [x \in Pos |-> x] /\ path = {}
  /\ swaps = 0

(* A new gene starts from the identity, a copy from its first parent. *)
StartPlain ==
  /\ at = "start" /\ op \in {"new", "copy"}
  /\ perm' = IF op = "new" THEN [x \in Pos |-> x] ELSE a
  /\ used' = Pos
  /\ at' = "draw"
  /\ UNCHANGED <<parents, i, j, to, path, swaps>>

(* Both crossovers start by keeping a part of the first parent. *)
StartCross ==
  /\ at = "start" /\ op \in {"PMX", "OX1"}
  /\ perm' = [x \in Pos |-> IF x \in Kept THEN a[x] ELSE Empty]
  /\ used' = {a[x] : x \in Kept}
  /\ to' = [x \in Pos |-> CHOOSE y \in Pos : b[y] = a[x]]
  /\ i' = IF op = "PMX" THEN l ELSE 0
  /\ j' = 0
  /\ at' = IF op = "PMX" THEN "place" ELSE "order"
  /\ UNCHANGED <<parents, path, swaps>>

(* PMX: a number b has in the kept part and a has not needs another place. *)
Place ==
  /\ at = "place" /\ i <= r
  /\ IF b[i] \in used
     THEN i' = i + 1 /\ UNCHANGED <<at, j, path>>
     ELSE j' = i /\ path' = {} /\ at' = "walk" /\ UNCHANGED i
  /\ UNCHANGED <<parents, perm, used, to, swaps>>

(* The walk goes on from the number to place, not from where it has come. *)
WalkFromStart ==
  /\ at = "walk" /\ perm[j] # Empty
  /\ path' = path \union {j}
  /\ j' = to[i]
  /\ UNCHANGED <<parents, at, i, perm, used, to, swaps>>

(* It is looked for along to[], past the places that are taken. *)
Walk ==
  /\ at = "walk" /\ perm[j] # Empty
  /\ path' = path \union {j}
  /\ j' = to[j]
  /\ UNCHANGED <<parents, at, i, perm, used, to, swaps>>

Settle ==
  /\ at = "walk" /\ perm[j] = Empty
  /\ perm' = [perm EXCEPT ![j] = b[i]]
  /\ used' = used \union {b[i]}
  /\ to' = [x \in Pos |-> IF x \in path THEN j ELSE to[x]]
  /\ i' = i + 1 /\ at' = "place"
  /\ UNCHANGED <<parents, j, path, swaps>>

(* What is still empty is taken from b. *)
Fill ==
  /\ at = "place" /\ i = r + 1
  /\ perm' = [x \in Pos |-> IF perm[x] = Empty THEN b[x] ELSE perm[x]]
  /\ at' = "draw"
  /\ UNCHANGED <<parents, i, j, used, to, path, swaps>>

(* OX1: the numbers a did not give, in b's order, around the kept part. *)
SkipNot(x) == x
SkipTooFar(x) == IF x = l THEN r + 2 ELSE x
Skip(x) == IF x = l THEN r + 1 ELSE x
Order ==
  /\ at = "order" /\ i < n
  /\ IF b[i] \in used THEN UNCHANGED <<at, j, perm>>
     ELSE IF Skip(j) \notin Pos THEN at' = "undefined" /\ UNCHANGED <<j, perm>>
     ELSE perm' = [perm EXCEPT ![Skip(j)] = b[i]] /\ j' = Skip(j) + 1 /\ UNCHANGED at
  /\ i' = i + 1
  /\ UNCHANGED <<parents, used, to, path, swaps>>

Ordered ==
  /\ at = "order" /\ i = n
  /\ at' = "draw"
  /\ UNCHANGED <<parents, i, j, perm, used, to, path, swaps>>

(* mutate *)
Draw ==
  /\ at = "draw"
  /\ swaps' \in 0 .. MaxSwaps
  /\ at' = "mutate"
  /\ UNCHANGED <<parents, i, j, perm, used, to, path>>

Swap ==
  /\ at = "mutate" /\ swaps > 0
  /\ \E x, y \in Pos : perm' = [perm EXCEPT ![x] = perm[y], ![y] = perm[x]]
  /\ swaps' = swaps - 1
  /\ UNCHANGED <<parents, at, i, j, used, to, path>>

(* A new gene may be reversed. *)
Finish ==
  /\ at = "mutate" /\ swaps = 0
  /\ \/ UNCHANGED perm
     \/ op = "new" /\ perm' = [x \in Pos |-> perm[n - 1 - x]]
  /\ at' = "done"
  /\ UNCHANGED <<parents, i, j, used, to, path, swaps>>

MakeStopped == at \in {"done", "undefined"} /\ UNCHANGED makeVars

MakeNext ==
  \/ StartPlain \/ StartCross
  \/ Place \/ Walk \/ Settle \/ Fill
  \/ Order \/ Ordered
  \/ Draw \/ Swap \/ Finish \/ MakeStopped

MakeSpec == MakeInit /\ [][MakeNext]_makeVars /\ WF_makeVars(MakeNext)

-----------------------------------------------------------------------------
(* Properties.                                                              *)

(* Every variable keeps its type; no index leaves the vectors.              *)
IndicesOK ==
  /\ at \in {"start", "place", "walk", "order", "draw", "mutate", "done"}
  /\ i \in 0 .. n /\ j \in 0 .. n
  /\ perm \in [Pos -> Pos \union {Empty}] /\ used \subseteq Pos
  /\ to \in [Pos -> Pos] /\ path \subseteq Pos
  /\ swaps \in 0 .. MaxSwaps

(* permute() sorts the cells by the numbers of a gene and indexes vectors   *)
(* with them: they must be a permutation, whatever way the gene was made.   *)
MakesPermutation == at \in {"draw", "done"} => perm \in Permutations(Pos)

(* The walk along to[] ends: a gene is always made.                         *)
Made == <>(at = "done")
=============================================================================
