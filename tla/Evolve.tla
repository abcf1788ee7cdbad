------------------------------- MODULE Evolve -------------------------------
(***************************************************************************)
(* The genetic search for a cell order that compresses well: compress of   *)
(* solution_evolve.cpp (Marks = FALSE) and of solution_evolve_tiny_lzma.cpp *)
(* and the programs derived from it (Marks = TRUE), against a clock that   *)
(* runs on its own.  A gene is a permutation, of which only the length of  *)
(* the block compressed in its order matters here, and an unfitness, which *)
(* may be stale; what crossover does to permutations is in Crossover.      *)
(***************************************************************************)
EXTENDS Integers, Sequences, FiniteSets

CONSTANTS
  Perms,        \* the permutations of the cells
  Identity,     \* the one of Gene(false), which leaves the cells in place
  Length,       \* length of the block compressed in the order of a permutation
  Unmeasured,   \* the unfitness of a new gene (1e9)
  Population,   \* POPULATION
  Children,     \* CHILDREN
  Marks,        \* does evalGene mark a gene it has no time for with -1?
  EvalLimit,    \* the age at which evalGene gives up (1800 ms, or Limit)
  Limit,        \* the age at which the search ends (1900 ms)
  FirstLook,    \* latest age at which the first gene is evaluated
  RngMax        \* the largest number rng() returns

ASSUME SearchAssumption ==
  /\ Identity \in Perms
  /\ Population \in Nat \ {0} /\ Children \in Nat
  /\ Length \in [Perms -> {n \in Nat : n >= Population}]  \* lz4 and lzma headers
  /\ Unmeasured \in Nat
  /\ EvalLimit \in Nat /\ Limit \in Nat /\ EvalLimit <= Limit
  /\ FirstLook \in 0 .. Limit
  /\ RngMax \in Nat
  /\ Marks \in BOOLEAN

(* resize() never has to invent genes, and a gene without time is not       *)
(* used again, under these conditions the programs meet.                    *)
ASSUME EnoughChildren == Children >= Population
ASSUME UnmarkedLimit == ~Marks => EvalLimit = Limit

VARIABLES
  now,          \* age of the search, up to Limit
  pc,           \* statement the search is at
  evolving,     \* in the loop over generations, not the one before it
  gene,         \* the gene being made and evaluated
  population, childs,
  partial,      \* partial_sum_unfitness; its last element is tot_unfitness
  best,         \* the permutation whose block is held in best
  measured      \* every permutation a block was compressed for

vars == <<now, pc, evolving, gene, population, childs, partial, best, measured>>

Gene == [perm : Perms, unfitness : Nat \union {-1}]
(* The age of the search taken from the last look at the clock. *)
TimeoutSinceLook(limit) == now - now >= limit
Timeout(limit) == now >= limit
NewGene(p) == [perm |-> p, unfitness |-> Unmeasured]

Init ==
  /\ now = 0 /\ pc = "baseline" /\ evolving = FALSE
  /\ gene = NewGene(Identity) /\ population = <<>> /\ childs = <<>> /\ partial = <<>>
  /\ best = Identity /\ measured = {}

(* The clock.  Before the first gene is looked at it has not passed         *)
(* FirstLook.                                                               *)
FirstGene == ~evolving /\ population = <<>> /\ pc \in {"baseline", "create", "look"}
Tick ==
  /\ now < Limit
  /\ FirstGene => now < FirstLook
  /\ now' = now + 1
  /\ UNCHANGED <<pc, evolving, gene, population, childs, partial, best, measured>>

-----------------------------------------------------------------------------
(* The search.                                                              *)

(* The block in its own order is the first answer. *)
Baseline ==
  /\ pc = "baseline"
  /\ best' = Identity /\ measured' = {Identity}
  /\ pc' = "create"
  /\ UNCHANGED <<now, evolving, gene, population, childs, partial>>

(* population.push_back(Gene()): any permutation a few swaps can give. *)
Create ==
  /\ pc = "create"
  /\ \E p \in Perms : gene' = NewGene(p)
  /\ pc' = "look"
  /\ UNCHANGED <<now, evolving, population, childs, partial, best, measured>>

(* evalGene gives up before the search does and does not mark the gene. *)
LookEarly ==
  /\ pc = "look"
  /\ pc' = IF Timeout(EvalLimit - 1) THEN "looked" ELSE "measure"
  /\ UNCHANGED <<now, evolving, gene, population, childs, partial, best, measured>>

(* evalGene looks at the clock before it compresses. *)
Look ==
  /\ pc = "look"
  /\ IF Timeout(EvalLimit)
     THEN /\ gene' = IF Marks THEN [gene EXCEPT !.unfitness = -1] ELSE gene
          /\ pc' = "looked"
     ELSE pc' = "measure" /\ UNCHANGED gene
  /\ UNCHANGED <<now, evolving, population, childs, partial, best, measured>>

(* The block is compared with the first one (normal_len), not with the best. *)
MeasureAgainstFirst ==
  /\ pc = "measure"
  /\ gene' = [gene EXCEPT !.unfitness = Length[gene.perm]]
  /\ best' = IF Length[gene.perm] < Length[Identity] THEN gene.perm ELSE best
  /\ measured' = measured \union {gene.perm}
  /\ pc' = "looked"
  /\ UNCHANGED <<now, evolving, population, childs, partial>>

(* It compresses, and keeps the block if it is shorter. *)
Measure ==
  /\ pc = "measure"
  /\ gene' = [gene EXCEPT !.unfitness = Length[gene.perm]]
  /\ best' = IF Length[gene.perm] < Length[best] THEN gene.perm ELSE best
  /\ measured' = measured \union {gene.perm}
  /\ pc' = "looked"
  /\ UNCHANGED <<now, evolving, population, childs, partial>>

(* std::sort by unfitness leaves genes of the same unfitness in any order. *)
Sorted(s) ==
  {t \in {[k \in DOMAIN s |-> s[f[k]]] :
            f \in {g \in [DOMAIN s -> DOMAIN s] :
                     \A y \in DOMAIN s : \E x \in DOMAIN s : g[x] = y}} :
     \A x, y \in DOMAIN s : x < y => t[x].unfitness <= t[y].unfitness}

(* After a gene of the first population. *)
Founded ==
  /\ pc = "looked" /\ ~evolving
  /\ LET all == Append(population, gene)
     IN  IF Timeout(Limit)
         THEN pc' = "done" /\ population' = all /\ UNCHANGED evolving
         ELSE IF Len(all) < Population
         THEN pc' = "create" /\ population' = all /\ UNCHANGED evolving
         ELSE pc' = "sum" /\ population' \in Sorted(all) /\ evolving' = TRUE
  /\ UNCHANGED <<now, gene, childs, partial, best, measured>>

(* The loop that adds up the unfitness of the population. *)
Total == IF partial = <<>> THEN 0 ELSE partial[Len(partial)]
AddUp ==
  /\ pc = "sum" /\ Len(partial) < Len(population)
  /\ partial' = Append(partial, Total + population[Len(partial) + 1].unfitness)
  /\ UNCHANGED <<now, pc, evolving, gene, population, childs, best, measured>>

AddedUp ==
  /\ pc = "sum" /\ Len(partial) = Len(population)
  /\ pc' = "breed"
  /\ UNCHANGED <<now, evolving, gene, population, childs, partial, best, measured>>

(* rng() % tot_unfitness is computed unsigned, so a negative total leaves   *)
(* rng() as it is; lower_bound finds the first partial sum not below it.    *)
Draws == IF Total > 0 THEN 0 .. Total - 1 ELSE 0 .. RngMax
Found(rnd) == 1 + Cardinality({k \in DOMAIN partial : partial[k] < rnd})
Picks == {Found(rnd) : rnd \in Draws}

(* The child loop: parents are picked and merged (a copy of the first keeps *)
(* its unfitness, a crossover starts with 0), and the child is mutated.  A  *)
(* total of 0, or a pick past the end, is undefined behaviour.              *)
Breed ==
  /\ pc = "breed"
  /\ IF Len(childs) = Children \/ Timeout(Limit)
     THEN pc' = "bred" /\ UNCHANGED gene
     ELSE \E a, b \in Picks :
            IF Total = 0 \/ {a, b} \cap DOMAIN population # {a, b}
            THEN pc' = "undefined" /\ UNCHANGED gene
            ELSE /\ \E p \in Perms, u \in {0, population[a].unfitness} :
                      gene' = [perm |-> p, unfitness |-> u]
                 /\ pc' = "look"
  /\ UNCHANGED <<now, evolving, population, childs, partial, best, measured>>

(* A marked child does not end the search. *)
BornMarked ==
  /\ pc = "looked" /\ evolving
  /\ IF Timeout(Limit)
     THEN pc' = "bred" /\ UNCHANGED childs
     ELSE pc' = "breed" /\ childs' = Append(childs, gene)
  /\ UNCHANGED <<now, evolving, gene, population, partial, best, measured>>

(* After a child: a marked one ends the search, and the marking programs    *)
(* look at the clock again before they keep the child.                      *)
Born ==
  /\ pc = "looked" /\ evolving
  /\ IF Marks /\ gene.unfitness = -1
     THEN pc' = "done" /\ UNCHANGED childs
     ELSE IF Marks /\ Timeout(Limit)
     THEN pc' = "bred" /\ UNCHANGED childs
     ELSE pc' = "breed" /\ childs' = Append(childs, gene)
  /\ UNCHANGED <<now, evolving, gene, population, partial, best, measured>>

(* The next generation: the best children, without their parents.  resize  *)
(* would make up for missing ones with new genes, each a Gene() of its own. *)
ResizeNot(s) == {s}
Resize(s) == {[k \in 1 .. Population |-> IF k <= Len(s) THEN s[k] ELSE NewGene(p[k])] :
                p \in [1 .. Population -> Perms]}
Replace ==
  /\ pc = "bred"
  /\ IF Timeout(Limit)
     THEN pc' = "done" /\ UNCHANGED <<population, childs>>
     ELSE /\ \E s \in Sorted(childs) : population' \in Resize(s)
          /\ childs' = <<>>
          /\ pc' = "replaced"
  /\ UNCHANGED <<now, evolving, gene, partial, best, measured>>

Again ==
  /\ pc = "replaced"
  /\ IF Timeout(Limit) THEN pc' = "done" /\ UNCHANGED partial
                       ELSE pc' = "sum" /\ partial' = <<>>
  /\ UNCHANGED <<now, evolving, gene, population, childs, best, measured>>

Search ==
  \/ Baseline \/ Create \/ Look \/ Measure \/ Founded
  \/ AddUp \/ AddedUp \/ Breed \/ Born \/ Replace \/ Again

Stopped == pc \in {"done", "undefined"} /\ UNCHANGED vars

Next == Tick \/ Search \/ Stopped

(* The process is scheduled, and steady_clock advances. *)
Spec == Init /\ [][Next]_vars /\ WF_vars(Search) /\ WF_vars(Tick)

-----------------------------------------------------------------------------
(* Properties.                                                              *)

(* Every variable keeps its type, and the population its size while genes   *)
(* are drawn from it.                                                       *)
TypeOK ==
  /\ now \in 0 .. Limit
  /\ pc \in {"baseline", "create", "look", "measure", "looked", "sum", "breed",
             "bred", "replaced", "done", "undefined"}
  /\ evolving \in BOOLEAN /\ gene \in Gene
  /\ population \in Seq(Gene) /\ childs \in Seq(Gene)
  /\ Len(population) <= Population /\ Len(childs) <= Children
  /\ evolving => Len(population) = Population
  /\ partial \in Seq(Int)
  /\ best \in Perms /\ measured \subseteq Perms

(* What compress returns is the shortest block it ever compressed, though   *)
(* no generation keeps the best gene of the one before it.                  *)
BestOfAll ==
  pc # "baseline" =>
    /\ best \in measured
    /\ \A p \in measured : Length[best] <= Length[p]

(* Genes are bred by what was measured: a gene evalGene had no time for     *)
(* keeps the unfitness of a parent, or 0, or -1, and one such gene would    *)
(* distort every draw.  An unmarked one is never drawn from, because the    *)
(* clock does not go back; a marked one may be in the first population      *)
(* only, and no child is measured after it.                                 *)
Honest(g) == g.unfitness = Length[g.perm]
Breeding == pc \in {"sum", "breed"} \/ (pc \in {"look", "measure", "looked"} /\ evolving)
BredByMeasure ==
  Breeding => \A k \in DOMAIN population :
    \/ Honest(population[k])
    \/ Marks /\ population[k].unfitness = -1 /\ now >= EvalLimit

(* No draw leaves the population, as long as the first gene is measured.    *)
(* tests/run_tests.py counts an exit code other than 0 as a failure.        *)
DrawsInRange == pc # "undefined"

(* compress returns: run_tests.py gives it two seconds.                     *)
Returns == <>(pc = "done")
=============================================================================
