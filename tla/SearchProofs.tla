---------------------------- MODULE SearchProofs ----------------------------
(***************************************************************************)
(* Proofs about the genetic search.                                        *)
(*                                                                         *)
(* The search (Evolve), for every set of permutations, population size and *)
(* limit, and for both variants of the program: the inductive invariant    *)
(* says which genes have been measured at which statement, that the first  *)
(* one has, and what the partial sums can be.                              *)
(*                                                                         *)
(* The genes (Crossover), for every number of cells and all parents: a     *)
(* gene is a permutation and no index leaves its vector.  For PMX the      *)
(* argument is about chains: b has the number that a has at one place at   *)
(* another, and so on.  A walk follows one chain from its first place, no  *)
(* two walks meet, and when all have been done only closed chains are      *)
(* left.                                                                   *)
(***************************************************************************)
EXTENDS Evolve, Crossover, DivModFacts, FunctionTheorems, FiniteSetTheorems, TLAPS

(* What the draws rest on: the marking programs look at the first gene      *)
(* before they would give it up.                                            *)
FirstInTime == Marks => FirstLook < EvalLimit

-----------------------------------------------------------------------------
(* The inductive invariant.                                                 *)

Measured(g) == Honest(g)
Marked(g)   == Marks /\ g.unfitness = -1 /\ now >= EvalLimit
OutOfTime   == ~Marks /\ now >= Limit

(* The gene that was just evaluated was measured, marked, or left alone     *)
(* because the search is over.                                              *)
GeneKnown ==
  pc = "looked" => Measured(gene) \/ Marked(gene) \/ OutOfTime

(* So are the genes of the population and the children. *)
PopulationKnown ==
  \A k \in DOMAIN population :
    Measured(population[k]) \/ Marked(population[k]) \/ (OutOfTime /\ pc = "done")
ChildsKnown ==
  \A k \in DOMAIN childs : Measured(childs[k]) \/ OutOfTime

(* Where the search is in its loops. *)
Placed ==
  /\ pc \in {"sum", "breed", "bred", "replaced"} => evolving
  /\ pc \in {"baseline", "create"} => ~evolving
  /\ pc \in {"baseline", "create", "look", "measure", "looked"} /\ ~evolving =>
       Len(population) < Population
  /\ pc \in {"baseline", "create"} => childs = <<>> /\ partial = <<>>
  /\ ~evolving => childs = <<>> /\ partial = <<>>
  /\ pc \in {"look", "measure", "looked"} /\ evolving => Len(childs) < Children
  /\ pc \in {"sum", "replaced"} => childs = <<>>
  /\ pc = "bred" => Len(childs) = Children \/ now >= Limit

(* The first gene is measured, and one measured gene stays. *)
FirstMeasured ==
  /\ FirstGene => now <= FirstLook
  /\ (pc = "looked" /\ ~evolving /\ population = <<>>) => Measured(gene) \/ OutOfTime
  /\ population # <<>> =>
       (\E k \in DOMAIN population : Measured(population[k])) \/ pc = "done"

(* Every unfitness is at least -1 and a measured one is at least the size   *)
(* of the population, so that the total is positive.                        *)
SumsKnown ==
  /\ Total >= 0 - Len(partial)
  /\ Breeding =>
       /\ Len(partial) <= Population
       /\ pc # "sum" => Len(partial) = Population
       /\ (\E k \in 1 .. Len(partial) : Measured(population[k])) =>
            Total >= Population + 1 - Len(partial)

IInv ==
  TypeOK /\ GeneKnown /\ PopulationKnown /\ ChildsKnown /\ Placed /\ BestOfAll
DInv == FirstMeasured /\ SumsKnown /\ DrawsInRange

-----------------------------------------------------------------------------
(* Lemmas about the helpers.                                                *)

(* Sorting a sequence of genes moves them and loses none. *)
LEMMA SortedFacts ==
  ASSUME NEW s \in Seq(Gene), NEW t \in Sorted(s)
  PROVE  /\ t \in Seq(Gene) /\ Len(t) = Len(s)
         /\ \A k \in DOMAIN t : \E m \in DOMAIN s : t[k] = s[m]
         /\ \A m \in DOMAIN s : \E k \in DOMAIN t : t[k] = s[m]
<1>1. DOMAIN s = 1 .. Len(s) /\ Len(s) \in Nat
  OBVIOUS
<1>2. PICK f \in [DOMAIN s -> DOMAIN s] :
        /\ t = [k \in DOMAIN s |-> s[f[k]]]
        /\ \A y \in DOMAIN s : \E x \in DOMAIN s : f[x] = y
  BY Zenon DEF Sorted
<1>3. \A k \in DOMAIN s : s[f[k]] \in Gene
  BY <1>1
<1>4. t \in [1 .. Len(s) -> Gene]
  BY <1>1, <1>2, <1>3
<1>5. t \in Seq(Gene) /\ Len(t) = Len(s) /\ DOMAIN t = DOMAIN s
  BY <1>1, <1>4
<1>6. \A m \in DOMAIN s : \E k \in DOMAIN t : t[k] = s[m]
  BY <1>2, <1>5, Zenon
<1>7. \A k \in DOMAIN t : \E m \in DOMAIN s : t[k] = s[m]
  BY <1>2, <1>5, Zenon
<1> QED
  BY <1>5, <1>6, <1>7

LEMMA UpTo ==
  ASSUME NEW size \in Nat
  PROVE  IsFiniteSet(1 .. size) /\ Cardinality(1 .. size) = size
BY FS_Interval

(* A draw below the total finds a place of the partial sums. *)
LEMMA FoundInRange ==
  ASSUME partial \in Seq(Int), Len(partial) > 0,
         NEW rnd \in Int, rnd < Total
  PROVE  Found(rnd) \in 1 .. Len(partial)
<1> DEFINE N == Len(partial)
           below == {k \in DOMAIN partial : partial[k] < rnd}
<1>1. N \in Nat \ {0} /\ DOMAIN partial = 1 .. N /\ Total = partial[N] /\ Total \in Int
  BY DEF Total
<1>2. below \subseteq 1 .. (N - 1)
  BY <1>1
<1>3. IsFiniteSet(1 .. (N - 1)) /\ Cardinality(1 .. (N - 1)) = N - 1
  BY <1>1, UpTo
<1>4. IsFiniteSet(below) /\ Cardinality(below) <= N - 1
  BY <1>2, <1>3, FS_Subset
<1>5. Cardinality(below) \in Nat
  BY <1>4, FS_CardinalityType
<1>6. Found(rnd) = 1 + Cardinality(below)
  BY DEF Found
<1> QED
  BY <1>1, <1>4, <1>5, <1>6

-----------------------------------------------------------------------------
(* Each step keeps the invariant.                                           *)

LEMMA InitIInv == Init => IInv
<1> SUFFICES ASSUME Init PROVE IInv
  OBVIOUS
<1>1. <<>> \in Seq(Gene) /\ <<>> \in Seq(Int) /\ Len(<<>>) = 0 /\ DOMAIN <<>> = {}
  OBVIOUS
<1>2. TypeOK
  <2>1. gene \in Gene /\ now \in 0 .. Limit
    BY SearchAssumption DEF Init, Gene, NewGene
  <2>2. /\ population \in Seq(Gene) /\ childs \in Seq(Gene) /\ partial \in Seq(Int)
        /\ Len(population) <= Population /\ Len(childs) <= Children
    BY <1>1, SearchAssumption DEF Init
  <2> QED
    BY <2>1, <2>2, SearchAssumption DEF Init, TypeOK
<1>3. GeneKnown /\ PopulationKnown /\ ChildsKnown /\ BestOfAll
  BY <1>1 DEF Init, GeneKnown, PopulationKnown, ChildsKnown, BestOfAll
<1>4. Placed
  BY <1>1, SearchAssumption DEF Init, Placed
<1> QED
  BY <1>2, <1>3, <1>4 DEF IInv

LEMMA TickKeeps == ASSUME IInv, Tick PROVE IInv'
<1>1. TypeOK'
  BY SearchAssumption DEF IInv, TypeOK, Tick
<1>2. GeneKnown' /\ PopulationKnown' /\ ChildsKnown'
  BY SearchAssumption
     DEF IInv, TypeOK, Tick, GeneKnown, PopulationKnown, ChildsKnown, Measured, Honest,
         Marked, OutOfTime
<1>3. Placed'
  BY SearchAssumption DEF IInv, TypeOK, Tick, Placed
<1>4. BestOfAll'
  BY DEF IInv, Tick, BestOfAll
<1> QED
  BY <1>1, <1>2, <1>3, <1>4 DEF IInv

LEMMA BaselineKeeps == ASSUME IInv, Baseline PROVE IInv'
<1>1. TypeOK'
  BY SearchAssumption DEF IInv, TypeOK, Baseline
<1>2. GeneKnown' /\ PopulationKnown' /\ ChildsKnown' /\ Placed'
  BY DEF IInv, Baseline, GeneKnown, PopulationKnown, ChildsKnown, Measured, Honest,
         Marked, OutOfTime, Placed
<1>3. BestOfAll'
  BY SearchAssumption DEF Baseline, BestOfAll
<1> QED
  BY <1>1, <1>2, <1>3 DEF IInv

LEMMA CreateKeeps == ASSUME IInv, Create PROVE IInv'
<1>1. TypeOK'
  BY SearchAssumption DEF IInv, TypeOK, Create, NewGene, Gene
<1>2. GeneKnown' /\ PopulationKnown' /\ ChildsKnown' /\ Placed'
  BY DEF IInv, Create, GeneKnown, PopulationKnown, ChildsKnown, Measured, Honest,
         Marked, OutOfTime, Placed
<1>3. BestOfAll'
  BY DEF IInv, Create, BestOfAll
<1> QED
  BY <1>1, <1>2, <1>3 DEF IInv

LEMMA LookKeeps == ASSUME IInv, Look PROVE IInv'
<1>1. TypeOK'
  BY DEF IInv, TypeOK, Look, Gene
<1>2. GeneKnown'
  BY SearchAssumption, UnmarkedLimit
     DEF IInv, TypeOK, Look, GeneKnown, Measured, Honest, Marked, OutOfTime, Timeout, Gene
<1>3. PopulationKnown' /\ ChildsKnown' /\ Placed' /\ BestOfAll'
  BY DEF IInv, Look, PopulationKnown, ChildsKnown, Measured, Honest, Marked, OutOfTime,
         Placed, BestOfAll
<1> QED
  BY <1>1, <1>2, <1>3 DEF IInv

LEMMA MeasureKeeps == ASSUME IInv, Measure PROVE IInv'
<1> gene.perm \in Perms /\ best \in Perms
  BY DEF IInv, TypeOK, Gene
<1> \A p \in Perms : Length[p] \in Nat
  BY SearchAssumption
<1>1. TypeOK'
  BY DEF IInv, TypeOK, Measure, Gene
<1>2. GeneKnown'
  BY DEF IInv, TypeOK, Measure, GeneKnown, Measured, Honest, Gene
<1>3. PopulationKnown' /\ ChildsKnown' /\ Placed'
  BY DEF IInv, Measure, PopulationKnown, ChildsKnown, Measured, Honest, Marked, OutOfTime,
         Placed
<1>4. BestOfAll'
  <2>1. best \in measured /\ \A p \in measured : p \in Perms /\ Length[best] <= Length[p]
    BY DEF IInv, TypeOK, Measure, BestOfAll
  <2>2. /\ measured' = measured \union {gene.perm}
        /\ best' = IF Length[gene.perm] < Length[best] THEN gene.perm ELSE best
    BY DEF Measure
  <2> QED
    BY <2>1, <2>2 DEF BestOfAll
<1> QED
  BY <1>1, <1>2, <1>3, <1>4 DEF IInv

LEMMA FoundedKeeps == ASSUME IInv, Founded PROVE IInv'
<1> DEFINE all == Append(population, gene)
<1>1. /\ all \in Seq(Gene) /\ Len(all) = Len(population) + 1
      /\ Len(population) \in Nat /\ Len(population) < Population
      /\ ~evolving /\ childs = <<>> /\ partial = <<>>
  BY DEF IInv, TypeOK, Placed, Founded
<1>2. \A k \in DOMAIN all : k \in DOMAIN population \/ k = Len(all)
  BY <1>1 DEF IInv, TypeOK
<1>3. \A k \in DOMAIN all : Measured(all[k]) \/ Marked(all[k]) \/ OutOfTime
  BY <1>1, <1>2 DEF IInv, TypeOK, Founded, GeneKnown, PopulationKnown
<1>4. /\ UNCHANGED <<now, gene, childs, partial, best, measured>>
      /\ pc' \in {"done", "create", "sum"}
  BY DEF Founded
<1>5. ChildsKnown' /\ BestOfAll' /\ GeneKnown'
  BY <1>1, <1>4 DEF IInv, Founded, ChildsKnown, BestOfAll, GeneKnown
<1>6. CASE Timeout(Limit)
  <2>1. pc' = "done" /\ population' = all /\ evolving' = evolving
    BY <1>6, Zenon DEF Founded
  <2>2. TypeOK'
    BY <1>1, <1>4, <2>1, SearchAssumption DEF IInv, TypeOK
  <2>3. PopulationKnown'
    BY <1>3, <1>4, <2>1 DEF PopulationKnown, Measured, Honest, Marked, OutOfTime
  <2>4. Placed'
    BY <1>1, <1>4, <2>1 DEF Placed
  <2> QED
    BY <1>5, <2>2, <2>3, <2>4 DEF IInv
<1>7. CASE ~Timeout(Limit) /\ Len(all) < Population
  <2>1. pc' = "create" /\ population' = all /\ evolving' = evolving
    BY <1>7, Zenon DEF Founded
  <2>2. TypeOK'
    BY <1>1, <1>4, <1>7, <2>1, SearchAssumption DEF IInv, TypeOK
  <2>3. PopulationKnown'
    BY <1>3, <1>4, <1>7, <2>1
       DEF PopulationKnown, Measured, Honest, Marked, OutOfTime, Timeout
  <2>4. Placed'
    BY <1>1, <1>4, <1>7, <2>1 DEF Placed
  <2> QED
    BY <1>5, <2>2, <2>3, <2>4 DEF IInv
<1>8. CASE ~Timeout(Limit) /\ ~(Len(all) < Population)
  <2>1. pc' = "sum" /\ population' \in Sorted(all) /\ evolving' = TRUE
    BY <1>8, Zenon DEF Founded
  <2>2. /\ population' \in Seq(Gene) /\ Len(population') = Len(all)
        /\ \A k \in DOMAIN population' : \E m \in DOMAIN all : population'[k] = all[m]
    BY <1>1, <2>1, SortedFacts
  <2>3. Len(population') = Population
    BY <1>1, <1>8, <2>2, SearchAssumption
  <2>4. TypeOK'
    BY <1>1, <1>4, <2>1, <2>2, <2>3, SearchAssumption DEF IInv, TypeOK
  <2>5. PopulationKnown'
    <3> SUFFICES ASSUME NEW k \in DOMAIN population'
                 PROVE  (Measured(population[k]) \/ Marked(population[k]))'
      BY DEF PopulationKnown
    <3>1. PICK m \in DOMAIN all : population'[k] = all[m]
      BY <2>2
    <3>2. Measured(all[m]) \/ Marked(all[m])
      BY <1>3, <1>8 DEF OutOfTime, Timeout
    <3> QED
      BY <1>4, <3>1, <3>2 DEF Measured, Honest, Marked
  <2>6. Placed'
    BY <1>1, <1>4, <2>1 DEF Placed
  <2> QED
    BY <1>5, <2>4, <2>5, <2>6 DEF IInv
<1> QED
  BY <1>6, <1>7, <1>8

LEMMA AddUpKeeps == ASSUME IInv, AddUp PROVE IInv'
<1>1. TypeOK'
  <2>1. /\ population \in Seq(Gene) /\ partial \in Seq(Int)
        /\ Len(partial) < Len(population)
    BY DEF IInv, TypeOK, AddUp
  <2>2. Total \in Int
    BY <2>1 DEF Total
  <2>3. population[Len(partial) + 1] \in Gene
    BY <2>1
  <2>4. partial' \in Seq(Int)
    BY <2>1, <2>2, <2>3 DEF AddUp, Gene
  <2> QED
    BY <2>4 DEF IInv, TypeOK, AddUp
<1>2. GeneKnown' /\ PopulationKnown' /\ ChildsKnown' /\ Placed' /\ BestOfAll'
  BY DEF IInv, AddUp, GeneKnown, PopulationKnown, ChildsKnown, Measured, Honest, Marked,
         OutOfTime, Placed, BestOfAll
<1> QED
  BY <1>1, <1>2 DEF IInv

LEMMA AddedUpKeeps == ASSUME IInv, AddedUp PROVE IInv'
<1>1. TypeOK'
  BY DEF IInv, TypeOK, AddedUp
<1>2. GeneKnown' /\ PopulationKnown' /\ ChildsKnown' /\ Placed' /\ BestOfAll'
  BY DEF IInv, AddedUp, GeneKnown, PopulationKnown, ChildsKnown, Measured, Honest, Marked,
         OutOfTime, Placed, BestOfAll
<1> QED
  BY <1>1, <1>2 DEF IInv

LEMMA BreedKeeps == ASSUME IInv, Breed PROVE IInv'
<1>0. /\ UNCHANGED <<now, evolving, population, childs, partial, best, measured>>
      /\ pc' \in {"bred", "undefined", "look"} /\ evolving
  BY DEF IInv, Placed, Breed
<1>1. gene' \in Gene
  <2>1. CASE UNCHANGED gene
    BY <2>1 DEF IInv, TypeOK
  <2>2. CASE \E d \in Picks : d \in DOMAIN population /\
               \E p \in Perms, u \in {0, population[d].unfitness} :
                 gene' = [perm |-> p, unfitness |-> u]
    <3>1. PICK d \in Picks : d \in DOMAIN population /\
               \E p \in Perms, u \in {0, population[d].unfitness} :
                 gene' = [perm |-> p, unfitness |-> u]
      BY <2>2
    <3>2. population[d] \in Gene
      BY <3>1 DEF IInv, TypeOK
    <3> QED
      BY <3>1, <3>2 DEF Gene
  <2> QED
    BY <2>1, <2>2, Zenon DEF Breed
<1>2. TypeOK'
  BY <1>0, <1>1 DEF IInv, TypeOK
<1>3. GeneKnown' /\ PopulationKnown' /\ ChildsKnown' /\ BestOfAll'
  BY <1>0 DEF IInv, Breed, GeneKnown, PopulationKnown, ChildsKnown, Measured, Honest,
              Marked, OutOfTime, BestOfAll
<1>4. Placed'
  <2>1. pc' = "bred" => Len(childs) = Children \/ now >= Limit
    BY <1>0 DEF Breed, Timeout
  <2>2. pc' = "look" => Len(childs) # Children
    BY DEF Breed
  <2>3. Len(childs) \in Nat /\ Len(childs) <= Children
    BY DEF IInv, TypeOK
  <2> QED
    BY <1>0, <2>1, <2>2, <2>3, SearchAssumption DEF IInv, Placed
<1> QED
  BY <1>2, <1>3, <1>4 DEF IInv

LEMMA BornKeeps == ASSUME IInv, Born PROVE IInv'
<1>0. /\ UNCHANGED <<now, evolving, gene, population, partial, best, measured>>
      /\ evolving /\ pc' \in {"done", "bred", "breed"}
      /\ Len(childs) < Children /\ Len(childs) \in Nat /\ childs \in Seq(Gene) /\ gene \in Gene
      /\ Measured(gene) \/ Marked(gene) \/ OutOfTime
  BY DEF IInv, TypeOK, Placed, GeneKnown, Born
<1>1. \/ pc' \in {"done", "bred"} /\ childs' = childs
      \/ /\ pc' = "breed" /\ childs' = Append(childs, gene)
         /\ ~(Marks /\ gene.unfitness = -1)
  BY Zenon DEF Born
<1>2. TypeOK'
  <2>1. childs' \in Seq(Gene) /\ Len(childs') <= Children
    BY <1>0, <1>1, SearchAssumption
  <2> QED
    BY <1>0, <2>1 DEF IInv, TypeOK
<1>3. ChildsKnown'
  <2>1. CASE childs' = childs
    BY <2>1, <1>0 DEF IInv, ChildsKnown, Measured, Honest, OutOfTime
  <2>2. CASE childs' = Append(childs, gene) /\ ~(Marks /\ gene.unfitness = -1)
    <3>1. Measured(gene) \/ OutOfTime
      BY <1>0, <2>2 DEF Marked
    <3>2. \A k \in DOMAIN childs' : k \in DOMAIN childs \/ k = Len(childs) + 1
      BY <1>0, <2>2
    <3>3. \A k \in DOMAIN childs' : Measured(childs'[k]) \/ OutOfTime
      BY <1>0, <2>2, <3>1, <3>2 DEF IInv, ChildsKnown
    <3> QED
      BY <1>0, <3>3 DEF ChildsKnown, Measured, Honest, OutOfTime
  <2> QED
    BY <1>1, <2>1, <2>2
<1>4. GeneKnown' /\ PopulationKnown' /\ BestOfAll'
  BY <1>0 DEF IInv, Born, GeneKnown, PopulationKnown, Measured, Honest, Marked, OutOfTime,
              BestOfAll
<1>5. Placed'
  BY <1>0 DEF IInv, Placed, Born, Timeout
<1> QED
  BY <1>2, <1>3, <1>4, <1>5 DEF IInv

LEMMA ReplaceKeeps == ASSUME IInv, Replace PROVE IInv'
<1>0. /\ UNCHANGED <<now, evolving, gene, partial, best, measured>>
      /\ evolving /\ pc' \in {"done", "replaced"} /\ childs \in Seq(Gene)
  BY DEF IInv, TypeOK, Placed, Replace
<1>1. GeneKnown' /\ BestOfAll'
  BY <1>0 DEF IInv, Replace, GeneKnown, BestOfAll
<1>2. CASE Timeout(Limit)
  <2>1. pc' = "done" /\ UNCHANGED <<population, childs>>
    BY <1>2, Zenon DEF Replace
  <2> QED
    BY <1>0, <1>1, <2>1 DEF IInv, TypeOK, PopulationKnown, ChildsKnown, Measured, Honest,
       Marked, OutOfTime, Placed
<1>3. CASE ~Timeout(Limit)
  <2>1. pc' = "replaced" /\ childs' = <<>>
    BY <1>3, Zenon DEF Replace
  <2>2. PICK s \in Sorted(childs) : population' \in Resize(s)
    BY <1>3, Zenon DEF Replace
  <2>3. /\ s \in Seq(Gene) /\ Len(s) = Len(childs)
        /\ \A k \in DOMAIN s : \E m \in DOMAIN childs : s[k] = childs[m]
    BY <1>0, <2>2, SortedFacts
  <2>4. Len(childs) = Children
    BY <1>3 DEF IInv, Placed, Replace, Timeout
  <2>5. \A k \in 1 .. Population : k \in DOMAIN s /\ k <= Len(s)
    BY <2>3, <2>4, EnoughChildren, SearchAssumption
  <2>r. population' = [k \in 1 .. Population |-> s[k]]
    BY <2>2, <2>5 DEF Resize
  <2>6. population' \in [1 .. Population -> Gene]
    BY <2>3, <2>5, <2>r
  <2>7. /\ population' \in Seq(Gene) /\ Len(population') = Population
        /\ DOMAIN population' = 1 .. Population
    BY <2>6, SearchAssumption
  <2>8. \A k \in DOMAIN population' : Measured(population'[k])
    BY <1>3, <2>r, <2>3, <2>5, <2>7 DEF IInv, ChildsKnown, OutOfTime, Timeout
  <2>9. TypeOK'
    BY <1>0, <2>1, <2>7, SearchAssumption DEF IInv, TypeOK
  <2>10. PopulationKnown'
    BY <2>8 DEF PopulationKnown, Measured, Honest
  <2>11. ChildsKnown' /\ Placed'
    BY <1>0, <2>1 DEF ChildsKnown, Placed
  <2> QED
    BY <1>1, <2>9, <2>10, <2>11 DEF IInv
<1> QED
  BY <1>2, <1>3

LEMMA AgainKeeps == ASSUME IInv, Again PROVE IInv'
<1>0. /\ UNCHANGED <<now, evolving, gene, population, childs, best, measured>>
      /\ pc' \in {"done", "sum"} /\ partial' \in {partial, <<>>} /\ evolving /\ childs = <<>>
  BY DEF IInv, Placed, Again
<1>1. TypeOK'
  <2>1. <<>> \in Seq(Int) /\ partial \in Seq(Int)
    BY DEF IInv, TypeOK
  <2>2. partial' \in Seq(Int)
    BY <1>0, <2>1, Zenon
  <2> QED
    BY <1>0, <2>2 DEF IInv, TypeOK
<1>2. GeneKnown' /\ PopulationKnown' /\ ChildsKnown' /\ Placed' /\ BestOfAll'
  BY <1>0 DEF IInv, Again, GeneKnown, PopulationKnown, ChildsKnown, Measured, Honest,
              Marked, OutOfTime, Placed, BestOfAll
<1> QED
  BY <1>1, <1>2 DEF IInv

LEMMA StoppedKeeps == ASSUME IInv, UNCHANGED vars PROVE IInv'
BY DEF IInv, TypeOK, GeneKnown, PopulationKnown, ChildsKnown, Placed, BestOfAll, Measured,
       Honest, Marked, OutOfTime, vars

LEMMA NextIInv == ASSUME IInv, [Next]_vars PROVE IInv'
<1>1. CASE Tick
  BY <1>1, TickKeeps
<1>2. CASE Baseline
  BY <1>2, BaselineKeeps
<1>3. CASE Create
  BY <1>3, CreateKeeps
<1>4. CASE Look
  BY <1>4, LookKeeps
<1>5. CASE Measure
  BY <1>5, MeasureKeeps
<1>6. CASE Founded
  BY <1>6, FoundedKeeps
<1>7. CASE AddUp
  BY <1>7, AddUpKeeps
<1>8. CASE AddedUp
  BY <1>8, AddedUpKeeps
<1>9. CASE Breed
  BY <1>9, BreedKeeps
<1>10. CASE Born
  BY <1>10, BornKeeps
<1>11. CASE Replace
  BY <1>11, ReplaceKeeps
<1>12. CASE Again
  BY <1>12, AgainKeeps
<1>13. CASE UNCHANGED vars
  BY <1>13, StoppedKeeps
<1> QED
  BY <1>1, <1>2, <1>3, <1>4, <1>5, <1>6, <1>7, <1>8, <1>9, <1>10, <1>11, <1>12, <1>13
     DEF Next, Search, Stopped

-----------------------------------------------------------------------------
(* The part that needs the first gene to be looked at in time.              *)

LEMMA InitDInv == Init => DInv
<1> SUFFICES ASSUME Init PROVE DInv
  OBVIOUS
<1>1. FirstMeasured
  BY SearchAssumption DEF Init, FirstMeasured
<1>2. SumsKnown
  <2>1. partial = <<>> /\ pc = "baseline"
    BY DEF Init
  <2>2. Len(<<>>) = 0
    OBVIOUS
  <2> QED
    BY <2>1, <2>2 DEF SumsKnown, Total, Breeding
<1> QED
  BY <1>1, <1>2 DEF Init, DInv, DrawsInRange

(* Steps that leave population and sums alone. *)
LEMMA FirstStays ==
  ASSUME IInv, FirstMeasured, FirstInTime,
         Tick \/ Baseline \/ Create \/ Look \/ Measure \/ AddUp \/ AddedUp \/ Breed \/ Born
              \/ Again
  PROVE  FirstMeasured'
<1>1. population' = population /\ now' \in Nat /\ now \in Nat
  BY SearchAssumption
     DEF IInv, TypeOK, Tick, Baseline, Create, Look, Measure, AddUp, AddedUp, Breed, Born, Again
<1>2. (FirstGene => now <= FirstLook)'
  BY SearchAssumption
     DEF IInv, TypeOK, Placed, FirstMeasured, FirstGene, Tick, Baseline, Create, Look, Measure,
         AddUp, AddedUp, Breed, Born, Again
<1>3. ((pc = "looked" /\ ~evolving /\ population = <<>>) => Measured(gene) \/ OutOfTime)'
  <2>1. CASE Look
    BY <2>1, SearchAssumption, UnmarkedLimit
       DEF IInv, TypeOK, FirstMeasured, FirstInTime, FirstGene, Look, Timeout, Measured, OutOfTime
  <2>2. CASE Measure
    BY <2>2 DEF Measure, Measured, Honest, IInv, TypeOK, Gene
  <2>3. CASE Tick
    BY <2>3, SearchAssumption
       DEF IInv, TypeOK, FirstMeasured, Tick, Measured, Honest, OutOfTime
  <2>4. CASE Baseline \/ Create \/ AddUp \/ AddedUp \/ Breed \/ Born \/ Again
    BY <2>4 DEF Baseline, Create, AddUp, AddedUp, Breed, Born, Again
  <2> QED
    BY <2>1, <2>2, <2>3, <2>4
<1>4. (population # <<>> =>
        (\E k \in DOMAIN population : Measured(population[k])) \/ pc = "done")'
  <2>1. pc = "done" => pc' = "done"
    BY DEF Tick, Baseline, Create, Look, Measure, AddUp, AddedUp, Breed, Born, Again
  <2> QED
    BY <1>1, <2>1 DEF FirstMeasured, Measured, Honest
<1> QED
  BY <1>2, <1>3, <1>4 DEF FirstMeasured

LEMMA SumsStay ==
  ASSUME IInv, SumsKnown,
         Tick \/ Baseline \/ Create \/ Look \/ Measure \/ AddedUp \/ Breed \/ Born \/ Replace
  PROVE  SumsKnown'
<1>1. partial' = partial /\ Total' = Total
  BY DEF Tick, Baseline, Create, Look, Measure, AddedUp, Breed, Born, Replace, Total
<1>2. Breeding' => Breeding /\ population' = population
  BY DEF IInv, Placed, Tick, Baseline, Create, Look, Measure, AddedUp, Breed, Born, Replace,
         Breeding
<1>3. Breeding' /\ pc' # "sum" => pc # "sum" \/ Len(partial) = Len(population)
  BY DEF Tick, Baseline, Create, Look, Measure, AddedUp, Breed, Born, Replace, Breeding
<1>4. Breeding => Len(population) = Population
  BY DEF IInv, TypeOK, Placed, Breeding
<1> QED
  BY <1>1, <1>2, <1>3, <1>4 DEF SumsKnown, Measured, Honest

LEMMA FoundedKeepsDInv ==
  ASSUME IInv, FirstMeasured, SumsKnown, FirstInTime, Founded
  PROVE  FirstMeasured' /\ SumsKnown'
<1> DEFINE all == Append(population, gene)
<1>1. /\ all \in Seq(Gene) /\ Len(all) = Len(population) + 1 /\ all # <<>>
      /\ population \in Seq(Gene) /\ Len(population) \in Nat
      /\ ~evolving /\ partial = <<>>
      /\ \A k \in DOMAIN population : k \in DOMAIN all /\ all[k] = population[k]
      /\ Len(all) \in DOMAIN all /\ all[Len(all)] = gene
  BY DEF IInv, TypeOK, Placed, Founded
<1>2. /\ UNCHANGED <<now, gene, childs, partial, best, measured>>
      /\ pc = "looked" /\ pc' \in {"done", "create", "sum"}
  BY DEF Founded
<1>3. \/ pc' = "done" /\ population' = all
      \/ ~Timeout(Limit) /\ pc' = "create" /\ population' = all
      \/ ~Timeout(Limit) /\ pc' = "sum" /\ evolving' = TRUE /\ population' \in Sorted(all)
  BY Zenon DEF Founded
<1>4. ~Timeout(Limit) => \E k \in DOMAIN all : Measured(all[k])
  <2>1. CASE population = <<>>
    BY <1>1, <1>2, <2>1 DEF FirstMeasured, OutOfTime, Timeout
  <2>2. CASE population # <<>>
    BY <1>1, <1>2, <2>2 DEF FirstMeasured
  <2> QED
    BY <2>1, <2>2
<1>5. population' \in Sorted(all) =>
        /\ population' # <<>>
        /\ \A m \in DOMAIN all : \E k \in DOMAIN population' : population'[k] = all[m]
  <2> SUFFICES ASSUME NEW t \in Sorted(all)
               PROVE  /\ t # <<>>
                      /\ \A m \in DOMAIN all : \E k \in DOMAIN t : t[k] = all[m]
    BY Zenon
  <2>1. /\ t \in Seq(Gene) /\ Len(t) = Len(all)
        /\ \A m \in DOMAIN all : \E k \in DOMAIN t : t[k] = all[m]
    BY <1>1, SortedFacts
  <2> QED
    BY <1>1, <2>1
<1>6. population' # <<>>
  BY <1>1, <1>3, <1>5
<1>7. (\E k \in DOMAIN population' : Measured(population'[k])) \/ pc' = "done"
  BY <1>3, <1>4, <1>5
<1>8. FirstMeasured'
  BY <1>2, <1>6, <1>7 DEF FirstMeasured, FirstGene, Measured, Honest
<1>9. SumsKnown'
  <2>1. Len(<<>>) = 0 /\ Population >= 0
    BY SearchAssumption
  <2> QED
    BY <1>1, <1>2, <2>1 DEF SumsKnown, Total, Breeding
<1> QED
  BY <1>8, <1>9

LEMMA AddUpKeepsSums ==
  ASSUME IInv, SumsKnown, AddUp
  PROVE  SumsKnown'
<1> DEFINE m == Len(partial)
           u == population[m + 1].unfitness
<1>1. /\ partial \in Seq(Int) /\ m \in Nat /\ population \in Seq(Gene)
      /\ Len(population) = Population /\ m < Population /\ Population \in Nat
      /\ pc = "sum" /\ pc' = "sum" /\ population' = population /\ evolving' = evolving
  BY SearchAssumption DEF IInv, TypeOK, Placed, AddUp
<1>2. Total \in Int
  BY <1>1 DEF Total
<1>3. population[m + 1] \in Gene /\ u \in Int /\ u >= -1
  <2>1. population[m + 1] \in Gene
    BY <1>1
  <2> QED
    BY <2>1 DEF Gene
<1>4. Measured(population[m + 1]) => u >= Population
  <2>1. population[m + 1].perm \in Perms
    BY <1>3 DEF Gene
  <2> QED
    BY <2>1, SearchAssumption DEF Measured, Honest
<1>5. partial' = Append(partial, Total + u)
  BY DEF AddUp
<1>6. /\ Len(partial') = m + 1 /\ partial' # <<>> /\ partial'[m + 1] = Total + u
  BY <1>1, <1>2, <1>3, <1>5
<1>7. Total' = Total + u
  BY <1>6 DEF Total
<1>8. /\ Total >= 0 - m
      /\ (\E k \in 1 .. m : Measured(population[k])) => Total >= Population + 1 - m
  BY <1>1 DEF SumsKnown, Breeding
<1>9. Total' >= 0 - (m + 1)
  BY <1>1, <1>2, <1>3, <1>7, <1>8
<1>10. (\E k \in 1 .. (m + 1) : Measured(population[k])) => Total' >= Population + 1 - (m + 1)
  <2> SUFFICES ASSUME NEW k \in 1 .. (m + 1), Measured(population[k])
               PROVE  Total' >= Population + 1 - (m + 1)
    OBVIOUS
  <2>1. CASE k \in 1 .. m
    <3>1. Total >= Population + 1 - m
      BY <1>8, <2>1
    <3> QED
      BY <1>1, <1>2, <1>3, <1>7, <3>1
  <2>2. CASE k = m + 1
    <3>1. u >= Population
      BY <1>4, <2>2
    <3> QED
      BY <1>1, <1>2, <1>3, <1>7, <1>8, <3>1
  <2> QED
    BY <1>1, <2>1, <2>2
<1> QED
  BY <1>1, <1>6, <1>9, <1>10 DEF SumsKnown, Breeding, Measured, Honest

LEMMA AgainKeepsSums == ASSUME IInv, SumsKnown, Again PROVE SumsKnown'
<1>1. \/ pc' = "done" /\ partial' = partial
      \/ pc' = "sum" /\ partial' = <<>>
  BY Zenon DEF Again
<1>2. Population \in Nat /\ Len(<<>>) = 0
  BY SearchAssumption
<1>3. CASE pc' = "done" /\ partial' = partial
  BY <1>3 DEF SumsKnown, Breeding, Total
<1>4. CASE pc' = "sum" /\ partial' = <<>>
  BY <1>2, <1>4 DEF SumsKnown, Breeding, Total
<1> QED
  BY <1>1, <1>3, <1>4

(* All genes of a new generation are measured. *)
LEMMA ReplaceKeepsFirst == ASSUME IInv, FirstMeasured, Replace PROVE FirstMeasured'
<1>0. evolving /\ evolving' = evolving /\ pc' \in {"done", "replaced"} /\ childs \in Seq(Gene)
  BY DEF IInv, TypeOK, Placed, Replace
<1>1. CASE Timeout(Limit)
  <2>1. pc' = "done"
    BY <1>1, Zenon DEF Replace
  <2> QED
    BY <1>0, <2>1 DEF FirstMeasured, FirstGene
<1>2. CASE ~Timeout(Limit)
  <2>1. PICK s \in Sorted(childs) : population' \in Resize(s)
    BY <1>2, Zenon DEF Replace
  <2>2. /\ s \in Seq(Gene) /\ Len(s) = Len(childs)
        /\ \A k \in DOMAIN s : \E m \in DOMAIN childs : s[k] = childs[m]
    BY <1>0, <2>1, SortedFacts
  <2>3. Len(childs) = Children
    BY <1>2 DEF IInv, Placed, Replace, Timeout
  <2>4. 1 \in DOMAIN s /\ 1 \in DOMAIN population' /\ population'[1] = s[1]
    BY <2>1, <2>2, <2>3, EnoughChildren, SearchAssumption DEF Resize
  <2>5. Measured(population'[1])
    BY <1>2, <2>2, <2>4 DEF IInv, ChildsKnown, OutOfTime, Timeout
  <2> QED
    BY <1>0, <2>4, <2>5 DEF FirstMeasured, FirstGene, Measured, Honest
<1> QED
  BY <1>1, <1>2

(* A draw stays in the population. *)
LEMMA BreedInRange ==
  ASSUME IInv, FirstMeasured, SumsKnown, Breed
  PROVE  pc' # "undefined"
<1>1. /\ Breeding /\ pc = "breed" /\ evolving /\ population \in Seq(Gene)
      /\ Len(population) = Population /\ Population \in Nat /\ Population >= 1
      /\ partial \in Seq(Int) /\ Len(partial) = Population
  BY SearchAssumption DEF IInv, TypeOK, Placed, SumsKnown, Breeding, Breed
<1>2. population # <<>> /\ DOMAIN population = 1 .. Population
  BY <1>1
<1>3. \E k \in DOMAIN population : Measured(population[k])
  BY <1>1, <1>2 DEF FirstMeasured
<1>4. Total >= 1 /\ Total \in Int
  <2>1. Total >= Population + 1 - Len(partial)
    BY <1>1, <1>2, <1>3 DEF SumsKnown
  <2>2. Total \in Int
    BY <1>1 DEF Total
  <2> QED
    BY <1>1, <2>1, <2>2
<1>5. \A rnd \in Draws : rnd \in Int /\ rnd < Total
  BY <1>4 DEF Draws
<1>6. Picks \subseteq DOMAIN population
  <2> SUFFICES ASSUME NEW rnd \in Draws PROVE Found(rnd) \in DOMAIN population
    BY DEF Picks
  <2>1. Len(partial) > 0
    BY <1>1
  <2>2. Found(rnd) \in 1 .. Len(partial)
    BY <1>1, <1>5, <2>1, FoundInRange
  <2> QED
    BY <1>1, <1>2, <2>2
<1>7. \A d, e \in Picks : {d, e} \cap DOMAIN population = {d, e}
  BY <1>6
<1>8. Total # 0
  BY <1>4
<1>9. \/ pc' = "bred"
      \/ pc' = "look"
      \/ \E d, e \in Picks : (Total = 0 \/ {d, e} \cap DOMAIN population # {d, e})
  BY Zenon DEF Breed
<1> QED
  BY <1>7, <1>8, <1>9

LEMMA NextDInv == ASSUME IInv, DInv, FirstInTime, [Next]_vars PROVE DInv'
<1>0. FirstMeasured /\ SumsKnown /\ pc # "undefined"
  BY DEF DInv, DrawsInRange
<1>1. CASE Tick \/ Baseline \/ Create \/ Look \/ Measure \/ AddedUp \/ Born
  <2>1. FirstMeasured' /\ SumsKnown'
    BY <1>0, <1>1, FirstStays, SumsStay
  <2>2. pc' # "undefined"
    BY <1>0, <1>1 DEF Tick, Baseline, Create, Look, Measure, AddedUp, Born
  <2> QED
    BY <2>1, <2>2 DEF DInv, DrawsInRange
<1>2. CASE Breed
  BY <1>0, <1>2, FirstStays, SumsStay, BreedInRange DEF DInv, DrawsInRange
<1>3. CASE Founded
  BY <1>0, <1>3, FoundedKeepsDInv DEF DInv, DrawsInRange, Founded
<1>4. CASE AddUp
  BY <1>0, <1>4, FirstStays, AddUpKeepsSums DEF DInv, DrawsInRange, AddUp
<1>5. CASE Again
  BY <1>0, <1>5, FirstStays, AgainKeepsSums DEF DInv, DrawsInRange, Again
<1>6. CASE Replace
  BY <1>0, <1>6, ReplaceKeepsFirst, SumsStay DEF DInv, DrawsInRange, Replace
<1>7. CASE UNCHANGED vars
  BY <1>7 DEF DInv, DrawsInRange, FirstMeasured, FirstGene, SumsKnown, Breeding, Total,
              Measured, Honest, OutOfTime, vars
<1> QED
  BY <1>1, <1>2, <1>3, <1>4, <1>5, <1>6, <1>7 DEF Next, Search, Stopped

-----------------------------------------------------------------------------
(* Theorems.                                                                *)

LEMMA Invariance == Spec => []IInv
BY InitIInv, NextIInv, PTL DEF Spec

(* compress keeps its variables typed and the population at its size. *)
THEOREM TypeCorrect == Spec => []TypeOK
BY Invariance, PTL DEF IInv

(* The block compress holds is the shortest it compressed so far. *)
THEOREM KeepsBest == Spec => []BestOfAll
BY Invariance, PTL DEF IInv

(* Parents are drawn by unfitness values that were measured or marked: no   *)
(* gene evalGene left alone is in a population that is drawn from.          *)
THEOREM DrawnByMeasure == Spec => []BredByMeasure
<1>1. IInv => BredByMeasure
  BY DEF IInv, PopulationKnown, Breeding, BredByMeasure, Measured, Marked
<1> QED
  BY <1>1, Invariance, PTL

(* If the marking programs look at their first gene before 1800 ms, no draw *)
(* of get_random_by_unfittness leaves the population.                       *)
THEOREM DrawsStay == ASSUME FirstInTime PROVE Spec => []DrawsInRange
<1>1. IInv /\ DInv /\ [Next]_vars => DInv'
  BY NextDInv
<1>2. DInv => DrawsInRange
  BY DEF DInv
<1> QED
  BY <1>1, <1>2, Invariance, InitDInv, PTL DEF Spec

-----------------------------------------------------------------------------
(* The genes.                                                               *)

(* Where b has the number that a has at x. *)
Follows(x, y) == b[y] = a[x]

GivenByA == {a[x] : x \in Kept}

(* The numbers that need another place: no chain comes from them.           *)
Starts == {k \in Kept : b[k] \notin GivenByA}

Parents ==
  /\ n \in Nat \ {0} /\ a \in Permutations(Pos) /\ b \in Permutations(Pos)
  /\ op \in {"new", "copy", "PMX", "OX1"}
  /\ l \in Pos /\ r \in Pos /\ l <= r

(* The numbers placed so far are different, a's part is in its place.       *)
PlacedOnce ==
  /\ \A x, y \in Pos : perm[x] # Empty /\ perm[x] = perm[y] => x = y
  /\ \A x \in Kept : perm[x] = a[x]

(* The chains D that were walked: they hold the first places before i, are  *)
(* closed within the kept part, and end where a number was put.             *)
Walked(D) ==
  /\ D \subseteq Kept
  /\ \A k \in Starts : k \in D <=> k < i
  /\ \A x, y \in Kept : Follows(x, y) => (x \in D <=> y \in D)
  /\ \A y \in Pos \ Kept : perm[y] # Empty <=> \E x \in D : Follows(x, y)
  /\ \A x \in Kept \ D : Follows(x, to[x])

Chosen ==
  /\ i \in l .. r + 1
  /\ \A v \in Pos : v \in used <=> v \in GivenByA \/ \E k \in Starts : k < i /\ v = b[k]
  /\ \A y \in Pos \ Kept : perm[y] # Empty => \E k \in Starts : k < i /\ perm[y] = b[k]

(* The walk from i: path is its chain up to j, and not part of D.           *)
OnTheWay(D) ==
  /\ i \in Starts /\ j \in Pos
  /\ path \subseteq Kept /\ path \cap D = {}
  /\ \/ path = {} /\ j = i
     \/ i \in path /\ \E x \in path : Follows(x, j)
  /\ \A y \in path : y = i \/ \E x \in path : Follows(x, y)
  /\ \A x \in path, y \in Pos : Follows(x, y) => y \in path \/ y = j

PMXInv ==
  at \in {"place", "walk"} =>
    /\ op = "PMX" /\ PlacedOnce /\ Chosen
    /\ \E D : Walked(D) /\ (at = "walk" => OnTheWay(D))

(* OX1 fills from the left, around the kept part. *)
OX1Inv ==
  at = "order" =>
    /\ op = "OX1" /\ PlacedOnce /\ used = GivenByA /\ (j <= l \/ j > r)
    /\ \A x \in Pos : perm[x] # Empty <=> x \in Kept \/ x < j
    /\ \A x \in Pos \ Kept : perm[x] # Empty =>
         \E k \in Pos : k < i /\ b[k] \notin used /\ perm[x] = b[k]
    /\ \A k \in Pos : k < i /\ b[k] \notin used => \E x \in Pos : perm[x] = b[k]

Complete == at \in {"draw", "mutate", "done"} => perm \in Permutations(Pos)

Begun ==
  at = "start" => perm = [x \in Pos |-> Empty]

MakeInv == Parents /\ IndicesOK /\ PMXInv /\ OX1Inv /\ Complete /\ Begun
-----------------------------------------------------------------------------
(* Permutations.                                                            *)

(* A function from a finite set to itself that repeats nothing leaves       *)
(* nothing out.                                                             *)
LEMMA SelfInjection ==
  ASSUME NEW U, IsFiniteSet(U), NEW f \in [U -> U],
         \A x, y \in U : f[x] = f[y] => x = y
  PROVE  \A v \in U : \E x \in U : f[x] = v
<1>1. f \in Injection(U, U)
  BY Fun_IsInj
<1>2. f \in Surjection(U, U)
  BY <1>1, FS_Injection
<1> QED
  BY <1>2, Fun_SurjectionProperties

LEMMA PosFinite == ASSUME n \in Nat PROVE IsFiniteSet(Pos)
BY FS_Interval DEF Pos

LEMMA PermFacts ==
  ASSUME n \in Nat, NEW p \in Permutations(Pos)
  PROVE  /\ p \in [Pos -> Pos]
         /\ \A x, y \in Pos : p[x] = p[y] => x = y
         /\ \A v \in Pos : \E x \in Pos : p[x] = v
<1>1. p \in [Pos -> Pos] /\ \A x, y \in Pos : p[x] = p[y] => x = y
  BY DEF Permutations
<1> QED
  BY <1>1, PosFinite, SelfInjection

(* What the steps need of the parents. *)
LEMMA ParentFacts ==
  ASSUME Parents
  PROVE  /\ n \in Nat \ {0} /\ l \in Nat /\ r \in Nat /\ l <= r /\ r < n
         /\ Kept \subseteq Pos /\ Pos \subseteq Nat /\ Empty \notin Pos
         /\ a \in [Pos -> Pos] /\ b \in [Pos -> Pos]
         /\ \A x, y \in Pos : a[x] = a[y] => x = y
         /\ \A x, y \in Pos : b[x] = b[y] => x = y
         /\ \A v \in Pos : \E x \in Pos : a[x] = v
         /\ \A v \in Pos : \E x \in Pos : b[x] = v
<1>1. n \in Nat \ {0} /\ l \in Nat /\ r \in Nat /\ l <= r /\ r < n
  BY DEF Parents, Pos
<1>2. Kept \subseteq Pos /\ Pos \subseteq Nat /\ Empty \notin Pos
  BY <1>1 DEF Kept, Pos, Empty
<1>3. a \in Permutations(Pos) /\ b \in Permutations(Pos)
  BY DEF Parents
<1> QED
  BY <1>1, <1>2, <1>3, PermFacts

(* The parents do not change. *)
LEMMA ParentsStay == ASSUME Parents, UNCHANGED parents PROVE Parents'
BY DEF Parents, parents, Pos, Permutations

-----------------------------------------------------------------------------
(* Beginning.                                                               *)

LEMMA InitMakes == ASSUME MakeInit PROVE MakeInv
<1>1. n \in Nat \ {0}
  BY CrossoverAssumption DEF MakeInit
<1>2. Parents
  BY <1>1 DEF MakeInit, Parents
<1>3. IndicesOK
  BY <1>1, CrossoverAssumption DEF MakeInit, IndicesOK
<1> QED
  BY <1>2, <1>3 DEF MakeInit, MakeInv, PMXInv, OX1Inv, Complete, Begun

LEMMA StartPlainKeeps == ASSUME MakeInv, StartPlain PROVE MakeInv'
<1>1. Parents /\ IndicesOK /\ UNCHANGED parents
  BY DEF MakeInv, StartPlain
<1>2. Parents'
  BY <1>1, ParentsStay
<1>3. perm' \in Permutations(Pos) /\ Pos' = Pos
  BY <1>1 DEF StartPlain, Parents, Permutations, Pos, parents
<1>4. IndicesOK'
  BY <1>1, <1>3 DEF StartPlain, IndicesOK, Permutations, Pos, parents
<1>5. PMXInv' /\ OX1Inv' /\ Complete' /\ Begun'
  BY <1>3 DEF StartPlain, PMXInv, OX1Inv, Complete, Begun, Permutations
<1> QED
  BY <1>2, <1>4, <1>5 DEF MakeInv

(* The kept part is in its place, and nothing else. *)
LEMMA StartPlaced ==
  ASSUME Parents, StartCross
  PROVE  /\ PlacedOnce' /\ used' = GivenByA /\ used' \subseteq Pos
         /\ perm' \in [Pos -> Pos \union {Empty}]
         /\ \A x \in Pos : perm'[x] # Empty <=> x \in Kept
         /\ to' \in [Pos -> Pos] /\ \A x \in Pos : Follows(x, to'[x])
         /\ UNCHANGED <<Pos, Kept, GivenByA, Starts>>
<1>1. /\ perm' = [x \in Pos |-> IF x \in Kept THEN a[x] ELSE Empty]
      /\ used' = GivenByA /\ UNCHANGED parents
      /\ to' = [x \in Pos |-> CHOOSE y \in Pos : b[y] = a[x]]
  BY DEF StartCross, GivenByA
<1>2. UNCHANGED <<Pos, Kept, GivenByA, Starts>> /\ a' = a
  BY <1>1 DEF parents, Pos, Kept, GivenByA, Starts
<1>3. \A x \in Pos : a[x] \in Pos /\ a[x] # Empty
  <2>1. a \in [Pos -> Pos] /\ Empty \notin Pos
    BY ParentFacts
  <2> QED
    BY <2>1
<1>4. perm' \in [Pos -> Pos \union {Empty}]
  BY <1>1, <1>3
<1>5. \A x \in Pos : perm'[x] # Empty <=> x \in Kept
  BY <1>1, <1>3
<1>6. \A x \in Kept : x \in Pos /\ perm'[x] = a[x]
  BY <1>1, ParentFacts
<1>7. \A x, y \in Pos : perm'[x] # Empty /\ perm'[x] = perm'[y] => x = y
  BY <1>5, <1>6, ParentFacts
<1>8. PlacedOnce'
  BY <1>2, <1>6, <1>7 DEF PlacedOnce, Empty
<1>9. to' \in [Pos -> Pos] /\ \A x \in Pos : b[to'[x]] = a[x]
  <2>1. \A x \in Pos : \E y \in Pos : b[y] = a[x]
    BY <1>3, ParentFacts
  <2> QED
    BY <1>1, <2>1
<1>10. used' \subseteq Pos
  BY <1>1, <1>3, ParentFacts DEF GivenByA
<1> QED
  BY <1>1, <1>2, <1>4, <1>5, <1>8, <1>9, <1>10 DEF Follows

LEMMA StartCrossKeeps == ASSUME MakeInv, StartCross PROVE MakeInv'
<1>1. Parents /\ IndicesOK /\ UNCHANGED parents /\ at' \in {"place", "order"}
  BY DEF MakeInv, StartCross
<1>2. Parents'
  BY <1>1, ParentsStay
<1>3. /\ PlacedOnce' /\ used' = GivenByA /\ used' \subseteq Pos
      /\ perm' \in [Pos -> Pos \union {Empty}]
      /\ \A x \in Pos : perm'[x] # Empty <=> x \in Kept
      /\ to' \in [Pos -> Pos] /\ \A x \in Pos : Follows(x, to'[x])
      /\ UNCHANGED <<Pos, Kept, GivenByA, Starts>>
  BY <1>1, StartPlaced
<1>4. n' = n /\ a' = a /\ b' = b /\ l' = l /\ r' = r /\ op' = op
  BY <1>1 DEF parents
<1>5. /\ i' = (IF op = "PMX" THEN l ELSE 0) /\ j' = 0
      /\ at' = (IF op = "PMX" THEN "place" ELSE "order")
      /\ op \in {"PMX", "OX1"} /\ UNCHANGED <<path, swaps>>
  BY DEF StartCross
<1>6. /\ n \in Nat \ {0} /\ l \in Nat /\ r \in Nat /\ l <= r /\ r < n
      /\ Kept \subseteq Pos /\ Pos \subseteq Nat
  BY <1>1, ParentFacts
<1>7. IndicesOK'
  BY <1>1, <1>3, <1>4, <1>5, <1>6 DEF IndicesOK
<1>8. ASSUME at' = "place" PROVE Chosen' /\ Walked({})'
  <2>1. op = "PMX" /\ i' = l
    BY <1>5, <1>8
  <2>2. \A k \in Starts : ~(k < l) /\ k \in Kept
    BY <1>6 DEF Starts, Kept
  <2>3. Chosen'
    BY <1>3, <1>4, <1>6, <2>1, <2>2 DEF Chosen
  <2>4. Walked({})'
    BY <1>3, <1>4, <1>6, <2>1, <2>2 DEF Walked, Follows
  <2> QED
    BY <2>3, <2>4
<1>9. PMXInv'
  BY <1>3, <1>4, <1>5, <1>8 DEF PMXInv
<1>10. OX1Inv'
  <2>1. at' = "order" => op' = "OX1" /\ i' = 0 /\ j' = 0
    BY <1>4, <1>5
  <2>2. \A x \in Pos : ~(x < 0)
    BY <1>6
  <2> QED
    BY <1>3, <1>4, <1>6, <2>1, <2>2 DEF OX1Inv
<1> QED
  BY <1>1, <1>2, <1>7, <1>9, <1>10 DEF MakeInv, Complete, Begun

-----------------------------------------------------------------------------
(* PMX.                                                                     *)

(* Where the chains are walked; parameters that do not change stay as they  *)
(* are in a step that leaves the parents alone.                             *)
LEMMA SameParents ==
  ASSUME UNCHANGED parents
  PROVE  /\ n' = n /\ a' = a /\ b' = b /\ op' = op /\ l' = l /\ r' = r
         /\ Pos' = Pos /\ Kept' = Kept /\ GivenByA' = GivenByA /\ Starts' = Starts
<1>1. n' = n /\ a' = a /\ b' = b /\ op' = op /\ l' = l /\ r' = r
  BY DEF parents
<1>2. Pos' = Pos /\ Kept' = Kept
  BY <1>1 DEF Pos, Kept
<1>3. GivenByA' = GivenByA
  BY <1>1, <1>2 DEF GivenByA
<1>4. Starts' = Starts
  BY <1>1, <1>2, <1>3 DEF Starts
<1> QED
  BY <1>1, <1>2, <1>3, <1>4

(* A number that is placed already is no first number of a chain.           *)
LEMMA UsedNoStart ==
  ASSUME Parents, Chosen, i \in Pos
  PROVE  b[i] \in used => i \notin Starts
<1> SUFFICES ASSUME b[i] \in used, i \in Starts PROVE FALSE
  OBVIOUS
<1>1. /\ Kept \subseteq Pos /\ Pos \subseteq Nat /\ b \in [Pos -> Pos]
      /\ \A x, y \in Pos : b[x] = b[y] => x = y
  BY ParentFacts
<1>2. b[i] \in Pos /\ b[i] \notin GivenByA
  BY <1>1 DEF Starts
<1>3. PICK k \in Starts : k < i /\ b[i] = b[k]
  BY <1>2 DEF Chosen
<1>4. k = i
  BY <1>1, <1>3 DEF Starts
<1> QED
  BY <1>1, <1>3, <1>4

LEMMA PlaceKeeps == ASSUME MakeInv, Place PROVE MakeInv'
<1>1. /\ Parents /\ IndicesOK /\ UNCHANGED parents /\ op = "PMX"
      /\ PlacedOnce /\ Chosen /\ at = "place" /\ i <= r
      /\ UNCHANGED <<perm, used, to, swaps>>
  BY DEF MakeInv, Place, PMXInv
<1>2. PICK D : Walked(D)
  BY DEF MakeInv, Place, PMXInv
<1>3. /\ n' = n /\ a' = a /\ b' = b /\ op' = op /\ l' = l /\ r' = r
      /\ Pos' = Pos /\ Kept' = Kept /\ GivenByA' = GivenByA /\ Starts' = Starts
  BY <1>1, SameParents
<1>4. /\ n \in Nat \ {0} /\ l \in Nat /\ r \in Nat /\ l <= r /\ r < n
      /\ Kept \subseteq Pos /\ Pos \subseteq Nat
  BY <1>1, ParentFacts
<1>5. i \in Kept /\ i \in Pos
  BY <1>1, <1>4 DEF Chosen, Kept
<1>6. Parents' /\ PlacedOnce'
  BY <1>1, <1>3, ParentsStay DEF PlacedOnce
<1>7. CASE b[i] \in used
  <2>1. i' = i + 1 /\ UNCHANGED <<at, j, path>>
    BY <1>7 DEF Place
  <2>2. i \notin Starts
    BY <1>1, <1>5, <1>7, UsedNoStart
  <2>3. \A k \in Starts : k < i + 1 <=> k < i
    BY <1>4, <1>5, <2>2 DEF Starts
  <2>4. IndicesOK'
    BY <1>1, <1>3, <1>4, <1>5, <2>1 DEF IndicesOK
  <2>5. Chosen'
    BY <1>1, <1>3, <1>4, <1>5, <2>1, <2>3 DEF Chosen, Kept
  <2>6. Walked(D)'
    BY <1>1, <1>2, <1>3, <2>1, <2>3 DEF Walked, Follows
  <2>7. PMXInv'
    BY <1>1, <1>3, <1>6, <2>1, <2>5, <2>6 DEF PMXInv
  <2> QED
    BY <1>1, <1>6, <2>1, <2>4, <2>7 DEF MakeInv, OX1Inv, Complete, Begun
<1>8. CASE b[i] \notin used
  <2>1. j' = i /\ path' = {} /\ at' = "walk" /\ i' = i
    BY <1>8 DEF Place
  <2>2. i \in Starts
    <3>1. b[i] \in Pos
      BY <1>1, <1>5, ParentFacts
    <3> QED
      BY <1>1, <1>5, <1>8, <3>1 DEF Chosen, Starts
  <2>3. IndicesOK'
    BY <1>1, <1>3, <1>4, <1>5, <2>1 DEF IndicesOK
  <2>4. Chosen'
    BY <1>1, <1>3, <2>1 DEF Chosen
  <2>5. Walked(D)'
    BY <1>1, <1>2, <1>3, <2>1 DEF Walked, Follows
  <2>6. OnTheWay(D)'
    BY <1>3, <1>5, <2>1, <2>2 DEF OnTheWay, Follows
  <2>7. PMXInv'
    BY <1>1, <1>3, <1>6, <2>4, <2>5, <2>6 DEF PMXInv
  <2> QED
    BY <1>6, <2>1, <2>3, <2>7 DEF MakeInv, OX1Inv, Complete, Begun
<1> QED
  BY <1>7, <1>8

(* What stands on the way is in the kept part, and no walk passed it.       *)
LEMMA TakenIsKept ==
  ASSUME Parents, NEW D, Walked(D), OnTheWay(D), perm[j] # Empty
  PROVE  j \in Kept \ D
<1>1. /\ Kept \subseteq Pos /\ Pos \subseteq Nat
      /\ \A x, y \in Pos : a[x] = a[y] => x = y
  BY ParentFacts
<1>2. i \in Starts /\ i \in Kept /\ i \notin D
  BY <1>1 DEF OnTheWay, Walked, Starts
<1>3. CASE j = i
  BY <1>2, <1>3
<1>4. CASE j # i
  <2>1. PICK x \in path : Follows(x, j)
    BY <1>4 DEF OnTheWay
  <2>2. x \in Kept /\ x \notin D /\ j \in Pos
    BY DEF OnTheWay
  <2>3. ASSUME j \notin Kept PROVE FALSE
    <3>1. PICK y \in D : Follows(y, j)
      BY <2>2, <2>3 DEF Walked
    <3>2. y \in Kept /\ a[x] = a[y]
      BY <2>1, <3>1 DEF Walked, Follows
    <3> QED
      BY <1>1, <2>2, <3>1, <3>2
  <2>4. j \notin D
    BY <2>1, <2>2, <2>3 DEF Walked
  <2> QED
    BY <2>3, <2>4
<1> QED
  BY <1>3, <1>4

LEMMA WalkKeeps == ASSUME MakeInv, Walk PROVE MakeInv'
<1>1. /\ Parents /\ IndicesOK /\ UNCHANGED parents /\ op = "PMX"
      /\ PlacedOnce /\ Chosen /\ at = "walk" /\ perm[j] # Empty
      /\ path' = path \union {j} /\ j' = to[j]
      /\ UNCHANGED <<at, i, perm, used, to, swaps>>
  BY DEF MakeInv, Walk, PMXInv
<1>2. PICK D : Walked(D) /\ OnTheWay(D)
  BY <1>1 DEF MakeInv, PMXInv
<1>3. /\ n' = n /\ a' = a /\ b' = b /\ op' = op /\ l' = l /\ r' = r
      /\ Pos' = Pos /\ Kept' = Kept /\ GivenByA' = GivenByA /\ Starts' = Starts
  BY <1>1, SameParents
<1>4. /\ n \in Nat \ {0} /\ Kept \subseteq Pos /\ Pos \subseteq 0 .. n
      /\ \A x, y \in Pos : b[x] = b[y] => x = y
  BY <1>1, ParentFacts DEF Pos
<1>5. j \in Kept \ D
  BY <1>1, <1>2, TakenIsKept
<1>6. to[j] \in Pos /\ Follows(j, to[j])
  BY <1>1, <1>2, <1>4, <1>5 DEF IndicesOK, Walked
<1>7. Parents' /\ PlacedOnce' /\ Chosen'
  BY <1>1, <1>3, ParentsStay DEF PlacedOnce, Chosen
<1>8. IndicesOK'
  BY <1>1, <1>3, <1>4, <1>5, <1>6 DEF IndicesOK
<1>9. Walked(D)'
  BY <1>1, <1>2, <1>3 DEF Walked, Follows
<1>10. OnTheWay(D)'
  <2>1. path' \subseteq Kept /\ path' \cap D = {} /\ i \in path'
    BY <1>1, <1>2, <1>5 DEF OnTheWay
  <2>2. \A y \in path' : y = i \/ \E x \in path' : Follows(x, y)
    BY <1>1, <1>2 DEF OnTheWay
  <2>3. ASSUME NEW x \in path', NEW y \in Pos, Follows(x, y)
        PROVE  y \in path' \/ y = j'
    <3>1. CASE x = j
      BY <1>1, <1>4, <1>6, <2>3, <3>1 DEF Follows
    <3>2. CASE x \in path
      BY <1>1, <1>2, <2>3, <3>2 DEF OnTheWay
    <3> QED
      BY <1>1, <3>1, <3>2
  <2>4. i \in Starts /\ j' \in Pos /\ \E x \in path' : Follows(x, j')
    BY <1>1, <1>2, <1>6 DEF OnTheWay
  <2> QED
    BY <1>1, <1>3, <2>1, <2>2, <2>3, <2>4 DEF OnTheWay, Follows
<1>11. PMXInv'
  BY <1>1, <1>3, <1>7, <1>9, <1>10 DEF PMXInv
<1> QED
  BY <1>1, <1>7, <1>8, <1>11 DEF MakeInv, OX1Inv, Complete, Begun

(* Only a start has no place before it, so that the walk from i passes no   *)
(* other start.                                                             *)
LEMMA OneStart ==
  ASSUME Parents, NEW D, OnTheWay(D), path # {}
  PROVE  \A k \in Starts : k \in path <=> k = i
<1>1. i \in path /\ path \subseteq Kept
  BY DEF OnTheWay
<1>2. ASSUME NEW k \in Starts, k \in path, k # i PROVE FALSE
  <2>1. PICK x \in path : Follows(x, k)
    BY <1>2 DEF OnTheWay
  <2>2. b[k] \in GivenByA
    BY <1>1, <2>1 DEF Follows, GivenByA
  <2> QED
    BY <2>2 DEF Starts
<1> QED
  BY <1>1, <1>2

(* The chain that ends at j is closed within the kept part.                 *)
LEMMA PathIsClosed ==
  ASSUME Parents, NEW D, OnTheWay(D), path # {}, j \notin Kept,
         NEW x \in Kept, NEW y \in Kept, Follows(x, y)
  PROVE  x \in path <=> y \in path
<1>1. /\ Kept \subseteq Pos
      /\ \A u, v \in Pos : a[u] = a[v] => u = v
  BY ParentFacts
<1>2. x \in path => y \in path
  BY <1>1 DEF OnTheWay
<1>3. ASSUME y \in path PROVE x \in path
  <2>1. y \notin Starts
    BY DEF Follows, GivenByA, Starts
  <2>2. PICK u \in path : Follows(u, y)
    BY <1>3, <2>1 DEF OnTheWay
  <2>3. u \in Kept /\ a[u] = a[x]
    BY <2>2 DEF OnTheWay, Follows
  <2> QED
    BY <1>1, <2>2, <2>3
<1> QED
  BY <1>2, <1>3

LEMMA SettleKeeps == ASSUME MakeInv, Settle PROVE MakeInv'
<1>1. /\ Parents /\ IndicesOK /\ UNCHANGED parents /\ op = "PMX"
      /\ PlacedOnce /\ Chosen /\ at = "walk" /\ perm[j] = Empty
      /\ perm' = [perm EXCEPT ![j] = b[i]] /\ used' = used \union {b[i]}
      /\ to' = [x \in Pos |-> IF x \in path THEN j ELSE to[x]]
      /\ i' = i + 1 /\ at' = "place"
      /\ UNCHANGED <<j, path, swaps>>
  BY DEF MakeInv, Settle, PMXInv
<1>2. PICK D : Walked(D) /\ OnTheWay(D)
  BY <1>1 DEF MakeInv, PMXInv
<1>3. /\ n' = n /\ a' = a /\ b' = b /\ op' = op /\ l' = l /\ r' = r
      /\ Pos' = Pos /\ Kept' = Kept /\ GivenByA' = GivenByA /\ Starts' = Starts
  BY <1>1, SameParents
<1>4. /\ n \in Nat \ {0} /\ l \in Nat /\ r \in Nat /\ l <= r /\ r < n
      /\ Kept \subseteq Pos /\ Pos \subseteq Nat /\ Empty \notin Pos
      /\ a \in [Pos -> Pos] /\ b \in [Pos -> Pos]
      /\ \A x, y \in Pos : b[x] = b[y] => x = y
  BY <1>1, ParentFacts
<1>5. /\ i \in Starts /\ i \in Kept /\ i \in Pos /\ j \in Pos
      /\ b[i] \in Pos /\ b[i] \notin GivenByA /\ path \subseteq Kept
  BY <1>2, <1>4 DEF OnTheWay, Starts
<1>6. j \notin Kept
  <2>1. \A x \in Kept : perm[x] \in Pos
    BY <1>1, <1>4 DEF PlacedOnce
  <2> QED
    BY <1>1, <1>4, <2>1
<1>7. path # {} /\ \E x \in path : Follows(x, j)
  BY <1>2, <1>5, <1>6 DEF OnTheWay
<1>8. \A k \in Starts : k < i + 1 <=> k < i \/ k = i
  BY <1>4, <1>5 DEF Starts
<1>9. /\ perm' \in [Pos -> Pos \union {Empty}] /\ perm'[j] = b[i]
      /\ \A y \in Pos : y # j => perm'[y] = perm[y]
  BY <1>1, <1>4, <1>5 DEF IndicesOK
<1>10. IndicesOK'
  <2>1. i' \in 0 .. n
    BY <1>1, <1>4, <1>5 DEF Kept
  <2>2. used' \subseteq Pos
    BY <1>1, <1>5 DEF IndicesOK
  <2>3. to \in [Pos -> Pos]
    BY <1>1 DEF IndicesOK
  <2>4. to' \in [Pos -> Pos]
    BY <1>1, <1>5, <2>3
  <2> QED
    BY <1>1, <1>3, <1>9, <2>1, <2>2, <2>4 DEF IndicesOK
<1>11. PlacedOnce'
  <2>1. ASSUME NEW y \in Pos, perm[y] = b[i] PROVE FALSE
    <3>1. CASE y \in Kept
      BY <1>1, <1>5, <2>1, <3>1 DEF PlacedOnce, GivenByA
    <3>2. CASE y \notin Kept
      <4>1. perm[y] # Empty
        BY <1>4, <1>5, <2>1
      <4>2. PICK k \in Starts : k < i /\ perm[y] = b[k]
        BY <1>1, <3>2, <4>1 DEF Chosen
      <4>3. k \in Pos /\ k = i
        BY <1>4, <1>5, <2>1, <4>2 DEF Starts
      <4> QED
        BY <1>4, <4>2, <4>3
    <3> QED
      BY <3>1, <3>2
  <2>2. \A x, y \in Pos : perm'[x] # Empty /\ perm'[x] = perm'[y] => x = y
    BY <1>1, <1>9, <2>1 DEF PlacedOnce
  <2>3. \A x \in Kept : perm'[x] = a[x]
    BY <1>1, <1>4, <1>6, <1>9 DEF PlacedOnce
  <2> QED
    BY <1>3, <2>2, <2>3 DEF PlacedOnce, Empty
<1>12. Chosen'
  <2>1. i' \in l .. r + 1
    BY <1>1, <1>4, <1>5 DEF Kept
  <2>2. \A v \in Pos : v \in used' <=> v \in GivenByA \/ \E k \in Starts : k < i + 1 /\ v = b[k]
    BY <1>1, <1>5, <1>8 DEF Chosen
  <2>3. \A y \in Pos \ Kept : perm'[y] # Empty => \E k \in Starts : k < i + 1 /\ perm'[y] = b[k]
    BY <1>1, <1>5, <1>8, <1>9 DEF Chosen
  <2> QED
    BY <1>1, <1>3, <2>1, <2>2, <2>3 DEF Chosen, Empty
<1> DEFINE E == D \union path
<1>13. Walked(E)'
  <2>1. E \subseteq Kept
    BY <1>2, <1>5 DEF Walked
  <2>2. \A k \in Starts : k \in E <=> k < i + 1
    BY <1>1, <1>2, <1>7, <1>8, OneStart DEF Walked
  <2>3. \A x, y \in Kept : Follows(x, y) => (x \in E <=> y \in E)
    <3>1. \A x, y \in Kept : Follows(x, y) => (x \in path <=> y \in path)
      BY <1>1, <1>2, <1>6, <1>7, PathIsClosed
    <3> QED
      BY <1>2, <3>1 DEF Walked
  <2>4. ASSUME NEW y \in Pos \ Kept
        PROVE  perm'[y] # Empty <=> \E x \in E : Follows(x, y)
    <3>1. CASE y = j
      BY <1>4, <1>5, <1>7, <1>9, <3>1
    <3>2. CASE y # j
      <4>1. \A x \in path : ~Follows(x, y)
        BY <1>2, <1>5, <3>2 DEF OnTheWay
      <4>2. perm[y] # Empty <=> \E x \in D : Follows(x, y)
        BY <1>2 DEF Walked
      <4> QED
        BY <1>9, <3>2, <4>1, <4>2
    <3> QED
      BY <3>1, <3>2
  <2>5. \A x \in Kept \ E : Follows(x, to'[x])
    BY <1>1, <1>2, <1>4 DEF Walked
  <2>6. E' = E
    BY <1>1
  <2> HIDE DEF E
  <2> QED
    BY <1>1, <1>3, <2>1, <2>2, <2>3, <2>4, <2>5, <2>6 DEF Walked, Follows, Empty
<1>14. PMXInv'
  BY <1>1, <1>3, <1>11, <1>12, <1>13 DEF PMXInv
<1> QED
  BY <1>1, <1>10, <1>14, ParentsStay DEF MakeInv, OX1Inv, Complete, Begun

(* When all chains have been walked, what is left in the kept part closes   *)
(* in itself: nothing left follows into a place outside.                    *)
LEMMA RestIsClosed ==
  ASSUME Parents, NEW D, Walked(D), i = r + 1,
         NEW x \in Kept \ D, NEW y \in Pos, Follows(x, y)
  PROVE  y \in Kept
<1>1. /\ n \in Nat \ {0} /\ Kept \subseteq Pos /\ r \in Nat
      /\ a \in [Pos -> Pos]
      /\ \A u, v \in Pos : a[u] = a[v] => u = v
      /\ \A u, v \in Pos : b[u] = b[v] => u = v
  BY ParentFacts
<1> DEFINE U == Kept \ D
           g == [u \in U |-> CHOOSE w \in U : Follows(w, u)]
<1>2. ASSUME NEW u \in U PROVE \E w \in U : Follows(w, u)
  <2>1. u < i
    BY <1>1 DEF Kept, Pos
  <2>2. u \notin Starts
    BY <2>1 DEF Walked
  <2>3. PICK w \in Kept : b[u] = a[w]
    BY <2>2 DEF Starts, GivenByA
  <2>4. w \notin D
    BY <2>3 DEF Walked, Follows
  <2> QED
    BY <2>3, <2>4 DEF Follows
<1>3. g \in [U -> U] /\ \A u \in U : Follows(g[u], u)
  BY <1>2
<1>4. IsFiniteSet(U)
  <2>1. U \in SUBSET Pos /\ IsFiniteSet(Pos)
    BY <1>1, PosFinite
  <2> QED
    BY <2>1, FS_Subset
<1> HIDE DEF g
<1>5. \A u, v \in U : g[u] = g[v] => u = v
  BY <1>1, <1>3 DEF Follows
<1>6. \A v \in U : \E u \in U : g[u] = v
  <2> HIDE DEF U
  <2> QED
    BY <1>3, <1>4, <1>5, SelfInjection
<1>7. PICK u \in U : g[u] = x
  BY <1>6
<1>8. b[u] = b[y] /\ u \in Pos
  BY <1>1, <1>3, <1>7 DEF Follows
<1> QED
  BY <1>1, <1>8

LEMMA FillKeeps == ASSUME MakeInv, Fill PROVE MakeInv'
<1>1. /\ Parents /\ IndicesOK /\ UNCHANGED parents
      /\ PlacedOnce /\ Chosen /\ at = "place" /\ i = r + 1
      /\ perm' = [x \in Pos |-> IF perm[x] = Empty THEN b[x] ELSE perm[x]]
      /\ at' = "draw" /\ UNCHANGED <<i, j, used, to, path, swaps>>
  BY DEF MakeInv, Fill, PMXInv
<1>2. PICK D : Walked(D)
  BY <1>1 DEF MakeInv, PMXInv
<1>3. n' = n /\ Pos' = Pos
  BY <1>1, SameParents
<1>4. /\ Kept \subseteq Pos /\ Empty \notin Pos
      /\ a \in [Pos -> Pos] /\ b \in [Pos -> Pos]
      /\ \A x, y \in Pos : b[x] = b[y] => x = y
  BY <1>1, ParentFacts
<1>5. perm' \in [Pos -> Pos]
  BY <1>1, <1>4 DEF IndicesOK
<1>6. ASSUME NEW x \in Pos, NEW y \in Pos,
             perm[x] # Empty, perm[y] = Empty, perm[x] = b[y]
      PROVE  FALSE
  <2>1. y \notin Kept
    <3>1. \A z \in Kept : perm[z] \in Pos
      BY <1>1, <1>4 DEF PlacedOnce
    <3> QED
      BY <1>4, <1>6, <3>1
  <2>2. CASE x \notin Kept
    <3>1. PICK k \in Starts : perm[x] = b[k]
      BY <1>1, <1>6, <2>2 DEF Chosen
    <3>2. k \in Kept /\ b[k] = b[y]
      BY <1>6, <3>1 DEF Starts
    <3> QED
      BY <1>4, <2>1, <3>2
  <2>3. CASE x \in Kept
    <3>1. Follows(x, y)
      BY <1>1, <1>6, <2>3 DEF PlacedOnce, Follows
    <3>2. x \notin D
      BY <1>2, <1>6, <2>1, <3>1 DEF Walked
    <3> QED
      BY <1>1, <1>2, <2>1, <2>3, <3>1, <3>2, RestIsClosed
  <2> QED
    BY <2>2, <2>3
<1>7. ASSUME NEW x \in Pos, NEW y \in Pos, perm'[x] = perm'[y] PROVE x = y
  <2>1. CASE perm[x] = Empty /\ perm[y] = Empty
    BY <1>1, <1>4, <1>7, <2>1
  <2>2. CASE perm[x] # Empty /\ perm[y] # Empty
    BY <1>1, <1>7, <2>2 DEF PlacedOnce
  <2>3. CASE perm[x] # Empty /\ perm[y] = Empty
    BY <1>1, <1>6, <1>7, <2>3
  <2>4. CASE perm[x] = Empty /\ perm[y] # Empty
    BY <1>1, <1>6, <1>7, <2>4
  <2> QED
    BY <2>1, <2>2, <2>3, <2>4
<1>8. perm' \in Permutations(Pos)
  BY <1>5, <1>7 DEF Permutations
<1>9. IndicesOK'
  BY <1>1, <1>3, <1>5, SameParents DEF IndicesOK
<1> QED
  BY <1>1, <1>3, <1>8, <1>9, ParentsStay DEF MakeInv, PMXInv, OX1Inv, Complete, Begun

-----------------------------------------------------------------------------
(* OX1.                                                                     *)

(* A number that is still to be given finds an empty place.                 *)
LEMMA PlaceLeft ==
  ASSUME Parents, IndicesOK, OX1Inv, at = "order", i < n, b[i] \notin used
  PROVE  /\ Skip(j) \in Pos \ Kept
         /\ \A x \in Pos : perm[x] # b[i]
<1>1. /\ n \in Nat \ {0} /\ l \in Nat /\ r \in Nat /\ l <= r /\ r < n
      /\ Kept \subseteq Pos /\ Pos \subseteq Nat /\ Empty \notin Pos
      /\ b \in [Pos -> Pos]
      /\ \A x, y \in Pos : b[x] = b[y] => x = y
  BY ParentFacts
<1>2. i \in Pos /\ b[i] \in Pos
  BY <1>1 DEF IndicesOK, Pos
<1>3. /\ PlacedOnce /\ used = GivenByA /\ (j <= l \/ j > r)
      /\ \A x \in Pos : perm[x] # Empty <=> x \in Kept \/ x < j
      /\ \A x \in Pos \ Kept : perm[x] # Empty =>
           \E k \in Pos : k < i /\ b[k] \notin used /\ perm[x] = b[k]
  BY DEF OX1Inv
<1>4. \A x \in Pos : perm[x] # b[i]
  <2>1. ASSUME NEW x \in Pos, perm[x] = b[i] PROVE FALSE
    <3>1. CASE x \in Kept
      BY <1>3, <2>1, <3>1 DEF PlacedOnce, GivenByA
    <3>2. CASE x \notin Kept
      <4>1. PICK k \in Pos : k < i /\ perm[x] = b[k]
        BY <1>1, <1>2, <1>3, <2>1, <3>2
      <4>2. k = i
        BY <1>1, <1>2, <2>1, <4>1
      <4>3. i \in Nat
        BY <1>1, <1>2
      <4> QED
        BY <4>1, <4>2, <4>3
    <3> QED
      BY <3>1, <3>2
  <2> QED
    BY <2>1
<1>5. j \in Nat /\ j <= n
  BY <1>1 DEF IndicesOK
<1>6. Skip(j) \notin Kept /\ Skip(j) \in Nat
  BY <1>1, <1>3, <1>5 DEF Skip, Kept
<1>7. ASSUME Skip(j) \notin Pos PROVE FALSE
  <2>1. \A x \in Pos : x \in Kept \/ x < j
    BY <1>1, <1>3, <1>5, <1>7 DEF Skip, Kept, Pos
  <2>2. perm \in [Pos -> Pos]
    BY <1>3, <2>1 DEF IndicesOK
  <2>3. \A x, y \in Pos : perm[x] = perm[y] => x = y
    BY <1>3, <2>1 DEF PlacedOnce
  <2>4. IsFiniteSet(Pos)
    BY <1>1, PosFinite
  <2>5. \A v \in Pos : \E x \in Pos : perm[x] = v
    BY <2>2, <2>3, <2>4, SelfInjection
  <2> QED
    BY <1>2, <1>4, <2>5
<1> QED
  BY <1>4, <1>6, <1>7

LEMMA OrderKeeps == ASSUME MakeInv, Order PROVE MakeInv'
<1>1. /\ Parents /\ IndicesOK /\ OX1Inv /\ UNCHANGED parents
      /\ at = "order" /\ i < n /\ i' = i + 1
      /\ UNCHANGED <<used, to, path, swaps>>
  BY DEF MakeInv, Order
<1>2. /\ n' = n /\ a' = a /\ b' = b /\ op' = op /\ l' = l /\ r' = r
      /\ Pos' = Pos /\ Kept' = Kept /\ GivenByA' = GivenByA /\ Starts' = Starts
  BY <1>1, SameParents
<1>3. /\ n \in Nat \ {0} /\ l \in Nat /\ r \in Nat /\ l <= r /\ r < n
      /\ Kept \subseteq Pos /\ Pos \subseteq Nat /\ Empty \notin Pos
      /\ b \in [Pos -> Pos]
  BY <1>1, ParentFacts
<1>4. i \in Pos /\ b[i] \in Pos /\ i' \in 0 .. n /\ i' \in Nat
  <2>1. i \in 0 .. n
    BY <1>1 DEF IndicesOK
  <2>2. i \in Pos /\ i' \in 0 .. n /\ i' \in Nat
    BY <1>1, <1>3, <2>1 DEF Pos
  <2> QED
    BY <1>3, <2>2
<1>5. /\ op = "OX1" /\ PlacedOnce /\ used = GivenByA /\ (j <= l \/ j > r)
      /\ \A x \in Pos : perm[x] # Empty <=> x \in Kept \/ x < j
      /\ \A x \in Pos \ Kept : perm[x] # Empty =>
           \E k \in Pos : k < i /\ b[k] \notin used /\ perm[x] = b[k]
      /\ \A k \in Pos : k < i /\ b[k] \notin used => \E x \in Pos : perm[x] = b[k]
  BY <1>1 DEF OX1Inv
<1>6. \A k \in Pos : k < i' <=> k < i \/ k = i
  BY <1>1, <1>3, <1>4
<1>7. CASE b[i] \in used
  <2>1. UNCHANGED <<at, j, perm>>
    BY <1>7 DEF Order
  <2>2. IndicesOK'
    BY <1>1, <1>2, <1>4, <2>1 DEF IndicesOK
  <2>3. PlacedOnce'
    BY <1>2, <1>5, <2>1 DEF PlacedOnce
  <2>4. OX1Inv'
    <3>1. \A x \in Pos \ Kept : perm[x] # Empty =>
            \E k \in Pos : k < i' /\ b[k] \notin used /\ perm[x] = b[k]
      BY <1>5, <1>6
    <3>2. \A k \in Pos : k < i' /\ b[k] \notin used => \E x \in Pos : perm[x] = b[k]
      BY <1>5, <1>6, <1>7
    <3> QED
      BY <1>1, <1>2, <1>5, <2>1, <2>3, <3>1, <3>2 DEF OX1Inv, Empty
  <2> QED
    BY <1>1, <2>1, <2>2, <2>4, ParentsStay DEF MakeInv, PMXInv, Complete, Begun
<1>8. CASE b[i] \notin used
  <2>1. Skip(j) \in Pos \ Kept /\ \A x \in Pos : perm[x] # b[i]
    BY <1>1, <1>8, PlaceLeft
  <2>2. /\ perm' = [perm EXCEPT ![Skip(j)] = b[i]] /\ j' = Skip(j) + 1
        /\ UNCHANGED at
    BY <1>8, <2>1 DEF Order
  <2>3. perm \in [Pos -> Pos \union {Empty}] /\ j \in Nat
    BY <1>1 DEF IndicesOK
  <2>4. /\ perm' \in [Pos -> Pos \union {Empty}]
        /\ perm'[Skip(j)] = b[i]
        /\ \A x \in Pos : x # Skip(j) => perm'[x] = perm[x]
    BY <1>4, <2>1, <2>2, <2>3
  <2>5. j' \in 0 .. n
    <3>1. Skip(j) \in 0 .. n - 1
      BY <2>1 DEF Pos
    <3>2. j' = Skip(j) + 1 /\ n \in Nat
      BY <1>3, <2>2
    <3> QED BY <3>1, <3>2
  <2>6. IndicesOK'
    BY <1>1, <1>2, <1>4, <2>2, <2>4, <2>5 DEF IndicesOK
  <2>7. PlacedOnce'
    <3>1. \A x, y \in Pos : perm'[x] # Empty /\ perm'[x] = perm'[y] => x = y
      BY <1>5, <2>1, <2>4 DEF PlacedOnce
    <3>2. \A x \in Kept : perm'[x] = a[x]
      BY <1>3, <1>5, <2>1, <2>4 DEF PlacedOnce
    <3> QED
      BY <1>2, <3>1, <3>2 DEF PlacedOnce, Empty
  <2>8. /\ j' <= l \/ j' > r
        /\ \A x \in Pos : x \in Kept \/ x < j' <=> x \in Kept \/ x < j \/ x = Skip(j)
    BY <1>3, <1>5, <2>1, <2>2, <2>3 DEF Skip, Kept
  <2>9. \A x \in Pos : perm'[x] # Empty <=> x \in Kept \/ x < j'
    BY <1>3, <1>4, <1>5, <2>4, <2>8
  <2>10. \A x \in Pos \ Kept : perm'[x] # Empty =>
           \E k \in Pos : k < i' /\ b[k] \notin used /\ perm'[x] = b[k]
    BY <1>4, <1>5, <1>6, <1>8, <2>4
  <2>11. \A k \in Pos : k < i' /\ b[k] \notin used => \E x \in Pos : perm'[x] = b[k]
    <3>1. ASSUME NEW k \in Pos, k < i, b[k] \notin used
          PROVE  \E x \in Pos : perm'[x] = b[k]
      <4>1. PICK x \in Pos : perm[x] = b[k]
        BY <1>5, <3>1
      <4>2. x # Skip(j)
        <5>1. b[k] # Empty
          BY <1>3
        <5>2. x \in Kept \/ x < j
          BY <1>5, <4>1, <5>1
        <5> QED
          BY <1>3, <2>1, <2>3, <5>2 DEF Skip
      <4> QED
        BY <2>4, <4>1, <4>2
    <3> QED
      BY <1>6, <2>1, <2>4, <3>1
  <2>12. OX1Inv'
    BY <1>1, <1>2, <1>5, <2>2, <2>7, <2>8, <2>9, <2>10, <2>11 DEF OX1Inv, Empty
  <2> QED
    BY <1>1, <2>2, <2>6, <2>12, ParentsStay DEF MakeInv, PMXInv, Complete, Begun
<1> QED
  BY <1>7, <1>8

(* Every number has been given, so that every place has one.                *)
LEMMA OrderedKeeps == ASSUME MakeInv, Ordered PROVE MakeInv'
<1>1. /\ Parents /\ IndicesOK /\ OX1Inv /\ UNCHANGED parents
      /\ at = "order" /\ i = n /\ at' = "draw"
      /\ UNCHANGED <<i, j, perm, used, to, path, swaps>>
  BY DEF MakeInv, Ordered
<1>2. n' = n /\ Pos' = Pos
  BY <1>1, SameParents
<1>3. /\ n \in Nat \ {0} /\ Kept \subseteq Pos /\ Empty \notin Pos
      /\ b \in [Pos -> Pos] /\ \A v \in Pos : \E x \in Pos : b[x] = v
  BY <1>1, ParentFacts
<1>4. \A k \in Pos : k < i
  BY <1>1, <1>3 DEF Pos
<1>5. ASSUME NEW v \in Pos PROVE \E x \in Pos : perm[x] = v
  <2>1. CASE v \in GivenByA
    BY <1>1, <1>3, <2>1 DEF OX1Inv, PlacedOnce, GivenByA
  <2>2. CASE v \notin GivenByA
    <3>1. PICK k \in Pos : b[k] = v
      BY <1>3
    <3> QED
      BY <1>1, <1>4, <2>2, <3>1 DEF OX1Inv
  <2> QED
    BY <2>1, <2>2
<1> DEFINE g == [v \in Pos |-> CHOOSE x \in Pos : perm[x] = v]
<1>6. g \in [Pos -> Pos] /\ \A v \in Pos : perm[g[v]] = v
  BY <1>5
<1> HIDE DEF g
<1>7. \A u, v \in Pos : g[u] = g[v] => u = v
  BY <1>6
<1>8. \A x \in Pos : \E v \in Pos : g[v] = x
  BY <1>3, <1>6, <1>7, PosFinite, SelfInjection
<1>9. \A x \in Pos : perm[x] \in Pos
  BY <1>6, <1>8
<1>10. perm \in [Pos -> Pos]
  BY <1>1, <1>9 DEF IndicesOK
<1>11. \A x, y \in Pos : perm[x] = perm[y] => x = y
  BY <1>1, <1>3, <1>9 DEF OX1Inv, PlacedOnce
<1>12. perm \in Permutations(Pos)
  BY <1>10, <1>11 DEF Permutations
<1>13. IndicesOK'
  BY <1>1, <1>2 DEF IndicesOK
<1> QED
  BY <1>1, <1>2, <1>12, <1>13, ParentsStay DEF MakeInv, PMXInv, OX1Inv, Complete, Begun

-----------------------------------------------------------------------------
(* mutate.                                                                  *)

LEMMA DrawKeeps == ASSUME MakeInv, Draw PROVE MakeInv'
<1>1. /\ Parents /\ IndicesOK /\ Complete /\ UNCHANGED parents
      /\ at = "draw" /\ at' = "mutate" /\ swaps' \in 0 .. MaxSwaps
      /\ UNCHANGED <<i, j, perm, used, to, path>>
  BY DEF MakeInv, Draw
<1>2. n' = n /\ Pos' = Pos
  BY <1>1, SameParents
<1>3. IndicesOK' /\ Complete'
  BY <1>1, <1>2 DEF IndicesOK, Complete
<1> QED
  BY <1>1, <1>3, ParentsStay DEF MakeInv, PMXInv, OX1Inv, Begun

(* Two numbers that change places are still all the numbers.                *)
LEMMA SwapKeeps == ASSUME MakeInv, Swap PROVE MakeInv'
<1>1. /\ Parents /\ IndicesOK /\ Complete /\ UNCHANGED parents
      /\ at = "mutate" /\ at' = at /\ swaps > 0 /\ swaps' = swaps - 1
      /\ UNCHANGED <<i, j, used, to, path>>
  BY DEF MakeInv, Swap
<1>2. n' = n /\ Pos' = Pos
  BY <1>1, SameParents
<1>3. PICK x \in Pos, y \in Pos : perm' = [perm EXCEPT ![x] = perm[y], ![y] = perm[x]]
  BY DEF Swap
<1>4. perm \in [Pos -> Pos] /\ \A u, v \in Pos : perm[u] = perm[v] => u = v
  BY <1>1 DEF Complete, Permutations
<1>5. perm' \in [Pos -> Pos]
  BY <1>3, <1>4
<1>6. \A u \in Pos : perm'[u] = IF u = y THEN perm[x] ELSE IF u = x THEN perm[y] ELSE perm[u]
  BY <1>3, <1>4
<1>7. \A u, v \in Pos : perm'[u] = perm'[v] => u = v
  BY <1>4, <1>6
<1>8. perm' \in Permutations(Pos)
  BY <1>5, <1>7 DEF Permutations
<1>9. swaps' \in 0 .. MaxSwaps
  BY <1>1, CrossoverAssumption DEF IndicesOK
<1>10. IndicesOK' /\ Complete'
  BY <1>1, <1>2, <1>5, <1>8, <1>9 DEF IndicesOK, Complete
<1> QED
  BY <1>1, <1>10, ParentsStay DEF MakeInv, PMXInv, OX1Inv, Begun

LEMMA FinishKeeps == ASSUME MakeInv, Finish PROVE MakeInv'
<1>1. /\ Parents /\ IndicesOK /\ Complete /\ UNCHANGED parents
      /\ at = "mutate" /\ at' = "done"
      /\ UNCHANGED <<i, j, used, to, path, swaps>>
  BY DEF MakeInv, Finish
<1>2. n' = n /\ Pos' = Pos
  BY <1>1, SameParents
<1>3. n \in Nat \ {0} /\ perm \in Permutations(Pos)
  BY <1>1, ParentFacts DEF Complete
<1>4. perm' \in Permutations(Pos)
  <2>1. CASE UNCHANGED perm
    BY <1>3, <2>1
  <2>2. CASE perm' = [x \in Pos |-> perm[n - 1 - x]]
    <3>1. perm \in [Pos -> Pos] /\ \A x, y \in Pos : perm[x] = perm[y] => x = y
      BY <1>3 DEF Permutations
    <3>2. \A x \in Pos : n - 1 - x \in Pos
      BY <1>3 DEF Pos
    <3>3. \A x, y \in Pos : n - 1 - x = n - 1 - y => x = y
      BY <1>3 DEF Pos
    <3>4. perm' \in [Pos -> Pos]
      BY <2>2, <3>1, <3>2
    <3>5. \A x, y \in Pos : perm'[x] = perm'[y] => x = y
      BY <2>2, <3>1, <3>2, <3>3
    <3> QED
      BY <3>4, <3>5 DEF Permutations
  <2> QED
    BY <2>1, <2>2 DEF Finish
<1>5. IndicesOK' /\ Complete'
  BY <1>1, <1>2, <1>4 DEF IndicesOK, Complete, Permutations
<1> QED
  BY <1>1, <1>5, ParentsStay DEF MakeInv, PMXInv, OX1Inv, Begun

-----------------------------------------------------------------------------
(* Nothing changes. *)
LEMMA StutterKeeps == ASSUME MakeInv, UNCHANGED makeVars PROVE MakeInv'
<1>1. /\ UNCHANGED <<at, i, j, perm, used, to, path, swaps>>
      /\ UNCHANGED parents
  BY DEF makeVars
<1>2. /\ n' = n /\ a' = a /\ b' = b /\ op' = op /\ l' = l /\ r' = r
      /\ Pos' = Pos /\ Kept' = Kept /\ GivenByA' = GivenByA /\ Starts' = Starts
  BY <1>1, SameParents
<1>3. Parents' /\ IndicesOK' /\ OX1Inv' /\ Complete' /\ Begun'
  BY <1>1, <1>2, ParentsStay
     DEF MakeInv, IndicesOK, OX1Inv, PlacedOnce, Complete, Begun, Empty
<1>4. PMXInv'
  <2> SUFFICES ASSUME at \in {"place", "walk"}
               PROVE  /\ op = "PMX" /\ PlacedOnce' /\ Chosen'
                      /\ \E D : Walked(D)' /\ (at = "walk" => OnTheWay(D)')
    BY <1>1, <1>2 DEF PMXInv
  <2>1. PICK D : Walked(D) /\ (at = "walk" => OnTheWay(D))
    BY DEF MakeInv, PMXInv
  <2>2. PlacedOnce' /\ Chosen' /\ op = "PMX"
    BY <1>1, <1>2 DEF MakeInv, PMXInv, PlacedOnce, Chosen, Empty
  <2>3. Walked(D)' /\ (at = "walk" => OnTheWay(D)')
    BY <1>1, <1>2, <2>1 DEF Walked, OnTheWay, Follows, Empty
  <2> QED
    BY <2>2, <2>3
<1> QED
  BY <1>3, <1>4 DEF MakeInv

LEMMA NextMakes == ASSUME MakeInv, [MakeNext]_makeVars PROVE MakeInv'
<1>1. CASE StartPlain
  BY <1>1, StartPlainKeeps
<1>2. CASE StartCross
  BY <1>2, StartCrossKeeps
<1>3. CASE Place
  BY <1>3, PlaceKeeps
<1>4. CASE Walk
  BY <1>4, WalkKeeps
<1>5. CASE Settle
  BY <1>5, SettleKeeps
<1>6. CASE Fill
  BY <1>6, FillKeeps
<1>7. CASE Order
  BY <1>7, OrderKeeps
<1>8. CASE Ordered
  BY <1>8, OrderedKeeps
<1>9. CASE Draw
  BY <1>9, DrawKeeps
<1>10. CASE Swap
  BY <1>10, SwapKeeps
<1>11. CASE Finish
  BY <1>11, FinishKeeps
<1>12. CASE MakeStopped \/ UNCHANGED makeVars
  BY <1>12, StutterKeeps DEF MakeStopped
<1> QED
  BY <1>1, <1>2, <1>3, <1>4, <1>5, <1>6, <1>7, <1>8, <1>9, <1>10, <1>11, <1>12 DEF MakeNext

LEMMA MakeInvariance == MakeSpec => []MakeInv
<1>1. MakeInit => MakeInv
  BY InitMakes
<1>2. MakeInv /\ [MakeNext]_makeVars => MakeInv'
  BY NextMakes
<1> QED
  BY <1>1, <1>2, PTL DEF MakeSpec

(* No index leaves its vector, whatever the number of cells and the parents *)
(* are: the loops at src/solution_evolve.cpp:97-162 check none.                         *)
THEOREM IndicesInRange == MakeSpec => []IndicesOK
<1>1. MakeInv => IndicesOK
  BY DEF MakeInv
<1> QED
  BY <1>1, MakeInvariance, PTL

(* Every way of making a gene makes a permutation, which permute() and the  *)
(* rebuilding of the bag rely on (src/solution_evolve.cpp:40-162).                     *)
THEOREM AlwaysPermutation == MakeSpec => []MakesPermutation
<1>1. MakeInv => MakesPermutation
  BY DEF MakeInv, Complete, MakesPermutation
<1> QED
  BY <1>1, MakeInvariance, PTL

-----------------------------------------------------------------------------
(* What is left to do when a gene is made: the loops still to come, the     *)
(* numbers left to look at, the places the walk has not passed, the swaps.  *)
LoopsToCome ==
  IF at = "start" THEN 4
  ELSE IF at \in {"place", "walk", "order"} THEN 3
  ELSE IF at = "draw" THEN 2
  ELSE IF at = "mutate" THEN 1
  ELSE 0

PlacesToPass == IF at = "walk" THEN n - Cardinality(path) ELSE n + 1

MakeRank == <<LoopsToCome, n - i, PlacesToPass, swaps>>

LEMMA PathCounts ==
  ASSUME MakeInv
  PROVE  IsFiniteSet(path) /\ Cardinality(path) \in Nat /\ Cardinality(path) <= n
<1>1. n \in Nat \ {0} /\ path \subseteq Pos
  BY DEF MakeInv, Parents, IndicesOK
<1>2. IsFiniteSet(Pos) /\ Cardinality(Pos) = n
  BY <1>1, FS_Interval DEF Pos
<1>3. IsFiniteSet(path) /\ Cardinality(path) <= Cardinality(Pos)
  BY <1>1, <1>2, FS_Subset
<1> QED
  BY <1>2, <1>3, FS_CardinalityType

LEMMA MakeRanked == ASSUME MakeInv PROVE MakeRank \in Ranks
<1>1. n \in Nat \ {0} /\ i \in 0 .. n /\ swaps \in Nat
  BY CrossoverAssumption DEF MakeInv, Parents, IndicesOK
<1>2. LoopsToCome \in Nat
  BY DEF LoopsToCome
<1>3. n - i \in Nat /\ PlacesToPass \in Nat
  BY <1>1, PathCounts DEF PlacesToPass
<1> QED
  BY <1>1, <1>2, <1>3 DEF MakeRank, Ranks

(* The walk along to[] never comes to a place it has passed. *)
LEMMA WalkGoesOn ==
  ASSUME MakeInv, Walk
  PROVE  j \notin path
<1>1. at = "walk" /\ perm[j] # Empty /\ Parents /\ op = "PMX"
  BY DEF Walk, MakeInv, PMXInv
<1>2. PICK D : Walked(D) /\ OnTheWay(D)
  BY <1>1 DEF MakeInv, PMXInv
<1>3. /\ Kept \subseteq Pos
      /\ \A x, y \in Pos : b[x] = b[y] => x = y
  BY <1>1, ParentFacts
<1>4. SUFFICES ASSUME j \in path PROVE FALSE
  OBVIOUS
<1>5. path \subseteq Pos /\ i \in path /\ i \in Kept
      /\ \A x \in path, y \in Pos : Follows(x, y) => y \in path
  BY <1>2, <1>3, <1>4 DEF OnTheWay, Starts
<1> DEFINE Next1(x) == CHOOSE y \in Pos : Follows(x, y)
           f == [x \in path |-> Next1(x)]
<1>6. ASSUME NEW x \in path PROVE Next1(x) \in Pos /\ Follows(x, Next1(x))
  <2>1. a[x] \in Pos
    BY <1>1, <1>5, ParentFacts
  <2>2. \E y \in Pos : b[y] = a[x]
    BY <1>1, <2>1, ParentFacts
  <2> QED
    BY <2>2 DEF Follows
<1>7. f \in [path -> path] /\ \A x \in path : Follows(x, f[x])
  BY <1>5, <1>6
<1>8. \A x, y \in path : f[x] = f[y] => x = y
  <2> HIDE DEF f
  <2> QED
    BY <1>1, <1>5, <1>7, ParentFacts DEF Follows
<1> HIDE DEF f, Next1
<1>9. PICK x \in path : f[x] = i
  BY <1>5, <1>7, <1>8, PathCounts, SelfInjection
<1>10. Follows(x, i) /\ x \in Kept
  BY <1>2, <1>7, <1>9 DEF OnTheWay
<1>11. i \in Starts
  BY <1>2 DEF OnTheWay
<1> QED
  BY <1>10, <1>11 DEF Starts, GivenByA, Follows

(* Every step leaves less to do. *)
LEMMA MakeGoesDown == ASSUME MakeInv, [MakeNext]_makeVars PROVE [Below(MakeRank', MakeRank)]_makeVars
<1>1. n \in Nat \ {0} /\ i \in 0 .. n /\ swaps \in Nat /\ Parents
  BY CrossoverAssumption DEF MakeInv, Parents, IndicesOK
<1>2. CASE StartPlain \/ StartCross
  <2>1. LoopsToCome = 4 /\ LoopsToCome' < 4
    BY <1>2 DEF StartPlain, StartCross, LoopsToCome
  <2> QED
    BY <2>1 DEF MakeRank, Below
<1>3. CASE Place
  <2>1. LoopsToCome' = 3 /\ LoopsToCome = 3 /\ n' = n /\ i < n
    <3>1. r < n
      BY <1>1, ParentFacts
    <3>2. l \in Nat /\ r \in Nat
      BY <1>1, ParentFacts
    <3> QED
      BY <1>1, <1>3, <3>1, <3>2 DEF Place, LoopsToCome, parents
  <2>2. CASE b[i] \in used
    <3>1. n' - i' < n - i
      BY <1>1, <1>3, <2>1, <2>2 DEF Place
    <3> QED
      BY <2>1, <3>1 DEF MakeRank, Below
  <2>3. CASE b[i] \notin used
    <3>1. i' = i /\ at = "place" /\ at' = "walk" /\ path' = {}
      BY <1>3, <2>3 DEF Place
    <3>2. PlacesToPass = n + 1 /\ PlacesToPass' = n
      BY <1>1, <2>1, <3>1, FS_EmptySet DEF PlacesToPass
    <3> QED
      BY <1>1, <2>1, <3>1, <3>2 DEF MakeRank, Below
  <2> QED
    BY <2>2, <2>3
<1>4. CASE Walk
  <2>1. LoopsToCome' = LoopsToCome /\ n' = n /\ i' = i /\ at = "walk" /\ at' = at
    BY <1>4 DEF Walk, LoopsToCome, parents
  <2>2. Cardinality(path') = Cardinality(path) + 1
    BY <1>4, WalkGoesOn, PathCounts, FS_AddElement DEF Walk
  <2>3. PlacesToPass' < PlacesToPass
    BY <1>1, <2>1, <2>2, PathCounts DEF PlacesToPass
  <2> QED
    BY <2>1, <2>3 DEF MakeRank, Below
<1>5. CASE Settle
  <2>1. LoopsToCome' = 3 /\ LoopsToCome = 3 /\ n' = n /\ i' = i + 1
    BY <1>5 DEF Settle, LoopsToCome, parents
  <2>2. n' - i' < n - i
    BY <1>1, <2>1
  <2> QED
    BY <2>1, <2>2 DEF MakeRank, Below
<1>6. CASE Fill \/ Ordered
  <2>1. LoopsToCome = 3 /\ LoopsToCome' = 2
    BY <1>6 DEF Fill, Ordered, LoopsToCome
  <2> QED
    BY <2>1 DEF MakeRank, Below
<1>7. CASE Order
  <2>1. LoopsToCome = 3 /\ n' = n /\ i' = i + 1 /\ at' \in {"order", "undefined"}
    BY <1>7 DEF Order, LoopsToCome, parents
  <2>2. n' - i' < n - i /\ (LoopsToCome' = 3 \/ LoopsToCome' = 0)
    BY <1>1, <2>1 DEF LoopsToCome
  <2> QED
    BY <2>1, <2>2 DEF MakeRank, Below
<1>8. CASE Draw
  <2>1. LoopsToCome = 2 /\ LoopsToCome' = 1
    BY <1>8 DEF Draw, LoopsToCome
  <2> QED
    BY <2>1 DEF MakeRank, Below
<1>9. CASE Swap
  <2>1. LoopsToCome' = LoopsToCome /\ n' = n /\ i' = i /\ at' = at /\ at = "mutate" /\ swaps' < swaps
    BY <1>1, <1>9 DEF Swap, LoopsToCome, parents
  <2>2. PlacesToPass' = PlacesToPass
    BY <2>1 DEF PlacesToPass
  <2> QED
    BY <2>1, <2>2 DEF MakeRank, Below
<1>10. CASE Finish
  <2>1. LoopsToCome = 1 /\ LoopsToCome' = 0
    BY <1>10 DEF Finish, LoopsToCome
  <2> QED
    BY <2>1 DEF MakeRank, Below
<1>11. CASE UNCHANGED makeVars
  BY <1>11
<1> QED
  BY <1>2, <1>3, <1>4, <1>5, <1>6, <1>7, <1>8, <1>9, <1>10, <1>11 DEF MakeNext, MakeStopped

(* Whatever the parents are, a gene is made in finitely many steps: each    *)
(* step of the loops at src/solution_evolve.cpp:40-162 leaves less to do,   *)
(* the walk along to[] too, which no counter of the code ends.              *)
THEOREM MakingDescends ==
  MakeSpec => [](MakeRank \in Ranks) /\ [][Below(MakeRank', MakeRank)]_makeVars
<1>1. MakeInv => MakeRank \in Ranks
  BY MakeRanked
<1>2. MakeInv /\ [MakeNext]_makeVars => [Below(MakeRank', MakeRank)]_makeVars
  BY MakeGoesDown
<1> QED
  BY <1>1, <1>2, MakeInvariance, PTL DEF MakeSpec
=============================================================================
