---------------------------- MODULE MCCrossover ----------------------------
(* All parents of up to four cells, every part kept, one swap. *)
EXTENDS Crossover
=============================================================================
