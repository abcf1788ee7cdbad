------------------------------ MODULE MCEvolve ------------------------------
(* Three permutations that give blocks of different lengths, for three ticks *)
(* of the clock.                                                             *)
EXTENDS Evolve

MCPerms  == {"p", "q", "r"}
MCLength == [x \in MCPerms |-> CASE x = "p" -> 5 [] x = "q" -> 4 [] OTHER -> 3]
=============================================================================
