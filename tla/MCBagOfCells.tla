---------------------------- MODULE MCBagOfCells ----------------------------
(* Every bag of up to four cells with up to two references each, under      *)
(* every gene.  A byte has four values here, so that a bag of four cells is *)
(* the smallest one whose references take two bytes.  A cell is empty or    *)
(* holds bytes no other cell holds, one or two of them, so that a payload   *)
(* read at a wrong offset shows.                                            *)
EXTENDS BagOfCells

MCPayloads == [c \in 0 .. 3 |-> {<<>>, IF c % 2 = 0 THEN <<c>> ELSE <<c, c>>}]
=============================================================================
