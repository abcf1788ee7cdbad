---------------------------- MODULE MCArithCoder ----------------------------
(* Words of five bits, so 32 for 2 ^ 32 and 8, a quarter of it, for the     *)
(* total of 2 ^ 30; products have ten bits.  Bytes of three bits: the       *)
(* output ends on every position in a byte.  The predictors include ones    *)
(* that are sure (0 and 8, to be clamped) and ones that keep the interval   *)
(* about the middle.                                                        *)
EXTENDS ArithCoder

MCPower      == [n \in 0 .. StateBits |-> 2 ^ n]
MCInputs     == [1 .. 3 -> {0, 1}] \cup [1 .. 6 -> {0, 1}]
MCPredictors == [[1 .. Context -> {0, 1}] -> {0, 3, 4, 8}]
=============================================================================
