------------------------------ MODULE BlockMap ------------------------------
(***************************************************************************)
(* What blocked (un)shuffling promises its caller, whatever the block size *)
(* and the number of threads that work on it: the output is filled region  *)
(* by region, no byte twice, each region from the input region at the same *)
(* place; the call answers the size of the buffer only when every byte has *)
(* been written, and otherwise a negative error code.                      *)
(***************************************************************************)
EXTENDS Integers

CONSTANT Total   \* the size of the whole buffer in bytes

VARIABLES
  filled,   \* pairs <<destination, source>> of the output bytes written so far
  result    \* the value returned, 0 until the call returns

Offsets == 0 .. Total - 1
Everything == {<<b, b>> : b \in Offsets}

Init == filled = {} /\ result = 0

Write ==
  /\ result = 0
  /\ \E lo, hi \in Offsets :
       LET region == {<<b, b>> : b \in lo .. hi}
       IN  region \cap filled = {} /\ filled' = filled \union region
  /\ UNCHANGED result

Succeed ==
  /\ result = 0
  /\ filled = Everything
  /\ result' = Total
  /\ UNCHANGED filled

Fail ==
  /\ result = 0
  /\ filled # Everything
  /\ result' < 0
  /\ UNCHANGED filled

Next == Write \/ Succeed \/ Fail

Spec == Init /\ [][Next]_<<filled, result>>
=============================================================================
