------------------------------- MODULE Digits -------------------------------
(***************************************************************************)
(* Numbers written as sequences of digits: what the output of a range      *)
(* coder (bytes) or of an arithmetic coder (bits) says as a number, and    *)
(* what fits the bytes of a field.                                         *)
(***************************************************************************)
EXTENDS Integers, Sequences

(* The number that digits write, the most significant first. *)
Numeral(base, digits) ==
  LET upTo[n \in 0 .. Len(digits)] ==
        IF n = 0 THEN 0 ELSE upTo[n - 1] * base + digits[n]
  IN  upTo[Len(digits)]

(* A one with some zeros behind it. *)
PowerOf(base, zeros) == Numeral(base, <<1>> \o [k \in 1 .. zeros |-> 0])

(* Digits that all count the same are added. *)
Sum(numbers) == Numeral(1, numbers)
=============================================================================
