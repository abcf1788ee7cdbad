---------------------------- MODULE MCRangeCoder ----------------------------
(* Bytes of two bits, words of four bytes and probabilities in eighths, a   *)
(* quarter of the distance moved at a time: the smallest sizes for which    *)
(* one byte makes up for the least probable bit, as 2048, 32 and 2 ^ 24 do. *)
(* Three calls are enough for a carry past bytes kept back.  A limit of 20  *)
(* bytes never ends the output, limits of 2 and 8 do.                       *)
EXTENDS RangeCoder

MCLimits  == {2, 8, 20}
MCMatches == {<<0, 1, 1>>}
=============================================================================
