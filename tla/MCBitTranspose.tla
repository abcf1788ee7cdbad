--------------------------- MODULE MCBitTranspose ---------------------------
(* Blocks for TLC: element sizes on every path of the dispatch (1, 2, 4, 8 *)
(* direct; odd and twice odd scalar; the other multiples of 4 and 8 in     *)
(* chunks), sizes with and without a remainder for every register, blocks  *)
(* long enough for the wide loops over rows (16 and 32 bytes of a row),    *)
(* and one size the wrapper never passes.                                  *)
EXTENDS BitTranspose

MCJobs ==
  ({8, 16, 24, 40} \X ((1 .. 13) \union {16, 20, 24}))
  \union ({128, 136, 264} \X {1, 2, 3})
  \union {<<256, 4>>, <<264, 4>>, <<264, 8>>, <<264, 12>>, <<12, 2>>}
MCBuilds == BuildNames
=============================================================================
