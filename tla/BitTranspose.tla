---------------------------- MODULE BitTranspose ----------------------------
(***************************************************************************)
(* bshuf_trans_bit_elem and bshuf_untrans_bit_elem of bitshuffle_core.c:   *)
(* the bit transpose of one block and its inverse, call by call.           *)
(*                                                                         *)
(* One behaviour is one block that is shuffled by some build of the file   *)
(* (the compile-time dispatch of lines 1831-1864) and, when that           *)
(* succeeded, unshuffled by some build, not always the same: an archive    *)
(* outlives the binary that wrote it.  Every malloc may fail.  The block   *)
(* is symbolic (BitLanes): bit k of it is the form {k}, and memory nobody  *)
(* has written holds forms no source bit has, so a byte that is left out   *)
(* or read too early shows in the result.                                  *)
(***************************************************************************)
EXTENDS BitWorkers

CONSTANTS Jobs,    \* the blocks: <<size in elements, elem_size in bytes>>
          Builds   \* \subseteq {"AVX512", "AVX2", "SSE2", "NEON", "LE", "BE"}

BuildNames == {"AVX512", "AVX2", "SSE2", "NEON", "LE", "BE"}

ASSUME JobsAssumption == Jobs \subseteq (Nat \ {0}) \X (Nat \ {0})
ASSUME BuildsAssumption == Builds \subseteq BuildNames

VARIABLES size, elem_size, \* the arguments of the call
          build,      \* whose code runs; "none" between calls
          side,       \* "shuffle", then "unshuffle"
          todo,       \* the next worker to call
          in, out,    \* the caller's buffers
          tmp,        \* tmp_buf of the driver, Free when not allocated
          chunk,      \* tmp_buf of bshuf_trans_byte_elem_SSE/NEON
          ret,        \* what the call returned, 0 before
          stray       \* a store fell outside its buffer or on another's byte

transVars == <<size, elem_size, build, side, todo, in, out, tmp, chunk, ret, stray>>

Free == <<>>
Source(n) == [a \in 0 .. (n - 1) |-> [b \in 0 .. 7 |-> {8 * a + b}]]
Junk(n)   == [a \in 0 .. (n - 1) |-> [b \in 0 .. 7 |-> {-1 - 8 * a - b}]]

(* A worker W is the sequence of its loops (BitWorkers). *)
Addresses(loop) == {w[1] : w \in loop}
Stores(W) == UNION {W[l] : l \in DOMAIN W}
DisjointLoops(W) ==
  \A k, l \in DOMAIN W : k # l => Addresses(W[k]) \intersect Addresses(W[l]) = {}

(* The effect of a worker's stores on its output buffer, and whether one   *)
(* falls outside it, on a byte of another loop, or on one that another     *)
(* iteration gives another value.                                          *)
Put(m, W) ==
  LET all == Stores(W)
  IN  [a \in DOMAIN m |-> LET hit == {w \in all : w[1] = a}
                          IN  IF hit = {} THEN m[a] ELSE (CHOOSE w \in hit : TRUE)[2]]
Strays(m, W) ==
  \/ ~ (Addresses(Stores(W)) \subseteq DOMAIN m)
  \/ ~ DisjointLoops(W)
  \/ \E l \in DOMAIN W : Cardinality(Addresses(W[l])) # Cardinality(W[l])

----------------------------------------------------------------------------
TransInit ==
  /\ \E j \in Jobs : size = j[1] /\ elem_size = j[2]
  /\ build = "none" /\ side = "shuffle" /\ todo = "call"
  /\ in = Source(size * elem_size) /\ out = Junk(size * elem_size)
  /\ tmp = Free /\ chunk = Free
  /\ ret = 0 /\ stray = FALSE

ReturnOf(r) == ret' = r /\ todo' = "done" /\ build' = "none"

(* Entry of either driver: the size check, then the driver's malloc.       *)
Call(b) ==
  /\ todo = "call"
  /\ \/ /\ size % 8 # 0
        /\ ReturnOf(-80)
        /\ UNCHANGED tmp
     \/ /\ size % 8 = 0
        /\ ReturnOf(-1)                                     \* malloc failed
        /\ UNCHANGED tmp
     \/ /\ size % 8 = 0
        /\ tmp' = Junk(size * elem_size)
        /\ build' = b
        /\ todo' = IF side = "shuffle" THEN "byte_elem" ELSE "byte_bitrow"
        /\ UNCHANGED ret
  /\ UNCHANGED <<size, elem_size, side, in, out, chunk, stray>>

TransByteElemVec(m, n, w) == IF build = "NEON" THEN TransByteElemNEON(m, n, w)
                                               ELSE TransByteElemSSE(m, n, w)

(* bshuf_trans_byte_elem of the build.  AVX2 and AVX512 use the SSE one.   *)
Scalar == build \in {"LE", "BE"}
Hierarchical == ~ Scalar /\ elem_size \notin {1, 2, 4, 8} /\ elem_size % 4 = 0

TransByteElemDirect ==
  CASE ~ Scalar /\ elem_size = 1 -> <<bshuf_copy(in, size, elem_size)>>
    [] ~ Scalar /\ elem_size \in {2, 4, 8} -> TransByteElemVec(in, size, elem_size)
    [] OTHER -> TransByteElemRemainder(in, size, elem_size, 0)

TransByteElem ==
  /\ todo = "byte_elem" /\ ~ Hierarchical
  /\ out' = Put(out, TransByteElemDirect)
  /\ stray' = (stray \/ Strays(out, TransByteElemDirect))
  /\ todo' = "bit_byte"
  /\ UNCHANGED <<size, elem_size, build, side, in, tmp, chunk, ret>>

(* A multiple of 4 or 8 bytes is transposed hierarchically, through a      *)
(* second temporary; when its malloc fails, the driver frees its own and   *)
(* returns the error.                                                      *)
Width == IF elem_size % 8 = 0 THEN 8 ELSE 4
nchunk_elem == elem_size \div Width

(* Mutant: the error of the inner malloc is returned without the free.     *)
SplitWithoutFree ==
  /\ todo = "byte_elem" /\ Hierarchical
  /\ \/ /\ ReturnOf(-1)
        /\ UNCHANGED <<tmp, out, chunk, stray>>
     \/ LET W == TransElemType(in, size, nchunk_elem, Width)
        IN  /\ chunk' = Junk(size * elem_size)
            /\ out' = Put(out, W)
            /\ stray' = (stray \/ Strays(out, W))
            /\ todo' = "chunks"
            /\ UNCHANGED <<tmp, build, ret>>
  /\ UNCHANGED <<size, elem_size, side, in>>

SplitIntoChunks ==
  /\ todo = "byte_elem" /\ Hierarchical
  /\ \/ /\ ReturnOf(-1)                                     \* malloc failed
        /\ tmp' = Free
        /\ UNCHANGED <<out, chunk, stray>>
     \/ LET W == TransElemType(in, size, nchunk_elem, Width)
        IN  /\ chunk' = Junk(size * elem_size)
            /\ out' = Put(out, W)
            /\ stray' = (stray \/ Strays(out, W))
            /\ todo' = "chunks"
            /\ UNCHANGED <<tmp, build, ret>>
  /\ UNCHANGED <<size, elem_size, side, in>>

TransByteChunks ==
  /\ todo = "chunks"
  /\ LET W == TransByteElemVec(out, size * nchunk_elem, Width)
     IN  chunk' = Put(chunk, W) /\ stray' = (stray \/ Strays(chunk, W))
  /\ todo' = "join"
  /\ UNCHANGED <<size, elem_size, build, side, in, out, tmp, ret>>

JoinChunks ==
  /\ todo = "join"
  /\ LET W == <<TransElem(chunk, Width, nchunk_elem, size)>>
     IN  out' = Put(out, W) /\ stray' = (stray \/ Strays(out, W))
  /\ chunk' = Free
  /\ todo' = "bit_byte"
  /\ UNCHANGED <<size, elem_size, build, side, in, tmp, ret>>

(* bshuf_trans_bit_byte of the build. *)
TransBitByteOf(b) ==
  CASE b = "AVX512" -> TransBitByteAVX512(out, size, elem_size)
    [] b = "AVX2"   -> TransBitByteAVX(out, size, elem_size)
    [] b = "SSE2"   -> TransBitByteSSE(out, size, elem_size)
    [] b = "NEON"   -> TransBitByteNEON(out, size, elem_size)
    [] OTHER        -> <<TransBitByteRemainder(out, size, elem_size, 0, b = "LE")>>

TransBitByte ==
  /\ todo = "bit_byte"
  /\ LET W == TransBitByteOf(build)
     IN  tmp' = Put(tmp, W) /\ stray' = (stray \/ Strays(tmp, W))
  /\ todo' = "bitrow_eight"
  /\ UNCHANGED <<size, elem_size, build, side, in, out, chunk, ret>>

(* bshuf_trans_bitrow_eight, free(tmp_buf) and the return of the driver.   *)
TransBitrow ==
  /\ todo = "bitrow_eight"
  /\ LET W == <<TransBitrowEight(tmp, size, elem_size)>>
     IN  out' = Put(out, W) /\ stray' = (stray \/ Strays(out, W))
  /\ tmp' = Free
  /\ ReturnOf(size * elem_size)
  /\ UNCHANGED <<size, elem_size, side, in, chunk>>

(* The shuffled block reaches the reader, who calls the inverse.           *)
Deliver ==
  /\ todo = "done" /\ side = "shuffle" /\ ret > 0
  /\ in' = out
  /\ out' = Junk(size * elem_size)
  /\ side' = "unshuffle"
  /\ todo' = "call"
  /\ ret' = 0
  /\ UNCHANGED <<size, elem_size, build, tmp, chunk, stray>>

TransByteBitrowOf(b) ==
  CASE b \in {"AVX512", "AVX2"} -> TransByteBitrowAVX(in, size, elem_size)
    [] b = "SSE2" -> TransByteBitrowSSE(in, size, elem_size)
    [] b = "NEON" -> TransByteBitrowNEON(in, size, elem_size)
    [] OTHER      -> <<TransByteBitrowScal(in, size, elem_size)>>

TransByteBitrow ==
  /\ todo = "byte_bitrow"
  /\ LET W == TransByteBitrowOf(build)
     IN  tmp' = Put(tmp, W) /\ stray' = (stray \/ Strays(tmp, W))
  /\ todo' = "bit_eightelem"
  /\ UNCHANGED <<size, elem_size, build, side, in, out, chunk, ret>>

ShuffleBitEightelemOf(b) ==
  CASE b = "AVX512" -> ShuffleBitEightelemAVX512(tmp, size, elem_size)
    [] b = "AVX2"   -> ShuffleBitEightelemAVX(tmp, size, elem_size)
    [] b = "SSE2"   -> ShuffleBitEightelemSSE(tmp, size, elem_size)
    [] b = "NEON"   -> ShuffleBitEightelemNEON(tmp, size, elem_size)
    [] OTHER        -> ShuffleBitEightelemScal(tmp, size, elem_size, b = "LE")

ShuffleBitEightelem ==
  /\ todo = "bit_eightelem"
  /\ LET W == <<ShuffleBitEightelemOf(build)>>
     IN  out' = Put(out, W) /\ stray' = (stray \/ Strays(out, W))
  /\ tmp' = Free
  /\ ReturnOf(size * elem_size)
  /\ UNCHANGED <<size, elem_size, side, in, chunk>>

(* The call after which nothing else is called.                            *)
Finished == todo = "done" /\ (side = "unshuffle" \/ ret < 0) /\ UNCHANGED transVars

TransNext ==
  \/ \E b \in Builds : Call(b)
  \/ TransByteElem \/ SplitIntoChunks \/ TransByteChunks \/ JoinChunks
  \/ TransBitByte \/ TransBitrow
  \/ Deliver
  \/ TransByteBitrow \/ ShuffleBitEightelem
  \/ Finished

TransSpec == TransInit /\ [][TransNext]_transVars

----------------------------------------------------------------------------
(* Buffers are whole, and the temporaries are allocated exactly while a    *)
(* worker needs them: whatever fails, a call that returned holds none.  No *)
(* worker stores outside its output buffer, no two loops of a worker store *)
(* to the same byte, not even the same value - with Transposed and         *)
(* Restored, wide loop and remainder meet exactly -, and no two iterations *)
(* of a loop store different values to one.                                *)
BuffersOK ==
  /\ <<size, elem_size>> \in Jobs
  /\ build \in Builds \union {"none"} /\ side \in {"shuffle", "unshuffle"}
  /\ DOMAIN in = 0 .. (size * elem_size - 1) /\ DOMAIN out = DOMAIN in
  /\ IF todo \in {"call", "done"} THEN tmp = Free /\ build = "none"
                               ELSE DOMAIN tmp = DOMAIN in /\ build # "none"
  /\ IF todo \in {"chunks", "join"} THEN DOMAIN chunk = DOMAIN in ELSE chunk = Free
  /\ ret \in {0, -1, -80, size * elem_size} /\ (ret = 0 <=> todo # "done")
  /\ ~ stray

(* A successful shuffle is the transpose of the bit matrix, whichever      *)
(* build ran: bit r of element i is bit i of row r of the output.  No      *)
(* store is missing, and the output of two builds is the same.             *)
Transposed ==
  (todo = "done" /\ side = "shuffle" /\ ret > 0) =>
    \A r \in 0 .. (8 * elem_size - 1), i \in 0 .. (size - 1) :
      out[(r * size + i) \div 8][(r * size + i) % 8] = {i * 8 * elem_size + r}

(* The inverse gives the block back, whichever build wrote it and          *)
(* whichever reads it.                                                     *)
Restored ==
  (todo = "done" /\ side = "unshuffle" /\ ret > 0) => out = Source(size * elem_size)
=============================================================================
