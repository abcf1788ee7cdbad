------------------------------ MODULE BitLanes ------------------------------
(***************************************************************************)
(* Words and vector registers for the workers of bitshuffle_core.c.        *)
(*                                                                         *)
(* The workers never look at the data: they move bits, and the only        *)
(* arithmetic is XOR, AND with a constant and shifts.  So a bit is the set *)
(* of source bits whose XOR it is (a linear form over GF(2)), zero is the  *)
(* empty set, and one behaviour stands for every content of the buffer.    *)
(*                                                                         *)
(*   byte      function from 0..7 (bit 0 is the lowest) to bits            *)
(*   buffer    function from addresses to bytes                            *)
(*   word      function from 0..n-1 to bits, lowest bit first: a uint64_t  *)
(*             (n = 64) or a vector register (n = 128, 256, 512)           *)
(***************************************************************************)
EXTENDS Integers, Sequences, FiniteSets

Xor(f, g) == (f \ g) \union (g \ f)

(* The bits of n bytes of buffer m from address a on, in memory order: a   *)
(* little-endian or vector load.                                           *)
Load(m, a, n) == [i \in 0 .. (8 * n - 1) |-> m[a + (i \div 8)][i % 8]]

(* A 64-bit load on a big-endian machine: the first byte is the highest.   *)
LoadBE(m, a) == [i \in 0 .. 63 |-> m[a + 7 - (i \div 8)][i % 8]]

(* Byte k of a word. *)
ByteOf(x, k) == [b \in 0 .. 7 |-> x[8 * k + b]]

(* A store of the low n bytes of a word is a set of writes. *)
Store(a, x, n) == {<<a + k, ByteOf(x, k)>> : k \in 0 .. (n - 1)}

----------------------------------------------------------------------------
(* TRANS_BIT_8X8: three exchanges of bits at a distance under a mask.      *)

Exchange(x, n, mask) ==
  LET t == [i \in 0 .. 63 |->
              IF i \in mask THEN Xor(x[i], IF i + n < 64 THEN x[i + n] ELSE {})
                            ELSE {}]
  IN  [i \in 0 .. 63 |->
         Xor(Xor(x[i], t[i]), IF i >= n THEN t[i - n] ELSE {})]

(* What the macros do to a word whose bit i is the source bit i: the rows  *)
(* of the linear map, computed once.                                       *)
Own == [i \in 0 .. 63 |-> {i}]

AA == {i \in 0 .. 63 : (i \div 8) % 2 = 0 /\ i % 2 = 1}
CC == {i \in 0 .. 63 : (i \div 16) % 2 = 0 /\ i % 4 \in {2, 3}}
F0 == {i \in 0 .. 31 : i % 8 > 3}
TRANS_BIT_8X8 == Exchange(Exchange(Exchange(Own, 7, AA), 14, CC), 28, F0)

x55 == {i \in 0 .. 63 : (i \div 8) % 2 = 0 /\ i % 2 = 0}
x33 == {i \in 0 .. 63 : (i \div 16) % 2 = 0 /\ i % 4 \in {0, 1}}
x0F == {i \in 0 .. 31 : i % 8 < 4}
TRANS_BIT_8X8_BE == Exchange(Exchange(Exchange(Own, 9, x55), 18, x33), 36, x0F)

(* The linear map applied to a word: each bit is the XOR of those in its   *)
(* row, and what an even number of them have in common drops out.          *)
Through(rows, x) ==
  [i \in 0 .. 63 |->
     {f \in UNION {x[j] : j \in rows[i]} :
        Cardinality({j \in rows[i] : f \in x[j]}) % 2 = 1}]

----------------------------------------------------------------------------
(* The vector intrinsics the workers use.  unpacklo/unpackhi interleave    *)
(* units of w bytes of the low (half = 0) or high (half = 1) eight bytes   *)
(* of each 16-byte lane of p and q; vzip1q/vzip2q are the same operation.  *)

Unpack(w, half, p, q) ==
  [i \in DOMAIN p |->
     LET at   == (i % 128) \div 8
         unit == at \div w
         from == (128 * (i \div 128))
                   + (8 * ((8 * half) + ((unit \div 2) * w) + (at % w))) + (i % 8)
     IN  IF unit % 2 = 0 THEN p[from] ELSE q[from]]

(* One layer of a network: result k is an Unpack of two of the inputs,     *)
(* wiring[k] = <<half, first, second>>.                                    *)
Layer(w, v, wiring) ==
  [k \in DOMAIN wiring |->
     Unpack(w, wiring[k][1], v[wiring[k][2]], v[wiring[k][3]])]

(* _mm256_permute2x128_si256 with 32 (the low lanes) and 49 (the high).    *)
Permute2x128(p, q, high) ==
  [i \in 0 .. 255 |-> IF i < 128 THEN p[i + (128 * high)]
                                 ELSE q[i - 128 + (128 * high)]]

(* _mm*_slli_epi16(x, 1). *)
Shl16(x) == [i \in DOMAIN x |-> IF i % 16 = 0 THEN {} ELSE x[i - 1]]

(* kk shifts, then the top bit of every byte: _mm_movemask_epi8,           *)
(* _mm256_movemask_epi8, and _mm512_cmp_epi8_mask against zero with LT.    *)
MoveMask(x, kk) ==
  LET s[k \in 0 .. 7] == IF k = 0 THEN x ELSE Shl16(s[k - 1])
  IN  [j \in 0 .. ((Cardinality(DOMAIN x) \div 8) - 1) |-> s[kk][8 * j + 7]]

(* NEON has no movemask: vceqq spreads bit 7-k over its byte, vandq keeps  *)
(* one bit per byte and vpaddq adds neighbours; the bits added never meet, *)
(* so the sum is their XOR.                                                *)
Spread(x, k) ==
  [i \in DOMAIN x |-> IF i % 8 = (i \div 8) % 8 THEN x[(8 * (i \div 8)) + 7 - k]
                                                ELSE {}]
PairAdd(p, q) ==
  [i \in 0 .. 127 |->
     LET v    == IF i < 64 THEN p ELSE q
         lane == 16 * ((i % 64) \div 8)
     IN  Xor(v[lane + (i % 8)], v[lane + 8 + (i % 8)])]
neonmovemask_bulk(p0, p1, p2, p3) ==
  LET sum == PairAdd(PairAdd(p0, p1), PairAdd(p2, p3))
  IN  [i \in 0 .. 63 |-> PairAdd(sum, sum)[i]]
=============================================================================
