----------------------------- MODULE BitWorkers -----------------------------
(***************************************************************************)
(* The worker functions of bitshuffle_core.c.  A worker reads the buffer   *)
(* "in" and stores into "out".  A loop is the set of its stores            *)
(* <<address, byte>>, and bits are linear forms (BitLanes); a worker of    *)
(* one loop is that loop, one of several (a wide loop and a remainder, one *)
(* in the function it calls included) the sequence of its loops, so that   *)
(* two of them that store to the same byte stay apart.  A loop             *)
(* "for (ii = a; ii + n - 1 < b; ii += n)" runs over Strides(a, b, n).     *)
(* All builds of the file are here: scalar on little- and big-endian       *)
(* machines, SSE2, AVX2, AVX512 and NEON.                                  *)
(***************************************************************************)
EXTENDS BitLanes

Strides(a, b, n) == {ii \in a .. (b - n) : (ii - a) % n = 0}

(***************************** scalar workers ******************************)

bshuf_copy(in, size, es) == {<<a, in[a]>> : a \in 0 .. (size * es - 1)}

(* Two loops: eight elements at a time, then the rest.  A start that is no *)
(* multiple of eight is refused before any store.                          *)
TransByteElemRemainder(in, size, es, start) ==
  IF start % 8 # 0 \/ size <= start THEN <<>>
  ELSE <<{<<jj * size + ii + kk, in[ii * es + kk * es + jj]>> :
            ii \in Strides(start, size, 8), jj \in 0 .. (es - 1), kk \in 0 .. 7},
         {<<jj * size + ii, in[ii * es + jj]>> :
            ii \in (size - (size % 8)) .. (size - 1), jj \in 0 .. (es - 1)}>>

TransBitByteRemainder(in, size, es, startByte, little) ==
  LET row    == (size * es) \div 8
      skip   == IF little THEN row ELSE -row
      offset == IF little THEN 0 ELSE 7 * row
      x(ii)  == IF little THEN Through(TRANS_BIT_8X8, Load(in, 8 * ii, 8))
                          ELSE Through(TRANS_BIT_8X8_BE, LoadBE(in, 8 * ii))
  IN  IF (size * es) % 8 # 0 \/ startByte % 8 # 0 THEN {}
      ELSE UNION {LET w == x(ii)
                  IN  {<<offset + kk * skip + ii, ByteOf(w, kk)>> : kk \in 0 .. 7} :
                     ii \in (startByte \div 8) .. (row - 1)}

(* TRANS_ELEM_TYPE for a type of w bytes, and bshuf_trans_elem.            *)
TransElemType(in, lda, ldb, w) ==
  <<{<<(jj * lda + ii + kk) * w + b, in[(ii * ldb + kk * ldb + jj) * w + b]>> :
       ii \in Strides(0, lda, 8), jj \in 0 .. (ldb - 1), kk \in 0 .. 7, b \in 0 .. (w - 1)},
    {<<(jj * lda + ii) * w + b, in[(ii * ldb + jj) * w + b]>> :
       ii \in (lda - (lda % 8)) .. (lda - 1), jj \in 0 .. (ldb - 1), b \in 0 .. (w - 1)}>>

TransElem(in, lda, ldb, es) ==
  {<<(jj * lda + ii) * es + b, in[(ii * ldb + jj) * es + b]>> :
     ii \in 0 .. (lda - 1), jj \in 0 .. (ldb - 1), b \in 0 .. (es - 1)}

TransBitrowEight(in, size, es) == TransElem(in, 8, es, size \div 8)

TransByteBitrowScal(in, size, es) ==
  LET row == size \div 8
  IN  {<<ii * 8 * es + jj * 8 + kk, in[(jj * 8 + kk) * row + ii]>> :
         jj \in 0 .. (es - 1), ii \in 0 .. (row - 1), kk \in 0 .. 7}

ShuffleBitEightelemScal(in, size, es, little) ==
  LET skip   == IF little THEN es ELSE -es
      offset == IF little THEN 0 ELSE 7 * es
      x(a)   == IF little THEN Through(TRANS_BIT_8X8, Load(in, a, 8))
                          ELSE Through(TRANS_BIT_8X8_BE, LoadBE(in, a))
  IN  UNION {LET w == x(ii + jj)
             IN  {<<ii + (jj \div 8) + offset + kk * skip, ByteOf(w, kk)>> : kk \in 0 .. 7} :
                jj \in Strides(0, 8 * es, 8), ii \in Strides(0, size * es, 8 * es)}

(***************************** vector workers ******************************)

(* The networks of bshuf_trans_byte_elem_SSE_16, _32 and _64: es vectors   *)
(* of sixteen bytes in, byte jj of sixteen elements in vector jj out.      *)
Pairs8(v) == Layer(1, v, [k \in DOMAIN v |->
                            LET odd == (k - 1) % 2 IN <<odd, k - odd, k - odd + 1>>])

Unzip(es, v) ==
  CASE es = 2 -> Pairs8(Pairs8(Pairs8(Pairs8(v))))
    [] es = 4 -> Layer(8, Pairs8(Pairs8(Pairs8(v))),
                       <<<<0, 1, 3>>, <<1, 1, 3>>, <<0, 2, 4>>, <<1, 2, 4>>>>)
    [] es = 8 -> Layer(8, Layer(4, Pairs8(Pairs8(v)),
                       <<<<0, 1, 3>>, <<1, 1, 3>>, <<0, 2, 4>>, <<1, 2, 4>>,
                         <<0, 5, 7>>, <<1, 5, 7>>, <<0, 6, 8>>, <<1, 6, 8>>>>),
                       <<<<0, 1, 5>>, <<1, 1, 5>>, <<0, 2, 6>>, <<1, 2, 6>>,
                         <<0, 3, 7>>, <<1, 3, 7>>, <<0, 4, 8>>, <<1, 4, 8>>>>)

TransByteElemSSE(in, size, es) ==
  <<UNION {LET v == Unzip(es, [k \in 1 .. es |-> Load(in, es * ii + (k - 1) * 16, 16)])
           IN  UNION {Store((k - 1) * size + ii, v[k], 16) : k \in 1 .. es} :
              ii \in Strides(0, size, 16)}>>
  \o TransByteElemRemainder(in, size, es, size - (size % 16))

(* vzip1q and vzip2q are unpacklo and unpackhi: the same three networks.   *)
TransByteElemNEON(in, size, es) == TransByteElemSSE(in, size, es)

(* Bits within bytes with registers of w bytes, from byte "from" on.       *)
TransBitByteMask(in, size, es, from, w) ==
  UNION {Store(((7 - kk) * size * es + ii) \div 8,
               MoveMask(Load(in, ii, w), kk), w \div 8) :
           ii \in Strides(from, size * es, w), kk \in 0 .. 7}

(* Mutant: the remainder starts where the one of the SSE version does.     *)
RemainderAsSSE(in, size, es) ==
  <<TransBitByteMask(in, size, es, 0, 32),
    TransBitByteRemainder(in, size, es, size * es - ((size * es) % 16), TRUE)>>

(* Mutant: the remainder does the whole buffer again, with the same bytes. *)
RemainderFromZero(in, size, es) ==
  <<TransBitByteMask(in, size, es, 0, 32),
    TransBitByteRemainder(in, size, es, 0, TRUE)>>

TransBitByteSSE(in, size, es) ==
  <<TransBitByteMask(in, size, es, 0, 16),
    TransBitByteRemainder(in, size, es, size * es - ((size * es) % 16), TRUE)>>

TransBitByteAVX(in, size, es) ==
  <<TransBitByteMask(in, size, es, 0, 32),
    TransBitByteRemainder(in, size, es, size * es - ((size * es) % 32), TRUE)>>

TransBitByteAVX512(in, size, es) ==
  <<TransBitByteMask(in, size, es, 0, 64),
    TransBitByteMask(in, size, es, size * es - ((size * es) % 64), 32),
    TransBitByteRemainder(in, size, es, size * es - (((size * es) % 64) % 32), TRUE)>>

(* The eight 16-bit rows NEON extracts from sixteen bytes. *)
NeonRows(x) ==
  LET lo == neonmovemask_bulk(Spread(x, 0), Spread(x, 1), Spread(x, 2), Spread(x, 3))
      hi == neonmovemask_bulk(Spread(x, 4), Spread(x, 5), Spread(x, 6), Spread(x, 7))
  IN  [kk \in 0 .. 7 |-> [i \in 0 .. 15 |->
         IF kk < 4 THEN lo[16 * kk + i] ELSE hi[16 * (kk - 4) + i]]]

NeonStores(in, size, es) ==
  UNION {LET rows == NeonRows(Load(in, ii, 16))
         IN  UNION {Store(((7 - kk) * size * es + ii) \div 8, rows[kk], 2) : kk \in 0 .. 7} :
            ii \in Strides(0, size * es, 16)}

TransBitByteNEON(in, size, es) ==
  <<NeonStores(in, size, es),
    TransBitByteRemainder(in, size, es, size * es - ((size * es) % 16), TRUE)>>

(* The first three layers of the bitrow transposes: eight rows of bits in, *)
(* vector m holds columns 2m (low eight bytes of each lane) and 2m+1 out.  *)
Columns(v) ==
  LET a == Layer(1, v, <<<<0, 1, 2>>, <<0, 3, 4>>, <<0, 5, 6>>, <<0, 7, 8>>,
                         <<1, 1, 2>>, <<1, 3, 4>>, <<1, 5, 6>>, <<1, 7, 8>>>>)
      b == Layer(2, a, <<<<0, 1, 2>>, <<0, 3, 4>>, <<1, 1, 2>>, <<1, 3, 4>>,
                         <<0, 5, 6>>, <<0, 7, 8>>, <<1, 5, 6>>, <<1, 7, 8>>>>)
  IN  Layer(4, b, <<<<0, 1, 2>>, <<1, 1, 2>>, <<0, 3, 4>>, <<1, 3, 4>>,
                    <<0, 5, 6>>, <<1, 5, 6>>, <<0, 7, 8>>, <<1, 7, 8>>>>)

(* SSE2 and NEON store the two halves of each vector as two columns.       *)
TransByteBitrowSSE(in, size, es) ==
  LET nrows == 8 * es
      row   == size \div 8
      wide(ii, jj) ==
        LET v == Columns([k \in 1 .. 8 |-> Load(in, (ii + k - 1) * row + jj, 16)])
        IN  UNION {Store((jj + 2 * m) * nrows + ii, v[m + 1], 8)
                     \union Store((jj + 2 * m + 1) * nrows + ii,
                                  [i \in 0 .. 63 |-> v[m + 1][64 + i]], 8) : m \in 0 .. 7}
  IN  <<UNION {wide(ii, jj) : ii \in Strides(0, nrows, 8), jj \in Strides(0, row, 16)},
        {<<jj * nrows + ii + k, in[(ii + k) * row + jj]>> :
           ii \in Strides(0, nrows, 8), k \in 0 .. 7,
           jj \in (row - (row % 16)) .. (row - 1)}>>

TransByteBitrowNEON(in, size, es) == TransByteBitrowSSE(in, size, es)

(* AVX2 gathers four bytes of an element before it stores: two more layers *)
(* join the columns of four groups of eight rows into 32-byte stores.      *)
TransByteBitrowAVX(in, size, es) ==
  LET nrows == 8 * es
      row   == size \div 8
      wide(ii, jj) ==
        LET v == [hh \in 1 .. 4 |-> Columns([k \in 1 .. 8 |->
                     Load(in, (ii * 8 + (hh - 1) * 8 + k - 1) * row + jj, 32)])]
            four(mm) == Layer(8, [hh \in 1 .. 4 |-> v[hh][mm + 1]],
                     <<<<0, 1, 2>>, <<0, 3, 4>>, <<1, 1, 2>>, <<1, 3, 4>>>>)
            at(mm, n) == (jj + mm * 2 + n) * nrows + ii * 8
        IN  UNION {LET y == four(mm)
                   IN  Store(at(mm, 0), Permute2x128(y[1], y[2], 0), 32)
                       \union Store(at(mm, 1), Permute2x128(y[3], y[4], 0), 32)
                       \union Store(at(mm, 16), Permute2x128(y[1], y[2], 1), 32)
                       \union Store(at(mm, 17), Permute2x128(y[3], y[4], 1), 32) :
                     mm \in 0 .. 7}
  IN  IF es % 4 # 0 THEN TransByteBitrowSSE(in, size, es)
      ELSE <<UNION {wide(ii, jj) : ii \in Strides(0, es, 4), jj \in Strides(0, row, 32)},
             {<<jj * nrows + ii, in[ii * row + jj]>> :
                ii \in 0 .. (nrows - 1), jj \in (row - (row % 32)) .. (row - 1)}>>

(* Bits of eight-element blocks with registers of w bytes. *)
ShuffleBitEightelemMask(in, size, es, w) ==
  UNION {Store(ii + (jj \div 8) + (7 - kk) * es,
               MoveMask(Load(in, ii + jj, w), kk), w \div 8) :
           ii \in Strides(0, size * es, 8 * es), jj \in Strides(0, 8 * es, w),
           kk \in 0 .. 7}

ShuffleBitEightelemSSE(in, size, es) ==
  IF es % 2 # 0 THEN ShuffleBitEightelemScal(in, size, es, TRUE)
                ELSE ShuffleBitEightelemMask(in, size, es, 16)

ShuffleBitEightelemAVX(in, size, es) ==
  IF es % 4 # 0 THEN ShuffleBitEightelemSSE(in, size, es)
                ELSE ShuffleBitEightelemMask(in, size, es, 32)

(* Mutant: AVX512 for the element sizes AVX2 takes. *)
WideForFourBytes(in, size, es) ==
  IF es % 4 # 0 THEN ShuffleBitEightelemAVX(in, size, es)
                ELSE ShuffleBitEightelemMask(in, size, es, 64)

ShuffleBitEightelemAVX512(in, size, es) ==
  IF es % 8 # 0 THEN ShuffleBitEightelemAVX(in, size, es)
                ELSE ShuffleBitEightelemMask(in, size, es, 64)

NeonEightelem(in, size, es) ==
  UNION {LET rows == NeonRows(Load(in, ii + jj, 16))
         IN  UNION {Store(ii + (jj \div 8) + (7 - kk) * es, rows[kk], 2) : kk \in 0 .. 7} :
           ii \in Strides(0, size * es, 8 * es), jj \in Strides(0, 8 * es, 16)}

ShuffleBitEightelemNEON(in, size, es) ==
  IF es % 2 # 0 THEN ShuffleBitEightelemScal(in, size, es, TRUE)
                ELSE NeonEightelem(in, size, es)
=============================================================================
