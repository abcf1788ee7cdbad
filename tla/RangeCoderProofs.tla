--------------------------- MODULE RangeCoderProofs ---------------------------
(***************************************************************************)
(* Proofs about RangeCoder, for every width of a byte, every total and     *)
(* shift of the probabilities that satisfy ShareAssumption, and scripts    *)
(* and outputs of any length.                                              *)
(*                                                                         *)
(* IInv bounds the interval of the encoder: its low end and range together *)
(* stay below twice a word, and below one word while the byte kept back    *)
(* cannot be raised.  Coded says that the trail is the run of an ideal     *)
(* coder, whose low end is a number of any length, and that the bytes      *)
(* written stand for it.  Each interval of that run lies in the one        *)
(* before, so the bytes of the flush, a point of the last, are a point of  *)
(* all of them (AllHold, backwards along the trail).  Decoded follows: the *)
(* decoder finds that point in the interval the encoder had.               *)
(***************************************************************************)
EXTENDS RangeCoder, DivModFacts, SequenceTheorems, TLAPS

-----------------------------------------------------------------------------
(* Arithmetic.                                                              *)

LEMMA Sizes ==
  /\ Base \in Nat /\ Base >= 4 /\ Threshold \in Nat /\ Threshold >= 4
  /\ Word = Base * Threshold /\ Word \in Nat /\ Word > Threshold
  /\ Top = Base - 1 /\ Top * Threshold = Word - Threshold
<1>1. Base \in Nat /\ Base >= 4
  BY SizesAssumption
<1>2. Base * Base \in Nat /\ Base * Base >= 4
  BY <1>1
<1> DEFINE S == Base * Base
<1>3. S * Base \in Nat /\ S * Base >= S
  <2> HIDE DEF S
  <2> QED BY <1>1, <1>2 DEF S
<1>4. Threshold \in Nat /\ Threshold >= 4
  BY <1>2, <1>3 DEF Threshold
<1>5. Base * Threshold \in Nat /\ Base * Threshold >= 4 * Threshold
  BY <1>1, <1>4
<1>6. (Base - 1) * Threshold = Base * Threshold - Threshold
  BY <1>1, <1>4
<1> QED BY <1>1, <1>4, <1>5, <1>6 DEF Word, Top

(* Shifting a word by a byte drops its top byte. *)
LEMMA ShiftMod ==
  ASSUME NEW x \in Nat
  PROVE  /\ (x * Base) % Word = Base * (x % Threshold)
         /\ x % Threshold \in 0 .. Threshold - 1
         /\ Base * (x % Threshold) \in 0 .. Word - Base
<1> DEFINE r == x % Threshold
           q == x \div Threshold
<1>1. r \in 0 .. Threshold - 1 /\ q \in Nat /\ x = Threshold * q + r
  BY DivMod, Sizes
<1> HIDE DEF r, q
<1>2. x * Base = Base * (Threshold * q) + Base * r
  BY <1>1, Sizes
<1>3. Base * (Threshold * q) = (Base * Threshold) * q
  BY <1>1, Sizes
<1>4. x * Base - Base * r = Word * q
  <2>1. Base * r \in Nat /\ x * Base \in Nat /\ (Base * Threshold) * q \in Nat
    BY <1>1, Sizes
  <2> QED BY <2>1, <1>2, <1>3, Sizes
<1>5. Base * r >= 0 /\ Base * r <= Base * (Threshold - 1)
  BY <1>1, Sizes
<1>6. Base * (Threshold - 1) = Word - Base
  BY Sizes
<1>7. Base * r \in 0 .. Word - Base /\ Base * r \in Nat /\ x * Base \in Nat
  BY <1>1, <1>5, <1>6, Sizes
<1>8. (x * Base) % Word = (Base * r) % Word
  <2> DEFINE a == x * Base
             b == Base * r
  <2>1. a \in Nat /\ b \in Nat /\ q \in Int /\ Word \in Nat /\ Word > 0 /\ a - b = Word * q
    BY <1>1, <1>4, <1>7, Sizes
  <2> HIDE DEF a, b
  <2>2. a % Word = b % Word
    BY <2>1, ModMultiple, ZenonT(40)
  <2> QED BY <2>2 DEF a, b
<1>9. (Base * r) % Word = Base * r
  BY <1>7, Sizes
<1> QED BY <1>1, <1>7, <1>8, <1>9 DEF r

(* The top byte of a word. *)
LEMMA TopByte ==
  ASSUME NEW x \in 0 .. Word - 1
  PROVE  /\ x \div Threshold \in Byte
         /\ x = Threshold * (x \div Threshold) + (x % Threshold)
         /\ x >= Top * Threshold => x \div Threshold = Top
         /\ x < Top * Threshold => x \div Threshold < Top
<1> DEFINE r == x % Threshold
           q == x \div Threshold
<1>1. r \in 0 .. Threshold - 1 /\ q \in Nat /\ x = Threshold * q + r
  BY DivMod, Sizes
<1> HIDE DEF r, q
<1>2. q >= Base => Threshold * q >= Threshold * Base
  BY <1>1, Sizes
<1>3. Threshold * Base = Word
  BY Sizes
<1>4. q < Base
  BY <1>1, <1>2, <1>3, Sizes
<1>5. q <= Top - 1 => Threshold * q <= Threshold * (Top - 1)
  BY <1>1, Sizes
<1>6. Threshold * (Top - 1) = Top * Threshold - Threshold
  BY Sizes
<1>7. q >= Top => Threshold * q >= Threshold * Top
  BY <1>1, Sizes
<1>8. Threshold * Top = Top * Threshold
  BY Sizes
<1> QED BY <1>1, <1>4, <1>5, <1>6, <1>7, <1>8, Sizes DEF Byte, r, q

-----------------------------------------------------------------------------
(* Probabilities.                                                           *)

LEMMA Shrink ==
  ASSUME NEW n \in Nat, n >= Move - 1
  PROVE  n - n \div Move \in Nat /\ n - n \div Move >= Move - 1 /\ n - n \div Move <= n
<1> DEFINE q == n \div Move
           r == n % Move
<1>0. Move \in Nat /\ Move >= 2
  BY SizesAssumption
<1>1. q \in Nat /\ r \in 0 .. Move - 1 /\ n = Move * q + r
  BY <1>0, DivMod
<1> HIDE DEF q, r
<1>2. n - q = (Move - 1) * q + r
  BY <1>0, <1>1
<1>3. q >= 1 => (Move - 1) * q >= Move - 1
  BY <1>0, <1>1
<1>4. (Move - 1) * q >= 0
  BY <1>0, <1>1
<1>5. CASE q = 0
  BY <1>0, <1>1, <1>5 DEF q
<1>6. CASE q >= 1
  <2>1. (Move - 1) * q \in Nat
    BY <1>0, <1>1
  <2> QED BY <1>0, <1>1, <1>2, <1>3, <1>6, <2>1 DEF q
<1> QED BY <1>1, <1>5, <1>6

LEMMA HalfIsShare == Total \div 2 \in Shares
<1>1. Total \in Nat /\ Move \in Nat /\ Move >= 2 /\ Move - 1 <= Total \div 2
  BY SizesAssumption, ShareAssumption
<1>2. Total \div 2 \in Nat /\ 2 * (Total \div 2) <= Total
  BY <1>1
<1> QED BY <1>1, <1>2 DEF Shares

(* However often a probability is moved, it stays a share. *)
LEMMA AdaptStays ==
  ASSUME NEW p \in Shares, NEW bit \in {0, 1}
  PROVE  Adapt(p, bit) \in Shares
<1>1. Total \in Nat /\ Move \in Nat /\ Move >= 2
  BY SizesAssumption
<1>2. p \in Nat /\ p >= Move - 1 /\ Total - p \in Nat /\ Total - p >= Move - 1
  BY <1>1 DEF Shares
<1>3. CASE bit = 0
  <2> DEFINE s == Total - p
             d == s \div Move
  <2>1. s - d \in Nat /\ s - d >= Move - 1 /\ s - d <= s
    BY <1>2, Shrink
  <2>2. d \in Int
    BY <1>1, <1>2
  <2> HIDE DEF d
  <2>3. p + d \in Move - 1 .. Total - (Move - 1)
    BY <1>1, <1>2, <2>1, <2>2
  <2> QED BY <1>3, <2>3 DEF Adapt, Shares, d
<1>4. CASE bit = 1
  <2> DEFINE d == p \div Move
  <2>1. p - d \in Nat /\ p - d >= Move - 1 /\ p - d <= p
    BY <1>2, Shrink
  <2>2. p - d \in Move - 1 .. Total - (Move - 1)
    BY <1>1, <1>2, <2>1
  <2> QED BY <1>4, <2>2 DEF Adapt, Shares
<1> QED BY <1>3, <1>4

(* After a bit of any share of a normalised range, one byte is enough. *)
LEMMA SplitIsEnough ==
  ASSUME NEW range \in Nat, NEW p \in Shares
  PROVE  LET b == Bound(range, p)
         IN  /\ b \in Nat /\ b <= range
             /\ range >= Threshold => /\ b * Base >= Threshold
                                      /\ (range - b) * Base >= Threshold
<1> DEFINE u == range \div Total
           v == Threshold \div Total
           b == u * p
           m == Move - 1
<1>1. Total \in Nat /\ Total >= 2 /\ m \in Nat /\ m >= 1
  BY SizesAssumption
<1>2. p \in Nat /\ p >= m /\ Total - p \in Nat /\ Total - p >= m
  BY <1>1, SizesAssumption DEF Shares
<1>3. u \in Nat /\ range = Total * u + (range % Total) /\ range % Total \in 0 .. Total - 1
  BY <1>1, DivMod
<1>4. v \in Nat /\ Threshold = Total * v + (Threshold % Total)
      /\ Threshold % Total \in 0 .. Total - 1
  BY <1>1, Sizes, DivMod
<1>5. (v * m) * Base >= Threshold
  BY ShareAssumption
<1> HIDE DEF u, v, m
<1>6. b \in Nat /\ u * (Total - p) \in Nat /\ u * Total \in Nat
  BY <1>1, <1>2, <1>3
<1>7. u * Total = b + u * (Total - p)
  BY <1>1, <1>2, <1>3
<1>8. range >= u * Total
  BY <1>1, <1>3
<1>9. b <= range /\ range - b >= u * (Total - p)
  BY <1>6, <1>7, <1>8
<1>10. ASSUME range >= Threshold
       PROVE  b * Base >= Threshold /\ (range - b) * Base >= Threshold
  <2>1. u >= v
    <3>1. SUFFICES ASSUME u <= v - 1 PROVE FALSE
      BY <1>3, <1>4
    <3>2. Total * u <= Total * (v - 1)
      BY <3>1, <1>1, <1>3, <1>4
    <3>3. Total * (v - 1) = Total * v - Total
      BY <1>1, <1>4
    <3> QED BY <3>2, <3>3, <1>10, <1>1, <1>3, <1>4, Sizes
  <2>2. u * m >= v * m /\ u * m \in Nat /\ v * m \in Nat
    BY <2>1, <1>1, <1>3, <1>4
  <2>3. b >= u * m /\ u * (Total - p) >= u * m
    BY <1>1, <1>2, <1>3
  <2>4. b >= v * m /\ range - b >= v * m /\ range - b \in Nat
    BY <2>2, <2>3, <1>6, <1>9
  <2>5. b * Base >= (v * m) * Base /\ (range - b) * Base >= (v * m) * Base
    <3> DEFINE x == v * m
               y == range - b
    <3>1. x \in Nat /\ y \in Nat /\ b >= x /\ y >= x
      BY <2>2, <2>4
    <3> HIDE DEF x, y, b
    <3>2. \A n \in Nat : n >= x => n * Base >= x * Base
      BY <3>1, Sizes
    <3> QED BY <3>1, <3>2, <1>6 DEF x, y
  <2>6. b * Base \in Nat /\ (range - b) * Base \in Nat /\ (v * m) * Base \in Nat
    BY <2>4, <1>6, <2>2, Sizes
  <2> QED BY <2>5, <2>6, <1>5, Sizes
<1> QED BY <1>6, <1>9, <1>10 DEF Bound, u

LEMMA HalfIsEnough ==
  ASSUME NEW range \in Nat
  PROVE  LET h == range \div 2
         IN  h \in Nat /\ 2 * h <= range /\ (range >= Threshold => h * Base >= Threshold)
<1> DEFINE h == range \div 2
<1>1. h \in Nat /\ 2 * h <= range /\ range <= 2 * h + 1
  OBVIOUS
<1> HIDE DEF h
<1>2. h * Base >= h * 4
  BY <1>1, Sizes
<1>3. h * Base \in Nat
  BY <1>1, Sizes
<1> QED BY <1>1, <1>2, <1>3, Sizes DEF h

-----------------------------------------------------------------------------
(* The encoder: where its interval may lie.                                 *)

(* With the carry set, or with a byte 0xFF kept back, the interval does not *)
(* reach into the next word: there is no second carry, and none that such a *)
(* byte would have to take.                                                 *)
Restrained(e) ==
  /\ e.carry = 1 => e.low + e.range <= Word
  /\ e.cache = Top => e.carry = 0 /\ e.low + e.range <= Word

EncOK(e) == e \in Encoders /\ Len(e.written) <= limit /\ Restrained(e)

Wide(range) == range * Base >= Threshold

(* rangeEncodeOutByte changes the output and the overflow flag only. *)
LEMMA OutBytesOK ==
  ASSUME limit \in Nat, NEW e \in Encoders, Len(e.written) <= limit,
         NEW bytes \in Seq(Byte)
  PROVE  \E w \in Seq(Byte) : \E o \in BOOLEAN :
           /\ Len(w) <= limit
           /\ OutBytes(e, bytes) = [e EXCEPT !.written = w, !.overflow = o]
<1> DEFINE room == limit - Len(e.written)
<1>1. e.written \in Seq(Byte) /\ e.overflow \in BOOLEAN /\ room \in Nat /\ Len(bytes) \in Nat
  BY DEF Encoders
<1>2. CASE Len(bytes) <= room
  <2> DEFINE w == e.written \o bytes
  <2>1. w \in Seq(Byte) /\ Len(w) <= limit
    BY <1>1, <1>2
  <2>2. OutBytes(e, bytes) = [e EXCEPT !.written = w, !.overflow = e.overflow]
    BY <1>2 DEF OutBytes, Encoders
  <2> HIDE DEF w
  <2> QED BY <1>1, <2>1, <2>2, Zenon
<1>3. CASE Len(bytes) > room
  <2> DEFINE t == SubSeq(bytes, 1, room)
             w == e.written \o t
  <2>1. t \in Seq(Byte) /\ Len(t) = room
    <3>1. \A k \in 1 .. room : bytes[k] \in Byte
      BY <1>1, <1>3
    <3>2. t \in Seq(Byte) /\ Len(t) = IF 1 <= room THEN room - 1 + 1 ELSE 0
      BY <1>1, <3>1, SubSeqProperties
    <3> HIDE DEF t, room
    <3>3. (IF 1 <= room THEN room - 1 + 1 ELSE 0) = room
      BY <1>1
    <3> QED BY <3>2, <3>3
  <2> HIDE DEF t
  <2>2. w \in Seq(Byte) /\ Len(w) = Len(e.written) + room
    BY <1>1, <2>1
  <2>3. Len(w) <= limit
    BY <2>2, <1>1
  <2>4. ~(Len(bytes) <= room)
    BY <1>1, <1>3
  <2>5. OutBytes(e, bytes) = [e EXCEPT !.written = w, !.overflow = TRUE]
    BY <2>4 DEF OutBytes, t
  <2> HIDE DEF w
  <2> QED BY <2>2, <2>3, <2>5, Zenon
<1>4. Len(bytes) <= room \/ Len(bytes) > room
  BY <1>1
<1> QED BY <1>2, <1>3, <1>4, Zenon

LEMMA CopiesAreBytes ==
  ASSUME NEW n \in Nat, NEW first \in Byte, NEW byte \in Byte
  PROVE  <<first>> \o Copies(n, byte) \in Seq(Byte)
<1>1. Copies(n, byte) \in Seq(Byte)
  BY DEF Copies
<1>2. <<first>> \in Seq(Byte)
  OBVIOUS
<1> QED BY <1>1, <1>2

(* What may be kept back after a byte was let go: 0xFF only if no carry can *)
(* come to it.                                                              *)
LEMMA ReleaseOK ==
  ASSUME limit \in Nat, NEW e, EncOK(e), e.range < Threshold
  PROVE  \E w \in Seq(Byte) : \E o \in BOOLEAN : \E c \in Byte : \E n \in Nat :
           /\ Len(w) <= limit
           /\ c = Top => (e.low % Threshold) + e.range <= Threshold
           /\ Release(e) = [e EXCEPT !.written = w, !.overflow = o,
                                     !.cache = c, !.cacheSize = n]
<1> DEFINE q == e.low \div Threshold
           r == e.low % Threshold
<1>1. /\ e \in Encoders /\ e.low \in 0 .. Word - 1 /\ e.range \in Nat /\ e.cache \in Byte
      /\ e.cacheSize \in Nat \ {0} /\ e.written \in Seq(Byte) /\ Len(e.written) <= limit
      /\ e.carry \in {0, 1} /\ e.overflow \in BOOLEAN
  BY Sizes DEF EncOK, Encoders
<1>2. /\ q \in Byte /\ r \in 0 .. Threshold - 1
      /\ e.low = Threshold * q + r
      /\ e.low >= Top * Threshold => q = Top
      /\ e.low < Top * Threshold => q < Top
  <2>1. r \in 0 .. Threshold - 1
    BY <1>1, DivMod, Sizes
  <2>2. /\ q \in Byte /\ e.low = Threshold * q + r
        /\ e.low >= Top * Threshold => q = Top
        /\ e.low < Top * Threshold => q < Top
    BY <1>1, TopByte
  <2> QED BY <2>1, <2>2
<1> HIDE DEF q, r
<1>3. e.low >= Top * Threshold /\ e.low + e.range <= Word => r + e.range <= Threshold
  <2>1. Threshold * Top = Word - Threshold
    BY Sizes
  <2> SUFFICES ASSUME e.low >= Top * Threshold, e.low + e.range <= Word
               PROVE  r + e.range <= Threshold
    OBVIOUS
  <2>2. q = Top
    BY <1>2
  <2>3. e.low = Word - Threshold + r
    BY <1>2, <2>1, <2>2
  <2> QED BY <1>1, <1>2, <2>3, Sizes
<1>4. ASSUME NEW first \in Byte, NEW others \in Byte,
             Release(e) = [OutBytes(e, <<first>> \o Copies(e.cacheSize - 1, others))
                             EXCEPT !.cache = e.low \div Threshold, !.cacheSize = 0],
             q = Top => r + e.range <= Threshold
      PROVE  \E w \in Seq(Byte) : \E o \in BOOLEAN : \E c \in Byte : \E n \in Nat :
               /\ Len(w) <= limit
               /\ c = Top => r + e.range <= Threshold
               /\ Release(e) = [e EXCEPT !.written = w, !.overflow = o,
                                         !.cache = c, !.cacheSize = n]
  <2> DEFINE bytes == <<first>> \o Copies(e.cacheSize - 1, others)
  <2>1. bytes \in Seq(Byte)
    <3>1. e.cacheSize - 1 \in Nat
      BY <1>1
    <3> QED BY <3>1, <1>4, CopiesAreBytes
  <2> HIDE DEF bytes
  <2>2. PICK w \in Seq(Byte), o \in BOOLEAN :
          /\ Len(w) <= limit
          /\ OutBytes(e, bytes) = [e EXCEPT !.written = w, !.overflow = o]
    BY <1>1, <2>1, OutBytesOK, Zenon
  <2>3. Release(e) = [[e EXCEPT !.written = w, !.overflow = o]
                        EXCEPT !.cache = q, !.cacheSize = 0]
    BY <1>4, <2>2 DEF bytes, q
  <2>4. Release(e) = [e EXCEPT !.written = w, !.overflow = o, !.cache = q, !.cacheSize = 0]
    BY <2>3
  <2>5. 0 \in Nat /\ q \in Byte
    BY <1>2
  <2> USE <2>5
  <2> WITNESS w \in Seq(Byte), o \in BOOLEAN, q \in Byte, 0 \in Nat
  <2> QED BY <1>4, <2>2, <2>4
<1>5. CASE e.carry = 1
  <2>1. e.low + e.range <= Word
    BY <1>5 DEF EncOK, Restrained
  <2>2. q = Top => r + e.range <= Threshold
    BY <1>1, <1>2, <1>3, <2>1, Sizes
  <2>3. (e.cache + 1) % Base \in Byte /\ 0 \in Byte
    BY <1>1, Sizes DEF Byte
  <2>4. Release(e) = [OutBytes(e, <<(e.cache + 1) % Base>> \o Copies(e.cacheSize - 1, 0))
                        EXCEPT !.cache = e.low \div Threshold, !.cacheSize = 0]
    BY <1>5 DEF Release
  <2> QED BY <1>4, <2>2, <2>3, <2>4 DEF r
<1>6. CASE e.carry # 1 /\ e.low < Top * Threshold
  <2>1. q # Top
    BY <1>2, <1>6, Sizes DEF Byte
  <2>2. Top \in Byte
    BY Sizes DEF Byte
  <2>3. Release(e) = [OutBytes(e, <<e.cache>> \o Copies(e.cacheSize - 1, Top))
                        EXCEPT !.cache = e.low \div Threshold, !.cacheSize = 0]
    BY <1>6 DEF Release
  <2> QED BY <1>1, <1>4, <2>1, <2>2, <2>3 DEF r
<1>7. CASE e.carry # 1 /\ ~(e.low < Top * Threshold)
  <2>1. Release(e) = e
    BY <1>7 DEF Release
  <2>2. e = [e EXCEPT !.written = e.written, !.overflow = e.overflow,
                      !.cache = e.cache, !.cacheSize = e.cacheSize]
    BY <1>1 DEF Encoders
  <2>3. e.cache = Top => r + e.range <= Threshold
    BY <1>1, <1>3, <1>7, Sizes DEF EncOK, Restrained
  <2>4. Release(e) = [e EXCEPT !.written = e.written, !.overflow = e.overflow,
                               !.cache = e.cache, !.cacheSize = e.cacheSize]
    BY <2>1, <2>2
  <2>5. /\ e.cacheSize \in Nat /\ e.cache \in Byte
        /\ e.written \in Seq(Byte) /\ e.overflow \in BOOLEAN
    BY <1>1
  <2>6. PICK w \in Seq(Byte), o \in BOOLEAN, c \in Byte, n \in Nat :
          w = e.written /\ o = e.overflow /\ c = e.cache /\ n = e.cacheSize
    BY <2>5, Zenon
  <2>7. /\ Len(w) <= limit
        /\ c = Top => (e.low % Threshold) + e.range <= Threshold
        /\ Release(e) = [e EXCEPT !.written = w, !.overflow = o,
                                  !.cache = c, !.cacheSize = n]
    BY <1>1, <2>3, <2>4, <2>6 DEF r
  <2> QED BY <2>7, Zenon
<1> QED BY <1>5, <1>6, <1>7

LEMMA NormalizeOK ==
  ASSUME limit \in Nat, NEW e, EncOK(e)
  PROVE  /\ EncOK(Normalize(e))
         /\ Wide(e.range) => Normalize(e).range >= Threshold
         /\ e.range = 0 => Normalize(e).range = 0 /\ Normalize(e).carry = 0
<1>1. /\ e \in Encoders /\ e.low \in Nat /\ e.range \in Nat
      /\ e.low \in 0 .. Word - 1 /\ e.range \in 0 .. Word - 1
  BY Sizes DEF EncOK, Encoders
<1>2. CASE e.range >= Threshold
  BY <1>1, <1>2, Sizes DEF Normalize
<1>3. CASE ~(e.range >= Threshold)
  <2>1. PICK w \in Seq(Byte), o \in BOOLEAN, c \in Byte, n \in Nat :
          /\ Len(w) <= limit
          /\ c = Top => (e.low % Threshold) + e.range <= Threshold
          /\ Release(e) = [e EXCEPT !.written = w, !.overflow = o,
                                    !.cache = c, !.cacheSize = n]
    <3>1. e.range < Threshold
      BY <1>1, <1>3, Sizes
    <3> QED BY <3>1, ReleaseOK, Zenon
  <2> DEFINE low   == (e.low * Base) % Word
             range == (e.range * Base) % Word
             f == [carry |-> 0, low |-> low, range |-> range, cache |-> c,
                   cacheSize |-> n + 1, written |-> w, overflow |-> o]
  <2>2. Normalize(e) = f
    BY <1>1, <1>3, <2>1 DEF Normalize, ShiftByte, Encoders
  <2>3. low = Base * (e.low % Threshold) /\ low \in 0 .. Word - Base
        /\ e.low % Threshold \in 0 .. Threshold - 1
    BY <1>1, ShiftMod
  <2>4. range = Base * e.range /\ range \in 0 .. Word - Base
    <3>1. e.range % Threshold = e.range
      BY <1>1, <1>3, Sizes
    <3> QED BY <1>1, <3>1, ShiftMod
  <2> HIDE DEF low, range
  <2>5. f \in Encoders
    BY <2>3, <2>4, Sizes DEF Encoders
  <2>6. c = Top => low + range <= Word
    <3>1. SUFFICES ASSUME c = Top PROVE low + range <= Word
      OBVIOUS
    <3> DEFINE r == e.low % Threshold
    <3>2. r \in Nat /\ r + e.range <= Threshold
      BY <2>1, <2>3, <3>1
    <3> HIDE DEF r
    <3>3. Base * r + Base * e.range = Base * (r + e.range)
      BY <1>1, <3>2, Sizes
    <3>4. Base * (r + e.range) <= Base * Threshold
      BY <1>1, <3>2, Sizes
    <3> QED BY <2>3, <2>4, <3>3, <3>4, Sizes DEF r
  <2>7. Restrained(f)
    BY <2>6 DEF Restrained
  <2>8. Wide(e.range) => f.range >= Threshold
    BY <1>1, <2>4, Sizes DEF Wide
  <2>9. e.range = 0 => f.range = 0
    BY <2>4, Sizes
  <2> QED BY <2>1, <2>2, <2>5, <2>7, <2>8, <2>9 DEF EncOK
<1> QED BY <1>2, <1>3

LEMMA NarrowOK ==
  ASSUME NEW e, EncOK(e), NEW bit \in {0, 1}, NEW split \in Nat, NEW above \in Nat,
         split + above <= e.range, Wide(split), Wide(above)
  PROVE  EncOK(Narrow(e, bit, split, above)) /\ Wide(Narrow(e, bit, split, above).range)
<1>1. /\ e \in Encoders /\ e.low \in 0 .. Word - 1 /\ e.range \in 0 .. Word - 1
      /\ e.carry \in {0, 1}
  BY DEF EncOK, Encoders
<1>2. above >= 1
  BY Sizes DEF Wide
<1>0. split \in 0 .. Word - 1 /\ above \in 0 .. Word - 1
  BY <1>1, Sizes
<1>3. CASE bit = 0
  <2> DEFINE f == [e EXCEPT !.range = split]
  <2>1. Narrow(e, bit, split, above) = f
    BY <1>3 DEF Narrow
  <2>2. f \in Encoders /\ f.range = split
    BY <1>0, <1>1 DEF Encoders
  <2>3. f.carry = e.carry /\ f.low = e.low /\ f.cache = e.cache /\ f.written = e.written
    BY <1>1 DEF Encoders
  <2>4. Restrained(f)
    BY <1>1, <2>2, <2>3, Sizes DEF Restrained, EncOK
  <2> QED BY <2>1, <2>2, <2>3, <2>4 DEF EncOK
<1>4. CASE bit = 1
  <2> DEFINE low   == (e.low + split) % Word
             carry == IF low < e.low THEN 1 ELSE e.carry
             f == [e EXCEPT !.range = above, !.carry = carry, !.low = low]
  <2>1. Narrow(e, bit, split, above) = f
    BY <1>4, <1>1 DEF Narrow, Encoders
  <2>2. \/ e.low + split < Word /\ low = e.low + split
        \/ e.low + split >= Word /\ low = e.low + split - Word
    BY <1>1, Sizes
  <2>3. low \in 0 .. Word - 1
    BY <1>1, Sizes
  <2>4. f \in Encoders /\ f.range = above /\ f.low = low /\ f.carry = carry
        /\ f.cache = e.cache /\ f.written = e.written
    <3> HIDE DEF low
    <3>1. carry \in {0, 1}
      BY <1>1
    <3> HIDE DEF carry
    <3> QED BY <1>0, <1>1, <2>3, <3>1 DEF Encoders
  <2> HIDE DEF low
  <2>5. e.low + split >= Word => carry = 1 /\ e.carry = 0 /\ e.cache # Top
    BY <1>1, <1>2, <2>2, Sizes DEF EncOK, Restrained
  <2>6. e.low + split < Word => carry = e.carry
    BY <1>1, <2>2, Sizes
  <2> HIDE DEF carry
  <2>7. carry = 1 => low + above <= Word
    BY <1>1, <2>2, <2>5, <2>6, Sizes DEF EncOK, Restrained
  <2>8. e.cache = Top => carry = 0 /\ low + above <= Word
    BY <1>1, <2>2, <2>5, <2>6, Sizes DEF EncOK, Restrained
  <2>9. Restrained(f)
    BY <2>4, <2>7, <2>8 DEF Restrained
  <2> HIDE DEF f
  <2> QED BY <2>1, <2>4, <2>9 DEF EncOK
<1> QED BY <1>3, <1>4

-----------------------------------------------------------------------------
(* The decoder.                                                             *)

DecOK(d) == d \in Decoders /\ d.taken <= Len(enc.written)

LEMMA NormalizeDOK ==
  ASSUME enc.written \in Seq(Byte), NEW d, DecOK(d)
  PROVE  /\ DecOK(NormalizeD(d))
         /\ ~NormalizeD(d).overflow /\ Wide(d.range) => NormalizeD(d).range >= Threshold
         /\ ~NormalizeD(d).overflow => ~d.overflow
<1>1. /\ d \in Decoders /\ d.code \in 0 .. Word - 1 /\ d.range \in 0 .. Word - 1
      /\ d.taken \in Nat /\ d.overflow \in BOOLEAN /\ d.taken <= Len(enc.written)
      /\ Len(enc.written) \in Nat
  BY DEF DecOK, Decoders
<1>2. CASE d.range >= Threshold
  BY <1>1, <1>2 DEF NormalizeD, DecOK
<1>3. CASE ~(d.range >= Threshold) /\ d.taken < Len(enc.written)
  <2> DEFINE byte  == enc.written[d.taken + 1]
             code  == ((d.code * Base) % Word) + byte
             range == (d.range * Base) % Word
             f == [code |-> code, range |-> range, taken |-> d.taken + 1,
                   overflow |-> d.overflow]
  <2>1. NormalizeD(d) = f
    BY <1>1, <1>3 DEF NormalizeD, Decoders
  <2>2. byte \in Byte
    BY <1>1, <1>3
  <2>3. (d.code * Base) % Word \in 0 .. Word - Base
    <3>1. d.code \in Nat
      BY <1>1
    <3> QED BY <3>1, ShiftMod
  <2> HIDE DEF byte
  <2>4. code \in 0 .. Word - 1
    BY <2>2, <2>3, Sizes DEF Byte
  <2>5. range = Base * d.range /\ range \in 0 .. Word - 1
    <3>1. d.range % Threshold = d.range /\ d.range \in Nat
      BY <1>1, <1>3, Sizes
    <3>2. range = Base * d.range /\ range \in 0 .. Word - Base
      BY <3>1, ShiftMod
    <3> QED BY <3>2, Sizes
  <2> HIDE DEF code, range
  <2>6. f.taken = d.taken + 1 /\ f.range = range /\ f.overflow = d.overflow
    OBVIOUS
  <2>8. f \in Decoders
    <3>1. d.taken + 1 \in Nat /\ d.overflow \in BOOLEAN /\ range \in 0 .. Word - 1
      BY <1>1, <2>5
    <3> QED BY <2>4, <3>1 DEF Decoders
  <2>7. Wide(d.range) => range >= Threshold
    BY <1>1, <2>5, Sizes DEF Wide
  <2> HIDE DEF f
  <2> QED BY <1>1, <1>3, <2>1, <2>6, <2>7, <2>8 DEF DecOK
<1>4. CASE ~(d.range >= Threshold) /\ ~(d.taken < Len(enc.written))
  <2> DEFINE f == [d EXCEPT !.overflow = TRUE]
  <2>1. NormalizeD(d) = f
    BY <1>4 DEF NormalizeD
  <2>2. f \in Decoders /\ f.taken = d.taken /\ f.overflow = TRUE
    BY <1>1 DEF Decoders
  <2> QED BY <1>1, <2>1, <2>2 DEF DecOK
<1> QED BY <1>2, <1>3, <1>4

LEMMA FixedBitOK ==
  ASSUME NEW d, DecOK(d)
  PROVE  LET read == FixedBit(d)
         IN  /\ read.bit \in {0, 1} /\ DecOK(read.dec)
             /\ read.dec.overflow = d.overflow
             /\ d.range >= Threshold => Wide(read.dec.range)
<1> DEFINE half == d.range \div 2
           rest == (d.code - half) % Word
           bit  == IF rest >= Word \div 2 THEN 0 ELSE 1
           code == IF bit = 0 THEN (rest + half) % Word ELSE rest
           f    == [d EXCEPT !.range = half, !.code = code]
<1>1. /\ d \in Decoders /\ d.code \in 0 .. Word - 1 /\ d.range \in 0 .. Word - 1
      /\ d.range \in Nat
  BY DEF DecOK, Decoders
<1>2. half \in Nat /\ 2 * half <= d.range
      /\ (d.range >= Threshold => half * Base >= Threshold)
  BY <1>1, HalfIsEnough
<1> HIDE DEF half
<1>3. half \in 0 .. Word - 1
  BY <1>1, <1>2, Sizes
<1>4. rest \in 0 .. Word - 1
  BY <1>1, <1>3, Sizes
<1> HIDE DEF rest
<1>5. (rest + half) % Word \in 0 .. Word - 1
  BY <1>3, <1>4, Sizes
<1>6. code \in 0 .. Word - 1 /\ bit \in {0, 1}
  BY <1>4, <1>5
<1>7. FixedBit(d) = [bit |-> bit, dec |-> f]
  BY DEF FixedBit, half, rest
<1> HIDE DEF code, bit
<1>8. f \in Decoders /\ f.range = half /\ f.overflow = d.overflow /\ f.taken = d.taken
  BY <1>1, <1>3, <1>6 DEF Decoders
<1> HIDE DEF f
<1> QED BY <1>2, <1>6, <1>7, <1>8 DEF DecOK, Wide

LEMMA TreeBitOK ==
  ASSUME NEW d, DecOK(d), at.probs[Slot(at)] \in Shares
  PROVE  LET read == TreeBit(d)
         IN  /\ read.bit \in {0, 1} /\ DecOK(read.dec)
             /\ read.dec.overflow = d.overflow
             /\ d.range >= Threshold => Wide(read.dec.range)
<1> DEFINE bound == Bound(d.range, at.probs[Slot(at)])
           f == [d EXCEPT !.range = bound]
           g == [d EXCEPT !.range = d.range - bound, !.code = d.code - bound]
<1>1. /\ d \in Decoders /\ d.code \in 0 .. Word - 1 /\ d.range \in 0 .. Word - 1
      /\ d.range \in Nat
  BY DEF DecOK, Decoders
<1>2. bound \in Nat /\ bound <= d.range
      /\ (d.range >= Threshold => /\ bound * Base >= Threshold
                                  /\ (d.range - bound) * Base >= Threshold)
  BY <1>1, SplitIsEnough
<1> HIDE DEF bound
<1>3. CASE d.code < bound
  <2>1. TreeBit(d) = [bit |-> 0, dec |-> f]
    BY <1>3 DEF TreeBit, bound
  <2>2. bound \in 0 .. Word - 1
    BY <1>1, <1>2, Sizes
  <2>3. f \in Decoders /\ f.range = bound /\ f.overflow = d.overflow /\ f.taken = d.taken
    BY <1>1, <2>2 DEF Decoders
  <2> HIDE DEF f
  <2> QED BY <1>2, <2>1, <2>3 DEF DecOK, Wide
<1>4. CASE ~(d.code < bound)
  <2>1. TreeBit(d) = [bit |-> 1, dec |-> g]
    BY <1>1, <1>4 DEF TreeBit, bound, Decoders
  <2>2. d.range - bound \in 0 .. Word - 1 /\ d.code - bound \in 0 .. Word - 1
    BY <1>1, <1>2, <1>4, Sizes
  <2>3. g \in Decoders /\ g.range = d.range - bound /\ g.overflow = d.overflow
        /\ g.taken = d.taken
    BY <1>1, <2>2 DEF Decoders
  <2> HIDE DEF g
  <2> QED BY <1>2, <2>1, <2>3 DEF DecOK, Wide
<1> QED BY <1>3, <1>4

-----------------------------------------------------------------------------
(* The call in progress.                                                    *)

InCall == phase \in {"encode", "decode"} => at.call <= Len(script)

CallOK(a) == script \in Seq(Calls) /\ a \in Places /\ a.call <= Len(script)

LEMMA NodeLength ==
  ASSUME NEW t
  PROVE  t \in Nodes <=> t \in Seq({0, 1}) /\ Len(t) < Width
<1>0. Width \in Nat /\ Width > 0
  BY SizesAssumption
<1>1. ASSUME t \in Nodes PROVE t \in Seq({0, 1}) /\ Len(t) < Width
  <2>1. PICK n \in 0 .. Width - 1 : t \in [1 .. n -> {0, 1}]
    BY <1>1 DEF Nodes
  <2> QED BY <2>1, <1>0
<1>2. ASSUME t \in Seq({0, 1}), Len(t) < Width PROVE t \in Nodes
  <2>1. Len(t) \in 0 .. Width - 1 /\ t \in [1 .. Len(t) -> {0, 1}]
    BY <1>0, <1>2
  <2> QED BY <2>1 DEF Nodes
<1> QED BY <1>1, <1>2

LEMMA CurrentOK ==
  ASSUME NEW a, CallOK(a)
  PROVE  /\ GivenBit(a) \in {0, 1}
         /\ Slot(a) \in Slots /\ a.probs[Slot(a)] \in Shares
         /\ \A bit \in {0, 1} : NextOff(a, bit) \in {0, 1}
<1>0. /\ script \in Seq(Calls) /\ a.call \in 1 .. Len(script)
      /\ a.tree \in Nodes /\ a.off \in {0, 1} /\ a.probs \in [Slots -> Shares]
  BY DEF CallOK, Places
<1>1. Current(a) \in Calls
  BY <1>0 DEF Current
<1>2. Current(a).val \in Vals /\ (Current(a).kind = "MB" => Current(a).match \in Vals)
  BY <1>1, SizesAssumption DEF Calls
<1>3. Len(a.tree) + 1 \in 1 .. Width
  BY <1>0, NodeLength, SizesAssumption
<1>4. \A v \in Vals : BitAt(a, v) \in {0, 1}
  BY <1>3 DEF BitAt, Vals
<1>5. Current(a).kind = "MB" => Masked(a) \in {0, 1} /\ (Masked(a) = 0 \/ Masked(a) = a.off)
  BY <1>0, <1>2, <1>4 DEF Masked
<1>6. (IF Current(a).kind = "MB" THEN Masked(a) + a.off ELSE 0) \in 0 .. 2
  BY <1>0, <1>5
<1>7. Slot(a) \in Slots
  BY <1>0, <1>6 DEF Slot, Slots
<1>8. \A bit \in {0, 1} : NextOff(a, bit) \in {0, 1}
  BY <1>0, <1>5 DEF NextOff
<1> QED BY <1>0, <1>2, <1>4, <1>7, <1>8 DEF GivenBit

(* The parts of a normalised range: one byte is enough after either bit.    *)
LEMMA PartsOK ==
  ASSUME NEW a, CallOK(a), NEW range \in Nat
  PROVE  /\ Split(a, range) \in Nat /\ Above(a, range) \in Nat
         /\ Split(a, range) + Above(a, range) <= range
         /\ range >= Threshold => Wide(Split(a, range)) /\ Wide(Above(a, range))
<1>1. CASE Fixed(a)
  <2> DEFINE h == range \div 2
  <2>1. h \in Nat /\ 2 * h <= range /\ (range >= Threshold => h * Base >= Threshold)
    BY HalfIsEnough
  <2>2. Split(a, range) = h /\ Above(a, range) = h
    BY <1>1 DEF Split, Above
  <2> HIDE DEF h
  <2> QED BY <2>1, <2>2 DEF Wide
<1>2. CASE ~Fixed(a)
  <2> DEFINE b == Bound(range, a.probs[Slot(a)])
  <2>1. /\ b \in Nat /\ b <= range
        /\ range >= Threshold => b * Base >= Threshold /\ (range - b) * Base >= Threshold
    BY CurrentOK, SplitIsEnough
  <2>2. Split(a, range) = b /\ Above(a, range) = range - b
    BY <1>2 DEF Split, Above
  <2> HIDE DEF b
  <2> QED BY <2>1, <2>2 DEF Wide
<1> QED BY <1>1, <1>2

LEMMA NodeEmpty == <<>> \in Nodes
<1>1. <<>> \in Seq({0, 1}) /\ Len(<<>>) = 0
  OBVIOUS
<1>2. Len(<<>>) < Width
  BY <1>1, SizesAssumption
<1> QED BY <1>1, <1>2, NodeLength, Zenon

LEMMA StartOK == Start \in Places /\ Start.call = 1 /\ Start.tree = <<>>
<1>1. [s \in Slots |-> Total \div 2] \in [Slots -> Shares]
  BY HalfIsShare
<1> QED BY <1>1, NodeEmpty DEF Start, Places

(* Where a bit leads: on in the call, or to the start of the next one.      *)
LEMMA MovedOK ==
  ASSUME NEW a, CallOK(a), NEW bit \in {0, 1}
  PROVE  /\ Moved(a, bit) \in Places
         /\ \/ /\ Moved(a, bit).call = a.call /\ Len(a.tree) + 1 < Width
               /\ Moved(a, bit).tree = Append(a.tree, bit)
            \/ /\ Moved(a, bit).call = a.call + 1 /\ Len(a.tree) + 1 = Width
               /\ Moved(a, bit).tree = <<>>
<1>0. /\ a.call \in Nat \ {0} /\ a.tree \in Nodes /\ a.probs \in [Slots -> Shares]
      /\ a.tree \in Seq({0, 1}) /\ Len(a.tree) < Width /\ Width \in Nat
  BY NodeLength, SizesAssumption DEF CallOK, Places
<1>1. Adapted(a, bit) \in [Slots -> Shares]
  <2>1. Slot(a) \in Slots /\ Adapt(a.probs[Slot(a)], bit) \in Shares
    BY CurrentOK, AdaptStays
  <2> QED BY <1>0, <2>1 DEF Adapted
<1>2. CASE Len(a.tree) + 1 < Width
  <2>1. Append(a.tree, bit) \in Seq({0, 1}) /\ Len(Append(a.tree, bit)) < Width
    BY <1>0, <1>2
  <2>2. Append(a.tree, bit) \in Nodes
    BY <2>1, NodeLength
  <2> QED BY <1>0, <1>1, <1>2, <2>2, CurrentOK DEF Moved, Places
<1>3. CASE ~(Len(a.tree) + 1 < Width)
  <2>1. Len(a.tree) + 1 = Width
    BY <1>0, <1>3
  <2> QED BY <1>0, <1>1, <1>3, <2>1, NodeEmpty DEF Moved, Places
<1> QED BY <1>2, <1>3

(* Where a bit leaves the call: still in the script while its phase lasts. *)
LEMMA PositionOK ==
  ASSUME CallOK(at), NEW bit \in {0, 1}, NEW p, NEW stop \in BOOLEAN, p # phase,
         Position(bit, p, stop)
  PROVE  /\ at' = Moved(at, bit) /\ at' \in Places /\ at'.call <= Len(script) + 1
         /\ phase' \in {phase, p}
         /\ phase' = phase => at'.call <= Len(script)
         /\ phase' = p /\ ~stop => at'.call = Len(script) + 1
<1>1. /\ at' = Moved(at, bit) /\ at' \in Places
      /\ phase' = IF at'.call # at.call /\ (at.call = Len(script) \/ stop) THEN p ELSE phase
  BY MovedOK DEF Position
<1>2. at'.call \in {at.call, at.call + 1} /\ at.call \in Nat /\ at.call <= Len(script)
      /\ Len(script) \in Nat
  BY <1>1, MovedOK DEF CallOK, Places
<1> QED BY <1>1, <1>2

-----------------------------------------------------------------------------
(* The inductive invariant.                                                 *)

IInv ==
  /\ TypeOK /\ OneByteIsEnough /\ Restrained(enc) /\ InCall
  /\ Len(script) >= 1
  /\ phase = "encode" => flushed = 0
  /\ phase = "flush" => flushed < Rounds
  /\ phase \in {"encode", "flush"} => dec.taken = 0

LEMMA IInvInit == Init => IInv
<1> SUFFICES ASSUME Init PROVE IInv
  OBVIOUS
<1>1. script \in Seq(Calls) /\ Len(script) >= 1
  <2>1. PICK n \in 1 .. MaxCalls : script \in [1 .. n -> Calls]
    BY DEF Init
  <2> QED BY <2>1, SizesAssumption
<1>2. enc = [carry |-> 0, low |-> 0, range |-> Word - 1, cache |-> 0,
             cacheSize |-> 1, written |-> <<>>, overflow |-> FALSE]
  BY DEF Init
<1>3. <<>> \in Seq(Byte) /\ Len(<<>>) = 0 /\ 0 \in Byte /\ 0 # Top
  BY Sizes DEF Byte
<1>4. Word - 1 \in 0 .. Word - 1 /\ 0 \in 0 .. Word - 1
  BY Sizes
<1>5. enc \in Encoders
  BY <1>2, <1>3, <1>4 DEF Encoders
<1>6. Len(enc.written) <= limit
  BY <1>2, <1>3, SizesAssumption DEF Init
<1>7. Restrained(enc)
  BY <1>2, <1>3, Sizes DEF Restrained
<1>8. dec \in Decoders /\ dec.taken <= Len(enc.written)
  BY <1>2, <1>3, <1>4 DEF Init, Decoders
<1>9. at \in Places /\ at.call = 1
  BY StartOK DEF Init
<1>10. Wide(Word - 1)
  <2>1. Word - 1 \in Nat /\ Word - 1 >= Threshold
    BY Sizes
  <2>2. (Word - 1) * Base >= Word - 1
    BY <2>1, Sizes
  <2> QED BY <2>1, <2>2, Sizes DEF Wide
<1>11. OneByteIsEnough
  BY <1>2, <1>10 DEF OneByteIsEnough, Wide, Init
<1>12. TypeOK
  <2>1. at.call <= Len(script) + 1 /\ flushed \in 0 .. Rounds
    BY <1>1, <1>9 DEF Init, Rounds
  <2>2. got \in Seq(Vals)
    BY DEF Init
  <2> QED BY <1>1, <1>5, <1>6, <1>8, <1>9, <2>1, <2>2 DEF TypeOK, Init
<1> QED BY <1>1, <1>7, <1>9, <1>11, <1>12 DEF IInv, InCall, Init, Rounds

LEMMA LimitIsNat == IInv => limit \in Nat
  BY SizesAssumption DEF IInv, TypeOK

LEMMA StepEncodeBit == IInv /\ EncodeBit => IInv'
<1> SUFFICES ASSUME IInv, EncodeBit PROVE IInv'
  OBVIOUS
<1> DEFINE bit   == GivenBit(at)
           e     == Normalize(enc)
           split == Split(at, e.range)
           above == Above(at, e.range)
<1>1. /\ phase = "encode" /\ enc' = Narrow(e, bit, split, above)
      /\ Position(bit, "flush", enc'.overflow)
      /\ UNCHANGED <<script, limit, flushed, dec, got>>
  BY DEF EncodeBit, callVars
<1>2. CallOK(at) /\ limit \in Nat
  BY <1>1, LimitIsNat DEF IInv, TypeOK, InCall, CallOK
<1>3. bit \in {0, 1}
  BY <1>2, CurrentOK
<1>4. EncOK(enc) /\ Wide(enc.range)
  BY <1>1 DEF IInv, TypeOK, EncOK, OneByteIsEnough, Wide
<1>5. EncOK(e) /\ e.range >= Threshold
  BY <1>2, <1>4, NormalizeOK
<1>6. e.range \in Nat
  BY <1>5, Sizes DEF EncOK, Encoders
<1> HIDE DEF bit, e
<1>7. /\ split \in Nat /\ above \in Nat /\ split + above <= e.range
      /\ Wide(split) /\ Wide(above)
  BY <1>2, <1>5, <1>6, PartsOK
<1> HIDE DEF split, above
<1>8. EncOK(enc') /\ Wide(enc'.range)
  BY <1>1, <1>3, <1>5, <1>7, NarrowOK
<1>9. enc' \in Encoders /\ Len(enc'.written) <= limit /\ Restrained(enc')
      /\ enc'.overflow \in BOOLEAN
  BY <1>8 DEF EncOK, Encoders
<1>10. /\ at' \in Places /\ at'.call <= Len(script) + 1
       /\ phase' \in {phase, "flush"}
       /\ phase' = phase => at'.call <= Len(script)
  BY <1>1, <1>2, <1>3, <1>9, PositionOK
<1>11. dec'.taken = 0 /\ dec' \in Decoders /\ dec'.taken <= Len(enc'.written)
  <2>1. dec' = dec /\ dec.taken = 0 /\ dec \in Decoders
    BY <1>1 DEF IInv, TypeOK
  <2>2. enc'.written \in Seq(Byte)
    BY <1>9 DEF Encoders
  <2> QED BY <2>1, <2>2
<1>12. flushed' = 0 /\ flushed' \in 0 .. Rounds /\ flushed' < Rounds
  BY <1>1 DEF IInv, Rounds
<1>13. TypeOK'
  <2>1. script' \in Seq(Calls) /\ limit' \in Limits /\ got' \in Seq(Vals)
    BY <1>1 DEF IInv, TypeOK
  <2>2. phase' \in {"encode", "flush", "refused", "open", "decode", "done"}
    BY <1>1, <1>10
  <2> QED BY <1>1, <1>9, <1>10, <1>11, <1>12, <2>1, <2>2 DEF TypeOK
<1>14. OneByteIsEnough'
  BY <1>1, <1>8, <1>10 DEF OneByteIsEnough, Wide
<1>15. InCall' /\ Len(script') >= 1
  BY <1>1, <1>10 DEF InCall, IInv
<1> QED BY <1>9, <1>11, <1>12, <1>13, <1>14, <1>15 DEF IInv, Restrained

LEMMA StepFlush == IInv /\ Flush => IInv'
<1> SUFFICES ASSUME IInv, Flush PROVE IInv'
  OBVIOUS
<1> DEFINE e == [enc EXCEPT !.range = 0]
<1>1. /\ phase = "flush" /\ enc' = Normalize(e) /\ flushed' = flushed + 1
      /\ phase' \in {phase, "refused", "open"}
      /\ phase' = phase => flushed' < Rounds
      /\ UNCHANGED <<script, limit, at, dec, got>>
  BY DEF Flush, callVars
<1>2. limit \in Nat /\ flushed \in 0 .. Rounds /\ flushed < Rounds
  BY <1>1, LimitIsNat DEF IInv, TypeOK
<1>3. EncOK(e)
  <2>1. /\ enc \in Encoders /\ Len(enc.written) <= limit
        /\ enc.low \in Nat /\ enc.range \in Nat
    BY Sizes DEF IInv, TypeOK, Encoders
  <2>2. 0 \in 0 .. Word - 1
    BY Sizes
  <2>3. /\ e \in Encoders /\ e.range = 0 /\ e.carry = enc.carry /\ e.low = enc.low
        /\ e.cache = enc.cache /\ e.written = enc.written
    BY <2>1, <2>2 DEF Encoders
  <2> HIDE DEF e
  <2>4. Restrained(e)
    BY <2>1, <2>3, Sizes DEF IInv, Restrained
  <2> QED BY <2>1, <2>3, <2>4 DEF EncOK
<1> HIDE DEF e
<1>4. EncOK(enc')
  BY <1>1, <1>2, <1>3, NormalizeOK
<1>5. enc' \in Encoders /\ Len(enc'.written) <= limit /\ Restrained(enc')
  BY <1>4 DEF EncOK
<1>6. dec'.taken = 0 /\ dec' \in Decoders /\ dec'.taken <= Len(enc'.written)
  <2>1. dec' = dec /\ dec.taken = 0 /\ dec \in Decoders
    BY <1>1 DEF IInv, TypeOK
  <2>2. enc'.written \in Seq(Byte)
    BY <1>5 DEF Encoders
  <2> QED BY <2>1, <2>2
<1>7. flushed' \in 0 .. Rounds
  BY <1>1, <1>2 DEF Rounds
<1>8. TypeOK'
  <2>1. script' \in Seq(Calls) /\ limit' \in Limits /\ got' \in Seq(Vals)
        /\ at' \in Places /\ at'.call <= Len(script') + 1
    BY <1>1 DEF IInv, TypeOK
  <2>2. phase' \in {"encode", "flush", "refused", "open", "decode", "done"}
    BY <1>1
  <2> QED BY <1>1, <1>5, <1>6, <1>7, <2>1, <2>2 DEF TypeOK
<1>9. OneByteIsEnough' /\ InCall' /\ Len(script') >= 1
  BY <1>1 DEF OneByteIsEnough, InCall, IInv
<1> QED BY <1>1, <1>5, <1>6, <1>8, <1>9 DEF IInv, Restrained

LEMMA StepOpen == IInv /\ Open => IInv'
<1> SUFFICES ASSUME IInv, Open PROVE IInv'
  OBVIOUS
<1> DEFINE f == FirstBytes(dec)
<1>1. /\ phase = "open" /\ dec' = [f EXCEPT !.range = Word - 1] /\ phase' = "decode"
      /\ at' = Start
      /\ UNCHANGED <<script, limit, enc, flushed, got>>
  BY DEF Open, callVars
<1>2. enc \in Encoders /\ enc.written \in Seq(Byte) /\ DecOK(dec)
  BY DEF IInv, TypeOK, Encoders, DecOK
<1>3. DecOK(f)
  BY <1>2, NormalizeDOK DEF FirstBytes
<1> HIDE DEF f
<1>4. Word - 1 \in 0 .. Word - 1 /\ Wide(Word - 1)
  <2>1. Word - 1 \in Nat /\ Word - 1 >= Threshold
    BY Sizes
  <2>2. (Word - 1) * Base >= Word - 1
    BY <2>1, Sizes
  <2> QED BY <2>1, <2>2, Sizes DEF Wide
<1>5. dec' \in Decoders /\ dec'.range = Word - 1 /\ dec'.taken = f.taken
  BY <1>1, <1>3, <1>4 DEF DecOK, Decoders
<1>6. dec'.taken <= Len(enc'.written)
  BY <1>1, <1>3, <1>5 DEF DecOK
<1>7. Len(script) \in Nat /\ Len(script) >= 1 /\ at' \in Places /\ at'.call <= Len(script')
      /\ at'.call <= Len(script') + 1
  BY <1>1, StartOK DEF IInv, TypeOK
<1>9. TypeOK'
  BY <1>1, <1>5, <1>6, <1>7 DEF IInv, TypeOK
<1>10. OneByteIsEnough'
  BY <1>1, <1>4, <1>5 DEF OneByteIsEnough, Wide
<1> QED BY <1>1, <1>7, <1>9, <1>10 DEF IInv, Restrained, InCall

LEMMA StepDecodeBit == IInv /\ DecodeBit => IInv'
<1> SUFFICES ASSUME IInv, DecodeBit PROVE IInv'
  OBVIOUS
<1> DEFINE d    == NormalizeD(dec)
           read == IF Fixed(at) THEN FixedBit(d) ELSE TreeBit(d)
           bits == Append(at.tree, read.bit)
<1>1. /\ phase = "decode" /\ dec' = read.dec
      /\ Position(read.bit, "done", FALSE)
      /\ got' = IF Len(bits) = Width THEN Append(got, bits) ELSE got
      /\ UNCHANGED <<script, limit, enc, flushed>>
  BY DEF DecodeBit, callVars
<1>2. CallOK(at) /\ enc \in Encoders /\ enc.written \in Seq(Byte) /\ DecOK(dec)
  BY <1>1 DEF IInv, TypeOK, InCall, CallOK, Encoders, DecOK
<1>3. ~dec.overflow => Wide(dec.range)
  BY <1>1 DEF IInv, OneByteIsEnough, Wide
<1>4. DecOK(d) /\ (~d.overflow => d.range >= Threshold)
  <2>1. /\ DecOK(d)
        /\ ~d.overflow /\ Wide(dec.range) => d.range >= Threshold
        /\ ~d.overflow => ~dec.overflow
    BY <1>2, NormalizeDOK
  <2> QED BY <1>3, <2>1
<1> HIDE DEF d
<1>5. /\ read.bit \in {0, 1} /\ DecOK(read.dec) /\ read.dec.overflow = d.overflow
      /\ d.range >= Threshold => Wide(read.dec.range)
  <2>1. CASE Fixed(at)
    BY <1>4, <2>1, FixedBitOK
  <2>2. CASE ~Fixed(at)
    <3>1. at.probs[Slot(at)] \in Shares
      BY <1>2, CurrentOK
    <3> QED BY <1>4, <2>2, <3>1, TreeBitOK
  <2> QED BY <2>1, <2>2
<1> HIDE DEF read
<1>6. /\ at' \in Places /\ at'.call <= Len(script) + 1
      /\ phase' \in {phase, "done"}
      /\ phase' = phase => at'.call <= Len(script)
  <2>1. FALSE \in BOOLEAN /\ "done" # phase
    BY <1>1
  <2> QED BY <1>1, <1>2, <1>5, <2>1, PositionOK
<1>7. got' \in Seq(Vals)
  <2>1. at.tree \in Seq({0, 1}) /\ got \in Seq(Vals)
    BY <1>2, NodeLength DEF CallOK, Places, IInv, TypeOK
  <2>2. bits \in Seq({0, 1})
    BY <1>5, <2>1
  <2> HIDE DEF bits
  <2>3. Len(bits) = Width => bits \in Vals
    BY <2>2 DEF Vals
  <2> QED BY <1>1, <2>1, <2>3
<1>8. dec' \in Decoders /\ dec'.taken <= Len(enc'.written)
  BY <1>1, <1>5 DEF DecOK
<1>9. TypeOK'
  BY <1>1, <1>6, <1>7, <1>8 DEF IInv, TypeOK
<1>10. OneByteIsEnough'
  BY <1>1, <1>4, <1>5, <1>6 DEF OneByteIsEnough, Wide
<1>11. InCall' /\ Len(script') >= 1
  BY <1>1, <1>6 DEF InCall, IInv
<1> QED BY <1>1, <1>6, <1>9, <1>10, <1>11 DEF IInv, Restrained

LEMMA IInvStep == IInv /\ [Next]_vars => IInv'
<1> SUFFICES ASSUME IInv, [Next]_vars PROVE IInv'
  OBVIOUS
<1>1. ASSUME UNCHANGED vars PROVE IInv'
  BY <1>1 DEF vars, IInv, TypeOK, OneByteIsEnough, Restrained, InCall
<1>2. CASE Ended
  BY <1>1, <1>2 DEF Ended
<1> QED BY <1>1, <1>2, StepEncodeBit, StepFlush, StepOpen, StepDecodeBit DEF Next

-----------------------------------------------------------------------------
(* The theorems.                                                            *)

THEOREM Invariant == Spec => []IInv
  BY IInvInit, IInvStep, PTL DEF Spec

(* Every variable keeps its width: the words of both coders stay words,     *)
(* every byte written is a byte, no more of them than the output takes, and *)
(* no probability ever leaves its share, at any length of the input.        *)
THEOREM TypeCorrect == Spec => []TypeOK
<1>1. IInv => TypeOK
  BY DEF IInv
<1> QED BY <1>1, Invariant, PTL

(* The single shift of rangeEncodeNormalize and rangeDecodeNormalize always *)
(* restores the range, with 2048, 32 and 2 ^ 24 as with any constants that  *)
(* satisfy ShareAssumption.                                                 *)
THEOREM RangeSuffices == Spec => []OneByteIsEnough
<1>1. IInv => OneByteIsEnough
  BY DEF IInv
<1> QED BY <1>1, Invariant, PTL

(* The byte kept back can take the carry whenever there is one: the cast of *)
(* e->cache + 1 to a byte in rangeEncodeNormalize never wraps.              *)
THEOREM CarryFits == Spec => []CarryHasRoom
<1>1. IInv => CarryHasRoom
  <2>1. IInv => enc.cache \in Byte
    BY DEF IInv, TypeOK, Encoders
  <2> QED BY <2>1, Sizes DEF IInv, Restrained, CarryHasRoom, Byte
<1> QED BY <1>1, Invariant, PTL

-----------------------------------------------------------------------------
(* The low end of the encoder's interval, and what a step makes of it.      *)

Sent(e)   == Value(e.written \o <<e.cache>> \o Copies(e.cacheSize - 1, Top))
LowEnd(e) == Word * Sent(e) + Word * e.carry + e.low

LEMMA BytesAreNat == Byte \subseteq Nat /\ Top \in Byte /\ 0 \in Byte /\ Top = Base - 1
  BY Sizes DEF Byte

LEMMA ValueAppend ==
  ASSUME NEW s \in Seq(Nat), NEW d \in Nat
  PROVE  Value(Append(s, d)) = Value(s) * Base + d /\ Value(s) \in Nat
  BY NumeralAppend, NumeralIsNat, Sizes DEF Value

(* What the encoder has kept back, as bytes. *)
LEMMA KeptAreNat ==
  ASSUME NEW e \in Encoders
  PROVE  /\ e.written \in Seq(Nat) /\ e.cache \in Nat /\ e.cacheSize - 1 \in Nat
         /\ e.written \o <<e.cache>> \in Seq(Nat)
         /\ e.written \o <<e.cache>> \o Copies(e.cacheSize - 1, Top) \in Seq(Nat)
         /\ Len(e.written \o <<e.cache>> \o Copies(e.cacheSize - 1, Top)) = Bytes(e)
         /\ Sent(e) \in Nat /\ Bytes(e) \in Nat
<1>0. e.written \in Seq(Byte) /\ e.cache \in Byte /\ e.cacheSize \in Nat \ {0}
  BY DEF Encoders
<1>1. e.written \in Seq(Nat) /\ e.cache \in Nat /\ e.cacheSize - 1 \in Nat
      /\ e.cacheSize \in Nat /\ Len(e.written) \in Nat
  <2>1. e.written \in Seq(Nat)
    BY <1>0, BytesAreNat, SeqMonotonic
  <2>2. Len(e.written) \in Nat
    BY <2>1, LenProperties
  <2>3. e.cacheSize \in Nat \ {0} => e.cacheSize \in Nat /\ e.cacheSize - 1 \in Nat
    OBVIOUS
  <2> QED BY <1>0, <2>1, <2>2, <2>3, BytesAreNat, Zenon
<1>2. <<e.cache>> \in Seq(Nat) /\ Len(<<e.cache>>) = 1
  BY <1>1
<1> DEFINE u == Copies(e.cacheSize - 1, Top)
           v == <<e.cache>>
<1>3. u \in Seq(Nat) /\ Len(u) = e.cacheSize - 1
  BY <1>1, BytesAreNat DEF Copies
<1> HIDE DEF u, v
<1>4. e.written \o v \in Seq(Nat) /\ Len(e.written \o v) = Len(e.written) + 1
  BY <1>1, <1>2, ConcatProperties DEF v
<1>5. (e.written \o v) \o u \in Seq(Nat)
      /\ Len((e.written \o v) \o u) = Len(e.written) + 1 + (e.cacheSize - 1)
  <2> DEFINE w == e.written \o v
  <2>1. w \in Seq(Nat) /\ Len(w) = Len(e.written) + 1
    BY <1>4
  <2> HIDE DEF w
  <2>2. w \o u \in Seq(Nat) /\ Len(w \o u) = Len(w) + Len(u)
    BY <2>1, <1>3, ConcatProperties
  <2> QED BY <2>1, <2>2, <1>3 DEF w
<1>6. Len(e.written) + 1 + (e.cacheSize - 1) = Bytes(e) /\ Bytes(e) \in Nat
  <2>1. \A x, y \in Nat : x + 1 + (y - 1) = x + y /\ x + y \in Nat
    OBVIOUS
  <2> QED BY <1>1, <2>1, Zenon DEF Bytes
<1>7. Value((e.written \o v) \o u) \in Nat
  BY <1>5, NumeralIsNat, Sizes DEF Value
<1> QED BY <1>1, <1>4, <1>5, <1>6, <1>7 DEF u, v, Sent

(* The bytes a byte of carry makes of those kept back: one more. *)
LEMMA RaisedIsOneMore ==
  ASSUME NEW w \in Seq(Nat), NEW c \in Nat, NEW k \in Nat
  PROVE  Value(w \o <<c + 1>> \o Copies(k, 0)) = Value(w \o <<c>> \o Copies(k, Top)) + 1
<1> DEFINE s == w \o <<c>>
           t == w \o <<c + 1>>
<1>1. s = Append(w, c) /\ t = Append(w, c + 1) /\ s \in Seq(Nat) /\ t \in Seq(Nat)
  BY AppendIsConcat
<1> HIDE DEF s, t
<1>2. Value(s) = Value(w) * Base + c /\ Value(t) = Value(w) * Base + (c + 1)
  BY <1>1, ValueAppend
<1>3. Value(t) = Value(s) + 1
  <2>1. Value(w) \in Nat
    BY NumeralIsNat, Sizes DEF Value
  <2>2. Value(w) * Base \in Nat
    BY <2>1, Sizes
  <2> QED BY <1>2, <2>2
<1>4. Numeral(Base, t \o [i \in 1 .. k |-> 0]) = Numeral(Base, s \o [i \in 1 .. k |-> Base - 1]) + 1
  <2>1. Numeral(Base, t) = Numeral(Base, s) + 1 /\ Base \in Nat /\ Base > 0
    BY <1>3, Sizes DEF Value
  <2>2. \A n \in Nat : Numeral(Base, t \o [i \in 1 .. n |-> 0])
                          = Numeral(Base, s \o [i \in 1 .. n |-> Base - 1]) + 1
    BY <1>1, <2>1, NumeralRaised, Zenon
  <2> QED BY <2>2
<1> QED BY <1>4, BytesAreNat DEF Value, Copies, s, t

(* An encoder by its fields. *)
Coder(carry, low, range, cache, cacheSize, written, overflow) ==
  [carry |-> carry, low |-> low, range |-> range, cache |-> cache,
   cacheSize |-> cacheSize, written |-> written, overflow |-> overflow]

LEMMA CoderFields ==
  ASSUME NEW carry, NEW low, NEW range, NEW c, NEW n, NEW w, NEW o
  PROVE  LET f == Coder(carry, low, range, c, n, w, o)
         IN  /\ f.carry = carry /\ f.low = low /\ f.range = range /\ f.cache = c
             /\ f.cacheSize = n /\ f.written = w /\ f.overflow = o
             /\ Bytes(f) = Len(w) + n
             /\ Sent(f) = Value(w \o <<c>> \o Copies(n - 1, Top))
             /\ LowEnd(f) = Word * Value(w \o <<c>> \o Copies(n - 1, Top)) + Word * carry + low
  BY DEF Coder, Bytes, Sent, LowEnd

LEMMA ShiftByteIs ==
  ASSUME NEW e, NEW c, NEW n, NEW w, NEW o,
         Release(e) = Coder(e.carry, e.low, e.range, c, n, w, o)
  PROVE  ShiftByte(e) = Coder(0, (e.low * Base) % Word, (e.range * Base) % Word, c, n + 1, w, o)
<1> DEFINE f == Coder(e.carry, e.low, e.range, c, n, w, o)
<1>1. f = [carry |-> e.carry, low |-> e.low, range |-> e.range, cache |-> c,
           cacheSize |-> n, written |-> w, overflow |-> o]
  BY DEF Coder
<1>2. ShiftByte(e) = [f EXCEPT !.cacheSize = f.cacheSize + 1, !.carry = 0,
                               !.low = (f.low * Base) % Word, !.range = (f.range * Base) % Word]
  BY DEF ShiftByte
<1> HIDE DEF f
<1>3. f.low = e.low /\ f.range = e.range /\ f.cacheSize = n
  BY <1>1
<1> QED BY <1>1, <1>2, <1>3 DEF Coder

LEMMA CoderIs ==
  ASSUME NEW e \in Encoders
  PROVE  e = Coder(e.carry, e.low, e.range, e.cache, e.cacheSize, e.written, e.overflow)
  BY DEF Encoders, Coder

(* What was let go, when nothing was dropped. *)
LEMMA OutBytesAll ==
  ASSUME limit \in Nat, NEW e \in Encoders, Len(e.written) <= limit, NEW bytes \in Seq(Byte)
  PROVE  \E w : \E o \in BOOLEAN :
           /\ OutBytes(e, bytes) = Coder(e.carry, e.low, e.range, e.cache, e.cacheSize, w, o)
           /\ Len(bytes) <= limit - Len(e.written) => w = e.written \o bytes /\ o = e.overflow
           /\ Len(bytes) > limit - Len(e.written) => o = TRUE
<1> DEFINE w0 == e.written
           o0 == e.overflow
           w1 == e.written \o bytes
           w2 == e.written \o SubSeq(bytes, 1, limit - Len(e.written))
           f(w, o) == Coder(e.carry, e.low, e.range, e.cache, e.cacheSize, w, o)
<1>0. e.overflow \in BOOLEAN /\ TRUE \in BOOLEAN
  BY DEF Encoders
<1>1. e = f(w0, o0)
  BY CoderIs
<1>2. OutBytes(e, bytes) = IF Len(bytes) <= limit - Len(e.written)
                           THEN [e EXCEPT !.written = w1]
                           ELSE [e EXCEPT !.written = w2, !.overflow = TRUE]
  BY DEF OutBytes
<1> HIDE DEF w1, w2
<1>3. ASSUME NEW g, g = [e EXCEPT !.written = w1] PROVE g = f(w1, o0)
  <2> HIDE DEF w0, o0
  <2> QED BY <1>1, <1>3 DEF Coder
<1>4. ASSUME NEW g, g = [e EXCEPT !.written = w2, !.overflow = TRUE] PROVE g = f(w2, TRUE)
  <2> HIDE DEF w0, o0
  <2> QED BY <1>1, <1>4 DEF Coder
<1> HIDE DEF f, w0
<1>5. OutBytes(e, bytes) = IF Len(bytes) <= limit - Len(e.written) THEN f(w1, o0) ELSE f(w2, TRUE)
  <2>1. PICK g : g = OutBytes(e, bytes)
    BY Zenon
  <2>2. CASE Len(bytes) <= limit - Len(e.written)
    <3>1. g = [e EXCEPT !.written = w1]
      BY <1>2, <2>1, <2>2
    <3> QED BY <1>3, <2>1, <2>2, <3>1, Zenon
  <2>3. CASE ~(Len(bytes) <= limit - Len(e.written))
    <3>1. g = [e EXCEPT !.written = w2, !.overflow = TRUE]
      BY <1>2, <2>1, <2>3
    <3> QED BY <1>4, <2>1, <2>3, <3>1, Zenon
  <2> QED BY <2>2, <2>3
<1> HIDE DEF o0
<1>6. Len(bytes) \in Nat /\ Len(e.written) \in Nat
  BY DEF Encoders
<1>7. Len(bytes) > limit - Len(e.written) <=> ~(Len(bytes) <= limit - Len(e.written))
  BY <1>6
<1> QED BY <1>0, <1>5, <1>7, Zenon DEF f, w1, o0

LEMMA ShiftByteExact ==
  ASSUME limit \in Nat, NEW e, EncOK(e)
  PROVE  /\ ~ShiftByte(e).overflow =>
               /\ ~e.overflow
               /\ LowEnd(ShiftByte(e)) = Base * LowEnd(e)
               /\ Bytes(ShiftByte(e)) = Bytes(e) + 1
               /\ e.carry = 0 /\ e.low < Top * Threshold =>
                    /\ ShiftByte(e).cacheSize = 1
                    /\ ShiftByte(e).written = e.written \o <<e.cache>> \o Copies(e.cacheSize - 1, Top)
         /\ ShiftByte(e).overflow /\ ~e.overflow => limit < Bytes(e)
         /\ ShiftByte(e).carry = 0
         /\ ShiftByte(e).low = (e.low * Base) % Word
         /\ ShiftByte(e).range = (e.range * Base) % Word
<1> DEFINE q == e.low \div Threshold
           r == e.low % Threshold
           low == (e.low * Base) % Word
           range == (e.range * Base) % Word
           k == e.cacheSize - 1
<1>1. /\ e \in Encoders /\ e.low \in 0 .. Word - 1 /\ e.range \in 0 .. Word - 1 /\ e.cache \in Byte
      /\ e.cacheSize \in Nat \ {0} /\ e.written \in Seq(Byte) /\ Len(e.written) <= limit
      /\ e.carry \in {0, 1} /\ e.overflow \in BOOLEAN /\ Len(e.written) \in Nat
  BY DEF EncOK, Encoders
<1>2. /\ q \in Byte /\ q \in Nat /\ r \in 0 .. Threshold - 1
      /\ e.low = Threshold * q + r
      /\ e.low >= Top * Threshold => q = Top
  <2>1. r \in 0 .. Threshold - 1
    BY <1>1, DivMod, Sizes
  <2>2. /\ q \in Byte /\ e.low = Threshold * q + r
        /\ e.low >= Top * Threshold => q = Top
    BY <1>1, TopByte
  <2> QED BY <2>1, <2>2, BytesAreNat
<1>0. e.low \in Nat /\ e.range \in Nat
  BY <1>1, Sizes
<1>3. low = Base * r /\ low \in Nat
  <2>1. low = Base * r
    BY <1>0, ShiftMod
  <2>2. Base * r \in Nat
    <3> HIDE DEF r
    <3> QED BY <1>2, Sizes
  <2> QED BY <2>1, <2>2
<1> HIDE DEF q, r, low
<1>4. Base * e.low = Word * q + low
  <2>1. Base * (Threshold * q + r) = (Base * Threshold) * q + Base * r
    BY <1>2, Sizes
  <2> QED BY <1>2, <1>3, <2>1, Sizes
<1>5. k \in Nat /\ e.written \in Seq(Nat) /\ e.cache \in Nat /\ Sent(e) \in Nat
      /\ Bytes(e) = Len(e.written) + 1 + k /\ Bytes(e) \in Nat
  <2>1. k \in Nat /\ e.written \in Seq(Nat) /\ e.cache \in Nat /\ Sent(e) \in Nat /\ Bytes(e) \in Nat
    BY <1>1, KeptAreNat
  <2>2. Bytes(e) = Len(e.written) + 1 + k
    <3>1. \A x \in Nat, y \in Nat \ {0} : x + y = x + 1 + (y - 1)
      OBVIOUS
    <3> QED BY <1>1, <3>1, Zenon DEF Bytes
  <2> QED BY <2>1, <2>2
<1>6. low \in Nat
  BY <1>3
(* A byte let go, as itself or raised. *)
<1>7. ASSUME NEW first \in Byte, NEW others \in Byte, NEW raise \in {0, 1},
             Release(e) = [OutBytes(e, <<first>> \o Copies(k, others))
                             EXCEPT !.cache = q, !.cacheSize = 0],
             Value(e.written \o <<first>> \o Copies(k, others)) = Sent(e) + raise,
             e.carry = raise
      PROVE  /\ ~ShiftByte(e).overflow =>
                   /\ ~e.overflow
                   /\ LowEnd(ShiftByte(e)) = Base * LowEnd(e)
                   /\ Bytes(ShiftByte(e)) = Bytes(e) + 1
                   /\ ShiftByte(e).cacheSize = 1
                   /\ ShiftByte(e).written = e.written \o <<first>> \o Copies(k, others)
             /\ ShiftByte(e).overflow /\ ~e.overflow => limit < Bytes(e)
             /\ ShiftByte(e).carry = 0
             /\ ShiftByte(e).low = low
             /\ ShiftByte(e).range = range
  <2> DEFINE c == Copies(k, others)
             bytes == <<first>> \o c
             w == e.written \o bytes
  <2>1. bytes \in Seq(Byte) /\ Len(bytes) = k + 1 /\ c \in Seq(Byte)
    <3>1. c \in Seq(Byte) /\ Len(c) = k
      <4> HIDE DEF k
      <4> QED BY <1>5 DEF Copies
    <3>2. <<first>> \in Seq(Byte) /\ Len(<<first>>) = 1
      OBVIOUS
    <3> HIDE DEF c
    <3> QED BY <3>1, <3>2, <1>5
  <2>2. w = (e.written \o <<first>>) \o c /\ w \in Seq(Byte) /\ Len(w) = Len(e.written) + (k + 1)
    <3> HIDE DEF c
    <3>0. <<first>> \in Seq(Byte) /\ e.written \in Seq(Byte) /\ c \in Seq(Byte)
      BY <1>1, <2>1
    <3>1. w = (e.written \o <<first>>) \o c
      <4>1. \A x, y, z \in Seq(Byte) : x \o (y \o z) = (x \o y) \o z
        BY ConcatAssociative, SMTT(30)
      <4> QED BY <3>0, <4>1, Zenon
    <3>2. bytes \in Seq(Byte) /\ Len(bytes) = k + 1
      BY <2>1
    <3> HIDE DEF bytes
    <3>3. w \in Seq(Byte) /\ Len(w) = Len(e.written) + Len(bytes)
      BY <3>0, <3>2, ConcatProperties
    <3> QED BY <3>1, <3>2, <3>3
  <2> HIDE DEF bytes, c, w
  <2>3. Release(e) = [OutBytes(e, bytes) EXCEPT !.cache = q, !.cacheSize = 0]
    BY <1>7 DEF bytes, c
  <2>7. PICK v : \E o \in BOOLEAN :
           /\ OutBytes(e, bytes) = Coder(e.carry, e.low, e.range, e.cache, e.cacheSize, v, o)
           /\ Len(bytes) <= limit - Len(e.written) => v = w /\ o = e.overflow
           /\ Len(bytes) > limit - Len(e.written) => o = TRUE
    <3>1. limit \in Nat /\ e \in Encoders /\ Len(e.written) <= limit /\ bytes \in Seq(Byte)
      BY <1>1, <2>1
    <3> QED BY <3>1, OutBytesAll, Zenon DEF w
  <2>8. PICK o \in BOOLEAN :
           /\ OutBytes(e, bytes) = Coder(e.carry, e.low, e.range, e.cache, e.cacheSize, v, o)
           /\ Len(bytes) <= limit - Len(e.written) => v = w /\ o = e.overflow
           /\ Len(bytes) > limit - Len(e.written) => o = TRUE
    BY <2>7
  <2>9. ShiftByte(e) = Coder(0, low, range, q, 1, v, o)
    <3>1. PICK g : g = Release(e)
      BY Zenon
    <3>2. PICK f : f = OutBytes(e, bytes)
      BY Zenon
    <3>3. g = [f EXCEPT !.cache = q, !.cacheSize = 0]
      BY <2>3, <3>1, <3>2, Zenon
    <3>4. f = Coder(e.carry, e.low, e.range, e.cache, e.cacheSize, v, o)
      BY <2>8, <3>2
    <3>5. g = Coder(e.carry, e.low, e.range, q, 0, v, o)
      BY <3>3, <3>4 DEF Coder
    <3>6. ShiftByte(e) = Coder(0, (e.low * Base) % Word, (e.range * Base) % Word, q, 0 + 1, v, o)
      BY <3>1, <3>5, ShiftByteIs, Zenon
    <3> QED BY <3>6 DEF low
  <2>4. CASE Len(bytes) <= limit - Len(e.written)
    <3> DEFINE f == Coder(0, low, range, q, 1, w, e.overflow)
    <3>2. ShiftByte(e) = f
      BY <2>4, <2>8, <2>9
    <3>3. Sent(f) = (Sent(e) + raise) * Base + q
      <4>1. Copies(1 - 1, Top) = [i \in 1 .. 0 |-> Top]
        BY DEF Copies
      <4>2. w \in Seq(Nat) /\ w \o <<q>> = Append(w, q) /\ w \o <<q>> \in Seq(Nat)
        <5>1. w \in Seq(Nat)
          BY <2>2, BytesAreNat, SeqMonotonic
        <5>2. Append(w, q) = w \o <<q>> /\ Append(w, q) \in Seq(Nat)
          BY <1>2, <5>1, AppendIsConcat, AppendProperties
        <5> QED BY <5>1, <5>2
      <4>3. w \o <<q>> \o Copies(1 - 1, Top) = w \o <<q>>
        BY <4>1, <4>2, NoRun
      <4>4. Value(w \o <<q>>) = Value(w) * Base + q
        BY <4>2, <1>2, ValueAppend
      <4>5. Value(w) = Sent(e) + raise
        BY <1>7, <2>2 DEF c
      <4>6. Sent(f) = Value(w \o <<q>> \o Copies(1 - 1, Top))
        BY CoderFields
      <4> QED BY <4>3, <4>4, <4>5, <4>6
    <3>4. LowEnd(f) = Base * LowEnd(e)
      <4>0. f.carry = 0 /\ f.low = low
        BY DEF Coder
      <4>1. LowEnd(f) = Word * ((Sent(e) + raise) * Base + q) + Word * 0 + low
        <5> HIDE DEF f
        <5> QED BY <3>3, <4>0 DEF LowEnd
      <4>2. LowEnd(e) = Word * Sent(e) + Word * raise + e.low
        BY <1>7 DEF LowEnd
      <4>3. \A n \in Nat, x \in Nat : Base * (Word * n + Word * raise + x)
                 = Word * ((n + raise) * Base) + Base * x
        BY Sizes
      <4>4. \A n \in Nat : Word * (n * Base + q) + Word * 0 + low = Word * (n * Base) + (Word * q + low)
        BY <1>2, <1>6, Sizes
      <4>5. Sent(e) + raise \in Nat /\ e.low \in Nat
        BY <1>1, <1>5
      <4>6. Base * LowEnd(e) = Word * ((Sent(e) + raise) * Base) + (Word * q + low)
        BY <4>2, <4>3, <4>5, <1>4, <1>5, Zenon
      <4>7. LowEnd(f) = Word * ((Sent(e) + raise) * Base) + (Word * q + low)
        BY <4>1, <4>4, <4>5, Zenon
      <4> QED BY <4>6, <4>7
    <3>5. Bytes(f) = Bytes(e) + 1
      <4>1. Bytes(f) = Len(w) + 1
        BY DEF Coder, Bytes
      <4>2. \A x, y \in Nat : (x + (y + 1)) + 1 = (x + 1 + y) + 1
        OBVIOUS
      <4>3. Len(w) = Len(e.written) + (k + 1)
        BY <2>2
      <4>4. Bytes(e) = Len(e.written) + 1 + k /\ Len(e.written) \in Nat /\ k \in Nat
        BY <1>1, <1>5
      <4> HIDE DEF f, w, k
      <4> QED BY <4>1, <4>2, <4>3, <4>4, Zenon
    <3> HIDE DEF range
    <3>6. f.overflow = e.overflow /\ f.cacheSize = 1 /\ f.written = w /\ f.carry = 0
          /\ f.low = low /\ f.range = range
      BY DEF Coder
    <3> HIDE DEF f
    <3> QED BY <2>2, <3>2, <3>4, <3>5, <3>6 DEF c
  <2>5. CASE Len(bytes) > limit - Len(e.written)
    <3> DEFINE f == Coder(0, low, range, q, 1, v, o)
    <3>3. f.overflow = o /\ f.carry = 0 /\ f.low = low /\ f.range = range /\ o = TRUE
      <4> HIDE DEF range
      <4> QED BY <2>5, <2>8 DEF Coder
    <3>4. ShiftByte(e) = f
      BY <2>9
    <3>5. limit < Bytes(e)
      BY <1>1, <1>5, <2>1, <2>5
    <3> HIDE DEF k, range, f
    <3> QED BY <3>3, <3>4, <3>5
  <2>6. Len(bytes) <= limit - Len(e.written) \/ Len(bytes) > limit - Len(e.written)
    BY <1>1, <1>5, <2>1
  <2> QED BY <2>4, <2>5, <2>6
<1>8. CASE e.carry = 1
  <2>1. e.cache < Top
    BY <1>1, <1>8, Sizes DEF EncOK, Restrained, Byte
  <2>2. (e.cache + 1) % Base = e.cache + 1 /\ e.cache + 1 \in Byte
    <3>1. \A x \in 0 .. Base - 1 : x % Base = x
      BY Sizes
    <3>2. e.cache + 1 \in 0 .. Base - 1
      BY <1>1, <2>1, Sizes DEF Byte
    <3> QED BY <3>1, <3>2, Sizes DEF Byte
  <2>3. Release(e) = [OutBytes(e, <<e.cache + 1>> \o Copies(k, 0)) EXCEPT !.cache = q, !.cacheSize = 0]
    BY <1>8, <2>2 DEF Release, q
  <2>4. Value(e.written \o <<e.cache + 1>> \o Copies(k, 0)) = Sent(e) + 1
    BY <1>5, RaisedIsOneMore DEF Sent
  <2>5. e.carry # 0 /\ 1 \in {0, 1}
    BY <1>8
  <2>6. /\ ~ShiftByte(e).overflow =>
              /\ ~e.overflow
              /\ LowEnd(ShiftByte(e)) = Base * LowEnd(e)
              /\ Bytes(ShiftByte(e)) = Bytes(e) + 1
        /\ ShiftByte(e).overflow /\ ~e.overflow => limit < Bytes(e)
        /\ ShiftByte(e).carry = 0
        /\ ShiftByte(e).low = low
        /\ ShiftByte(e).range = range
    <3> HIDE DEF k, range
    <3>1. e.cache + 1 \in Byte /\ 0 \in Byte /\ 1 \in {0, 1}
      BY <2>2, BytesAreNat
    <3> QED BY <1>7, <1>8, <2>3, <2>4, <3>1, Zenon
  <2> QED BY <2>5, <2>6 DEF low
<1>9. CASE e.carry = 0 /\ e.low < Top * Threshold
  <2>3. Release(e) = [OutBytes(e, <<e.cache>> \o Copies(k, Top)) EXCEPT !.cache = q, !.cacheSize = 0]
    BY <1>9 DEF Release, q
  <2>4. Value(e.written \o <<e.cache>> \o Copies(k, Top)) = Sent(e) + 0
    BY <1>5 DEF Sent
  <2>5. e.cache \in Byte /\ Top \in Byte /\ 0 \in {0, 1} /\ e.carry = 0
    BY <1>1, <1>9, BytesAreNat
  <2>6. /\ ~ShiftByte(e).overflow =>
              /\ ~e.overflow
              /\ LowEnd(ShiftByte(e)) = Base * LowEnd(e)
              /\ Bytes(ShiftByte(e)) = Bytes(e) + 1
              /\ ShiftByte(e).cacheSize = 1
              /\ ShiftByte(e).written = e.written \o <<e.cache>> \o Copies(k, Top)
        /\ ShiftByte(e).overflow /\ ~e.overflow => limit < Bytes(e)
        /\ ShiftByte(e).carry = 0
        /\ ShiftByte(e).low = low
        /\ ShiftByte(e).range = range
    <3> HIDE DEF k, range
    <3> QED BY <1>7, <2>3, <2>4, <2>5, Zenon
  <2> QED BY <2>6 DEF low
<1>10. CASE e.carry = 0 /\ ~(e.low < Top * Threshold)
  <2> DEFINE f == Coder(0, low, range, e.cache, e.cacheSize + 1, e.written, e.overflow)
  <2>1. ShiftByte(e) = f
    <3>1. Release(e) = e
      BY <1>10 DEF Release
    <3>2. Release(e) = Coder(e.carry, e.low, e.range, e.cache, e.cacheSize, e.written, e.overflow)
      BY <1>1, <3>1, CoderIs
    <3> QED BY <3>2, ShiftByteIs, Zenon DEF low
  <2>2. q = Top
    BY <1>1, <1>2, <1>10, Sizes
  <2>3. Sent(f) = Sent(e) * Base + Top
    <3> DEFINE s == e.written \o <<e.cache>>
    <3>1. s \in Seq(Nat)
      BY <1>1, KeptAreNat
    <3> HIDE DEF s
    <3>2. e.cacheSize \in Nat \ {0} /\ Top \in Nat
      BY <1>1, BytesAreNat
    <3>3. /\ s \o Copies(e.cacheSize - 1, Top) \in Seq(Nat)
          /\ s \o Copies(e.cacheSize, Top) = Append(s \o Copies(e.cacheSize - 1, Top), Top)
      BY <3>1, <3>2, RunGrows DEF Copies
    <3>4. (e.cacheSize + 1) - 1 = e.cacheSize
      BY <1>1
    <3>5. Value(s \o Copies(e.cacheSize, Top)) = Value(s \o Copies(e.cacheSize - 1, Top)) * Base + Top
      BY <3>2, <3>3, ValueAppend
    <3>6. Sent(f) = Value(s \o Copies((e.cacheSize + 1) - 1, Top))
      BY CoderFields DEF s
    <3> QED BY <3>4, <3>5, <3>6 DEF Sent, s
  <2>4. LowEnd(f) = Base * LowEnd(e)
    <3>0. f.carry = 0 /\ f.low = low
      <4> HIDE DEF range
      <4> QED BY DEF Coder
    <3>1. LowEnd(f) = Word * (Sent(e) * Base + q) + Word * 0 + low
      <4> HIDE DEF f
      <4> QED BY <2>2, <2>3, <3>0 DEF LowEnd
    <3>2. LowEnd(e) = Word * Sent(e) + Word * 0 + e.low
      BY <1>10 DEF LowEnd
    <3>3. \A n \in Nat, x \in Nat : Base * (Word * n + Word * 0 + x) = Word * (n * Base) + Base * x
      BY Sizes
    <3>4. \A n \in Nat : Word * (n * Base + q) + Word * 0 + low = Word * (n * Base) + (Word * q + low)
      BY <1>2, <1>6, Sizes
    <3>5. e.low \in Nat
      BY <1>1
    <3>6. Base * LowEnd(e) = Word * (Sent(e) * Base) + (Word * q + low)
      BY <3>2, <3>3, <3>5, <1>4, <1>5, Zenon
    <3>7. LowEnd(f) = Word * (Sent(e) * Base) + (Word * q + low)
      BY <3>1, <3>4, <1>5, Zenon
    <3> QED BY <3>6, <3>7
  <2>5. Bytes(f) = Bytes(e) + 1
    <3>1. Bytes(f) = Len(e.written) + (e.cacheSize + 1)
      <4> HIDE DEF range
      <4> QED BY DEF Coder, Bytes
    <3>2. Bytes(e) = Len(e.written) + e.cacheSize
      BY DEF Bytes
    <3>3. \A x, y \in Nat : x + (y + 1) = (x + y) + 1
      OBVIOUS
    <3>4. e.cacheSize \in Nat
      BY <1>1
    <3> QED BY <1>1, <3>1, <3>2, <3>3, <3>4, Zenon
  <2>6. f.overflow = e.overflow /\ f.carry = 0 /\ f.low = low /\ f.range = range
    <3> HIDE DEF range
    <3> QED BY DEF Coder
  <2> HIDE DEF f
  <2> QED BY <1>10, <2>1, <2>4, <2>5, <2>6 DEF low
<1> QED BY <1>1, <1>8, <1>9, <1>10

(* Narrowing moves the low end up by the part below a 1, carry and all.     *)
LEMMA NarrowExact ==
  ASSUME NEW e, EncOK(e), NEW bit \in {0, 1}, NEW split \in Nat, NEW above \in Nat,
         split + above <= e.range, Wide(above)
  PROVE  LET f == Narrow(e, bit, split, above)
         IN  /\ f.overflow = e.overflow /\ Bytes(f) = Bytes(e)
             /\ f.range = IF bit = 0 THEN split ELSE above
             /\ LowEnd(f) = LowEnd(e) + bit * split
<1>1. /\ e \in Encoders /\ e.low \in Nat /\ e.low \in 0 .. Word - 1 /\ e.range \in 0 .. Word - 1
      /\ e.carry \in {0, 1}
  BY Sizes DEF EncOK, Encoders
<1>2. above >= 1
  BY Sizes DEF Wide
<1>3. Sent(e) \in Nat
  BY <1>1, KeptAreNat
<1>4. PICK carry, low, range :
        /\ Narrow(e, bit, split, above)
              = Coder(carry, low, range, e.cache, e.cacheSize, e.written, e.overflow)
        /\ range = IF bit = 0 THEN split ELSE above
        /\ carry \in Nat /\ low \in Nat
        /\ Word * carry + low = Word * e.carry + e.low + bit * split
  <2>0. e = Coder(e.carry, e.low, e.range, e.cache, e.cacheSize, e.written, e.overflow)
    BY <1>1, CoderIs
  <2>1. CASE bit = 0
    <3>1. Narrow(e, bit, split, above) = [e EXCEPT !.range = split]
      BY <2>1 DEF Narrow
    <3>2. ASSUME NEW g, g = [e EXCEPT !.range = split]
          PROVE  g = Coder(e.carry, e.low, split, e.cache, e.cacheSize, e.written, e.overflow)
      BY <1>1, <3>2 DEF Coder, Encoders
    <3>3. Narrow(e, bit, split, above)
             = Coder(e.carry, e.low, split, e.cache, e.cacheSize, e.written, e.overflow)
      <4>1. PICK g : g = Narrow(e, bit, split, above)
        BY Zenon
      <4> QED BY <3>1, <3>2, <4>1
    <3>4. Word * e.carry + e.low = Word * e.carry + e.low + bit * split
      BY <1>1, <2>1, Sizes
    <3> QED BY <1>1, <2>1, <3>3, <3>4
  <2>2. CASE bit = 1
    <3> DEFINE low   == (e.low + split) % Word
               carry == IF low < e.low THEN 1 ELSE e.carry
    <3>1. Narrow(e, bit, split, above)
             = [e EXCEPT !.range = above, !.carry = carry, !.low = low]
      BY <1>1, <2>2 DEF Narrow, Encoders
    <3>2. \/ e.low + split < Word /\ low = e.low + split
          \/ e.low + split >= Word /\ low = e.low + split - Word
      BY <1>1, Sizes
    <3> HIDE DEF low
    <3>3. e.low + split >= Word => carry = 1 /\ e.carry = 0
      BY <1>1, <1>2, <3>2, Sizes DEF EncOK, Restrained
    <3>4. e.low + split < Word => carry = e.carry
      BY <1>1, <3>2, Sizes
    <3>5. Word * carry + low = Word * e.carry + e.low + bit * split
      <4>1. CASE e.low + split < Word
        BY <1>1, <2>2, <3>2, <3>4, <4>1, Sizes
      <4>2. CASE e.low + split >= Word
        BY <1>1, <2>2, <3>2, <3>3, <4>2, Sizes
      <4> QED BY <1>1, <4>1, <4>2, Sizes
    <3>8. low \in Nat /\ carry \in Nat
      BY <1>1, <3>2, <3>3, <3>4, Sizes
    <3> HIDE DEF carry
    <3>6. ASSUME NEW g, g = [e EXCEPT !.range = above, !.carry = carry, !.low = low]
          PROVE  g = Coder(carry, low, above, e.cache, e.cacheSize, e.written, e.overflow)
      BY <1>1, <3>6 DEF Coder, Encoders
    <3>7. Narrow(e, bit, split, above)
             = Coder(carry, low, above, e.cache, e.cacheSize, e.written, e.overflow)
      <4>1. PICK g : g = Narrow(e, bit, split, above)
        BY Zenon
      <4> QED BY <3>1, <3>6, <4>1
    <3> QED BY <2>2, <3>5, <3>7, <3>8
  <2> QED BY <2>1, <2>2
<1> DEFINE f == Coder(carry, low, range, e.cache, e.cacheSize, e.written, e.overflow)
<1>5. f.overflow = e.overflow /\ f.range = range /\ f.carry = carry /\ f.low = low
  BY DEF Coder
<1>6. Bytes(f) = Bytes(e) /\ Sent(f) = Sent(e)
  BY DEF Coder, Bytes, Sent
<1> HIDE DEF f
<1>7. LowEnd(f) = LowEnd(e) + bit * split
  <2>1. LowEnd(f) = Word * Sent(e) + Word * carry + low
        /\ LowEnd(e) = Word * Sent(e) + Word * e.carry + e.low
    BY <1>5, <1>6 DEF LowEnd
  <2>2. bit * split \in Nat /\ Word * Sent(e) \in Nat
        /\ Word * carry \in Nat /\ Word * e.carry \in Nat
    BY <1>1, <1>3, <1>4, Sizes
  <2> DEFINE a == Word * Sent(e)
             b == Word * carry
             c == Word * e.carry
             d == bit * split
  <2>3. b + low = c + e.low + d /\ a \in Nat /\ b \in Nat /\ c \in Nat /\ d \in Nat
    BY <1>4, <2>2
  <2>4. LowEnd(f) = a + b + low /\ LowEnd(e) = a + c + e.low
    BY <2>1
  <2> HIDE DEF a, b, c, d
  <2>5. LowEnd(f) = LowEnd(e) + d
    BY <1>1, <1>4, <2>3, <2>4
  <2> QED BY <2>5 DEF d
<1> QED BY <1>4, <1>5, <1>6, <1>7 DEF f

-----------------------------------------------------------------------------
(* The trail: the coder as it should be, its low end a number of any        *)
(* length.                                                                  *)

Entries == [at : Places, range : 0 .. Word - 1, low : Nat, bytes : Nat \ {0}]
First   == [at |-> Start, range |-> Word - 1, low |-> 0, bytes |-> 1]

Room(r)   == IF r.range >= Threshold THEN r.range ELSE r.range * Base
Low(r)    == IF r.range >= Threshold THEN r.low ELSE r.low * Base
Size(r)   == IF r.range >= Threshold THEN r.bytes ELSE r.bytes + 1
Part(r)   == Split(r.at, Room(r))
Advance(r) ==
  [at |-> Moved(r.at, GivenBit(r.at)),
   range |-> IF GivenBit(r.at) = 0 THEN Part(r) ELSE Above(r.at, Room(r)),
   low |-> Low(r) + GivenBit(r.at) * Part(r), bytes |-> Size(r)]

Index(a) == (a.call - 1) * Width + Len(a.tree)
Within(a) == a.call <= Len(script) \/ (a.call = Len(script) + 1 /\ a.tree = <<>>)
EntryOK(r) == r \in Entries /\ Wide(r.range) /\ Within(r.at)

(* The range a bit is coded in. *)
LEMMA RoomOK ==
  ASSUME NEW r, EntryOK(r)
  PROVE  /\ Room(r) \in 0 .. Word - 1 /\ Room(r) \in Nat /\ Room(r) >= Threshold
         /\ Low(r) \in Nat /\ Size(r) \in Nat \ {0} /\ Size(r) <= r.bytes + 1
<1>1. r.range \in 0 .. Word - 1 /\ r.range \in Nat /\ r.low \in Nat /\ r.bytes \in Nat \ {0}
      /\ r.range * Base >= Threshold
  BY Sizes DEF EntryOK, Entries, Wide
<1>2. r.low * Base \in Nat /\ r.range * Base \in Nat
  BY <1>1, Sizes
<1>3. Room(r) \in 0 .. Word - 1 /\ Room(r) >= Threshold
  <2>1. r.range < Threshold => r.range * Base <= (Threshold - 1) * Base
    BY <1>1, Sizes
  <2>2. (Threshold - 1) * Base = Word - Base
    BY Sizes
  <2> QED BY <1>1, <1>2, <2>1, <2>2, Sizes DEF Room
<1> QED BY <1>1, <1>2, <1>3, Sizes DEF Low, Size

LEMMA AdvanceOK ==
  ASSUME NEW r, EntryOK(r), CallOK(r.at)
  PROVE  /\ EntryOK(Advance(r))
         /\ Index(Advance(r).at) = Index(r.at) + 1
         /\ Part(r) \in Nat /\ Above(r.at, Room(r)) \in Nat
         /\ Part(r) + Above(r.at, Room(r)) <= Room(r)
<1> DEFINE bit == GivenBit(r.at)
           at1 == Moved(r.at, bit)
           above == Above(r.at, Room(r))
<1>1. bit \in {0, 1}
  BY CurrentOK
<1>2. /\ at1 \in Places
      /\ \/ /\ at1.call = r.at.call /\ Len(r.at.tree) + 1 < Width
            /\ at1.tree = Append(r.at.tree, bit)
         \/ /\ at1.call = r.at.call + 1 /\ Len(r.at.tree) + 1 = Width
            /\ at1.tree = <<>>
  BY <1>1, MovedOK
<1>3. /\ Part(r) \in Nat /\ above \in Nat /\ Part(r) + above <= Room(r)
      /\ Wide(Part(r)) /\ Wide(above)
  BY RoomOK, PartsOK DEF Part
<1>4. /\ r.at.call \in Nat \ {0} /\ r.at.tree \in Seq({0, 1}) /\ Width \in Nat
      /\ r.at.call <= Len(script) /\ Len(script) \in Nat
  BY NodeLength, SizesAssumption DEF CallOK, Places
<1>5. Room(r) \in 0 .. Word - 1 /\ Low(r) \in Nat /\ Size(r) \in Nat \ {0}
  BY RoomOK
<1> HIDE DEF bit, at1, above
<1>6. /\ Advance(r).at = at1 /\ Advance(r).bytes = Size(r)
      /\ Advance(r).range = IF bit = 0 THEN Part(r) ELSE above
      /\ Advance(r).low = Low(r) + bit * Part(r)
  BY DEF Advance, bit, at1, above
<1>7. EntryOK(Advance(r))
  <2>1. Within(at1)
    BY <1>2, <1>4 DEF Within
  <2>2. Part(r) \in 0 .. Word - 1 /\ above \in 0 .. Word - 1
    BY <1>3, <1>5, Sizes
  <2>3. Low(r) + bit * Part(r) \in Nat
    BY <1>1, <1>3, <1>5
  <2>4. Advance(r) \in Entries
    BY <1>2, <1>5, <2>2, <2>3 DEF Advance, Entries, bit, at1, above
  <2> QED BY <1>3, <1>6, <2>1, <2>4 DEF EntryOK
<1>8. Index(at1) = Index(r.at) + 1
  <2>1. CASE at1.call = r.at.call /\ at1.tree = Append(r.at.tree, bit)
    <3>1. Len(at1.tree) = Len(r.at.tree) + 1
      BY <1>1, <1>4, <2>1
    <3>2. (r.at.call - 1) * Width \in Nat /\ Len(r.at.tree) \in Nat
      BY <1>4
    <3> DEFINE m == (r.at.call - 1) * Width
    <3>3. Index(at1) = m + Len(at1.tree) /\ Index(r.at) = m + Len(r.at.tree) /\ m \in Nat
      BY <2>1, <3>2 DEF Index
    <3> HIDE DEF m
    <3> QED BY <3>1, <3>2, <3>3
  <2>2. CASE at1.call = r.at.call + 1 /\ Len(r.at.tree) + 1 = Width /\ at1.tree = <<>>
    <3>1. \A c \in Nat \ {0} : (c + 1 - 1) * Width = (c - 1) * Width + Width /\ (c - 1) * Width \in Nat
      BY <1>4
    <3>2. (r.at.call + 1 - 1) * Width = (r.at.call - 1) * Width + Width /\ (r.at.call - 1) * Width \in Nat
      BY <1>4, <3>1
    <3>3. Len(at1.tree) = 0 /\ Len(r.at.tree) \in Nat
      BY <1>4, <2>2
    <3> DEFINE m == (r.at.call - 1) * Width
    <3>5. (at1.call - 1) * Width = m + Width
      <4>1. at1.call = r.at.call + 1
        BY <2>2
      <4>2. \A x, y \in Nat : y = x + 1 => (y - 1) * Width = (x + 1 - 1) * Width
        OBVIOUS
      <4>3. r.at.call \in Nat /\ r.at.call + 1 \in Nat
        BY <1>4
      <4> QED BY <3>2, <4>1, <4>2, <4>3, Zenon
    <3>4. Index(at1) = m + Width + 0 /\ Index(r.at) = m + Len(r.at.tree) /\ m \in Nat
      <4>1. Index(at1) = m + Width + 0
        BY <3>3, <3>5, Zenon DEF Index
      <4> QED BY <3>2, <4>1, Zenon DEF Index
    <3> HIDE DEF m
    <3>6. Len(r.at.tree) + 1 = Width /\ Width \in Nat /\ Len(r.at.tree) \in Nat
      BY <1>4, <2>2, <3>3
    <3> QED BY <3>4, <3>6
  <2> QED BY <1>2, <2>1, <2>2
<1> QED BY <1>3, <1>6, <1>7, <1>8 DEF above

Last == trail[Len(trail)]

TrailOK ==
  /\ trail \in Seq(Entries) /\ Len(trail) >= 1 /\ trail[1] = First
  /\ \A p \in 1 .. Len(trail) :
        EntryOK(trail[p]) /\ Index(trail[p].at) = p - 1 /\ trail[p].bytes <= p
  /\ \A p \in 1 .. Len(trail) - 1 : CallOK(trail[p].at) /\ trail[p + 1] = Advance(trail[p])

LEMMA FirstOK == Len(script) \in Nat /\ Len(script) >= 1 => EntryOK(First) /\ Index(First.at) = 0
<1> SUFFICES ASSUME Len(script) \in Nat, Len(script) >= 1
             PROVE  EntryOK(First) /\ Index(First.at) = 0
  OBVIOUS
<1>1. Word - 1 \in 0 .. Word - 1 /\ Wide(Word - 1)
  <2>1. Word - 1 \in Nat /\ Word - 1 >= Threshold
    BY Sizes
  <2>2. (Word - 1) * Base >= Word - 1
    BY <2>1, Sizes
  <2> QED BY <2>1, <2>2, Sizes DEF Wide
<1>2. First \in Entries /\ First.at = Start /\ First.range = Word - 1
  BY <1>1, StartOK DEF First, Entries
<1>3. Within(Start)
  BY StartOK DEF Within
<1>4. Index(Start) = 0
  <2>1. Len(<<>>) = 0 /\ (1 - 1) * Width = 0
    BY SizesAssumption
  <2> QED BY <2>1, StartOK DEF Index
<1> QED BY <1>1, <1>2, <1>3, <1>4 DEF EntryOK

LEMMA Unmoved == script' = script => /\ \A r : Advance(r)' = Advance(r)
                                     /\ \A r : EntryOK(r)' = EntryOK(r)
                                     /\ \A a : CallOK(a)' = CallOK(a)
  BY DEF Advance, Part, Room, Low, Size, Split, Above, Moved, GivenBit, BitAt, Current, Adapted,
         NextOff, Masked, Slot, Fixed, EntryOK, Within, CallOK

LEMMA TrailGrows ==
  ASSUME TrailOK, CallOK(Last.at), script' = script, trail' = Append(trail, Advance(Last))
  PROVE  TrailOK' /\ Len(trail') = Len(trail) + 1 /\ Last' = Advance(Last)
<1> DEFINE n == Len(trail)
           last == Advance(Last)
<1>1. n \in Nat /\ n >= 1 /\ trail \in Seq(Entries)
  BY DEF TrailOK
<1>2. EntryOK(Last) /\ Index(Last.at) = n - 1 /\ Last.bytes <= n
  BY <1>1 DEF TrailOK, Last
<1>3. EntryOK(last) /\ Index(last.at) = n /\ last.bytes <= n + 1
  <2>1. last.bytes = Size(Last) /\ Size(Last) <= Last.bytes + 1 /\ Size(Last) \in Nat
    BY <1>2, RoomOK DEF Advance
  <2>2. Last.bytes \in Nat
    BY <1>2 DEF EntryOK, Entries
  <2> QED BY <1>1, <1>2, <2>1, <2>2, AdvanceOK
<1>4. last \in Entries
  BY <1>3 DEF EntryOK
<1> HIDE DEF last
<1>5. /\ trail' \in Seq(Entries) /\ Len(trail') = n + 1
      /\ \A p \in 1 .. n : trail'[p] = trail[p]
      /\ trail'[n + 1] = last
  BY <1>1, <1>4 DEF last
<1> HIDE DEF n
<1>6. \A p \in 1 .. n + 1 :
         EntryOK(trail'[p]) /\ Index(trail'[p].at) = p - 1 /\ trail'[p].bytes <= p
  <2> SUFFICES ASSUME NEW p \in 1 .. n + 1
               PROVE  EntryOK(trail'[p]) /\ Index(trail'[p].at) = p - 1 /\ trail'[p].bytes <= p
    OBVIOUS
  <2>1. CASE p \in 1 .. n
    <3>1. EntryOK(trail[p]) /\ Index(trail[p].at) = p - 1 /\ trail[p].bytes <= p
      BY <2>1, Zenon DEF TrailOK, n
    <3>2. trail'[p] = trail[p]
      BY <1>5, <2>1
    <3> QED BY <3>1, <3>2
  <2>2. CASE p = n + 1
    BY <1>1, <1>3, <1>5, <2>2
  <2>3. p \in 1 .. n \/ p = n + 1
    BY <1>1
  <2> QED BY <2>1, <2>2, <2>3, Zenon
<1>7. \A p \in 1 .. n : CallOK(trail'[p].at) /\ trail'[p + 1] = Advance(trail'[p])
  <2> SUFFICES ASSUME NEW p \in 1 .. n
               PROVE  CallOK(trail'[p].at) /\ trail'[p + 1] = Advance(trail'[p])
    OBVIOUS
  <2>1. CASE p \in 1 .. n - 1
    <3>1. p + 1 \in 1 .. n /\ p \in 1 .. n
      BY <1>1, <2>1
    <3>2. CallOK(trail[p].at) /\ trail[p + 1] = Advance(trail[p])
      BY <2>1, Zenon DEF TrailOK, n
    <3>3. trail'[p] = trail[p] /\ trail'[p + 1] = trail[p + 1]
      BY <1>5, <3>1
    <3> QED BY <3>2, <3>3
  <2>2. CASE p = n
    BY <1>5, <2>2 DEF last, Last, n
  <2>3. p \in 1 .. n - 1 \/ p = n
    BY <1>1
  <2> QED BY <2>1, <2>2, <2>3, Zenon
<1>8. trail'[1] = First
  BY <1>1, <1>5 DEF TrailOK
<1>9. Len(trail') - 1 = n /\ Len(trail') >= 1
  BY <1>1, <1>5
<1> QED BY <1>5, <1>6, <1>7, <1>8, <1>9, Unmoved DEF TrailOK, Last, last, n

-----------------------------------------------------------------------------
(* The encoder writes what the trail says, as long as nothing overflows.    *)

(* A normalisation, exactly. *)
LEMMA NormalizeExact ==
  ASSUME limit \in Nat, NEW e, EncOK(e)
  PROVE  LET f == Normalize(e)
         IN  /\ ~f.overflow =>
                  /\ ~e.overflow
                  /\ LowEnd(f) = IF e.range >= Threshold THEN LowEnd(e) ELSE LowEnd(e) * Base
                  /\ Bytes(f) = IF e.range >= Threshold THEN Bytes(e) ELSE Bytes(e) + 1
             /\ f.range = IF e.range >= Threshold THEN e.range ELSE e.range * Base
             /\ f.overflow /\ ~e.overflow => limit < Bytes(e)
<1>1. e.range \in Nat /\ e \in Encoders
  BY Sizes DEF EncOK, Encoders
<1>2. CASE e.range >= Threshold
  BY <1>2 DEF Normalize
<1>3. CASE ~(e.range >= Threshold)
  <2>1. Normalize(e) = ShiftByte(e)
    BY <1>3 DEF Normalize
  <2>2. (e.range * Base) % Word = e.range * Base
    <3>1. e.range < Threshold
      BY <1>1, <1>3, Sizes
    <3>2. e.range % Threshold = e.range
      BY <1>1, <3>1, Sizes
    <3>3. (e.range * Base) % Word = Base * (e.range % Threshold)
      BY <1>1, ShiftMod
    <3>4. Base * e.range = e.range * Base
      BY <1>1, Sizes
    <3> QED BY <3>2, <3>3, <3>4
  <2>3. LowEnd(e) * Base = Base * LowEnd(e)
    <3>1. LowEnd(e) \in Nat
      <4>1. Sent(e) \in Nat
        BY <1>1, KeptAreNat
      <4>2. e.carry \in Nat /\ e.low \in Nat
        BY <1>1, Sizes DEF Encoders
      <4> QED BY <4>1, <4>2, Sizes DEF LowEnd
    <3> QED BY <3>1, Sizes
  <2>4. /\ ~ShiftByte(e).overflow =>
             /\ ~e.overflow
             /\ LowEnd(ShiftByte(e)) = Base * LowEnd(e)
             /\ Bytes(ShiftByte(e)) = Bytes(e) + 1
        /\ ShiftByte(e).overflow /\ ~e.overflow => limit < Bytes(e)
        /\ ShiftByte(e).range = (e.range * Base) % Word
    BY ShiftByteExact, Zenon
  <2> QED BY <1>3, <2>1, <2>2, <2>3, <2>4
<1> QED BY <1>2, <1>3

Scale(k) ==
  IF k = 0 THEN 1 ELSE IF k = 1 THEN Base ELSE IF k = 2 THEN Base * Base ELSE
  IF k = 3 THEN Threshold ELSE IF k = 4 THEN Word ELSE IF k = 5 THEN Word * Base
  ELSE Word * (Base * Base)

LEMMA ScaleGrows ==
  ASSUME NEW k \in 0 .. 5, NEW x \in Nat
  PROVE  Scale(k) \in Nat /\ (x * Scale(k)) * Base = x * Scale(k + 1)
<1>0. Base \in Nat /\ Base * Base \in Nat /\ Threshold \in Nat /\ Word \in Nat /\ Word * Base \in Nat
  BY Sizes
<1>1. Scale(k) \in Nat
  BY <1>0 DEF Scale
<1>2. Scale(k + 1) = Scale(k) * Base
  <2>1. Threshold * Base = Word /\ Base * Base * Base = Threshold
    BY Sizes DEF Threshold
  <2>2. (Word * Base) * Base = Word * (Base * Base)
    BY <1>0
  <2>3. 1 * Base = Base
    BY <1>0
  <2>4. k = 0 \/ k = 1 \/ k = 2 \/ k = 3 \/ k = 4 \/ k = 5
    OBVIOUS
  <2> QED BY <2>1, <2>2, <2>3, <2>4 DEF Scale
<1>3. \A y \in Nat : (x * y) * Base = x * (y * Base)
  BY <1>0
<1> QED BY <1>1, <1>2, <1>3

LEMMA ScaleOfWord ==
  ASSUME NEW k \in 4 .. 6
  PROVE  \E m \in Nat : \A x \in Nat : x * Scale(k) = Word * (x * m)
<1>1. Base \in Nat /\ Base * Base \in Nat /\ Word \in Nat
  BY Sizes
<1>2. \A x, m \in Nat : x * (Word * m) = Word * (x * m)
  BY <1>1
<1>3. k = 4 \/ k = 5 \/ k = 6
  OBVIOUS
<1>4. Scale(4) = Word * 1 /\ Scale(5) = Word * Base /\ Scale(6) = Word * (Base * Base)
  BY <1>1 DEF Scale
<1>5. PICK m \in Nat : Scale(k) = Word * m
  BY <1>1, <1>3, <1>4
<1>6. \A x \in Nat : x * Scale(k) = Word * (x * m)
  BY <1>2, <1>5
<1> QED BY <1>6, Zenon

Coded ==
  /\ ~enc.overflow =>
       /\ TrailOK
       /\ exact = LowEnd(enc) /\ exact = Last.low * Scale(flushed)
       /\ Bytes(enc) = Last.bytes + flushed
       /\ phase = "encode" => Last.at = at /\ Last.range = enc.range
       /\ phase # "encode" => Last.at.call = Len(script) + 1
       /\ flushed >= 1 => enc.carry = 0
       /\ flushed >= 5 => enc.cacheSize = 1
  /\ enc.overflow => limit < Len(script) * Width + Rounds
  /\ phase \in {"open", "decode", "done"} => ~enc.overflow
  /\ phase = "refused" => enc.overflow
  /\ phase \in {"refused", "open", "decode", "done"} => flushed = Rounds

LEMMA CodedInit == Init => Coded
<1> SUFFICES ASSUME Init PROVE Coded
  OBVIOUS
<1>1. /\ enc = [carry |-> 0, low |-> 0, range |-> Word - 1, cache |-> 0,
                cacheSize |-> 1, written |-> <<>>, overflow |-> FALSE]
      /\ trail = <<First>> /\ exact = 0 /\ phase = "encode" /\ flushed = 0 /\ at = Start
  BY DEF Init, First
<1>2. EntryOK(First) /\ Index(First.at) = 0
  BY IInvInit, FirstOK DEF IInv, TypeOK
<1>3. TrailOK /\ Last = First
  <2>1. trail \in Seq(Entries) /\ Len(trail) = 1 /\ trail[1] = First
    BY <1>1, <1>2 DEF EntryOK
  <2>2. First.bytes = 1
    BY DEF First
  <2> QED BY <1>2, <2>1, <2>2 DEF TrailOK, Last
<1>4. LowEnd(enc) = 0
  <2>1. <<>> \o <<0>> \o Copies(1 - 1, Top) = Append(<<>>, 0)
    BY NoRun DEF Copies
  <2>2. Value(Append(<<>>, 0)) = 0
    <3>1. Value(<<>>) = 0
      BY NumeralEmpty, Sizes DEF Value
    <3>2. <<>> \in Seq(Nat) /\ 0 \in Nat
      OBVIOUS
    <3>3. Value(Append(<<>>, 0)) = 0 * Base + 0
      BY <3>1, <3>2, ValueAppend, Zenon
    <3> QED BY <3>3, Sizes
  <2>3. Sent(enc) = 0
    BY <1>1, <2>1, <2>2 DEF Sent
  <2> QED BY <1>1, <2>3, Sizes DEF LowEnd
<1>5. Bytes(enc) = 1 + 0
  BY <1>1 DEF Bytes
<1>6. 0 = 0 * Scale(0)
  BY DEF Scale
<1> QED BY <1>1, <1>3, <1>4, <1>5, <1>6 DEF Coded, First

(* How many bits a call still in the script, or its end, has before it. *)
LEMMA IndexInside ==
  ASSUME NEW a, a \in Places, script \in Seq(Calls)
  PROVE  /\ a.call <= Len(script) => Index(a) + 1 <= Len(script) * Width
         /\ a.call = Len(script) + 1 /\ a.tree = <<>> => Index(a) = Len(script) * Width
         /\ Index(a) \in Nat
<1>1. /\ a.call \in Nat \ {0} /\ Len(a.tree) \in Nat /\ Len(a.tree) < Width /\ Width \in Nat
      /\ Len(script) \in Nat
  BY NodeLength, SizesAssumption DEF Places
<1>2. \A x, y \in Nat : x <= y => x * Width <= y * Width /\ x * Width \in Nat /\ y * Width \in Nat
  BY <1>1
<1>3. a.call - 1 \in Nat
  BY <1>1
<1>4. ASSUME a.call <= Len(script) PROVE Index(a) + 1 <= Len(script) * Width
  <2>1. a.call * Width <= Len(script) * Width /\ a.call \in Nat
        /\ a.call * Width \in Nat /\ Len(script) * Width \in Nat
    BY <1>1, <1>2, <1>4
  <2>2. \A x \in Nat : (x - 1) * Width = x * Width - Width
    BY <1>1
  <2>3. (a.call - 1) * Width = a.call * Width - Width
    BY <2>1, <2>2
  <2> DEFINE m == a.call * Width
             n == Len(script) * Width
  <2>4. Index(a) = m - Width + Len(a.tree) /\ m <= n /\ m \in Nat /\ n \in Nat
    BY <2>1, <2>3 DEF Index
  <2> HIDE DEF m, n
  <2>5. Index(a) + 1 <= n
    BY <1>1, <2>4
  <2> QED BY <2>5 DEF n
<1>5. ASSUME a.call = Len(script) + 1, a.tree = <<>> PROVE Index(a) = Len(script) * Width
  <2>1. a.call - 1 = Len(script) /\ Len(a.tree) = 0
    BY <1>1, <1>5
  <2>2. Index(a) = Len(script) * Width + 0
    BY <2>1, Zenon DEF Index
  <2>3. Len(script) * Width \in Nat
    BY <1>1
  <2> QED BY <2>2, <2>3
<1>6. Index(a) \in Nat
  <2>1. (a.call - 1) * Width \in Nat
    BY <1>1, <1>3
  <2> DEFINE m == (a.call - 1) * Width
  <2>2. m \in Nat /\ Index(a) = m + Len(a.tree)
    BY <2>1 DEF Index
  <2> HIDE DEF m
  <2> QED BY <1>1, <2>2
<1> QED BY <1>4, <1>5, <1>6

LEMMA CodedEncodeBit == IInv /\ Coded /\ EncodeBit => Coded'
<1> SUFFICES ASSUME IInv, Coded, EncodeBit PROVE Coded'
  OBVIOUS
<1> DEFINE bit   == GivenBit(at)
           e     == Normalize(enc)
           split == Split(at, e.range)
           above == Above(at, e.range)
           base  == IF enc.range < Threshold THEN exact * Base ELSE exact
<1>1. /\ phase = "encode" /\ enc' = Narrow(e, bit, split, above)
      /\ exact' = base + bit * split
      /\ Position(bit, "flush", enc'.overflow)
      /\ trail' = Append(trail, [at |-> at', range |-> enc'.range, low |-> exact',
                                 bytes |-> Bytes(enc')])
      /\ UNCHANGED <<script, limit, flushed, dec, got>>
  BY DEF EncodeBit, callVars
<1>2. CallOK(at) /\ limit \in Nat /\ flushed = 0 /\ flushed' = 0
  BY <1>1, LimitIsNat DEF IInv, TypeOK, InCall, CallOK
<1>3. bit \in {0, 1}
  BY <1>2, CurrentOK
<1>4. EncOK(enc) /\ Wide(enc.range)
  BY <1>1 DEF IInv, TypeOK, EncOK, OneByteIsEnough, Wide
<1>5. EncOK(e) /\ e.range >= Threshold
  BY <1>2, <1>4, NormalizeOK
<1>6. e.range \in Nat
  BY <1>5, Sizes DEF EncOK, Encoders
<1>7. /\ ~e.overflow =>
           /\ ~enc.overflow
           /\ LowEnd(e) = IF enc.range >= Threshold THEN LowEnd(enc) ELSE LowEnd(enc) * Base
           /\ Bytes(e) = IF enc.range >= Threshold THEN Bytes(enc) ELSE Bytes(enc) + 1
      /\ e.range = IF enc.range >= Threshold THEN enc.range ELSE enc.range * Base
      /\ e.overflow /\ ~enc.overflow => limit < Bytes(enc)
  BY <1>2, <1>4, NormalizeExact, Zenon
<1> HIDE DEF bit, e
<1>8. /\ split \in Nat /\ above \in Nat /\ split + above <= e.range
      /\ Wide(split) /\ Wide(above)
  BY <1>2, <1>5, <1>6, PartsOK
<1> HIDE DEF split, above
<1>9. /\ enc'.overflow = e.overflow /\ Bytes(enc') = Bytes(e)
      /\ enc'.range = IF bit = 0 THEN split ELSE above
      /\ LowEnd(enc') = LowEnd(e) + bit * split
  BY <1>1, <1>3, <1>5, <1>8, NarrowExact
<1>10. /\ at' = Moved(at, bit) /\ at'.call <= Len(script) + 1 /\ at'.call \in Nat
       /\ phase' \in {"encode", "flush"}
       /\ phase' = "encode" => at'.call <= Len(script)
       /\ phase' = "flush" /\ ~enc'.overflow => at'.call = Len(script) + 1
  <2>1. enc'.overflow \in BOOLEAN
    BY <1>5, <1>9 DEF EncOK, Encoders
  <2>2. "flush" # phase
    BY <1>1
  <2> QED BY <1>1, <1>2, <1>3, <2>1, <2>2, PositionOK DEF Places
(* The coder as it should be takes the same step. *)
<1>11. ASSUME ~enc'.overflow
       PROVE  /\ TrailOK /\ exact = LowEnd(enc) /\ trail' = Append(trail, Advance(Last))
              /\ exact' = LowEnd(enc') /\ Last.at = at
              /\ exact' = Advance(Last).low /\ Bytes(enc') = Advance(Last).bytes
              /\ enc'.range = Advance(Last).range
  <2>1. ~e.overflow /\ ~enc.overflow
    BY <1>7, <1>9, <1>11
  <2>2. /\ TrailOK /\ exact = LowEnd(enc) /\ exact = Last.low * Scale(flushed)
        /\ Bytes(enc) = Last.bytes + flushed /\ Last.at = at /\ Last.range = enc.range
    BY <1>1, <2>1 DEF Coded
  <2>3. EntryOK(Last)
    BY <2>2 DEF TrailOK, Last
  <2>4. Last.low \in Nat /\ Last.bytes \in Nat /\ enc.range \in Nat
    BY <1>4, <2>3, Sizes DEF EntryOK, Entries, EncOK, Encoders
  <2>5. exact = Last.low /\ Bytes(enc) = Last.bytes
    BY <1>2, <2>2, <2>4 DEF Scale
  <2>6. e.range = Room(Last) /\ LowEnd(e) = Low(Last) /\ Bytes(e) = Size(Last) /\ base = Low(Last)
    <3>1. enc.range < Threshold <=> ~(enc.range >= Threshold)
      BY <2>4, Sizes
    <3> QED BY <1>7, <2>1, <2>2, <2>5, <3>1 DEF Room, Low, Size
  <2> HIDE DEF base
  <2>7. split = Part(Last) /\ above = Above(Last.at, Room(Last)) /\ bit = GivenBit(Last.at)
    BY <2>2, <2>6 DEF split, above, Part, bit
  <2>8. /\ enc'.range = Advance(Last).range /\ Bytes(enc') = Advance(Last).bytes
        /\ exact' = Advance(Last).low /\ exact' = LowEnd(enc') /\ at' = Advance(Last).at
    BY <1>1, <1>9, <1>10, <2>2, <2>6, <2>7 DEF Advance
  <2>9. [at |-> at', range |-> enc'.range, low |-> exact', bytes |-> Bytes(enc')] = Advance(Last)
    BY <2>8 DEF Advance
  <2> QED BY <1>1, <2>2, <2>8, <2>9
<1>12. ASSUME ~enc'.overflow
       PROVE  /\ TrailOK' /\ exact' = LowEnd(enc') /\ exact' = Last'.low * Scale(flushed')
              /\ Bytes(enc') = Last'.bytes + flushed'
              /\ phase' = "encode" => Last'.at = at' /\ Last'.range = enc'.range
              /\ phase' # "encode" => Last'.at.call = Len(script') + 1
  <2>1. TrailOK' /\ Last' = Advance(Last)
    BY <1>1, <1>2, <1>11, <1>12, TrailGrows
  <2>2. Advance(Last).at = at'
    BY <1>10, <1>11, <1>12 DEF Advance, bit
  <2>3. EntryOK(Advance(Last))
    <3>1. EntryOK(Last)
      BY <1>11, <1>12 DEF TrailOK, Last
    <3> QED BY <1>2, <1>11, <1>12, <3>1, AdvanceOK
  <2>4. Advance(Last).low \in Nat /\ Advance(Last).bytes \in Nat
    BY <2>3 DEF EntryOK, Entries
  <2>5. Advance(Last).low = Advance(Last).low * Scale(flushed')
        /\ Advance(Last).bytes = Advance(Last).bytes + flushed'
    BY <1>2, <2>4 DEF Scale
  <2> QED BY <1>1, <1>10, <1>11, <1>12, <2>1, <2>2, <2>5
(* Overflow comes only when there was no room. *)
<1>13. ASSUME e.overflow PROVE limit < Len(script) * Width + Rounds
  <2>1. CASE enc.overflow
    BY <2>1 DEF Coded
  <2>2. CASE ~enc.overflow
    <3>1. limit < Bytes(enc)
      BY <1>7, <1>13, <2>2
    <3>2. TrailOK /\ Bytes(enc) = Last.bytes + flushed /\ Last.at = at
      BY <1>1, <2>2 DEF Coded
    <3>3. Last.bytes <= Len(trail) /\ Index(at) = Len(trail) - 1 /\ Last.bytes \in Nat /\ Len(trail) \in Nat
      BY <3>2 DEF TrailOK, Last, EntryOK, Entries
    <3>4. Index(at) + 1 <= Len(script) * Width
      BY <1>2, IndexInside DEF CallOK
    <3>5. Len(script) * Width \in Nat
      BY <1>2, SizesAssumption DEF CallOK
    <3> DEFINE x == Len(script) * Width
    <3>6. Index(at) + 1 <= x /\ x \in Nat
      BY <3>4, <3>5
    <3> HIDE DEF x
    <3>7. limit < x + Rounds
      BY <1>2, <3>1, <3>2, <3>3, <3>6 DEF Rounds
    <3> QED BY <3>7 DEF x
  <2> QED BY <2>1, <2>2
<1> QED BY <1>1, <1>2, <1>9, <1>10, <1>12, <1>13 DEF Coded

LEMMA CodedFlush == IInv /\ Coded /\ Flush => Coded'
<1> SUFFICES ASSUME IInv, Coded, Flush PROVE Coded'
  OBVIOUS
<1> DEFINE e == [enc EXCEPT !.range = 0]
<1>1. /\ phase = "flush" /\ enc' = Normalize(e) /\ flushed' = flushed + 1
      /\ phase' = IF flushed' < Rounds THEN phase
                  ELSE IF enc'.overflow THEN "refused" ELSE "open"
      /\ exact' = exact * Base
      /\ UNCHANGED <<script, limit, at, dec, got, trail>>
  BY DEF Flush, callVars
<1>2. limit \in Nat /\ flushed \in 0 .. 5 /\ flushed' \in 0 .. 6 /\ flushed \in Nat
  BY <1>1, LimitIsNat DEF IInv, TypeOK, Rounds
<1>3. EncOK(enc) /\ enc \in Encoders
  BY DEF IInv, TypeOK, EncOK
<1>4. /\ EncOK(e) /\ e.range = 0 /\ e.overflow = enc.overflow /\ e.carry = enc.carry
      /\ e.low = enc.low /\ LowEnd(e) = LowEnd(enc) /\ Bytes(e) = Bytes(enc)
  <2>1. /\ enc \in Encoders /\ Len(enc.written) <= limit
        /\ enc.low \in Nat /\ enc.range \in Nat
    BY <1>3, Sizes DEF EncOK, Encoders
  <2>2. 0 \in 0 .. Word - 1
    BY Sizes
  <2>3. /\ e \in Encoders /\ e.range = 0 /\ e.carry = enc.carry /\ e.low = enc.low
        /\ e.cache = enc.cache /\ e.written = enc.written /\ e.overflow = enc.overflow
        /\ e.cacheSize = enc.cacheSize
    BY <2>1, <2>2 DEF Encoders
  <2> HIDE DEF e
  <2>4. Restrained(e)
    BY <1>3, <2>1, <2>3, Sizes DEF EncOK, Restrained
  <2> QED BY <2>1, <2>3, <2>4 DEF EncOK, LowEnd, Sent, Bytes
<1> HIDE DEF e
<1>5. enc' = ShiftByte(e)
  BY <1>1, <1>4, Sizes DEF Normalize
<1>6. /\ ~enc'.overflow =>
           /\ ~e.overflow
           /\ LowEnd(enc') = Base * LowEnd(e)
           /\ Bytes(enc') = Bytes(e) + 1
           /\ e.carry = 0 /\ e.low < Top * Threshold => enc'.cacheSize = 1
      /\ enc'.overflow /\ ~e.overflow => limit < Bytes(e)
      /\ enc'.carry = 0
  BY <1>2, <1>4, <1>5, ShiftByteExact, Zenon
<1>7. ASSUME ~enc.overflow
      PROVE  /\ TrailOK /\ exact = LowEnd(enc) /\ exact = Last.low * Scale(flushed)
             /\ Bytes(enc) = Last.bytes + flushed /\ Last.at.call = Len(script) + 1
             /\ flushed >= 1 => enc.carry = 0
             /\ EntryOK(Last) /\ Last.low \in Nat /\ Last.bytes \in Nat
             /\ LowEnd(enc) \in Nat
  <2>1. /\ TrailOK /\ exact = LowEnd(enc) /\ exact = Last.low * Scale(flushed)
        /\ Bytes(enc) = Last.bytes + flushed /\ Last.at.call = Len(script) + 1
        /\ flushed >= 1 => enc.carry = 0
    BY <1>1, <1>7 DEF Coded
  <2>2. EntryOK(Last)
    BY <2>1 DEF TrailOK, Last
  <2>3. Last.low \in Nat /\ Last.bytes \in Nat
    BY <2>2 DEF EntryOK, Entries
  <2>4. LowEnd(enc) \in Nat
    <3>1. Scale(flushed) \in Nat
      BY <1>2, ScaleGrows
    <3> QED BY <2>1, <2>3, <3>1
  <2> QED BY <2>1, <2>2, <2>3, <2>4
(* With the word used up the low end has no bits left in it. *)
<1>8. ASSUME ~enc'.overflow, flushed' >= 5 PROVE enc'.cacheSize = 1
  <2>0. ~enc.overflow /\ flushed \in 4 .. 6
    BY <1>1, <1>2, <1>4, <1>6, <1>8
  <2>1. /\ exact = LowEnd(enc) /\ exact = Last.low * Scale(flushed)
        /\ Last.low \in Nat
    BY <1>7, <2>0
  <2>2. PICK m \in Nat : Last.low * Scale(flushed) = Word * (Last.low * m)
    <3>1. PICK m \in Nat : \A x \in Nat : x * Scale(flushed) = Word * (x * m)
      BY <2>0, ScaleOfWord, Zenon
    <3> QED BY <2>1, <3>1, Zenon
  <2>3. enc.carry = 0
    BY <1>7, <2>0
  <2>4. enc.low = 0
    <3>1. Sent(enc) \in Nat /\ enc.low \in 0 .. Word - 1
      <4>1. Sent(enc) \in Nat
        BY <1>3, KeptAreNat
      <4> QED BY <1>3, <4>1 DEF Encoders
    <3> DEFINE a == Last.low * m
               b == Sent(enc)
    <3>2. a \in Nat
      <4>1. Last.low \in Nat
        BY <1>7, <2>0
      <4> QED BY <4>1
    <3>3. Word * b + Word * 0 + enc.low = Word * a
      BY <2>1, <2>2, <2>3 DEF LowEnd
    <3> HIDE DEF a, b
    <3>4. Word * a = Word * b + enc.low /\ b \in Nat /\ Word \in Nat /\ Word > 0
      BY <3>1, <3>2, <3>3, Sizes DEF b
    <3>5. Word * a \in Nat /\ Word * a = Word * a + 0 /\ a \in Int /\ b \in Int /\ 0 \in 0 .. Word - 1
      BY <3>2, <3>4
    <3>6. (Word * a) % Word = enc.low
      BY <3>1, <3>4, <3>5, RemainderIs
    <3>7. (Word * a) % Word = 0
      BY <3>4, <3>5, RemainderIs
    <3> QED BY <3>6, <3>7
  <2>5. 0 < Top * Threshold
    BY Sizes
  <2> QED BY <1>4, <1>6, <1>8, <2>3, <2>4, <2>5
<1>9. ASSUME ~enc'.overflow
      PROVE  /\ TrailOK' /\ exact' = LowEnd(enc') /\ exact' = Last'.low * Scale(flushed')
             /\ Bytes(enc') = Last'.bytes + flushed'
             /\ Last'.at.call = Len(script') + 1
  <2>1. ~enc.overflow
    BY <1>4, <1>6, <1>9
  <2>2. /\ TrailOK /\ exact = LowEnd(enc) /\ exact = Last.low * Scale(flushed)
        /\ Bytes(enc) = Last.bytes + flushed /\ Last.at.call = Len(script) + 1
        /\ Last.low \in Nat /\ Last.bytes \in Nat /\ LowEnd(enc) \in Nat
    BY <1>7, <2>1
  <2>3. TrailOK' /\ Last' = Last
    BY <1>1, <2>2, Unmoved DEF TrailOK, Last
  <2>4. exact' = Last.low * Scale(flushed')
    <3>1. (Last.low * Scale(flushed)) * Base = Last.low * Scale(flushed + 1)
      BY <1>2, <2>2, ScaleGrows
    <3> QED BY <1>1, <2>2, <3>1
  <2>5. exact' = LowEnd(enc')
    <3>1. \A x \in Nat : x * Base = Base * x
      BY Sizes
    <3> QED BY <1>1, <1>4, <1>6, <1>9, <2>2, <3>1
  <2>6. Bytes(enc') = Last.bytes + flushed'
    BY <1>1, <1>2, <1>4, <1>6, <1>9, <2>2
  <2> QED BY <1>1, <2>2, <2>3, <2>4, <2>5, <2>6
<1>10. ASSUME enc'.overflow PROVE limit < Len(script) * Width + Rounds
  <2>1. CASE enc.overflow
    BY <2>1 DEF Coded
  <2>2. CASE ~enc.overflow
    <3>1. limit < Bytes(enc)
      BY <1>4, <1>6, <1>10, <2>2
    <3>2. /\ TrailOK /\ Bytes(enc) = Last.bytes + flushed /\ Last.at.call = Len(script) + 1
          /\ EntryOK(Last) /\ Last.bytes \in Nat
      BY <1>7, <2>2
    <3>3. Last.bytes <= Len(trail) /\ Index(Last.at) = Len(trail) - 1 /\ Len(trail) \in Nat
      BY <3>2 DEF TrailOK, Last
    <3>4. script \in Seq(Calls) /\ Len(script) \in Nat
      BY DEF IInv, TypeOK
    <3>5. Last.at.tree = <<>> /\ Last.at \in Places
      BY <3>2, <3>4 DEF EntryOK, Within, Entries
    <3>6. Index(Last.at) = Len(script) * Width
      BY <3>2, <3>4, <3>5, IndexInside
    <3>7. Len(script) * Width \in Nat
      BY <3>4, SizesAssumption
    <3> DEFINE x == Len(script) * Width
    <3>8. Index(Last.at) = x /\ x \in Nat
      BY <3>6, <3>7
    <3> HIDE DEF x
    <3>9. limit < x + Rounds
      BY <1>2, <3>1, <3>2, <3>3, <3>8 DEF Rounds
    <3> QED BY <3>9 DEF x
  <2> QED BY <2>1, <2>2
<1>11. flushed' < Rounds \/ flushed' = Rounds
  BY <1>2 DEF Rounds
<1>12. phase' # "encode" /\ phase' \in {"flush", "refused", "open"}
       /\ (phase' = "open" => ~enc'.overflow) /\ (phase' = "refused" => enc'.overflow)
       /\ (phase' # "flush" => flushed' = Rounds)
  BY <1>1, <1>11
<1> QED BY <1>1, <1>6, <1>8, <1>9, <1>10, <1>12 DEF Coded

LEMMA CodedStep == IInv /\ Coded /\ [Next]_vars => Coded'
<1> SUFFICES ASSUME IInv, Coded, [Next]_vars PROVE Coded'
  OBVIOUS
<1>1. ASSUME UNCHANGED <<script, limit, enc, flushed, exact, trail>>,
             \/ phase' = phase /\ at' = at
             \/ phase \in {"open", "decode"} /\ phase' \in {"decode", "done"}
      PROVE  Coded'
  <2>1. TrailOK => TrailOK'
    BY <1>1, Unmoved DEF TrailOK
  <2>2. Last' = Last /\ LowEnd(enc') = LowEnd(enc) /\ Bytes(enc') = Bytes(enc)
    BY <1>1 DEF Last
  <2> QED BY <1>1, <2>1, <2>2 DEF Coded
<1>2. CASE UNCHANGED vars
  BY <1>1, <1>2 DEF vars
<1>3. CASE Ended
  BY <1>1, <1>3 DEF Ended, vars
<1>4. CASE Open
  BY <1>1, <1>4 DEF Open, callVars
<1>5. CASE DecodeBit
  <2>1. phase = "decode" /\ phase' \in {"decode", "done"}
    BY <1>5 DEF DecodeBit, Position
  <2> QED BY <1>1, <1>5, <2>1 DEF DecodeBit, callVars
<1> QED BY <1>2, <1>3, <1>4, <1>5, CodedEncodeBit, CodedFlush DEF Next

(* The low end of the encoder's interval is never lost, at any length of    *)
(* the input, whatever the carries, until the output has no room.           *)
THEOREM CarryAlwaysArrives == Spec => []CarryArrives
<1>1. Spec => [](IInv /\ Coded)
  BY IInvInit, IInvStep, CodedInit, CodedStep, PTL DEF Spec
<1>2. IInv /\ Coded => CarryArrives
  BY DEF Coded, CarryArrives, LowEnd, Sent
<1> QED BY <1>1, <1>2, PTL

-----------------------------------------------------------------------------
(* What the decoder reads.                                                  *)

Prefix(n) == Value(SubSeq(enc.written, 1, n))
Holds(r) ==
  /\ r.bytes + 4 <= Len(enc.written)
  /\ r.low <= Prefix(r.bytes + 4) /\ Prefix(r.bytes + 4) < r.low + r.range

LEMMA PrefixGrows ==
  ASSUME enc.written \in Seq(Byte), NEW n \in Nat, n <= Len(enc.written)
  PROVE  /\ Prefix(n) \in Nat
         /\ n < Len(enc.written) =>
              /\ Prefix(n + 1) = Prefix(n) * Base + enc.written[n + 1]
              /\ enc.written[n + 1] \in 0 .. Base - 1
<1>1. enc.written \in Seq(Nat)
  BY BytesAreNat, SeqMonotonic
<1>2. Base \in Nat
  BY Sizes
<1>3. SubSeq(enc.written, 1, n) \in Seq(Nat)
  <2> DEFINE w == enc.written
  <2>1. w \in Seq(Nat) /\ Len(w) \in Nat /\ n <= Len(w)
    BY <1>1
  <2> HIDE DEF w
  <2>2. \A k \in 1 .. n : w[k] \in Nat
    BY <2>1
  <2>3. SubSeq(w, 1, n) \in Seq(Nat)
    BY <2>1, <2>2, SubSeqProperties
  <2> QED BY <2>3 DEF w
<1>4. Prefix(n) \in Nat
  BY <1>2, <1>3, NumeralIsNat DEF Prefix, Value
<1>5. ASSUME n < Len(enc.written)
      PROVE  /\ Prefix(n + 1) = Prefix(n) * Base + enc.written[n + 1]
             /\ enc.written[n + 1] \in 0 .. Base - 1
  <2>1. n + 1 \in 1 .. Len(enc.written)
    BY <1>5
  <2>2. enc.written[n + 1] \in Byte
    BY <2>1
  <2> QED BY <1>1, <1>2, <1>5, <2>2, NumeralPrefix, Sizes DEF Prefix, Value, Byte
<1> QED BY <1>4, <1>5

(* A number by its quotient and its remainder. *)
LEMMA Cancel ==
  ASSUME NEW m \in Nat, m > 0, NEW a \in Nat, NEW b \in Nat, NEW c \in 0 .. m - 1,
         m * a + c = m * b
  PROVE  a = b /\ c = 0
<1>1. m * (b - a) = c
  BY m * a \in Int
<1>2. -m < m * (b - a) /\ m * (b - a) < m
  BY <1>1
<1>3. b - a = 0
  BY <1>2, SmallMultiple
<1> QED BY <1>1, <1>3

(* What a bit's interval holds, the interval before it holds. *)
LEMMA HoldsBack ==
  ASSUME enc.written \in Seq(Byte), NEW r, EntryOK(r), CallOK(r.at), Holds(Advance(r))
  PROVE  Holds(r)
<1> DEFINE bit == GivenBit(r.at)
           part == Part(r)
           above == Above(r.at, Room(r))
           x == Prefix(Size(r) + 4)
<1>1. bit \in {0, 1}
  BY CurrentOK
<1>2. part \in Nat /\ above \in Nat /\ part + above <= Room(r)
  BY AdvanceOK
<1>3. /\ r.range \in Nat /\ r.low \in Nat /\ r.bytes \in Nat
      /\ Room(r) \in Nat /\ Low(r) \in Nat /\ Size(r) \in Nat
  BY RoomOK, Sizes DEF EntryOK, Entries
<1>4. /\ Advance(r).bytes = Size(r) /\ Advance(r).low = Low(r) + bit * part
      /\ Advance(r).range = IF bit = 0 THEN part ELSE above
  BY DEF Advance
<1>5. Size(r) + 4 <= Len(enc.written)
  BY <1>4 DEF Holds
<1>6. x \in Nat
  <2>1. Size(r) + 4 \in Nat
    BY <1>3
  <2> QED BY <1>5, <2>1, PrefixGrows
<1> HIDE DEF bit, part, above
<1>7. Low(r) <= x /\ x < Low(r) + Room(r)
  <2>1. Low(r) + bit * part <= x /\ x < Low(r) + bit * part + (IF bit = 0 THEN part ELSE above)
    BY <1>4 DEF Holds
  <2> HIDE DEF x
  <2>2. CASE bit = 0
    <3>1. bit * part = 0
      BY <1>2, <2>2
    <3> QED BY <1>2, <1>3, <1>6, <2>1, <2>2, <3>1
  <2>3. CASE bit = 1
    <3>1. bit * part = part
      BY <1>2, <2>3
    <3> QED BY <1>2, <1>3, <1>6, <2>1, <2>3, <3>1
  <2> QED BY <1>1, <2>2, <2>3
<1> HIDE DEF x
<1>8. CASE r.range >= Threshold
  BY <1>3, <1>5, <1>7, <1>8 DEF Room, Low, Size, Holds, x
<1>9. CASE ~(r.range >= Threshold)
  <2> DEFINE n == r.bytes + 4
             y == Prefix(n)
             d == enc.written[n + 1]
  <2>1. Room(r) = r.range * Base /\ Low(r) = r.low * Base /\ Size(r) = r.bytes + 1
    BY <1>9 DEF Room, Low, Size
  <2>2. Size(r) + 4 = n + 1 /\ n \in Nat /\ n < Len(enc.written) /\ n <= Len(enc.written)
    <3>1. Len(enc.written) \in Nat
      OBVIOUS
    <3>2. Size(r) = r.bytes + 1 /\ r.bytes \in Nat /\ Size(r) + 4 <= Len(enc.written)
      BY <1>3, <1>5, <2>1
    <3> QED BY <3>1, <3>2
  <2>3. y \in Nat /\ x = y * Base + d /\ d \in 0 .. Base - 1
    BY <2>2, PrefixGrows DEF x
  <2> HIDE DEF y, d
  <2>4. \A a, b \in Nat : \A c \in 0 .. Base - 1 :
           /\ a * Base <= b * Base + c => a <= b
           /\ b * Base + c < a * Base => b < a
    <3> SUFFICES ASSUME NEW a \in Nat, NEW b \in Nat, NEW c \in 0 .. Base - 1
                 PROVE  /\ a * Base <= b * Base + c => a <= b
                        /\ b * Base + c < a * Base => b < a
      OBVIOUS
    <3>1. \A k, l \in Nat : k >= l + 1 => k * Base >= l * Base + Base
      <4>1. \A k, l \in Nat : k >= l => k * Base >= l * Base
        BY Sizes
      <4>2. \A l \in Nat : (l + 1) * Base = l * Base + Base
        BY Sizes
      <4>3. \A k, l \in Nat : k >= l + 1 => k * Base >= (l + 1) * Base
        BY <4>1
      <4> QED BY <4>2, <4>3
    <3>2. a * Base \in Nat /\ b * Base \in Nat /\ Base \in Nat
      BY Sizes
    <3>3. a >= b + 1 => a * Base >= b * Base + Base
      BY <3>1
    <3>4. b >= a => b * Base >= a * Base
      BY Sizes
    <3> QED BY <3>2, <3>3, <3>4
  <2>5. r.low * Base + r.range * Base = (r.low + r.range) * Base /\ r.low + r.range \in Nat
    BY <1>3, Sizes
  <2>6. r.low * Base <= y * Base + d /\ y * Base + d < (r.low + r.range) * Base
    BY <1>7, <2>1, <2>3, <2>5
  <2>7. r.low <= y /\ y < r.low + r.range
    BY <1>3, <2>3, <2>4, <2>5, <2>6
  <2> QED BY <2>2, <2>7 DEF Holds, y
<1> QED BY <1>8, <1>9

(* The whole output: the low end of the last interval, then a zero byte. *)
LEMMA LastHolds == IInv /\ Coded /\ flushed = Rounds /\ ~enc.overflow => Holds(Last)
<1> SUFFICES ASSUME IInv, Coded, flushed = 6, ~enc.overflow PROVE Holds(Last)
  BY DEF Rounds
<1> DEFINE w == enc.written
           n == Last.bytes + 4
           L == Last.low
<1>1. /\ TrailOK /\ LowEnd(enc) = L * Scale(6) /\ Bytes(enc) = Last.bytes + 6
      /\ enc.carry = 0 /\ enc.cacheSize = 1
  BY DEF Coded
<1>2. EntryOK(Last)
  BY <1>1 DEF TrailOK, Last
<1>3. L \in Nat /\ Last.bytes \in Nat /\ Last.range \in Nat /\ Last.range >= 1
  <2>1. Last.range \in 0 .. Word - 1 /\ Last.low \in Nat /\ Last.bytes \in Nat
    BY <1>2 DEF EntryOK, Entries
  <2>2. Last.range >= 1
    <3>1. Last.range * Base >= Threshold
      BY <1>2 DEF EntryOK, Wide
    <3>2. Last.range = 0 => Last.range * Base = 0
      BY Sizes
    <3> QED BY <2>1, <3>1, <3>2, Sizes
  <2> QED BY <2>1, <2>2, Sizes
<1>4. /\ enc \in Encoders /\ w \in Seq(Byte) /\ enc.cache \in 0 .. Base - 1
      /\ enc.low \in 0 .. Word - 1
  BY Sizes DEF IInv, TypeOK, Encoders, Byte
<1>5. Len(w) = n + 1 /\ n \in Nat
  <2>1. Len(w) \in Nat
    BY <1>4
  <2> QED BY <1>1, <1>3, <2>1 DEF Bytes
<1>6. w \in Seq(Nat) /\ Sent(enc) \in Nat /\ enc.cache \in Nat
  BY <1>4, KeptAreNat
<1> HIDE DEF w, n, L
<1>7. Sent(enc) = Value(w) * Base + enc.cache /\ Value(w) \in Nat
  <2>1. w \o <<enc.cache>> = Append(w, enc.cache) /\ Append(w, enc.cache) \in Seq(Nat)
    BY <1>6, AppendIsConcat
  <2>2. Append(w, enc.cache) \o [i \in 1 .. 0 |-> Top] = Append(w, enc.cache)
    BY <2>1, NoRun
  <2>3. Sent(enc) = Value(w \o <<enc.cache>> \o Copies(0, Top))
    BY <1>1 DEF Sent, w
  <2>4. Copies(0, Top) = [i \in 1 .. 0 |-> Top]
    BY DEF Copies
  <2>5. Sent(enc) = Value(Append(w, enc.cache))
    BY <2>1, <2>2, <2>3, <2>4
  <2> QED BY <1>6, <2>5, ValueAppend
<1>8. L * Scale(6) = Word * ((L * Base) * Base)
  <2>1. L * (Word * (Base * Base)) = Word * ((L * Base) * Base)
    BY <1>3, Sizes
  <2> QED BY <2>1 DEF Scale
<1>9. Sent(enc) = (L * Base) * Base
  <2> DEFINE a == Sent(enc)
             b == (L * Base) * Base
  <2>1. LowEnd(enc) = Word * a + Word * 0 + enc.low
    BY <1>1 DEF LowEnd
  <2>2. a \in Nat /\ b \in Nat
    BY <1>3, <1>6, Sizes
  <2> HIDE DEF a, b
  <2>3. Word * a + enc.low = Word * b
    <3>1. Word * a \in Nat /\ Word * 0 = 0
      BY <2>2, Sizes
    <3> QED BY <1>1, <1>4, <1>8, <2>1, <3>1 DEF b
  <2>4. Word \in Nat /\ Word > 0
    BY Sizes
  <2>5. a = b
    BY <1>4, <2>2, <2>3, <2>4, Cancel
  <2> QED BY <2>5 DEF a, b
<1>10. Value(w) = L * Base
  <2> DEFINE a == Value(w)
             b == L * Base
  <2>1. a \in Nat /\ b \in Nat /\ Base \in Nat /\ Base > 0
    BY <1>3, <1>7, Sizes
  <2>2. a * Base + enc.cache = b * Base
    BY <1>7, <1>9
  <2> HIDE DEF a, b
  <2>3. Base * a + enc.cache = Base * b
    BY <2>1, <2>2
  <2>4. a = b
    BY <1>4, <2>1, <2>3, Cancel
  <2> QED BY <2>4 DEF a, b
<1>11. Prefix(n) = L
  <2>1. /\ Prefix(n + 1) = Prefix(n) * Base + w[n + 1] /\ Prefix(n) \in Nat
        /\ w[n + 1] \in 0 .. Base - 1
    <3>1. enc.written \in Seq(Byte)
      BY <1>4 DEF w
    <3>2. n \in Nat /\ n < Len(enc.written) /\ n <= Len(enc.written)
      BY <1>5 DEF w
    <3>3. /\ Prefix(n) \in Nat
          /\ Prefix(n + 1) = Prefix(n) * Base + enc.written[n + 1]
          /\ enc.written[n + 1] \in 0 .. Base - 1
      BY <3>1, <3>2, PrefixGrows
    <3> QED BY <3>3 DEF w
  <2>2. Prefix(n + 1) = Value(w)
    <3>1. SubSeq(w, 1, Len(w)) = w
      BY <1>6
    <3> QED BY <1>5, <3>1 DEF Prefix, w
  <2> DEFINE a == Prefix(n)
             d == w[n + 1]
  <2>3. a * Base + d = L * Base /\ a \in Nat /\ d \in 0 .. Base - 1
    BY <1>10, <2>1, <2>2
  <2> HIDE DEF a, d
  <2>4. Base * a + d = Base * L /\ Base \in Nat /\ Base > 0
    BY <1>3, <2>3, Sizes
  <2>5. a = L
    BY <1>3, <2>3, <2>4, Cancel
  <2> QED BY <2>5 DEF a
<1> QED BY <1>3, <1>5, <1>11 DEF Holds, w, n, L

LEMMA AllHold ==
  IInv /\ Coded /\ flushed = Rounds /\ ~enc.overflow
    => \A p \in 1 .. Len(trail) : Holds(trail[p])
<1> SUFFICES ASSUME IInv, Coded, flushed = Rounds, ~enc.overflow,
                    NEW p \in 1 .. Len(trail), ~Holds(trail[p])
             PROVE  FALSE
  OBVIOUS
<1>1. TrailOK /\ Len(trail) \in Nat
  BY DEF Coded, TrailOK
<1>2. enc.written \in Seq(Byte)
  BY DEF IInv, TypeOK, Encoders
<1> DEFINE T == {k \in Nat : k < Len(trail) /\ ~Holds(trail[Len(trail) - k])}
<1>3. T \subseteq Nat
  OBVIOUS
<1>4. Len(trail) - p \in T
  <2>1. Len(trail) - p \in Nat /\ Len(trail) - p < Len(trail) /\ Len(trail) - (Len(trail) - p) = p
    BY <1>1
  <2> QED BY <2>1
<1> HIDE DEF T
<1>5. PICK k \in T : \A l \in T : k <= l
  BY <1>3, <1>4, Least
<1> DEFINE q == Len(trail) - k
<1>6. k \in Nat /\ k < Len(trail) /\ ~Holds(trail[q]) /\ q \in 1 .. Len(trail)
  BY <1>1, <1>5 DEF T
<1>7. k # 0
  <2>1. k = 0 => q = Len(trail)
    BY <1>1
  <2> QED BY <1>6, <2>1, LastHolds DEF Last
<1>8. q \in 1 .. Len(trail) - 1 /\ q + 1 = Len(trail) - (k - 1) /\ k - 1 \in Nat /\ k - 1 < Len(trail)
  BY <1>1, <1>6, <1>7
<1> HIDE DEF q
<1>9. Holds(trail[q + 1])
  <2>1. ~(k - 1 \in T)
    BY <1>5, <1>6, <1>8
  <2> QED BY <1>8, <2>1 DEF T
<1>10. EntryOK(trail[q]) /\ CallOK(trail[q].at) /\ trail[q + 1] = Advance(trail[q])
  BY <1>1, <1>6, <1>8 DEF TrailOK
<1> QED BY <1>2, <1>6, <1>9, <1>10, HoldsBack

(* A decoder that has not come to the end of what was written. *)
Reader(code, range, taken) ==
  [code |-> code, range |-> range, taken |-> taken, overflow |-> FALSE]

Then == trail[BitsDone + 1]
Given(n) == [k \in 1 .. n |-> script[k].val]

Decoded ==
  /\ phase \in {"encode", "flush", "refused", "open"} =>
       /\ got = <<>>
       /\ dec = Reader(0, 0, 0)
  /\ phase = "decode" =>
       /\ at = Then.at
       /\ dec = Reader(Prefix(Then.bytes + 4) - Then.low, Then.range, Then.bytes + 4)
       /\ got = Given(at.call - 1)
       /\ \A k \in 1 .. Len(at.tree) : at.tree[k] = Current(at).val[k]
  /\ phase = "done" => got = Given(Len(script))

(* A byte read: nothing is shifted out of the word. *)
LEMMA ReadsByte ==
  ASSUME enc.written \in Seq(Byte), NEW code \in Nat, NEW range \in Nat, NEW taken \in Nat,
         range < Threshold, code < Threshold, taken < Len(enc.written)
  PROVE  NormalizeD(Reader(code, range, taken))
           = Reader(code * Base + enc.written[taken + 1], range * Base, taken + 1)
<1> DEFINE d == Reader(code, range, taken)
<1>1. d.code = code /\ d.range = range /\ d.taken = taken /\ d.overflow = FALSE
  BY DEF Reader
<1>2. \A x \in Nat : x < Threshold => (x * Base) % Word = x * Base
  <2> SUFFICES ASSUME NEW x \in Nat, x < Threshold PROVE (x * Base) % Word = x * Base
    OBVIOUS
  <2>1. x % Threshold = x
    BY Sizes
  <2>2. (x * Base) % Word = Base * (x % Threshold)
    BY ShiftMod
  <2>3. Base * x = x * Base
    BY Sizes
  <2> QED BY <2>1, <2>2, <2>3
<1>3. ~(d.range >= Threshold) /\ d.taken < Len(enc.written)
  BY <1>1, Sizes
<1> DEFINE range1 == (d.range * Base) % Word
           code1  == ((d.code * Base) % Word) + enc.written[d.taken + 1]
<1>4. NormalizeD(d) = [d EXCEPT !.range = range1, !.taken = d.taken + 1, !.code = code1]
  BY <1>3 DEF NormalizeD
<1>5. range1 = range * Base /\ code1 = code * Base + enc.written[taken + 1]
  BY <1>1, <1>2
<1> HIDE DEF range1, code1
<1>6. ASSUME NEW f, f = [d EXCEPT !.range = range1, !.taken = d.taken + 1, !.code = code1]
      PROVE  f = Reader(code1, range1, taken + 1)
  BY <1>1, <1>6 DEF Reader
<1>7. NormalizeD(d) = Reader(code1, range1, taken + 1)
  <2>1. PICK f : f = NormalizeD(d)
    BY Zenon
  <2> QED BY <1>4, <1>6, <2>1
<1> QED BY <1>5, <1>7

(* newRangeDecoder reads the first five bytes. *)
LEMMA ReadsFirst ==
  ASSUME enc.written \in Seq(Byte), Len(enc.written) >= 5, Prefix(5) < Word
  PROVE  FirstBytes(Reader(0, 0, 0)) = Reader(Prefix(5), 0, 5)
<1> DEFINE Zero(k) == Reader(Prefix(k), 0, k)
<1>1. \A k \in 0 .. 4 :
         /\ Prefix(k) \in Nat /\ Prefix(k + 1) = Prefix(k) * Base + enc.written[k + 1]
         /\ Prefix(k + 1) \in Nat /\ Prefix(k) * Base <= Prefix(k + 1)
         /\ Prefix(k) <= Prefix(k + 1)
  <2> SUFFICES ASSUME NEW k \in 0 .. 4
               PROVE  /\ Prefix(k) \in Nat
                      /\ Prefix(k + 1) = Prefix(k) * Base + enc.written[k + 1]
                      /\ Prefix(k + 1) \in Nat /\ Prefix(k) * Base <= Prefix(k + 1)
                      /\ Prefix(k) <= Prefix(k + 1)
    OBVIOUS
  <2>1. k \in Nat /\ k < Len(enc.written) /\ k <= Len(enc.written)
    <3>1. Len(enc.written) \in Nat
      OBVIOUS
    <3> QED BY <3>1
  <2> DEFINE a == Prefix(k)
             d == enc.written[k + 1]
  <2>2. a \in Nat /\ Prefix(k + 1) = a * Base + d /\ d \in 0 .. Base - 1
    BY <2>1, PrefixGrows
  <2> HIDE DEF a, d
  <2>3. a * Base \in Nat /\ a <= a * Base /\ d \in Nat
    BY <2>2, Sizes
  <2> QED BY <2>2, <2>3 DEF a, d
<1>2. Prefix(4) < Threshold
  <2>1. Prefix(4) \in Nat /\ Prefix(4) * Base < Word
    <3>1. 4 \in 0 .. 4 /\ 4 + 1 = 5
      OBVIOUS
    <3>2. Prefix(4) \in Nat /\ Prefix(5) \in Nat /\ Prefix(4) * Base <= Prefix(5)
      BY <1>1, <3>1
    <3>3. Prefix(4) * Base \in Nat
      BY <3>2, Sizes
    <3> QED BY <3>2, <3>3, Sizes
  <2> DEFINE a == Prefix(4)
  <2>2. a \in Nat /\ a * Base < Word
    BY <2>1
  <2> HIDE DEF a
  <2>3. a >= Threshold => a * Base >= Threshold * Base
    BY <2>2, Sizes
  <2>4. Threshold * Base = Word /\ a * Base \in Nat
    BY <2>2, Sizes
  <2>5. a < Threshold
    BY <2>2, <2>3, <2>4, Sizes
  <2> QED BY <2>5 DEF a
<1>3. \A k \in 0 .. 4 : Prefix(k) \in Nat /\ Prefix(k) < Threshold
  <2> DEFINE P(k) == Prefix(k)
  <2>1. \A k \in 0 .. 4 : P(k) \in Nat /\ P(k) <= P(k + 1)
    BY <1>1
  <2>2. P(4) < Threshold
    BY <1>2
  <2> HIDE DEF P
  <2>3. P(0) <= P(1) /\ P(1) <= P(2) /\ P(2) <= P(3) /\ P(3) <= P(4)
    <3>1. P(0) <= P(0 + 1) /\ P(1) <= P(1 + 1) /\ P(2) <= P(2 + 1) /\ P(3) <= P(3 + 1)
      BY <2>1
    <3> QED BY <3>1
  <2>4. P(0) \in Nat /\ P(1) \in Nat /\ P(2) \in Nat /\ P(3) \in Nat /\ P(4) \in Nat
    BY <2>1
  <2>5. P(0) < Threshold /\ P(1) < Threshold /\ P(2) < Threshold /\ P(3) < Threshold
    BY <2>2, <2>3, <2>4, Sizes
  <2>6. \A k \in 0 .. 4 : k = 0 \/ k = 1 \/ k = 2 \/ k = 3 \/ k = 4
    OBVIOUS
  <2>7. \A k \in 0 .. 4 : P(k) \in Nat /\ P(k) < Threshold
    BY <2>2, <2>4, <2>5, <2>6
  <2> QED BY <2>7 DEF P
<1>4. \A k \in 0 .. 4 : NormalizeD(Zero(k)) = Zero(k + 1)
  <2> SUFFICES ASSUME NEW k \in 0 .. 4 PROVE NormalizeD(Zero(k)) = Zero(k + 1)
    OBVIOUS
  <2> DEFINE a == Prefix(k)
  <2>1. a \in Nat /\ a < Threshold /\ Prefix(k + 1) = a * Base + enc.written[k + 1]
    BY <1>1, <1>3
  <2>2. k \in Nat /\ 0 \in Nat /\ 0 < Threshold /\ 0 * Base = 0 /\ k < Len(enc.written)
    <3>1. Len(enc.written) \in Nat
      OBVIOUS
    <3> QED BY <3>1, Sizes
  <2> HIDE DEF a
  <2>3. NormalizeD(Reader(a, 0, k)) = Reader(a * Base + enc.written[k + 1], 0 * Base, k + 1)
    BY <2>1, <2>2, ReadsByte
  <2> QED BY <2>1, <2>2, <2>3 DEF a
<1>5. Zero(0) = Reader(0, 0, 0)
  <2>1. SubSeq(enc.written, 1, 0) = <<>>
    OBVIOUS
  <2>2. Prefix(0) = 0
    BY <2>1, NumeralEmpty, Sizes DEF Prefix, Value
  <2> QED BY <2>2
<1> HIDE DEF Zero
<1>6. NormalizeD(Zero(0)) = Zero(1) /\ NormalizeD(Zero(1)) = Zero(2) /\ NormalizeD(Zero(2)) = Zero(3)
      /\ NormalizeD(Zero(3)) = Zero(4) /\ NormalizeD(Zero(4)) = Zero(5)
  <2>1. /\ NormalizeD(Zero(0)) = Zero(0 + 1) /\ NormalizeD(Zero(1)) = Zero(1 + 1)
        /\ NormalizeD(Zero(2)) = Zero(2 + 1) /\ NormalizeD(Zero(3)) = Zero(3 + 1)
        /\ NormalizeD(Zero(4)) = Zero(4 + 1)
    BY <1>4
  <2> QED BY <2>1
<1>7. FirstBytes(Zero(0)) = Zero(5)
  BY <1>6 DEF FirstBytes
<1> QED BY <1>5, <1>7 DEF Zero

LEMMA DecodedInit == Init => Decoded
<1> SUFFICES ASSUME Init PROVE Decoded
  OBVIOUS
<1> QED BY DEF Init, Decoded, Reader

LEMMA DecodedOpen == IInv /\ Coded /\ Decoded /\ Open => Decoded'
<1> SUFFICES ASSUME IInv, Coded, Decoded, Open PROVE Decoded'
  OBVIOUS
<1>1. /\ phase = "open" /\ dec' = [FirstBytes(dec) EXCEPT !.range = Word - 1] /\ phase' = "decode"
      /\ at' = Start
      /\ UNCHANGED <<script, limit, enc, flushed, got, exact, trail>>
  BY DEF Open, callVars
<1>2. /\ TrailOK /\ ~enc.overflow /\ flushed = Rounds
      /\ got = <<>> /\ dec = Reader(0, 0, 0)
  BY <1>1 DEF Coded, Decoded, Reader
<1>3. enc.written \in Seq(Byte)
  BY DEF IInv, TypeOK, Encoders
<1>4. trail[1] = First /\ Holds(First) /\ First.bytes = 1 /\ First.low = 0 /\ First.range = Word - 1
      /\ First.at = Start
  <2>1. trail[1] = First /\ 1 \in 1 .. Len(trail)
    BY <1>2 DEF TrailOK
  <2>2. Holds(trail[1])
    BY <1>2, <2>1, AllHold
  <2> QED BY <2>1, <2>2 DEF First
<1>5. Len(enc.written) >= 5 /\ Prefix(5) < Word /\ Prefix(5) \in Nat
  <2>1. 1 + 4 = 5 /\ 0 + (Word - 1) = Word - 1
    BY Sizes
  <2>2. 5 <= Len(enc.written) /\ Prefix(5) < Word - 1
    BY <1>4, <2>1 DEF Holds
  <2>3. Prefix(5) \in Nat /\ Len(enc.written) \in Nat
    BY <1>3, <2>2, PrefixGrows
  <2> QED BY <2>2, <2>3, Sizes
<1>6. FirstBytes(dec) = Reader(Prefix(5), 0, 5)
  BY <1>2, <1>3, <1>5, ReadsFirst
<1>7. dec' = Reader(Prefix(5), Word - 1, 5)
  <2>1. PICK f : f = FirstBytes(dec)
    BY Zenon
  <2>2. f = Reader(Prefix(5), 0, 5)
    BY <1>6, <2>1
  <2>3. dec' = [f EXCEPT !.range = Word - 1]
    BY <1>1, <2>1
  <2> QED BY <2>2, <2>3 DEF Reader
<1>8. Then' = First /\ BitsDone' = 0
  <2>1. BitsDone' = 0
    <3>1. Len(<<>>) = 0 /\ (1 - 1) * Width = 0
      BY SizesAssumption
    <3> QED BY <1>1, <3>1, StartOK DEF BitsDone
  <2>2. trail' = trail
    BY <1>1
  <2> QED BY <1>4, <2>1, <2>2 DEF Then
<1>9. Prefix(5)' = Prefix(5)
  BY <1>1 DEF Prefix
<1>10. Start.call = 1 /\ Start.tree = <<>>
  BY StartOK
<1>11. got' = Given(at.call - 1)'
  <2>1. Start.call - 1 = 0
    BY <1>10
  <2>2. [k \in 1 .. 0 |-> script'[k].val] = <<>>
    OBVIOUS
  <2>3. (at.call - 1)' = 0
    BY <1>1, <2>1
  <2> QED BY <1>1, <1>2, <2>2, <2>3 DEF Given
<1>12. dec' = Reader(Prefix(1 + 4)' - 0, Word - 1, 1 + 4)
  <2>1. 1 + 4 = 5 /\ Prefix(5) - 0 = Prefix(5)
    BY <1>5
  <2> QED BY <1>7, <1>9, <2>1
<1>13. dec' = Reader(Prefix(Then.bytes + 4)' - Then'.low, Then'.range, Then'.bytes + 4)
  BY <1>1, <1>4, <1>8, <1>12 DEF Prefix
<1> QED BY <1>1, <1>4, <1>8, <1>10, <1>11, <1>13 DEF Decoded

(* The decoder's normalisation reads a byte when the encoder's wrote one.   *)
LEMMA ReadsOn ==
  ASSUME enc.written \in Seq(Byte), NEW r, EntryOK(r), CallOK(r.at), Holds(r), Holds(Advance(r))
  PROVE  NormalizeD(Reader(Prefix(r.bytes + 4) - r.low, r.range, r.bytes + 4))
           = Reader(Prefix(Size(r) + 4) - Low(r), Room(r), Size(r) + 4)
<1> DEFINE n == r.bytes + 4
           y == Prefix(n)
<1>1. /\ r.range \in Nat /\ r.low \in Nat /\ r.bytes \in Nat
      /\ Room(r) \in Nat /\ Low(r) \in Nat /\ Size(r) \in Nat
  BY RoomOK, Sizes DEF EntryOK, Entries
<1>2. Advance(r).bytes = Size(r)
  BY DEF Advance
<1>3. n \in Nat /\ n <= Len(enc.written) /\ Size(r) + 4 <= Len(enc.written)
  BY <1>1, <1>2 DEF Holds
<1>4. y \in Nat /\ r.low <= y /\ y < r.low + r.range
  BY <1>3, PrefixGrows DEF Holds
<1>5. CASE r.range >= Threshold
  <2>1. Room(r) = r.range /\ Low(r) = r.low /\ Size(r) = r.bytes
    BY <1>5 DEF Room, Low, Size
  <2> DEFINE d == Reader(y - r.low, r.range, n)
  <2>2. d.range = r.range
    BY DEF Reader
  <2> HIDE DEF d
  <2>3. NormalizeD(d) = d
    BY <1>5, <2>2 DEF NormalizeD
  <2> QED BY <2>1, <2>3 DEF d
<1>6. CASE ~(r.range >= Threshold)
  <2> DEFINE d == enc.written[n + 1]
  <2>1. Room(r) = r.range * Base /\ Low(r) = r.low * Base /\ Size(r) = r.bytes + 1
    BY <1>6 DEF Room, Low, Size
  <2>2. Size(r) + 4 = n + 1 /\ n < Len(enc.written)
    <3>1. Len(enc.written) \in Nat
      OBVIOUS
    <3> QED BY <1>1, <1>3, <2>1, <3>1
  <2>3. Prefix(n + 1) = y * Base + d /\ d \in Nat
    <3>1. Prefix(n + 1) = y * Base + d /\ d \in 0 .. Base - 1
      BY <1>3, <2>2, PrefixGrows
    <3> QED BY <3>1, Sizes
  <2> HIDE DEF y, d, n
  <2>4. y - r.low \in Nat /\ y - r.low < Threshold /\ r.range < Threshold
    BY <1>1, <1>4, <1>6, Sizes
  <2>5. NormalizeD(Reader(y - r.low, r.range, n))
          = Reader((y - r.low) * Base + d, r.range * Base, n + 1)
    BY <1>1, <1>3, <2>2, <2>4, ReadsByte DEF d
  <2>6. (y - r.low) * Base + d = (y * Base + d) - r.low * Base
    <3>1. (y - r.low) * Base = y * Base - r.low * Base
      BY <1>1, <1>4, Sizes
    <3>2. y * Base \in Nat /\ r.low * Base \in Nat
      BY <1>1, <1>4, Sizes
    <3> QED BY <2>3, <3>1, <3>2
  <2>7. Prefix(Size(r) + 4) - Low(r) = (y - r.low) * Base + d
    <3> DEFINE a == y * Base + d
               b == r.low * Base
    <3>1. \A i : i = n + 1 => Prefix(i) = a
      BY <2>3
    <3>2. (y - r.low) * Base + d = a - b /\ Low(r) = b
      BY <2>1, <2>6
    <3> HIDE DEF a, b
    <3>3. Prefix(Size(r) + 4) = a
      BY <2>2, <3>1
    <3> QED BY <3>2, <3>3, Zenon
  <2>8. NormalizeD(Reader(y - r.low, r.range, n))
          = Reader(Prefix(Size(r) + 4) - Low(r), Room(r), Size(r) + 4)
    BY <2>1, <2>2, <2>5, <2>7, Zenon
  <2> QED BY <2>8 DEF n, y
<1> QED BY <1>5, <1>6

(* A bit is read as it was given, from the part of the range it was given.  *)
LEMMA ReadsFixed ==
  ASSUME NEW room \in 0 .. Word - 1, NEW bit \in {0, 1}, NEW code \in Nat, NEW taken,
         bit * (room \div 2) <= code, code < bit * (room \div 2) + room \div 2
  PROVE  FixedBit(Reader(code, room, taken))
           = [bit |-> bit, dec |-> Reader(code - bit * (room \div 2), room \div 2, taken)]
<1> DEFINE half == room \div 2
           d == Reader(code, room, taken)
           rest == (d.code - d.range \div 2) % Word
           bit1 == IF rest >= Word \div 2 THEN 0 ELSE 1
           code1 == IF bit1 = 0 THEN (rest + d.range \div 2) % Word ELSE rest
           half1 == d.range \div 2
<1>1. d.code = code /\ d.range = room
  BY DEF Reader
<1>2. half \in Nat /\ 2 * half <= Word - 1 /\ Word \in Nat /\ Word > 0
      /\ half <= Word \div 2 /\ Word - half >= Word \div 2 /\ Word \div 2 \in Nat
  <2>1. \A x \in Nat : x \div 2 \in Nat /\ 2 * (x \div 2) <= x /\ x <= 2 * (x \div 2) + 1
    OBVIOUS
  <2>2. room \in Nat /\ room <= Word - 1 /\ Word \in Nat /\ Word > 0
    BY Sizes
  <2>3. half \in Nat /\ 2 * half <= room /\ Word \div 2 \in Nat
        /\ 2 * (Word \div 2) <= Word /\ Word <= 2 * (Word \div 2) + 1
    BY <2>1, <2>2
  <2> QED BY <2>2, <2>3
<1>3. rest = (code - half) % Word /\ half1 = half
      /\ (bit1 = 0 => code1 = (rest + half) % Word) /\ (bit1 # 0 => code1 = rest)
  BY <1>1
<1>4. FixedBit(d) = [bit |-> bit1, dec |-> [d EXCEPT !.range = half1, !.code = code1]]
  BY DEF FixedBit
<1>5. bit1 = IF rest >= Word \div 2 THEN 0 ELSE 1
  OBVIOUS
<1> HIDE DEF half, rest, bit1, code1, half1
<1>6. bit * half <= code /\ code < bit * half + half
  BY DEF half
<1>7. bit1 = bit /\ code1 = code - bit * half
  <2>1. CASE bit = 0
    <3>1. bit * half = 0 /\ code < half
      BY <1>2, <1>6, <2>1
    <3>2. rest = code - half + Word
      <4>1. code - half + Word \in 0 .. Word - 1 /\ code - half = (code - half + Word) + Word * (-1)
        BY <1>2, <3>1
      <4>2. (code - half) % Word = code - half + Word
        BY <1>2, <3>1, <4>1
      <4> QED BY <1>3, <4>2
    <3>3. rest >= Word \div 2
      BY <1>2, <3>1, <3>2
    <3>4. (rest + half) % Word = code
      <4>1. rest + half = Word * 1 + code /\ code \in 0 .. Word - 1 /\ rest + half \in Nat
        BY <1>2, <3>1, <3>2
      <4> QED BY <1>2, <4>1, RemainderIs
    <3> QED BY <1>3, <1>5, <2>1, <3>1, <3>3, <3>4
  <2>2. CASE bit = 1
    <3>1. bit * half = half /\ half <= code /\ code < 2 * half
      BY <1>2, <1>6, <2>2
    <3>2. rest = code - half
      <4>1. code - half \in 0 .. Word - 1
        BY <1>2, <3>1
      <4>2. \A x \in 0 .. Word - 1 : x % Word = x
        BY <1>2
      <4> QED BY <1>3, <4>1, <4>2
    <3>3. ~(rest >= Word \div 2)
      BY <1>2, <3>1, <3>2
    <3> QED BY <1>3, <1>5, <2>2, <3>1, <3>2, <3>3
  <2> QED BY <2>1, <2>2
<1>8. ASSUME NEW f, f = [d EXCEPT !.range = half1, !.code = code1]
      PROVE  f = Reader(code1, half1, taken)
  BY <1>8 DEF Reader
<1>9. [d EXCEPT !.range = half1, !.code = code1] = Reader(code1, half1, taken)
  <2>1. PICK f : f = [d EXCEPT !.range = half1, !.code = code1]
    BY Zenon
  <2>2. f = Reader(code1, half1, taken)
    BY <1>8, <2>1
  <2> QED BY <2>1, <2>2, Zenon
<1>10. FixedBit(d) = [bit |-> bit1, dec |-> Reader(code1, half1, taken)]
  BY <1>4, <1>9, Zenon
<1> QED BY <1>3, <1>7, <1>10 DEF half

LEMMA ReadsTree ==
  ASSUME NEW room, NEW code, NEW taken
  PROVE  LET bound == Bound(room, at.probs[Slot(at)])
         IN  TreeBit(Reader(code, room, taken))
               = IF code < bound THEN [bit |-> 0, dec |-> Reader(code, bound, taken)]
                 ELSE [bit |-> 1, dec |-> Reader(code - bound, room - bound, taken)]
<1> DEFINE d == Reader(code, room, taken)
           bound == Bound(room, at.probs[Slot(at)])
<1>1. d.code = code /\ d.range = room
  BY DEF Reader
<1>2. TreeBit(d) = IF d.code < bound
                   THEN [bit |-> 0, dec |-> [d EXCEPT !.range = bound]]
                   ELSE [bit |-> 1, dec |-> [d EXCEPT !.range = d.range - bound,
                                                      !.code = d.code - bound]]
  BY <1>1 DEF TreeBit, Reader
<1> HIDE DEF d, bound
<1>3. ASSUME NEW f, f = [d EXCEPT !.range = bound] PROVE f = Reader(code, bound, taken)
  BY <1>3 DEF Reader, d
<1>4. ASSUME NEW f, f = [d EXCEPT !.range = d.range - bound, !.code = d.code - bound]
      PROVE  f = Reader(code - bound, room - bound, taken)
  BY <1>4 DEF Reader, d
<1>5. CASE code < bound
  <2>1. TreeBit(d) = [bit |-> 0, dec |-> [d EXCEPT !.range = bound]]
    BY <1>1, <1>2, <1>5
  <2>2. PICK f : f = [d EXCEPT !.range = bound]
    BY Zenon
  <2>3. f = Reader(code, bound, taken)
    BY <1>3, <2>2
  <2>4. TreeBit(d) = [bit |-> 0, dec |-> Reader(code, bound, taken)]
    BY <2>1, <2>2, <2>3, Zenon
  <2> QED BY <1>5, <2>4 DEF d, bound
<1>6. CASE ~(code < bound)
  <2>1. TreeBit(d) = [bit |-> 1, dec |-> [d EXCEPT !.range = d.range - bound,
                                                   !.code = d.code - bound]]
    BY <1>1, <1>2, <1>6
  <2>2. PICK f : f = [d EXCEPT !.range = d.range - bound, !.code = d.code - bound]
    BY Zenon
  <2>3. f = Reader(code - bound, room - bound, taken)
    BY <1>4, <2>2
  <2>4. TreeBit(d) = [bit |-> 1, dec |-> Reader(code - bound, room - bound, taken)]
    BY <2>1, <2>2, <2>3, Zenon
  <2> QED BY <1>6, <2>4 DEF d, bound
<1> QED BY <1>5, <1>6

(* Where the decoder is on the trail.                                       *)
LEMMA OnTheTrail ==
  ASSUME IInv, Coded, Decoded, phase = "decode"
  PROVE  LET p == BitsDone + 1
         IN  /\ p \in 1 .. Len(trail) - 1 /\ Then = trail[p] /\ trail[p + 1] = Advance(Then)
             /\ EntryOK(Then) /\ CallOK(at) /\ at = Then.at
             /\ Holds(Then) /\ Holds(Advance(Then))
             /\ BitsDone = Index(at)
<1> DEFINE p == BitsDone + 1
           n == Len(trail)
           x == Len(script) * Width
<1>1. /\ TrailOK /\ Last.at.call = Len(script) + 1 /\ at = Then.at
      /\ flushed = Rounds /\ ~enc.overflow
  BY DEF Coded, Decoded
<1>2. CallOK(at) /\ at \in Places /\ script \in Seq(Calls) /\ at.call <= Len(script)
  BY DEF IInv, TypeOK, InCall, CallOK
<1>3. n \in Nat /\ n >= 1 /\ EntryOK(Last) /\ Index(Last.at) = n - 1
  BY <1>1 DEF TrailOK, Last
<1>4. Last.at.tree = <<>> /\ Last.at \in Places
  BY <1>1, <1>2, <1>3 DEF EntryOK, Within, Entries
<1>5. n - 1 = x /\ x \in Nat
  <2>1. Index(Last.at) = x
    BY <1>1, <1>2, <1>4, IndexInside
  <2>2. x \in Nat
    BY <1>2, SizesAssumption
  <2> QED BY <1>3, <2>1, <2>2
<1>6. BitsDone = Index(at) /\ Index(at) \in Nat /\ Index(at) + 1 <= x
  <2>1. BitsDone = Index(at)
    BY DEF BitsDone, Index
  <2> QED BY <1>2, <2>1, IndexInside
<1> HIDE DEF x
<1>7. p \in 1 .. n - 1 /\ p \in 1 .. n /\ p + 1 \in 1 .. n
  BY <1>3, <1>5, <1>6
<1>8. Then = trail[p]
  BY DEF Then
<1> HIDE DEF p
<1>9. trail[p + 1] = Advance(Then) /\ EntryOK(Then)
  BY <1>1, <1>7, <1>8 DEF TrailOK
<1>10. Holds(Then) /\ Holds(Advance(Then))
  BY <1>1, <1>7, <1>8, <1>9, AllHold
<1> QED BY <1>1, <1>2, <1>6, <1>7, <1>8, <1>9, <1>10 DEF p

LEMMA DecodedDecodeBit ==
  IInv /\ Coded /\ Decoded /\ DecodeBit => Decoded'
<1> SUFFICES ASSUME IInv, Coded, Decoded, DecodeBit PROVE Decoded'
  OBVIOUS
<1> DEFINE d    == NormalizeD(dec)
           read == IF Fixed(at) THEN FixedBit(d) ELSE TreeBit(d)
           bits == Append(at.tree, read.bit)
           r    == Then
           p    == BitsDone + 1
           bit  == GivenBit(at)
           part == Part(r)
           above == Above(at, Room(r))
           code == Prefix(Size(r) + 4) - Low(r)
           taken == Size(r) + 4
<1>1. /\ phase = "decode" /\ dec' = read.dec
      /\ Position(read.bit, "done", FALSE)
      /\ got' = IF Len(bits) = Width THEN Append(got, bits) ELSE got
      /\ UNCHANGED <<script, limit, enc, flushed, trail>>
  BY DEF DecodeBit, callVars
<1>2. /\ p \in 1 .. Len(trail) - 1 /\ r = trail[p] /\ trail[p + 1] = Advance(r)
      /\ EntryOK(r) /\ CallOK(at) /\ at = r.at /\ Holds(r) /\ Holds(Advance(r))
      /\ BitsDone = Index(at)
  BY <1>1, OnTheTrail, Zenon
<1>3. enc.written \in Seq(Byte)
  BY DEF IInv, TypeOK, Encoders
<1>4. /\ dec = Reader(Prefix(r.bytes + 4) - r.low, r.range, r.bytes + 4)
      /\ got = Given(at.call - 1)
      /\ \A k \in 1 .. Len(at.tree) : at.tree[k] = Current(at).val[k]
  BY <1>1 DEF Decoded
<1> HIDE DEF r, p
<1>5. d = Reader(code, Room(r), taken)
  BY <1>2, <1>3, <1>4, ReadsOn
<1>6. bit \in {0, 1}
  BY <1>2, CurrentOK
<1>7. /\ part \in Nat /\ above \in Nat /\ part + above <= Room(r)
      /\ EntryOK(Advance(r)) /\ Index(Advance(r).at) = Index(r.at) + 1
  BY <1>2, AdvanceOK
<1>8. Room(r) \in 0 .. Word - 1 /\ Room(r) \in Nat /\ Low(r) \in Nat /\ Size(r) \in Nat
  BY <1>2, RoomOK
<1>9. /\ Advance(r).at = Moved(at, bit) /\ Advance(r).bytes = Size(r)
      /\ Advance(r).low = Low(r) + bit * part
      /\ Advance(r).range = IF bit = 0 THEN part ELSE above
  BY <1>2 DEF Advance
(* The code lies in the part of the range the given bit has. *)
<1>10. /\ code \in Nat /\ bit * part <= code
       /\ code < bit * part + (IF bit = 0 THEN part ELSE above)
       /\ code - bit * part = Prefix(taken) - Advance(r).low
  <2> DEFINE y == Prefix(taken)
             z == bit * part
  <2>1. taken \in Nat /\ taken <= Len(enc.written)
    BY <1>2, <1>8, <1>9 DEF Holds
  <2>2. y \in Nat
    BY <1>3, <2>1, PrefixGrows
  <2>3. Low(r) + z <= y /\ y < (Low(r) + z) + (IF bit = 0 THEN part ELSE above)
    BY <1>2, <1>9 DEF Holds
  <2>4. code = y - Low(r) /\ z \in Nat
    <3>1. z \in Nat
      BY <1>6, <1>7
    <3> QED BY <3>1
  <2>5. (IF bit = 0 THEN part ELSE above) \in Nat
    BY <1>7
  <2> DEFINE w == IF bit = 0 THEN part ELSE above
  <2>6. w \in Nat /\ y < (Low(r) + z) + w
    BY <2>3, <2>5
  <2>7. Advance(r).low = Low(r) + z
    BY <1>9
  <2> HIDE DEF y, z, w, code
  <2>8. code \in Nat /\ z <= code /\ code < z + w /\ code - z = y - Advance(r).low
    BY <1>8, <2>2, <2>3, <2>4, <2>6, <2>7
  <2> QED BY <2>8 DEF y, z, w, code
<1>11. read = [bit |-> bit,
               dec |-> Reader(code - bit * part, IF bit = 0 THEN part ELSE above, taken)]
  <2> HIDE DEF d, code, taken, bit
  <2>1. CASE Fixed(at)
    <3>1. part = Room(r) \div 2 /\ above = Room(r) \div 2
      BY <1>2, <2>1 DEF Part, Split, Above
    <3>2. bit * (Room(r) \div 2) <= code /\ code < bit * (Room(r) \div 2) + Room(r) \div 2
      BY <1>10, <3>1
    <3>3. FixedBit(d) = [bit |-> bit, dec |-> Reader(code - bit * (Room(r) \div 2), Room(r) \div 2, taken)]
      BY <1>5, <1>6, <1>8, <1>10, <3>2, ReadsFixed
    <3> QED BY <2>1, <3>1, <3>3
  <2>2. CASE ~Fixed(at)
    <3>1. /\ part = Bound(Room(r), at.probs[Slot(at)]) /\ above = Room(r) - part
      BY <1>2, <2>2 DEF Part, Split, Above
    <3>2. part <= Room(r)
      BY <1>7, <1>8
    <3>3. TreeBit(d) = IF code < part THEN [bit |-> 0, dec |-> Reader(code, part, taken)]
                       ELSE [bit |-> 1, dec |-> Reader(code - part, above, taken)]
      BY <1>5, <3>1, ReadsTree
    <3> HIDE DEF part, above
    <3>4. CASE bit = 0
      <4>1. bit * part = 0 /\ code < part /\ code - bit * part = code
        BY <1>7, <1>10, <3>4
      <4> QED BY <2>2, <3>3, <3>4, <4>1
    <3>5. CASE bit = 1
      <4>1. bit * part = part /\ ~(code < part)
        BY <1>7, <1>10, <3>5
      <4> QED BY <2>2, <3>3, <3>5, <4>1
    <3> QED BY <1>6, <3>4, <3>5
  <2> QED BY <2>1, <2>2
<1>12. read.bit = bit
       /\ dec' = Reader(Prefix(taken) - Advance(r).low, Advance(r).range, taken)
  BY <1>1, <1>9, <1>10, <1>11
<1> HIDE DEF read
<1>13. /\ at' = Moved(at, bit) /\ at' \in Places /\ at'.call <= Len(script) + 1
       /\ phase' \in {"decode", "done"}
       /\ phase' = "done" => at'.call = Len(script) + 1
  <2>1. FALSE \in BOOLEAN /\ "done" # phase
    BY <1>1
  <2>2. Position(bit, "done", FALSE)
    BY <1>1, <1>12
  <2> QED BY <1>1, <1>2, <1>6, <2>1, <2>2, PositionOK
<1>14. Then' = Advance(r)
  <2>1. BitsDone' = Index(at')
    BY DEF BitsDone, Index
  <2>2. Index(at') = Index(at) + 1
    BY <1>2, <1>7, <1>9, <1>13
  <2>3. BitsDone' + 1 = p + 1
    BY <1>2, <2>1, <2>2 DEF p
  <2>4. Then' = trail[BitsDone' + 1]
    BY <1>1 DEF Then
  <2> QED BY <1>2, <2>3, <2>4
<1>15. dec' = Reader(Prefix(Then.bytes + 4)' - Then'.low, Then'.range, Then'.bytes + 4)
  <2>1. taken = Then'.bytes + 4
    BY <1>9, <1>14
  <2>2. Prefix(Then.bytes + 4)' = Prefix(taken)
    BY <1>1, <2>1 DEF Prefix
  <2> QED BY <1>12, <1>14, <2>1, <2>2
<1> HIDE DEF bit
<1>16. /\ at.tree \in Seq({0, 1}) /\ Len(at.tree) \in Nat /\ Len(at.tree) < Width
       /\ at.call \in Nat \ {0} /\ at.call <= Len(script) /\ Width \in Nat /\ Len(script) \in Nat
       /\ script[at.call] = Current(at) /\ Current(at).val \in Vals
       /\ bit = Current(at).val[Len(at.tree) + 1]
  <2>1. /\ at.tree \in Seq({0, 1}) /\ Len(at.tree) < Width /\ at.call \in Nat \ {0}
        /\ at.call <= Len(script) /\ script \in Seq(Calls)
    BY <1>2, NodeLength DEF CallOK, Places
  <2>2. script[at.call] \in Calls
    BY <2>1
  <2> QED BY <2>1, <2>2, SizesAssumption DEF Current, Calls, GivenBit, BitAt, bit
<1>17. \A k \in 1 .. Len(at.tree) + 1 : bits[k] = Current(at).val[k]
  <2>1. bits = Append(at.tree, bit)
    BY <1>12
  <2> HIDE DEF bits
  <2>2. \A k \in 1 .. Len(at.tree) : bits[k] = at.tree[k]
    BY <1>6, <1>16, <2>1
  <2>3. bits[Len(at.tree) + 1] = bit
    BY <1>6, <1>16, <2>1
  <2>4. \A k \in 1 .. Len(at.tree) + 1 : k \in 1 .. Len(at.tree) \/ k = Len(at.tree) + 1
    BY <1>16
  <2> QED BY <1>4, <1>16, <2>2, <2>3, <2>4
<1>18. bits \in Seq({0, 1}) /\ Len(bits) = Len(at.tree) + 1
  <2>1. bits = Append(at.tree, bit)
    BY <1>12
  <2> QED BY <1>6, <1>16, <2>1
<1> HIDE DEF bits
<1>19. \/ /\ at'.call = at.call /\ at'.tree = bits /\ got' = got
          /\ Len(at.tree) + 1 < Width
       \/ /\ at'.call = at.call + 1 /\ at'.tree = <<>> /\ got' = Append(got, bits)
          /\ Len(at.tree) + 1 = Width
  <2>1. bits = Append(at.tree, bit)
    BY <1>12 DEF bits
  <2>2. \/ /\ at'.call = at.call /\ Len(at.tree) + 1 < Width
           /\ at'.tree = Append(at.tree, bit)
        \/ /\ at'.call = at.call + 1 /\ Len(at.tree) + 1 = Width
           /\ at'.tree = <<>>
    BY <1>2, <1>6, <1>13, MovedOK
  <2> QED BY <1>1, <1>16, <1>18, <2>1, <2>2
<1>20. got' = [k \in 1 .. at'.call - 1 |-> script[k].val]
       /\ \A k \in 1 .. Len(at'.tree) : at'.tree[k] = script[at'.call].val[k]
  <2>1. CASE at'.call = at.call /\ at'.tree = bits /\ got' = got
    BY <1>4, <1>16, <1>17, <1>18, <2>1 DEF Given
  <2>2. CASE /\ at'.call = at.call + 1 /\ at'.tree = <<>> /\ got' = Append(got, bits)
             /\ Len(at.tree) + 1 = Width
    <3>1. bits = Current(at).val
      <4> DEFINE v == Current(at).val
      <4>1. v \in [1 .. Width -> {0, 1}]
        BY <1>16 DEF Vals
      <4>2. Len(bits) = Width /\ bits \in Seq({0, 1}) /\ \A k \in 1 .. Width : bits[k] = v[k]
        BY <1>17, <1>18, <2>2
      <4> HIDE DEF v
      <4>3. v \in Seq({0, 1}) /\ Len(v) = Width
        BY <1>16, <4>1
      <4>4. bits = v
        BY <4>2, <4>3, SeqEqual
      <4> QED BY <4>4 DEF v
    <3> DEFINE c == at.call - 1
               V(k) == script[k].val
    <3>2. c \in Nat /\ c + 1 = at.call /\ at'.call - 1 = c + 1
      BY <1>16, <2>2
    <3>3. \A k \in 1 .. c + 1 : V(k) \in Vals
      <4>1. \A k \in 1 .. c + 1 : script[k] \in Calls
        <5>1. script \in Seq(Calls)
          BY <1>2 DEF CallOK
        <5> QED BY <1>16, <3>2, <5>1
      <4> QED BY <4>1 DEF Calls
    <3>4. got = [k \in 1 .. c |-> V(k)] /\ bits = V(c + 1)
      BY <1>4, <1>16, <3>1, <3>2 DEF Given
    <3> HIDE DEF c, V
    <3>5. Append([k \in 1 .. c |-> V(k)], V(c + 1)) = [k \in 1 .. c + 1 |-> V(k)]
      <4>1. \A k \in 1 .. c : k \in 1 .. c + 1
        BY <3>2
      <4> DEFINE u == [k \in 1 .. c |-> V(k)]
                 t == [k \in 1 .. c + 1 |-> V(k)]
                 a == Append(u, V(c + 1))
      <4>2. u \in Seq(Vals) /\ Len(u) = c /\ t \in Seq(Vals) /\ Len(t) = c + 1
        BY <3>2, <3>3, <4>1
      <4>3. V(c + 1) \in Vals
        BY <3>2, <3>3
      <4>4. \A k \in 1 .. c : u[k] = t[k]
        BY <4>1
      <4>5. t[c + 1] = V(c + 1)
        BY <3>2
      <4> HIDE DEF u, t
      <4>6. a \in Seq(Vals) /\ Len(a) = c + 1 /\ (\A k \in 1 .. c : a[k] = u[k])
            /\ a[c + 1] = V(c + 1)
        BY <3>2, <4>2, <4>3
      <4> HIDE DEF a
      <4>7. \A k \in 1 .. c + 1 : a[k] = t[k]
        <5>1. \A k \in 1 .. c + 1 : k \in 1 .. c \/ k = c + 1
          BY <3>2
        <5> QED BY <4>4, <4>5, <4>6, <5>1
      <4>8. Len(a) = Len(t) /\ \A k \in 1 .. Len(a) : a[k] = t[k]
        BY <4>2, <4>6, <4>7
      <4>9. a = t
        BY <4>2, <4>6, <4>8, SeqEqual
      <4> QED BY <4>9 DEF a, u, t
    <3>6. got' = [k \in 1 .. c + 1 |-> V(k)]
      BY <2>2, <3>4, <3>5, Zenon
    <3>7. Len(at'.tree) = 0
      BY <2>2
    <3> QED BY <3>2, <3>6, <3>7 DEF V
  <2> QED BY <1>19, <2>1, <2>2
<1>21. Given(at.call - 1)' = [k \in 1 .. at'.call - 1 |-> script[k].val]
       /\ Current(at)' = script[at'.call]
  BY <1>1 DEF Given, Current
<1>22. phase' = "done" => got' = Given(Len(script))'
  <2> SUFFICES ASSUME phase' = "done" PROVE got' = Given(Len(script))'
    OBVIOUS
  <2>1. at'.call - 1 = Len(script)
    BY <1>13, <1>16
  <2>2. got' = [k \in 1 .. Len(script) |-> script[k].val]
    BY <1>20, <2>1
  <2> QED BY <1>1, <2>2 DEF Given
<1>23. at' = Then'.at
  BY <1>9, <1>13, <1>14
<1> QED BY <1>13, <1>15, <1>20, <1>21, <1>22, <1>23 DEF Decoded

LEMMA DecodedStep == IInv /\ Coded /\ Decoded /\ [Next]_vars => Decoded'
<1> SUFFICES ASSUME IInv, Coded, Decoded, [Next]_vars PROVE Decoded'
  OBVIOUS
<1>1. ASSUME UNCHANGED <<script, got, dec>>,
             phase \in {"encode", "flush"}, phase' \in {"encode", "flush", "refused", "open"}
      PROVE  Decoded'
  BY <1>1 DEF Decoded
<1>2. CASE EncodeBit
  <2>1. phase = "encode" /\ phase' \in {"encode", "flush"} /\ UNCHANGED <<script, got, dec>>
    BY <1>2 DEF EncodeBit, Position, callVars
  <2> QED BY <1>1, <2>1
<1>3. CASE Flush
  <2>1. phase = "flush" /\ phase' \in {"flush", "refused", "open"} /\ UNCHANGED <<script, got, dec>>
    BY <1>3 DEF Flush, callVars
  <2> QED BY <1>1, <2>1
<1>4. ASSUME UNCHANGED vars PROVE Decoded'
  <2>1. UNCHANGED <<script, phase, at, enc, dec, got, trail>>
    BY <1>4 DEF vars
  <2>2. Then' = Then
    BY <2>1 DEF Then, BitsDone
  <2>3. Prefix(Then.bytes + 4)' = Prefix(Then.bytes + 4)
    BY <2>1, <2>2 DEF Prefix
  <2> QED BY <2>1, <2>2, <2>3 DEF Decoded, Given, Current
<1>5. CASE Ended
  BY <1>4, <1>5 DEF Ended
<1> QED BY <1>2, <1>3, <1>4, <1>5, DecodedOpen, DecodedDecodeBit DEF Next

THEOREM Faithful == Spec => [](IInv /\ Coded /\ Decoded)
  BY IInvInit, IInvStep, CodedInit, CodedStep, DecodedInit, DecodedStep, PTL DEF Spec

(* In every script of any length, the decoder goes through the states the   *)
(* encoder went through, bit for bit: the same probabilities, the same      *)
(* range, and a code that is as far above the encoder's low end as the      *)
(* bytes it has read say.                                                   *)
THEOREM DecoderTracks == Spec => []Tracks
<1>1. IInv /\ Coded /\ Decoded => Tracks
  <2> SUFFICES ASSUME IInv, Coded, Decoded, phase = "decode" PROVE Tracks
    BY DEF Tracks
  <2> DEFINE r == Then
  <2>1. /\ at = r.at /\ dec = Reader(Prefix(r.bytes + 4) - r.low, r.range, r.bytes + 4)
        /\ EntryOK(r) /\ Holds(r)
    BY OnTheTrail, Zenon DEF Decoded
  <2>2. r = trail[BitsDone + 1]
    BY DEF Then
  <2>3. /\ dec.range = r.range /\ dec.taken = r.bytes + 4
        /\ dec.code = Prefix(r.bytes + 4) - r.low
    BY <2>1 DEF Reader
  <2>4. dec.code < dec.range
    <3> DEFINE n == r.bytes + 4
    <3>1. r.low \in Nat /\ r.bytes \in Nat /\ r.range \in Nat
      BY <2>1, Sizes DEF EntryOK, Entries
    <3>2. n \in Nat /\ n <= Len(enc.written) /\ Prefix(n) < r.low + r.range
      BY <2>1, <3>1 DEF Holds
    <3>3. enc.written \in Seq(Byte)
      BY DEF IInv, TypeOK, Encoders
    <3>4. Prefix(n) \in Nat
      BY <3>2, <3>3, PrefixGrows
    <3> HIDE DEF r, n
    <3> QED BY <2>3, <3>1, <3>2, <3>4 DEF n
  <2> HIDE DEF r
  <2> QED BY <2>1, <2>2, <2>3, <2>4 DEF Tracks, Prefix
<1> QED BY <1>1, Faithful, PTL

(* What the calls encode is what they decode, in every script of any        *)
(* length; the output is refused only if it has fewer bytes than the coders *)
(* normalise times.  Every step of the coders is a step of the codec or a   *)
(* stutter; that the value does come back is liveness, and checked.         *)
THEOREM ScriptComesBack == Spec => Codec!Init /\ [][Codec!Next]_(Codec!lVars)
<1> DEFINE given == [n \in DOMAIN script |-> script[n].val]
           returned == CASE phase = "done"    -> got
                         [] phase = "refused" -> NoValue
                         [] OTHER             -> Nothing
           short == limit < Len(script) * Width + Rounds
<1>1. Init => Codec!Init
  <2> SUFFICES ASSUME Init PROVE Codec!Init
    OBVIOUS
  <2>1. PICK n \in 1 .. MaxCalls : script \in [1 .. n -> Calls]
    BY DEF Init
  <2>2. given \in [1 .. n -> Vals]
    BY <2>1, SizesAssumption DEF Calls
  <2>3. returned = Nothing
    BY DEF Init
  <2> QED BY <2>2, <2>3 DEF Codec!Init
<1>2. IInv /\ Coded /\ Decoded /\ (IInv /\ Coded /\ Decoded)' /\ [Next]_vars
        => [Codec!Next]_(Codec!lVars)
  <2> SUFFICES ASSUME IInv, Coded, Decoded, IInv', Coded', Decoded', [Next]_vars
               PROVE  [Codec!Next]_(Codec!lVars)
    OBVIOUS
  <2>1. script' = script /\ limit' = limit
    BY DEF Next, EncodeBit, Flush, Open, DecodeBit, Ended, vars, callVars
  <2>2. given' = given /\ short' = short
    BY <2>1
  <2>3. CASE phase = "done"
    <3>1. phase' = phase /\ got' = got
      BY <2>3 DEF Next, EncodeBit, Flush, Open, DecodeBit, Ended, vars
    <3>2. returned' = returned
      BY <3>1
    <3> QED BY <2>2, <3>2 DEF Codec!lVars
  <2>4. CASE phase = "refused"
    <3>1. phase' = phase
      BY <2>4 DEF Next, EncodeBit, Flush, Open, DecodeBit, Ended, vars
    <3>2. returned' = returned
      BY <2>4, <3>1
    <3> QED BY <2>2, <3>2 DEF Codec!lVars
  <2>5. CASE phase \notin {"done", "refused"} /\ phase' \notin {"done", "refused"}
    <3>1. returned' = returned
      BY <2>5
    <3> QED BY <2>2, <3>1 DEF Codec!lVars
  <2>6. CASE phase \notin {"done", "refused"} /\ phase' = "done"
    <3>1. got' = given
      <4>1. got' = Given(Len(script))'
        BY <2>6 DEF Decoded
      <4>2. script \in Seq(Calls)
        BY DEF IInv, TypeOK
      <4>3. DOMAIN script = 1 .. Len(script)
        BY <4>2
      <4> QED BY <2>1, <4>1, <4>3 DEF Given
    <3>2. returned = Nothing /\ returned' = given
      BY <2>6, <3>1
    <3> QED BY <2>2, <3>2 DEF Codec!Next, Codec!Return
  <2>7. CASE phase \notin {"done", "refused"} /\ phase' = "refused"
    <3>1. short
      BY <2>1, <2>7 DEF Coded
    <3>2. returned = Nothing /\ returned' = NoValue
      BY <2>7
    <3> QED BY <2>2, <3>1, <3>2 DEF Codec!Next, Codec!Refuse
  <2> QED BY <2>3, <2>4, <2>5, <2>6, <2>7
<1> QED BY <1>1, <1>2, Faithful, PTL DEF Spec
=============================================================================
