-------------------------- MODULE ArithCoderProofs --------------------------
(***************************************************************************)
(* Proofs about ArithCoder, for every width of a word, every total that    *)
(* satisfies TotalAssumption, every predictor and inputs of any length.    *)
(* Three invariants, each on top of the one before:                        *)
(*   IInv     where the ends of the interval are at each stage of update,  *)
(*            so that no assertion fails;                                  *)
(*   Coded    what is written and owed is the exact low end, and the trail *)
(*            of the encoder is made of steps that do not depend on who    *)
(*            takes them;                                                  *)
(*   Decoded  the decoder is on that trail, because the number written is  *)
(*            in the interval of every entry, back from the end mark.      *)
(***************************************************************************)
EXTENDS ArithCoder, DivModFacts, TLAPS

-----------------------------------------------------------------------------
(* Arithmetic.                                                              *)

LEMMA Sizes ==
  /\ Quarter \in Nat /\ Quarter >= 1 /\ Half = 2 * Quarter /\ Full = 2 * Half
  /\ Full \in Nat /\ Half \in Nat /\ Total \in Nat /\ Total >= 2 /\ Long \in Nat
  /\ Total <= MinimumRange /\ Total * Full < Long /\ MinimumRange = Quarter + 2
<1>1. StateBits \in Nat /\ StateBits >= 2
  BY PowerAssumption
<1>2. /\ StateBits - 1 \in 1 .. StateBits /\ StateBits \in 1 .. StateBits
      /\ StateBits - 2 \in 0 .. StateBits /\ (StateBits - 1) - 1 = StateBits - 2
  BY <1>1
<1>3. Quarter \in Nat /\ Quarter >= 1
  <2>1. \A n \in 0 .. StateBits : Power[n] \in Nat \ {0}
    BY PowerAssumption
  <2>2. Power[StateBits - 2] \in Nat \ {0}
    BY <1>2, <2>1
  <2> QED BY <2>2 DEF Quarter
<1>4. Half = 2 * Quarter
  BY <1>2, PowerAssumption DEF Half, Quarter
<1>5. Full = 2 * Half
  BY <1>2, PowerAssumption DEF Full, Half
<1>6. Full \in Nat /\ Half \in Nat /\ Full >= 4
  BY <1>3, <1>4, <1>5
<1>7. Long \in Nat /\ Long - 1 \in Nat /\ Total \in Nat /\ Total >= 2
  BY SizesAssumption
<1> DEFINE most == (Long - 1) \div Full
<1>8. most \in Nat /\ Long - 1 = Full * most + ((Long - 1) % Full)
      /\ (Long - 1) % Full \in 0 .. Full - 1
  BY <1>6, <1>7, DivMod
<1>9. Total <= most /\ Total <= MinimumRange
  <2> HIDE DEF most
  <2>1. MaximumTotal = IF most < MinimumRange THEN most ELSE MinimumRange
    BY DEF MaximumTotal, most
  <2> QED BY <1>3, <1>8, <2>1, <1>7, TotalAssumption DEF MinimumRange
<1> HIDE DEF most
<1>10. Full * Total <= Full * most
  BY <1>6, <1>7, <1>8, <1>9
<1>11. Full * Total = Total * Full /\ Full * most \in Nat /\ Full * Total \in Nat
  BY <1>6, <1>7, <1>8
<1>12. Total * Full < Long
  BY <1>7, <1>8, <1>10, <1>11
<1> QED BY <1>3, <1>4, <1>5, <1>6, <1>7, <1>9, <1>12 DEF MinimumRange

(* Quotients, compared without dividing. *)
LEMMA QuotientAtLeast ==
  ASSUME NEW n \in Nat, NEW m \in Nat, m > 0, NEW k \in Nat, m * k <= n
  PROVE  k <= n \div m
<1> DEFINE q == n \div m
           r == n % m
<1>1. q \in Nat /\ r \in 0 .. m - 1 /\ n = m * q + r
  BY DivMod
<1> HIDE DEF q, r
<1>2. k >= q + 1 => m * k >= m * (q + 1)
  BY <1>1
<1>3. m * (q + 1) = m * q + m /\ m * q \in Nat /\ m * k \in Nat
  BY <1>1
<1> QED BY <1>1, <1>2, <1>3 DEF q

LEMMA QuotientBelow ==
  ASSUME NEW n \in Nat, NEW m \in Nat, m > 0, NEW k \in Nat, n < m * k
  PROVE  n \div m < k
<1> DEFINE q == n \div m
           r == n % m
<1>1. q \in Nat /\ r \in 0 .. m - 1 /\ n = m * q + r
  BY DivMod
<1> HIDE DEF q, r
<1>2. q >= k => m * q >= m * k
  BY <1>1
<1>3. m * q \in Nat /\ m * k \in Nat
  BY <1>1
<1> QED BY <1>1, <1>2, <1>3 DEF q

(* The two top bits of a word, and what shifting them out leaves. *)
LEMMA TopBits ==
  ASSUME NEW x \in 0 .. Full - 1
  PROVE  /\ x < Half => TopBit(x) = 0 /\ Shifted(x) = 2 * x
         /\ x >= Half => TopBit(x) = 1 /\ Shifted(x) = 2 * x - Full
         /\ SecondBit(x) = 1 <=> \/ Quarter <= x /\ x < Half
                                 \/ Half + Quarter <= x
         /\ SecondBit(x) \in {0, 1}
<1>0. x \in Nat /\ Quarter > 0 /\ Half > 0 /\ Full > 0
  BY Sizes
<1>1. x < Half => TopBit(x) = 0 /\ Shifted(x) = 2 * x
  BY <1>0, Sizes DEF TopBit, Shifted
<1>2. x >= Half => TopBit(x) = 1 /\ Shifted(x) = 2 * x - Full
  <2> SUFFICES ASSUME x >= Half PROVE TopBit(x) = 1 /\ Shifted(x) = 2 * x - Full
    OBVIOUS
  <2>1. TopBit(x) = 1
    <3>1. Half * 1 <= x /\ x < Half * 2
      BY <1>0, Sizes
    <3>2. 1 <= x \div Half /\ x \div Half < 2
      BY <1>0, <3>1, QuotientAtLeast, QuotientBelow, Sizes
    <3>3. x \div Half \in Nat
      BY <1>0, DivMod, Sizes
    <3> QED BY <3>2, <3>3 DEF TopBit
  <2>2. Shifted(x) = 2 * x - Full
    <3>1. 2 * x \in Nat /\ 2 * x - Full \in 0 .. Full - 1 /\ 2 * x - (2 * x - Full) = Full * 1
      BY <1>0, Sizes
    <3>2. (2 * x) % Full = (2 * x - Full) % Full
      BY <1>0, <3>1, ModMultiple, Sizes
    <3>3. (2 * x - Full) % Full = 2 * x - Full
      BY <3>1, Sizes
    <3> QED BY <3>2, <3>3 DEF Shifted
  <2> QED BY <2>1, <2>2
<1>3. /\ SecondBit(x) = 1 <=> (Quarter <= x /\ x < Half) \/ Half + Quarter <= x
      /\ SecondBit(x) \in {0, 1}
  <2> DEFINE q == x \div Quarter
  <2>1. q \in Nat /\ x = Quarter * q + (x % Quarter) /\ x % Quarter \in 0 .. Quarter - 1
    BY <1>0, DivMod, Sizes
  <2>2. \A k \in Nat : /\ Quarter * k <= x => k <= q
                       /\ x < Quarter * k => q < k
    BY <1>0, QuotientAtLeast, QuotientBelow, Sizes
  <2>3. Quarter * 1 = Quarter /\ Quarter * 2 = Half /\ Quarter * 3 = Half + Quarter
        /\ Quarter * 4 = Full
    BY Sizes
  <2> HIDE DEF q
  <2>4. /\ Quarter <= x => 1 <= q
        /\ Half <= x => 2 <= q
        /\ Half + Quarter <= x => 3 <= q
        /\ x < Quarter => q < 1
        /\ x < Half => q < 2
        /\ x < Half + Quarter => q < 3
        /\ q < 4
    BY <1>0, <2>2, <2>3, Sizes
  <2>5. /\ x < Quarter => q = 0
        /\ Quarter <= x /\ x < Half => q = 1
        /\ Half <= x /\ x < Half + Quarter => q = 2
        /\ Half + Quarter <= x => q = 3
    BY <1>0, <2>1, <2>4, Sizes
  <2>6. SecondBit(x) = q % 2
    BY DEF SecondBit, q
  <2> QED BY <1>0, <2>5, <2>6, Sizes
<1> QED BY <1>1, <1>2, <1>3

-----------------------------------------------------------------------------
(* The frequency table and the interval of a symbol.                        *)

Interval == low \in 0 .. Full - 1 /\ high \in 0 .. Full - 1 /\ low <= high

Settled ==
  /\ Interval /\ low < Half /\ Half <= high
  /\ low < Quarter \/ high >= Half + Quarter

LEMMA RangeOf == Interval => range \in Nat /\ range >= 1 /\ range <= Full
  BY Sizes DEF Interval, range

LEMMA SettledIsWide == Settled => range >= MinimumRange /\ range >= Total
  BY Sizes DEF Settled, Interval, range

LEMMA FreqOK ==
  ASSUME model \in Predictors, prefix \in Contexts
  PROVE  /\ Freq \in 1 .. Total - 1
         /\ \A s \in Bit : Low(s) \in 0 .. Total /\ High(s) \in 0 .. Total /\ Low(s) < High(s)
<1>1. model[prefix] \in 0 .. Total
  BY SizesAssumption
<1>2. Freq \in 1 .. Total - 1
  BY <1>1, Sizes DEF Freq, Set
<1>3. ASSUME NEW s \in Bit
      PROVE  Low(s) \in 0 .. Total /\ High(s) \in 0 .. Total /\ Low(s) < High(s)
  <2>1. CASE s = 0
    BY <1>2, <2>1, Sizes DEF Low, High
  <2>2. CASE s = 1
    BY <1>2, <2>2, Sizes DEF Low, High
  <2> QED BY <2>1, <2>2 DEF Bit
<1> QED BY <1>2, <1>3

(* Neither product of Scale overflows. *)
LEMMA ScaleExact ==
  ASSUME Interval, NEW f \in 0 .. Total
  PROVE  /\ f * range \in Nat /\ f * range <= Total * range
         /\ Total * range \in Nat /\ Total * range < Long
         /\ Scale(f) = (f * range) \div Total /\ Scale(f) \in Nat
<1>1. range \in Nat /\ range >= 1 /\ range <= Full /\ f \in Nat /\ f <= Total
  BY RangeOf, Sizes
<1>2. f * range \in Nat /\ f * range <= Total * range /\ Total * range \in Nat
  BY <1>1, Sizes
<1>3. Total * range <= Total * Full /\ Total * Full \in Nat
  BY <1>1, Sizes
<1>4. f * range < Long /\ Total * range < Long
  BY <1>2, <1>3, Sizes
<1> DEFINE n == f * range
<1>5. Wrap(n) = n
  <2>1. n \in Nat /\ n < Long
    BY <1>2, <1>4
  <2> HIDE DEF n
  <2> QED BY <2>1, Sizes DEF Wrap
<1>6. Scale(f) = n \div Total
  BY <1>5 DEF Scale
<1>7. n \div Total \in Nat
  <2>1. n \in Nat
    BY <1>2
  <2> HIDE DEF n
  <2> QED BY <2>1, Sizes, DivMod
<1> QED BY <1>2, <1>4, <1>6, <1>7

LEMMA ScaleEnds ==
  ASSUME Interval
  PROVE  Scale(0) = 0 /\ Scale(Total) = range
<1>1. range \in Nat /\ 0 \in 0 .. Total /\ Total \in 0 .. Total
  BY RangeOf, Sizes
<1>2. Scale(0) = (0 * range) \div Total /\ Scale(Total) = (Total * range) \div Total
  BY <1>1, ScaleExact
<1>3. (0 * range) \div Total = 0
  <2>1. 0 * range = 0
    BY <1>1
  <2> QED BY <2>1, Sizes
<1>4. (Total * range) \div Total = range
  <2> DEFINE n == Total * range
             q == n \div Total
  <2>1. n \in Nat /\ Total * range <= n /\ Total > 0
    BY <1>1, Sizes
  <2>2. Total * (range + 1) = n + Total
    BY <1>1, Sizes
  <2> HIDE DEF n
  <2>3. range <= q /\ q < range + 1 /\ q \in Nat
    <3>1. range <= q
      BY <1>1, <2>1, QuotientAtLeast, Sizes
    <3>2. n < Total * (range + 1) /\ range + 1 \in Nat
      BY <1>1, <2>1, <2>2, Sizes
    <3>3. q < range + 1
      BY <2>1, <3>2, QuotientBelow, Sizes
    <3>4. q \in Nat
      BY <2>1, DivMod, Sizes
    <3> QED BY <3>1, <3>3, <3>4
  <2> HIDE DEF q
  <2> QED BY <1>1, <2>3 DEF q, n
<1> QED BY <1>2, <1>3, <1>4

(* Every symbol keeps a part of an interval at least as long as the total. *)
LEMMA ScaleApart ==
  ASSUME Interval, NEW f \in 0 .. Total, NEW g \in 0 .. Total
  PROVE  /\ f <= g => Scale(f) <= Scale(g)
         /\ f < g /\ range >= Total => Scale(f) + 1 <= Scale(g)
<1> DEFINE r == range
           m == f * r
           n == g * r
           q == m \div Total
<1>1. r \in Nat /\ f \in Nat /\ g \in Nat /\ Total \in Nat /\ Total > 0
  BY RangeOf, Sizes
<1>2. m \in Nat /\ n \in Nat
  BY <1>1
<1>3. Scale(f) = m \div Total /\ Scale(g) = n \div Total
  BY ScaleExact
<1>4. f <= g => m <= n
  BY <1>1
<1>5. f < g => m + r <= n
  <2>1. f + 1 <= g => (f + 1) * r <= g * r
    BY <1>1
  <2>2. (f + 1) * r = m + r
    BY <1>1
  <2> QED BY <1>1, <2>1, <2>2
<1> HIDE DEF r, m, n
<1>6. q \in Nat /\ Total * q <= m
  BY <1>1, <1>2, DivMod
<1>7. Total * (q + 1) = Total * q + Total /\ Total * q \in Nat
  BY <1>1, <1>6
<1> HIDE DEF q
<1>8. f <= g => q <= n \div Total
  <2> SUFFICES ASSUME f <= g PROVE q <= n \div Total
    OBVIOUS
  <2>1. Total * q <= n
    BY <1>2, <1>4, <1>6, <1>7
  <2> QED BY <1>1, <1>2, <1>6, <2>1, QuotientAtLeast
<1>9. f < g /\ r >= Total => q + 1 <= n \div Total
  <2> SUFFICES ASSUME f < g, r >= Total PROVE q + 1 <= n \div Total
    OBVIOUS
  <2>1. Total * (q + 1) <= n /\ q + 1 \in Nat
    BY <1>1, <1>2, <1>5, <1>6, <1>7
  <2> QED BY <1>1, <1>2, <2>1, QuotientAtLeast
<1> QED BY <1>3, <1>8, <1>9 DEF q, r

(* update throws nothing between symbols, and narrows. *)
LEMMA NarrowOK ==
  ASSUME Settled, model \in Predictors, prefix \in Contexts, NEW s \in Bit, Narrow(s)
  PROVE  /\ low' = low + Scale(Low(s)) /\ high' = low + Scale(High(s)) - 1
         /\ low' \in 0 .. Full - 1 /\ high' \in 0 .. Full - 1 /\ low' <= high'
         /\ symbol' = s /\ stage' = "shift" /\ side' = side
<1>1. /\ low \in 0 .. Full - 1 /\ high \in 0 .. Full - 1 /\ low < high /\ Interval
      /\ range \in Nat /\ range >= MinimumRange /\ range >= Total
  BY SettledIsWide, RangeOf, Sizes DEF Settled, Interval
<1>2. Low(s) \in 0 .. Total /\ High(s) \in 0 .. Total /\ Low(s) < High(s)
  BY FreqOK
<1>3. Sound(s)
  BY <1>1, <1>2, Sizes DEF Sound
<1>4. /\ low' = low + Scale(Low(s)) /\ high' = low + Scale(High(s)) - 1
      /\ symbol' = s /\ stage' = "shift" /\ side' = side
  BY <1>3 DEF Narrow
<1>5. /\ Scale(Low(s)) \in Nat /\ Scale(High(s)) \in Nat
      /\ Scale(Low(s)) + 1 <= Scale(High(s))
  BY <1>1, <1>2, ScaleExact, ScaleApart
<1>6. Scale(High(s)) <= range
  <2>1. Total \in 0 .. Total /\ High(s) <= Total
    BY <1>2, Sizes
  <2>2. Scale(High(s)) <= Scale(Total)
    BY <1>1, <1>2, <2>1, ScaleApart
  <2> QED BY <1>1, <2>2, ScaleEnds
<1>7. range = high - low + 1
  BY DEF range
<1> QED BY <1>1, <1>4, <1>5, <1>6, <1>7, Sizes

-----------------------------------------------------------------------------
(* The rounds of the loops, and the code within the interval.               *)

LEMMA ShiftEndsOK ==
  ASSUME Interval, SameTop, ShiftEnds
  PROVE  /\ low' \in 0 .. Full - 1 /\ high' \in 0 .. Full - 1 /\ low' <= high'
         /\ TopBit(low) \in Bit
         /\ \A c \in 0 .. Full - 1, b \in Bit : low <= c /\ c <= high =>
              /\ Shifted(c) + b \in 0 .. Full - 1
              /\ low' <= Shifted(c) + b /\ Shifted(c) + b <= high'
<1>1. low \in 0 .. Full - 1 /\ high \in 0 .. Full - 1 /\ low <= high
  BY DEF Interval
<1>2. low' = Shifted(low) /\ high' = Shifted(high) + 1
  BY DEF ShiftEnds
<1>3. \A x \in 0 .. Full - 1 :
        /\ x < Half => TopBit(x) = 0 /\ Shifted(x) = 2 * x
        /\ x >= Half => TopBit(x) = 1 /\ Shifted(x) = 2 * x - Full
  BY TopBits
<1>4. (low < Half /\ high < Half) \/ (low >= Half /\ high >= Half)
  BY <1>1, <1>3, Sizes DEF SameTop
<1>5. CASE low < Half /\ high < Half
  BY <1>1, <1>2, <1>3, <1>5, Sizes DEF Bit
<1>6. CASE low >= Half /\ high >= Half
  BY <1>1, <1>2, <1>3, <1>6, Sizes DEF Bit
<1> QED BY <1>4, <1>5, <1>6

(* At the end of the first loop the ends are in different halves. *)
LEMMA ApartOK ==
  ASSUME Interval, Apart, stage = "underflow" => low < Half /\ Half <= high
  PROVE  low < Half /\ Half <= high
<1>1. low \in 0 .. Full - 1 /\ high \in 0 .. Full - 1 /\ low <= high
  BY DEF Interval
<1>2. CASE stage = "underflow"
  BY <1>2
<1>3. CASE stage = "shift" /\ ~SameTop
  <2>1. \A x \in 0 .. Full - 1 : (x < Half => TopBit(x) = 0) /\ (x >= Half => TopBit(x) = 1)
    BY TopBits
  <2> QED BY <1>1, <1>3, <2>1, Sizes DEF SameTop
<1> QED BY <1>2, <1>3 DEF Apart

LEMMA MiddleOK ==
  ASSUME Interval, low < Half, Half <= high
  PROVE  Middle <=> low >= Quarter /\ high < Half + Quarter
<1>1. low \in 0 .. Full - 1 /\ high \in 0 .. Full - 1
  BY DEF Interval
<1>2. SecondBit(low) = 1 <=> Quarter <= low
  BY <1>1, TopBits, Sizes
<1>3. SecondBit(high) = 1 <=> Half + Quarter <= high
  BY <1>1, TopBits, Sizes
<1>4. SecondBit(high) \in {0, 1}
  BY <1>1, TopBits
<1> QED BY <1>1, <1>2, <1>3, <1>4, Sizes DEF Middle

LEMMA DeleteOK ==
  ASSUME Interval, low < Half, Half <= high, Middle, DeleteSecond
  PROVE  /\ low' \in 0 .. Full - 1 /\ high' \in 0 .. Full - 1
         /\ low' < Half /\ Half <= high'
         /\ \A c \in low .. high : Deleted(c) = 2 * c - Half
         /\ \A c \in 0 .. Full - 1, b \in Bit : low <= c /\ c <= high =>
              /\ Deleted(c) + b \in 0 .. Full - 1
              /\ low' <= Deleted(c) + b /\ Deleted(c) + b <= high'
<1>1. /\ low \in 0 .. Full - 1 /\ high \in 0 .. Full - 1
      /\ Quarter <= low /\ high < Half + Quarter
  BY MiddleOK, Sizes DEF Interval
<1>2. low' = 2 * low - Half /\ high' = 2 * (high - Half) + Half + 1
  BY DEF DeleteSecond
<1>3. ASSUME NEW c \in 0 .. Full - 1, low <= c, c <= high
      PROVE  Deleted(c) = 2 * c - Half
  <2>0. c \in Nat /\ Half > 0
    BY Sizes
  <2>1. CASE c < Half
    <3>1. TopBit(c) = 0
      BY <2>1, TopBits
    <3>2. /\ 2 * c \in Nat /\ 2 * c - Half \in 0 .. Half - 1
          /\ 2 * c - (2 * c - Half) = Half * 1
      BY <1>1, <1>3, <2>0, <2>1, Sizes
    <3>3. (2 * c) % Half = (2 * c - Half) % Half
      BY <2>0, <3>2, ModMultiple, Sizes
    <3>4. (2 * c - Half) % Half = 2 * c - Half
      BY <3>2, Sizes
    <3> QED BY <2>0, <3>1, <3>3, <3>4, Sizes DEF Deleted
  <2>2. CASE c >= Half
    <3>1. TopBit(c) = 1
      BY <2>2, TopBits
    <3>2. /\ 2 * c \in Nat /\ 2 * c - Full \in 0 .. Half - 1
          /\ 2 * c - (2 * c - Full) = Half * 2
      BY <1>1, <1>3, <2>0, <2>2, Sizes
    <3>3. (2 * c) % Half = (2 * c - Full) % Half
      BY <2>0, <3>2, ModMultiple, Sizes
    <3>4. (2 * c - Full) % Half = 2 * c - Full
      BY <3>2, Sizes
    <3> QED BY <2>0, <3>1, <3>3, <3>4, Sizes DEF Deleted
  <2> QED BY <2>0, <2>1, <2>2, Sizes
<1>4. /\ low' \in 0 .. Full - 1 /\ high' \in 0 .. Full - 1
      /\ low' < Half /\ Half <= high'
  BY <1>1, <1>2, Sizes
<1>5. ASSUME NEW c \in 0 .. Full - 1, NEW b \in Bit, low <= c, c <= high
      PROVE  /\ Deleted(c) + b \in 0 .. Full - 1
             /\ low' <= Deleted(c) + b /\ Deleted(c) + b <= high'
  <2>1. Deleted(c) = 2 * c - Half
    BY <1>3, <1>5
  <2> QED BY <1>1, <1>2, <1>5, <2>1, Sizes DEF Bit
<1>6. \A c \in low .. high : Deleted(c) = 2 * c - Half
  <2>1. \A c \in low .. high : c \in 0 .. Full - 1 /\ low <= c /\ c <= high
    BY <1>1, Sizes
  <2> QED BY <1>3, <2>1
<1> QED BY <1>4, <1>5, <1>6

(* The assertions of read hold, and the code is in the part of the symbol   *)
(* that is found.                                                           *)
LEMMA FoundOK ==
  ASSUME Settled, model \in Predictors, prefix \in Contexts,
         code \in 0 .. Full - 1, low <= code, code <= high
  PROVE  /\ Scale(Value) <= Offset /\ Value < Total /\ Found \in Bit
         /\ Scale(Low(Found)) <= Offset /\ Offset < Scale(High(Found))
         /\ Offset = code - low
<1> DEFINE r == range
           o == code - low
           n == (o + 1) * Total - 1
           v == n \div r
<1>1. /\ Interval /\ r \in Nat /\ r >= 1 /\ r = high - low + 1
      /\ low \in Nat /\ high \in Nat /\ code \in Nat /\ low <= code /\ code <= high
  BY RangeOf, Sizes DEF Settled, Interval, range
<1>2. o \in Nat /\ o + 1 <= r /\ o < Full
  BY <1>1, Sizes DEF Settled, Interval
<1>3. Total * r < Long /\ Total * r \in Nat
  <2>1. Total \in 0 .. Total
    BY Sizes
  <2> QED BY <1>1, <2>1, ScaleExact
<1>4. Offset = o
  <2>1. Full < Long
    <3>1. Full * 2 <= Total * Full /\ Total * Full \in Nat
      BY Sizes
    <3> QED BY <3>1, Sizes
  <2> HIDE DEF o
  <2> QED BY <1>2, <2>1, Sizes DEF Offset, Wrap, o
<1> HIDE DEF o, r
<1>5. /\ (o + 1) * Total \in Nat /\ (o + 1) * Total <= Total * r /\ (o + 1) * Total >= 1
      /\ (o + 1) * Total = Total * (o + 1)
  <2>1. (o + 1) * Total = Total * (o + 1) /\ (o + 1) * Total \in Nat
    BY <1>2, Sizes
  <2>2. Total * (o + 1) <= Total * r
    BY <1>1, <1>2, Sizes
  <2>3. Total * (o + 1) >= Total * 1
    BY <1>2, Sizes
  <2> QED BY <2>1, <2>2, <2>3, Sizes
<1>6. Value = v
  <2> DEFINE p == (o + 1) * Total
  <2>1. p \in Nat /\ p < Long /\ p >= 1
    <3> DEFINE q == Total * r
    <3>1. p \in Nat /\ p <= q /\ p >= 1 /\ q \in Nat /\ q < Long
      BY <1>3, <1>5
    <3> HIDE DEF p, q
    <3> QED BY <3>1, Sizes
  <2> HIDE DEF p
  <2>2. Wrap(p) = p /\ Wrap(p - 1) = p - 1
    BY <2>1, Sizes DEF Wrap
  <2> QED BY <1>4, <2>2 DEF Value, p, r
<1>7. n \in Nat /\ n < Total * (o + 1) /\ n < Total * r
  BY <1>3, <1>5
<1> HIDE DEF n
<1>8. v \in Nat /\ n = r * v + (n % r) /\ n % r \in 0 .. r - 1 /\ v < Total
  <2>1. n < r * Total
    BY <1>1, <1>7, Sizes
  <2>2. v < Total
    BY <1>1, <1>7, <2>1, QuotientBelow, Sizes
  <2>3. v \in Nat /\ n = r * v + (n % r) /\ n % r \in 0 .. r - 1
    <3>1. n \in Nat /\ r \in Nat /\ r > 0
      BY <1>1, <1>7
    <3> QED BY <3>1, DivMod
  <2> QED BY <2>2, <2>3
<1> HIDE DEF v
<1>9. v * r <= n /\ n < (v + 1) * r /\ v * r \in Nat /\ (v + 1) * r \in Nat
  <2>1. r * v = v * r /\ (v + 1) * r = v * r + r /\ v * r \in Nat
    BY <1>1, <1>8
  <2> QED BY <1>1, <1>7, <1>8, <2>1
<1>10. v \in 0 .. Total /\ Scale(v) = (v * r) \div Total
  BY <1>1, <1>8, ScaleExact, Sizes DEF r
<1>11. Scale(v) <= o
  <2> DEFINE m == v * r
  <2>1. m \in Nat /\ m < Total * (o + 1)
    BY <1>7, <1>9, <1>5
  <2> HIDE DEF m
  <2>2. m \div Total < o + 1 /\ m \div Total \in Nat
    BY <1>2, <2>1, QuotientBelow, DivMod, Sizes
  <2> QED BY <1>2, <1>10, <2>2 DEF m
<1>12. Freq \in 1 .. Total - 1
  BY FreqOK
<1>13. Found \in Bit /\ Low(Found) <= v /\ v + 1 <= High(Found)
  BY <1>6, <1>8, <1>12, Sizes DEF Found, Low, High, Bit
<1>14. Low(Found) \in 0 .. Total /\ High(Found) \in 0 .. Total
  BY <1>13, FreqOK
<1>15. Scale(Low(Found)) <= o
  <2>1. Scale(Low(Found)) <= Scale(v)
    BY <1>1, <1>10, <1>13, <1>14, ScaleApart
  <2>2. Scale(Low(Found)) \in Nat /\ Scale(v) \in Nat
    BY <1>1, <1>10, <1>14, ScaleExact
  <2> QED BY <1>2, <1>11, <2>1, <2>2
<1>16. o < Scale(High(Found))
  <2> DEFINE h == High(Found)
             m == h * r
  <2>0. h \in Nat /\ v + 1 <= h
    BY <1>13, <1>14, Sizes
  <2>1. (v + 1) * r <= m /\ m \in Nat
    <3> HIDE DEF h
    <3> QED BY <1>1, <1>8, <2>0
  <2>2. Scale(h) = m \div Total
    BY <1>1, <1>14, ScaleExact DEF r
  <2> HIDE DEF m, h
  <2>3. Total * (o + 1) <= m
    BY <1>5, <1>7, <1>9, <2>1 DEF n
  <2>4. o + 1 <= m \div Total /\ m \div Total \in Nat
    BY <1>2, <2>1, <2>3, QuotientAtLeast, DivMod, Sizes
  <2> QED BY <1>2, <2>2, <2>4 DEF h
<1> QED BY <1>4, <1>6, <1>8, <1>11, <1>13, <1>15, <1>16 DEF o

-----------------------------------------------------------------------------
(* The inductive invariant.                                                 *)

Stages ==
  /\ Interval
  /\ stage = "underflow" => low < Half /\ Half <= high
  /\ side \in {"encode", "decode"} /\ stage = "call" => Settled
  /\ side \in {"open", "fill"} => stage = "call"
  /\ side = "encode" /\ stage # "call" => sent < Len(given)
  /\ side = "decode" => low <= code /\ code <= high

(* What has been read for the code so far fits in what it will be.          *)
Filling ==
  side = "fill" =>
    /\ low = 0 /\ high = Full - 1 /\ taken < StateBits
    /\ (code + 1) * Power[StateBits - taken] <= Full

IInv == TypeOK /\ NothingThrown /\ Stages /\ Filling

LEMMA GivenOK == given \in Inputs => given \in Seq(Bit) /\ Len(given) \in Nat
  BY SizesAssumption

LEMMA ZeroPadOK == ZeroPad \in Contexts
  BY DEF ZeroPad, Contexts, Bit

LEMMA PushOK ==
  ASSUME prefix \in Contexts, NEW bit \in Bit
  PROVE  Push(bit) \in Contexts
<1>1. Context \in Nat \ {0}
  BY SizesAssumption
<1>2. prefix \in Seq(Bit) /\ Len(prefix) = Context
  BY <1>1 DEF Contexts
<1> DEFINE a == Append(prefix, bit)
<1>3. a \in Seq(Bit) /\ Len(a) = Context + 1
  BY <1>1, <1>2
<1> HIDE DEF a
<1>4. Tail(a) \in Seq(Bit) /\ Len(Tail(a)) = Context
  BY <1>1, <1>3
<1>5. Tail(a) \in [1 .. Context -> Bit]
  <2>1. \A b \in Seq(Bit) : Len(b) = Context => b \in [1 .. Context -> Bit]
    OBVIOUS
  <2> QED BY <1>4, <2>1, Zenon
<1> QED BY <1>5 DEF Push, Contexts, a

LEMMA NextBitOK == written \in Seq(Bit) /\ taken \in Nat => NextBit \in Bit
  BY DEF NextBit, Bit

LEMMA IInvInit == Init => IInv
<1> SUFFICES ASSUME Init PROVE IInv
  OBVIOUS
<1>1. /\ low = 0 /\ high = Full - 1 /\ low \in 0 .. Full - 1 /\ high \in 0 .. Full - 1
      /\ low < Half /\ Half <= high /\ low < Quarter /\ low <= high
  BY Sizes DEF Init
<1>2. Interval /\ Settled
  BY <1>1 DEF Interval, Settled
<1>3. Len(given) \in Nat
  BY GivenOK DEF Init
<1>4. TypeOK
  <2>1. sent \in 0 .. Len(given) /\ pending \in 0 .. MaxUnderflow /\ code \in 0 .. Full - 1
    BY <1>3, Sizes, SizesAssumption DEF Init
  <2>2. written \in Seq(Bit) /\ got \in Seq(Bit) /\ symbol \in Bit /\ taken \in Nat
    BY DEF Init, Bit
  <2> QED BY <1>1, <2>1, <2>2, ZeroPadOK DEF Init, TypeOK
<1> QED BY <1>2, <1>4 DEF Init, IInv, NothingThrown, Stages, Filling

LEMMA StepWrite == IInv /\ Write => IInv'
<1> SUFFICES ASSUME IInv, Write PROVE IInv'
  OBVIOUS
<1> DEFINE s == given[sent + 1]
<1>1. /\ side = "encode" /\ stage = "call" /\ sent < Len(given) /\ Narrow(s)
      /\ UNCHANGED <<given, model, prefix, sent, pending, written, code, taken, got>>
  BY DEF Write, decoder
<1>2. Settled /\ model \in Predictors /\ prefix \in Contexts
  BY <1>1 DEF IInv, Stages, TypeOK
<1>3. s \in Bit
  BY <1>1, GivenOK DEF IInv, TypeOK
<1> HIDE DEF s
<1>4. /\ low' \in 0 .. Full - 1 /\ high' \in 0 .. Full - 1 /\ low' <= high'
      /\ symbol' \in Bit /\ stage' = "shift" /\ side' = "encode"
  BY <1>1, <1>2, <1>3, NarrowOK
<1>5. TypeOK'
  BY <1>1, <1>4 DEF IInv, TypeOK
<1> QED BY <1>1, <1>4, <1>5 DEF IInv, NothingThrown, Stages, Filling, Interval

LEMMA StepShiftOut == IInv /\ ShiftOut => IInv'
<1> SUFFICES ASSUME IInv, ShiftOut PROVE IInv'
  OBVIOUS
<1>1. /\ side = "encode" /\ stage = "shift" /\ SameTop /\ ShiftEnds
      /\ stage' = stage /\ side' = side
      /\ written' = written \o <<TopBit(low)>> \o Paid(TopBit(low)) /\ pending' = 0
      /\ UNCHANGED <<given, model, symbol, prefix, sent, code, taken, got>>
  BY DEF ShiftOut, Shifting, ShiftEnds, decoder
<1>2. /\ low' \in 0 .. Full - 1 /\ high' \in 0 .. Full - 1 /\ low' <= high'
      /\ TopBit(low) \in Bit
  BY <1>1, ShiftEndsOK DEF IInv, Stages
<1>3. written' \in Seq(Bit)
  <2>1. pending \in Nat /\ written \in Seq(Bit)
    BY SizesAssumption DEF IInv, TypeOK
  <2> DEFINE bit == TopBit(low)
  <2>2. bit \in Bit /\ 1 - bit \in Bit
    BY <1>2 DEF Bit
  <2> HIDE DEF bit
  <2>3. Paid(bit) \in Seq(Bit) /\ <<bit>> \in Seq(Bit)
    BY <2>1, <2>2 DEF Paid
  <2>4. written' = written \o <<bit>> \o Paid(bit)
    BY <1>1 DEF bit
  <2> QED BY <2>1, <2>3, <2>4
<1>4. TypeOK'
  <2>1. pending' \in 0 .. MaxUnderflow
    BY <1>1, SizesAssumption
  <2> QED BY <1>1, <1>2, <1>3, <2>1 DEF IInv, TypeOK
<1> QED BY <1>1, <1>2, <1>4 DEF IInv, NothingThrown, Stages, Filling, Interval

LEMMA StepOwe == IInv /\ Owe => IInv'
<1> SUFFICES ASSUME IInv, Owe PROVE IInv'
  OBVIOUS
<1>1. /\ side = "encode" /\ Apart /\ Middle /\ stage # "call"
      /\ UNCHANGED <<given, model, symbol, prefix, sent, written, code, taken, got>>
  BY DEF Owe, Deleting, Apart, decoder
<1>2. Interval /\ low < Half /\ Half <= high
  BY <1>1, ApartOK DEF IInv, Stages
<1>3. CASE pending = MaxUnderflow
  <2>1. side' = "overflow" /\ UNCHANGED <<low, high, stage, pending>>
    BY <1>3 DEF Owe
  <2>2. TypeOK'
    BY <1>1, <2>1 DEF IInv, TypeOK
  <2> QED BY <1>1, <1>2, <2>1, <2>2 DEF IInv, NothingThrown, Stages, Filling, Interval
<1>4. CASE pending # MaxUnderflow
  <2>1. DeleteSecond /\ pending' = pending + 1 /\ side' = side /\ stage' = "underflow"
    BY <1>4 DEF Owe, DeleteSecond
  <2>2. /\ low' \in 0 .. Full - 1 /\ high' \in 0 .. Full - 1
        /\ low' < Half /\ Half <= high'
    BY <1>1, <1>2, <2>1, DeleteOK
  <2>3. pending' \in 0 .. MaxUnderflow
    BY <1>4, <2>1, SizesAssumption DEF IInv, TypeOK
  <2>4. TypeOK'
    BY <1>1, <2>1, <2>2, <2>3 DEF IInv, TypeOK
  <2>5. low' <= high'
    BY <2>2, Sizes
  <2> QED BY <1>1, <2>1, <2>2, <2>4, <2>5 DEF IInv, NothingThrown, Stages, Filling, Interval
<1> QED BY <1>3, <1>4

(* When a call returns, the interval is as documented.                      *)
LEMMA ReturnsSettled ==
  ASSUME Stages, Returning
  PROVE  Settled
<1>1. Interval /\ low < Half /\ Half <= high
  BY ApartOK DEF Stages, Returning
<1>2. low < Quarter \/ high >= Half + Quarter
  BY <1>1, MiddleOK, Sizes DEF Returning, Interval
<1> QED BY <1>1, <1>2 DEF Settled

LEMMA StepWriteReturns == IInv /\ WriteReturns => IInv'
<1> SUFFICES ASSUME IInv, WriteReturns PROVE IInv'
  OBVIOUS
<1>1. /\ side = "encode" /\ Returning /\ stage # "call"
      /\ stage' = "call" /\ sent' = sent + 1 /\ prefix' = Push(symbol)
      /\ UNCHANGED <<given, model, side, low, high, symbol, pending, written,
                     code, taken, got>>
  BY DEF WriteReturns, Returning, Apart, decoder
<1>2. Settled
  BY <1>1, ReturnsSettled DEF IInv
<1>3. sent' \in 0 .. Len(given')
  BY <1>1, GivenOK DEF IInv, TypeOK, Stages
<1>4. prefix' \in Contexts
  BY <1>1, PushOK DEF IInv, TypeOK
<1>5. TypeOK'
  BY <1>1, <1>3, <1>4 DEF IInv, TypeOK
<1> QED BY <1>1, <1>2, <1>5 DEF IInv, NothingThrown, Stages, Filling, Interval, Settled

LEMMA StepFinish == IInv /\ Finish => IInv'
<1> SUFFICES ASSUME IInv, Finish PROVE IInv'
  OBVIOUS
<1> DEFINE marked == written \o EndMark
           rest   == (-Len(marked)) % ByteBits
           pad    == [n \in 1 .. rest |-> 0]
<1>1. /\ side = "encode" /\ stage = "call" /\ written' = marked \o pad /\ side' = "open"
      /\ UNCHANGED <<given, model, stage, low, high, symbol, prefix, sent, pending,
                     code, taken, got>>
  BY DEF Finish, decoder
<1>2. written' \in Seq(Bit)
  <2>1. marked \in Seq(Bit)
    BY DEF IInv, TypeOK, EndMark, Bit
  <2>2. Len(marked) \in Nat
    BY <2>1
  <2> HIDE DEF marked
  <2>3. rest \in Nat
    BY <2>2, SizesAssumption
  <2> HIDE DEF rest
  <2>4. pad \in Seq(Bit)
    BY <2>3 DEF Bit
  <2> HIDE DEF pad
  <2> QED BY <1>1, <2>1, <2>4
<1>3. TypeOK'
  BY <1>1, <1>2 DEF IInv, TypeOK
<1> QED BY <1>1, <1>3 DEF IInv, NothingThrown, Stages, Filling, Interval

LEMMA StepOpen == IInv /\ Open => IInv'
<1> SUFFICES ASSUME IInv, Open PROVE IInv'
  OBVIOUS
<1>1. /\ side = "open" /\ side' = "fill" /\ stage = "call" /\ stage' = "call"
      /\ low' = 0 /\ high' = Full - 1 /\ code' = 0 /\ taken' = 0 /\ prefix' = ZeroPad
      /\ UNCHANGED <<given, model, symbol, got, sent, pending, written>>
  BY DEF Open, encoder, IInv, Stages
<1>2. /\ low' \in 0 .. Full - 1 /\ high' \in 0 .. Full - 1 /\ low' <= high'
      /\ code' \in 0 .. Full - 1 /\ taken' \in Nat
  BY <1>1, Sizes
<1>3. TypeOK'
  BY <1>1, <1>2, ZeroPadOK DEF IInv, TypeOK
<1>4. Filling'
  <2>1. taken' < StateBits /\ StateBits - taken' = StateBits
    BY <1>1, PowerAssumption
  <2>2. (code' + 1) * Power[StateBits - taken'] = Full
    BY <1>1, <2>1, Sizes DEF Full
  <2>3. (code' + 1) * Power[StateBits - taken'] <= Full
    BY <2>2, Sizes
  <2> QED BY <1>1, <2>1, <2>3 DEF Filling
<1> QED BY <1>1, <1>2, <1>3, <1>4 DEF IInv, NothingThrown, Stages, Interval

LEMMA StepFill == IInv /\ Fill => IInv'
<1> SUFFICES ASSUME IInv, Fill PROVE IInv'
  OBVIOUS
<1> DEFINE b == NextBit
           k == StateBits - taken
<1>1. /\ side = "fill" /\ stage = "call"
      /\ code' = 2 * code + b /\ taken' = taken + 1
      /\ side' = IF taken' = StateBits THEN "decode" ELSE side
      /\ UNCHANGED <<given, model, stage, low, high, symbol, prefix, got, sent, pending, written>>
  BY DEF Fill, encoder, IInv, Stages
<1>2. /\ low = 0 /\ high = Full - 1 /\ taken \in Nat /\ taken < StateBits
      /\ code \in Nat /\ (code + 1) * Power[k] <= Full
  BY <1>1, Sizes DEF IInv, Filling, TypeOK
<1>3. b \in Bit
  BY NextBitOK DEF IInv, TypeOK
<1> HIDE DEF b
<1>4. /\ k \in 1 .. StateBits /\ k - 1 \in 0 .. StateBits /\ StateBits - taken' = k - 1
      /\ Power[k] = 2 * Power[k - 1] /\ Power[k - 1] \in Nat \ {0}
  <2>1. k \in 1 .. StateBits /\ k - 1 \in 0 .. StateBits /\ StateBits - taken' = k - 1
    BY <1>1, <1>2, PowerAssumption
  <2> HIDE DEF k
  <2>2. \A n \in 0 .. StateBits : Power[n] \in Nat \ {0}
    BY PowerAssumption
  <2>3. Power[k] = 2 * Power[k - 1]
    BY <2>1, PowerAssumption
  <2>4. Power[k - 1] \in Nat \ {0}
    BY <2>1, <2>2
  <2> QED BY <2>1, <2>3, <2>4
<1>5. code' + 1 \in Nat /\ (code' + 1) * Power[k - 1] <= Full /\ code' + 1 <= Full
  <2> DEFINE p == Power[k - 1]
             c == code' + 1
  <2>1. p \in Nat /\ p >= 1
    BY <1>4
  <2>2. c \in Nat /\ c <= 2 * (code + 1)
    BY <1>1, <1>2, <1>3 DEF Bit
  <2>3. (code + 1) * (2 * p) <= Full
    BY <1>2, <1>4
  <2> HIDE DEF p, c
  <2>4. (code + 1) * (2 * p) = (2 * (code + 1)) * p
    BY <1>2, <2>1
  <2>5. c * p <= (2 * (code + 1)) * p /\ c * p \in Nat
    BY <1>2, <2>1, <2>2
  <2>6. c * p >= c
    BY <2>1, <2>2
  <2>7. (2 * (code + 1)) * p \in Nat
    BY <1>2, <2>1
  <2>8. c * p <= Full /\ c <= Full
    BY <2>2, <2>3, <2>4, <2>5, <2>6, <2>7, Sizes
  <2> QED BY <2>2, <2>8 DEF c, p
<1>6. code' \in 0 .. Full - 1 /\ taken' \in Nat
  BY <1>1, <1>2, <1>3, <1>5, Sizes DEF Bit
<1>7. TypeOK'
  BY <1>1, <1>6 DEF IInv, TypeOK
<1>8. Filling'
  <2>1. taken' # StateBits => taken' < StateBits
    BY <1>1, <1>2, PowerAssumption
  <2> QED BY <1>1, <1>2, <1>4, <1>5, <2>1 DEF Filling
<1>9. Stages'
  <2>1. low < Half /\ Half <= high /\ low < Quarter /\ low <= code' /\ code' <= high
    BY <1>2, <1>6, Sizes
  <2> QED BY <1>1, <2>1 DEF IInv, Stages, Settled, Interval
<1> QED BY <1>1, <1>7, <1>8, <1>9 DEF IInv, NothingThrown

LEMMA StepRead == IInv /\ Read => IInv'
<1> SUFFICES ASSUME IInv, Read PROVE IInv'
  OBVIOUS
<1>1. /\ side = "decode" /\ stage = "call"
      /\ UNCHANGED <<given, model, prefix, code, taken, got, sent, pending, written>>
  BY DEF Read, encoder, decoder
<1>2. /\ Settled /\ model \in Predictors /\ prefix \in Contexts
      /\ code \in 0 .. Full - 1 /\ low <= code /\ code <= high
  BY <1>1 DEF IInv, Stages, TypeOK
<1>3. /\ Scale(Value) <= Offset /\ Value < Total /\ Found \in Bit
      /\ Scale(Low(Found)) <= Offset /\ Offset < Scale(High(Found))
      /\ Offset = code - low
  BY <1>2, FoundOK
<1>4. Narrow(Found)
  BY <1>1, <1>3 DEF Read
<1>5. /\ low' = low + Scale(Low(Found)) /\ high' = low + Scale(High(Found)) - 1
      /\ low' \in 0 .. Full - 1 /\ high' \in 0 .. Full - 1 /\ low' <= high'
      /\ symbol' = Found /\ stage' = "shift" /\ side' = side
  BY <1>2, <1>3, <1>4, NarrowOK
<1>6. low' <= code' /\ code' <= high'
  <2>1. /\ low \in Nat /\ code \in Nat
        /\ Scale(Low(Found)) \in Nat /\ Scale(High(Found)) \in Nat
    <3>1. Low(Found) \in 0 .. Total /\ High(Found) \in 0 .. Total
      BY <1>2, <1>3, FreqOK
    <3> QED BY <1>2, <3>1, ScaleExact, Sizes DEF Settled, Interval
  <2> DEFINE x == Scale(Low(Found))
             y == Scale(High(Found))
  <2>2. x <= code - low /\ code - low < y /\ low' = low + x /\ high' = low + y - 1
        /\ code' = code /\ x \in Nat /\ y \in Nat
    BY <1>1, <1>3, <1>5, <2>1
  <2> HIDE DEF x, y
  <2> QED BY <2>1, <2>2
<1>7. TypeOK'
  BY <1>1, <1>3, <1>5 DEF IInv, TypeOK
<1> QED BY <1>1, <1>5, <1>6, <1>7 DEF IInv, NothingThrown, Stages, Filling, Interval

LEMMA StepShiftIn == IInv /\ ShiftIn => IInv'
<1> SUFFICES ASSUME IInv, ShiftIn PROVE IInv'
  OBVIOUS
<1> DEFINE b == NextBit
<1>1. /\ side = "decode" /\ stage = "shift" /\ SameTop /\ ShiftEnds
      /\ stage' = stage /\ side' = side
      /\ code' = Shifted(code) + b /\ taken' = taken + 1
      /\ UNCHANGED <<given, model, symbol, prefix, got, sent, pending, written>>
  BY DEF ShiftIn, Shifting, ShiftEnds, encoder
<1>2. b \in Bit
  BY NextBitOK DEF IInv, TypeOK
<1> HIDE DEF b
<1>3. Interval /\ code \in 0 .. Full - 1 /\ low <= code /\ code <= high
  BY <1>1 DEF IInv, Stages, TypeOK
<1>4. /\ low' \in 0 .. Full - 1 /\ high' \in 0 .. Full - 1 /\ low' <= high'
      /\ code' \in 0 .. Full - 1 /\ low' <= code' /\ code' <= high'
  BY <1>1, <1>2, <1>3, ShiftEndsOK
<1>5. TypeOK'
  BY <1>1, <1>4 DEF IInv, TypeOK
<1> QED BY <1>1, <1>4, <1>5 DEF IInv, NothingThrown, Stages, Filling, Interval

LEMMA StepDeleteIn == IInv /\ DeleteIn => IInv'
<1> SUFFICES ASSUME IInv, DeleteIn PROVE IInv'
  OBVIOUS
<1> DEFINE b == NextBit
<1>1. /\ side = "decode" /\ Apart /\ Middle /\ DeleteSecond
      /\ stage' = "underflow" /\ side' = side
      /\ code' = Deleted(code) + b /\ taken' = taken + 1
      /\ UNCHANGED <<given, model, symbol, prefix, got, sent, pending, written>>
  BY DEF DeleteIn, Deleting, DeleteSecond, encoder
<1>2. b \in Bit
  BY NextBitOK DEF IInv, TypeOK
<1> HIDE DEF b
<1>3. Interval /\ code \in 0 .. Full - 1 /\ low <= code /\ code <= high
  BY <1>1 DEF IInv, Stages, TypeOK
<1>4. low < Half /\ Half <= high
  BY <1>1, <1>3, ApartOK DEF IInv, Stages
<1>5. /\ low' \in 0 .. Full - 1 /\ high' \in 0 .. Full - 1 /\ low' < Half /\ Half <= high'
      /\ code' \in 0 .. Full - 1 /\ low' <= code' /\ code' <= high'
  BY <1>1, <1>2, <1>3, <1>4, DeleteOK
<1>6. low' <= high'
  BY <1>5, Sizes
<1>7. TypeOK'
  BY <1>1, <1>5 DEF IInv, TypeOK
<1> QED BY <1>1, <1>5, <1>6, <1>7 DEF IInv, NothingThrown, Stages, Filling, Interval

LEMMA StepReadReturns == IInv /\ ReadReturns => IInv'
<1> SUFFICES ASSUME IInv, ReadReturns PROVE IInv'
  OBVIOUS
<1>1. /\ side = "decode" /\ Returning
      /\ UNCHANGED <<given, model, low, high, symbol, code, taken, sent, pending, written>>
  BY DEF ReadReturns, encoder
<1>2. Settled /\ low <= code /\ code <= high
  BY <1>1, ReturnsSettled DEF IInv, Stages
<1>3. /\ stage' = "call" /\ got' = Append(got, symbol)
      /\ \/ side' = "done" /\ prefix' = prefix
         \/ prefix' = Push(symbol) /\ side' = side
  BY <1>2 DEF ReadReturns
<1>4. prefix' \in Contexts
  BY <1>3, PushOK DEF IInv, TypeOK
<1>5. got' \in Seq(Bit)
  BY <1>3 DEF IInv, TypeOK
<1>6. TypeOK'
  BY <1>1, <1>3, <1>4, <1>5 DEF IInv, TypeOK
<1> QED BY <1>1, <1>2, <1>3, <1>6 DEF IInv, NothingThrown, Stages, Filling, Interval, Settled

LEMMA IInvStep == IInv /\ [Next]_vars => IInv'
<1> SUFFICES ASSUME IInv, [Next]_vars PROVE IInv'
  OBVIOUS
<1>1. ASSUME UNCHANGED vars PROVE IInv'
  BY <1>1 DEF vars, encoder, decoder, IInv, TypeOK, NothingThrown, Stages, Filling,
     Interval, Settled
<1>2. CASE Ended
  BY <1>1, <1>2 DEF Ended
<1>3. CASE Code
  BY <1>3, StepWrite, StepShiftOut, StepOwe, StepWriteReturns, StepFinish, StepOpen,
     StepFill, StepRead, StepShiftIn, StepDeleteIn, StepReadReturns DEF Code
<1> QED BY <1>1, <1>2, <1>3 DEF Next

-----------------------------------------------------------------------------
(* The theorems.                                                            *)

THEOREM Invariant == Spec => []IInv
  BY IInvInit, IInvStep, PTL DEF Spec

(* The ends of the interval and the code stay words of StateBits bits; the  *)
(* masks of update and shift never have to hide anything else.              *)
THEOREM TypeCorrect == Spec => []TypeOK
<1>1. IInv => TypeOK
  BY DEF IInv
<1> QED BY <1>1, Invariant, PTL

(* The invariants that ArithmeticCoder.hpp documents at update are true     *)
(* before and after each symbol, on both sides.                             *)
THEOREM AsDocumented == Spec => []RangesAsDocumented
<1>1. IInv => RangesAsDocumented
  <2> SUFFICES ASSUME IInv, side \in {"encode", "decode"}, stage = "call"
               PROVE  /\ low < Half /\ Half <= high
                      /\ low < Quarter \/ high >= Half + Quarter
                      /\ range >= MinimumRange /\ range <= Full
                      /\ side = "decode" => low <= code /\ code <= high
    BY DEF RangesAsDocumented
  <2>1. Settled /\ (side = "decode" => low <= code /\ code <= high)
    BY DEF IInv, Stages
  <2> QED BY <2>1, SettledIsWide, RangeOf DEF Settled
<1> QED BY <1>1, Invariant, PTL

(* No assertion of update or read fails, on any input, with any predictor   *)
(* and after any number of symbols: every symbol keeps a part of the        *)
(* interval, no product overflows, the symbol found is the one whose part   *)
(* holds the code.                                                          *)
THEOREM NeverThrows == Spec => []NothingThrown
<1>1. IInv => NothingThrown
  BY DEF IInv
<1> QED BY <1>1, Invariant, PTL

-----------------------------------------------------------------------------
(* The numbers that the bits write.                                         *)

Ones(n)  == [k \in 1 .. n |-> 1]
Zeros(n) == [k \in 1 .. n |-> 0]

(* w, then a bit that is decided, with n bits of the other kind behind it *)
Low0(w, n)  == w \o <<0>> \o Ones(n)
High1(w, n) == w \o <<1>> \o Zeros(n)

LEMMA BitsAreNat == \A w \in Seq(Bit) : w \in Seq(Nat)
<1>1. Bit \subseteq Nat
  BY DEF Bit
<1> QED BY <1>1, SeqMonotonic

LEMMA NumberAppend ==
  ASSUME NEW w \in Seq(Nat), NEW b \in Bit
  PROVE  /\ Number(w) \in Nat
         /\ w \o <<b>> = Append(w, b) /\ w \o <<b>> \in Seq(Nat)
         /\ Number(w \o <<b>>) = 2 * Number(w) + b
<1>1. b \in Nat
  BY DEF Bit
<1>2. w \o <<b>> = Append(w, b) /\ Append(w, b) \in Seq(Nat)
  BY <1>1, AppendIsConcat
<1>3. Number(w) \in Nat
  BY NumeralIsNat DEF Number
<1>4. Number(w \o <<b>>) = Number(w) * 2 + b
  <2>1. Numeral(2, Append(w, b)) = Numeral(2, w) * 2 + b
    BY <1>1, NumeralAppend
  <2> QED BY <1>2, <2>1, Zenon DEF Number
<1>5. Number(w) * 2 = 2 * Number(w)
  BY <1>3
<1> QED BY <1>2, <1>3, <1>4, <1>5, Zenon

(* Owing one bit more: either way, one digit more. *)
LEMMA OwesOneMore ==
  ASSUME NEW w \in Seq(Nat), NEW n \in Nat
  PROVE  /\ Low0(w, n) \in Seq(Nat) /\ High1(w, n) \in Seq(Nat)
         /\ Number(Low0(w, n)) \in Nat
         /\ Number(Low0(w, n + 1)) = 2 * Number(Low0(w, n)) + 1
         /\ Number(High1(w, n)) = Number(Low0(w, n)) + 1
<1> DEFINE s == w \o <<0>>
           t == w \o <<1>>
<1>1. s \in Seq(Nat) /\ t \in Seq(Nat) /\ Numeral(2, t) = Numeral(2, s) + 1
  <2>1. 0 \in Bit /\ 1 \in Bit
    BY DEF Bit
  <2>2. Number(w) \in Nat /\ s \in Seq(Nat) /\ t \in Seq(Nat)
    BY <2>1, NumberAppend
  <2>3. Number(s) = 2 * Number(w) + 0 /\ Number(t) = 2 * Number(w) + 1
    BY <2>1, NumberAppend
  <2>4. Number(t) = Number(s) + 1
    BY <2>2, <2>3
  <2> QED BY <2>2, <2>4 DEF Number
<1> HIDE DEF s, t
<1>2. n + 1 \in Nat \ {0} /\ (n + 1) - 1 = n
  OBVIOUS
<1>3. /\ s \o Ones(n) \in Seq(Nat)
      /\ s \o Ones(n + 1) = Append(s \o Ones(n), 1)
  <2>1. /\ s \o [i \in 1 .. (n + 1) - 1 |-> 1] \in Seq(Nat)
        /\ s \o [i \in 1 .. n + 1 |-> 1] = Append(s \o [i \in 1 .. (n + 1) - 1 |-> 1], 1)
    BY <1>1, <1>2, RunGrows
  <2> QED BY <1>2, <2>1 DEF Ones
<1>4. t \o Zeros(n) \in Seq(Nat)
  <2>1. t \o [i \in 1 .. (n + 1) - 1 |-> 0] \in Seq(Nat)
    BY <1>1, <1>2, RunGrows
  <2> QED BY <1>2, <2>1 DEF Zeros
<1>5. Numeral(2, t \o Zeros(n)) = Numeral(2, s \o Ones(n)) + 1
  <2>1. 2 > 0 /\ 2 \in Nat
    OBVIOUS
  <2>2. \A k \in Nat : Numeral(2, t \o [i \in 1 .. k |-> 0])
                         = Numeral(2, s \o [i \in 1 .. k |-> 2 - 1]) + 1
    BY <1>1, <2>1, NumeralRaised
  <2>3. Numeral(2, t \o [i \in 1 .. n |-> 0])
          = Numeral(2, s \o [i \in 1 .. n |-> 2 - 1]) + 1
    BY <2>2
  <2>4. 2 - 1 = 1
    OBVIOUS
  <2> QED BY <2>3, <2>4 DEF Zeros, Ones
<1>6. Low0(w, n) = s \o Ones(n) /\ Low0(w, n + 1) = s \o Ones(n + 1)
      /\ High1(w, n) = t \o Zeros(n)
  BY DEF Low0, High1, s, t
<1>7. 1 \in Bit /\ s \o Ones(n) \o <<1>> = Append(s \o Ones(n), 1)
  <2>1. 1 \in Bit
    BY DEF Bit
  <2> QED BY <1>3, <2>1, NumberAppend
<1>8. Number(s \o Ones(n + 1)) = 2 * Number(s \o Ones(n)) + 1 /\ Number(s \o Ones(n)) \in Nat
  BY <1>3, <1>7, NumberAppend
<1> QED BY <1>3, <1>4, <1>5, <1>6, <1>8 DEF Number

LEMMA OwesNothing ==
  ASSUME NEW w \in Seq(Nat)
  PROVE  Low0(w, 0) = w \o <<0>> /\ High1(w, 0) = w \o <<1>>
<1>1. w \o <<0>> \in Seq(Nat) /\ w \o <<1>> \in Seq(Nat)
  BY NumberAppend DEF Bit
<1> QED BY <1>1, NoRun DEF Low0, High1, Ones, Zeros

(* What is owed, and what is paid, are such runs. *)
LEMMA OwingIs == Owing = Low0(written, pending)
  BY DEF Owing, Low0, Ones

LEMMA PaidIs ==
  /\ written \o <<0>> \o Paid(0) = Low0(written, pending)
  /\ written \o <<1>> \o Paid(1) = High1(written, pending)
<1>1. 1 - 0 = 1 /\ 1 - 1 = 0
  OBVIOUS
<1> QED BY <1>1 DEF Paid, Low0, High1, Ones, Zeros

(* The stream as the decoder sees it, with zeros behind its end. *)
LEMMA StreamGrows ==
  ASSUME written \in Seq(Bit), NEW n \in Nat
  PROVE  /\ Number(Streamed(n)) \in Nat
         /\ (IF n < Len(written) THEN written[n + 1] ELSE 0) \in Bit
         /\ Number(Streamed(n + 1))
              = 2 * Number(Streamed(n)) + (IF n < Len(written) THEN written[n + 1] ELSE 0)
<1> DEFINE f(k) == IF k <= Len(written) THEN written[k] ELSE 0
           b == IF n < Len(written) THEN written[n + 1] ELSE 0
<1>1. Len(written) \in Nat /\ \A k \in Nat \ {0} : f(k) \in Bit
  BY DEF Bit
<1>2. b = f(n + 1) /\ b \in Bit
  <2>1. n < Len(written) <=> n + 1 <= Len(written)
    BY <1>1
  <2> QED BY <1>1, <2>1
<1>3. /\ Streamed(n) = [k \in 1 .. n |-> f(k)]
      /\ Streamed(n + 1) = [k \in 1 .. n + 1 |-> f(k)]
  BY DEF Streamed
<1> HIDE DEF f, b
<1>4. \A k \in Nat \ {0} : f(k) \in Nat
  BY <1>1 DEF Bit
<1>5. Streamed(n) \in Seq(Nat) /\ Len(Streamed(n)) = n
  BY <1>3, <1>4
<1>6. Streamed(n + 1) = Append(Streamed(n), b)
  <2> DEFINE s == Streamed(n + 1)
             t == Append(Streamed(n), b)
  <2>1. s \in Seq(Nat) /\ Len(s) = n + 1 /\ \A k \in 1 .. n + 1 : s[k] = f(k)
    BY <1>3, <1>4
  <2>2. b \in Nat
    BY <1>2 DEF Bit
  <2>3. /\ t \in Seq(Nat) /\ Len(t) = n + 1
        /\ \A k \in 1 .. n : t[k] = f(k)
        /\ t[n + 1] = b
    BY <1>3, <1>5, <2>2
  <2>4. \A k \in 1 .. n + 1 : s[k] = t[k]
    BY <1>2, <2>1, <2>3
  <2> HIDE DEF s, t
  <2> QED BY <2>1, <2>3, <2>4, SeqEqual DEF s, t
<1> QED BY <1>2, <1>5, <1>6, NumberAppend, Zenon DEF b

LEMMA StreamStarts == Number(Streamed(0)) = 0
<1>1. Streamed(0) = <<>>
  BY DEF Streamed
<1> QED BY <1>1, NumeralEmpty DEF Number

LEMMA NextBitIs == NextBit = IF taken < Len(written) THEN written[taken + 1] ELSE 0
  BY DEF NextBit

(* A stream that ends with the end mark, read to where the coder would be:  *)
(* the upper of the two ways to pay what was owed, and the middle behind it.*)
LEMMA MarkedStream ==
  ASSUME NEW w \in Seq(Bit), NEW p \in Nat, NEW m \in Nat, written = High1(w, m)
  PROVE  Number(Streamed(StateBits + Len(w) + p)) = (Number(Low0(w, p)) + 1) * Half
<1> DEFINE a == Len(w)
           q == a + 1 + p
           X(n) == Number(Streamed(n))
           c == Number(Low0(w, p)) + 1
           V(k) == IF k <= a THEN w[k] ELSE IF k = a + 1 THEN 1 ELSE 0
<1>1. a \in Nat /\ q \in Nat /\ w \in Seq(Nat)
  BY BitsAreNat
<1>2. \A n \in Nat : /\ Len(High1(w, n)) = a + 1 + n
                     /\ \A k \in 1 .. a + 1 + n : High1(w, n)[k] = V(k)
  <2> SUFFICES ASSUME NEW n \in Nat
               PROVE  /\ Len(High1(w, n)) = a + 1 + n
                      /\ \A k \in 1 .. a + 1 + n : High1(w, n)[k] = V(k)
    OBVIOUS
  <2> DEFINE t == w \o <<1>>
             z == Zeros(n)
  <2>1. t \in Seq(Nat) /\ Len(t) = a + 1 /\ \A k \in 1 .. a + 1 : t[k] = V(k)
    BY <1>1
  <2>2. z \in Seq(Nat) /\ Len(z) = n /\ \A k \in 1 .. n : z[k] = 0
    BY DEF Zeros
  <2>3. High1(w, n) = t \o z
    BY DEF High1
  <2>4. \A k \in Nat : k > a + 1 => V(k) = 0
    BY <1>1
  <2> HIDE DEF t, z, V, a
  <2>5. Len(t \o z) = Len(t) + Len(z)
    BY <2>1, <2>2, ConcatProperties
  <2>6. \A k \in 1 .. Len(t) + Len(z) :
          (t \o z)[k] = IF k <= Len(t) THEN t[k] ELSE z[k - Len(t)]
    BY <2>1, <2>2, ConcatProperties
  <2>7. ASSUME NEW k \in 1 .. a + 1 + n PROVE (t \o z)[k] = V(k)
    <3>1. CASE k <= a + 1
      <4>1. k \in 1 .. a + 1 /\ k <= Len(t) /\ k \in 1 .. Len(t) + Len(z)
        BY <1>1, <2>1, <2>2, <3>1
      <4>2. (t \o z)[k] = t[k]
        BY <2>6, <4>1
      <4> QED BY <2>1, <4>1, <4>2
    <3>2. CASE k > a + 1
      <4>1. k - Len(t) \in 1 .. n
        BY <1>1, <2>1, <3>2
      <4>2. (t \o z)[k] = z[k - Len(t)]
        BY <1>1, <2>1, <2>2, <2>6, <3>2
      <4>3. V(k) = 0
        BY <1>1, <2>4, <3>2
      <4> QED BY <2>2, <4>1, <4>2, <4>3
    <3>3. k <= a + 1 \/ k > a + 1
      BY <1>1
    <3> QED BY <3>1, <3>2, <3>3, Zenon
  <2> QED BY <2>1, <2>2, <2>3, <2>5, <2>7
<1>3. Len(written) = a + 1 + m /\ \A k \in 1 .. a + 1 + m : written[k] = V(k)
  BY <1>2
<1>4. \A k \in Nat : k > a + 1 => V(k) = 0
  BY <1>1
<1>5. written \in Seq(Bit)
  <2>1. w \o <<1>> \in Seq(Bit) /\ Zeros(m) \in Seq(Bit)
    BY DEF Zeros, Bit
  <2> QED BY <2>1 DEF High1
<1>6. Streamed(q) = High1(w, p)
  <2> DEFINE s == Streamed(q)
             t == High1(w, p)
  <2>1. t \in Seq(Nat) /\ Len(t) = q
    BY <1>1, <1>2, OwesOneMore
  <2>2. /\ Len(s) = q
        /\ \A k \in 1 .. q : s[k] = IF k <= Len(written) THEN written[k] ELSE 0
    BY <1>1 DEF Streamed
  <2>3. \A k \in 1 .. q : s[k] = t[k]
    <3>1. \A k \in 1 .. q : t[k] = V(k)
      BY <1>2
    <3> HIDE DEF s, t, V, a
    <3> SUFFICES ASSUME NEW k \in 1 .. q PROVE s[k] = V(k)
      BY <3>1
    <3>2. s[k] = IF k <= a + 1 + m THEN V(k) ELSE 0
      <4>1. k <= a + 1 + m => k \in 1 .. a + 1 + m
        BY <1>1
      <4> QED BY <1>3, <2>2, <4>1
    <3>3. ~(k <= a + 1 + m) => V(k) = 0
      BY <1>1, <1>4
    <3> QED BY <3>2, <3>3
  <2>4. s \in Seq(Nat)
    <3>1. \A k \in 1 .. q : t[k] \in Nat
      BY <2>1
    <3>2. s = [k \in 1 .. q |-> IF k <= Len(written) THEN written[k] ELSE 0]
      BY DEF Streamed
    <3>3. \A k \in 1 .. q : s[k] \in Nat
      BY <2>3, <3>1
    <3> QED BY <1>1, <2>2, <3>2, <3>3
  <2> HIDE DEF s, t
  <2> QED BY <2>1, <2>2, <2>3, <2>4, SeqEqual DEF s, t
<1>7. c \in Nat /\ X(q) = c
  <2>1. Number(Low0(w, p)) \in Nat /\ Number(High1(w, p)) = Number(Low0(w, p)) + 1
    BY <1>1, OwesOneMore
  <2>2. Number(Streamed(q)) = Number(High1(w, p))
    BY <1>6, Zenon
  <2> QED BY <2>1, <2>2
<1>8. \A n \in Nat : n >= q => X(n + 1) = 2 * X(n) /\ X(n) \in Nat
  <2> SUFFICES ASSUME NEW n \in Nat, n >= q PROVE X(n + 1) = 2 * X(n) /\ X(n) \in Nat
    OBVIOUS
  <2>1. n < Len(written) => written[n + 1] = 0
    <3> SUFFICES ASSUME n < Len(written) PROVE written[n + 1] = 0
      OBVIOUS
    <3> HIDE DEF a, V
    <3>1. n + 1 \in 1 .. a + 1 + m /\ n + 1 > a + 1
      BY <1>1, <1>3
    <3>2. V(n + 1) = 0
      BY <1>4, <3>1
    <3> QED BY <1>3, <3>1, <3>2
  <2>2. X(n + 1) = 2 * X(n) + 0 /\ X(n) \in Nat
    <3>1. (IF n < Len(written) THEN written[n + 1] ELSE 0) = 0
      BY <2>1
    <3> QED BY <1>5, <3>1, StreamGrows
  <2> HIDE DEF X
  <2> QED BY <2>2
<1> HIDE DEF q, c, X, V
<1>9. \A j \in 0 .. StateBits : X(q + j) = c * Power[j]
  <2> DEFINE T == {j \in 0 .. StateBits : X(q + j) # c * Power[j]}
  <2>1. T = {}
    <3> SUFFICES ASSUME T # {} PROVE FALSE
      OBVIOUS
    <3>1. T \subseteq Nat
      BY PowerAssumption
    <3> HIDE DEF T
    <3>2. PICK j \in T : \A l \in T : j <= l
      BY <3>1, Least
    <3>3. j \in 0 .. StateBits /\ X(q + j) # c * Power[j] /\ StateBits \in Nat
      BY <3>2, PowerAssumption DEF T
    <3>4. j # 0
      <4>1. q + 0 = q /\ c * 1 = c
        BY <1>1, <1>7
      <4> QED BY <1>7, <3>3, <4>1, PowerAssumption
    <3>5. j \in 1 .. StateBits /\ j - 1 \in 0 .. StateBits /\ ~(j - 1 >= j)
      BY <3>3, <3>4
    <3>6. X(q + (j - 1)) = c * Power[j - 1]
      BY <3>2, <3>5 DEF T
    <3>7. Power[j] = 2 * Power[j - 1] /\ Power[j - 1] \in Nat
      BY <3>5, PowerAssumption
    <3>8. X((q + (j - 1)) + 1) = 2 * X(q + (j - 1))
      <4>1. q + (j - 1) \in Nat /\ q + (j - 1) >= q
        BY <1>1, <3>5
      <4> QED BY <1>8, <4>1
    <3>9. (q + (j - 1)) + 1 = q + j
      BY <1>1, <3>5
    <3>10. c * (2 * Power[j - 1]) = 2 * (c * Power[j - 1])
      BY <1>7, <3>7
    <3> QED BY <3>3, <3>6, <3>7, <3>8, <3>9, <3>10
  <2> QED BY <2>1
<1>10. StateBits - 1 \in 0 .. StateBits /\ q + (StateBits - 1) = StateBits + Len(w) + p
  BY <1>1, PowerAssumption DEF q
<1>11. X(StateBits + Len(w) + p) = c * Half
  BY <1>9, <1>10 DEF Half
<1> QED BY <1>11 DEF X, c

-----------------------------------------------------------------------------
(* The trail: every entry follows from the one before by a step of the      *)
(* coder, whoever takes it.                                                 *)

Entries ==
  [low : 0 .. Full - 1, high : 0 .. Full - 1, stage : {"call", "shift", "underflow"},
   prefix : Contexts, sent : Nat, rounds : Nat, exact : Nat]

Share(r) == (Set(model[r.prefix]) * (r.high - r.low + 1)) \div Total

(* A symbol is narrowed to. *)
Narrows(r, t) ==
  /\ r.stage = "call" /\ t.stage = "shift" /\ r.sent < Len(given)
  /\ t.low = r.low + (IF given[r.sent + 1] = 0 THEN 0 ELSE Share(r))
  /\ t.high = IF given[r.sent + 1] = 0 THEN r.low + Share(r) - 1 ELSE r.high
  /\ r.low <= t.low /\ t.high <= r.high
  /\ t.exact = r.exact + (t.low - r.low)
  /\ t.prefix = r.prefix /\ t.sent = r.sent /\ t.rounds = r.rounds

(* A round of a loop doubles the interval, less what is shifted out or      *)
(* deleted.                                                                 *)
Dropped(r, d) ==
  \/ r.stage = "shift" /\ r.high < Half /\ d = 0
  \/ r.stage = "shift" /\ Half <= r.low /\ d = Full
  \/ Quarter <= r.low /\ r.low < Half /\ Half <= r.high /\ r.high < Half + Quarter /\ d = Half

Doubles(r, t, d) ==
  /\ r.stage # "call" /\ Dropped(r, d)
  /\ t.stage = IF d = Half THEN "underflow" ELSE "shift"
  /\ t.low = 2 * r.low - d /\ t.high = (2 * r.high + 1) - d
  /\ t.exact = 2 * r.exact /\ t.rounds = r.rounds + 1
  /\ t.prefix = r.prefix /\ t.sent = r.sent

(* The call returns. *)
Returns(r, t) ==
  /\ r.stage # "call" /\ t.stage = "call" /\ r.sent < Len(given)
  /\ r.low < Half /\ Half <= r.high /\ (r.low < Quarter \/ Half + Quarter <= r.high)
  /\ t.low = r.low /\ t.high = r.high /\ t.exact = r.exact /\ t.rounds = r.rounds
  /\ t.sent = r.sent + 1
  /\ t.prefix = Tail(Append(r.prefix, given[r.sent + 1]))

Follows(r, t) ==
  Narrows(r, t) \/ (\E d \in {0, Half, Full} : Doubles(r, t, d)) \/ Returns(r, t)

First ==
  [low |-> 0, high |-> Full - 1, stage |-> "call", prefix |-> ZeroPad, sent |-> 0,
   rounds |-> 0, exact |-> 0]
Last  == trail[Len(trail)]
Index(r) == r.rounds + 2 * r.sent + (IF r.stage = "call" THEN 0 ELSE 1)

TrailOK ==
  /\ trail \in Seq(Entries) /\ Len(trail) >= 1 /\ trail[1] = First
  /\ \A p \in 1 .. Len(trail) : Index(trail[p]) = p - 1
  /\ \A p \in 1 .. Len(trail) - 1 : Follows(trail[p], trail[p + 1])

(* What has been written when the encoder has finished. *)
Marked ==
  \E w \in Seq(Bit), p \in Nat, m \in Nat :
     /\ written = High1(w, m)
     /\ Last.rounds = Len(w) + p /\ Last.exact = Number(Low0(w, p)) * Half + Last.low

Coded ==
  /\ TrailOK
  /\ side = "encode" =>
       /\ UnderflowOwed
       /\ Last = Now
       /\ stage # "call" => symbol = given[sent + 1]
  /\ side \in {"open", "fill", "decode", "done"} =>
       /\ Last.stage = "call" /\ Last.sent = Len(given)
       /\ Last.low < Half /\ Half <= Last.high
       /\ Marked

LEMMA Unmoved ==
  given' = given /\ model' = model => \A r, t : Follows(r, t)' = Follows(r, t)
  BY DEF Follows, Narrows, Doubles, Returns, Dropped, Share

LEMMA IndexGrows ==
  ASSUME NEW r \in Entries, NEW t \in Entries, Follows(r, t)
  PROVE  Index(t) = Index(r) + 1
<1>1. r.rounds \in Nat /\ r.sent \in Nat /\ t.rounds \in Nat /\ t.sent \in Nat
  BY DEF Entries
<1>2. CASE Narrows(r, t)
  BY <1>1, <1>2 DEF Narrows, Index
<1>3. ASSUME NEW d \in {0, Half, Full}, Doubles(r, t, d) PROVE Index(t) = Index(r) + 1
  BY <1>1, <1>3 DEF Doubles, Index
<1>4. CASE Returns(r, t)
  BY <1>1, <1>4 DEF Returns, Index
<1> QED BY <1>2, <1>3, <1>4 DEF Follows

LEMMA TrailGrows ==
  ASSUME TrailOK, given' = given, model' = model, NEW e \in Entries, Follows(Last, e),
         trail' = Append(trail, e)
  PROVE  TrailOK' /\ Last' = e
<1> DEFINE n == Len(trail)
<1>1. n \in Nat /\ n >= 1 /\ trail \in Seq(Entries) /\ Last \in Entries
  BY DEF TrailOK, Last
<1>2. Index(Last) = n - 1
  BY <1>1 DEF TrailOK, Last
<1>3. Index(e) = n
  <2>1. Index(e) = Index(Last) + 1
    BY <1>1, IndexGrows
  <2> QED BY <1>1, <1>2, <2>1
<1> HIDE DEF n
<1>4. /\ trail' \in Seq(Entries) /\ Len(trail') = n + 1
      /\ \A p \in 1 .. n : trail'[p] = trail[p]
      /\ trail'[n + 1] = e
  BY <1>1 DEF n
<1>5. \A p \in 1 .. n + 1 : Index(trail'[p]) = p - 1
  <2> SUFFICES ASSUME NEW p \in 1 .. n + 1 PROVE Index(trail'[p]) = p - 1
    OBVIOUS
  <2>1. CASE p \in 1 .. n
    <3>1. Index(trail[p]) = p - 1
      BY <2>1, Zenon DEF TrailOK, n
    <3> QED BY <1>4, <2>1, <3>1
  <2>2. CASE p = n + 1
    BY <1>1, <1>3, <1>4, <2>2
  <2>3. p \in 1 .. n \/ p = n + 1
    BY <1>1
  <2> QED BY <2>1, <2>2, <2>3, Zenon
<1>6. \A p \in 1 .. n : Follows(trail'[p], trail'[p + 1])
  <2> SUFFICES ASSUME NEW p \in 1 .. n PROVE Follows(trail'[p], trail'[p + 1])
    OBVIOUS
  <2>1. CASE p \in 1 .. n - 1
    <3>1. p + 1 \in 1 .. n /\ p \in 1 .. n
      BY <1>1, <2>1
    <3>2. Follows(trail[p], trail[p + 1])
      BY <2>1, Zenon DEF TrailOK, n
    <3>3. trail'[p] = trail[p] /\ trail'[p + 1] = trail[p + 1]
      BY <1>4, <3>1
    <3> QED BY <3>2, <3>3, Zenon
  <2>2. CASE p = n
    <3>1. trail'[p] = Last /\ trail'[p + 1] = e
      BY <1>1, <1>4, <2>2 DEF Last, n
    <3> QED BY <3>1, Zenon
  <2>3. p \in 1 .. n - 1 \/ p = n
    BY <1>1
  <2> QED BY <2>1, <2>2, <2>3, Zenon
<1>7. trail'[1] = First
  BY <1>1, <1>4 DEF TrailOK
<1>8. Len(trail') - 1 = n /\ Len(trail') >= 1 /\ Len(trail') = n + 1
  BY <1>1, <1>4
<1>9. Last' = e
  BY <1>4 DEF Last
<1> QED BY <1>4, <1>5, <1>6, <1>7, <1>8, <1>9, Unmoved DEF TrailOK

(* The pieces of update as steps of the trail.                              *)
LEMMA NarrowIs ==
  ASSUME Settled, model \in Predictors, prefix \in Contexts, NEW s \in Bit, Narrow(s),
         NEW r, r.low = low, r.high = high, r.prefix = prefix
  PROVE  /\ low' = r.low + (IF s = 0 THEN 0 ELSE Share(r))
         /\ high' = IF s = 0 THEN r.low + Share(r) - 1 ELSE r.high
         /\ r.low <= low' /\ high' <= r.high
<1>1. /\ low \in Nat /\ high \in Nat /\ Interval /\ range = high - low + 1
      /\ range \in Nat /\ 0 \in 0 .. Total /\ Total \in 0 .. Total
  BY RangeOf, Sizes DEF Settled, Interval, range
<1>2. Freq \in 1 .. Total - 1 /\ Freq \in 0 .. Total
  BY FreqOK, Sizes
<1>3. low' = low + Scale(Low(s)) /\ high' = low + Scale(High(s)) - 1
  BY NarrowOK
<1>4. Scale(Freq) = Share(r) /\ Scale(Freq) \in Nat
  <2>1. Scale(Freq) = (Freq * range) \div Total /\ Scale(Freq) \in Nat
    BY <1>1, <1>2, ScaleExact
  <2> QED BY <1>1, <2>1 DEF Share, Freq
<1>5. Scale(0) = 0 /\ Scale(Total) = range /\ Scale(Freq) <= range
  <2>1. Scale(Freq) <= Scale(Total)
    BY <1>1, <1>2, ScaleApart
  <2> QED BY <1>1, <2>1, ScaleEnds
<1> DEFINE share == Share(r)
<1> HIDE DEF share
<1>6. CASE s = 0
  <2>1. Low(s) = 0 /\ High(s) = Freq
    BY <1>6 DEF Low, High
  <2>2. low' = low + 0 /\ high' = low + share - 1 /\ share \in Nat /\ share <= range
    BY <1>3, <1>4, <1>5, <2>1 DEF share
  <2> QED BY <1>1, <1>6, <2>2 DEF share
<1>7. CASE s = 1
  <2>1. Low(s) = Freq /\ High(s) = Total
    BY <1>7 DEF Low, High
  <2>2. low' = low + share /\ high' = low + range - 1 /\ share \in Nat
    BY <1>3, <1>4, <1>5, <2>1 DEF share
  <2> QED BY <1>1, <1>7, <2>2 DEF share
<1> QED BY <1>6, <1>7 DEF Bit

LEMMA ShiftIs ==
  ASSUME Interval, SameTop, ShiftEnds
  PROVE  \/ /\ high < Half /\ TopBit(low) = 0
            /\ low' = 2 * low /\ high' = 2 * high + 1
            /\ \A c \in low .. high : Shifted(c) = 2 * c
         \/ /\ Half <= low /\ TopBit(low) = 1
            /\ low' = 2 * low - Full /\ high' = (2 * high + 1) - Full
            /\ \A c \in low .. high : Shifted(c) = 2 * c - Full
<1>1. low \in 0 .. Full - 1 /\ high \in 0 .. Full - 1 /\ low <= high
  BY DEF Interval
<1>2. low' = Shifted(low) /\ high' = Shifted(high) + 1
  BY DEF ShiftEnds
<1>3. \A x \in 0 .. Full - 1 :
        /\ x < Half => TopBit(x) = 0 /\ Shifted(x) = 2 * x
        /\ x >= Half => TopBit(x) = 1 /\ Shifted(x) = 2 * x - Full
  BY TopBits
<1>4. (low < Half /\ high < Half) \/ (low >= Half /\ high >= Half)
  BY <1>1, <1>3, Sizes DEF SameTop
<1>5. \A c \in low .. high : c \in 0 .. Full - 1
  BY <1>1, Sizes
<1>6. CASE low < Half /\ high < Half
  <2>1. \A c \in low .. high : c < Half
    BY <1>1, <1>6, Sizes
  <2> QED BY <1>1, <1>2, <1>3, <1>5, <1>6, <2>1, Sizes
<1>7. CASE low >= Half /\ high >= Half
  <2>1. \A c \in low .. high : c >= Half
    BY <1>1, <1>7, Sizes
  <2> QED BY <1>1, <1>2, <1>3, <1>5, <1>7, <2>1, Sizes
<1> QED BY <1>4, <1>6, <1>7

LEMMA DeleteIs ==
  ASSUME Interval, low < Half, Half <= high, Middle, DeleteSecond
  PROVE  /\ Quarter <= low /\ high < Half + Quarter /\ stage' = "underflow"
         /\ low' = 2 * low - Half /\ high' = (2 * high + 1) - Half
         /\ \A c \in low .. high : Deleted(c) = 2 * c - Half
<1>1. Quarter <= low /\ high < Half + Quarter
  BY MiddleOK, Sizes DEF Interval
<1>2. /\ stage' = "underflow"
      /\ low' = 2 * low - Half /\ high' = 2 * (high - Half) + Half + 1
  BY DEF DeleteSecond
<1>3. high' = (2 * high + 1) - Half
  BY <1>2, Sizes DEF Interval
<1> QED BY <1>1, <1>2, <1>3, DeleteOK

-----------------------------------------------------------------------------
(* What is written and owed is the low end, and the trail grows as it       *)
(* should.                                                                  *)

LEMMA NowIs ==
  /\ Now.low = low /\ Now.high = high /\ Now.stage = stage /\ Now.prefix = prefix
  /\ Now.sent = sent /\ Now.rounds = Len(written) + pending /\ Now.exact = exact
  /\ Now'.low = low' /\ Now'.high = high' /\ Now'.stage = stage' /\ Now'.prefix = prefix'
  /\ Now'.sent = sent' /\ Now'.rounds = Len(written') + pending' /\ Now'.exact = exact'
  BY DEF Now

LEMMA EncoderStep ==
  ASSUME IInv, Coded, IInv', side = "encode", given' = given, model' = model, Logged,
         exact' \in Nat, Follows(Now, Now')
  PROVE  TrailOK' /\ Last' = Now'
<1>1. TrailOK /\ Last = Now
  BY DEF Coded
<1>2. TypeOK'
  BY DEF IInv
<1>3. sent' \in Nat /\ pending' \in Nat /\ Len(written') \in Nat
  <2>1. Len(given') \in Nat
    <3>1. given \in Inputs
      BY DEF IInv, TypeOK
    <3> QED BY <3>1, GivenOK
  <2> QED BY <1>2, <2>1, SizesAssumption DEF TypeOK
<1>4. Now' \in Entries
  <2>1. /\ low' \in 0 .. Full - 1 /\ high' \in 0 .. Full - 1
        /\ stage' \in {"call", "shift", "underflow"} /\ prefix' \in Contexts
    BY <1>2 DEF TypeOK
  <2>2. Len(written') + pending' \in Nat
    BY <1>3
  <2> QED BY <1>3, <2>1, <2>2 DEF Now, Entries
<1> HIDE DEF Now
<1> QED BY <1>1, <1>4, TrailGrows DEF Logged

(* The low end is a natural number, written in bits. *)
LEMMA OwedIs ==
  ASSUME IInv
  PROVE  /\ written \in Seq(Nat) /\ pending \in Nat /\ low \in Nat /\ high \in Nat
         /\ Number(Low0(written, pending)) \in Nat
         /\ UnderflowOwed /\ side = "encode" =>
              exact = Number(Low0(written, pending)) * Half + low /\ exact \in Nat
<1>1. written \in Seq(Nat) /\ pending \in Nat /\ low \in Nat /\ high \in Nat
  BY BitsAreNat, SizesAssumption, Sizes DEF IInv, TypeOK
<1>2. Number(Low0(written, pending)) \in Nat
  BY <1>1, OwesOneMore
<1> DEFINE a == Number(Low0(written, pending))
<1>3. UnderflowOwed /\ side = "encode" => exact = a * Half + low
  BY OwingIs DEF UnderflowOwed
<1>4. a * Half + low \in Nat
  <2>1. a \in Nat
    BY <1>2
  <2> HIDE DEF a
  <2>2. a * Half \in Nat
    BY <2>1, Sizes
  <2> QED BY <1>1, <2>2
<1> QED BY <1>1, <1>2, <1>3, <1>4

LEMMA CodedWrite == IInv /\ Coded /\ Write => Coded'
<1> SUFFICES ASSUME IInv, Coded, Write PROVE Coded'
  OBVIOUS
<1> DEFINE s == given[sent + 1]
<1>1. /\ side = "encode" /\ stage = "call" /\ sent < Len(given) /\ Narrow(s) /\ Logged
      /\ exact' = exact + (low' - low)
      /\ UNCHANGED <<given, model, prefix, sent, pending, written>>
  BY DEF Write
<1>2. IInv'
  BY StepWrite
<1>3. Settled /\ model \in Predictors /\ prefix \in Contexts /\ s \in Bit
  BY <1>1, GivenOK DEF IInv, Stages, TypeOK
<1> HIDE DEF s
<1>4. symbol' = s /\ stage' = "shift" /\ side' = "encode" /\ low' \in Nat
  BY <1>1, <1>3, NarrowOK, Sizes
<1>5. /\ low' = low + (IF s = 0 THEN 0 ELSE Share(Now))
      /\ high' = IF s = 0 THEN low + Share(Now) - 1 ELSE high
      /\ low <= low' /\ high' <= high
  BY <1>1, <1>3, NarrowIs, NowIs
<1>6. Follows(Now, Now')
  <2>1. Narrows(Now, Now')
    BY <1>1, <1>4, <1>5, NowIs DEF Narrows, s
  <2> QED BY <2>1 DEF Follows
<1>7. exact' \in Nat /\ UnderflowOwed'
  <2> DEFINE a == Number(Low0(written, pending)) * Half
  <2>1. exact = a + low /\ low \in Nat /\ exact \in Nat
    BY <1>1, OwedIs DEF Coded
  <2>2. a \in Nat
    BY OwedIs, Sizes
  <2> HIDE DEF a
  <2>3. exact' = a + low' /\ exact' \in Nat
    BY <1>1, <1>4, <1>5, <2>1, <2>2
  <2>4. Owing' = Owing
    BY <1>1 DEF Owing
  <2> QED BY <2>3, <2>4, OwingIs DEF UnderflowOwed, a
<1>8. TrailOK' /\ Last' = Now'
  BY <1>1, <1>2, <1>6, <1>7, EncoderStep
<1> QED BY <1>1, <1>4, <1>7, <1>8 DEF Coded, s

LEMMA CodedShiftOut == IInv /\ Coded /\ ShiftOut => Coded'
<1> SUFFICES ASSUME IInv, Coded, ShiftOut PROVE Coded'
  OBVIOUS
<1> DEFINE bit == TopBit(low)
           a == Number(Low0(written, pending))
<1>1. /\ side = "encode" /\ stage = "shift" /\ SameTop /\ ShiftEnds /\ Logged
      /\ stage' = stage /\ side' = side /\ exact' = 2 * exact
      /\ written' = written \o <<bit>> \o Paid(bit) /\ pending' = 0
      /\ UNCHANGED <<given, model, symbol, prefix, sent>>
  BY DEF ShiftOut, Shifting, ShiftEnds
<1>2. IInv' /\ Interval
  BY StepShiftOut DEF IInv, Stages
<1>3. /\ exact = a * Half + low /\ exact \in Nat /\ a \in Nat /\ low \in Nat /\ high \in Nat
      /\ written \in Seq(Nat) /\ pending \in Nat
  BY <1>1, OwedIs DEF Coded
<1>4. \/ high < Half /\ bit = 0 /\ low' = 2 * low /\ high' = 2 * high + 1
      \/ Half <= low /\ bit = 1 /\ low' = 2 * low - Full /\ high' = (2 * high + 1) - Full
  BY <1>1, <1>2, ShiftIs
<1>5. written' \in Seq(Nat) /\ Len(written') = Len(written) + 1 + pending /\ Len(written) \in Nat
  <2>1. written \in Seq(Bit) /\ written' \in Seq(Bit) /\ bit \in Bit
    BY <1>2, <1>4 DEF IInv, TypeOK, Bit
  <2>2. written' \in Seq(Nat)
    BY <2>1, BitsAreNat
  <2>3. Paid(bit) \in Seq(Int) /\ Len(Paid(bit)) = pending
    <3>1. 1 - bit \in Int
      BY <2>1 DEF Bit
    <3> HIDE DEF bit
    <3> QED BY <1>3, <3>1 DEF Paid
  <2>4. <<bit>> \in Seq(Int) /\ Len(<<bit>>) = 1
    BY <2>1 DEF Bit
  <2>5. written \in Seq(Int)
    BY <2>1, SeqMonotonic DEF Bit
  <2> HIDE DEF bit
  <2>6. Len(written \o <<bit>>) = Len(written) + 1 /\ written \o <<bit>> \in Seq(Int)
    BY <2>4, <2>5, ConcatProperties
  <2>7. Len(written') = Len(written \o <<bit>>) + Len(Paid(bit))
    BY <1>1, <2>3, <2>6, ConcatProperties
  <2> QED BY <2>1, <2>2, <2>3, <2>6, <2>7
<1>6. Number(written') = a + bit
  <2>1. Number(High1(written, pending)) = a + 1
    BY <1>3, OwesOneMore
  <2>2. CASE bit = 0
    <3>1. written' = Low0(written, pending)
      BY <1>1, <2>2, PaidIs, Zenon
    <3>2. a + 0 = a
      BY <1>3
    <3> QED BY <2>2, <3>1, <3>2, Zenon
  <2>3. CASE bit = 1
    <3>1. written' = High1(written, pending)
      BY <1>1, <2>3, PaidIs, Zenon
    <3> QED BY <2>1, <2>3, <3>1, Zenon
  <2> QED BY <1>4, <2>2, <2>3
<1>7. Number(Low0(written', pending')) = 2 * (a + bit)
  <2>1. 0 \in Bit
    BY DEF Bit
  <2>2. Low0(written', 0) = written' \o <<0>>
    BY <1>5, OwesNothing
  <2>3. Number(written' \o <<0>>) = 2 * Number(written') + 0 /\ Number(written') \in Nat
    BY <1>5, <2>1, NumberAppend
  <2>4. Number(Low0(written', pending')) = Number(written' \o <<0>>)
    BY <1>1, <2>2, Zenon
  <2> HIDE DEF a, bit
  <2> QED BY <1>6, <2>3, <2>4
<1> HIDE DEF a, bit
<1>8. exact' \in Nat /\ exact' = Number(Low0(written', pending')) * Half + low'
  <2>1. (2 * (a + 0)) * Half = 2 * (a * Half) /\ (2 * (a + 1)) * Half = 2 * (a * Half) + Full
        /\ a * Half \in Nat
    BY <1>3, Sizes
  <2> DEFINE h == a * Half
             n == Number(Low0(written', pending')) * Half
  <2>2. n = (2 * (a + bit)) * Half
    BY <1>7, Zenon
  <2>3. exact' = 2 * exact /\ low \in Nat
    BY <1>1, <1>3
  <2> HIDE DEF h, n
  <2>4. CASE bit = 0 /\ low' = 2 * low
    <3>1. n = 2 * h /\ h \in Nat /\ exact = h + low
      BY <1>3, <2>1, <2>4, <2>2 DEF h
    <3>2. exact' = n + low' /\ exact' \in Nat
      BY <2>4, <2>3, <3>1
    <3> QED BY <3>2 DEF n
  <2>5. CASE bit = 1 /\ low' = 2 * low - Full
    <3>1. n = 2 * h + Full /\ h \in Nat /\ exact = h + low
      BY <1>3, <2>1, <2>5, <2>2 DEF h
    <3>2. exact' = n + low' /\ exact' \in Nat
      BY <2>5, <2>3, <3>1, Sizes
    <3> QED BY <3>2 DEF n
  <2> QED BY <1>4, <2>4, <2>5
<1>9. UnderflowOwed'
  <2>1. Owing' = Low0(written', pending')
    BY DEF Owing, Low0, Ones
  <2> QED BY <1>8, <2>1, Zenon DEF UnderflowOwed
<1>10. Follows(Now, Now')
  <2>1. Half # 0 /\ Half # Full /\ 2 * low - 0 = 2 * low /\ (2 * high + 1) - 0 = 2 * high + 1
    BY <1>3, Sizes
  <2>2. Now'.rounds = Now.rounds + 1
    BY <1>1, <1>3, <1>5, NowIs
  <2>3. CASE high < Half /\ low' = 2 * low /\ high' = 2 * high + 1
    <3>1. Doubles(Now, Now', 0)
      BY <1>1, <2>1, <2>2, <2>3, NowIs DEF Doubles, Dropped
    <3> QED BY <3>1 DEF Follows
  <2>4. CASE Half <= low /\ low' = 2 * low - Full /\ high' = (2 * high + 1) - Full
    <3>1. Doubles(Now, Now', Full)
      BY <1>1, <2>1, <2>2, <2>4, NowIs DEF Doubles, Dropped
    <3> QED BY <3>1 DEF Follows
  <2> QED BY <1>4, <2>3, <2>4
<1>11. TrailOK' /\ Last' = Now'
  BY <1>1, <1>2, <1>8, <1>10, EncoderStep
<1>12. symbol' = given'[sent' + 1]
  BY <1>1 DEF Coded
<1> QED BY <1>1, <1>9, <1>11, <1>12 DEF Coded

LEMMA CodedOwe == IInv /\ Coded /\ Owe => Coded'
<1> SUFFICES ASSUME IInv, Coded, Owe PROVE Coded'
  OBVIOUS
<1> DEFINE a == Number(Low0(written, pending))
<1>1. /\ side = "encode" /\ Apart /\ Middle /\ stage # "call"
      /\ UNCHANGED <<given, model, symbol, prefix, sent, written>>
  BY DEF Owe, Deleting, Apart
<1>2. IInv' /\ Interval /\ low < Half /\ Half <= high
  BY <1>1, StepOwe, ApartOK DEF IInv, Stages
<1>3. CASE pending = MaxUnderflow
  <2>1. side' = "overflow" /\ trail' = trail
    BY <1>3 DEF Owe
  <2>2. TrailOK'
    BY <1>1, <2>1, Unmoved DEF Coded, TrailOK
  <2> QED BY <2>1, <2>2 DEF Coded
<1>4. CASE pending # MaxUnderflow
  <2>1. /\ DeleteSecond /\ pending' = pending + 1 /\ exact' = 2 * exact /\ side' = side
        /\ Logged
    BY <1>4 DEF Owe
  <2>2. /\ exact = a * Half + low /\ exact \in Nat /\ a \in Nat /\ low \in Nat /\ high \in Nat
        /\ written \in Seq(Nat) /\ pending \in Nat /\ Len(written) \in Nat
    BY <1>1, OwedIs DEF Coded
  <2>3. /\ Quarter <= low /\ high < Half + Quarter /\ stage' = "underflow"
        /\ low' = 2 * low - Half /\ high' = (2 * high + 1) - Half
    BY <1>1, <1>2, <2>1, DeleteIs
  <2>4. exact' \in Nat /\ exact' = Number(Low0(written', pending')) * Half + low'
    <3>1. Number(Low0(written', pending')) = 2 * a + 1
      <4>1. Number(Low0(written, pending + 1)) = 2 * a + 1
        BY <2>2, OwesOneMore
      <4> QED BY <1>1, <2>1, <4>1
    <3> HIDE DEF a
    <3> DEFINE h == a * Half
    <3>2. (2 * a + 1) * Half = 2 * h + Half /\ h \in Nat
      BY <2>2, Sizes
    <3> HIDE DEF h
    <3>3. exact = h + low
      BY <2>2 DEF h
    <3> QED BY <2>1, <2>2, <2>3, <3>1, <3>2, <3>3, Sizes
  <2>5. UnderflowOwed'
    <3>1. Owing' = Low0(written', pending')
      BY DEF Owing, Low0, Ones
    <3> QED BY <2>4, <3>1, Zenon DEF UnderflowOwed
  <2>6. Follows(Now, Now')
    <3>1. Now'.rounds = Now.rounds + 1
      BY <1>1, <2>1, <2>2, NowIs
    <3>2. Doubles(Now, Now', Half)
      BY <1>1, <1>2, <2>1, <2>3, <3>1, NowIs DEF Doubles, Dropped
    <3> QED BY <3>2 DEF Follows
  <2>7. TrailOK' /\ Last' = Now'
    BY <1>1, <1>2, <2>1, <2>4, <2>6, EncoderStep
  <2>8. symbol' = given'[sent' + 1]
    BY <1>1 DEF Coded
  <2> QED BY <1>1, <2>1, <2>5, <2>7, <2>8 DEF Coded
<1> QED BY <1>3, <1>4

LEMMA CodedWriteReturns == IInv /\ Coded /\ WriteReturns => Coded'
<1> SUFFICES ASSUME IInv, Coded, WriteReturns PROVE Coded'
  OBVIOUS
<1>1. /\ side = "encode" /\ Returning /\ stage # "call" /\ stage' = "call"
      /\ sent' = sent + 1 /\ prefix' = Push(symbol) /\ Logged
      /\ UNCHANGED <<given, model, side, low, high, symbol, pending, written, exact>>
  BY DEF WriteReturns, Returning, Apart
<1>2. IInv' /\ Settled /\ sent < Len(given)
  BY <1>1, StepWriteReturns, ReturnsSettled DEF IInv, Stages
<1>3. exact \in Nat
  BY <1>1, OwedIs DEF Coded
<1>4. UnderflowOwed'
  BY <1>1 DEF Coded, UnderflowOwed, Owing
<1>5. Follows(Now, Now')
  <2>1. prefix' = Tail(Append(prefix, given[sent + 1]))
    BY <1>1 DEF Push, Coded
  <2>2. low < Half /\ Half <= high /\ (low < Quarter \/ Half + Quarter <= high)
    BY <1>2, Sizes DEF Settled, Interval
  <2>3. Returns(Now, Now')
    BY <1>1, <1>2, <2>1, <2>2, NowIs DEF Returns
  <2> QED BY <2>3 DEF Follows
<1>6. TrailOK' /\ Last' = Now'
  BY <1>1, <1>2, <1>3, <1>5, EncoderStep
<1> QED BY <1>1, <1>4, <1>6 DEF Coded

LEMMA CodedFinish == IInv /\ Coded /\ Finish => Coded'
<1> SUFFICES ASSUME IInv, Coded, Finish PROVE Coded'
  OBVIOUS
<1> DEFINE rest == (-Len(written \o EndMark)) % ByteBits
<1>1. /\ side = "encode" /\ stage = "call" /\ sent = Len(given) /\ side' = "open"
      /\ written' = written \o <<1>> \o Zeros(rest)
      /\ UNCHANGED <<given, model, low, high, trail>>
  BY DEF Finish, EndMark, Zeros
<1>2. rest \in Nat
  <2> DEFINE l == Len(written \o EndMark)
  <2>1. written \o EndMark \in Seq(Bit)
    BY DEF IInv, TypeOK, EndMark, Bit
  <2>2. l \in Nat
    BY <2>1
  <2> HIDE DEF l
  <2> QED BY <2>2, SizesAssumption DEF l
<1> HIDE DEF rest
<1>3. TrailOK /\ Last = Now
  BY <1>1 DEF Coded
<1>4. TrailOK' /\ Last' = Last
  BY <1>1, <1>3, Unmoved DEF TrailOK, Last
<1>5. /\ Last.stage = "call" /\ Last.sent = Len(given)
      /\ Last.low < Half /\ Half <= Last.high
  BY <1>1, <1>3, NowIs DEF IInv, Stages, Settled
<1>6. Marked'
  <2>1. written \in Seq(Bit) /\ pending \in Nat
    BY OwedIs DEF IInv, TypeOK
  <2>2. written' = High1(written, rest)
    BY <1>1 DEF High1
  <2>3. /\ Last.rounds = Len(written) + pending
        /\ Last.exact = Number(Low0(written, pending)) * Half + Last.low
    BY <1>1, <1>3, OwedIs, NowIs DEF Coded
  <2>4. \E w \in Seq(Bit), p \in Nat, m \in Nat :
           /\ written' = High1(w, m)
           /\ Last'.rounds = Len(w) + p /\ Last'.exact = Number(Low0(w, p)) * Half + Last'.low
    BY <1>2, <1>4, <2>1, <2>2, <2>3, Zenon
  <2> QED BY <2>4 DEF Marked
<1>7. Len(given') = Len(given)
  BY <1>1
<1> QED BY <1>1, <1>4, <1>5, <1>6, <1>7 DEF Coded

LEMMA CodedInit == Init => Coded
<1> SUFFICES ASSUME Init PROVE Coded
  OBVIOUS
<1>1. /\ side = "encode" /\ stage = "call" /\ low = 0 /\ high = Full - 1 /\ prefix = ZeroPad
      /\ sent = 0 /\ pending = 0 /\ written = <<>> /\ exact = 0 /\ trail = <<Now>>
  BY DEF Init
<1>2. Now = First
  BY <1>1 DEF Now, First
<1>3. First \in Entries
  BY Sizes, ZeroPadOK DEF First, Entries
<1> DEFINE f == First
<1>4. Index(First) = 0
  BY DEF Index, First
<1> HIDE DEF f
<1>5. trail = <<f>> /\ f \in Entries /\ Index(f) = 0
  BY <1>1, <1>2, <1>3, <1>4 DEF f
<1>6. TrailOK /\ Last = f
  <2>1. trail \in Seq(Entries) /\ Len(trail) = 1 /\ trail[1] = f
    BY <1>5
  <2> QED BY <1>5, <2>1 DEF TrailOK, Last, f
<1>7. UnderflowOwed
  <2>1. <<>> \in Seq(Nat) /\ 0 \in Bit
    BY DEF Bit
  <2>2. Number(Low0(<<>>, 0)) = 2 * Number(<<>>) + 0 /\ Number(<<>>) = 0
    BY <2>1, OwesNothing, NumberAppend, NumeralEmpty DEF Number
  <2>3. Owing = Low0(<<>>, 0)
    BY <1>1, OwingIs
  <2>4. Number(Owing) = 0
    BY <2>2, <2>3
  <2>5. 0 * Half + 0 = 0
    BY Sizes
  <2> QED BY <1>1, <2>4, <2>5 DEF UnderflowOwed
<1> QED BY <1>1, <1>2, <1>6, <1>7 DEF Coded, f

(* The decoder leaves the trail alone. *)
LEMMA CodedRest ==
  ASSUME Coded, UNCHANGED <<given, model, written, trail>>, side # "encode", side' # "encode",
         side' \in {"open", "fill", "decode", "done"} => side \in {"open", "fill", "decode"}
  PROVE  Coded'
<1>1. TrailOK'
  BY Unmoved DEF Coded, TrailOK
<1>2. Last' = Last /\ (Marked => Marked')
  BY DEF Last, Marked
<1> QED BY <1>1, <1>2 DEF Coded

LEMMA CodedStep == IInv /\ Coded /\ [Next]_vars => Coded'
<1> SUFFICES ASSUME IInv, Coded, [Next]_vars PROVE Coded'
  OBVIOUS
<1>1. ASSUME UNCHANGED vars PROVE Coded'
  <2>1. TrailOK'
    BY <1>1, Unmoved DEF vars, encoder, Coded, TrailOK
  <2>2. Last' = Last /\ Now' = Now /\ (Marked => Marked') /\ (UnderflowOwed => UnderflowOwed')
    BY <1>1 DEF vars, encoder, Last, Now, Marked, UnderflowOwed, Owing
  <2> QED BY <1>1, <2>1, <2>2 DEF vars, encoder, Coded
<1>2. CASE Ended
  BY <1>1, <1>2 DEF Ended
<1>3. CASE Write
  BY <1>3, CodedWrite
<1>4. CASE ShiftOut
  BY <1>4, CodedShiftOut
<1>5. CASE Owe
  BY <1>5, CodedOwe
<1>6. CASE WriteReturns
  BY <1>6, CodedWriteReturns
<1>7. CASE Finish
  BY <1>7, CodedFinish
<1>8. CASE Open
  BY <1>8, CodedRest DEF Open, encoder
<1>9. CASE Fill
  BY <1>9, CodedRest DEF Fill, encoder
<1>10. CASE Read
  BY <1>10, CodedRest DEF Read, Narrow, encoder
<1>11. CASE ShiftIn
  BY <1>11, CodedRest DEF ShiftIn, ShiftEnds, encoder
<1>12. CASE DeleteIn
  BY <1>12, CodedRest DEF DeleteIn, encoder
<1>13. CASE ReadReturns
  BY <1>13, CodedRest DEF ReadReturns, encoder
<1> QED BY <1>1, <1>2, <1>3, <1>4, <1>5, <1>6, <1>7, <1>8, <1>9, <1>10, <1>11, <1>12, <1>13
        DEF Next, Code

(* However many bits are owed and however long they stay owed, they are     *)
(* paid right: what is written, what is owed and the word are always the    *)
(* exact low end of the interval.                                           *)
THEOREM OwedIsPaid == Spec => []UnderflowOwed
<1>1. Coded => UnderflowOwed
  BY DEF Coded, UnderflowOwed
<1> QED BY <1>1, IInvInit, IInvStep, CodedInit, CodedStep, PTL DEF Spec

-----------------------------------------------------------------------------
(* The bits written lie in the interval of every entry of the trail.        *)

Holds(r) ==
  LET x == Number(Streamed(StateBits + r.rounds))
  IN  r.exact <= x /\ x < r.exact + (r.high - r.low + 1)


(* What the interval after a step holds, the interval before it holds. *)
LEMMA HoldsBack ==
  ASSUME written \in Seq(Bit), NEW r \in Entries, NEW t \in Entries, Follows(r, t), Holds(t)
  PROVE  Holds(r)
<1> DEFINE n == StateBits + r.rounds
           x == Number(Streamed(n))
           low0 == r.low
           high0 == r.high
           exact0 == r.exact
           low1 == t.low
           high1 == t.high
           exact1 == t.exact
<1>1. /\ low0 \in Nat /\ high0 \in Nat /\ exact0 \in Nat /\ r.rounds \in Nat
      /\ low1 \in Nat /\ high1 \in Nat /\ exact1 \in Nat
  BY Sizes DEF Entries
<1>2. n \in Nat /\ n + 1 = StateBits + (r.rounds + 1)
  <2>1. StateBits \in Nat
    BY PowerAssumption
  <2> QED BY <1>1, <2>1
<1>3. x \in Nat
  BY <1>2, StreamGrows
<1>4. CASE Narrows(r, t)
  <2>1. /\ t.rounds = r.rounds
        /\ low0 <= low1 /\ high1 <= high0 /\ exact1 = exact0 + (low1 - low0)
    BY <1>4 DEF Narrows
  <2>2. exact1 <= x /\ x < exact1 + (high1 - low1 + 1)
    BY <2>1 DEF Holds
  <2> HIDE DEF x, n, low0, high0, exact0, low1, high1, exact1
  <2>3. exact0 <= x /\ x < exact0 + (high0 - low0 + 1)
    BY <1>1, <1>3, <2>1, <2>2
  <2> QED BY <2>3 DEF Holds, x, n, low0, high0, exact0
<1>5. ASSUME NEW d \in {0, Half, Full}, Doubles(r, t, d) PROVE Holds(r)
  <2> DEFINE y == Number(Streamed(n + 1))
             b == IF n < Len(written) THEN written[n + 1] ELSE 0
  <2>1. StateBits + t.rounds = n + 1
    BY <1>2, <1>5 DEF Doubles
  <2>2. exact1 <= y /\ y < exact1 + (high1 - low1 + 1)
    BY <2>1, Zenon DEF Holds
  <2>3. y = 2 * x + b /\ b \in 0 .. 1
    <3>1. y = 2 * x + b /\ b \in Bit
      BY <1>2, StreamGrows
    <3> HIDE DEF x, y, b
    <3> QED BY <3>1 DEF Bit
  <2>4. low1 = 2 * low0 - d /\ high1 = (2 * high0 + 1) - d /\ exact1 = 2 * exact0
    BY <1>5 DEF Doubles
  <2>5. d \in Nat
    BY Sizes
  <2> HIDE DEF x, y, b, n, low0, high0, exact0, low1, high1, exact1
  <2>6. high1 - low1 + 1 = 2 * (high0 - low0 + 1)
    BY <1>1, <2>4, <2>5
  <2>7. exact0 <= x /\ x < exact0 + (high0 - low0 + 1)
    BY <1>1, <1>3, <2>2, <2>3, <2>4, <2>6
  <2> QED BY <2>7 DEF Holds, x, n, low0, high0, exact0
<1>6. CASE Returns(r, t)
  BY <1>6 DEF Returns, Holds
<1> QED BY <1>4, <1>5, <1>6 DEF Follows

(* The end mark is in the upper half of the last interval, at its start:    *)
(* whatever is still owed is paid as if a 1 had been shifted out.           *)
LEMMA LastHolds ==
  IInv /\ Coded /\ side \in {"open", "fill", "decode", "done"} => Holds(Last)
<1> SUFFICES ASSUME IInv, Coded, side \in {"open", "fill", "decode", "done"} PROVE Holds(Last)
  OBVIOUS
<1>1. /\ Last \in Entries /\ Last.low < Half /\ Half <= Last.high /\ Marked
  BY DEF Coded, TrailOK, Last
<1>2. PICK w \in Seq(Bit), p \in Nat, m \in Nat :
         /\ written = High1(w, m)
         /\ Last.rounds = Len(w) + p /\ Last.exact = Number(Low0(w, p)) * Half + Last.low
  BY <1>1 DEF Marked
<1> DEFINE a == Number(Low0(w, p))
           x == Number(Streamed(StateBits + Last.rounds))
<1>3. x = (a + 1) * Half
  <2>1. StateBits + Last.rounds = StateBits + Len(w) + p
    BY <1>2, PowerAssumption
  <2> QED BY <1>2, <2>1, MarkedStream
<1>4. a \in Nat /\ Last.low \in Nat /\ Last.high \in Nat
  <2>1. w \in Seq(Nat)
    BY BitsAreNat
  <2>2. a \in Nat
    BY <2>1, OwesOneMore
  <2>3. Last.low \in 0 .. Full - 1 /\ Last.high \in 0 .. Full - 1
    BY <1>1 DEF Entries
  <2> HIDE DEF a
  <2> QED BY <2>2, <2>3, Sizes
<1>5. Last.exact = a * Half + Last.low
  BY <1>2
<1> HIDE DEF a, x
<1> DEFINE h == a * Half
<1>6. (a + 1) * Half = h + Half /\ h \in Nat
  BY <1>4, Sizes
<1> HIDE DEF h
<1>7. x = h + Half /\ Last.exact = h + Last.low
  BY <1>3, <1>5, <1>6 DEF h
<1>8. Last.exact <= x /\ x < Last.exact + (Last.high - Last.low + 1)
  BY <1>1, <1>4, <1>6, <1>7, Sizes
<1> QED BY <1>8 DEF Holds, x

LEMMA AllHold ==
  IInv /\ Coded /\ side \in {"open", "fill", "decode", "done"}
    => \A p \in 1 .. Len(trail) : Holds(trail[p])
<1> SUFFICES ASSUME IInv, Coded, side \in {"open", "fill", "decode", "done"},
                    NEW p \in 1 .. Len(trail), ~Holds(trail[p])
             PROVE  FALSE
  OBVIOUS
<1>1. TrailOK /\ Len(trail) \in Nat
  BY DEF Coded, TrailOK
<1>2. written \in Seq(Bit)
  BY DEF IInv, TypeOK
<1> DEFINE T == {k \in Nat : k < Len(trail) /\ ~Holds(trail[Len(trail) - k])}
<1>3. T \subseteq Nat
  OBVIOUS
<1>4. Len(trail) - p \in T
  <2>1. Len(trail) - p \in Nat /\ Len(trail) - p < Len(trail) /\ Len(trail) - (Len(trail) - p) = p
    BY <1>1
  <2> QED BY <2>1
<1> HIDE DEF T
<1>5. PICK k \in T : \A l \in T : k <= l
  BY <1>3, <1>4, Least
<1> DEFINE q == Len(trail) - k
<1>6. k \in Nat /\ k < Len(trail) /\ ~Holds(trail[q]) /\ q \in 1 .. Len(trail)
  BY <1>1, <1>5 DEF T
<1>7. k # 0
  <2>1. k = 0 => q = Len(trail)
    BY <1>1
  <2> QED BY <1>6, <2>1, LastHolds DEF Last
<1>8. q \in 1 .. Len(trail) - 1 /\ q + 1 = Len(trail) - (k - 1) /\ k - 1 \in Nat /\ k - 1 < Len(trail)
  BY <1>1, <1>6, <1>7
<1> HIDE DEF q
<1>9. Holds(trail[q + 1])
  <2>1. ~(k - 1 \in T)
    BY <1>5, <1>6, <1>8
  <2> QED BY <1>8, <2>1 DEF T
<1>10. /\ trail[q] \in Entries /\ trail[q + 1] \in Entries
       /\ Follows(trail[q], trail[q + 1])
  BY <1>1, <1>6, <1>8 DEF TrailOK
<1> QED BY <1>2, <1>6, <1>9, <1>10, HoldsBack

-----------------------------------------------------------------------------
(* The decoder.                                                             *)

Then == trail[Steps + 1]

Decoded ==
  /\ side = "fill" => prefix = ZeroPad /\ code = Number(Streamed(taken))
  /\ side \in {"encode", "open", "fill"} => got = <<>>
  /\ side = "decode" =>
       /\ Steps + 1 \in 1 .. Len(trail)
       /\ stage = Then.stage /\ prefix = Then.prefix /\ low = Then.low /\ high = Then.high
       /\ Len(got) = Then.sent /\ Len(got) < Len(given) /\ taken = StateBits + Then.rounds
       /\ code - low = Number(Streamed(taken)) - Then.exact
       /\ \A k \in 1 .. Len(got) : got[k] = given[k]
       /\ stage # "call" => symbol = given[Len(got) + 1]
  /\ side = "done" => got = given

LEMMA DecodedInit == Init => Decoded
  BY DEF Init, Decoded

LEMMA DecodedEncoder ==
  ASSUME Decoded, side = "encode", got' = got, side' \in {"encode", "open", "thrown", "overflow"}
  PROVE  Decoded'
  BY DEF Decoded

LEMMA StreamStays == written' = written => \A n : Streamed(n)' = Streamed(n)
  BY DEF Streamed

LEMMA DecodedOpen == Decoded /\ Open => Decoded'
<1> SUFFICES ASSUME Decoded, Open PROVE Decoded'
  OBVIOUS
<1>1. /\ side = "open" /\ side' = "fill" /\ prefix' = ZeroPad /\ code' = 0 /\ taken' = 0
      /\ got' = got /\ written' = written
  BY DEF Open, encoder
<1>2. code' = Number(Streamed(taken))'
  <2>1. Streamed(taken)' = Streamed(0)
    BY <1>1 DEF Streamed
  <2> QED BY <1>1, <2>1, StreamStarts DEF Number
<1> QED BY <1>1, <1>2 DEF Decoded

LEMMA DecodedFill == IInv /\ Coded /\ Decoded /\ Fill => Decoded'
<1> SUFFICES ASSUME IInv, Coded, Decoded, Fill PROVE Decoded'
  OBVIOUS
<1>1. /\ side = "fill" /\ code' = 2 * code + NextBit /\ taken' = taken + 1
      /\ side' = IF taken' = StateBits THEN "decode" ELSE side
      /\ stage' = "call" /\ UNCHANGED <<given, low, high, prefix, got, written, trail>>
  BY DEF Fill, encoder, IInv, Stages
<1>2. /\ prefix = ZeroPad /\ code = Number(Streamed(taken)) /\ got = <<>>
      /\ low = 0 /\ high = Full - 1 /\ taken \in Nat /\ written \in Seq(Bit)
  BY <1>1 DEF Decoded, IInv, Filling, TypeOK
<1>3. code' = Number(Streamed(taken)') /\ code' \in Nat
  <2>1. Number(Streamed(taken + 1)) = 2 * Number(Streamed(taken)) + NextBit
    BY <1>2, StreamGrows, NextBitIs
  <2>2. Streamed(taken)' = Streamed(taken + 1)
    BY <1>1 DEF Streamed
  <2>3. Number(Streamed(taken + 1)) \in Nat
    BY <1>2, StreamGrows
  <2> QED BY <1>1, <1>2, <2>1, <2>2, <2>3, Zenon
<1>4. CASE taken' # StateBits
  BY <1>1, <1>2, <1>3, <1>4 DEF Decoded, Number
<1>5. CASE taken' = StateBits
  <2>1. StateBits \in Nat /\ Len(got') = 0
    BY <1>1, <1>2, PowerAssumption
  <2>2. Steps' = 0
    BY <1>1, <1>5, <2>1 DEF Steps
  <2>3. /\ Then' = First /\ 1 \in 1 .. Len(trail)
    <3>1. Then' = trail[0 + 1]
      BY <1>1, <2>2 DEF Then
    <3> QED BY <3>1 DEF Coded, TrailOK
  <2>4. 0 < Len(given)
    <3>1. given \in Seq(Bit) /\ given # <<>>
      BY SizesAssumption DEF IInv, TypeOK
    <3> QED BY <3>1
  <2>5. code' - low' = Number(Streamed(taken)') - 0 /\ taken' = StateBits + 0
    BY <1>1, <1>2, <1>3, <1>5, <2>1
  <2>6. /\ First.stage = "call" /\ First.prefix = ZeroPad /\ First.low = 0
        /\ First.high = Full - 1 /\ First.sent = 0 /\ First.rounds = 0 /\ First.exact = 0
    BY DEF First
  <2>7. Steps' + 1 \in 1 .. Len(trail')
    BY <1>1, <2>2, <2>3
  <2>8. side' = "decode"
    BY <1>1, <1>5
  <2> HIDE DEF First
  <2>9. /\ stage' = Then'.stage /\ prefix' = Then'.prefix /\ low' = Then'.low /\ high' = Then'.high
        /\ Len(got') = Then'.sent /\ Len(got') < Len(given') /\ taken' = StateBits + Then'.rounds
        /\ code' - low' = Number(Streamed(taken)') - Then'.exact
    BY <1>1, <1>2, <2>1, <2>3, <2>4, <2>5, <2>6
  <2> QED BY <1>1, <2>1, <2>7, <2>8, <2>9 DEF Decoded, Number
<1> QED BY <1>4, <1>5

(* Where the decoder is, the encoder has been, and went on. *)
LEMMA OnTheTrail ==
  ASSUME IInv, Coded, Decoded, side = "decode", NEW t, t = trail[Steps + 2]
  PROVE  /\ Steps + 2 \in 1 .. Len(trail) /\ Steps \in Nat /\ Len(trail) \in Nat
         /\ Then \in Entries /\ t \in Entries /\ Follows(Then, t) /\ Holds(Then) /\ Holds(t)
<1>1. TrailOK /\ Last.sent = Len(given) /\ Len(trail) \in Nat
  BY DEF Coded, TrailOK
<1>2. Steps + 1 \in 1 .. Len(trail) /\ Len(got) = Then.sent /\ Len(got) < Len(given)
  BY DEF Decoded
<1>3. Steps \in Int
  <2>1. taken \in Nat /\ StateBits \in Nat /\ Len(got) \in Nat
    BY PowerAssumption DEF IInv, TypeOK
  <2> QED BY <2>1 DEF Steps
<1> DEFINE n == Steps
<1> HIDE DEF n
<1>4. n + 1 # Len(trail)
  <2>1. n + 1 = Len(trail) => Then = Last
    BY DEF Then, Last, n
  <2>2. Len(got) \in Nat /\ Len(given) \in Nat
    BY GivenOK DEF IInv, TypeOK
  <2> QED BY <1>1, <1>2, <2>1, <2>2
<1>5. n + 1 \in 1 .. Len(trail) - 1 /\ n + 2 \in 1 .. Len(trail) /\ n \in Nat
      /\ (n + 1) + 1 = n + 2
  BY <1>1, <1>2, <1>3, <1>4 DEF n
<1>6. Then = trail[n + 1] /\ t = trail[n + 2]
  BY DEF Then, n
<1>7. Then \in Entries /\ t \in Entries /\ Follows(Then, t)
  <2>1. trail \in Seq(Entries) /\ n + 1 \in 1 .. Len(trail)
    BY <1>1, <1>2 DEF TrailOK, n
  <2>2. Then \in Entries /\ t \in Entries
    BY <1>5, <1>6, <2>1
  <2>3. Follows(trail[n + 1], trail[(n + 1) + 1])
    BY <1>1, <1>5 DEF TrailOK
  <2>4. Follows(Then, t)
    BY <1>5, <1>6, <2>3, Zenon
  <2> QED BY <2>2, <2>4
<1>8. Holds(Then) /\ Holds(t)
  <2>1. \A p \in 1 .. Len(trail) : Holds(trail[p])
    BY AllHold
  <2>2. n + 1 \in 1 .. Len(trail)
    BY <1>2 DEF n
  <2> QED BY <1>5, <1>6, <2>1, <2>2, Zenon
<1> QED BY <1>1, <1>5, <1>7, <1>8 DEF n

LEMMA DecodedNext ==
  ASSUME NEW t, t = trail[Steps + 2], Steps + 2 \in 1 .. Len(trail), Steps \in Nat,
         side' = "decode", UNCHANGED <<given, written, trail>>, Steps' = Steps + 1,
         stage' = t.stage, prefix' = t.prefix, low' = t.low, high' = t.high,
         Len(got') = t.sent, Len(got') < Len(given), taken' = StateBits + t.rounds,
         code' - low' = Number(Streamed(taken')) - t.exact,
         \A k \in 1 .. Len(got') : got'[k] = given[k],
         stage' # "call" => symbol' = given[Len(got') + 1]
  PROVE  Decoded'
<1>1. Then' = t /\ Steps' + 1 \in 1 .. Len(trail')
  <2>1. Then' = trail[(Steps + 1) + 1] /\ (Steps + 1) + 1 = Steps + 2
    BY DEF Then
  <2> QED BY <2>1
<1>2. Streamed(taken)' = Streamed(taken')
  BY DEF Streamed
<1>3. code' - low' = Number(Streamed(taken)') - Then'.exact
  BY <1>1, <1>2
<1> QED BY <1>1, <1>3 DEF Decoded, Number

(* The code is in the part of the bit that was given: no other is found. *)
LEMMA FoundIsGiven ==
  ASSUME Settled, model \in Predictors, prefix \in Contexts,
         code \in 0 .. Full - 1, low <= code, code <= high,
         NEW r, r.low = low, r.high = high, r.prefix = prefix, NEW s \in Bit,
         s = 0 => code - low < Share(r), s = 1 => Share(r) <= code - low
  PROVE  Found = s
<1>1. /\ Found \in Bit /\ Offset = code - low
      /\ Scale(Low(Found)) <= Offset /\ Offset < Scale(High(Found))
  BY FoundOK
<1>2. /\ low \in Nat /\ high \in Nat /\ Interval /\ range = high - low + 1
      /\ Freq \in 0 .. Total /\ Freq \in 1 .. Total - 1
  BY FreqOK, Sizes DEF Settled, Interval, range
<1>3. Scale(Freq) = Share(r) /\ Scale(Freq) \in Nat
  <2>1. Scale(Freq) = (Freq * range) \div Total /\ Scale(Freq) \in Nat
    BY <1>2, ScaleExact
  <2> QED BY <1>2, <2>1 DEF Share, Freq
<1> DEFINE share == Share(r)
           o == code - low
<1>4. o \in Int
  BY <1>2, Sizes
<1>5. Found = 0 => o < share
  BY <1>1, <1>3 DEF High
<1>6. Found = 1 => share <= o
  BY <1>1, <1>3 DEF Low
<1>7. share \in Nat /\ (s = 0 => o < share) /\ (s = 1 => share <= o)
  BY <1>3
<1> HIDE DEF share, o
<1> QED BY <1>1, <1>4, <1>5, <1>6, <1>7 DEF Bit

LEMMA DecodedRead == IInv /\ Coded /\ Decoded /\ Read => Decoded'
<1> SUFFICES ASSUME IInv, Coded, Decoded, Read PROVE Decoded'
  OBVIOUS
<1> DEFINE t == trail[Steps + 2]
           s == given[Len(got) + 1]
           x == Number(Streamed(taken))
<1>1. /\ side = "decode" /\ stage = "call"
      /\ UNCHANGED <<given, model, prefix, code, taken, got, written, trail>>
  BY DEF Read, encoder, decoder
<1>2. /\ Settled /\ model \in Predictors /\ prefix \in Contexts
      /\ code \in 0 .. Full - 1 /\ low <= code /\ code <= high
  BY <1>1 DEF IInv, Stages, TypeOK
<1>3. /\ Steps + 2 \in 1 .. Len(trail) /\ Steps \in Nat
      /\ Then \in Entries /\ t \in Entries /\ Follows(Then, t) /\ Holds(t)
  BY <1>1, OnTheTrail
<1> HIDE DEF t
<1>4. /\ stage = Then.stage /\ prefix = Then.prefix /\ low = Then.low /\ high = Then.high
      /\ Len(got) = Then.sent /\ Len(got) < Len(given) /\ taken = StateBits + Then.rounds
      /\ code - low = x - Then.exact
  BY <1>1 DEF Decoded
<1>5. Narrows(Then, t)
  BY <1>1, <1>3, <1>4 DEF Follows, Doubles, Returns
<1>6. s \in Bit /\ Len(got) \in Nat
  <2>1. given \in Seq(Bit) /\ got \in Seq(Bit)
    BY GivenOK DEF IInv, TypeOK
  <2>2. Len(got) + 1 \in 1 .. Len(given)
    BY <1>4, <2>1
  <2> QED BY <2>1, <2>2
<1>7. /\ t.stage = "shift" /\ t.prefix = prefix /\ t.sent = Len(got) /\ t.rounds = Then.rounds
      /\ t.low = low + (IF s = 0 THEN 0 ELSE Share(Then))
      /\ t.high = IF s = 0 THEN low + Share(Then) - 1 ELSE high
      /\ t.exact = Then.exact + (t.low - low)
  BY <1>4, <1>5 DEF Narrows
<1> HIDE DEF s
<1>8. t.low <= code /\ code <= t.high
  <2> DEFINE low1 == t.low
             high1 == t.high
             exact1 == t.exact
             exact0 == Then.exact
  <2>1. /\ low1 \in Nat /\ high1 \in Nat /\ exact1 \in Nat /\ exact0 \in Nat
        /\ low \in Nat /\ code \in Nat
    BY <1>2, <1>3, Sizes DEF Entries, Settled, Interval
  <2>2. exact1 <= x /\ x < exact1 + (high1 - low1 + 1)
    BY <1>3, <1>4, <1>7 DEF Holds
  <2>3. x \in Nat
    BY StreamGrows DEF IInv, TypeOK
  <2>4. code - low = x - exact0 /\ exact1 = exact0 + (low1 - low)
    BY <1>4, <1>7
  <2> HIDE DEF low1, high1, exact1, exact0, x
  <2>5. low1 <= code /\ code <= high1
    BY <2>1, <2>2, <2>3, <2>4
  <2> QED BY <2>5 DEF low1, high1
<1>9. Found = s
  <2> DEFINE share == Share(Then)
  <2>1. low \in Nat /\ code \in Nat /\ t.low \in Nat /\ t.high \in Nat
    BY <1>2, <1>3, Sizes DEF Entries, Settled, Interval
  <2>2. share \in Int
    <3>1. Share(Then) = (Freq * range) \div Total
      BY <1>4 DEF Share, Freq, range
    <3>2. Freq \in 0 .. Total /\ Interval
      BY <1>2, FreqOK, Sizes DEF Settled
    <3>3. (Freq * range) \div Total \in Nat
      BY <3>2, ScaleExact
    <3> QED BY <3>1, <3>3
  <2>3. (s = 0 => t.high = low + share - 1) /\ (s = 1 => t.low = low + share)
    BY <1>7
  <2> HIDE DEF share
  <2>4. (s = 0 => code - low < share) /\ (s = 1 => share <= code - low)
    BY <1>8, <2>1, <2>2, <2>3
  <2> QED BY <1>2, <1>4, <1>6, <2>4, FoundIsGiven DEF share
<1>10. Narrow(s)
  <2>1. /\ Scale(Value) <= Offset /\ Value < Total
        /\ Scale(Low(Found)) <= Offset /\ Offset < Scale(High(Found))
    BY <1>2, FoundOK
  <2>2. Narrow(Found)
    BY <2>1 DEF Read
  <2> QED BY <1>9, <2>2
<1>11. symbol' = s /\ stage' = "shift" /\ side' = side
  BY <1>2, <1>6, <1>10, NarrowOK
<1>12. low' = t.low /\ high' = t.high
  BY <1>2, <1>4, <1>6, <1>7, <1>10, NarrowIs
<1>13. Steps' = Steps + 1
  <2>1. taken \in Nat /\ StateBits \in Nat
    BY PowerAssumption DEF IInv, TypeOK
  <2> QED BY <1>1, <1>6, <1>11, <2>1 DEF Steps
<1>14. code' - low' = x - t.exact
  <2> DEFINE low1 == t.low
             exact1 == t.exact
             exact0 == Then.exact
  <2>1. /\ low1 \in Nat /\ exact1 \in Nat /\ exact0 \in Nat
        /\ low \in Nat /\ code \in Nat
    BY <1>2, <1>3, Sizes DEF Entries, Settled, Interval
  <2>2. x \in Nat
    BY StreamGrows DEF IInv, TypeOK
  <2>3. code - low = x - exact0 /\ exact1 = exact0 + (low1 - low) /\ code' = code /\ low' = low1
    BY <1>1, <1>4, <1>7, <1>12
  <2> HIDE DEF low1, exact1, exact0, x
  <2>4. code' - low' = x - exact1
    BY <2>1, <2>2, <2>3
  <2> QED BY <2>4 DEF exact1
<1>15. \A k \in 1 .. Len(got') : got'[k] = given[k]
  BY <1>1 DEF Decoded
<1>16. /\ stage' = t.stage /\ prefix' = t.prefix /\ Len(got') = t.sent /\ Len(got') < Len(given)
       /\ taken' = StateBits + t.rounds /\ code' - low' = Number(Streamed(taken')) - t.exact
       /\ symbol' = given[Len(got') + 1]
  BY <1>1, <1>4, <1>7, <1>11, <1>14 DEF s
<1> QED BY <1>1, <1>3, <1>11, <1>12, <1>13, <1>15, <1>16, DecodedNext DEF t

(* Only one round is possible in a place, and then the call does not return.*)
LEMMA DroppedOnce ==
  ASSUME NEW r \in Entries, r.low <= r.high, NEW d \in {0, Half, Full}, Dropped(r, d)
  PROVE  /\ \A e \in {0, Half, Full} : Dropped(r, e) => e = d
         /\ ~(r.low < Half /\ Half <= r.high /\ (r.low < Quarter \/ Half + Quarter <= r.high))
<1> DEFINE l == r.low
           h == r.high
<1>1. l \in Nat /\ h \in Nat /\ l <= h
  BY Sizes DEF Entries
<1>2. \A e \in {0, Half, Full} : Dropped(r, e) =>
        \/ h < Half /\ e = 0
        \/ Half <= l /\ e = Full
        \/ Quarter <= l /\ l < Half /\ Half <= h /\ h < Half + Quarter /\ e = Half
  BY DEF Dropped
<1> HIDE DEF l, h
<1>3. \A e \in {0, Half, Full} : Dropped(r, e) => e = d
  BY <1>1, <1>2, Sizes
<1>4. ~(l < Half /\ Half <= h /\ (l < Quarter \/ Half + Quarter <= h))
  BY <1>1, <1>2, Sizes
<1> QED BY <1>3, <1>4 DEF l, h

LEMMA DecodedDouble ==
  ASSUME IInv, Coded, Decoded, side = "decode", stage # "call",
         NEW d \in {0, Half, Full}, Dropped(Then, d),
         low' = 2 * low - d, high' = (2 * high + 1) - d,
         stage' = IF d = Half THEN "underflow" ELSE "shift",
         code' = (2 * code - d) + NextBit, taken' = taken + 1,
         UNCHANGED <<given, model, side, symbol, prefix, got, written, trail>>
  PROVE  Decoded'
<1> DEFINE t == trail[Steps + 2]
           x == Number(Streamed(taken))
           y == Number(Streamed(taken'))
           b == NextBit
<1>1. /\ Steps + 2 \in 1 .. Len(trail) /\ Steps \in Nat
      /\ Then \in Entries /\ t \in Entries /\ Follows(Then, t)
  BY OnTheTrail
<1> HIDE DEF t
<1>2. /\ stage = Then.stage /\ prefix = Then.prefix /\ low = Then.low /\ high = Then.high
      /\ Len(got) = Then.sent /\ Len(got) < Len(given) /\ taken = StateBits + Then.rounds
      /\ code - low = x - Then.exact
      /\ symbol = given[Len(got) + 1]
      /\ \A k \in 1 .. Len(got) : got[k] = given[k]
  BY DEF Decoded
<1>3. Then.low <= Then.high
  BY <1>2 DEF IInv, Stages, Interval
<1>4. Doubles(Then, t, d)
  <2>1. ~Narrows(Then, t)
    BY <1>2 DEF Narrows
  <2>2. ~Returns(Then, t)
    BY <1>1, <1>3, DroppedOnce DEF Returns
  <2>3. PICK e \in {0, Half, Full} : Doubles(Then, t, e)
    BY <1>1, <2>1, <2>2 DEF Follows
  <2>4. e = d
    BY <1>1, <1>3, <2>3, DroppedOnce DEF Doubles
  <2> QED BY <2>3, <2>4
<1>5. /\ t.stage = stage' /\ t.low = low' /\ t.high = high' /\ t.exact = 2 * Then.exact
      /\ t.rounds = Then.rounds + 1 /\ t.prefix = prefix /\ t.sent = Len(got)
  BY <1>2, <1>4 DEF Doubles
<1>6. taken \in Nat /\ StateBits \in Nat /\ Then.rounds \in Nat /\ Len(got) \in Nat
  BY <1>1, PowerAssumption DEF IInv, TypeOK, Entries
<1>7. y = 2 * x + b /\ x \in Nat /\ b \in Bit
  BY <1>6, StreamGrows, NextBitIs DEF IInv, TypeOK
<1>8. code' - low' = y - t.exact
  <2> DEFINE exact0 == Then.exact
             exact1 == t.exact
  <2>1. /\ exact0 \in Nat /\ exact1 = 2 * exact0 /\ code - low = x - exact0
        /\ low \in Nat /\ code \in Nat /\ d \in Nat
    <3>1. exact0 \in Nat
      BY <1>1 DEF Entries
    <3>2. low \in Nat /\ code \in Nat /\ d \in Nat
      BY Sizes DEF IInv, TypeOK
    <3> QED BY <1>2, <1>5, <3>1, <3>2
  <2>2. b \in 0 .. 1
    BY <1>7 DEF Bit
  <2>3. code' = (2 * code - d) + b /\ low' = 2 * low - d
    OBVIOUS
  <2> HIDE DEF exact0, exact1, x, y, b
  <2>4. code' - low' = y - exact1
    BY <1>7, <2>1, <2>2, <2>3
  <2> QED BY <2>4 DEF exact1
<1>9. Steps' = Steps + 1
  <2>1. stage' # "call"
    OBVIOUS
  <2> QED BY <1>6, <2>1 DEF Steps
<1>10. taken' = StateBits + t.rounds
  BY <1>2, <1>5, <1>6
<1>11. /\ side' = "decode" /\ prefix' = t.prefix /\ Len(got') = t.sent /\ Len(got') < Len(given)
       /\ symbol' = given[Len(got') + 1]
       /\ \A k \in 1 .. Len(got') : got'[k] = given[k]
  BY <1>2, <1>5
<1> QED BY <1>1, <1>5, <1>8, <1>9, <1>10, <1>11, DecodedNext DEF t, y

LEMMA DecodedShiftIn == IInv /\ Coded /\ Decoded /\ ShiftIn => Decoded'
<1> SUFFICES ASSUME IInv, Coded, Decoded, ShiftIn PROVE Decoded'
  OBVIOUS
<1>1. /\ side = "decode" /\ stage = "shift" /\ SameTop /\ ShiftEnds
      /\ stage' = stage /\ code' = Shifted(code) + NextBit /\ taken' = taken + 1
      /\ UNCHANGED <<given, model, side, symbol, prefix, got, written, trail>>
  BY DEF ShiftIn, Shifting, ShiftEnds, encoder
<1>2. /\ Interval /\ code \in low .. high /\ low \in Nat /\ high \in Nat /\ code \in Nat
      /\ Then.low = low /\ Then.high = high /\ Then.stage = stage
  <2>1. Interval /\ low <= code /\ code <= high
    BY <1>1 DEF IInv, Stages
  <2>2. low \in Nat /\ high \in Nat /\ code \in Nat
    BY Sizes DEF IInv, TypeOK
  <2>3. Then.low = low /\ Then.high = high /\ Then.stage = stage
    BY <1>1 DEF Decoded
  <2> QED BY <2>1, <2>2, <2>3
<1>3. \/ /\ high < Half /\ low' = 2 * low /\ high' = 2 * high + 1 /\ Shifted(code) = 2 * code
      \/ /\ Half <= low /\ low' = 2 * low - Full /\ high' = (2 * high + 1) - Full
         /\ Shifted(code) = 2 * code - Full
  BY <1>1, <1>2, ShiftIs
<1>4. Half # 0 /\ Half # Full
  BY Sizes
<1>5. CASE /\ high < Half /\ low' = 2 * low /\ high' = 2 * high + 1
           /\ Shifted(code) = 2 * code
  <2>1. /\ 2 * low - 0 = 2 * low /\ (2 * high + 1) - 0 = 2 * high + 1
        /\ 2 * code - 0 = 2 * code
    BY <1>2
  <2>2. Dropped(Then, 0)
    BY <1>1, <1>2, <1>5 DEF Dropped
  <2> QED BY <1>1, <1>4, <1>5, <2>1, <2>2, DecodedDouble
<1>6. CASE /\ Half <= low /\ low' = 2 * low - Full /\ high' = (2 * high + 1) - Full
           /\ Shifted(code) = 2 * code - Full
  <2>1. Dropped(Then, Full)
    BY <1>1, <1>2, <1>6 DEF Dropped
  <2> QED BY <1>1, <1>4, <1>6, <2>1, DecodedDouble
<1> QED BY <1>3, <1>5, <1>6

LEMMA DecodedDeleteIn == IInv /\ Coded /\ Decoded /\ DeleteIn => Decoded'
<1> SUFFICES ASSUME IInv, Coded, Decoded, DeleteIn PROVE Decoded'
  OBVIOUS
<1>1. /\ side = "decode" /\ Apart /\ Middle /\ DeleteSecond /\ stage # "call"
      /\ code' = Deleted(code) + NextBit /\ taken' = taken + 1
      /\ UNCHANGED <<given, model, side, symbol, prefix, got, written, trail>>
  BY DEF DeleteIn, Deleting, Apart, encoder
<1>2. /\ Interval /\ code \in low .. high
      /\ Then.low = low /\ Then.high = high /\ Then.stage = stage
  BY <1>1, Sizes DEF IInv, Stages, TypeOK, Interval, Decoded
<1>3. low < Half /\ Half <= high
  BY <1>1, <1>2, ApartOK DEF IInv, Stages
<1>4. /\ Quarter <= low /\ high < Half + Quarter /\ stage' = "underflow"
      /\ low' = 2 * low - Half /\ high' = (2 * high + 1) - Half
      /\ Deleted(code) = 2 * code - Half
  BY <1>1, <1>2, <1>3, DeleteIs
<1>5. Dropped(Then, Half)
  BY <1>2, <1>3, <1>4 DEF Dropped
<1> QED BY <1>1, <1>4, <1>5, DecodedDouble

LEMMA DecodedReadReturns == IInv /\ Coded /\ Decoded /\ ReadReturns => Decoded'
<1> SUFFICES ASSUME IInv, Coded, Decoded, ReadReturns PROVE Decoded'
  OBVIOUS
<1> DEFINE t == trail[Steps + 2]
<1>1. /\ side = "decode" /\ Returning /\ stage # "call"
      /\ UNCHANGED <<given, model, low, high, symbol, code, taken, written, trail>>
  BY DEF ReadReturns, Returning, Apart, encoder
<1>2. Settled /\ low <= code /\ code <= high
  BY <1>1, ReturnsSettled DEF IInv, Stages
<1>3. /\ stage' = "call" /\ got' = Append(got, symbol)
      /\ IF Len(got') = Len(given) THEN side' = "done"
                                   ELSE prefix' = Push(symbol) /\ side' = side
  BY <1>2 DEF ReadReturns
<1>4. /\ stage = Then.stage /\ prefix = Then.prefix /\ low = Then.low /\ high = Then.high
      /\ Len(got) = Then.sent /\ Len(got) < Len(given) /\ taken = StateBits + Then.rounds
      /\ code - low = Number(Streamed(taken)) - Then.exact
      /\ symbol = given[Len(got) + 1]
      /\ \A k \in 1 .. Len(got) : got[k] = given[k]
  BY <1>1 DEF Decoded
<1>5. /\ given \in Seq(Bit) /\ got \in Seq(Bit) /\ Len(given) \in Nat /\ Len(got) \in Nat
      /\ symbol \in Bit
  BY GivenOK DEF IInv, TypeOK
<1>6. /\ got' \in Seq(Bit) /\ Len(got') = Len(got) + 1
      /\ \A k \in 1 .. Len(got') : got'[k] = given[k]
  BY <1>3, <1>4, <1>5
<1>7. CASE Len(got') = Len(given)
  <2>1. got' = given
    BY <1>5, <1>6, <1>7, SeqEqual
  <2> QED BY <1>1, <1>3, <1>7, <2>1 DEF Decoded
<1>8. CASE Len(got') # Len(given)
  <2>1. /\ Steps + 2 \in 1 .. Len(trail) /\ Steps \in Nat
        /\ Then \in Entries /\ t \in Entries /\ Follows(Then, t)
    BY <1>1, OnTheTrail
  <2> HIDE DEF t
  <2>2. Returns(Then, t)
    <3>1. ~Narrows(Then, t)
      BY <1>1, <1>4 DEF Narrows
    <3>2. low < Half /\ Half <= high /\ (low < Quarter \/ Half + Quarter <= high)
          /\ low <= high
      BY <1>2, Sizes DEF Settled, Interval
    <3>3. \A d \in {0, Half, Full} : ~Doubles(Then, t, d)
      BY <1>4, <2>1, <3>2, DroppedOnce DEF Doubles
    <3> QED BY <2>1, <3>1, <3>3 DEF Follows
  <2>3. /\ t.stage = "call" /\ t.low = low /\ t.high = high /\ t.exact = Then.exact
        /\ t.rounds = Then.rounds /\ t.sent = Len(got) + 1 /\ t.prefix = Push(symbol)
    BY <1>4, <2>2 DEF Returns, Push
  <2>4. Steps' = Steps + 1
    <3>1. taken \in Nat /\ StateBits \in Nat
      BY PowerAssumption DEF IInv, TypeOK
    <3> QED BY <1>1, <1>3, <1>5, <1>6, <3>1 DEF Steps
  <2>5. Len(got') < Len(given)
    BY <1>4, <1>5, <1>6, <1>8
  <2>6. /\ side' = "decode" /\ stage' = t.stage /\ prefix' = t.prefix
        /\ low' = t.low /\ high' = t.high /\ Len(got') = t.sent
        /\ taken' = StateBits + t.rounds
        /\ code' - low' = Number(Streamed(taken')) - t.exact /\ stage' = "call"
    BY <1>1, <1>3, <1>4, <1>6, <1>8, <2>3
  <2> QED BY <1>1, <1>6, <2>1, <2>4, <2>5, <2>6, DecodedNext DEF t
<1> QED BY <1>7, <1>8

LEMMA DecodedStep == IInv /\ Coded /\ Decoded /\ [Next]_vars => Decoded'
<1> SUFFICES ASSUME IInv, Coded, Decoded, [Next]_vars PROVE Decoded'
  OBVIOUS
<1>1. ASSUME UNCHANGED vars PROVE Decoded'
  <2>1. Then' = Then /\ Steps' = Steps /\ Streamed(taken)' = Streamed(taken)
    BY <1>1 DEF vars, encoder, decoder, Then, Steps, Streamed
  <2> QED BY <1>1, <2>1 DEF vars, encoder, decoder, Decoded, Number
<1>2. CASE Ended
  BY <1>1, <1>2 DEF Ended
<1>3. CASE Write \/ ShiftOut \/ Owe \/ WriteReturns \/ Finish
  BY <1>3, DecodedEncoder
     DEF Write, ShiftOut, Owe, WriteReturns, Finish, Narrow, ShiftEnds, decoder
<1>4. CASE Open
  BY <1>4, DecodedOpen
<1>5. CASE Fill
  BY <1>5, DecodedFill
<1>6. CASE Read
  BY <1>6, DecodedRead
<1>7. CASE ShiftIn
  BY <1>7, DecodedShiftIn
<1>8. CASE DeleteIn
  BY <1>8, DecodedDeleteIn
<1>9. CASE ReadReturns
  BY <1>9, DecodedReadReturns
<1> QED BY <1>1, <1>2, <1>3, <1>4, <1>5, <1>6, <1>7, <1>8, <1>9 DEF Next, Code

(* The three invariants together, for every input, every predictor and any  *)
(* width of a word.                                                         *)
THEOREM Faithful == Spec => [](IInv /\ Coded /\ Decoded)
  BY IInvInit, IInvStep, CodedInit, CodedStep, DecodedInit, DecodedStep, PTL DEF Spec

(* The decoder goes where the encoder went, step by step: within a symbol,  *)
(* between two, and past the end of the stream.                             *)
THEOREM DecoderInStep == Spec => []InStep
<1>1. IInv /\ Coded /\ Decoded => InStep
  BY DEF Decoded, InStep, Then
<1> QED BY <1>1, Faithful, PTL

(* The bits given are the bits returned, or none are: every step of the     *)
(* coders is a step of the codec or a stutter.  That they are returned in   *)
(* the end is liveness, and checked.                                        *)
THEOREM BitsComeBack == Spec => Codec!Init /\ [][Codec!Next]_(Codec!lVars)
<1> DEFINE returned == IF side = "done" THEN got ELSE Nothing
<1>1. Init => Codec!Init
  BY DEF Init, Codec!Init
<1>2. IInv /\ Coded /\ Decoded /\ (IInv /\ Coded /\ Decoded)' /\ [Next]_vars
        => [Codec!Next]_(Codec!lVars)
  <2> SUFFICES ASSUME Decoded, Decoded', [Next]_vars PROVE [Codec!Next]_(Codec!lVars)
    OBVIOUS
  <2>1. given' = given
    BY DEF Next, Code, Write, ShiftOut, Owe, WriteReturns, Finish, Open, Fill, Read, ShiftIn,
       DeleteIn, ReadReturns, Ended, vars, encoder, decoder
  <2>2. CASE side = "done"
    <3>1. side' = side /\ got' = got
      BY <2>2 DEF Next, Code, Write, ShiftOut, Owe, WriteReturns, Finish, Open, Fill, Read,
         ShiftIn, DeleteIn, ReadReturns, Ended, vars, decoder
    <3>2. returned' = returned
      BY <3>1
    <3> QED BY <2>1, <3>2 DEF Codec!lVars
  <2>3. CASE side # "done" /\ side' # "done"
    <3>1. returned' = returned
      BY <2>3
    <3> QED BY <2>1, <3>1 DEF Codec!lVars
  <2>4. CASE side # "done" /\ side' = "done"
    <3>1. returned = Nothing /\ returned' = given
      BY <2>1, <2>4 DEF Decoded
    <3> QED BY <2>1, <3>1 DEF Codec!Next, Codec!Return
  <2> QED BY <2>2, <2>3, <2>4
<1> QED BY <1>1, <1>2, Faithful, PTL DEF Spec

-----------------------------------------------------------------------------
(* What is left to do: the sides still to come, the bits of the side, the   *)
(* loops of update, and how far the interval is from the widest one.        *)
SidesToCome ==
  IF side = "encode" THEN 4
  ELSE IF side = "open" THEN 3
  ELSE IF side = "fill" THEN 2
  ELSE IF side = "decode" THEN 1
  ELSE 0

BitsToCome ==
  IF side = "encode" THEN Len(given) - sent
  ELSE IF side = "fill" THEN StateBits - taken
  ELSE IF side = "decode" THEN Len(given) - Len(got)
  ELSE 0

LoopsToCome == IF stage = "call" THEN 2 ELSE IF stage = "shift" THEN 1 ELSE 0

Rank == <<SidesToCome, BitsToCome, LoopsToCome, Full - range>>

(* The decoder is asked for as many bits as were given, and no more. *)
Asked == side # "done" => Len(got) < Len(given)

LEMMA AskedInit == Init => Asked
<1> SUFFICES ASSUME Init PROVE Len(got) < Len(given)
  BY DEF Asked
<1>1. given \in Seq(Bit) /\ given # <<>> /\ got = <<>>
  BY SizesAssumption DEF Init
<1> QED BY <1>1

LEMMA AskedStep == IInv /\ Asked /\ [Next]_vars => Asked'
<1> SUFFICES ASSUME IInv, Asked, [Next]_vars, side' # "done" PROVE Len(got') < Len(given')
  BY DEF Asked
<1>1. given' = given
  BY DEF Next, Code, Write, ShiftOut, Owe, WriteReturns, Finish, Open, Fill, Read, ShiftIn,
     DeleteIn, ReadReturns, Ended, vars, encoder, decoder
<1>2. CASE ReadReturns
  <2>1. Len(given) \in Nat /\ Len(got') \in Nat /\ got \in Seq(Bit) /\ side = "decode"
        /\ (got' = got \/ (got' = Append(got, symbol) /\ Len(got') # Len(given)))
        /\ Len(got) < Len(given)
    BY <1>2, GivenOK DEF ReadReturns, IInv, TypeOK, Asked
  <2> QED BY <1>1, <2>1
<1>3. CASE ~ReadReturns
  <2>1. got' = got /\ side # "done"
    BY <1>3 DEF Next, Code, Write, ShiftOut, Owe, WriteReturns, Finish, Open, Fill, Read, ShiftIn,
       DeleteIn, Ended, vars, decoder
  <2> QED BY <1>1, <2>1 DEF Asked
<1> QED BY <1>2, <1>3

LEMMA Ranked == IInv /\ Asked => Rank \in Ranks
<1> SUFFICES ASSUME IInv, Asked PROVE Rank \in Ranks
  OBVIOUS
<1>1. /\ Len(given) \in Nat /\ sent \in 0 .. Len(given) /\ Len(got) \in Nat
      /\ side = "fill" => taken \in Nat /\ taken < StateBits
      /\ side = "decode" => Len(got) < Len(given)
  BY GivenOK DEF IInv, TypeOK, Filling, Asked
<1>2. BitsToCome \in Nat
  <2>1. Len(given) - sent \in Nat
    BY <1>1
  <2>2. ASSUME side = "fill" PROVE StateBits - taken \in Nat
    <3>1. taken \in Nat /\ taken < StateBits
      BY <1>1, <2>2
    <3>2. StateBits \in Nat
      BY PowerAssumption
    <3> QED BY <3>1, <3>2
  <2>3. side = "decode" => Len(given) - Len(got) \in Nat
    BY <1>1
  <2> QED BY <2>1, <2>2, <2>3 DEF BitsToCome
<1>3. Full - range \in Nat
  BY RangeOf, Sizes DEF IInv, Stages
<1> QED BY <1>2, <1>3 DEF Rank, Ranks, SidesToCome, LoopsToCome

(* A round of either loop makes the interval as wide again. *)
LEMMA Widens ==
  ASSUME Interval, Interval', range' = 2 * range
  PROVE  Full - range' < Full - range
<1>1. range \in Nat /\ range >= 1 /\ Full \in Int
  BY RangeOf, Sizes
<1> HIDE DEF range
<1> QED BY <1>1

LEMMA Twice ==
  ASSUME NEW l \in Int, NEW h \in Int, NEW x \in Int, NEW y \in Int,
         NEW k \in Int, x = 2 * l - k, y = 2 * h + 1 - k
  PROVE  y - x + 1 = 2 * (h - l + 1)
  OBVIOUS

LEMMA ShiftWidens == ASSUME Interval, SameTop, ShiftEnds PROVE range' = 2 * range
<1>1. low \in Int /\ high \in Int /\ Full \in Int /\ 0 \in Int
  BY Sizes DEF Interval
<1>2. PICK k \in {0, Full} : low' = 2 * low - k /\ high' = 2 * high + 1 - k
  BY <1>1, ShiftIs
<1>3. low' \in Int /\ high' \in Int /\ k \in Int
  BY <1>1, ShiftEndsOK
<1>4. high' - low' + 1 = 2 * (high - low + 1)
  BY <1>1, <1>2, <1>3, Twice
<1> QED BY <1>4 DEF range

LEMMA DeleteWidens ==
  ASSUME Interval, low < Half, Half <= high, Middle, DeleteSecond
  PROVE  range' = 2 * range
<1>1. low \in Int /\ high \in Int /\ Half \in Int
  BY Sizes DEF Interval
<1>2. low' = 2 * low - Half /\ high' = 2 * high + 1 - Half
  BY <1>1, DeleteIs
<1>3. low' \in Int /\ high' \in Int
  BY DeleteOK
<1>4. high' - low' + 1 = 2 * (high - low + 1)
  BY <1>1, <1>2, <1>3, Twice
<1> QED BY <1>4 DEF range

(* Every step leaves less to do. *)
LEMMA GoesDown == IInv /\ Asked /\ IInv' /\ [Next]_vars => [Below(Rank', Rank)]_vars
<1> SUFFICES ASSUME IInv, Asked, IInv', Code PROVE Below(Rank', Rank)
  BY DEF Next, Ended
<1>0. /\ Len(given) \in Nat /\ sent \in 0 .. Len(given) /\ got \in Seq(Bit)
      /\ taken \in Nat /\ StateBits \in Nat /\ Interval /\ Interval'
  BY GivenOK, PowerAssumption DEF IInv, TypeOK, Stages
<1>1. CASE Write
  <2>1. side = "encode" /\ stage = "call" /\ given' = given /\ sent' = sent /\ Settled
        /\ model \in Predictors /\ prefix \in Contexts /\ sent < Len(given)
        /\ Narrow(given[sent + 1])
    BY <1>1 DEF Write, IInv, Stages, TypeOK
  <2>2. given[sent + 1] \in Bit
    <3>1. given \in Seq(Bit)
      BY GivenOK DEF IInv, TypeOK
    <3>2. sent + 1 \in 1 .. Len(given)
      BY <1>0, <2>1
    <3> QED BY <3>1, <3>2
  <2>3. side' = side /\ stage' = "shift"
    BY <2>1, <2>2, NarrowOK
  <2> QED BY <2>1, <2>3 DEF Rank, Below, SidesToCome, BitsToCome, LoopsToCome
<1>2. CASE ShiftOut
  <2>1. side = "encode" /\ side' = side /\ stage' = stage /\ given' = given /\ sent' = sent
        /\ SameTop /\ ShiftEnds
    BY <1>2 DEF ShiftOut, Shifting, ShiftEnds
  <2>2. Full - range' < Full - range
    BY <1>0, <2>1, ShiftWidens, Widens
  <2> QED BY <2>1, <2>2 DEF Rank, Below, SidesToCome, BitsToCome, LoopsToCome
<1>3. CASE Owe
  <2>1. side = "encode" /\ Apart /\ Middle /\ given' = given /\ sent' = sent
    BY <1>3 DEF Owe, Deleting
  <2>2. CASE side' = "overflow"
    BY <2>1, <2>2 DEF Rank, Below, SidesToCome
  <2>3. CASE side' # "overflow"
    <3>1. DeleteSecond /\ side' = side /\ stage' = "underflow"
      BY <1>3, <2>3 DEF Owe, DeleteSecond
    <3>2. low < Half /\ Half <= high
      BY <1>0, <2>1, ApartOK DEF IInv, Stages
    <3>3. Full - range' < Full - range
      BY <1>0, <2>1, <3>1, <3>2, DeleteWidens, Widens
    <3> QED BY <2>1, <3>1, <3>3 DEF Rank, Below, SidesToCome, BitsToCome, LoopsToCome, Apart
  <2> QED BY <2>2, <2>3
<1>4. CASE WriteReturns
  <2>1. side = "encode" /\ side' = side /\ given' = given /\ sent' = sent + 1
    BY <1>4 DEF WriteReturns
  <2>2. BitsToCome' < BitsToCome
    BY <1>0, <2>1 DEF BitsToCome
  <2> QED BY <2>1, <2>2 DEF Rank, Below, SidesToCome
<1>5. CASE Finish \/ Open
  BY <1>5 DEF Finish, Open, Rank, Below, SidesToCome
<1>6. CASE Fill
  <2>1. side = "fill" /\ (side' = "fill" \/ side' = "decode") /\ taken' = taken + 1
    BY <1>6 DEF Fill
  <2>2. side' = "fill" => BitsToCome' < BitsToCome
    BY <1>0, <2>1 DEF BitsToCome
  <2> QED BY <2>1, <2>2 DEF Rank, Below, SidesToCome
<1>7. CASE Read
  <2>1. side = "decode" /\ stage = "call" /\ given' = given /\ got' = got /\ Settled
        /\ model \in Predictors /\ prefix \in Contexts
        /\ code \in 0 .. Full - 1 /\ low <= code /\ code <= high
    BY <1>7 DEF Read, decoder, IInv, Stages, TypeOK
  <2>2. Found \in Bit /\ Narrow(Found)
    BY <1>7, <2>1, FoundOK DEF Read
  <2>3. side' = side /\ stage' = "shift"
    BY <2>1, <2>2, NarrowOK
  <2> QED BY <2>1, <2>3 DEF Rank, Below, SidesToCome, BitsToCome, LoopsToCome
<1>8. CASE ShiftIn
  <2>1. side = "decode" /\ side' = side /\ stage' = stage /\ given' = given /\ got' = got
        /\ SameTop /\ ShiftEnds
    BY <1>8 DEF ShiftIn, Shifting, ShiftEnds
  <2>2. Full - range' < Full - range
    BY <1>0, <2>1, ShiftWidens, Widens
  <2> QED BY <2>1, <2>2 DEF Rank, Below, SidesToCome, BitsToCome, LoopsToCome
<1>9. CASE DeleteIn
  <2>1. side = "decode" /\ side' = side /\ Apart /\ Middle /\ given' = given /\ got' = got
        /\ DeleteSecond /\ stage' = "underflow"
    BY <1>9 DEF DeleteIn, Deleting, DeleteSecond
  <2>2. low < Half /\ Half <= high
    BY <1>0, <2>1, ApartOK DEF IInv, Stages
  <2>3. Full - range' < Full - range
    BY <1>0, <2>1, <2>2, DeleteWidens, Widens
  <2> QED BY <2>1, <2>3 DEF Rank, Below, SidesToCome, BitsToCome, LoopsToCome, Apart
<1>10. CASE ReadReturns
  <2>1. side = "decode" /\ given' = given
        /\ \/ side' \in {"done", "thrown"}
           \/ side' = side /\ got' = Append(got, symbol)
    BY <1>10 DEF ReadReturns
  <2>2. side' = side => BitsToCome' < BitsToCome
    BY <1>0, <2>1 DEF BitsToCome
  <2> QED BY <2>1, <2>2 DEF Rank, Below, SidesToCome
<1> QED BY <1>1, <1>2, <1>3, <1>4, <1>5, <1>6, <1>7, <1>8, <1>9, <1>10 DEF Code

(* Both sides end after finitely many steps, on any input and with any      *)
(* predictor: the loops of ArithmeticCoderBase::update, which no counter    *)
(* ends, widen the interval in each round.                                  *)
THEOREM CodingDescends == Spec => [](Rank \in Ranks) /\ [][Below(Rank', Rank)]_vars
  BY IInvInit, IInvStep, AskedInit, AskedStep, Ranked, GoesDown, PTL DEF Spec
=============================================================================
