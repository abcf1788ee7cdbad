------------------------- MODULE LzmaPacketsProofs -------------------------
(***************************************************************************)
(* Proofs about LzmaPackets, for every set of texts, every split of the    *)
(* lengths into codes, every reach of the distances and whatever the match *)
(* search comes up with: the decoder stays in step with the encoder and    *)
(* puts back the text, byte by byte.                                       *)
(***************************************************************************)
EXTENDS LzmaPackets, DivModFacts, SequenceTheorems, TLAPS

-----------------------------------------------------------------------------
(* Distances and their slots.                                               *)

LEMMA Powers ==
  /\ DistBits \in Nat /\ Power[0] = 1
  /\ \A n \in 0 .. DistBits : Power[n] \in Nat /\ Power[n] >= 1
  /\ \A n \in 1 .. DistBits : Power[n] = 2 * Power[n - 1]
BY PowerAssumption

LEMMA Sizes ==
  /\ Lows \in Nat /\ Lows >= 1 /\ Mids \in Nat /\ Mids >= 1 /\ Highs \in Nat /\ Highs >= 1
  /\ MaxLen = 1 + Lows + Mids + Highs /\ MaxLen \in Nat
  /\ AlignBits \in Nat /\ AlignedFrom \in Nat
  /\ AlignedFrom >= 4 /\ AlignedFrom >= 2 * AlignBits + 2
  /\ MaxDist \in Nat /\ MaxDist >= 1 /\ MaxDist <= Power[DistBits]
BY SizesAssumption, PowerAssumption, Powers DEF MaxLen

(* The first powers. *)
LEMMA SmallPowers ==
  /\ DistBits >= 1 => Power[1] = 2
  /\ DistBits >= 2 => Power[2] = 4
<1>1. DistBits >= 1 => Power[1] = 2
  BY Powers
<1>2. DistBits >= 2 => Power[2] = 4
  BY <1>1, Powers
<1> QED BY <1>1, <1>2

LEMMA PowerSum ==
  ASSUME NEW a \in Nat, NEW b \in Nat, a + b <= DistBits
  PROVE  Power[a + b] = Power[a] * Power[b]
<1> DEFINE T == {c \in Nat : a + c <= DistBits /\ Power[a + c] # Power[a] * Power[c]}
<1>1. SUFFICES ASSUME T # {}
               PROVE  FALSE
  OBVIOUS
<1>2. PICK c \in T : \A x \in T : c <= x
  <2>1. T \subseteq Nat
    OBVIOUS
  <2> HIDE DEF T
  <2> QED BY <1>1, <2>1, Least
<1>3. c \in Nat /\ a + c <= DistBits /\ Power[a + c] # Power[a] * Power[c]
  OBVIOUS
<1>4. c # 0
  BY <1>3, Powers
<1>5. c - 1 \in Nat /\ c - 1 \notin T
  BY <1>2, <1>3, <1>4
<1>6. Power[a + (c - 1)] = Power[a] * Power[c - 1]
  BY <1>3, <1>5, Powers
<1>7. Power[a + c] = 2 * Power[a + (c - 1)] /\ Power[c] = 2 * Power[c - 1]
  <2>1. a + c \in 1 .. DistBits /\ c \in 1 .. DistBits /\ (a + c) - 1 = a + (c - 1)
    BY <1>3, <1>4, Powers
  <2> QED BY <2>1, Powers
<1>8. Power[a] \in Nat /\ Power[c - 1] \in Nat
  BY <1>3, <1>4, <1>5, Powers
<1> QED BY <1>3, <1>6, <1>7, <1>8

(* Every number from 4 on has a top bit (countBit). *)
LEMMA TopBit ==
  ASSUME NEW d \in Nat, d >= 4, d < Power[DistBits]
  PROVE  \E n \in 2 .. DistBits - 1 : Power[n] <= d /\ d < 2 * Power[n]
<1> DEFINE T == {k \in 0 .. DistBits : d < Power[k]}
<1>1. T \subseteq Nat /\ DistBits \in T
  BY Powers
<1>2. PICK m \in T : \A k \in T : m <= k
  <2> HIDE DEF T
  <2> QED BY <1>1, Least
<1>3. m \in 0 .. DistBits /\ d < Power[m]
  BY <1>2
<1>4. m >= 3
  <2>1. m # 0 /\ m # 1 /\ m # 2
    BY <1>3, Powers, SmallPowers
  <2> QED BY <1>3, <2>1
<1>5. m - 1 \in 0 .. DistBits /\ m - 1 \notin T
  BY <1>2, <1>3, <1>4, Powers
<1>6. Power[m - 1] <= d /\ d < 2 * Power[m - 1]
  BY <1>3, <1>4, <1>5, Powers
<1> QED BY <1>3, <1>4, <1>6, Powers
(* A slot holds how many bits a distance has and the second of them.        *)
LEMMA SlotOf ==
  ASSUME NEW d \in Nat, d >= 4, d < Power[DistBits]
  PROVE  \E n \in 2 .. DistBits - 1 :
           /\ Power[n - 1] \in Nat /\ Power[n - 1] >= 1
           /\ d \div Power[n - 1] \in {2, 3}
           /\ d % Power[n - 1] \in 0 .. Power[n - 1] - 1
           /\ d = Power[n - 1] * (d \div Power[n - 1]) + (d % Power[n - 1])
           /\ Slot(d) = 2 * n + ((d \div Power[n - 1]) % 2)
<1> DEFINE Fits(n) == Power[n] <= d /\ d < 2 * Power[n]
           n == CHOOSE m \in 1 .. DistBits : Fits(m)
           p == Power[n - 1]
           q == d \div p
<1>1. n \in 1 .. DistBits /\ Fits(n)
  <2>1. \E m \in 1 .. DistBits : Fits(m)
    BY TopBit, Powers
  <2> HIDE DEF Fits
  <2> QED BY <2>1
<1>2. Slot(d) = 2 * n + (q % 2)
  BY DEF Slot
<1> HIDE DEF n
<1>3. n # 1 /\ n # DistBits
  BY <1>1, SmallPowers, Powers
<1>4. n \in 2 .. DistBits - 1 /\ n - 1 \in 0 .. DistBits /\ n \in 1 .. DistBits
  BY <1>1, <1>3, Powers
<1>5. p \in Nat /\ p >= 1 /\ Power[n] = 2 * p
  BY <1>4, Powers
<1>6. 2 * p <= d /\ d < 4 * p
  BY <1>1, <1>5
<1> HIDE DEF p
<1>7. q \in Nat /\ d % p \in 0 .. p - 1 /\ d = p * q + (d % p)
  BY <1>5, DivMod
<1> HIDE DEF q
<1>8. q \in {2, 3}
  <2>1. p * q > p * 1 /\ p * q < p * 4
    BY <1>5, <1>6, <1>7
  <2>2. q > 1 /\ q < 4
    BY <1>5, <1>7, <2>1
  <2> QED BY <1>7, <2>2
<1> QED BY <1>2, <1>4, <1>5, <1>7, <1>8 DEF p, q

(* One more bit. *)
LEMMA OneMoreBit ==
  ASSUME NEW d \in Nat, NEW j \in 1 .. DistBits
  PROVE  d % Power[j] = Power[j - 1] * ((d \div Power[j - 1]) % 2) + (d % Power[j - 1])
<1> DEFINE m == Power[j - 1]
<1>1. m \in Nat /\ m > 0 /\ Power[j] = 2 * m
  BY Powers
<1> HIDE DEF m
<1>2. Power[j] = m * 2 /\ 2 \in Nat /\ 2 > 0
  BY <1>1
<1>3. d % (m * 2) = m * ((d \div m) % 2) + (d % m)
  BY <1>1, <1>2, ModOfProduct
<1> QED BY <1>2, <1>3 DEF m

LEMMA LowerRemainder ==
  ASSUME NEW d \in Nat, NEW n \in 0 .. DistBits, NEW j \in 0 .. n
  PROVE  (d % Power[n]) % Power[j] = d % Power[j]
<1>1. j \in Nat /\ n - j \in Nat /\ j + (n - j) = n /\ n <= DistBits
  BY Powers
<1>2. Power[n] = Power[j] * Power[n - j]
  BY <1>1, PowerSum
<1>3. /\ Power[j] \in Nat /\ Power[j] > 0 /\ Power[n - j] \in Nat
      /\ Power[n] \in Nat /\ Power[n] > 0
  BY <1>1, Powers
<1>4. Power[n] % Power[j] = 0
  <2>1. Power[n] = Power[j] * Power[n - j] + 0
    BY <1>2, <1>3
  <2> QED BY <1>3, <2>1, RemainderIs
<1> QED BY <1>3, <1>4, ModOfMod

(* The low bits of a number are put together again. *)
LEMMA LowBits ==
  ASSUME NEW d \in Nat, NEW n \in 0 .. DistBits
  PROVE  FromLowFirst(LowFirst(d, n)) = d % Power[n]
<1> DEFINE bits == LowFirst(d, n)
           Has(e) == \A i \in 1 .. n : bits[i] = (e \div Power[i - 1]) % 2
           r == d % Power[n]
<1>1. Len(bits) = n
  BY Powers DEF LowFirst
<1>2. \A i \in 1 .. n : bits[i] = (d \div Power[i - 1]) % 2
  BY DEF LowFirst
<1>3. FromLowFirst(bits) = CHOOSE e \in 0 .. Power[n] - 1 : Has(e)
  BY <1>1 DEF FromLowFirst
<1> HIDE DEF bits
<1>4. r \in 0 .. Power[n] - 1
  BY Powers, DivMod
<1>5. \A j \in 0 .. n : r % Power[j] = d % Power[j]
  BY LowerRemainder
<1> HIDE DEF r
<1>6. Has(r)
  <2> SUFFICES ASSUME NEW i \in 1 .. n
               PROVE  bits[i] = (r \div Power[i - 1]) % 2
    OBVIOUS
  <2> DEFINE m == Power[i - 1]
             x == (r \div m) % 2
             y == (d \div m) % 2
  <2>1. i \in 1 .. DistBits /\ i \in 0 .. n /\ i - 1 \in 0 .. n /\ i - 1 \in 0 .. DistBits
    BY Powers
  <2>2. m \in Nat /\ m > 0 /\ r \in Nat
    BY <2>1, <1>4, Powers
  <2>3. r % Power[i] = m * x + (r % m) /\ d % Power[i] = m * y + (d % m)
    BY <2>1, <2>2, OneMoreBit
  <2>4. r % Power[i] = d % Power[i] /\ r % m = d % m
    BY <2>1, <1>5
  <2>5. r % m \in Nat /\ d % m \in Nat /\ r \div m \in Nat /\ d \div m \in Nat
    BY <2>2, DivMod
  <2>6. x \in {0, 1} /\ y \in {0, 1}
    BY <2>5
  <2>7. bits[i] = y
    BY <1>2
  <2> HIDE DEF m, x, y
  <2>8. m * x = m * y
    <3>1. m * x \in Nat /\ m * y \in Nat
      BY <2>2, <2>6
    <3> QED BY <2>3, <2>4, <2>5, <3>1
  <2>9. x = y
    BY <2>2, <2>6, <2>8
  <2> QED BY <2>7, <2>9 DEF x, m
<1>7. ASSUME NEW e \in 0 .. Power[n] - 1, Has(e)
      PROVE  e = r
  <2>0. e \in Nat /\ Power[n] \in Nat /\ Power[n] > 0
    BY Powers
  <2> DEFINE T == {j \in 0 .. n : e % Power[j] # d % Power[j]}
  <2>1. T = {}
    <3>1. SUFFICES ASSUME T # {}
                   PROVE  FALSE
      OBVIOUS
    <3>2. PICK j \in T : \A k \in T : j <= k
      <4>1. T \subseteq Nat
        OBVIOUS
      <4> HIDE DEF T
      <4> QED BY <3>1, <4>1, Least
    <3>3. j \in 0 .. n /\ e % Power[j] # d % Power[j]
      OBVIOUS
    <3>4. j # 0
      <4>1. e % 1 = 0 /\ d % 1 = 0
        BY <2>0
      <4> QED BY <3>3, <4>1, Powers
    <3>5. j - 1 \in 0 .. n /\ j - 1 \notin T /\ j \in 1 .. DistBits /\ j \in 1 .. n
      BY <3>2, <3>3, <3>4, Powers
    <3>6. e % Power[j - 1] = d % Power[j - 1]
      BY <3>5
    <3>7. (e \div Power[j - 1]) % 2 = (d \div Power[j - 1]) % 2
      BY <1>2, <1>7, <3>5
    <3> QED BY <2>0, <3>3, <3>5, <3>6, <3>7, OneMoreBit
  <2>2. n \in 0 .. n /\ e % Power[n] = d % Power[n]
    BY <2>1, Powers
  <2>3. e % Power[n] = e
    <3>1. e = Power[n] * 0 + e
      BY <2>0
    <3> QED BY <2>0, <3>1, RemainderIs
  <2> QED BY <2>2, <2>3 DEF r
<1> HIDE DEF Has
<1>8. (CHOOSE e \in 0 .. Power[n] - 1 : Has(e)) = r
  BY <1>4, <1>6, <1>7
<1> QED BY <1>3, <1>8 DEF bits, r
(* What a slot leaves out of a distance, and how it is coded.               *)
Left(d)  == d % Power[Extra(Slot(d))]
Fixed(d) == (d \div Power[AlignBits]) % Power[Extra(Slot(d)) - AlignBits]

LEMMA DistanceTravels ==
  ASSUME NEW d \in 0 .. MaxDist - 1
  PROVE  /\ Slot(d) \in Nat
         /\ Slot(d) < 4 => Slot(d) = d
         /\ Slot(d) >= 4 => d = (2 + (Slot(d) % 2)) * Power[Extra(Slot(d))] + Left(d)
         /\ Slot(d) >= 4 => FromLowFirst(LowFirst(d, Extra(Slot(d)))) = Left(d)
         /\ Slot(d) >= AlignedFrom =>
              Left(d) = Fixed(d) * Power[AlignBits] + FromLowFirst(LowFirst(d, AlignBits))
         /\ Slot(d) >= 4 => (2 + (Slot(d) % 2)) * Power[Extra(Slot(d))] \in Nat
         /\ Slot(d) >= AlignedFrom =>
              /\ Fixed(d) * Power[AlignBits] \in Nat
              /\ FromLowFirst(LowFirst(d, AlignBits)) \in Nat
<1>1. d \in Nat /\ d < Power[DistBits] /\ Power[DistBits] \in Nat
  BY Sizes, Powers
<1>2. CASE d < 4
  <2>1. Slot(d) = d
    BY <1>2 DEF Slot
  <2> QED BY <1>1, <1>2, <2>1, Sizes
<1>3. CASE d >= 4
  <2> DEFINE p(n) == Power[n - 1]
             q(n) == d \div p(n)
  <2>1. PICK n \in 2 .. DistBits - 1 :
           /\ p(n) \in Nat /\ p(n) >= 1
           /\ q(n) \in {2, 3}
           /\ d % p(n) \in 0 .. p(n) - 1
           /\ d = p(n) * q(n) + (d % p(n))
           /\ Slot(d) = 2 * n + (q(n) % 2)
    BY <1>1, <1>3, SlotOf
  <2> DEFINE m == p(n)
             k == q(n)
  <2>2. m \in Nat /\ m >= 1 /\ k \in {2, 3} /\ d = m * k + (d % m) /\ Slot(d) = 2 * n + (k % 2)
    BY <2>1
  <2>3. n \in Nat /\ n >= 2 /\ n < DistBits
    BY Powers
  <2>4. m = Power[n - 1]
    OBVIOUS
  <2> HIDE DEF m, k, p, q
  <2>5. Slot(d) \in Nat /\ Slot(d) >= 4 /\ Extra(Slot(d)) = n - 1 /\ 2 + (Slot(d) % 2) = k
    <3>1. CASE k = 2
      BY <3>1, <2>2, <2>3 DEF Extra
    <3>2. CASE k = 3
      BY <3>2, <2>2, <2>3 DEF Extra
    <3> QED BY <2>2, <3>1, <3>2
  <2>6. Left(d) = d % m
    BY <2>4, <2>5 DEF Left
  <2>7. d = k * m + Left(d)
    <3>1. m * k = k * m
      BY <2>2
    <3> QED BY <2>2, <2>6, <3>1
  <2>8. FromLowFirst(LowFirst(d, n - 1)) = Left(d)
    <3>1. n - 1 \in 0 .. DistBits
      BY <2>3, Powers
    <3> QED BY <1>1, <3>1, <2>4, <2>6, LowBits
  <2>9. ASSUME Slot(d) >= AlignedFrom
        PROVE  /\ Left(d) = Fixed(d) * Power[AlignBits] + FromLowFirst(LowFirst(d, AlignBits))
               /\ Fixed(d) * Power[AlignBits] \in Nat
               /\ FromLowFirst(LowFirst(d, AlignBits)) \in Nat
    <3> DEFINE a == Power[AlignBits]
               b == Power[(n - 1) - AlignBits]
    <3>1. (n - 1) - AlignBits \in Nat
      <4>1. Slot(d) >= 2 * AlignBits + 2 /\ Slot(d) <= 2 * n + 1
        <5>1. k % 2 \in {0, 1}
          BY <2>2
        <5> QED BY <2>2, <2>3, <2>9, <5>1, Sizes
      <4> QED BY <2>3, <2>5, <4>1, Sizes
    <3>2. m = a * b
      <4>1. AlignBits + ((n - 1) - AlignBits) = n - 1 /\ n - 1 <= DistBits
        BY <2>3, Sizes, Powers
      <4> QED BY <3>1, <4>1, <2>4, PowerSum, Sizes
    <3>3. a \in Nat /\ a > 0 /\ b \in Nat /\ b > 0 /\ AlignBits \in 0 .. DistBits
      BY <2>3, <3>1, Sizes, Powers
    <3>4. FromLowFirst(LowFirst(d, AlignBits)) = d % a
      BY <1>1, <3>3, LowBits
    <3>5. Fixed(d) = (d \div a) % b
      BY <2>5 DEF Fixed
    <3> HIDE DEF a, b
    <3>6. d % (a * b) = a * ((d \div a) % b) + (d % a)
      BY <1>1, <3>3, ModOfProduct
    <3>7. Fixed(d) \in Nat
      BY <1>1, <3>3, <3>5, DivMod
    <3>8. a * Fixed(d) = Fixed(d) * a
      BY <3>3, <3>7
    <3>9. Fixed(d) * a \in Nat /\ d % a \in Nat
      BY <1>1, <3>3, <3>7
    <3> QED BY <2>6, <3>2, <3>4, <3>5, <3>6, <3>8, <3>9 DEF a
  <2>10. k * m \in Nat
    BY <2>2
  <2> QED BY <1>3, <2>4, <2>5, <2>7, <2>8, <2>9, <2>10
<1> QED BY <1>1, <1>2, <1>3

-----------------------------------------------------------------------------
(* The inductive invariant.                                                 *)

(* The text put back so far. *)
Restored == DecPos <= Len(src) /\ \A i \in 1 .. DecPos : dec.text[i] = src[i]

(* After a match there is a byte to match a literal with. *)
InWindow == enc.state \notin LitStates => enc.reps[1] <= enc.pos

(* What a packet will have said once it is read: where the encoder was and  *)
(* what it did from there.                                                  *)
OnTheWay ==
  packet # <<>> =>
    /\ result = "going" /\ copy.len = 0
    /\ Understood
    /\ Type \in Types
    /\ Length \in 1 .. MaxLen /\ Distance \in Nat
    /\ enc.pos = DecPos + Length
    /\ enc.state = NextState(dec.state, Type)
    /\ enc.reps = DecReps(Type, Distance)
    /\ Type = "LIT" => Length = 1 /\ Distance = 0 /\ packet[2].value = src[DecPos + 1]
    /\ Type # "LIT" => Distance > 0 /\ Agree(DecPos, Distance, Length)

(* What is left to do of a packet. *)
Copying ==
  copy.len > 0 =>
    /\ result = "going" /\ packet = <<>>
    /\ enc.pos = DecPos + copy.len
    /\ dec.state = enc.state /\ dec.reps = enc.reps
    /\ copy.dist = 0 => copy.len = 1 /\ copy.byte = src[DecPos + 1]
    /\ copy.dist > 0 => Agree(DecPos, copy.dist, copy.len)

Between ==
  packet = <<>> /\ copy.len = 0 =>
    /\ DecPos = enc.pos
    /\ dec.state = enc.state /\ dec.reps = enc.reps

(* Matches that were put off are matches, and no longer than a packet can   *)
(* say.                                                                     *)
Deferred ==
  \/ later.match = NoMatch
  \/ /\ later.match.len \in 2 .. MaxLen /\ later.match.dist \in 1 .. MaxDist
     /\ Agree(enc.pos + later.wait, later.match.dist, later.match.len)

IInv ==
  /\ TypeOK
  /\ Restored /\ InWindow /\ OnTheWay /\ Copying /\ Between /\ Deferred
  /\ result \in {"going", "ok"}
  /\ result = "ok" => DecPos = Len(src)

-----------------------------------------------------------------------------
(* What is read back from the symbols of a packet.                          *)

LEMMA TypeTravels ==
  ASSUME NEW type \in Types
  PROVE  DecodedType(TypeBits(type)) = type
<1>1. CASE type = "LIT"
  BY <1>1 DEF TypeBits, DecodedType
<1>2. CASE type = "MATCH"
  BY <1>2 DEF TypeBits, DecodedType
<1>3. CASE type = "SHORTREP"
  BY <1>3 DEF TypeBits, DecodedType
<1>4. CASE type = "REP0"
  BY <1>4 DEF TypeBits, DecodedType
<1>5. CASE type = "REP1"
  BY <1>5 DEF TypeBits, DecodedType
<1>6. CASE type = "REP2"
  BY <1>6 DEF TypeBits, DecodedType
<1>7. CASE type = "REP3"
  BY <1>7 DEF TypeBits, DecodedType
<1> QED BY <1>1, <1>2, <1>3, <1>4, <1>5, <1>6, <1>7 DEF Types

LEMMA LengthTravels ==
  ASSUME NEW type \in Types, NEW len \in 2 .. MaxLen
  PROVE  /\ DecodedLen(CodedLen(type, len).value) = len
         /\ CodedLen(type, len).table = LenTable(type)
<1>1. CASE len < 2 + Lows
  BY <1>1, Sizes DEF CodedLen, DecodedLen, Coded
<1>2. CASE len >= 2 + Lows + Mids
  BY <1>2, Sizes DEF CodedLen, DecodedLen, Coded
<1>3. CASE len >= 2 + Lows /\ len < 2 + Lows + Mids
  BY <1>3, Sizes DEF CodedLen, DecodedLen, Coded
<1> QED BY <1>1, <1>2, <1>3, Sizes

LEMMA StateBound ==
  ASSUME NEW state \in 0 .. 11, NEW type \in Types
  PROVE  /\ NextState(state, type) \in 0 .. 11
         /\ type = "LIT" => NextState(state, type) \in LitStates
<1>1. CASE type = "LIT"
  BY <1>1 DEF NextState, LitStates
<1>2. CASE type # "LIT"
  BY <1>2 DEF NextState, LitStates, Types
<1> QED BY <1>1, <1>2

-----------------------------------------------------------------------------
(* What the encoder may send: no match, or one that is there and that the   *)
(* slots reach unless its distance is repeated.                             *)
Fit(found) ==
  \/ found.len = 0
  \/ /\ found.len \in 2 .. MaxLen /\ found.dist \in Nat /\ found.dist > 0
     /\ Agree(enc.pos, found.dist, found.len)
     /\ found.dist <= MaxDist \/ \E i \in 1 .. 4 : enc.reps[i] = found.dist

LEMMA TypeFacts ==
  ASSUME NEW found, Fit(found)
  PROVE  /\ TypeOf(found) \in Types
         /\ TypeOf(found) = "LIT" => found.len = 0
         /\ TypeOf(found) = "SHORTREP" => found.len = 0 /\ Agree(enc.pos, enc.reps[1], 1)
         /\ TypeOf(found) \notin {"LIT", "SHORTREP"} =>
              /\ found.len \in 2 .. MaxLen /\ found.dist \in Nat /\ found.dist > 0
              /\ Agree(enc.pos, found.dist, found.len)
         /\ TypeOf(found) = "REP0" => enc.reps[1] = found.dist
         /\ TypeOf(found) = "REP1" => enc.reps[2] = found.dist
         /\ TypeOf(found) = "REP2" => enc.reps[3] = found.dist
         /\ TypeOf(found) = "REP3" => enc.reps[4] = found.dist
         /\ TypeOf(found) = "MATCH" => found.dist <= MaxDist
<1> DEFINE hits == {i \in 1 .. 4 : enc.reps[i] = found.dist}
           hit  == CHOOSE i \in hits : \A j \in hits : i <= j
<1>1. CASE found.len = 0
  <2>1. TypeOf(found) = IF Agree(enc.pos, enc.reps[1], 1) THEN "SHORTREP" ELSE "LIT"
    BY <1>1 DEF TypeOf
  <2> QED BY <1>1, <2>1 DEF Types
<1>2. CASE found.len # 0
  <2>1. /\ found.len \in 2 .. MaxLen /\ found.dist \in Nat /\ found.dist > 0
        /\ Agree(enc.pos, found.dist, found.len)
        /\ found.dist <= MaxDist \/ hits # {}
        /\ ~(found.len < 2)
    BY <1>2, Sizes DEF Fit
  <2>2. TypeOf(found) = IF hits = {} THEN "MATCH" ELSE <<"REP0", "REP1", "REP2", "REP3">>[hit]
    BY <2>1 DEF TypeOf
  <2>3. CASE hits = {}
    <3>1. TypeOf(found) = "MATCH"
      BY <2>2, <2>3
    <3> QED BY <2>1, <2>3, <3>1 DEF Types
  <2>4. CASE hits # {}
    <3>1. hits \subseteq Nat /\ hits \subseteq 1 .. 4
      OBVIOUS
    <3>2. \A i \in hits : enc.reps[i] = found.dist
      OBVIOUS
    <3> HIDE DEF hits
    <3>3. hit \in hits
      BY <2>4, <3>1, Least
    <3> HIDE DEF hit
    <3>4. hit \in 1 .. 4 /\ enc.reps[hit] = found.dist
      BY <3>1, <3>2, <3>3
    <3>5. TypeOf(found) = <<"REP0", "REP1", "REP2", "REP3">>[hit]
      BY <2>2, <2>4
    <3>6. CASE hit = 1
      BY <2>1, <3>4, <3>5, <3>6 DEF Types
    <3>7. CASE hit = 2
      BY <2>1, <3>4, <3>5, <3>7 DEF Types
    <3>8. CASE hit = 3
      BY <2>1, <3>4, <3>5, <3>8 DEF Types
    <3>9. CASE hit = 4
      BY <2>1, <3>4, <3>5, <3>9 DEF Types
    <3> QED BY <3>4, <3>6, <3>7, <3>8, <3>9
  <2> QED BY <2>3, <2>4
<1> QED BY <1>1, <1>2

(* Tuples, put together. *)
LEMMA JoinIs ==
  ASSUME NEW S, NEW s \in Seq(S), NEW t \in Seq(S), NEW u \in Seq(S),
         Len(u) = Len(s) + Len(t),
         \A i \in 1 .. Len(s) : u[i] = s[i],
         \A i \in 1 .. Len(t) : u[Len(s) + i] = t[i]
  PROVE  s \o t = u
<1>1. s \o t \in Seq(S) /\ Len(s \o t) = Len(s) + Len(t)
  OBVIOUS
<1>2. ASSUME NEW i \in 1 .. Len(u)
      PROVE  (s \o t)[i] = u[i]
  <2>1. CASE i <= Len(s)
    BY <2>1
  <2>2. CASE i > Len(s)
    <3>1. i - Len(s) \in 1 .. Len(t) /\ Len(s) + (i - Len(s)) = i
      BY <2>2
    <3>2. u[i] = t[i - Len(s)]
      BY <3>1
    <3>3. (s \o t)[i] = t[i - Len(s)]
      BY <2>2
    <3> QED BY <3>2, <3>3
  <2> QED BY <2>1, <2>2
<1> QED BY <1>1, <1>2, SeqEqual

LEMMA Join2And1 ==
  ASSUME NEW a, NEW b, NEW c
  PROVE  <<a, b>> \o <<c>> = <<a, b, c>>
<1> DEFINE S == {a, b, c}
           s == <<a, b>>
           t == <<c>>
           u == <<a, b, c>>
<1>1. s \in Seq(S) /\ u \in Seq(S)
  OBVIOUS
<1>2. t \in Seq(S)
  OBVIOUS
<1>3. /\ Len(s) = 2 /\ Len(t) = 1 /\ Len(u) = 3
      /\ \A i \in 1 .. 2 : u[i] = s[i]
      /\ \A i \in 1 .. 1 : u[2 + i] = t[i]
  OBVIOUS
<1> HIDE DEF S, s, t, u
<1>4. /\ Len(u) = Len(s) + Len(t)
      /\ \A i \in 1 .. Len(s) : u[i] = s[i]
      /\ \A i \in 1 .. Len(t) : u[Len(s) + i] = t[i]
  BY <1>3
<1>5. s \o t = u
  BY <1>1, <1>2, <1>4, JoinIs, Zenon
<1> QED BY <1>5 DEF s, t, u

LEMMA Join2And2 ==
  ASSUME NEW a, NEW b, NEW c, NEW d
  PROVE  <<a, b>> \o <<c, d>> = <<a, b, c, d>>
<1> DEFINE S == {a, b, c, d}
           s == <<a, b>>
           t == <<c, d>>
           u == <<a, b, c, d>>
<1>1. s \in Seq(S) /\ u \in Seq(S)
  OBVIOUS
<1>2. t \in Seq(S)
  OBVIOUS
<1>3. /\ Len(s) = 2 /\ Len(t) = 2 /\ Len(u) = 4
      /\ \A i \in 1 .. 2 : u[i] = s[i]
      /\ \A i \in 1 .. 2 : u[2 + i] = t[i]
  OBVIOUS
<1> HIDE DEF S, s, t, u
<1>4. /\ Len(u) = Len(s) + Len(t)
      /\ \A i \in 1 .. Len(s) : u[i] = s[i]
      /\ \A i \in 1 .. Len(t) : u[Len(s) + i] = t[i]
  BY <1>3
<1>5. s \o t = u
  BY <1>1, <1>2, <1>4, JoinIs, Zenon
<1> QED BY <1>5 DEF s, t, u

LEMMA Join2And3 ==
  ASSUME NEW a, NEW b, NEW c, NEW d, NEW e
  PROVE  <<a, b>> \o <<c, d, e>> = <<a, b, c, d, e>>
<1> DEFINE S == {a, b, c, d, e}
           s == <<a, b>>
           t == <<c, d, e>>
           u == <<a, b, c, d, e>>
<1>1. s \in Seq(S) /\ u \in Seq(S)
  OBVIOUS
<1>2. t \in Seq(S)
  OBVIOUS
<1>3. /\ Len(s) = 2 /\ Len(t) = 3 /\ Len(u) = 5
      /\ \A i \in 1 .. 2 : u[i] = s[i]
      /\ \A i \in 1 .. 3 : u[2 + i] = t[i]
  OBVIOUS
<1> HIDE DEF S, s, t, u
<1>4. /\ Len(u) = Len(s) + Len(t)
      /\ \A i \in 1 .. Len(s) : u[i] = s[i]
      /\ \A i \in 1 .. Len(t) : u[Len(s) + i] = t[i]
  BY <1>3
<1>5. s \o t = u
  BY <1>1, <1>2, <1>4, JoinIs, Zenon
<1> QED BY <1>5 DEF s, t, u

LEMMA Join3And0 ==
  ASSUME NEW a, NEW b, NEW c
  PROVE  <<a, b, c>> \o <<>> = <<a, b, c>>
<1> DEFINE S == {a, b, c}
           s == <<a, b, c>>
           t == <<>>
           u == <<a, b, c>>
<1>1. s \in Seq(S) /\ u \in Seq(S)
  OBVIOUS
<1>2. t \in Seq(S)
  OBVIOUS
<1>3. /\ Len(s) = 3 /\ Len(t) = 0 /\ Len(u) = 3
      /\ \A i \in 1 .. 3 : u[i] = s[i]
      /\ \A i \in 1 .. 0 : u[3 + i] = t[i]
  OBVIOUS
<1> HIDE DEF S, s, t, u
<1>4. /\ Len(u) = Len(s) + Len(t)
      /\ \A i \in 1 .. Len(s) : u[i] = s[i]
      /\ \A i \in 1 .. Len(t) : u[Len(s) + i] = t[i]
  BY <1>3
<1>5. s \o t = u
  BY <1>1, <1>2, <1>4, JoinIs, Zenon
<1> QED BY <1>5 DEF s, t, u

LEMMA Join3And1 ==
  ASSUME NEW a, NEW b, NEW c, NEW d
  PROVE  <<a, b, c>> \o <<d>> = <<a, b, c, d>>
<1> DEFINE S == {a, b, c, d}
           s == <<a, b, c>>
           t == <<d>>
           u == <<a, b, c, d>>
<1>1. s \in Seq(S) /\ u \in Seq(S)
  OBVIOUS
<1>2. t \in Seq(S)
  OBVIOUS
<1>3. /\ Len(s) = 3 /\ Len(t) = 1 /\ Len(u) = 4
      /\ \A i \in 1 .. 3 : u[i] = s[i]
      /\ \A i \in 1 .. 1 : u[3 + i] = t[i]
  OBVIOUS
<1> HIDE DEF S, s, t, u
<1>4. /\ Len(u) = Len(s) + Len(t)
      /\ \A i \in 1 .. Len(s) : u[i] = s[i]
      /\ \A i \in 1 .. Len(t) : u[Len(s) + i] = t[i]
  BY <1>3
<1>5. s \o t = u
  BY <1>1, <1>2, <1>4, JoinIs, Zenon
<1> QED BY <1>5 DEF s, t, u

LEMMA Join3And2 ==
  ASSUME NEW a, NEW b, NEW c, NEW d, NEW e
  PROVE  <<a, b, c>> \o <<d, e>> = <<a, b, c, d, e>>
<1> DEFINE S == {a, b, c, d, e}
           s == <<a, b, c>>
           t == <<d, e>>
           u == <<a, b, c, d, e>>
<1>1. s \in Seq(S) /\ u \in Seq(S)
  OBVIOUS
<1>2. t \in Seq(S)
  OBVIOUS
<1>3. /\ Len(s) = 3 /\ Len(t) = 2 /\ Len(u) = 5
      /\ \A i \in 1 .. 3 : u[i] = s[i]
      /\ \A i \in 1 .. 2 : u[3 + i] = t[i]
  OBVIOUS
<1> HIDE DEF S, s, t, u
<1>4. /\ Len(u) = Len(s) + Len(t)
      /\ \A i \in 1 .. Len(s) : u[i] = s[i]
      /\ \A i \in 1 .. Len(t) : u[Len(s) + i] = t[i]
  BY <1>3
<1>5. s \o t = u
  BY <1>1, <1>2, <1>4, JoinIs, Zenon
<1> QED BY <1>5 DEF s, t, u

(* The tables of the symbols of a packet. *)
LEMMA TablesOf ==
  ASSUME NEW a, NEW b, NEW c, NEW d, NEW e
  PROVE  /\ [i \in DOMAIN <<a>> |-> <<a>>[i].table] = <<a.table>>
         /\ [i \in DOMAIN <<a, b>> |-> <<a, b>>[i].table] = <<a.table, b.table>>
         /\ [i \in DOMAIN <<a, b, c>> |-> <<a, b, c>>[i].table]
              = <<a.table, b.table, c.table>>
         /\ [i \in DOMAIN <<a, b, c, d>> |-> <<a, b, c, d>>[i].table]
              = <<a.table, b.table, c.table, d.table>>
         /\ [i \in DOMAIN <<a, b, c, d, e>> |-> <<a, b, c, d, e>>[i].table]
              = <<a.table, b.table, c.table, d.table, e.table>>
OBVIOUS

(* The symbols of a packet, by its type. *)
Kind(type)     == Coded(<<"type", enc.state>>, TypeBits(type))
SlotIs(found)  == Slot(found.dist - 1)
Slotted(found) == Coded(SlotTable(found.len), SlotIs(found))
Special(found) ==
  Coded(<<"special", SlotIs(found)>>, LowFirst(found.dist - 1, Extra(SlotIs(found))))
Middle(found)  == Coded(<<"fixed">>, Fixed(found.dist - 1))
Aligned(found) == Coded(<<"align">>, LowFirst(found.dist - 1, AlignBits))

LEMMA PacketForms ==
  ASSUME NEW type \in Types, NEW found
  PROVE  LET long == CodedLen(type, found.len)
         IN  /\ type = "LIT" => Packet(type, found) = <<Kind(type), CodedLiteral>>
             /\ type = "SHORTREP" => Packet(type, found) = <<Kind(type)>>
             /\ type \notin {"LIT", "SHORTREP", "MATCH"} =>
                  Packet(type, found) = <<Kind(type), long>>
             /\ type = "MATCH" /\ SlotIs(found) < 4 =>
                  Packet(type, found) = <<Kind(type), long, Slotted(found)>>
             /\ type = "MATCH" /\ ~(SlotIs(found) < 4) /\ SlotIs(found) < AlignedFrom =>
                  Packet(type, found) = <<Kind(type), long, Slotted(found), Special(found)>>
             /\ type = "MATCH" /\ ~(SlotIs(found) < 4) /\ ~(SlotIs(found) < AlignedFrom) =>
                  Packet(type, found) =
                    <<Kind(type), long, Slotted(found), Middle(found), Aligned(found)>>
<1>1. CASE type # "MATCH"
  BY <1>1 DEF Packet, Types, Kind
<1>2. CASE type = "MATCH"
  <2> DEFINE kind == Kind(type)
             long == CodedLen(type, found.len)
  <2>1. Packet(type, found) = <<kind, long>> \o CodedDist(found.len, found.dist)
    BY <1>2 DEF Packet, Kind
  <2>2. CodedDist(found.len, found.dist) =
          IF SlotIs(found) < 4 THEN <<Slotted(found)>>
          ELSE IF SlotIs(found) < AlignedFrom THEN <<Slotted(found), Special(found)>>
          ELSE <<Slotted(found), Middle(found), Aligned(found)>>
    BY DEF CodedDist, Fixed, SlotIs, Slotted, Special, Middle, Aligned
  <2> HIDE DEF kind, long
  <2>3. <<kind, long>> \o <<Slotted(found)>> = <<kind, long, Slotted(found)>>
    BY Join2And1
  <2>4. <<kind, long>> \o <<Slotted(found), Special(found)>>
          = <<kind, long, Slotted(found), Special(found)>>
    BY Join2And2
  <2>5. <<kind, long>> \o <<Slotted(found), Middle(found), Aligned(found)>>
          = <<kind, long, Slotted(found), Middle(found), Aligned(found)>>
    BY Join2And3
  <2> QED BY <1>2, <2>1, <2>2, <2>3, <2>4, <2>5 DEF kind, long
<1> QED BY <1>1, <1>2

LEMMA TypeCases ==
  ASSUME NEW type \in Types, type \notin {"LIT", "SHORTREP", "MATCH"}
  PROVE  type \in {"REP0", "REP1", "REP2", "REP3"}
BY DEF Types

(* The first symbols of a packet. *)
LEMMA PacketHead ==
  ASSUME NEW type \in Types, NEW found
  PROVE  /\ Packet(type, found) # <<>>
         /\ Packet(type, found)[1] = Kind(type)
         /\ type \notin {"LIT", "SHORTREP"} =>
              Packet(type, found)[2] = CodedLen(type, found.len)
         /\ type = "MATCH" => Packet(type, found)[3] = Slotted(found)
<1> DEFINE p == Packet(type, found)
           long == CodedLen(type, found.len)
<1>1. CASE type = "LIT"
  <2>1. p = <<Kind(type), CodedLiteral>>
    BY <1>1, PacketForms
  <2> QED BY <1>1, <2>1
<1>2. CASE type = "SHORTREP"
  <2>1. p = <<Kind(type)>>
    BY <1>2, PacketForms
  <2> QED BY <1>2, <2>1
<1>3. CASE type \notin {"LIT", "SHORTREP", "MATCH"}
  <2>1. p = <<Kind(type), long>>
    BY <1>3, PacketForms
  <2> QED BY <1>3, <2>1
<1>4. CASE type = "MATCH"
  <2>1. CASE SlotIs(found) < 4
    <3>1. p = <<Kind(type), long, Slotted(found)>>
      BY <1>4, <2>1, PacketForms
    <3> QED BY <3>1
  <2>2. CASE ~(SlotIs(found) < 4) /\ SlotIs(found) < AlignedFrom
    <3>1. p = <<Kind(type), long, Slotted(found), Special(found)>>
      BY <1>4, <2>2, PacketForms
    <3> QED BY <3>1
  <2>3. CASE ~(SlotIs(found) < 4) /\ ~(SlotIs(found) < AlignedFrom)
    <3>1. p = <<Kind(type), long, Slotted(found), Middle(found), Aligned(found)>>
      BY <1>4, <2>3, PacketForms
    <3> QED BY <3>1
  <2> QED BY <2>1, <2>2, <2>3
<1> QED BY <1>1, <1>2, <1>3, <1>4

-----------------------------------------------------------------------------
(* What the decoder reads of a packet is what the encoder sent.             *)

(* Its first two symbols. *)
LEMMA ReadTypeAndLength ==
  ASSUME NEW found, Fit(found), packet' = Packet(TypeOf(found), found)
  PROVE  /\ packet' # <<>>
         /\ Type' = TypeOf(found)
         /\ Length' = Bytes(TypeOf(found), found.len)
         /\ Bytes(TypeOf(found), found.len) \in 1 .. MaxLen
<1> DEFINE type == TypeOf(found)
<1>1. type \in Types
  BY TypeFacts
<1> HIDE DEF type
<1>2. packet' # <<>> /\ packet'[1] = Kind(type)
  BY <1>1, PacketHead DEF type
<1>3. Type' = type
  <2>1. packet'[1].value = TypeBits(type)
    BY <1>2 DEF Coded, Kind
  <2> QED BY <1>1, <2>1, TypeTravels DEF Type
<1>4. CASE type \in {"LIT", "SHORTREP"}
  BY <1>2, <1>3, <1>4, Sizes DEF Length, Bytes, type
<1>5. CASE type \notin {"LIT", "SHORTREP"}
  <2>1. found.len \in 2 .. MaxLen
    BY <1>5, TypeFacts DEF type
  <2>2. packet'[2] = CodedLen(type, found.len)
    BY <1>1, <1>5, PacketHead DEF type
  <2>3. Length' = found.len
    BY <1>1, <1>3, <1>5, <2>1, <2>2, LengthTravels DEF Length
  <2> QED BY <1>2, <1>3, <1>5, <2>1, <2>3, Sizes DEF Bytes, type
<1> QED BY <1>4, <1>5

(* The distance of a match. *)
LEMMA ReadDistance ==
  ASSUME NEW found, found.dist \in 1 .. MaxDist, packet' = Packet("MATCH", found)
  PROVE  /\ DecodedDist' = found.dist
         /\ packet'[3].value = SlotIs(found)
<1> DEFINE d    == found.dist - 1
           slot == SlotIs(found)
           top  == (2 + (slot % 2)) * Power[Extra(slot)]
<1>1. d \in 0 .. MaxDist - 1 /\ d \in Nat /\ found.dist = 1 + d
  BY Sizes
<1>2. /\ slot \in Nat
      /\ slot < 4 => slot = d
      /\ slot >= 4 => d = top + Left(d)
      /\ slot >= 4 => FromLowFirst(LowFirst(d, Extra(slot))) = Left(d)
      /\ slot >= AlignedFrom =>
           Left(d) = Fixed(d) * Power[AlignBits] + FromLowFirst(LowFirst(d, AlignBits))
      /\ slot >= 4 => top \in Nat
      /\ slot >= AlignedFrom =>
           /\ Fixed(d) * Power[AlignBits] \in Nat
           /\ FromLowFirst(LowFirst(d, AlignBits)) \in Nat
  BY <1>1, DistanceTravels DEF SlotIs
<1>3. "MATCH" \in Types
  BY DEF Types
<1>4. packet'[3].value = slot
  <2>1. packet'[3] = Slotted(found)
    BY <1>3, PacketHead
  <2> QED BY <2>1 DEF Slotted, Coded
<1>5. DecodedDist' =
        1 + (IF slot < 4 THEN slot
             ELSE IF slot < AlignedFrom THEN top + FromLowFirst(packet'[4].value)
             ELSE top + packet'[4].value * Power[AlignBits] + FromLowFirst(packet'[5].value))
  BY <1>4 DEF DecodedDist
<1>6. CASE slot < 4
  BY <1>1, <1>2, <1>4, <1>5, <1>6
<1>7. CASE ~(slot < 4) /\ slot < AlignedFrom
  <2>1. packet' = <<Kind("MATCH"), CodedLen("MATCH", found.len), Slotted(found), Special(found)>>
    BY <1>3, <1>7, PacketForms
  <2>2. packet'[4].value = LowFirst(d, Extra(slot))
    BY <2>1 DEF Special, Coded
  <2> HIDE DEF top, slot
  <2>3. DecodedDist' = 1 + (top + Left(d))
    BY <1>2, <1>5, <1>7, <2>2
  <2> QED BY <1>1, <1>2, <1>4, <1>7, <2>3 DEF slot
<1>8. CASE ~(slot < 4) /\ ~(slot < AlignedFrom)
  <2>1. packet' = <<Kind("MATCH"), CodedLen("MATCH", found.len), Slotted(found),
                    Middle(found), Aligned(found)>>
    BY <1>3, <1>8, PacketForms
  <2>2. packet'[4].value = Fixed(d) /\ packet'[5].value = LowFirst(d, AlignBits)
    BY <2>1 DEF Middle, Aligned, Coded
  <2> HIDE DEF top, slot
  <2>3. DecodedDist' = 1 + (top + Fixed(d) * Power[AlignBits]
                                + FromLowFirst(LowFirst(d, AlignBits)))
    BY <1>5, <1>8, <2>2
  <2> DEFINE f == Fixed(d) * Power[AlignBits]
             l == FromLowFirst(LowFirst(d, AlignBits))
  <2>4. top \in Nat /\ f \in Nat /\ l \in Nat /\ d = top + (f + l)
    <3>1. slot >= 4 /\ slot >= AlignedFrom
      BY <1>2, <1>8, Sizes
    <3> QED BY <1>2, <3>1
  <2>5. DecodedDist' = 1 + (top + f + l)
    BY <2>3
  <2> HIDE DEF f, l
  <2>6. DecodedDist' = 1 + d
    BY <2>4, <2>5
  <2> QED BY <1>1, <1>4, <2>6 DEF slot
<1> QED BY <1>6, <1>7, <1>8

(* Both sides look at the same bytes to code a literal. *)
LEMMA ReadLiteralTable ==
  ASSUME TypeOK, Restored, InWindow,
         DecPos = enc.pos, dec.state = enc.state, dec.reps = enc.reps,
         dec' = dec, enc.pos < Len(src)
  PROVE  CodedLiteral.table = LiteralTable'
<1> DEFINE rep0 == enc.reps[1]
<1>1. /\ enc.pos \in Nat /\ rep0 \in Nat /\ rep0 > 0
      /\ DecPos' = enc.pos /\ dec'.state = enc.state /\ dec'.reps[1] = rep0
      /\ dec'.text = dec.text
  BY DEF TypeOK, Reps, DecPos
<1>2. \A i \in 1 .. enc.pos : dec.text[i] = src[i]
  BY DEF Restored
<1>3. Previous(dec.text, enc.pos) = Previous(src, enc.pos)
  BY <1>1, <1>2 DEF Previous
<1>4. CASE enc.state \in LitStates
  BY <1>1, <1>3, <1>4 DEF CodedLiteral, Coded, LiteralTable
<1>5. CASE enc.state \notin LitStates
  <2>1. rep0 <= enc.pos
    BY <1>5 DEF InWindow
  <2>2. (enc.pos - rep0) + 1 \in 1 .. enc.pos
    BY <1>1, <2>1
  <2>3. dec.text[(enc.pos - rep0) + 1] = src[(enc.pos - rep0) + 1]
    BY <1>2, <2>2
  <2>4. LiteralTable' = <<"matched", Previous(src, enc.pos), src[(enc.pos - rep0) + 1]>>
    BY <1>1, <1>3, <1>5, <2>1, <2>3 DEF LiteralTable
  <2> QED BY <1>5, <2>4 DEF CodedLiteral, Coded
<1> QED BY <1>4, <1>5

LEMMA ReadTables ==
  ASSUME TypeOK, Restored, InWindow,
         DecPos = enc.pos, dec.state = enc.state, dec.reps = enc.reps,
         dec' = dec, enc.pos < Len(src),
         NEW found, Fit(found), packet' = Packet(TypeOf(found), found)
  PROVE  Understood'
<1> DEFINE type == TypeOf(found)
           kind == <<"type", enc.state>>
           long == CodedLen(type, found.len)
           Read == [i \in DOMAIN packet' |-> packet'[i].table]
<1>1. /\ type \in Types /\ Type' = type
      /\ Kind(type).table = kind /\ dec'.state = enc.state
  BY TypeFacts, ReadTypeAndLength DEF Kind, Coded
<1>2. SUFFICES Tables' = Read
  BY DEF Understood
<1>3. type \notin {"LIT", "SHORTREP"} =>
        /\ long.table = LenTable(type)
        /\ Length' = found.len
  <2>1. type \notin {"LIT", "SHORTREP"} => found.len \in 2 .. MaxLen
    BY TypeFacts
  <2>2. type \notin {"LIT", "SHORTREP"} => Length' = found.len
    BY ReadTypeAndLength DEF Bytes
  <2> HIDE DEF type
  <2> QED BY <1>1, <2>1, <2>2, LengthTravels
<1> HIDE DEF type
<1>4. packet' = Packet(type, found)
  BY DEF type
<1>5. CASE type = "LIT"
  <2>1. packet' = <<Kind(type), CodedLiteral>>
    BY <1>1, <1>4, <1>5, PacketForms
  <2>2. Read = <<kind, LiteralTable'>>
    BY <1>1, <2>1, TablesOf, ReadLiteralTable
  <2> QED BY <1>1, <1>5, <2>2 DEF Tables
<1>6. CASE type = "SHORTREP"
  <2>1. packet' = <<Kind(type)>>
    BY <1>1, <1>4, <1>6, PacketForms
  <2>2. Read = <<kind>>
    BY <1>1, <2>1, TablesOf
  <2> QED BY <1>1, <1>6, <2>2 DEF Tables
<1>7. CASE type \notin {"LIT", "SHORTREP", "MATCH"}
  <2>1. packet' = <<Kind(type), long>>
    BY <1>1, <1>4, <1>7, PacketForms
  <2>2. Read = <<kind, LenTable(type)>>
    BY <1>1, <1>3, <1>7, <2>1, TablesOf
  <2> QED BY <1>1, <1>7, <2>2, TypeCases DEF Tables
<1>8. CASE type = "MATCH"
  <2>1. found.dist \in 1 .. MaxDist /\ TypeOf(found) = "MATCH"
    BY <1>8, TypeFacts, Sizes DEF type
  <2>2. packet'[3].value = SlotIs(found)
    BY <2>1, <1>4, <1>8, ReadDistance
  <2>3. Slotted(found).table = SlotTable(found.len)
    BY DEF Slotted, Coded
  <2>4. Tables' = <<kind, LenTable(type), SlotTable(found.len)>> \o DistTables(SlotIs(found))
    BY <1>1, <1>3, <1>8, <2>2 DEF Tables
  <2> DEFINE a == LenTable(type)
             b == SlotTable(found.len)
  <2> HIDE DEF a, b, kind
  <2>5. CASE SlotIs(found) < 4
    <3>1. packet' = <<Kind(type), long, Slotted(found)>>
      BY <1>1, <1>4, <1>8, <2>5, PacketForms
    <3>2. Read = <<kind, a, b>>
      BY <1>1, <1>3, <1>8, <2>3, <3>1, TablesOf DEF a, b
    <3>3. Tables' = <<kind, a, b>> \o <<>>
      BY <2>4, <2>5 DEF a, b, DistTables
    <3> QED BY <3>2, <3>3, Join3And0
  <2>6. CASE ~(SlotIs(found) < 4) /\ SlotIs(found) < AlignedFrom
    <3> DEFINE c == <<"special", SlotIs(found)>>
    <3>1. packet' = <<Kind(type), long, Slotted(found), Special(found)>>
      BY <1>1, <1>4, <1>8, <2>6, PacketForms
    <3>2. Special(found).table = c
      BY DEF Special, Coded
    <3> HIDE DEF c
    <3>3. Read = <<kind, a, b, c>>
      BY <1>1, <1>3, <1>8, <2>3, <3>1, <3>2, TablesOf DEF a, b
    <3>4. Tables' = <<kind, a, b>> \o <<c>>
      BY <2>4, <2>6 DEF a, b, c, DistTables
    <3> QED BY <3>3, <3>4, Join3And1
  <2>7. CASE ~(SlotIs(found) < 4) /\ ~(SlotIs(found) < AlignedFrom)
    <3> DEFINE c == <<"fixed">>
               e == <<"align">>
    <3>1. packet' = <<Kind(type), long, Slotted(found), Middle(found), Aligned(found)>>
      BY <1>1, <1>4, <1>8, <2>7, PacketForms
    <3>2. Middle(found).table = c /\ Aligned(found).table = e
      BY DEF Middle, Aligned, Coded
    <3> HIDE DEF c, e
    <3>3. Read = <<kind, a, b, c, e>>
      BY <1>1, <1>3, <1>8, <2>3, <3>1, <3>2, TablesOf DEF a, b
    <3>4. Tables' = <<kind, a, b>> \o <<c, e>>
      BY <2>4, <2>7 DEF a, b, c, e, DistTables
    <3> QED BY <3>3, <3>4, Join3And2
  <2> QED BY <2>5, <2>6, <2>7
<1> QED BY <1>5, <1>6, <1>7, <1>8

(* The repeated distances turn the same way on both sides. *)
Turned(r, type, read) ==
  << IF type = "LIT" THEN r[1] ELSE read,
     IF type \in {"MATCH", "REP3", "REP2", "REP1"} THEN r[1] ELSE r[2],
     IF type \in {"MATCH", "REP3", "REP2"} THEN r[2] ELSE r[3],
     IF type \in {"MATCH", "REP3"} THEN r[3] ELSE r[4] >>

LEMMA FourReps ==
  ASSUME NEW r \in Reps
  PROVE  /\ r = <<r[1], r[2], r[3], r[4]>>
         /\ \A i \in 1 .. 4 : r[i] \in Nat \ {0}
<1>1. DOMAIN r = 1 .. 4 /\ \A i \in 1 .. 4 : r[i] \in Nat \ {0}
  BY DEF Reps
<1>2. r = [i \in 1 .. 4 |-> r[i]]
  BY DEF Reps
<1> QED BY <1>1, <1>2

LEMMA RepsTurn ==
  ASSUME TypeOK, NEW type \in Types, NEW dist, NEW read,
         type \notin {"LIT", "SHORTREP"} => read = dist,
         type \in {"SHORTREP", "REP0"} => read = enc.reps[1],
         read \in Nat \ {0} \/ type = "LIT"
  PROVE  /\ EncReps(type, dist) = Turned(enc.reps, type, read)
         /\ EncReps(type, dist) \in Reps
         /\ type # "LIT" => EncReps(type, dist)[1] = read
<1> DEFINE r == enc.reps
<1>1. /\ r = <<r[1], r[2], r[3], r[4]>> /\ r \in Reps
      /\ r[1] \in Nat \ {0} /\ r[2] \in Nat \ {0} /\ r[3] \in Nat \ {0} /\ r[4] \in Nat \ {0}
  <2>1. r \in Reps
    BY DEF TypeOK
  <2> HIDE DEF r
  <2> QED BY <2>1, FourReps
<1>2. EncReps(type, dist) =
        CASE type = "REP1" -> <<dist, r[1], r[3], r[4]>>
          [] type = "REP2" -> <<dist, r[1], r[2], r[4]>>
          [] type \in {"REP3", "MATCH"} -> <<dist, r[1], r[2], r[3]>>
          [] OTHER -> r
  BY DEF EncReps
<1> HIDE DEF r
<1>3. /\ type \in {"SHORTREP", "REP0"} => r[1] = read
      /\ Turned(enc.reps, type, read) = Turned(r, type, read)
  BY DEF r
<1>4. CASE type \in {"LIT", "SHORTREP", "REP0"}
  <2>1. EncReps(type, dist) = r
    BY <1>2, <1>4
  <2>2. Turned(r, type, read) = <<r[1], r[2], r[3], r[4]>>
    BY <1>3, <1>4 DEF Turned
  <2> QED BY <1>1, <1>3, <1>4, <2>1, <2>2
<1>5. CASE type = "REP1"
  <2>1. EncReps(type, dist) = <<read, r[1], r[3], r[4]>>
    BY <1>2, <1>5
  <2>2. Turned(r, type, read) = <<read, r[1], r[3], r[4]>>
    BY <1>5 DEF Turned
  <2> QED BY <1>1, <1>3, <1>5, <2>1, <2>2 DEF Reps
<1>6. CASE type = "REP2"
  <2>1. EncReps(type, dist) = <<read, r[1], r[2], r[4]>>
    BY <1>2, <1>6
  <2>2. Turned(r, type, read) = <<read, r[1], r[2], r[4]>>
    BY <1>6 DEF Turned
  <2> QED BY <1>1, <1>3, <1>6, <2>1, <2>2 DEF Reps
<1>7. CASE type \in {"REP3", "MATCH"}
  <2>1. EncReps(type, dist) = <<read, r[1], r[2], r[3]>>
    BY <1>2, <1>7
  <2>2. Turned(r, type, read) = <<read, r[1], r[2], r[3]>>
    BY <1>7 DEF Turned
  <2> QED BY <1>1, <1>3, <1>7, <2>1, <2>2 DEF Reps
<1> QED BY <1>4, <1>5, <1>6, <1>7 DEF Types

(* One packet: what the encoder did is what the decoder will be told. *)
LEMMA Sent ==
  ASSUME IInv, Encoding, NEW found, Fit(found), Send(found)
  PROVE  /\ packet' # <<>> /\ OnTheWay' /\ InWindow'
         /\ enc' \in [pos : 0 .. Len(src), state : 0 .. 11, reps : Reps]
         /\ enc'.pos = enc.pos + Bytes(TypeOf(found), found.len)
<1> DEFINE type == TypeOf(found)
           n    == Bytes(type, found.len)
           read == IF type = "LIT" THEN 0
                   ELSE IF type = "SHORTREP" THEN enc.reps[1] ELSE found.dist
<1>1. /\ result = "going" /\ packet = <<>> /\ copy.len = 0 /\ enc.pos < Len(src)
      /\ src' = src /\ dec' = dec /\ copy' = copy /\ result' = result
  BY DEF Encoding
<1>2. /\ packet' = Packet(type, found)
      /\ enc' = [pos |-> enc.pos + n, state |-> NextState(enc.state, type),
                 reps |-> EncReps(type, found.dist)]
  BY DEF Send
<1>3. /\ TypeOK /\ Restored /\ InWindow
      /\ DecPos = enc.pos /\ dec.state = enc.state /\ dec.reps = enc.reps
  BY <1>1 DEF IInv, Between
<1>4. /\ enc.pos \in Nat /\ enc.state \in 0 .. 11 /\ Len(src) \in Nat
      /\ \A i \in 1 .. 4 : enc.reps[i] \in Nat \ {0}
      /\ DecPos' = enc.pos
  BY <1>1, <1>3, SizesAssumption DEF TypeOK, Reps, DecPos
<1>5. type \in Types
  BY TypeFacts
<1>6. /\ packet' # <<>> /\ Type' = type /\ Length' = n /\ n \in 1 .. MaxLen
  BY <1>2, ReadTypeAndLength
<1>7. Understood'
  BY <1>1, <1>2, <1>3, ReadTables
<1>8. Distance' = read
  <2>1. type = "MATCH" => DecodedDist' = found.dist
    <3>1. type = "MATCH" => found.dist \in 1 .. MaxDist
      BY TypeFacts, Sizes
    <3> QED BY <1>2, <3>1, ReadDistance
  <2>2. /\ type = "REP0" => enc.reps[1] = found.dist
        /\ type = "REP1" => enc.reps[2] = found.dist
        /\ type = "REP2" => enc.reps[3] = found.dist
        /\ type = "REP3" => enc.reps[4] = found.dist
    BY TypeFacts
  <2>3. dec'.reps = enc.reps
    BY <1>1, <1>3
  <2> HIDE DEF type
  <2> QED BY <1>5, <1>6, <2>1, <2>2, <2>3 DEF Distance, Types
<1>9. type # "LIT" =>
        read \in Nat /\ read > 0 /\ read <= enc.pos /\ Agree(enc.pos, read, n)
  <2>1. CASE type = "SHORTREP"
    <3>1. Agree(enc.pos, enc.reps[1], 1) /\ n = 1
      BY <2>1, TypeFacts DEF Bytes
    <3> QED BY <1>4, <2>1, <3>1 DEF Agree
  <2>2. CASE type \notin {"LIT", "SHORTREP"}
    <3>1. /\ found.dist \in Nat /\ found.dist > 0 /\ n = found.len
          /\ Agree(enc.pos, found.dist, found.len)
      BY <2>2, TypeFacts DEF Bytes
    <3> QED BY <2>2, <3>1 DEF Agree
  <2> QED BY <2>1, <2>2
<1>10. type = "LIT" => n = 1
  BY DEF Bytes
<1>11. enc.pos + n <= Len(src)
  BY <1>1, <1>4, <1>6, <1>9, <1>10 DEF Agree
<1>12. /\ EncReps(type, found.dist) = Turned(enc.reps, type, read)
       /\ EncReps(type, found.dist) \in Reps
       /\ type # "LIT" => EncReps(type, found.dist)[1] = read
  <2>1. /\ type \notin {"LIT", "SHORTREP"} => read = found.dist
        /\ type \in {"SHORTREP", "REP0"} => read = enc.reps[1]
    BY TypeFacts
  <2>2. read \in Nat \ {0} \/ type = "LIT"
    BY <1>9
  <2> HIDE DEF type, read
  <2> QED BY <1>3, <1>5, <2>1, <2>2, RepsTurn
<1>13. /\ NextState(enc.state, type) \in 0 .. 11
       /\ type = "LIT" => NextState(enc.state, type) \in LitStates
  BY <1>4, <1>5, StateBound
<1>14. enc' \in [pos : 0 .. Len(src), state : 0 .. 11, reps : Reps]
  <2>1. enc.pos + n \in 0 .. Len(src)
    BY <1>4, <1>6, <1>11, Sizes
  <2> HIDE DEF n, type
  <2> QED BY <1>2, <1>12, <1>13, <2>1
<1>15. InWindow'
  <2>1. type # "LIT" => enc'.reps[1] <= enc'.pos
    <3>1. type # "LIT" => enc'.reps[1] = read
      BY <1>2, <1>12
    <3>2. enc'.pos = enc.pos + n
      BY <1>2
    <3> HIDE DEF type, n, read
    <3> QED BY <1>4, <1>6, <1>9, <3>1, <3>2, Sizes
  <2>2. type = "LIT" => enc'.state \in LitStates
    BY <1>2, <1>13
  <2> QED BY <2>1, <2>2 DEF InWindow
<1>16. type = "LIT" => packet'[2].value = src[enc.pos + 1]
  <2>1. type = "LIT" => packet' = <<Kind(type), CodedLiteral>>
    BY <1>2, <1>5, PacketForms
  <2> HIDE DEF type
  <2> QED BY <2>1 DEF CodedLiteral, Coded
<1>17. OnTheWay'
  <2> HIDE DEF type, n, read
  <2>1. /\ result' = "going" /\ copy'.len = 0 /\ Understood'
        /\ Type' \in Types /\ Length' \in 1 .. MaxLen
    BY <1>1, <1>5, <1>6, <1>7
  <2>2. Distance' \in Nat
    BY <1>8, <1>9 DEF read
  <2>3. enc'.pos = DecPos' + Length' /\ enc'.state = NextState(dec'.state, Type')
    BY <1>1, <1>2, <1>3, <1>4, <1>6
  <2>4. enc'.reps = DecReps(Type, Distance)'
    <3>1. enc'.reps = Turned(enc.reps, Type', Distance') /\ dec'.reps = enc.reps
      BY <1>1, <1>2, <1>3, <1>6, <1>8, <1>12
    <3> QED BY <3>1 DEF DecReps, Turned
  <2>5. Type' = "LIT" => Length' = 1 /\ Distance' = 0 /\ packet'[2].value = src'[DecPos' + 1]
    BY <1>1, <1>4, <1>6, <1>8, <1>10, <1>16 DEF read
  <2>6. Type' # "LIT" => Distance' > 0 /\ Agree(DecPos, Distance, Length)'
    BY <1>1, <1>4, <1>6, <1>8, <1>9 DEF Agree
  <2> QED BY <2>1, <2>2, <2>3, <2>4, <2>5, <2>6 DEF OnTheWay
<1> QED BY <1>2, <1>6, <1>14, <1>15, <1>17

-----------------------------------------------------------------------------
(* Every step keeps the invariant.                                          *)

LEMMA OffersFit ==
  ASSUME NEW pos, NEW found \in Offers(pos)
  PROVE  \/ found = NoMatch
         \/ /\ found.len \in 2 .. MaxLen /\ found.dist \in 1 .. MaxDist
            /\ Agree(pos, found.dist, found.len)
<1>1. found = NoMatch \/ found \in Matches(pos)
  BY DEF Offers
<1>2. CASE found \in Matches(pos)
  BY <1>2 DEF Matches
<1> QED BY <1>1, <1>2

LEMMA NoMatchFits == Fit(NoMatch) /\ NoMatch.len = 0
BY DEF Fit, NoMatch

LEMMA OneByte ==
  ASSUME NEW found, Fit(found)
  PROVE  Bytes(TypeOf(found), found.len) = IF found.len = 0 THEN 1 ELSE found.len
<1>1. TypeOf(found) \in {"LIT", "SHORTREP"} => found.len = 0
  BY TypeFacts
<1>2. TypeOf(found) \notin {"LIT", "SHORTREP"} => found.len # 0
  BY TypeFacts, Sizes
<1> QED BY <1>1, <1>2 DEF Bytes

LEMMA SendKeeps ==
  ASSUME IInv, Encoding, NEW found, Fit(found), Send(found),
         later' \in [wait : {0, 1}, match : [len : 0 .. MaxLen, dist : 0 .. MaxDist]],
         Deferred'
  PROVE  IInv'
<1>1. /\ packet' # <<>> /\ OnTheWay' /\ InWindow'
      /\ enc' \in [pos : 0 .. Len(src), state : 0 .. 11, reps : Reps]
  BY Sent
<1>2. /\ result = "going" /\ copy.len = 0
      /\ src' = src /\ dec' = dec /\ copy' = copy /\ result' = result
  BY DEF Encoding
<1>3. TypeOK'
  BY <1>1, <1>2 DEF IInv, TypeOK
<1>4. Restored'
  BY <1>2 DEF IInv, Restored, DecPos
<1>5. Copying' /\ Between'
  <2>1. ~(copy'.len > 0)
    BY <1>2
  <2> QED BY <1>1, <2>1 DEF Copying, Between
<1> QED BY <1>1, <1>2, <1>3, <1>4, <1>5 DEF IInv

(* The encoder's five ways on. *)
LEMMA EncoderKeeps ==
  ASSUME IInv, PassOver \/ TakeDeferred \/ TakeNow \/ DeferByOne \/ DeferByTwo
  PROVE  IInv'
<1> DEFINE Laters == [wait : {0, 1}, match : [len : 0 .. MaxLen, dist : 0 .. MaxDist]]
<1>1. /\ later \in Laters /\ enc.pos \in Nat /\ Deferred
  BY SizesAssumption DEF IInv, TypeOK
<1>2. \A found : Fit(found) /\ Encoding /\ Send(found) =>
        enc'.pos = enc.pos + IF found.len = 0 THEN 1 ELSE found.len
  BY Sent, OneByte
<1>3. NoMatch \in [len : 0 .. MaxLen, dist : 0 .. MaxDist]
  BY Sizes DEF NoMatch
<1>4. \A pos : \A found \in Offers(pos) :
        found \in [len : 0 .. MaxLen, dist : 0 .. MaxDist]
  BY <1>3, Sizes DEF Offers, Matches
<1>5. Encoding => src' = src
  BY DEF Encoding
<1>6. CASE PassOver
  <2>1. /\ Encoding /\ Send(NoMatch) /\ Fit(NoMatch) /\ NoMatch.len = 0
        /\ later.wait = 1 /\ later' = [wait |-> 0, match |-> later.match]
    BY <1>1, <1>6, NoMatchFits DEF PassOver
  <2>2. enc'.pos = enc.pos + 1
    BY <1>2, <2>1
  <2>3. later' \in Laters
    BY <1>1, <2>1
  <2>4. Deferred'
    BY <1>1, <1>5, <2>1, <2>2 DEF Deferred, Agree
  <2> QED BY <2>1, <2>3, <2>4, SendKeeps
<1>7. CASE TakeDeferred
  <2>1. /\ Encoding /\ Send(later.match) /\ later' = [wait |-> 0, match |-> NoMatch]
        /\ later.wait = 0 /\ later.match.len > 0
    BY <1>7 DEF TakeDeferred, None
  <2>2. Fit(later.match)
    BY <1>1, <2>1, Sizes DEF Deferred, NoMatch, Fit
  <2>3. later' \in Laters /\ Deferred'
    BY <1>3, <2>1 DEF Deferred
  <2> QED BY <2>1, <2>2, <2>3, SendKeeps
<1>8. CASE TakeNow
  <2>1. PICK found \in Offers(enc.pos) : Send(found)
    BY <1>8 DEF TakeNow
  <2>2. Encoding /\ later = None /\ later' = later
    BY <1>8 DEF TakeNow, Searching
  <2>3. Fit(found)
    BY <2>1, OffersFit, NoMatchFits, Sizes DEF Fit
  <2>4. later' \in Laters /\ Deferred'
    BY <1>3, <2>2 DEF Deferred, None
  <2> QED BY <2>1, <2>2, <2>3, <2>4, SendKeeps
<1>9. CASE DeferByOne
  <2>1. PICK match \in Offers(enc.pos + 1) : later' = [wait |-> 0, match |-> match]
    BY <1>9 DEF DeferByOne
  <2>2. Encoding /\ Send(NoMatch) /\ Fit(NoMatch) /\ NoMatch.len = 0
    BY <1>9, NoMatchFits DEF DeferByOne, Searching
  <2>3. enc'.pos = enc.pos + 1
    BY <1>2, <2>2
  <2>4. later' \in Laters
    BY <1>4, <2>1
  <2>5. Deferred'
    <3>1. \/ match = NoMatch
          \/ /\ match.len \in 2 .. MaxLen /\ match.dist \in 1 .. MaxDist
             /\ Agree(enc.pos + 1, match.dist, match.len)
      BY <2>1, OffersFit
    <3> QED BY <1>1, <1>5, <2>1, <2>2, <2>3, <3>1 DEF Deferred, Agree
  <2> QED BY <2>2, <2>4, <2>5, SendKeeps
<1>10. CASE DeferByTwo
  <2> DEFINE filler == TwoByRep(enc.pos)
             w == Wait(filler)
  <2>1. PICK match \in Offers(enc.pos + 2) : later' = [wait |-> w, match |-> match]
    BY <1>10 DEF DeferByTwo
  <2>2. Encoding /\ Send(filler)
    BY <1>10 DEF DeferByTwo, Searching
  <2>3. /\ Fit(filler)
        /\ filler.len = 0 \/ filler.len = 2
    <3> DEFINE fit == {i \in 1 .. 4 : Agree(enc.pos, enc.reps[i], 2)}
               hit == CHOOSE i \in fit : \A j \in fit : i <= j
    <3>1. CASE fit = {}
      <4>1. filler = NoMatch
        BY <3>1 DEF TwoByRep
      <4> HIDE DEF filler
      <4> QED BY <4>1, NoMatchFits
    <3>2. CASE fit # {}
      <4>1. filler = [len |-> 2, dist |-> enc.reps[hit]]
        BY <3>2 DEF TwoByRep
      <4>2. fit \subseteq Nat /\ fit \subseteq 1 .. 4
        OBVIOUS
      <4>3. \A i \in fit : Agree(enc.pos, enc.reps[i], 2)
        OBVIOUS
      <4> HIDE DEF fit
      <4>4. hit \in fit
        BY <3>2, <4>2, Least
      <4> HIDE DEF hit, filler
      <4>5. hit \in 1 .. 4 /\ Agree(enc.pos, enc.reps[hit], 2) /\ enc.reps[hit] \in Nat \ {0}
        BY <4>2, <4>3, <4>4 DEF IInv, TypeOK, Reps
      <4>6. filler.len = 2 /\ filler.dist = enc.reps[hit] /\ 2 \in 2 .. MaxLen
        BY <4>1, Sizes
      <4> QED BY <4>5, <4>6 DEF Fit
    <3> QED BY <3>1, <3>2
  <2> HIDE DEF filler
  <2>4. w \in {0, 1} /\ enc'.pos + w = enc.pos + 2
    <3>1. enc'.pos = enc.pos + IF filler.len = 0 THEN 1 ELSE filler.len
      BY <1>2, <2>2, <2>3
    <3> QED BY <1>1, <2>3, <3>1 DEF Wait
  <2> HIDE DEF w
  <2>5. later' \in Laters
    BY <1>4, <2>1, <2>4
  <2>6. Deferred'
    <3>1. \/ match = NoMatch
          \/ /\ match.len \in 2 .. MaxLen /\ match.dist \in 1 .. MaxDist
             /\ Agree(enc.pos + 2, match.dist, match.len)
      BY <2>1, OffersFit
    <3>2. later'.wait = w /\ later'.match = match /\ src' = src
      BY <1>5, <2>1, <2>2
    <3> QED BY <2>4, <3>1, <3>2 DEF Deferred, Agree
  <2> QED BY <2>2, <2>3, <2>5, <2>6, SendKeeps
<1> QED BY <1>6, <1>7, <1>8, <1>9, <1>10

(* A packet is read as it was sent, so it is not refused. *)
LEMMA DecodeKeeps ==
  ASSUME IInv, Decode
  PROVE  IInv'
<1>1. /\ result = "going" /\ copy.len = 0 /\ packet # <<>> /\ packet' = <<>>
      /\ UNCHANGED <<src, enc, later>> /\ result' = Verdict
  BY DEF Decode
<1>2. /\ Understood /\ Type \in Types
      /\ Length \in 1 .. MaxLen /\ Distance \in Nat
      /\ enc.pos = DecPos + Length
      /\ enc.state = NextState(dec.state, Type)
      /\ enc.reps = DecReps(Type, Distance)
      /\ Type = "LIT" => Length = 1 /\ Distance = 0 /\ packet[2].value = src[DecPos + 1]
      /\ Type # "LIT" => Distance > 0 /\ Agree(DecPos, Distance, Length)
  BY <1>1 DEF IInv, OnTheWay
<1>3. /\ TypeOK /\ src \in Seq(Nat) /\ Len(src) \in Nat /\ dec.text \in Seq(Nat)
      /\ DecPos \in Nat /\ DecPos + Length <= Len(src)
  BY <1>2, SizesAssumption DEF IInv, TypeOK, DecPos
<1>4. Verdict = "going"
  <2>1. Distance <= DecPos
    BY <1>2, <1>3 DEF Agree
  <2> QED BY <1>2, <1>3, <2>1 DEF Verdict
<1> DEFINE byte == IF Type = "LIT" THEN packet[2].value ELSE copy.byte
<1>5. /\ dec' = [text |-> dec.text, state |-> enc.state, reps |-> enc.reps]
      /\ copy' = [len |-> Length, dist |-> Distance, byte |-> byte]
  <2>1. /\ dec' = [dec EXCEPT !.state = NextState(@, Type), !.reps = DecReps(Type, Distance)]
        /\ copy' = [len |-> Length, dist |-> Distance, byte |-> byte]
    BY <1>4 DEF Decode
  <2>2. dec \in [text : Seq(Nat), state : 0 .. 11, reps : Reps]
    BY <1>3 DEF TypeOK
  <2>3. dec' = [text |-> dec.text, state |-> enc.state, reps |-> enc.reps]
    BY <1>2, <2>1, <2>2
  <2> QED BY <2>1, <2>3
<1>6. byte \in Nat /\ (Distance = 0 => byte = src[DecPos + 1])
  <2>1. CASE Type = "LIT"
    <3>1. DecPos + 1 \in 1 .. Len(src)
      BY <1>2, <1>3, <2>1
    <3> QED BY <1>2, <1>3, <2>1, <3>1
  <2>2. CASE Type # "LIT"
    BY <1>2, <1>3, <2>2 DEF TypeOK
  <2> QED BY <2>1, <2>2
<1> HIDE DEF byte
<1>7. DecPos' = DecPos
  BY <1>5 DEF DecPos
<1>8. TypeOK'
  <2>1. enc.state \in 0 .. 11 /\ enc.reps \in Reps
    BY <1>3 DEF TypeOK
  <2>2. copy' \in [len : 0 .. MaxLen, dist : Nat, byte : Nat]
    BY <1>2, <1>5, <1>6, Sizes
  <2> QED BY <1>1, <1>3, <1>4, <1>5, <2>1, <2>2 DEF TypeOK
<1>9. Restored'
  BY <1>1, <1>5, <1>7 DEF IInv, Restored
<1>10. InWindow' /\ OnTheWay'
  BY <1>1 DEF IInv, InWindow, OnTheWay
<1>11. Copying' /\ Between'
  <2>1. /\ copy'.len = Length /\ copy'.dist = Distance /\ copy'.byte = byte
        /\ dec'.state = enc.state /\ dec'.reps = enc.reps
    BY <1>5
  <2>2. Distance = 0 => Type = "LIT"
    BY <1>2
  <2>3. Copying'
    BY <1>1, <1>2, <1>4, <1>6, <1>7, <2>1, <2>2 DEF Copying, Agree
  <2>4. Between'
    BY <1>2, <2>1, Sizes DEF Between
  <2> QED BY <2>3, <2>4
<1>12. Deferred'
  BY <1>1 DEF IInv, Deferred, Agree
<1> QED BY <1>1, <1>4, <1>8, <1>9, <1>10, <1>11, <1>12 DEF IInv

(* The first byte of a match, and the rest of it. *)
LEMMA AgreeOn ==
  ASSUME src \in Seq(Nat), NEW pos \in Nat, NEW dist \in Nat, NEW n \in Nat, n > 0,
         Agree(pos, dist, n)
  PROVE  /\ dist <= pos /\ src[pos + 1] = src[(pos - dist) + 1]
         /\ Agree(pos + 1, dist, n - 1)
<1>1. /\ dist <= pos /\ pos + n <= Len(src)
      /\ \A i \in 1 .. n : src[pos + i] = src[pos + i - dist]
  BY DEF Agree
<1>2. \A i \in 1 .. n : pos + i - dist = (pos - dist) + i
  OBVIOUS
<1>3. src[pos + 1] = src[(pos - dist) + 1]
  BY <1>1, <1>2
<1>4. ASSUME NEW i \in 1 .. n - 1
      PROVE  src[(pos + 1) + i] = src[(pos + 1) + i - dist]
  <2>1. i + 1 \in 1 .. n
    OBVIOUS
  <2>2. src[pos + (i + 1)] = src[pos + (i + 1) - dist]
    BY <1>1, <2>1
  <2>3. /\ (pos + 1) + i = pos + (i + 1)
        /\ (pos + 1) + i - dist = pos + (i + 1) - dist
    OBVIOUS
  <2> QED BY <2>2, <2>3
<1>5. dist <= pos + 1 /\ (pos + 1) + (n - 1) <= Len(src)
  <2>1. Len(src) \in Nat /\ (pos + 1) + (n - 1) = pos + n
    OBVIOUS
  <2> QED BY <1>1, <2>1
<1> QED BY <1>1, <1>3, <1>4, <1>5 DEF Agree

(* Every byte put back is the one of the text. *)
LEMMA CopyByteKeeps ==
  ASSUME IInv, CopyByte
  PROVE  IInv'
<1> DEFINE byte == IF copy.dist = 0 THEN copy.byte ELSE dec.text[DecPos - copy.dist + 1]
<1>1. /\ copy.len > 0 /\ UNCHANGED <<src, enc, later, packet, result>>
      /\ dec' = [dec EXCEPT !.text = Append(@, byte)]
      /\ copy' = [copy EXCEPT !.len = @ - 1, !.byte = byte]
  BY DEF CopyByte
<1>2. /\ result = "going" /\ packet = <<>>
      /\ enc.pos = DecPos + copy.len
      /\ dec.state = enc.state /\ dec.reps = enc.reps
      /\ copy.dist = 0 => copy.len = 1 /\ copy.byte = src[DecPos + 1]
      /\ copy.dist > 0 => Agree(DecPos, copy.dist, copy.len)
  BY <1>1 DEF IInv, Copying
<1>3. /\ TypeOK /\ src \in Seq(Nat) /\ Len(src) \in Nat /\ dec.text \in Seq(Nat)
      /\ DecPos \in Nat /\ copy.len \in 1 .. MaxLen /\ copy.len \in Nat /\ copy.dist \in Nat
      /\ enc.pos \in 0 .. Len(src)
      /\ \A i \in 1 .. DecPos : dec.text[i] = src[i]
  <2>1. /\ TypeOK /\ src \in Seq(Nat) /\ Len(src) \in Nat
        /\ enc.pos \in 0 .. Len(src)
    BY SizesAssumption DEF IInv, TypeOK
  <2>2. copy.len \in 0 .. MaxLen /\ copy.dist \in Nat /\ dec.text \in Seq(Nat)
    BY <2>1 DEF TypeOK
  <2>3. DecPos \in Nat
    BY <2>2 DEF DecPos
  <2>4. \A i \in 1 .. DecPos : dec.text[i] = src[i]
    BY DEF IInv, Restored
  <2>5. copy.len > 0
    BY <1>1
  <2>6. copy.len \in 1 .. MaxLen /\ copy.len \in Nat
    BY <2>2, <2>5, Sizes
  <2> QED BY <2>1, <2>2, <2>3, <2>4, <2>6
<1>4. DecPos + 1 \in 1 .. Len(src) /\ src[DecPos + 1] \in Nat
  BY <1>2, <1>3
<1>5. byte = src[DecPos + 1]
  <2>1. CASE copy.dist = 0
    BY <1>2, <2>1
  <2>2. CASE copy.dist > 0
    <3>1. copy.dist <= DecPos /\ src[DecPos + 1] = src[(DecPos - copy.dist) + 1]
      <4>1. /\ src \in Seq(Nat) /\ DecPos \in Nat /\ copy.dist \in Nat /\ copy.len \in Nat
            /\ copy.len > 0 /\ Agree(DecPos, copy.dist, copy.len)
        BY <1>1, <1>2, <1>3, <2>2
      <4> QED BY <4>1, AgreeOn
    <3>2. (DecPos - copy.dist) + 1 \in 1 .. DecPos
      <4>1. DecPos \in Nat /\ copy.dist \in Nat
        BY <1>3
      <4> QED BY <2>2, <3>1, <4>1
    <3>3. byte = dec.text[(DecPos - copy.dist) + 1]
      BY <2>2
    <3>4. dec.text[(DecPos - copy.dist) + 1] = src[(DecPos - copy.dist) + 1]
      BY <1>3, <3>2
    <3> HIDE DEF byte
    <3> QED BY <3>1, <3>3, <3>4
  <2> QED BY <1>3, <2>1, <2>2
<1> HIDE DEF byte
<1>6. /\ dec' = [text |-> Append(dec.text, byte), state |-> dec.state, reps |-> dec.reps]
      /\ copy' = [len |-> copy.len - 1, dist |-> copy.dist, byte |-> byte]
  <2>1. /\ dec \in [text : Seq(Nat), state : 0 .. 11, reps : Reps]
        /\ copy \in [len : 0 .. MaxLen, dist : Nat, byte : Nat]
    BY <1>3 DEF TypeOK
  <2> QED BY <1>1, <2>1
<1>7. /\ DecPos' = DecPos + 1 /\ dec'.text \in Seq(Nat)
      /\ \A i \in 1 .. DecPos + 1 : dec'.text[i] = src[i]
  <2>1. dec'.text \in Seq(Nat) /\ Len(dec'.text) = DecPos + 1
    BY <1>3, <1>4, <1>5, <1>6 DEF DecPos
  <2>2. ASSUME NEW i \in 1 .. DecPos + 1
        PROVE  dec'.text[i] = src[i]
    BY <1>3, <1>5, <1>6 DEF DecPos
  <2> QED BY <2>1, <2>2 DEF DecPos
<1>8. TypeOK'
  <2>1. copy' \in [len : 0 .. MaxLen, dist : Nat, byte : Nat]
    BY <1>3, <1>4, <1>5, <1>6, Sizes
  <2>2. dec' \in [text : Seq(Nat), state : 0 .. 11, reps : Reps]
    BY <1>3, <1>6, <1>7 DEF TypeOK
  <2> QED BY <1>1, <1>3, <2>1, <2>2 DEF TypeOK
<1>9. Restored'
  <2>1. DecPos + 1 <= Len(src)
    BY <1>3, <1>4
  <2>2. DecPos' <= Len(src') /\ \A i \in 1 .. DecPos' : dec'.text[i] = src'[i]
    BY <1>1, <1>7, <2>1
  <2> QED BY <2>2 DEF Restored
<1>10. InWindow' /\ OnTheWay'
  BY <1>1, <1>2 DEF IInv, InWindow, OnTheWay
<1>11. Copying'
  <2> SUFFICES ASSUME copy'.len > 0
               PROVE  Copying'
    BY DEF Copying
  <2>1. copy.len > 1 /\ copy.dist > 0
    <3>1. copy'.len = copy.len - 1
      BY <1>6
    <3>2. copy.len > 1
      BY <1>3, <3>1
    <3> QED BY <1>2, <1>3, <3>2
  <2>2. Agree(DecPos + 1, copy.dist, copy.len - 1)
    <3>1. /\ src \in Seq(Nat) /\ DecPos \in Nat /\ copy.dist \in Nat /\ copy.len \in Nat
          /\ copy.len > 0 /\ Agree(DecPos, copy.dist, copy.len)
      BY <1>1, <1>2, <1>3, <2>1
    <3> QED BY <3>1, AgreeOn
  <2>3. Agree(DecPos, copy.dist, copy.len)'
    BY <1>1, <1>6, <1>7, <2>2 DEF Agree
  <2>4. /\ copy'.len = copy.len - 1 /\ copy'.dist = copy.dist
        /\ enc'.pos = DecPos' + copy'.len
    BY <1>1, <1>2, <1>3, <1>6, <1>7
  <2> QED BY <1>1, <1>2, <1>6, <2>1, <2>3, <2>4 DEF Copying
<1>12. Between'
  BY <1>1, <1>2, <1>3, <1>6, <1>7 DEF Between
<1>13. Deferred'
  BY <1>1 DEF IInv, Deferred, Agree
<1> QED BY <1>1, <1>2, <1>8, <1>9, <1>10, <1>11, <1>12, <1>13 DEF IInv

LEMMA ReturnKeeps ==
  ASSUME IInv, Return
  PROVE  IInv'
<1>1. /\ result = "going" /\ copy.len = 0 /\ DecPos >= Len(src) /\ result' = "ok"
      /\ UNCHANGED <<src, enc, later, packet, dec, copy>>
  BY DEF Return
<1>2. DecPos = Len(src) /\ DecPos \in Nat
  BY <1>1, SizesAssumption DEF IInv, TypeOK, Restored, DecPos
<1>3. packet = <<>>
  <2> SUFFICES ASSUME packet # <<>>
               PROVE  FALSE
    OBVIOUS
  <2>1. enc.pos = DecPos + Length /\ Length \in 1 .. MaxLen
    BY DEF IInv, OnTheWay
  <2>2. enc.pos \in 0 .. Len(src)
    BY DEF IInv, TypeOK
  <2> QED BY <1>2, <2>1, <2>2, Sizes
<1>4. DecPos' = DecPos
  BY <1>1 DEF DecPos
<1>5. TypeOK' /\ Restored' /\ InWindow' /\ OnTheWay' /\ Copying' /\ Between' /\ Deferred'
  BY <1>1, <1>3, <1>4
  DEF IInv, TypeOK, Restored, InWindow, OnTheWay, Copying, Between, Deferred, Agree
<1> QED BY <1>1, <1>2, <1>4, <1>5 DEF IInv

-----------------------------------------------------------------------------
(* The theorems.                                                            *)

LEMMA InitOK == Init => IInv
<1> SUFFICES ASSUME Init
             PROVE  IInv
  OBVIOUS
<1>1. <<1, 1, 1, 1>> \in Reps
  BY DEF Reps
<1>2. src \in Seq(Nat) /\ Len(src) \in Nat /\ DecPos = 0
  BY SizesAssumption DEF Init, DecPos
<1>3. TypeOK
  <2>1. dec \in [text : Seq(Nat), state : 0 .. 11, reps : Reps]
    <3>1. <<>> \in Seq(Nat)
      OBVIOUS
    <3> QED BY <1>1, <3>1 DEF Init
  <2>2. enc \in [pos : 0 .. Len(src), state : 0 .. 11, reps : Reps]
    BY <1>1, <1>2 DEF Init
  <2>3. later \in [wait : {0, 1}, match : [len : 0 .. MaxLen, dist : 0 .. MaxDist]]
    BY Sizes DEF Init, None, NoMatch
  <2>4. copy \in [len : 0 .. MaxLen, dist : Nat, byte : Nat]
    BY Sizes DEF Init
  <2> QED BY <2>1, <2>2, <2>3, <2>4 DEF Init, TypeOK
<1>4. Restored
  BY <1>2 DEF Restored
<1>5. InWindow /\ OnTheWay /\ Copying /\ Between /\ Deferred
  BY <1>2 DEF Init, InWindow, OnTheWay, Copying, Between, Deferred, None, LitStates
<1> QED BY <1>3, <1>4, <1>5 DEF Init, IInv

LEMMA NextOK == IInv /\ [Next]_vars => IInv'
<1> SUFFICES ASSUME IInv, [Next]_vars
             PROVE  IInv'
  OBVIOUS
<1>1. CASE PassOver \/ TakeDeferred \/ TakeNow \/ DeferByOne \/ DeferByTwo
  BY <1>1, EncoderKeeps
<1>2. CASE Decode
  BY <1>2, DecodeKeeps
<1>3. CASE CopyByte
  BY <1>3, CopyByteKeeps
<1>4. CASE Return
  BY <1>4, ReturnKeeps
<1>5. CASE UNCHANGED vars
  <2>1. /\ src' = src /\ enc' = enc /\ later' = later /\ packet' = packet
        /\ dec' = dec /\ copy' = copy /\ result' = result
    BY <1>5 DEF vars
  <2>2. /\ DecPos' = DecPos /\ Type' = Type /\ Length' = Length /\ Distance' = Distance
        /\ Understood' = Understood /\ DecReps(Type, Distance)' = DecReps(Type, Distance)
    BY <2>1 DEF DecPos, Type, Length, Distance, DecodedDist, Understood, Tables,
                LiteralTable, DecReps
  <2>3. TypeOK' /\ Restored' /\ InWindow' /\ OnTheWay'
    BY <2>1, <2>2 DEF IInv, TypeOK, Restored, InWindow, OnTheWay, Agree
  <2>4. Copying' /\ Between' /\ Deferred'
    BY <2>1, <2>2 DEF IInv, Copying, Between, Deferred, Agree
  <2> QED BY <2>1, <2>2, <2>3, <2>4 DEF IInv
<1> QED BY <1>1, <1>2, <1>3, <1>4, <1>5 DEF Next, Coding, Ended

THEOREM Invariant == Spec => []IInv
BY InitOK, NextOK, PTL DEF Spec

(* Both states are below N_STATES and nothing ever leaves its range.        *)
THEOREM TypeCorrect == Spec => []TypeOK
<1>1. IInv => TypeOK
  BY DEF IInv
<1> QED BY <1>1, Invariant, PTL

(* lzmaEncode never codes a match it put off for another place than the one *)
(* it was found for.                                                        *)
THEOREM DeferredMatches == Spec => []DeferredHolds
<1>1. IInv => DeferredHolds
  BY DEF IInv, Deferred, DeferredHolds, NoMatch
<1> QED BY <1>1, Invariant, PTL

(* lzmaDecode is always in the state lzmaEncode was in, with its repeated   *)
(* distances, and reads every symbol with the table it was coded by.        *)
THEOREM StaysInStep == Spec => []InStep
<1>1. IInv => InStep
  <2> SUFFICES ASSUME IInv
               PROVE  InStep
    OBVIOUS
  <2>1. packet # <<>> => Understood
    BY DEF IInv, OnTheWay
  <2>2. ASSUME packet = <<>>, copy.len = 0
        PROVE  /\ dec.state = enc.state /\ dec.reps = enc.reps
               /\ dec.text = SubSeq(src, 1, enc.pos)
    <3>1. DecPos = enc.pos /\ dec.state = enc.state /\ dec.reps = enc.reps
      BY <2>2 DEF IInv, Between
    <3>2. /\ src \in Seq(Nat) /\ dec.text \in Seq(Nat) /\ enc.pos \in 0 .. Len(src)
          /\ Len(src) \in Nat
      BY SizesAssumption DEF IInv, TypeOK
    <3>3. Len(dec.text) = enc.pos /\ \A i \in 1 .. enc.pos : dec.text[i] = src[i]
      BY <3>1 DEF IInv, Restored, DecPos
    <3> DEFINE t == dec.text
               u == SubSeq(src, 1, enc.pos)
    <3>4. u \in Seq(Nat) /\ Len(u) = enc.pos /\ \A i \in 1 .. enc.pos : u[i] = src[i]
      BY <3>2
    <3>5. t \in Seq(Nat) /\ Len(t) = Len(u) /\ \A i \in 1 .. Len(t) : t[i] = u[i]
      BY <3>2, <3>3, <3>4
    <3> HIDE DEF t, u
    <3>6. t = u
      BY <3>4, <3>5, SeqEqual
    <3> QED BY <3>1, <3>6 DEF t, u
  <2> QED BY <2>1, <2>2 DEF InStep
<1> QED BY <1>1, Invariant, PTL

(* lzmaDecode never takes what lzmaEncode made for an error.                *)
THEOREM DecoderAccepts == Spec => []NeverRefused
<1>1. IInv => NeverRefused
  BY DEF IInv, NeverRefused
<1> QED BY <1>1, Invariant, PTL

(* What comes back, when something does, is the text that was given, once   *)
(* and for all: the safety of RoundTrip.                                    *)
LEMMA WholeText == IInv /\ result = "ok" => dec.text = src
<1> SUFFICES ASSUME IInv, result = "ok"
             PROVE  dec.text = src
  OBVIOUS
<1>1. /\ src \in Seq(Nat) /\ dec.text \in Seq(Nat)
      /\ Len(dec.text) = Len(src) /\ \A i \in 1 .. Len(src) : dec.text[i] = src[i]
  BY SizesAssumption DEF IInv, TypeOK, Restored, DecPos
<1> DEFINE t == dec.text
<1>2. t \in Seq(Nat) /\ Len(t) = Len(src) /\ \A i \in 1 .. Len(t) : t[i] = src[i]
  BY <1>1
<1> HIDE DEF t
<1>3. t = src
  BY <1>1, <1>2, SeqEqual
<1> QED BY <1>3 DEF t

THEOREM TextComesBack == Spec => Codec!Init /\ [][Codec!Next]_(Codec!lVars)
<1>1. Init => Codec!Init
  BY DEF Init, Codec!Init, Nothing
<1>2. IInv' /\ (result = "ok")' => (dec.text = src)'
  BY WholeText, PTL
<1>3. IInv /\ IInv' /\ [Next]_vars => [Codec!Next]_(Codec!lVars)
  <2> SUFFICES ASSUME IInv, IInv', [Next]_vars
               PROVE  [Codec!Next]_(Codec!lVars)
    OBVIOUS
  <2>1. src' = src
    BY DEF Next, Coding, PassOver, TakeDeferred, TakeNow, DeferByOne, DeferByTwo, Searching,
           Encoding, Decode, CopyByte, Return, Ended, vars
  <2>2. CASE result = "ok"
    <3>1. result' = "ok" /\ dec' = dec
      <4>1. copy.len = 0
        BY <2>2 DEF IInv, Copying, TypeOK
      <4> QED BY <2>2, <4>1
              DEF Next, Coding, PassOver, TakeDeferred, TakeNow, DeferByOne, DeferByTwo,
                  Searching, Encoding, Decode, CopyByte, Return, Ended, vars
    <3> QED BY <2>1, <2>2, <3>1 DEF Codec!lVars
  <2>3. CASE result # "ok" /\ result' # "ok"
    BY <2>1, <2>3 DEF Codec!lVars
  <2>4. CASE result # "ok" /\ result' = "ok"
    <3>1. dec'.text = src'
      BY <1>2, <2>4
    <3> QED BY <2>1, <2>4, <3>1 DEF Codec!Next, Codec!Return
  <2> QED BY <2>2, <2>3, <2>4
<1> QED BY <1>1, <1>3, Invariant, PTL DEF Spec

-----------------------------------------------------------------------------
(* What is left to do: whether it has returned, the bytes not yet in a      *)
(* packet, whether one is on its way, the bytes of it still to be copied.   *)
Rank ==
  << IF result = "going" THEN 1 ELSE 0,
     Len(src) - enc.pos,
     IF packet # <<>> THEN 1 ELSE 0,
     copy.len >>

LEMMA Ranked == IInv => Rank \in Ranks
<1> SUFFICES ASSUME IInv PROVE Rank \in Ranks
  OBVIOUS
<1>1. Len(src) \in Nat /\ enc.pos \in 0 .. Len(src) /\ copy.len \in Nat
  BY SizesAssumption, Sizes DEF IInv, TypeOK
<1>2. Len(src) - enc.pos \in Nat
  BY <1>1
<1> QED BY <1>1, <1>2 DEF Rank, Ranks

(* No packet is of no bytes: one that is a match has two or more. *)
LEMMA SendAdvances ==
  ASSUME NEW found, found.len \in Nat, enc.pos \in Nat, Send(found)
  PROVE  enc'.pos \in Nat /\ enc'.pos > enc.pos
<1>1. enc'.pos = enc.pos + Bytes(TypeOf(found), found.len)
  BY DEF Send
<1>2. found.len < 2 => TypeOf(found) \in {"LIT", "SHORTREP"}
  BY DEF TypeOf
<1>3. Bytes(TypeOf(found), found.len) \in Nat /\ Bytes(TypeOf(found), found.len) >= 1
  BY <1>2 DEF Bytes
<1> QED BY <1>1, <1>3

LEMMA EncoderAdvances ==
  ASSUME IInv, PassOver \/ TakeDeferred \/ TakeNow \/ DeferByOne \/ DeferByTwo
  PROVE  /\ Encoding /\ enc.pos \in Nat /\ enc'.pos \in Nat /\ enc'.pos > enc.pos
<1>1. Encoding
  BY DEF PassOver, TakeDeferred, TakeNow, DeferByOne, DeferByTwo, Searching
<1>2. enc.pos \in Nat /\ later.match.len \in Nat
  BY SizesAssumption, Sizes DEF IInv, TypeOK
<1>3. NoMatch.len \in Nat
  BY DEF NoMatch
<1>4. \A found \in Offers(enc.pos) : found.len \in Nat
  BY <1>3, OffersFit, Sizes
<1>5. TwoByRep(enc.pos).len \in Nat
  BY <1>3 DEF TwoByRep
<1>6. \E found : found.len \in Nat /\ Send(found)
  <2>1. CASE PassOver
    BY <1>3, <2>1 DEF PassOver
  <2>2. CASE TakeDeferred
    BY <1>2, <2>2 DEF TakeDeferred
  <2>3. CASE TakeNow
    BY <1>4, <2>3 DEF TakeNow
  <2>4. CASE DeferByOne
    BY <1>3, <2>4 DEF DeferByOne
  <2>5. CASE DeferByTwo
    BY <1>5, <2>5 DEF DeferByTwo
  <2> QED BY <2>1, <2>2, <2>3, <2>4, <2>5
<1> QED BY <1>1, <1>2, <1>6, SendAdvances

(* Every step leaves less to do. *)
LEMMA GoesDown == IInv /\ [Next]_vars => [Below(Rank', Rank)]_vars
<1> SUFFICES ASSUME IInv, Coding PROVE Below(Rank', Rank)
  BY DEF Next, Ended
<1>0. Len(src) \in Nat /\ enc.pos \in Nat /\ copy.len \in Nat
  BY SizesAssumption, Sizes DEF IInv, TypeOK
<1>1. CASE PassOver \/ TakeDeferred \/ TakeNow \/ DeferByOne \/ DeferByTwo
  <2>1. /\ Encoding /\ enc'.pos \in Nat /\ enc'.pos > enc.pos
    BY <1>1, EncoderAdvances
  <2>2. src' = src /\ result' = result
    BY <2>1 DEF Encoding
  <2>3. Len(src') - enc'.pos < Len(src) - enc.pos
    BY <1>0, <2>1, <2>2
  <2> QED BY <2>2, <2>3 DEF Rank, Below
<1>2. CASE Decode
  <2>1. src' = src /\ enc' = enc /\ packet # <<>> /\ packet' = <<>> /\ result = "going"
    BY <1>2 DEF Decode
  <2> QED BY <1>0, <2>1 DEF Rank, Below
<1>3. CASE CopyByte
  <2>1. src' = src /\ enc' = enc /\ packet' = packet /\ result' = result
        /\ copy'.len = copy.len - 1
    BY <1>3 DEF CopyByte, IInv, TypeOK
  <2>2. copy'.len < copy.len
    BY <1>0, <2>1
  <2> QED BY <2>1, <2>2 DEF Rank, Below
<1>4. CASE Return
  BY <1>4 DEF Return, Rank, Below
<1> QED BY <1>1, <1>2, <1>3, <1>4 DEF Coding

(* Whatever the match search finds and however matches are put off, every   *)
(* packet takes at least a byte of the text, and both loops come to their   *)
(* end (lzmaEncode, lzmaDecode).                                            *)
THEOREM PacketsDescend == Spec => [](Rank \in Ranks) /\ [][Below(Rank', Rank)]_vars
  BY InitOK, NextOK, Ranked, GoesDown, PTL DEF Spec
=============================================================================
