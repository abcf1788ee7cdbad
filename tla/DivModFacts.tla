---------------------------- MODULE DivModFacts ----------------------------
(***************************************************************************)
(* Arithmetic of % and \div with a symbolic divisor, as ring buffers and   *)
(* scaled coders use it; the numbers that digits write, as the coders      *)
(* write them; and counters that go down, as loops make them.              *)
(***************************************************************************)
EXTENDS Digits, SequenceTheorems, TLAPS, WellFoundedInduction

(* Division with remainder, as ring indices (iochain.c) use it. *)
LEMMA DivMod ==
  ASSUME NEW n \in Nat, NEW m \in Nat, m > 0
  PROVE  /\ n \div m \in Nat
         /\ n % m \in 0 .. m - 1
         /\ n = m * (n \div m) + (n % m)
  OBVIOUS

(* A multiple of m between -m and m is zero. *)
LEMMA SmallMultiple ==
  ASSUME NEW k \in Int, NEW m \in Nat, m > 0, -m < m * k, m * k < m
  PROVE  k = 0
<1>1. k >= 1 => m * k >= m
  OBVIOUS
<1>2. k <= -1 => m * (-k) >= m
  OBVIOUS
<1>3. m * (-k) = -(m * k)
  OBVIOUS
<1> QED
  BY <1>1, <1>2, <1>3

(* Numbers with the same remainder differ by a multiple of the divisor. *)
LEMMA SameMod ==
  ASSUME NEW a \in Nat, NEW b \in Nat, NEW m \in Nat, m > 0, a % m = b % m
  PROVE  \E k \in Int : b - a = m * k
<1>1. a = m * (a \div m) + (a % m) /\ b = m * (b \div m) + (b % m)
  BY DivMod
<1>2. (a \div m) \in Int /\ (b \div m) \in Int
  BY DivMod
<1>3. m * ((b \div m) - (a \div m)) = m * (b \div m) - m * (a \div m)
  BY <1>2
<1>4. a % m \in Int /\ m * (a \div m) \in Int /\ m * (b \div m) \in Int
  BY DivMod, <1>2
<1>5. b - a = m * ((b \div m) - (a \div m))
  BY <1>1, <1>3, <1>4
<1>6. (b \div m) - (a \div m) \in Int
  BY <1>2
<1> WITNESS (b \div m) - (a \div m) \in Int
<1> QED
  BY <1>5

(* Less than m apart and different: different remainders. *)
LEMMA ModDiffer ==
  ASSUME NEW a \in Nat, NEW b \in Nat, NEW m \in Nat, m > 0, a < b, b < a + m
  PROVE  a % m # b % m
<1> SUFFICES ASSUME a % m = b % m PROVE FALSE
  OBVIOUS
<1>1. PICK k \in Int : b - a = m * k
  BY SameMod
<1>2. k = 0
  BY <1>1, SmallMultiple
<1> QED
  BY <1>1, <1>2

(* Exactly m apart: the same remainder. *)
LEMMA ModAfterLap ==
  ASSUME NEW a \in Nat, NEW m \in Nat, m > 0
  PROVE  (a + m) % m = a % m
<1> DEFINE q == ((a + m) \div m) - (a \div m)
<1>1. /\ a = m * (a \div m) + (a % m)
      /\ a % m \in 0 .. m - 1 /\ a \div m \in Nat
      /\ a + m = m * ((a + m) \div m) + ((a + m) % m)
      /\ (a + m) % m \in 0 .. m - 1 /\ (a + m) \div m \in Nat
  BY DivMod
<1>2. m * q = m * ((a + m) \div m) - m * (a \div m)
  BY <1>1
<1>3. q \in Int /\ m * q = m + (a % m) - ((a + m) % m)
  BY <1>1, <1>2
<1>4. m * (q - 1) = m * q - m
  BY <1>3
<1>5. q - 1 = 0
  BY <1>1, <1>3, <1>4, SmallMultiple
<1> QED
  BY <1>1, <1>3, <1>5

(* A multiple of the divisor does not change the remainder. *)
LEMMA ModMultiple ==
  ASSUME NEW a \in Nat, NEW b \in Nat, NEW m \in Nat, m > 0,
         NEW k \in Int, a - b = m * k
  PROVE  a % m = b % m
<1> DEFINE q == k - (a \div m) + (b \div m)
<1>1. /\ a = m * (a \div m) + (a % m)
      /\ a % m \in 0 .. m - 1 /\ a \div m \in Nat
      /\ b = m * (b \div m) + (b % m)
      /\ b % m \in 0 .. m - 1 /\ b \div m \in Nat
  BY DivMod
<1>2. m * q = m * k - m * (a \div m) + m * (b \div m) /\ q \in Int
  BY <1>1
<1>3. m * q = (a % m) - (b % m)
  BY <1>1, <1>2
<1> HIDE DEF q
<1>4. q = 0
  BY <1>1, <1>2, <1>3, SmallMultiple
<1> QED
  BY <1>1, <1>3, <1>4

(* Remainders of remainders, when one divisor divides the other. *)
LEMMA ModOfMod ==
  ASSUME NEW s \in Nat, NEW b \in Nat, b > 0, NEW m \in Nat, m > 0, b % m = 0
  PROVE  (s % b) % m = s % m
<1> DEFINE p == b \div m
           q == s \div b
<1>1. s = b * q + (s % b) /\ q \in Nat /\ s % b \in Nat
  BY DivMod
<1>2. b = m * p /\ p \in Nat
  BY DivMod
<1>3. b * q = m * (p * q) /\ p * q \in Int
  <2> HIDE DEF p, q
  <2> QED BY <1>1, <1>2
<1> HIDE DEF p, q
<1> DEFINE r == s % b
           k == p * q
<1>4. r \in Nat /\ k \in Int /\ s = m * k + r
  BY <1>1, <1>3
<1> HIDE DEF r, k
<1>5. m * k \in Int
  BY <1>4
<1>6. s - r = m * k
  BY <1>4, <1>5
<1>7. s % m = r % m
  BY <1>4, <1>6, ModMultiple
<1> QED
  BY <1>7 DEF r

(* A set of numbers that is not empty has a least one. *)
LEMMA Least ==
  ASSUME NEW T, T \subseteq Nat, T # {}
  PROVE  \E x \in T : \A y \in T : x <= y
<1> DEFINE R == OpToRel(<, Nat)
<1>1. IsWellFoundedOn(R, Nat)
  BY NatLessThanWellFounded
<1>2. \A x, y \in Nat : y < x => <<y, x>> \in R
  BY DEF OpToRel
<1> HIDE DEF R
<1>3. \E x \in T : \A y \in T : ~ (<<y, x>> \in R)
  BY <1>1, WFMin
<1>4. \E x \in T : \A y \in T : ~ (y < x)
  BY <1>2, <1>3, Zenon
<1> QED BY <1>4
(* What makes a number the remainder. *)
LEMMA RemainderIs ==
  ASSUME NEW a \in Nat, NEW m \in Nat, m > 0, NEW t \in Int, NEW c \in 0 .. m - 1,
         a = m * t + c
  PROVE  a % m = c
<1>1. a - c = m * t /\ c \in Nat
  <2>1. m * t \in Int
    OBVIOUS
  <2> DEFINE z == m * t
  <2>2. a = z + c /\ z \in Int
    BY <2>1
  <2> HIDE DEF z
  <2>3. a - c = z /\ c \in Nat
    BY <2>2
  <2> QED BY <2>3 DEF z
<1>2. a % m = c % m
  BY <1>1, ModMultiple
<1>3. c % m = c
  BY DivMod
<1> QED BY <1>2, <1>3

(* The remainder by a product, digit by digit. *)
LEMMA ModOfProduct ==
  ASSUME NEW d \in Nat, NEW m \in Nat, m > 0, NEW k \in Nat, k > 0
  PROVE  d % (m * k) = m * ((d \div m) % k) + (d % m)
<1> DEFINE q == d \div m
           r == d % m
           u == q \div k
           s == q % k
<1>1. q \in Nat /\ r \in 0 .. m - 1 /\ d = m * q + r
  BY DivMod
<1> HIDE DEF q, r
<1>2. u \in Nat /\ s \in 0 .. k - 1 /\ q = k * u + s
  BY <1>1, DivMod
<1> HIDE DEF u, s
<1>3. m * q = (m * k) * u + m * s
  BY <1>2
<1>4. m * k \in Nat /\ m * k > 0 /\ m * s \in Nat
  BY <1>2
<1>5. m * s <= m * k - m
  <2>1. k - 1 - s \in Nat
    BY <1>2
  <2>2. m * (k - 1 - s) >= 0
    BY <2>1
  <2>3. m * (k - 1 - s) = m * k - m - m * s
    BY <1>2
  <2>4. m * k \in Nat /\ m * s \in Nat
    BY <1>4
  <2> QED BY <2>2, <2>3, <2>4
<1>6. m * s + r \in 0 .. (m * k) - 1
  BY <1>1, <1>4, <1>5
<1> DEFINE mk == m * k
           ms == m * s
           low == ms + r
<1>7. d = mk * u + low /\ low \in 0 .. mk - 1 /\ mk \in Nat /\ mk > 0
  <2> DEFINE mku == mk * u
  <2>1. mku \in Nat /\ ms \in Nat /\ r \in Nat
    BY <1>1, <1>2, <1>4
  <2>2. m * q = mku + ms
    BY <1>3
  <2> HIDE DEF mku, ms
  <2>3. d = mku + (ms + r)
    BY <1>1, <2>1, <2>2
  <2> QED BY <1>4, <1>6, <2>3 DEF mku, ms
<1> HIDE DEF mk, low
<1>8. d % mk = low
  BY <1>2, <1>7, RemainderIs
<1> QED BY <1>8 DEF q, r, s, mk, low

-----------------------------------------------------------------------------
(* Digits.  The function in Numeral exists, is the only one, and is carried *)
(* on by a digit more.                                                      *)

Adds(base, s, n, f) ==
  /\ f \in [0 .. n -> Nat] /\ f[0] = 0
  /\ \A k \in 1 .. n : f[k] = f[k - 1] * base + s[k]

LEMMA AddsExists ==
  ASSUME NEW base \in Nat, NEW s \in Seq(Nat)
  PROVE  \A n \in 0 .. Len(s) : \E f : Adds(base, s, n, f)
<1> DEFINE T == {n \in 0 .. Len(s) : ~ \E f : Adds(base, s, n, f)}
<1>1. T = {}
  <2> SUFFICES ASSUME T # {} PROVE FALSE
    OBVIOUS
  <2>1. PICK n \in T : \A m \in T : n <= m
    <3>1. T \subseteq Nat
      OBVIOUS
    <3> HIDE DEF T
    <3> QED BY <3>1, Least
  <2>2. n # 0
    <3> DEFINE z == [k \in 0 .. 0 |-> 0]
    <3>1. Adds(base, s, 0, z)
      BY DEF Adds
    <3> HIDE DEF z
    <3> QED BY <2>1, <3>1
  <2>3. n - 1 \in 0 .. Len(s) /\ ~(n - 1 \in T) /\ n \in 1 .. Len(s)
    BY <2>1, <2>2
  <2>4. PICK f : Adds(base, s, n - 1, f)
    BY <2>3
  <2> DEFINE g == [k \in 0 .. n |-> IF k = n THEN f[n - 1] * base + s[n] ELSE f[k]]
  <2>5. f[n - 1] * base + s[n] \in Nat
    <3>1. f[n - 1] \in Nat /\ s[n] \in Nat
      BY <2>3, <2>4 DEF Adds
    <3>2. \A x, y \in Nat : x * base + y \in Nat
      OBVIOUS
    <3> QED BY <3>1, <3>2, Zenon
  <2>6. g \in [0 .. n -> Nat]
    <3>1. \A k \in 0 .. n : k # n => f[k] \in Nat
      BY <2>3, <2>4 DEF Adds
    <3> QED BY <2>5, <3>1
  <2>7. g[0] = 0
    BY <2>3, <2>4 DEF Adds
  <2>8. \A k \in 1 .. n : g[k] = g[k - 1] * base + s[k]
    <3> TAKE k \in 1 .. n
    <3>1. CASE k = n
      BY <2>3, <3>1
    <3>2. CASE k # n
      <4>1. k \in 1 .. n - 1 /\ k \in 0 .. n /\ k - 1 \in 0 .. n /\ k - 1 # n
        BY <2>3, <3>2
      <4>2. f[k] = f[k - 1] * base + s[k]
        BY <4>1, <2>4 DEF Adds
      <4>3. g[k] = f[k] /\ g[k - 1] = f[k - 1]
        BY <4>1, <3>2
      <4> QED BY <4>2, <4>3
    <3> QED BY <3>1, <3>2
  <2> HIDE DEF g
  <2>9. Adds(base, s, n, g)
    BY <2>6, <2>7, <2>8 DEF Adds
  <2> QED BY <2>1, <2>9
<1> QED BY <1>1

(* Equal digits, equal numbers. *)
LEMMA AddsAgree ==
  ASSUME NEW base \in Nat, NEW n \in Nat, NEW s, NEW t, NEW f, NEW g,
         \A k \in 1 .. n : s[k] = t[k],
         Adds(base, s, n, f), Adds(base, t, n, g)
  PROVE  \A k \in 0 .. n : f[k] = g[k]
<1> DEFINE T == {k \in 0 .. n : f[k] # g[k]}
<1>1. T = {}
  <2> SUFFICES ASSUME T # {} PROVE FALSE
    OBVIOUS
  <2>1. PICK k \in T : \A m \in T : k <= m
    <3>1. T \subseteq Nat
      OBVIOUS
    <3> HIDE DEF T
    <3> QED BY <3>1, Least
  <2>2. k # 0
    BY <2>1 DEF Adds
  <2>3. k - 1 \in 0 .. n /\ k \in 1 .. n /\ ~(k - 1 \in T)
    BY <2>1, <2>2
  <2>4. f[k - 1] = g[k - 1]
    BY <2>3
  <2>5. f[k] = f[k - 1] * base + s[k] /\ g[k] = g[k - 1] * base + t[k] /\ s[k] = t[k]
    BY <2>3 DEF Adds
  <2> QED BY <2>1, <2>4, <2>5
<1> QED BY <1>1

LEMMA NumeralAdds ==
  ASSUME NEW base \in Nat, NEW s \in Seq(Nat)
  PROVE  \E f : Adds(base, s, Len(s), f) /\ Numeral(base, s) = f[Len(s)]
<1> DEFINE F(f) == [n \in 0 .. Len(s) |-> IF n = 0 THEN 0 ELSE f[n - 1] * base + s[n]]
           g == CHOOSE f : f = F(f)
<1>1. Numeral(base, s) = g[Len(s)]
  BY DEF Numeral
<1>2. Len(s) \in Nat
  OBVIOUS
<1>3. PICK f : Adds(base, s, Len(s), f)
  BY <1>2, AddsExists
<1>4. f = F(f)
  <2>1. \A n \in 0 .. Len(s) : f[n] = IF n = 0 THEN 0 ELSE f[n - 1] * base + s[n]
    BY <1>2, <1>3 DEF Adds
  <2> QED BY <1>3, <2>1 DEF Adds
<1>5. g = F(g)
  <2> HIDE DEF F
  <2> QED BY <1>4
<1> HIDE DEF g
<1>6. g = [n \in 0 .. Len(s) |-> IF n = 0 THEN 0 ELSE g[n - 1] * base + s[n]]
  BY <1>5
<1>7. g[0] = 0 /\ \A k \in 1 .. Len(s) : g[k] = g[k - 1] * base + s[k]
  BY <1>2, <1>6
<1>8. \A k \in 0 .. Len(s) : g[k] = f[k]
  <2> DEFINE T == {k \in 0 .. Len(s) : f[k] # g[k]}
  <2>1. T = {}
    <3> SUFFICES ASSUME T # {} PROVE FALSE
      OBVIOUS
    <3>1. PICK k \in T : \A m \in T : k <= m
      <4>1. T \subseteq Nat
        OBVIOUS
      <4> HIDE DEF T
      <4> QED BY <4>1, Least
    <3>2. k # 0
      BY <1>3, <1>7, <3>1 DEF Adds
    <3>3. k - 1 \in 0 .. Len(s) /\ k \in 1 .. Len(s) /\ ~(k - 1 \in T)
      BY <3>1, <3>2
    <3>4. f[k - 1] = g[k - 1]
      BY <3>3
    <3>5. f[k] = f[k - 1] * base + s[k] /\ g[k] = g[k - 1] * base + s[k]
      BY <1>3, <1>7, <3>3 DEF Adds
    <3> QED BY <3>1, <3>4, <3>5
  <2> QED BY <2>1
<1> QED BY <1>1, <1>2, <1>3, <1>8

LEMMA NumeralIsNat ==
  ASSUME NEW base \in Nat, NEW s \in Seq(Nat)
  PROVE  Numeral(base, s) \in Nat
<1>1. PICK f : Adds(base, s, Len(s), f) /\ Numeral(base, s) = f[Len(s)]
  BY NumeralAdds
<1>2. Len(s) \in 0 .. Len(s)
  OBVIOUS
<1> QED BY <1>1, <1>2 DEF Adds

LEMMA NumeralEmpty ==
  ASSUME NEW base \in Nat
  PROVE  Numeral(base, <<>>) = 0
<1> DEFINE s == <<>>
<1>1. s \in Seq(Nat) /\ Len(s) = 0
  OBVIOUS
<1> HIDE DEF s
<1>2. PICK f : Adds(base, s, Len(s), f) /\ Numeral(base, s) = f[Len(s)]
  BY <1>1, NumeralAdds
<1>3. Numeral(base, s) = 0
  BY <1>1, <1>2 DEF Adds
<1> QED BY <1>3 DEF s

LEMMA NumeralAppend ==
  ASSUME NEW base \in Nat, NEW s \in Seq(Nat), NEW d \in Nat
  PROVE  Numeral(base, Append(s, d)) = Numeral(base, s) * base + d
<1> DEFINE t == Append(s, d)
           n == Len(s)
<1>1. t \in Seq(Nat) /\ Len(t) = n + 1 /\ t[n + 1] = d /\ n \in Nat
      /\ \A k \in 1 .. n : s[k] = t[k]
  OBVIOUS
<1> HIDE DEF t
<1>2. PICK f : Adds(base, s, n, f) /\ Numeral(base, s) = f[n]
  BY NumeralAdds
<1>3. PICK g : Adds(base, t, n + 1, g) /\ Numeral(base, t) = g[n + 1]
  BY <1>1, NumeralAdds
<1> HIDE DEF n
<1>4. g[n + 1] = g[n] * base + d
  <2>1. n + 1 \in 1 .. n + 1 /\ (n + 1) - 1 = n
    BY <1>1
  <2> QED BY <1>1, <1>3, <2>1 DEF Adds
<1>5. g[n] = f[n]
  <2> DEFINE h == [k \in 0 .. n |-> g[k]]
  <2>1. Adds(base, t, n, h)
    <3>0. g \in [0 .. n + 1 -> Nat] /\ g[0] = 0
      BY <1>3 DEF Adds
    <3>1. \A k \in 0 .. n : g[k] \in Nat
      BY <1>1, <3>0
    <3>2. h \in [0 .. n -> Nat] /\ h[0] = 0
      BY <1>1, <3>0, <3>1
    <3>3. ASSUME NEW k \in 1 .. n PROVE h[k] = h[k - 1] * base + t[k]
      <4>1. k \in 0 .. n /\ k - 1 \in 0 .. n /\ k \in 1 .. n + 1
        BY <1>1
      <4>2. g[k] = g[k - 1] * base + t[k]
        BY <1>3, <4>1 DEF Adds
      <4> QED BY <4>1, <4>2
    <3> QED BY <3>2, <3>3 DEF Adds
  <2>2. h[n] = g[n] /\ n \in 0 .. n
    BY <1>1
  <2> HIDE DEF h
  <2>3. \A k \in 0 .. n : f[k] = h[k]
    BY <1>1, <1>2, <2>1, AddsAgree
  <2> QED BY <2>2, <2>3
<1> QED BY <1>2, <1>3, <1>4, <1>5 DEF t

(* A number is one digit more of the number of the digits before. *)
LEMMA NumeralPrefix ==
  ASSUME NEW base \in Nat, NEW s \in Seq(Nat), NEW n \in Nat, n < Len(s)
  PROVE  Numeral(base, SubSeq(s, 1, n + 1)) = Numeral(base, SubSeq(s, 1, n)) * base + s[n + 1]
<1>1. n + 1 \in 1 .. Len(s) /\ (n + 1) - 1 = n /\ 1 \in 1 .. Len(s) /\ s[n + 1] \in Nat
  OBVIOUS
<1> DEFINE t == SubSeq(s, 1, n)
<1>2. t \in Seq(Nat)
  BY <1>1
<1>3. SubSeq(s, 1, n + 1) = t \o <<s[n + 1]>>
  BY <1>1, SubSeqRecursiveSecond
<1>4. t \o <<s[n + 1]>> = Append(t, s[n + 1])
  BY <1>1, <1>2, AppendIsConcat
<1> HIDE DEF t
<1>5. Numeral(base, Append(t, s[n + 1])) = Numeral(base, t) * base + s[n + 1]
  BY <1>1, <1>2, NumeralAppend
<1> QED BY <1>3, <1>4, <1>5 DEF t

(* A run of the same digit, a digit longer. *)
LEMMA RunGrows ==
  ASSUME NEW s \in Seq(Nat), NEW d \in Nat, NEW k \in Nat \ {0}
  PROVE  /\ s \o [i \in 1 .. k - 1 |-> d] \in Seq(Nat)
         /\ s \o [i \in 1 .. k |-> d] = Append(s \o [i \in 1 .. k - 1 |-> d], d)
<1> DEFINE u == [i \in 1 .. k - 1 |-> d]
           v == [i \in 1 .. k |-> d]
<1>1. k - 1 \in Nat
  OBVIOUS
<1>2. u \in Seq(Nat) /\ v \in Seq(Nat) /\ Len(u) = k - 1 /\ Len(v) = k
  BY <1>1
<1>3. (\A i \in 1 .. k : v[i] = d) /\ (\A i \in 1 .. k - 1 : u[i] = d)
  OBVIOUS
<1> HIDE DEF u, v
<1> DEFINE x == s \o v
           y == Append(s \o u, d)
<1>4. s \o u \in Seq(Nat) /\ Len(s \o u) = Len(s) + Len(u)
      /\ \A i \in 1 .. Len(s) + Len(u) :
            (s \o u)[i] = IF i <= Len(s) THEN s[i] ELSE u[i - Len(s)]
  BY <1>2, ConcatProperties
<1>5. x \in Seq(Nat) /\ Len(x) = Len(s) + Len(v)
      /\ \A i \in 1 .. Len(s) + Len(v) :
            x[i] = IF i <= Len(s) THEN s[i] ELSE v[i - Len(s)]
  BY <1>2, ConcatProperties
<1>6. y \in Seq(Nat) /\ Len(y) = Len(s) + k
      /\ (\A i \in 1 .. Len(s) + Len(u) : y[i] = (s \o u)[i]) /\ y[Len(s) + k] = d
  <2> DEFINE z == s \o u
  <2>1. z \in Seq(Nat) /\ Len(z) = Len(s) + k - 1
    BY <1>2, <1>4
  <2> HIDE DEF z
  <2>2. Append(z, d) \in Seq(Nat) /\ Len(Append(z, d)) = Len(s) + k
        /\ (\A i \in 1 .. Len(s) + k - 1 : Append(z, d)[i] = z[i]) /\ Append(z, d)[Len(s) + k] = d
    BY <2>1
  <2>3. Len(s) + Len(u) = Len(s) + k - 1
    BY <1>2
  <2> QED BY <2>2, <2>3 DEF z
<1> HIDE DEF x, y
<1>7. Len(s) \in Nat /\ Len(x) = Len(y) /\ Len(x) = Len(s) + k
  BY <1>2, <1>5, <1>6
<1>8. ASSUME NEW i \in 1 .. Len(x) PROVE x[i] = y[i]
  <2>1. CASE i <= Len(s)
    <3>1. i \in 1 .. Len(s) + Len(u) /\ i \in 1 .. Len(s) + Len(v) /\ i <= Len(s)
      BY <1>2, <1>7, <2>1
    <3>2. x[i] = s[i]
      BY <1>5, <3>1
    <3>3. y[i] = (s \o u)[i]
      BY <1>6, <3>1
    <3>4. (s \o u)[i] = s[i]
      BY <1>4, <3>1
    <3> QED BY <3>2, <3>3, <3>4
  <2>2. CASE i > Len(s) /\ i < Len(s) + k
    <3>1. i - Len(s) \in 1 .. k - 1 /\ i - Len(s) \in 1 .. k
      BY <1>7, <2>2
    <3>2. x[i] = d
      BY <1>2, <1>3, <1>5, <1>7, <2>2, <3>1
    <3>4. i \in 1 .. Len(s) + Len(u) /\ ~(i <= Len(s))
      BY <1>2, <1>7, <2>2
    <3>5. (s \o u)[i] = u[i - Len(s)]
      BY <1>4, <3>4
    <3>3. y[i] = u[i - Len(s)]
      BY <1>6, <3>4, <3>5
    <3> QED BY <1>3, <3>1, <3>2, <3>3
  <2>3. CASE i = Len(s) + k
    <3>1. i - Len(s) \in 1 .. k /\ ~(i <= Len(s)) /\ i \in 1 .. Len(s) + Len(v)
      BY <1>2, <1>7, <2>3
    <3>2. x[i] = v[i - Len(s)]
      BY <1>5, <3>1
    <3> QED BY <1>3, <1>6, <2>3, <3>1, <3>2
  <2> QED BY <1>7, <2>1, <2>2, <2>3
<1>9. x = y
  BY <1>5, <1>6, <1>7, <1>8, SeqEqual
<1> QED BY <1>4, <1>9 DEF x, y, u, v

LEMMA NoRun ==
  ASSUME NEW s \in Seq(Nat), NEW d
  PROVE  s \o [i \in 1 .. 0 |-> d] = s
<1>1. [i \in 1 .. 0 |-> d] = <<>>
  OBVIOUS
<1> QED BY <1>1, ConcatEmptySeq

(* One more: a raised digit before zeros instead of the digit before the    *)
(* largest digits.                                                          *)
LEMMA NumeralRaised ==
  ASSUME NEW base \in Nat, base > 0, NEW s \in Seq(Nat), NEW t \in Seq(Nat),
         Numeral(base, t) = Numeral(base, s) + 1
  PROVE  \A k \in Nat : Numeral(base, t \o [i \in 1 .. k |-> 0])
                          = Numeral(base, s \o [i \in 1 .. k |-> base - 1]) + 1
<1> DEFINE U(k) == s \o [i \in 1 .. k |-> base - 1]
           V(k) == t \o [i \in 1 .. k |-> 0]
           T == {k \in Nat : Numeral(base, V(k)) # Numeral(base, U(k)) + 1}
<1>1. T = {}
  <2> SUFFICES ASSUME T # {} PROVE FALSE
    OBVIOUS
  <2>1. PICK k \in T : \A m \in T : k <= m
    <3>1. T \subseteq Nat
      OBVIOUS
    <3> HIDE DEF T
    <3> QED BY <3>1, Least
  <2>2. k # 0
    BY <2>1, NoRun
  <2>3. k \in Nat \ {0} /\ k - 1 \in Nat /\ ~(k - 1 \in T) /\ base - 1 \in Nat /\ 0 \in Nat
    <3>1. k \in Nat
      OBVIOUS
    <3> HIDE DEF T
    <3> QED BY <2>1, <2>2, <3>1
  <2>4. Numeral(base, V(k - 1)) = Numeral(base, U(k - 1)) + 1
    BY <2>3
  <2>5. U(k) = Append(U(k - 1), base - 1) /\ U(k - 1) \in Seq(Nat)
    BY <2>3, RunGrows
  <2>6. V(k) = Append(V(k - 1), 0) /\ V(k - 1) \in Seq(Nat)
    BY <2>3, RunGrows
  <2>7. Numeral(base, U(k)) # Numeral(base, V(k)) - 1
    <3>1. Numeral(base, V(k)) # Numeral(base, U(k)) + 1
      BY <2>1
    <3>2. U(k) \in Seq(Nat) /\ V(k) \in Seq(Nat)
      <4> HIDE DEF U, V
      <4> QED BY <2>3, <2>5, <2>6, AppendProperties
    <3>3. Numeral(base, V(k)) \in Nat /\ Numeral(base, U(k)) \in Nat
      <4> HIDE DEF U, V
      <4> QED BY <3>2, NumeralIsNat
    <3> HIDE DEF U, V
    <3> QED BY <3>1, <3>3
  <2> HIDE DEF U, V, T
  <2>8. Numeral(base, U(k)) = Numeral(base, U(k - 1)) * base + (base - 1)
    BY <2>3, <2>5, NumeralAppend
  <2>9. Numeral(base, V(k)) = Numeral(base, V(k - 1)) * base + 0
    BY <2>3, <2>6, NumeralAppend
  <2>10. Numeral(base, U(k - 1)) \in Nat
    BY <2>5, NumeralIsNat
  <2>11. \A n \in Nat : (n + 1) * base + 0 = (n * base + (base - 1)) + 1
                        /\ n * base + (base - 1) \in Int
    OBVIOUS
  <2> QED BY <2>4, <2>7, <2>8, <2>9, <2>10, <2>11
<1> QED BY <1>1

-----------------------------------------------------------------------------
(* Four counters, the first weighing most: what the loops of a sequential   *)
(* program have left to do.                                                 *)
Ranks == Nat \X Nat \X Nat \X Nat

Below(s, t) ==
  \/ s[1] < t[1]
  \/ s[1] = t[1] /\ \/ s[2] < t[2]
                    \/ s[2] = t[2] /\ \/ s[3] < t[3]
                                      \/ s[3] = t[3] /\ s[4] < t[4]

(* A number that never grows is the same from somewhere on. *)
LEMMA Settles ==
  ASSUME NEW g \in [Nat -> Nat], NEW N \in Nat, \A n \in Nat : n >= N => g[n + 1] <= g[n]
  PROVE  \E M \in Nat : \A n \in Nat : n >= M => n >= N /\ g[n + 1] = g[n]
<1> DEFINE T == {g[n] : n \in {k \in Nat : k >= N}}
<1>1. T \subseteq Nat /\ g[N] \in T
  OBVIOUS
<1>2. PICK v \in T : \A w \in T : v <= w
  <2> HIDE DEF T
  <2> QED BY <1>1, Least
<1>3. PICK M \in Nat : M >= N /\ g[M] = v
  OBVIOUS
<1>4. \A n \in Nat : n >= M => g[n] >= v
  BY <1>2, <1>3
<1> HIDE DEF T
<1> DEFINE U == {n \in Nat : n >= M /\ g[n] # v}
<1>5. ASSUME U # {} PROVE FALSE
  <2>1. PICK x \in U : \A y \in U : x <= y
    BY <1>5, Least
  <2>2. x \in Nat /\ x >= M /\ g[x] # v
    BY <2>1
  <2>3. x # M
    BY <1>3, <2>2
  <2>4. x - 1 \in Nat /\ x - 1 >= M /\ (x - 1) + 1 = x /\ ~ x <= x - 1
    BY <1>3, <2>2, <2>3
  <2>5. x - 1 \notin U
    <3> HIDE DEF U
    <3> QED BY <2>1, <2>4
  <2>6. g[x - 1] = v
    BY <2>4, <2>5
  <2>7. g[(x - 1) + 1] <= g[x - 1]
    <3>1. x - 1 >= N
      BY <1>3, <2>4
    <3> HIDE DEF U
    <3> QED BY <2>4, <3>1
  <2>8. g[x] <= v /\ g[x] >= v /\ g[x] \in Nat /\ v \in Nat
    <3> HIDE DEF U
    <3> QED BY <1>1, <1>4, <2>2, <2>4, <2>6, <2>7
  <2> QED BY <2>2, <2>8
<1>6. ASSUME NEW n \in Nat, n >= M PROVE n >= N /\ g[n + 1] = g[n]
  <2>1. M \in Nat /\ M >= N
    BY <1>3
  <2>2. n + 1 \in Nat /\ n + 1 >= M /\ n >= N
    BY <1>6, <2>1
  <2>3. g[n] = v
    BY <1>5, <1>6
  <2>4. g[n + 1] = v
    BY <1>5, <2>2
  <2> HIDE DEF U
  <2> QED BY <2>2, <2>3, <2>4
<1>7. M \in Nat
  BY <1>3
<1> HIDE DEF U
<1> QED BY <1>6, <1>7

(* Nothing goes down for ever: a program whose steps lower four counters    *)
(* takes finitely many of them.                                             *)
THEOREM NoDescent ==
  ASSUME NEW f \in [Nat -> Ranks]
  PROVE  \E n \in Nat : ~ Below(f[n + 1], f[n])
<1> SUFFICES ASSUME \A n \in Nat : Below(f[n + 1], f[n]) PROVE FALSE
  OBVIOUS
<1> DEFINE g1 == [n \in Nat |-> f[n][1]]
           g2 == [n \in Nat |-> f[n][2]]
           g3 == [n \in Nat |-> f[n][3]]
           g4 == [n \in Nat |-> f[n][4]]
<1>1. g1 \in [Nat -> Nat] /\ g2 \in [Nat -> Nat] /\ g3 \in [Nat -> Nat] /\ g4 \in [Nat -> Nat]
  BY DEF Ranks
<1> DEFINE Step(n) ==
         \/ g1[n + 1] < g1[n]
         \/ g1[n + 1] = g1[n] /\ \/ g2[n + 1] < g2[n]
                                 \/ g2[n + 1] = g2[n] /\ \/ g3[n + 1] < g3[n]
                                                         \/ g3[n + 1] = g3[n] /\ g4[n + 1] < g4[n]
<1>2. \A n \in Nat : Step(n)
  BY DEF Below
<1> HIDE DEF g1, g2, g3, g4, Step
<1>3. PICK A \in Nat : \A n \in Nat : n >= A => n >= 0 /\ g1[n + 1] = g1[n]
  <2>1. ASSUME NEW n \in Nat, n >= 0 PROVE g1[n + 1] <= g1[n]
    <3>1. n + 1 \in Nat
      OBVIOUS
    <3>2. g1[n] \in Nat /\ g2[n] \in Nat /\ g3[n] \in Nat /\ g4[n] \in Nat /\ g1[n + 1] \in Nat
      BY <1>1, <3>1
    <3>3. Step(n)
      BY <1>2
    <3> QED BY <3>2, <3>3 DEF Step
  <2>2. 0 \in Nat
    OBVIOUS
  <2> QED BY <1>1, <2>1, <2>2, Settles
<1>4. PICK B \in Nat : \A n \in Nat : n >= B => n >= A /\ g2[n + 1] = g2[n]
  <2>1. ASSUME NEW n \in Nat, n >= A PROVE g2[n + 1] <= g2[n]
    <3>1. n + 1 \in Nat
      OBVIOUS
    <3>2. g1[n] \in Nat /\ g2[n] \in Nat /\ g3[n] \in Nat /\ g4[n] \in Nat /\ g2[n + 1] \in Nat
      BY <1>1, <3>1
    <3>3. Step(n)
      BY <1>2
    <3>4. n >= 0 /\ g1[n + 1] = g1[n]
      BY <1>3, <2>1
    <3> QED BY <3>2, <3>3, <3>4 DEF Step
  <2>2. A \in Nat
    BY <1>3
  <2> QED BY <1>1, <2>1, <2>2, Settles
<1>5. PICK C \in Nat : \A n \in Nat : n >= C => n >= B /\ g3[n + 1] = g3[n]
  <2>1. ASSUME NEW n \in Nat, n >= B PROVE g3[n + 1] <= g3[n]
    <3>1. n + 1 \in Nat
      OBVIOUS
    <3>2. g1[n] \in Nat /\ g2[n] \in Nat /\ g3[n] \in Nat /\ g4[n] \in Nat /\ g3[n + 1] \in Nat
      BY <1>1, <3>1
    <3>3. Step(n)
      BY <1>2
    <3>4. n >= A /\ g2[n + 1] = g2[n]
      BY <1>4, <2>1
    <3>5. n >= 0 /\ g1[n + 1] = g1[n]
      BY <1>3, <3>4
    <3> QED BY <3>2, <3>3, <3>4, <3>5 DEF Step
  <2>2. B \in Nat
    BY <1>4
  <2> QED BY <1>1, <2>1, <2>2, Settles
<1>6. PICK D \in Nat : \A n \in Nat : n >= D => n >= C /\ g4[n + 1] = g4[n]
  <2>1. ASSUME NEW n \in Nat, n >= C PROVE g4[n + 1] <= g4[n]
    <3>1. n + 1 \in Nat
      OBVIOUS
    <3>2. g1[n] \in Nat /\ g2[n] \in Nat /\ g3[n] \in Nat /\ g4[n] \in Nat /\ g4[n + 1] \in Nat
      BY <1>1, <3>1
    <3>3. Step(n)
      BY <1>2
    <3>4. n >= B /\ g3[n + 1] = g3[n]
      BY <1>5, <2>1
    <3>5. n >= A /\ g2[n + 1] = g2[n]
      BY <1>4, <3>4
    <3>6. n >= 0 /\ g1[n + 1] = g1[n]
      BY <1>3, <3>5
    <3> QED BY <3>2, <3>3, <3>4, <3>5, <3>6 DEF Step
  <2>2. C \in Nat
    BY <1>5
  <2> QED BY <1>1, <2>1, <2>2, Settles
<1>7. D \in Nat /\ D >= D
  BY <1>6
<1>8. D >= C /\ g4[D + 1] = g4[D]
  BY <1>6, <1>7
<1>9. D >= B /\ g3[D + 1] = g3[D]
  BY <1>5, <1>7, <1>8
<1>10. D >= A /\ g2[D + 1] = g2[D]
  BY <1>4, <1>7, <1>9
<1>11. g1[D + 1] = g1[D]
  BY <1>3, <1>7, <1>10
<1>12. g1[D] \in Nat /\ g2[D] \in Nat /\ g3[D] \in Nat /\ g4[D] \in Nat
  BY <1>1, <1>7
<1>13. Step(D)
  BY <1>2, <1>7
<1> QED BY <1>8, <1>9, <1>10, <1>11, <1>12, <1>13 DEF Step
=============================================================================
