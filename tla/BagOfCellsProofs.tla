-------------------------- MODULE BagOfCellsProofs --------------------------
(***************************************************************************)
(* Every bag comes back under every renumbering, whatever its size, its    *)
(* payloads and the number of values of a byte.  An item of the file is    *)
(* known by the cell it stands for (Src).  The descriptors and the payload *)
(* are about that cell (Described, Laid), the open references of an item   *)
(* are as many as its degree (Graph), so the items in Kahn's order are     *)
(* those without open references (Kahn), and a cell is rebuilt from its    *)
(* own payload and its own references (Rebuilt).                           *)
(***************************************************************************)
EXTENDS BagOfCells, DivModFacts, FunctionTheorems, FiniteSetTheorems, SequenceTheorems, TLAPS

-----------------------------------------------------------------------------
(* The inductive invariant.                                                 *)

Early == {"permute", "header", "meta", "data", "parse"}
Late  == {"edges", "seed", "pop", "release", "intervals", "rebuild", "done"}
Byte  == 0 .. Base - 1

Descriptors == [len : Nat, refs : RefLists(cellCount)]

Typed ==
  /\ phase \in Phases /\ i \in Nat /\ j \in Nat /\ rootIdx \in Idx
  /\ refSize \in Nat /\ offSize \in Nat /\ dataSize \in Nat /\ position \in Nat
  /\ meta \in Seq(Descriptors) /\ data \in Seq(Byte) /\ start \in Seq(Nat)
  /\ topol \in Seq(Idx) /\ queue \in Seq(Idx) /\ cells \in Seq(Idx)

(* What the reader knows before and after it has parsed the header. *)
Blank ==
  /\ count = 0 /\ revGraph = <<>> /\ inDegree = <<>> /\ idxMap = <<>>
  /\ queue = <<>> /\ topol = <<>> /\ cells = <<>>
Filled ==
  /\ count = cellCount
  /\ revGraph \in [Idx -> Seq(Idx)] /\ inDegree \in [Idx -> Nat]
  /\ idxMap \in [Idx -> Idx \union {NoCell}]

Read ==
  /\ phase \in Early => Blank
  /\ phase \in Late => Filled
  /\ phase = "error" => Blank \/ Filled
  /\ phase \in Early \union {"edges", "seed", "pop", "release"} => start = <<0>>

(* The loops stay within their bounds. *)
Loops ==
  /\ phase \in {"meta", "data", "edges", "seed", "intervals"} => i < cellCount
  /\ phase \in {"permute", "header"} => meta = <<>>
  /\ phase = "meta" => Len(meta) = i
  /\ phase \in {"data", "parse"} \union Late => Len(meta) = cellCount
  /\ phase \in {"permute", "header", "meta"} => data = <<>>
  /\ phase = "edges" => j <= Len(meta[i + 1].refs)
  /\ phase = "intervals" => Len(start) = i + 1
  /\ phase \in {"rebuild", "done"} => Len(start) = cellCount + 1

(* The renumbering keeps the bag. *)
Renumbered ==
  /\ phase = "permute" => rootIdx = cellCount - 1
  /\ phase # "permute" =>
       /\ list \in [Idx -> [cell : Idx, refs : RefLists(cellCount)]]
       /\ \A p, q \in Idx : list[p].cell = list[q].cell => p = q
       /\ list[rootIdx].cell = cellCount - 1
       /\ \A p \in Idx :
            /\ DOMAIN list[p].refs = DOMAIN refs[list[p].cell]
            /\ \A k \in DOMAIN list[p].refs :
                 list[list[p].refs[k]].cell = refs[list[p].cell][k]

(* The cell that an item of the file stands for. *)
Src(f) == list[Place(f)].cell

Headed ==
  phase \notin {"permute", "header", "error"} =>
    /\ header.cells = cellCount /\ header.root \in Idx /\ Src(header.root) = cellCount - 1
    /\ cellCount < PowerOf(Base, refSize)

Described ==
  \A m \in 1 .. Len(meta) :
    /\ meta[m].len = Len(payload[Src(m - 1)])
    /\ DOMAIN meta[m].refs = DOMAIN refs[Src(m - 1)]
    /\ \A k \in DOMAIN meta[m].refs : Src(meta[m].refs[k]) = refs[Src(m - 1)][k]

(* The payloads of the first n items are where off says, and the reader     *)
(* finds them there.                                                        *)
LaidAt(off, n) ==
  /\ off[0] = 0 /\ off[n] = Len(data)
  /\ \A f \in 0 .. n - 1 :
       /\ off[f + 1] = off[f] + Len(payload[Src(f)])
       /\ off[f + 1] <= Len(data)
       /\ \A x \in 1 .. Len(payload[Src(f)]) : data[off[f] + x] = payload[Src(f)][x]
  /\ Len(start) <= n + 1
  /\ \A m \in 1 .. Len(start) : start[m] = off[m - 1]
LaidUpTo(n) == \E off \in [0 .. n -> Nat] : LaidAt(off, n)

Laid ==
  /\ phase = "data" => LaidUpTo(i)
  /\ phase \in {"parse"} \union Late => LaidUpTo(cellCount)

RefsOf(c) == meta[c + 1].refs

(* A reference is an entry of revGraph.  It is open until the item it refers *)
(* to has been taken and the entry looked at.                               *)
Taken(r, x) ==
  \E m \in 1 .. Len(topol) :
    topol[m] = r /\ (m < Len(topol) \/ phase # "release" \/ x <= j)
Open(c) ==
  {e \in Idx \X (Nat \ {0}) :
     e[2] <= Len(revGraph[e[1]]) /\ revGraph[e[1]][e[2]] = c /\ ~Taken(e[1], e[2])}

Graph ==
  phase \in {"edges", "seed", "pop", "release"} =>
    /\ \A c \in Idx : IsFiniteSet(Open(c)) /\ Cardinality(Open(c)) = inDegree[c]
    /\ \A r \in Idx : \A x \in 1 .. Len(revGraph[r]) :
         \E k \in DOMAIN RefsOf(revGraph[r][x]) : RefsOf(revGraph[r][x])[k] = r
    /\ \A c \in Idx : \A k \in DOMAIN RefsOf(c) :
         (phase = "edges" => c < i \/ (c = i /\ k <= j)) =>
           \E x \in 1 .. Len(revGraph[RefsOf(c)[k]]) : revGraph[RefsOf(c)[k]][x] = c

(* Where Kahn's algorithm is. *)
Queued(c) == \E m \in 1 .. Len(queue) : queue[m] = c
Sent(c)   == \E m \in 1 .. Len(topol) : topol[m] = c

Distinct ==
  /\ \A m, p \in 1 .. Len(topol) : topol[m] = topol[p] => m = p
  /\ \A m, p \in 1 .. Len(queue) : queue[m] = queue[p] => m = p
  /\ \A m \in 1 .. Len(topol), p \in 1 .. Len(queue) : topol[m] # queue[p]

RefsBefore ==
  /\ \A m \in 1 .. Len(topol) : \A k \in DOMAIN RefsOf(topol[m]) :
       \E p \in 1 .. Len(topol) : p < m /\ topol[p] = RefsOf(topol[m])[k]
  /\ \A m \in 1 .. Len(queue) : \A k \in DOMAIN RefsOf(queue[m]) :
       \E p \in 1 .. Len(topol) : topol[p] = RefsOf(queue[m])[k]

Kahn ==
  /\ phase = "edges" => topol = <<>> /\ queue = <<>>
  /\ phase = "seed" =>
       topol = <<>> /\ \A c \in Idx : Queued(c) <=> c < i /\ inDegree[c] = 0
  /\ phase \in {"pop", "release"} => \A c \in Idx : Queued(c) \/ Sent(c) <=> inDegree[c] = 0
  /\ phase = "release" => Len(topol) > 0 /\ j <= Len(Waiting)
  /\ phase \in {"intervals", "rebuild", "done"} => queue = <<>> /\ \A c \in Idx : Sent(c)
  /\ phase \in {"edges", "seed", "pop", "release", "intervals"} =>
       cells = <<>> /\ idxMap = [c \in Idx |-> NoCell]

Rebuilt ==
  /\ phase \in {"rebuild", "done"} => Len(cells) <= Len(topol)
  /\ phase = "rebuild" => Len(cells) = i
  /\ phase \in {"rebuild", "done"} =>
       \A m \in 1 .. Len(cells) : idxMap[topol[m]] = m - 1 /\ cells[m] = Src(topol[m])
  /\ root = IF phase = "done" THEN cellCount - 1 ELSE NoCell

IInv ==
  /\ Imported /\ Typed /\ Read /\ Loops /\ Renumbered /\ Headed /\ Described /\ Laid
  /\ Graph /\ Distinct /\ RefsBefore /\ Kahn /\ Rebuilt

-----------------------------------------------------------------------------
(* Widths.                                                                  *)

LEMMA Powers ==
  ASSUME NEW base \in Nat
  PROVE  /\ PowerOf(base, 0) = 1
         /\ \A w \in Nat : PowerOf(base, w) \in Nat /\ PowerOf(base, w + 1) = PowerOf(base, w) * base
<1> DEFINE s == <<1>>
<1>1. s \in Seq(Nat)
  OBVIOUS
<1>2. Numeral(base, s) = 1
  <2>1. Append(<<>>, 1) = s /\ <<>> \in Seq(Nat) /\ 1 \in Nat
    OBVIOUS
  <2>2. Numeral(base, Append(<<>>, 1)) = Numeral(base, <<>>) * base + 1
    BY <2>1, NumeralAppend
  <2>3. Numeral(base, <<>>) = 0
    BY NumeralEmpty
  <2> QED BY <2>1, <2>2, <2>3
<1>3. PowerOf(base, 0) = 1
  BY <1>1, <1>2, NoRun DEF PowerOf
<1>4. ASSUME NEW w \in Nat
      PROVE  PowerOf(base, w) \in Nat /\ PowerOf(base, w + 1) = PowerOf(base, w) * base
  <2> DEFINE u == s \o [k \in 1 .. w |-> 0]
             v == s \o [k \in 1 .. w + 1 |-> 0]
  <2>1. w + 1 \in Nat \ {0} /\ (w + 1) - 1 = w
    OBVIOUS
  <2>2. u \in Seq(Nat) /\ v = Append(u, 0)
    <3> HIDE DEF s
    <3>1. s \o [k \in 1 .. (w + 1) - 1 |-> 0] \in Seq(Nat)
          /\ s \o [k \in 1 .. w + 1 |-> 0] = Append(s \o [k \in 1 .. (w + 1) - 1 |-> 0], 0)
      BY <1>1, <2>1, RunGrows
    <3> QED BY <2>1, <3>1
  <2> HIDE DEF u, v
  <2>3. Numeral(base, u) \in Nat /\ Numeral(base, Append(u, 0)) = Numeral(base, u) * base + 0
    BY <2>2, NumeralIsNat, NumeralAppend
  <2>4. PowerOf(base, w) = Numeral(base, u) /\ PowerOf(base, w + 1) = Numeral(base, v)
    BY DEF PowerOf, u, v
  <2> QED BY <2>2, <2>3, <2>4
<1> QED BY <1>3, <1>4

LEMMA PowersGrow ==
  /\ \A w \in Nat : PowerOf(Base, w) \in Nat /\ w < PowerOf(Base, w)
<1>1. Base \in Nat /\ Base >= 2
  BY BoundsAssumption
<1>2. PowerOf(Base, 0) = 1
      /\ \A w \in Nat : PowerOf(Base, w) \in Nat /\ PowerOf(Base, w + 1) = PowerOf(Base, w) * Base
  BY <1>1, Powers
<1> DEFINE T == {w \in Nat : ~(w < PowerOf(Base, w))}
<1>3. T = {}
  <2> SUFFICES ASSUME T # {} PROVE FALSE
    OBVIOUS
  <2>1. PICK w \in T : \A m \in T : w <= m
    <3>1. T \subseteq Nat
      OBVIOUS
    <3> HIDE DEF T
    <3> QED BY <3>1, Least
  <2>2. w # 0 /\ w \in Nat
    BY <1>2
  <2>3. w - 1 \in Nat /\ ~(w - 1 \in T)
    BY <2>1, <2>2
  <2>4. w - 1 < PowerOf(Base, w - 1) /\ PowerOf(Base, w - 1) \in Nat
    BY <1>2, <2>3
  <2>5. PowerOf(Base, w) = PowerOf(Base, w - 1) * Base
    <3>1. (w - 1) + 1 = w
      BY <2>2
    <3> QED BY <1>2, <2>3, <3>1
  <2>6. ASSUME NEW p \in Nat, w - 1 < p PROVE w < p * Base
    <3>1. \A x, b \in Nat : b >= 2 => x * b \in Nat /\ x * b >= x + x
      OBVIOUS
    <3>2. p * Base \in Nat /\ p * Base >= p + p
      BY <1>1, <3>1
    <3>3. p >= w /\ w >= 1
      BY <2>2, <2>6
    <3> QED BY <2>2, <3>2, <3>3
  <2>7. ~(w < PowerOf(Base, w))
    BY <2>1
  <2> HIDE DEF T
  <2> QED BY <2>4, <2>5, <2>6, <2>7
<1> QED BY <1>2, <1>3

(* There is a width that a number fits. *)
LEMMA Widths ==
  ASSUME NEW v \in Nat
  PROVE  ByteWidth(v) \in Nat /\ v < PowerOf(Base, ByteWidth(v))
<1> DEFINE T == {w \in Nat : v < PowerOf(Base, w)}
<1>1. PICK w \in T : \A m \in T : w <= m
  <2>1. T \subseteq Nat /\ v \in T
    BY PowersGrow
  <2> HIDE DEF T
  <2> QED BY <2>1, Least
<1>2. w \in 0 .. v /\ v < PowerOf(Base, w) /\ \A u \in 0 .. w - 1 : v >= PowerOf(Base, u)
  <2>1. v \in T
    BY PowersGrow
  <2>2. w \in Nat /\ w <= v /\ v < PowerOf(Base, w)
    BY <1>1, <2>1
  <2>3. ASSUME NEW u \in 0 .. w - 1 PROVE v >= PowerOf(Base, u)
    <3>1. u \in Nat /\ ~(w <= u)
      BY <2>2
    <3>2. ~(u \in T)
      BY <1>1, <3>1
    <3> QED BY <3>1, <3>2, PowersGrow
  <2> QED BY <2>2, <2>3
<1> HIDE DEF T
<1>3. \E z \in 0 .. v : v < PowerOf(Base, z) /\ \A u \in 0 .. z - 1 : v >= PowerOf(Base, u)
  BY <1>2
<1>4. ByteWidth(v) \in 0 .. v /\ v < PowerOf(Base, ByteWidth(v))
  BY <1>3 DEF ByteWidth
<1> QED BY <1>4

(* What fits is stored as it is, and what does not as something smaller.    *)
LEMMA Stored ==
  ASSUME NEW v \in Nat, NEW w \in Nat
  PROVE  /\ Store(v, w) \in 0 .. v
         /\ v < PowerOf(Base, w) => Store(v, w) = v
<1> DEFINE p == PowerOf(Base, w)
<1>1. p \in Nat /\ p > 0
  BY PowersGrow
<1> HIDE DEF p
<1>2. v % p \in 0 .. v
  <2>1. v = p * (v \div p) + (v % p) /\ v \div p \in Nat /\ v % p \in 0 .. p - 1
    BY <1>1, DivMod
  <2>2. \A q \in Nat : p * q \in Nat
    BY <1>1
  <2> QED BY <1>1, <2>1, <2>2
<1>3. v < p => v % p = v
  BY <1>1
<1> QED BY <1>2, <1>3 DEF Store, p

-----------------------------------------------------------------------------
(* Bags.                                                                    *)

LEMMA Bag ==
  ASSUME Imported
  PROVE  /\ cellCount \in Nat /\ cellCount >= 1
         /\ \A c \in Idx : /\ payload[c] \in Seq(Byte) /\ Len(payload[c]) \in Nat
                           /\ refs[c] \in RefLists(cellCount)
                           /\ \A k \in DOMAIN refs[c] : refs[c][k] \in Idx /\ refs[c][k] < c
         /\ \A c, d \in Idx : payload[c] = payload[d] /\ refs[c] = refs[d] => c = d
<1>1. cellCount \in Nat /\ cellCount >= 1 /\ cellCount <= MaxCells
  BY BoundsAssumption DEF Imported
<1>2. \A c \in Idx : payload[c] \in Payloads[c]
  BY DEF Imported
<1>3. ASSUME NEW c \in Idx PROVE payload[c] \in Seq(Byte)
  <2>1. c \in 0 .. MaxCells - 1
    BY <1>1, BoundsAssumption DEF Idx
  <2> QED BY <1>2, <2>1, BoundsAssumption DEF Byte
<1>4. refs \in [Idx -> RefLists(cellCount)]
      /\ \A c \in Idx : \A k \in DOMAIN refs[c] : refs[c][k] < c
  BY DEF Imported
<1>5. ASSUME NEW c \in Idx, NEW k \in DOMAIN refs[c] PROVE refs[c][k] \in Idx
  BY <1>4 DEF RefLists, Idx
<1> QED BY <1>1, <1>3, <1>4, <1>5 DEF Imported

LEMMA Lists ==
  ASSUME NEW n \in Nat, NEW s \in RefLists(n)
  PROVE  /\ Len(s) \in Nat /\ DOMAIN s = 1 .. Len(s) /\ s \in Seq(0 .. n - 1)
         /\ \A k \in DOMAIN s : s[k] \in 0 .. n - 1
<1>1. PICK m \in 0 .. MaxRefs : s \in [1 .. m -> 0 .. n - 1]
  BY DEF RefLists
<1>2. m \in Nat
  BY BoundsAssumption
<1> QED BY <1>1, <1>2

LEMMA Places ==
  ASSUME cellCount \in Nat, NEW f \in Idx
  PROVE  Place(f) \in Idx /\ Place(Place(f)) = f
BY DEF Place, Idx

LEMMA Sources ==
  ASSUME Imported, Renumbered, phase # "permute"
  PROVE  /\ \A f \in Idx : Src(f) \in Idx
         /\ \A f, g \in Idx : Src(f) = Src(g) => f = g
<1>1. cellCount \in Nat
  BY Bag
<1>2. \A f \in Idx : Place(f) \in Idx
  BY <1>1, Places
<1>3. ASSUME NEW f \in Idx PROVE Src(f) \in Idx
  BY <1>2 DEF Renumbered, Src
<1>4. ASSUME NEW f \in Idx, NEW g \in Idx, Src(f) = Src(g) PROVE f = g
  <2>1. Place(f) = Place(g)
    BY <1>2, <1>4 DEF Renumbered, Src
  <2> QED BY <1>1, <2>1 DEF Place, Idx
<1> QED BY <1>3, <1>4

(* A permutation of the cells has every cell at one place. *)
LEMMA OnePlace ==
  ASSUME cellCount \in Nat, NEW perm \in Permutations(Idx)
  PROVE  \A c \in Idx : /\ perm[c] \in Idx
                        /\ (CHOOSE x \in Idx : perm[x] = perm[c]) = c
                        /\ \E x \in Idx : perm[x] = c
<1>1. perm \in [Idx -> Idx] /\ \A x \in Idx : \E y \in Idx : perm[y] = x
  BY DEF Permutations
<1>2. IsFiniteSet(Idx)
  BY FS_Interval DEF Idx
<1>3. perm \in Surjection(Idx, Idx)
  BY <1>1 DEF Surjection
<1>4. perm \in Injection(Idx, Idx)
  BY <1>2, <1>3, FS_SurjSameCardinalityImpliesInj
<1>5. \A x, y \in Idx : perm[x] = perm[y] => x = y
  BY <1>4 DEF Injection, IsInjective
<1>6. ASSUME NEW c \in Idx PROVE (CHOOSE x \in Idx : perm[x] = perm[c]) = c
  <2> DEFINE d == CHOOSE x \in Idx : perm[x] = perm[c]
  <2>1. \E x \in Idx : perm[x] = perm[c]
    BY <1>6
  <2>2. d \in Idx /\ perm[d] = perm[c]
    BY <2>1
  <2> HIDE DEF d
  <2>3. d = c
    BY <1>5, <1>6, <2>2
  <2> QED BY <2>3 DEF d
<1>7. \A c \in Idx : perm[c] \in Idx
  BY <1>1
<1>8. \A c \in Idx : \E x \in Idx : perm[x] = c
  BY <1>1
<1> QED BY <1>6, <1>7, <1>8

-----------------------------------------------------------------------------
(* What a step does not touch.                                              *)

LEMMA BagStays ==
  ASSUME UNCHANGED bagVars
  PROVE  /\ Imported' = Imported /\ Idx' = Idx /\ Descriptors' = Descriptors
         /\ RefLists(cellCount)' = RefLists(cellCount)
         /\ \A f : Place(f)' = Place(f)
BY DEF bagVars, Imported, Idx, Descriptors, RefLists, Place

LEMMA ReaderWaits ==
  ASSUME IInv, phase \in Early, phase' \in Early \union {"error"},
         UNCHANGED <<count, kahnVars, buildVars>>
  PROVE  Read' /\ Graph' /\ Distinct' /\ RefsBefore' /\ Kahn' /\ Rebuilt'
<1>1. Blank /\ start = <<0>> /\ root = NoCell
  <2>1. phase # "done"
    BY DEF Early
  <2> QED BY <2>1 DEF IInv, Read, Rebuilt
<1>2. Blank' /\ start' = <<0>> /\ root' = NoCell
  BY <1>1 DEF Blank, kahnVars, buildVars
<1>3. phase' \notin Late
  BY DEF Early, Late
<1>4. Read'
  BY <1>2, <1>3 DEF Read, Early
<1>5. topol' = <<>> /\ queue' = <<>>
  BY <1>2 DEF Blank
<1>6. Distinct' /\ RefsBefore'
  BY <1>5 DEF Distinct, RefsBefore
<1>7. Graph' /\ Kahn'
  BY <1>3 DEF Graph, Kahn, Late
<1>8. Rebuilt'
  BY <1>2, <1>3 DEF Rebuilt, Late
<1> QED BY <1>4, <1>6, <1>7, <1>8

LEMMA WriterStays ==
  ASSUME IInv, phase \in {"parse"} \union Late, phase' \in Late \union {"error"},
         UNCHANGED <<bagVars, writeVars>>
  PROVE  Imported' /\ Renumbered' /\ Headed' /\ Described' /\ \A f : Src(f)' = Src(f)
<1>1. \A f : Src(f)' = Src(f)
  BY BagStays DEF Src, writeVars
<1>2. Imported'
  BY BagStays DEF IInv
<1>3. Renumbered'
  <2>1. Renumbered /\ phase # "permute"
    BY DEF IInv, Late
  <2>2. /\ phase' # "permute" /\ Idx' = Idx /\ RefLists(cellCount)' = RefLists(cellCount)
        /\ list' = list /\ rootIdx' = rootIdx /\ cellCount' = cellCount /\ refs' = refs
    BY BagStays DEF Late, bagVars, writeVars
  <2> QED BY <2>1, <2>2 DEF Renumbered
<1>4. Headed'
  <2>1. Headed /\ phase \notin {"permute", "header", "error"}
    BY DEF IInv, Late
  <2>2. Src(header.root)' = Src(header.root)
    BY BagStays DEF Src, writeVars
  <2> QED BY <2>1, <2>2, BagStays DEF Headed, bagVars, writeVars
<1>5. Described'
  <2>1. Described
    BY DEF IInv
  <2>2. list' = list /\ meta' = meta /\ payload' = payload /\ refs' = refs /\ cellCount' = cellCount
    BY DEF bagVars, writeVars
  <2> QED BY <2>1, <2>2 DEF Described, Src, Place
<1> QED BY <1>1, <1>2, <1>3, <1>4, <1>5

-----------------------------------------------------------------------------
(* The writer.                                                              *)

LEMMA StepPermute == ASSUME IInv, Permute PROVE IInv'
<1>1. phase = "permute" /\ phase' = "header" /\ i' = 0 /\ j' = 0
  BY DEF Permute, Goto
<1>2. UNCHANGED <<bagVars, refSize, offSize, dataSize, header, meta, data, position,
                  count, kahnVars, buildVars>>
  BY DEF Permute
<1>3. /\ Imported /\ cellCount \in Nat /\ cellCount >= 1 /\ rootIdx = cellCount - 1
      /\ meta = <<>> /\ data = <<>> /\ Typed /\ Loops
  BY <1>1, Bag DEF IInv, Renumbered, Loops
<1>4. Idx' = Idx /\ Imported' /\ RefLists(cellCount)' = RefLists(cellCount)
      /\ Descriptors' = Descriptors /\ cellCount' = cellCount /\ refs' = refs
  BY <1>2, <1>3, BagStays DEF bagVars
<1>5. Read' /\ Graph' /\ Distinct' /\ RefsBefore' /\ Kahn' /\ Rebuilt'
  <2>1. phase \in Early /\ phase' \in Early
    BY <1>1 DEF Early
  <2> QED BY <1>2, <2>1, ReaderWaits
<1>6. PICK perm \in Permutations(Idx) :
        /\ list' = [p \in Idx |->
             [cell |-> CHOOSE x \in Idx : perm[x] = p,
              refs |-> [k \in DOMAIN refs[CHOOSE x \in Idx : perm[x] = p] |->
                          perm[refs[CHOOSE x \in Idx : perm[x] = p][k]]]]]
        /\ rootIdx' = perm[rootIdx]
  BY DEF Permute
<1> DEFINE at(p) == CHOOSE x \in Idx : perm[x] = p
<1>7. /\ \A c \in Idx : perm[c] \in Idx /\ at(perm[c]) = c
      /\ \A p \in Idx : at(p) \in Idx /\ perm[at(p)] = p
  <2>1. \A c \in Idx : perm[c] \in Idx /\ at(perm[c]) = c /\ \E x \in Idx : perm[x] = c
    BY <1>3, OnePlace
  <2>2. ASSUME NEW p \in Idx PROVE at(p) \in Idx /\ perm[at(p)] = p
    <3>1. \E x \in Idx : perm[x] = p
      BY <2>1
    <3> QED BY <3>1
  <2> QED BY <2>1, <2>2
<1>8. list' = [p \in Idx |->
        [cell |-> at(p), refs |-> [k \in DOMAIN refs[at(p)] |-> perm[refs[at(p)][k]]]]]
  BY <1>6
<1> HIDE DEF at
<1>9. rootIdx \in Idx /\ rootIdx' = perm[rootIdx]
  BY <1>3, <1>6 DEF Idx
<1>10. Typed'
  <2>1. rootIdx' \in Idx
    BY <1>7, <1>9
  <2> QED BY <1>1, <1>2, <1>3, <1>4, <2>1
          DEF Typed, kahnVars, buildVars, Phases
<1>11. Loops'
  BY <1>1, <1>2, <1>3 DEF Loops, Late
<1>12. Renumbered'
  <2>1. ASSUME NEW p \in Idx
        PROVE  /\ list'[p].cell = at(p)
               /\ list'[p].refs = [k \in DOMAIN refs[at(p)] |-> perm[refs[at(p)][k]]]
               /\ list'[p] \in [cell : Idx, refs : RefLists(cellCount)]
    <3>1. list'[p] =
            [cell |-> at(p), refs |-> [k \in DOMAIN refs[at(p)] |-> perm[refs[at(p)][k]]]]
      BY <1>8
    <3>2. at(p) \in Idx /\ refs[at(p)] \in RefLists(cellCount)
          /\ \A k \in DOMAIN refs[at(p)] : refs[at(p)][k] \in Idx
      BY <1>3, <1>7, Bag
    <3>3. [k \in DOMAIN refs[at(p)] |-> perm[refs[at(p)][k]]] \in RefLists(cellCount)
      <4>1. PICK m \in 0 .. MaxRefs : refs[at(p)] \in [1 .. m -> 0 .. cellCount - 1]
        BY <3>2 DEF RefLists
      <4>2. DOMAIN refs[at(p)] = 1 .. m
        BY <4>1
      <4>3. \A k \in 1 .. m : perm[refs[at(p)][k]] \in 0 .. cellCount - 1
        BY <1>7, <3>2, <4>2 DEF Idx
      <4>4. [k \in DOMAIN refs[at(p)] |-> perm[refs[at(p)][k]]]
              \in [1 .. m -> 0 .. cellCount - 1]
        BY <4>2, <4>3
      <4> QED BY <4>4 DEF RefLists
    <3> QED BY <3>1, <3>2, <3>3
  <2>2. list' \in [Idx -> [cell : Idx, refs : RefLists(cellCount)]]
    <3>1. list' = [p \in Idx |-> list'[p]]
      BY <1>8
    <3>2. \A p \in Idx : list'[p] \in [cell : Idx, refs : RefLists(cellCount)]
      BY <2>1
    <3> QED BY <3>1, <3>2
  <2>3. ASSUME NEW p \in Idx, NEW q \in Idx, list'[p].cell = list'[q].cell PROVE p = q
    BY <1>7, <2>1, <2>3
  <2>4. list'[rootIdx'].cell = cellCount - 1
    <3>1. rootIdx' \in Idx /\ at(rootIdx') = rootIdx
      BY <1>7, <1>9
    <3> QED BY <1>3, <2>1, <3>1
  <2>5. ASSUME NEW p \in Idx
        PROVE  /\ DOMAIN list'[p].refs = DOMAIN refs[list'[p].cell]
               /\ \A k \in DOMAIN list'[p].refs :
                    list'[list'[p].refs[k]].cell = refs[list'[p].cell][k]
    <3>1. at(p) \in Idx /\ \A k \in DOMAIN refs[at(p)] : refs[at(p)][k] \in Idx
      BY <1>3, <1>7, Bag
    <3>2. ASSUME NEW k \in DOMAIN refs[at(p)]
          PROVE  list'[list'[p].refs[k]].cell = refs[at(p)][k]
      <4>1. list'[p].refs[k] = perm[refs[at(p)][k]]
        BY <2>1
      <4>2. perm[refs[at(p)][k]] \in Idx /\ at(perm[refs[at(p)][k]]) = refs[at(p)][k]
        BY <1>7, <3>1
      <4>3. list'[perm[refs[at(p)][k]]].cell = refs[at(p)][k]
        BY <2>1, <4>2
      <4> QED BY <4>1, <4>3
    <3> QED BY <2>1, <3>2
  <2> QED BY <1>1, <1>4, <2>2, <2>3, <2>4, <2>5 DEF Renumbered
<1>13. Headed' /\ Laid'
  BY <1>1 DEF Headed, Laid, Late
<1>14. Described'
  <2>1. meta' = <<>>
    BY <1>2, <1>3
  <2> QED BY <2>1 DEF Described
<1> QED BY <1>4, <1>5, <1>10, <1>11, <1>12, <1>13, <1>14 DEF IInv

LEMMA StepWriteHeader == ASSUME IInv, WriteHeader PROVE IInv'
<1> DEFINE rs   == ByteWidth(cellCount)
           size == SectionSize(rs)
           os   == ByteWidth(size)
<1>1. /\ phase = "header" /\ i' = 0 /\ j' = 0 /\ phase' \in {"error", "meta"}
      /\ refSize' = rs /\ offSize' = os /\ dataSize' = size
      /\ header' = [cells |-> Store(cellCount, rs), size |-> Store(size, os),
                    root |-> Store(Place(rootIdx), rs)]
  BY DEF WriteHeader, Goto
<1> HIDE DEF rs, size, os
<1>2. UNCHANGED <<bagVars, list, rootIdx, meta, data, position, count, kahnVars, buildVars>>
  BY DEF WriteHeader
<1>3. /\ Imported /\ cellCount \in Nat /\ cellCount >= 1
      /\ meta = <<>> /\ data = <<>> /\ Typed /\ Renumbered
  BY <1>1, Bag DEF IInv, Loops
<1>4. Idx' = Idx /\ Imported' /\ RefLists(cellCount)' = RefLists(cellCount)
      /\ Descriptors' = Descriptors /\ cellCount' = cellCount
  BY <1>2, <1>3, BagStays DEF bagVars
<1>5. Read' /\ Graph' /\ Distinct' /\ RefsBefore' /\ Kahn' /\ Rebuilt'
  <2>1. phase \in Early /\ phase' \in Early \union {"error"}
    BY <1>1 DEF Early
  <2> QED BY <1>2, <2>1, ReaderWaits
<1>6. rs \in Nat /\ cellCount < PowerOf(Base, rs)
  BY <1>3, Widths DEF rs
<1>7. size \in Nat /\ os \in Nat
  <2> DEFINE u == [n \in 1 .. cellCount |-> 2 + Len(payload[n - 1])]
             v == [n \in 1 .. cellCount |-> Len(refs[n - 1])]
  <2>1. u \in Seq(Nat) /\ v \in Seq(Nat)
    <3>1. ASSUME NEW n \in 1 .. cellCount
          PROVE  2 + Len(payload[n - 1]) \in Nat /\ Len(refs[n - 1]) \in Nat
      <4>1. n - 1 \in Idx
        BY <1>3 DEF Idx
      <4>2. Len(payload[n - 1]) \in Nat /\ refs[n - 1] \in RefLists(cellCount)
        BY <1>3, <4>1, Bag
      <4>3. Len(refs[n - 1]) \in Nat
        BY <1>3, <4>2, Lists
      <4> QED BY <4>2, <4>3
    <3> QED BY <1>3, <3>1
  <2> HIDE DEF u, v
  <2>2. Numeral(1, u) \in Nat /\ Numeral(1, v) \in Nat
    BY <2>1, NumeralIsNat
  <2>3. DataBytes \in Nat /\ IntRefs \in Nat
    BY <2>2 DEF DataBytes, IntRefs, Sum, u, v
  <2>4. size \in Nat
    BY <1>6, <2>3 DEF size, SectionSize
  <2> QED BY <2>4, Widths DEF os
<1>8. Typed'
  BY <1>1, <1>2, <1>3, <1>4, <1>6, <1>7 DEF Typed, kahnVars, buildVars, Phases
<1>9. Loops'
  BY <1>1, <1>2, <1>3, <1>4 DEF Loops, Late
<1>10. Renumbered'
  BY <1>1, <1>2, <1>3, <1>4 DEF Renumbered, bagVars
<1>11. Headed'
  <2>1. rootIdx \in Idx /\ list[rootIdx].cell = cellCount - 1
    BY <1>1, <1>3 DEF Typed, Renumbered
  <2>2. Place(rootIdx) \in Idx /\ Place(Place(rootIdx)) = rootIdx
    BY <1>3, <2>1, Places
  <2>3. Place(rootIdx) \in Nat /\ Place(rootIdx) < cellCount
    BY <1>3, <2>2 DEF Idx
  <2>4. Store(cellCount, rs) = cellCount
    BY <1>3, <1>6, Stored
  <2>5. Place(rootIdx) < PowerOf(Base, rs)
    BY <1>3, <1>6, <2>3, PowersGrow
  <2>6. Store(Place(rootIdx), rs) = Place(rootIdx)
    BY <1>6, <2>3, <2>5, Stored
  <2>7. header'.cells = cellCount /\ header'.root = Place(rootIdx)
    BY <1>1, <2>4, <2>6
  <2>8. Src(header.root)' = cellCount - 1
    <3>1. Src(header.root)' = list'[cellCount' - 1 - header'.root].cell
      BY DEF Src, Place
    <3>2. cellCount' - 1 - header'.root = Place(Place(rootIdx))
      BY <1>4, <2>7 DEF Place
    <3> QED BY <1>2, <2>1, <2>2, <3>1, <3>2
  <2>9. cellCount < PowerOf(Base, refSize)'
    BY <1>1, <1>6
  <2> QED BY <1>4, <2>2, <2>7, <2>8, <2>9 DEF Headed
<1>12. Laid'
  BY <1>1 DEF Laid, Late
<1>13. Described'
  <2>1. meta' = <<>>
    BY <1>2, <1>3
  <2> QED BY <2>1 DEF Described
<1> QED BY <1>4, <1>5, <1>8, <1>9, <1>10, <1>11, <1>12, <1>13 DEF IInv

LEMMA StepWriteMeta == ASSUME IInv, WriteMeta PROVE IInv'
<1> DEFINE from == list[Place(i)]
           d == [len  |-> Len(payload[from.cell]),
                 refs |-> [k \in DOMAIN from.refs |-> Store(Place(from.refs[k]), refSize)]]
<1>1. /\ phase = "meta" /\ meta' = Append(meta, d)
      /\ position' = position + 2 + Len(from.refs) * refSize
      /\ Advance(cellCount, "data")
  BY DEF WriteMeta
<1>2. UNCHANGED <<bagVars, list, rootIdx, refSize, offSize, dataSize, header, data,
                  count, kahnVars, buildVars>>
  BY DEF WriteMeta
<1>3. /\ Imported /\ cellCount \in Nat /\ cellCount >= 1 /\ Typed /\ Renumbered /\ Headed
      /\ Described /\ Blank /\ start = <<0>> /\ data = <<>> /\ Len(meta) = i /\ i \in Idx
  <2>1. phase \in Early
    BY <1>1 DEF Early
  <2> QED BY <1>1, <2>1, Bag DEF IInv, Typed, Loops, Read, Idx
<1>4. Idx' = Idx /\ Imported' /\ RefLists(cellCount)' = RefLists(cellCount)
      /\ Descriptors' = Descriptors /\ cellCount' = cellCount /\ \A f : Src(f)' = Src(f)
      /\ payload' = payload /\ refs' = refs
  BY <1>2, <1>3, BagStays DEF bagVars, Src
<1>5. \/ phase' = "meta" /\ i' = i + 1 /\ i + 1 < cellCount /\ j' = 0
      \/ phase' = "data" /\ i' = 0 /\ i + 1 = cellCount /\ j' = 0
  BY <1>1, <1>3 DEF Advance, Goto, Idx
<1>6. Read' /\ Graph' /\ Distinct' /\ RefsBefore' /\ Kahn' /\ Rebuilt'
  <2>1. phase \in Early /\ phase' \in Early \union {"error"}
    BY <1>1, <1>5 DEF Early
  <2> QED BY <1>2, <2>1, ReaderWaits
<1>7. Place(i) \in Idx /\ from.cell \in Idx /\ from.cell = Src(i)
      /\ from.refs \in RefLists(cellCount) /\ DOMAIN from.refs = DOMAIN refs[from.cell]
      /\ \A k \in DOMAIN from.refs : list[from.refs[k]].cell = refs[from.cell][k]
  <2>1. Place(i) \in Idx
    BY <1>3, Places
  <2>2. list \in [Idx -> [cell : Idx, refs : RefLists(cellCount)]]
    BY <1>1, <1>3 DEF Renumbered
  <2>3. from \in [cell : Idx, refs : RefLists(cellCount)]
    BY <2>1, <2>2
  <2> QED BY <1>1, <1>3, <2>1, <2>3 DEF Renumbered, Src
<1> HIDE DEF from
<1>8. /\ d.len = Len(payload[Src(i)])
      /\ DOMAIN d.refs = DOMAIN from.refs
      /\ \A k \in DOMAIN from.refs : d.refs[k] \in Idx /\ Src(d.refs[k]) = refs[Src(i)][k]
  <2>1. ASSUME NEW k \in DOMAIN from.refs
        PROVE  d.refs[k] \in Idx /\ Src(d.refs[k]) = refs[Src(i)][k]
    <3>1. from.refs[k] \in Idx
      BY <1>3, <1>7, Lists DEF Idx
    <3>2. Place(from.refs[k]) \in Idx /\ Place(Place(from.refs[k])) = from.refs[k]
      BY <1>3, <3>1, Places
    <3>3. Place(from.refs[k]) \in Nat /\ Place(from.refs[k]) < cellCount
      BY <1>3, <3>2 DEF Idx
    <3>4. cellCount < PowerOf(Base, refSize) /\ refSize \in Nat
      BY <1>1, <1>3 DEF Headed, Typed
    <3>5. Place(from.refs[k]) < PowerOf(Base, refSize)
      BY <1>3, <3>3, <3>4, PowersGrow
    <3>6. Store(Place(from.refs[k]), refSize) = Place(from.refs[k])
      BY <3>3, <3>4, <3>5, Stored
    <3>7. d.refs[k] = Place(from.refs[k])
      BY <3>6
    <3>8. Src(d.refs[k]) = list[from.refs[k]].cell
      BY <3>2, <3>7 DEF Src
    <3> QED BY <1>7, <3>2, <3>7, <3>8
  <2> QED BY <1>7, <2>1
<1>9. d \in Descriptors
  <2>1. Len(payload[Src(i)]) \in Nat
    BY <1>3, <1>7, Bag
  <2>2. PICK m \in 0 .. MaxRefs : from.refs \in [1 .. m -> 0 .. cellCount - 1]
    BY <1>7 DEF RefLists
  <2>3. DOMAIN from.refs = 1 .. m
    BY <2>2
  <2>4. d.refs \in [1 .. m -> 0 .. cellCount - 1]
    BY <1>8, <2>3 DEF Idx
  <2>5. d.refs \in RefLists(cellCount)
    BY <2>4 DEF RefLists
  <2> QED BY <1>8, <2>1, <2>5 DEF Descriptors
<1> HIDE DEF d
<1>10. /\ meta' \in Seq(Descriptors) /\ Len(meta') = i + 1 /\ meta'[i + 1] = d
       /\ \A m \in 1 .. i : meta'[m] = meta[m]
  <2>1. meta \in Seq(Descriptors)
    BY <1>3 DEF Typed
  <2> QED BY <1>1, <1>3, <1>9, <2>1, AppendProperties
<1>11. Typed'
  <2>1. position' \in Nat
    <3>1. Len(from.refs) \in Nat /\ refSize \in Nat /\ position \in Nat
      BY <1>3, <1>7, Lists DEF Typed
    <3> DEFINE size == Len(from.refs) * refSize
    <3>2. size \in Nat
      BY <3>1
    <3>3. position' = position + 2 + size
      BY <1>1
    <3> HIDE DEF size
    <3> QED BY <3>1, <3>2, <3>3
  <2>2. i' \in Nat /\ j' \in Nat /\ phase' \in Phases
    BY <1>3, <1>5 DEF Idx, Phases
  <2> QED BY <1>2, <1>3, <1>4, <1>10, <2>1, <2>2 DEF Typed, kahnVars, buildVars
<1>12. Loops'
  <2>1. Len(meta') = i + 1 /\ i \in Nat /\ data' = <<>> /\ cellCount' = cellCount
    BY <1>2, <1>3, <1>4, <1>10 DEF Idx
  <2> QED BY <1>3, <1>5, <2>1 DEF Loops, Late
<1>13. Renumbered' /\ Headed'
  <2>1. phase' \notin {"permute", "header", "error"} /\ phase \notin {"permute", "header", "error"}
    BY <1>1, <1>5
  <2>2. list' = list /\ rootIdx' = rootIdx /\ header' = header /\ refSize' = refSize
    BY <1>2
  <2>3. Src(header.root)' = Src(header.root)
    BY <1>4, <2>2 DEF Src, Place
  <2> QED BY <1>3, <1>4, <2>1, <2>2, <2>3 DEF Renumbered, Headed
<1>14. Described'
  <2>1. ASSUME NEW m \in 1 .. i + 1
        PROVE  /\ meta'[m].len = Len(payload[Src(m - 1)])
               /\ DOMAIN meta'[m].refs = DOMAIN refs[Src(m - 1)]
               /\ \A k \in DOMAIN meta'[m].refs : Src(meta'[m].refs[k]) = refs[Src(m - 1)][k]
    <3>1. CASE m \in 1 .. i
      BY <1>3, <1>10, <3>1 DEF Described
    <3>2. CASE m = i + 1
      <4>1. m - 1 = i /\ meta'[m] = d
        BY <1>3, <1>10, <3>2 DEF Idx
      <4> QED BY <1>7, <1>8, <4>1
    <3>3. m \in 1 .. i \/ m = i + 1
      BY <1>3 DEF Idx
    <3> QED BY <3>1, <3>2, <3>3
  <2>2. list' = list /\ cellCount' = cellCount
    BY <1>2, <1>4
  <2> QED BY <1>4, <1>10, <2>1, <2>2 DEF Described, Src, Place
<1>15. Laid'
  <2>1. CASE phase' = "meta"
    BY <2>1 DEF Laid, Late
  <2>2. CASE phase' = "data"
    <3> DEFINE off == [x \in 0 .. 0 |-> 0]
    <3>1. off \in [0 .. 0 -> Nat] /\ off[0] = 0
      OBVIOUS
    <3>2. Len(data') = 0 /\ start' = <<0>> /\ i' = 0
      BY <1>2, <1>3, <1>5, <2>2 DEF buildVars
    <3>3. Len(start') = 1 /\ start'[1] = 0
      BY <3>2
    <3> HIDE DEF off
    <3>4. LaidAt(off, 0)'
      <4>1. LaidAt(off, 0)' <=>
              /\ off[0] = 0 /\ off[0] = Len(data')
              /\ \A f \in 0 .. 0 - 1 :
                   /\ off[f + 1] = off[f] + Len(payload'[Src(f)'])
                   /\ off[f + 1] <= Len(data')
                   /\ \A x \in 1 .. Len(payload'[Src(f)']) :
                        data'[off[f] + x] = payload'[Src(f)'][x]
              /\ Len(start') <= 0 + 1
              /\ \A m \in 1 .. Len(start') : start'[m] = off[m - 1]
        BY DEF LaidAt
      <4>2. \A m \in 1 .. Len(start') : start'[m] = off[m - 1]
        BY <3>1, <3>3
      <4>3. 0 .. 0 - 1 = {}
        OBVIOUS
      <4> QED BY <3>1, <3>2, <3>3, <4>1, <4>2, <4>3
    <3>5. LaidUpTo(0)'
      BY <3>1, <3>4 DEF LaidUpTo
    <3>6. LaidUpTo(i)'
      BY <3>2, <3>5 DEF LaidUpTo, LaidAt
    <3> QED BY <2>2, <3>6 DEF Laid, Late
  <2> QED BY <1>5, <2>1, <2>2
<1> QED BY <1>4, <1>6, <1>11, <1>12, <1>13, <1>14, <1>15 DEF IInv

LEMMA StepWriteData == ASSUME IInv, WriteData PROVE IInv'
<1> DEFINE bytes == payload[Src(i)]
<1>1. /\ phase = "data" /\ data' = data \o bytes
      /\ position' = position + Len(bytes)
      /\ Advance(cellCount, "parse")
  BY DEF WriteData, Src
<1>2. UNCHANGED <<bagVars, list, rootIdx, refSize, offSize, dataSize, header, meta,
                  count, kahnVars, buildVars>>
  BY DEF WriteData
<1>3. /\ Imported /\ cellCount \in Nat /\ cellCount >= 1 /\ Typed /\ Renumbered /\ Headed
      /\ Described /\ start = <<0>> /\ Len(meta) = cellCount /\ i \in Idx /\ LaidUpTo(i)
  <2>1. phase \in Early
    BY <1>1 DEF Early
  <2> QED BY <1>1, <2>1, Bag DEF IInv, Typed, Loops, Read, Idx, Laid
<1>4. Idx' = Idx /\ Imported' /\ RefLists(cellCount)' = RefLists(cellCount)
      /\ Descriptors' = Descriptors /\ cellCount' = cellCount /\ (\A f : Src(f)' = Src(f))
      /\ payload' = payload /\ refs' = refs /\ list' = list /\ meta' = meta /\ start' = start
  BY <1>2, <1>3, BagStays DEF bagVars, buildVars, Src
<1>5. \/ phase' = "data" /\ i' = i + 1 /\ i + 1 < cellCount /\ j' = 0
      \/ phase' = "parse" /\ i' = 0 /\ i + 1 = cellCount /\ j' = 0
  BY <1>1, <1>3 DEF Advance, Goto, Idx
<1>6. Read' /\ Graph' /\ Distinct' /\ RefsBefore' /\ Kahn' /\ Rebuilt'
  <2>1. phase \in Early /\ phase' \in Early \union {"error"}
    BY <1>1, <1>5 DEF Early
  <2> QED BY <1>2, <2>1, ReaderWaits
<1>7. bytes \in Seq(Byte) /\ Len(bytes) \in Nat /\ data \in Seq(Byte) /\ Len(data) \in Nat
  <2>1. Src(i) \in Idx
    BY <1>1, <1>3, Sources
  <2>2. data \in Seq(Byte)
    BY <1>3 DEF Typed
  <2> QED BY <1>3, <2>1, <2>2, Bag
<1> HIDE DEF bytes
<1>8. /\ data' \in Seq(Byte) /\ Len(data') = Len(data) + Len(bytes)
      /\ \A x \in 1 .. Len(data) : data'[x] = data[x]
      /\ \A x \in 1 .. Len(bytes) : data'[Len(data) + x] = bytes[x]
  <2>1. /\ data \o bytes \in Seq(Byte) /\ Len(data \o bytes) = Len(data) + Len(bytes)
        /\ \A x \in 1 .. Len(data) + Len(bytes) :
             (data \o bytes)[x] = IF x <= Len(data) THEN data[x] ELSE bytes[x - Len(data)]
    BY <1>7, ConcatProperties
  <2>2. ASSUME NEW x \in 1 .. Len(bytes) PROVE (data \o bytes)[Len(data) + x] = bytes[x]
    <3>1. Len(data) + x \in 1 .. Len(data) + Len(bytes) /\ ~(Len(data) + x <= Len(data))
          /\ (Len(data) + x) - Len(data) = x
      BY <1>7
    <3> QED BY <2>1, <3>1
  <2>3. ASSUME NEW x \in 1 .. Len(data) PROVE (data \o bytes)[x] = data[x]
    <3>1. x \in 1 .. Len(data) + Len(bytes) /\ x <= Len(data)
      BY <1>7
    <3> QED BY <2>1, <3>1
  <2> QED BY <1>1, <2>1, <2>2, <2>3
<1>9. Typed'
  <2>1. position' \in Nat
    BY <1>1, <1>3, <1>7 DEF Typed
  <2>2. i' \in Nat /\ j' \in Nat /\ phase' \in Phases
    BY <1>3, <1>5 DEF Idx, Phases
  <2> QED BY <1>2, <1>3, <1>4, <1>8, <2>1, <2>2 DEF Typed, kahnVars, buildVars
<1>10. Loops'
  BY <1>3, <1>4, <1>5 DEF Loops, Late
<1>11. Renumbered' /\ Headed'
  <2>1. phase' \notin {"permute", "header", "error"} /\ phase \notin {"permute", "header", "error"}
    BY <1>1, <1>5
  <2>2. list' = list /\ rootIdx' = rootIdx /\ header' = header /\ refSize' = refSize
    BY <1>2
  <2>3. Src(header.root)' = Src(header.root)
    BY <1>4, <2>2 DEF Src, Place
  <2> QED BY <1>3, <1>4, <2>1, <2>2, <2>3 DEF Renumbered, Headed
<1>12. Described'
  BY <1>3, <1>4 DEF Described, Src, Place
<1>13. ASSUME NEW n \in Nat, n = i + 1 PROVE LaidUpTo(n)'
  <2>1. PICK off \in [0 .. i -> Nat] : LaidAt(off, i)
    BY <1>3 DEF LaidUpTo
  <2>2. i \in Nat
    BY <1>3 DEF Idx
  <2>0. PICK new :
          new = [x \in 0 .. i + 1 |-> IF x <= i THEN off[x] ELSE off[i] + Len(bytes)]
    OBVIOUS
  <2>3. /\ new \in [0 .. i + 1 -> Nat] /\ new[i + 1] = off[i] + Len(bytes)
        /\ \A x \in 0 .. i : new[x] = off[x] /\ off[x] \in Nat
    <3>1. off[i] + Len(bytes) \in Nat /\ \A x \in 0 .. i : off[x] \in Nat
      BY <1>7, <2>1, <2>2
    <3> QED BY <2>0, <2>2, <3>1
  <2>4. off[i] = Len(data) /\ off[0] = 0
    BY <2>1 DEF LaidAt
  <2>5. ASSUME NEW f \in 0 .. i
        PROVE  /\ new[f + 1] = new[f] + Len(payload[Src(f)])
               /\ new[f + 1] <= Len(data')
               /\ \A x \in 1 .. Len(payload[Src(f)]) : data'[new[f] + x] = payload[Src(f)][x]
    <3>1. CASE f \in 0 .. i - 1
      <4>1. f + 1 \in 0 .. i
        BY <2>2, <3>1
      <4>2. /\ off[f + 1] = off[f] + Len(payload[Src(f)])
            /\ off[f + 1] <= Len(data)
            /\ \A x \in 1 .. Len(payload[Src(f)]) : data[off[f] + x] = payload[Src(f)][x]
        BY <2>1, <3>1 DEF LaidAt
      <4>3. new[f + 1] = off[f + 1] /\ new[f] = off[f] /\ off[f] \in Nat /\ off[f + 1] \in Nat
        BY <2>3, <4>1
      <4>4. off[f + 1] <= Len(data')
        BY <1>7, <1>8, <4>2, <4>3
      <4>5. ASSUME NEW x \in 1 .. Len(payload[Src(f)])
            PROVE  data'[off[f] + x] = payload[Src(f)][x]
        <5>1. Src(f) \in Idx
          <6>1. f \in Idx
            BY <1>3, <3>1 DEF Idx
          <6> QED BY <1>1, <1>3, <6>1, Sources
        <5>2. Len(payload[Src(f)]) \in Nat
          BY <1>3, <5>1, Bag
        <5>3. off[f] + x \in 1 .. Len(data)
          BY <1>7, <4>2, <4>3, <5>2
        <5> QED BY <1>8, <4>2, <5>3
      <4> QED BY <4>2, <4>3, <4>4, <4>5
    <3>2. CASE f = i
      <4>1. new[i] = Len(data) /\ new[i + 1] = Len(data) + Len(bytes)
        BY <2>2, <2>3, <2>4
      <4>2. new[i + 1] <= Len(data')
        BY <1>7, <1>8, <4>1
      <4> QED BY <1>8, <3>2, <4>1, <4>2 DEF bytes
    <3>3. f \in 0 .. i - 1 \/ f = i
      BY <2>2
    <3> QED BY <3>1, <3>2, <3>3
  <2>6. LaidAt(new, n)'
    <3>1. new[0] = 0 /\ new[i + 1] = Len(data')
      BY <1>8, <2>2, <2>3, <2>4
    <3>2. Len(start') <= (i + 1) + 1 /\ \A m \in 1 .. Len(start') : start'[m] = new[m - 1]
      <4>1. Len(start') = 1 /\ start'[1] = 0
        BY <1>3, <1>4
      <4>2. new[0] = 0
        BY <3>1
      <4> QED BY <2>2, <4>1, <4>2
    <3>3. 0 .. (i + 1) - 1 = 0 .. i
      BY <2>2
    <3>4. /\ new[0] = 0 /\ new[n] = Len(data')
          /\ \A f \in 0 .. n - 1 :
               /\ new[f + 1] = new[f] + Len(payload'[Src(f)'])
               /\ new[f + 1] <= Len(data')
               /\ \A x \in 1 .. Len(payload'[Src(f)']) :
                    data'[new[f] + x] = payload'[Src(f)'][x]
          /\ Len(start') <= n + 1
          /\ \A m \in 1 .. Len(start') : start'[m] = new[m - 1]
      BY <1>4, <1>13, <2>5, <3>1, <3>2, <3>3
    <3> QED BY <3>4 DEF LaidAt
  <2>7. new \in [0 .. n -> Nat]
    BY <1>13, <2>3
  <2> QED BY <2>6, <2>7 DEF LaidUpTo
<1>14. Laid'
  <2>1. CASE phase' = "data" /\ i' = i + 1
    <3>1. PICK n \in Nat : n = i + 1
      BY <1>3 DEF Idx
    <3>2. LaidUpTo(n)'
      BY <1>13, <3>1
    <3>3. LaidUpTo(i)'
      BY <2>1, <3>1, <3>2 DEF LaidUpTo, LaidAt
    <3> QED BY <2>1, <3>3 DEF Laid, Late
  <2>2. CASE phase' = "parse" /\ i + 1 = cellCount
    <3>1. PICK n \in Nat : n = i + 1
      BY <1>3 DEF Idx
    <3>2. LaidUpTo(n)'
      BY <1>13, <3>1
    <3>3. LaidUpTo(cellCount)'
      BY <1>4, <2>2, <3>1, <3>2 DEF LaidUpTo, LaidAt
    <3> QED BY <2>2, <3>3 DEF Laid, Late
  <2> QED BY <1>5, <2>1, <2>2
<1> QED BY <1>4, <1>6, <1>9, <1>10, <1>11, <1>12, <1>14 DEF IInv

-----------------------------------------------------------------------------
(* The reader.                                                              *)

LEMMA LaidStays ==
  ASSUME Laid, phase \in {"parse"} \union Late, phase' \in Late \union {"error"},
         UNCHANGED <<bagVars, writeVars, start>>
  PROVE  Laid'
<1>1. LaidUpTo(cellCount)
  BY DEF Laid
<1>2. LaidUpTo(cellCount)'
  BY <1>1 DEF LaidUpTo, LaidAt, Src, Place, bagVars, writeVars
<1> QED BY <1>2 DEF Laid, Late

(* An item of the file. *)
LEMMA Items ==
  ASSUME Imported, Typed, Described, Renumbered, phase # "permute", Len(meta) = cellCount,
         NEW c \in Idx
  PROVE  /\ RefsOf(c) \in RefLists(cellCount) /\ Len(RefsOf(c)) \in Nat
         /\ DOMAIN RefsOf(c) = 1 .. Len(RefsOf(c))
         /\ \A k \in DOMAIN RefsOf(c) :
              RefsOf(c)[k] \in Idx /\ Src(RefsOf(c)[k]) = refs[Src(c)][k]
         /\ DOMAIN RefsOf(c) = DOMAIN refs[Src(c)]
         /\ meta[c + 1].len = Len(payload[Src(c)]) /\ Src(c) \in Idx
<1>1. cellCount \in Nat /\ c + 1 \in 1 .. Len(meta) /\ (c + 1) - 1 = c
  BY Bag DEF Idx
<1>2. meta[c + 1] \in Descriptors
  BY <1>1 DEF Typed
<1>3. RefsOf(c) \in RefLists(cellCount)
  BY <1>2 DEF Descriptors, RefsOf
<1>4. Len(RefsOf(c)) \in Nat /\ DOMAIN RefsOf(c) = 1 .. Len(RefsOf(c))
      /\ \A k \in DOMAIN RefsOf(c) : RefsOf(c)[k] \in Idx
  BY <1>1, <1>3, Lists DEF Idx
<1>5. /\ meta[c + 1].len = Len(payload[Src(c)]) /\ DOMAIN RefsOf(c) = DOMAIN refs[Src(c)]
      /\ \A k \in DOMAIN RefsOf(c) : Src(RefsOf(c)[k]) = refs[Src(c)][k]
  BY <1>1 DEF Described, RefsOf
<1> QED BY <1>3, <1>4, <1>5, Sources

(* What is known in the reader's loops. *)
LEMMA Reading ==
  ASSUME IInv, phase \in Late
  PROVE  /\ Imported /\ Typed /\ Read /\ Loops /\ Renumbered /\ Headed /\ Described /\ Laid
         /\ Graph /\ Distinct /\ RefsBefore /\ Kahn /\ Rebuilt
         /\ Filled /\ cellCount \in Nat /\ cellCount >= 1 /\ Len(meta) = cellCount
         /\ count = cellCount /\ phase # "permute"
         /\ \A c \in Idx :
              /\ RefsOf(c) \in RefLists(cellCount) /\ Len(RefsOf(c)) \in Nat
              /\ DOMAIN RefsOf(c) = 1 .. Len(RefsOf(c))
              /\ \A k \in DOMAIN RefsOf(c) : RefsOf(c)[k] \in Idx
<1>1. /\ Imported /\ Typed /\ Read /\ Loops /\ Renumbered /\ Headed /\ Described /\ Laid
      /\ Graph /\ Distinct /\ RefsBefore /\ Kahn /\ Rebuilt
  BY DEF IInv
<1>2. Filled /\ count = cellCount
  BY <1>1 DEF Read, Filled
<1>3. Len(meta) = cellCount /\ phase # "permute"
  BY <1>1 DEF Loops, Late
<1>4. cellCount \in Nat /\ cellCount >= 1
  BY <1>1, Bag
<1>5. \A c \in Idx :
        /\ RefsOf(c) \in RefLists(cellCount) /\ Len(RefsOf(c)) \in Nat
        /\ DOMAIN RefsOf(c) = 1 .. Len(RefsOf(c))
        /\ \A k \in DOMAIN RefsOf(c) : RefsOf(c)[k] \in Idx
  BY <1>1, <1>3, Items
<1> QED BY <1>1, <1>2, <1>3, <1>4, <1>5

LEMMA StepParse == ASSUME IInv, Parse PROVE IInv'
<1>1. /\ phase = "parse" /\ phase' \in {"edges", "error"} /\ i' = 0 /\ j' = 0
      /\ count' = header.cells
      /\ revGraph' = [c \in 0 .. header.cells - 1 |-> <<>>]
      /\ inDegree' = [c \in 0 .. header.cells - 1 |-> 0]
      /\ idxMap'   = [c \in 0 .. header.cells - 1 |-> NoCell]
  BY DEF Parse, Goto
<1>2. UNCHANGED <<bagVars, writeVars, queue, topol, start, cells, root>>
  BY DEF Parse
<1>3. /\ Imported /\ cellCount \in Nat /\ cellCount >= 1 /\ Typed /\ Renumbered /\ Headed
      /\ Described /\ Blank /\ start = <<0>> /\ Len(meta) = cellCount /\ root = NoCell /\ Laid
  <2>1. phase \in Early
    BY <1>1 DEF Early
  <2> QED BY <1>1, <2>1, Bag DEF IInv, Loops, Read, Rebuilt
<1>4. Imported' /\ Renumbered' /\ Headed' /\ Described'
  BY <1>1, <1>2, WriterStays DEF Late
<1>5. Laid'
  BY <1>1, <1>2, <1>3, LaidStays DEF Late
<1>6. header.cells = cellCount
  BY <1>1, <1>3 DEF Headed
<1>7. /\ count' = cellCount /\ revGraph' = [c \in Idx |-> <<>>]
      /\ inDegree' = [c \in Idx |-> 0] /\ idxMap' = [c \in Idx |-> NoCell]
      /\ queue' = <<>> /\ topol' = <<>> /\ cells' = <<>> /\ start' = <<0>> /\ root' = NoCell
  BY <1>1, <1>2, <1>3, <1>6 DEF Blank, Idx
<1>8. Idx' = Idx /\ cellCount' = cellCount /\ Descriptors' = Descriptors
      /\ (\A c : RefsOf(c)' = RefsOf(c)) /\ meta' = meta
  BY <1>2, BagStays DEF bagVars, writeVars, RefsOf
<1>9. Typed'
  BY <1>1, <1>2, <1>3, <1>8 DEF Typed, writeVars, Phases
<1>10. Read'
  <2>1. Filled'
    BY <1>7, <1>8 DEF Filled
  <2> QED BY <1>1, <1>7, <2>1 DEF Read, Early
<1>11. Loops'
  <2>1. 0 <= Len(meta'[1].refs)
    <3>1. 0 \in Idx /\ RefsOf(0) = meta[1].refs
      BY <1>3 DEF Idx, RefsOf
    <3>2. Len(RefsOf(0)) \in Nat
      BY <1>1, <1>3, <3>1, Items
    <3> QED BY <1>8, <3>1, <3>2
  <2>2. meta'[i' + 1] = meta'[1]
    BY <1>1
  <2> QED BY <1>1, <1>3, <1>8, <2>1, <2>2 DEF Loops, Late
<1>12. Graph'
  <2>1. ASSUME NEW c \in Idx PROVE Open(c)' = {}
    <3>1. \A e : e \in Open(c)' => e \in Idx' \X (Nat \ {0}) /\ e[2] <= Len(revGraph'[e[1]])
      BY DEF Open
    <3>2. \A r \in Idx : Len(revGraph'[r]) = 0
      BY <1>7
    <3>3. ASSUME NEW e \in Open(c)' PROVE FALSE
      <4>1. e[1] \in Idx /\ e[2] \in Nat \ {0} /\ e[2] <= Len(revGraph'[e[1]])
        BY <1>8, <3>1
      <4> QED BY <3>2, <4>1
    <3> QED BY <3>3
  <2>2. \A c \in Idx : IsFiniteSet(Open(c)') /\ Cardinality(Open(c)') = inDegree'[c]
    BY <1>7, <2>1, FS_EmptySet
  <2>3. \A r \in Idx : \A x \in 1 .. Len(revGraph'[r]) : FALSE
    BY <1>7
  <2>4. ASSUME NEW c \in Idx, NEW k \in DOMAIN RefsOf(c), c < 0 \/ (c = 0 /\ k <= 0) PROVE FALSE
    <3>1. DOMAIN RefsOf(c) = 1 .. Len(RefsOf(c)) /\ Len(RefsOf(c)) \in Nat
      BY <1>1, <1>3, Items
    <3>2. c \in Nat
      BY <1>3 DEF Idx
    <3> QED BY <2>4, <3>1, <3>2
  <2> QED BY <1>1, <1>8, <2>2, <2>3, <2>4 DEF Graph
<1>13. Distinct' /\ RefsBefore'
  BY <1>7 DEF Distinct, RefsBefore
<1>14. Kahn' /\ Rebuilt'
  BY <1>1, <1>7, <1>8 DEF Kahn, Rebuilt
<1> QED BY <1>4, <1>5, <1>9, <1>10, <1>11, <1>12, <1>13, <1>14 DEF IInv

(* Kahn's algorithm touches neither the file nor what is built from it.     *)
LEMMA SearchStays ==
  ASSUME IInv, phase \in Late, phase' \in Late, UNCHANGED <<bagVars, writeVars, count, buildVars>>
  PROVE  /\ Imported' /\ Renumbered' /\ Headed' /\ Described' /\ Laid'
         /\ Idx' = Idx /\ cellCount' = cellCount /\ Descriptors' = Descriptors
         /\ meta' = meta /\ (\A c : RefsOf(c)' = RefsOf(c))
         /\ count' = count /\ start' = start /\ idxMap' = idxMap /\ cells' = cells
         /\ root' = root /\ data' = data /\ rootIdx' = rootIdx /\ refSize' = refSize
         /\ offSize' = offSize /\ dataSize' = dataSize /\ position' = position
<1>1. Imported' /\ Renumbered' /\ Headed' /\ Described'
  BY WriterStays
<1>2. Laid /\ start' = start
  BY DEF IInv, buildVars
<1>3. Laid'
  BY <1>2, LaidStays
<1> QED BY <1>1, <1>3, BagStays DEF bagVars, writeVars, buildVars, RefsOf

LEMMA StepCountEdge == ASSUME IInv, CountEdge PROVE IInv'
<1> DEFINE r0 == RefsOf(i)[j + 1]
           L  == Len(revGraph[r0])
<1>1. /\ phase = "edges" /\ j < Len(RefsOf(i))
      /\ revGraph' = [revGraph EXCEPT ![r0] = Append(@, i)]
      /\ inDegree' = [inDegree EXCEPT ![i] = @ + 1]
      /\ phase' = "edges" /\ i' = i /\ j' = j + 1 /\ queue' = queue /\ topol' = topol
  BY DEF CountEdge, RefsOf
<1>2. UNCHANGED <<bagVars, writeVars, count, buildVars>>
  BY DEF CountEdge
<1>3. phase \in Late /\ phase' \in Late
  BY <1>1 DEF Late
<1>4. /\ Imported' /\ Renumbered' /\ Headed' /\ Described' /\ Laid'
      /\ Idx' = Idx /\ cellCount' = cellCount /\ Descriptors' = Descriptors
      /\ meta' = meta /\ (\A c : RefsOf(c)' = RefsOf(c))
      /\ count' = count /\ start' = start /\ idxMap' = idxMap /\ cells' = cells /\ root' = root
      /\ data' = data /\ rootIdx' = rootIdx /\ refSize' = refSize
      /\ offSize' = offSize /\ dataSize' = dataSize /\ position' = position
  BY <1>2, <1>3, SearchStays
<1>5. /\ Typed /\ Read /\ Loops /\ Graph /\ Kahn /\ Rebuilt /\ Filled
      /\ cellCount \in Nat /\ Len(meta) = cellCount
      /\ topol = <<>> /\ queue = <<>> /\ i \in Idx /\ j \in Nat
      /\ revGraph \in [Idx -> Seq(Idx)] /\ inDegree \in [Idx -> Nat]
      /\ \A c \in Idx : DOMAIN RefsOf(c) = 1 .. Len(RefsOf(c)) /\ Len(RefsOf(c)) \in Nat
                        /\ \A k \in DOMAIN RefsOf(c) : RefsOf(c)[k] \in Idx
  <2>1. i < cellCount /\ i \in Nat /\ j \in Nat
    BY <1>1, <1>3, Reading DEF Loops, Typed
  <2> QED BY <1>1, <1>3, <2>1, Reading DEF Kahn, Filled, Idx
<1>6. j + 1 \in DOMAIN RefsOf(i) /\ r0 \in Idx
  BY <1>1, <1>5
<1> HIDE DEF r0
<1>7. /\ revGraph' \in [Idx -> Seq(Idx)] /\ inDegree' \in [Idx -> Nat]
      /\ revGraph'[r0] = Append(revGraph[r0], i)
      /\ \A r \in Idx : r # r0 => revGraph'[r] = revGraph[r]
      /\ inDegree'[i] = inDegree[i] + 1
      /\ \A c \in Idx : c # i => inDegree'[c] = inDegree[c]
  <2>1. revGraph[r0] \in Seq(Idx) /\ Append(revGraph[r0], i) \in Seq(Idx)
    BY <1>5, <1>6
  <2>2. inDegree[i] + 1 \in Nat
    BY <1>5
  <2> QED BY <1>1, <1>5, <1>6, <2>1, <2>2
<1>8. /\ L \in Nat /\ Len(revGraph'[r0]) = L + 1 /\ revGraph'[r0][L + 1] = i
      /\ \A x \in 1 .. L : revGraph'[r0][x] = revGraph[r0][x]
  <2>1. revGraph[r0] \in Seq(Idx)
    BY <1>5, <1>6
  <2>2. PICK s \in Seq(Idx) : s = revGraph[r0]
    BY <2>1
  <2>3. /\ Len(s) \in Nat /\ Len(Append(s, i)) = Len(s) + 1 /\ Append(s, i)[Len(s) + 1] = i
        /\ \A x \in 1 .. Len(s) : Append(s, i)[x] = s[x]
    BY <1>5, AppendProperties
  <2> QED BY <1>7, <2>2, <2>3
<1> HIDE DEF L
<1>9. Typed' /\ Read' /\ Loops'
  <2>1. j + 1 <= Len(RefsOf(i))
    BY <1>1, <1>5
  <2>2. Filled'
    BY <1>4, <1>5, <1>7 DEF Filled
  <2> QED BY <1>1, <1>3, <1>4, <1>5, <2>1, <2>2 DEF Typed, Read, Loops, Late, Early, RefsOf
<1>10. \A r, x : ~Taken(r, x) /\ ~Taken(r, x)'
  BY <1>1, <1>5 DEF Taken
<1>11. ASSUME NEW c \in Idx
       PROVE  Open(c)' = IF c = i THEN Open(c) \union {<<r0, L + 1>>} ELSE Open(c)
  <2>1. \A e : e \in Open(c)' <=>
                 e \in Idx \X (Nat \ {0}) /\ e[2] <= Len(revGraph'[e[1]])
                 /\ revGraph'[e[1]][e[2]] = c
    BY <1>4, <1>10 DEF Open
  <2>2. \A e : e \in Open(c) <=>
                 e \in Idx \X (Nat \ {0}) /\ e[2] <= Len(revGraph[e[1]])
                 /\ revGraph[e[1]][e[2]] = c
    BY <1>10 DEF Open
  <2>3. ASSUME NEW e \in Idx \X (Nat \ {0})
        PROVE  e \in Open(c)' <=> e \in Open(c) \/ (c = i /\ e = <<r0, L + 1>>)
    <3>1. e[1] \in Idx /\ e[2] \in Nat \ {0} /\ e = <<e[1], e[2]>>
      OBVIOUS
    <3>2. CASE e[1] # r0
      <4>1. revGraph'[e[1]] = revGraph[e[1]] /\ e # <<r0, L + 1>>
        BY <1>7, <3>1, <3>2
      <4> QED BY <2>1, <2>2, <4>1
    <3>3. CASE e[1] = r0 /\ e[2] \in 1 .. L
      <4>1. revGraph'[e[1]][e[2]] = revGraph[e[1]][e[2]] /\ e # <<r0, L + 1>>
        BY <1>8, <3>1, <3>3
      <4>2. e[2] <= Len(revGraph'[e[1]]) /\ e[2] <= Len(revGraph[e[1]])
        BY <1>8, <3>1, <3>3 DEF L
      <4> QED BY <2>1, <2>2, <4>1, <4>2
    <3>4. CASE e[1] = r0 /\ e[2] = L + 1
      <4>1. e = <<r0, L + 1>> /\ revGraph'[e[1]][e[2]] = i /\ e[2] <= Len(revGraph'[e[1]])
        BY <1>8, <3>1, <3>4
      <4>2. ~(e[2] <= Len(revGraph[e[1]]))
        BY <1>8, <3>4 DEF L
      <4> QED BY <2>1, <2>2, <4>1, <4>2
    <3>5. CASE e[1] = r0 /\ e[2] > L + 1
      <4>1. ~(e[2] <= Len(revGraph'[e[1]])) /\ ~(e[2] <= Len(revGraph[e[1]]))
        BY <1>8, <3>1, <3>5 DEF L
      <4>2. e # <<r0, L + 1>>
        BY <1>8, <3>1, <3>5
      <4> QED BY <2>1, <2>2, <4>1, <4>2
    <3> QED BY <1>8, <3>1, <3>2, <3>3, <3>4, <3>5
  <2>4. <<r0, L + 1>> \in Idx \X (Nat \ {0})
    BY <1>6, <1>8
  <2>5. \A e : e \in Open(c)' <=> e \in Open(c) \/ (c = i /\ e = <<r0, L + 1>>)
    BY <2>1, <2>2, <2>3, <2>4
  <2> QED BY <2>5
<1>12. Graph'
  <2>1. ASSUME NEW c \in Idx
        PROVE  IsFiniteSet(Open(c)') /\ Cardinality(Open(c)') = inDegree'[c]
    <3>1. IsFiniteSet(Open(c)) /\ Cardinality(Open(c)) = inDegree[c]
      BY <1>1, <1>5 DEF Graph
    <3>2. CASE c # i
      BY <1>7, <1>11, <3>1, <3>2
    <3>3. CASE c = i
      <4>1. ~(<<r0, L + 1>> \in Open(c))
        <5>1. \A e : e \in Open(c) => e[2] <= Len(revGraph[e[1]])
          BY DEF Open
        <5>2. ~(L + 1 <= Len(revGraph[r0]))
          BY <1>8 DEF L
        <5>3. <<r0, L + 1>>[1] = r0 /\ <<r0, L + 1>>[2] = L + 1
          OBVIOUS
        <5> QED BY <5>1, <5>2, <5>3
      <4>2. /\ IsFiniteSet(Open(c) \union {<<r0, L + 1>>})
            /\ Cardinality(Open(c) \union {<<r0, L + 1>>}) = Cardinality(Open(c)) + 1
        BY <3>1, <4>1, FS_AddElement
      <4> QED BY <1>7, <1>11, <3>1, <3>3, <4>2
    <3> QED BY <3>2, <3>3
  <2>2. ASSUME NEW r \in Idx, NEW x \in 1 .. Len(revGraph'[r])
        PROVE  \E k \in DOMAIN RefsOf(revGraph'[r][x]) : RefsOf(revGraph'[r][x])[k] = r
    <3>1. \A q \in Idx : \A y \in 1 .. Len(revGraph[q]) :
            \E k \in DOMAIN RefsOf(revGraph[q][y]) : RefsOf(revGraph[q][y])[k] = q
      BY <1>1, <1>5 DEF Graph
    <3>2. CASE r # r0
      <4>1. revGraph'[r] = revGraph[r]
        BY <1>7, <3>2
      <4> QED BY <3>1, <4>1
    <3>3. CASE r = r0 /\ x \in 1 .. L
      <4>1. revGraph'[r][x] = revGraph[r][x] /\ x \in 1 .. Len(revGraph[r])
        BY <1>8, <3>3 DEF L
      <4> QED BY <3>1, <4>1
    <3>4. CASE r = r0 /\ x = L + 1
      <4>1. revGraph'[r][x] = i
        BY <1>8, <3>4
      <4> QED BY <1>6, <3>4, <4>1 DEF r0
    <3>5. r # r0 \/ x \in 1 .. L \/ x = L + 1
      BY <1>8
    <3> QED BY <3>2, <3>3, <3>4, <3>5
  <2>3. ASSUME NEW c \in Idx, NEW k \in DOMAIN RefsOf(c), c < i \/ (c = i /\ k <= j + 1)
        PROVE  \E x \in 1 .. Len(revGraph'[RefsOf(c)[k]]) : revGraph'[RefsOf(c)[k]][x] = c
    <3> DEFINE r == RefsOf(c)[k]
    <3>1. r \in Idx /\ k \in Nat
      BY <1>5
    <3>2. CASE c < i \/ (c = i /\ k <= j)
      <4>1. PICK x \in 1 .. Len(revGraph[r]) : revGraph[r][x] = c
        BY <1>1, <1>5, <3>2 DEF Graph
      <4>2. CASE r # r0
        <5>1. revGraph'[r] = revGraph[r]
          BY <1>7, <3>1, <4>2
        <5> QED BY <4>1, <5>1
      <4>3. CASE r = r0
        <5>1. x \in 1 .. L /\ x \in 1 .. Len(revGraph'[r]) /\ revGraph'[r][x] = revGraph[r][x]
          BY <1>8, <4>1, <4>3 DEF L
        <5> QED BY <4>1, <5>1
      <4> QED BY <4>2, <4>3
    <3>3. CASE c = i /\ k = j + 1
      <4>1. r = r0
        BY <3>3 DEF r0
      <4>2. L + 1 \in 1 .. Len(revGraph'[r]) /\ revGraph'[r][L + 1] = c
        BY <1>8, <3>3, <4>1
      <4> QED BY <4>2
    <3>4. k <= j \/ k = j + 1 \/ k > j + 1
      BY <1>5, <3>1
    <3>5. ~(k > j + 1 /\ k <= j + 1)
      BY <1>5, <3>1
    <3> QED BY <2>3, <3>2, <3>3, <3>4, <3>5
  <2>4. \A c \in Idx : \A k \in DOMAIN RefsOf(c) :
          (c < i' \/ (c = i' /\ k <= j')) =>
            \E x \in 1 .. Len(revGraph'[RefsOf(c)[k]]) : revGraph'[RefsOf(c)[k]][x] = c
    BY <1>1, <2>3
  <2> QED BY <1>1, <1>4, <2>1, <2>2, <2>4 DEF Graph
<1>13. Distinct' /\ RefsBefore' /\ Kahn' /\ Rebuilt'
  <2>1. topol' = <<>> /\ queue' = <<>>
    BY <1>1, <1>5
  <2>2. Distinct' /\ RefsBefore'
    BY <2>1 DEF Distinct, RefsBefore
  <2>3. Kahn' /\ Rebuilt'
    BY <1>1, <1>4, <1>5, <2>1 DEF Kahn, Rebuilt
  <2> QED BY <2>2, <2>3
<1> QED BY <1>4, <1>9, <1>12, <1>13 DEF IInv

(* The open references do not change while no other entry is looked at.     *)
LEMMA OpenStays ==
  ASSUME Idx' = Idx, revGraph' = revGraph,
         \A r \in Idx : \A x \in Nat \ {0} :
           x <= Len(revGraph[r]) => (Taken(r, x)' <=> Taken(r, x))
  PROVE  \A c \in Idx : Open(c)' = Open(c)
<1>1. ASSUME NEW c \in Idx PROVE Open(c)' = Open(c)
  <2>1. \A e : e \in Open(c)' <=>
          e \in Idx \X (Nat \ {0}) /\ e[2] <= Len(revGraph[e[1]]) /\ revGraph[e[1]][e[2]] = c
          /\ ~Taken(e[1], e[2])'
    BY DEF Open
  <2>2. \A e : e \in Open(c) <=>
          e \in Idx \X (Nat \ {0}) /\ e[2] <= Len(revGraph[e[1]]) /\ revGraph[e[1]][e[2]] = c
          /\ ~Taken(e[1], e[2])
    BY DEF Open
  <2>3. \A e \in Idx \X (Nat \ {0}) : e[1] \in Idx /\ e[2] \in Nat \ {0}
    OBVIOUS
  <2>4. \A e \in Idx \X (Nat \ {0}) : e[2] <= Len(revGraph[e[1]]) =>
          (Taken(e[1], e[2])' <=> Taken(e[1], e[2]))
    BY <2>3
  <2>5. \A e : e \in Open(c)' <=> e \in Open(c)
    BY <2>1, <2>2, <2>4
  <2> QED BY <2>5
<1> QED BY <1>1

(* Everything an item without open references refers to has been taken.     *)
LEMMA AllSent ==
  ASSUME Graph, phase \in {"seed", "pop", "release"}, NEW c \in Idx, inDegree[c] = 0,
         \A k \in DOMAIN RefsOf(c) : RefsOf(c)[k] \in Idx,
         revGraph \in [Idx -> Seq(Idx)]
  PROVE  \A k \in DOMAIN RefsOf(c) : Sent(RefsOf(c)[k])
<1>1. Open(c) = {}
  <2>1. IsFiniteSet(Open(c)) /\ Cardinality(Open(c)) = 0
    BY DEF Graph
  <2> QED BY <2>1, FS_EmptySet
<1>2. ASSUME NEW k \in DOMAIN RefsOf(c) PROVE Sent(RefsOf(c)[k])
  <2> DEFINE r == RefsOf(c)[k]
  <2>1. PICK x \in 1 .. Len(revGraph[r]) : revGraph[r][x] = c
    BY DEF Graph
  <2>2. r \in Idx /\ Len(revGraph[r]) \in Nat
    OBVIOUS
  <2>3. x \in Nat \ {0} /\ x <= Len(revGraph[r])
    BY <2>2
  <2> HIDE DEF r
  <2>4. Taken(r, x)
    <3>1. ~(<<r, x>> \in Open(c))
      BY <1>1
    <3>2. <<r, x>> \in Idx \X (Nat \ {0}) /\ <<r, x>>[1] = r /\ <<r, x>>[2] = x
      BY <2>2, <2>3
    <3> QED BY <2>1, <2>3, <3>1, <3>2 DEF Open
  <2> QED BY <2>4 DEF Taken, Sent, r
<1> QED BY <1>2

LEMMA OrderStays ==
  ASSUME Distinct, RefsBefore, UNCHANGED <<topol, queue, meta>>
  PROVE  Distinct' /\ RefsBefore'
<1>1. Distinct'
  BY DEF Distinct
<1>2. RefsBefore'
  BY DEF RefsBefore, RefsOf
<1> QED BY <1>1, <1>2

LEMMA StepEdgesCounted == ASSUME IInv, EdgesCounted PROVE IInv'
<1>1. /\ phase = "edges" /\ j = Len(RefsOf(i)) /\ Advance(count, "seed")
  BY DEF EdgesCounted, RefsOf
<1>2. UNCHANGED <<bagVars, writeVars, count, kahnVars, buildVars>>
  BY DEF EdgesCounted
<1>3. /\ Typed /\ Read /\ Loops /\ Graph /\ Kahn /\ Rebuilt /\ Filled
      /\ cellCount \in Nat /\ Len(meta) = cellCount /\ count = cellCount
      /\ topol = <<>> /\ queue = <<>> /\ i \in Idx /\ i \in Nat
      /\ \A c \in Idx : DOMAIN RefsOf(c) = 1 .. Len(RefsOf(c)) /\ Len(RefsOf(c)) \in Nat
  <2>1. phase \in Late /\ i \in Nat
    BY <1>1 DEF Late, IInv, Typed
  <2>2. i < cellCount
    BY <1>1, <2>1, Reading DEF Loops
  <2> QED BY <1>1, <2>1, <2>2, Reading DEF Kahn, Idx
<1>4. \/ phase' = "edges" /\ i' = i + 1 /\ i + 1 < cellCount /\ j' = 0
      \/ phase' = "seed" /\ i' = 0 /\ i + 1 = cellCount /\ j' = 0
  BY <1>1, <1>3 DEF Advance, Goto, Idx
<1>5. /\ Imported' /\ Renumbered' /\ Headed' /\ Described' /\ Laid'
      /\ Idx' = Idx /\ cellCount' = cellCount /\ Descriptors' = Descriptors
      /\ meta' = meta /\ (\A c : RefsOf(c)' = RefsOf(c))
      /\ count' = count /\ start' = start /\ idxMap' = idxMap /\ cells' = cells /\ root' = root
      /\ data' = data /\ rootIdx' = rootIdx /\ refSize' = refSize
      /\ offSize' = offSize /\ dataSize' = dataSize /\ position' = position
  <2>1. phase \in Late /\ phase' \in Late
    BY <1>1, <1>4 DEF Late
  <2> QED BY <1>2, <2>1, SearchStays
<1>6. revGraph' = revGraph /\ inDegree' = inDegree /\ topol' = <<>> /\ queue' = <<>>
  BY <1>2, <1>3 DEF kahnVars
<1>7. Typed' /\ Read'
  <2>1. Filled'
    BY <1>3, <1>5, <1>6 DEF Filled
  <2>2. start' = <<0>>
    BY <1>1, <1>3, <1>5 DEF Read
  <2> QED BY <1>3, <1>4, <1>5, <1>6, <2>1, <2>2 DEF Typed, Read, Late, Early, Phases
<1>8. Loops'
  <2>1. phase' = "edges" => 0 <= Len(RefsOf(i + 1))
    <3>1. phase' = "edges" => i + 1 \in Idx
      BY <1>3, <1>4 DEF Idx
    <3> QED BY <1>3, <3>1
  <2>2. phase' = "edges" => 0 <= Len(meta'[i' + 1].refs)
    BY <1>4, <1>5, <2>1 DEF RefsOf
  <2> QED BY <1>3, <1>4, <1>5, <2>2 DEF Loops, Late
<1>9. Graph'
  <2>1. \A r, x : ~Taken(r, x) /\ ~Taken(r, x)'
    BY <1>3, <1>6 DEF Taken
  <2>2. \A c \in Idx : Open(c)' = Open(c)
    BY <1>5, <1>6, <2>1, OpenStays
  <2>3. ASSUME NEW c \in Idx, NEW k \in DOMAIN RefsOf(c),
               phase' = "edges" => c < i + 1 \/ (c = i + 1 /\ k <= 0)
        PROVE  c < i \/ (c = i /\ k <= j)
    <3>1. c \in Nat /\ k \in Nat \ {0} /\ c < cellCount
      BY <1>3 DEF Idx
    <3>2. c < i + 1
      BY <1>3, <1>4, <2>3, <3>1
    <3>3. CASE c = i
      BY <1>1, <1>3, <3>1, <3>3
    <3> QED BY <1>3, <3>1, <3>2, <3>3
  <2>4. \A c \in Idx : \A k \in DOMAIN RefsOf(c) :
          (phase' = "edges" => c < i' \/ (c = i' /\ k <= j')) =>
            \E x \in 1 .. Len(revGraph[RefsOf(c)[k]]) : revGraph[RefsOf(c)[k]][x] = c
    <3>1. ASSUME NEW c \in Idx, NEW k \in DOMAIN RefsOf(c),
                 phase' = "edges" => c < i' \/ (c = i' /\ k <= j')
          PROVE  \E x \in 1 .. Len(revGraph[RefsOf(c)[k]]) : revGraph[RefsOf(c)[k]][x] = c
      <4>1. phase' = "edges" => c < i + 1 \/ (c = i + 1 /\ k <= 0)
        BY <1>4, <3>1
      <4>2. c < i \/ (c = i /\ k <= j)
        BY <2>3, <4>1
      <4> QED BY <1>1, <1>3, <4>2 DEF Graph
    <3> QED BY <3>1
  <2>5. /\ \A c \in Idx : IsFiniteSet(Open(c)) /\ Cardinality(Open(c)) = inDegree[c]
        /\ \A r \in Idx : \A x \in 1 .. Len(revGraph[r]) :
             \E k \in DOMAIN RefsOf(revGraph[r][x]) : RefsOf(revGraph[r][x])[k] = r
    BY <1>1, <1>3 DEF Graph
  <2> QED BY <1>5, <1>6, <2>2, <2>4, <2>5 DEF Graph
<1>10. Distinct' /\ RefsBefore' /\ Kahn' /\ Rebuilt'
  <2>1. Distinct' /\ RefsBefore'
    BY <1>6 DEF Distinct, RefsBefore
  <2>2. Kahn'
    <3>1. \A c \in Idx : ~Queued(c)' /\ (phase' = "seed" => ~(c < i'))
      BY <1>3, <1>4, <1>6 DEF Queued, Idx
    <3> QED BY <1>1, <1>3, <1>4, <1>5, <1>6, <3>1 DEF Kahn
  <2>3. Rebuilt'
    BY <1>1, <1>3, <1>4, <1>5 DEF Rebuilt
  <2> QED BY <2>1, <2>2, <2>3
<1> QED BY <1>5, <1>7, <1>8, <1>9, <1>10 DEF IInv

LEMMA StepSeed == ASSUME IInv, Seed PROVE IInv'
<1>1. /\ phase = "seed" /\ Advance(count, "pop")
      /\ queue' = IF inDegree[i] = 0 THEN Append(queue, i) ELSE queue
  BY DEF Seed
<1>2. UNCHANGED <<bagVars, writeVars, count, revGraph, inDegree, topol, buildVars>>
  BY DEF Seed
<1>3. /\ Typed /\ Read /\ Loops /\ Graph /\ Kahn /\ Rebuilt /\ Filled /\ Distinct /\ RefsBefore
      /\ cellCount \in Nat /\ Len(meta) = cellCount /\ count = cellCount
      /\ topol = <<>> /\ i \in Idx /\ i \in Nat /\ queue \in Seq(Idx)
      /\ \A c \in Idx : Queued(c) <=> c < i /\ inDegree[c] = 0
      /\ \A c \in Idx : \A k \in DOMAIN RefsOf(c) : RefsOf(c)[k] \in Idx
  <2>1. phase \in Late /\ i \in Nat
    BY <1>1 DEF Late, IInv, Typed
  <2>2. i < cellCount
    BY <1>1, <2>1, Reading DEF Loops
  <2> QED BY <1>1, <2>1, <2>2, Reading DEF Kahn, Idx, Typed
<1>4. \/ phase' = "seed" /\ i' = i + 1 /\ i + 1 < cellCount /\ j' = 0
      \/ phase' = "pop" /\ i' = 0 /\ i + 1 = cellCount /\ j' = 0
  BY <1>1, <1>3 DEF Advance, Goto, Idx
<1>5. /\ Imported' /\ Renumbered' /\ Headed' /\ Described' /\ Laid'
      /\ Idx' = Idx /\ cellCount' = cellCount /\ Descriptors' = Descriptors
      /\ meta' = meta /\ (\A c : RefsOf(c)' = RefsOf(c))
      /\ count' = count /\ start' = start /\ idxMap' = idxMap /\ cells' = cells /\ root' = root
      /\ data' = data /\ rootIdx' = rootIdx /\ refSize' = refSize
      /\ offSize' = offSize /\ dataSize' = dataSize /\ position' = position
  <2>1. phase \in Late /\ phase' \in Late
    BY <1>1, <1>4 DEF Late
  <2> QED BY <1>2, <2>1, SearchStays
<1>6. revGraph' = revGraph /\ inDegree' = inDegree /\ topol' = <<>>
  BY <1>2, <1>3
<1>7. /\ queue' \in Seq(Idx)
      /\ inDegree[i] = 0 => Len(queue') = Len(queue) + 1 /\ queue'[Len(queue) + 1] = i
      /\ inDegree[i] # 0 => Len(queue') = Len(queue)
      /\ Len(queue) \in Nat /\ \A m \in 1 .. Len(queue) : queue'[m] = queue[m]
  <2>1. /\ Append(queue, i) \in Seq(Idx) /\ Len(Append(queue, i)) = Len(queue) + 1
        /\ Append(queue, i)[Len(queue) + 1] = i
        /\ \A m \in 1 .. Len(queue) : Append(queue, i)[m] = queue[m]
    BY <1>3, AppendProperties
  <2>2. Len(queue) \in Nat
    BY <1>3
  <2>3. CASE inDegree[i] = 0
    BY <1>1, <2>1, <2>2, <2>3
  <2>4. CASE inDegree[i] # 0
    BY <1>1, <1>3, <2>2, <2>4
  <2> QED BY <2>3, <2>4
<1>8. Typed' /\ Read' /\ Loops'
  <2>1. Filled'
    BY <1>3, <1>5, <1>6 DEF Filled
  <2>2. start' = <<0>>
    BY <1>1, <1>3, <1>5 DEF Read
  <2> QED BY <1>3, <1>4, <1>5, <1>6, <1>7, <2>1, <2>2
          DEF Typed, Read, Loops, Late, Early, Phases
<1>9. Graph'
  <2>1. \A r, x : ~Taken(r, x) /\ ~Taken(r, x)'
    BY <1>3, <1>6 DEF Taken
  <2>2. \A c \in Idx : Open(c)' = Open(c)
    BY <1>5, <1>6, <2>1, OpenStays
  <2>3. phase' # "edges"
    BY <1>4
  <2> QED BY <1>1, <1>3, <1>5, <1>6, <2>2, <2>3 DEF Graph
<1>10. /\ ~Queued(i)
       /\ \A c \in Idx : Queued(c)' <=> Queued(c) \/ (c = i /\ inDegree[i] = 0)
  <2>1. ~Queued(i)
    BY <1>3
  <2>2. ASSUME NEW c \in Idx
        PROVE  Queued(c)' <=> Queued(c) \/ (c = i /\ inDegree[i] = 0)
    <3>1. CASE inDegree[i] = 0
      <4>1. ASSUME Queued(c)' PROVE Queued(c) \/ c = i
        <5>1. PICK m \in 1 .. Len(queue') : queue'[m] = c
          BY <4>1 DEF Queued
        <5>2. m \in 1 .. Len(queue) \/ m = Len(queue) + 1
          BY <1>7, <3>1
        <5> QED BY <1>7, <3>1, <5>1, <5>2 DEF Queued
      <4>2. ASSUME Queued(c) PROVE Queued(c)'
        <5>1. PICK m \in 1 .. Len(queue) : queue[m] = c
          BY <4>2 DEF Queued
        <5>2. m \in 1 .. Len(queue') /\ queue'[m] = c
          BY <1>7, <3>1, <5>1
        <5> QED BY <5>2 DEF Queued
      <4>3. c = i => Queued(c)'
        <5>1. PICK n : n = i
          OBVIOUS
        <5>2. \E m \in 1 .. Len(queue') : queue'[m] = n
          <6>1. Len(queue) + 1 \in 1 .. Len(queue') /\ queue'[Len(queue) + 1] = i
            BY <1>7, <3>1
          <6> QED BY <5>1, <6>1
        <5> QED BY <5>1, <5>2 DEF Queued
      <4> QED BY <3>1, <4>1, <4>2, <4>3
    <3>2. CASE inDegree[i] # 0
      BY <1>1, <3>2 DEF Queued
    <3> QED BY <3>1, <3>2
  <2> QED BY <2>1, <2>2
<1>11. Distinct'
  <2>1. ASSUME NEW m \in 1 .. Len(queue'), NEW p \in 1 .. Len(queue'), queue'[m] = queue'[p]
        PROVE  m = p
    <3>1. \A a \in 1 .. Len(queue) : queue[a] # i
      BY <1>10 DEF Queued
    <3>2. \A a, b \in 1 .. Len(queue) : queue[a] = queue[b] => a = b
      BY <1>3 DEF Distinct
    <3>3. CASE inDegree[i] = 0
      <4>1. /\ m \in 1 .. Len(queue) \/ m = Len(queue) + 1
            /\ p \in 1 .. Len(queue) \/ p = Len(queue) + 1
        BY <1>7, <3>3
      <4>2. CASE m \in 1 .. Len(queue) /\ p \in 1 .. Len(queue)
        BY <1>7, <2>1, <3>2, <4>2
      <4>3. CASE m \in 1 .. Len(queue) /\ p = Len(queue) + 1
        BY <1>7, <2>1, <3>1, <3>3, <4>3
      <4>4. CASE m = Len(queue) + 1 /\ p \in 1 .. Len(queue)
        BY <1>7, <2>1, <3>1, <3>3, <4>4
      <4> QED BY <4>1, <4>2, <4>3, <4>4
    <3>4. CASE inDegree[i] # 0
      BY <1>1, <2>1, <3>2, <3>4
    <3> QED BY <3>3, <3>4
  <2> QED BY <1>6, <2>1 DEF Distinct
<1>12. RefsBefore'
  <2>1. ASSUME NEW m \in 1 .. Len(queue')
        PROVE  \A k \in DOMAIN RefsOf(queue'[m]) : FALSE
    <3>1. queue'[m] \in Idx
      BY <1>7
    <3>2. inDegree[queue'[m]] = 0
      <4>1. CASE inDegree[i] = 0
        <5>1. m \in 1 .. Len(queue) \/ m = Len(queue) + 1
          BY <1>7, <4>1
        <5>2. CASE m \in 1 .. Len(queue)
          <6>1. queue'[m] = queue[m]
            BY <1>7, <5>2
          <6>2. Queued(queue[m])
            BY <5>2 DEF Queued
          <6> QED BY <1>3, <3>1, <6>1, <6>2
        <5> QED BY <1>7, <4>1, <5>1, <5>2
      <4>2. CASE inDegree[i] # 0
        <5>1. queue' = queue
          BY <1>1, <4>2
        <5>2. Queued(queue[m])
          BY <5>1 DEF Queued
        <5> QED BY <1>3, <3>1, <5>1, <5>2
      <4> QED BY <4>1, <4>2
    <3>3. \A k \in DOMAIN RefsOf(queue'[m]) : Sent(RefsOf(queue'[m])[k])
      <4> DEFINE c == queue'[m]
      <4>1. c \in Idx /\ inDegree[c] = 0
        BY <3>1, <3>2
      <4> HIDE DEF c
      <4>2. \A k \in DOMAIN RefsOf(c) : Sent(RefsOf(c)[k])
        BY <1>1, <1>3, <4>1, AllSent DEF Filled
      <4> QED BY <4>2 DEF c
    <3> QED BY <1>3, <3>3 DEF Sent
  <2> QED BY <1>5, <1>6, <2>1 DEF RefsBefore
<1>13. Kahn' /\ Rebuilt'
  <2>1. \A c \in Idx : ~Sent(c)'
    BY <1>6 DEF Sent
  <2>2. ASSUME NEW c \in Idx, phase' = "seed"
        PROVE  Queued(c)' <=> c < i + 1 /\ inDegree[c] = 0
    <3>1. c < i + 1 <=> c < i \/ c = i
      BY <1>3 DEF Idx
    <3> QED BY <1>3, <1>10, <3>1
  <2>3. ASSUME NEW c \in Idx, phase' = "pop"
        PROVE  Queued(c)' <=> inDegree[c] = 0
    <3>1. c < i \/ c = i
      BY <1>3, <1>4, <2>3 DEF Idx
    <3> QED BY <1>3, <1>10, <3>1
  <2>4. Kahn'
    BY <1>1, <1>3, <1>4, <1>5, <1>6, <2>1, <2>2, <2>3 DEF Kahn
  <2>5. Rebuilt'
    BY <1>1, <1>3, <1>4, <1>5 DEF Rebuilt
  <2> QED BY <2>4, <2>5
<1> QED BY <1>5, <1>8, <1>9, <1>11, <1>12, <1>13 DEF IInv

LEMMA StepPop == ASSUME IInv, Pop PROVE IInv'
<1> DEFINE n == Len(topol)
<1>1. /\ phase = "pop" /\ queue # <<>> /\ phase' = "release" /\ i' = 0 /\ j' = 0
      /\ topol' = Append(topol, Head(queue)) /\ queue' = Tail(queue)
  BY DEF Pop, Goto
<1>2. UNCHANGED <<bagVars, writeVars, count, revGraph, inDegree, buildVars>>
  BY DEF Pop
<1>3. phase \in Late /\ phase' \in Late
  BY <1>1 DEF Late
<1>4. /\ Typed /\ Read /\ Loops /\ Graph /\ Kahn /\ Rebuilt /\ Filled /\ Distinct /\ RefsBefore
      /\ cellCount \in Nat /\ Len(meta) = cellCount /\ count = cellCount
      /\ topol \in Seq(Idx) /\ queue \in Seq(Idx)
      /\ \A c \in Idx : Queued(c) \/ Sent(c) <=> inDegree[c] = 0
  BY <1>1, <1>3, Reading DEF Kahn, Typed
<1>5. /\ Imported' /\ Renumbered' /\ Headed' /\ Described' /\ Laid'
      /\ Idx' = Idx /\ cellCount' = cellCount /\ Descriptors' = Descriptors
      /\ meta' = meta /\ (\A c : RefsOf(c)' = RefsOf(c))
      /\ count' = count /\ start' = start /\ idxMap' = idxMap /\ cells' = cells /\ root' = root
      /\ data' = data /\ rootIdx' = rootIdx /\ refSize' = refSize
      /\ offSize' = offSize /\ dataSize' = dataSize /\ position' = position
  BY <1>2, <1>3, SearchStays
<1>6. revGraph' = revGraph /\ inDegree' = inDegree
  BY <1>2
<1>7. /\ Len(queue) \in Nat \ {0} /\ queue' \in Seq(Idx) /\ Len(queue') = Len(queue) - 1
      /\ \A m \in 1 .. Len(queue') : m + 1 \in 1 .. Len(queue) /\ queue'[m] = queue[m + 1]
      /\ queue[1] \in Idx /\ Head(queue) = queue[1]
  BY <1>1, <1>4
<1>8. /\ n \in Nat /\ topol' \in Seq(Idx) /\ Len(topol') = n + 1 /\ topol'[n + 1] = queue[1]
      /\ \A m \in 1 .. n : topol'[m] = topol[m]
  BY <1>1, <1>4, <1>7, AppendProperties
<1> HIDE DEF n
<1>9. \A m \in 1 .. Len(topol') : m \in 1 .. n \/ m = n + 1
  BY <1>8
<1>10. Typed' /\ Read' /\ Loops'
  <2>1. Filled'
    BY <1>4, <1>5, <1>6 DEF Filled
  <2>2. start' = <<0>>
    BY <1>1, <1>4, <1>5 DEF Read
  <2> QED BY <1>1, <1>4, <1>5, <1>6, <1>7, <1>8, <2>1, <2>2
          DEF Typed, Read, Loops, Late, Early, Phases
<1>11. Graph'
  <2>1. ASSUME NEW r \in Idx, NEW x \in Nat \ {0} PROVE Taken(r, x)' <=> Taken(r, x)
    <3>1. Taken(r, x) <=> \E m \in 1 .. n : topol[m] = r
      BY <1>1 DEF Taken, n
    <3>2. Taken(r, x)' <=> \E m \in 1 .. n + 1 : topol'[m] = r /\ m < n + 1
      <4>1. Taken(r, x)' <=> \E m \in 1 .. n + 1 : topol'[m] = r /\ (m < n + 1 \/ x <= 0)
        BY <1>1, <1>8 DEF Taken
      <4>2. ~(x <= 0)
        OBVIOUS
      <4> QED BY <4>1, <4>2
    <3>3. \A m \in 1 .. n + 1 : m < n + 1 <=> m \in 1 .. n
      BY <1>8
    <3>4. \A m \in 1 .. n : m \in 1 .. n + 1
      BY <1>8
    <3> QED BY <1>8, <3>1, <3>2, <3>3, <3>4
  <2>2. \A c \in Idx : Open(c)' = Open(c)
    BY <1>5, <1>6, <2>1, OpenStays
  <2>3. /\ \A r \in Idx : \A x \in 1 .. Len(revGraph[r]) :
             \E k \in DOMAIN RefsOf(revGraph[r][x]) : RefsOf(revGraph[r][x])[k] = r
        /\ \A c \in Idx : \A k \in DOMAIN RefsOf(c) :
             \E x \in 1 .. Len(revGraph[RefsOf(c)[k]]) : revGraph[RefsOf(c)[k]][x] = c
        /\ \A c \in Idx : IsFiniteSet(Open(c)) /\ Cardinality(Open(c)) = inDegree[c]
    BY <1>1, <1>4 DEF Graph
  <2> QED BY <1>1, <1>5, <1>6, <2>2, <2>3 DEF Graph
<1>12. Distinct'
  <2>1. ASSUME NEW m \in 1 .. n + 1, NEW p \in 1 .. n + 1, topol'[m] = topol'[p] PROVE m = p
    <3>1. \A k \in 1 .. n : topol[k] # queue[1]
      <4>1. 1 \in 1 .. Len(queue)
        BY <1>7
      <4> QED BY <1>4, <4>1 DEF Distinct, n
    <3>2. \A k, l \in 1 .. n : topol[k] = topol[l] => k = l
      BY <1>4 DEF Distinct, n
    <3> QED BY <1>8, <1>9, <2>1, <3>1, <3>2
  <2>2. ASSUME NEW m \in 1 .. Len(queue'), NEW p \in 1 .. Len(queue'), queue'[m] = queue'[p]
        PROVE  m = p
    <3>1. m + 1 = p + 1
      BY <1>4, <1>7, <2>2 DEF Distinct
    <3>2. m \in Int /\ p \in Int
      OBVIOUS
    <3> QED BY <3>1, <3>2
  <2>3. ASSUME NEW m \in 1 .. n + 1, NEW p \in 1 .. Len(queue') PROVE topol'[m] # queue'[p]
    <3>1. p + 1 \in 1 .. Len(queue) /\ queue'[p] = queue[p + 1] /\ p + 1 # 1
      BY <1>7
    <3>2. CASE m \in 1 .. n
      BY <1>4, <1>8, <3>1, <3>2 DEF Distinct, n
    <3>3. CASE m = n + 1
      <4>1. 1 \in 1 .. Len(queue)
        BY <1>7
      <4> QED BY <1>4, <1>8, <3>1, <3>3, <4>1 DEF Distinct
    <3> QED BY <1>8, <1>9, <3>2, <3>3
  <2> QED BY <1>8, <2>1, <2>2, <2>3 DEF Distinct
<1>13. RefsBefore'
  <2>1. ASSUME NEW m \in 1 .. n + 1, NEW k \in DOMAIN RefsOf(topol'[m])
        PROVE  \E p \in 1 .. n + 1 : p < m /\ topol'[p] = RefsOf(topol'[m])[k]
    <3>1. CASE m \in 1 .. n
      <4>1. topol'[m] = topol[m] /\ k \in DOMAIN RefsOf(topol[m])
        BY <1>8, <3>1
      <4>2. PICK p \in 1 .. n : p < m /\ topol[p] = RefsOf(topol[m])[k]
        BY <1>4, <3>1, <4>1 DEF RefsBefore, n
      <4>3. p \in 1 .. n + 1 /\ topol'[p] = topol[p]
        BY <1>8
      <4> QED BY <4>1, <4>2, <4>3
    <3>2. CASE m = n + 1
      <4>1. 1 \in 1 .. Len(queue)
        BY <1>7
      <4>2. topol'[m] = queue[1] /\ k \in DOMAIN RefsOf(queue[1])
        BY <1>8, <3>2
      <4>3. PICK p \in 1 .. n : topol[p] = RefsOf(queue[1])[k]
        BY <1>4, <4>1, <4>2 DEF RefsBefore, n
      <4>4. p \in 1 .. n + 1 /\ p < m /\ topol'[p] = topol[p]
        BY <1>8, <3>2
      <4> QED BY <4>2, <4>3, <4>4
    <3> QED BY <1>8, <1>9, <3>1, <3>2
  <2>2. ASSUME NEW m \in 1 .. Len(queue'), NEW k \in DOMAIN RefsOf(queue'[m])
        PROVE  \E p \in 1 .. n + 1 : topol'[p] = RefsOf(queue'[m])[k]
    <3>1. queue'[m] = queue[m + 1] /\ m + 1 \in 1 .. Len(queue)
          /\ k \in DOMAIN RefsOf(queue[m + 1])
      BY <1>7
    <3>2. PICK p \in 1 .. n : topol[p] = RefsOf(queue[m + 1])[k]
      BY <1>4, <3>1 DEF RefsBefore, n
    <3>3. p \in 1 .. n + 1 /\ topol'[p] = topol[p]
      BY <1>8
    <3> QED BY <3>1, <3>2, <3>3
  <2>3. \A m \in 1 .. Len(topol') : \A k \in DOMAIN RefsOf(topol'[m]) :
          \E p \in 1 .. Len(topol') : p < m /\ topol'[p] = RefsOf(topol'[m])[k]
    BY <1>8, <2>1
  <2>4. \A m \in 1 .. Len(queue') : \A k \in DOMAIN RefsOf(queue'[m]) :
          \E p \in 1 .. Len(topol') : topol'[p] = RefsOf(queue'[m])[k]
    <3>1. Len(topol') = n + 1
      BY <1>8
    <3> QED BY ONLY <2>2, <3>1
  <2> DEFINE Before(mt) ==
               /\ \A m \in 1 .. Len(topol') : \A k \in DOMAIN mt[topol'[m] + 1].refs :
                    \E p \in 1 .. Len(topol') :
                      p < m /\ topol'[p] = mt[topol'[m] + 1].refs[k]
               /\ \A m \in 1 .. Len(queue') : \A k \in DOMAIN mt[queue'[m] + 1].refs :
                    \E p \in 1 .. Len(topol') : topol'[p] = mt[queue'[m] + 1].refs[k]
  <2>5. Before(meta)
    BY ONLY <2>3, <2>4 DEF RefsOf
  <2> HIDE DEF Before
  <2>6. Before(meta')
    BY <1>5, <2>5
  <2> QED BY ONLY <2>6 DEF Before, RefsBefore, RefsOf
<1>14. Kahn' /\ Rebuilt'
  <2>1. ASSUME NEW c \in Idx PROVE Queued(c)' \/ Sent(c)' <=> Queued(c) \/ Sent(c)
    <3>1. ASSUME Queued(c)' \/ Sent(c)' PROVE Queued(c) \/ Sent(c)
      <4>1. CASE Queued(c)'
        BY <1>7, <4>1 DEF Queued
      <4>2. CASE Sent(c)'
        <5>1. PICK m \in 1 .. n + 1 : topol'[m] = c
          BY <1>8, <4>2 DEF Sent
        <5>2. 1 \in 1 .. Len(queue)
          BY <1>7
        <5> QED BY <1>8, <1>9, <5>1, <5>2 DEF Sent, Queued, n
      <4> QED BY <3>1, <4>1, <4>2
    <3>2. ASSUME Sent(c) PROVE Sent(c)'
      <4>1. PICK m \in 1 .. n : topol[m] = c
        BY <3>2 DEF Sent, n
      <4>2. m \in 1 .. Len(topol') /\ topol'[m] = c
        BY <1>8, <4>1
      <4> QED BY <4>2 DEF Sent
    <3>3. ASSUME Queued(c) PROVE Queued(c)' \/ Sent(c)'
      <4>1. PICK m \in 1 .. Len(queue) : queue[m] = c
        BY <3>3 DEF Queued
      <4>2. CASE m = 1
        <5>1. n + 1 \in 1 .. Len(topol') /\ topol'[n + 1] = c
          BY <1>8, <4>1, <4>2
        <5>2. \E p \in 1 .. Len(topol') : topol'[p] = c
          BY <5>1
        <5> QED BY <5>2 DEF Sent
      <4>3. CASE m # 1
        <5>1. m - 1 \in 1 .. Len(queue') /\ (m - 1) + 1 = m
          BY <1>7, <4>3
        <5>2. queue'[m - 1] = c
          BY <1>7, <4>1, <5>1
        <5>3. \E p \in 1 .. Len(queue') : queue'[p] = c
          BY <5>1, <5>2
        <5> QED BY <5>3 DEF Queued
      <4> QED BY <4>2, <4>3
    <3> QED BY <3>1, <3>2, <3>3
  <2>2. Len(topol') > 0 /\ 0 <= Len(Waiting')
    <3>1. Waiting' = revGraph[queue[1]]
      BY <1>6, <1>8 DEF Waiting
    <3> QED BY <1>4, <1>7, <1>8, <3>1 DEF Filled
  <2>3. Kahn'
    BY <1>1, <1>4, <1>5, <1>6, <2>1, <2>2 DEF Kahn
  <2>4. Rebuilt'
    BY <1>1, <1>4, <1>5 DEF Rebuilt
  <2> QED BY <2>3, <2>4
<1> QED BY <1>5, <1>10, <1>11, <1>12, <1>13, <1>14 DEF IInv

LEMMA StepReleased == ASSUME IInv, Released PROVE IInv'
<1>1. phase = "release" /\ j = Len(Waiting) /\ phase' = "pop" /\ i' = 0 /\ j' = 0
  BY DEF Released, Goto
<1>2. UNCHANGED <<bagVars, writeVars, count, kahnVars, buildVars>>
  BY DEF Released
<1>3. phase \in Late /\ phase' \in Late
  BY <1>1 DEF Late
<1>4. /\ Typed /\ Read /\ Loops /\ Graph /\ Kahn /\ Rebuilt /\ Filled /\ Distinct /\ RefsBefore
      /\ cellCount \in Nat /\ Len(meta) = cellCount /\ count = cellCount
  BY <1>1, <1>3, Reading
<1>5. /\ Imported' /\ Renumbered' /\ Headed' /\ Described' /\ Laid'
      /\ Idx' = Idx /\ cellCount' = cellCount /\ Descriptors' = Descriptors
      /\ meta' = meta /\ (\A c : RefsOf(c)' = RefsOf(c))
      /\ count' = count /\ start' = start /\ idxMap' = idxMap /\ cells' = cells /\ root' = root
      /\ data' = data /\ rootIdx' = rootIdx /\ refSize' = refSize
      /\ offSize' = offSize /\ dataSize' = dataSize /\ position' = position
  BY <1>2, <1>3, SearchStays
<1>6. revGraph' = revGraph /\ inDegree' = inDegree /\ topol' = topol /\ queue' = queue
      /\ (\A c : Queued(c)' = Queued(c) /\ Sent(c)' = Sent(c))
  BY <1>2 DEF kahnVars, Queued, Sent
<1>7. Typed' /\ Read' /\ Loops'
  <2>1. Filled'
    BY <1>4, <1>5, <1>6 DEF Filled
  <2>2. start' = <<0>>
    BY <1>1, <1>4, <1>5 DEF Read
  <2> QED BY <1>1, <1>4, <1>5, <1>6, <2>1, <2>2 DEF Typed, Read, Loops, Late, Early, Phases
<1>8. Graph'
  <2>1. ASSUME NEW r \in Idx, NEW x \in Nat \ {0}, x <= Len(revGraph[r])
        PROVE  Taken(r, x)' <=> Taken(r, x)
    <3>1. Taken(r, x)' <=> \E m \in 1 .. Len(topol) : topol[m] = r
      BY <1>1, <1>6 DEF Taken
    <3>2. Taken(r, x) => \E m \in 1 .. Len(topol) : topol[m] = r
      BY DEF Taken
    <3>3. ASSUME NEW m \in 1 .. Len(topol), topol[m] = r PROVE Taken(r, x)
      <4>1. Len(topol) \in Nat
        BY <1>4 DEF Typed
      <4>2. m < Len(topol) \/ m = Len(topol)
        BY <4>1
      <4>3. CASE m = Len(topol)
        <5>1. x <= j
          BY <1>1, <2>1, <3>3, <4>3 DEF Waiting
        <5> QED BY <3>3, <5>1 DEF Taken
      <4> QED BY <3>3, <4>2, <4>3 DEF Taken
    <3> QED BY <3>1, <3>2, <3>3
  <2>2. \A c \in Idx : Open(c)' = Open(c)
    BY <1>5, <1>6, <2>1, OpenStays
  <2> QED BY <1>1, <1>4, <1>5, <1>6, <2>2 DEF Graph
<1>9. Distinct' /\ RefsBefore' /\ Kahn' /\ Rebuilt'
  <2>1. Distinct' /\ RefsBefore'
    BY <1>4, <1>5, <1>6, OrderStays
  <2>3. Kahn'
    BY <1>1, <1>4, <1>5, <1>6 DEF Kahn
  <2>4. Rebuilt'
    BY <1>1, <1>4, <1>5 DEF Rebuilt
  <2> QED BY <2>1, <2>3, <2>4
<1> QED BY <1>5, <1>7, <1>8, <1>9 DEF IInv

LEMMA StepRelease == ASSUME IInv, Release PROVE IInv'
<1>0. PICK n, t, c0, e0 :
        n = Len(topol) /\ t = topol[n] /\ c0 = Waiting[j + 1] /\ e0 = <<t, j + 1>>
  OBVIOUS
<1>1. /\ phase = "release" /\ j < Len(Waiting)
      /\ inDegree' = [inDegree EXCEPT ![c0] = @ - 1]
      /\ queue' = IF inDegree[c0] = 1 THEN Append(queue, c0) ELSE queue
      /\ phase' = "release" /\ i' = i /\ j' = j + 1
      /\ revGraph' = revGraph /\ topol' = topol
  BY <1>0 DEF Release
<1>2. UNCHANGED <<bagVars, writeVars, count, buildVars>>
  BY DEF Release
<1>3. phase \in Late /\ phase' \in Late
  BY <1>1 DEF Late
<1>4. /\ Typed /\ Read /\ Loops /\ Graph /\ Kahn /\ Rebuilt /\ Filled /\ Distinct /\ RefsBefore
      /\ cellCount \in Nat /\ Len(meta) = cellCount /\ count = cellCount
      /\ topol \in Seq(Idx) /\ queue \in Seq(Idx) /\ n \in Nat /\ n > 0 /\ j \in Nat
      /\ revGraph \in [Idx -> Seq(Idx)] /\ inDegree \in [Idx -> Nat]
      /\ \A c \in Idx : Queued(c) \/ Sent(c) <=> inDegree[c] = 0
      /\ \A c \in Idx : \A k \in DOMAIN RefsOf(c) : RefsOf(c)[k] \in Idx
  <2>1. /\ Typed /\ Read /\ Loops /\ Graph /\ Kahn /\ Rebuilt /\ Filled /\ Distinct /\ RefsBefore
        /\ cellCount \in Nat /\ Len(meta) = cellCount /\ count = cellCount
        /\ \A c \in Idx : \A k \in DOMAIN RefsOf(c) : RefsOf(c)[k] \in Idx
    BY <1>3, Reading
  <2>2. topol \in Seq(Idx) /\ queue \in Seq(Idx) /\ j \in Nat
    BY <2>1 DEF Typed
  <2>3. revGraph \in [Idx -> Seq(Idx)] /\ inDegree \in [Idx -> Nat]
    BY <2>1 DEF Filled
  <2>4. Len(topol) > 0 /\ \A c \in Idx : Queued(c) \/ Sent(c) <=> inDegree[c] = 0
    BY <1>1, <2>1 DEF Kahn
  <2>5. n \in Nat /\ n > 0
    BY <1>0, <2>2, <2>4
  <2> QED BY <2>1, <2>2, <2>3, <2>4, <2>5
<1>5. /\ Imported' /\ Renumbered' /\ Headed' /\ Described' /\ Laid'
      /\ Idx' = Idx /\ cellCount' = cellCount /\ Descriptors' = Descriptors
      /\ meta' = meta /\ (\A c : RefsOf(c)' = RefsOf(c))
      /\ count' = count /\ start' = start /\ idxMap' = idxMap /\ cells' = cells /\ root' = root
      /\ data' = data /\ rootIdx' = rootIdx /\ refSize' = refSize
      /\ offSize' = offSize /\ dataSize' = dataSize /\ position' = position
  BY <1>2, <1>3, SearchStays
<1>6. t \in Idx /\ Waiting = revGraph[t] /\ c0 \in Idx /\ c0 = revGraph[t][j + 1]
      /\ j + 1 \in Nat \ {0} /\ j + 1 <= Len(revGraph[t]) /\ Len(revGraph[t]) \in Nat
  <2>1. t \in Idx
    BY <1>0, <1>4
  <2>2. Waiting = revGraph[t] /\ revGraph[t] \in Seq(Idx)
    BY <1>0, <1>4, <2>1 DEF Waiting
  <2>3. j + 1 \in 1 .. Len(revGraph[t])
    BY <1>1, <1>4, <2>2
  <2>4. c0 = revGraph[t][j + 1]
    BY <1>0, <2>2
  <2>5. c0 \in Idx /\ Len(revGraph[t]) \in Nat /\ j + 1 <= Len(revGraph[t])
    BY <2>2, <2>3, <2>4
  <2>6. j + 1 \in Nat \ {0}
    BY <1>4
  <2> QED BY <2>1, <2>2, <2>4, <2>5, <2>6
<1>7. \A r, x : Taken(r, x) <=> \E m \in 1 .. n : topol[m] = r /\ (m < n \/ x <= j)
  BY <1>0, <1>1 DEF Taken
<1>8. \A r, x : Taken(r, x)' <=> \E m \in 1 .. n : topol[m] = r /\ (m < n \/ x <= j + 1)
  BY <1>0, <1>1 DEF Taken
<1>9. ~Taken(t, j + 1)
  <2>1. ASSUME NEW m \in 1 .. n, topol[m] = t, m < n PROVE FALSE
    <3>1. n \in 1 .. n /\ topol[n] = topol[m]
      BY <1>0, <1>4, <2>1
    <3>2. m = n
      BY <1>0, <1>4, <3>1 DEF Distinct
    <3> QED BY <1>4, <2>1, <3>2
  <2> QED BY <1>4, <1>7, <2>1
<1>10. ASSUME NEW r \in Idx, NEW x \in Nat \ {0}
       PROVE  Taken(r, x)' <=> Taken(r, x) \/ (r = t /\ x = j + 1)
  <2>1. n \in 1 .. n /\ topol[n] = t
    BY <1>0, <1>4
  <2>2. x <= j + 1 <=> x <= j \/ x = j + 1
    BY <1>4
  <2>3. \A m \in 1 .. n : m < n \/ m = n
    BY <1>4
  <2>4. ASSUME Taken(r, x)' PROVE Taken(r, x) \/ (r = t /\ x = j + 1)
    <3>1. PICK m \in 1 .. n : topol[m] = r /\ (m < n \/ x <= j + 1)
      BY <1>8, <2>4
    <3> QED BY <1>7, <2>1, <2>2, <2>3, <3>1
  <2>5. ASSUME Taken(r, x) PROVE Taken(r, x)'
    <3>1. PICK m \in 1 .. n : topol[m] = r /\ (m < n \/ x <= j)
      BY <1>7, <2>5
    <3> QED BY <1>8, <2>2, <3>1
  <2>6. ASSUME r = t, x = j + 1 PROVE Taken(r, x)'
    BY <1>8, <2>1, <2>2, <2>6
  <2> QED BY <2>4, <2>5, <2>6
<1>11. ASSUME NEW c \in Idx PROVE Open(c)' = Open(c) \ {e0}
  <2>1. \A e : e \in Open(c)' <=>
          e \in Idx \X (Nat \ {0}) /\ e[2] <= Len(revGraph[e[1]]) /\ revGraph[e[1]][e[2]] = c
          /\ ~Taken(e[1], e[2])'
    BY <1>1, <1>5 DEF Open
  <2>2. \A e : e \in Open(c) <=>
          e \in Idx \X (Nat \ {0}) /\ e[2] <= Len(revGraph[e[1]]) /\ revGraph[e[1]][e[2]] = c
          /\ ~Taken(e[1], e[2])
    BY DEF Open
  <2>3. \A e \in Idx \X (Nat \ {0}) :
          e[1] \in Idx /\ e[2] \in Nat \ {0} /\ (e = e0 <=> e[1] = t /\ e[2] = j + 1)
    BY <1>0
  <2>4. \A e \in Idx \X (Nat \ {0}) :
          Taken(e[1], e[2])' <=> Taken(e[1], e[2]) \/ e = e0
    BY <1>10, <2>3
  <2>5. \A e : e \in Open(c)' <=> e \in Open(c) /\ e # e0
    BY <2>1, <2>2, <2>4
  <2> QED BY <2>5
<1>12. e0 \in Open(c0) /\ \A c \in Idx : c # c0 => ~(e0 \in Open(c))
  <2>1. e0[1] = t /\ e0[2] = j + 1 /\ e0 \in Idx \X (Nat \ {0})
    BY <1>0, <1>6
  <2>2. e0 \in Open(c0)
    BY <1>6, <1>9, <2>1 DEF Open
  <2>3. \A c : e0 \in Open(c) => revGraph[e0[1]][e0[2]] = c
    BY DEF Open
  <2> QED BY <1>6, <2>1, <2>2, <2>3
<1>13. inDegree[c0] \in Nat \ {0}
  <2>1. IsFiniteSet(Open(c0)) /\ Cardinality(Open(c0)) = inDegree[c0]
    BY <1>1, <1>4, <1>6 DEF Graph
  <2> QED BY <1>4, <1>6, <1>12, <2>1, FS_EmptySet
<1>14. /\ inDegree' \in [Idx -> Nat] /\ inDegree'[c0] = inDegree[c0] - 1
       /\ \A c \in Idx : c # c0 => inDegree'[c] = inDegree[c]
  <2>1. inDegree[c0] - 1 \in Nat
    BY <1>13
  <2> QED BY <1>1, <1>4, <1>6, <2>1
<1>15. ~Queued(c0) /\ ~Sent(c0)
  BY <1>4, <1>6, <1>13
<1>16. /\ queue' \in Seq(Idx) /\ Len(queue) \in Nat
       /\ inDegree[c0] = 1 => Len(queue') = Len(queue) + 1 /\ queue'[Len(queue) + 1] = c0
                              /\ \A m \in 1 .. Len(queue) : queue'[m] = queue[m]
       /\ inDegree[c0] # 1 => queue' = queue
  <2>1. /\ Append(queue, c0) \in Seq(Idx) /\ Len(Append(queue, c0)) = Len(queue) + 1
        /\ Append(queue, c0)[Len(queue) + 1] = c0
        /\ \A m \in 1 .. Len(queue) : Append(queue, c0)[m] = queue[m]
    BY <1>4, <1>6, AppendProperties
  <2>2. Len(queue) \in Nat
    BY <1>4
  <2>3. CASE inDegree[c0] = 1
    BY <1>1, <2>1, <2>2, <2>3
  <2>4. CASE inDegree[c0] # 1
    BY <1>1, <1>4, <2>2, <2>4
  <2> QED BY <2>3, <2>4
<1>17. inDegree[c0] = 1 =>
         \A m \in 1 .. Len(queue') : m \in 1 .. Len(queue) \/ m = Len(queue) + 1
  BY <1>16
<1>18. Typed' /\ Read' /\ Loops'
  <2>1. Filled'
    BY <1>1, <1>4, <1>5, <1>14 DEF Filled
  <2>2. start' = <<0>>
    BY <1>1, <1>4, <1>5 DEF Read
  <2> QED BY <1>1, <1>4, <1>5, <1>16, <2>1, <2>2 DEF Typed, Read, Loops, Late, Early, Phases
<1>19. Graph'
  <2>1. ASSUME NEW c \in Idx
        PROVE  IsFiniteSet(Open(c)') /\ Cardinality(Open(c)') = inDegree'[c]
    <3>1. IsFiniteSet(Open(c)) /\ Cardinality(Open(c)) = inDegree[c]
      BY <1>1, <1>4 DEF Graph
    <3>2. CASE c # c0
      <4>1. Open(c) \ {e0} = Open(c)
        BY <1>12, <3>2
      <4> QED BY <1>11, <1>14, <3>1, <3>2, <4>1
    <3>3. CASE c = c0
      <4>1. /\ IsFiniteSet(Open(c) \ {e0})
            /\ Cardinality(Open(c) \ {e0}) = Cardinality(Open(c)) - 1
        BY <1>12, <3>1, <3>3, FS_RemoveElement
      <4> QED BY <1>11, <1>14, <3>1, <3>3, <4>1
    <3> QED BY <3>2, <3>3
  <2>2. /\ \A r \in Idx : \A x \in 1 .. Len(revGraph[r]) :
             \E k \in DOMAIN RefsOf(revGraph[r][x]) : RefsOf(revGraph[r][x])[k] = r
        /\ \A c \in Idx : \A k \in DOMAIN RefsOf(c) :
             \E x \in 1 .. Len(revGraph[RefsOf(c)[k]]) : revGraph[RefsOf(c)[k]][x] = c
    BY <1>1, <1>4 DEF Graph
  <2> QED BY <1>1, <1>5, <2>1, <2>2 DEF Graph
<1>20. Distinct'
  <2>1. ASSUME NEW m \in 1 .. Len(queue'), NEW p \in 1 .. Len(queue'), queue'[m] = queue'[p]
        PROVE  m = p
    <3>1. \A a \in 1 .. Len(queue) : queue[a] # c0
      BY <1>15 DEF Queued
    <3>2. \A a, b \in 1 .. Len(queue) : queue[a] = queue[b] => a = b
      BY <1>4 DEF Distinct
    <3>3. CASE inDegree[c0] = 1
      <4>1. /\ m \in 1 .. Len(queue) \/ m = Len(queue) + 1
            /\ p \in 1 .. Len(queue) \/ p = Len(queue) + 1
        BY <1>17, <3>3
      <4> QED BY <1>16, <2>1, <3>1, <3>2, <3>3, <4>1
    <3>4. CASE inDegree[c0] # 1
      BY <1>16, <2>1, <3>2, <3>4
    <3> QED BY <3>3, <3>4
  <2>2. ASSUME NEW m \in 1 .. n, NEW p \in 1 .. Len(queue') PROVE topol[m] # queue'[p]
    <3>1. \A a \in 1 .. n : topol[a] # c0
      BY <1>0, <1>15 DEF Sent
    <3>2. \A a \in 1 .. n, b \in 1 .. Len(queue) : topol[a] # queue[b]
      BY <1>0, <1>4 DEF Distinct
    <3>3. CASE inDegree[c0] = 1
      BY <1>16, <1>17, <3>1, <3>2, <3>3
    <3>4. CASE inDegree[c0] # 1
      BY <1>16, <3>2, <3>4
    <3> QED BY <3>3, <3>4
  <2>3. topol' = topol
    BY <1>1
  <2>4. (\A m, p \in 1 .. Len(topol) : topol[m] = topol[p] => m = p)'
    BY <1>4, <2>3 DEF Distinct
  <2>5. (\A m, p \in 1 .. Len(queue) : queue[m] = queue[p] => m = p)'
    BY <2>1
  <2>6. (\A m \in 1 .. Len(topol), p \in 1 .. Len(queue) : topol[m] # queue[p])'
    BY <1>0, <2>2, <2>3
  <2> QED BY ONLY <2>4, <2>5, <2>6 DEF Distinct
<1>21. RefsBefore'
  <2>1. ASSUME NEW m \in 1 .. Len(queue'), NEW k \in DOMAIN RefsOf(queue'[m])
        PROVE  \E p \in 1 .. n : topol[p] = RefsOf(queue'[m])[k]
    <3>1. CASE inDegree[c0] # 1 \/ m \in 1 .. Len(queue)
      <4>1. m \in 1 .. Len(queue) /\ queue'[m] = queue[m]
        BY <1>16, <3>1
      <4>2. k \in DOMAIN RefsOf(queue[m])
        BY <4>1
      <4>3. PICK p \in 1 .. n : topol[p] = RefsOf(queue[m])[k]
        BY <1>0, <1>4, <4>1, <4>2 DEF RefsBefore
      <4> QED BY <4>1, <4>3
    <3>2. CASE inDegree[c0] = 1 /\ m = Len(queue) + 1
      <4>1. queue'[m] = c0 /\ k \in DOMAIN RefsOf(c0)
        BY <1>16, <3>2
      <4>2. Open(c0)' = {}
        <5>1. IsFiniteSet(Open(c0)') /\ Cardinality(Open(c0)') = 0
          <6>1. IsFiniteSet(Open(c0)) /\ Cardinality(Open(c0)) = 1
            BY <1>1, <1>4, <1>6, <3>2 DEF Graph
          <6>2. /\ IsFiniteSet(Open(c0) \ {e0})
                /\ Cardinality(Open(c0) \ {e0}) = Cardinality(Open(c0)) - 1
            BY <1>12, <6>1, FS_RemoveElement
          <6>3. Open(c0)' = Open(c0) \ {e0}
            BY <1>6, <1>11
          <6> QED BY <6>1, <6>2, <6>3
        <5> QED BY <5>1, FS_EmptySet
      <4>3. ASSUME NEW r \in Idx, NEW x \in 1 .. Len(revGraph[r]), revGraph[r][x] = c0
            PROVE  Taken(r, x)'
        <5>1. x \in Nat \ {0} /\ x <= Len(revGraph[r])
          BY <1>4
        <5>2. <<r, x>> \in Idx \X (Nat \ {0}) /\ <<r, x>>[1] = r /\ <<r, x>>[2] = x
          BY <5>1
        <5>3. ~(<<r, x>> \in Open(c0)')
          BY <4>2
        <5> QED BY <1>1, <1>5, <4>3, <5>1, <5>2, <5>3 DEF Open
      <4>4. PICK x \in 1 .. Len(revGraph[RefsOf(c0)[k]]) : revGraph[RefsOf(c0)[k]][x] = c0
        <5>1. \A d \in Idx : \A l \in DOMAIN RefsOf(d) :
                \E x \in 1 .. Len(revGraph[RefsOf(d)[l]]) : revGraph[RefsOf(d)[l]][x] = d
          BY <1>1, <1>4 DEF Graph
        <5> QED BY <1>6, <4>1, <5>1
      <4>5. PICK r \in Idx : r = RefsOf(c0)[k]
        BY <1>4, <1>6, <4>1
      <4>6. Taken(r, x)'
        BY <4>3, <4>4, <4>5
      <4> QED BY <1>8, <4>1, <4>5, <4>6
    <3> QED BY <1>17, <3>1, <3>2
  <2>2. \A m \in 1 .. Len(topol) : \A k \in DOMAIN RefsOf(topol[m]) :
          \E p \in 1 .. Len(topol) : p < m /\ topol[p] = RefsOf(topol[m])[k]
    BY <1>4 DEF RefsBefore
  <2>3. \A m \in 1 .. Len(queue') : \A k \in DOMAIN RefsOf(queue'[m]) :
          \E p \in 1 .. Len(topol) : topol[p] = RefsOf(queue'[m])[k]
    BY <1>0, <2>1
  <2>4. topol' = topol /\ meta' = meta
    BY <1>1, <1>5
  <2>5. (\A m \in 1 .. Len(topol) : \A k \in DOMAIN RefsOf(topol[m]) :
           \E p \in 1 .. Len(topol) : p < m /\ topol[p] = RefsOf(topol[m])[k])'
    <3> DEFINE Before(tp, mt) ==
                 \A m \in 1 .. Len(tp) : \A k \in DOMAIN mt[tp[m] + 1].refs :
                   \E p \in 1 .. Len(tp) : p < m /\ tp[p] = mt[tp[m] + 1].refs[k]
    <3>1. Before(topol, meta)
      BY ONLY <2>2 DEF RefsOf
    <3> HIDE DEF Before
    <3>2. Before(topol', meta')
      BY ONLY <2>4, <3>1
    <3> QED BY ONLY <3>2 DEF Before, RefsOf
  <2>6. (\A m \in 1 .. Len(queue) : \A k \in DOMAIN RefsOf(queue[m]) :
           \E p \in 1 .. Len(topol) : topol[p] = RefsOf(queue[m])[k])'
    BY ONLY <2>3, <2>4 DEF RefsOf
  <2> QED BY ONLY <2>5, <2>6 DEF RefsBefore
<1>22. Kahn' /\ Rebuilt'
  <2>1. \A c : Sent(c)' = Sent(c)
    BY <1>1 DEF Sent
  <2>2. ASSUME NEW c \in Idx
        PROVE  Queued(c)' <=> Queued(c) \/ (c = c0 /\ inDegree[c0] = 1)
    <3>1. CASE inDegree[c0] # 1
      BY <1>16, <3>1 DEF Queued
    <3>2. CASE inDegree[c0] = 1
      <4>1. ASSUME Queued(c)' PROVE Queued(c) \/ c = c0
        <5>1. PICK m \in 1 .. Len(queue') : queue'[m] = c
          BY <4>1 DEF Queued
        <5> QED BY <1>16, <1>17, <3>2, <5>1 DEF Queued
      <4>2. ASSUME Queued(c) PROVE Queued(c)'
        <5>1. PICK m \in 1 .. Len(queue) : queue[m] = c
          BY <4>2 DEF Queued
        <5>2. m \in 1 .. Len(queue') /\ queue'[m] = c
          BY <1>16, <3>2, <5>1
        <5> QED BY <5>2 DEF Queued
      <4>3. ASSUME c = c0 PROVE Queued(c)'
        <5>1. Len(queue) + 1 \in 1 .. Len(queue') /\ queue'[Len(queue) + 1] = c
          BY <1>16, <3>2, <4>3
        <5>2. \E m \in 1 .. Len(queue') : queue'[m] = c
          BY <5>1
        <5> QED BY <5>2 DEF Queued
      <4> QED BY <3>2, <4>1, <4>2, <4>3
    <3> QED BY <3>1, <3>2
  <2>3. ASSUME NEW c \in Idx PROVE Queued(c)' \/ Sent(c)' <=> inDegree'[c] = 0
    <3>1. CASE c # c0
      BY <1>4, <1>14, <2>1, <2>2, <3>1
    <3>2. CASE c = c0
      <4>1. inDegree'[c0] = 0 <=> inDegree[c0] = 1
        BY <1>13, <1>14
      <4> QED BY <1>15, <2>1, <2>2, <3>2, <4>1
    <3> QED BY <3>1, <3>2
  <2>4. Len(topol') > 0 /\ j' <= Len(Waiting')
    <3>1. Waiting' = Waiting
      BY <1>1 DEF Waiting
    <3> QED BY <1>0, <1>1, <1>4, <1>6, <3>1
  <2>5. Kahn'
    BY <1>1, <1>4, <1>5, <2>3, <2>4 DEF Kahn
  <2>6. Rebuilt'
    BY <1>1, <1>4, <1>5 DEF Rebuilt
  <2> QED BY <2>5, <2>6
<1> QED BY <1>5, <1>18, <1>19, <1>20, <1>21, <1>22 DEF IInv

(* Of the items not taken the one whose cell has the least index would      *)
(* refer only to items taken, so it would be in the queue.                  *)
LEMMA StepOrdered == ASSUME IInv, Ordered PROVE IInv'
<1>1. phase = "pop" /\ queue = <<>> /\ phase' = "intervals" /\ i' = 0 /\ j' = 0
  BY DEF Ordered, Goto
<1>2. UNCHANGED <<bagVars, writeVars, count, kahnVars, buildVars>>
  BY DEF Ordered
<1>3. phase \in Late /\ phase' \in Late
  BY <1>1 DEF Late
<1>4. /\ Imported /\ Typed /\ Read /\ Loops /\ Graph /\ Kahn /\ Rebuilt /\ Filled
      /\ Distinct /\ RefsBefore /\ Described /\ Renumbered
      /\ cellCount \in Nat /\ cellCount >= 1 /\ Len(meta) = cellCount /\ count = cellCount
      /\ phase # "permute"
      /\ \A c \in Idx : Queued(c) \/ Sent(c) <=> inDegree[c] = 0
  BY <1>1, <1>3, Reading DEF Kahn
<1>5. /\ Imported' /\ Renumbered' /\ Headed' /\ Described' /\ Laid'
      /\ Idx' = Idx /\ cellCount' = cellCount /\ Descriptors' = Descriptors
      /\ meta' = meta /\ (\A c : RefsOf(c)' = RefsOf(c))
      /\ count' = count /\ start' = start /\ idxMap' = idxMap /\ cells' = cells /\ root' = root
      /\ data' = data /\ rootIdx' = rootIdx /\ refSize' = refSize
      /\ offSize' = offSize /\ dataSize' = dataSize /\ position' = position
  BY <1>2, <1>3, SearchStays
<1>6. revGraph' = revGraph /\ inDegree' = inDegree /\ topol' = topol /\ queue' = queue
      /\ (\A c : Sent(c)' = Sent(c))
  BY <1>2 DEF kahnVars, Sent
<1> DEFINE T == {Src(c) : c \in {x \in Idx : ~Sent(x)}}
<1>7. T = {}
  <2> SUFFICES ASSUME T # {} PROVE FALSE
    OBVIOUS
  <2>1. T \subseteq Nat
    BY <1>4, Sources DEF Idx
  <2>2. PICK m \in T : \A x \in T : m <= x
    <3> HIDE DEF T
    <3> QED BY <2>1, Least
  <2>3. PICK c \in Idx : ~Sent(c) /\ Src(c) = m
    BY <2>2
  <2>4. ASSUME NEW k \in DOMAIN RefsOf(c) PROVE Sent(RefsOf(c)[k])
    <3>1. RefsOf(c)[k] \in Idx /\ Src(RefsOf(c)[k]) = refs[Src(c)][k]
          /\ k \in DOMAIN refs[Src(c)] /\ Src(c) \in Idx
      BY <1>4, Items
    <3>2. refs[Src(c)][k] < Src(c) /\ refs[Src(c)][k] \in Idx
      BY <1>4, <3>1, Bag
    <3>3. ~(m <= Src(RefsOf(c)[k]))
      BY <1>4, <2>3, <3>1, <3>2 DEF Idx
    <3>4. ~(Src(RefsOf(c)[k]) \in T)
      BY <2>2, <3>3
    <3> QED BY <3>1, <3>4
  <2> HIDE DEF T
  <2>5. Open(c) = {}
    <3>1. ASSUME NEW e \in Open(c) PROVE FALSE
      <4>1. /\ e[1] \in Idx /\ e[2] \in Nat \ {0} /\ e[2] <= Len(revGraph[e[1]])
            /\ revGraph[e[1]][e[2]] = c /\ ~Taken(e[1], e[2])
        BY DEF Open
      <4>2. e[2] \in 1 .. Len(revGraph[e[1]])
        BY <1>4, <4>1 DEF Filled
      <4>3. PICK k \in DOMAIN RefsOf(c) : RefsOf(c)[k] = e[1]
        BY <1>1, <1>4, <4>1, <4>2 DEF Graph
      <4>4. Sent(e[1])
        BY <2>4, <4>3
      <4> QED BY <1>1, <4>1, <4>4 DEF Taken, Sent
    <3> QED BY <3>1
  <2>6. inDegree[c] = 0
    BY <1>1, <1>4, <2>5, FS_EmptySet DEF Graph
  <2>7. ~Queued(c)
    BY <1>1 DEF Queued
  <2> QED BY <1>4, <2>3, <2>6, <2>7
<1>8. \A c \in Idx : Sent(c)
  BY <1>7
<1>9. Typed' /\ Read' /\ Loops'
  <2>1. Filled'
    BY <1>4, <1>5, <1>6 DEF Filled
  <2>2. Len(start') = 1
    BY <1>1, <1>4, <1>5 DEF Read
  <2> QED BY <1>1, <1>4, <1>5, <1>6, <2>1, <2>2 DEF Typed, Read, Loops, Late, Early, Phases
<1>10. Graph' /\ Distinct' /\ RefsBefore' /\ Kahn' /\ Rebuilt'
  <2>1. Graph'
    BY <1>1 DEF Graph
  <2>2. Distinct' /\ RefsBefore'
    BY <1>4, <1>5, <1>6, OrderStays
  <2>4. Kahn'
    BY <1>1, <1>4, <1>5, <1>6, <1>8 DEF Kahn
  <2>5. Rebuilt'
    BY <1>1, <1>4, <1>5 DEF Rebuilt
  <2> QED BY <2>1, <2>2, <2>4, <2>5
<1> QED BY <1>5, <1>9, <1>10 DEF IInv

LEMMA StepInterval == ASSUME IInv, Interval PROVE IInv'
<1>1. /\ phase = "intervals" /\ start' = Append(start, start[i + 1] + meta[i + 1].len)
      /\ Advance(count, "rebuild")
  BY DEF Interval
<1>2. UNCHANGED <<bagVars, writeVars, count, kahnVars, idxMap, cells, root>>
  BY DEF Interval
<1>3. /\ Imported /\ Typed /\ Read /\ Loops /\ Kahn /\ Rebuilt /\ Filled /\ Laid
      /\ Distinct /\ RefsBefore /\ Described /\ Renumbered
      /\ cellCount \in Nat /\ cellCount >= 1 /\ Len(meta) = cellCount /\ count = cellCount
      /\ phase # "permute" /\ phase \in Late /\ i \in Nat /\ i < cellCount /\ i \in Idx
      /\ start \in Seq(Nat) /\ Len(start) = i + 1
  <2>1. phase \in Late
    BY <1>1 DEF Late
  <2>2. i \in Nat /\ start \in Seq(Nat) /\ i < cellCount /\ Len(start) = i + 1
    BY <1>1 DEF IInv, Typed, Loops
  <2> QED BY <2>1, <2>2, Reading DEF Idx
<1>4. \/ phase' = "intervals" /\ i' = i + 1 /\ i + 1 < cellCount /\ j' = 0
      \/ phase' = "rebuild" /\ i' = 0 /\ i + 1 = cellCount /\ j' = 0
  BY <1>1, <1>3 DEF Advance, Goto
<1>5. Imported' /\ Renumbered' /\ Headed' /\ Described' /\ (\A f : Src(f)' = Src(f))
  <2>1. phase' \in Late
    BY <1>4 DEF Late
  <2> QED BY <1>2, <1>3, <2>1, WriterStays
<1>6. /\ Idx' = Idx /\ cellCount' = cellCount /\ Descriptors' = Descriptors
      /\ meta' = meta /\ (\A c : RefsOf(c)' = RefsOf(c))
      /\ count' = count /\ idxMap' = idxMap /\ cells' = cells /\ root' = root
      /\ data' = data /\ rootIdx' = rootIdx /\ refSize' = refSize /\ payload' = payload
      /\ offSize' = offSize /\ dataSize' = dataSize /\ position' = position
      /\ revGraph' = revGraph /\ inDegree' = inDegree /\ topol' = topol /\ queue' = queue
      /\ (\A c : Sent(c)' = Sent(c))
  BY <1>2, BagStays DEF bagVars, writeVars, kahnVars, RefsOf, Sent
<1>7. PICK off \in [0 .. cellCount -> Nat] : LaidAt(off, cellCount)
  BY <1>3 DEF Laid, LaidUpTo
<1>8. start[i + 1] = off[i]
  <2>1. i + 1 \in 1 .. Len(start) /\ (i + 1) - 1 = i
    BY <1>3
  <2> QED BY <1>7, <2>1 DEF LaidAt
<1>9. off[i + 1] = off[i] + Len(payload[Src(i)]) /\ off[i + 1] \in Nat
  <2>1. i \in 0 .. cellCount - 1 /\ i + 1 \in 0 .. cellCount
    BY <1>3
  <2> QED BY <1>7, <2>1 DEF LaidAt
<1>10. start' = Append(start, off[i + 1])
  <2>1. meta[i + 1].len = Len(payload[Src(i)])
    BY <1>3, Items
  <2> QED BY <1>1, <1>8, <1>9, <2>1
<1>11. /\ start' \in Seq(Nat) /\ Len(start') = i + 2 /\ start'[i + 2] = off[i + 1]
       /\ \A m \in 1 .. i + 1 : start'[m] = start[m]
  <2>1. /\ Append(start, off[i + 1]) \in Seq(Nat)
        /\ Len(Append(start, off[i + 1])) = Len(start) + 1
        /\ Append(start, off[i + 1])[Len(start) + 1] = off[i + 1]
        /\ \A m \in 1 .. Len(start) : Append(start, off[i + 1])[m] = start[m]
    BY <1>3, <1>9, AppendProperties
  <2>2. Len(start) + 1 = i + 2
    BY <1>3
  <2> QED BY <1>3, <1>10, <2>1, <2>2
<1>12. Laid'
  <2>1. \A m \in 1 .. Len(start') : start'[m] = off[m - 1]
    <3>1. \A m \in 1 .. i + 1 : start[m] = off[m - 1]
      BY <1>3, <1>7 DEF LaidAt
    <3>2. \A m \in 1 .. Len(start') : m \in 1 .. i + 1 \/ m = i + 2
      BY <1>3, <1>11
    <3>3. (i + 2) - 1 = i + 1
      BY <1>3
    <3> QED BY <1>11, <3>1, <3>2, <3>3
  <2>2. Len(start') <= cellCount + 1
    BY <1>3, <1>11
  <2>3. /\ off[0] = 0 /\ off[cellCount] = Len(data)
        /\ \A f \in 0 .. cellCount - 1 :
             /\ off[f + 1] = off[f] + Len(payload[Src(f)])
             /\ off[f + 1] <= Len(data)
             /\ \A x \in 1 .. Len(payload[Src(f)]) : data[off[f] + x] = payload[Src(f)][x]
    BY <1>7 DEF LaidAt
  <2>4. PICK n : n = cellCount
    OBVIOUS
  <2>5. LaidAt(off, n)'
    BY <1>5, <1>6, <2>1, <2>2, <2>3, <2>4 DEF LaidAt
  <2>6. LaidUpTo(cellCount)'
    BY <1>6, <2>4, <2>5 DEF LaidUpTo, LaidAt
  <2> QED BY <1>4, <2>6 DEF Laid
<1>13. Typed' /\ Read' /\ Loops'
  <2>1. Filled'
    BY <1>3, <1>6 DEF Filled
  <2>2. Typed'
    <3>1. phase' \in Phases /\ i' \in Nat /\ j' \in Nat
      BY <1>3, <1>4 DEF Phases
    <3>2. /\ rootIdx' \in Idx /\ meta \in Seq(Descriptors) /\ data \in Seq(Byte)
          /\ refSize \in Nat /\ offSize \in Nat /\ dataSize \in Nat /\ position \in Nat
          /\ topol \in Seq(Idx) /\ queue \in Seq(Idx) /\ cells \in Seq(Idx)
      BY <1>3, <1>6 DEF Typed
    <3> QED BY <1>6, <1>11, <3>1, <3>2 DEF Typed
  <2>3. Read'
    BY <1>4, <2>1 DEF Read, Late, Early
  <2>4. Loops'
    <3>1. phase' = "intervals" => Len(start') = i' + 1
      BY <1>3, <1>4, <1>11
    <3>2. phase' = "rebuild" => Len(start') = cellCount + 1
      BY <1>3, <1>4, <1>11
    <3> QED BY <1>3, <1>4, <1>6, <3>1, <3>2 DEF Loops, Late
  <2> QED BY <2>2, <2>3, <2>4
<1>14. Graph' /\ Distinct' /\ RefsBefore' /\ Kahn' /\ Rebuilt'
  <2>1. Graph'
    BY <1>4 DEF Graph
  <2>2. Distinct' /\ RefsBefore'
    BY <1>3, <1>6, OrderStays
  <2>4. Kahn'
    BY <1>1, <1>3, <1>4, <1>6 DEF Kahn
  <2>5. Rebuilt'
    <3>1. Len(cells') = 0 /\ Len(topol') \in Nat
      BY <1>1, <1>3, <1>6 DEF Kahn, Typed
    <3>2. \A m \in 1 .. Len(cells') : FALSE
      BY <3>1
    <3> QED BY <1>1, <1>3, <1>4, <1>6, <3>1, <3>2 DEF Rebuilt
  <2> QED BY <2>1, <2>2, <2>4, <2>5
<1> QED BY <1>5, <1>12, <1>13, <1>14 DEF IInv

(* The reader finds the payload of every item.                              *)
LEMMA PayloadFound ==
  ASSUME IInv, phase = "rebuild", NEW c \in Idx
  PROVE  Bytes(c) = payload[Src(c)]
<1>1. /\ Imported /\ Typed /\ Described /\ Renumbered /\ Loops /\ Laid
      /\ cellCount \in Nat /\ Len(meta) = cellCount /\ phase # "permute"
      /\ Len(start) = cellCount + 1 /\ data \in Seq(Byte)
  <2>1. phase \in Late
    BY DEF Late
  <2> QED BY <2>1, Reading DEF Loops, Typed
<1>2. PICK off \in [0 .. cellCount -> Nat] : LaidAt(off, cellCount)
  BY <1>1 DEF Laid, LaidUpTo, Late
<1>3. PICK n \in Nat, b \in Nat : n = Len(payload[Src(c)]) /\ b = off[c]
  <2>1. Src(c) \in Idx
    BY <1>1, Sources
  <2>2. c \in 0 .. cellCount
    BY <1>1 DEF Idx
  <2> QED BY <1>1, <1>2, <2>1, <2>2, Bag
<1>4. meta[c + 1].len = n
  BY <1>1, <1>3, Items
<1>5. start[c + 1] = b
  <2>1. c + 1 \in 1 .. Len(start) /\ (c + 1) - 1 = c
    BY <1>1 DEF Idx
  <2> QED BY <1>2, <1>3, <2>1 DEF LaidAt
<1>6. b + n <= Len(data) /\ \A x \in 1 .. n : data[b + x] = payload[Src(c)][x]
  <2>1. c \in 0 .. cellCount - 1
    BY DEF Idx
  <2> QED BY <1>2, <1>3, <2>1 DEF LaidAt
<1>7. Len(data) \in Nat /\ \A y \in 1 .. Len(data) : data[y] \in Byte
  BY <1>1
<1>8. /\ SubSeq(data, b + 1, b + n) \in Seq(Byte) /\ Len(SubSeq(data, b + 1, b + n)) = n
      /\ \A x \in 1 .. n : SubSeq(data, b + 1, b + n)[x] = data[b + x]
  <2>1. \A y \in b + 1 .. b + n : data[y] \in Byte
    BY <1>3, <1>6, <1>7
  <2>2. /\ SubSeq(data, b + 1, b + n) \in Seq(Byte)
        /\ Len(SubSeq(data, b + 1, b + n)) = IF b + 1 <= b + n THEN (b + n) - (b + 1) + 1 ELSE 0
        /\ \A x \in 1 .. (b + n) - (b + 1) + 1 : SubSeq(data, b + 1, b + n)[x] = data[(b + 1) + x - 1]
    <3>1. b + 1 \in Int /\ b + n \in Int
      OBVIOUS
    <3> QED BY <2>1, <3>1, SubSeqProperties
  <2>3. (b + n) - (b + 1) + 1 = n /\ \A x \in 1 .. n : (b + 1) + x - 1 = b + x
    OBVIOUS
  <2>4. (IF b + 1 <= b + n THEN n ELSE 0) = n
    OBVIOUS
  <2> QED BY <2>2, <2>3, <2>4
<1>9. payload[Src(c)] \in Seq(Byte)
  BY <1>1, Bag, Sources
<1>10. SubSeq(data, b + 1, b + n) = payload[Src(c)]
  <2> DEFINE s == SubSeq(data, b + 1, b + n)
             w == payload[Src(c)]
  <2>1. s \in Seq(Byte) /\ w \in Seq(Byte) /\ Len(s) = n /\ Len(w) = n
        /\ \A x \in 1 .. n : s[x] = w[x]
    BY <1>3, <1>6, <1>8, <1>9
  <2> HIDE DEF s, w
  <2>2. s = w
    BY <2>1, SeqEqual
  <2> QED BY <2>2 DEF s, w
<1> QED BY <1>4, <1>5, <1>10 DEF Bytes

(* A cell is the only one with its payload and its references.              *)
LEMMA CellFound ==
  ASSUME Imported, NEW c \in Idx
  PROVE  Finalize(payload[c], refs[c]) = c
<1> DEFINE same == {d \in Idx : payload[d] = payload[c] /\ refs[d] = refs[c]}
<1>1. same = {c}
  BY Bag
<1> QED BY <1>1 DEF Finalize

LEMMA StepRebuild == ASSUME IInv, Rebuild PROVE IInv' /\ phase' = "rebuild"
<1>0. PICK c, to, child : /\ c = topol[i + 1] /\ to = meta[c + 1].refs
                          /\ child = [k \in DOMAIN to |-> cells[idxMap[to[k]] + 1]]
  OBVIOUS
<1>1. /\ phase = "rebuild" /\ i < Len(topol)
      /\ IF \E k \in DOMAIN to : idxMap[to[k]] = NoCell
         THEN Goto("error") /\ UNCHANGED <<idxMap, cells>>
         ELSE /\ idxMap' = [idxMap EXCEPT ![c] = Len(cells)]
              /\ cells' = Append(cells, Finalize(Bytes(c), child))
              /\ i' = i + 1 /\ UNCHANGED <<phase, j>>
  BY <1>0 DEF Rebuild
<1>2. UNCHANGED <<bagVars, writeVars, count, kahnVars, start, root>>
  BY DEF Rebuild
<1>3. /\ Imported /\ Typed /\ Read /\ Loops /\ Kahn /\ Rebuilt /\ Filled /\ Laid
      /\ Distinct /\ RefsBefore /\ Described /\ Renumbered
      /\ cellCount \in Nat /\ Len(meta) = cellCount /\ count = cellCount
      /\ phase # "permute" /\ phase \in Late
      /\ i \in Nat /\ topol \in Seq(Idx) /\ Len(topol) \in Nat
      /\ cells \in Seq(Idx) /\ Len(cells) = i /\ idxMap \in [Idx -> Idx \union {NoCell}]
      /\ \A m \in 1 .. i : idxMap[topol[m]] = m - 1 /\ cells[m] = Src(topol[m])
  <2>1. phase \in Late
    BY <1>1 DEF Late
  <2>2. i \in Nat /\ topol \in Seq(Idx) /\ cells \in Seq(Idx)
    BY DEF IInv, Typed
  <2>3. /\ Imported /\ Typed /\ Read /\ Loops /\ Kahn /\ Rebuilt /\ Filled /\ Laid
        /\ Distinct /\ RefsBefore /\ Described /\ Renumbered
        /\ cellCount \in Nat /\ Len(meta) = cellCount /\ count = cellCount /\ phase # "permute"
    BY <2>1, Reading
  <2>4. Len(cells) = i /\ \A m \in 1 .. i : idxMap[topol[m]] = m - 1 /\ cells[m] = Src(topol[m])
    BY <1>1, <2>3 DEF Rebuilt
  <2> QED BY <2>1, <2>2, <2>3, <2>4 DEF Filled
<1>4. /\ i + 1 \in 1 .. Len(topol) /\ c \in Idx /\ to = RefsOf(c)
      /\ \A k \in DOMAIN to : to[k] \in Idx /\ Src(to[k]) = refs[Src(c)][k]
      /\ DOMAIN to = DOMAIN refs[Src(c)] /\ Src(c) \in Idx
  <2>1. i + 1 \in 1 .. Len(topol)
    BY <1>1, <1>3
  <2>2. c \in Idx /\ to = RefsOf(c)
    BY <1>0, <1>3, <2>1 DEF RefsOf
  <2> QED BY <1>3, <2>1, <2>2, Items
<1>5. ASSUME NEW k \in DOMAIN to
      PROVE  \E p \in 1 .. i : idxMap[to[k]] = p - 1 /\ cells[p] = refs[Src(c)][k]
  <2>1. k \in DOMAIN RefsOf(topol[i + 1])
    BY <1>0, <1>4
  <2>2. PICK p \in 1 .. Len(topol) : p < i + 1 /\ topol[p] = RefsOf(topol[i + 1])[k]
    BY <1>3, <1>4, <2>1 DEF RefsBefore
  <2>3. p \in 1 .. i /\ topol[p] = to[k]
    BY <1>0, <1>3, <1>4, <2>2
  <2>4. idxMap[topol[p]] = p - 1 /\ cells[p] = Src(topol[p])
    BY <1>3, <2>3
  <2> QED BY <1>4, <2>3, <2>4
<1>6. ~\E k \in DOMAIN to : idxMap[to[k]] = NoCell
  <2>1. \A p \in 1 .. i : p - 1 # NoCell
    BY <1>3 DEF NoCell
  <2> QED BY <1>5, <2>1
<1>7. /\ idxMap' = [idxMap EXCEPT ![c] = i]
      /\ cells' = Append(cells, Finalize(Bytes(c), child))
      /\ i' = i + 1 /\ phase' = "rebuild" /\ j' = j
  BY <1>1, <1>3, <1>6
<1>8. child = refs[Src(c)]
  <2>1. \A k \in DOMAIN to : child[k] = refs[Src(c)][k]
    <3>1. ASSUME NEW k \in DOMAIN to PROVE child[k] = refs[Src(c)][k]
      <4>1. PICK p \in 1 .. i : idxMap[to[k]] = p - 1 /\ cells[p] = refs[Src(c)][k]
        BY <1>5
      <4>2. idxMap[to[k]] + 1 = p
        BY <1>3, <4>1
      <4>3. child[k] = cells[idxMap[to[k]] + 1]
        BY <1>0
      <4> QED BY <4>1, <4>2, <4>3
    <3> QED BY <3>1
  <2>2. refs[Src(c)] \in RefLists(cellCount)
    BY <1>3, <1>4, Bag
  <2>3. refs[Src(c)] = [k \in DOMAIN refs[Src(c)] |-> refs[Src(c)][k]]
    BY <2>2 DEF RefLists
  <2>4. child = [k \in DOMAIN to |-> child[k]]
    BY <1>0
  <2> QED BY <1>4, <2>1, <2>3, <2>4
<1>9. cells' = Append(cells, Src(c))
  <2>1. Bytes(c) = payload[Src(c)]
    BY <1>1, <1>4, PayloadFound
  <2> QED BY <1>3, <1>4, <1>7, <1>8, <2>1, CellFound
<1>10. /\ cells' \in Seq(Idx) /\ Len(cells') = i + 1 /\ cells'[i + 1] = Src(c)
       /\ \A m \in 1 .. i : cells'[m] = cells[m]
  BY <1>3, <1>4, <1>9, AppendProperties
<1>11. i \in Idx
  <2>1. topol \in Injection(1 .. Len(topol), Idx)
    <3>1. topol \in [1 .. Len(topol) -> Idx]
      BY <1>3
    <3>2. \A m, p \in 1 .. Len(topol) : topol[m] = topol[p] => m = p
      BY <1>3 DEF Distinct
    <3> QED BY <3>1, <3>2 DEF Injection, IsInjective
  <2>2. IsFiniteSet(Idx) /\ Cardinality(Idx) = cellCount
    BY <1>3, Bag, FS_Interval DEF Idx
  <2>3. Cardinality(1 .. Len(topol)) = Len(topol)
    <3>1. PICK n \in Nat : n = Len(topol) /\ n >= 1
      BY <1>1, <1>3
    <3>2. Cardinality(1 .. n) = IF 1 > n THEN 0 ELSE n - 1 + 1
      BY <3>1, FS_Interval
    <3> QED BY <3>1, <3>2
  <2>4. Cardinality(1 .. Len(topol)) <= Cardinality(Idx)
    BY <2>1, <2>2, FS_Injection
  <2> QED BY <1>1, <1>3, <2>2, <2>3, <2>4 DEF Idx
<1>12. Imported' /\ Renumbered' /\ Headed' /\ Described' /\ Laid' /\ (\A f : Src(f)' = Src(f))
  <2>1. phase' \in Late
    BY <1>7 DEF Late
  <2>2. Imported' /\ Renumbered' /\ Headed' /\ Described' /\ \A f : Src(f)' = Src(f)
    BY <1>2, <1>3, <2>1, WriterStays
  <2>3. Laid'
    BY <1>2, <1>3, <2>1, LaidStays
  <2> QED BY <2>2, <2>3
<1>13. /\ Idx' = Idx /\ cellCount' = cellCount /\ Descriptors' = Descriptors
       /\ meta' = meta /\ (\A f : RefsOf(f)' = RefsOf(f))
       /\ count' = count /\ root' = root /\ start' = start
       /\ data' = data /\ rootIdx' = rootIdx /\ refSize' = refSize
       /\ offSize' = offSize /\ dataSize' = dataSize /\ position' = position
       /\ revGraph' = revGraph /\ inDegree' = inDegree /\ topol' = topol /\ queue' = queue
       /\ (\A f : Sent(f)' = Sent(f))
  BY <1>2, BagStays DEF bagVars, writeVars, kahnVars, RefsOf, Sent
<1>14. /\ idxMap' \in [Idx -> Idx \union {NoCell}] /\ idxMap'[c] = i
       /\ \A f \in Idx : f # c => idxMap'[f] = idxMap[f]
  BY <1>3, <1>4, <1>7, <1>11
<1>15. Typed' /\ Read' /\ Loops'
  <2>1. Filled'
    BY <1>3, <1>13, <1>14 DEF Filled
  <2>2. i' \in Nat
    BY <1>3, <1>7
  <2>3. Typed'
    BY <1>3, <1>7, <1>10, <1>13, <2>2 DEF Typed, Phases
  <2>4. Read'
    BY <1>7, <2>1 DEF Read, Late, Early
  <2>5. Loops'
    BY <1>1, <1>3, <1>7, <1>13 DEF Loops, Late
  <2> QED BY <2>3, <2>4, <2>5
<1>16. Graph' /\ Distinct' /\ RefsBefore' /\ Kahn'
  <2>1. Graph'
    BY <1>7 DEF Graph
  <2>2. Distinct' /\ RefsBefore'
    BY <1>3, <1>13, OrderStays
  <2>4. Kahn'
    BY <1>1, <1>3, <1>7, <1>13 DEF Kahn
  <2> QED BY <2>1, <2>2, <2>4
<1>17. Rebuilt'
  <2>1. ASSUME NEW m \in 1 .. i + 1
        PROVE  idxMap'[topol[m]] = m - 1 /\ cells'[m] = Src(topol[m])
    <3>1. CASE m \in 1 .. i
      <4>1. topol[m] # c /\ topol[m] \in Idx
        <5>1. m \in 1 .. Len(topol) /\ m # i + 1
          BY <1>1, <1>3, <3>1
        <5> QED BY <1>0, <1>3, <1>4, <5>1 DEF Distinct
      <4> QED BY <1>3, <1>10, <1>14, <3>1, <4>1
    <3>2. CASE m = i + 1
      BY <1>0, <1>3, <1>10, <1>14, <3>2
    <3>3. m \in 1 .. i \/ m = i + 1
      BY <1>3
    <3> QED BY <3>1, <3>2, <3>3
  <2>2. Len(cells') <= Len(topol)
    BY <1>1, <1>3, <1>10
  <2>3. root = NoCell
    BY <1>1, <1>3 DEF Rebuilt
  <2> QED BY <1>7, <1>10, <1>12, <1>13, <2>1, <2>2, <2>3 DEF Rebuilt
<1> QED BY <1>7, <1>12, <1>15, <1>16, <1>17 DEF IInv

LEMMA StepFindRoot ==
  ASSUME IInv, FindRoot
  PROVE  IInv' /\ root' = cellCount - 1 /\ phase' = "done"
<1>1. /\ phase = "rebuild" /\ i = Len(topol) /\ phase' = "done" /\ i' = 0 /\ j' = 0
      /\ root' = IF idxMap[header.root] = NoCell THEN Foreign
                 ELSE cells[idxMap[header.root] + 1]
  BY DEF FindRoot, Goto
<1>2. UNCHANGED <<bagVars, writeVars, count, kahnVars, start, idxMap, cells>>
  BY DEF FindRoot
<1>3. /\ Imported /\ Typed /\ Read /\ Loops /\ Kahn /\ Rebuilt /\ Filled /\ Headed
      /\ Distinct /\ RefsBefore /\ phase \in Late /\ cellCount \in Nat
      /\ topol \in Seq(Idx) /\ Len(topol) \in Nat
  <2>1. phase \in Late
    BY <1>1 DEF Late
  <2> QED BY <2>1, Reading DEF Typed
<1>4. header.root \in Idx /\ Src(header.root) = cellCount - 1
  BY <1>1, <1>3 DEF Headed
<1>5. PICK m \in 1 .. Len(topol) : topol[m] = header.root
  BY <1>1, <1>3, <1>4 DEF Kahn, Sent
<1>6. idxMap[header.root] = m - 1 /\ cells[m] = cellCount - 1
  BY <1>1, <1>3, <1>4, <1>5 DEF Rebuilt
<1>7. root' = cellCount - 1
  <2>1. m - 1 # NoCell /\ (m - 1) + 1 = m
    BY <1>3 DEF NoCell
  <2> QED BY <1>1, <1>6, <2>1
<1>8. Imported' /\ Renumbered' /\ Headed' /\ Described' /\ Laid' /\ (\A f : Src(f)' = Src(f))
  <2>1. phase' \in Late
    BY <1>1 DEF Late
  <2>2. Imported' /\ Renumbered' /\ Headed' /\ Described' /\ \A f : Src(f)' = Src(f)
    BY <1>2, <1>3, <2>1, WriterStays
  <2>3. Laid'
    <3>1. Laid
      BY DEF IInv
    <3> QED BY <1>2, <1>3, <2>1, <3>1, LaidStays
  <2> QED BY <2>2, <2>3
<1>9. /\ Idx' = Idx /\ cellCount' = cellCount /\ Descriptors' = Descriptors
      /\ meta' = meta /\ (\A f : RefsOf(f)' = RefsOf(f))
      /\ count' = count /\ start' = start /\ cells' = cells /\ idxMap' = idxMap
      /\ data' = data /\ rootIdx' = rootIdx /\ refSize' = refSize
      /\ offSize' = offSize /\ dataSize' = dataSize /\ position' = position
      /\ revGraph' = revGraph /\ inDegree' = inDegree /\ topol' = topol /\ queue' = queue
      /\ (\A f : Sent(f)' = Sent(f))
  BY <1>2, BagStays DEF bagVars, writeVars, kahnVars, RefsOf, Sent
<1>10. Typed' /\ Read' /\ Loops'
  <2>1. Filled'
    BY <1>3, <1>9 DEF Filled
  <2>2. Typed'
    BY <1>1, <1>3, <1>9 DEF Typed, Phases
  <2>3. Read'
    BY <1>1, <2>1 DEF Read, Late, Early
  <2>4. Loops'
    BY <1>1, <1>3, <1>9 DEF Loops, Late
  <2> QED BY <2>2, <2>3, <2>4
<1>11. Graph' /\ Distinct' /\ RefsBefore' /\ Kahn' /\ Rebuilt'
  <2>1. Graph'
    BY <1>1 DEF Graph
  <2>2. Distinct' /\ RefsBefore'
    BY <1>3, <1>9, OrderStays
  <2>4. Kahn'
    BY <1>1, <1>3, <1>9 DEF Kahn
  <2>5. Rebuilt'
    BY <1>1, <1>3, <1>7, <1>8, <1>9 DEF Rebuilt
  <2> QED BY <2>1, <2>2, <2>4, <2>5
<1> QED BY <1>1, <1>7, <1>8, <1>10, <1>11 DEF IInv

-----------------------------------------------------------------------------
(* The invariant holds.                                                     *)

LEMMA InitIInv == Init => IInv
<1> SUFFICES ASSUME Init PROVE IInv
  OBVIOUS
<1>1. /\ Imported /\ phase = "permute" /\ i = 0 /\ j = 0 /\ list = <<>> /\ rootIdx = cellCount - 1
      /\ refSize = 0 /\ offSize = 0 /\ dataSize = 0 /\ meta = <<>> /\ data = <<>>
      /\ position = 0 /\ count = 0 /\ start = <<0>> /\ revGraph = <<>> /\ inDegree = <<>>
      /\ queue = <<>> /\ topol = <<>> /\ idxMap = <<>> /\ cells = <<>> /\ root = NoCell
  BY DEF Init
<1>2. cellCount \in Nat /\ cellCount >= 1
  BY <1>1, Bag
<1>3. Typed
  BY <1>1, <1>2 DEF Typed, Phases, Idx
<1>4. Read /\ Loops
  BY <1>1, <1>2 DEF Read, Loops, Blank, Early, Late
<1>5. Renumbered /\ Headed /\ Laid /\ Graph /\ Kahn
  BY <1>1 DEF Renumbered, Headed, Laid, Graph, Kahn, Late
<1>6. Described
  BY <1>1 DEF Described
<1>7. Distinct /\ RefsBefore
  BY <1>1 DEF Distinct, RefsBefore
<1>8. Rebuilt
  BY <1>1 DEF Rebuilt
<1> QED BY <1>1, <1>3, <1>4, <1>5, <1>6, <1>7, <1>8 DEF IInv

LEMMA Stutter == ASSUME IInv, UNCHANGED vars PROVE IInv'
<1>1. /\ bagVars' = bagVars /\ cellCount' = cellCount /\ refs' = refs /\ payload' = payload
      /\ phase' = phase /\ i' = i /\ j' = j /\ list' = list /\ rootIdx' = rootIdx
      /\ refSize' = refSize /\ offSize' = offSize /\ dataSize' = dataSize /\ header' = header
      /\ meta' = meta /\ data' = data /\ position' = position /\ count' = count
      /\ start' = start /\ revGraph' = revGraph /\ inDegree' = inDegree /\ queue' = queue
      /\ topol' = topol /\ idxMap' = idxMap /\ cells' = cells /\ root' = root
  BY DEF vars, bagVars, writeVars, kahnVars, buildVars
<1>2. /\ Imported' = Imported /\ Idx' = Idx /\ Descriptors' = Descriptors
      /\ RefLists(cellCount)' = RefLists(cellCount) /\ (\A f : Src(f)' = Src(f))
      /\ (\A c : RefsOf(c)' = RefsOf(c)) /\ Waiting' = Waiting
      /\ (\A c : Queued(c)' = Queued(c) /\ Sent(c)' = Sent(c))
  BY <1>1, BagStays DEF Src, RefsOf, Waiting, Queued, Sent
<1>3. /\ Imported /\ Typed /\ Read /\ Loops /\ Renumbered /\ Headed /\ Described /\ Laid
      /\ Graph /\ Distinct /\ RefsBefore /\ Kahn /\ Rebuilt
  BY DEF IInv
<1>4. Imported' /\ Typed'
  BY <1>1, <1>2, <1>3 DEF Typed
<1>5. Read' /\ Loops'
  BY <1>1, <1>2, <1>3 DEF Read, Loops, Blank, Filled
<1>6. Renumbered'
  BY <1>1, <1>2, <1>3 DEF Renumbered
<1>7. Headed'
  BY <1>1, <1>2, <1>3 DEF Headed, Src, Place
<1>8. Described'
  BY <1>1, <1>3 DEF Described, Src, Place
<1>9. Laid'
  BY <1>1, <1>3 DEF Laid, LaidUpTo, LaidAt, Src, Place
<1>10. Graph'
  <2>1. \A r \in Idx : \A x \in Nat \ {0} :
          x <= Len(revGraph[r]) => (Taken(r, x)' <=> Taken(r, x))
    BY <1>1 DEF Taken
  <2>2. \A c \in Idx : Open(c)' = Open(c)
    BY <1>1, <1>2, <2>1, OpenStays
  <2>3. ASSUME phase \in {"edges", "seed", "pop", "release"} PROVE Graph'
    <3>1. \A c \in Idx : IsFiniteSet(Open(c)) /\ Cardinality(Open(c)) = inDegree[c]
      BY <1>3, <2>3 DEF Graph
    <3>2. \A r \in Idx : \A x \in 1 .. Len(revGraph[r]) :
            \E k \in DOMAIN RefsOf(revGraph[r][x]) : RefsOf(revGraph[r][x])[k] = r
      BY <1>3, <2>3 DEF Graph
    <3>3. \A c \in Idx : \A k \in DOMAIN RefsOf(c) :
            (phase = "edges" => c < i \/ (c = i /\ k <= j)) =>
              \E x \in 1 .. Len(revGraph[RefsOf(c)[k]]) : revGraph[RefsOf(c)[k]][x] = c
      BY <1>3, <2>3 DEF Graph
    <3> QED BY <1>1, <1>2, <2>2, <3>1, <3>2, <3>3 DEF Graph
  <2> QED BY <1>1, <2>3 DEF Graph
<1>11. Distinct' /\ RefsBefore'
  BY <1>1, <1>3, OrderStays
<1>13. Kahn'
  BY <1>1, <1>2, <1>3 DEF Kahn
<1>14. Rebuilt'
  BY <1>1, <1>2, <1>3 DEF Rebuilt
<1> QED BY <1>4, <1>5, <1>6, <1>7, <1>8, <1>9, <1>10, <1>11, <1>13, <1>14 DEF IInv

LEMMA NextIInv == IInv /\ [Next]_vars => IInv'
<1> SUFFICES ASSUME IInv, [Next]_vars PROVE IInv'
  OBVIOUS
<1>1. CASE Permute
  BY <1>1, StepPermute
<1>2. CASE WriteHeader
  BY <1>2, StepWriteHeader
<1>3. CASE WriteMeta
  BY <1>3, StepWriteMeta
<1>4. CASE WriteData
  BY <1>4, StepWriteData
<1>5. CASE Parse
  BY <1>5, StepParse
<1>6. CASE CountEdge
  BY <1>6, StepCountEdge
<1>7. CASE EdgesCounted
  BY <1>7, StepEdgesCounted
<1>8. CASE Seed
  BY <1>8, StepSeed
<1>9. CASE Pop
  BY <1>9, StepPop
<1>10. CASE Release
  BY <1>10, StepRelease
<1>11. CASE Released
  BY <1>11, StepReleased
<1>12. CASE Ordered
  BY <1>12, StepOrdered
<1>13. CASE Interval
  BY <1>13, StepInterval
<1>14. CASE Rebuild
  BY <1>14, StepRebuild
<1>15. CASE FindRoot
  BY <1>15, StepFindRoot
<1>16. CASE UNCHANGED vars
  BY <1>16, Stutter
<1> QED BY <1>1, <1>2, <1>3, <1>4, <1>5, <1>6, <1>7, <1>8, <1>9, <1>10, <1>11, <1>12,
           <1>13, <1>14, <1>15, <1>16 DEF Next, Stopped

THEOREM Invariance == Spec => []IInv
BY InitIInv, NextIInv, PTL DEF Spec

-----------------------------------------------------------------------------
(* What it gives.                                                           *)

(* Every variable of the writer and of the reader keeps its type, and a     *)
(* reference in the file is the index of a cell of the file.                *)
THEOREM TypeCorrect == Spec => []TypeOK
<1>1. IInv => TypeOK
  <2> SUFFICES ASSUME IInv PROVE TypeOK
    OBVIOUS
  <2>1. Imported /\ Typed /\ Read /\ Renumbered /\ Rebuilt /\ cellCount \in Nat /\ cellCount >= 1
    BY Bag DEF IInv
  <2>2. Blank \/ Filled
    BY <2>1 DEF Typed, Read, Phases, Early, Late
  <2>3. count \in Nat /\ (Filled => Item = Idx)
    BY <2>1, <2>2 DEF Blank, Filled, Item, Idx
  <2>4. ASSUME NEW m \in DOMAIN meta
        PROVE  meta[m].len \in Nat /\ \A k \in DOMAIN meta[m].refs : meta[m].refs[k] \in Idx
    <3>1. meta[m] \in Descriptors
      BY <2>1, <2>4 DEF Typed
    <3>2. meta[m].len \in Nat /\ meta[m].refs \in RefLists(cellCount)
      BY <3>1 DEF Descriptors
    <3> QED BY <2>1, <3>2, Lists DEF Idx
  <2>5. /\ \A r \in DOMAIN revGraph : Elems(revGraph[r]) \subseteq Item
        /\ \A c \in DOMAIN inDegree : inDegree[c] \in Nat
        /\ Elems(queue) \subseteq Item /\ Elems(topol) \subseteq Item
        /\ \A c \in DOMAIN idxMap : idxMap[c] \in Item \union {NoCell}
    <3>1. CASE Blank
      BY <3>1 DEF Blank, Elems
    <3>2. CASE Filled
      <4>1. Item = Idx /\ topol \in Seq(Idx) /\ queue \in Seq(Idx)
        BY <2>1, <2>3, <3>2 DEF Typed
      <4>2. \A s \in Seq(Idx) : Elems(s) \subseteq Idx
        BY DEF Elems
      <4> QED BY <3>2, <4>1, <4>2 DEF Filled
    <3> QED BY <2>2, <3>1, <3>2
  <2>6. Elems(cells) \subseteq Idx \union {Foreign}
    BY <2>1 DEF Typed, Elems
  <2>7. root \in Idx \union {Foreign, NoCell}
    BY <2>1 DEF Rebuilt, Idx
  <2> QED BY <2>1, <2>3, <2>4, <2>5, <2>6, <2>7 DEF TypeOK, Typed, Renumbered
<1> QED BY <1>1, Invariance, PTL

(* get_topol_order never repeats a cell and never has one before a cell it  *)
(* refers to, whatever numbering a gene chose.                              *)
THEOREM KahnOrders == Spec => []ChildrenFirst
<1>1. IInv => ChildrenFirst
  <2> SUFFICES ASSUME IInv PROVE ChildrenFirst
    OBVIOUS
  <2> DEFINE order == topol \o queue
             n == Len(topol)
             q == Len(queue)
  <2>1. Typed /\ Distinct /\ RefsBefore
    BY DEF IInv
  <2>2. topol \in Seq(Idx) /\ queue \in Seq(Idx) /\ n \in Nat /\ q \in Nat
    BY <2>1 DEF Typed
  <2>3. /\ DOMAIN order = 1 .. n + q
        /\ \A m \in 1 .. n + q : order[m] = IF m <= n THEN topol[m] ELSE queue[m - n]
    BY <2>2, ConcatProperties
  <2>4. \A m \in 1 .. n + q : \/ m \in 1 .. n /\ order[m] = topol[m]
                              \/ m > n /\ m - n \in 1 .. q /\ order[m] = queue[m - n]
    BY <2>2, <2>3
  <2> HIDE DEF order, n, q
  <2>5. ASSUME NEW m \in 1 .. n + q, NEW l \in 1 .. n + q, order[m] = order[l] PROVE m = l
    <3>1. CASE m \in 1 .. n /\ l \in 1 .. n
      <4>1. order[m] = topol[m] /\ order[l] = topol[l]
        BY <2>2, <2>4, <3>1
      <4> QED BY <2>1, <2>5, <3>1, <4>1 DEF Distinct, n
    <3>2. CASE m > n /\ l > n
      <4>1. m - n \in 1 .. q /\ l - n \in 1 .. q /\ queue[m - n] = queue[l - n]
        BY <2>2, <2>4, <2>5, <3>2
      <4>2. m - n = l - n
        BY <2>1, <4>1 DEF Distinct, q
      <4> QED BY <2>2, <4>2
    <3>3. CASE m \in 1 .. n /\ l > n
      <4>1. l - n \in 1 .. q /\ order[l] = queue[l - n] /\ order[m] = topol[m]
        BY <2>2, <2>4, <3>3
      <4> QED BY <2>1, <2>5, <3>3, <4>1 DEF Distinct, n, q
    <3>4. CASE m > n /\ l \in 1 .. n
      <4>1. m - n \in 1 .. q /\ order[m] = queue[m - n] /\ order[l] = topol[l]
        BY <2>2, <2>4, <3>4
      <4> QED BY <2>1, <2>5, <3>4, <4>1 DEF Distinct, n, q
    <3> QED BY <2>4, <3>1, <3>2, <3>3, <3>4
  <2>6. ASSUME NEW l \in 1 .. n + q, NEW k \in DOMAIN RefsOf(order[l])
        PROVE  \E m \in 1 .. n : m < l /\ topol[m] = RefsOf(order[l])[k]
    <3>1. CASE l \in 1 .. n /\ order[l] = topol[l]
      <4>1. k \in DOMAIN RefsOf(topol[l])
        BY <2>6, <3>1
      <4>2. \E m \in 1 .. n : m < l /\ topol[m] = RefsOf(topol[l])[k]
        BY <2>1, <3>1, <4>1 DEF RefsBefore, n
      <4> QED BY <3>1, <4>2
    <3>2. CASE l > n /\ l - n \in 1 .. q /\ order[l] = queue[l - n]
      <4>1. k \in DOMAIN RefsOf(queue[l - n])
        BY <2>6, <3>2
      <4>2. PICK m \in 1 .. n : topol[m] = RefsOf(queue[l - n])[k]
        BY <2>1, <3>2, <4>1 DEF RefsBefore, n, q
      <4>3. m < l
        BY <2>2, <3>2
      <4> QED BY <3>2, <4>2, <4>3
    <3> QED BY <2>4, <3>1, <3>2
  <2> QED BY <2>3, <2>5, <2>6 DEF ChildrenFirst, order, n, RefsOf
<1> QED BY <1>1, Invariance, PTL

(* deserialize_cell never refuses a reference: what a cell refers to has    *)
(* been rebuilt when its turn comes.                                        *)
THEOREM NoReferenceRefused == Spec => [][Rebuild => phase' # "error"]_vars
<1>1. IInv /\ [Next]_vars => [Rebuild => phase' # "error"]_vars
  BY StepRebuild
<1> QED BY <1>1, Invariance, PTL DEF Spec

(* No bag comes back changed, whatever gene renumbered it and however wide  *)
(* its references are: the root found at the end, once, is the cell that    *)
(* was given.                                                               *)
THEOREM RootComesBack == Spec => Codec!Init /\ [][Codec!Next]_(Codec!lVars)
<1>1. Init => Codec!Init
  <2> SUFFICES ASSUME Init PROVE Codec!Init
    OBVIOUS
  <2>1. Imported /\ root = NoCell
    BY DEF Init
  <2>2. cellCount \in 1 .. MaxCells
    BY <2>1 DEF Imported
  <2> QED BY <2>1, <2>2, BoundsAssumption DEF Codec!Init
<1>2. IInv /\ [Next]_vars => [Codec!Next]_(Codec!lVars)
  <2> SUFFICES ASSUME IInv, [Next]_vars PROVE [Codec!Next]_(Codec!lVars)
    OBVIOUS
  <2>1. cellCount' = cellCount
    BY DEF Next, vars, bagVars, Permute, WriteHeader, WriteMeta, WriteData, Parse, CountEdge,
           EdgesCounted, Seed, Pop, Release, Released, Ordered, Interval, Rebuild, FindRoot, Stopped
  <2>2. CASE FindRoot
    <3>1. root = NoCell /\ root' = cellCount - 1
      BY <2>2, StepFindRoot DEF IInv, Rebuilt, FindRoot
    <3> QED BY <2>1, <3>1 DEF Codec!Next, Codec!Return
  <2>3. CASE ~FindRoot
    <3>1. root' = root
      BY <2>3 DEF Next, vars, buildVars, Permute, WriteHeader, WriteMeta, WriteData, Parse,
                  CountEdge, EdgesCounted, Seed, Pop, Release, Released, Ordered, Interval,
                  Rebuild, Stopped
    <3> QED BY <2>1, <3>1 DEF Codec!lVars
  <2> QED BY <2>2, <2>3
<1> QED BY <1>1, <1>2, Invariance, PTL DEF Spec

-----------------------------------------------------------------------------
(* What is left to do: the loops still to come, the iterations of the loop  *)
(* that runs, whether the cell taken is still looked at, and the references *)
(* of an iteration.                                                         *)
ToCome(p) ==
  CASE p = "permute" -> 10 [] p = "header" -> 9 [] p = "meta" -> 8 [] p = "data" -> 7
    [] p = "parse" -> 6 [] p = "edges" -> 5 [] p = "seed" -> 4
    [] p \in {"pop", "release"} -> 3 [] p = "intervals" -> 2 [] p = "rebuild" -> 1
    [] OTHER -> 0

RoundsToCome ==
  IF phase \in {"meta", "data", "edges", "seed", "intervals"} THEN cellCount - i
  ELSE IF phase \in {"pop", "release"} THEN cellCount - Len(topol)
  ELSE IF phase = "rebuild" THEN Len(topol) - i
  ELSE 0

RefsToCome ==
  IF phase = "edges" THEN Len(meta[i + 1].refs) - j
  ELSE IF phase = "release" THEN Len(Waiting) - j
  ELSE 0

Rank == <<ToCome(phase), RoundsToCome, IF phase = "release" THEN 1 ELSE 0, RefsToCome>>

(* No cell is taken twice, so no more are taken than there are. *)
LEMMA TakenFit == IInv => Len(topol) \in Nat /\ Len(topol) <= cellCount
<1> SUFFICES ASSUME IInv PROVE Len(topol) \in Nat /\ Len(topol) <= cellCount
  OBVIOUS
<1>1. topol \in Seq(Idx) /\ Distinct /\ cellCount \in Nat /\ cellCount >= 1
  BY Bag DEF IInv, Typed
<1>2. PICK n \in Nat : n = Len(topol)
  BY <1>1
<1>3. topol \in Injection(1 .. n, Idx)
  <2>1. topol \in [1 .. n -> Idx]
    BY <1>1, <1>2
  <2>2. \A m, p \in 1 .. n : topol[m] = topol[p] => m = p
    BY <1>1, <1>2 DEF Distinct
  <2> QED BY <2>1, <2>2 DEF Injection, IsInjective
<1>4. IsFiniteSet(Idx) /\ Cardinality(Idx) = cellCount
  BY <1>1, FS_Interval DEF Idx
<1>5. Cardinality(1 .. n) = n
  <2>1. Cardinality(1 .. n) = IF 1 > n THEN 0 ELSE n - 1 + 1
    <3>1. 1 \in Int /\ n \in Int
      BY <1>2
    <3> QED BY <3>1, FS_Interval
  <2> QED BY <1>2, <2>1
<1>6. Cardinality(1 .. n) <= Cardinality(Idx)
  BY <1>3, <1>4, FS_Injection
<1> QED BY <1>1, <1>2, <1>4, <1>5, <1>6

LEMMA Ranked == IInv => Rank \in Ranks
<1> SUFFICES ASSUME IInv PROVE Rank \in Ranks
  OBVIOUS
<1>1. /\ Typed /\ Read /\ Loops /\ Kahn /\ Rebuilt /\ cellCount \in Nat /\ i \in Nat /\ j \in Nat
      /\ Len(topol) \in Nat /\ Len(topol) <= cellCount
  BY Bag, TakenFit DEF IInv, Typed
<1>2. ToCome(phase) \in Nat
  BY DEF ToCome
<1>3. RoundsToCome \in Nat
  <2>1. phase \in {"meta", "data", "edges", "seed", "intervals"} => cellCount - i \in Nat
    <3>1. phase \in {"meta", "data", "edges", "seed", "intervals"} => i < cellCount
      BY <1>1 DEF Loops
    <3> QED BY <1>1, <3>1
  <2>2. cellCount - Len(topol) \in Nat
    BY <1>1
  <2>3. phase = "rebuild" => Len(topol) - i \in Nat
    <3>1. phase = "rebuild" => i <= Len(topol)
      BY <1>1 DEF Rebuilt
    <3> QED BY <1>1, <3>1
  <2> QED BY <2>1, <2>2, <2>3 DEF RoundsToCome
<1>4. RefsToCome \in Nat
  <2>1. ASSUME phase = "edges" PROVE Len(meta[i + 1].refs) - j \in Nat
    <3>1. i < cellCount /\ Len(meta) = cellCount /\ j <= Len(meta[i + 1].refs)
      BY <1>1, <2>1 DEF Loops, Late
    <3>2. i + 1 \in 1 .. Len(meta) /\ meta \in Seq(Descriptors)
      BY <1>1, <3>1 DEF Typed
    <3>3. meta[i + 1] \in Descriptors
      BY <3>2
    <3>4. Len(meta[i + 1].refs) \in Nat
      BY <1>1, <3>3, Lists DEF Descriptors
    <3> QED BY <1>1, <3>1, <3>4
  <2>2. ASSUME phase = "release" PROVE Len(Waiting) - j \in Nat
    <3>1. Len(topol) > 0 /\ j <= Len(Waiting) /\ topol \in Seq(Idx)
          /\ revGraph \in [Idx -> Seq(Idx)]
      BY <1>1, <2>2 DEF Kahn, Typed, Read, Filled, Late
    <3>2. Waiting \in Seq(Idx)
      <4>1. topol[Len(topol)] \in Idx
        BY <1>1, <3>1
      <4> QED BY <3>1, <4>1 DEF Waiting
    <3>3. Len(Waiting) \in Nat
      BY <3>2
    <3> QED BY <1>1, <3>1, <3>3
  <2> QED BY <2>1, <2>2 DEF RefsToCome
<1> QED BY <1>2, <1>3, <1>4 DEF Rank, Ranks

(* An iteration that is not the last of its loop leaves one less to come. *)
LEMMA LoopGoesDown ==
  ASSUME NEW p, phase \in {"meta", "data", "edges", "seed", "intervals"},
         cellCount \in Nat, i \in Nat, cellCount' = cellCount,
         Advance(cellCount, p), ToCome(p) < ToCome(phase)
  PROVE  Below(Rank', Rank)
<1>1. CASE phase' = phase /\ i' = i + 1
  <2>1. ToCome(phase') = ToCome(phase)
    BY <1>1
  <2>2. RoundsToCome' = cellCount - (i + 1) /\ RoundsToCome = cellCount - i
    BY <1>1 DEF RoundsToCome
  <2>3. RoundsToCome' < RoundsToCome
    BY <2>2
  <2> QED BY <2>1, <2>3 DEF Rank, Below
<1>2. CASE phase' = p
  BY <1>2 DEF Rank, Below
<1> QED BY <1>1, <1>2 DEF Advance, Goto

(* Every step leaves less to do. *)
LEMMA GoesDown == IInv /\ [Next]_vars => [Below(Rank', Rank)]_vars
<1> SUFFICES ASSUME IInv, Next, ~Stopped PROVE Below(Rank', Rank)
  BY DEF Stopped
<1>0. /\ cellCount \in Nat /\ i \in Nat /\ j \in Nat /\ Len(topol) \in Nat /\ topol \in Seq(Idx)
      /\ phase \in Late => count = cellCount
  BY Bag, TakenFit DEF IInv, Typed, Read, Filled
<1>1. CASE Permute
  BY <1>1 DEF Permute, Goto, Rank, Below, ToCome
<1>2. CASE WriteHeader
  <2>1. phase = "header" /\ (phase' = "error" \/ phase' = "meta")
    BY <1>2 DEF WriteHeader, Goto
  <2> QED BY <2>1 DEF Rank, Below, ToCome
<1>3. CASE WriteMeta
  <2>1. phase = "meta" /\ Advance(cellCount, "data") /\ cellCount' = cellCount
    BY <1>3 DEF WriteMeta, bagVars
  <2> QED BY <1>0, <2>1, LoopGoesDown DEF ToCome
<1>4. CASE WriteData
  <2>1. phase = "data" /\ Advance(cellCount, "parse") /\ cellCount' = cellCount
    BY <1>4 DEF WriteData, bagVars
  <2> QED BY <1>0, <2>1, LoopGoesDown DEF ToCome
<1>5. CASE Parse
  <2>1. phase = "parse" /\ (phase' = "error" \/ phase' = "edges")
    BY <1>5 DEF Parse, Goto
  <2> QED BY <2>1 DEF Rank, Below, ToCome
<1>6. CASE CountEdge
  <2>1. /\ phase = "edges" /\ phase' = phase /\ i' = i /\ j' = j + 1
        /\ meta' = meta /\ cellCount' = cellCount /\ j < Len(meta[i + 1].refs)
    BY <1>6 DEF CountEdge, bagVars, writeVars
  <2>2. Rank \in Ranks
    BY Ranked
  <2>3. RefsToCome = Len(meta[i + 1].refs) - j /\ RefsToCome' = Len(meta[i + 1].refs) - (j + 1)
    BY <2>1 DEF RefsToCome
  <2>4. Len(meta[i + 1].refs) \in Int
    <3>1. i < cellCount /\ Len(meta) = cellCount /\ meta \in Seq(Descriptors)
      BY <2>1 DEF IInv, Loops, Late, Typed
    <3>2. meta[i + 1] \in Descriptors
      BY <1>0, <3>1
    <3> QED BY <1>0, <3>2, Lists DEF Descriptors
  <2>5. RefsToCome' < RefsToCome
    BY <1>0, <2>3, <2>4
  <2> QED BY <2>1, <2>5 DEF Rank, Below, ToCome, RoundsToCome
<1>7. CASE EdgesCounted
  <2>1. phase = "edges" /\ Advance(count, "seed") /\ cellCount' = cellCount
    BY <1>7 DEF EdgesCounted, bagVars
  <2>2. count = cellCount
    BY <1>0, <2>1 DEF Late
  <2> QED BY <1>0, <2>1, <2>2, LoopGoesDown DEF ToCome
<1>8. CASE Seed
  <2>1. phase = "seed" /\ Advance(count, "pop") /\ cellCount' = cellCount
    BY <1>8 DEF Seed, bagVars
  <2>2. count = cellCount
    BY <1>0, <2>1 DEF Late
  <2> QED BY <1>0, <2>1, <2>2, LoopGoesDown DEF ToCome
<1>9. CASE Pop
  <2>1. phase = "pop" /\ phase' = "release" /\ cellCount' = cellCount
        /\ topol' = Append(topol, Head(queue)) /\ queue # <<>> /\ queue \in Seq(Idx)
    BY <1>9 DEF Pop, Goto, bagVars, IInv, Typed
  <2>2. Len(topol') = Len(topol) + 1
    BY <1>0, <2>1
  <2>3. RoundsToCome' = cellCount - (Len(topol) + 1) /\ RoundsToCome = cellCount - Len(topol)
    BY <2>1, <2>2 DEF RoundsToCome
  <2>4. RoundsToCome' < RoundsToCome
    BY <1>0, <2>3
  <2> QED BY <2>1, <2>4 DEF Rank, Below, ToCome
<1>10. CASE Release
  <2>1. /\ phase = "release" /\ phase' = phase /\ j' = j + 1 /\ cellCount' = cellCount
        /\ topol' = topol /\ revGraph' = revGraph
    BY <1>10 DEF Release, bagVars
  <2>2. Waiting' = Waiting
    BY <2>1 DEF Waiting
  <2>3. RefsToCome = Len(Waiting) - j /\ RefsToCome' = Len(Waiting) - (j + 1)
    BY <2>1, <2>2 DEF RefsToCome
  <2>4. Len(Waiting) \in Int
    <3>1. Len(topol) > 0 /\ revGraph \in [Idx -> Seq(Idx)]
      BY <2>1 DEF IInv, Kahn, Read, Filled, Late
    <3>2. topol[Len(topol)] \in Idx
      BY <1>0, <3>1
    <3> QED BY <3>1, <3>2 DEF Waiting
  <2>5. RefsToCome' < RefsToCome
    BY <1>0, <2>3, <2>4
  <2> QED BY <2>1, <2>5 DEF Rank, Below, ToCome, RoundsToCome
<1>11. CASE Released
  <2>1. phase = "release" /\ phase' = "pop" /\ cellCount' = cellCount /\ topol' = topol
    BY <1>11 DEF Released, Goto, bagVars, kahnVars
  <2> QED BY <2>1 DEF Rank, Below, ToCome, RoundsToCome
<1>12. CASE Ordered
  <2>1. phase = "pop" /\ phase' = "intervals"
    BY <1>12 DEF Ordered, Goto
  <2> QED BY <2>1 DEF Rank, Below, ToCome
<1>13. CASE Interval
  <2>1. phase = "intervals" /\ Advance(count, "rebuild") /\ cellCount' = cellCount
    BY <1>13 DEF Interval, bagVars
  <2>2. count = cellCount
    BY <1>0, <2>1 DEF Late
  <2> QED BY <1>0, <2>1, <2>2, LoopGoesDown DEF ToCome
<1>14. CASE Rebuild
  <2>1. phase = "rebuild" /\ topol' = topol
        /\ (phase' = "error" \/ (phase' = phase /\ i' = i + 1))
    BY <1>14 DEF Rebuild, Goto, kahnVars
  <2>2. CASE phase' = "error"
    BY <2>1, <2>2 DEF Rank, Below, ToCome
  <2>3. CASE phase' = phase /\ i' = i + 1
    <3>1. RoundsToCome' = Len(topol) - (i + 1) /\ RoundsToCome = Len(topol) - i
      BY <2>1, <2>3 DEF RoundsToCome
    <3>2. RoundsToCome' < RoundsToCome
      BY <1>0, <3>1
    <3> QED BY <2>1, <2>3, <3>2 DEF Rank, Below, ToCome
  <2> QED BY <2>1, <2>2, <2>3
<1>15. CASE FindRoot
  <2>1. phase = "rebuild" /\ phase' = "done"
    BY <1>15 DEF FindRoot, Goto
  <2> QED BY <2>1 DEF Rank, Below, ToCome
<1> QED BY <1>1, <1>2, <1>3, <1>4, <1>5, <1>6, <1>7, <1>8, <1>9, <1>10, <1>11, <1>12,
           <1>13, <1>14, <1>15 DEF Next

(* The writer and the reader end after finitely many steps, whatever the    *)
(* bag and the gene: the loop of get_topol_order that runs until its queue  *)
(* is empty takes no cell twice.                                            *)
THEOREM BagDescends == Spec => [](Rank \in Ranks) /\ [][Below(Rank', Rank)]_vars
  BY InitIInv, NextIInv, Ranked, GoesDown, PTL DEF Spec
=============================================================================
