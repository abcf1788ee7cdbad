---------------------------- MODULE BagOfCells ----------------------------
(***************************************************************************)
(* A bag of cells on its way through a compressor and back, as             *)
(* solution_evolve_lzma_separate_header.cpp writes and reads it: the cells *)
(* of a block are renumbered by a gene, written as a section of            *)
(* descriptors and references followed by a section of payload bytes, and  *)
(* rebuilt in a topological order found by Kahn's algorithm, because the   *)
(* renumbering no longer writes parents before children.                   *)
(*                                                                         *)
(* One action per iteration of each loop.  A cell is named by its index in *)
(* the bag as imported.  Cells are content-addressed: two cells with the   *)
(* same payload and references are one cell.                               *)
(***************************************************************************)
EXTENDS Integers, Sequences, Digits

CONSTANTS
  MaxCells,     \* most cells in a bag
  MaxRefs,      \* most references of a cell (4)
  Payloads,     \* Payloads[c]: what cell c may hold, as sequences of bytes
  Base,         \* number of values of a byte (256)
  MaxData       \* most bytes of data a header may announce (1 TiB)

ASSUME BoundsAssumption ==
  /\ MaxCells \in Nat \ {0} /\ MaxRefs \in Nat \ {0} /\ Base \in Nat \ {0, 1}
  /\ MaxData \in Nat
  /\ \A c \in 0 .. MaxCells - 1 : Payloads[c] \subseteq Seq(0 .. Base - 1)

VARIABLES
  cellCount, refs, payload,  \* the imported bag; the root is its last cell
  phase, i, j,               \* the loop being run and its counters
  list, rootIdx,             \* cell_list_ and roots[0].idx
  refSize, offSize, dataSize,\* info.ref_byte_size, offset_byte_size, data_size
  header, meta, data,        \* the file: its header and its two sections
  position,                  \* bytes written after the header
  count,                     \* info.cell_count as the reader parsed it
  start,                     \* cell_data_interval[idx].first, offset so far
  revGraph, inDegree, queue, \* get_topol_order
  topol, idxMap, cells,      \* topol_order, idx_map and the rebuilt cell_list
  root                       \* the root cell returned, NoCell before that

bagVars   == <<cellCount, refs, payload>>
writeVars == <<list, rootIdx, refSize, offSize, dataSize, header, meta, data, position>>
kahnVars  == <<revGraph, inDegree, queue, topol>>
buildVars == <<start, idxMap, cells, root>>
vars == <<bagVars, phase, i, j, writeVars, count, kahnVars, buildVars>>

NoCell  == -1          \* no cell, and the -1 of idx_map
Foreign == MaxCells    \* a rebuilt cell that is none of the bag's
Idx     == 0 .. cellCount - 1

-----------------------------------------------------------------------------
(* The bags import_cells can produce: children before parents, every cell  *)
(* reached from the root, no two cells alike.                              *)

RefLists(n) == UNION {[1 .. k -> 0 .. n - 1] : k \in 0 .. MaxRefs}

Imported ==
  /\ cellCount \in 1 .. MaxCells
  /\ refs \in {f \in [Idx -> RefLists(cellCount)] :
                 /\ \A c \in Idx : \A k \in DOMAIN f[c] : f[c][k] < c
                 /\ \A c \in Idx \ {cellCount - 1} :
                      \E p \in Idx : \E k \in DOMAIN f[p] : f[p][k] = c}
  /\ payload \in {f \in [Idx -> UNION {Payloads[c] : c \in Idx}] :
                    /\ \A c \in Idx : f[c] \in Payloads[c]
                    /\ \A c, d \in Idx : (f[c] = f[d] /\ refs[c] = refs[d]) => c = d}

Permutations(S) == {f \in [S -> S] : \A x \in S : \E y \in S : f[y] = x}

Init ==
  /\ Imported
  /\ phase = "permute" /\ i = 0 /\ j = 0
  /\ list = <<>> /\ rootIdx = cellCount - 1
  /\ refSize = 0 /\ offSize = 0 /\ dataSize = 0
  /\ header = <<>> /\ meta = <<>> /\ data = <<>> /\ position = 0 /\ count = 0
  /\ start = <<0>>
  /\ revGraph = <<>> /\ inDegree = <<>> /\ queue = <<>> /\ topol = <<>>
  /\ idxMap = <<>> /\ cells = <<>> /\ root = NoCell

(* The loop that runs next starts with its counters at 0; an iteration of a *)
(* loop over n cells is followed by the next one or by that loop.           *)
Goto(p) == phase' = p /\ i' = 0 /\ j' = 0
Advance(n, p) ==
  IF i + 1 < n THEN i' = i + 1 /\ j' = 0 /\ UNCHANGED phase ELSE Goto(p)

-----------------------------------------------------------------------------
(* The writer.                                                              *)

(* permute: cell c moves to place perm[c], and references move along. *)
Permute ==
  /\ phase = "permute"
  /\ \E perm \in Permutations(Idx) :
       /\ list' = [p \in Idx |->
            LET c == CHOOSE x \in Idx : perm[x] = p
            IN  [cell |-> c,
                 refs |-> [k \in DOMAIN refs[c] |-> perm[refs[c][k]]]]]
       /\ rootIdx' = perm[rootIdx]
  /\ Goto("header")
  /\ UNCHANGED <<bagVars, refSize, offSize, dataSize, header, meta, data,
                 position, count, kahnVars, buildVars>>

(* A mutant: a power of Base is taken to fit one byte less. *)
ByteWidthTight(v) ==
  CHOOSE w \in 0 .. v : v <= PowerOf(Base, w) /\ \A u \in 0 .. w - 1 : v > PowerOf(Base, u)

(* The number of bytes that hold v, and what is left of v in w bytes. *)
ByteWidth(v) ==
  CHOOSE w \in 0 .. v : v < PowerOf(Base, w) /\ \A u \in 0 .. w - 1 : v >= PowerOf(Base, u)
Store(v, w) == v % PowerOf(Base, w)

DataBytes == Sum([n \in 1 .. cellCount |-> 2 + Len(payload[n - 1])])
IntRefs   == Sum([n \in 1 .. cellCount |-> Len(refs[n - 1])])
SectionSize(width) == DataBytes + IntRefs * width

(* Cells are written last to first. *)
Place(idx) == cellCount - 1 - idx

(* estimate_serialized_size, compute_sizes, and the header. *)
WriteHeader ==
  /\ phase = "header"
  /\ LET rs   == ByteWidth(cellCount)
         size == SectionSize(rs)
         os   == ByteWidth(size)
     IN  /\ refSize' = rs /\ offSize' = os /\ dataSize' = size
         /\ header' = [cells |-> Store(cellCount, rs), size |-> Store(size, os),
                       root |-> Store(Place(rootIdx), rs)]
         /\ Goto(IF rs > 4 \/ os > 8 THEN "error" ELSE "meta")
  /\ UNCHANGED <<bagVars, list, rootIdx, meta, data, position, count, kahnVars,
                 buildVars>>

(* Place is one too high when references are written. *)
WriteMetaOffByOne ==
  /\ phase = "meta"
  /\ LET from == list[Place(i)]
     IN  /\ meta' = Append(meta,
              [len  |-> Len(payload[from.cell]),
               refs |-> [k \in DOMAIN from.refs |-> cellCount - from.refs[k]]])
         /\ position' = position + 2 + Len(from.refs) * refSize
  /\ Advance(cellCount, "data")
  /\ UNCHANGED <<bagVars, list, rootIdx, refSize, offSize, dataSize, header, data,
                 count, kahnVars, buildVars>>

(* serialize_to_impl_only_meta, one cell. *)
WriteMeta ==
  /\ phase = "meta"
  /\ LET from == list[Place(i)]
     IN  /\ meta' = Append(meta,
              [len  |-> Len(payload[from.cell]),
               refs |-> [k \in DOMAIN from.refs |-> Store(Place(from.refs[k]), refSize)]])
         /\ position' = position + 2 + Len(from.refs) * refSize
  /\ Advance(cellCount, "data")
  /\ UNCHANGED <<bagVars, list, rootIdx, refSize, offSize, dataSize, header, data,
                 count, kahnVars, buildVars>>

(* serialize_to_impl_only_data, one cell. *)
WriteData ==
  /\ phase = "data"
  /\ LET bytes == payload[list[Place(i)].cell]
     IN  /\ data' = data \o bytes
         /\ position' = position + Len(bytes)
  /\ Advance(cellCount, "parse")
  /\ UNCHANGED <<bagVars, list, rootIdx, refSize, offSize, dataSize, header, meta,
                 count, kahnVars, buildVars>>

-----------------------------------------------------------------------------
(* The reader.                                                              *)

(* serialize_to_slice refuses a size that was not estimated right, and the  *)
(* reader a header it finds implausible or descriptors that do not end      *)
(* where the payload begins.                                                *)
Plausible ==
  /\ position = dataSize
  /\ header.cells > 0
  /\ header.size <= header.cells * 1024
  /\ header.size <= MaxData
  /\ header.size >= header.cells * (2 + refSize) - refSize
  /\ header.size <= position
  /\ header.root < header.cells
  /\ header.cells = Len(meta)

Parse ==
  /\ phase = "parse"
  /\ count' = header.cells
  /\ Goto(IF Plausible THEN "edges" ELSE "error")
  /\ revGraph' = [c \in 0 .. header.cells - 1 |-> <<>>]
  /\ inDegree' = [c \in 0 .. header.cells - 1 |-> 0]
  /\ idxMap'   = [c \in 0 .. header.cells - 1 |-> NoCell]
  /\ UNCHANGED <<bagVars, writeVars, queue, topol, start, cells, root>>

(* get_topol_order, its first loop: reference j of cell i. *)
CountEdge ==
  /\ phase = "edges" /\ j < Len(meta[i + 1].refs)
  /\ revGraph' = [revGraph EXCEPT ![meta[i + 1].refs[j + 1]] = Append(@, i)]
  /\ inDegree' = [inDegree EXCEPT ![i] = @ + 1]
  /\ j' = j + 1
  /\ UNCHANGED <<bagVars, phase, i, writeVars, count, queue, topol, buildVars>>

EdgesCounted ==
  /\ phase = "edges" /\ j = Len(meta[i + 1].refs)
  /\ Advance(count, "seed")
  /\ UNCHANGED <<bagVars, writeVars, count, kahnVars, buildVars>>

(* Its second loop: cells without references are ready. *)
Seed ==
  /\ phase = "seed"
  /\ queue' = IF inDegree[i] = 0 THEN Append(queue, i) ELSE queue
  /\ Advance(count, "pop")
  /\ UNCHANGED <<bagVars, writeVars, count, revGraph, inDegree, topol, buildVars>>

(* Its third loop: take the first ready cell, release the cells that refer  *)
(* to it.                                                                   *)
Pop ==
  /\ phase = "pop" /\ queue # <<>>
  /\ topol' = Append(topol, Head(queue))
  /\ queue' = Tail(queue)
  /\ Goto("release")
  /\ UNCHANGED <<bagVars, writeVars, count, revGraph, inDegree, buildVars>>

Waiting == revGraph[topol[Len(topol)]]   \* the cells that refer to the one taken

(* A cell is ready with the first of its references. *)
ReleaseEarly ==
  /\ phase = "release" /\ j < Len(Waiting)
  /\ LET c == Waiting[j + 1]
     IN  /\ inDegree' = [inDegree EXCEPT ![c] = @ - 1]
         /\ queue' = Append(queue, c)
  /\ j' = j + 1
  /\ UNCHANGED <<bagVars, phase, i, writeVars, count, revGraph, topol, buildVars>>

Release ==
  /\ phase = "release" /\ j < Len(Waiting)
  /\ LET c == Waiting[j + 1]
     IN  /\ inDegree' = [inDegree EXCEPT ![c] = @ - 1]
         /\ queue' = IF inDegree[c] = 1 THEN Append(queue, c) ELSE queue
  /\ j' = j + 1
  /\ UNCHANGED <<bagVars, phase, i, writeVars, count, revGraph, topol, buildVars>>

Released ==
  /\ phase = "release" /\ j = Len(Waiting)
  /\ Goto("pop")
  /\ UNCHANGED <<bagVars, writeVars, count, kahnVars, buildVars>>

Ordered ==
  /\ phase = "pop" /\ queue = <<>>
  /\ Goto("intervals")
  /\ UNCHANGED <<bagVars, writeVars, count, kahnVars, buildVars>>

(* Where the payload of each cell starts. *)
Interval ==
  /\ phase = "intervals"
  /\ start' = Append(start, start[i + 1] + meta[i + 1].len)
  /\ Advance(count, "rebuild")
  /\ UNCHANGED <<bagVars, writeVars, count, kahnVars, idxMap, cells, root>>

(* CellBuilder: the cell with this payload and these references. *)
Finalize(bytes, children) ==
  LET same == {c \in Idx : payload[c] = bytes /\ refs[c] = children}
  IN  IF same = {} THEN Foreign ELSE CHOOSE c \in same : TRUE

Bytes(idx) == SubSeq(data, start[idx + 1] + 1, start[idx + 1] + meta[idx + 1].len)

(* deserialize_cell, for the next cell in topological order: a reference to *)
(* a cell that is not there yet is refused.                                 *)
Rebuild ==
  /\ phase = "rebuild" /\ i < Len(topol)
  /\ LET idx   == topol[i + 1]
         to    == meta[idx + 1].refs
         child == [k \in DOMAIN to |-> cells[idxMap[to[k]] + 1]]
     IN  IF \E k \in DOMAIN to : idxMap[to[k]] = NoCell
         THEN Goto("error") /\ UNCHANGED <<idxMap, cells>>
         ELSE /\ idxMap' = [idxMap EXCEPT ![idx] = Len(cells)]
              /\ cells' = Append(cells, Finalize(Bytes(idx), child))
              /\ i' = i + 1 /\ UNCHANGED <<phase, j>>
  /\ UNCHANGED <<bagVars, writeVars, count, kahnVars, start, root>>

FindRoot ==
  /\ phase = "rebuild" /\ i = Len(topol)
  /\ root' = IF idxMap[header.root] = NoCell THEN Foreign
             ELSE cells[idxMap[header.root] + 1]
  /\ Goto("done")
  /\ UNCHANGED <<bagVars, writeVars, count, kahnVars, start, idxMap, cells>>

Stopped == phase \in {"done", "error"} /\ UNCHANGED vars

Next ==
  \/ Permute \/ WriteHeader \/ WriteMeta \/ WriteData
  \/ Parse \/ CountEdge \/ EdgesCounted \/ Seed
  \/ Pop \/ Release \/ Released \/ Ordered
  \/ Interval \/ Rebuild \/ FindRoot \/ Stopped

Spec == Init /\ [][Next]_vars /\ WF_vars(Next)

-----------------------------------------------------------------------------
(* Properties.                                                              *)

Phases == {"permute", "header", "meta", "data", "parse", "edges", "seed", "pop",
           "release", "intervals", "rebuild", "done", "error"}
Item     == 0 .. count - 1        \* the cells of the file
Sorted   == phase \in {"intervals", "rebuild", "done"}
Elems(s) == {s[k] : k \in DOMAIN s}

(* Every variable keeps its type; a reference in the file is the index of a *)
(* cell of the file.                                                        *)
TypeOK ==
  /\ phase \in Phases /\ i \in Nat /\ j \in Nat
  /\ rootIdx \in Idx
  /\ phase # "permute" =>
       list \in [Idx -> [cell : Idx, refs : RefLists(cellCount)]]
  /\ <<refSize, offSize, dataSize, position, count>> \in Nat \X Nat \X Nat \X Nat \X Nat
  /\ \A m \in DOMAIN meta :
       /\ meta[m].len \in Nat
       /\ \A k \in DOMAIN meta[m].refs : meta[m].refs[k] \in Idx
  /\ \A r \in DOMAIN revGraph : Elems(revGraph[r]) \subseteq Item
  /\ \A c \in DOMAIN inDegree : inDegree[c] \in Nat
  /\ Elems(queue) \subseteq Item /\ Elems(topol) \subseteq Item
  /\ \A c \in DOMAIN idxMap : idxMap[c] \in Item \union {NoCell}
  /\ Elems(cells) \subseteq Idx \union {Foreign}
  /\ root \in Idx \union {Foreign, NoCell}

(* The order Kahn's algorithm is building never repeats a cell and never    *)
(* has one before a cell it refers to, whatever numbering a gene chose; the *)
(* cells in the queue may follow in any order.  deserialize_cell relies on  *)
(* it: it refuses a reference to a cell that has no place in idx_map.       *)
ChildrenFirst ==
  LET order == topol \o queue
  IN  /\ \A m, l \in DOMAIN order : order[m] = order[l] => m = l
      /\ \A l \in DOMAIN order : \A k \in DOMAIN meta[order[l] + 1].refs :
           \E m \in 1 .. Len(topol) : m < l /\ topol[m] = meta[order[l] + 1].refs[k]

(* Compression and decompression give the same root cell back, for every    *)
(* bag, every gene and every width the references take.                     *)
Codec == INSTANCE Lossless WITH
  Values <- 0 .. MaxCells - 1, Nothing <- NoCell, Refused <- NoCell,
  given <- cellCount - 1, returned <- root, short <- FALSE
RoundTrip == Codec!Spec

(* The assertion k > i of serialize_to_impl_only_meta: a cell refers to     *)
(* cells written after it.                                                  *)
RefsPointAhead ==
  \A m \in DOMAIN meta : \A k \in DOMAIN meta[m].refs : meta[m].refs[k] > m - 1
=============================================================================
