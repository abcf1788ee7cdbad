# Verification of ton-compress

ton-compress is a family of command-line programs that compress one block of
the TON blockchain.  Each program reads `compress` or `decompress` and one
base64 line from standard input and writes one base64 line; `tests/run_tests.py`
runs it in both directions, requires exit code 0 within 2 seconds, and compares
what comes back with the block that was given.  The programs share no process,
file or message: they share code, copied from one `.cpp` to the next.  What has
to be right is therefore what the two directions must agree on, what the search
inside `compress` may answer when its time runs out, and the locks of the one
multi-threaded part, bit shuffling.

The modules here are translated from the C and C++ sources.  `PROJECT.json`
says which lines each definition stands for.

## Inventory

| Component | Where | State | Operations | What makes it correct |
|---|---|---|---|---|
| I/O chain and blocked (un)shuffle | `iochain.c`, `bitshuffle_core.c` 1880-2042 | ring of locked pointers, `next`; per thread its iteration and pointers; error and byte count of the wrapper | `ioc_get_in`, `ioc_set_next_in`, `ioc_get_out`, `ioc_set_next_out`, `bshuf_blocked_wrap_fun` | each region is written once and from the same place; no race, no overtaking on the ring, no deadlock; success is reported only when everything was written |
| Bag of cells | `solution_evolve_lzma_separate_header.cpp` 1600-2556, and the same classes in the other solutions | cells and their numbers, the three parts of the file, Kahn's queue and degrees, rebuilt cells | `permute`, `estimate_serialized_size`, `serialize_to_impl_only_meta/_data`, `parse_serialized_header`, `get_topol_order`, `deserialize_cell` | whatever numbers a gene gives the cells, the same root comes back; a cell is rebuilt after its references, from its own payload |
| Genetic search | `compress` of `solution_evolve.cpp`, `solution_evolve_tiny_lzma.cpp` and what derives from it | population, children, partial sums, best answer, clock | `evalGene`, the draw of parents, breeding, replacing the population | the answer is the shortest block seen; parents are drawn by measured lengths and from the population; it ends in time |
| Gene and crossover | `solution_evolve.cpp` 40-162 | permutation being made, PMX's `to`, used numbers | `Gene()`, `mutate`, `merge`, `PMX`, `OX1` | a gene is always a permutation; no index leaves its vector; the walk of PMX ends |
| Range coder | `solution_tiny_lzma.cpp` 47-151, 864-953 | low, range, byte and count kept back, output; code, range; probabilities | encode and decode of a bit, normalise, carry, flush | the bits come back; a carry reaches every byte kept back; a lack of room is noticed |
| LZMA packets | `solution_tiny_lzma.cpp` 154-640, 976-1138 | state, four repeated distances, match put off; the same on the other side | match search, choice of a packet, codes of lengths and distances; decoding, copying | both sides change state in the same way; the text is put back, nothing is refused |
| Arithmetic coder with a predictor | `ann/arithcoder`, `ann/model_arith.cpp` | low, high, code, bits owed; context of the network | `update`, `shift`, `underflow`, `finish`, `read` | the ranges `ArithmeticCoder.hpp` documents; no assertion fails; the bits come back |
| Bit transposes | `bitshuffle_core.c` 90-1864 | the caller's buffers, the driver's temporary and, in some builds, one of a worker | `bshuf_trans_bit_elem`, `bshuf_untrans_bit_elem` and the workers they call, in six builds | unshuffle undoes shuffle; all builds write the same bytes; wide loop and remainder meet; nothing is kept when a `malloc` fails |
| Pipelines | `main`, `compress` and `decompress` of every solution | none between calls; within `compress` the best element size, its padding and its stream | pad, shuffle, compress, header; the reverse | the reverse undoes every step, also when the result of a step is ignored |

Vendored code (`libzpaq.cpp`, `zpaq.cpp`, the LZMA SDK in
`solution_lzma_long.cpp`, everything under `include/`), the Python training
scripts and the numbered examples are not part of what the project writes.

**Interaction** is by calls.  A pipeline hands a block to the bag of cells; the
search hands the bag a gene made by a crossover and gets the length of the
compressed block; the compressor is the packet coder, which hands symbols to
the range coder.  `bshuf_blocked_wrap_fun` hands the I/O chain to a team of
OpenMP threads, the only shared memory there is.  `compressBits` asks a network
before each bit.

**What is hard here**: the interleavings of the shuffling threads on a ring with
fewer slots than blocks; a clock that may pass a limit between any two
statements of the search; carries and owed bits that stay pending for any number
of bytes; a match that is decided now and coded two packets later; coders whose
two sides must change state alike without exchanging it; errors of one step of
several; sizes at the boundary of a field.  `PROJECT.json` lists these under
`hazards`, each at its line, with the properties about it.

## Modules

| Module | Models | Proofs |
|---|---|---|
| `BlockMap` | what blocked shuffling promises (abstract) | |
| `IOChain` | the chain and the wrapper; refines `BlockMap` | `IOChainProofs` |
| `Lossless` | what compress and decompress promise (abstract) | |
| `BagOfCells` | renumbering, writing and rebuilding a bag; refines `Lossless` | `BagOfCellsProofs` |
| `Evolve` | the search and its clock | `SearchProofs` |
| `Crossover` | how a gene is made | `SearchProofs` |
| `RangeCoder` | the LZMA range coder; refines `Lossless` | `RangeCoderProofs` |
| `ArithCoder` | the arithmetic coder; refines `Lossless` | `ArithCoderProofs` |
| `LzmaPackets` | the packet coder; refines `Lossless` | `LzmaPacketsProofs` |
| `BitLanes`, `BitWorkers` | words and registers; the workers of a transpose | `BitshuffleProofs` |
| `BitTranspose` | the transpose of a block and its inverse, in every build | `BitshuffleProofs` |
| `Pipeline` | `compress` and `decompress` of five programs; refines `Lossless` | `BitshuffleProofs` |
| `Digits` | numbers written as sequences of digits, what bytes or bits say as a number (`BagOfCells`, `RangeCoder`, `ArithCoder`) | |
| `DivModFacts` | | facts the proofs share: quotients and remainders, numbers written by digits, counters that go down |

`MC*.tla` and `MC*.cfg` give the constants their values.  Five components keep
one abstract promise: `Lossless` says that the value given comes back, once, and
that it does come back, or is refused where the component has an excuse (an
output that may be too short, memory that may run out).

The modules meet where one piece of code calls the other.  `Pipeline` takes from
`LzmaPackets` and `RangeCoder` that a whole stream is decoded, from `BitTranspose`
and `IOChain` that a shuffle is undone or returns an error.  `Evolve` takes from
`Crossover` that a child is a permutation and from `BagOfCells` that any
permutation will do.  `IOChain` takes from `BitTranspose` that the work on a block
stays within it.

### IOChain

One action per lock operation and per access to the chain, in the order of
`iochain.c` under `_OPENMP`; `pc[t]` is the statement thread `t` is at, `iter[t]`
its `this_iter`.  A lock is its owner.  `StartBlock` is the parallel loop handing
out an index to a thread, `StartLastBlock` and `StartLeftover` the serial part,
`WorkDone` and `WorkFailed` the work on a block, which is an opaque copy of a
region that may fail (a `malloc` in the transposes may).  The error returns are
the code's: at once for a bad block size, after the loop for a failed block.

### BagOfCells

One action per iteration of each loop: `Permute` takes any permutation, then
`WriteHeader` (the estimate included), `WriteMeta` a cell at a time, `WriteData`,
`Parse` with the checks of the header, `CountEdge`, `Seed`, `Pop`, `Release`
(Kahn's algorithm), `Interval`, `Rebuild`, `FindRoot`.  A bag is what
`import_cells` can give: children before parents, one root, no two cells alike.
A cell that is rebuilt is looked up by payload and references, so a wrong
payload or child gives the cell `Foreign`.  Only mode 0 with one root exists: it
is the only one the programs pass.

### Evolve and Crossover

`now` runs on its own, one `Tick` at a time, so the clock may pass a limit
between any two statements.  A gene is a permutation and an unfitness that may be
stale; `Length` is the length of its compressed block.  `Marks` tells the two
variants apart: `solution_evolve.cpp` leaves a gene it has no time for as it is,
`solution_evolve_tiny_lzma.cpp` marks it with -1, at a limit of its own.
`Breed` draws parents as `get_random_by_unfittness` does: signed partial sums, an
unsigned remainder, `lower_bound`; a draw past the end, or a total of 0, is the
state `undefined`.  What a child's permutation is, is any one here; `Crossover`
runs the loops that make it, of which those whose order matters take a step per
iteration (an index out of a vector would violate `IndicesOK`).  `SearchProofs` proves
about both modules at once, and they share no name: those of `Crossover`
are `MakeInit`, `MakeNext`, `MakeSpec` and `at`.

### RangeCoder

A script of calls (`Int`, `MB`, `Fixed`, each of `Width` bits) is encoded bit by
bit, flushed by the six normalisations of `rangeEncodeTerminate`, and decoded.
`Base` stands for the 256 values of a byte; a word has four of them, as in the
code.  `exact` and `trail` are history: the true low end of the interval, and
what an ideal coder, whose low end is a number of any length, has for an interval
and for probabilities before each bit.

### ArithCoder

`write` and `read` take several steps: the interval is narrowed, then each round
of the two loops of `update` is a step.  All arithmetic is done modulo the words
of the code (`Full`, `Long`), so an overflow would show.  The network is any
function from contexts to frequencies, the same on both sides.  Every assertion
leads to `side = "thrown"`.  The stream is padded to bytes, and past its end the
decoder reads zeros.  `exact` and `trail` are history here too: the trail has an
entry for each step of the encoder, with the interval after it.

### LzmaPackets

A packet is a sequence of symbols, each with the table it is coded by;
`RangeCoder` is about how symbols become bytes, and what it needs is that both
sides use the same tables.  The search may come up with any match that is there
(`Offers`), which covers the hash table, the chains and the scores; the decision
to take it now, one byte later or two bytes later (`TakeNow`, `DeferByOne`,
`DeferByTwo`, `PassOver`, `TakeDeferred`) is the code's.  `Decode` reads type,
length and distance with the decoder's own state; `CopyByte` is the loop that
copies, which may read what it has just written.

### BitLanes, BitWorkers and BitTranspose

The workers never look at the data, so a bit is the set of source bits whose XOR
it is and one behaviour stands for every content of a block; memory nobody wrote
holds forms no source bit has.  `BitLanes` has the loads, stores, unpacks and
movemasks, and the masked exchanges of `TRANS_BIT_8X8`; an operator of
`BitWorkers` is a worker: the set of stores `<<address, byte>>` of its loop, or the
sequence of these sets where it has several (a wide loop and a remainder), so that
two loops that store to one byte, though it be the same value, are told from loops
that meet exactly (`DisjointLoops`).  An action of `BitTranspose` is
one call of the driver, with the compile-time dispatch, the order in which `in`,
`out` and the temporaries change places, and every `malloc` failing or not.
Shuffle and unshuffle may be by different builds.  `todo` is the worker to be called
next.  The module shares no name with `Pipeline`, because one module proves about
both: it has `TransInit`, `TransNext`, `TransSpec` and `BuffersOK`.

### Pipeline

A stream is known by what its reader meets: the element size it was shuffled by,
the number of bytes in it, its own length, and whether it is whole.  `TryElemSize`
is an iteration of the search for an element size and `SkipElemSize` its `continue`;
`Assemble` writes the header; `Cut` is what the writer's codec leaves when its
error is ignored and `Decoded` what the reader's leaves; `Wrap` is the header
before `SIZE_MAX` bytes.  The programs differ in who has a limit and who tries
element sizes.

## Runs

| Run | Question | Bounds |
|---|---|---|
| `iochain` | Do the locks give every block its region, without race, overtaking or deadlock, and is the count right when a block fails? | 3 threads, 3 slots; 11 elements: five blocks and leftovers, or two, a short last block and leftovers, or a bad block size |
| `iochain_leak` | Are the locks destroyed when the call returns? (no) | the same |
| `bag` | Does every bag come back under every renumbering? | bags of up to 4 cells with up to 2 references, repeated ones too |
| `bag_ahead` | Does the assertion of the writer about references hold? (no) | the same |
| `evolve` | Does the search of `solution_evolve_tiny_lzma.cpp` keep its best answer, draw by measure and from the population, and end, when its first gene is measured? | 3 permutations, population 2, 3 children, 3 ticks |
| `evolve_late` | Do draws stay in the population when it is not? (no) | population 3, 4 children |
| `crossover` | Is a gene always a permutation, and is it always made? | all parents and kept parts of up to 4 cells, 1 swap |
| `range` | Do all scripts come back, and is a lack of room noticed? | 3 calls of 3 bits, bytes of 2 bits, limits of 2, 8 and 20 bytes |
| `arith` | Do all inputs come back, whatever the network says? | 3 or 6 bits, words of 5 bits, all 256 predictors over 4 contexts |
| `lzma` | Do all texts come back, whatever the search finds? | texts of up to 10 bytes of 2 kinds, 8 of 3, cycles of 5 to 24, one long text for the repeated distances |
| `bits` | Is a shuffled block the same transpose in every build, and does every build restore what any build wrote? | 76 sizes of blocks, six builds |
| `pipeline` | Does the block come back wherever no buffer is too short and no memory runs out? | texts of 3 to 8 bytes, element sizes up to 3, buffers of 8 bytes |

What each of them shows, property by property:

- `iochain`: `PointersInOrder` (iteration *i* gets the offsets of region *i*),
  `NoDataRace`, `NotOvertaken` (what the late unlock in `ioc_set_next_out` is
  for), `BlockedUntilPreviousSets` (the two promises of `iochain.h`),
  `KeepsPromise` (refinement of `BlockMap`), `Returns`.
- `bag`: `TypeOK` (no read of the file or of a table of the reader is out of its
  bounds), `ChildrenFirst` (Kahn's order), `RoundTrip` (refinement of `Lossless`).
- `evolve`: `BestOfAll`, `BredByMeasure` (no gene with the unfitness of its parent
  is drawn from), `Returns`, `DrawsInRange`.
- `crossover`: `IndicesOK`, `MakesPermutation`, `Made` (PMX's walk ends).
- `range`: `CarryArrives` (written bytes, bytes kept back, carry and word are the
  exact low end), `CarryHasRoom` (never a carry into 0xFF), `OneByteIsEnough` (one
  shift restores the range), `Tracks` (bit by bit, the decoder has the place, the
  probabilities and the range of the encoder, and a code that lies in that range),
  `RoundTrip`.
- `arith`: `RangesAsDocumented`, `NothingThrown`, `UnderflowOwed` (bits written,
  bits owed and low are the exact low end), `InStep` (step by step, past the end of
  the stream too, the decoder has the stage, the context and the interval of the
  encoder, and the code the stream says), `RoundTrip`.
- `lzma`: `DeferredHolds` (a match put off still is one where it is coded),
  `InStep` (state, repeated distances, text and tables agree between packets),
  `NeverRefused`, `RoundTrip`.
- `bits`: `Transposed` (bit *r* of element *i* is bit *i* of row *r*, whichever build
  ran), `Restored`, `BuffersOK` (no store is outside its buffer, no two loops of a
  worker store to one byte, no two iterations of a loop give one byte different values,
  and no temporary outlives a call).  That two iterations of the *same* loop store the
  same value twice is not excluded: a loop is a set of stores.
- `pipeline`: `RoundTrip` (refinement of `Lossless`, its excuse being `Short`).

Every module has one type invariant.  Every property is violated by a small
change of the modelled code that `PROJECT.json` names under `mutants`.

### Why these bounds

- `iochain`: `iochain.h` says "Safe for num_threads >= IOC_SIZE"; three threads on
  three slots are that case, in which a claimer can wait for a lock an iteration a
  lap behind holds.  Six iterations wrap the ring twice.  A multiple of 2 stands
  for 8, so that a last block and leftovers both exist.
- `bag`: a byte has four values, so that four cells are the smallest bag whose
  references take two bytes.  Payloads are empty or belong to one cell only and
  have different lengths, so that a wrong offset shows.  No such bag comes near the
  1 KiB a cell and the 1 TiB in all that the reader allows (`MaxData`).
- `evolve`: two genes and three children are the smallest search in which a parent
  is chosen and a child is left behind, and both limits fall between two looks at
  the clock.  Three ticks let the clock pass each limit at each statement.  The
  unfitness of a new gene is worse than all lengths.  The variant without marks has no
  run of its own: `DrawnByMeasure` proves `BredByMeasure` for both.
- `crossover`: four cells are enough for a walk of PMX over several places and for
  a kept part that starts, ends, or is, the whole.
- `range`: the proportions of `ShareAssumption` (2048, 32 and 2^24 in the code) are
  kept tight; three calls make carries past bytes kept back; one limit ends the
  output before and one while it is flushed.
- `arith`: the total is a quarter of the word, and products have twice its bits, as
  in the code; bytes of three bits let the output end at each place in a byte.
  The predictors include sure ones (to be clamped) and ones that keep the interval
  about the middle.
- `lzma`: one length with a low code, one with a mid code and three with a high one
  (8, 8 and 256); looking ahead needs three bytes (8); aligned slots begin at 8
  with two bits (14 with four), and distances reach 24, past the first of them.
- `bits`: the control of a worker depends on the two sizes only.  Element sizes are on
  every path of the dispatch (1, 2, 4, 8; odd and twice odd; other multiples of 4
  and of 8), numbers of elements leave a remainder to every register and none,
  blocks reach the wide loops over rows, and one size is no multiple of 8.
- `pipeline`: a text of 4, 5 or 6 bytes always fits; 3 and 7 may be cut by the
  writer's buffer; 8 fits the reader's, but padded to 9 does not.  Three element sizes
  let the kept stream be the first, a later and the last one.

### Fairness

- `IOChain`: OpenMP threads are scheduled by the system, and the loop hands out
  all its indices: weak fairness of each thread and of the serial code.  A lock may
  go to any waiter, so no thread has strong fairness.
- `Evolve`: the process runs, and `steady_clock` advances: weak fairness of each.
- `BitTranspose`: safety only, and no fairness.  It is a straight line of calls.
- The others are sequential: weak fairness of all their steps together says that the
  program goes on, and decides none of its choices.

`CHECK_DEADLOCK` is never switched off: the states a program stops in have a step
of their own.

## Findings

- `iochain_leak`: `bshuf_blocked_wrap_fun` returns an error without
  `ioc_destroy`, which `iochain.h:41` asks for.
- `evolve_late`: in the marking variant, if the first compression ends between 1800
  and 1900 ms, all genes of the first population are marked, the total is
  negative, and `get_random_by_unfittness` returns an element past the end.  The
  tests allow 2 seconds.
- `bag_ahead`: `DCHECK(k > i ...)` in `serialize_to_impl_only_meta` does not hold of
  a renumbered bag.  It is harmless where `DCHECK` is compiled out: the reader
  orders the cells itself.

Two smaller ones have no run.  The assertion at the end of
`serialize_to_impl_only_meta` (the bytes written are the bytes estimated) does not
hold either, since the payload is written by another function.  And the comment of
`solution_tiny_lzma_bitshuffle.cpp:1225` says that element sizes in [1..128] are
tried, the loop at 1251 goes to 1024.

## Proofs

TLAPS checks the following for all values of the constants that satisfy the named
assumptions of the module.

| Theorem | States |
|---|---|
| `IOChainProofs!TypeCorrect`, `InOrder`, `NoLap`, `RaceFree`, `Blocked` | `TypeOK`, `PointersInOrder`, `NotOvertaken`, `NoDataRace`, `BlockedUntilPreviousSets`, for any team, any ring of two slots or more, any buffer and block size |
| `DivModFacts!NoDescent` | four counters, compared in order, cannot go down for ever |
| `IOChainProofs!KeepsBlockMap` | `Spec => KeepsPromise`: the wrapper implements `BlockMap`, whichever blocks fail |
| `BagOfCellsProofs!TypeCorrect`, `KahnOrders` | `TypeOK`, `ChildrenFirst`, for bags of any size, any payloads, any renumbering and any number of values of a byte |
| `BagOfCellsProofs!NoReferenceRefused` | an action property: a step of `Rebuild` never ends in the error for a cell whose child is not there |
| `BagOfCellsProofs!RootComesBack` | the safety part of `RoundTrip`: initial states and steps are those of `Lossless` |
| `SearchProofs!MakingDescends`, `ArithCoderProofs!CodingDescends`, `LzmaPacketsProofs!PacketsDescend`, `BagOfCellsProofs!BagDescends` | every step lowers the `Rank` of the module (four natural numbers), so there are finitely many steps |
| `SearchProofs!TypeCorrect`, `KeepsBest`, `DrawnByMeasure` | `TypeOK`, `BestOfAll`, `BredByMeasure`, for any permutations, population and limits |
| `SearchProofs!DrawsStay` | `DrawsInRange`, if the first gene is looked at before `EvalLimit` |
| `SearchProofs!IndicesInRange`, `AlwaysPermutation` | `IndicesOK`, `MakesPermutation`, for any number of cells, any parents and any part kept |
| `RangeCoderProofs!TypeCorrect`, `RangeSuffices`, `CarryFits` | `TypeOK`, `OneByteIsEnough`, `CarryHasRoom`, for scripts of any length and any sizes that satisfy `ShareAssumption` |
| `RangeCoderProofs!CarryAlwaysArrives`, `DecoderTracks` | `CarryArrives`, `Tracks`, for the same |
| `RangeCoderProofs!ScriptComesBack` | the safety part of `RoundTrip`; an output is refused only if it is `Short` |
| `ArithCoderProofs!TypeCorrect`, `AsDocumented`, `NeverThrows` | `TypeOK`, `RangesAsDocumented`, `NothingThrown`, for any word, input and predictor, and any total up to `maximumTotal` |
| `ArithCoderProofs!OwedIsPaid`, `DecoderInStep` | `UnderflowOwed`, `InStep`, for the same |
| `ArithCoderProofs!BitsComeBack` | the safety part of `RoundTrip` |
| `LzmaPacketsProofs!TypeCorrect`, `DeferredMatches`, `StaysInStep`, `DecoderAccepts` | `TypeOK`, `DeferredHolds`, `InStep`, `NeverRefused`, for any texts |
| `LzmaPacketsProofs!TextComesBack` | the safety part of `RoundTrip`: initial states and steps are those of `Lossless` |
| `BitshuffleProofs!TransBuffers`, `TransTransposed`, `TransRestored` | `BuffersOK`, `Transposed`, `Restored`, for blocks and elements of any size and any of the six builds on either side |
| `BitshuffleProofs!BitStores`, `ByteBitrowStores`, `EightelemStores` | what the stores of a worker of each build leave in every byte of its output buffer, and that no two of its loops store to the same byte |
| `BitshuffleProofs!TransBit8x8`, `TransBit8x8BE` | the masked exchanges of the macros transpose the bits of a word |
| `BitshuffleProofs!ShuffleOfSource`, `UnshuffleOfShuffled` | the functions the workers compute compose to the transpose, and back |
| `BitshuffleProofs!TypeCorrect`, `ComesBack` | `TypeOK`, and the safety part of `RoundTrip`, for any texts, limits and codec that satisfy `PipelineAssumption` |

The arguments:

- **IOChain.**  `IInv` says which locks a thread holds at each statement
  (`LocksHeld`), that iterations are claimed in order and once (`ClaimsOrdered`),
  that `next` stays within a lap of every unfinished iteration (`Window`), how many
  iterations a phase issues (`PhaseIters`), and that a slot holds the offset of its
  iteration from the moment it is set to the moment it is read (`SlotsSettled`).
  `PointersInOrder` alone is not inductive: what a thread will read depends on
  slots that nobody may touch in between, and that is `Window` and `LocksHeld`.
  `KeepsBlockMap` needs an account of the output besides (`Accounted`): a byte is in
  one region in work at most, and not in work once written (`Apart`); while nothing
  has failed, every byte handed out is written or in work, and counted or still to
  be (`Intact`); once a block has failed, some byte stays missing (`Missing`).
- **BagOfCells.**  An item of the file is known by the cell it stands for (`Src`):
  whatever numbers a gene gave, references of an item stand for the references of
  its cell.  `Described` and `Laid` say that what was written about an item is what
  its cell has, and that the payloads lie one behind the other; a reference fits
  `refSize` bytes because `ByteWidth` is the least width that holds `cellCount`.
  `Graph` counts: the degree of an item is the number of its references whose item
  has not been taken from the queue, and `Kahn` says the queue is exactly the items
  at 0 that were not taken.  `ChildrenFirst` needs that the order is complete, and
  it is: were an item left out, the one whose cell comes first in the bag would
  have no open reference, since references of a cell come before it.  `Rebuilt`
  says that the item rebuilt last is its own cell again, because cells are known by
  payload and references and no two are alike.
- **Evolve.**  Each gene is measured, marked, or the search is out of time; since
  the clock does not go back, the last kind is never drawn from.  For `DrawsStay`,
  `SumsKnown` bounds the partial sums: a length outweighs all marks (`Length` is at
  least `Population`), so one measured gene makes the total positive, and
  `FirstMeasured` says there is one.
- **Crossover.**  PMX walks along `to` and rewrites it behind itself.  `PMXInv` says
  that the chains already walked and the one being walked are disjoint and each end
  where its number was put (`Walked`, `OnTheWay`), so a number is never put where
  another is; what the walks leave is a set of places that `a` and `b` fill with the
  same numbers (`RestIsClosed`).  OX1 finds an empty place for each number because
  a sequence without repetitions in a finite set leaves nothing out
  (`SelfInjection`, `PlaceLeft`).
- **RangeCoder.**  Probabilities stay between `Move - 1` and `Total - (Move - 1)`,
  because the shift moves nothing closer; so no bit gets less than `Move - 1`
  shares, which is what one byte can restore.  `Restrained` says that
  with a carry set, or 0xFF kept back, the interval ends within the word, so that
  no carry comes on top.
  `Coded` says that the entries of the trail follow from one another by the steps
  of an ideal coder, and that bytes written, bytes kept back, carry and word are
  the low end of its last interval; `CarryArrives` is the part of it about bytes.
  It needs `Restrained`, for a carry that meets a byte 0xFF has no place to go.
  For the decoder the argument runs backwards: the bytes of the flush are a
  point of the last interval, each interval lies in the one before, so they are a
  point of all of them (`Holds`).  `Decoded` says that the decoder is at the entry
  of the trail that belongs to its place, and that its code is how far the bytes it
  has read are above that entry's low end; so it finds the bit that was given, and `Tracks` and `ScriptComesBack`
  follow.
- **ArithCoder.**  The invariant (`Stages`) has the two ends apart at each round and a
  quarter apart between calls; then scaled frequencies are distinct and below
  `Long`, and the symbol `read` finds is the one whose part holds the code
  (`FoundOK`).  `Filling` bounds the code while it is read at the start.
  `Coded` and `Decoded` are built like those of the range coder.  The low end is
  what was written, a 0 for the bit to come and a 1 for each bit owed; owing one
  more or paying all of them changes the number by what the interval moved
  (`OwesOneMore`).  A step of the trail does not say which side takes it, so that the
  decoder's steps can be matched with the encoder's.  The end mark is a point of
  the last interval, hence of all before it, the zeros past the end included
  (`Holds`); so `read` finds the bit that was given, and only the round the encoder
  took is possible at each place.
- **LzmaPackets.**  `OnTheWay` says what a packet will have said once it is read,
  with the decoder's own state; it rests on lemmas that types, lengths and
  distances survive their codes (`DistanceTravels` is about slots, fixed and
  reversed bits, for every distance).  `Copying` keeps the match true while the
  text grows, `InWindow` gives the literal after a match a byte to match.
- **BitTranspose.**  `BuffersOK` and what a buffer holds are proved together
  (`TransInv`): what a worker stores depends on what the ones before it left.
  `Contents` says for each value of `todo` what `in`, `out`, `tmp` and `chunk` hold,
  as a function of the block.  There are five such functions, none of them about a
  build: `Transpose` of elements, `ByteTrans`, `BitTrans`, `Eights` and `Shuffled`.
  A worker `Covers` a function on some places if its stores are the places' values
  there, all of them, and nothing else; it `Works` if its loops do so together and
  no two of them share a place.  Two loops that cover disjoint places do
  (`TwoLoops`), and a worker that does on its whole buffer leaves the
  function in it and strays nowhere (`PutWorks`).  So for each build and each worker
  three things are shown, for every size.  The wide loop and its remainder divide
  the places between them (`RectCovers`, `RectColumnsApart`, `RectRowsApart`,
  `CellOnce`: quotients and remainders).  The
  place of a store is the one the function means (`Cell`, `Grid`, `RowAddress`).  And
  the register that is stored has the right bits: for the movemask builds because
  shifting by one *k* times brings bit 7 - *k* of each byte to the top (`MoveMaskAt`);
  for NEON because the pairwise sums of masked bytes are disjoint; for the unpack
  networks because each layer permutes the bits of the number of a byte in the
  registers, which `UnzipEight`, `UnzipFour`, `UnzipTwo` and `ColumnsBits` follow
  from one end to the other; for the scalar word by the three exchanges, which
  swap one bit each of the row's and the column's number (`TransBit8x8`).
  The functions compose by arithmetic alone, and none of it looks at what the
  block says, since a bit is the source bit it came from.
- **Pipeline.**  `KeptDescribed` and `InArchive` say that the element size and the
  padding that travel with a stream are those it was made with, `DecodedRight` that
  where `Short` gives no excuse the reader's codec and shuffle undid the writer's.
  The padded text is a whole number of elements, so the reader gets the number of
  elements from the length alone (`PaddedWhole`).

- **Termination as safety.**  Four components are sequential and have loops that no
  counter of the code ends.  For each, `Rank` gives four natural numbers (what is
  left of the phases, of the rounds in a phase, and of the loops in a round), the
  invariant keeps them natural, and every step lowers the first that it changes
  (`Below`); by `NoDescent` no behaviour does so for ever.  What each needs is the
  reason why the open loop ends.  The walk of PMX never comes to a place it passed
  (`WalkGoesOn`), since two numbers are never sent to one place.  A round of
  `update` at least doubles the interval (`ShiftWidens`, `DeleteWidens`), which is
  below the full range.  Every packet, a deferred match too, takes a byte at least
  (`SendAdvances`).  `get_topol_order` takes no cell twice, so it takes no more
  than there are (`TakenFit`).

The assumptions are about constants only, are named in the modules, and are
evaluated by the runs.  `BoundsAssumption` of `BagOfCells` says of the payloads that
they are sequences of bytes.

A fold over a sequence of any length is reasoned about without induction:
`Numeral` is a recursive function of the number of digits, and a statement about
all lengths follows from the least one that would break it (`DivModFacts!Least`).

**Only model-checked**: liveness (`Returns`, `Made`, and the part of `RoundTrip` that
says the value does come back), which is outside what the proof system handles
here, as `ENABLED` is.  For making a gene, the arithmetic coder, the packet coder
and the bag, the theorems on `Rank` leave to the runs only that a step is possible
until the end is reached, and that fairness takes it.  Every invariant of the runs
that pass is also a theorem, `DrawsInRange` under the condition of `DrawsStay`.

## Not modelled, and why

Nearly all of the 93028 lines of the repository are not the project's own: the
headers of the TON library and what it brings along (`include/`), ZPAQ, and the
LZMA SDK are vendored, and the solutions repeat each other.  Of what the project
wrote once, the following is left out.

- What the TON library does (cells, hashes, depths): external, modelled by what the
  code uses of it.  The modes of a bag nobody passes (index, CRC, cache bits).
- The vendored codecs (`libzpaq.cpp`, `zpaq.cpp`, the LZMA SDK, LZ4): a program of
  `Pipeline` each, with a codec known by its errors and its limits.
- The networks: a constant.  That floating point may differ between two builds is
  outside the model, and the one hazard without a property.
- Memory: `lzmaDecode` returns before `free` on its errors.  The input overflow of the
  packet decoder: the model hands it packets, not bytes.  The end mark, which
  `tinyLzmaCompress` never asks for.
- `solution_lzma_separate_header.cpp`, which returns at a `FIXME` (2167) with the
  writing of the references commented out (2185), and `solution_dummy_lzma.cpp`,
  which compresses with LZ4 and decompresses with LZMA: work in progress, whose two
  directions do not fit.  `solution_separate_header.cpp` is the step before.
- `stats.cpp`, the examples, the Python scripts and the build: no state of the
  programs.

## Plan

Done, in this order, so that the most interleaved part came first: `IOChain` with
`BlockMap`, `BagOfCells` with `Lossless`, `Evolve`, `Crossover`, `RangeCoder`,
`ArithCoder`, `LzmaPackets`, `BitTranspose` with its workers, `Pipeline`, and the
proofs above.

What is left, in the order of what it would add:

1. The LZMA header and the decoder's input overflow, with `LzmaPackets` over
   `RangeCoder` in one module.
2. The same termination argument for the loops that do have a counter: `RangeCoder`,
   `Pipeline`, `Evolve`, and each thread of `IOChain`.
