------------------------------ MODULE RangeCoder ------------------------------
(***************************************************************************)
(* The range coder of the LZMA compressor in solution_tiny_lzma.cpp.  A    *)
(* script of calls is encoded bit by bit, flushed, and decoded again by    *)
(* the same calls.  The encoder keeps the low end of its interval in a     *)
(* word and one carry bit; a byte that has left the word may still be      *)
(* raised by a carry, so one byte and the all-ones bytes behind it are     *)
(* kept back.                                                              *)
(*                                                                         *)
(* One action per bit.  A word has four bytes, a byte has Base values, and *)
(* a call codes Width bits, by a tree of adaptive probabilities (Int), by  *)
(* the same table with a byte to match (MB), or as they are (Fixed).       *)
(***************************************************************************)
EXTENDS Integers, Sequences, Digits

CONSTANTS
  Base,       \* number of values of a byte (256)
  Total,      \* RANGE_CODE_BIT_MODEL_TOTAL (2048)
  Move,       \* 2 ^ RANGE_CODE_MOVE_BITS (32)
  Width,      \* bits of a call
  MaxCalls,   \* most calls in a script
  Matches,    \* the bytes an MB call may be given to match
  Limits      \* how many bytes the output may take

Threshold == Base * Base * Base     \* RANGE_CODE_NORMALIZE_THRESHOLD
Word      == Base * Threshold       \* the values of a uint32_t
Top       == Base - 1               \* the byte 0xFF
Vals      == [1 .. Width -> {0, 1}] \* what a call codes, its top bit first

ASSUME SizesAssumption ==
  /\ Base \in Nat /\ Base >= 4 /\ Total \in Nat /\ Total >= 2
  /\ Move \in Nat /\ Move >= 2
  /\ Width \in Nat \ {0} /\ MaxCalls \in Nat /\ Limits \subseteq Nat
  /\ Matches \subseteq Vals

(* The constants of the code, 2048, 32 and 2 ^ 24, leave the least probable *)
(* bit enough range for one byte to make up for it.                         *)
ASSUME ShareAssumption ==
  /\ Move - 1 <= Total \div 2
  /\ (Threshold \div Total) * (Move - 1) * Base >= Threshold

Calls == [kind : {"Int", "Fixed"}, val : Vals]
           \cup [kind : {"MB"}, match : Matches, val : Vals]

(* The probabilities of a table: one for each node of a tree, three times  *)
(* for MB (off0 + off1).                                                   *)
Nodes == UNION {[1 .. n -> {0, 1}] : n \in 0 .. Width - 1}
Slots == (0 .. 2) \X Nodes

VARIABLES
  script,     \* the calls
  phase,      \* "encode", "flush", "refused", "open", "decode" or "done"
  at,         \* where the coder is: the number of the call, treepos (the bits
              \* of the call coded so far), off0 as 0 or 1, and the tables of
              \* probabilities, as numerators over Total
  enc,        \* RangeEncoder_t
  limit,      \* p_dst_limit - p_dst at the start
  flushed,    \* normalisations rangeEncodeTerminate has made
  dec,        \* RangeDecoder_t
  got,        \* the values the decoder has returned
  exact,      \* history: the low end as a number of any length
  trail       \* history: where the encoder was after each bit, its range, its
              \* low end, and how many bytes it had written or kept back

vars == <<script, phase, at, enc, limit, flushed, dec, got, exact, trail>>
callVars == <<script, limit>>

-----------------------------------------------------------------------------
(* The call in progress: which bit it codes next and which probability it   *)
(* uses for it, and where a bit leads.                                      *)

Start == [call |-> 1, tree |-> <<>>, off |-> 1, probs |-> [s \in Slots |-> Total \div 2]]

Current(a)  == script[a.call]
BitAt(a, v) == v[Len(a.tree) + 1]
GivenBit(a) == BitAt(a, Current(a).val)
Fixed(a)    == Current(a).kind = "Fixed"

Masked(a) == IF BitAt(a, Current(a).match) = 1 THEN a.off ELSE 0   \* off0 &= match_byte
Slot(a)   == <<IF Current(a).kind = "MB" THEN Masked(a) + a.off ELSE 0, a.tree>>

NextOff(a, bit) ==
  IF Current(a).kind # "MB" THEN a.off ELSE IF bit = 1 THEN Masked(a) ELSE a.off - Masked(a)

(* A mutant: the share to move is rounded up. *)
AdaptRoundedUp(p, bit) ==
  IF bit = 0 THEN p + (Total - p + Move - 1) \div Move ELSE p - p \div Move

Adapt(p, bit) == IF bit = 0 THEN p + (Total - p) \div Move ELSE p - p \div Move

Adapted(a, bit) ==
  IF Fixed(a) THEN a.probs ELSE [a.probs EXCEPT ![Slot(a)] = Adapt(@, bit)]

Moved(a, bit) ==
  IF Len(a.tree) + 1 < Width
  THEN [call |-> a.call, tree |-> Append(a.tree, bit), off |-> NextOff(a, bit),
        probs |-> Adapted(a, bit)]
  ELSE [call |-> a.call + 1, tree |-> <<>>, off |-> 1, probs |-> Adapted(a, bit)]

(* The bit is coded: to the next bit, or to the next call, or to phase p    *)
(* when nothing is left to do.  stop is set by a coder that overflowed.     *)
Position(bit, p, stop) ==
  /\ at' = Moved(at, bit)
  /\ phase' = IF at'.call # at.call /\ (at.call = Len(script) \/ stop) THEN p ELSE phase

-----------------------------------------------------------------------------
(* The encoder.                                                             *)

(* rangeEncodeOutByte for each of some bytes *)
OutBytes(e, bytes) ==
  LET room == limit - Len(e.written)
  IN  IF Len(bytes) <= room
      THEN [e EXCEPT !.written = @ \o bytes]
      ELSE [e EXCEPT !.written = @ \o SubSeq(bytes, 1, room), !.overflow = TRUE]

Copies(n, byte) == [k \in 1 .. n |-> byte]

(* Mutants: the carry goes to the bytes behind only; bytes are never kept. *)
ReleaseUnraised(e) ==
  IF e.carry = 1 \/ e.low < Top * Threshold
  THEN [OutBytes(e, <<e.cache>> \o Copies(e.cacheSize - 1, IF e.carry = 1 THEN 0 ELSE Top))
          EXCEPT !.cache = e.low \div Threshold, !.cacheSize = 0]
  ELSE e
ReleaseAlways(e) ==
  [OutBytes(e, <<(e.cache + e.carry) % Base>>
                 \o Copies(e.cacheSize - 1, IF e.carry = 1 THEN 0 ELSE Top))
     EXCEPT !.cache = e.low \div Threshold, !.cacheSize = 0]

(* The byte kept back and those behind it go out once a carry has come or   *)
(* none can come any more.                                                  *)
Release(e) ==
  LET flush(first, others) ==
        [OutBytes(e, <<first>> \o Copies(e.cacheSize - 1, others))
           EXCEPT !.cache = e.low \div Threshold, !.cacheSize = 0]
  IN  IF e.carry = 1 THEN flush((e.cache + 1) % Base, 0)
      ELSE IF e.low < Top * Threshold THEN flush(e.cache, Top)
      ELSE e

ShiftByte(e) ==
  [Release(e) EXCEPT !.cacheSize = @ + 1, !.carry = 0,
                     !.low = (@ * Base) % Word, !.range = (@ * Base) % Word]

NormalizeLate(e) ==   \* a mutant: a byte later
  IF e.range >= Threshold \div Base THEN e ELSE ShiftByte(e)
Normalize(e) == IF e.range >= Threshold THEN e ELSE ShiftByte(e)

Bound(range, p) == (range \div Total) * p

(* rangeEncodeBit and one round of rangeEncodeIntByFixedProb: the part of   *)
(* the range below Split is for a 0, the rest, of size Above, for a 1.      *)
Split(a, range) == IF Fixed(a) THEN range \div 2 ELSE Bound(range, a.probs[Slot(a)])
Above(a, range) == IF Fixed(a) THEN range \div 2 ELSE range - Split(a, range)

(* A mutant: the carry out of the word is not noticed. *)
NarrowUncarried(e, bit, split, above) ==
  IF bit = 0 THEN [e EXCEPT !.range = split]
  ELSE [e EXCEPT !.range = above, !.low = (@ + split) % Word]

Narrow(e, bit, split, above) ==
  IF bit = 0 THEN [e EXCEPT !.range = split]
  ELSE [e EXCEPT !.range = above,
                 !.carry = IF (e.low + split) % Word < e.low THEN 1 ELSE @,
                 !.low = (@ + split) % Word]

Bytes(e) == Len(e.written) + e.cacheSize

EncodeBit ==
  LET bit   == GivenBit(at)
      e     == Normalize(enc)
      split == Split(at, e.range)
      base  == IF enc.range < Threshold THEN exact * Base ELSE exact
  IN  /\ phase = "encode"
      /\ enc' = Narrow(e, bit, split, Above(at, e.range))
      /\ exact' = base + bit * split
      /\ Position(bit, "flush", enc'.overflow)
      /\ trail' = Append(trail, [at |-> at', range |-> enc'.range, low |-> exact',
                                 bytes |-> Bytes(enc')])
      /\ UNCHANGED <<callVars, flushed, dec, got>>

(* rangeEncodeTerminate, a normalisation at a time; lzmaEncode then looks   *)
(* whether the output overflowed.                                           *)
Rounds == 6

Flush ==
  /\ phase = "flush"
  /\ enc' = Normalize([enc EXCEPT !.range = 0])
  /\ flushed' = flushed + 1
  /\ phase' = IF flushed' < Rounds THEN phase
              ELSE IF enc'.overflow THEN "refused" ELSE "open"
  /\ exact' = exact * Base
  /\ UNCHANGED <<callVars, at, dec, got, trail>>

-----------------------------------------------------------------------------
(* The decoder.                                                             *)

NormalizeD(d) ==
  IF d.range >= Threshold THEN d
  ELSE IF d.taken < Len(enc.written)
       THEN [d EXCEPT !.range = (@ * Base) % Word, !.taken = @ + 1,
                      !.code = ((@ * Base) % Word) + enc.written[d.taken + 1]]
       ELSE [d EXCEPT !.overflow = TRUE]

(* newRangeDecoder *)
FirstBytes(d) == NormalizeD(NormalizeD(NormalizeD(NormalizeD(NormalizeD(d)))))

Open ==
  /\ phase = "open"
  /\ dec' = [FirstBytes(dec) EXCEPT !.range = Word - 1]
  /\ phase' = "decode"
  /\ at' = Start
  /\ UNCHANGED <<callVars, enc, flushed, got, exact, trail>>

(* A mutant: what was subtracted is not put back. *)
FixedBitNotPutBack(d) ==
  LET rest == (d.code - d.range \div 2) % Word
  IN  [bit |-> IF rest >= Word \div 2 THEN 0 ELSE 1,
       dec |-> [d EXCEPT !.range = @ \div 2, !.code = rest]]

(* rangeDecodeIntByFixedProb subtracts, looks at the sign and may put back *)
FixedBit(d) ==
  LET half == d.range \div 2
      rest == (d.code - half) % Word
      bit  == IF rest >= Word \div 2 THEN 0 ELSE 1
  IN  [bit |-> bit,
       dec |-> [d EXCEPT !.range = half,
                         !.code = IF bit = 0 THEN (rest + half) % Word ELSE rest]]

TreeBit(d) ==
  LET bound == Bound(d.range, at.probs[Slot(at)])
  IN  IF d.code < bound
      THEN [bit |-> 0, dec |-> [d EXCEPT !.range = bound]]
      ELSE [bit |-> 1, dec |-> [d EXCEPT !.range = @ - bound, !.code = @ - bound]]

DecodeBit ==
  LET d    == NormalizeD(dec)
      read == IF Fixed(at) THEN FixedBit(d) ELSE TreeBit(d)
      bits == Append(at.tree, read.bit)
  IN  /\ phase = "decode"
      /\ dec' = read.dec
      /\ Position(read.bit, "done", FALSE)
      /\ got' = IF Len(bits) = Width THEN Append(got, bits) ELSE got
      /\ UNCHANGED <<callVars, enc, flushed, exact, trail>>

Ended == phase \in {"refused", "done"} /\ UNCHANGED vars

-----------------------------------------------------------------------------

Init ==
  /\ script \in UNION {[1 .. n -> Calls] : n \in 1 .. MaxCalls}
  /\ limit \in Limits
  /\ phase = "encode" /\ at = Start
  /\ enc = [carry |-> 0, low |-> 0, range |-> Word - 1, cache |-> 0,
            cacheSize |-> 1, written |-> <<>>, overflow |-> FALSE]
  /\ flushed = 0
  /\ dec = [code |-> 0, range |-> 0, taken |-> 0, overflow |-> FALSE]
  /\ got = <<>> /\ exact = 0
  /\ trail = <<[at |-> Start, range |-> Word - 1, low |-> 0, bytes |-> 1]>>

Next == EncodeBit \/ Flush \/ Open \/ DecodeBit \/ Ended

Spec == Init /\ [][Next]_vars /\ WF_vars(EncodeBit \/ Flush \/ Open \/ DecodeBit)

-----------------------------------------------------------------------------
(* What must hold.                                                          *)

Byte   == 0 .. Top
Encoders ==
  [carry : {0, 1}, low : 0 .. Word - 1, range : 0 .. Word - 1, cache : Byte,
   cacheSize : Nat \ {0}, written : Seq(Byte), overflow : BOOLEAN]
Decoders ==
  [code : 0 .. Word - 1, range : 0 .. Word - 1, taken : Nat, overflow : BOOLEAN]
Shares == Move - 1 .. Total - (Move - 1)

Places == [call : Nat \ {0}, tree : Nodes, off : {0, 1}, probs : [Slots -> Shares]]

(* Every variable keeps its width.  In particular no probability ever comes *)
(* closer to 0 or Total than Move - 1, which is where the shifts of         *)
(* rangeEncodeBit and rangeDecodeBit stop moving it.                        *)
TypeOK ==
  /\ script \in Seq(Calls) /\ limit \in Limits
  /\ phase \in {"encode", "flush", "refused", "open", "decode", "done"}
  /\ at \in Places /\ at.call <= Len(script) + 1
  /\ enc \in Encoders /\ Len(enc.written) <= limit
  /\ dec \in Decoders /\ dec.taken <= Len(enc.written)
  /\ flushed \in 0 .. Rounds /\ got \in Seq(Vals)

(* Normalising once before a bit is enough, where other range coders loop:  *)
(* however improbable the bits, the range never shrinks by more than a byte *)
(* (the "if" of rangeEncodeNormalize and of rangeDecodeNormalize).          *)
OneByteIsEnough ==
  /\ phase = "encode" => enc.range * Base >= Threshold
  /\ phase = "decode" /\ ~dec.overflow => dec.range * Base >= Threshold

Value(bytes) == Numeral(Base, bytes)

(* What has been written, the bytes kept back, the carry and the word       *)
(* together are the exact low end of the interval, from the first bit to    *)
(* the last byte of the flush: a carry is neither lost nor applied to a     *)
(* byte it does not belong to, however many bytes are kept back, and no     *)
(* byte is dropped at the end of the output without the overflow being      *)
(* noted (rangeEncodeNormalize, rangeEncodeOutByte).                        *)
CarryArrives ==
  ~enc.overflow =>
    exact = Word * Value(enc.written \o <<enc.cache>> \o Copies(enc.cacheSize - 1, Top))
              + Word * enc.carry + enc.low

(* A byte of 0xFF is never raised: the carry has room where it goes         *)
(* (e->cache + 1 in rangeEncodeNormalize is a byte).                        *)
CarryHasRoom == enc.carry = 1 => enc.cache < Top

(* After the same number of bits the decoder is where the encoder was, with *)
(* the same probabilities and the same range, four bytes ahead of what the  *)
(* encoder had written or kept back, and its code is how far the bytes it   *)
(* has read lie above the encoder's low end, within that range.             *)
BitsDone == (at.call - 1) * Width + Len(at.tree)

Tracks ==
  phase = "decode" =>
    LET then == trail[BitsDone + 1]
    IN  /\ at = then.at
        /\ dec.range = then.range
        /\ dec.taken = then.bytes + 4
        /\ dec.code = Value(SubSeq(enc.written, 1, dec.taken)) - then.low
        /\ dec.code < dec.range

(* What the calls encode is what they decode, in every script, unless the   *)
(* output has fewer bytes than the coders normalise times: then, and only   *)
(* then, it may be refused (R_ERR_OUTPUT_OVERFLOW), and never comes back    *)
(* wrong (tests/run_tests.py compares what comes back with what was given). *)
Nothing == <<>>
NoValue == << <<>> >>   \* no call codes it
Codec == INSTANCE Lossless WITH
  Values   <- UNION {[1 .. n -> Vals] : n \in 1 .. MaxCalls},
  Refused  <- NoValue,
  given    <- [n \in DOMAIN script |-> script[n].val],
  returned <- CASE phase = "done"    -> got
                [] phase = "refused" -> NoValue
                [] OTHER             -> Nothing,
  short    <- limit < Len(script) * Width + Rounds
RoundTrip == Codec!Spec
=============================================================================
