----------------------------- MODULE ArithCoder -----------------------------
(***************************************************************************)
(* The arithmetic coder of ann/arithcoder as compressBits and              *)
(* decompressBits of ann/model_arith.cpp use it: a predictor gives the     *)
(* frequency of a 0 from the bits before, the encoder narrows its interval *)
(* by it and shifts out the bits its two ends agree on.  While the ends    *)
(* are on both sides of the middle and close to it, a bit is owed instead  *)
(* of written.  The decoder narrows the same interval around its code.     *)
(*                                                                         *)
(* write and read take several steps: the interval is narrowed, then each  *)
(* round of the two loops of update is a step, then the call returns.      *)
(***************************************************************************)
EXTENDS Integers, Sequences, Digits

CONSTANTS
  StateBits,    \* numStateBits (32)
  Power,        \* Power[n] = 2 ^ n
  Long,         \* the values of a uint64_t
  Total,        \* BinaryFrequencyTable::TOTAL (2 ^ 30)
  MaxUnderflow, \* the largest unsigned long
  Context,      \* CONTEXT_SIZE (192)
  ByteBits,     \* bits of a byte (8)
  Inputs,       \* what may be given to compressBits
  Predictors    \* the functions from contexts to frequencies the network may be

Full    == Power[StateBits]
Half    == Power[StateBits - 1]
Quarter == Power[StateBits - 2]

MinimumRange == Quarter + 2
MaximumTotal == LET most == (Long - 1) \div Full
                IN  IF most < MinimumRange THEN most ELSE MinimumRange

Bit      == {0, 1}
Contexts == [1 .. Context -> Bit]

ASSUME PowerAssumption ==
  /\ StateBits \in Nat /\ StateBits >= 2
  /\ Power \in [0 .. StateBits -> Nat \ {0}] /\ Power[0] = 1
  /\ \A n \in 1 .. StateBits : Power[n] = 2 * Power[n - 1]
ASSUME SizesAssumption ==
  /\ Long \in Nat \ {0} /\ Total \in Nat /\ Total >= 2
  /\ MaxUnderflow \in Nat /\ ByteBits \in Nat \ {0} /\ Context \in Nat \ {0}
  /\ Inputs \subseteq Seq(Bit) \ {<<>>}
  /\ Predictors \subseteq [Contexts -> 0 .. Total]

(* The constants of the code satisfy what update asks of a table: 2 ^ 30 is *)
(* at most 2 ^ 30 + 2, and at most (2 ^ 64 - 1) / 2 ^ 32.                   *)
ASSUME TotalAssumption == Total <= MaximumTotal

VARIABLES
  given,      \* the bits of the input
  model,      \* the network, the same on both sides
  side,       \* "encode", "open", "fill", "decode", "done", or an exception
  stage,      \* where the coder is: "call", or in update: "shift", "underflow"
  low, high,  \* the ends of the interval
  symbol,     \* the bit being written or read
  prefix,     \* the bits the network is asked with
  sent,       \* how many bits have been encoded
  pending,    \* numUnderflow: the bits owed
  written,    \* the output, as bits
  code, taken,\* the decoder's code and how many bits it has read for it
  got,        \* the bits decoded
  exact,      \* history: the encoder's low end as a number of any length
  trail       \* history: where the encoder was after each of its steps

encoder == <<sent, pending, written, exact, trail>>
decoder == <<code, taken, got>>
vars == <<given, model, side, stage, low, high, symbol, prefix, encoder, decoder>>

(* Where the encoder is: rounds is how many bits it has written or owes. *)
Now ==
  [low |-> low, high |-> high, stage |-> stage, prefix |-> prefix, sent |-> sent,
   rounds |-> Len(written) + pending, exact |-> exact]
Logged == trail' = Append(trail, Now')

-----------------------------------------------------------------------------
(* The frequency table.                                                     *)

SetUnclamped(freq) == freq   \* a mutant: a bit may have no frequency at all
Set(freq) == CASE freq = 0 -> 1 [] freq = Total -> Total - 1 [] OTHER -> freq

Freq    == Set(model[prefix])
Low(s)  == IF s = 0 THEN 0 ELSE Freq
High(s) == IF s = 0 THEN Freq ELSE Total

(* The context is full from the start: what is pushed pushes one bit out. *)
Push(bit) == Tail(Append(prefix, bit))
ZeroPad   == [n \in 1 .. Context |-> 0]

-----------------------------------------------------------------------------
(* update: the interval of a symbol, and the rounds of the two loops.       *)

range       == high - low + 1
Wrap(n)     == n % Long   \* uint64_t
Scale(freq) == Wrap(freq * range) \div Total

Sound(s) ==   \* none of the exceptions of update is thrown
  /\ low < high /\ high < Full /\ range >= MinimumRange
  /\ Low(s) # High(s)

Narrow(s) ==
  IF Sound(s)
  THEN /\ low' = low + Scale(Low(s)) /\ high' = low + Scale(High(s)) - 1
       /\ symbol' = s /\ stage' = "shift" /\ UNCHANGED side
  ELSE side' = "thrown" /\ UNCHANGED <<low, high, symbol, stage>>

TopBit(x)    == x \div Half
SecondBit(x) == (x \div Quarter) % 2

SameTop == TopBit(low) = TopBit(high)

MiddleByOneEnd == SecondBit(low) = 1   \* a mutant: high is not looked at
Middle == SecondBit(low) = 1 /\ SecondBit(high) = 0

Shifting  == stage = "shift" /\ SameTop
Apart     == stage = "underflow" \/ (stage = "shift" /\ ~SameTop)
Deleting  == Apart /\ Middle
Returning == Apart /\ ~Middle

ShiftedUnmasked(x) == 2 * x   \* a mutant
Shifted(x) == (2 * x) % Full

ShiftEnds ==
  low' = Shifted(low) /\ high' = Shifted(high) + 1 /\ UNCHANGED <<stage, side>>

DeleteSecond ==
  /\ low' = 2 * low - Half /\ high' = 2 * (high - Half) + Half + 1
  /\ stage' = "underflow"

-----------------------------------------------------------------------------
(* The encoder: compressBits.                                               *)

Write ==
  /\ side = "encode" /\ stage = "call" /\ sent < Len(given)
  /\ Narrow(given[sent + 1])
  /\ exact' = exact + (low' - low)
  /\ UNCHANGED <<given, model, prefix, sent, pending, written, decoder>>
  /\ Logged

PaidAlike(bit) == [n \in 1 .. pending |-> bit]   \* a mutant
Paid(bit) == [n \in 1 .. pending |-> 1 - bit]

ShiftOut ==
  /\ side = "encode" /\ Shifting
  /\ ShiftEnds
  /\ written' = written \o <<TopBit(low)>> \o Paid(TopBit(low))
  /\ pending' = 0 /\ exact' = 2 * exact
  /\ UNCHANGED <<given, model, symbol, prefix, sent, decoder>>
  /\ Logged

Owe ==
  /\ side = "encode" /\ Deleting
  /\ UNCHANGED <<given, model, symbol, prefix, sent, written, decoder>>
  /\ IF pending = MaxUnderflow
     THEN side' = "overflow" /\ UNCHANGED <<low, high, stage, pending, exact, trail>>
     ELSE /\ DeleteSecond /\ pending' = pending + 1 /\ exact' = 2 * exact
          /\ UNCHANGED side
          /\ Logged

WriteReturns ==
  /\ side = "encode" /\ Returning
  /\ stage' = "call" /\ sent' = sent + 1 /\ prefix' = Push(symbol)
  /\ UNCHANGED <<given, model, side, low, high, symbol, pending, written, exact, decoder>>
  /\ Logged

EndMarkMissing == <<>>   \* a mutant
EndMark == <<1>>

(* ArithmeticEncoder::finish, then zeros to the end of a byte *)
Finish ==
  LET marked == written \o EndMark
      rest   == (-Len(marked)) % ByteBits
  IN  /\ side = "encode" /\ stage = "call" /\ sent = Len(given)
      /\ written' = marked \o [n \in 1 .. rest |-> 0]
      /\ side' = "open"
      /\ UNCHANGED <<given, model, stage, low, high, symbol, prefix, sent, pending,
                     exact, trail, decoder>>

-----------------------------------------------------------------------------
(* The decoder: decompressBits, asked for as many bits as were given.       *)

NextBit == IF taken < Len(written) THEN written[taken + 1] ELSE 0

Open ==
  /\ side = "open" /\ side' = "fill"
  /\ low' = 0 /\ high' = Full - 1 /\ code' = 0 /\ taken' = 0 /\ prefix' = ZeroPad
  /\ UNCHANGED <<given, model, stage, symbol, got, encoder>>

Fill ==   \* a round of the constructor of ArithmeticDecoder
  /\ side = "fill"
  /\ code' = 2 * code + NextBit /\ taken' = taken + 1
  /\ side' = IF taken' = StateBits THEN "decode" ELSE side
  /\ UNCHANGED <<given, model, stage, low, high, symbol, prefix, got, encoder>>

Offset == Wrap(code - low)
Value  == Wrap(Wrap((Offset + 1) * Total) - 1) \div range
Found  == IF Freq > Value THEN 0 ELSE 1

Read ==
  /\ side = "decode" /\ stage = "call"
  /\ IF /\ Scale(Value) <= Offset /\ Value < Total
        /\ Scale(Low(Found)) <= Offset /\ Offset < Scale(High(Found))
     THEN Narrow(Found)
     ELSE side' = "thrown" /\ UNCHANGED <<low, high, symbol, stage>>
  /\ UNCHANGED <<given, model, prefix, decoder, encoder>>

ShiftIn ==
  /\ side = "decode" /\ Shifting
  /\ ShiftEnds
  /\ code' = Shifted(code) + NextBit /\ taken' = taken + 1
  /\ UNCHANGED <<given, model, symbol, prefix, got, encoder>>

(* A mutant: the top bit of the code is lost. *)
DeletedWithTop(x) == (2 * x) % Half
Deleted(x) == TopBit(x) * Half + ((2 * x) % Half)

DeleteIn ==
  /\ side = "decode" /\ Deleting
  /\ DeleteSecond
  /\ code' = Deleted(code) + NextBit /\ taken' = taken + 1
  /\ UNCHANGED <<given, model, side, symbol, prefix, got, encoder>>

ReadReturns ==
  /\ side = "decode" /\ Returning
  /\ IF low <= code /\ code <= high
     THEN /\ stage' = "call" /\ got' = Append(got, symbol)
          /\ IF Len(got') = Len(given)
             THEN side' = "done" /\ UNCHANGED prefix
             ELSE prefix' = Push(symbol) /\ UNCHANGED side
     ELSE side' = "thrown" /\ UNCHANGED <<stage, got, prefix>>
  /\ UNCHANGED <<given, model, low, high, symbol, code, taken, encoder>>

Ended == side \in {"done", "thrown", "overflow"} /\ UNCHANGED vars

-----------------------------------------------------------------------------

Init ==
  /\ given \in Inputs /\ model \in Predictors
  /\ side = "encode" /\ stage = "call" /\ low = 0 /\ high = Full - 1
  /\ symbol = 0 /\ prefix = ZeroPad
  /\ sent = 0 /\ pending = 0 /\ written = <<>> /\ exact = 0 /\ trail = <<Now>>
  /\ code = 0 /\ taken = 0 /\ got = <<>>

Code == \/ Write \/ ShiftOut \/ Owe \/ WriteReturns \/ Finish
        \/ Open \/ Fill \/ Read \/ ShiftIn \/ DeleteIn \/ ReadReturns
Next == Code \/ Ended

Spec == Init /\ [][Next]_vars /\ WF_vars(Code)

-----------------------------------------------------------------------------
(* What must hold.                                                          *)

(* The ends and the code stay words of StateBits bits.                      *)
TypeOK ==
  /\ given \in Inputs /\ model \in Predictors
  /\ side \in {"encode", "open", "fill", "decode", "done", "thrown", "overflow"}
  /\ stage \in {"call", "shift", "underflow"}
  /\ low \in 0 .. Full - 1 /\ high \in 0 .. Full - 1 /\ code \in 0 .. Full - 1
  /\ symbol \in Bit /\ prefix \in Contexts /\ sent \in 0 .. Len(given)
  /\ pending \in 0 .. MaxUnderflow /\ taken \in Nat
  /\ written \in Seq(Bit) /\ got \in Seq(Bit)

(* "Invariants that are true before and after encoding/decoding each        *)
(* symbol" (ArithmeticCoder.hpp, at update): the ends lie in different      *)
(* halves, not both in the middle quarters, far enough apart for any total, *)
(* and the code lies between them.                                          *)
RangesAsDocumented ==
  (side \in {"encode", "decode"} /\ stage = "call") =>
    /\ low < Half /\ Half <= high
    /\ low < Quarter \/ high >= Half + Quarter
    /\ range >= MinimumRange /\ range <= Full
    /\ side = "decode" => low <= code /\ code <= high

(* No assertion of the coder fails, on any input and with any predictor: a  *)
(* std::logic_error would pass the catch of compressBits and end the        *)
(* program.                                                                 *)
NothingThrown == side # "thrown"

Number(bits) == Numeral(2, bits)

(* The bits written, a 0 with the bits owed behind it, to be paid as its    *)
(* complement, and low are together the exact low end of the interval,      *)
(* however many are owed and whichever way the interval is decided in the   *)
(* end (shift and underflow of ArithmeticEncoder).                          *)
Owing == written \o <<0>> \o [n \in 1 .. pending |-> 1]

UnderflowOwed == side = "encode" => exact = Number(Owing) * Half + low

(* After the same number of steps the decoder is where the encoder was, in  *)
(* a symbol or between two, at the start of the input, once the context is  *)
(* full, and past the end of the stream; and its code lies as far above its *)
(* low end as the bits it has read lie above the encoder's.                 *)
Steps == (taken - StateBits) + 2 * Len(got) + (IF stage = "call" THEN 0 ELSE 1)
Streamed(n) == [k \in 1 .. n |-> IF k <= Len(written) THEN written[k] ELSE 0]

InStep ==
  side = "decode" =>
    LET then == trail[Steps + 1]
    IN  /\ stage = then.stage /\ prefix = then.prefix
        /\ low = then.low /\ high = then.high
        /\ code - low = Number(Streamed(taken)) - then.exact

(* What compressBits made of the bits is what decompressBits returns, as    *)
(* the check in main of model_arith.cpp compared them.                      *)
Nothing == <<>>
Codec == INSTANCE Lossless WITH
  Values   <- Inputs,
  Refused  <- Nothing,
  returned <- IF side = "done" THEN got ELSE Nothing,
  short    <- FALSE
RoundTrip == Codec!Spec
=============================================================================
