----------------------------- MODULE LzmaPackets -----------------------------
(***************************************************************************)
(* The packets of the LZMA compressor in solution_tiny_lzma.cpp: what      *)
(* lzmaEncode makes of a text and what lzmaDecode makes of the packets.    *)
(* Both keep a state, four repeated distances and the text so far, and the *)
(* decoder understands a packet only while its own are the encoder's.      *)
(*                                                                         *)
(* A packet is the sequence of the symbols it is coded with, each with the *)
(* table of probabilities it is coded by.  RangeCoder is about how symbols *)
(* become bytes; what it needs is that both sides use the same tables.     *)
(* The encoder reads nothing of the decoder, and the decoder takes the     *)
(* packets in order, so here each packet is decoded once it is made.       *)
(*                                                                         *)
(* As in the code, a position counts the bytes before it.                  *)
(***************************************************************************)
EXTENDS Integers, Sequences

CONSTANTS
  Texts,             \* what may be given to tinyLzmaCompress
  Lows, Mids, Highs, \* how many lengths have a low, mid, high code (8, 8, 256)
  MaxDist,           \* LZ_DIST_MAX_PLUS1 - 1
  LookAhead,         \* the bytes that must be left before it looks ahead (8)
  DistBits,          \* bits of a distance
  Power,             \* Power[n] = 2 ^ n
  AlignedFrom,       \* the first distance slot with aligned bits (14)
  AlignBits          \* how many it has (4)

MaxLen == 1 + Lows + Mids + Highs   \* LZ_LEN_MAX

ASSUME SizesAssumption ==
  /\ Texts \subseteq Seq(Nat) \ {<<>>}
  /\ Lows \in Nat \ {0} /\ Mids \in Nat \ {0} /\ Highs \in Nat \ {0}
  /\ LookAhead \in Nat /\ LookAhead >= 2
  /\ AlignBits \in Nat /\ AlignedFrom \in Nat
  /\ AlignedFrom >= 4 /\ AlignedFrom >= 2 * AlignBits + 2
ASSUME PowerAssumption ==
  /\ DistBits \in Nat /\ Power \in [0 .. DistBits -> Nat \ {0}] /\ Power[0] = 1
  /\ \A n \in 1 .. DistBits : Power[n] = 2 * Power[n - 1]
  /\ MaxDist \in 1 .. Power[DistBits]

Types == {"LIT", "MATCH", "SHORTREP", "REP0", "REP1", "REP2", "REP3"}
Bytes(type, len) == IF type \in {"LIT", "SHORTREP"} THEN 1 ELSE len

VARIABLES
  src,     \* the text
  enc,     \* the encoder's position, state and repeated distances
  later,   \* the match put off: n_bypass as wait, len_bypass and dist_bypass
  packet,  \* the packet on its way, or <<>>
  dec,     \* the decoder's text, state and repeated distances
  copy,    \* what the decoder has left to do of a packet: len, dist, prev_byte
  result   \* "going", "ok", or why lzmaDecode returned

vars == <<src, enc, later, packet, dec, copy, result>>

-----------------------------------------------------------------------------
(* What both sides share.                                                   *)

(* A mutant: the state counts the matches in a row. *)
NextStateCounting(state, type) ==
  CASE type = "LIT"      -> IF state < 4 THEN 0 ELSE IF state < 10 THEN state - 3 ELSE state - 6
    [] type = "MATCH"    -> IF state < 7 THEN 7 ELSE state + 3
    [] type = "SHORTREP" -> IF state < 7 THEN 9 ELSE 11
    [] OTHER             -> IF state < 7 THEN 8 ELSE 11

NextState(state, type) ==
  CASE type = "LIT"      -> IF state < 4 THEN 0 ELSE IF state < 10 THEN state - 3 ELSE state - 6
    [] type = "MATCH"    -> IF state < 7 THEN 7 ELSE 10
    [] type = "SHORTREP" -> IF state < 7 THEN 9 ELSE 11
    [] OTHER             -> IF state < 7 THEN 8 ELSE 11

LitStates == 0 .. 6
Previous(text, pos) == IF pos = 0 THEN 0 ELSE text[pos]

(* The table a length and a distance slot are coded by. *)
LenTable(type)  == <<"len", type # "MATCH">>
SlotTable(len)  == <<"slot", IF len > 5 THEN 3 ELSE len - 2>>
Extra(slot)     == (slot \div 2) - 1

-----------------------------------------------------------------------------
(* The match search.                                                        *)

NoMatch == [len |-> 0, dist |-> 0]
None    == [wait |-> 0, match |-> NoMatch]

(* The n bytes from pos are those dist before them. *)
Agree(pos, dist, n) ==
  /\ dist <= pos /\ pos + n <= Len(src)
  /\ \A i \in 1 .. n : src[pos + i] = src[pos + i - dist]

(* The longest match at each distance. *)
Matches(pos) ==
  {m \in [len : 2 .. MaxLen, dist : 1 .. MaxDist] :
     /\ Agree(pos, m.dist, m.len)
     /\ m.len = MaxLen \/ ~Agree(pos, m.dist, m.len + 1)}

(* Which of them lzSearch finds hangs on the hash table and on the scores.  *)
(* It finds none only if no repeated distance has one.                      *)
Offers(pos) ==
  Matches(pos) \cup
    (IF \E i \in 1 .. 4 : Agree(pos, enc.reps[i], 2) THEN {} ELSE {NoMatch})

(* lzSearchRep with a limit of two bytes. *)
TwoByRep(pos) ==
  LET fit == {i \in 1 .. 4 : Agree(pos, enc.reps[i], 2)}
  IN  IF fit = {} THEN NoMatch
      ELSE [len |-> 2, dist |-> enc.reps[CHOOSE i \in fit : \A j \in fit : i <= j]]

-----------------------------------------------------------------------------
(* A packet as the encoder makes it.                                        *)

Coded(table, value) == [table |-> table, value |-> value]

TypeBits(type) ==
  CASE type = "LIT"  -> <<0>>          [] type = "MATCH"    -> <<1, 0>>
    [] type = "REP0" -> <<1, 1, 0, 1>> [] type = "SHORTREP" -> <<1, 1, 0, 0>>
    [] type = "REP1" -> <<1, 1, 1, 0>> [] type = "REP2"     -> <<1, 1, 1, 1, 0>>
    [] OTHER         -> <<1, 1, 1, 1, 1>>

CodedLiteral ==
  LET previous == Previous(src, enc.pos)
  IN  Coded(IF enc.state \in LitStates THEN <<"literal", previous>>
            ELSE <<"matched", previous, src[enc.pos - enc.reps[1] + 1]>>,
            src[enc.pos + 1])

CodedLen(type, len) ==
  Coded(LenTable(type),
        CASE len < 2 + Lows        -> <<0, len - 2>>
          [] len >= 2 + Lows + Mids -> <<1, 1, len - 2 - Lows - Mids>>
          [] OTHER                 -> <<1, 0, len - 2 - Lows>>)

Slot(d) ==
  IF d < 4 THEN d
  ELSE LET n == CHOOSE n \in 1 .. DistBits : Power[n] <= d /\ d < 2 * Power[n]
       IN  2 * n + ((d \div Power[n - 1]) % 2)

LowTopFirst(d, n) == [i \in 1 .. n |-> (d \div Power[n - i]) % 2]  \* a mutant: not reversed
LowFirst(d, n) == [i \in 1 .. n |-> (d \div Power[i - 1]) % 2]     \* bitsReverse

(* A mutant: the distance is coded as it is, not one less. *)
CodedDistWhole(len, dist) ==
  LET slot   == Slot(dist)
      extra  == Extra(slot)
      coded  == Coded(SlotTable(len), slot)
      fixed  == (dist \div Power[AlignBits]) % Power[extra - AlignBits]
  IN  IF slot < 4 THEN <<coded>>
      ELSE IF slot < AlignedFrom
      THEN <<coded, Coded(<<"special", slot>>, LowFirst(dist, extra))>>
      ELSE <<coded, Coded(<<"fixed">>, fixed), Coded(<<"align">>, LowFirst(dist, AlignBits))>>

CodedDist(len, dist) ==
  LET d      == dist - 1
      slot   == Slot(d)
      extra  == Extra(slot)
      coded  == Coded(SlotTable(len), slot)
      fixed  == (d \div Power[AlignBits]) % Power[extra - AlignBits]
  IN  IF slot < 4 THEN <<coded>>
      ELSE IF slot < AlignedFrom
      THEN <<coded, Coded(<<"special", slot>>, LowFirst(d, extra))>>
      ELSE <<coded, Coded(<<"fixed">>, fixed), Coded(<<"align">>, LowFirst(d, AlignBits))>>

TypeOf(found) ==
  LET hits == {i \in 1 .. 4 : enc.reps[i] = found.dist}
  IN  IF found.len < 2
      THEN IF Agree(enc.pos, enc.reps[1], 1) THEN "SHORTREP" ELSE "LIT"
      ELSE IF hits = {} THEN "MATCH"
      ELSE <<"REP0", "REP1", "REP2", "REP3">>[CHOOSE i \in hits : \A j \in hits : i <= j]

Packet(type, found) ==
  LET kind == Coded(<<"type", enc.state>>, TypeBits(type))
      long == <<kind, CodedLen(type, found.len)>>
  IN  CASE type = "LIT"      -> <<kind, CodedLiteral>>
        [] type = "SHORTREP" -> <<kind>>
        [] type = "MATCH"    -> long \o CodedDist(found.len, found.dist)
        [] OTHER             -> long

EncReps(type, dist) ==
  LET r == enc.reps
  IN  CASE type = "REP1" -> <<dist, r[1], r[3], r[4]>>
        [] type = "REP2" -> <<dist, r[1], r[2], r[4]>>
        [] type \in {"REP3", "MATCH"} -> <<dist, r[1], r[2], r[3]>>
        [] OTHER -> r

-----------------------------------------------------------------------------
(* One round of the loop of lzmaEncode.                                     *)

Encoding == /\ result = "going" /\ packet = <<>> /\ copy.len = 0 /\ enc.pos < Len(src)
            /\ UNCHANGED <<src, dec, copy, result>>

Send(found) ==
  LET type == TypeOf(found)
  IN  /\ packet' = Packet(type, found)
      /\ enc' = [pos   |-> enc.pos + Bytes(type, found.len),
                 state |-> NextState(enc.state, type),
                 reps  |-> EncReps(type, found.dist)]

PassOver ==
  /\ Encoding /\ later.wait > 0
  /\ Send(NoMatch) /\ later' = [later EXCEPT !.wait = @ - 1]

TakeDeferred ==
  /\ Encoding /\ later.wait = 0 /\ later.match.len > 0
  /\ Send(later.match) /\ later' = None

Searching  == Encoding /\ later = None
Hesitating == Len(src) - enc.pos > LookAhead   \* (src_len - pos) > 8

TakeNow == /\ Searching
           /\ \E found \in Offers(enc.pos) : Send(found)
           /\ UNCHANGED later

DeferByOne ==
  /\ Searching /\ Hesitating /\ \E found \in Offers(enc.pos) : found.len >= 2
  /\ \E match \in Offers(enc.pos + 1) : later' = [wait |-> 0, match |-> match]
  /\ Send(NoMatch)

WaitAlways(found) == 1   \* a mutant: as if nothing ever filled the gap
Wait(found) == IF found.len < 2 THEN 1 ELSE 0

DeferByTwo ==
  /\ Searching /\ Hesitating /\ \E found \in Offers(enc.pos) : found.len >= 3
  /\ LET filler == TwoByRep(enc.pos)
     IN  /\ \E match \in Offers(enc.pos + 2) :
              later' = [wait |-> Wait(filler), match |-> match]
         /\ Send(filler)

-----------------------------------------------------------------------------
(* One round of the loop of lzmaDecode.                                     *)

DecPos == Len(dec.text)

DecodedType(bits) ==
  CASE bits[1] = 0 -> "LIT"
    [] bits[1] = 1 /\ bits[2] = 0 -> "MATCH"
    [] OTHER -> IF bits[3] = 0 THEN IF bits[4] = 1 THEN "REP0" ELSE "SHORTREP"
                ELSE IF bits[4] = 0 THEN "REP1"
                ELSE IF bits[5] = 1 THEN "REP3" ELSE "REP2"

LiteralTable ==
  LET previous == Previous(dec.text, DecPos)
      rep0     == dec.reps[1]
  IN  IF dec.state \in LitStates THEN <<"literal", previous>>
      ELSE <<"matched", previous, IF DecPos >= rep0 THEN dec.text[DecPos - rep0 + 1] ELSE 0>>

DecodedLen(value) ==
  IF value[1] = 0 THEN 2 + value[2]
  ELSE IF value[2] = 0 THEN 2 + Lows + value[3] ELSE 2 + Lows + Mids + value[3]

(* The number with these bits (bitsReverse, again). *)
FromLowFirst(bits) ==
  CHOOSE d \in 0 .. Power[Len(bits)] - 1 :
    \A i \in 1 .. Len(bits) : bits[i] = (d \div Power[i - 1]) % 2

DecodedDist ==
  LET slot == packet[3].value
      top  == (2 + (slot % 2)) * Power[Extra(slot)]
  IN  1 + (IF slot < 4 THEN slot
           ELSE IF slot < AlignedFrom THEN top + FromLowFirst(packet[4].value)
           ELSE top + packet[4].value * Power[AlignBits] + FromLowFirst(packet[5].value))

(* What the decoder reads of the packet. *)
Type == DecodedType(packet[1].value)
Length == IF Type \in {"LIT", "SHORTREP"} THEN 1 ELSE DecodedLen(packet[2].value)
Distance ==
  CASE Type = "LIT"   -> 0
    [] Type = "MATCH" -> DecodedDist
    [] Type = "REP1"  -> dec.reps[2]
    [] Type = "REP2"  -> dec.reps[3]
    [] Type = "REP3"  -> dec.reps[4]
    [] OTHER          -> dec.reps[1]

(* The tables it reads it with. *)
DistTables(slot) ==
  IF slot < 4 THEN <<>>
  ELSE IF slot < AlignedFrom THEN << <<"special", slot>> >>
  ELSE << <<"fixed">>, <<"align">> >>

Tables ==
  LET kind == <<"type", dec.state>>
  IN  CASE Type = "LIT"      -> <<kind, LiteralTable>>
        [] Type = "SHORTREP" -> <<kind>>
        [] Type = "MATCH"    -> <<kind, LenTable(Type), SlotTable(Length)>>
                                  \o DistTables(packet[3].value)
        [] OTHER             -> <<kind, LenTable(Type)>>

(* A mutant: rep3 falls behind when the third distance is repeated. *)
DecRepsShort(type, dist) ==
  LET r == dec.reps
  IN  << IF type = "LIT" THEN r[1] ELSE dist,
         IF type \in {"MATCH", "REP3", "REP2", "REP1"} THEN r[1] ELSE r[2],
         IF type \in {"MATCH", "REP3"} THEN r[2] ELSE r[3],
         IF type \in {"MATCH", "REP3"} THEN r[3] ELSE r[4] >>

DecReps(type, dist) ==
  LET r == dec.reps
  IN  << IF type = "LIT" THEN r[1] ELSE dist,
         IF type \in {"MATCH", "REP3", "REP2", "REP1"} THEN r[1] ELSE r[2],
         IF type \in {"MATCH", "REP3", "REP2"} THEN r[2] ELSE r[3],
         IF type \in {"MATCH", "REP3"} THEN r[3] ELSE r[4] >>

(* A symbol read with another table than it was coded by is any symbol, and *)
(* all that follow: the decoder is lost.  *p_dst_len is the length of the   *)
(* text, which the header holds.                                            *)
Understood == Tables = [i \in DOMAIN packet |-> packet[i].table]
Verdict == IF ~Understood THEN "lost"
           ELSE IF Distance > DecPos THEN "R_ERR_DATA"
           ELSE IF DecPos + Length > Len(src) THEN "R_ERR_OUTPUT_OVERFLOW"
           ELSE "going"

Decode ==
  /\ result = "going" /\ copy.len = 0 /\ DecPos < Len(src) /\ packet # <<>>
  /\ result' = Verdict
  /\ packet' = <<>>
  /\ IF Verdict # "going" THEN UNCHANGED <<dec, copy>>
     ELSE /\ dec' = [dec EXCEPT !.state = NextState(@, Type), !.reps = DecReps(Type, Distance)]
          /\ copy' = [len |-> Length, dist |-> Distance,
                      byte |-> IF Type = "LIT" THEN packet[2].value ELSE copy.byte]
  /\ UNCHANGED <<src, enc, later>>

(* p_dst[pos] = prev_byte = p_dst[pos - dist], once a literal is in place.  *)
CopyByte ==
  /\ copy.len > 0
  /\ LET byte == IF copy.dist = 0 THEN copy.byte ELSE dec.text[DecPos - copy.dist + 1]
     IN  /\ dec' = [dec EXCEPT !.text = Append(@, byte)]
         /\ copy' = [copy EXCEPT !.len = @ - 1, !.byte = byte]
  /\ UNCHANGED <<src, enc, later, packet, result>>

Return ==
  /\ result = "going" /\ copy.len = 0 /\ DecPos >= Len(src)
  /\ result' = "ok"
  /\ UNCHANGED <<src, enc, later, packet, dec, copy>>

Ended == result # "going" /\ UNCHANGED vars

-----------------------------------------------------------------------------

Init ==
  /\ src \in Texts
  /\ enc = [pos |-> 0, state |-> 0, reps |-> <<1, 1, 1, 1>>]
  /\ later = None /\ packet = <<>>
  /\ dec = [text |-> <<>>, state |-> 0, reps |-> <<1, 1, 1, 1>>]
  /\ copy = [len |-> 0, dist |-> 0, byte |-> 0]
  /\ result = "going"

Coding == \/ PassOver \/ TakeDeferred \/ TakeNow \/ DeferByOne \/ DeferByTwo
          \/ Decode \/ CopyByte \/ Return
Next == Coding \/ Ended

Spec == Init /\ [][Next]_vars /\ WF_vars(Coding)

-----------------------------------------------------------------------------
(* What must hold.                                                          *)

Reps == [1 .. 4 -> Nat \ {0}]

(* Both states stay below N_STATES, and nothing leaves its range.           *)
TypeOK ==
  /\ src \in Texts
  /\ enc \in [pos : 0 .. Len(src), state : 0 .. 11, reps : Reps]
  /\ later \in [wait : {0, 1}, match : [len : 0 .. MaxLen, dist : 0 .. MaxDist]]
  /\ dec \in [text : Seq(Nat), state : 0 .. 11, reps : Reps]
  /\ copy \in [len : 0 .. MaxLen, dist : Nat, byte : Nat]
  /\ result \in {"going", "ok", "lost", "R_ERR_DATA", "R_ERR_OUTPUT_OVERFLOW"}

(* A match found one or two bytes ahead and put off (len_bypass,            *)
(* dist_bypass) is still one at the place it is coded for, whatever was     *)
(* coded in between.                                                        *)
DeferredHolds ==
  later.match.len > 0 => Agree(enc.pos + later.wait, later.match.dist, later.match.len)

(* Between packets both sides are in the same state, with the same repeated *)
(* distances and the same text, and the decoder reads a packet with the     *)
(* tables it was coded by.                                                  *)
InStep ==
  /\ packet = <<>> /\ copy.len = 0 /\ result = "going" =>
       /\ dec.state = enc.state /\ dec.reps = enc.reps
       /\ dec.text = SubSeq(src, 1, enc.pos)
  /\ packet # <<>> => Understood

(* lzmaDecode never refuses what lzmaEncode made: no distance reaches       *)
(* before the text, no length past its end.                                 *)
NeverRefused == result \in {"going", "ok"}

(* The text given to tinyLzmaCompress is the text tinyLzmaDecompress        *)
(* returns (tests/run_tests.py compares them), whichever matches the search *)
(* comes up with.                                                           *)
Nothing == <<>>
Codec == INSTANCE Lossless WITH
  Values   <- Texts,
  Refused  <- Nothing,
  given    <- src,
  returned <- IF result = "ok" THEN dec.text ELSE Nothing,
  short    <- FALSE
RoundTrip == Codec!Spec
=============================================================================
