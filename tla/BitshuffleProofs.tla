---------------------------- MODULE BitshuffleProofs ----------------------------
(***************************************************************************)
(* The two levels of the bitshuffle pipeline.                              *)
(*                                                                         *)
(* Pipeline: for every set of texts, element sizes, buffers and codec, its *)
(* variables stay typed, and where no buffer can be too short and no       *)
(* allocation fails the text comes back.                                   *)
(*                                                                         *)
(* BitTranspose: for every set of blocks and of builds, the workers that a *)
(* build calls one after the other store in every byte of their buffers,   *)
(* no two loops of a worker in the same one, a shuffled block is the       *)
(* transpose of the bit matrix, and an unshuffled one is the block again.  *)
(* Each loop is shown to store what a function of the buffer it reads has  *)
(* (Covers), and the loops of a worker to share out its buffer (Works);    *)
(* the functions compose to the transpose and back.                        *)
(***************************************************************************)
EXTENDS Pipeline, BitTranspose, DivModFacts, FiniteSetTheorems, FunctionTheorems, TLAPS

(* What makes a stream readable: it was shuffled by the element size in its *)
(* header, its length is the text's with the header's padding and a whole   *)
(* number of elements, and it is cut only where Short allows it.            *)
Describes(b) ==
  /\ b.stream.by = b.es /\ b.stream.size = Size[text] + b.pad
  /\ b.stream.size % b.es = 0 /\ b.stream.size \in Given
  /\ b.stream.whole \/ Short

(* Some stream is kept after the first element size, unless memory ran out. *)
KeptDescribed ==
  /\ best # NoBest => Describes(best)
  /\ (prog \in Shuffling /\ es > 1 /\ best = NoBest) => oom

InArchive ==
  pc \in {"read", "unshuffle", "parse"} => Describes(archive)

(* Where Short does not excuse it, the buffer holds the decoded stream.     *)
DecodedRight ==
  (pc \in {"unshuffle", "parse"} /\ ~Short) =>
    decoded.ok /\ decoded.len = archive.stream.size

NotYet == pc # "done" => result = NoText

PipelineInv == TypeOK /\ KeptDescribed /\ InArchive /\ DecodedRight /\ NotYet
-----------------------------------------------------------------------------
(* Padding.                                                                 *)

(* A padded text is a whole number of elements, and less than one longer.   *)
LEMMA PaddedWhole ==
  ASSUME NEW n \in Nat, NEW e \in Nat \ {0}
  PROVE  Pad(n, e) \in 0 .. e - 1 /\ Padded(n, e) \in Nat /\ Padded(n, e) % e = 0
<1>1. n % e \in 0 .. e - 1 /\ n \div e \in Nat /\ n = e * (n \div e) + (n % e)
  BY DivMod
<1>2. CASE n % e = 0
  BY <1>2 DEF Pad, Padded
<1>3. CASE n % e # 0
  <2> DEFINE q == n \div e
             r == n % e
  <2>1. Pad(n, e) = e - r /\ Padded(n, e) = n + (e - r)
    BY <1>3 DEF Pad, Padded
  <2>2. r \in 1 .. e - 1 /\ q \in Nat /\ n = e * q + r
    BY <1>1, <1>3
  <2> HIDE DEF q, r
  <2>3. n + (e - r) = e * (q + 1) + 0
    BY <2>2
  <2>4. n + (e - r) \in Nat /\ q + 1 \in Int /\ 0 \in 0 .. e - 1
    BY <2>2
  <2>5. (n + (e - r)) % e = 0
    BY <2>3, <2>4, RemainderIs
  <2> QED
    BY <2>1, <2>2, <2>4, <2>5
<1> QED
  BY <1>2, <1>3

(* Elements of one byte need no padding. *)
LEMMA PaddedByOne ==
  ASSUME NEW n \in Nat
  PROVE  Padded(n, 1) = n /\ n % 1 = 0
<1>1. n % 1 = 0
  BY DivMod
<1> QED
  BY <1>1 DEF Padded, Pad

LEMMA RoomNat == ASSUME NEW n \in Nat PROVE Room(n) \in Nat
<1>1. n \div 4 \in Nat
  BY DivMod
<1> QED
  BY <1>1, PipelineAssumption DEF Room

(* The streams of one element size, and what each of them lacks.            *)
LEMMA StreamsMade ==
  ASSUME prog \in Programs, oom \in BOOLEAN,
         NEW e \in 1 .. MaxEs, NEW n \in Lengths, n \in Nat,
         NEW s \in Compressed(n, e)
  PROVE  /\ s \in Streams /\ s.by = e /\ s.size = n /\ s.len < SizeMax
         /\ ~s.whole => oom \/ (prog \in Buffered /\ Longest(n) > Room(n))
<1>1. Longest(n) \in Nat /\ Longest(n) < SizeMax /\ Room(n) < SizeMax /\ SizeMax \in Nat
  BY PipelineAssumption
<1>2. Room(n) \in Nat
  BY RoomNat
<1>3. CASE s \in Whole(n, e)
  <2>1. PICK l \in 1 .. Longest(n) : s = [by |-> e, size |-> n, len |-> l, whole |-> TRUE]
    BY <1>3 DEF Whole
  <2> QED
    BY <2>1, <1>1 DEF Streams
<1>4. CASE s \in Cut(n, e)
  <2>1. /\ s = [by |-> e, size |-> n, len |-> Room(n), whole |-> FALSE]
        /\ oom \/ (prog \in Buffered /\ Longest(n) > Room(n))
    BY <1>4 DEF Cut
  <2> QED
    BY <2>1, <1>1, <1>2 DEF Streams
<1> QED
  BY <1>3, <1>4 DEF Compressed

LEMMA Constants ==
  ASSUME TypeOK
  PROVE  /\ Size[text] \in Nat \ {0} /\ MaxEs \in Nat \ {0}
         /\ Padded(Size[text], 1) = Size[text]
         /\ \A e \in 1 .. MaxEs : Padded(Size[text], e) \in Lengths
<1>1. Size[text] \in Nat \ {0} /\ MaxEs \in Nat \ {0}
  BY PipelineAssumption DEF TypeOK
<1>2. \A e \in 1 .. MaxEs : Padded(Size[text], e) \in Lengths
  BY DEF TypeOK, Lengths
<1> QED
  BY <1>1, <1>2, PaddedByOne

(* What a stream made from the text, padded for e, is when it is kept.      *)
LEMMA MadeDescribed ==
  ASSUME TypeOK, NEW e \in 1 .. MaxEs, NEW s \in Compressed(Padded(Size[text], e), e),
         prog \in Shuffling \/ e = 1
  PROVE  LET b == [es |-> e, pad |-> Pad(Size[text], e), stream |-> s]
         IN  /\ b \in [es : 1..MaxEs, pad : 0..(MaxEs - 1), stream : Streams]
             /\ Describes(b) /\ s.len < SizeMax
<1> DEFINE n == Padded(Size[text], e)
           b == [es |-> e, pad |-> Pad(Size[text], e), stream |-> s]
<1>1. Size[text] \in Nat /\ e \in Nat \ {0} /\ MaxEs \in Nat
  BY Constants
<1>2. Pad(Size[text], e) \in 0 .. e - 1 /\ n \in Nat /\ n % e = 0
  BY <1>1, PaddedWhole
<1>3. n \in Lengths
  BY Constants
<1>4. n = Size[text] + Pad(Size[text], e)
  BY DEF Padded
<1>5. n \in Given
  BY Constants DEF Given
<1> HIDE DEF n
<1>6. s \in Compressed(n, e)
  BY DEF n
<1>7. /\ s \in Streams /\ s.by = e /\ s.size = n /\ s.len < SizeMax
      /\ ~s.whole => oom \/ (prog \in Buffered /\ Longest(n) > Room(n))
  BY <1>2, <1>3, <1>6, StreamsMade DEF TypeOK
<1>8. s.whole \/ Short
  BY <1>5, <1>7 DEF Short, Streams
<1>9. b.es = e /\ b.pad = Pad(Size[text], e) /\ b.stream = s
  OBVIOUS
<1>10. Describes(b)
  BY <1>2, <1>4, <1>5, <1>7, <1>8, <1>9 DEF Describes
<1>11. Pad(Size[text], e) \in 0 .. MaxEs - 1
  BY <1>1, <1>2
<1>12. b \in [es : 1..MaxEs, pad : 0..(MaxEs - 1), stream : Streams]
  BY <1>7, <1>11
<1> QED
  BY <1>7, <1>10, <1>12
-----------------------------------------------------------------------------
(* The invariant.                                                           *)

Bests == [es : 1..MaxEs, pad : 0..(MaxEs - 1), stream : Streams]
Archives == [es : 0..(TwoBytes - 1), pad : 0..(FourBytes - 1), stream : Streams]

LEMMA ConstantsSmall ==
  /\ MaxEs \in Nat \ {0} /\ TwoBytes \in Nat /\ FourBytes \in Nat
  /\ MaxEs < TwoBytes /\ TwoBytes <= FourBytes /\ SizeMax \in Nat
BY PipelineAssumption

(* The header's words hold what is put into them. *)
LEMMA HeaderHolds ==
  ASSUME NEW b \in Bests
  PROVE  Header(b) = b /\ b \in Archives
<1>1. /\ b.es \in 1 .. MaxEs /\ b.pad \in 0 .. (MaxEs - 1) /\ b.stream \in Streams
      /\ b = [es |-> b.es, pad |-> b.pad, stream |-> b.stream]
  BY DEF Bests
<1>2. b.es % TwoBytes = b.es
  BY <1>1, ConstantsSmall
<1>3. b.pad % FourBytes = b.pad
  BY <1>1, ConstantsSmall
<1>4. b.es \in 0 .. (TwoBytes - 1) /\ b.pad \in 0 .. (FourBytes - 1)
  BY <1>1, ConstantsSmall
<1> QED
  BY <1>1, <1>2, <1>3, <1>4 DEF Header, Archives

LEMMA NoBestTyped == NoBest \in Bests /\ NoBest \in Archives /\ NoBest.stream.len = SizeMax
<1>1. NoStream \in Streams /\ NoStream.len = SizeMax
  BY ConstantsSmall DEF NoStream, Streams
<1>2. /\ 1 \in 1 .. MaxEs /\ 0 \in 0 .. (MaxEs - 1)
      /\ 1 \in 0 .. (TwoBytes - 1) /\ 0 \in 0 .. (FourBytes - 1)
  BY ConstantsSmall
<1> QED
  BY <1>1, <1>2 DEF NoBest, Bests, Archives

LEMMA InitIInv == Init => PipelineInv
<1> SUFFICES ASSUME Init PROVE PipelineInv
  OBVIOUS
<1>1. TypeOK
  BY NoBestTyped, ConstantsSmall DEF Init, TypeOK, Bests, Archives
<1>2. KeptDescribed
  BY DEF Init, KeptDescribed
<1>3. InArchive /\ DecodedRight /\ NotYet
  BY DEF Init, InArchive, DecodedRight, NotYet
<1> QED
  BY <1>1, <1>2, <1>3 DEF PipelineInv

LEMMA TryKeeps == ASSUME PipelineInv, TryElemSize PROVE PipelineInv'
<1>1. /\ pc = "try" /\ prog \in Shuffling /\ es <= MaxEs /\ es' = es + 1
      /\ UNCHANGED <<prog, text, oom, pc, archive, decoded, result>>
  BY DEF TryElemSize
<1>2. PICK s \in Compressed(Padded(Size[text], es), es) :
        best' = IF s.len < best.stream.len THEN Keep(s) ELSE best
  BY DEF TryElemSize
<1>3. TypeOK /\ KeptDescribed /\ NotYet
  BY DEF PipelineInv
<1>4. es \in 1 .. MaxEs
  BY <1>1, <1>3, ConstantsSmall DEF TypeOK
<1>5. Keep(s) \in Bests /\ Describes(Keep(s)) /\ s.len < SizeMax
  BY <1>1, <1>3, <1>4, MadeDescribed DEF Keep, Bests
<1>6. Keep(s).stream = s
  BY DEF Keep
<1>7. best' \in Bests
  BY <1>2, <1>3, <1>5 DEF TypeOK, Bests
<1>8. TypeOK'
  BY <1>1, <1>3, <1>4, <1>7, ConstantsSmall DEF TypeOK, Bests
<1>9. best' # NoBest
  <2>1. s.len \in Nat /\ SizeMax \in Nat
    BY <1>5, <1>6, ConstantsSmall DEF Bests, Streams
  <2>2. CASE s.len < best.stream.len
    BY <2>1, <2>2, <1>2, <1>5, <1>6, NoBestTyped
  <2>3. CASE ~(s.len < best.stream.len)
    BY <2>1, <2>3, <1>2, <1>5, NoBestTyped
  <2> QED
    BY <2>2, <2>3
<1>10. Describes(best')
  <2>1. CASE s.len < best.stream.len
    BY <2>1, <1>2, <1>5
  <2>2. CASE ~(s.len < best.stream.len)
    BY <2>2, <1>2, <1>3, <1>9 DEF KeptDescribed
  <2> QED
    BY <2>1, <2>2
<1>11. KeptDescribed'
  BY <1>1, <1>9, <1>10 DEF KeptDescribed, Describes, Short, Given
<1>12. InArchive' /\ DecodedRight' /\ NotYet'
  BY <1>1, <1>3 DEF InArchive, DecodedRight, NotYet
<1> QED
  BY <1>8, <1>11, <1>12 DEF PipelineInv

LEMMA SkipKeeps == ASSUME PipelineInv, SkipElemSize PROVE PipelineInv'
<1>1. /\ pc = "try" /\ es <= MaxEs /\ oom /\ es' = es + 1
      /\ UNCHANGED <<prog, text, oom, pc, best, archive, decoded, result>>
  BY DEF SkipElemSize
<1>2. TypeOK'
  BY <1>1, ConstantsSmall DEF PipelineInv, TypeOK
<1>3. KeptDescribed'
  BY <1>1 DEF PipelineInv, KeptDescribed, Describes, Short, Given
<1>4. InArchive' /\ DecodedRight' /\ NotYet'
  BY <1>1 DEF PipelineInv, InArchive, DecodedRight, NotYet
<1> QED
  BY <1>2, <1>3, <1>4 DEF PipelineInv

LEMMA AssembleKeeps == ASSUME PipelineInv, Assemble PROVE PipelineInv'
<1>1. /\ pc = "try" /\ best # NoBest /\ archive' = Header(best) /\ pc' = "read"
      /\ UNCHANGED <<prog, text, oom, es, best, decoded, result>>
  BY DEF Assemble
<1>2. TypeOK /\ KeptDescribed /\ NotYet
  BY DEF PipelineInv
<1>3. best \in Bests /\ Describes(best)
  BY <1>1, <1>2 DEF TypeOK, KeptDescribed, Bests
<1>4. archive' = best /\ archive' \in Archives
  BY <1>1, <1>3, HeaderHolds
<1>5. TypeOK'
  BY <1>1, <1>2, <1>4 DEF TypeOK, Archives
<1>6. KeptDescribed'
  BY <1>1, <1>2 DEF KeptDescribed, Describes, Short, Given
<1>7. InArchive'
  BY <1>1, <1>3, <1>4 DEF InArchive, Describes, Short, Given
<1>8. DecodedRight' /\ NotYet'
  BY <1>1, <1>2 DEF DecodedRight, NotYet
<1> QED
  BY <1>5, <1>6, <1>7, <1>8 DEF PipelineInv

LEMMA CompressKeeps == ASSUME PipelineInv, Compress PROVE PipelineInv'
<1>1. /\ pc = "try" /\ prog \notin Shuffling /\ pc' = "read"
      /\ UNCHANGED <<prog, text, oom, es, best, decoded, result>>
  BY DEF Compress
<1>2. PICK s \in Compressed(Size[text], 1) : archive' = [es |-> 1, pad |-> 0, stream |-> s]
  BY DEF Compress
<1>3. TypeOK /\ KeptDescribed /\ NotYet
  BY DEF PipelineInv
<1>4. 1 \in 1 .. MaxEs /\ Padded(Size[text], 1) = Size[text] /\ Size[text] \in Nat
  BY <1>3, Constants
<1>5. Pad(Size[text], 1) = 0
  BY <1>4, PaddedByOne DEF Pad
<1>6. archive' \in Bests /\ Describes(archive')
  BY <1>2, <1>3, <1>4, <1>5, MadeDescribed DEF Bests
<1>7. archive' \in Archives
  BY <1>6, HeaderHolds
<1>8. TypeOK'
  BY <1>1, <1>3, <1>7 DEF TypeOK, Archives
<1>9. KeptDescribed'
  BY <1>1, <1>3 DEF KeptDescribed, Describes, Short, Given
<1>10. InArchive'
  BY <1>1, <1>6 DEF InArchive, Describes, Short, Given
<1>11. DecodedRight' /\ NotYet'
  BY <1>1, <1>3 DEF DecodedRight, NotYet
<1> QED
  BY <1>8, <1>9, <1>10, <1>11 DEF PipelineInv
LEMMA DecompressKeeps == ASSUME PipelineInv, Decompress PROVE PipelineInv'
<1>1. /\ pc = "read" /\ decoded' \in Decoded(archive.stream)
      /\ pc' = IF prog \in Shuffling THEN "unshuffle" ELSE "parse"
      /\ UNCHANGED <<prog, text, oom, es, best, archive, result>>
  BY DEF Decompress
<1>2. TypeOK /\ KeptDescribed /\ InArchive /\ NotYet
  BY DEF PipelineInv
<1>3. Describes(archive) /\ archive.stream \in Streams
  BY <1>1, <1>2 DEF InArchive, TypeOK
<1>4. Refuses(archive.stream) => decoded' = [len |-> Cap, ok |-> FALSE]
  BY <1>1 DEF Decoded
<1>5. ~Refuses(archive.stream) =>
        /\ decoded' \in [len : 0..archive.stream.size, ok : BOOLEAN]
        /\ decoded'.ok => decoded'.len = archive.stream.size
        /\ (archive.stream.whole /\ ~oom) => decoded'.ok
  BY <1>1 DEF Decoded
<1>6. decoded' \in [len : Nat, ok : BOOLEAN]
  <2>1. Cap \in Nat /\ archive.stream.size \in Nat
    BY <1>3, PipelineAssumption DEF Streams
  <2>2. 0..archive.stream.size \subseteq Nat
    BY <2>1
  <2>3. CASE Refuses(archive.stream)
    <3>1. decoded' = [len |-> Cap, ok |-> FALSE]
      BY <2>3, <1>4
    <3> QED
      BY <2>1, <3>1
  <2>4. CASE ~Refuses(archive.stream)
    BY <2>2, <2>4, <1>5
  <2> QED
    BY <2>3, <2>4
<1>7. TypeOK'
  BY <1>1, <1>2, <1>6 DEF TypeOK
<1>8. KeptDescribed' /\ InArchive' /\ NotYet'
  BY <1>1, <1>2, <1>3 DEF KeptDescribed, InArchive, NotYet, Describes, Short, Given
<1>9. ~Short => ~oom /\ archive.stream.whole /\ ~Refuses(archive.stream)
  BY <1>3 DEF Describes, Short, Refuses
<1>10. ~Short => decoded'.ok /\ decoded'.len = archive.stream.size
  BY <1>5, <1>9
<1>11. DecodedRight'
  BY <1>1, <1>10 DEF DecodedRight, Short, Given
<1> QED
  BY <1>7, <1>8, <1>11 DEF PipelineInv

LEMMA UnshuffleKeeps == ASSUME PipelineInv, Unshuffle PROVE PipelineInv'
<1>1. /\ pc = "unshuffle" /\ pc' = "parse"
      /\ UNCHANGED <<prog, text, oom, es, best, archive, result>>
  BY DEF Unshuffle
<1>2. TypeOK /\ KeptDescribed /\ InArchive /\ DecodedRight /\ NotYet
  BY DEF PipelineInv
<1>3. PICK done \in {TRUE, ~oom} :
        decoded' = [decoded EXCEPT !.ok = decoded.ok /\ done /\ Undoes]
  BY DEF Unshuffle
<1>4. /\ decoded' \in [len : Nat, ok : BOOLEAN] /\ decoded'.len = decoded.len
      /\ decoded'.ok <=> (decoded.ok /\ done /\ Undoes)
  BY <1>2, <1>3 DEF TypeOK
<1>5. TypeOK'
  BY <1>1, <1>2, <1>4 DEF TypeOK
<1>6. KeptDescribed' /\ InArchive' /\ NotYet'
  BY <1>1, <1>2 DEF KeptDescribed, InArchive, NotYet, Describes, Short, Given
<1>7. ASSUME ~Short PROVE decoded'.ok /\ decoded'.len = archive.stream.size
  <2>1. decoded.ok /\ decoded.len = archive.stream.size /\ ~oom
    BY <1>1, <1>2, <1>7 DEF DecodedRight, Short
  <2>2. Undoes
    BY <1>1, <1>2, <2>1 DEF Undoes, InArchive, Describes
  <2> QED
    BY <1>4, <2>1, <2>2
<1>8. DecodedRight'
  BY <1>1, <1>7 DEF DecodedRight, Short, Given
<1> QED
  BY <1>5, <1>6, <1>8 DEF PipelineInv

(* Where nothing excuses a loss, the bytes left without the padding are the *)
(* text's, and it comes back.                                               *)
LEMMA ParseReturns ==
  ASSUME PipelineInv, Parse
  PROVE  /\ result' \in {text, Lost} /\ pc' = "done"
         /\ result' = text \/ (result' = Lost /\ Short)
<1>1. CASE Short
  BY <1>1 DEF Parse
<1>2. CASE ~Short
  <2>1. decoded.ok /\ decoded.len = archive.stream.size
    BY <1>2 DEF Parse, PipelineInv, DecodedRight
  <2>2. archive.stream.size = Size[text] + archive.pad
    BY DEF Parse, PipelineInv, InArchive, Describes
  <2>3. Size[text] \in Nat /\ archive.pad \in Nat
    BY Constants, ConstantsSmall DEF PipelineInv, TypeOK
  <2>4. Left = Size[text]
    BY <2>1, <2>2, <2>3 DEF Left
  <2> QED
    BY <2>1, <2>4 DEF Parse
<1> QED
  BY <1>1, <1>2

(* The steps that end the program leave what it holds.                      *)
LEMMA EndKeeps ==
  ASSUME PipelineInv, pc' = "done", result' \in {text, Lost},
         UNCHANGED <<prog, text, oom, es, best, archive, decoded>>
  PROVE  PipelineInv'
<1>1. TypeOK'
  BY DEF PipelineInv, TypeOK
<1>2. KeptDescribed'
  BY DEF PipelineInv, KeptDescribed, Describes, Short, Given
<1> QED
  BY <1>1, <1>2 DEF PipelineInv, InArchive, DecodedRight, NotYet

LEMMA NextIInv == ASSUME PipelineInv, [Next]_vars PROVE PipelineInv'
<1>1. CASE UNCHANGED vars
  <2>1. TypeOK'
    BY <1>1 DEF PipelineInv, TypeOK, vars
  <2>2. KeptDescribed'
    BY <1>1 DEF PipelineInv, KeptDescribed, Describes, Short, Given, vars
  <2>3. InArchive'
    BY <1>1 DEF PipelineInv, InArchive, Describes, Short, Given, vars
  <2>4. DecodedRight' /\ NotYet'
    BY <1>1 DEF PipelineInv, DecodedRight, NotYet, Short, Given, vars
  <2> QED
    BY <2>1, <2>2, <2>3, <2>4 DEF PipelineInv
<1>2. CASE Parse
  <2>1. UNCHANGED <<prog, text, oom, es, best, archive, decoded>>
    BY <1>2 DEF Parse
  <2> QED
    BY <1>2, <2>1, ParseReturns, EndKeeps
<1>3. CASE Wrap
  BY <1>3, EndKeeps DEF Wrap
<1>4. CASE Abort
  BY <1>4, EndKeeps DEF Abort
<1> QED
  BY <1>1, <1>2, <1>3, <1>4, TryKeeps, SkipKeeps, AssembleKeeps, CompressKeeps,
     DecompressKeeps, UnshuffleKeeps DEF Next, Stopped

LEMMA Invariance == Spec => []PipelineInv
BY InitIInv, NextIInv, PTL DEF Spec

-----------------------------------------------------------------------------
(* Theorems.                                                                *)

(* Element sizes stay between 1 and MaxEs, padding is less than an element, *)
(* header words and lengths keep their width.                               *)
THEOREM TypeCorrect == Spec => []TypeOK
BY Invariance, PTL DEF PipelineInv

(* Once all element sizes were tried there is a stream, unless memory ran   *)
(* out.                                                                     *)
LEMMA WrapExcused == ASSUME PipelineInv, Wrap PROVE Short
<1>1. es > 1
  BY ConstantsSmall DEF Wrap, PipelineInv, TypeOK
<1> QED
  BY <1>1 DEF Wrap, PipelineInv, KeptDescribed, Short

(* A step of the program is a step of Lossless or leaves what it speaks of. *)
LEMMA StepRefines == ASSUME PipelineInv, [Next]_vars PROVE [Promise!Next]_(Promise!lVars)
<1> USE DEF Promise!Next, Promise!Return, Promise!Refuse, Promise!lVars
<1>1. CASE Parse
  <2>1. result = NoText /\ UNCHANGED <<text, Short>>
    BY <1>1 DEF Parse, PipelineInv, NotYet, Short, Given
  <2> QED
    BY <1>1, <2>1, ParseReturns
<1>2. CASE Wrap
  <2>1. result = NoText /\ UNCHANGED <<text, Short>> /\ result' = Lost
    BY <1>2 DEF Wrap, PipelineInv, NotYet, Short, Given
  <2> QED
    BY <1>2, <2>1, WrapExcused
<1>3. CASE Abort
  <2>1. result = NoText /\ UNCHANGED <<text, Short>> /\ result' = Lost /\ Short
    BY <1>3 DEF Abort, PipelineInv, NotYet, Short, Given
  <2> QED
    BY <2>1
<1>4. CASE UNCHANGED <<prog, text, oom, result>>
  BY <1>4 DEF Short, Given
<1> QED
  BY <1>1, <1>2, <1>3, <1>4 DEF Next, TryElemSize, SkipElemSize, Assemble, Compress,
     Decompress, Unshuffle, Stopped, vars

LEMMA InitRefines == ASSUME Init PROVE Promise!Init
<1>1. Short \in BOOLEAN
  BY DEF Short, Init
<1> QED
  BY <1>1 DEF Init, Promise!Init

(* The safety part of RoundTrip: whatever comes back is the text, once, and *)
(* it is lost only where a buffer may be too short or memory may run out.   *)
THEOREM ComesBack == Spec => Promise!Init /\ [][Promise!Next]_(Promise!lVars)
<1>1. PipelineInv /\ [Next]_vars => [Promise!Next]_(Promise!lVars)
  BY StepRefines
<1> QED
  BY <1>1, InitRefines, Invariance, PTL DEF Spec

-----------------------------------------------------------------------------
-----------------------------------------------------------------------------
(* Stores.                                                                  *)

(* W stores in every address of A what F has there, and stores nothing else. *)
Covers(W, F, A) ==
  /\ \A s \in W : s[1] \in A /\ s = <<s[1], F[s[1]]>>
  /\ \A a \in A : <<a, F[a]>> \in W

LEMMA CoversSame ==
  ASSUME NEW W, NEW F, NEW A, NEW B, Covers(W, F, A), A = B
  PROVE  Covers(W, F, B)
BY DEF Covers

(* The loops of a worker cover A together, and each byte of it is stored by *)
(* one of them only.                                                        *)
Works(W, F, A) == Covers(Stores(W), F, A) /\ DisjointLoops(W)

LEMMA NoLoop == ASSUME NEW F PROVE Works(<<>>, F, {})
BY DEF Works, Covers, Stores, DisjointLoops

LEMMA OneLoop ==
  ASSUME NEW L, NEW F, NEW A, Covers(L, F, A)
  PROVE  Works(<<L>>, F, A)
<1>1. Stores(<<L>>) = L
  BY DEF Stores
<1>2. DisjointLoops(<<L>>)
  BY DEF DisjointLoops
<1> QED BY <1>1, <1>2 DEF Works

(* Where a loop covers A, its addresses are A. *)
LEMMA AddressesCovered ==
  ASSUME NEW L, NEW F, NEW A, Covers(L, F, A)
  PROVE  Addresses(L) = A
BY DEF Covers, Addresses

(* A wide loop and its remainder, where one ends before the other starts.   *)
LEMMA TwoLoops ==
  ASSUME NEW L, NEW M, NEW F, NEW A, NEW B, Covers(L, F, A), Covers(M, F, B), A \intersect B = {}
  PROVE  Works(<<L, M>>, F, A \union B)
<1>1. Stores(<<L, M>>) = L \union M
  BY DEF Stores
<1>2. Covers(L \union M, F, A \union B)
  BY DEF Covers
<1>3. Addresses(L) \intersect Addresses(M) = {}
  BY AddressesCovered
<1>4. DisjointLoops(<<L, M>>)
  BY <1>3 DEF DisjointLoops
<1> QED BY <1>1, <1>2, <1>4 DEF Works

LEMMA ThreeLoops ==
  ASSUME NEW L, NEW M, NEW N, NEW F, NEW A, NEW B, NEW C,
         Covers(L, F, A), Covers(M, F, B), Covers(N, F, C),
         A \intersect B = {}, A \intersect C = {}, B \intersect C = {}
  PROVE  Works(<<L, M, N>>, F, A \union (B \union C))
<1>1. Stores(<<L, M, N>>) = L \union (M \union N)
  BY DEF Stores
<1>2. Covers(L \union (M \union N), F, A \union (B \union C))
  BY DEF Covers
<1>3. /\ Addresses(L) \intersect Addresses(M) = {} /\ Addresses(L) \intersect Addresses(N) = {}
      /\ Addresses(M) \intersect Addresses(N) = {}
  BY AddressesCovered
<1>4. DisjointLoops(<<L, M, N>>)
  BY <1>3 DEF DisjointLoops
<1> QED BY <1>1, <1>2, <1>4 DEF Works

(* A loop whose stores agree with a function has as many as addresses.      *)
LEMMA StoresAgree ==
  ASSUME NEW F, NEW A, IsFiniteSet(A), NEW L, \A s \in L : s[1] \in A /\ s = <<s[1], F[s[1]]>>
  PROVE  Cardinality(Addresses(L)) = Cardinality(L)
<1> DEFINE S == Addresses(L)
           f == [a \in S |-> <<a, F[a]>>]
<1>1. S = {s[1] : s \in L} /\ S \subseteq A
  BY DEF Addresses
<1>2. IsFiniteSet(S)
  BY <1>1, FS_Subset
<1>3. \A a \in S : <<a, F[a]>> \in L
  BY <1>1
<1> HIDE DEF S
<1>4. f \in Bijection(S, L)
  <2>1. f \in [S -> L]
    BY <1>3
  <2>2. \A a, b \in S : f[a] = f[b] => a = b
    OBVIOUS
  <2>3. \A w \in L : \E a \in S : f[a] = w
    <3> SUFFICES ASSUME NEW w \in L PROVE \E a \in S : f[a] = w
      OBVIOUS
    <3>1. w[1] \in S /\ f[w[1]] = w
      BY <1>1
    <3> QED BY <3>1
  <2> HIDE DEF f
  <2> QED BY <2>1, <2>2, <2>3, Fun_IsBij
<1>5. ExistsBijection(S, L)
  BY <1>4 DEF ExistsBijection
<1> QED BY <1>2, <1>5, FS_Bijection DEF S

(* A worker that covers a buffer leaves the function in it, and none of its *)
(* stores strays.                                                           *)
LEMMA PutWorks ==
  ASSUME NEW N \in Nat, NEW m, DOMAIN m = 0 .. (N - 1),
         NEW F, F = [a \in 0 .. (N - 1) |-> F[a]], NEW W, Works(W, F, 0 .. (N - 1))
  PROVE  Put(m, W) = F /\ ~ Strays(m, W)
<1> DEFINE S == 0 .. (N - 1)
           all == Stores(W)
<1>1. \A s \in all : s[1] \in S /\ s = <<s[1], F[s[1]]>>
  BY DEF Covers, Works
<1>2. \A a \in S : <<a, F[a]>> \in all
  BY DEF Covers, Works
<1> HIDE DEF all
<1>3. ASSUME NEW a \in S PROVE {w \in all : w[1] = a} = {<<a, F[a]>>}
  BY <1>1, <1>2
<1>4. ASSUME NEW a \in S
      PROVE  (IF {w \in all : w[1] = a} = {} THEN m[a]
              ELSE (CHOOSE w \in {w \in all : w[1] = a} : TRUE)[2]) = F[a]
  <2>1. (CHOOSE w \in {<<a, F[a]>>} : TRUE) = <<a, F[a]>>
    OBVIOUS
  <2> QED BY <1>3, <2>1
<1>5. Put(m, W) = F
  <2>1. Put(m, W) = [a \in S |-> F[a]]
    BY <1>4 DEF Put, all
  <2> QED BY <2>1
<1>6. Addresses(all) = S
  BY <1>1, <1>2 DEF Addresses
<1>7. ASSUME NEW l \in DOMAIN W PROVE Cardinality(Addresses(W[l])) = Cardinality(W[l])
  <2>1. \A s \in W[l] : s[1] \in S /\ s = <<s[1], F[s[1]]>>
    <3>1. W[l] \subseteq all
      BY DEF all, Stores
    <3> QED BY <1>1, <3>1
  <2>2. IsFiniteSet(S)
    <3>1. 0 \in Int /\ N - 1 \in Int
      OBVIOUS
    <3> QED BY <3>1, FS_Interval
  <2> HIDE DEF S
  <2> QED BY <2>1, <2>2, StoresAgree
<1>8. DisjointLoops(W)
  BY DEF Works
<1> QED BY <1>5, <1>6, <1>7, <1>8 DEF Strays, all

-----------------------------------------------------------------------------
(* Rows and columns: place y of row x, when a row has n places.             *)

Cell(x, n, y) == (x * n) + y

(* Place y of row x is in the buffer, and division finds both again.        *)
LEMMA Grid ==
  ASSUME NEW p \in Nat, NEW q \in Nat, NEW x \in 0 .. (p - 1), NEW y \in 0 .. (q - 1)
  PROVE  /\ Cell(x, q, y) \in 0 .. ((p * q) - 1)
         /\ Cell(x, q, y) \div q = x /\ Cell(x, q, y) % q = y
<1>1. q > 0 /\ x \in Nat /\ y \in Nat /\ x * q \in Nat /\ p * q \in Nat /\ y <= q - 1
  OBVIOUS
<1>2. (p - 1 - x) * q \in Nat /\ (p - 1 - x) * q = (p * q) - q - (x * q)
  <2>1. p - 1 - x \in Nat
    OBVIOUS
  <2>2. \A u, v, w \in Int : (u - 1 - v) * w = (u * w) - w - (v * w)
    OBVIOUS
  <2>3. \A u, v \in Nat : u * v \in Nat
    OBVIOUS
  <2> QED BY <2>1, <2>2, <2>3
<1> DEFINE a == (x * q) + y
<1>3. a \in 0 .. ((p * q) - 1)
  <2> DEFINE xq == x * q
             pq == p * q
  <2>1. xq \in Nat /\ pq \in Nat /\ pq - q - xq >= 0
    BY <1>1, <1>2
  <2> HIDE DEF xq, pq
  <2>2. xq + y \in 0 .. (pq - 1)
    BY <1>1, <2>1
  <2> QED BY <2>2 DEF xq, pq
<1>4. a = (q * x) + y /\ a \in Nat
  BY <1>1, <1>3
<1>5. a % q = y
  <2> HIDE DEF a
  <2> QED BY <1>1, <1>4, RemainderIs
<1>6. a \div q = x
  <2> HIDE DEF a
  <2>1. a = (q * (a \div q)) + (a % q) /\ a \div q \in Nat
    BY <1>1, <1>4, DivMod
  <2> DEFINE d == a \div q
  <2>2. q * d = q * x /\ d \in Nat
    BY <1>1, <1>4, <1>5, <2>1
  <2> HIDE DEF d
  <2>3. q * (d - x) = 0 /\ d - x \in Int
    BY <1>1, <2>2
  <2>4. d - x = 0
    BY <1>1, <2>3, SmallMultiple
  <2> QED BY <1>1, <2>2, <2>4 DEF d
<1> QED BY <1>3, <1>5, <1>6 DEF Cell

(* Every place of a buffer of rows is some place of some row.               *)
LEMMA OnGrid ==
  ASSUME NEW p \in Nat, NEW q \in Nat, NEW a \in 0 .. ((p * q) - 1)
  PROVE  /\ a \div q \in 0 .. (p - 1) /\ a % q \in 0 .. (q - 1)
         /\ a = Cell(a \div q, q, a % q) /\ q > 0 /\ p > 0
<1>1. q > 0 /\ p > 0
  <2>1. q = 0 => p * q = 0
    OBVIOUS
  <2>2. p = 0 => p * q = 0
    OBVIOUS
  <2>3. p * q \in Nat
    OBVIOUS
  <2> DEFINE pq == p * q
  <2> HIDE DEF pq
  <2> QED BY <2>1, <2>2, <2>3 DEF pq
<1> DEFINE d == a \div q
           r == a % q
<1>2. a \in Nat
  OBVIOUS
<1>3. d \in Nat /\ r \in 0 .. (q - 1) /\ a = (q * d) + r
  BY <1>1, <1>2, DivMod
<1>4. a < p * q
  <2>1. p * q \in Nat
    OBVIOUS
  <2> DEFINE pq == p * q
  <2> HIDE DEF pq
  <2> QED BY <2>1 DEF pq
<1> HIDE DEF d, r, Cell
<1>5. d < p
  <2> SUFFICES ASSUME d >= p PROVE FALSE
    BY <1>3
  <2>1. (d - p) * q \in Nat /\ (d - p) * q = (q * d) - (p * q)
    <3>1. d - p \in Nat
      BY <1>3
    <3>2. \A u, v, w \in Int : (u - v) * w = (w * u) - (v * w)
      OBVIOUS
    <3>3. \A u, v \in Nat : u * v \in Nat
      OBVIOUS
    <3> QED BY <1>3, <3>1, <3>2, <3>3
  <2> DEFINE qd == q * d
             pq == p * q
  <2>2. qd \in Nat /\ pq \in Nat /\ qd - pq >= 0 /\ a = qd + r /\ a < pq
    BY <1>3, <1>4, <2>1
  <2> HIDE DEF qd, pq
  <2> QED BY <1>3, <2>2
<1>6. a = (d * q) + r
  BY <1>3
<1> QED BY <1>1, <1>3, <1>5, <1>6 DEF d, r, Cell

(* A loop that strides covers what lies before its remainder. *)
LEMMA Striding ==
  ASSUME NEW a \in Nat, NEW b \in Nat, NEW n \in Nat, n > 0, a <= b
  PROVE  /\ (b - a) % n \in 0 .. (n - 1) /\ b - ((b - a) % n) >= a
         /\ \A ii \in Strides(a, b, n) : \A t \in 0 .. (n - 1) :
              ii + t \in a .. (b - ((b - a) % n) - 1)
         /\ \A x \in a .. (b - ((b - a) % n) - 1) :
              \E ii \in Strides(a, b, n) : \E t \in 0 .. (n - 1) : x = ii + t
<1> DEFINE c == b - a
           q == c \div n
           r == c % n
<1>1. c \in Nat /\ q \in Nat /\ r \in 0 .. (n - 1) /\ c = (n * q) + r
  BY DivMod
<1> DEFINE nq == n * q
<1>2. nq \in Nat /\ c = nq + r
  BY <1>1
<1>3. nq = q * n
  BY <1>1
<1>4. b = (a + nq) + r
  BY <1>2
<1>5. ASSUME NEW ii \in Strides(a, b, n)
      PROVE  ii \in a .. ((a + nq) - n)
  <2>1. ii \in a .. (b - n) /\ (ii - a) % n = 0 /\ ii \in Nat
    BY DEF Strides
  <2> DEFINE d == (ii - a) \div n
             nd == n * d
  <2>2. ii - a \in Nat /\ d \in Nat /\ ii - a = nd
    BY <2>1, DivMod
  <2>3. nd <= (nq + r) - n
    BY <1>2, <1>4, <2>1, <2>2
  <2> HIDE DEF d, q, r, c
  <2>4. d < q
    <3> SUFFICES ASSUME d >= q PROVE FALSE
      BY <1>1, <2>2
    <3>1. n * (d - q) >= 0 /\ n * (d - q) = nd - nq
      <4>1. d - q \in Nat
        BY <1>1, <2>2
      <4>2. n * (d - q) \in Nat
        BY <4>1
      <4> QED BY <1>1, <2>2, <4>2
    <3> HIDE DEF nd, nq
    <3>2. nd \in Nat
      BY <2>1, <2>2
    <3> QED BY <1>1, <1>2, <2>3, <3>1, <3>2
  <2>5. n * (q - 1 - d) >= 0 /\ n * (q - 1 - d) = nq - n - nd
    <3>1. q - 1 - d \in Nat
      BY <1>1, <2>2, <2>4
    <3>2. n * (q - 1 - d) \in Nat
      BY <3>1
    <3>3. \A u, v, w \in Int : u * (v - 1 - w) = (u * v) - u - (u * w)
      OBVIOUS
    <3> QED BY <1>1, <2>2, <3>2, <3>3
  <2> HIDE DEF nd, nq
  <2> QED BY <1>2, <2>1, <2>2, <2>5
<1>6. ASSUME NEW x \in a .. ((a + nq) - 1)
      PROVE  \E ii \in Strides(a, b, n) : \E t \in 0 .. (n - 1) : x = ii + t
  <2> DEFINE y == x - a
             d == y \div n
             t == y % n
             nd == n * d
  <2>1. y \in 0 .. ((q * n) - 1)
    BY <1>2, <1>3
  <2>2. d \in 0 .. (q - 1) /\ t \in 0 .. (n - 1) /\ y = nd + t /\ d \in Nat
    <3> HIDE DEF y, q
    <3>1. d \in 0 .. (q - 1) /\ t \in 0 .. (n - 1) /\ y = (d * n) + t
      BY <1>1, <2>1, OnGrid DEF Cell
    <3> QED BY <3>1
  <2>3. nd \in Nat /\ nd <= nq - n
    <3> HIDE DEF d, q, t, y
    <3>1. q - 1 - d \in Nat
      BY <1>1, <2>2
    <3>2. n * (q - 1 - d) \in Nat
      BY <3>1
    <3>3. \A u, v, w \in Int : u * (v - 1 - w) = (u * v) - u - (u * w)
      OBVIOUS
    <3>4. n * (q - 1 - d) = nq - n - nd /\ nd \in Nat
      BY <1>1, <2>2, <3>3
    <3> HIDE DEF nd, nq
    <3> QED BY <1>2, <3>2, <3>4
  <2> DEFINE ii == a + nd
  <2>4. (ii - a) % n = 0
    <3>1. ii - a = nd /\ nd = n * d
      BY <2>3
    <3>2. nd % n = 0
      <4> HIDE DEF d
      <4> QED BY <2>2, <2>3, RemainderIs
    <3> QED BY <3>1, <3>2
  <2>5. ii \in a .. (b - n)
    <3> HIDE DEF nd, nq, c, q, r
    <3> QED BY <1>1, <1>2, <1>4, <2>3
  <2>6. ii \in Strides(a, b, n)
    BY <2>4, <2>5 DEF Strides
  <2>7. x = ii + t
    BY <2>2, <2>3
  <2> HIDE DEF ii, t
  <2> QED BY <2>2, <2>6, <2>7
<1>7. b - r = a + nq
  BY <1>1, <1>2, <1>4
<1>8. ASSUME NEW ii \in Strides(a, b, n), NEW t \in 0 .. (n - 1)
      PROVE  ii + t \in a .. ((a + nq) - 1)
  BY <1>2, <1>5
<1> HIDE DEF nq, q
<1>9. r \in 0 .. (n - 1) /\ b - r >= a
  BY <1>1, <1>2, <1>7
<1> QED BY <1>6, <1>7, <1>8, <1>9

(* What a striding loop touches lies before its remainder.                  *)
LEMMA StridesIn ==
  ASSUME NEW a \in Nat, NEW b \in Nat, NEW n \in Nat, n > 0, a <= b,
         NEW ii \in Strides(a, b, n), NEW t \in 0 .. (n - 1)
  PROVE  ii \in Nat /\ (ii - a) % n = 0 /\ ii >= a /\ ii + t \in a .. (b - ((b - a) % n) - 1)
<1>1. ii \in Nat /\ (ii - a) % n = 0 /\ ii >= a
  BY DEF Strides
<1>2. \A i \in Strides(a, b, n) : \A k \in 0 .. (n - 1) :
              i + k \in a .. (b - ((b - a) % n) - 1)
  BY Striding
<1> QED BY <1>1, <1>2

(* A striding loop reaches everything before its remainder.                 *)
LEMMA StridesReach ==
  ASSUME NEW a \in Nat, NEW b \in Nat, NEW n \in Nat, n > 0, a <= b,
         NEW x \in a .. (b - ((b - a) % n) - 1)
  PROVE  \E ii \in Strides(a, b, n) : \E t \in 0 .. (n - 1) : x = ii + t
<1> DEFINE R == a .. (b - ((b - a) % n) - 1)
           S == Strides(a, b, n)
           T == 0 .. (n - 1)
<1>1. \A y \in R : \E ii \in S : \E t \in T : y = ii + t
  BY Striding
<1>2. x \in R
  OBVIOUS
<1> HIDE DEF R, S, T
<1>3. \E ii \in S : \E t \in T : x = ii + t
  BY <1>1, <1>2
<1> QED BY <1>3 DEF S, T

(* Two nested loops. *)
Rect(n, J, I) == {Cell(j, n, i) : j \in J, i \in I}

LEMMA OfRect ==
  ASSUME NEW n, NEW J, NEW I, NEW a \in Rect(n, J, I)
  PROVE  \E j \in J : \E i \in I : a = Cell(j, n, i)
BY DEF Rect

LEMMA InRect ==
  ASSUME NEW n, NEW J, NEW I, NEW j \in J, NEW i \in I
  PROVE  Cell(j, n, i) \in Rect(n, J, I)
BY DEF Rect

(* All rows and all columns are the whole buffer.                           *)
LEMMA RectAll ==
  ASSUME NEW n \in Nat, NEW e \in Nat
  PROVE  Rect(n, 0 .. (e - 1), 0 .. (n - 1)) = 0 .. (n * e - 1)
<1> DEFINE J == 0 .. (e - 1)
           I == 0 .. (n - 1)
           A == 0 .. (n * e - 1)
<1>1. n * e = e * n
  OBVIOUS
<1>2. ASSUME NEW a \in Rect(n, J, I) PROVE a \in A
  <2> HIDE DEF J, I, A
  <2>1. PICK j \in J, i \in I : a = Cell(j, n, i)
    BY OfRect
  <2> QED BY <1>1, <2>1, Grid DEF J, I, A
<1>3. ASSUME NEW a \in A PROVE a \in Rect(n, J, I)
  <2>1. a \in 0 .. (e * n - 1)
    BY <1>1
  <2> DEFINE x == a \div n
             y == a % n
  <2>2. x \in J /\ y \in I /\ a = Cell(x, n, y)
    BY <2>1, OnGrid
  <2> HIDE DEF x, y, J, I
  <2>3. Cell(x, n, y) \in Rect(n, J, I)
    BY <2>2, InRect
  <2> QED BY <2>2, <2>3
<1> HIDE DEF J, I, A
<1>4. Rect(n, J, I) = A
  BY <1>2, <1>3
<1> QED BY <1>4 DEF J, I, A

(* Two nested loops that store what they should cover their rectangle.      *)
LEMMA RectCovers ==
  ASSUME NEW W, NEW F, NEW n, NEW J, NEW I,
         \A s \in W : \E j \in J : \E i \in I : s = <<Cell(j, n, i), F[Cell(j, n, i)]>>,
         \A j \in J : \A i \in I : <<Cell(j, n, i), F[Cell(j, n, i)]>> \in W
  PROVE  Covers(W, F, Rect(n, J, I))
<1>1. ASSUME NEW s \in W PROVE s[1] \in Rect(n, J, I) /\ s = <<s[1], F[s[1]]>>
  <2>1. PICK j \in J, i \in I : s = <<Cell(j, n, i), F[Cell(j, n, i)]>>
    OBVIOUS
  <2> DEFINE x == Cell(j, n, i)
  <2>2. x \in Rect(n, J, I)
    BY DEF Rect
  <2> HIDE DEF x
  <2>3. s = <<x, F[x]>>
    BY <2>1 DEF x
  <2> QED BY <2>2, <2>3
<1>2. ASSUME NEW a \in Rect(n, J, I) PROVE <<a, F[a]>> \in W
  <2>1. PICK j \in J, i \in I : a = Cell(j, n, i)
    BY DEF Rect
  <2> QED BY <2>1
<1> QED BY <1>1, <1>2 DEF Covers

(* A place is in one row and one column only.                               *)
LEMMA CellOnce ==
  ASSUME NEW n \in Nat, NEW x \in Nat, NEW z \in Nat, NEW y \in 0 .. (n - 1), NEW t \in 0 .. (n - 1),
         Cell(x, n, y) = Cell(z, n, t)
  PROVE  x = z /\ y = t
<1> DEFINE p == x + z + 1
<1>1. p \in Nat /\ x \in 0 .. (p - 1) /\ z \in 0 .. (p - 1)
  OBVIOUS
<1> HIDE DEF p
<1>2. Cell(x, n, y) \div n = x /\ Cell(x, n, y) % n = y
  BY <1>1, Grid
<1>3. Cell(z, n, t) \div n = z /\ Cell(z, n, t) % n = t
  BY <1>1, Grid
<1> QED BY <1>2, <1>3

(* Rectangles that share no column share no place, nor do those that share  *)
(* no row.                                                                  *)
LEMMA RectColumnsApart ==
  ASSUME NEW n \in Nat, NEW J, \A j \in J : j \in Nat,
         NEW I, NEW K, I \intersect K = {}, \A i \in I \union K : i \in 0 .. (n - 1)
  PROVE  Rect(n, J, I) \intersect Rect(n, J, K) = {}
<1>1. ASSUME NEW x \in J, NEW y \in I, NEW z \in J, NEW t \in K, Cell(x, n, y) = Cell(z, n, t)
      PROVE  FALSE
  <2>1. x \in Nat /\ z \in Nat /\ y \in 0 .. (n - 1) /\ t \in 0 .. (n - 1)
    OBVIOUS
  <2>2. y = t
    BY <1>1, <2>1, CellOnce
  <2> QED BY <2>2
<1> QED BY <1>1 DEF Rect

LEMMA RectRowsApart ==
  ASSUME NEW n \in Nat, NEW I, \A i \in I : i \in 0 .. (n - 1),
         NEW J, NEW K, J \intersect K = {}, \A j \in J \union K : j \in Nat
  PROVE  Rect(n, J, I) \intersect Rect(n, K, I) = {}
<1>1. ASSUME NEW x \in J, NEW y \in I, NEW z \in K, NEW t \in I, Cell(x, n, y) = Cell(z, n, t)
      PROVE  FALSE
  <2>1. x \in Nat /\ z \in Nat /\ y \in 0 .. (n - 1) /\ t \in 0 .. (n - 1)
    OBVIOUS
  <2>2. x = z
    BY <1>1, <2>1, CellOnce
  <2> QED BY <2>2
<1> QED BY <1>1 DEF Rect

(* A wide loop over columns and its remainder share out both.               *)
LEMMA RectJoinColumns ==
  ASSUME NEW W, NEW V, NEW F, NEW n \in Nat, NEW J, J \subseteq Nat, NEW I, I \subseteq 0 .. (n - 1),
         NEW K, K \subseteq 0 .. (n - 1), I \intersect K = {},
         Covers(W, F, Rect(n, J, I)), Covers(V, F, Rect(n, J, K))
  PROVE  Works(<<W, V>>, F, Rect(n, J, I \union K))
<1>1. Rect(n, J, I) \union Rect(n, J, K) = Rect(n, J, I \union K)
  BY DEF Rect
<1>2. Works(<<W, V>>, F, Rect(n, J, I) \union Rect(n, J, K))
  BY RectColumnsApart, TwoLoops
<1> QED BY <1>1, <1>2

(* The same for rows.                                                       *)
LEMMA RectJoinRows ==
  ASSUME NEW W, NEW V, NEW F, NEW n \in Nat, NEW J, J \subseteq Nat, NEW K, K \subseteq Nat,
         J \intersect K = {}, NEW I, I \subseteq 0 .. (n - 1),
         Covers(W, F, Rect(n, J, I)), Covers(V, F, Rect(n, K, I))
  PROVE  Works(<<W, V>>, F, Rect(n, J \union K, I))
<1>1. Rect(n, J, I) \union Rect(n, K, I) = Rect(n, J \union K, I)
  BY DEF Rect
<1>2. Works(<<W, V>>, F, Rect(n, J, I) \union Rect(n, K, I))
  BY RectRowsApart, TwoLoops
<1> QED BY <1>1, <1>2

-----------------------------------------------------------------------------
(* What the workers compute, as a function of the buffer they read.         *)

(* Elements of w bytes: the transpose of a matrix of lda rows and ldb columns. *)
Transpose(m, lda, ldb, w) ==
  [a \in 0 .. ((ldb * lda) * w - 1) |->
     m[Cell(Cell((a \div w) % lda, ldb, (a \div w) \div lda), w, a % w)]]

(* Bytes: byte j of element i to place i of row j. *)
ByteTrans(m, n, e) == [a \in 0 .. (n * e - 1) |-> m[Cell(a % n, e, a \div n)]]

(* Bits: bit k of eight bytes in a row to byte k. *)
Lane == 0 .. 7
BitAt(m, t, k) == m[t][k]
EightBits(m, t, k) == [b \in 0 .. 7 |-> BitAt(m, Cell(t, 8, b), k)]

BitTrans(m, row) ==
  [a \in 0 .. (8 * row - 1) |-> EightBits(m, a % row, a \div row)]

(* The same within eight elements of e bytes. *)
Eights(m, row, e) ==
  [a \in 0 .. (row * (8 * e) - 1) |->
     EightBits(m, Cell(a \div (8 * e), e, (a % (8 * e)) % e), (a % (8 * e)) \div e)]

(* Byte j of element i comes to place i of row j.                           *)
LEMMA ByteTransAt ==
  ASSUME NEW m, NEW n \in Nat, NEW e \in Nat, NEW j \in 0 .. (e - 1), NEW i \in 0 .. (n - 1)
  PROVE  /\ Cell(j, n, i) \in 0 .. (n * e - 1)
         /\ ByteTrans(m, n, e)[Cell(j, n, i)] = m[Cell(i, e, j)]
<1> DEFINE a == Cell(j, n, i)
<1>1. a \in 0 .. (e * n - 1) /\ a \div n = j /\ a % n = i
  BY Grid
<1>2. e * n = n * e
  OBVIOUS
<1> HIDE DEF a
<1>3. a \in 0 .. (n * e - 1)
  BY <1>1, <1>2
<1>4. ByteTrans(m, n, e)[a] = m[Cell(a % n, e, a \div n)]
  BY <1>3 DEF ByteTrans
<1> QED BY <1>1, <1>3, <1>4 DEF a

LEMMA ByteTransValue ==
  ASSUME NEW m, NEW n \in Nat, NEW e \in Nat, NEW j \in 0 .. (e - 1), NEW i \in 0 .. (n - 1)
  PROVE  ByteTrans(m, n, e)[Cell(j, n, i)] = m[Cell(i, e, j)]
BY ByteTransAt

(* Element (ii, jj) comes to (jj, ii), byte by byte.                        *)
LEMMA TransposeAt ==
  ASSUME NEW m, NEW lda \in Nat, NEW ldb \in Nat, NEW w \in Nat,
         NEW jj \in 0 .. (ldb - 1), NEW ii \in 0 .. (lda - 1), NEW b \in 0 .. (w - 1)
  PROVE  /\ Cell(Cell(jj, lda, ii), w, b) \in 0 .. ((ldb * lda) * w - 1)
         /\ Transpose(m, lda, ldb, w)[Cell(Cell(jj, lda, ii), w, b)] = m[Cell(Cell(ii, ldb, jj), w, b)]
<1> DEFINE q == Cell(jj, lda, ii)
           n == ldb * lda
           a == Cell(q, w, b)
<1>1. q \in 0 .. (n - 1) /\ q \div lda = jj /\ q % lda = ii /\ n \in Nat
  BY Grid
<1> HIDE DEF q, n
<1>2. a \in 0 .. (n * w - 1) /\ a \div w = q /\ a % w = b
  BY <1>1, Grid
<1> HIDE DEF a
<1>3. Transpose(m, lda, ldb, w)[a]
        = m[Cell(Cell((a \div w) % lda, ldb, (a \div w) \div lda), w, a % w)]
  BY <1>2 DEF Transpose, n
<1>4. Transpose(m, lda, ldb, w)[a] = m[Cell(Cell(ii, ldb, jj), w, b)]
  BY <1>1, <1>2, <1>3
<1> QED BY <1>2, <1>4 DEF a, q, n

LEMMA BitTransIn ==
  ASSUME NEW row \in Nat, NEW kk \in Lane, NEW t \in 0 .. (row - 1)
  PROVE  /\ Cell(kk, row, t) \in 0 .. (8 * row - 1)
         /\ Cell(kk, row, t) \div row = kk /\ Cell(kk, row, t) % row = t
<1> DEFINE o == 8
<1>1. o \in Nat /\ kk \in 0 .. (o - 1)
  BY DEF Lane
<1> HIDE DEF o
<1>2. /\ Cell(kk, row, t) \in 0 .. (o * row - 1)
      /\ Cell(kk, row, t) \div row = kk /\ Cell(kk, row, t) % row = t
  BY <1>1, Grid
<1> QED BY <1>2 DEF o

(* Byte t of bit row kk gathers bit kk of the eight bytes of group t.       *)
LEMMA BitTransAt ==
  ASSUME NEW m, NEW row \in Nat, NEW kk \in Lane, NEW t \in 0 .. (row - 1)
  PROVE  BitTrans(m, row)[Cell(kk, row, t)] = EightBits(m, t, kk)
<1> DEFINE a == Cell(kk, row, t)
<1>1. a \in 0 .. (8 * row - 1) /\ a \div row = kk /\ a % row = t
  BY BitTransIn
<1> HIDE DEF a
<1>2. BitTrans(m, row)[a] = EightBits(m, t, kk)
  BY <1>1 DEF BitTrans
<1> QED BY <1>2 DEF a

LEMMA EightsIn ==
  ASSUME NEW row \in Nat, NEW e \in Nat, NEW g \in 0 .. (row - 1), NEW kk \in Lane,
         NEW j \in 0 .. (e - 1)
  PROVE  /\ Cell(g, 8 * e, Cell(kk, e, j)) \in 0 .. (row * (8 * e) - 1)
         /\ Cell(g, 8 * e, Cell(kk, e, j)) \div (8 * e) = g
         /\ Cell(g, 8 * e, Cell(kk, e, j)) % (8 * e) = Cell(kk, e, j)
         /\ Cell(kk, e, j) \div e = kk /\ Cell(kk, e, j) % e = j
<1> DEFINE r == Cell(kk, e, j)
           ee == 8 * e
           a == Cell(g, ee, r)
<1>1. r \in 0 .. (ee - 1) /\ r \div e = kk /\ r % e = j /\ ee \in Nat
  BY BitTransIn
<1> HIDE DEF r, ee
<1>2. a \in 0 .. (row * ee - 1) /\ a \div ee = g /\ a % ee = r
  BY <1>1, Grid
<1> QED BY <1>1, <1>2 DEF r, ee

(* Byte j of element kk of group g gathers bit kk of eight bytes of the group. *)
LEMMA EightsAt ==
  ASSUME NEW m, NEW row \in Nat, NEW e \in Nat, NEW g \in 0 .. (row - 1), NEW kk \in Lane,
         NEW j \in 0 .. (e - 1)
  PROVE  Eights(m, row, e)[Cell(g, 8 * e, Cell(kk, e, j))] = EightBits(m, Cell(g, e, j), kk)
<1> DEFINE r == Cell(kk, e, j)
           a == Cell(g, 8 * e, r)
<1>1. /\ a \in 0 .. (row * (8 * e) - 1) /\ a \div (8 * e) = g /\ a % (8 * e) = r
      /\ r \div e = kk /\ r % e = j
  BY EightsIn
<1> HIDE DEF r, a
<1>2. Eights(m, row, e)[a] = EightBits(m, Cell(g, e, j), kk)
  BY <1>1 DEF Eights
<1> QED BY <1>2 DEF a, r

-----------------------------------------------------------------------------
(* Scalar workers that move bytes.                                          *)

LEMMA CopyCovers ==
  ASSUME NEW m, NEW n \in Nat
  PROVE  Covers(bshuf_copy(m, n, 1), ByteTrans(m, n, 1), 0 .. (n * 1 - 1))
<1> DEFINE F == ByteTrans(m, n, 1)
           A == 0 .. (n * 1 - 1)
<1>1. ASSUME NEW a \in A PROVE F[a] = m[a]
  <2> DEFINE o == 1
             z == 0
  <2>1. a \in 0 .. (n - 1) /\ z \in 0 .. (o - 1) /\ o \in Nat /\ a \in Nat
    OBVIOUS
  <2>2. Cell(z, n, a) = a /\ Cell(a, o, z) = a
    BY <2>1 DEF Cell
  <2>3. F = ByteTrans(m, n, o)
    OBVIOUS
  <2> HIDE DEF o, z, F, A
  <2>5. ByteTrans(m, n, o)[Cell(z, n, a)] = m[Cell(a, o, z)]
    BY <2>1, ByteTransValue
  <2>4. F[a] = m[a]
    BY <2>2, <2>3, <2>5
  <2> QED BY <2>4
<1>2. bshuf_copy(m, n, 1) = {<<a, m[a]>> : a \in A}
  BY DEF bshuf_copy
<1> HIDE DEF F, A
<1>3. Covers(bshuf_copy(m, n, 1), F, A)
  BY <1>1, <1>2 DEF Covers
<1> QED BY <1>3 DEF F, A

(* The loop over eight elements at a time and the one over what is left.    *)
LEMMA EightIn ==
  ASSUME NEW lo \in Nat, NEW n \in Nat, lo % 8 = 0, lo <= n,
         NEW ii \in Strides(lo, n, 8), NEW kk \in 0 .. 7
  PROVE  ii \in Nat /\ ii + kk \in lo .. (n - (n % 8) - 1)
<1>1. ii \in Nat /\ (ii - lo) % 8 = 0 /\ ii >= lo /\ ii + kk \in lo .. (n - ((n - lo) % 8) - 1)
  <2>1. kk \in 0 .. (8 - 1) /\ 8 \in Nat /\ 8 > 0
    OBVIOUS
  <2> QED BY <2>1, StridesIn
<1>2. (n - lo) % 8 = n % 8
  OBVIOUS
<1> QED BY <1>1, <1>2

(* Every element between them is in a group of eight.                       *)
LEMMA EightReach ==
  ASSUME NEW lo \in Nat, NEW n \in Nat, lo % 8 = 0, lo <= n, NEW i \in lo .. (n - (n % 8) - 1)
  PROVE  \E ii \in Strides(lo, n, 8) : \E kk \in 0 .. 7 : i = ii + kk
<1>1. (n - lo) % 8 = n % 8 /\ n % 8 \in 0 .. 7
  OBVIOUS
<1>2. i \in lo .. (n - ((n - lo) % 8) - 1)
  BY <1>1
<1>3. \E ii \in Strides(lo, n, 8) : \E t \in 0 .. (8 - 1) : i = ii + t
  <2>1. 8 \in Nat /\ 8 > 0
    OBVIOUS
  <2> QED BY <1>2, <2>1, StridesReach
<1>4. 8 - 1 = 7
  OBVIOUS
<1> QED BY <1>3, <1>4

(* Where the loop over what is left starts.                                 *)
LEMMA EightEnds ==
  ASSUME NEW lo \in Nat, NEW n \in Nat, lo % 8 = 0, lo <= n
  PROVE  n - (n % 8) \in lo .. n
OBVIOUS

(* The two loops of bshuf_trans_byte_elem_remainder.                        *)
ElemEights(m, n, e, lo) ==
  {<<jj * n + ii + kk, m[ii * e + kk * e + jj]>> :
     ii \in Strides(lo, n, 8), jj \in 0 .. (e - 1), kk \in 0 .. 7}
ElemLeft(m, n, e) ==
  {<<jj * n + ii, m[ii * e + jj]>> : ii \in (n - (n % 8)) .. (n - 1), jj \in 0 .. (e - 1)}

LEMMA RemainderIsLoops ==
  ASSUME NEW m, NEW n \in Nat, NEW e, NEW lo \in Nat, lo % 8 = 0
  PROVE  TransByteElemRemainder(m, n, e, lo)
           = IF n <= lo THEN <<>> ELSE <<ElemEights(m, n, e, lo), ElemLeft(m, n, e)>>
BY DEF TransByteElemRemainder, ElemEights, ElemLeft

LEMMA ElemEightsCover ==
  ASSUME NEW m, NEW n \in Nat, NEW e \in Nat, NEW lo \in Nat, lo % 8 = 0, lo <= n
  PROVE  Covers(ElemEights(m, n, e, lo), ByteTrans(m, n, e),
                Rect(n, 0 .. (e - 1), lo .. (n - (n % 8) - 1)))
<1> DEFINE F == ByteTrans(m, n, e)
           J == 0 .. (e - 1)
           I == lo .. (n - (n % 8) - 1)
           S == Strides(lo, n, 8)
           K == 0 .. 7
           W == ElemEights(m, n, e, lo)
<1>1. ASSUME NEW j \in J, NEW ii \in S, NEW kk \in K
      PROVE  /\ ii + kk \in I
             /\ <<j * n + ii + kk, m[ii * e + kk * e + j]>>
                  = <<Cell(j, n, ii + kk), F[Cell(j, n, ii + kk)]>>
  <2>1. ii \in Nat /\ ii + kk \in I
    BY EightIn
  <2>2. ii + kk \in 0 .. (n - 1)
    <3>1. n % 8 \in 0 .. 7
      OBVIOUS
    <3> QED BY <2>1, <3>1
  <2>3. kk \in Nat /\ j \in Nat
    OBVIOUS
  <2>4. F[Cell(j, n, ii + kk)] = m[Cell(ii + kk, e, j)]
    BY <2>2, ByteTransAt
  <2>5. Cell(j, n, ii + kk) = j * n + ii + kk
    <3> DEFINE x == j * n
    <3>1. x \in Nat
      BY <2>3
    <3> HIDE DEF x
    <3>2. x + (ii + kk) = x + ii + kk
      BY <2>1, <2>3, <3>1
    <3> QED BY <3>2 DEF x, Cell
  <2>6. Cell(ii + kk, e, j) = ii * e + kk * e + j
    <3>1. \A u, v, w \in Nat : (u + v) * w = u * w + v * w
      OBVIOUS
    <3> QED BY <2>1, <2>3, <3>1 DEF Cell
  <2> QED BY <2>1, <2>4, <2>5, <2>6
<1>2. ASSUME NEW i \in I PROVE \E ii \in S : \E kk \in K : i = ii + kk
  BY EightReach
<1>3. W = {<<jj * n + ii + kk, m[ii * e + kk * e + jj]>> : ii \in S, jj \in J, kk \in K}
  BY DEF ElemEights
<1> HIDE DEF I, J, S, K, W, F
<1>4. ASSUME NEW s \in W PROVE \E j \in J : \E i \in I : s = <<Cell(j, n, i), F[Cell(j, n, i)]>>
  <2>1. PICK ii \in S, j \in J, kk \in K : s = <<j * n + ii + kk, m[ii * e + kk * e + j]>>
    BY <1>3
  <2> DEFINE x == ii + kk
  <2>2. x \in I /\ s = <<Cell(j, n, x), F[Cell(j, n, x)]>>
    BY <1>1, <2>1
  <2> HIDE DEF x
  <2> QED BY <2>2
<1>5. ASSUME NEW j \in J, NEW i \in I PROVE <<Cell(j, n, i), F[Cell(j, n, i)]>> \in W
  <2>1. PICK ii \in S, kk \in K : i = ii + kk
    BY <1>2
  <2>2. <<Cell(j, n, i), F[Cell(j, n, i)]>> = <<j * n + ii + kk, m[ii * e + kk * e + j]>>
    BY <1>1, <2>1
  <2>3. <<j * n + ii + kk, m[ii * e + kk * e + j]>> \in W
    BY <1>3
  <2> QED BY <2>2, <2>3
<1>6. Covers(W, F, Rect(n, J, I))
  BY <1>4, <1>5, RectCovers
<1> QED BY <1>6 DEF I, J, W, F

LEMMA ElemLeftCovers ==
  ASSUME NEW m, NEW n \in Nat, NEW e \in Nat
  PROVE  Covers(ElemLeft(m, n, e), ByteTrans(m, n, e),
                Rect(n, 0 .. (e - 1), (n - (n % 8)) .. (n - 1)))
<1> DEFINE F == ByteTrans(m, n, e)
           J == 0 .. (e - 1)
           R == (n - (n % 8)) .. (n - 1)
           W == ElemLeft(m, n, e)
<1>1. ASSUME NEW j \in J, NEW ii \in R
      PROVE  <<j * n + ii, m[ii * e + j]>> = <<Cell(j, n, ii), F[Cell(j, n, ii)]>>
  <2>1. ii \in 0 .. (n - 1)
    <3>1. n - (n % 8) \in 0 .. n
      OBVIOUS
    <3> QED BY <3>1
  <2>2. F[Cell(j, n, ii)] = m[Cell(ii, e, j)]
    BY <2>1, ByteTransAt
  <2> QED BY <2>2 DEF Cell
<1>2. W = {<<jj * n + ii, m[ii * e + jj]>> : ii \in R, jj \in J}
  BY DEF ElemLeft
<1> HIDE DEF J, R, W, F
<1>3. ASSUME NEW s \in W PROVE \E j \in J : \E i \in R : s = <<Cell(j, n, i), F[Cell(j, n, i)]>>
  <2>1. PICK ii \in R, j \in J : s = <<j * n + ii, m[ii * e + j]>>
    BY <1>2
  <2> QED BY <1>1, <2>1
<1>4. ASSUME NEW j \in J, NEW i \in R PROVE <<Cell(j, n, i), F[Cell(j, n, i)]>> \in W
  <2>1. <<j * n + i, m[i * e + j]>> \in W
    BY <1>2
  <2> QED BY <1>1, <2>1
<1>5. Covers(W, F, Rect(n, J, R))
  BY <1>3, <1>4, RectCovers
<1> QED BY <1>5 DEF J, R, W, F

(* bshuf_trans_byte_elem_remainder from any multiple of eight on.           *)
LEMMA ByteElemRemainderWorks ==
  ASSUME NEW m, NEW n \in Nat, NEW e \in Nat, NEW lo \in Nat, lo % 8 = 0, lo <= n
  PROVE  Works(TransByteElemRemainder(m, n, e, lo), ByteTrans(m, n, e),
               Rect(n, 0 .. (e - 1), lo .. (n - 1)))
<1> DEFINE F == ByteTrans(m, n, e)
           J == 0 .. (e - 1)
           hi == n - (n % 8)
           W == TransByteElemRemainder(m, n, e, lo)
<1>1. CASE n <= lo
  <2>1. lo .. (n - 1) = {} /\ W = <<>>
    BY <1>1, RemainderIsLoops
  <2>2. Rect(n, J, {}) = {}
    BY DEF Rect
  <2> HIDE DEF J, F, W
  <2>3. Works(W, F, Rect(n, J, lo .. (n - 1)))
    BY <2>1, <2>2, NoLoop
  <2> QED BY <2>3 DEF J, F, W
<1>2. CASE ~(n <= lo)
  <2>1. W = <<ElemEights(m, n, e, lo), ElemLeft(m, n, e)>>
    BY <1>2, RemainderIsLoops
  <2>2. Covers(ElemEights(m, n, e, lo), F, Rect(n, J, lo .. (hi - 1)))
    BY ElemEightsCover
  <2>3. Covers(ElemLeft(m, n, e), F, Rect(n, J, hi .. (n - 1)))
    BY ElemLeftCovers
  <2>4. hi \in lo .. n
    BY EightEnds
  <2> HIDE DEF hi, F, W
  <2>5. /\ J \subseteq Nat /\ (lo .. (hi - 1)) \subseteq 0 .. (n - 1) /\ (hi .. (n - 1)) \subseteq 0 .. (n - 1)
        /\ (lo .. (hi - 1)) \intersect (hi .. (n - 1)) = {}
        /\ (lo .. (hi - 1)) \union (hi .. (n - 1)) = lo .. (n - 1)
    BY <2>4
  <2> HIDE DEF J
  <2>6. Works(W, F, Rect(n, J, (lo .. (hi - 1)) \union (hi .. (n - 1))))
    BY <2>1, <2>2, <2>3, <2>5, RectJoinColumns
  <2> QED BY <2>5, <2>6 DEF J, F, W
<1> QED BY <1>1, <1>2

(* Three nested loops cover a buffer of elements. *)
LEMMA OnCube ==
  ASSUME NEW lda \in Nat, NEW ldb \in Nat, NEW w \in Nat, NEW a \in 0 .. ((ldb * lda) * w - 1)
  PROVE  \E jj \in 0 .. (ldb - 1) : \E ii \in 0 .. (lda - 1) : \E b \in 0 .. (w - 1) :
           a = Cell(Cell(jj, lda, ii), w, b)
<1> DEFINE n == ldb * lda
           q == a \div w
           b == a % w
           jj == q \div lda
           ii == q % lda
<1>1. n \in Nat
  OBVIOUS
<1>2. q \in 0 .. (n - 1) /\ b \in 0 .. (w - 1) /\ a = Cell(q, w, b)
  <2>1. a \in 0 .. (n * w - 1)
    OBVIOUS
  <2> HIDE DEF n
  <2> QED BY <1>1, <2>1, OnGrid
<1> HIDE DEF q, b
<1>3. jj \in 0 .. (ldb - 1) /\ ii \in 0 .. (lda - 1) /\ q = Cell(jj, lda, ii)
  BY <1>2, OnGrid
<1> HIDE DEF jj, ii
<1>4. a = Cell(Cell(jj, lda, ii), w, b)
  BY <1>2, <1>3
<1> QED BY <1>2, <1>3, <1>4

(* bshuf_trans_elem: the transpose of elements of w bytes.                  *)
LEMMA TransElemCovers ==
  ASSUME NEW m, NEW lda \in Nat, NEW ldb \in Nat, NEW w \in Nat
  PROVE  Covers(TransElem(m, lda, ldb, w), Transpose(m, lda, ldb, w), 0 .. ((ldb * lda) * w - 1))
<1> DEFINE F == Transpose(m, lda, ldb, w)
           A == 0 .. ((ldb * lda) * w - 1)
           J == 0 .. (ldb - 1)
           I == 0 .. (lda - 1)
           B == 0 .. (w - 1)
           W == TransElem(m, lda, ldb, w)
<1>1. ASSUME NEW jj \in J, NEW ii \in I, NEW b \in B
      PROVE  /\ Cell(Cell(jj, lda, ii), w, b) \in A
             /\ F[Cell(Cell(jj, lda, ii), w, b)] = m[Cell(Cell(ii, ldb, jj), w, b)]
  <2>1. Cell(Cell(jj, lda, ii), w, b) \in A
    BY TransposeAt
  <2>2. F[Cell(Cell(jj, lda, ii), w, b)] = m[Cell(Cell(ii, ldb, jj), w, b)]
    BY TransposeAt
  <2> QED BY <2>1, <2>2
<1>2. ASSUME NEW a \in A
      PROVE  \E jj \in J : \E ii \in I : \E b \in B : a = Cell(Cell(jj, lda, ii), w, b)
  <2> HIDE DEF J, I, B
  <2> QED BY OnCube DEF J, I, B
<1>3. W = {<<Cell(Cell(jj, lda, ii), w, b), m[Cell(Cell(ii, ldb, jj), w, b)]>> :
              ii \in I, jj \in J, b \in B}
  BY DEF TransElem, Cell
<1> HIDE DEF F, A, J, I, B, W
<1>4. ASSUME NEW s \in W PROVE s[1] \in A /\ s = <<s[1], F[s[1]]>>
  <2>1. PICK ii \in I, jj \in J, b \in B :
          s = <<Cell(Cell(jj, lda, ii), w, b), m[Cell(Cell(ii, ldb, jj), w, b)]>>
    BY <1>3
  <2> QED BY <1>1, <2>1
<1>5. ASSUME NEW a \in A PROVE <<a, F[a]>> \in W
  <2>1. PICK jj \in J, ii \in I, b \in B : a = Cell(Cell(jj, lda, ii), w, b)
    BY <1>2
  <2>2. F[a] = m[Cell(Cell(ii, ldb, jj), w, b)]
    BY <1>1, <2>1
  <2>3. <<Cell(Cell(jj, lda, ii), w, b), m[Cell(Cell(ii, ldb, jj), w, b)]>> \in W
    BY <1>3
  <2> QED BY <2>1, <2>2, <2>3
<1>6. Covers(W, F, A)
  BY <1>4, <1>5 DEF Covers
<1> QED BY <1>6 DEF F, A, W

(* The two loops of TRANS_ELEM_TYPE.                                        *)
Unrolled(m, lda, ldb, w, ii, jj, kk, b) ==
  <<(jj * lda + ii + kk) * w + b, m[(ii * ldb + kk * ldb + jj) * w + b]>>
TypeEights(m, lda, ldb, w) ==
  {Unrolled(m, lda, ldb, w, ii, jj, kk, b) :
     ii \in Strides(0, lda, 8), jj \in 0 .. (ldb - 1), kk \in 0 .. 7, b \in 0 .. (w - 1)}
TypeLeft(m, lda, ldb, w) ==
  {<<(jj * lda + ii) * w + b, m[(ii * ldb + jj) * w + b]>> :
     ii \in (lda - (lda % 8)) .. (lda - 1), jj \in 0 .. (ldb - 1), b \in 0 .. (w - 1)}

(* The store of byte b of element ii of column jj.                          *)
Typed(m, lda, ldb, w, ii, jj, b) ==
  <<Cell(Cell(jj, lda, ii), w, b), m[Cell(Cell(ii, ldb, jj), w, b)]>>

(* The unrolled loop stores those of the whole eights.                       *)
StoresTyped(m, lda, ldb, w) ==
  \A ii \in Strides(0, lda, 8) : \A jj \in 0 .. (ldb - 1) : \A kk \in 0 .. 7 : \A b :
    /\ ii + kk \in 0 .. ((lda - (lda % 8)) - 1)
    /\ Unrolled(m, lda, ldb, w, ii, jj, kk, b) = Typed(m, lda, ldb, w, ii + kk, jj, b)

LEMMA InTypeEights ==
  ASSUME NEW m, NEW lda \in Nat, NEW ldb \in Nat, NEW w \in Nat
  PROVE  StoresTyped(m, lda, ldb, w)
<1> SUFFICES ASSUME NEW ii \in Strides(0, lda, 8), NEW jj \in 0 .. (ldb - 1), NEW kk \in 0 .. 7, NEW b
             PROVE  /\ ii + kk \in 0 .. ((lda - (lda % 8)) - 1)
                    /\ Unrolled(m, lda, ldb, w, ii, jj, kk, b) = Typed(m, lda, ldb, w, ii + kk, jj, b)
  BY DEF StoresTyped
<1>1. ii \in Nat /\ ii + kk \in 0 .. (lda - (lda % 8) - 1)
  <2>1. 0 \in Nat /\ 0 % 8 = 0 /\ 0 <= lda
    OBVIOUS
  <2> QED BY <2>1, EightIn
<1>2. kk \in Nat /\ jj \in Nat
  OBVIOUS
<1>3. jj * lda + ii + kk = Cell(jj, lda, ii + kk)
  <2> DEFINE x == jj * lda
  <2>1. x \in Nat
    BY <1>2
  <2> HIDE DEF x
  <2>2. x + ii + kk = x + (ii + kk)
    BY <1>1, <1>2, <2>1
  <2> QED BY <2>2 DEF x, Cell
<1>4. ii * ldb + kk * ldb + jj = Cell(ii + kk, ldb, jj)
  <2>1. \A u, v, z \in Nat : (u + v) * z = u * z + v * z
    OBVIOUS
  <2> QED BY <1>1, <1>2, <2>1 DEF Cell
<1>5. Cell(Cell(jj, lda, ii + kk), w, b) = Cell(jj, lda, ii + kk) * w + b
  BY DEF Cell
<1>6. Cell(Cell(ii + kk, ldb, jj), w, b) = Cell(ii + kk, ldb, jj) * w + b
  BY DEF Cell
<1> QED BY <1>1, <1>3, <1>4, <1>5, <1>6 DEF Typed, Unrolled

(* They store what bshuf_trans_elem does ...                                *)
LEMMA TypeStores ==
  ASSUME NEW m, NEW lda \in Nat, NEW ldb \in Nat, NEW w \in Nat
  PROVE  TypeEights(m, lda, ldb, w) \union TypeLeft(m, lda, ldb, w) = TransElem(m, lda, ldb, w)
<1> DEFINE S == Strides(0, lda, 8)
           K == 0 .. 7
           R == (lda - (lda % 8)) .. (lda - 1)
           J == 0 .. (ldb - 1)
           I == 0 .. (lda - 1)
           B == 0 .. (w - 1)
           V == TransElem(m, lda, ldb, w)
           W1 == TypeEights(m, lda, ldb, w)
           W2 == TypeLeft(m, lda, ldb, w)
           T(ii, jj, b) == Typed(m, lda, ldb, w, ii, jj, b)
<1>1. \A ii \in S : \A jj \in J : \A kk \in K : \A b :
        /\ ii + kk \in 0 .. ((lda - (lda % 8)) - 1)
        /\ Unrolled(m, lda, ldb, w, ii, jj, kk, b) = T(ii + kk, jj, b)
  <2>1. StoresTyped(m, lda, ldb, w)
    BY InTypeEights
  <2> QED BY <2>1 DEF StoresTyped
<1>2. ASSUME NEW i \in I PROVE (\E ii \in S : \E kk \in K : i = ii + kk) \/ i \in R
  <2>1. lda - (lda % 8) \in Nat
    OBVIOUS
  <2>2. CASE i < lda - (lda % 8)
    <3>1. 0 \in Nat /\ 0 % 8 = 0 /\ 0 <= lda /\ i \in 0 .. (lda - (lda % 8) - 1)
      BY <2>1, <2>2
    <3> QED BY <3>1, EightReach
  <2>3. CASE ~(i < lda - (lda % 8))
    BY <2>1, <2>3
  <2> QED BY <2>2, <2>3
<1>3. R \subseteq I
  <2>1. lda - (lda % 8) \in Nat
    OBVIOUS
  <2> QED BY <2>1
<1>e. 0 .. ((lda - (lda % 8)) - 1) \subseteq I
  <2>1. lda % 8 \in 0 .. 7
    OBVIOUS
  <2> QED BY <2>1
<1>4. V = {T(ii, jj, b) : ii \in I, jj \in J, b \in B}
  BY DEF TransElem, Typed, Cell
<1>5. W1 = {Unrolled(m, lda, ldb, w, ii, jj, kk, b) :
              ii \in S, jj \in J, kk \in K, b \in B}
  BY DEF TypeEights
<1>6. W2 = {T(ii, jj, b) : ii \in R, jj \in J, b \in B}
  BY DEF TypeLeft, Typed, Cell
<1> HIDE DEF S, K, R, J, I, B, V, W1, W2, T
<1>7. W1 \subseteq V
  <2> SUFFICES ASSUME NEW s \in W1 PROVE s \in V
    OBVIOUS
  <2>1. PICK ii \in S, jj \in J, kk \in K, b \in B :
          s = Unrolled(m, lda, ldb, w, ii, jj, kk, b)
    BY <1>5
  <2> DEFINE x == ii + kk
  <2>2. x \in I /\ s = T(x, jj, b)
    BY <1>1, <1>e, <2>1
  <2> HIDE DEF x
  <2> QED BY <1>4, <2>2
<1>8. W2 \subseteq V
  BY <1>3, <1>4, <1>6
<1>9. ASSUME NEW s \in V PROVE s \in W1 \/ s \in W2
  <2>1. PICK i \in I, jj \in J, b \in B : s = T(i, jj, b)
    BY <1>4
  <2>2. CASE \E ii \in S : \E kk \in K : i = ii + kk
    <3>1. PICK ii \in S, kk \in K : i = ii + kk
      BY <2>2
    <3>2. s = Unrolled(m, lda, ldb, w, ii, jj, kk, b)
      BY <1>1, <2>1, <3>1
    <3>3. Unrolled(m, lda, ldb, w, ii, jj, kk, b) \in W1
      BY <1>5
    <3> QED BY <3>2, <3>3
  <2>3. CASE i \in R
    BY <1>6, <2>1, <2>3
  <2> QED BY <1>2, <2>2, <2>3
<1>10. W1 \union W2 = V
  BY <1>7, <1>8, <1>9
<1> QED BY <1>10 DEF W1, W2, V

(* ... in different places.                                                 *)
LEMMA TypeLoopsApart ==
  ASSUME NEW m, NEW lda \in Nat, NEW ldb \in Nat, NEW w \in Nat
  PROVE  Addresses(TypeEights(m, lda, ldb, w)) \intersect Addresses(TypeLeft(m, lda, ldb, w)) = {}
<1> DEFINE hi == lda - (lda % 8)
           S == Strides(0, lda, 8)
           K == 0 .. 7
           P == 0 .. (hi - 1)
           R == hi .. (lda - 1)
           J == 0 .. (ldb - 1)
           B == 0 .. (w - 1)
           T(ii, jj, b) == Typed(m, lda, ldb, w, ii, jj, b)
           W1 == TypeEights(m, lda, ldb, w)
           W2 == TypeLeft(m, lda, ldb, w)
<1>1. \A ii \in S : \A jj \in J : \A kk \in K : \A b :
        ii + kk \in P /\ Unrolled(m, lda, ldb, w, ii, jj, kk, b) = T(ii + kk, jj, b)
  <2>1. StoresTyped(m, lda, ldb, w)
    BY InTypeEights
  <2> QED BY <2>1 DEF StoresTyped
<1>2. W1 = {Unrolled(m, lda, ldb, w, ii, jj, kk, b) :
              ii \in S, jj \in J, kk \in K, b \in B}
  BY DEF TypeEights
<1>3. W2 = {T(ii, jj, b) : ii \in R, jj \in J, b \in B}
  BY DEF TypeLeft, Typed, Cell
<1>h. hi \in 0 .. lda
  OBVIOUS
<1> HIDE DEF hi
<1>i. \A x \in P : \A y \in R : x \in 0 .. (lda - 1) /\ y \in 0 .. (lda - 1) /\ x # y
  BY <1>h
<1>j. \A j \in J : j \in Nat
  OBVIOUS
<1> HIDE DEF S, K, P, R, J, B, T, W1, W2
<1> SUFFICES ASSUME NEW s \in W1, NEW t \in W2, s[1] = t[1]
             PROVE  FALSE
  BY DEF Addresses, W1, W2
<1>p. PICK x \in P, jj \in J, b \in B : s = T(x, jj, b)
  <2>1. PICK ii \in S, jj \in J, kk \in K, b \in B :
          s = Unrolled(m, lda, ldb, w, ii, jj, kk, b)
    BY <1>2
  <2> DEFINE z == ii + kk
  <2>2. z \in P /\ s = T(z, jj, b)
    BY <1>1, <2>1
  <2> HIDE DEF z
  <2> QED BY <2>2
<1>q. PICK y \in R, kk \in J, c \in B : t = T(y, kk, c)
  BY <1>3
<1>4. x \in 0 .. (lda - 1) /\ y \in 0 .. (lda - 1) /\ x # y /\ jj \in Nat /\ kk \in Nat
  BY <1>i, <1>j
<1> DEFINE p == Cell(jj, lda, x)
           q == Cell(kk, lda, y)
<1>5. p \in Nat /\ q \in Nat
  <2>1. \A u, v, z \in Nat : u * v + z \in Nat
    OBVIOUS
  <2> QED BY <1>4, <2>1 DEF Cell
<1>6. Cell(p, w, b) = Cell(q, w, c)
  BY <1>p, <1>q DEF T, Typed
<1>7. b \in 0 .. (w - 1) /\ c \in 0 .. (w - 1)
  BY DEF B
<1>8. p = q
  <2> HIDE DEF p, q
  <2> QED BY <1>5, <1>6, <1>7, CellOnce
<1>9. x = y
  BY <1>4, <1>8, CellOnce
<1> QED BY <1>4, <1>9

(* TRANS_ELEM_TYPE, eight elements at a time, computes the same.            *)
LEMMA TransElemTypeWorks ==
  ASSUME NEW m, NEW lda \in Nat, NEW ldb \in Nat, NEW w \in Nat
  PROVE  Works(TransElemType(m, lda, ldb, w), Transpose(m, lda, ldb, w), 0 .. ((ldb * lda) * w - 1))
<1> DEFINE L == TypeEights(m, lda, ldb, w)
           M == TypeLeft(m, lda, ldb, w)
           W == TransElemType(m, lda, ldb, w)
           F == Transpose(m, lda, ldb, w)
           A == 0 .. ((ldb * lda) * w - 1)
<1>1. W = <<L, M>>
  BY DEF TransElemType, TypeEights, Unrolled, TypeLeft
<1>2. Covers(L \union M, F, A)
  <2>1. L \union M = TransElem(m, lda, ldb, w)
    BY TypeStores
  <2>2. Covers(TransElem(m, lda, ldb, w), F, A)
    BY TransElemCovers
  <2> HIDE DEF L, M, F, A
  <2> QED BY <2>1, <2>2
<1>3. Addresses(L) \intersect Addresses(M) = {}
  BY TypeLoopsApart
<1> HIDE DEF L, M, F, A
<1>4. Stores(<<L, M>>) = L \union M
  BY DEF Stores
<1>5. DisjointLoops(<<L, M>>)
  BY <1>3 DEF DisjointLoops
<1>6. Works(W, F, A)
  BY <1>1, <1>2, <1>4, <1>5 DEF Works
<1> QED BY <1>6 DEF F, A

(* bshuf_trans_byte_bitrow_scal.                                            *)
LEMMA ByteBitrowScalCovers ==
  ASSUME NEW m, NEW row \in Nat, NEW e \in Nat
  PROVE  Covers(TransByteBitrowScal(m, 8 * row, e), ByteTrans(m, 8 * e, row),
                0 .. ((8 * e) * row - 1))
<1> DEFINE n == 8 * e
           F == ByteTrans(m, n, row)
           W == TransByteBitrowScal(m, 8 * row, e)
           J == 0 .. (row - 1)
           I == 0 .. (n - 1)
           E == 0 .. (e - 1)
           K == 0 .. 7
<1>1. (8 * row) \div 8 = row /\ n \in Nat
  OBVIOUS
<1>2. W = {<<ii * 8 * e + jj * 8 + kk, m[Cell(jj * 8 + kk, row, ii)]>> : jj \in E, ii \in J, kk \in K}
  BY <1>1 DEF TransByteBitrowScal, Cell
<1>3. ASSUME NEW j \in J, NEW i \in I PROVE F[Cell(j, n, i)] = m[Cell(i, row, j)]
  <2>1. i \in 0 .. (n - 1) /\ j \in 0 .. (row - 1)
    OBVIOUS
  <2> HIDE DEF n, I, J, W, E, K
  <2>2. ByteTrans(m, n, row)[Cell(j, n, i)] = m[Cell(i, row, j)]
    BY <1>1, <2>1, ByteTransAt
  <2> QED BY <2>2
<1>4. ASSUME NEW jj \in E, NEW ii \in J, NEW kk \in K
      PROVE  ii * 8 * e + jj * 8 + kk = Cell(ii, n, jj * 8 + kk) /\ jj * 8 + kk \in I
  <2> DEFINE x == ii * n
  <2>1. x \in Nat /\ ii * 8 * e = x
    OBVIOUS
  <2>2. jj * 8 + kk \in I
    OBVIOUS
  <2> HIDE DEF x, n
  <2>3. x + jj * 8 + kk = x + (jj * 8 + kk)
    BY <2>1
  <2> QED BY <2>1, <2>2, <2>3 DEF x, Cell
<1>5. ASSUME NEW i \in I PROVE \E jj \in E : \E kk \in K : i = jj * 8 + kk
  <2>1. i \div 8 \in E /\ i % 8 \in K /\ i = (i \div 8) * 8 + (i % 8)
    OBVIOUS
  <2> QED BY <2>1
<1>6. Rect(n, J, I) = 0 .. (n * row - 1)
  BY <1>1, RectAll
<1> HIDE DEF n, F, W, J, I, E, K
<1>7. ASSUME NEW s \in W PROVE \E j \in J : \E i \in I : s = <<Cell(j, n, i), F[Cell(j, n, i)]>>
  <2>1. PICK jj \in E, ii \in J, kk \in K :
          s = <<ii * 8 * e + jj * 8 + kk, m[Cell(jj * 8 + kk, row, ii)]>>
    BY <1>2
  <2> DEFINE x == jj * 8 + kk
  <2>2. x \in I /\ s = <<Cell(ii, n, x), m[Cell(x, row, ii)]>>
    BY <1>4, <2>1
  <2> HIDE DEF x
  <2> QED BY <1>3, <2>2
<1>8. ASSUME NEW ii \in J, NEW i \in I PROVE <<Cell(ii, n, i), F[Cell(ii, n, i)]>> \in W
  <2>1. PICK jj \in E, kk \in K : i = jj * 8 + kk
    BY <1>5
  <2>2. <<ii * 8 * e + jj * 8 + kk, m[Cell(jj * 8 + kk, row, ii)]>> \in W
    BY <1>2
  <2>3. <<Cell(ii, n, i), F[Cell(ii, n, i)]>> = <<ii * 8 * e + jj * 8 + kk, m[Cell(jj * 8 + kk, row, ii)]>>
    BY <1>3, <1>4, <2>1
  <2> QED BY <2>2, <2>3
<1>9. Covers(W, F, Rect(n, J, I))
  BY <1>7, <1>8, RectCovers
<1> QED BY <1>6, <1>9 DEF F, W, n

-----------------------------------------------------------------------------
(* Words and registers.                                                     *)

LEMMA XorFacts ==
  ASSUME NEW f, NEW g
  PROVE  /\ Xor(f, {}) = f /\ Xor({}, f) = f
         /\ Xor(f, Xor(f, g)) = g /\ Xor(f, Xor(g, f)) = g
BY DEF Xor

(* An exchange swaps the bits of the mask with those at the distance.       *)
Swap(n, mask, i) == IF i \in mask THEN i + n ELSE IF i - n \in mask THEN i - n ELSE i

Apart(n, mask) ==
  n \in 1 .. 63 /\ \A i \in mask : i \in 0 .. 63 /\ i + n \in 0 .. 63 /\ i + n \notin mask

(* An exchange of disjoint bits is a swap of the two places.                *)
LEMMA ExchangeSwaps ==
  ASSUME NEW x, NEW n, NEW mask, Apart(n, mask), NEW i \in 0 .. 63
  PROVE  Exchange(x, n, mask)[i] = x[Swap(n, mask, i)]
<1>0. n \in 1 .. 63 /\ \A j \in mask : j \in 0 .. 63 /\ j + n \in 0 .. 63 /\ j + n \notin mask
  BY DEF Apart
<1> DEFINE t == [j \in 0 .. 63 |->
                   IF j \in mask THEN Xor(x[j], IF j + n < 64 THEN x[j + n] ELSE {}) ELSE {}]
<1>1. Exchange(x, n, mask)[i] = Xor(Xor(x[i], t[i]), IF i >= n THEN t[i - n] ELSE {})
  BY DEF Exchange
<1>2. ASSUME NEW j \in mask PROVE t[j] = Xor(x[j], x[j + n])
  <2>1. j \in 0 .. 63 /\ j + n < 64
    BY <1>0
  <2> QED BY <2>1
<1>3. ASSUME NEW j \in 0 .. 63, j \notin mask PROVE t[j] = {}
  BY <1>3
<1> HIDE DEF t
<1>4. CASE i \in mask
  <2>1. i >= n => t[i - n] = {}
    <3>1. i - n \notin mask
      <4>1. (i - n) + n = i
        BY <1>0
      <4> QED BY <1>0, <1>4, <4>1
    <3> QED BY <1>0, <1>3, <3>1
  <2>2. Exchange(x, n, mask)[i] = Xor(Xor(x[i], Xor(x[i], x[i + n])), {})
    BY <1>1, <1>2, <1>4, <2>1
  <2> QED BY <1>4, <2>2, XorFacts DEF Swap
<1>5. CASE i \notin mask /\ i - n \in mask
  <2>1. i >= n /\ (i - n) + n = i
    <3>1. i - n \in 0 .. 63 /\ n \in Int
      BY <1>0, <1>5
    <3> QED BY <3>1
  <2>2. t[i] = {} /\ t[i - n] = Xor(x[i - n], x[i])
    BY <1>2, <1>3, <1>5, <2>1
  <2>3. Exchange(x, n, mask)[i] = Xor(Xor(x[i], {}), Xor(x[i - n], x[i]))
    BY <1>1, <2>1, <2>2
  <2>4. Swap(n, mask, i) = i - n
    BY <1>5 DEF Swap
  <2> QED BY <2>3, <2>4, XorFacts
<1>6. CASE i \notin mask /\ i - n \notin mask
  <2>1. t[i] = {} /\ (i >= n => t[i - n] = {})
    BY <1>0, <1>3, <1>6
  <2>2. Exchange(x, n, mask)[i] = Xor(Xor(x[i], {}), {})
    BY <1>1, <2>1
  <2>3. Swap(n, mask, i) = i
    BY <1>6 DEF Swap
  <2> QED BY <2>2, <2>3, XorFacts
<1> QED BY <1>4, <1>5, <1>6

LEMMA ExchangeAA ==
  ASSUME NEW x, NEW i \in 0 .. 63
  PROVE  Exchange(x, 7, AA)[i] = x[Swap(7, AA, i)]
<1>1. Apart(7, AA)
  BY DEF Apart, AA
<1> QED BY <1>1, ExchangeSwaps

LEMMA ExchangeCC ==
  ASSUME NEW x, NEW i \in 0 .. 63
  PROVE  Exchange(x, 14, CC)[i] = x[Swap(14, CC, i)]
<1>1. Apart(14, CC)
  BY DEF Apart, CC
<1> QED BY <1>1, ExchangeSwaps

LEMMA ExchangeF0 ==
  ASSUME NEW x, NEW i \in 0 .. 63
  PROVE  Exchange(x, 28, F0)[i] = x[Swap(28, F0, i)]
<1>1. Apart(28, F0)
  BY DEF Apart, F0
<1> QED BY <1>1, ExchangeSwaps

LEMMA Exchange55 ==
  ASSUME NEW x, NEW i \in 0 .. 63
  PROVE  Exchange(x, 9, x55)[i] = x[Swap(9, x55, i)]
<1>1. Apart(9, x55)
  BY DEF Apart, x55
<1> QED BY <1>1, ExchangeSwaps

LEMMA Exchange33 ==
  ASSUME NEW x, NEW i \in 0 .. 63
  PROVE  Exchange(x, 18, x33)[i] = x[Swap(18, x33, i)]
<1>1. Apart(18, x33)
  BY DEF Apart, x33
<1> QED BY <1>1, ExchangeSwaps

LEMMA Exchange0F ==
  ASSUME NEW x, NEW i \in 0 .. 63
  PROVE  Exchange(x, 36, x0F)[i] = x[Swap(36, x0F, i)]
<1>1. Apart(36, x0F)
  BY DEF Apart, x0F
<1> QED BY <1>1, ExchangeSwaps

(* The six bits of the number of a bit. *)
Six(a5, a4, a3, a2, a1, a0) == 32 * a5 + 16 * a4 + 8 * a3 + 4 * a2 + 2 * a1 + a0
Two == {0, 1}
Bits6(a5, a4, a3, a2, a1, a0) ==
  a5 \in Two /\ a4 \in Two /\ a3 \in Two /\ a2 \in Two /\ a1 \in Two /\ a0 \in Two

(* The number of a bit in a word has six bits.                              *)
LEMMA IsSix ==
  ASSUME NEW i \in 0 .. 63
  PROVE  \E a5, a4, a3, a2, a1, a0 \in Two : i = Six(a5, a4, a3, a2, a1, a0)
<1> DEFINE b5 == i \div 32
           b4 == (i \div 16) % 2
           b3 == (i \div 8) % 2
           b2 == (i \div 4) % 2
           b1 == (i \div 2) % 2
           b0 == i % 2
<1>1. b5 \in Two /\ b4 \in Two /\ b3 \in Two /\ b2 \in Two /\ b1 \in Two /\ b0 \in Two
  BY DEF Two
<1>2. i = Six(b5, b4, b3, b2, b1, b0)
  BY DEF Six
<1> HIDE DEF b5, b4, b3, b2, b1, b0
<1> QED BY <1>1, <1>2

(* Each exchange of the macro swaps two bits of the number.                 *)
LEMMA SwapSix ==
  ASSUME NEW a5, NEW a4, NEW a3, NEW a2, NEW a1, NEW a0, Bits6(a5, a4, a3, a2, a1, a0)
  PROVE  /\ Six(a5, a4, a3, a2, a1, a0) \in 0 .. 63
         /\ Swap(7, AA, Six(a5, a4, a3, a2, a1, a0)) = Six(a5, a4, a0, a2, a1, a3)
         /\ Swap(14, CC, Six(a5, a4, a3, a2, a1, a0)) = Six(a5, a1, a3, a2, a4, a0)
         /\ Swap(28, F0, Six(a5, a4, a3, a2, a1, a0)) = Six(a2, a4, a3, a5, a1, a0)
<1> DEFINE i == Six(a5, a4, a3, a2, a1, a0)
<1>1. i \in 0 .. 63
  BY DEF Six, Bits6, Two
<1>2. Swap(7, AA, i) = Six(a5, a4, a0, a2, a1, a3)
  BY DEF Six, Bits6, Two, Swap, AA
<1>3. Swap(14, CC, i) = Six(a5, a1, a3, a2, a4, a0)
  BY DEF Six, Bits6, Two, Swap, CC
<1>4. Swap(28, F0, i) = Six(a2, a4, a3, a5, a1, a0)
  BY DEF Six, Bits6, Two, Swap, F0
<1> QED BY <1>1, <1>2, <1>3, <1>4

(* The big-endian exchanges swap and complement them.                       *)
LEMMA SwapSixBE ==
  ASSUME NEW a5, NEW a4, NEW a3, NEW a2, NEW a1, NEW a0, Bits6(a5, a4, a3, a2, a1, a0)
  PROVE  /\ Swap(9, x55, Six(a5, a4, a3, a2, a1, a0)) = Six(a5, a4, 1 - a0, a2, a1, 1 - a3)
         /\ Swap(18, x33, Six(a5, a4, a3, a2, a1, a0)) = Six(a5, 1 - a1, a3, a2, 1 - a4, a0)
         /\ Swap(36, x0F, Six(a5, a4, a3, a2, a1, a0)) = Six(1 - a2, a4, a3, 1 - a5, a1, a0)
<1> DEFINE i == Six(a5, a4, a3, a2, a1, a0)
<1>1. Swap(9, x55, i) = Six(a5, a4, 1 - a0, a2, a1, 1 - a3)
  BY DEF Six, Bits6, Two, Swap, x55
<1>2. Swap(18, x33, i) = Six(a5, 1 - a1, a3, a2, 1 - a4, a0)
  BY DEF Six, Bits6, Two, Swap, x33
<1>3. Swap(36, x0F, i) = Six(1 - a2, a4, a3, 1 - a5, a1, a0)
  BY DEF Six, Bits6, Two, Swap, x0F
<1> QED BY <1>1, <1>2, <1>3

(* The three exchanges of TRANS_BIT_8X8 turn row r, column c into row c,    *)
(* column r; on a big-endian machine both are counted from the other end.   *)
THEOREM TransBit8x8 ==
  ASSUME NEW i \in 0 .. 63
  PROVE  TRANS_BIT_8X8[i] = {8 * (i % 8) + (i \div 8)}
<1>1. PICK a5, a4, a3, a2, a1, a0 \in Two : i = Six(a5, a4, a3, a2, a1, a0)
  BY IsSix
<1>7. Bits6(a5, a4, a3, a2, a1, a0) /\ Bits6(a2, a4, a3, a5, a1, a0)
      /\ Bits6(a2, a1, a3, a5, a4, a0) /\ Bits6(a2, a1, a0, a5, a4, a3)
  BY DEF Bits6
<1> DEFINE x == Exchange(Own, 7, AA)
           y == Exchange(x, 14, CC)
<1>2. TRANS_BIT_8X8[i] = y[Six(a2, a4, a3, a5, a1, a0)]
  <2>1. Swap(28, F0, i) = Six(a2, a4, a3, a5, a1, a0)
    BY <1>1, <1>7, SwapSix
  <2> HIDE DEF y
  <2>3. Exchange(y, 28, F0)[i] = y[Swap(28, F0, i)]
    BY ExchangeF0
  <2> QED BY <2>1, <2>3 DEF TRANS_BIT_8X8, y
<1>3. y[Six(a2, a4, a3, a5, a1, a0)] = x[Six(a2, a1, a3, a5, a4, a0)]
  <2> DEFINE k == Six(a2, a4, a3, a5, a1, a0)
  <2>1. Swap(14, CC, k) = Six(a2, a1, a3, a5, a4, a0) /\ k \in 0 .. 63
    BY <1>7, SwapSix
  <2> HIDE DEF x, k
  <2>3. Exchange(x, 14, CC)[k] = x[Swap(14, CC, k)]
    BY <2>1, ExchangeCC
  <2> QED BY <2>1, <2>3 DEF k
<1>4. x[Six(a2, a1, a3, a5, a4, a0)] = Own[Six(a2, a1, a0, a5, a4, a3)]
  <2> DEFINE k == Six(a2, a1, a3, a5, a4, a0)
  <2>1. Swap(7, AA, k) = Six(a2, a1, a0, a5, a4, a3) /\ k \in 0 .. 63
    BY <1>7, SwapSix
  <2> HIDE DEF k
  <2>3. Exchange(Own, 7, AA)[k] = Own[Swap(7, AA, k)]
    BY <2>1, ExchangeAA
  <2> QED BY <2>1, <2>3 DEF k
<1>5. Own[Six(a2, a1, a0, a5, a4, a3)] = {Six(a2, a1, a0, a5, a4, a3)}
  BY <1>7, SwapSix DEF Own
<1>6. Six(a2, a1, a0, a5, a4, a3) = 8 * (i % 8) + (i \div 8)
  BY <1>1, <1>7 DEF Six, Bits6, Two
<1> HIDE DEF x, y
<1> QED BY <1>2, <1>3, <1>4, <1>5, <1>6

(* On a big-endian machine the same, row and column counted from the end.   *)
THEOREM TransBit8x8BE ==
  ASSUME NEW i \in 0 .. 63
  PROVE  TRANS_BIT_8X8_BE[i] = {63 - (8 * (i % 8) + (i \div 8))}
<1>1. PICK a5, a4, a3, a2, a1, a0 \in Two : i = Six(a5, a4, a3, a2, a1, a0)
  BY IsSix
<1>7. /\ Bits6(a5, a4, a3, a2, a1, a0) /\ Bits6(1 - a2, a4, a3, 1 - a5, a1, a0)
      /\ Bits6(1 - a2, 1 - a1, a3, 1 - a5, 1 - a4, a0)
      /\ Bits6(1 - a2, 1 - a1, 1 - a0, 1 - a5, 1 - a4, 1 - a3)
  BY DEF Bits6, Two
<1> DEFINE x == Exchange(Own, 9, x55)
           y == Exchange(x, 18, x33)
<1>2. TRANS_BIT_8X8_BE[i] = y[Six(1 - a2, a4, a3, 1 - a5, a1, a0)]
  <2>1. Swap(36, x0F, i) = Six(1 - a2, a4, a3, 1 - a5, a1, a0)
    BY <1>1, <1>7, SwapSixBE
  <2> HIDE DEF y
  <2>3. Exchange(y, 36, x0F)[i] = y[Swap(36, x0F, i)]
    BY Exchange0F
  <2> QED BY <2>1, <2>3 DEF TRANS_BIT_8X8_BE, y
<1>3. y[Six(1 - a2, a4, a3, 1 - a5, a1, a0)] = x[Six(1 - a2, 1 - a1, a3, 1 - a5, 1 - a4, a0)]
  <2> DEFINE k == Six(1 - a2, a4, a3, 1 - a5, a1, a0)
  <2>1. Swap(18, x33, k) = Six(1 - a2, 1 - a1, a3, 1 - a5, 1 - a4, a0) /\ k \in 0 .. 63
    BY <1>7, SwapSix, SwapSixBE
  <2> HIDE DEF x, k
  <2>3. Exchange(x, 18, x33)[k] = x[Swap(18, x33, k)]
    BY <2>1, Exchange33
  <2> QED BY <2>1, <2>3 DEF k
<1> DEFINE j == Six(1 - a2, 1 - a1, 1 - a0, 1 - a5, 1 - a4, 1 - a3)
<1>4. x[Six(1 - a2, 1 - a1, a3, 1 - a5, 1 - a4, a0)] = Own[j]
  <2> DEFINE k == Six(1 - a2, 1 - a1, a3, 1 - a5, 1 - a4, a0)
  <2>1. Swap(9, x55, k) = j /\ k \in 0 .. 63
    BY <1>7, SwapSix, SwapSixBE
  <2> HIDE DEF k, j
  <2>3. Exchange(Own, 9, x55)[k] = Own[Swap(9, x55, k)]
    BY <2>1, Exchange55
  <2> QED BY <2>1, <2>3 DEF k
<1>5. Own[j] = {j}
  BY <1>7, SwapSix DEF Own
<1>6. j = 63 - (8 * (i % 8) + (i \div 8))
  BY <1>1, <1>7 DEF Six, Bits6, Two
<1> HIDE DEF x, y, j
<1> QED BY <1>2, <1>3, <1>4, <1>5, <1>6

(* A row with one bit copies that bit. *)
LEMMA ThroughOne ==
  ASSUME NEW rows, NEW x, NEW i \in 0 .. 63, NEW k, rows[i] = {k}
  PROVE  Through(rows, x)[i] = x[k]
<1>1. Through(rows, x)[i]
        = {f \in UNION {x[j] : j \in {k}} : Cardinality({j \in {k} : f \in x[j]}) % 2 = 1}
  BY DEF Through
<1>2. UNION {x[j] : j \in {k}} = x[k]
  OBVIOUS
<1>3. ASSUME NEW f \in x[k] PROVE Cardinality({j \in {k} : f \in x[j]}) % 2 = 1
  <2>1. {j \in {k} : f \in x[j]} = {k}
    OBVIOUS
  <2>2. Cardinality({k}) = 1
    BY FS_Singleton
  <2> QED BY <2>1, <2>2
<1> QED BY <1>1, <1>2, <1>3

(* Byte kk of the word that leaves the macro holds bit kk of the eight      *)
(* bytes that were loaded, on a big-endian machine bit 7 - kk.              *)
LEMMA WordLE ==
  ASSUME NEW m, NEW t \in Nat, NEW kk \in Lane
  PROVE  ByteOf(Through(TRANS_BIT_8X8, Load(m, 8 * t, 8)), kk) = EightBits(m, t, kk)
<1> DEFINE x == Load(m, 8 * t, 8)
           y == Through(TRANS_BIT_8X8, x)
<1>1. ASSUME NEW b \in Lane PROVE y[8 * kk + b] = BitAt(m, Cell(t, 8, b), kk)
  <2> DEFINE i == 8 * kk + b
             k == 8 * b + kk
  <2>1. i \in 0 .. 63 /\ k \in 0 .. 63 /\ 8 * (i % 8) + (i \div 8) = k /\ k \div 8 = b /\ k % 8 = kk
    BY DEF Lane
  <2>2. x[k] = BitAt(m, Cell(t, 8, b), kk)
    <3> HIDE DEF k
    <3>1. x[k] = m[8 * t + (k \div 8)][k % 8]
      BY <2>1 DEF Load
    <3>2. 8 * t + b = Cell(t, 8, b)
      BY DEF Cell, Lane
    <3> QED BY <2>1, <3>1, <3>2 DEF BitAt
  <2> HIDE DEF i, k, x
  <2>5. i \in 0 .. 63
    BY <2>1
  <2>3. TRANS_BIT_8X8[i] = {k}
    BY <2>1, TransBit8x8
  <2>6. Through(TRANS_BIT_8X8, x)[i] = x[k]
    BY <2>3, <2>5, ThroughOne
  <2>4. y[i] = x[k]
    BY <2>6
  <2> HIDE DEF y
  <2> QED BY <2>2, <2>4 DEF i
<1> HIDE DEF y
<1>2. ByteOf(y, kk) = EightBits(m, t, kk)
  BY <1>1 DEF ByteOf, EightBits, Lane
<1> QED BY <1>2 DEF y, x

(* The big-endian word leaves the same bytes, counted from the other end.   *)
LEMMA WordBE ==
  ASSUME NEW m, NEW t \in Nat, NEW kk \in Lane
  PROVE  ByteOf(Through(TRANS_BIT_8X8_BE, LoadBE(m, 8 * t)), kk) = EightBits(m, t, 7 - kk)
<1> DEFINE x == LoadBE(m, 8 * t)
           y == Through(TRANS_BIT_8X8_BE, x)
<1>1. ASSUME NEW b \in Lane PROVE y[8 * kk + b] = BitAt(m, Cell(t, 8, b), 7 - kk)
  <2> DEFINE i == 8 * kk + b
             k == 63 - (8 * b + kk)
  <2>1. /\ i \in 0 .. 63 /\ k \in 0 .. 63 /\ 63 - (8 * (i % 8) + (i \div 8)) = k
        /\ k \div 8 = 7 - b /\ k % 8 = 7 - kk
    BY DEF Lane
  <2>2. x[k] = BitAt(m, Cell(t, 8, b), 7 - kk)
    <3> HIDE DEF k
    <3>1. x[k] = m[8 * t + 7 - (k \div 8)][k % 8]
      BY <2>1 DEF LoadBE
    <3>2. 8 * t + 7 - (7 - b) = Cell(t, 8, b)
      BY DEF Cell, Lane
    <3> QED BY <2>1, <3>1, <3>2 DEF BitAt
  <2> HIDE DEF i, k, x
  <2>5. i \in 0 .. 63
    BY <2>1
  <2>3. TRANS_BIT_8X8_BE[i] = {k}
    BY <2>1, TransBit8x8BE
  <2>6. Through(TRANS_BIT_8X8_BE, x)[i] = x[k]
    BY <2>3, <2>5, ThroughOne
  <2>4. y[i] = x[k]
    BY <2>6
  <2> HIDE DEF y
  <2> QED BY <2>2, <2>4 DEF i
<1> HIDE DEF y
<1>2. ByteOf(y, kk) = EightBits(m, t, 7 - kk)
  BY <1>1 DEF ByteOf, EightBits, Lane
<1> QED BY <1>2 DEF y, x

-----------------------------------------------------------------------------
(* Eight shifts by one bit: the shifted registers, and their top bits.      *)

Shifted(x, k) == [i \in DOMAIN x |-> IF i % 16 >= k THEN x[i - k] ELSE {}]

LEMMA LaneBefore ==
  ASSUME NEW i \in Nat, i % 16 # 0
  PROVE  (i - 1) % 16 = (i % 16) - 1
<1> DEFINE q == i \div 16
           r == i % 16
<1>1. q \in Nat /\ r \in 1 .. 15 /\ i = 16 * q + r
  OBVIOUS
<1> HIDE DEF q, r
<1>2. i - 1 = 16 * q + (r - 1) /\ r - 1 \in 0 .. 15
  BY <1>1
<1>3. (16 * q + (r - 1)) % 16 = r - 1
  BY <1>1
<1>4. (i - 1) % 16 = r - 1
  BY <1>2, <1>3
<1> QED BY <1>4 DEF r

(* One shift more.                                                          *)
LEMMA ShiftOnce ==
  ASSUME NEW x, NEW d \in Nat, DOMAIN x = 0 .. (d - 1), NEW k \in 0 .. 7
  PROVE  Shl16(Shifted(x, k)) = Shifted(x, k + 1)
<1> DEFINE s == Shifted(x, k)
<1>1. DOMAIN s = DOMAIN x
  BY DEF Shifted
<1>2. ASSUME NEW i \in DOMAIN x
      PROVE  (IF i % 16 = 0 THEN {} ELSE s[i - 1])
               = (IF i % 16 >= k + 1 THEN x[i - (k + 1)] ELSE {})
  <2>1. i \in 0 .. (d - 1) /\ i \in Nat /\ i % 16 \in 0 .. 15
    OBVIOUS
  <2>2. CASE i % 16 = 0
    <3>1. ~(i % 16 >= k + 1)
      BY <2>2
    <3> QED BY <2>2, <3>1
  <2>3. CASE i % 16 # 0
    <3>1. i - 1 \in 0 .. (d - 1) /\ (i - 1) % 16 = (i % 16) - 1
      <4>1. (i - 1) % 16 = (i % 16) - 1
        BY <2>1, <2>3, LaneBefore
      <4>2. i - 1 \in 0 .. (d - 1)
        <5>1. i # 0
          BY <2>3
        <5> QED BY <2>1, <5>1
      <4> QED BY <4>1, <4>2
    <3>2. s[i - 1] = IF (i - 1) % 16 >= k THEN x[(i - 1) - k] ELSE {}
      BY <3>1 DEF Shifted
    <3>3. (i - 1) - k = i - (k + 1) /\ ((i - 1) % 16 >= k <=> i % 16 >= k + 1)
      BY <2>1, <3>1
    <3> QED BY <2>3, <3>2, <3>3
  <2> QED BY <2>2, <2>3
<1> HIDE DEF s
<1>3. Shl16(s) = Shifted(x, k + 1)
  BY <1>1, <1>2 DEF Shl16, Shifted
<1> QED BY <1>3 DEF s

LEMMA ShiftedAt ==
  ASSUME NEW x, NEW k, NEW i \in DOMAIN x, i % 16 >= k
  PROVE  Shifted(x, k)[i] = x[i - k]
BY DEF Shifted

(* After kk shifts, the mask of top bits holds bit 7 - kk of every byte.    *)
LEMMA MoveMaskAt ==
  ASSUME NEW x, NEW w \in Nat, DOMAIN x = 0 .. (8 * w - 1), NEW kk \in 0 .. 7, NEW j \in 0 .. (w - 1)
  PROVE  MoveMask(x, kk)[j] = x[8 * j + 7 - kk]
<1> DEFINE G(s) == [k \in 0 .. 7 |-> IF k = 0 THEN x ELSE Shl16(s[k - 1])]
           g == [k \in 0 .. 7 |-> IF k = 0 THEN x ELSE Shifted(x, k)]
           s == CHOOSE h : h = G(h)
           d == 8 * w
<1>1. Shl16(x) = Shifted(x, 1)
  BY DEF Shl16, Shifted
<1>2. g = G(g)
  <2>1. ASSUME NEW k \in 0 .. 7 PROVE g[k] = G(g)[k]
    <3>1. CASE k = 0
      BY <3>1
    <3>2. CASE k = 1
      BY <1>1, <3>2
    <3>3. CASE k \in 2 .. 7
      <4>1. g[k] = Shifted(x, k) /\ g[k - 1] = Shifted(x, k - 1)
        BY <3>3
      <4>2. Shl16(Shifted(x, k - 1)) = Shifted(x, (k - 1) + 1)
        <5>1. k - 1 \in 0 .. 7 /\ d \in Nat /\ DOMAIN x = 0 .. (d - 1)
          BY <3>3
        <5> HIDE DEF d
        <5> QED BY <5>1, ShiftOnce
      <4>3. (k - 1) + 1 = k
        OBVIOUS
      <4>4. G(g)[k] = Shl16(g[k - 1])
        BY <3>3
      <4> QED BY <4>1, <4>2, <4>3, <4>4
    <3> QED BY <3>1, <3>2, <3>3
  <2> QED BY <2>1
<1>3. s = G(s)
  BY <1>2
<1> HIDE DEF s
<1>4. \A k \in 0 .. 6 : s[k + 1] = Shl16(s[k])
  <2> SUFFICES ASSUME NEW k \in 0 .. 6 PROVE s[k + 1] = Shl16(s[k])
    OBVIOUS
  <2>1. k + 1 \in 0 .. 7 /\ k + 1 # 0 /\ (k + 1) - 1 = k
    OBVIOUS
  <2> QED BY <1>3, <2>1
<1>5. s[0] = x
  BY <1>3
<1>6. \A k \in 0 .. 6 : s[k] = g[k] => s[k + 1] = g[k + 1]
  <2> SUFFICES ASSUME NEW k \in 0 .. 6, s[k] = g[k] PROVE s[k + 1] = g[k + 1]
    OBVIOUS
  <2>1. k + 1 \in 0 .. 7 /\ k + 1 # 0 /\ (k + 1) - 1 = k /\ k \in 0 .. 7
    OBVIOUS
  <2>2. g[k + 1] = Shl16(g[k])
    <3>1. G(g)[k + 1] = Shl16(g[k])
      BY <2>1
    <3> HIDE DEF g
    <3> QED BY <1>2, <3>1
  <2> QED BY <1>4, <2>2
<1>7. s[kk] = g[kk]
  <2>1. s[0] = g[0]
    BY <1>5
  <2> HIDE DEF g
  <2>2. s[0 + 1] = g[0 + 1] BY <1>6, <2>1
  <2>3. s[1 + 1] = g[1 + 1] BY <1>6, <2>2
  <2>4. s[2 + 1] = g[2 + 1] BY <1>6, <2>3
  <2>5. s[3 + 1] = g[3 + 1] BY <1>6, <2>4
  <2>6. s[4 + 1] = g[4 + 1] BY <1>6, <2>5
  <2>7. s[5 + 1] = g[5 + 1] BY <1>6, <2>6
  <2>8. s[6 + 1] = g[6 + 1] BY <1>6, <2>7
  <2>9. kk = 0 \/ kk = 1 \/ kk = 2 \/ kk = 3 \/ kk = 4 \/ kk = 5 \/ kk = 6 \/ kk = 7
    OBVIOUS
  <2> QED BY <2>1, <2>2, <2>3, <2>4, <2>5, <2>6, <2>7, <2>8, <2>9
<1>8. MoveMask(x, kk)
        = [i \in 0 .. ((Cardinality(DOMAIN x) \div 8) - 1) |-> s[kk][8 * i + 7]]
  BY DEF MoveMask, s
<1>9. Cardinality(DOMAIN x) \div 8 = w
  <2>1. 0 \in Int /\ d - 1 \in Int /\ d - 1 - 0 + 1 = d /\ d \div 8 = w /\ d \in Nat
    OBVIOUS
  <2>2. CASE w = 0
    <3>1. DOMAIN x = {}
      BY <2>2
    <3>2. Cardinality(DOMAIN x) = 0
      BY <3>1, FS_EmptySet
    <3> QED BY <2>2, <3>2
  <2>3. CASE w # 0
    <3> HIDE DEF d
    <3>1. Cardinality(0 .. (d - 1)) = IF 0 > d - 1 THEN 0 ELSE d - 1 - 0 + 1
      BY <2>1, FS_Interval
    <3>2. ~(0 > d - 1)
      BY <2>3 DEF d
    <3>3. Cardinality(0 .. (d - 1)) = d
      BY <2>1, <3>1, <3>2
    <3> QED BY <2>1, <3>3 DEF d
  <2> QED BY <2>2, <2>3
<1>10. MoveMask(x, kk)[j] = s[kk][8 * j + 7]
  BY <1>8, <1>9
<1>11. g[kk][8 * j + 7] = x[8 * j + 7 - kk]
  <2>1. 8 * j + 7 \in DOMAIN x /\ (8 * j + 7) % 16 >= kk
    OBVIOUS
  <2> DEFINE i == 8 * j + 7
  <2>2. CASE kk = 0
    <3>1. i - kk = i
      BY <2>1, <2>2
    <3> QED BY <2>2, <3>1
  <2>3. CASE kk # 0
    <3>1. g[kk] = Shifted(x, kk)
      BY <2>3
    <3> HIDE DEF g
    <3> HIDE DEF i
    <3>4. i \in DOMAIN x /\ i % 16 >= kk
      BY <2>1 DEF i
    <3>3. Shifted(x, kk)[i] = x[i - kk]
      BY <3>4, ShiftedAt
    <3>5. g[kk][i] = x[i - kk]
      BY <3>1, <3>3
    <3> QED BY <3>5 DEF i
  <2> QED BY <2>2, <2>3
<1> QED BY <1>7, <1>10, <1>11

-----------------------------------------------------------------------------
(* NEON's substitute for the mask of top bits.                              *)

LEMMA SpreadAt ==
  ASSUME NEW x, DOMAIN x = 0 .. 127, NEW k \in 0 .. 7, NEW B \in 0 .. 15, NEW c \in 0 .. 7
  PROVE  Spread(x, k)[Cell(B, 8, c)] = IF c = B % 8 THEN x[8 * B + 7 - k] ELSE {}
<1> DEFINE i == Cell(B, 8, c)
<1>1. i \in DOMAIN x /\ i % 8 = c /\ i \div 8 = B
  BY DEF Cell
<1> HIDE DEF i
<1>2. Spread(x, k)[i] = IF i % 8 = (i \div 8) % 8 THEN x[(8 * (i \div 8)) + 7 - k] ELSE {}
  BY <1>1 DEF Spread
<1> QED BY <1>1, <1>2 DEF i

(* A pairwise addition adds neighbours.                                     *)
LEMMA PairAddAt ==
  ASSUME NEW p, NEW q, NEW b \in 0 .. 15, NEW d \in 0 .. 7, d = b % 8, NEW c \in 0 .. 7,
         NEW v, v = IF b < 8 THEN p ELSE q
  PROVE  PairAdd(p, q)[Cell(b, 8, c)] = Xor(v[Cell(2 * d, 8, c)], v[Cell(2 * d + 1, 8, c)])
<1> DEFINE i == Cell(b, 8, c)
<1>1. /\ i \in 0 .. 127 /\ (i < 64 <=> b < 8) /\ i % 8 = c
      /\ 16 * ((i % 64) \div 8) + (i % 8) = Cell(2 * d, 8, c)
      /\ 16 * ((i % 64) \div 8) + 8 + (i % 8) = Cell(2 * d + 1, 8, c)
  BY DEF Cell
<1> HIDE DEF i
<1>2. PairAdd(p, q)[i] = LET u    == IF i < 64 THEN p ELSE q
                             lane == 16 * ((i % 64) \div 8)
                         IN  Xor(u[lane + (i % 8)], u[lane + 8 + (i % 8)])
  BY <1>1 DEF PairAdd
<1>3. (IF i < 64 THEN p ELSE q) = v
  BY <1>1
<1>4. PairAdd(p, q)[i] = Xor(v[16 * ((i % 64) \div 8) + (i % 8)], v[16 * ((i % 64) \div 8) + 8 + (i % 8)])
  BY <1>2, <1>3
<1> QED BY <1>1, <1>4 DEF i

(* The eight bytes of half h of a register, added. *)
Sum8(p, h, c) ==
  Xor(Xor(Xor(p[Cell(8 * h, 8, c)], p[Cell(8 * h + 1, 8, c)]),
          Xor(p[Cell(8 * h + 2, 8, c)], p[Cell(8 * h + 3, 8, c)])),
      Xor(Xor(p[Cell(8 * h + 4, 8, c)], p[Cell(8 * h + 5, 8, c)]),
          Xor(p[Cell(8 * h + 6, 8, c)], p[Cell(8 * h + 7, 8, c)])))

(* Three pairwise additions add the eight bytes of each half.               *)
LEMMA BulkAt ==
  ASSUME NEW p0, NEW p1, NEW p2, NEW p3, NEW k \in 0 .. 3, NEW h \in 0 .. 1, NEW c \in 0 .. 7,
         NEW p, p = IF k = 0 THEN p0 ELSE IF k = 1 THEN p1 ELSE IF k = 2 THEN p2 ELSE p3
  PROVE  neonmovemask_bulk(p0, p1, p2, p3)[Cell(2 * k + h, 8, c)] = Sum8(p, h, c)
<1> DEFINE P01 == PairAdd(p0, p1)
           P23 == PairAdd(p2, p3)
           P == IF k < 2 THEN P01 ELSE P23
           sum == PairAdd(P01, P23)
           k1 == k % 2
<1>0. k1 \in 0 .. 1 /\ k = 2 * (k \div 2) + k1
  OBVIOUS
<1>1. ASSUME NEW e \in 0 .. 3
      PROVE  P[Cell(8 * k1 + 4 * h + e, 8, c)]
               = Xor(p[Cell(8 * h + 2 * e, 8, c)], p[Cell(8 * h + 2 * e + 1, 8, c)])
  <2> DEFINE b == 8 * k1 + 4 * h + e
             d == 4 * h + e
  <2>1. b \in 0 .. 15 /\ d \in 0 .. 7 /\ d = b % 8 /\ (b < 8 <=> k1 = 0)
    BY <1>0
  <2>2. 2 * d = 8 * h + 2 * e /\ 2 * d + 1 = 8 * h + 2 * e + 1
    OBVIOUS
  <2>3. CASE k < 2
    <3>1. p = IF b < 8 THEN p0 ELSE p1
      BY <1>0, <2>1, <2>3
    <3> HIDE DEF b, d
    <3>2. PairAdd(p0, p1)[Cell(b, 8, c)] = Xor(p[Cell(2 * d, 8, c)], p[Cell(2 * d + 1, 8, c)])
      BY <2>1, <3>1, PairAddAt
    <3> QED BY <2>2, <2>3, <3>2 DEF b
  <2>4. CASE ~(k < 2)
    <3>1. p = IF b < 8 THEN p2 ELSE p3
      BY <1>0, <2>1, <2>4
    <3> HIDE DEF b, d
    <3>2. PairAdd(p2, p3)[Cell(b, 8, c)] = Xor(p[Cell(2 * d, 8, c)], p[Cell(2 * d + 1, 8, c)])
      BY <2>1, <3>1, PairAddAt
    <3> QED BY <2>2, <2>4, <3>2 DEF b
  <2> QED BY <2>3, <2>4
<1> HIDE DEF P01, P23, P
<1>2. ASSUME NEW e \in 0 .. 1
      PROVE  sum[Cell(4 * k + 2 * h + e, 8, c)]
               = Xor(P[Cell(8 * k1 + 4 * h + 2 * e, 8, c)], P[Cell(8 * k1 + 4 * h + 2 * e + 1, 8, c)])
  <2> DEFINE b == 4 * k + 2 * h + e
             d == 4 * k1 + 2 * h + e
  <2>1. b \in 0 .. 15 /\ d \in 0 .. 7 /\ d = b % 8 /\ (b < 8 <=> k < 2)
    BY <1>0
  <2>2. 2 * d = 8 * k1 + 4 * h + 2 * e
    BY <1>0
  <2>3. P = IF b < 8 THEN P01 ELSE P23
    BY <2>1 DEF P
  <2> HIDE DEF b, d, k1
  <2>4. PairAdd(P01, P23)[Cell(b, 8, c)] = Xor(P[Cell(2 * d, 8, c)], P[Cell(2 * d + 1, 8, c)])
    BY <2>1, <2>3, PairAddAt
  <2> QED BY <2>2, <2>4 DEF b
<1> HIDE DEF sum
<1>3. neonmovemask_bulk(p0, p1, p2, p3)[Cell(2 * k + h, 8, c)]
        = Xor(sum[Cell(4 * k + 2 * h, 8, c)], sum[Cell(4 * k + 2 * h + 1, 8, c)])
  <2> DEFINE b == 2 * k + h
  <2>1. b \in 0 .. 15 /\ b \in 0 .. 7 /\ b = b % 8 /\ sum = (IF b < 8 THEN sum ELSE sum)
    OBVIOUS
  <2>2. 2 * b = 4 * k + 2 * h /\ Cell(b, 8, c) \in 0 .. 63
    BY DEF Cell
  <2> HIDE DEF b
  <2>3. PairAdd(sum, sum)[Cell(b, 8, c)] = Xor(sum[Cell(2 * b, 8, c)], sum[Cell(2 * b + 1, 8, c)])
    BY <2>1, PairAddAt
  <2>4. neonmovemask_bulk(p0, p1, p2, p3) = [i \in 0 .. 63 |-> PairAdd(sum, sum)[i]]
    BY DEF neonmovemask_bulk, sum, P01, P23
  <2>5. neonmovemask_bulk(p0, p1, p2, p3)[Cell(b, 8, c)] = PairAdd(sum, sum)[Cell(b, 8, c)]
    BY <2>2, <2>4
  <2> QED BY <2>2, <2>3, <2>5 DEF b
<1> DEFINE S(a) == p[Cell(8 * h + a, 8, c)]
<1>4. /\ P[Cell(8 * k1 + 4 * h + 0, 8, c)] = Xor(p[Cell(8 * h + 2 * 0, 8, c)], p[Cell(8 * h + 2 * 0 + 1, 8, c)])
      /\ P[Cell(8 * k1 + 4 * h + 1, 8, c)] = Xor(p[Cell(8 * h + 2 * 1, 8, c)], p[Cell(8 * h + 2 * 1 + 1, 8, c)])
      /\ P[Cell(8 * k1 + 4 * h + 2, 8, c)] = Xor(p[Cell(8 * h + 2 * 2, 8, c)], p[Cell(8 * h + 2 * 2 + 1, 8, c)])
      /\ P[Cell(8 * k1 + 4 * h + 3, 8, c)] = Xor(p[Cell(8 * h + 2 * 3, 8, c)], p[Cell(8 * h + 2 * 3 + 1, 8, c)])
  BY <1>1
<1>5. /\ sum[Cell(4 * k + 2 * h + 0, 8, c)]
           = Xor(P[Cell(8 * k1 + 4 * h + 2 * 0, 8, c)], P[Cell(8 * k1 + 4 * h + 2 * 0 + 1, 8, c)])
      /\ sum[Cell(4 * k + 2 * h + 1, 8, c)]
           = Xor(P[Cell(8 * k1 + 4 * h + 2 * 1, 8, c)], P[Cell(8 * k1 + 4 * h + 2 * 1 + 1, 8, c)])
  BY <1>2
<1> HIDE DEF k1
<1>6. /\ 4 * k + 2 * h + 0 = 4 * k + 2 * h /\ 8 * h + 2 * 0 = 8 * h
      /\ 8 * k1 + 4 * h + 2 * 0 = 8 * k1 + 4 * h + 0
      /\ 8 * k1 + 4 * h + 2 * 0 + 1 = 8 * k1 + 4 * h + 1
      /\ 8 * k1 + 4 * h + 2 * 1 = 8 * k1 + 4 * h + 2
      /\ 8 * k1 + 4 * h + 2 * 1 + 1 = 8 * k1 + 4 * h + 3
      /\ 8 * h + 2 * 0 + 1 = 8 * h + 1 /\ 8 * h + 2 * 1 = 8 * h + 2 /\ 8 * h + 2 * 1 + 1 = 8 * h + 3
      /\ 8 * h + 2 * 2 = 8 * h + 4 /\ 8 * h + 2 * 2 + 1 = 8 * h + 5
      /\ 8 * h + 2 * 3 = 8 * h + 6 /\ 8 * h + 2 * 3 + 1 = 8 * h + 7
  BY <1>0
<1> QED BY <1>3, <1>4, <1>5, <1>6 DEF Sum8

(* Of the eight bytes that are added, one has its bit c. *)
LEMMA Sum8Spread ==
  ASSUME NEW x, DOMAIN x = 0 .. 127, NEW k \in 0 .. 7, NEW h \in 0 .. 1, NEW c \in 0 .. 7
  PROVE  Sum8(Spread(x, k), h, c) = x[8 * (8 * h + c) + 7 - k]
<1> DEFINE p == Spread(x, k)
           X == x[8 * (8 * h + c) + 7 - k]
<1>1. ASSUME NEW e \in 0 .. 7
      PROVE  p[Cell(8 * h + e, 8, c)] = IF c = e THEN X ELSE {}
  <2> DEFINE B == 8 * h + e
  <2>1. B \in 0 .. 15 /\ B % 8 = e
    OBVIOUS
  <2> HIDE DEF B
  <2>2. p[Cell(B, 8, c)] = IF c = B % 8 THEN x[8 * B + 7 - k] ELSE {}
    BY <2>1, SpreadAt
  <2> QED BY <2>1, <2>2 DEF B
<1> HIDE DEF p, X
<1>2. p[Cell(8 * h, 8, c)] = IF c = 0 THEN X ELSE {}
  <2>1. p[Cell(8 * h + 0, 8, c)] = IF c = 0 THEN X ELSE {}
    BY <1>1
  <2>2. 8 * h + 0 = 8 * h
    OBVIOUS
  <2> QED BY <2>1, <2>2
<1>3. /\ p[Cell(8 * h + 1, 8, c)] = (IF c = 1 THEN X ELSE {})
      /\ p[Cell(8 * h + 2, 8, c)] = (IF c = 2 THEN X ELSE {})
      /\ p[Cell(8 * h + 3, 8, c)] = (IF c = 3 THEN X ELSE {})
      /\ p[Cell(8 * h + 4, 8, c)] = (IF c = 4 THEN X ELSE {})
      /\ p[Cell(8 * h + 5, 8, c)] = (IF c = 5 THEN X ELSE {})
      /\ p[Cell(8 * h + 6, 8, c)] = (IF c = 6 THEN X ELSE {})
      /\ p[Cell(8 * h + 7, 8, c)] = (IF c = 7 THEN X ELSE {})
  BY <1>1
<1>4. Xor(X, {}) = X /\ Xor({}, X) = X /\ Xor({}, {}) = {}
  BY XorFacts
<1>5. c = 0 \/ c = 1 \/ c = 2 \/ c = 3 \/ c = 4 \/ c = 5 \/ c = 6 \/ c = 7
  OBVIOUS
<1>6. Sum8(p, h, c) = X
  BY <1>2, <1>3, <1>4, <1>5 DEF Sum8
<1> QED BY <1>6 DEF p, X

(* NEON's substitute is the mask of top bits of the shifted register.       *)
LEMMA NeonRowsAt ==
  ASSUME NEW x, DOMAIN x = 0 .. 127, NEW kk \in 0 .. 7, NEW i \in 0 .. 15
  PROVE  NeonRows(x)[kk][i] = x[8 * i + 7 - kk]
<1> DEFINE h == i \div 8
           c == i % 8
           lo == neonmovemask_bulk(Spread(x, 0), Spread(x, 1), Spread(x, 2), Spread(x, 3))
           hi == neonmovemask_bulk(Spread(x, 4), Spread(x, 5), Spread(x, 6), Spread(x, 7))
<1>1. h \in 0 .. 1 /\ c \in 0 .. 7 /\ i = 8 * h + c
  OBVIOUS
<1>2. NeonRows(x)[kk][i] = IF kk < 4 THEN lo[16 * kk + i] ELSE hi[16 * (kk - 4) + i]
  BY DEF NeonRows
<1>3. Sum8(Spread(x, kk), h, c) = x[8 * i + 7 - kk]
  <2> HIDE DEF h, c
  <2>1. Sum8(Spread(x, kk), h, c) = x[8 * (8 * h + c) + 7 - kk]
    BY <1>1, Sum8Spread
  <2> QED BY <1>1, <2>1
<1>4. CASE kk < 4
  <2> HIDE DEF h, c
  <2> DEFINE p == Spread(x, kk)
  <2>1. kk \in 0 .. 3 /\ p = IF kk = 0 THEN Spread(x, 0) ELSE IF kk = 1 THEN Spread(x, 1)
                             ELSE IF kk = 2 THEN Spread(x, 2) ELSE Spread(x, 3)
    BY <1>4
  <2>2. 16 * kk + i = Cell(2 * kk + h, 8, c)
    BY <1>1 DEF Cell
  <2> HIDE DEF p
  <2>3. lo[Cell(2 * kk + h, 8, c)] = Sum8(p, h, c)
    BY <1>1, <2>1, BulkAt
  <2> QED BY <1>2, <1>3, <1>4, <2>2, <2>3 DEF p
<1>5. CASE ~(kk < 4)
  <2> HIDE DEF h, c
  <2> DEFINE p == Spread(x, kk)
             k == kk - 4
  <2>1. k \in 0 .. 3 /\ p = IF k = 0 THEN Spread(x, 4) ELSE IF k = 1 THEN Spread(x, 5)
                             ELSE IF k = 2 THEN Spread(x, 6) ELSE Spread(x, 7)
    BY <1>5
  <2>2. 16 * (kk - 4) + i = Cell(2 * k + h, 8, c)
    BY <1>1 DEF Cell
  <2> HIDE DEF p, k
  <2>3. hi[Cell(2 * k + h, 8, c)] = Sum8(p, h, c)
    BY <1>1, <2>1, BulkAt
  <2> QED BY <1>2, <1>3, <1>5, <2>2, <2>3 DEF p
<1> QED BY <1>4, <1>5

-----------------------------------------------------------------------------
(* Workers that move bits within bytes.                                     *)

LEMMA LoadAt ==
  ASSUME NEW m, NEW a \in Nat, NEW n \in Nat, NEW j \in 0 .. (n - 1), NEW c \in Lane
  PROVE  Load(m, a, n)[Cell(j, 8, c)] = BitAt(m, a + j, c)
<1> DEFINE i == Cell(j, 8, c)
<1>1. i \in 0 .. (8 * n - 1) /\ i \div 8 = j /\ i % 8 = c
  BY DEF Cell, Lane
<1> HIDE DEF i
<1>2. Load(m, a, n)[i] = m[a + (i \div 8)][i % 8]
  BY <1>1 DEF Load
<1> QED BY <1>1, <1>2 DEF i, BitAt

LEMMA LoadDomain ==
  ASSUME NEW m, NEW a, NEW n
  PROVE  DOMAIN Load(m, a, n) = 0 .. (8 * n - 1)
BY DEF Load

(* A register of rows: bit j of y is bit 7 - kk of byte j. *)
TopBits(y, m, a, w, kk) == \A j \in 0 .. (w - 1) : y[j] = BitAt(m, a + j, 7 - kk)

(* The movemask loops hold the rows of bits of what was loaded.             *)
LEMMA MoveMaskBits ==
  ASSUME NEW m, NEW a \in Nat, NEW w \in Nat, NEW kk \in Lane
  PROVE  TopBits(MoveMask(Load(m, a, w), kk), m, a, w, kk)
<1> SUFFICES ASSUME NEW j \in 0 .. (w - 1) PROVE MoveMask(Load(m, a, w), kk)[j] = BitAt(m, a + j, 7 - kk)
  BY DEF TopBits
<1> DEFINE x == Load(m, a, w)
<1>1. DOMAIN x = 0 .. (8 * w - 1)
  BY LoadDomain
<1> HIDE DEF x
<1>2. MoveMask(x, kk)[j] = x[8 * j + 7 - kk]
  BY <1>1, MoveMaskAt DEF Lane
<1> DEFINE c == 7 - kk
<1>3. c \in Lane /\ 8 * j + 7 - kk = Cell(j, 8, c)
  BY DEF Cell, Lane
<1> HIDE DEF c
<1>4. Load(m, a, w)[Cell(j, 8, c)] = BitAt(m, a + j, c)
  BY <1>3, LoadAt
<1> QED BY <1>2, <1>3, <1>4 DEF x, c

(* So does NEON's.                                                          *)
LEMMA NeonBits ==
  ASSUME NEW m, NEW a \in Nat, NEW kk \in Lane
  PROVE  TopBits(NeonRows(Load(m, a, 16))[kk], m, a, 16, kk)
<1> SUFFICES ASSUME NEW j \in 0 .. 15 PROVE NeonRows(Load(m, a, 16))[kk][j] = BitAt(m, a + j, 7 - kk)
  BY DEF TopBits
<1> DEFINE x == Load(m, a, 16)
           w == 16
<1>1. DOMAIN x = 0 .. 127
  <2>1. DOMAIN x = 0 .. (8 * 16 - 1)
    BY LoadDomain
  <2>2. 8 * 16 - 1 = 127
    OBVIOUS
  <2> QED BY <2>1, <2>2
<1> HIDE DEF x
<1>2. NeonRows(x)[kk][j] = x[8 * j + 7 - kk]
  BY <1>1, NeonRowsAt DEF Lane
<1> DEFINE c == 7 - kk
<1>3. c \in Lane /\ 8 * j + 7 - kk = Cell(j, 8, c) /\ w \in Nat /\ j \in 0 .. (w - 1)
  BY DEF Cell, Lane
<1>5. x = Load(m, a, w)
  BY DEF x
<1> HIDE DEF c, w
<1>4. Load(m, a, w)[Cell(j, 8, c)] = BitAt(m, a + j, c)
  BY <1>3, LoadAt
<1>6. NeonRows(x)[kk][j] = BitAt(m, a + j, c)
  BY <1>2, <1>3, <1>4, <1>5
<1> QED BY <1>6 DEF c, x

(* A byte of such a register gathers one bit of eight bytes.                *)
LEMMA TopBitsByte ==
  ASSUME NEW m, NEW T \in Nat, NEW v \in Nat, NEW kk \in Lane, NEW y,
         TopBits(y, m, 8 * T, 8 * v, kk), NEW k \in 0 .. (v - 1)
  PROVE  ByteOf(y, k) = EightBits(m, T + k, 7 - kk)
<1>1. ASSUME NEW b \in 0 .. 7 PROVE y[8 * k + b] = BitAt(m, Cell(T + k, 8, b), 7 - kk)
  <2> DEFINE j == 8 * k + b
  <2>1. j \in 0 .. (8 * v - 1) /\ 8 * T + j = Cell(T + k, 8, b)
    BY DEF Cell
  <2> HIDE DEF j
  <2>2. y[j] = BitAt(m, 8 * T + j, 7 - kk)
    BY <2>1 DEF TopBits
  <2> QED BY <2>1, <2>2 DEF j
<1> QED BY <1>1 DEF ByteOf, EightBits

(* Strides over bytes are strides over groups of eight. *)
LEMMA StridesOfEight ==
  ASSUME NEW t0 \in Nat, NEW row \in Nat, NEW v \in {2, 4, 8}, NEW ii
  PROVE  ii \in Strides(8 * t0, 8 * row, 8 * v) <=> \E T \in Strides(t0, row, v) : ii = 8 * T
<1>1. ASSUME ii \in Strides(8 * t0, 8 * row, 8 * v) PROVE \E T \in Strides(t0, row, v) : ii = 8 * T
  <2>1. ii \in (8 * t0) .. (8 * row - 8 * v) /\ (ii - 8 * t0) % (8 * v) = 0
    BY <1>1 DEF Strides
  <2> DEFINE T == ii \div 8
  <2>2. ii = 8 * T /\ T \in t0 .. (row - v) /\ (T - t0) % v = 0
    <3>1. CASE v = 2
      BY <2>1, <3>1
    <3>2. CASE v = 4
      BY <2>1, <3>2
    <3>3. CASE v = 8
      BY <2>1, <3>3
    <3> QED BY <3>1, <3>2, <3>3
  <2> HIDE DEF T
  <2>3. T \in Strides(t0, row, v)
    BY <2>2 DEF Strides
  <2> QED BY <2>2, <2>3
<1>2. ASSUME NEW T \in Strides(t0, row, v) PROVE 8 * T \in Strides(8 * t0, 8 * row, 8 * v)
  <2>1. T \in t0 .. (row - v) /\ (T - t0) % v = 0
    BY DEF Strides
  <2>2. 8 * T \in (8 * t0) .. (8 * row - 8 * v) /\ (8 * T - 8 * t0) % (8 * v) = 0
    <3>1. CASE v = 2
      BY <2>1, <3>1
    <3>2. CASE v = 4
      BY <2>1, <3>2
    <3>3. CASE v = 8
      BY <2>1, <3>3
    <3> QED BY <3>1, <3>2, <3>3
  <2> QED BY <2>2 DEF Strides
<1> QED BY <1>1, <1>2

(* Row 7 - kk of the bit rows. *)
LEMMA RowAddress ==
  ASSUME NEW sz \in Nat, NEW e \in Nat, NEW row \in Nat, sz * e = 8 * row,
         NEW kk \in Lane, NEW T \in Nat
  PROVE  ((7 - kk) * sz * e + 8 * T) \div 8 = Cell(7 - kk, row, T)
<1> DEFINE r == (7 - kk) * row
<1>1. r \in Nat
  BY DEF Lane
<1>2. (7 - kk) * sz * e = 8 * r
  <2>1. \A u, v, w \in Int : (u * v) * w = u * (v * w)
    OBVIOUS
  <2>2. \A u, v \in Int : u * (8 * v) = 8 * (u * v)
    OBVIOUS
  <2>3. 7 - kk \in Int
    BY DEF Lane
  <2> QED BY <2>1, <2>2, <2>3
<1> HIDE DEF r
<1>3. (8 * r + 8 * T) \div 8 = r + T
  BY <1>1
<1> QED BY <1>2, <1>3 DEF r, Cell

(* Registers of v groups of eight bytes cover what lies before a remainder.  *)
LEMMA WideRowsCover ==
  ASSUME NEW m, NEW row \in Nat, NEW t0 \in Nat, t0 <= row, NEW v \in {2, 4, 8}, NEW W,
         \A s \in W : \E T \in Strides(t0, row, v) : \E kk \in Lane : \E k \in 0 .. (v - 1) :
            s = <<Cell(7 - kk, row, T) + k, EightBits(m, T + k, 7 - kk)>>,
         \A T \in Strides(t0, row, v) : \A kk \in Lane : \A k \in 0 .. (v - 1) :
            <<Cell(7 - kk, row, T) + k, EightBits(m, T + k, 7 - kk)>> \in W
  PROVE  Covers(W, BitTrans(m, row), Rect(row, Lane, t0 .. (row - ((row - t0) % v) - 1)))
<1> DEFINE F == BitTrans(m, row)
           hi == row - ((row - t0) % v)
           I == t0 .. (hi - 1)
           V == 0 .. (v - 1)
           S == Strides(t0, row, v)
<1>0. v \in Nat /\ v > 0 /\ (row - t0) % v \in Nat
  OBVIOUS
<1>1. ASSUME NEW T \in S, NEW k \in V PROVE T \in Nat /\ T + k \in I /\ k \in Nat
  <2>1. T \in Nat /\ T + k \in I
    BY <1>0, StridesIn
  <2> QED BY <2>1
<1>2. \A x \in I : \E T \in S : \E k \in V : x = T + k
  BY <1>0, Striding
<1>3. ASSUME NEW T \in S, NEW k \in V, NEW kk \in Lane
      PROVE  <<Cell(7 - kk, row, T) + k, EightBits(m, T + k, 7 - kk)>>
               = <<Cell(7 - kk, row, T + k), F[Cell(7 - kk, row, T + k)]>>
  <2>1. T \in Nat /\ k \in Nat /\ T + k \in I
    BY <1>1
  <2>2. T + k \in 0 .. (row - 1) /\ 7 - kk \in Lane
    BY <1>0, <2>1 DEF Lane
  <2>3. F[Cell(7 - kk, row, T + k)] = EightBits(m, T + k, 7 - kk)
    BY <2>2, BitTransAt
  <2>4. Cell(7 - kk, row, T) + k = Cell(7 - kk, row, T + k)
    <3> DEFINE r == (7 - kk) * row
    <3>1. r \in Int
      BY DEF Lane
    <3> HIDE DEF r
    <3>2. (r + T) + k = r + (T + k)
      BY <2>1, <3>1
    <3> QED BY <3>2 DEF r, Cell
  <2> QED BY <2>3, <2>4
<1> HIDE DEF F, I, V, S
<1>4. ASSUME NEW s \in W PROVE \E j \in Lane : \E i \in I : s = <<Cell(j, row, i), F[Cell(j, row, i)]>>
  <2>1. PICK T \in S : \E kk \in Lane : \E k \in V :
             s = <<Cell(7 - kk, row, T) + k, EightBits(m, T + k, 7 - kk)>>
    BY DEF S, V
  <2>2. PICK kk \in Lane, k \in V : s = <<Cell(7 - kk, row, T) + k, EightBits(m, T + k, 7 - kk)>>
    BY <2>1
  <2>3. 7 - kk \in Lane
    BY DEF Lane
  <2>4. T + k \in I
    BY <1>1
  <2> QED BY <1>3, <2>2, <2>3, <2>4
<1>5. ASSUME NEW j \in Lane, NEW i \in I PROVE <<Cell(j, row, i), F[Cell(j, row, i)]>> \in W
  <2>1. PICK T \in S, k \in V : i = T + k
    BY <1>2
  <2> DEFINE kk == 7 - j
  <2>2. kk \in Lane /\ 7 - kk = j
    BY DEF Lane
  <2> HIDE DEF kk
  <2>3. <<Cell(7 - kk, row, T) + k, EightBits(m, T + k, 7 - kk)>> \in W
    BY <2>2 DEF S, V
  <2> QED BY <1>3, <2>1, <2>2, <2>3
<1>6. Covers(W, F, Rect(row, Lane, I))
  BY <1>4, <1>5, RectCovers
<1> QED BY <1>6 DEF F, I

(* The movemask loop of a register of 16, 32 or 64 bytes.                   *)
LEMMA MaskCovers ==
  ASSUME NEW m, NEW sz \in Nat, NEW e \in Nat, NEW row \in Nat, sz * e = 8 * row,
         NEW t0 \in Nat, t0 <= row, NEW v \in {2, 4, 8}
  PROVE  Covers(TransBitByteMask(m, sz, e, 8 * t0, 8 * v), BitTrans(m, row),
                Rect(row, Lane, t0 .. (row - ((row - t0) % v) - 1)))
<1>0. ASSUME NEW T \in Nat, NEW kk \in Lane
      PROVE  ((7 - kk) * sz * e + 8 * T) \div 8 = Cell(7 - kk, row, T)
  BY RowAddress
<1> DEFINE W == TransBitByteMask(m, sz, e, 8 * t0, 8 * v)
           S == Strides(t0, row, v)
           S8 == Strides(8 * t0, 8 * row, 8 * v)
           V == 0 .. (v - 1)
           st(ii, kk) == Store(((7 - kk) * sz * e + ii) \div 8,
                               MoveMask(Load(m, ii, 8 * v), kk), v)
<1>1. W = UNION {st(ii, kk) : ii \in S8, kk \in Lane}
  <2>1. (8 * v) \div 8 = v
    OBVIOUS
  <2> QED BY <2>1 DEF TransBitByteMask, Lane
<1>2. ASSUME NEW T \in S, NEW kk \in Lane
      PROVE  st(8 * T, kk) = {<<Cell(7 - kk, row, T) + k, EightBits(m, T + k, 7 - kk)>> : k \in V}
  <2>1. T \in Nat
    BY DEF Strides
  <2> DEFINE y == MoveMask(Load(m, 8 * T, 8 * v), kk)
  <2>2. TopBits(y, m, 8 * T, 8 * v, kk)
    <3>1. 8 * T \in Nat /\ 8 * v \in Nat
      BY <2>1
    <3> QED BY <3>1, MoveMaskBits
  <2> HIDE DEF y
  <2>3. ASSUME NEW k \in V PROVE ByteOf(y, k) = EightBits(m, T + k, 7 - kk)
    <3>1. v \in Nat
      OBVIOUS
    <3> QED BY <2>1, <2>2, <3>1, TopBitsByte
  <2>4. ((7 - kk) * sz * e + 8 * T) \div 8 = Cell(7 - kk, row, T)
    BY <2>1, <1>0
  <2> HIDE DEF V
  <2>5. Store(Cell(7 - kk, row, T), y, v)
          = {<<Cell(7 - kk, row, T) + k, EightBits(m, T + k, 7 - kk)>> : k \in V}
    BY <2>3 DEF Store, V
  <2> QED BY <2>4, <2>5 DEF y
<1>3. \A ii : ii \in S8 <=> \E T \in S : ii = 8 * T
  BY StridesOfEight
<1> HIDE DEF W, S, S8, V, st
<1>4. ASSUME NEW s \in W
      PROVE  \E T \in S : \E kk \in Lane : \E k \in V :
               s = <<Cell(7 - kk, row, T) + k, EightBits(m, T + k, 7 - kk)>>
  <2>1. PICK ii \in S8, kk \in Lane : s \in st(ii, kk)
    BY <1>1
  <2>2. PICK T \in S : ii = 8 * T
    BY <1>3
  <2>3. \E k \in V : s = <<Cell(7 - kk, row, T) + k, EightBits(m, T + k, 7 - kk)>>
    BY <1>2, <2>1, <2>2
  <2> QED BY <2>3
<1>5. ASSUME NEW T \in S, NEW kk \in Lane, NEW k \in V
      PROVE  <<Cell(7 - kk, row, T) + k, EightBits(m, T + k, 7 - kk)>> \in W
  <2>1. <<Cell(7 - kk, row, T) + k, EightBits(m, T + k, 7 - kk)>> \in st(8 * T, kk)
    BY <1>2
  <2>2. 8 * T \in S8
    BY <1>3
  <2> QED BY <1>1, <2>1, <2>2
<1> QED BY <1>4, <1>5, WideRowsCover DEF W, S, V

(* The loop of bshuf_trans_bit_byte_NEON.                                   *)
LEMMA NeonCovers ==
  ASSUME NEW m, NEW sz \in Nat, NEW e \in Nat, NEW row \in Nat, sz * e = 8 * row,
         NEW W,
         W = UNION {LET rows == NeonRows(Load(m, ii, 16))
                    IN  UNION {Store(((7 - kk) * sz * e + ii) \div 8, rows[kk], 2) : kk \in 0 .. 7} :
                       ii \in Strides(0, sz * e, 16)}
  PROVE  Covers(W, BitTrans(m, row), Rect(row, Lane, 0 .. (row - (row % 2) - 1)))
<1> DEFINE v == 2
           t0 == 0
           S == Strides(t0, row, v)
           S8 == Strides(8 * t0, 8 * row, 8 * v)
           V == 0 .. (v - 1)
           st(ii, kk) == Store(((7 - kk) * sz * e + ii) \div 8, NeonRows(Load(m, ii, 16))[kk], v)
<1>1. W = UNION {UNION {st(ii, kk) : kk \in Lane} : ii \in S8}
  BY DEF Lane
<1>2. ASSUME NEW T \in S, NEW kk \in Lane
      PROVE  st(8 * T, kk) = {<<Cell(7 - kk, row, T) + k, EightBits(m, T + k, 7 - kk)>> : k \in V}
  <2>1. T \in Nat
    BY DEF Strides
  <2> DEFINE y == NeonRows(Load(m, 8 * T, 16))[kk]
  <2>2. TopBits(y, m, 8 * T, 8 * v, kk)
    <3>1. 8 * T \in Nat /\ 8 * v = 16
      BY <2>1
    <3> QED BY <3>1, NeonBits
  <2>0. v \in Nat /\ v \in {2, 4, 8}
    OBVIOUS
  <2> HIDE DEF y, v
  <2>3. ASSUME NEW k \in V PROVE ByteOf(y, k) = EightBits(m, T + k, 7 - kk)
    BY <2>0, <2>1, <2>2, TopBitsByte
  <2>4. ((7 - kk) * sz * e + 8 * T) \div 8 = Cell(7 - kk, row, T)
    BY <2>1, RowAddress
  <2> HIDE DEF V
  <2>5. Store(Cell(7 - kk, row, T), y, v)
          = {<<Cell(7 - kk, row, T) + k, EightBits(m, T + k, 7 - kk)>> : k \in V}
    BY <2>3 DEF Store, V
  <2> QED BY <2>4, <2>5 DEF y
<1>0. v \in {2, 4, 8} /\ t0 \in Nat /\ t0 <= row /\ row - t0 = row
  OBVIOUS
<1>6. (row - t0) % v = row % 2 /\ t0 = 0
  OBVIOUS
<1> HIDE DEF v, t0
<1>3. \A ii : ii \in S8 <=> \E T \in S : ii = 8 * T
  BY <1>0, StridesOfEight
<1> DEFINE U(ii) == UNION {st(ii, kk) : kk \in Lane}
<1>8. W = UNION {U(ii) : ii \in S8}
  BY <1>1
<1>9. ASSUME NEW ii \in S8, NEW s PROVE s \in U(ii) => s \in W
  <2> HIDE DEF U, S8
  <2> QED BY <1>8
<1> HIDE DEF S, S8, V, st
<1>4. ASSUME NEW s \in W
      PROVE  \E T \in S : \E kk \in Lane : \E k \in V :
               s = <<Cell(7 - kk, row, T) + k, EightBits(m, T + k, 7 - kk)>>
  <2>0. PICK ii \in S8 : s \in UNION {st(ii, kk) : kk \in Lane}
    BY <1>1
  <2>1. PICK kk \in Lane : s \in st(ii, kk)
    BY <2>0
  <2>2. PICK T \in S : ii = 8 * T
    BY <1>3
  <2>3. \E k \in V : s = <<Cell(7 - kk, row, T) + k, EightBits(m, T + k, 7 - kk)>>
    BY <1>2, <2>1, <2>2
  <2> QED BY <2>3
<1>5. ASSUME NEW T \in S, NEW kk \in Lane, NEW k \in V
      PROVE  <<Cell(7 - kk, row, T) + k, EightBits(m, T + k, 7 - kk)>> \in W
  <2>1. <<Cell(7 - kk, row, T) + k, EightBits(m, T + k, 7 - kk)>> \in st(8 * T, kk)
    BY <1>2
  <2>2. 8 * T \in S8
    BY <1>3
  <2>3. <<Cell(7 - kk, row, T) + k, EightBits(m, T + k, 7 - kk)>> \in U(8 * T)
    BY <2>1
  <2> HIDE DEF U
  <2> QED BY <1>9, <2>2, <2>3
<1>7. Covers(W, BitTrans(m, row), Rect(row, Lane, t0 .. (row - ((row - t0) % v) - 1)))
  BY <1>0, <1>4, <1>5, WideRowsCover DEF S, V
<1> QED BY <1>6, <1>7

-----------------------------------------------------------------------------
(* Bits within bytes, one word at a time.                                   *)

(* The stores of one word, row k of it at row j of the result. *)
WordRows(m, row, ii, flip) ==
  {<<Cell(IF flip = 0 THEN kk ELSE 7 - kk, row, ii),
     EightBits(m, ii, IF flip = 0 THEN kk ELSE 7 - kk)>> : kk \in Lane}

LittleRows(m, row, ii) ==
  {<<0 + kk * row + ii, ByteOf(Through(TRANS_BIT_8X8, Load(m, 8 * ii, 8)), kk)>> : kk \in 0 .. 7}
BigRows(m, row, ii) ==
  {<<7 * row + kk * (-row) + ii, ByteOf(Through(TRANS_BIT_8X8_BE, LoadBE(m, 8 * ii)), kk)>> :
     kk \in 0 .. 7}

(* On a little-endian machine the loop walks the rows forwards ...          *)
LEMMA WordRowsLE ==
  ASSUME NEW m, NEW row \in Nat, NEW ii \in Nat
  PROVE  LittleRows(m, row, ii) = WordRows(m, row, ii, 0)
<1> DEFINE w == Through(TRANS_BIT_8X8, Load(m, 8 * ii, 8))
<1>1. ASSUME NEW kk \in Lane PROVE ByteOf(w, kk) = EightBits(m, ii, kk)
  BY WordLE
<1>2. ASSUME NEW kk \in Lane PROVE 0 + kk * row + ii = Cell(kk, row, ii)
  BY DEF Cell, Lane
<1> HIDE DEF w
<1>3. {<<0 + kk * row + ii, ByteOf(w, kk)>> : kk \in Lane}
        = {<<Cell(kk, row, ii), EightBits(m, ii, kk)>> : kk \in Lane}
  BY <1>1, <1>2
<1> QED BY <1>3 DEF w, WordRows, LittleRows, Lane

(* ... and on a big-endian one backwards.                                   *)
LEMMA WordRowsBE ==
  ASSUME NEW m, NEW row \in Nat, NEW ii \in Nat
  PROVE  BigRows(m, row, ii) = WordRows(m, row, ii, 7)
<1> DEFINE w == Through(TRANS_BIT_8X8_BE, LoadBE(m, 8 * ii))
<1>1. ASSUME NEW kk \in Lane PROVE ByteOf(w, kk) = EightBits(m, ii, 7 - kk)
  BY WordBE
<1>2. ASSUME NEW kk \in Lane PROVE 7 * row + kk * (-row) + ii = Cell(7 - kk, row, ii)
  BY DEF Cell, Lane
<1> HIDE DEF w
<1>3. {<<7 * row + kk * (-row) + ii, ByteOf(w, kk)>> : kk \in Lane}
        = {<<Cell(7 - kk, row, ii), EightBits(m, ii, 7 - kk)>> : kk \in Lane}
  BY <1>1, <1>2
<1> QED BY <1>3 DEF w, WordRows, BigRows, Lane

LEMMA InWordRows ==
  ASSUME NEW m, NEW row \in Nat, NEW ii \in Nat, NEW flip \in {0, 7}, NEW j \in Lane
  PROVE  <<Cell(j, row, ii), EightBits(m, ii, j)>> \in WordRows(m, row, ii, flip)
<1>1. 7 - j \in Lane /\ 7 - (7 - j) = j
  BY DEF Lane
<1>2. CASE flip = 0
  BY <1>2 DEF WordRows
<1>3. CASE flip = 7
  <2> DEFINE c == 7 - j
  <2>1. c \in Lane /\ 7 - c = j
    BY <1>1
  <2> HIDE DEF c
  <2>2. <<Cell(7 - c, row, ii), EightBits(m, ii, 7 - c)>> \in WordRows(m, row, ii, flip)
    BY <1>3, <2>1 DEF WordRows
  <2> QED BY <2>1, <2>2
<1> QED BY <1>2, <1>3

LEMMA OfWordRows ==
  ASSUME NEW m, NEW row \in Nat, NEW ii \in Nat, NEW flip \in {0, 7},
         NEW s \in WordRows(m, row, ii, flip)
  PROVE  \E j \in Lane : s = <<Cell(j, row, ii), EightBits(m, ii, j)>>
<1>1. PICK kk \in Lane : s = <<Cell(IF flip = 0 THEN kk ELSE 7 - kk, row, ii),
                               EightBits(m, ii, IF flip = 0 THEN kk ELSE 7 - kk)>>
  BY DEF WordRows
<1> DEFINE j == IF flip = 0 THEN kk ELSE 7 - kk
<1>2. j \in Lane
  BY DEF Lane
<1>3. s = <<Cell(j, row, ii), EightBits(m, ii, j)>>
  BY <1>1
<1> HIDE DEF j
<1> QED BY <1>2, <1>3

(* Either way the eight stores of every word cover the rows.                *)
LEMMA WordsCover ==
  ASSUME NEW m, NEW row \in Nat, NEW t0 \in Nat, NEW flip \in {0, 7}, NEW W,
         W = UNION {WordRows(m, row, ii, flip) : ii \in t0 .. (row - 1)}
  PROVE  Covers(W, BitTrans(m, row), Rect(row, Lane, t0 .. (row - 1)))
<1> DEFINE I == t0 .. (row - 1)
           F == BitTrans(m, row)
<1>1. W = UNION {WordRows(m, row, ii, flip) : ii \in I}
  OBVIOUS
<1>2. ASSUME NEW ii \in I PROVE ii \in 0 .. (row - 1) /\ ii \in Nat
  OBVIOUS
<1>3. ASSUME NEW j \in Lane, NEW i \in I PROVE F[Cell(j, row, i)] = EightBits(m, i, j)
  BY <1>2, BitTransAt
<1> HIDE DEF I, F
<1>4. ASSUME NEW s \in W PROVE \E j \in Lane : \E i \in I : s = <<Cell(j, row, i), F[Cell(j, row, i)]>>
  <2>1. PICK i \in I : s \in WordRows(m, row, i, flip)
    BY <1>1
  <2>2. PICK j \in Lane : s = <<Cell(j, row, i), EightBits(m, i, j)>>
    BY <1>2, <2>1, OfWordRows
  <2> QED BY <1>3, <2>2
<1>5. ASSUME NEW j \in Lane, NEW i \in I PROVE <<Cell(j, row, i), F[Cell(j, row, i)]>> \in W
  <2>1. <<Cell(j, row, i), EightBits(m, i, j)>> \in WordRows(m, row, i, flip)
    BY <1>2, InWordRows
  <2> QED BY <1>1, <1>3, <2>1
<1>6. Covers(W, F, Rect(row, Lane, I))
  BY <1>4, <1>5, RectCovers
<1> QED BY <1>6 DEF F, I

(* A start and a size in bytes, and what they are in groups of eight. *)
InEights(sz, e, start, row, t0) ==
  row = (sz * e) \div 8 /\ t0 = start \div 8 /\ (sz * e) % 8 = 0 /\ start % 8 = 0

LittleStores(m, row, t0) == UNION {LittleRows(m, row, ii) : ii \in t0 .. (row - 1)}

RemainderLE(m, sz, e, start) == TransBitByteRemainder(m, sz, e, start, TRUE)

LEMMA RemainderWordsLE ==
  ASSUME NEW m, NEW sz, NEW e, NEW start, NEW row, NEW t0,
         InEights(sz, e, start, row, t0)
  PROVE  RemainderLE(m, sz, e, start)
           = LittleStores(m, row, t0)
BY DEF InEights, TransBitByteRemainder, RemainderLE, LittleStores, LittleRows

(* bshuf_trans_bit_byte_remainder of a little-endian build.                 *)
LEMMA RemainderCoversLE ==
  ASSUME NEW m, NEW sz \in Nat, NEW e \in Nat, NEW row \in Nat, sz * e = 8 * row, NEW t0 \in Nat
  PROVE  Covers(RemainderLE(m, sz, e, 8 * t0), BitTrans(m, row),
                Rect(row, Lane, t0 .. (row - 1)))
<1> DEFINE I == t0 .. (row - 1)
           start == 8 * t0
           W == RemainderLE(m, sz, e, start)
<1>1. InEights(sz, e, start, row, t0)
  BY DEF InEights
<1>2. ASSUME NEW ii \in I PROVE ii \in Nat
  OBVIOUS
<1> HIDE DEF start, W
<1>5. W = LittleStores(m, row, t0)
  BY <1>1, RemainderWordsLE DEF W
<1>3. W = UNION {LittleRows(m, row, ii) : ii \in I}
  BY <1>5 DEF LittleStores
<1> HIDE DEF W, I
<1>4. W = UNION {WordRows(m, row, ii, 0) : ii \in I}
  BY <1>2, <1>3, WordRowsLE
<1> QED BY <1>4, WordsCover DEF I, W, start

BigStores(m, row, t0) == UNION {BigRows(m, row, ii) : ii \in t0 .. (row - 1)}

RemainderBE(m, sz, e, start) == TransBitByteRemainder(m, sz, e, start, FALSE)

LEMMA RemainderWordsBE ==
  ASSUME NEW m, NEW sz, NEW e, NEW start, NEW row, NEW t0,
         InEights(sz, e, start, row, t0)
  PROVE  RemainderBE(m, sz, e, start)
           = BigStores(m, row, t0)
BY DEF InEights, TransBitByteRemainder, RemainderBE, BigStores, BigRows

(* bshuf_trans_bit_byte_remainder of a big-endian build.                    *)
LEMMA RemainderCoversBE ==
  ASSUME NEW m, NEW sz \in Nat, NEW e \in Nat, NEW row \in Nat, sz * e = 8 * row, NEW t0 \in Nat
  PROVE  Covers(RemainderBE(m, sz, e, 8 * t0), BitTrans(m, row),
                Rect(row, Lane, t0 .. (row - 1)))
<1> DEFINE I == t0 .. (row - 1)
           start == 8 * t0
           W == RemainderBE(m, sz, e, start)
<1>1. InEights(sz, e, start, row, t0)
  BY DEF InEights
<1>2. ASSUME NEW ii \in I PROVE ii \in Nat
  OBVIOUS
<1> HIDE DEF start, W
<1>5. W = BigStores(m, row, t0)
  BY <1>1, RemainderWordsBE DEF W
<1>3. W = UNION {BigRows(m, row, ii) : ii \in I}
  BY <1>5 DEF BigStores
<1> HIDE DEF W, I
<1>4. W = UNION {WordRows(m, row, ii, 7) : ii \in I}
  BY <1>2, <1>3, WordRowsBE
<1> QED BY <1>4, WordsCover DEF I, W, start

-----------------------------------------------------------------------------
(* The wide loop and the remainder of a worker meet.                        *)

LEMMA WideThenRest ==
  ASSUME NEW m, NEW row \in Nat, NEW t0 \in Nat, NEW t1 \in Nat, t0 <= t1, t1 <= row, NEW W, NEW V,
         Covers(W, BitTrans(m, row), Rect(row, Lane, t0 .. (t1 - 1))),
         Covers(V, BitTrans(m, row), Rect(row, Lane, t1 .. (row - 1)))
  PROVE  Works(<<W, V>>, BitTrans(m, row), Rect(row, Lane, t0 .. (row - 1)))
<1> DEFINE F == BitTrans(m, row)
           I == t0 .. (t1 - 1)
           K == t1 .. (row - 1)
           U == t0 .. (row - 1)
<1>1. /\ I \union K = U /\ I \intersect K = {}
      /\ I \subseteq 0 .. (row - 1) /\ K \subseteq 0 .. (row - 1) /\ Lane \subseteq Nat
  BY DEF Lane
<1> HIDE DEF F, I, K, U
<1>2. Works(<<W, V>>, F, Rect(row, Lane, I \union K))
  BY <1>1, RectJoinColumns DEF F, I, K
<1>3. Works(<<W, V>>, F, Rect(row, Lane, U))
  BY <1>1, <1>2
<1> QED BY <1>3 DEF F, U

LEMMA AllRows ==
  ASSUME NEW row \in Nat
  PROVE  Rect(row, Lane, 0 .. (row - 1)) = 0 .. (8 * row - 1)
<1> DEFINE o == 8
<1>1. o \in Nat /\ Lane = 0 .. (o - 1) /\ row * o = 8 * row
  BY DEF Lane
<1> HIDE DEF o
<1>2. Rect(row, 0 .. (o - 1), 0 .. (row - 1)) = 0 .. (row * o - 1)
  BY <1>1, RectAll
<1> QED BY <1>1, <1>2

(* Where the remainder starts, in bytes and in groups of eight. *)
LEMMA RestOfEights ==
  ASSUME NEW n \in Nat, NEW row \in Nat, n = 8 * row, NEW v \in {2, 4, 8}
  PROVE  /\ row - (row % v) \in 0 .. row /\ n - (n % (8 * v)) = 8 * (row - (row % v))
         /\ row % v \in 0 .. 7 /\ n % (8 * v) = 8 * (row % v)
<1>1. CASE v = 2
  BY <1>1
<1>2. CASE v = 4
  BY <1>2
<1>3. CASE v = 8
  BY <1>3
<1> QED BY <1>1, <1>2, <1>3

LEMMA MaskFromZero ==
  ASSUME NEW m, NEW sz \in Nat, NEW e \in Nat, NEW row \in Nat, sz * e = 8 * row, NEW v \in {2, 4, 8}
  PROVE  Covers(TransBitByteMask(m, sz, e, 0, 8 * v), BitTrans(m, row),
                Rect(row, Lane, 0 .. (row - (row % v) - 1)))
<1> DEFINE z == 0
<1>1. z \in Nat /\ z <= row /\ 8 * z = 0 /\ row - z = row /\ z = 0
  OBVIOUS
<1> HIDE DEF z
<1>2. Covers(TransBitByteMask(m, sz, e, 8 * z, 8 * v), BitTrans(m, row),
             Rect(row, Lane, z .. (row - ((row - z) % v) - 1)))
  BY <1>1, MaskCovers
<1> QED BY <1>1, <1>2

(* The wide loop stops where the scalar remainder starts.                   *)
LEMMA MaskAndRemainder ==
  ASSUME NEW m, NEW sz \in Nat, NEW e \in Nat, NEW row \in Nat, sz * e = 8 * row, NEW v \in {2, 4, 8},
         NEW W, Covers(W, BitTrans(m, row), Rect(row, Lane, 0 .. (row - (row % v) - 1)))
  PROVE  Works(<<W, RemainderLE(m, sz, e, sz * e - ((sz * e) % (8 * v)))>>,
               BitTrans(m, row), 0 .. (8 * row - 1))
<1> DEFINE t1 == row - (row % v)
           z == 0
           n == sz * e
           start == n - (n % (8 * v))
<1>1. z \in Nat /\ z <= t1 /\ t1 <= row /\ t1 \in Nat /\ start = 8 * t1 /\ z = 0
  <2>1. n \in Nat /\ n = 8 * row
    OBVIOUS
  <2> HIDE DEF n
  <2>2. row - (row % v) \in 0 .. row
    BY RestOfEights, <2>1
  <2>3. n - (n % (8 * v)) = 8 * (row - (row % v))
    BY RestOfEights, <2>1
  <2>4. t1 \in 0 .. row /\ start = 8 * t1
    BY <2>2, <2>3
  <2> HIDE DEF t1, start
  <2> QED BY <2>4
<1> HIDE DEF z, t1, start
<1>2. Covers(W, BitTrans(m, row), Rect(row, Lane, z .. (t1 - 1)))
  BY <1>1 DEF t1
<1>3. Covers(RemainderLE(m, sz, e, 8 * t1), BitTrans(m, row), Rect(row, Lane, t1 .. (row - 1)))
  BY <1>1, RemainderCoversLE
<1> DEFINE V == RemainderLE(m, sz, e, 8 * t1)
<1> HIDE DEF V
<1>4. Works(<<W, V>>, BitTrans(m, row), Rect(row, Lane, z .. (row - 1)))
  BY <1>1, <1>2, <1>3, WideThenRest DEF V
<1>5. Works(<<W, V>>, BitTrans(m, row), 0 .. (8 * row - 1))
  BY <1>1, <1>4, AllRows
<1>6. V = RemainderLE(m, sz, e, start)
  BY <1>1 DEF V
<1> QED BY <1>5, <1>6 DEF start

(* bshuf_trans_bit_byte_SSE computes the bit transpose for every size.      *)
LEMMA SSEBitByte ==
  ASSUME NEW m, NEW sz \in Nat, NEW e \in Nat, NEW row \in Nat, sz * e = 8 * row
  PROVE  Works(TransBitByteSSE(m, sz, e), BitTrans(m, row), 0 .. (8 * row - 1))
<1> DEFINE v == 2
<1>1. v \in {2, 4, 8} /\ 8 * v = 16
  OBVIOUS
<1>2. TransBitByteSSE(m, sz, e)
        = <<TransBitByteMask(m, sz, e, 0, 16), RemainderLE(m, sz, e, sz * e - ((sz * e) % 16))>>
  BY DEF TransBitByteSSE, RemainderLE
<1> HIDE DEF v
<1>3. Works(<<TransBitByteMask(m, sz, e, 0, 8 * v), RemainderLE(m, sz, e, sz * e - ((sz * e) % (8 * v)))>>,
            BitTrans(m, row), 0 .. (8 * row - 1))
  BY <1>1, MaskFromZero, MaskAndRemainder
<1> QED BY <1>1, <1>2, <1>3

(* bshuf_trans_bit_byte_AVX does.                                           *)
LEMMA AVXBitByte ==
  ASSUME NEW m, NEW sz \in Nat, NEW e \in Nat, NEW row \in Nat, sz * e = 8 * row
  PROVE  Works(TransBitByteAVX(m, sz, e), BitTrans(m, row), 0 .. (8 * row - 1))
<1> DEFINE v == 4
<1>1. v \in {2, 4, 8} /\ 8 * v = 32
  OBVIOUS
<1>2. TransBitByteAVX(m, sz, e)
        = <<TransBitByteMask(m, sz, e, 0, 32), RemainderLE(m, sz, e, sz * e - ((sz * e) % 32))>>
  BY DEF TransBitByteAVX, RemainderLE
<1> HIDE DEF v
<1>3. Works(<<TransBitByteMask(m, sz, e, 0, 8 * v), RemainderLE(m, sz, e, sz * e - ((sz * e) % (8 * v)))>>,
            BitTrans(m, row), 0 .. (8 * row - 1))
  BY <1>1, MaskFromZero, MaskAndRemainder
<1> QED BY <1>1, <1>2, <1>3

(* bshuf_trans_bit_byte_NEON does.                                          *)
LEMMA NEONBitByte ==
  ASSUME NEW m, NEW sz \in Nat, NEW e \in Nat, NEW row \in Nat, sz * e = 8 * row
  PROVE  Works(TransBitByteNEON(m, sz, e), BitTrans(m, row), 0 .. (8 * row - 1))
<1> DEFINE v == 2
           W == NeonStores(m, sz, e)
<1>1. v \in {2, 4, 8} /\ 8 * v = 16
  OBVIOUS
<1>2. TransBitByteNEON(m, sz, e) = <<W, RemainderLE(m, sz, e, sz * e - ((sz * e) % 16))>>
  BY DEF TransBitByteNEON, RemainderLE
<1>4. Covers(W, BitTrans(m, row), Rect(row, Lane, 0 .. (row - (row % v) - 1)))
  BY NeonCovers DEF NeonStores
<1> HIDE DEF v, W
<1>3. Works(<<W, RemainderLE(m, sz, e, sz * e - ((sz * e) % (8 * v)))>>,
            BitTrans(m, row), 0 .. (8 * row - 1))
  BY <1>1, <1>4, MaskAndRemainder
<1> QED BY <1>1, <1>2, <1>3

(* bshuf_trans_bit_byte_AVX512 does.                                        *)
LEMMA AVX512BitByte ==
  ASSUME NEW m, NEW sz \in Nat, NEW e \in Nat, NEW row \in Nat, sz * e = 8 * row
  PROVE  Works(TransBitByteAVX512(m, sz, e), BitTrans(m, row), 0 .. (8 * row - 1))
<1> DEFINE n == sz * e
           F == BitTrans(m, row)
           v == 8
           u == 4
           z == 0
           t1 == row - (row % v)
           t2 == row - ((row - t1) % u)
           W1 == TransBitByteMask(m, sz, e, 0, 8 * v)
           W2 == TransBitByteMask(m, sz, e, 8 * t1, 8 * u)
           W3 == RemainderLE(m, sz, e, 8 * t2)
<1>1. /\ v \in {2, 4, 8} /\ u \in {2, 4, 8} /\ 8 * v = 64 /\ 8 * u = 32
      /\ z \in Nat /\ z = 0 /\ t1 \in Nat /\ z <= t1 /\ t1 <= row /\ t2 \in Nat /\ t1 <= t2 /\ t2 <= row
      /\ n - (n % 64) = 8 * t1 /\ n - ((n % 64) % 32) = 8 * t2
  <2>1. n \in Nat /\ n = 8 * row
    OBVIOUS
  <2>2. t1 \in 0 .. row /\ row - t1 = row % 8
    OBVIOUS
  <2>3. (row % 8) % 4 \in 0 .. 3 /\ (row % 8) % 4 <= row % 8
    OBVIOUS
  <2>4. n % 64 = 8 * (row % 8)
    OBVIOUS
  <2>5. (8 * (row % 8)) % 32 = 8 * ((row % 8) % 4)
    OBVIOUS
  <2> HIDE DEF n, t1
  <2> QED BY <2>1, <2>2, <2>3, <2>4, <2>5 DEF t1
<1>2. TransBitByteAVX512(m, sz, e)
        = <<TransBitByteMask(m, sz, e, 0, 64), TransBitByteMask(m, sz, e, n - (n % 64), 32),
            RemainderLE(m, sz, e, n - ((n % 64) % 32))>>
  BY DEF TransBitByteAVX512, RemainderLE
<1> HIDE DEF n, F, v, u, z, t1, t2
<1> DEFINE I1 == z .. (t1 - 1)
           I2 == t1 .. (t2 - 1)
           I3 == t2 .. (row - 1)
           A1 == Rect(row, Lane, I1)
           A2 == Rect(row, Lane, I2)
           A3 == Rect(row, Lane, I3)
<1>3. Covers(W1, F, A1)
  BY <1>1, MaskFromZero DEF F, t1
<1>4. Covers(W2, F, A2)
  BY <1>1, MaskCovers DEF F, t2
<1>5. Covers(W3, F, A3)
  BY <1>1, RemainderCoversLE DEF F
<1>6. TransBitByteAVX512(m, sz, e) = <<W1, W2, W3>>
  BY <1>1, <1>2
<1> HIDE DEF W1, W2, W3
<1>7. /\ I1 \subseteq 0 .. (row - 1) /\ I2 \subseteq 0 .. (row - 1) /\ I3 \subseteq 0 .. (row - 1)
      /\ I1 \intersect I2 = {} /\ I1 \intersect I3 = {} /\ I2 \intersect I3 = {}
      /\ I1 \union (I2 \union I3) = 0 .. (row - 1)
  BY <1>1
<1>8. Lane \subseteq Nat
  BY DEF Lane
<1> HIDE DEF I1, I2, I3
<1>9. A1 \intersect A2 = {} /\ A1 \intersect A3 = {} /\ A2 \intersect A3 = {}
  BY <1>7, <1>8, RectColumnsApart
<1>10. A1 \union (A2 \union A3) = Rect(row, Lane, I1 \union (I2 \union I3))
  BY DEF Rect
<1>11. A1 \union (A2 \union A3) = 0 .. (8 * row - 1)
  BY <1>7, <1>10, AllRows
<1> HIDE DEF A1, A2, A3
<1>12. Works(<<W1, W2, W3>>, F, A1 \union (A2 \union A3))
  BY <1>3, <1>4, <1>5, <1>9, ThreeLoops
<1> QED BY <1>6, <1>11, <1>12 DEF F

(* So do the scalar builds, which are all remainder.                        *)
LEMMA ScalarBitByte ==
  ASSUME NEW m, NEW sz \in Nat, NEW e \in Nat, NEW row \in Nat, sz * e = 8 * row
  PROVE  /\ Covers(RemainderLE(m, sz, e, 0), BitTrans(m, row), 0 .. (8 * row - 1))
         /\ Covers(RemainderBE(m, sz, e, 0), BitTrans(m, row), 0 .. (8 * row - 1))
<1> DEFINE z == 0
<1>1. z \in Nat /\ 8 * z = 0 /\ z = 0
  OBVIOUS
<1> HIDE DEF z
<1>2. Covers(RemainderLE(m, sz, e, 8 * z), BitTrans(m, row), Rect(row, Lane, z .. (row - 1)))
  BY <1>1, RemainderCoversLE
<1>3. Covers(RemainderBE(m, sz, e, 8 * z), BitTrans(m, row), Rect(row, Lane, z .. (row - 1)))
  BY <1>1, RemainderCoversBE
<1> QED BY <1>1, <1>2, <1>3, AllRows

-----------------------------------------------------------------------------
(* Bits within groups of eight elements.                                    *)

LEMMA EightsCover ==
  ASSUME NEW m, NEW row \in Nat, NEW e \in Nat, NEW W,
         \A s \in W : \E g \in 0 .. (row - 1) : \E kk \in Lane : \E j \in 0 .. (e - 1) :
            s = <<Cell(g, 8 * e, Cell(kk, e, j)), EightBits(m, Cell(g, e, j), kk)>>,
         \A g \in 0 .. (row - 1) : \A kk \in Lane : \A j \in 0 .. (e - 1) :
            <<Cell(g, 8 * e, Cell(kk, e, j)), EightBits(m, Cell(g, e, j), kk)>> \in W
  PROVE  Covers(W, Eights(m, row, e), 0 .. (row * (8 * e) - 1))
<1> DEFINE F == Eights(m, row, e)
           A == 0 .. (row * (8 * e) - 1)
           G == 0 .. (row - 1)
           E == 0 .. (e - 1)
           at(g, kk, j) == Cell(g, 8 * e, Cell(kk, e, j))
<1>1. ASSUME NEW g \in G, NEW kk \in Lane, NEW j \in E
      PROVE  at(g, kk, j) \in A /\ F[at(g, kk, j)] = EightBits(m, Cell(g, e, j), kk)
  <2>1. at(g, kk, j) \in A
    BY EightsIn
  <2>2. F[at(g, kk, j)] = EightBits(m, Cell(g, e, j), kk)
    BY EightsAt
  <2> QED BY <2>1, <2>2
<1>2. ASSUME NEW a \in A PROVE \E g \in G : \E kk \in Lane : \E j \in E : a = at(g, kk, j)
  <2> DEFINE ee == 8 * e
             r == a % ee
             g == a \div ee
             o == 8
             kk == r \div e
             j == r % e
  <2>1. ee \in Nat /\ ee = o * e /\ o \in Nat /\ Lane = 0 .. (o - 1)
    BY DEF Lane
  <2>2. g \in G /\ r \in 0 .. (ee - 1) /\ a = Cell(g, ee, r)
    <3> HIDE DEF ee
    <3> QED BY <2>1, OnGrid DEF ee
  <2> HIDE DEF ee, r, g, o
  <2>3. r \in 0 .. ((o * e) - 1)
    BY <2>1, <2>2
  <2>4. kk \in 0 .. (o - 1) /\ j \in 0 .. (e - 1) /\ r = Cell(kk, e, j)
    BY <2>1, <2>3, OnGrid
  <2>5. kk \in Lane /\ j \in E
    BY <2>1, <2>4
  <2> HIDE DEF kk, j, E, G
  <2>6. a = at(g, kk, j)
    BY <2>2, <2>4 DEF ee
  <2> QED BY <2>2, <2>5, <2>6
<1>3. ASSUME NEW s \in W
      PROVE \E g \in G : \E kk \in Lane : \E j \in E : s = <<at(g, kk, j), EightBits(m, Cell(g, e, j), kk)>>
  OBVIOUS
<1>4. ASSUME NEW g \in G, NEW kk \in Lane, NEW j \in E
      PROVE  <<at(g, kk, j), EightBits(m, Cell(g, e, j), kk)>> \in W
  OBVIOUS
<1> HIDE DEF F, A, G, E, at
<1>5. ASSUME NEW s \in W PROVE s[1] \in A /\ s = <<s[1], F[s[1]]>>
  BY <1>1, <1>3
<1>6. ASSUME NEW a \in A PROVE <<a, F[a]>> \in W
  BY <1>1, <1>2, <1>4
<1>7. Covers(W, F, A)
  BY <1>5, <1>6 DEF Covers
<1> QED BY <1>7 DEF F, A

(* A loop in steps of a row visits the rows. *)
LEMMA StridesOfRows ==
  ASSUME NEW row \in Nat, NEW E \in Nat, E > 0, NEW ii
  PROVE  ii \in Strides(0, row * E, E) <=> \E g \in 0 .. (row - 1) : ii = g * E
<1> DEFINE n == row * E
<1>0. n \in Nat
  OBVIOUS
<1>1. ASSUME ii \in Strides(0, row * E, E) PROVE \E g \in 0 .. (row - 1) : ii = g * E
  <2>1. ii \in 0 .. (n - E) /\ (ii - 0) % E = 0
    BY <1>1 DEF Strides
  <2>2. ii \in 0 .. (n - 1) /\ ii % E = 0
    <3> HIDE DEF n
    <3> QED BY <1>0, <2>1
  <2> DEFINE g == ii \div E
             c == ii % E
  <2>3. g \in 0 .. (row - 1) /\ ii = Cell(g, E, c)
    BY <2>2, OnGrid
  <2>4. c = 0
    BY <2>2
  <2> HIDE DEF g, c
  <2>5. g * E \in Int
    BY <2>3
  <2>6. ii = g * E
    BY <2>3, <2>4, <2>5 DEF Cell
  <2> QED BY <2>3, <2>6
<1>2. ASSUME NEW g \in 0 .. (row - 1) PROVE g * E \in Strides(0, row * E, E)
  <2> DEFINE z == 0
             x == g * E
             d == (row - 1) - g
             y == d * E
  <2>1. z \in 0 .. (E - 1) /\ x \in Nat /\ d \in Nat /\ y \in Nat
    OBVIOUS
  <2>2. n - E - x = y
    <3>1. \A u, v, w \in Int : ((u - 1) - v) * w = u * w - w - v * w
      OBVIOUS
    <3> QED BY <3>1
  <2>3. Cell(g, E, z) = x
    BY <2>1 DEF Cell
  <2>4. Cell(g, E, z) % E = z
    <3> HIDE DEF z
    <3> QED BY <2>1, Grid
  <2>5. x % E = 0
    BY <2>3, <2>4
  <2> HIDE DEF x, y, n
  <2>6. x \in 0 .. (n - E) /\ (x - 0) % E = 0
    BY <1>0, <2>1, <2>2, <2>5
  <2>7. x \in Strides(0, n, E)
    BY <2>6 DEF Strides
  <2> QED BY <2>7 DEF x, n
<1> QED BY <1>1, <1>2

LEMMA StridesByEight ==
  ASSUME NEW e \in Nat, NEW jj
  PROVE  jj \in Strides(0, 8 * e, 8) <=> \E j \in 0 .. (e - 1) : jj = 8 * j
<1>1. ASSUME jj \in Strides(0, 8 * e, 8) PROVE \E j \in 0 .. (e - 1) : jj = 8 * j
  <2>1. jj \in 0 .. (8 * e - 8) /\ (jj - 0) % 8 = 0
    BY <1>1 DEF Strides
  <2>2. jj \div 8 \in 0 .. (e - 1) /\ jj = 8 * (jj \div 8)
    BY <2>1
  <2> QED BY <2>2
<1>2. ASSUME NEW j \in 0 .. (e - 1) PROVE 8 * j \in Strides(0, 8 * e, 8)
  <2>1. 8 * j \in 0 .. (8 * e - 8) /\ (8 * j - 0) % 8 = 0
    OBVIOUS
  <2> QED BY <2>1 DEF Strides
<1> QED BY <1>1, <1>2

LittleEight(m, e, ii, jj) ==
  {<<ii + (jj \div 8) + 0 + kk * e, ByteOf(Through(TRANS_BIT_8X8, Load(m, ii + jj, 8)), kk)>> :
     kk \in 0 .. 7}
BigEight(m, e, ii, jj) ==
  {<<ii + (jj \div 8) + (7 * e) + kk * (-e), ByteOf(Through(TRANS_BIT_8X8_BE, LoadBE(m, ii + jj)), kk)>> :
     kk \in 0 .. 7}
EightelemLE(m, sz, e) == ShuffleBitEightelemScal(m, sz, e, TRUE)
EightelemBE(m, sz, e) == ShuffleBitEightelemScal(m, sz, e, FALSE)

LEMMA EightelemLEIs ==
  ASSUME NEW m, NEW sz, NEW e
  PROVE  EightelemLE(m, sz, e)
           = UNION {LittleEight(m, e, ii, jj) :
                      jj \in Strides(0, 8 * e, 8), ii \in Strides(0, sz * e, 8 * e)}
BY DEF EightelemLE, ShuffleBitEightelemScal, LittleEight

LEMMA EightelemBEIs ==
  ASSUME NEW m, NEW sz, NEW e
  PROVE  EightelemBE(m, sz, e)
           = UNION {BigEight(m, e, ii, jj) :
                      jj \in Strides(0, 8 * e, 8), ii \in Strides(0, sz * e, 8 * e)}
BY DEF EightelemBE, ShuffleBitEightelemScal, BigEight

(* The stores of one word of eight elements. *)
Flips == {0, 7}
EightRows(m, e, g, j, flip) ==
  {<<Cell(g, 8 * e, Cell(IF flip = 0 THEN kk ELSE 7 - kk, e, j)),
     EightBits(m, Cell(g, e, j), IF flip = 0 THEN kk ELSE 7 - kk)>> : kk \in Lane}

LEMMA EightAddress ==
  ASSUME NEW g \in Nat, NEW e \in Nat, NEW j \in Nat, NEW c \in Int
  PROVE  (g * (8 * e) + j) + (c * e) = Cell(g, 8 * e, Cell(c, e, j))
<1> DEFINE x == g * (8 * e)
           y == c * e
<1>1. x \in Nat /\ y \in Int
  OBVIOUS
<1> HIDE DEF x, y
<1>2. (x + j) + y = x + (y + j)
  BY <1>1
<1> QED BY <1>2 DEF x, y, Cell

LEMMA EightWordAt ==
  ASSUME NEW g \in Nat, NEW e \in Nat, NEW j \in Nat
  PROVE  g * (8 * e) + 8 * j = 8 * Cell(g, e, j) /\ Cell(g, e, j) \in Nat
<1> DEFINE x == g * (8 * e)
           u == g * e
<1>1. x \in Nat /\ u \in Nat /\ x = 8 * u
  OBVIOUS
<1> HIDE DEF x, u
<1>2. x + 8 * j = 8 * (u + j) /\ u + j \in Nat
  BY <1>1
<1> QED BY <1>2 DEF x, u, Cell

LEMMA LittleEightIs ==
  ASSUME NEW m, NEW e \in Nat, NEW g \in Nat, NEW j \in Nat
  PROVE  LittleEight(m, e, g * (8 * e), 8 * j) = EightRows(m, e, g, j, 0)
<1> DEFINE x == g * (8 * e)
           T == Cell(g, e, j)
           w == Through(TRANS_BIT_8X8, Load(m, x + 8 * j, 8))
<1>1. x + 8 * j = 8 * T /\ T \in Nat /\ (8 * j) \div 8 = j
  BY EightWordAt
<1>0. ASSUME NEW kk \in Lane PROVE x + j + 0 + kk * e = Cell(g, 8 * e, Cell(kk, e, j))
  <2> DEFINE y == kk * e
  <2>1. kk \in Int /\ x \in Nat /\ y \in Int
    BY DEF Lane
  <2>2. (x + j) + y = Cell(g, 8 * e, Cell(kk, e, j))
    BY <2>1, EightAddress
  <2> HIDE DEF x, y
  <2>3. x + j + 0 + y = (x + j) + y
    BY <2>1
  <2> QED BY <2>2, <2>3 DEF y
<1> HIDE DEF x, T
<1>2. ASSUME NEW kk \in Lane PROVE ByteOf(w, kk) = EightBits(m, T, kk)
  BY <1>1, WordLE
<1> HIDE DEF w
<1>3. {<<x + j + 0 + kk * e, ByteOf(w, kk)>> : kk \in Lane}
        = {<<Cell(g, 8 * e, Cell(kk, e, j)), EightBits(m, T, kk)>> : kk \in Lane}
  BY <1>0, <1>2
<1>4. LittleEight(m, e, x, 8 * j) = {<<x + j + 0 + kk * e, ByteOf(w, kk)>> : kk \in Lane}
  BY <1>1 DEF LittleEight, w, Lane
<1> QED BY <1>3, <1>4 DEF x, T, EightRows

LEMMA BigEightIs ==
  ASSUME NEW m, NEW e \in Nat, NEW g \in Nat, NEW j \in Nat
  PROVE  BigEight(m, e, g * (8 * e), 8 * j) = EightRows(m, e, g, j, 7)
<1> DEFINE x == g * (8 * e)
           T == Cell(g, e, j)
           w == Through(TRANS_BIT_8X8_BE, LoadBE(m, x + 8 * j))
<1>1. x + 8 * j = 8 * T /\ T \in Nat /\ (8 * j) \div 8 = j
  BY EightWordAt
<1>0. ASSUME NEW kk \in Lane
      PROVE  x + j + (7 * e) + kk * (-e) = Cell(g, 8 * e, Cell(7 - kk, e, j))
  <2> DEFINE c == 7 - kk
             y == c * e
             p == 7 * e
             q == kk * (-e)
  <2>1. c \in Int /\ x \in Nat /\ y \in Int /\ p \in Int /\ q \in Int /\ p + q = y
    BY DEF Lane
  <2>2. (x + j) + y = Cell(g, 8 * e, Cell(c, e, j))
    BY <2>1, EightAddress
  <2> HIDE DEF x, y, p, q
  <2>3. x + j + p + q = (x + j) + y
    BY <2>1
  <2> QED BY <2>2, <2>3 DEF y, p, q
<1> HIDE DEF x, T
<1>2. ASSUME NEW kk \in Lane PROVE ByteOf(w, kk) = EightBits(m, T, 7 - kk)
  BY <1>1, WordBE
<1> HIDE DEF w
<1>3. {<<x + j + (7 * e) + kk * (-e), ByteOf(w, kk)>> : kk \in Lane}
        = {<<Cell(g, 8 * e, Cell(7 - kk, e, j)), EightBits(m, T, 7 - kk)>> : kk \in Lane}
  BY <1>0, <1>2
<1>4. BigEight(m, e, x, 8 * j) = {<<x + j + (7 * e) + kk * (-e), ByteOf(w, kk)>> : kk \in Lane}
  BY <1>1 DEF BigEight, w, Lane
<1> QED BY <1>3, <1>4 DEF x, T, EightRows

EightPlace(m, e, g, j, l) == <<Cell(g, 8 * e, Cell(l, e, j)), EightBits(m, Cell(g, e, j), l)>>

LEMMA EightRowsIn ==
  ASSUME NEW m, NEW e \in Nat, NEW g \in Nat, NEW j \in Nat, NEW flip \in Flips, NEW l \in Lane
  PROVE  EightPlace(m, e, g, j, l) \in EightRows(m, e, g, j, flip)
<1>1. 7 - l \in Lane /\ 7 - (7 - l) = l
  BY DEF Lane
<1>2. CASE flip = 0
  BY <1>2 DEF EightRows, EightPlace
<1>3. CASE flip # 0
  <2> DEFINE c == 7 - l
  <2>1. c \in Lane /\ 7 - c = l
    BY <1>1
  <2> HIDE DEF c
  <2>2. <<Cell(g, 8 * e, Cell(7 - c, e, j)), EightBits(m, Cell(g, e, j), 7 - c)>> \in EightRows(m, e, g, j, flip)
    BY <1>3, <2>1 DEF EightRows
  <2> QED BY <2>1, <2>2 DEF EightPlace
<1> QED BY <1>2, <1>3

LEMMA EightRowsOf ==
  ASSUME NEW m, NEW e \in Nat, NEW g \in Nat, NEW j \in Nat, NEW flip \in Flips,
         NEW s \in EightRows(m, e, g, j, flip)
  PROVE  \E l \in Lane : s = EightPlace(m, e, g, j, l)
<1>1. PICK kk \in Lane : s = <<Cell(g, 8 * e, Cell(IF flip = 0 THEN kk ELSE 7 - kk, e, j)),
                               EightBits(m, Cell(g, e, j), IF flip = 0 THEN kk ELSE 7 - kk)>>
  BY DEF EightRows
<1> DEFINE l == IF flip = 0 THEN kk ELSE 7 - kk
<1>2. l \in Lane
  BY DEF Lane
<1>3. s = EightPlace(m, e, g, j, l)
  BY <1>1 DEF EightPlace
<1> HIDE DEF l
<1> QED BY <1>2, <1>3

EightWords(m, row, e, flip) ==
  UNION {EightRows(m, e, g, j, flip) : j \in 0 .. (e - 1), g \in 0 .. (row - 1)}

(* The words of all groups cover the result.                                *)
LEMMA EightWordsCover ==
  ASSUME NEW m, NEW row \in Nat, NEW e \in Nat, NEW flip \in Flips
  PROVE  Covers(EightWords(m, row, e, flip), Eights(m, row, e), 0 .. (row * (8 * e) - 1))
<1> DEFINE G == 0 .. (row - 1)
           E == 0 .. (e - 1)
           W == EightWords(m, row, e, flip)
<1>1. ASSUME NEW g \in G PROVE g \in Nat
  OBVIOUS
<1>2. ASSUME NEW j \in E PROVE j \in Nat
  OBVIOUS
<1>0. W = UNION {EightRows(m, e, g, j, flip) : j \in E, g \in G}
  BY DEF EightWords
<1> HIDE DEF G, E, W
<1>3. ASSUME NEW s \in W
      PROVE  \E g \in G : \E kk \in Lane : \E j \in E :
               s = EightPlace(m, e, g, j, kk)
  <2>1. PICK g \in G, j \in E : s \in EightRows(m, e, g, j, flip)
    BY <1>0
  <2>2. \E l \in Lane : s = EightPlace(m, e, g, j, l)
    <3>1. g \in Nat /\ j \in Nat
      BY <1>1, <1>2
    <3>2. flip \in Flips
      OBVIOUS
    <3> QED BY <2>1, <3>1, <3>2, EightRowsOf
  <2> QED BY <2>2
<1>4. ASSUME NEW g \in G, NEW kk \in Lane, NEW j \in E
      PROVE  EightPlace(m, e, g, j, kk) \in W
  <2> DEFINE s == EightPlace(m, e, g, j, kk)
  <2>1. s \in EightRows(m, e, g, j, flip)
    BY <1>1, <1>2, EightRowsIn
  <2> HIDE DEF s
  <2>2. s \in W
    BY <1>0, <2>1
  <2> QED BY <2>2 DEF s
<1>5. Covers(W, Eights(m, row, e), 0 .. (row * (8 * e) - 1))
  BY <1>3, <1>4, EightsCover DEF G, E, EightPlace
<1> QED BY <1>5 DEF W

(* The two loops of the scalar worker visit the words of eight elements. *)
LEMMA EightLoops ==
  ASSUME NEW e \in Nat, NEW row \in Nat, e > 0, NEW sz \in Nat, sz = 8 * row
  PROVE  /\ \A jj : jj \in Strides(0, 8 * e, 8) <=> \E j \in 0 .. (e - 1) : jj = 8 * j
         /\ \A ii : ii \in Strides(0, sz * e, 8 * e) <=> \E g \in 0 .. (row - 1) : ii = g * (8 * e)
<1> DEFINE E == 8 * e
<1>1. E \in Nat /\ E > 0 /\ sz * e = row * E
  OBVIOUS
<1> HIDE DEF E
<1>2. \A ii : ii \in Strides(0, row * E, E) <=> \E g \in 0 .. (row - 1) : ii = g * E
  BY <1>1, StridesOfRows
<1>3. \A jj : jj \in Strides(0, 8 * e, 8) <=> \E j \in 0 .. (e - 1) : jj = 8 * j
  BY StridesByEight
<1>4. \A ii : ii \in Strides(0, sz * e, E) <=> \E g \in 0 .. (row - 1) : ii = g * E
  BY <1>1, <1>2
<1> QED BY <1>3, <1>4 DEF E

(* bshuf_shuffle_bit_eightelem_scal of a little-endian build.               *)
LEMMA EightelemLECovers ==
  ASSUME NEW m, NEW row \in Nat, NEW e \in Nat, e > 0, NEW sz \in Nat, sz = 8 * row
  PROVE  Covers(EightelemLE(m, sz, e), Eights(m, row, e), 0 .. (row * (8 * e) - 1))
<1> DEFINE W == EightelemLE(m, sz, e)
           S == Strides(0, sz * e, 8 * e)
           T == Strides(0, 8 * e, 8)
           G == 0 .. (row - 1)
           E == 0 .. (e - 1)
<1>1. W = UNION {LittleEight(m, e, ii, jj) : jj \in T, ii \in S}
  BY EightelemLEIs
<1>2. ASSUME NEW g \in G, NEW j \in E
      PROVE  LittleEight(m, e, g * (8 * e), 8 * j) = EightRows(m, e, g, j, 0)
  <2>1. g \in Nat /\ j \in Nat
    OBVIOUS
  <2> QED BY <2>1, LittleEightIs
<1>3. \A jj : jj \in T <=> \E j \in E : jj = 8 * j
  BY EightLoops
<1>4. \A ii : ii \in S <=> \E g \in G : ii = g * (8 * e)
  BY EightLoops
<1> HIDE DEF W, S, T, G, E
<1>5. ASSUME NEW s \in W PROVE \E j \in E : \E g \in G : s \in EightRows(m, e, g, j, 0)
  <2>1. PICK jj \in T, ii \in S : s \in LittleEight(m, e, ii, jj)
    BY <1>1
  <2>2. PICK j \in E : jj = 8 * j
    BY <1>3
  <2>3. PICK g \in G : ii = g * (8 * e)
    BY <1>4
  <2> QED BY <1>2, <2>1, <2>2, <2>3
<1>6. ASSUME NEW j \in E, NEW g \in G, NEW s \in EightRows(m, e, g, j, 0) PROVE s \in W
  <2>1. s \in LittleEight(m, e, g * (8 * e), 8 * j)
    BY <1>2
  <2>2. 8 * j \in T
    BY <1>3
  <2>3. g * (8 * e) \in S
    BY <1>4
  <2> QED BY <1>1, <2>1, <2>2, <2>3
<1>7. W = UNION {EightRows(m, e, g, j, 0) : j \in E, g \in G}
  BY <1>5, <1>6
<1>8. W = EightWords(m, row, e, 0)
  BY <1>7 DEF EightWords, G, E
<1> QED BY <1>8, EightWordsCover DEF W, Flips

(* bshuf_shuffle_bit_eightelem_scal of a big-endian build.                  *)
LEMMA EightelemBECovers ==
  ASSUME NEW m, NEW row \in Nat, NEW e \in Nat, e > 0, NEW sz \in Nat, sz = 8 * row
  PROVE  Covers(EightelemBE(m, sz, e), Eights(m, row, e), 0 .. (row * (8 * e) - 1))
<1> DEFINE W == EightelemBE(m, sz, e)
           S == Strides(0, sz * e, 8 * e)
           T == Strides(0, 8 * e, 8)
           G == 0 .. (row - 1)
           E == 0 .. (e - 1)
<1>1. W = UNION {BigEight(m, e, ii, jj) : jj \in T, ii \in S}
  BY EightelemBEIs
<1>2. ASSUME NEW g \in G, NEW j \in E
      PROVE  BigEight(m, e, g * (8 * e), 8 * j) = EightRows(m, e, g, j, 7)
  <2>1. g \in Nat /\ j \in Nat
    OBVIOUS
  <2> QED BY <2>1, BigEightIs
<1>3. \A jj : jj \in T <=> \E j \in E : jj = 8 * j
  BY EightLoops
<1>4. \A ii : ii \in S <=> \E g \in G : ii = g * (8 * e)
  BY EightLoops
<1> HIDE DEF W, S, T, G, E
<1>5. ASSUME NEW s \in W PROVE \E j \in E : \E g \in G : s \in EightRows(m, e, g, j, 7)
  <2>1. PICK jj \in T, ii \in S : s \in BigEight(m, e, ii, jj)
    BY <1>1
  <2>2. PICK j \in E : jj = 8 * j
    BY <1>3
  <2>3. PICK g \in G : ii = g * (8 * e)
    BY <1>4
  <2> QED BY <1>2, <2>1, <2>2, <2>3
<1>6. ASSUME NEW j \in E, NEW g \in G, NEW s \in EightRows(m, e, g, j, 7) PROVE s \in W
  <2>1. s \in BigEight(m, e, g * (8 * e), 8 * j)
    BY <1>2
  <2>2. 8 * j \in T
    BY <1>3
  <2>3. g * (8 * e) \in S
    BY <1>4
  <2> QED BY <1>1, <2>1, <2>2, <2>3
<1>7. W = UNION {EightRows(m, e, g, j, 7) : j \in E, g \in G}
  BY <1>5, <1>6
<1>8. W = EightWords(m, row, e, 7)
  BY <1>7 DEF EightWords, G, E
<1> QED BY <1>8, EightWordsCover DEF W, Flips

(* The byte a register leaves for v words in a row, the k-th of them.       *)
WidePlace(m, e, g, J, kk, k) ==
  <<Cell(g, 8 * e, Cell(7 - kk, e, J)) + k, EightBits(m, Cell(g, e, J) + k, 7 - kk)>>

(* Counted in words, it is the byte the scalar worker stores.               *)
LEMMA WidePlaceIs ==
  ASSUME NEW m, NEW e \in Nat, NEW g \in Nat, NEW J \in Nat, NEW kk \in Lane, NEW k \in Nat
  PROVE  WidePlace(m, e, g, J, kk, k) = EightPlace(m, e, g, J + k, 7 - kk)
<1> DEFINE x == g * (8 * e)
           y == (7 - kk) * e
           z == g * e
<1>1. x \in Int /\ y \in Int /\ z \in Int
  BY DEF Lane
<1> HIDE DEF x, y, z
<1>2. (x + (y + J)) + k = x + (y + (J + k)) /\ (z + J) + k = z + (J + k)
  BY <1>1
<1>3. Cell(g, 8 * e, Cell(7 - kk, e, J)) + k = Cell(g, 8 * e, Cell(7 - kk, e, J + k))
  BY <1>2 DEF x, y, Cell
<1>4. Cell(g, e, J) + k = Cell(g, e, J + k)
  BY <1>2 DEF z, Cell
<1> QED BY <1>3, <1>4 DEF WidePlace, EightPlace

(* Registers of v words cover the result when v divides the element size.   *)
LEMMA WideEightsCover ==
  ASSUME NEW m, NEW row \in Nat, NEW e \in Nat, NEW v \in {2, 4, 8}, e % v = 0, NEW W,
         \A s \in W : \E g \in 0 .. (row - 1) : \E J \in Strides(0, e, v) : \E kk \in Lane :
            \E k \in 0 .. (v - 1) : s = WidePlace(m, e, g, J, kk, k),
         \A g \in 0 .. (row - 1) : \A J \in Strides(0, e, v) : \A kk \in Lane :
            \A k \in 0 .. (v - 1) : WidePlace(m, e, g, J, kk, k) \in W
  PROVE  Covers(W, Eights(m, row, e), 0 .. (row * (8 * e) - 1))
<1> DEFINE G == 0 .. (row - 1)
           E == 0 .. (e - 1)
           S == Strides(0, e, v)
           V == 0 .. (v - 1)
           z == 0
<1>0. v \in Nat /\ v > 0 /\ z \in Nat /\ z <= e /\ (e - z) % v = 0 /\ z = 0
  OBVIOUS
<1> HIDE DEF z
<1>1. ASSUME NEW J \in S, NEW k \in V PROVE J \in Nat /\ k \in Nat /\ J + k \in E
  <2>1. J \in Nat /\ J + k \in z .. (e - ((e - z) % v) - 1)
    BY <1>0, StridesIn
  <2> QED BY <1>0, <2>1
<1>2. ASSUME NEW j \in E PROVE \E J \in S : \E k \in V : j = J + k
  <2>1. j \in z .. (e - ((e - z) % v) - 1)
    BY <1>0
  <2>2. S = Strides(z, e, v)
    BY <1>0
  <2> HIDE DEF S
  <2> QED BY <1>0, <2>1, <2>2, StridesReach
<1>3. ASSUME NEW g \in G PROVE g \in Nat
  OBVIOUS
<1> HIDE DEF G, E, S, V
<1>4. ASSUME NEW g \in G, NEW J \in S, NEW kk \in Lane, NEW k \in V
      PROVE  WidePlace(m, e, g, J, kk, k) = EightPlace(m, e, g, J + k, 7 - kk)
  <2>1. g \in Nat /\ J \in Nat /\ k \in Nat
    BY <1>1, <1>3
  <2> QED BY <2>1, WidePlaceIs
<1>5. ASSUME NEW s \in W
      PROVE  \E g \in G : \E kk \in Lane : \E j \in E : s = EightPlace(m, e, g, j, kk)
  <2>1. PICK g \in G, J \in S, kk \in Lane, k \in V : s = WidePlace(m, e, g, J, kk, k)
    BY DEF G, S, V
  <2> DEFINE l == 7 - kk
             j == J + k
  <2>2. l \in Lane
    BY DEF Lane
  <2>3. j \in E
    BY <1>1
  <2>4. s = EightPlace(m, e, g, j, l)
    BY <1>4, <2>1
  <2> HIDE DEF l, j
  <2> QED BY <2>2, <2>3, <2>4
<1>6. ASSUME NEW g \in G, NEW l \in Lane, NEW j \in E PROVE EightPlace(m, e, g, j, l) \in W
  <2>1. PICK J \in S, k \in V : j = J + k
    BY <1>2
  <2> DEFINE kk == 7 - l
  <2>2. kk \in Lane /\ 7 - kk = l
    BY DEF Lane
  <2> HIDE DEF kk
  <2>3. WidePlace(m, e, g, J, kk, k) \in W
    BY <2>2 DEF G, S, V
  <2>4. WidePlace(m, e, g, J, kk, k) = EightPlace(m, e, g, J + k, 7 - kk)
    BY <1>4, <2>2
  <2> QED BY <2>1, <2>2, <2>3, <2>4
<1> QED BY <1>5, <1>6, EightsCover DEF G, E, EightPlace

(* A store of a register of rows. *)
LEMMA WideStore ==
  ASSUME NEW m, NEW e \in Nat, NEW g \in Nat, NEW J \in Nat, NEW kk \in Lane, NEW v \in Nat, NEW y,
         TopBits(y, m, 8 * Cell(g, e, J), 8 * v, kk)
  PROVE  Store(g * (8 * e) + ((8 * J) \div 8) + (7 - kk) * e, y, v)
           = {WidePlace(m, e, g, J, kk, k) : k \in 0 .. (v - 1)}
<1> DEFINE V == 0 .. (v - 1)
           T == Cell(g, e, J)
           c == 7 - kk
           a == Cell(g, 8 * e, Cell(c, e, J))
<1>1. c \in Int /\ (8 * J) \div 8 = J /\ c = 7 - kk
  BY DEF Lane
<1> HIDE DEF c
<1>8. (g * (8 * e) + J) + (c * e) = a
  BY <1>1, EightAddress
<1>2. (g * (8 * e) + J) + (c * e) = a /\ T \in Nat
  BY <1>8, EightWordAt
<1>3. g * (8 * e) + ((8 * J) \div 8) + (7 - kk) * e = a
  BY <1>1, <1>2
<1> HIDE DEF T, a
<1>4. ASSUME NEW k \in V PROVE ByteOf(y, k) = EightBits(m, T + k, 7 - kk)
  BY <1>2, TopBitsByte DEF T
<1> HIDE DEF V
<1>5. {<<a + k, ByteOf(y, k)>> : k \in V} = {<<a + k, EightBits(m, T + k, 7 - kk)>> : k \in V}
  BY <1>4
<1>6. Store(a, y, v) = {<<a + k, EightBits(m, T + k, 7 - kk)>> : k \in V}
  BY <1>5 DEF Store, V
<1>7. {<<a + k, EightBits(m, T + k, 7 - kk)>> : k \in V} = {WidePlace(m, e, g, J, kk, k) : k \in V}
  BY DEF WidePlace, T, a, c
<1> QED BY <1>3, <1>6, <1>7 DEF V

(* The two loops of a wide worker. *)
LEMMA WideLoops ==
  ASSUME NEW e \in Nat, NEW v \in {2, 4, 8}, NEW jj
  PROVE  jj \in Strides(0, 8 * e, 8 * v) <=> \E J \in Strides(0, e, v) : jj = 8 * J
<1> DEFINE z == 0
           zz == 8 * z
<1>1. z \in Nat /\ zz = 0 /\ z = 0
  OBVIOUS
<1> HIDE DEF z
<1>5. ASSUME NEW y \in Nat
      PROVE  jj \in Strides(8 * y, 8 * e, 8 * v) <=> \E J \in Strides(y, e, v) : jj = 8 * J
  BY StridesOfEight
<1>3. jj \in Strides(8 * z, 8 * e, 8 * v) <=> \E J \in Strides(z, e, v) : jj = 8 * J
  BY <1>1, <1>5
<1> DEFINE d == 8 * e
           w == 8 * v
<1>2. jj \in Strides(zz, d, w) <=> \E J \in Strides(z, e, v) : jj = 8 * J
  BY <1>3
<1> HIDE DEF zz, d, w
<1>4. jj \in Strides(0, d, w) <=> \E J \in Strides(0, e, v) : jj = 8 * J
  BY <1>1, <1>2
<1> QED BY <1>4 DEF d, w

(* The loops of a worker with wide registers, in groups of the layout.      *)
SameLoops(e, v) ==
  \A jj : jj \in Strides(0, 8 * e, 8 * v) <=> \E J \in Strides(0, e, v) : jj = 8 * J

LEMMA SameLoopsHold ==
  ASSUME NEW e \in Nat, NEW v \in {2, 4, 8}
  PROVE  SameLoops(e, v)
<1>1. ASSUME NEW jj
      PROVE  jj \in Strides(0, 8 * e, 8 * v) <=> \E J \in Strides(0, e, v) : jj = 8 * J
  BY WideLoops
<1> QED BY <1>1 DEF SameLoops

SameGroups(sz, row, e) ==
  \A ii : ii \in Strides(0, sz * e, 8 * e) <=> \E g \in 0 .. (row - 1) : ii = g * (8 * e)

LEMMA SameGroupsHold ==
  ASSUME NEW e \in Nat, NEW row \in Nat, e > 0, NEW sz \in Nat, sz = 8 * row
  PROVE  SameGroups(sz, row, e)
<1>1. \A ii : ii \in Strides(0, sz * e, 8 * e) <=> \E g \in 0 .. (row - 1) : ii = g * (8 * e)
  BY EightLoops
<1> QED BY <1>1 DEF SameGroups

(* The movemask loop of a register of 16, 32 or 64 bytes.                   *)
LEMMA EightelemMaskCovers ==
  ASSUME NEW m, NEW row \in Nat, NEW e \in Nat, e > 0, NEW sz \in Nat, sz = 8 * row,
         NEW v \in {2, 4, 8}, e % v = 0
  PROVE  Covers(ShuffleBitEightelemMask(m, sz, e, 8 * v), Eights(m, row, e), 0 .. (row * (8 * e) - 1))
<1> DEFINE W == ShuffleBitEightelemMask(m, sz, e, 8 * v)
           S == Strides(0, sz * e, 8 * e)
           T == Strides(0, 8 * e, 8 * v)
           G == 0 .. (row - 1)
           R == Strides(0, e, v)
           V == 0 .. (v - 1)
           st(ii, jj, kk) == Store(ii + (jj \div 8) + (7 - kk) * e,
                                   MoveMask(Load(m, ii + jj, 8 * v), kk), v)
<1>1. W = UNION {st(ii, jj, kk) : ii \in S, jj \in T, kk \in Lane}
  <2>1. (8 * v) \div 8 = v
    OBVIOUS
  <2> QED BY <2>1 DEF ShuffleBitEightelemMask, Lane
<1>2. ASSUME NEW g \in G, NEW J \in R, NEW kk \in Lane
      PROVE  st(g * (8 * e), 8 * J, kk) = {WidePlace(m, e, g, J, kk, k) : k \in V}
  <2>1. g \in Nat /\ J \in Nat /\ v \in Nat
    BY DEF Strides
  <2> DEFINE a == 8 * Cell(g, e, J)
             y == MoveMask(Load(m, a, 8 * v), kk)
  <2>6. Cell(g, e, J) \in Nat
    BY <2>1, EightWordAt
  <2>7. g * (8 * e) + 8 * J = a
    BY <2>1, EightWordAt
  <2>8. a \in Nat /\ 8 * v \in Nat
    BY <2>1, <2>6
  <2>2. g * (8 * e) + 8 * J = a /\ a \in Nat /\ 8 * v \in Nat
    BY <2>7, <2>8
  <2> HIDE DEF a
  <2>3. TopBits(y, m, a, 8 * v, kk)
    BY <2>2, MoveMaskBits
  <2>5. st(g * (8 * e), 8 * J, kk) = Store(g * (8 * e) + ((8 * J) \div 8) + (7 - kk) * e, y, v)
    BY <2>2
  <2> HIDE DEF y, st
  <2>4. Store(g * (8 * e) + ((8 * J) \div 8) + (7 - kk) * e, y, v) = {WidePlace(m, e, g, J, kk, k) : k \in 0 .. (v - 1)}
    BY <2>1, <2>3, WideStore DEF a
  <2> QED BY <2>4, <2>5
<1>3. \A jj : jj \in T <=> \E J \in R : jj = 8 * J
  <2>1. SameLoops(e, v)
    BY SameLoopsHold
  <2> QED BY <2>1 DEF SameLoops
<1>4. \A ii : ii \in S <=> \E g \in G : ii = g * (8 * e)
  <2>1. SameGroups(sz, row, e)
    BY SameGroupsHold
  <2> QED BY <2>1 DEF SameGroups
<1> HIDE DEF W, S, T, G, R, V, st
<1>5. ASSUME NEW s \in W
      PROVE  \E g \in G : \E J \in R : \E kk \in Lane : \E k \in V : s = WidePlace(m, e, g, J, kk, k)
  <2>1. PICK ii \in S, jj \in T, kk \in Lane : s \in st(ii, jj, kk)
    BY <1>1
  <2>2. PICK J \in R : jj = 8 * J
    BY <1>3
  <2>3. PICK g \in G : ii = g * (8 * e)
    BY <1>4
  <2>4. \E k \in V : s = WidePlace(m, e, g, J, kk, k)
    BY <1>2, <2>1, <2>2, <2>3
  <2> QED BY <2>4
<1>6. ASSUME NEW g \in G, NEW J \in R, NEW kk \in Lane, NEW k \in V
      PROVE  WidePlace(m, e, g, J, kk, k) \in W
  <2>1. WidePlace(m, e, g, J, kk, k) \in st(g * (8 * e), 8 * J, kk)
    BY <1>2
  <2>2. 8 * J \in T
    BY <1>3
  <2>3. g * (8 * e) \in S
    BY <1>4
  <2> QED BY <1>1, <2>1, <2>2, <2>3
<1>7. Covers(W, Eights(m, row, e), 0 .. (row * (8 * e) - 1))
  BY <1>5, <1>6, WideEightsCover DEF G, R, V
<1> QED BY <1>7 DEF W

(* The loop of bshuf_shuffle_bit_eightelem_NEON.                            *)
LEMMA NeonEightelemCovers ==
  ASSUME NEW m, NEW row \in Nat, NEW e \in Nat, e > 0, NEW sz \in Nat, sz = 8 * row, e % 2 = 0
  PROVE  Covers(NeonEightelem(m, sz, e), Eights(m, row, e), 0 .. (row * (8 * e) - 1))
<1> DEFINE v == 2
           W == NeonEightelem(m, sz, e)
           S == Strides(0, sz * e, 8 * e)
           T == Strides(0, 8 * e, 8 * v)
           G == 0 .. (row - 1)
           R == Strides(0, e, v)
           V == 0 .. (v - 1)
           st(ii, jj, kk) == Store(ii + (jj \div 8) + (7 - kk) * e, NeonRows(Load(m, ii + jj, 16))[kk], v)
           U(ii, jj) == UNION {st(ii, jj, kk) : kk \in Lane}
<1>0. v \in Nat /\ v \in {2, 4, 8} /\ 8 * v = 16 /\ v = 2
  OBVIOUS
<1>9. v \in Nat
  OBVIOUS
<1>1. W = UNION {U(ii, jj) : ii \in S, jj \in T}
  BY DEF NeonEightelem, Lane
<1> HIDE DEF v
<1>2. ASSUME NEW g \in G, NEW J \in R, NEW kk \in Lane
      PROVE  st(g * (8 * e), 8 * J, kk) = {WidePlace(m, e, g, J, kk, k) : k \in V}
  <2>1. g \in Nat /\ J \in Nat
    BY <1>0 DEF Strides
  <2> DEFINE a == 8 * Cell(g, e, J)
             y == NeonRows(Load(m, a, 16))[kk]
  <2>7. Cell(g, e, J) \in Nat
    BY <2>1, EightWordAt
  <2>8. g * (8 * e) + 8 * J = a
    BY <2>1, EightWordAt
  <2>9. a \in Nat
    BY <2>7
  <2>2. g * (8 * e) + 8 * J = a /\ a \in Nat
    BY <2>8, <2>9
  <2> HIDE DEF a
  <2>6. TopBits(y, m, a, 16, kk)
    BY <2>2, NeonBits
  <2>3. TopBits(y, m, a, 8 * v, kk)
    BY <1>0, <2>6
  <2>5. st(g * (8 * e), 8 * J, kk) = Store(g * (8 * e) + ((8 * J) \div 8) + (7 - kk) * e, y, v)
    BY <2>2
  <2> HIDE DEF y, st
  <2>4. Store(g * (8 * e) + ((8 * J) \div 8) + (7 - kk) * e, y, v) = {WidePlace(m, e, g, J, kk, k) : k \in 0 .. (v - 1)}
    BY <1>9, <2>1, <2>3, WideStore DEF a
  <2> QED BY <2>4, <2>5
<1>3. \A jj : jj \in T <=> \E J \in R : jj = 8 * J
  <2>1. SameLoops(e, v)
    BY <1>0, SameLoopsHold
  <2> QED BY <2>1 DEF SameLoops
<1>4. \A ii : ii \in S <=> \E g \in G : ii = g * (8 * e)
  <2>1. SameGroups(sz, row, e)
    BY SameGroupsHold
  <2> QED BY <2>1 DEF SameGroups
<1>8. ASSUME NEW ii \in S, NEW jj \in T, NEW s PROVE s \in U(ii, jj) => s \in W
  <2> HIDE DEF U, S, T, W
  <2> QED BY <1>1
<1> HIDE DEF W, S, T, G, R, V, st, U
<1>5. ASSUME NEW s \in W
      PROVE  \E g \in G : \E J \in R : \E kk \in Lane : \E k \in V : s = WidePlace(m, e, g, J, kk, k)
  <2>0. PICK ii \in S, jj \in T : s \in U(ii, jj)
    BY <1>1
  <2>1. PICK kk \in Lane : s \in st(ii, jj, kk)
    BY <2>0 DEF U
  <2>2. PICK J \in R : jj = 8 * J
    BY <1>3
  <2>3. PICK g \in G : ii = g * (8 * e)
    BY <1>4
  <2>4. \E k \in V : s = WidePlace(m, e, g, J, kk, k)
    BY <1>2, <2>1, <2>2, <2>3
  <2> QED BY <2>4
<1>6. ASSUME NEW g \in G, NEW J \in R, NEW kk \in Lane, NEW k \in V
      PROVE  WidePlace(m, e, g, J, kk, k) \in W
  <2>1. WidePlace(m, e, g, J, kk, k) \in st(g * (8 * e), 8 * J, kk)
    BY <1>2
  <2>4. WidePlace(m, e, g, J, kk, k) \in U(g * (8 * e), 8 * J)
    BY <2>1 DEF U
  <2>2. 8 * J \in T
    BY <1>3
  <2>3. g * (8 * e) \in S
    BY <1>4
  <2> QED BY <1>8, <2>4, <2>2, <2>3
<1>7. Covers(W, Eights(m, row, e), 0 .. (row * (8 * e) - 1))
  BY <1>0, <1>5, <1>6, WideEightsCover DEF G, R, V
<1> QED BY <1>7 DEF W

LEMMA MaskOf ==
  ASSUME NEW m, NEW row \in Nat, NEW e \in Nat, e > 0, NEW sz \in Nat, sz = 8 * row
  PROVE  /\ e % 2 = 0 => Covers(ShuffleBitEightelemMask(m, sz, e, 16), Eights(m, row, e), 0 .. (row * (8 * e) - 1))
         /\ e % 4 = 0 => Covers(ShuffleBitEightelemMask(m, sz, e, 32), Eights(m, row, e), 0 .. (row * (8 * e) - 1))
         /\ e % 8 = 0 => Covers(ShuffleBitEightelemMask(m, sz, e, 64), Eights(m, row, e), 0 .. (row * (8 * e) - 1))
<1> DEFINE u == 2
           v == 4
           w == 8
<1>1. u \in {2, 4, 8} /\ v \in {2, 4, 8} /\ w \in {2, 4, 8} /\ 8 * u = 16 /\ 8 * v = 32 /\ 8 * w = 64
      /\ u = 2 /\ v = 4 /\ w = 8
  OBVIOUS
<1> HIDE DEF u, v, w
<1>2. ASSUME e % u = 0
      PROVE  Covers(ShuffleBitEightelemMask(m, sz, e, 8 * u), Eights(m, row, e), 0 .. (row * (8 * e) - 1))
  BY <1>1, <1>2, EightelemMaskCovers
<1>3. ASSUME e % v = 0
      PROVE  Covers(ShuffleBitEightelemMask(m, sz, e, 8 * v), Eights(m, row, e), 0 .. (row * (8 * e) - 1))
  BY <1>1, <1>3, EightelemMaskCovers
<1>4. ASSUME e % w = 0
      PROVE  Covers(ShuffleBitEightelemMask(m, sz, e, 8 * w), Eights(m, row, e), 0 .. (row * (8 * e) - 1))
  BY <1>1, <1>4, EightelemMaskCovers
<1> QED BY <1>1, <1>2, <1>3, <1>4

(* bshuf_shuffle_bit_eightelem_SSE, with its scalar path for odd sizes.     *)
LEMMA SSEEightelem ==
  ASSUME NEW m, NEW row \in Nat, NEW e \in Nat, e > 0, NEW sz \in Nat, sz = 8 * row
  PROVE  Covers(ShuffleBitEightelemSSE(m, sz, e), Eights(m, row, e), 0 .. (row * (8 * e) - 1))
<1> DEFINE F == Eights(m, row, e)
           A == 0 .. (row * (8 * e) - 1)
<1>1. Covers(EightelemLE(m, sz, e), F, A)
  BY EightelemLECovers
<1>2. e % 2 = 0 => Covers(ShuffleBitEightelemMask(m, sz, e, 16), F, A)
  BY MaskOf
<1>3. ShuffleBitEightelemSSE(m, sz, e)
        = IF e % 2 # 0 THEN EightelemLE(m, sz, e) ELSE ShuffleBitEightelemMask(m, sz, e, 16)
  BY DEF ShuffleBitEightelemSSE, EightelemLE
<1> HIDE DEF F, A
<1>4. Covers(ShuffleBitEightelemSSE(m, sz, e), F, A)
  BY <1>1, <1>2, <1>3
<1> QED BY <1>4 DEF F, A

(* bshuf_shuffle_bit_eightelem_AVX, with the SSE path it falls back to.     *)
LEMMA AVXEightelem ==
  ASSUME NEW m, NEW row \in Nat, NEW e \in Nat, e > 0, NEW sz \in Nat, sz = 8 * row
  PROVE  Covers(ShuffleBitEightelemAVX(m, sz, e), Eights(m, row, e), 0 .. (row * (8 * e) - 1))
<1> DEFINE F == Eights(m, row, e)
           A == 0 .. (row * (8 * e) - 1)
<1>1. Covers(ShuffleBitEightelemSSE(m, sz, e), F, A)
  BY SSEEightelem
<1>2. e % 4 = 0 => Covers(ShuffleBitEightelemMask(m, sz, e, 32), F, A)
  BY MaskOf
<1> HIDE DEF F, A
<1>4. Covers(ShuffleBitEightelemAVX(m, sz, e), F, A)
  BY <1>1, <1>2 DEF ShuffleBitEightelemAVX
<1> QED BY <1>4 DEF F, A

(* bshuf_shuffle_bit_eightelem_AVX512, with the AVX path.                   *)
LEMMA AVX512Eightelem ==
  ASSUME NEW m, NEW row \in Nat, NEW e \in Nat, e > 0, NEW sz \in Nat, sz = 8 * row
  PROVE  Covers(ShuffleBitEightelemAVX512(m, sz, e), Eights(m, row, e), 0 .. (row * (8 * e) - 1))
<1> DEFINE F == Eights(m, row, e)
           A == 0 .. (row * (8 * e) - 1)
<1>1. Covers(ShuffleBitEightelemAVX(m, sz, e), F, A)
  BY AVXEightelem
<1>2. e % 8 = 0 => Covers(ShuffleBitEightelemMask(m, sz, e, 64), F, A)
  BY MaskOf
<1> HIDE DEF F, A
<1>4. Covers(ShuffleBitEightelemAVX512(m, sz, e), F, A)
  BY <1>1, <1>2 DEF ShuffleBitEightelemAVX512
<1> QED BY <1>4 DEF F, A

(* bshuf_shuffle_bit_eightelem_NEON, with the scalar path.                  *)
LEMMA NEONEightelem ==
  ASSUME NEW m, NEW row \in Nat, NEW e \in Nat, e > 0, NEW sz \in Nat, sz = 8 * row
  PROVE  Covers(ShuffleBitEightelemNEON(m, sz, e), Eights(m, row, e), 0 .. (row * (8 * e) - 1))
<1> DEFINE F == Eights(m, row, e)
           A == 0 .. (row * (8 * e) - 1)
<1>1. Covers(EightelemLE(m, sz, e), F, A)
  BY EightelemLECovers
<1>2. e % 2 = 0 => Covers(NeonEightelem(m, sz, e), F, A)
  BY NeonEightelemCovers
<1>3. ShuffleBitEightelemNEON(m, sz, e) = IF e % 2 # 0 THEN EightelemLE(m, sz, e) ELSE NeonEightelem(m, sz, e)
  BY DEF ShuffleBitEightelemNEON, EightelemLE
<1> HIDE DEF F, A
<1>4. Covers(ShuffleBitEightelemNEON(m, sz, e), F, A)
  BY <1>1, <1>2, <1>3
<1> QED BY <1>4 DEF F, A

-----------------------------------------------------------------------------
(* The bytes of vector registers through unpack networks.  A register is a  *)
(* number of 16-byte lanes; registers and bytes of a lane are numbered by   *)
(* the bits of their number, which a layer permutes.                        *)

RByte(x, l, p) == ByteOf(x, 16 * l + p)
Four(b3, b2, b1, b0) == 8 * b3 + 4 * b2 + 2 * b1 + b0
Reg(k2, k1, k0) == 1 + 4 * k2 + 2 * k1 + k0
Bits7(k2, k1, k0, b3, b2, b1, b0) ==
  /\ k2 \in Two /\ k1 \in Two /\ k0 \in Two
  /\ b3 \in Two /\ b2 \in Two /\ b1 \in Two /\ b0 \in Two

(* All registers of v have the lanes 0 .. n - 1. *)
Lanes(x, n) == DOMAIN x = 0 .. (128 * n - 1)
Registers(v, n) == \A k \in DOMAIN v : Lanes(v[k], n)

(* An unpack of elements of w bytes takes them from its operands in turn.   *)
LEMMA UnpackByte ==
  ASSUME NEW w \in {1, 2, 4, 8}, NEW half \in Two, NEW p, NEW q, NEW n \in Nat, Lanes(p, n),
         NEW l \in 0 .. (n - 1), NEW at \in 0 .. 15, NEW r, r = 8 * half + ((at \div w) \div 2) * w + (at % w)
  PROVE  RByte(Unpack(w, half, p, q), l, at)
           = RByte(IF (at \div w) % 2 = 0 THEN p ELSE q, l, r)
<1> DEFINE x == Unpack(w, half, p, q)
           y == IF (at \div w) % 2 = 0 THEN p ELSE q
<1>0. r \in 0 .. 15
  <2>1. half \in {0, 1}
    BY DEF Two
  <2> QED BY <2>1
<1>1. ASSUME NEW b \in 0 .. 7 PROVE x[8 * (16 * l + at) + b] = y[8 * (16 * l + r) + b]
  <2> DEFINE i == 8 * (16 * l + at) + b
  <2>1. /\ i \in 0 .. (128 * n - 1)
        /\ (i % 128) \div 8 = at /\ i \div 128 = l /\ i % 8 = b
    OBVIOUS
  <2>2. (128 * l) + (8 * r) + b = 8 * (16 * l + r) + b
    BY <1>0
  <2> HIDE DEF i
  <2>3. x[i] = IF (at \div w) % 2 = 0
               THEN p[(128 * l) + (8 * ((8 * half) + (((at \div w) \div 2) * w) + (at % w))) + b]
               ELSE q[(128 * l) + (8 * ((8 * half) + (((at \div w) \div 2) * w) + (at % w))) + b]
    BY <2>1 DEF Unpack, Lanes
  <2>4. x[i] = IF (at \div w) % 2 = 0 THEN p[(128 * l) + (8 * r) + b] ELSE q[(128 * l) + (8 * r) + b]
    BY <2>3
  <2> QED BY <2>2, <2>4 DEF i
<1> HIDE DEF x, y
<1>2. ByteOf(x, 16 * l + at) = ByteOf(y, 16 * l + r)
  BY <1>1 DEF ByteOf
<1> QED BY <1>2 DEF x, y, RByte

LEMMA UnpackLanes ==
  ASSUME NEW w, NEW half, NEW p, NEW q, NEW n, Lanes(p, n)
  PROVE  Lanes(Unpack(w, half, p, q), n)
BY DEF Lanes, Unpack

LEMMA FourBits ==
  ASSUME NEW b3 \in Two, NEW b2 \in Two, NEW b1 \in Two, NEW b0 \in Two
  PROVE  /\ Four(b3, b2, b1, b0) \in 0 .. 15
         /\ Four(b3, b2, b1, b0) \div 1 = Four(b3, b2, b1, b0) /\ Four(b3, b2, b1, b0) % 2 = b0
         /\ Four(b3, b2, b1, b0) \div 2 = 4 * b3 + 2 * b2 + b1
         /\ Four(b3, b2, b1, b0) \div 4 = 2 * b3 + b2 /\ Four(b3, b2, b1, b0) % 4 = 2 * b1 + b0
         /\ Four(b3, b2, b1, b0) \div 8 = b3 /\ Four(b3, b2, b1, b0) % 8 = 4 * b2 + 2 * b1 + b0
BY DEF Four, Two

BitsOf(b3, b2, b1, b0) == b3 \in Two /\ b2 \in Two /\ b1 \in Two /\ b0 \in Two

(* By the bits of the place: an unpack of bytes ...                         *)
LEMMA Unpack1 ==
  ASSUME NEW h \in Two, NEW p, NEW q, NEW n \in Nat, Lanes(p, n), NEW l \in 0 .. (n - 1),
         NEW b3, NEW b2, NEW b1, NEW b0, BitsOf(b3, b2, b1, b0)
  PROVE  RByte(Unpack(1, h, p, q), l, Four(b3, b2, b1, b0)) = RByte(IF b0 = 0 THEN p ELSE q, l, Four(h, b3, b2, b1))
<1> DEFINE at == Four(b3, b2, b1, b0)
           r == Four(h, b3, b2, b1)
           w == 1
<1>1. /\ at \in 0 .. 15 /\ w \in {1, 2, 4, 8}
      /\ r = 8 * h + ((at \div w) \div 2) * w + (at % w) /\ (at \div w) % 2 = b0
  BY DEF BitsOf, Two, Four
<1> HIDE DEF at, r, w
<1>2. RByte(Unpack(w, h, p, q), l, at) = RByte(IF (at \div w) % 2 = 0 THEN p ELSE q, l, r)
  BY <1>1, UnpackByte
<1>3. RByte(Unpack(w, h, p, q), l, at) = RByte(IF b0 = 0 THEN p ELSE q, l, r)
  BY <1>1, <1>2
<1> QED BY <1>3 DEF at, r, w

(* ... of two bytes ...                                                     *)
LEMMA Unpack2 ==
  ASSUME NEW h \in Two, NEW p, NEW q, NEW n \in Nat, Lanes(p, n), NEW l \in 0 .. (n - 1),
         NEW b3, NEW b2, NEW b1, NEW b0, BitsOf(b3, b2, b1, b0)
  PROVE  RByte(Unpack(2, h, p, q), l, Four(b3, b2, b1, b0)) = RByte(IF b1 = 0 THEN p ELSE q, l, Four(h, b3, b2, b0))
<1> DEFINE at == Four(b3, b2, b1, b0)
           r == Four(h, b3, b2, b0)
           w == 2
<1>1. /\ at \in 0 .. 15 /\ w \in {1, 2, 4, 8}
      /\ r = 8 * h + ((at \div w) \div 2) * w + (at % w) /\ (at \div w) % 2 = b1
  BY DEF BitsOf, Two, Four
<1> HIDE DEF at, r, w
<1>2. RByte(Unpack(w, h, p, q), l, at) = RByte(IF (at \div w) % 2 = 0 THEN p ELSE q, l, r)
  BY <1>1, UnpackByte
<1>3. RByte(Unpack(w, h, p, q), l, at) = RByte(IF b1 = 0 THEN p ELSE q, l, r)
  BY <1>1, <1>2
<1> QED BY <1>3 DEF at, r, w

(* ... of four ...                                                          *)
LEMMA Unpack4 ==
  ASSUME NEW h \in Two, NEW p, NEW q, NEW n \in Nat, Lanes(p, n), NEW l \in 0 .. (n - 1),
         NEW b3, NEW b2, NEW b1, NEW b0, BitsOf(b3, b2, b1, b0)
  PROVE  RByte(Unpack(4, h, p, q), l, Four(b3, b2, b1, b0)) = RByte(IF b2 = 0 THEN p ELSE q, l, Four(h, b3, b1, b0))
<1> DEFINE at == Four(b3, b2, b1, b0)
           r == Four(h, b3, b1, b0)
           w == 4
<1>1. /\ at \in 0 .. 15 /\ w \in {1, 2, 4, 8}
      /\ r = 8 * h + ((at \div w) \div 2) * w + (at % w) /\ (at \div w) % 2 = b2
  BY DEF BitsOf, Two, Four
<1> HIDE DEF at, r, w
<1>2. RByte(Unpack(w, h, p, q), l, at) = RByte(IF (at \div w) % 2 = 0 THEN p ELSE q, l, r)
  BY <1>1, UnpackByte
<1>3. RByte(Unpack(w, h, p, q), l, at) = RByte(IF b2 = 0 THEN p ELSE q, l, r)
  BY <1>1, <1>2
<1> QED BY <1>3 DEF at, r, w

(* ... and of eight moves one bit of the place to the choice of operand.    *)
LEMMA Unpack8 ==
  ASSUME NEW h \in Two, NEW p, NEW q, NEW n \in Nat, Lanes(p, n), NEW l \in 0 .. (n - 1),
         NEW b3, NEW b2, NEW b1, NEW b0, BitsOf(b3, b2, b1, b0)
  PROVE  RByte(Unpack(8, h, p, q), l, Four(b3, b2, b1, b0)) = RByte(IF b3 = 0 THEN p ELSE q, l, Four(h, b2, b1, b0))
<1> DEFINE at == Four(b3, b2, b1, b0)
           r == Four(h, b2, b1, b0)
           w == 8
<1>1. /\ at \in 0 .. 15 /\ w \in {1, 2, 4, 8}
      /\ r = 8 * h + ((at \div w) \div 2) * w + (at % w) /\ (at \div w) % 2 = b3
  BY DEF BitsOf, Two, Four
<1> HIDE DEF at, r, w
<1>2. RByte(Unpack(w, h, p, q), l, at) = RByte(IF (at \div w) % 2 = 0 THEN p ELSE q, l, r)
  BY <1>1, UnpackByte
<1>3. RByte(Unpack(w, h, p, q), l, at) = RByte(IF b3 = 0 THEN p ELSE q, l, r)
  BY <1>1, <1>2
<1> QED BY <1>3 DEF at, r, w

LEMMA LayerAt ==
  ASSUME NEW w, NEW v, NEW tab, NEW k \in DOMAIN tab, NEW h, NEW x, NEW y, tab[k] = <<h, x, y>>
  PROVE  Layer(w, v, tab)[k] = Unpack(w, h, v[x], v[y])
BY DEF Layer

LEMMA LayerDomain ==
  ASSUME NEW w, NEW v, NEW tab
  PROVE  DOMAIN Layer(w, v, tab) = DOMAIN tab
BY DEF Layer

LEMMA LayerRegisters ==
  ASSUME NEW w, NEW v, NEW tab, NEW n, Registers(v, n), \A k \in DOMAIN tab : tab[k][2] \in DOMAIN v
  PROVE  Registers(Layer(w, v, tab), n)
<1> SUFFICES ASSUME NEW k \in DOMAIN tab PROVE Lanes(Layer(w, v, tab)[k], n)
  BY LayerDomain DEF Registers
<1>1. Layer(w, v, tab)[k] = Unpack(w, tab[k][1], v[tab[k][2]], v[tab[k][3]])
  BY DEF Layer
<1>2. Lanes(v[tab[k][2]], n)
  BY DEF Registers
<1> QED BY <1>1, <1>2, UnpackLanes

(* The same for a layer of unpacks of bytes ...                             *)
LEMMA Layer1 ==
  ASSUME NEW v, NEW tab, NEW k \in DOMAIN tab, NEW h \in Two, NEW x, NEW y, tab[k] = <<h, x, y>>,
         NEW n \in Nat, Registers(v, n), x \in DOMAIN v, NEW l \in 0 .. (n - 1),
         NEW b3, NEW b2, NEW b1, NEW b0, BitsOf(b3, b2, b1, b0)
  PROVE  RByte(Layer(1, v, tab)[k], l, Four(b3, b2, b1, b0)) = RByte(v[IF b0 = 0 THEN x ELSE y], l, Four(h, b3, b2, b1))
<1> DEFINE p == v[x]
           q == v[y]
           t == Layer(1, v, tab)[k]
<1>1. t = Unpack(1, h, p, q)
  BY LayerAt
<1>2. Lanes(p, n)
  BY DEF Registers
<1>3. v[IF b0 = 0 THEN x ELSE y] = IF b0 = 0 THEN p ELSE q
  OBVIOUS
<1> HIDE DEF p, q, t
<1>4. RByte(Unpack(1, h, p, q), l, Four(b3, b2, b1, b0)) = RByte(IF b0 = 0 THEN p ELSE q, l, Four(h, b3, b2, b1))
  BY <1>2, Unpack1
<1>5. RByte(t, l, Four(b3, b2, b1, b0)) = RByte(v[IF b0 = 0 THEN x ELSE y], l, Four(h, b3, b2, b1))
  BY <1>1, <1>3, <1>4
<1> QED BY <1>5 DEF t

(* ... of two bytes ...                                                     *)
LEMMA Layer2 ==
  ASSUME NEW v, NEW tab, NEW k \in DOMAIN tab, NEW h \in Two, NEW x, NEW y, tab[k] = <<h, x, y>>,
         NEW n \in Nat, Registers(v, n), x \in DOMAIN v, NEW l \in 0 .. (n - 1),
         NEW b3, NEW b2, NEW b1, NEW b0, BitsOf(b3, b2, b1, b0)
  PROVE  RByte(Layer(2, v, tab)[k], l, Four(b3, b2, b1, b0)) = RByte(v[IF b1 = 0 THEN x ELSE y], l, Four(h, b3, b2, b0))
<1> DEFINE p == v[x]
           q == v[y]
           t == Layer(2, v, tab)[k]
<1>1. t = Unpack(2, h, p, q)
  BY LayerAt
<1>2. Lanes(p, n)
  BY DEF Registers
<1>3. v[IF b1 = 0 THEN x ELSE y] = IF b1 = 0 THEN p ELSE q
  OBVIOUS
<1> HIDE DEF p, q, t
<1>4. RByte(Unpack(2, h, p, q), l, Four(b3, b2, b1, b0)) = RByte(IF b1 = 0 THEN p ELSE q, l, Four(h, b3, b2, b0))
  BY <1>2, Unpack2
<1>5. RByte(t, l, Four(b3, b2, b1, b0)) = RByte(v[IF b1 = 0 THEN x ELSE y], l, Four(h, b3, b2, b0))
  BY <1>1, <1>3, <1>4
<1> QED BY <1>5 DEF t

(* ... of four ...                                                          *)
LEMMA Layer4 ==
  ASSUME NEW v, NEW tab, NEW k \in DOMAIN tab, NEW h \in Two, NEW x, NEW y, tab[k] = <<h, x, y>>,
         NEW n \in Nat, Registers(v, n), x \in DOMAIN v, NEW l \in 0 .. (n - 1),
         NEW b3, NEW b2, NEW b1, NEW b0, BitsOf(b3, b2, b1, b0)
  PROVE  RByte(Layer(4, v, tab)[k], l, Four(b3, b2, b1, b0)) = RByte(v[IF b2 = 0 THEN x ELSE y], l, Four(h, b3, b1, b0))
<1> DEFINE p == v[x]
           q == v[y]
           t == Layer(4, v, tab)[k]
<1>1. t = Unpack(4, h, p, q)
  BY LayerAt
<1>2. Lanes(p, n)
  BY DEF Registers
<1>3. v[IF b2 = 0 THEN x ELSE y] = IF b2 = 0 THEN p ELSE q
  OBVIOUS
<1> HIDE DEF p, q, t
<1>4. RByte(Unpack(4, h, p, q), l, Four(b3, b2, b1, b0)) = RByte(IF b2 = 0 THEN p ELSE q, l, Four(h, b3, b1, b0))
  BY <1>2, Unpack4
<1>5. RByte(t, l, Four(b3, b2, b1, b0)) = RByte(v[IF b2 = 0 THEN x ELSE y], l, Four(h, b3, b1, b0))
  BY <1>1, <1>3, <1>4
<1> QED BY <1>5 DEF t

(* ... and of eight.                                                        *)
LEMMA Layer8 ==
  ASSUME NEW v, NEW tab, NEW k \in DOMAIN tab, NEW h \in Two, NEW x, NEW y, tab[k] = <<h, x, y>>,
         NEW n \in Nat, Registers(v, n), x \in DOMAIN v, NEW l \in 0 .. (n - 1),
         NEW b3, NEW b2, NEW b1, NEW b0, BitsOf(b3, b2, b1, b0)
  PROVE  RByte(Layer(8, v, tab)[k], l, Four(b3, b2, b1, b0)) = RByte(v[IF b3 = 0 THEN x ELSE y], l, Four(h, b2, b1, b0))
<1> DEFINE p == v[x]
           q == v[y]
           t == Layer(8, v, tab)[k]
<1>1. t = Unpack(8, h, p, q)
  BY LayerAt
<1>2. Lanes(p, n)
  BY DEF Registers
<1>3. v[IF b3 = 0 THEN x ELSE y] = IF b3 = 0 THEN p ELSE q
  OBVIOUS
<1> HIDE DEF p, q, t
<1>4. RByte(Unpack(8, h, p, q), l, Four(b3, b2, b1, b0)) = RByte(IF b3 = 0 THEN p ELSE q, l, Four(h, b2, b1, b0))
  BY <1>2, Unpack8
<1>5. RByte(t, l, Four(b3, b2, b1, b0)) = RByte(v[IF b3 = 0 THEN x ELSE y], l, Four(h, b2, b1, b0))
  BY <1>1, <1>3, <1>4
<1> QED BY <1>5 DEF t

(* The layers of the byte transposes and of the bitrow transposes.          *)
Halves == <<<<0, 1, 3>>, <<1, 1, 3>>, <<0, 2, 4>>, <<1, 2, 4>>>>
Quarters == <<<<0, 1, 3>>, <<1, 1, 3>>, <<0, 2, 4>>, <<1, 2, 4>>,
            <<0, 5, 7>>, <<1, 5, 7>>, <<0, 6, 8>>, <<1, 6, 8>>>>
Eighths == <<<<0, 1, 5>>, <<1, 1, 5>>, <<0, 2, 6>>, <<1, 2, 6>>,
            <<0, 3, 7>>, <<1, 3, 7>>, <<0, 4, 8>>, <<1, 4, 8>>>>
RowPairs == <<<<0, 1, 2>>, <<0, 3, 4>>, <<0, 5, 6>>, <<0, 7, 8>>,
            <<1, 1, 2>>, <<1, 3, 4>>, <<1, 5, 6>>, <<1, 7, 8>>>>
RowFours == <<<<0, 1, 2>>, <<0, 3, 4>>, <<1, 1, 2>>, <<1, 3, 4>>,
            <<0, 5, 6>>, <<0, 7, 8>>, <<1, 5, 6>>, <<1, 7, 8>>>>
RowEights == <<<<0, 1, 2>>, <<1, 1, 2>>, <<0, 3, 4>>, <<1, 3, 4>>,
            <<0, 5, 6>>, <<1, 5, 6>>, <<0, 7, 8>>, <<1, 7, 8>>>>
Groups == <<<<0, 1, 2>>, <<0, 3, 4>>, <<1, 1, 2>>, <<1, 3, 4>>>>

(* The permutation of the seven bits that each layer is.                    *)
LEMMA HalvesStep ==
  ASSUME NEW v, DOMAIN v = 1 .. 4, NEW n \in Nat, Registers(v, n), NEW l \in 0 .. (n - 1),
         NEW k1, NEW k0, NEW b3, NEW b2, NEW b1, NEW b0,
         Bits7(0, k1, k0, b3, b2, b1, b0)
  PROVE  RByte(Layer(8, v, Halves)[Reg(0, k1, k0)], l, Four(b3, b2, b1, b0))
           = RByte(v[Reg(0, b3, k1)], l, Four(k0, b2, b1, b0))
<1> DEFINE k == Reg(0, k1, k0)
           x == Reg(0, 0, k1)
           y == Reg(0, 1, k1)
           z == Reg(0, b3, k1)
<1>1. k \in DOMAIN Halves /\ Halves[k] = <<k0, x, y>>
  BY DEF Bits7, Two, Reg, Halves
<1>2. x \in DOMAIN v /\ k0 \in Two /\ z = (IF b3 = 0 THEN x ELSE y)
  BY DEF Bits7, Two, Reg
<1>3. BitsOf(b3, b2, b1, b0)
  BY DEF Bits7, BitsOf
<1> HIDE DEF k, x, y, z
<1>4. RByte(Layer(8, v, Halves)[k], l, Four(b3, b2, b1, b0)) = RByte(v[IF b3 = 0 THEN x ELSE y], l, Four(k0, b2, b1, b0))
  BY <1>1, <1>2, <1>3, Layer8
<1> QED BY <1>2, <1>4 DEF k, z

LEMMA QuartersStep ==
  ASSUME NEW v, DOMAIN v = 1 .. 8, NEW n \in Nat, Registers(v, n), NEW l \in 0 .. (n - 1),
         NEW k2, NEW k1, NEW k0, NEW b3, NEW b2, NEW b1, NEW b0,
         Bits7(k2, k1, k0, b3, b2, b1, b0)
  PROVE  RByte(Layer(4, v, Quarters)[Reg(k2, k1, k0)], l, Four(b3, b2, b1, b0))
           = RByte(v[Reg(k2, b2, k1)], l, Four(k0, b3, b1, b0))
<1> DEFINE k == Reg(k2, k1, k0)
           x == Reg(k2, 0, k1)
           y == Reg(k2, 1, k1)
           z == Reg(k2, b2, k1)
<1>1. k \in DOMAIN Quarters /\ Quarters[k] = <<k0, x, y>>
  BY DEF Bits7, Two, Reg, Quarters
<1>2. x \in DOMAIN v /\ k0 \in Two /\ z = (IF b2 = 0 THEN x ELSE y)
  BY DEF Bits7, Two, Reg
<1>3. BitsOf(b3, b2, b1, b0)
  BY DEF Bits7, BitsOf
<1> HIDE DEF k, x, y, z
<1>4. RByte(Layer(4, v, Quarters)[k], l, Four(b3, b2, b1, b0)) = RByte(v[IF b2 = 0 THEN x ELSE y], l, Four(k0, b3, b1, b0))
  BY <1>1, <1>2, <1>3, Layer4
<1> QED BY <1>2, <1>4 DEF k, z

(* A layer gives registers of the same width.                               *)
LEMMA QuartersKeep ==
  ASSUME NEW v, DOMAIN v = 1 .. 8, NEW n, Registers(v, n)
  PROVE  Registers(Layer(4, v, Quarters), n) /\ DOMAIN Layer(4, v, Quarters) = 1 .. 8
<1>1. DOMAIN Quarters = 1 .. 8
  BY DEF Quarters
<1>2. \A k \in DOMAIN Quarters : Quarters[k][2] \in DOMAIN v
  BY DEF Quarters
<1> QED BY <1>1, <1>2, LayerRegisters, LayerDomain

LEMMA EighthsStep ==
  ASSUME NEW v, DOMAIN v = 1 .. 8, NEW n \in Nat, Registers(v, n), NEW l \in 0 .. (n - 1),
         NEW k2, NEW k1, NEW k0, NEW b3, NEW b2, NEW b1, NEW b0,
         Bits7(k2, k1, k0, b3, b2, b1, b0)
  PROVE  RByte(Layer(8, v, Eighths)[Reg(k2, k1, k0)], l, Four(b3, b2, b1, b0))
           = RByte(v[Reg(b3, k2, k1)], l, Four(k0, b2, b1, b0))
<1> DEFINE k == Reg(k2, k1, k0)
           x == Reg(0, k2, k1)
           y == Reg(1, k2, k1)
           z == Reg(b3, k2, k1)
<1>1. k \in DOMAIN Eighths /\ Eighths[k] = <<k0, x, y>>
  BY DEF Bits7, Two, Reg, Eighths
<1>2. x \in DOMAIN v /\ k0 \in Two /\ z = (IF b3 = 0 THEN x ELSE y)
  BY DEF Bits7, Two, Reg
<1>3. BitsOf(b3, b2, b1, b0)
  BY DEF Bits7, BitsOf
<1> HIDE DEF k, x, y, z
<1>4. RByte(Layer(8, v, Eighths)[k], l, Four(b3, b2, b1, b0)) = RByte(v[IF b3 = 0 THEN x ELSE y], l, Four(k0, b2, b1, b0))
  BY <1>1, <1>2, <1>3, Layer8
<1> QED BY <1>2, <1>4 DEF k, z

LEMMA RowPairsStep ==
  ASSUME NEW v, DOMAIN v = 1 .. 8, NEW n \in Nat, Registers(v, n), NEW l \in 0 .. (n - 1),
         NEW k2, NEW k1, NEW k0, NEW b3, NEW b2, NEW b1, NEW b0,
         Bits7(k2, k1, k0, b3, b2, b1, b0)
  PROVE  RByte(Layer(1, v, RowPairs)[Reg(k2, k1, k0)], l, Four(b3, b2, b1, b0))
           = RByte(v[Reg(k1, k0, b0)], l, Four(k2, b3, b2, b1))
<1> DEFINE k == Reg(k2, k1, k0)
           x == Reg(k1, k0, 0)
           y == Reg(k1, k0, 1)
           z == Reg(k1, k0, b0)
<1>1. k \in DOMAIN RowPairs /\ RowPairs[k] = <<k2, x, y>>
  BY DEF Bits7, Two, Reg, RowPairs
<1>2. x \in DOMAIN v /\ k2 \in Two /\ z = (IF b0 = 0 THEN x ELSE y)
  BY DEF Bits7, Two, Reg
<1>3. BitsOf(b3, b2, b1, b0)
  BY DEF Bits7, BitsOf
<1> HIDE DEF k, x, y, z
<1>4. RByte(Layer(1, v, RowPairs)[k], l, Four(b3, b2, b1, b0)) = RByte(v[IF b0 = 0 THEN x ELSE y], l, Four(k2, b3, b2, b1))
  BY <1>1, <1>2, <1>3, Layer1
<1> QED BY <1>2, <1>4 DEF k, z

LEMMA RowPairsKeep ==
  ASSUME NEW v, DOMAIN v = 1 .. 8, NEW n, Registers(v, n)
  PROVE  Registers(Layer(1, v, RowPairs), n) /\ DOMAIN Layer(1, v, RowPairs) = 1 .. 8
<1>1. DOMAIN RowPairs = 1 .. 8
  BY DEF RowPairs
<1>2. \A k \in DOMAIN RowPairs : RowPairs[k][2] \in DOMAIN v
  BY DEF RowPairs
<1> QED BY <1>1, <1>2, LayerRegisters, LayerDomain

LEMMA RowFoursStep ==
  ASSUME NEW v, DOMAIN v = 1 .. 8, NEW n \in Nat, Registers(v, n), NEW l \in 0 .. (n - 1),
         NEW k2, NEW k1, NEW k0, NEW b3, NEW b2, NEW b1, NEW b0,
         Bits7(k2, k1, k0, b3, b2, b1, b0)
  PROVE  RByte(Layer(2, v, RowFours)[Reg(k2, k1, k0)], l, Four(b3, b2, b1, b0))
           = RByte(v[Reg(k2, k0, b1)], l, Four(k1, b3, b2, b0))
<1> DEFINE k == Reg(k2, k1, k0)
           x == Reg(k2, k0, 0)
           y == Reg(k2, k0, 1)
           z == Reg(k2, k0, b1)
<1>1. k \in DOMAIN RowFours /\ RowFours[k] = <<k1, x, y>>
  BY DEF Bits7, Two, Reg, RowFours
<1>2. x \in DOMAIN v /\ k1 \in Two /\ z = (IF b1 = 0 THEN x ELSE y)
  BY DEF Bits7, Two, Reg
<1>3. BitsOf(b3, b2, b1, b0)
  BY DEF Bits7, BitsOf
<1> HIDE DEF k, x, y, z
<1>4. RByte(Layer(2, v, RowFours)[k], l, Four(b3, b2, b1, b0)) = RByte(v[IF b1 = 0 THEN x ELSE y], l, Four(k1, b3, b2, b0))
  BY <1>1, <1>2, <1>3, Layer2
<1> QED BY <1>2, <1>4 DEF k, z

LEMMA RowFoursKeep ==
  ASSUME NEW v, DOMAIN v = 1 .. 8, NEW n, Registers(v, n)
  PROVE  Registers(Layer(2, v, RowFours), n) /\ DOMAIN Layer(2, v, RowFours) = 1 .. 8
<1>1. DOMAIN RowFours = 1 .. 8
  BY DEF RowFours
<1>2. \A k \in DOMAIN RowFours : RowFours[k][2] \in DOMAIN v
  BY DEF RowFours
<1> QED BY <1>1, <1>2, LayerRegisters, LayerDomain

LEMMA RowEightsStep ==
  ASSUME NEW v, DOMAIN v = 1 .. 8, NEW n \in Nat, Registers(v, n), NEW l \in 0 .. (n - 1),
         NEW k2, NEW k1, NEW k0, NEW b3, NEW b2, NEW b1, NEW b0,
         Bits7(k2, k1, k0, b3, b2, b1, b0)
  PROVE  RByte(Layer(4, v, RowEights)[Reg(k2, k1, k0)], l, Four(b3, b2, b1, b0))
           = RByte(v[Reg(k2, k1, b2)], l, Four(k0, b3, b1, b0))
<1> DEFINE k == Reg(k2, k1, k0)
           x == Reg(k2, k1, 0)
           y == Reg(k2, k1, 1)
           z == Reg(k2, k1, b2)
<1>1. k \in DOMAIN RowEights /\ RowEights[k] = <<k0, x, y>>
  BY DEF Bits7, Two, Reg, RowEights
<1>2. x \in DOMAIN v /\ k0 \in Two /\ z = (IF b2 = 0 THEN x ELSE y)
  BY DEF Bits7, Two, Reg
<1>3. BitsOf(b3, b2, b1, b0)
  BY DEF Bits7, BitsOf
<1> HIDE DEF k, x, y, z
<1>4. RByte(Layer(4, v, RowEights)[k], l, Four(b3, b2, b1, b0)) = RByte(v[IF b2 = 0 THEN x ELSE y], l, Four(k0, b3, b1, b0))
  BY <1>1, <1>2, <1>3, Layer4
<1> QED BY <1>2, <1>4 DEF k, z

LEMMA RowEightsKeep ==
  ASSUME NEW v, DOMAIN v = 1 .. 8, NEW n, Registers(v, n)
  PROVE  Registers(Layer(4, v, RowEights), n) /\ DOMAIN Layer(4, v, RowEights) = 1 .. 8
<1>1. DOMAIN RowEights = 1 .. 8
  BY DEF RowEights
<1>2. \A k \in DOMAIN RowEights : RowEights[k][2] \in DOMAIN v
  BY DEF RowEights
<1> QED BY <1>1, <1>2, LayerRegisters, LayerDomain

LEMMA GroupsStep ==
  ASSUME NEW v, DOMAIN v = 1 .. 4, NEW n \in Nat, Registers(v, n), NEW l \in 0 .. (n - 1),
         NEW k1, NEW k0, NEW b3, NEW b2, NEW b1, NEW b0,
         Bits7(0, k1, k0, b3, b2, b1, b0)
  PROVE  RByte(Layer(8, v, Groups)[Reg(0, k1, k0)], l, Four(b3, b2, b1, b0))
           = RByte(v[Reg(0, k0, b3)], l, Four(k1, b2, b1, b0))
<1> DEFINE k == Reg(0, k1, k0)
           x == Reg(0, k0, 0)
           y == Reg(0, k0, 1)
           z == Reg(0, k0, b3)
<1>1. k \in DOMAIN Groups /\ Groups[k] = <<k1, x, y>>
  BY DEF Bits7, Two, Reg, Groups
<1>2. x \in DOMAIN v /\ k1 \in Two /\ z = (IF b3 = 0 THEN x ELSE y)
  BY DEF Bits7, Two, Reg
<1>3. BitsOf(b3, b2, b1, b0)
  BY DEF Bits7, BitsOf
<1>5. k1 \in Two
  BY <1>2
<1> HIDE DEF k, x, y, z
<1> DEFINE tab == Groups
<1>6. k \in DOMAIN tab /\ tab[k] = <<k1, x, y>>
  BY <1>1
<1> HIDE DEF tab
<1>7. RByte(Layer(8, v, tab)[k], l, Four(b3, b2, b1, b0)) = RByte(v[IF b3 = 0 THEN x ELSE y], l, Four(k1, b2, b1, b0))
  BY <1>2, <1>3, <1>5, <1>6, Layer8
<1>4. RByte(Layer(8, v, Groups)[k], l, Four(b3, b2, b1, b0)) = RByte(v[IF b3 = 0 THEN x ELSE y], l, Four(k1, b2, b1, b0))
  BY <1>7 DEF tab
<1> QED BY <1>2, <1>4 DEF k, z

LEMMA Pairs8Step ==
  ASSUME NEW v, NEW N \in {2, 4, 8}, DOMAIN v = 1 .. N, NEW n \in Nat, Registers(v, n),
         NEW l \in 0 .. (n - 1),
         NEW k2, NEW k1, NEW k0, NEW b3, NEW b2, NEW b1, NEW b0,
         Bits7(k2, k1, k0, b3, b2, b1, b0), Reg(k2, k1, k0) \in 1 .. N
  PROVE  RByte(Pairs8(v)[Reg(k2, k1, k0)], l, Four(b3, b2, b1, b0))
           = RByte(v[Reg(k2, k1, b0)], l, Four(k0, b3, b2, b1))
<1> DEFINE tab == [k \in DOMAIN v |-> LET odd == (k - 1) % 2 IN <<odd, k - odd, k - odd + 1>>]
           k == Reg(k2, k1, k0)
           x == Reg(k2, k1, 0)
           y == Reg(k2, k1, 1)
           z == Reg(k2, k1, b0)
<1>0. k \in 1 .. N /\ (k - 1) % 2 = k0 /\ k - k0 = x /\ k - k0 + 1 = y
  BY DEF Bits7, Two, Reg
<1>1. k \in DOMAIN tab /\ tab[k] = <<k0, x, y>>
  <2> HIDE DEF k, x, y
  <2> QED BY <1>0
<1>2. x \in DOMAIN v /\ k0 \in Two /\ z = (IF b0 = 0 THEN x ELSE y)
  BY <1>0 DEF Bits7, Two, Reg
<1>3. BitsOf(b3, b2, b1, b0)
  BY DEF Bits7, BitsOf
<1>5. Pairs8(v) = Layer(1, v, tab)
  BY DEF Pairs8
<1> HIDE DEF k, x, y, z, tab
<1>4. RByte(Layer(1, v, tab)[k], l, Four(b3, b2, b1, b0)) = RByte(v[IF b0 = 0 THEN x ELSE y], l, Four(k0, b3, b2, b1))
  BY <1>1, <1>2, <1>3, Layer1
<1> QED BY <1>2, <1>4, <1>5 DEF k, z

LEMMA Pairs8Keep ==
  ASSUME NEW v, NEW N \in {2, 4, 8}, DOMAIN v = 1 .. N, NEW n, Registers(v, n)
  PROVE  Registers(Pairs8(v), n) /\ DOMAIN Pairs8(v) = 1 .. N
<1> DEFINE tab == [k \in DOMAIN v |-> LET odd == (k - 1) % 2 IN <<odd, k - odd, k - odd + 1>>]
<1>1. DOMAIN tab = 1 .. N
  OBVIOUS
<1>2. ASSUME NEW k \in DOMAIN tab PROVE tab[k][2] \in DOMAIN v
  <2>1. k \in 1 .. N /\ tab[k][2] = k - ((k - 1) % 2)
    OBVIOUS
  <2> HIDE DEF tab
  <2>2. k - ((k - 1) % 2) \in 1 .. N
    BY <2>1
  <2> QED BY <2>1, <2>2
<1>3. Pairs8(v) = Layer(1, v, tab)
  BY DEF Pairs8
<1> HIDE DEF tab
<1> QED BY <1>1, <1>2, <1>3, LayerRegisters, LayerDomain

(* The networks from end to end, on registers numbered by bits.             *)
LEMMA UnzipEight ==
  ASSUME NEW v, DOMAIN v = 1 .. 8, NEW n \in Nat, Registers(v, n), NEW l \in 0 .. (n - 1),
         NEW k2, NEW k1, NEW k0, NEW b3, NEW b2, NEW b1, NEW b0, Bits7(k2, k1, k0, b3, b2, b1, b0)
  PROVE  RByte(Unzip(8, v)[Reg(k2, k1, k0)], l, Four(b3, b2, b1, b0))
           = RByte(v[Reg(b3, b2, b1)], l, Four(b0, k2, k1, k0))
<1> DEFINE N == 8
           v1 == Pairs8(v)
           v2 == Pairs8(v1)
           v3 == Layer(4, v2, Quarters)
           v4 == Layer(8, v3, Eighths)
<1>0. N \in {2, 4, 8} /\ N = 8
  OBVIOUS
<1>1. Unzip(8, v) = v4
  BY DEF Unzip, Quarters, Eighths
<1> HIDE DEF N, v1, v2, v3, v4
<1>2. Registers(v1, n) /\ DOMAIN v1 = 1 .. N
  BY <1>0, Pairs8Keep DEF v1
<1>3. Registers(v2, n) /\ DOMAIN v2 = 1 .. N
  BY <1>0, <1>2, Pairs8Keep DEF v2
<1>4. Registers(v3, n) /\ DOMAIN v3 = 1 .. 8
  BY <1>0, <1>3, QuartersKeep DEF v3
<1>b. /\ Bits7(b3, k2, k1, k0, b2, b1, b0) /\ Bits7(b3, b2, k2, k1, k0, b1, b0)
      /\ Bits7(b3, b2, b0, k2, k1, k0, b1)
  BY DEF Bits7
<1>c. Reg(b3, b2, k2) \in 1 .. N /\ Reg(b3, b2, b0) \in 1 .. N
  BY <1>0 DEF Bits7, Two, Reg
<1>5. RByte(v4[Reg(k2, k1, k0)], l, Four(b3, b2, b1, b0)) = RByte(v3[Reg(b3, k2, k1)], l, Four(k0, b2, b1, b0))
  BY <1>4, EighthsStep DEF v4
<1>6. RByte(v3[Reg(b3, k2, k1)], l, Four(k0, b2, b1, b0)) = RByte(v2[Reg(b3, b2, k2)], l, Four(k1, k0, b1, b0))
  BY <1>0, <1>3, <1>b, QuartersStep DEF v3
<1>7. RByte(v2[Reg(b3, b2, k2)], l, Four(k1, k0, b1, b0)) = RByte(v1[Reg(b3, b2, b0)], l, Four(k2, k1, k0, b1))
  BY <1>0, <1>2, <1>b, <1>c, Pairs8Step DEF v2
<1>8. RByte(v1[Reg(b3, b2, b0)], l, Four(k2, k1, k0, b1)) = RByte(v[Reg(b3, b2, b1)], l, Four(b0, k2, k1, k0))
  BY <1>0, <1>b, <1>c, Pairs8Step DEF v1
<1> QED BY <1>1, <1>5, <1>6, <1>7, <1>8

(* Elements of four bytes: four layers.                                     *)
LEMMA UnzipFour ==
  ASSUME NEW v, DOMAIN v = 1 .. 4, NEW n \in Nat, Registers(v, n), NEW l \in 0 .. (n - 1),
         NEW k1, NEW k0, NEW b3, NEW b2, NEW b1, NEW b0, Bits7(0, k1, k0, b3, b2, b1, b0)
  PROVE  RByte(Unzip(4, v)[Reg(0, k1, k0)], l, Four(b3, b2, b1, b0))
           = RByte(v[Reg(0, b3, b2)], l, Four(b1, b0, k1, k0))
<1> DEFINE N == 4
           v1 == Pairs8(v)
           v2 == Pairs8(v1)
           v3 == Pairs8(v2)
           v4 == Layer(8, v3, Halves)
<1>0. N \in {2, 4, 8} /\ N = 4
  OBVIOUS
<1>1. Unzip(4, v) = v4
  BY DEF Unzip, Halves
<1> HIDE DEF N, v1, v2, v3, v4
<1>2. Registers(v1, n) /\ DOMAIN v1 = 1 .. N
  BY <1>0, Pairs8Keep DEF v1
<1>3. Registers(v2, n) /\ DOMAIN v2 = 1 .. N
  BY <1>0, <1>2, Pairs8Keep DEF v2
<1>4. Registers(v3, n) /\ DOMAIN v3 = 1 .. N
  BY <1>0, <1>3, Pairs8Keep DEF v3
<1>b. /\ Bits7(0, b3, k1, k0, b2, b1, b0) /\ Bits7(0, b3, b0, k1, k0, b2, b1)
      /\ Bits7(0, b3, b1, b0, k1, k0, b2)
  BY DEF Bits7
<1>c. Reg(0, b3, k1) \in 1 .. N /\ Reg(0, b3, b0) \in 1 .. N /\ Reg(0, b3, b1) \in 1 .. N
  BY <1>0 DEF Bits7, Two, Reg
<1>5. RByte(v4[Reg(0, k1, k0)], l, Four(b3, b2, b1, b0)) = RByte(v3[Reg(0, b3, k1)], l, Four(k0, b2, b1, b0))
  BY <1>0, <1>4, HalvesStep DEF v4
<1> DEFINE z == 0
<1> HIDE DEF z
<1>6. RByte(v3[Reg(z, b3, k1)], l, Four(k0, b2, b1, b0)) = RByte(v2[Reg(z, b3, b0)], l, Four(k1, k0, b2, b1))
  <2>1. Bits7(z, b3, k1, k0, b2, b1, b0) /\ Reg(z, b3, k1) \in 1 .. N
    BY <1>b, <1>c DEF z
  <2> QED BY <1>0, <1>3, <2>1, Pairs8Step DEF v3
<1>7. RByte(v2[Reg(z, b3, b0)], l, Four(k1, k0, b2, b1)) = RByte(v1[Reg(z, b3, b1)], l, Four(b0, k1, k0, b2))
  <2>1. Bits7(z, b3, b0, k1, k0, b2, b1) /\ Reg(z, b3, b0) \in 1 .. N
    BY <1>b, <1>c DEF z
  <2> QED BY <1>0, <1>2, <2>1, Pairs8Step DEF v2
<1>8. RByte(v1[Reg(z, b3, b1)], l, Four(b0, k1, k0, b2)) = RByte(v[Reg(z, b3, b2)], l, Four(b1, b0, k1, k0))
  <2>1. Bits7(z, b3, b1, b0, k1, k0, b2) /\ Reg(z, b3, b1) \in 1 .. N
    BY <1>b, <1>c DEF z
  <2>2. DOMAIN v = 1 .. N
    BY <1>0
  <2>3. RByte(Pairs8(v)[Reg(z, b3, b1)], l, Four(b0, k1, k0, b2)) = RByte(v[Reg(z, b3, b2)], l, Four(b1, b0, k1, k0))
    BY <1>0, <2>1, <2>2, Pairs8Step
  <2> QED BY <2>3 DEF v1
<1> QED BY <1>1, <1>5, <1>6, <1>7, <1>8 DEF z

(* Elements of two bytes.                                                   *)
LEMMA UnzipTwo ==
  ASSUME NEW v, DOMAIN v = 1 .. 2, NEW n \in Nat, Registers(v, n), NEW l \in 0 .. (n - 1),
         NEW z, z = 0, NEW k0, NEW b3, NEW b2, NEW b1, NEW b0, Bits7(z, z, k0, b3, b2, b1, b0)
  PROVE  RByte(Unzip(2, v)[Reg(z, z, k0)], l, Four(b3, b2, b1, b0))
           = RByte(v[Reg(z, z, b3)], l, Four(b2, b1, b0, k0))
<1> DEFINE N == 2
           v1 == Pairs8(v)
           v2 == Pairs8(v1)
           v3 == Pairs8(v2)
           v4 == Pairs8(v3)
<1>0. N \in {2, 4, 8} /\ N = 2
  OBVIOUS
<1>1. Unzip(2, v) = v4
  BY DEF Unzip
<1> HIDE DEF N, v1, v2, v3, v4
<1>2. Registers(v1, n) /\ DOMAIN v1 = 1 .. N
  BY <1>0, Pairs8Keep DEF v1
<1>3. Registers(v2, n) /\ DOMAIN v2 = 1 .. N
  BY <1>0, <1>2, Pairs8Keep DEF v2
<1>4. Registers(v3, n) /\ DOMAIN v3 = 1 .. N
  BY <1>0, <1>3, Pairs8Keep DEF v3
<1>b. /\ Bits7(z, z, b0, k0, b3, b2, b1) /\ Bits7(z, z, b1, b0, k0, b3, b2)
      /\ Bits7(z, z, b2, b1, b0, k0, b3)
  BY DEF Bits7
<1>c. /\ Reg(z, z, k0) \in 1 .. N /\ Reg(z, z, b0) \in 1 .. N /\ Reg(z, z, b1) \in 1 .. N
      /\ Reg(z, z, b2) \in 1 .. N
  BY <1>0 DEF Bits7, Two, Reg
<1>5. RByte(v4[Reg(z, z, k0)], l, Four(b3, b2, b1, b0)) = RByte(v3[Reg(z, z, b0)], l, Four(k0, b3, b2, b1))
  BY <1>0, <1>4, <1>c, Pairs8Step DEF v4
<1>6. RByte(v3[Reg(z, z, b0)], l, Four(k0, b3, b2, b1)) = RByte(v2[Reg(z, z, b1)], l, Four(b0, k0, b3, b2))
  BY <1>0, <1>3, <1>b, <1>c, Pairs8Step DEF v3
<1>7. RByte(v2[Reg(z, z, b1)], l, Four(b0, k0, b3, b2)) = RByte(v1[Reg(z, z, b2)], l, Four(b1, b0, k0, b3))
  BY <1>0, <1>2, <1>b, <1>c, Pairs8Step DEF v2
<1>8. RByte(v1[Reg(z, z, b2)], l, Four(b1, b0, k0, b3)) = RByte(v[Reg(z, z, b3)], l, Four(b2, b1, b0, k0))
  BY <1>0, <1>b, <1>c, Pairs8Step DEF v1
<1> QED BY <1>1, <1>5, <1>6, <1>7, <1>8

(* Eight rows: the column of a byte becomes the number of its register.     *)
LEMMA ColumnsBits ==
  ASSUME NEW v, DOMAIN v = 1 .. 8, NEW n \in Nat, Registers(v, n), NEW l \in 0 .. (n - 1),
         NEW k2, NEW k1, NEW k0, NEW b3, NEW b2, NEW b1, NEW b0, Bits7(k2, k1, k0, b3, b2, b1, b0)
  PROVE  RByte(Columns(v)[Reg(k2, k1, k0)], l, Four(b3, b2, b1, b0))
           = RByte(v[Reg(b2, b1, b0)], l, Four(k2, k1, k0, b3))
<1> DEFINE v1 == Layer(1, v, RowPairs)
           v2 == Layer(2, v1, RowFours)
           v3 == Layer(4, v2, RowEights)
<1>1. Columns(v) = v3
  BY DEF Columns, RowPairs, RowFours, RowEights
<1> HIDE DEF v1, v2, v3
<1>2. Registers(v1, n) /\ DOMAIN v1 = 1 .. 8
  BY RowPairsKeep DEF v1
<1>3. Registers(v2, n) /\ DOMAIN v2 = 1 .. 8
  BY <1>2, RowFoursKeep DEF v2
<1>b. Bits7(k2, k1, b2, k0, b3, b1, b0) /\ Bits7(k2, b2, b1, k1, k0, b3, b0)
  BY DEF Bits7
<1>5. RByte(v3[Reg(k2, k1, k0)], l, Four(b3, b2, b1, b0)) = RByte(v2[Reg(k2, k1, b2)], l, Four(k0, b3, b1, b0))
  BY <1>3, RowEightsStep DEF v3
<1>6. RByte(v2[Reg(k2, k1, b2)], l, Four(k0, b3, b1, b0)) = RByte(v1[Reg(k2, b2, b1)], l, Four(k1, k0, b3, b0))
  BY <1>2, <1>b, RowFoursStep DEF v2
<1>7. RByte(v1[Reg(k2, b2, b1)], l, Four(k1, k0, b3, b0)) = RByte(v[Reg(b2, b1, b0)], l, Four(k2, k1, k0, b3))
  BY <1>b, RowPairsStep DEF v1
<1> QED BY <1>1, <1>5, <1>6, <1>7

LEMMA ColumnsKeep ==
  ASSUME NEW v, DOMAIN v = 1 .. 8, NEW n, Registers(v, n)
  PROVE  Registers(Columns(v), n) /\ DOMAIN Columns(v) = 1 .. 8
<1> DEFINE v1 == Layer(1, v, RowPairs)
           v2 == Layer(2, v1, RowFours)
           v3 == Layer(4, v2, RowEights)
<1>1. Columns(v) = v3
  BY DEF Columns, RowPairs, RowFours, RowEights
<1> HIDE DEF v1, v2, v3
<1>2. Registers(v1, n) /\ DOMAIN v1 = 1 .. 8
  BY RowPairsKeep DEF v1
<1>3. Registers(v2, n) /\ DOMAIN v2 = 1 .. 8
  BY <1>2, RowFoursKeep DEF v2
<1>4. Registers(v3, n) /\ DOMAIN v3 = 1 .. 8
  BY <1>3, RowEightsKeep DEF v3
<1> QED BY <1>1, <1>4

-----------------------------------------------------------------------------
(* The same, by numbers.                                                    *)

LEMMA IsFour ==
  ASSUME NEW p \in 0 .. 15
  PROVE  \E b3, b2, b1, b0 \in Two : p = Four(b3, b2, b1, b0)
<1> DEFINE b3 == p \div 8
           b2 == (p \div 4) % 2
           b1 == (p \div 2) % 2
           b0 == p % 2
<1>1. b3 \in Two /\ b2 \in Two /\ b1 \in Two /\ b0 \in Two
  BY DEF Two
<1>2. p = Four(b3, b2, b1, b0)
  BY DEF Four
<1> HIDE DEF b3, b2, b1, b0
<1> QED BY <1>1, <1>2

LEMMA IsThree ==
  ASSUME NEW k \in Lane
  PROVE  \E k2, k1, k0 \in Two : k = 4 * k2 + 2 * k1 + k0
<1> DEFINE k2 == k \div 4
           k1 == (k \div 2) % 2
           k0 == k % 2
<1>1. k2 \in Two /\ k1 \in Two /\ k0 \in Two
  BY DEF Two, Lane
<1>2. k = 4 * k2 + 2 * k1 + k0
  BY DEF Lane
<1> HIDE DEF k2, k1, k0
<1> QED BY <1>1, <1>2

(* Register k + 1 gathers byte k of the elements, of eight bytes ...        *)
LEMMA UnzipByte8 ==
  ASSUME NEW v, DOMAIN v = 1 .. 8, NEW n \in Nat, Registers(v, n), NEW l \in 0 .. (n - 1),
         NEW k \in 0 .. 7, NEW p \in 0 .. 15
  PROVE  \E r \in 1 .. 8 : \E q \in 0 .. 15 :
           RByte(Unzip(8, v)[k + 1], l, p) = RByte(v[r], l, q) /\ 16 * (r - 1) + q = p * 8 + k
<1>1. PICK b3, b2, b1, b0 \in Two : p = Four(b3, b2, b1, b0)
  BY IsFour
<1>2. PICK k2, k1, k0 \in Two : k = 4 * k2 + 2 * k1 + k0
  BY IsThree DEF Lane
<1> DEFINE r == Reg(b3, b2, b1)
           q == Four(b0, k2, k1, k0)
<1>3. Bits7(k2, k1, k0, b3, b2, b1, b0)
  BY DEF Bits7
<1>4. RByte(Unzip(8, v)[Reg(k2, k1, k0)], l, p) = RByte(v[r], l, q)
  BY <1>1, <1>3, UnzipEight
<1>5. Reg(k2, k1, k0) = k + 1
  BY <1>2 DEF Reg, Two
<1>6. r \in 1 .. 8 /\ q \in 0 .. 15 /\ 16 * (r - 1) + q = p * 8 + k
  BY <1>1, <1>2 DEF Reg, Four, Two
<1> HIDE DEF r, q
<1> QED BY <1>4, <1>5, <1>6

(* ... of four ...                                                          *)
LEMMA UnzipByte4 ==
  ASSUME NEW v, DOMAIN v = 1 .. 4, NEW n \in Nat, Registers(v, n), NEW l \in 0 .. (n - 1),
         NEW k \in 0 .. 3, NEW p \in 0 .. 15
  PROVE  \E r \in 1 .. 4 : \E q \in 0 .. 15 :
           RByte(Unzip(4, v)[k + 1], l, p) = RByte(v[r], l, q) /\ 16 * (r - 1) + q = p * 4 + k
<1>1. PICK b3, b2, b1, b0 \in Two : p = Four(b3, b2, b1, b0)
  BY IsFour
<1>2. PICK k2, k1, k0 \in Two : k = 4 * k2 + 2 * k1 + k0
  BY IsThree DEF Lane
<1> DEFINE r == Reg(0, b3, b2)
           q == Four(b1, b0, k1, k0)
<1>3. Bits7(0, k1, k0, b3, b2, b1, b0)
  BY DEF Bits7, Two
<1>4. RByte(Unzip(4, v)[Reg(0, k1, k0)], l, p) = RByte(v[r], l, q)
  BY <1>1, <1>3, UnzipFour
<1>5. Reg(0, k1, k0) = k + 1
  BY <1>2 DEF Reg, Two
<1>6. r \in 1 .. 4 /\ q \in 0 .. 15 /\ 16 * (r - 1) + q = p * 4 + k
  BY <1>1, <1>2 DEF Reg, Four, Two
<1> HIDE DEF r, q
<1> QED BY <1>4, <1>5, <1>6

(* ... and of two.                                                          *)
LEMMA UnzipByte2 ==
  ASSUME NEW v, DOMAIN v = 1 .. 2, NEW n \in Nat, Registers(v, n), NEW l \in 0 .. (n - 1),
         NEW k \in 0 .. 1, NEW p \in 0 .. 15
  PROVE  \E r \in 1 .. 2 : \E q \in 0 .. 15 :
           RByte(Unzip(2, v)[k + 1], l, p) = RByte(v[r], l, q) /\ 16 * (r - 1) + q = p * 2 + k
<1>1. PICK b3, b2, b1, b0 \in Two : p = Four(b3, b2, b1, b0)
  BY IsFour
<1> DEFINE z == 0
<1>z. z = 0
  OBVIOUS
<1> HIDE DEF z
<1> DEFINE r == Reg(z, z, b3)
           q == Four(b2, b1, b0, k)
<1>3. Bits7(z, z, k, b3, b2, b1, b0)
  BY <1>z DEF Bits7, Two
<1>4. RByte(Unzip(2, v)[Reg(z, z, k)], l, p) = RByte(v[r], l, q)
  BY <1>1, <1>3, <1>z, UnzipTwo
<1>5. Reg(z, z, k) = k + 1
  BY <1>z DEF Reg, Two
<1>6. r \in 1 .. 2 /\ q \in 0 .. 15 /\ 16 * (r - 1) + q = p * 2 + k
  BY <1>1, <1>z DEF Reg, Four, Two
<1> HIDE DEF r, q
<1> QED BY <1>4, <1>5, <1>6

(* The byte the network brings to place p of register k + 1, out of e.      *)
Brought(e, v, l, k, p) ==
  \E r \in 1 .. e : \E q \in 0 .. 15 :
    RByte(Unzip(e, v)[k + 1], l, p) = RByte(v[r], l, q) /\ 16 * (r - 1) + q = p * e + k

LEMMA UnzipByte ==
  ASSUME NEW e \in {2, 4, 8}, NEW v, DOMAIN v = 1 .. e, NEW n \in Nat, Registers(v, n),
         NEW l \in 0 .. (n - 1), NEW k \in 0 .. (e - 1), NEW p \in 0 .. 15
  PROVE  Brought(e, v, l, k, p)
<1>1. CASE e = 2 BY <1>1, UnzipByte2 DEF Brought
<1>2. CASE e = 4 BY <1>2, UnzipByte4 DEF Brought
<1>3. CASE e = 8 BY <1>3, UnzipByte8 DEF Brought
<1> QED BY <1>1, <1>2, <1>3

(* Register k + 1 holds columns 2k and 2k + 1 of the eight rows.            *)
LEMMA ColumnsByte ==
  ASSUME NEW v, DOMAIN v = 1 .. 8, NEW n \in Nat, Registers(v, n), NEW l \in 0 .. (n - 1),
         NEW k \in 0 .. 7, NEW p \in 0 .. 15
  PROVE  RByte(Columns(v)[k + 1], l, p) = RByte(v[(p % 8) + 1], l, 2 * k + (p \div 8))
<1>1. PICK b3, b2, b1, b0 \in Two : p = Four(b3, b2, b1, b0)
  BY IsFour
<1>2. PICK k2, k1, k0 \in Two : k = 4 * k2 + 2 * k1 + k0
  BY IsThree DEF Lane
<1>3. Bits7(k2, k1, k0, b3, b2, b1, b0)
  BY DEF Bits7
<1>4. RByte(Columns(v)[Reg(k2, k1, k0)], l, p) = RByte(v[Reg(b2, b1, b0)], l, Four(k2, k1, k0, b3))
  BY <1>1, <1>3, ColumnsBits
<1>5. Reg(k2, k1, k0) = k + 1
  BY <1>2 DEF Reg, Two
<1>6. Reg(b2, b1, b0) = (p % 8) + 1 /\ Four(k2, k1, k0, b3) = 2 * k + (p \div 8)
  <2>1. p \div 8 = b3 /\ p % 8 = 4 * b2 + 2 * b1 + b0
    BY <1>1, FourBits
  <2> QED BY <1>2, <2>1 DEF Reg, Four, Two
<1> QED BY <1>4, <1>5, <1>6

(* The last two layers of the AVX2 worker join the columns of four groups.  *)
LEMMA GroupsByte ==
  ASSUME NEW v, DOMAIN v = 1 .. 4, NEW n \in Nat, Registers(v, n), NEW l \in 0 .. (n - 1),
         NEW k \in 0 .. 3, NEW p \in 0 .. 15
  PROVE  RByte(Layer(8, v, Groups)[k + 1], l, p)
           = RByte(v[1 + 2 * (k % 2) + (p \div 8)], l, 8 * (k \div 2) + (p % 8))
<1>1. PICK b3, b2, b1, b0 \in Two : p = Four(b3, b2, b1, b0)
  BY IsFour
<1>2. PICK k2, k1, k0 \in Two : k = 4 * k2 + 2 * k1 + k0
  BY IsThree DEF Lane
<1>3. Bits7(0, k1, k0, b3, b2, b1, b0)
  BY DEF Bits7, Two
<1>4. RByte(Layer(8, v, Groups)[Reg(0, k1, k0)], l, p) = RByte(v[Reg(0, k0, b3)], l, Four(k1, b2, b1, b0))
  BY <1>1, <1>3, GroupsStep
<1>5. Reg(0, k1, k0) = k + 1 /\ k % 2 = k0 /\ k \div 2 = k1
  BY <1>2 DEF Reg, Two
<1>6. Reg(0, k0, b3) = 1 + 2 * k0 + (p \div 8) /\ Four(k1, b2, b1, b0) = 8 * k1 + (p % 8)
  <2>1. p \div 8 = b3 /\ p % 8 = 4 * b2 + 2 * b1 + b0
    BY <1>1, FourBits
  <2> QED BY <1>2, <2>1 DEF Reg, Four, Two
<1> QED BY <1>4, <1>5, <1>6

-----------------------------------------------------------------------------
(* What a register loaded from memory holds.                                *)

(* Every place of a buffer holds a byte. *)
IsBytes(m, A) == \A a \in A : m[a] = [b \in 0 .. 7 |-> BitAt(m, a, b)]

(* Byte p of lane l of a load from address at is the one at address a. *)
InLoad(at, l, p, a) == at \in Nat /\ p \in 0 .. 15 /\ a = at + 16 * l + p

(* The bytes of a register are the bytes of the buffer.                     *)
LEMMA LoadByte ==
  ASSUME NEW m, NEW A, IsBytes(m, A), NEW n \in Nat, NEW l \in 0 .. (n - 1), NEW at, NEW p, NEW a,
         InLoad(at, l, p, a), a \in A, NEW w, w = 16 * n
  PROVE  RByte(Load(m, at, w), l, p) = m[a]
<1> DEFINE x == Load(m, at, w)
<1>0. at \in Nat /\ p \in 0 .. 15 /\ a = at + 16 * l + p
  BY DEF InLoad
<1>1. ASSUME NEW b \in 0 .. 7 PROVE x[8 * (16 * l + p) + b] = BitAt(m, a, b)
  <2> DEFINE i == 8 * (16 * l + p) + b
  <2>1. i \in 0 .. (8 * (16 * n) - 1) /\ i \div 8 = 16 * l + p /\ i % 8 = b
    BY <1>0
  <2> HIDE DEF i
  <2>2. x[i] = m[at + (i \div 8)][i % 8]
    BY <2>1 DEF Load
  <2>3. at + (i \div 8) = a
    BY <1>0, <2>1
  <2>4. x[i] = BitAt(m, a, b)
    BY <2>1, <2>2, <2>3 DEF BitAt
  <2> QED BY <2>4 DEF i
<1> HIDE DEF x
<1>2. RByte(x, l, p) = [b \in 0 .. 7 |-> BitAt(m, a, b)]
  BY <1>1 DEF RByte, ByteOf
<1> QED BY <1>2 DEF IsBytes, x

-----------------------------------------------------------------------------
(* bshuf_trans_byte_elem_SSE_16, _32 and _64.                               *)

ElemRegisters(m, e, ii) == [k \in 1 .. e |-> Load(m, e * ii + (k - 1) * 16, 16)]
ElemWord(m, e, ii, k) == Unzip(e, ElemRegisters(m, e, ii))[k]
ElemStores(m, sz, e, ii) == UNION {Store((k - 1) * sz + ii, ElemWord(m, e, ii, k), 16) : k \in 1 .. e}
WideElems(m, sz, e) ==
  UNION {LET v == Unzip(e, [k \in 1 .. e |-> Load(m, e * ii + (k - 1) * 16, 16)])
         IN  UNION {Store((k - 1) * sz + ii, v[k], 16) : k \in 1 .. e} :
            ii \in Strides(0, sz, 16)}

(* The worker is its wide loop and the scalar remainder.                    *)
LEMMA SSEIsWide ==
  ASSUME NEW m, NEW sz, NEW e
  PROVE  TransByteElemSSE(m, sz, e)
           = <<WideElems(m, sz, e)>> \o TransByteElemRemainder(m, sz, e, sz - (sz % 16))
BY Zenon DEF TransByteElemSSE, WideElems

LEMMA WideElemsBy ==
  ASSUME NEW m, NEW sz, NEW e, NEW s
  PROVE  s \in WideElems(m, sz, e) <=> \E ii \in Strides(0, sz, 16) : s \in ElemStores(m, sz, e, ii)
<1>1. ASSUME NEW ii
      PROVE  (LET v == Unzip(e, [k \in 1 .. e |-> Load(m, e * ii + (k - 1) * 16, 16)])
              IN  UNION {Store((k - 1) * sz + ii, v[k], 16) : k \in 1 .. e}) = ElemStores(m, sz, e, ii)
  BY Zenon DEF ElemStores, ElemWord, ElemRegisters
<1> QED BY <1>1 DEF WideElems

LEMMA OneLane ==
  ASSUME NEW x, NEW p \in 0 .. 15, NEW z, z = 0
  PROVE  RByte(x, z, p) = ByteOf(x, p)
<1>1. 16 * z + p = p
  OBVIOUS
<1> QED BY <1>1 DEF RByte

LEMMA LoadOne ==
  ASSUME NEW m, NEW A, IsBytes(m, A), NEW at \in Nat, NEW p \in 0 .. 15, at + p \in A
  PROVE  ByteOf(Load(m, at, 16), p) = m[at + p]
<1> DEFINE one == 1
           z == 0
           w == 16
           a == at + p
<1>1. one \in Nat /\ z \in 0 .. (one - 1) /\ w = 16 * one /\ InLoad(at, z, p, a) /\ a \in A /\ z = 0
  BY DEF InLoad
<1> HIDE DEF one, z, w, a
<1>2. RByte(Load(m, at, w), z, p) = m[a]
  BY <1>1, LoadByte
<1> QED BY <1>1, <1>2, OneLane DEF a, w

LEMMA LoadOneLanes ==
  ASSUME NEW m, NEW at
  PROVE  Lanes(Load(m, at, 16), 1)
BY DEF Lanes, Load

BroughtOne(e, v, k, p) ==
  \E r \in 1 .. e : \E q \in 0 .. 15 :
    ByteOf(Unzip(e, v)[k + 1], p) = ByteOf(v[r], q) /\ 16 * (r - 1) + q = p * e + k

(* The network on registers of one lane.                                    *)
LEMMA UnzipOne ==
  ASSUME NEW e \in {2, 4, 8}, NEW v, DOMAIN v = 1 .. e, Registers(v, 1),
         NEW k \in 0 .. (e - 1), NEW p \in 0 .. 15
  PROVE  BroughtOne(e, v, k, p)
<1> DEFINE one == 1
           z == 0
<1>1. one \in Nat /\ z \in 0 .. (one - 1) /\ z = 0 /\ Registers(v, one)
  OBVIOUS
<1> HIDE DEF one, z
<1>2. Brought(e, v, z, k, p)
  BY <1>1, UnzipByte
<1>3. PICK r \in 1 .. e : \E q \in 0 .. 15 :
        RByte(Unzip(e, v)[k + 1], z, p) = RByte(v[r], z, q) /\ 16 * (r - 1) + q = p * e + k
  BY <1>2 DEF Brought
<1>4. PICK q \in 0 .. 15 :
        RByte(Unzip(e, v)[k + 1], z, p) = RByte(v[r], z, q) /\ 16 * (r - 1) + q = p * e + k
  BY <1>3
<1>5. ByteOf(Unzip(e, v)[k + 1], p) = ByteOf(v[r], q)
  BY <1>1, <1>4, OneLane
<1> QED BY <1>4, <1>5 DEF BroughtOne

(* A buffer of sz elements of e bytes. *)
Buffer(m, sz, e) == IsBytes(m, 0 .. (sz * e - 1))

(* Byte j of element ii + t, inside a wide load of sz elements of e bytes.   *)
InWide(sz, e, ii, t, j) ==
  sz \in Nat /\ e \in {2, 4, 8} /\ ii \in Nat /\ t \in 0 .. 15 /\ ii + t < sz /\ j \in 0 .. (e - 1)

(* A byte of a stored register is the byte the transpose wants there.       *)
LEMMA ElemWordByte ==
  ASSUME NEW sz, NEW e, NEW m, Buffer(m, sz, e), NEW ii, NEW t, NEW j,
         InWide(sz, e, ii, t, j)
  PROVE  ByteOf(ElemWord(m, e, ii, j + 1), t) = m[Cell(ii + t, e, j)]
<1> DEFINE v == ElemRegisters(m, e, ii)
           A == 0 .. (sz * e - 1)
<1>t. sz \in Nat /\ e \in {2, 4, 8} /\ ii \in Nat /\ t \in 0 .. 15 /\ ii + t < sz /\ j \in 0 .. (e - 1)
  BY DEF InWide
<1>0. e \in Nat /\ ii + t \in 0 .. (sz - 1) /\ IsBytes(m, A)
  BY <1>t DEF Buffer
<1>1. Cell(ii + t, e, j) \in A /\ Cell(ii + t, e, j) = e * ii + (t * e + j)
  <2>1. Cell(ii + t, e, j) = e * ii + (t * e + j)
    BY <1>t DEF Cell
  <2> QED BY <1>t, <1>0, <2>1, Grid
<1>2. DOMAIN v = 1 .. e
  BY DEF ElemRegisters
<1>3. ASSUME NEW k \in 1 .. e PROVE v[k] = Load(m, e * ii + (k - 1) * 16, 16)
  BY DEF ElemRegisters
<1> HIDE DEF v, A
<1>4. Registers(v, 1)
  <2>1. ASSUME NEW k \in DOMAIN v PROVE Lanes(v[k], 1)
    BY <1>2, <1>3, LoadOneLanes
  <2> QED BY <2>1 DEF Registers
<1>5. PICK r \in 1 .. e : \E q \in 0 .. 15 :
        ByteOf(Unzip(e, v)[j + 1], t) = ByteOf(v[r], q) /\ 16 * (r - 1) + q = t * e + j
  <2>1. BroughtOne(e, v, j, t)
    BY <1>t, <1>2, <1>4, UnzipOne
  <2> QED BY <2>1 DEF BroughtOne
<1>6. PICK q \in 0 .. 15 :
        ByteOf(Unzip(e, v)[j + 1], t) = ByteOf(v[r], q) /\ 16 * (r - 1) + q = t * e + j
  BY <1>5
<1> DEFINE at == e * ii + (r - 1) * 16
           a == Cell(ii + t, e, j)
<1>7. at \in Nat
  <2>1. e * ii \in Nat /\ (r - 1) * 16 \in Nat
    BY <1>t, <1>0
  <2> DEFINE x == e * ii
  <2> HIDE DEF x
  <2> QED BY <2>1 DEF x
<1>8. a = at + q
  <2> DEFINE x == e * ii
             y == t * e + j
  <2>1. x \in Nat /\ y = 16 * (r - 1) + q /\ a = x + y
    BY <1>t, <1>0, <1>1, <1>6
  <2> HIDE DEF x, y
  <2>2. a = x + (r - 1) * 16 + q
    BY <1>0, <2>1
  <2> QED BY <2>2 DEF x
<1>9. v[r] = Load(m, at, 16)
  BY <1>0, <1>3
<1>10. at + q \in A
  BY <1>1, <1>8
<1> HIDE DEF at, a
<1>11. ByteOf(Load(m, at, 16), q) = m[at + q]
  BY <1>0, <1>7, <1>10, LoadOne
<1>13. ByteOf(Unzip(e, v)[j + 1], t) = m[a]
  BY <1>6, <1>8, <1>9, <1>11
<1> QED BY <1>13 DEF ElemWord, v, a

(* The wide loop covers what lies before the remainder.                     *)
LEMMA WideElemsCover ==
  ASSUME NEW sz \in Nat, NEW e \in {2, 4, 8}, NEW m, Buffer(m, sz, e)
  PROVE  Covers(WideElems(m, sz, e), ByteTrans(m, sz, e),
                Rect(sz, 0 .. (e - 1), 0 .. (sz - (sz % 16) - 1)))
<1> DEFINE F == ByteTrans(m, sz, e)
           J == 0 .. (e - 1)
           I == 0 .. (sz - (sz % 16) - 1)
           W == WideElems(m, sz, e)
           S == Strides(0, sz, 16)
           K == 1 .. e
           T == 0 .. 15
<1>0. e \in Nat
  OBVIOUS
<1>i. ASSUME NEW ii \in S, NEW t \in T PROVE ii \in Nat /\ ii + t \in I /\ ii + t \in 0 .. (sz - 1)
  <2> DEFINE z == 0
             n == 16
  <2>0. z \in Nat /\ n \in Nat /\ n > 0 /\ z <= sz /\ t \in 0 .. (n - 1) /\ sz - z = sz /\ ii \in Strides(z, sz, n)
    OBVIOUS
  <2>1. sz - (sz % n) - 1 \in Int /\ sz - (sz % n) - 1 <= sz - 1
    OBVIOUS
  <2> HIDE DEF z, n
  <2>2. ii \in Nat /\ ii + t \in z .. (sz - ((sz - z) % n) - 1)
    BY <2>0, StridesIn
  <2> QED BY <2>0, <2>1, <2>2 DEF z, n
<1>r. ASSUME NEW i \in I PROVE \E ii \in S : \E t \in T : i = ii + t
  <2> DEFINE z == 0
             n == 16
             lo == sz - z
  <2>0. /\ z \in Nat /\ n \in Nat /\ n > 0 /\ z <= sz /\ S = Strides(z, sz, n) /\ T = 0 .. (n - 1)
        /\ I = z .. (sz - ((sz - z) % n) - 1)
    OBVIOUS
  <2> HIDE DEF z, n, S, T, I
  <2>1. i \in z .. (sz - ((sz - z) % n) - 1)
    BY <2>0
  <2>2. \E ii \in Strides(z, sz, n) : \E t \in 0 .. (n - 1) : i = ii + t
    BY <2>0, <2>1, StridesReach
  <2> QED BY <2>0, <2>2
<1> HIDE DEF S, T, I
<1>s. ASSUME NEW ii \in S, NEW j \in J, NEW t \in T
      PROVE  /\ (j * sz) + ii + t = Cell(j, sz, ii + t)
             /\ ByteOf(ElemWord(m, e, ii, j + 1), t) = F[Cell(j, sz, ii + t)]
  <2>1. ii \in Nat /\ ii + t \in I /\ ii + t \in 0 .. (sz - 1) /\ ii + t < sz
    <3>1. ii \in Nat /\ ii + t \in I /\ ii + t \in 0 .. (sz - 1)
      BY <1>i
    <3> QED BY <3>1
  <2>2. ByteOf(ElemWord(m, e, ii, j + 1), t) = m[Cell(ii + t, e, j)]
    <3>1. t \in 0 .. 15
      BY DEF T
    <3>2. j \in 0 .. (e - 1) /\ ii \in Nat /\ ii + t < sz
      BY <2>1
    <3>3. InWide(sz, e, ii, t, j)
      BY <3>1, <3>2 DEF InWide
    <3> QED BY <3>3, ElemWordByte
  <2>3. F[Cell(j, sz, ii + t)] = m[Cell(ii + t, e, j)]
    <3> DEFINE i == ii + t
    <3>1. i \in 0 .. (sz - 1)
      BY <2>1
    <3> HIDE DEF i
    <3>2. ByteTrans(m, sz, e)[Cell(j, sz, i)] = m[Cell(i, e, j)]
      BY <1>0, <3>1, ByteTransAt
    <3> QED BY <3>2 DEF i
  <2>4. (j * sz) + ii + t = Cell(j, sz, ii + t)
    <3>1. j * sz \in Int
      OBVIOUS
    <3> DEFINE x == j * sz
    <3>3. x \in Int /\ t \in Int
      BY <3>1 DEF T
    <3> HIDE DEF x
    <3>2. x + ii + t = x + (ii + t)
      BY <2>1, <3>3
    <3> QED BY <3>2 DEF Cell, x
  <2> QED BY <2>2, <2>3, <2>4
<1>st. ASSUME NEW ii, NEW j
      PROVE  Store(((j + 1) - 1) * sz + ii, ElemWord(m, e, ii, j + 1), 16)
               = {<<((j + 1) - 1) * sz + ii + t, ByteOf(ElemWord(m, e, ii, j + 1), t)>> : t \in T}
  BY DEF Store, T
<1>k. /\ \A k \in K : \E j \in J : k = j + 1
      /\ \A j \in J : j + 1 \in K /\ (j + 1) - 1 = j
  <2>1. ASSUME NEW k \in K PROVE \E j \in J : k = j + 1
    <3>1. k - 1 \in J /\ k = (k - 1) + 1
      BY <1>0
    <3> QED BY <3>1
  <2> QED BY <1>0, <2>1
<1> HIDE DEF J, F
<1>1. ASSUME NEW s \in W
      PROVE  \E j \in J : \E i \in I : s = <<Cell(j, sz, i), F[Cell(j, sz, i)]>>
  <2>1. PICK ii \in S : s \in ElemStores(m, sz, e, ii)
    BY WideElemsBy DEF S
  <2>2. PICK k \in K : s \in Store((k - 1) * sz + ii, ElemWord(m, e, ii, k), 16)
    BY <2>1 DEF ElemStores
  <2>3. PICK j \in J : k = j + 1
    BY <1>k
  <2>4. PICK t \in T : s = <<((j + 1) - 1) * sz + ii + t, ByteOf(ElemWord(m, e, ii, j + 1), t)>>
    BY <1>st, <2>2, <2>3
  <2>5. s = <<Cell(j, sz, ii + t), F[Cell(j, sz, ii + t)]>>
    BY <1>k, <1>s, <2>4
  <2>6. ii + t \in I
    BY <1>i
  <2> QED BY <2>5, <2>6
<1>2. ASSUME NEW j \in J, NEW i \in I
      PROVE  <<Cell(j, sz, i), F[Cell(j, sz, i)]>> \in W
  <2>1. PICK ii \in S, t \in T : i = ii + t
    BY <1>r
  <2>2. <<((j + 1) - 1) * sz + ii + t, ByteOf(ElemWord(m, e, ii, j + 1), t)>>
           \in Store(((j + 1) - 1) * sz + ii, ElemWord(m, e, ii, j + 1), 16)
    BY <1>st
  <2>3. <<Cell(j, sz, i), F[Cell(j, sz, i)]>>
           \in Store(((j + 1) - 1) * sz + ii, ElemWord(m, e, ii, j + 1), 16)
    <3>1. (j + 1) - 1 = j
      BY <1>k
    <3>2. <<(j * sz) + ii + t, ByteOf(ElemWord(m, e, ii, j + 1), t)>> = <<Cell(j, sz, i), F[Cell(j, sz, i)]>>
      BY <1>s, <2>1
    <3> QED BY <2>2, <3>1, <3>2
  <2>4. j + 1 \in K
    BY <1>k
  <2>5. <<Cell(j, sz, i), F[Cell(j, sz, i)]>> \in ElemStores(m, sz, e, ii)
    BY <2>3, <2>4 DEF ElemStores
  <2> QED BY <2>5, WideElemsBy DEF S
<1> HIDE DEF W
<1>3. Covers(W, F, Rect(sz, J, I))
  BY <1>1, <1>2, RectCovers
<1> QED BY <1>3 DEF W, F, J, I

(* A wide loop, and the loops of a remainder it is followed by.             *)
LEMMA LoopThenNone == ASSUME NEW L PROVE <<L>> \o <<>> = <<L>>
OBVIOUS

LEMMA LoopThenTwo == ASSUME NEW L, NEW M, NEW N PROVE <<L>> \o <<M, N>> = <<L, M, N>>
<1> DEFINE w == <<L>> \o <<M, N>>
           S == {L, M, N}
<1>1. <<L>> \in Seq(S) /\ <<M, N>> \in Seq(S) /\ Len(<<L>>) = 1 /\ Len(<<M, N>>) = 2
  OBVIOUS
<1>2. Len(w) = 3 /\ w \in Seq(S)
  BY <1>1
<1>3. w[1] = L /\ w[2] = M /\ w[3] = N
  BY <1>1
<1> HIDE DEF w
<1>4. w = <<L, M, N>>
  BY <1>2, <1>3
<1> QED BY <1>4 DEF w

(* Where the loops of the remainder of the elements are.                    *)
LEMMA ElemPlaces ==
  ASSUME NEW sz \in Nat
  PROVE  LET lo == sz - (sz % 16)
             hi == sz - (sz % 8)
         IN  lo \in Nat /\ hi \in Nat /\ lo % 8 = 0 /\ lo <= hi /\ hi <= sz
OBVIOUS

(* bshuf_trans_byte_elem_SSE computes the byte transpose for every size.    *)
LEMMA SSEByteElem ==
  ASSUME NEW sz \in Nat, NEW e \in {2, 4, 8}, NEW m, Buffer(m, sz, e)
  PROVE  Works(TransByteElemSSE(m, sz, e), ByteTrans(m, sz, e), 0 .. (sz * e - 1))
<1> DEFINE F == ByteTrans(m, sz, e)
           J == 0 .. (e - 1)
           lo == sz - (sz % 16)
           hi == sz - (sz % 8)
           I1 == 0 .. (lo - 1)
           I2 == lo .. (hi - 1)
           I3 == hi .. (sz - 1)
           A1 == Rect(sz, J, I1)
           A2 == Rect(sz, J, I2)
           A3 == Rect(sz, J, I3)
           L == WideElems(m, sz, e)
           M == ElemEights(m, sz, e, lo)
           N == ElemLeft(m, sz, e)
           W == TransByteElemSSE(m, sz, e)
<1>0. e \in Nat
  OBVIOUS
<1>1. lo \in Nat /\ hi \in Nat /\ lo % 8 = 0 /\ lo <= hi /\ hi <= sz
  BY ElemPlaces
<1>2. Covers(L, F, A1)
  BY WideElemsCover
<1>3. W = <<L>> \o TransByteElemRemainder(m, sz, e, lo)
  BY SSEIsWide
<1>4. Covers(N, F, A3)
  BY <1>0, ElemLeftCovers
<1> HIDE DEF L, N, lo, W
<1>5. Covers(M, F, A2)
  BY <1>0, <1>1, ElemEightsCover
<1>6. Rect(sz, J, 0 .. (sz - 1)) = 0 .. (sz * e - 1)
  BY <1>0, RectAll
<1>7. J \subseteq Nat
  OBVIOUS
<1>8. CASE sz <= lo
  <2>1. W = <<L>>
    <3>1. TransByteElemRemainder(m, sz, e, lo) = <<>>
      BY <1>1, <1>8, RemainderIsLoops
    <3> QED BY <1>3, <3>1, LoopThenNone
  <2>2. I1 = 0 .. (sz - 1)
    <3> HIDE DEF hi
    <3> QED BY <1>1, <1>8
  <2> HIDE DEF F, J, I1
  <2>3. Works(W, F, Rect(sz, J, 0 .. (sz - 1)))
    BY <1>2, <2>1, <2>2, OneLoop
  <2> QED BY <1>6, <2>3 DEF F, J, W
<1>9. CASE ~ (sz <= lo)
  <2>1. W = <<L, M, N>>
    <3>1. TransByteElemRemainder(m, sz, e, lo) = <<M, N>>
      BY <1>1, <1>9, RemainderIsLoops DEF N
    <3> HIDE DEF M
    <3> QED BY <1>3, <3>1, LoopThenTwo
  <2> HIDE DEF F, J, M, hi
  <2>2. /\ I1 \subseteq 0 .. (sz - 1) /\ I2 \subseteq 0 .. (sz - 1) /\ I3 \subseteq 0 .. (sz - 1)
        /\ I1 \intersect I2 = {} /\ I1 \intersect I3 = {} /\ I2 \intersect I3 = {}
        /\ I1 \union (I2 \union I3) = 0 .. (sz - 1)
    BY <1>1
  <2> HIDE DEF I1, I2, I3
  <2>3. A1 \intersect A2 = {} /\ A1 \intersect A3 = {} /\ A2 \intersect A3 = {}
    BY <1>7, <2>2, RectColumnsApart
  <2>4. A1 \union (A2 \union A3) = Rect(sz, J, I1 \union (I2 \union I3))
    BY DEF Rect
  <2>5. A1 \union (A2 \union A3) = 0 .. (sz * e - 1)
    BY <1>6, <2>2, <2>4
  <2> HIDE DEF A1, A2, A3
  <2>6. Works(W, F, A1 \union (A2 \union A3))
    BY <1>2, <1>4, <1>5, <2>1, <2>3, ThreeLoops
  <2> QED BY <2>5, <2>6 DEF F, W
<1> QED BY <1>8, <1>9

-----------------------------------------------------------------------------
(* Blocks of rows and columns: a wide bitrow transpose moves the bytes of    *)
(* one block at a time.                                                     *)

Tiles(S, T, I) ==
  /\ \A ii \in S : \A t \in T : ii + t \in I
  /\ \A i \in I : \E ii \in S : \E t \in T : i = ii + t

Moved(m, nr, row, i, j) == <<Cell(j, nr, i), m[Cell(i, row, j)]>>

LEMMA StridesTiling ==
  ASSUME NEW a \in Nat, NEW b \in Nat, NEW n \in Nat, n > 0, a <= b
  PROVE  Tiles(Strides(a, b, n), 0 .. (n - 1), a .. (b - ((b - a) % n) - 1))
<1>1. \A ii \in Strides(a, b, n) : \A t \in 0 .. (n - 1) : ii + t \in a .. (b - ((b - a) % n) - 1)
  BY Striding
<1>2. \A x \in a .. (b - ((b - a) % n) - 1) : \E ii \in Strides(a, b, n) : \E t \in 0 .. (n - 1) : x = ii + t
  BY Striding
<1> QED BY <1>1, <1>2 DEF Tiles

(* A striding loop tiles what lies before its remainder.                    *)
LEMMA StridesTile ==
  ASSUME NEW b \in Nat, NEW n \in Nat, n > 0
  PROVE  Tiles(Strides(0, b, n), 0 .. (n - 1), 0 .. (b - (b % n) - 1))
<1> DEFINE z == 0
<1>1. z \in Nat /\ z <= b /\ b - z = b /\ z = 0
  OBVIOUS
<1> HIDE DEF z
<1>2. Tiles(Strides(z, b, n), 0 .. (n - 1), z .. (b - ((b - z) % n) - 1))
  BY <1>1, StridesTiling
<1> QED BY <1>1, <1>2

LEMMA StridesWhole ==
  ASSUME NEW b \in Nat, NEW n \in Nat, n > 0, b % n = 0
  PROVE  Tiles(Strides(0, b, n), 0 .. (n - 1), 0 .. (b - 1))
<1>1. b - (b % n) - 1 = b - 1
  OBVIOUS
<1> QED BY <1>1, StridesTile

(* A moved byte is a byte of the transpose.                                 *)
LEMMA MovedByte ==
  ASSUME NEW m, NEW nr \in Nat, NEW row \in Nat, NEW i \in 0 .. (nr - 1), NEW j \in 0 .. (row - 1)
  PROVE  Moved(m, nr, row, i, j) = <<Cell(j, nr, i), ByteTrans(m, nr, row)[Cell(j, nr, i)]>>
BY ByteTransAt DEF Moved

Blocks(W, m, nr, row, S, T, D, C) ==
  /\ \A s \in W : \E ii \in S : \E jj \in D : \E t \in T : \E c \in C :
       s = Moved(m, nr, row, ii + t, jj + c)
  /\ \A ii \in S : \A jj \in D : \A t \in T : \A c \in C :
       Moved(m, nr, row, ii + t, jj + c) \in W

(* Blocks that tile the rows and the columns cover them.                    *)
LEMMA BlockCovers ==
  ASSUME NEW m, NEW nr \in Nat, NEW row \in Nat, NEW S, NEW T, NEW D, NEW C, NEW I, NEW J, NEW W,
         I \subseteq 0 .. (nr - 1), J \subseteq 0 .. (row - 1), Tiles(S, T, I), Tiles(D, C, J),
         Blocks(W, m, nr, row, S, T, D, C)
  PROVE  Covers(W, ByteTrans(m, nr, row), Rect(nr, J, I))
<1> DEFINE F == ByteTrans(m, nr, row)
<1>0. ASSUME NEW i \in I, NEW j \in J
      PROVE  Moved(m, nr, row, i, j) = <<Cell(j, nr, i), F[Cell(j, nr, i)]>>
  BY MovedByte
<1> HIDE DEF F
<1>1. ASSUME NEW s \in W
      PROVE  \E j \in J : \E i \in I : s = <<Cell(j, nr, i), F[Cell(j, nr, i)]>>
  <2>1. PICK ii \in S, jj \in D, t \in T, c \in C : s = Moved(m, nr, row, ii + t, jj + c)
    BY DEF Blocks
  <2>2. ii + t \in I /\ jj + c \in J
    BY DEF Tiles
  <2> QED BY <1>0, <2>1, <2>2
<1>2. ASSUME NEW j \in J, NEW i \in I PROVE <<Cell(j, nr, i), F[Cell(j, nr, i)]>> \in W
  <2>1. PICK ii \in S, t \in T : i = ii + t
    BY DEF Tiles
  <2>2. PICK jj \in D, c \in C : j = jj + c
    BY DEF Tiles
  <2>3. Moved(m, nr, row, ii + t, jj + c) \in W
    BY DEF Blocks
  <2> QED BY <1>0, <2>1, <2>2, <2>3
<1>3. Covers(W, F, Rect(nr, J, I))
  BY <1>1, <1>2, RectCovers
<1> QED BY <1>3 DEF F

-----------------------------------------------------------------------------
(* bshuf_trans_byte_bitrow_SSE.                                             *)

RowRegisters(m, row, ii, jj) == [k \in 1 .. 8 |-> Load(m, (ii + k - 1) * row + jj, 16)]
LowWord(m, row, ii, jj, mm)  == Columns(RowRegisters(m, row, ii, jj))[mm + 1]
HighWord(m, row, ii, jj, mm) == [i \in 0 .. 63 |-> Columns(RowRegisters(m, row, ii, jj))[mm + 1][64 + i]]

RowStores(x, nr, row, ii, jj) ==
  UNION {Store((jj + 2 * m) * nr + ii, LowWord(x, row, ii, jj, m), 8)
           \union Store((jj + 2 * m + 1) * nr + ii, HighWord(x, row, ii, jj, m), 8) : m \in 0 .. 7}
WideRows(m, nr, row) ==
  UNION {RowStores(m, nr, row, ii, jj) : ii \in Strides(0, nr, 8), jj \in Strides(0, row, 16)}
RestOfRows(m, nr, row) ==
  {<<jj * nr + ii + k, m[(ii + k) * row + jj]>> :
     ii \in Strides(0, nr, 8), k \in 0 .. 7, jj \in (row - (row % 16)) .. (row - 1)}

(* The worker is its wide loop and the loop over what is left of a row.     *)
LEMMA BitrowSSEIs ==
  ASSUME NEW x, NEW sz, NEW e
  PROVE  TransByteBitrowSSE(x, sz, e)
           = <<WideRows(x, 8 * e, sz \div 8), RestOfRows(x, 8 * e, sz \div 8)>>
BY DEF TransByteBitrowSSE, WideRows, RowStores, LowWord, HighWord, RowRegisters, RestOfRows

(* Byte k of a column of eight rows of sixteen bytes. *)
InRows(nr, row, ii, jj, mm, k) ==
  /\ nr \in Nat /\ row \in Nat /\ ii \in Nat /\ jj \in Nat /\ mm \in 0 .. 7 /\ k \in 0 .. 7
  /\ ii + k < nr /\ jj + 15 < row

LEMMA ColumnsOne ==
  ASSUME NEW v, DOMAIN v = 1 .. 8, Registers(v, 1), NEW k \in 0 .. 7, NEW p \in 0 .. 15
  PROVE  ByteOf(Columns(v)[k + 1], p) = ByteOf(v[(p % 8) + 1], 2 * k + (p \div 8))
<1> DEFINE one == 1
           z == 0
           q == 2 * k + (p \div 8)
<1>1. one \in Nat /\ z \in 0 .. (one - 1) /\ z = 0 /\ Registers(v, one) /\ q \in 0 .. 15
  OBVIOUS
<1> HIDE DEF one, z
<1>2. RByte(Columns(v)[k + 1], z, p) = RByte(v[(p % 8) + 1], z, q)
  BY <1>1, ColumnsByte
<1> HIDE DEF q
<1> QED BY <1>1, <1>2, OneLane DEF q

(* A byte of the network's result, by its row and column.                   *)
LEMMA RowRegistersByte ==
  ASSUME NEW nr, NEW row, NEW m, Buffer(m, nr, row), NEW ii, NEW jj, NEW mm, NEW k,
         InRows(nr, row, ii, jj, mm, k), NEW h \in Two
  PROVE  ByteOf(Columns(RowRegisters(m, row, ii, jj))[mm + 1], 8 * h + k)
           = m[Cell(ii + k, row, jj + (2 * mm + h))]
<1> DEFINE v == RowRegisters(m, row, ii, jj)
           A == 0 .. (nr * row - 1)
           p == 8 * h + k
           q == 2 * mm + h
           at == (ii + k) * row + jj
<1>t. /\ nr \in Nat /\ row \in Nat /\ ii \in Nat /\ jj \in Nat /\ mm \in 0 .. 7 /\ k \in 0 .. 7
      /\ ii + k \in 0 .. (nr - 1) /\ jj + 15 < row
  BY DEF InRows
<1>1. p \in 0 .. 15 /\ p % 8 = k /\ p \div 8 = h /\ q \in 0 .. 15
  BY <1>t DEF Two
<1>2. DOMAIN v = 1 .. 8
  BY DEF RowRegisters
<1>3. v[k + 1] = Load(m, at, 16)
  <2>1. k + 1 \in 1 .. 8 /\ ii + (k + 1) - 1 = ii + k
    BY <1>t
  <2>2. v[k + 1] = Load(m, (ii + (k + 1) - 1) * row + jj, 16)
    BY <2>1 DEF RowRegisters
  <2> QED BY <2>1, <2>2
<1>4. Registers(v, 1)
  <2>1. ASSUME NEW j \in DOMAIN v PROVE Lanes(v[j], 1)
    <3>1. v[j] = Load(m, (ii + j - 1) * row + jj, 16)
      BY <1>2 DEF RowRegisters
    <3> QED BY <3>1, LoadOneLanes
  <2> HIDE DEF v
  <2> QED BY <2>1 DEF Registers
<1>5. at \in Nat /\ at + q = Cell(ii + k, row, jj + q)
  <2> DEFINE x == (ii + k) * row
  <2>1. x \in Nat
    BY <1>t
  <2> HIDE DEF x
  <2>2. x + jj \in Nat /\ (x + jj) + q = x + (jj + q)
    BY <1>t, <1>1, <2>1
  <2> QED BY <2>2 DEF x, Cell
<1>6. Cell(ii + k, row, jj + q) \in A
  <2>1. jj + q \in 0 .. (row - 1)
    <3> HIDE DEF q
    <3> QED BY <1>t, <1>1
  <2> DEFINE i == ii + k
             j == jj + q
  <2>2. i \in 0 .. (nr - 1) /\ j \in 0 .. (row - 1)
    BY <1>t, <2>1
  <2> HIDE DEF i, j
  <2>3. Cell(i, row, j) \in 0 .. (nr * row - 1)
    BY <1>t, <2>2, Grid
  <2> QED BY <2>3 DEF i, j
<1>7. IsBytes(m, A)
  BY DEF Buffer
<1> HIDE DEF v, A, p, q, at
<1>8. ByteOf(Columns(v)[mm + 1], p) = ByteOf(v[(p % 8) + 1], 2 * mm + (p \div 8))
  BY <1>t, <1>1, <1>2, <1>4, ColumnsOne
<1>9. ByteOf(Columns(v)[mm + 1], p) = ByteOf(Load(m, at, 16), q)
  BY <1>1, <1>3, <1>8 DEF q
<1>10. ByteOf(Load(m, at, 16), q) = m[at + q]
  BY <1>1, <1>5, <1>6, <1>7, LoadOne
<1>11. ByteOf(Columns(v)[mm + 1], p) = m[Cell(ii + k, row, jj + q)]
  BY <1>5, <1>9, <1>10
<1> QED BY <1>11 DEF v, p, q

(* The low halves hold the even columns ...                                 *)
LEMMA LowWordByte ==
  ASSUME NEW nr, NEW row, NEW m, Buffer(m, nr, row), NEW ii, NEW jj, NEW mm, NEW k,
         InRows(nr, row, ii, jj, mm, k)
  PROVE  ByteOf(LowWord(m, row, ii, jj, mm), k) = m[Cell(ii + k, row, jj + 2 * mm)]
<1> DEFINE h == 0
<1>1. h \in Two /\ 8 * h + k = k /\ 2 * mm + h = 2 * mm
  BY DEF Two, InRows
<1> HIDE DEF h
<1>2. ByteOf(Columns(RowRegisters(m, row, ii, jj))[mm + 1], 8 * h + k) = m[Cell(ii + k, row, jj + (2 * mm + h))]
  BY <1>1, RowRegistersByte
<1> QED BY <1>1, <1>2 DEF LowWord

(* ... and the high halves the odd ones.                                    *)
LEMMA HighWordByte ==
  ASSUME NEW nr, NEW row, NEW m, Buffer(m, nr, row), NEW ii, NEW jj, NEW mm, NEW k,
         InRows(nr, row, ii, jj, mm, k)
  PROVE  ByteOf(HighWord(m, row, ii, jj, mm), k) = m[Cell(ii + k, row, jj + (2 * mm + 1))]
<1> DEFINE h == 1
           x == Columns(RowRegisters(m, row, ii, jj))[mm + 1]
           y == HighWord(m, row, ii, jj, mm)
<1>1. h \in Two /\ h = 1 /\ k \in 0 .. 7
  BY DEF Two, InRows
<1>2. ASSUME NEW b \in 0 .. 7 PROVE y[8 * k + b] = x[8 * (8 + k) + b]
  <2>1. 8 * k + b \in 0 .. 63 /\ 64 + (8 * k + b) = 8 * (8 + k) + b
    BY <1>1
  <2> DEFINE i == 8 * k + b
  <2> HIDE DEF i, x
  <2>2. i \in 0 .. 63 => y[i] = x[64 + i]
    BY DEF HighWord, x
  <2> QED BY <2>1, <2>2 DEF i
<1> HIDE DEF h
<1>3. ByteOf(x, 8 * h + k) = m[Cell(ii + k, row, jj + (2 * mm + h))]
  BY <1>1, RowRegistersByte
<1> HIDE DEF x, y
<1>4. ByteOf(y, k) = ByteOf(x, 8 + k)
  BY <1>2 DEF ByteOf
<1>5. ByteOf(y, k) = m[Cell(ii + k, row, jj + (2 * mm + 1))]
  BY <1>1, <1>3, <1>4
<1> QED BY <1>5 DEF y

RowStore(m, nr, row, ii, jj, mm) ==
  Store((jj + 2 * mm) * nr + ii, LowWord(m, row, ii, jj, mm), 8)
    \union Store((jj + 2 * mm + 1) * nr + ii, HighWord(m, row, ii, jj, mm), 8)

(* The stores of the wide loop, one pair at a time.                         *)
LEMMA WideRowsBy ==
  ASSUME NEW x, NEW nr, NEW row, NEW s
  PROVE  s \in WideRows(x, nr, row)
           <=> \E ii \in Strides(0, nr, 8) : \E jj \in Strides(0, row, 16) : \E mm \in 0 .. 7 :
                 s \in RowStore(x, nr, row, ii, jj, mm)
<1>1. ASSUME NEW ii, NEW jj
      PROVE  s \in RowStores(x, nr, row, ii, jj) <=> \E mm \in 0 .. 7 : s \in RowStore(x, nr, row, ii, jj, mm)
  BY DEF RowStores, RowStore
<1> QED BY <1>1 DEF WideRows

Past(a, k) == a + k

LEMMA RowAt ==
  ASSUME NEW nr \in Nat, NEW ii \in Nat, NEW x \in Nat, NEW k \in Nat, NEW i, i = Past(ii, k)
  PROVE  Past(Cell(x, nr, ii), k) = Cell(x, nr, i)
<1> DEFINE y == x * nr
<1>1. y \in Nat
  OBVIOUS
<1> HIDE DEF y
<1>2. (y + ii) + k = y + (ii + k)
  BY <1>1
<1> QED BY <1>2 DEF y, Cell, Past

(* What one pair of stores moves. *)
LEMMA RowStoreIs ==
  ASSUME NEW nr, NEW row, NEW m, Buffer(m, nr, row), NEW ii, NEW jj, NEW mm,
         \A k \in 0 .. 7 : InRows(nr, row, ii, jj, mm, k)
  PROVE  RowStore(m, nr, row, ii, jj, mm)
           = {Moved(m, nr, row, ii + k, jj + 2 * mm) : k \in 0 .. 7}
               \union {Moved(m, nr, row, ii + k, jj + (2 * mm + 1)) : k \in 0 .. 7}
<1> DEFINE lo == LowWord(m, row, ii, jj, mm)
           hi == HighWord(m, row, ii, jj, mm)
           K == 0 .. 7
<1>1. ASSUME NEW k \in K
      PROVE  /\ <<(jj + 2 * mm) * nr + ii + k, ByteOf(lo, k)>> = Moved(m, nr, row, ii + k, jj + 2 * mm)
             /\ <<(jj + 2 * mm + 1) * nr + ii + k, ByteOf(hi, k)>> = Moved(m, nr, row, ii + k, jj + (2 * mm + 1))
  <2>0. InRows(nr, row, ii, jj, mm, k)
    OBVIOUS
  <2>1. nr \in Nat /\ ii \in Nat /\ jj \in Nat /\ mm \in Nat /\ k \in Nat
    BY <2>0 DEF InRows
  <2> HIDE DEF lo, hi, K
  <2>2. ByteOf(lo, k) = m[Cell(ii + k, row, jj + 2 * mm)]
    BY <2>0, LowWordByte DEF lo
  <2>3. ByteOf(hi, k) = m[Cell(ii + k, row, jj + (2 * mm + 1))]
    BY <2>0, HighWordByte DEF hi
  <2> DEFINE c == 2 * mm
             d == 2 * mm + 1
  <2>4. c \in Nat /\ d \in Nat /\ jj + 2 * mm + 1 = jj + d
    BY <2>1
  <2> HIDE DEF c, d
  <2>5. (jj + c) * nr + ii + k = Cell(jj + c, nr, ii + k) /\ (jj + d) * nr + ii + k = Cell(jj + d, nr, ii + k)
    <3> DEFINE x == jj + c
               y == jj + d
               i == Past(ii, k)
    <3>1. x \in Nat /\ y \in Nat
      BY <2>1, <2>4
    <3> HIDE DEF x, y, i
    <3>i. i = Past(ii, k)
      BY DEF i
    <3>2. Past(Cell(x, nr, ii), k) = Cell(x, nr, i)
      BY <2>1, <3>1, <3>i, RowAt
    <3>3. Past(Cell(y, nr, ii), k) = Cell(y, nr, i)
      BY <2>1, <3>1, <3>i, RowAt
    <3> QED BY <3>2, <3>3 DEF x, y, i, Cell, Past
  <2>6. <<(jj + c) * nr + ii + k, ByteOf(lo, k)>> = Moved(m, nr, row, ii + k, jj + c)
    BY <2>2, <2>5 DEF Moved, c
  <2>7. <<(jj + 2 * mm + 1) * nr + ii + k, ByteOf(hi, k)>> = Moved(m, nr, row, ii + k, jj + d)
    BY <2>3, <2>4, <2>5 DEF Moved, d
  <2> QED BY <2>6, <2>7 DEF c, d
<1>2. /\ Store((jj + 2 * mm) * nr + ii, lo, 8) = {<<(jj + 2 * mm) * nr + ii + k, ByteOf(lo, k)>> : k \in K}
      /\ Store((jj + 2 * mm + 1) * nr + ii, hi, 8) = {<<(jj + 2 * mm + 1) * nr + ii + k, ByteOf(hi, k)>> : k \in K}
  BY DEF Store
<1>r. RowStore(m, nr, row, ii, jj, mm)
        = Store((jj + 2 * mm) * nr + ii, lo, 8) \union Store((jj + 2 * mm + 1) * nr + ii, hi, 8)
  BY DEF RowStore
<1> HIDE DEF lo, hi, K
<1>3. /\ Store((jj + 2 * mm) * nr + ii, lo, 8) = {Moved(m, nr, row, ii + k, jj + 2 * mm) : k \in K}
      /\ Store((jj + 2 * mm + 1) * nr + ii, hi, 8) = {Moved(m, nr, row, ii + k, jj + (2 * mm + 1)) : k \in K}
  BY <1>1, <1>2
<1> QED BY <1>r, <1>3 DEF K

(* The wide loop covers the first columns of every row ...                  *)
LEMMA WideRowsCovers ==
  ASSUME NEW m, NEW nr \in Nat, NEW row \in Nat, nr % 8 = 0, Buffer(m, nr, row)
  PROVE  Covers(WideRows(m, nr, row), ByteTrans(m, nr, row),
                Rect(nr, 0 .. (row - (row % 16) - 1), 0 .. (nr - 1)))
<1> DEFINE S == Strides(0, nr, 8)
           T == 0 .. 7
           D == Strides(0, row, 16)
           C == 0 .. 15
           M == 0 .. 7
           I == 0 .. (nr - 1)
           J == 0 .. (row - (row % 16) - 1)
           W == WideRows(m, nr, row)
<1>1. Tiles(S, T, I)
  <2> DEFINE n == 8
  <2>1. n \in Nat /\ n > 0 /\ nr % n = 0 /\ n - 1 = 7
    OBVIOUS
  <2> HIDE DEF n
  <2>2. Tiles(Strides(0, nr, n), 0 .. (n - 1), 0 .. (nr - 1))
    BY <2>1, StridesWhole
  <2> QED BY <2>1, <2>2 DEF n
<1>2. Tiles(D, C, J)
  <2> DEFINE n == 16
  <2>1. n \in Nat /\ n > 0 /\ n - 1 = 15
    OBVIOUS
  <2> HIDE DEF n
  <2>2. Tiles(Strides(0, row, n), 0 .. (n - 1), 0 .. (row - (row % n) - 1))
    BY <2>1, StridesTile
  <2> QED BY <2>1, <2>2 DEF n
<1>3. I \subseteq 0 .. (nr - 1) /\ J \subseteq 0 .. (row - 1)
  OBVIOUS
<1>4. /\ \A ii \in S : ii \in Nat
      /\ \A jj \in D : jj \in Nat
  BY DEF Strides
<1>c. /\ \A mm \in M : 2 * mm \in C /\ 2 * mm + 1 \in C
      /\ \A c \in C : \E mm \in M : c = 2 * mm \/ c = 2 * mm + 1
  <2>1. ASSUME NEW c \in C PROVE \E mm \in M : c = 2 * mm \/ c = 2 * mm + 1
    <3>1. c \div 2 \in M /\ (c = 2 * (c \div 2) \/ c = 2 * (c \div 2) + 1)
      OBVIOUS
    <3> QED BY <3>1
  <2> QED BY <2>1
<1>w. \A s : s \in W <=> \E ii \in S : \E jj \in D : \E mm \in M : s \in RowStore(m, nr, row, ii, jj, mm)
  BY WideRowsBy
<1>5. ASSUME NEW ii \in S, NEW jj \in D, NEW mm \in M, NEW k \in T PROVE InRows(nr, row, ii, jj, mm, k)
  <2>1. ii \in Nat /\ jj \in Nat
    BY <1>4
  <2>2. ii + k \in 0 .. (nr - 1)
    BY <1>1 DEF Tiles
  <2>3. jj + 15 \in J
    <3>1. 15 \in C
      OBVIOUS
    <3> QED BY <1>2, <3>1 DEF Tiles
  <2>4. jj + 15 \in 0 .. (row - 1)
    BY <1>3, <2>3
  <2> QED BY <2>1, <2>2, <2>4 DEF InRows
<1>6. ASSUME NEW ii \in S, NEW jj \in D, NEW mm \in M
      PROVE  RowStore(m, nr, row, ii, jj, mm)
               = {Moved(m, nr, row, ii + k, jj + 2 * mm) : k \in T}
                   \union {Moved(m, nr, row, ii + k, jj + (2 * mm + 1)) : k \in T}
  <2>1. \A k \in 0 .. 7 : InRows(nr, row, ii, jj, mm, k)
    BY <1>5
  <2> HIDE DEF S, D, M, W, I, J, C
  <2> QED BY <2>1, RowStoreIs
<1> HIDE DEF S, T, D, C, M, I, J, W
<1>7. ASSUME NEW s \in W
      PROVE  \E ii \in S : \E jj \in D : \E t \in T : \E c \in C : s = Moved(m, nr, row, ii + t, jj + c)
  <2>1. PICK ii \in S, jj \in D, mm \in M : s \in RowStore(m, nr, row, ii, jj, mm)
    BY <1>w
  <2>2. PICK k \in T : s = Moved(m, nr, row, ii + k, jj + 2 * mm) \/ s = Moved(m, nr, row, ii + k, jj + (2 * mm + 1))
    BY <1>6, <2>1
  <2> QED BY <1>c, <2>2
<1>8. ASSUME NEW ii \in S, NEW jj \in D, NEW t \in T, NEW c \in C
      PROVE  Moved(m, nr, row, ii + t, jj + c) \in W
  <2>1. PICK mm \in M : c = 2 * mm \/ c = 2 * mm + 1
    BY <1>c
  <2>2. Moved(m, nr, row, ii + t, jj + c) \in RowStore(m, nr, row, ii, jj, mm)
    BY <1>6, <2>1
  <2> QED BY <1>w, <2>2
<1>9. Covers(W, ByteTrans(m, nr, row), Rect(nr, J, I))
  <2>1. Blocks(W, m, nr, row, S, T, D, C)
    BY <1>7, <1>8 DEF Blocks
  <2> QED BY <1>1, <1>2, <1>3, <2>1, BlockCovers
<1> QED BY <1>9 DEF W, I, J

(* ... and the scalar loop the others.                                      *)
LEMMA RestOfRowsCovers ==
  ASSUME NEW m, NEW nr \in Nat, NEW row \in Nat, nr % 8 = 0
  PROVE  Covers(RestOfRows(m, nr, row), ByteTrans(m, nr, row),
                Rect(nr, (row - (row % 16)) .. (row - 1), 0 .. (nr - 1)))
<1> DEFINE S == Strides(0, nr, 8)
           T == 0 .. 7
           C == {0}
           I == 0 .. (nr - 1)
           J == (row - (row % 16)) .. (row - 1)
           W == RestOfRows(m, nr, row)
<1>1. Tiles(S, T, I)
  <2> DEFINE n == 8
  <2>1. n \in Nat /\ n > 0 /\ nr % n = 0 /\ n - 1 = 7
    OBVIOUS
  <2> HIDE DEF n
  <2>2. Tiles(Strides(0, nr, n), 0 .. (n - 1), 0 .. (nr - 1))
    BY <2>1, StridesWhole
  <2> QED BY <2>1, <2>2 DEF n
<1>2. Tiles(J, C, J)
  BY DEF Tiles
<1>3. I \subseteq 0 .. (nr - 1) /\ J \subseteq 0 .. (row - 1)
  OBVIOUS
<1>4. /\ \A ii \in S : ii \in Nat
      /\ \A jj \in J : jj \in Nat
      /\ \A k \in T : k \in Nat
      /\ \A c \in C : c = 0
      /\ 0 \in C
  BY DEF Strides
<1>5. ASSUME NEW ii \in S, NEW k \in T, NEW jj \in J, NEW c \in C
      PROVE  <<jj * nr + ii + k, m[(ii + k) * row + jj]>> = Moved(m, nr, row, ii + k, jj + c)
  <2>1. ii \in Nat /\ k \in Nat /\ jj \in Nat /\ c = 0 /\ jj + c = jj /\ c \in Nat
    BY <1>4
  <2> HIDE DEF S, T, J, C, I, W
  <2>2. jj * nr + ii + k = Cell(jj, nr, ii + k)
    <3> DEFINE i == Past(ii, k)
    <3>i. i = Past(ii, k)
      OBVIOUS
    <3> HIDE DEF i
    <3>1. Past(Cell(jj, nr, ii), k) = Cell(jj, nr, i)
      BY <2>1, <3>i, RowAt
    <3> QED BY <3>1 DEF Cell, Past, i
  <2> QED BY <2>1, <2>2 DEF Moved, Cell
<1>w. W = {<<jj * nr + ii + k, m[(ii + k) * row + jj]>> : ii \in S, k \in T, jj \in J}
  BY DEF RestOfRows
<1> HIDE DEF S, T, C, I, J, W
<1>7. ASSUME NEW s \in W
      PROVE  \E ii \in S : \E jj \in J : \E t \in T : \E c \in C : s = Moved(m, nr, row, ii + t, jj + c)
  <2>1. PICK ii \in S, k \in T, jj \in J : s = <<jj * nr + ii + k, m[(ii + k) * row + jj]>>
    BY <1>w
  <2>2. s = Moved(m, nr, row, ii + k, jj + 0)
    BY <1>4, <1>5, <2>1
  <2> QED BY <1>4, <2>2
<1>8. ASSUME NEW ii \in S, NEW jj \in J, NEW t \in T, NEW c \in C
      PROVE  Moved(m, nr, row, ii + t, jj + c) \in W
  <2>1. <<jj * nr + ii + t, m[(ii + t) * row + jj]>> \in W
    BY <1>w
  <2> QED BY <1>5, <2>1
<1>9. Covers(W, ByteTrans(m, nr, row), Rect(nr, J, I))
  <2>1. Blocks(W, m, nr, row, S, T, J, C)
    BY <1>7, <1>8 DEF Blocks
  <2> QED BY <1>1, <1>2, <1>3, <2>1, BlockCovers
<1> QED BY <1>9 DEF W, I, J

(* bshuf_trans_byte_bitrow_SSE computes the byte transpose for every size.  *)
LEMMA SSEBitrow ==
  ASSUME NEW m, NEW sz, NEW row \in Nat, NEW e \in Nat, sz = 8 * row, Buffer(m, 8 * e, row)
  PROVE  Works(TransByteBitrowSSE(m, sz, e), ByteTrans(m, 8 * e, row), 0 .. ((8 * e) * row - 1))
<1> DEFINE nr == 8 * e
           F == ByteTrans(m, nr, row)
           lo == row - (row % 16)
           J == 0 .. (lo - 1)
           K == lo .. (row - 1)
           I == 0 .. (nr - 1)
           W == WideRows(m, nr, row)
           V == RestOfRows(m, nr, row)
<1>0. nr \in Nat /\ nr % 8 = 0 /\ lo \in Nat /\ lo <= row
  OBVIOUS
<1>e. TransByteBitrowSSE(m, sz, e) = <<W, V>>
  <2>1. sz \div 8 = row
    OBVIOUS
  <2> QED BY <2>1, BitrowSSEIs
<1>b. Buffer(m, nr, row)
  OBVIOUS
<1>u. J \union K = 0 .. (row - 1) /\ J \intersect K = {} /\ J \subseteq Nat /\ K \subseteq Nat
  BY <1>0
<1> HIDE DEF nr
<1>1. Covers(W, F, Rect(nr, J, I))
  BY <1>0, <1>b, WideRowsCovers
<1>2. Covers(V, F, Rect(nr, K, I))
  BY <1>0, RestOfRowsCovers
<1> HIDE DEF F, J, K, W, V
<1>3. Works(<<W, V>>, F, Rect(nr, 0 .. (row - 1), I))
  BY <1>0, <1>1, <1>2, <1>u, RectJoinRows
<1>4. Rect(nr, 0 .. (row - 1), I) = 0 .. (nr * row - 1)
  BY <1>0, RectAll
<1> QED BY <1>3, <1>4, <1>e DEF nr, F

-----------------------------------------------------------------------------
(* bshuf_trans_byte_bitrow_AVX.                                             *)

GroupsOf(x, row, ii, jj) ==
  [hh \in 1 .. 4 |-> Columns([k \in 1 .. 8 |-> Load(x, (ii * 8 + (hh - 1) * 8 + k - 1) * row + jj, 32)])]
Quad(x, row, ii, jj, mm) ==
  Layer(8, [hh \in 1 .. 4 |-> GroupsOf(x, row, ii, jj)[hh][mm + 1]],
        <<<<0, 1, 2>>, <<0, 3, 4>>, <<1, 1, 2>>, <<1, 3, 4>>>>)
QuadStore(x, nr, row, ii, jj, mm) ==
  Store((jj + mm * 2 + 0) * nr + ii * 8, Permute2x128(Quad(x, row, ii, jj, mm)[1], Quad(x, row, ii, jj, mm)[2], 0), 32)
    \union Store((jj + mm * 2 + 1) * nr + ii * 8, Permute2x128(Quad(x, row, ii, jj, mm)[3], Quad(x, row, ii, jj, mm)[4], 0), 32)
    \union Store((jj + mm * 2 + 16) * nr + ii * 8, Permute2x128(Quad(x, row, ii, jj, mm)[1], Quad(x, row, ii, jj, mm)[2], 1), 32)
    \union Store((jj + mm * 2 + 17) * nr + ii * 8, Permute2x128(Quad(x, row, ii, jj, mm)[3], Quad(x, row, ii, jj, mm)[4], 1), 32)
QuadStores(x, nr, row, ii, jj) == UNION {QuadStore(x, nr, row, ii, jj, mm) : mm \in 0 .. 7}
WideQuads(x, nr, row, e) ==
  UNION {QuadStores(x, nr, row, ii, jj) :
           ii \in Strides(0, e, 4), jj \in Strides(0, row, 32)}
RestOfQuads(x, nr, row) ==
  {<<jj * nr + ii, x[ii * row + jj]>> : ii \in 0 .. (nr - 1), jj \in (row - (row % 32)) .. (row - 1)}

(* The AVX2 worker falls back to the SSE one unless four divides the element size. *)
LEMMA BitrowAVXIs ==
  ASSUME NEW x, NEW sz, NEW e
  PROVE  TransByteBitrowAVX(x, sz, e)
           = IF e % 4 # 0 THEN TransByteBitrowSSE(x, sz, e)
             ELSE <<WideQuads(x, 8 * e, sz \div 8, e), RestOfQuads(x, 8 * e, sz \div 8)>>
BY DEF TransByteBitrowAVX, WideQuads, QuadStores, QuadStore, Quad, GroupsOf, RestOfQuads

(* The stores of its wide loop, one quad at a time.                         *)
LEMMA WideQuadsBy ==
  ASSUME NEW x, NEW nr, NEW row, NEW e, NEW s
  PROVE  s \in WideQuads(x, nr, row, e)
           <=> \E ii \in Strides(0, e, 4) : \E jj \in Strides(0, row, 32) : \E mm \in 0 .. 7 :
                 s \in QuadStore(x, nr, row, ii, jj, mm)
<1>1. ASSUME NEW ii, NEW jj
      PROVE  s \in QuadStores(x, nr, row, ii, jj) <=> \E mm \in 0 .. 7 : s \in QuadStore(x, nr, row, ii, jj, mm)
  BY DEF QuadStores
<1> QED BY <1>1 DEF WideQuads

(* A permute takes one lane of each operand.                                *)
LEMMA PermuteByte ==
  ASSUME NEW p, NEW q, NEW h \in Two, NEW t \in 0 .. 31
  PROVE  ByteOf(Permute2x128(p, q, h), t) = RByte(IF t < 16 THEN p ELSE q, h, t % 16)
<1> DEFINE x == Permute2x128(p, q, h)
           y == IF t < 16 THEN p ELSE q
<1>1. ASSUME NEW b \in 0 .. 7 PROVE x[8 * t + b] = y[8 * (16 * h + (t % 16)) + b]
  <2> DEFINE i == 8 * t + b
  <2>1. i \in 0 .. 255 /\ (i < 128 <=> t < 16)
    OBVIOUS
  <2>2. x[i] = IF i < 128 THEN p[i + (128 * h)] ELSE q[i - 128 + (128 * h)]
    <3> HIDE DEF i
    <3> QED BY <2>1 DEF Permute2x128
  <2>3. h \in Nat
    BY DEF Two
  <2>4. CASE t < 16
    <3>1. i + (128 * h) = 8 * (16 * h + (t % 16)) + b
      <4>1. t % 16 = t
        BY <2>4
      <4> QED BY <2>3, <4>1
    <3> QED BY <2>1, <2>2, <2>4, <3>1
  <2>5. CASE ~ (t < 16)
    <3>1. i - 128 + (128 * h) = 8 * (16 * h + (t % 16)) + b
      <4>1. t % 16 = t - 16
        BY <2>5
      <4> QED BY <2>3, <4>1
    <3> QED BY <2>1, <2>2, <2>5, <3>1
  <2> QED BY <2>4, <2>5
<1> HIDE DEF x, y
<1>2. ByteOf(x, t) = ByteOf(y, 16 * h + (t % 16))
  BY <1>1 DEF ByteOf
<1> QED BY <1>2 DEF x, y, RByte

GroupRegisters(m, row, ii, jj, hh) ==
  [k \in 1 .. 8 |-> Load(m, (ii * 8 + (hh - 1) * 8 + k - 1) * row + jj, 32)]

(* Row i and column j of the buffer, when a group is at ii and jj. *)
InGroup(nr, row, ii, jj, hh, mm, l, q, i, j) ==
  /\ nr \in Nat /\ row \in Nat /\ ii \in Nat /\ jj \in Nat /\ hh \in 1 .. 4 /\ mm \in 0 .. 7
  /\ l \in 0 .. 1 /\ q \in 0 .. 15
  /\ i = 8 * ii + 8 * (hh - 1) + (q % 8) /\ j = jj + 16 * l + (2 * mm + (q \div 8))
  /\ i < nr /\ j < row

(* Lane l of a register of n lanes, w bytes.                                *)
OneOf(l, n, w) == n \in Nat /\ l \in 0 .. (n - 1) /\ w = 16 * n

LEMMA LoadOneOf ==
  ASSUME NEW m, NEW A, IsBytes(m, A), NEW n, NEW l, NEW w, OneOf(l, n, w), NEW at, NEW p, NEW a,
         InLoad(at, l, p, a), a \in A
  PROVE  RByte(Load(m, at, w), l, p) = m[a]
<1>1. n \in Nat /\ l \in 0 .. (n - 1) /\ w = 16 * n
  BY DEF OneOf
<1> QED BY <1>1, LoadByte

LEMMA LoadTwo ==
  ASSUME NEW m, NEW A, IsBytes(m, A), NEW l \in Two, NEW at, NEW p, NEW a,
         InLoad(at, l, p, a), a \in A
  PROVE  RByte(Load(m, at, 32), l, p) = m[a]
<1> DEFINE w == 32
           two == 2
<1>2. OneOf(l, two, w)
  BY DEF Two, OneOf
<1> HIDE DEF w, two
<1>3. RByte(Load(m, at, w), l, p) = m[a]
  BY <1>2, LoadOneOf
<1> QED BY <1>3 DEF w

LEMMA LoadTwoLanes ==
  ASSUME NEW m, NEW at
  PROVE  Lanes(Load(m, at, 32), 2)
BY DEF Lanes, Load

LEMMA GroupRegistersKeep ==
  ASSUME NEW m, NEW row, NEW ii, NEW jj, NEW hh
  PROVE  /\ DOMAIN GroupRegisters(m, row, ii, jj, hh) = 1 .. 8
         /\ Registers(GroupRegisters(m, row, ii, jj, hh), 2)
<1> DEFINE v == GroupRegisters(m, row, ii, jj, hh)
<1>2. DOMAIN v = 1 .. 8
  BY DEF GroupRegisters
<1>1. ASSUME NEW j \in DOMAIN v PROVE Lanes(v[j], 2)
  <2>1. v[j] = Load(m, (ii * 8 + (hh - 1) * 8 + j - 1) * row + jj, 32)
    BY <1>2 DEF GroupRegisters
  <2> QED BY <2>1, LoadTwoLanes
<1> HIDE DEF v
<1>3. Registers(v, 2)
  BY <1>1 DEF Registers
<1> QED BY <1>2, <1>3 DEF v

LEMMA ColumnsTwo ==
  ASSUME NEW v, DOMAIN v = 1 .. 8, Registers(v, 2), NEW l \in 0 .. 1, NEW k \in 0 .. 7, NEW p \in 0 .. 15
  PROVE  RByte(Columns(v)[k + 1], l, p) = RByte(v[(p % 8) + 1], l, 2 * k + (p \div 8))
<1> DEFINE two == 2
<1>1. two \in Nat /\ l \in 0 .. (two - 1) /\ Registers(v, two)
  OBVIOUS
<1> HIDE DEF two
<1> QED BY <1>1, ColumnsByte

(* A byte of a group's network, by its row and column.                      *)
LEMMA GroupWordByte ==
  ASSUME NEW nr, NEW row, NEW m, Buffer(m, nr, row), NEW ii, NEW jj, NEW hh, NEW mm, NEW l, NEW q,
         NEW i, NEW j, InGroup(nr, row, ii, jj, hh, mm, l, q, i, j)
  PROVE  RByte(Columns(GroupRegisters(m, row, ii, jj, hh))[mm + 1], l, q) = m[Cell(i, row, j)]
<1> DEFINE v == GroupRegisters(m, row, ii, jj, hh)
           A == 0 .. (nr * row - 1)
           p == 2 * mm + (q \div 8)
           at == i * row + jj
           a == Cell(i, row, j)
           r == (q % 8) + 1
<1>t. /\ nr \in Nat /\ row \in Nat /\ ii \in Nat /\ jj \in Nat /\ hh \in 1 .. 4 /\ mm \in 0 .. 7
      /\ l \in 0 .. 1 /\ q \in 0 .. 15
      /\ i = 8 * ii + 8 * (hh - 1) + (q % 8) /\ j = jj + 16 * l + (2 * mm + (q \div 8))
      /\ i < nr /\ j < row
  BY DEF InGroup
<1>1. p \in 0 .. 15 /\ r \in 1 .. 8 /\ i \in 0 .. (nr - 1) /\ j \in 0 .. (row - 1) /\ j = jj + 16 * l + p
  BY <1>t
<1>2. ii * 8 + (hh - 1) * 8 + r - 1 = i
  BY <1>t
<1>3. v[r] = Load(m, at, 32)
  <2>1. v[r] = Load(m, (ii * 8 + (hh - 1) * 8 + r - 1) * row + jj, 32)
    <3> HIDE DEF r
    <3> QED BY <1>1 DEF GroupRegisters
  <2> QED BY <1>2, <2>1
<1>4. at \in Nat /\ a = at + 16 * l + p
  <2> DEFINE x == i * row
  <2>1. x \in Nat
    BY <1>t, <1>1
  <2> HIDE DEF x, p
  <2>2. x + jj \in Nat /\ x + j = (x + jj) + 16 * l + p
    BY <1>t, <1>1, <2>1
  <2> QED BY <2>2 DEF x, Cell
<1>5. a \in A
  BY <1>t, <1>1, Grid
<1>6. IsBytes(m, A)
  BY DEF Buffer
<1>7. RByte(Columns(v)[mm + 1], l, q) = RByte(v[r], l, p)
  BY <1>t, GroupRegistersKeep, ColumnsTwo
<1> HIDE DEF v, A, p, at, a, r
<1>8. RByte(Load(m, at, 32), l, p) = m[a]
  <2>1. l \in Two /\ InLoad(at, l, p, a)
    BY <1>t, <1>1, <1>4 DEF Two, InLoad
  <2> QED BY <2>1, <1>1, <1>4, <1>5, <1>6, LoadTwo
<1> QED BY <1>3, <1>7, <1>8 DEF v, a

(* Row i and column j of the buffer, in byte p of lane l of register k + 1. *)
InQuad(nr, row, ii, jj, mm, k, l, p, i, j) ==
  /\ nr \in Nat /\ row \in Nat /\ ii \in Nat /\ jj \in Nat /\ mm \in 0 .. 7 /\ k \in 0 .. 3
  /\ l \in 0 .. 1 /\ p \in 0 .. 15
  /\ i = 8 * ii + 16 * (k % 2) + p /\ j = jj + 16 * l + (2 * mm + (k \div 2))
  /\ i < nr /\ j < row

LEMMA GroupsTwo ==
  ASSUME NEW v, DOMAIN v = 1 .. 4, Registers(v, 2), NEW l \in 0 .. 1, NEW k \in 0 .. 3, NEW p \in 0 .. 15
  PROVE  RByte(Layer(8, v, Groups)[k + 1], l, p)
           = RByte(v[1 + 2 * (k % 2) + (p \div 8)], l, 8 * (k \div 2) + (p % 8))
<1> DEFINE two == 2
<1>1. two \in Nat /\ l \in 0 .. (two - 1) /\ Registers(v, two)
  OBVIOUS
<1> HIDE DEF two
<1> QED BY <1>1, GroupsByte

(* A byte of the joined groups, by its row and column.                      *)
LEMMA QuadByte ==
  ASSUME NEW nr, NEW row, NEW m, Buffer(m, nr, row), NEW ii, NEW jj, NEW mm, NEW k, NEW l, NEW p,
         NEW i, NEW j, InQuad(nr, row, ii, jj, mm, k, l, p, i, j)
  PROVE  RByte(Quad(m, row, ii, jj, mm)[k + 1], l, p) = m[Cell(i, row, j)]
<1> DEFINE v == [hh \in 1 .. 4 |-> GroupsOf(m, row, ii, jj)[hh][mm + 1]]
           hh == 1 + 2 * (k % 2) + (p \div 8)
           q == 8 * (k \div 2) + (p % 8)
<1>t. /\ nr \in Nat /\ row \in Nat /\ ii \in Nat /\ jj \in Nat /\ mm \in 0 .. 7 /\ k \in 0 .. 3
      /\ l \in 0 .. 1 /\ p \in 0 .. 15
      /\ i = 8 * ii + 16 * (k % 2) + p /\ j = jj + 16 * l + (2 * mm + (k \div 2))
      /\ i < nr /\ j < row
  BY DEF InQuad
<1>1. hh \in 1 .. 4 /\ q \in 0 .. 15 /\ q % 8 = p % 8 /\ q \div 8 = k \div 2
  BY <1>t
<1>2. i = 8 * ii + 8 * (hh - 1) + (q % 8) /\ j = jj + 16 * l + (2 * mm + (q \div 8))
  <2>1. 8 * (hh - 1) + (p % 8) = 16 * (k % 2) + p
    BY <1>t
  <2> HIDE DEF hh, q
  <2> QED BY <1>t, <1>1, <2>1
<1>3. ASSUME NEW g \in 1 .. 4 PROVE v[g] = Columns(GroupRegisters(m, row, ii, jj, g))[mm + 1]
  BY DEF GroupsOf, GroupRegisters
<1>4. DOMAIN v = 1 .. 4
  OBVIOUS
<1>5. Quad(m, row, ii, jj, mm) = Layer(8, v, Groups)
  BY DEF Quad, Groups
<1> HIDE DEF v
<1>6. Registers(v, 2)
  <2>1. ASSUME NEW g \in 1 .. 4 PROVE Lanes(v[g], 2)
    <3> DEFINE w == GroupRegisters(m, row, ii, jj, g)
    <3>1. DOMAIN w = 1 .. 8 /\ Registers(w, 2)
      BY GroupRegistersKeep
    <3> HIDE DEF w
    <3>2. Registers(Columns(w), 2) /\ DOMAIN Columns(w) = 1 .. 8
      BY <3>1, ColumnsKeep
    <3>3. mm + 1 \in 1 .. 8
      BY <1>t
    <3> QED BY <1>3, <3>2, <3>3 DEF Registers, w
  <2> QED BY <1>4, <2>1 DEF Registers
<1>7. RByte(Layer(8, v, Groups)[k + 1], l, p) = RByte(v[hh], l, q)
  BY <1>t, <1>4, <1>6, GroupsTwo
<1>8. InGroup(nr, row, ii, jj, hh, mm, l, q, i, j)
  <2> HIDE DEF hh, q
  <2> QED BY <1>t, <1>1, <1>2 DEF InGroup
<1> HIDE DEF hh, q
<1>9. RByte(Columns(GroupRegisters(m, row, ii, jj, hh))[mm + 1], l, q) = m[Cell(i, row, j)]
  BY <1>8, GroupWordByte
<1> QED BY <1>1, <1>3, <1>5, <1>7, <1>9

QuadWord(m, row, ii, jj, mm, o, h) ==
  Permute2x128(Quad(m, row, ii, jj, mm)[2 * o + 1], Quad(m, row, ii, jj, mm)[2 * o + 2], h)

(* Row i and column j, in byte t of a store of 32 bytes. *)
InStore(nr, row, ii, jj, mm, o, h, t, i, j) ==
  /\ nr \in Nat /\ row \in Nat /\ ii \in Nat /\ jj \in Nat /\ mm \in 0 .. 7 /\ o \in Two
  /\ h \in Two /\ t \in 0 .. 31
  /\ i = 8 * ii + t /\ j = jj + 16 * h + (2 * mm + o)
  /\ i < nr /\ j < row

(* A byte of one of the four stores, by its row and column.                 *)
LEMMA QuadWordByte ==
  ASSUME NEW nr, NEW row, NEW m, Buffer(m, nr, row), NEW ii, NEW jj, NEW mm, NEW o, NEW h, NEW t,
         NEW i, NEW j, InStore(nr, row, ii, jj, mm, o, h, t, i, j)
  PROVE  ByteOf(QuadWord(m, row, ii, jj, mm, o, h), t) = m[Cell(i, row, j)]
<1> DEFINE y == Quad(m, row, ii, jj, mm)
           p == t % 16
<1>t. /\ nr \in Nat /\ row \in Nat /\ ii \in Nat /\ jj \in Nat /\ mm \in 0 .. 7 /\ o \in Two
      /\ h \in Two /\ t \in 0 .. 31
      /\ i = 8 * ii + t /\ j = jj + 16 * h + (2 * mm + o)
      /\ i < nr /\ j < row
  BY DEF InStore
<1>1. ByteOf(QuadWord(m, row, ii, jj, mm, o, h), t) = RByte(IF t < 16 THEN y[2 * o + 1] ELSE y[2 * o + 2], h, p)
  <2> DEFINE a == y[2 * o + 1]
             b == y[2 * o + 2]
  <2>1. QuadWord(m, row, ii, jj, mm, o, h) = Permute2x128(a, b, h)
    BY DEF QuadWord
  <2> HIDE DEF a, b
  <2>2. ByteOf(Permute2x128(a, b, h), t) = RByte(IF t < 16 THEN a ELSE b, h, p)
    BY <1>t, PermuteByte
  <2> QED BY <2>1, <2>2 DEF a, b
<1>h. h \in 0 .. 1 /\ o \in 0 .. 1
  BY <1>t DEF Two
<1>2. CASE t < 16
  <2> DEFINE k == 2 * o
  <2>1. InQuad(nr, row, ii, jj, mm, k, h, p, i, j)
    <3>1. k \in 0 .. 3 /\ k % 2 = 0 /\ k \div 2 = o /\ p = t
      BY <1>h, <1>2, <1>t
    <3> HIDE DEF k, p
    <3> QED BY <1>t, <1>h, <1>2, <3>1 DEF InQuad
  <2>k. y[k + 1] = y[2 * o + 1]
    OBVIOUS
  <2> HIDE DEF k, y, p
  <2>2. RByte(y[k + 1], h, p) = m[Cell(i, row, j)]
    BY <2>1, QuadByte DEF y
  <2> QED BY <1>1, <1>2, <2>2, <2>k
<1>3. CASE ~ (t < 16)
  <2> DEFINE k == 2 * o + 1
  <2>1. InQuad(nr, row, ii, jj, mm, k, h, p, i, j)
    <3>1. k \in 0 .. 3 /\ k % 2 = 1 /\ k \div 2 = o /\ 16 + p = t /\ p \in 0 .. 15
      BY <1>h, <1>3, <1>t
    <3> HIDE DEF k, p
    <3>2. i = 8 * ii + 16 * (k % 2) + p /\ j = jj + 16 * h + (2 * mm + (k \div 2))
      BY <1>t, <3>1
    <3> QED BY <1>t, <1>h, <3>1, <3>2 DEF InQuad
  <2>k. y[k + 1] = y[2 * o + 2]
    BY <1>h
  <2> HIDE DEF k, y, p
  <2>2. RByte(y[k + 1], h, p) = m[Cell(i, row, j)]
    BY <2>1, QuadByte DEF y
  <2> QED BY <1>1, <1>3, <2>2, <2>k
<1> QED BY <1>2, <1>3

Written(j, nr, i, x, T) == {<<Cell(j, nr, i) + t, ByteOf(x, t)>> : t \in T}
MovedRows(m, nr, row, i, j, T) == {Moved(m, nr, row, i + t, j) : t \in T}

RowsOf(m, row, x, i, j, T) == T \subseteq Nat /\ \A t \in T : ByteOf(x, t) = m[Cell(i + t, row, j)]

(* A store of rows of a column moves them.                                  *)
LEMMA StoreMoved ==
  ASSUME NEW m, NEW nr \in Nat, NEW row, NEW x, NEW i \in Nat, NEW j \in Nat, NEW T,
         RowsOf(m, row, x, i, j, T)
  PROVE  Written(j, nr, i, x, T) = MovedRows(m, nr, row, i, j, T)
<1>1. ASSUME NEW t \in T
      PROVE  <<Cell(j, nr, i) + t, ByteOf(x, t)>> = Moved(m, nr, row, i + t, j)
  <2>1. Cell(j, nr, i) + t = Cell(j, nr, i + t)
    <3> DEFINE y == j * nr
    <3>1. y \in Nat /\ t \in Nat
      BY DEF RowsOf
    <3> HIDE DEF y
    <3>2. (y + i) + t = y + (i + t)
      BY <3>1
    <3> QED BY <3>2 DEF y, Cell
  <2> QED BY <2>1 DEF Moved, RowsOf
<1> QED BY <1>1 DEF Written, MovedRows

Bytes32 == 0 .. 31
QuadCol(jj, mm, o, h) == jj + 16 * h + (2 * mm + o)
QuadPart(m, nr, row, ii, jj, mm, o, h) ==
  {Moved(m, nr, row, 8 * ii + t, QuadCol(jj, mm, o, h)) : t \in Bytes32}

(* The four stores of a quad stay in the buffer. *)
QuadFits(nr, row, ii, jj, mm) ==
  /\ nr \in Nat /\ row \in Nat /\ ii \in Nat /\ jj \in Nat /\ mm \in 0 .. 7
  /\ 8 * ii + 31 < nr /\ jj + 31 < row

(* Each store moves one column of 32 rows.                                  *)
LEMMA QuadPartIs ==
  ASSUME NEW nr, NEW row, NEW m, Buffer(m, nr, row), NEW ii, NEW jj, NEW mm, NEW o \in Two, NEW h \in Two,
         QuadFits(nr, row, ii, jj, mm), NEW at, at = Cell(QuadCol(jj, mm, o, h), nr, 8 * ii)
  PROVE  Store(at, QuadWord(m, row, ii, jj, mm, o, h), 32) = QuadPart(m, nr, row, ii, jj, mm, o, h)
<1> DEFINE i == 8 * ii
           j == QuadCol(jj, mm, o, h)
           x == QuadWord(m, row, ii, jj, mm, o, h)
           T == Bytes32
<1>t. /\ nr \in Nat /\ row \in Nat /\ ii \in Nat /\ jj \in Nat /\ mm \in 0 .. 7
      /\ 8 * ii + 31 < nr /\ jj + 31 < row
  BY DEF QuadFits
<1>h. h \in 0 .. 1 /\ o \in 0 .. 1
  BY DEF Two
<1>1. i \in Nat /\ j \in Nat /\ j = jj + 16 * h + (2 * mm + o) /\ j < row /\ T \subseteq Nat
  BY <1>t, <1>h DEF QuadCol, Bytes32
<1>2. ASSUME NEW t \in T PROVE ByteOf(x, t) = m[Cell(i + t, row, j)]
  <2> DEFINE r == i + t
  <2>1. t \in 0 .. 31 /\ r = 8 * ii + t /\ r < nr
    BY <1>t DEF Bytes32
  <2> HIDE DEF r, j, i
  <2>2. InStore(nr, row, ii, jj, mm, o, h, t, r, j)
    BY <1>t, <1>1, <2>1 DEF InStore
  <2>3. x = QuadWord(m, row, ii, jj, mm, o, h)
    OBVIOUS
  <2> HIDE DEF x
  <2>4. ByteOf(x, t) = m[Cell(r, row, j)]
    BY <2>2, <2>3, QuadWordByte
  <2> QED BY <2>4 DEF r
<1>3. Store(at, x, 32) = {<<at + t, ByteOf(x, t)>> : t \in T}
  BY DEF Store, Bytes32
<1>4. QuadPart(m, nr, row, ii, jj, mm, o, h) = MovedRows(m, nr, row, i, j, T)
  BY DEF QuadPart, MovedRows
<1>5. at = Cell(j, nr, i)
  OBVIOUS
<1>x. x = QuadWord(m, row, ii, jj, mm, o, h)
  OBVIOUS
<1> HIDE DEF i, j, x, T
<1>6. Written(j, nr, i, x, T) = MovedRows(m, nr, row, i, j, T)
  <2>1. RowsOf(m, row, x, i, j, T)
    BY <1>1, <1>2 DEF RowsOf
  <2> QED BY <1>t, <1>1, <2>1, StoreMoved
<1>7. Store(at, x, 32) = Written(j, nr, i, x, T)
  BY <1>3, <1>5 DEF Written
<1> QED BY <1>4, <1>6, <1>7, <1>x

LEMMA QuadStoreParts ==
  ASSUME NEW x, NEW nr \in Nat, NEW row, NEW ii \in Nat, NEW jj \in Nat, NEW mm \in Nat
  PROVE  QuadStore(x, nr, row, ii, jj, mm)
           = Store((jj + mm * 2 + 0) * nr + ii * 8, QuadWord(x, row, ii, jj, mm, 0, 0), 32)
    \union Store((jj + mm * 2 + 1) * nr + ii * 8, QuadWord(x, row, ii, jj, mm, 1, 0), 32)
    \union Store((jj + mm * 2 + 16) * nr + ii * 8, QuadWord(x, row, ii, jj, mm, 0, 1), 32)
    \union Store((jj + mm * 2 + 17) * nr + ii * 8, QuadWord(x, row, ii, jj, mm, 1, 1), 32)
<1>1. 2 * 0 + 1 = 1 /\ 2 * 0 + 2 = 2 /\ 2 * 1 + 1 = 3 /\ 2 * 1 + 2 = 4
  OBVIOUS
<1> QED BY <1>1 DEF QuadStore, QuadWord

LEMMA QuadAddress ==
  ASSUME NEW nr \in Nat, NEW ii \in Nat, NEW jj \in Nat, NEW mm \in Nat
  PROVE  /\ (jj + mm * 2 + 0) * nr + ii * 8 = Cell(QuadCol(jj, mm, 0, 0), nr, 8 * ii)
         /\ (jj + mm * 2 + 1) * nr + ii * 8 = Cell(QuadCol(jj, mm, 1, 0), nr, 8 * ii)
         /\ (jj + mm * 2 + 16) * nr + ii * 8 = Cell(QuadCol(jj, mm, 0, 1), nr, 8 * ii)
         /\ (jj + mm * 2 + 17) * nr + ii * 8 = Cell(QuadCol(jj, mm, 1, 1), nr, 8 * ii)
<1>1. /\ jj + mm * 2 + 0 = QuadCol(jj, mm, 0, 0) /\ jj + mm * 2 + 1 = QuadCol(jj, mm, 1, 0)
      /\ jj + mm * 2 + 16 = QuadCol(jj, mm, 0, 1) /\ jj + mm * 2 + 17 = QuadCol(jj, mm, 1, 1)
      /\ ii * 8 = 8 * ii
  BY DEF QuadCol
<1> QED BY <1>1 DEF Cell

(* The four stores of a quad move four columns of 32 rows.                  *)
LEMMA QuadStoreIs ==
  ASSUME NEW nr, NEW row, NEW m, Buffer(m, nr, row), NEW ii, NEW jj, NEW mm,
         QuadFits(nr, row, ii, jj, mm)
  PROVE  QuadStore(m, nr, row, ii, jj, mm)
           = QuadPart(m, nr, row, ii, jj, mm, 0, 0) \union QuadPart(m, nr, row, ii, jj, mm, 1, 0)
               \union QuadPart(m, nr, row, ii, jj, mm, 0, 1) \union QuadPart(m, nr, row, ii, jj, mm, 1, 1)
<1> DEFINE z == 0
           u == 1
           a00 == (jj + mm * 2 + 0) * nr + ii * 8
           a10 == (jj + mm * 2 + 1) * nr + ii * 8
           a01 == (jj + mm * 2 + 16) * nr + ii * 8
           a11 == (jj + mm * 2 + 17) * nr + ii * 8
<1>t. nr \in Nat /\ row \in Nat /\ ii \in Nat /\ jj \in Nat /\ mm \in Nat
  BY DEF QuadFits
<1>1. z \in Two /\ u \in Two
  BY DEF Two
<1>2. /\ a00 = Cell(QuadCol(jj, mm, z, z), nr, 8 * ii) /\ a10 = Cell(QuadCol(jj, mm, u, z), nr, 8 * ii)
      /\ a01 = Cell(QuadCol(jj, mm, z, u), nr, 8 * ii) /\ a11 = Cell(QuadCol(jj, mm, u, u), nr, 8 * ii)
  BY <1>t, QuadAddress
<1>3. QuadStore(m, nr, row, ii, jj, mm)
        = Store(a00, QuadWord(m, row, ii, jj, mm, z, z), 32) \union Store(a10, QuadWord(m, row, ii, jj, mm, u, z), 32)
            \union Store(a01, QuadWord(m, row, ii, jj, mm, z, u), 32) \union Store(a11, QuadWord(m, row, ii, jj, mm, u, u), 32)
  BY <1>t, QuadStoreParts
<1> HIDE DEF z, u, a00, a10, a01, a11
<1>4. Store(a00, QuadWord(m, row, ii, jj, mm, z, z), 32) = QuadPart(m, nr, row, ii, jj, mm, z, z)
  BY <1>1, <1>2, QuadPartIs
<1>5. Store(a10, QuadWord(m, row, ii, jj, mm, u, z), 32) = QuadPart(m, nr, row, ii, jj, mm, u, z)
  BY <1>1, <1>2, QuadPartIs
<1>6. Store(a01, QuadWord(m, row, ii, jj, mm, z, u), 32) = QuadPart(m, nr, row, ii, jj, mm, z, u)
  BY <1>1, <1>2, QuadPartIs
<1>7. Store(a11, QuadWord(m, row, ii, jj, mm, u, u), 32) = QuadPart(m, nr, row, ii, jj, mm, u, u)
  BY <1>1, <1>2, QuadPartIs
<1> QED BY <1>3, <1>4, <1>5, <1>6, <1>7 DEF z, u

(* Quads of groups tile the rows when four divides the element size.        *)
LEMMA StridesOfQuads ==
  ASSUME NEW e \in Nat, e % 4 = 0
  PROVE  Tiles({8 * ii : ii \in Strides(0, e, 4)}, Bytes32, 0 .. (8 * e - 1))
<1> DEFINE S == Strides(0, e, 4)
           U == 0 .. 3
           E == 0 .. (e - 1)
           I == 0 .. (8 * e - 1)
<1>1. Tiles(S, U, E)
  <2> DEFINE n == 4
  <2>1. n \in Nat /\ n > 0 /\ e % n = 0 /\ n - 1 = 3
    OBVIOUS
  <2> HIDE DEF n
  <2>2. Tiles(Strides(0, e, n), 0 .. (n - 1), 0 .. (e - 1))
    BY <2>1, StridesWhole
  <2> QED BY <2>1, <2>2 DEF n
<1>2. \A ii \in S : ii \in Nat
  BY DEF Strides
<1>e. \A y : y \in E <=> y \in Nat /\ y < e
  OBVIOUS
<1>i. \A y : y \in I <=> y \in Nat /\ y < 8 * e
  OBVIOUS
<1>u. 3 \in U /\ \A y \in U : y \in 0 .. 3
  OBVIOUS
<1> HIDE DEF S, U, E, I
<1>3. ASSUME NEW ii \in S, NEW t \in Bytes32 PROVE 8 * ii + t \in I
  <2>1. ii \in Nat /\ ii + 3 < e
    BY <1>1, <1>2, <1>e, <1>u DEF Tiles
  <2>2. t \in 0 .. 31
    BY DEF Bytes32
  <2> QED BY <1>i, <2>1, <2>2
<1>4. ASSUME NEW i \in I PROVE \E ii \in S : \E t \in Bytes32 : i = 8 * ii + t
  <2> DEFINE y == i \div 8
             b == i % 8
  <2>1. i \in Nat /\ i < 8 * e
    BY <1>i
  <2>2. y \in Nat /\ y < e /\ b \in 0 .. 7 /\ i = 8 * y + b
    BY <2>1
  <2> HIDE DEF y, b
  <2>3. y \in E
    BY <1>e, <2>2
  <2>4. PICK ii \in S, w \in U : y = ii + w
    BY <1>1, <2>3 DEF Tiles
  <2>5. w \in 0 .. 3 /\ ii \in Nat
    BY <1>2, <1>u
  <2> DEFINE t == 8 * w + b
  <2>6. t \in Bytes32 /\ i = 8 * ii + t
    BY <2>2, <2>4, <2>5 DEF Bytes32
  <2> HIDE DEF t
  <2> QED BY <2>6
<1>5. Tiles({8 * ii : ii \in S}, Bytes32, I)
  BY <1>3, <1>4 DEF Tiles
<1> QED BY <1>5 DEF S, I

(* The wide loop covers the first columns of every row ...                  *)
LEMMA WideQuadsCovers ==
  ASSUME NEW m, NEW e \in Nat, NEW row \in Nat, e % 4 = 0, Buffer(m, 8 * e, row)
  PROVE  Covers(WideQuads(m, 8 * e, row, e), ByteTrans(m, 8 * e, row),
                Rect(8 * e, 0 .. (row - (row % 32) - 1), 0 .. (8 * e - 1)))
<1> DEFINE nr == 8 * e
           S == Strides(0, e, 4)
           R == {8 * ii : ii \in S}
           T == Bytes32
           D == Strides(0, row, 32)
           C == 0 .. 31
           M == 0 .. 7
           I == 0 .. (nr - 1)
           J == 0 .. (row - (row % 32) - 1)
           W == WideQuads(m, nr, row, e)
<1>0. nr \in Nat /\ Buffer(m, nr, row)
  OBVIOUS
<1>1. Tiles(R, T, I)
  BY StridesOfQuads
<1>2. Tiles(D, C, J)
  <2> DEFINE n == 32
  <2>1. n \in Nat /\ n > 0 /\ n - 1 = 31
    OBVIOUS
  <2> HIDE DEF n
  <2>2. Tiles(Strides(0, row, n), 0 .. (n - 1), 0 .. (row - (row % n) - 1))
    BY <2>1, StridesTile
  <2> QED BY <2>1, <2>2 DEF n
<1>3. I \subseteq 0 .. (nr - 1) /\ J \subseteq 0 .. (row - 1)
  OBVIOUS
<1>4. /\ \A ii \in S : ii \in Nat
      /\ \A jj \in D : jj \in Nat
  BY DEF Strides
<1>c. /\ \A mm \in M : \A o \in Two : \A h \in Two : 16 * h + (2 * mm + o) \in C
      /\ \A c \in C : \E mm \in M : \E o \in Two : \E h \in Two : c = 16 * h + (2 * mm + o)
  <2>1. ASSUME NEW c \in C PROVE \E mm \in M : \E o \in Two : \E h \in Two : c = 16 * h + (2 * mm + o)
    <3> DEFINE h == c \div 16
               mm == (c % 16) \div 2
               o == c % 2
    <3>1. h \in Two /\ o \in Two /\ mm \in M /\ c = 16 * h + (2 * mm + o)
      BY DEF Two
    <3> HIDE DEF h, mm, o
    <3> QED BY <3>1
  <2>2. ASSUME NEW mm \in M, NEW o \in Two, NEW h \in Two PROVE 16 * h + (2 * mm + o) \in C
    BY DEF Two
  <2> QED BY <2>1, <2>2
<1>w. \A s : s \in W <=> \E ii \in S : \E jj \in D : \E mm \in M : s \in QuadStore(m, nr, row, ii, jj, mm)
  BY WideQuadsBy
<1>5. ASSUME NEW ii \in S, NEW jj \in D, NEW mm \in M PROVE QuadFits(nr, row, ii, jj, mm)
  <2>1. ii \in Nat /\ jj \in Nat
    BY <1>4
  <2>2. 8 * ii + 31 < nr
    <3>1. 31 \in T /\ 8 * ii \in R
      BY DEF Bytes32
    <3> HIDE DEF R, T
    <3>2. 8 * ii + 31 \in I
      BY <1>1, <3>1 DEF Tiles
    <3> QED BY <3>2, <2>1, <1>0
  <2>3. jj + 31 \in J
    <3>1. 31 \in C
      OBVIOUS
    <3> QED BY <1>2, <3>1 DEF Tiles
  <2>4. jj + 31 \in 0 .. (row - 1)
    BY <1>3, <2>3
  <2> QED BY <1>0, <2>1, <2>2, <2>4 DEF QuadFits
<1>6. ASSUME NEW ii \in S, NEW jj \in D, NEW mm \in M, NEW s
      PROVE  s \in QuadStore(m, nr, row, ii, jj, mm)
               <=> \E o \in Two : \E h \in Two : s \in QuadPart(m, nr, row, ii, jj, mm, o, h)
  <2>1. QuadFits(nr, row, ii, jj, mm)
    BY <1>5
  <2> HIDE DEF nr, S, R, T, D, M, W, I, J, C
  <2>2. QuadStore(m, nr, row, ii, jj, mm)
           = QuadPart(m, nr, row, ii, jj, mm, 0, 0) \union QuadPart(m, nr, row, ii, jj, mm, 1, 0)
               \union QuadPart(m, nr, row, ii, jj, mm, 0, 1) \union QuadPart(m, nr, row, ii, jj, mm, 1, 1)
    BY <1>0, <2>1, QuadStoreIs
  <2>3. \A o : o \in Two <=> o = 0 \/ o = 1
    BY DEF Two
  <2> QED BY <2>2, <2>3
<1>p. ASSUME NEW ii, NEW jj, NEW mm, NEW o, NEW h, NEW s
      PROVE  s \in QuadPart(m, nr, row, ii, jj, mm, o, h)
               <=> \E t \in T : s = Moved(m, nr, row, 8 * ii + t, QuadCol(jj, mm, o, h))
  BY DEF QuadPart
<1>q. ASSUME NEW jj \in D, NEW mm \in M, NEW o \in Two, NEW h \in Two
      PROVE  QuadCol(jj, mm, o, h) = jj + (16 * h + (2 * mm + o))
  BY <1>4 DEF QuadCol, Two
<1>r. /\ \A ii \in S : 8 * ii \in R
      /\ \A r \in R : \E ii \in S : r = 8 * ii
  OBVIOUS
<1> HIDE DEF nr, S, R, T, D, C, M, I, J, W
<1>7. ASSUME NEW s \in W
      PROVE  \E r \in R : \E jj \in D : \E t \in T : \E c \in C : s = Moved(m, nr, row, r + t, jj + c)
  <2>1. PICK ii \in S, jj \in D, mm \in M : s \in QuadStore(m, nr, row, ii, jj, mm)
    BY <1>w
  <2>2. PICK o \in Two, h \in Two : s \in QuadPart(m, nr, row, ii, jj, mm, o, h)
    BY <1>6, <2>1
  <2>3. PICK t \in T : s = Moved(m, nr, row, 8 * ii + t, QuadCol(jj, mm, o, h))
    BY <1>p, <2>2
  <2> DEFINE c == 16 * h + (2 * mm + o)
             r == 8 * ii
  <2>4. c \in C /\ r \in R
    BY <1>c, <1>r
  <2>5. s = Moved(m, nr, row, r + t, jj + c)
    BY <1>q, <2>3
  <2> HIDE DEF c, r
  <2> QED BY <2>4, <2>5
<1>8. ASSUME NEW r \in R, NEW jj \in D, NEW t \in T, NEW c \in C
      PROVE  Moved(m, nr, row, r + t, jj + c) \in W
  <2>1. PICK mm \in M, o \in Two, h \in Two : c = 16 * h + (2 * mm + o)
    BY <1>c
  <2>2. PICK ii \in S : r = 8 * ii
    BY <1>r
  <2>3. QuadCol(jj, mm, o, h) = jj + c
    BY <1>q, <2>1
  <2>4. Moved(m, nr, row, r + t, jj + c) \in QuadPart(m, nr, row, ii, jj, mm, o, h)
    BY <1>p, <2>2, <2>3
  <2>5. Moved(m, nr, row, r + t, jj + c) \in QuadStore(m, nr, row, ii, jj, mm)
    BY <1>6, <2>4
  <2> QED BY <1>w, <2>5
<1>9. Covers(W, ByteTrans(m, nr, row), Rect(nr, J, I))
  <2>1. Blocks(W, m, nr, row, R, T, D, C)
    BY <1>7, <1>8 DEF Blocks
  <2> QED BY <1>0, <1>1, <1>2, <1>3, <2>1, BlockCovers
<1> QED BY <1>9 DEF W, I, J, nr

(* ... and the scalar loop the others.                                      *)
LEMMA RestOfQuadsCovers ==
  ASSUME NEW m, NEW nr \in Nat, NEW row \in Nat
  PROVE  Covers(RestOfQuads(m, nr, row), ByteTrans(m, nr, row),
                Rect(nr, (row - (row % 32)) .. (row - 1), 0 .. (nr - 1)))
<1> DEFINE C == {0}
           I == 0 .. (nr - 1)
           J == (row - (row % 32)) .. (row - 1)
           W == RestOfQuads(m, nr, row)
<1>1. Tiles(I, C, I) /\ Tiles(J, C, J)
  BY DEF Tiles
<1>3. I \subseteq 0 .. (nr - 1) /\ J \subseteq 0 .. (row - 1)
  OBVIOUS
<1>4. \A c : c \in C <=> c = 0
  OBVIOUS
<1>6. (\A i \in I : i + 0 = i) /\ \A j \in J : j + 0 = j
  OBVIOUS
<1>w. W = {<<jj * nr + ii, m[ii * row + jj]>> : ii \in I, jj \in J}
  BY DEF RestOfQuads
<1> HIDE DEF I, J, C, W
<1>5. ASSUME NEW ii \in I, NEW jj \in J
      PROVE  <<jj * nr + ii, m[ii * row + jj]>> = Moved(m, nr, row, ii + 0, jj + 0)
  BY <1>6 DEF Moved, Cell
<1>7. ASSUME NEW s \in W
      PROVE  \E ii \in I : \E jj \in J : \E t \in C : \E c \in C : s = Moved(m, nr, row, ii + t, jj + c)
  <2>1. PICK ii \in I, jj \in J : s = <<jj * nr + ii, m[ii * row + jj]>>
    BY <1>w
  <2>2. s = Moved(m, nr, row, ii + 0, jj + 0)
    BY <1>5, <2>1
  <2>3. 0 \in C
    BY <1>4
  <2> QED BY <2>2, <2>3
<1>8. ASSUME NEW ii \in I, NEW jj \in J, NEW t \in C, NEW c \in C
      PROVE  Moved(m, nr, row, ii + t, jj + c) \in W
  <2>1. <<jj * nr + ii, m[ii * row + jj]>> \in W
    BY <1>w
  <2>2. Moved(m, nr, row, ii + 0, jj + 0) \in W
    BY <1>5, <2>1
  <2>3. t = 0 /\ c = 0
    BY <1>4
  <2> QED BY <2>2, <2>3
<1>9. Covers(W, ByteTrans(m, nr, row), Rect(nr, J, I))
  <2>1. Blocks(W, m, nr, row, I, C, J, C)
    BY <1>7, <1>8 DEF Blocks
  <2> QED BY <1>1, <1>3, <2>1, BlockCovers
<1> QED BY <1>9 DEF W, I, J

(* bshuf_trans_byte_bitrow_AVX computes the byte transpose for every size.  *)
LEMMA AVXBitrow ==
  ASSUME NEW m, NEW sz, NEW row \in Nat, NEW e \in Nat, sz = 8 * row, Buffer(m, 8 * e, row)
  PROVE  Works(TransByteBitrowAVX(m, sz, e), ByteTrans(m, 8 * e, row), 0 .. ((8 * e) * row - 1))
<1>1. CASE e % 4 # 0
  <2>1. TransByteBitrowAVX(m, sz, e) = TransByteBitrowSSE(m, sz, e)
    BY <1>1, BitrowAVXIs
  <2> QED BY <2>1, SSEBitrow
<1>2. CASE e % 4 = 0
  <2> DEFINE nr == 8 * e
             F == ByteTrans(m, nr, row)
             lo == row - (row % 32)
             J == 0 .. (lo - 1)
             K == lo .. (row - 1)
             I == 0 .. (nr - 1)
             W == WideQuads(m, nr, row, e)
             V == RestOfQuads(m, nr, row)
  <2>0. nr \in Nat /\ lo \in Nat /\ lo <= row
    OBVIOUS
  <2>e. TransByteBitrowAVX(m, sz, e) = <<W, V>>
    <3>1. sz \div 8 = row
      OBVIOUS
    <3> QED BY <1>2, <3>1, BitrowAVXIs
  <2>u. J \union K = 0 .. (row - 1) /\ J \intersect K = {} /\ J \subseteq Nat /\ K \subseteq Nat
    BY <2>0
  <2>1. Covers(W, F, Rect(nr, J, I))
    BY <1>2, WideQuadsCovers
  <2> HIDE DEF nr
  <2>2. Covers(V, F, Rect(nr, K, I))
    BY <2>0, RestOfQuadsCovers
  <2> HIDE DEF F, J, K, W, V
  <2>3. Works(<<W, V>>, F, Rect(nr, 0 .. (row - 1), I))
    BY <2>0, <2>1, <2>2, <2>u, RectJoinRows
  <2>4. Rect(nr, 0 .. (row - 1), I) = 0 .. (nr * row - 1)
    BY <2>0, RectAll
  <2> QED BY <2>3, <2>4, <2>e DEF nr, F
<1> QED BY <1>1, <1>2

-----------------------------------------------------------------------------
(* The workers one after the other.                                         *)

LEMMA CellSplit ==
  ASSUME NEW x \in Nat, NEW p \in Nat, NEW y \in Nat, NEW q \in Nat, NEW z \in Nat, NEW r, r = p * q
  PROVE  Cell(Cell(x, p, y), q, z) = Cell(x, r, Cell(y, q, z))
<1>1. \A a, b, c, d \in Nat : (((a * b) + c) * d) = (a * (b * d)) + (c * d)
  OBVIOUS
<1>2. ((x * p) + y) * q = (x * r) + (y * q)
  BY <1>1
<1> DEFINE u == x * r
           v == y * q
<1>3. u \in Nat /\ v \in Nat
  <2>1. r \in Nat
    OBVIOUS
  <2> QED BY <2>1
<1> HIDE DEF u, v
<1>4. (u + v) + z = u + (v + z)
  BY <1>3
<1> QED BY <1>2, <1>4 DEF u, v, Cell

(* What a transposed matrix holds at a place.                               *)
LEMMA TransposeValue ==
  ASSUME NEW m, NEW lda \in Nat, NEW ldb \in Nat, NEW w \in Nat,
         NEW jj \in 0 .. (ldb - 1), NEW ii \in 0 .. (lda - 1), NEW b \in 0 .. (w - 1)
  PROVE  Transpose(m, lda, ldb, w)[Cell(Cell(jj, lda, ii), w, b)] = m[Cell(Cell(ii, ldb, jj), w, b)]
BY TransposeAt

(* Places of a transposed matrix, and the element that reaches each.        *)
InCube(a, lda, ldb, w) ==
  \E jj \in 0 .. (ldb - 1), ii \in 0 .. (lda - 1), b \in 0 .. (w - 1) : a = Cell(Cell(jj, lda, ii), w, b)

(* Every place of a transposed matrix has three coordinates.                *)
LEMMA CubeOf ==
  ASSUME NEW lda \in Nat, NEW ldb \in Nat, NEW w \in Nat, NEW a \in 0 .. ((ldb * lda) * w - 1)
  PROVE  InCube(a, lda, ldb, w)
BY OnCube DEF InCube

Sends(m, lda, ldb, w, jj, ii, b) ==
  Transpose(m, lda, ldb, w)[Cell(Cell(jj, lda, ii), w, b)] = m[Cell(Cell(ii, ldb, jj), w, b)]

(* The element that reaches it.                                             *)
LEMMA TransposeSends ==
  ASSUME NEW m, NEW lda \in Nat, NEW ldb \in Nat, NEW w \in Nat,
         NEW jj \in 0 .. (ldb - 1), NEW ii \in 0 .. (lda - 1), NEW b \in 0 .. (w - 1)
  PROVE  Sends(m, lda, ldb, w, jj, ii, b)
BY TransposeValue DEF Sends

(* An element of c chunks of w bytes: e bytes, and k chunks in the block.   *)
ChunkSizes(n, e, c, w, k) == e = c * w /\ k = n * c

(* Split into chunks, transpose each byte by byte, join: the byte transpose. *)
LEMMA ChunksJoined ==
  ASSUME NEW m, NEW n \in Nat, NEW c \in Nat, NEW w \in Nat, NEW e \in Nat, NEW k \in Nat,
         ChunkSizes(n, e, c, w, k)
  PROVE  Transpose(ByteTrans(Transpose(m, n, c, w), k, w), w, c, n) = ByteTrans(m, n, e)
<1> DEFINE s == Transpose(m, n, c, w)
           t == ByteTrans(s, k, w)
           f == Transpose(t, w, c, n)
           g == ByteTrans(m, n, e)
           A == 0 .. ((c * w) * n - 1)
<1>1. f = [a \in A |-> f[a]]
  <2> HIDE DEF t
  <2> QED BY DEF Transpose
<1>2. g = [a \in A |-> g[a]]
  <2>1. 0 .. (n * e - 1) = A
    <3>1. n * e = (c * w) * n
      BY DEF ChunkSizes
    <3> QED BY <3>1
  <2>2. g = [a \in 0 .. (n * e - 1) |-> g[a]]
    BY DEF ByteTrans
  <2> QED BY <2>1, <2>2
<1>3. ASSUME NEW a \in A PROVE f[a] = g[a]
  <2>1. PICK jj \in 0 .. (c - 1), ii \in 0 .. (w - 1), b \in 0 .. (n - 1) : a = Cell(Cell(jj, w, ii), n, b)
    <3>1. InCube(a, w, c, n)
      BY CubeOf
    <3> QED BY <3>1 DEF InCube
  <2>n. jj \in Nat /\ ii \in Nat /\ b \in Nat
    OBVIOUS
  <2>2. f[a] = t[Cell(Cell(ii, c, jj), n, b)]
    <3>f. f = Transpose(t, w, c, n)
      OBVIOUS
    <3> HIDE DEF f, t, s, g, A
    <3>1. Transpose(t, w, c, n)[Cell(Cell(jj, w, ii), n, b)] = t[Cell(Cell(ii, c, jj), n, b)]
      BY TransposeValue
    <3> QED BY <2>1, <3>f, <3>1
  <2> DEFINE y == Cell(jj, n, b)
             r == Cell(jj, w, ii)
  <2>3. y \in 0 .. (k - 1)
    <3>1. y \in 0 .. (c * n - 1)
      BY Grid
    <3>2. c * n = k
      BY DEF ChunkSizes
    <3> QED BY <3>1, <3>2
  <2>4. Cell(Cell(ii, c, jj), n, b) = Cell(ii, k, y)
    <3>1. k = c * n
      BY DEF ChunkSizes
    <3> QED BY <2>n, <3>1, CellSplit
  <2>5. r \in 0 .. (e - 1)
    <3>1. r \in 0 .. (c * w - 1)
      BY Grid
    <3> QED BY <3>1 DEF ChunkSizes
  <2> HIDE DEF s, t, f, g, A
  <2>6. t[Cell(ii, k, y)] = s[Cell(y, w, ii)]
    <3> HIDE DEF y
    <3> QED BY <2>3, ByteTransAt DEF t
  <2>7. s[Cell(y, w, ii)] = m[Cell(Cell(b, c, jj), w, ii)]
    BY TransposeValue DEF s
  <2>8. Cell(Cell(b, c, jj), w, ii) = Cell(b, e, r)
    BY <2>n, CellSplit DEF ChunkSizes
  <2>9. g[Cell(r, n, b)] = m[Cell(b, e, r)]
    <3> HIDE DEF r
    <3> QED BY <2>5, ByteTransAt DEF g
  <2> QED BY <2>1, <2>2, <2>4, <2>6, <2>7, <2>8, <2>9
<1> HIDE DEF f, g, A
<1>4. f = g
  BY <1>1, <1>2, <1>3
<1> QED BY <1>4 DEF f, g, t, s

-----------------------------------------------------------------------------
(* The block and its transpose, bit by bit.                                 *)

SourceBit(a, b) == {8 * a + b}
MatrixBit(i, e, r) == {Cell(i, 8 * e, r)}

(* Row r of the bit matrix, eight elements to a byte.                       *)
Shuffled(row, e) ==
  [a \in 0 .. ((8 * e) * row - 1) |->
     [b \in 0 .. 7 |-> MatrixBit(Cell(a % row, 8, b), e, a \div row)]]

(* What the shuffled block holds.                                           *)
LEMMA ShuffledAt ==
  ASSUME NEW row \in Nat, NEW e \in Nat, NEW r \in 0 .. (8 * e - 1), NEW t \in 0 .. (row - 1)
  PROVE  Shuffled(row, e)[Cell(r, row, t)] = [b \in 0 .. 7 |-> MatrixBit(Cell(t, 8, b), e, r)]
<1> DEFINE n == 8 * e
           a == Cell(r, row, t)
<1>1. n \in Nat /\ r \in 0 .. (n - 1)
  OBVIOUS
<1>2. a \in 0 .. (n * row - 1) /\ a \div row = r /\ a % row = t
  <2> HIDE DEF n
  <2> QED BY <1>1, Grid
<1> HIDE DEF a
<1>3. Shuffled(row, e)[a] = [b \in 0 .. 7 |-> MatrixBit(Cell(t, 8, b), e, r)]
  BY <1>2 DEF Shuffled
<1> QED BY <1>3 DEF a

LEMMA ShuffledBytes ==
  ASSUME NEW row \in Nat, NEW e \in Nat
  PROVE  Buffer(Shuffled(row, e), 8 * e, row)
<1> DEFINE A == 0 .. ((8 * e) * row - 1)
           f == Shuffled(row, e)
<1>1. ASSUME NEW a \in A PROVE f[a] = [b \in 0 .. 7 |-> BitAt(f, a, b)]
  <2>1. f[a] = [b \in 0 .. 7 |-> MatrixBit(Cell(a % row, 8, b), e, a \div row)]
    BY DEF Shuffled
  <2> HIDE DEF f
  <2> QED BY <2>1 DEF BitAt
<1> HIDE DEF f
<1> QED BY <1>1 DEF Buffer, IsBytes, f

(* What the block holds.                                                    *)
LEMMA SourceAt ==
  ASSUME NEW n, NEW a \in 0 .. (n - 1)
  PROVE  Source(n)[a] = [b \in 0 .. 7 |-> SourceBit(a, b)]
BY DEF Source, SourceBit

LEMMA SourceIsBytes ==
  ASSUME NEW n
  PROVE  IsBytes(Source(n), 0 .. (n - 1))
<1> DEFINE f == Source(n)
<1>1. ASSUME NEW a \in 0 .. (n - 1) PROVE f[a] = [b \in 0 .. 7 |-> BitAt(f, a, b)]
  <2>1. f[a] = [b \in 0 .. 7 |-> SourceBit(a, b)]
    BY SourceAt
  <2> HIDE DEF f
  <2> QED BY <2>1 DEF BitAt
<1> HIDE DEF f
<1> QED BY <1>1 DEF IsBytes, f

LEMMA TransposeBytes ==
  ASSUME NEW m, NEW n \in Nat, NEW c \in Nat, NEW w \in Nat, NEW k, k = n * c, NEW e, e = c * w, Buffer(m, n, e)
  PROVE  Buffer(Transpose(m, n, c, w), k, w)
<1> DEFINE A == 0 .. ((c * n) * w - 1)
           B == 0 .. (n * e - 1)
           f == Transpose(m, n, c, w)
<1>1. ASSUME NEW a \in A PROVE f[a] = [b \in 0 .. 7 |-> BitAt(f, a, b)]
  <2>1. PICK jj \in 0 .. (c - 1), ii \in 0 .. (n - 1), b \in 0 .. (w - 1) : a = Cell(Cell(jj, n, ii), w, b)
    BY OnCube
  <2> DEFINE d == Cell(Cell(ii, c, jj), w, b)
  <2>2. f[a] = m[d]
    <3>f. f = Transpose(m, n, c, w)
      OBVIOUS
    <3> HIDE DEF f, A, B
    <3>1. Transpose(m, n, c, w)[Cell(Cell(jj, n, ii), w, b)] = m[Cell(Cell(ii, c, jj), w, b)]
      BY TransposeValue
    <3> QED BY <2>1, <3>f, <3>1
  <2>3. d \in B
    <3> DEFINE x == Cell(ii, c, jj)
               u == n * c
    <3>1. x \in 0 .. (u - 1) /\ u \in Nat
      BY Grid
    <3>2. u * w = n * e
      OBVIOUS
    <3> HIDE DEF x, u
    <3>3. Cell(x, w, b) \in 0 .. (u * w - 1)
      BY <3>1, Grid
    <3> QED BY <3>2, <3>3 DEF x
  <2>4. m[d] = [v \in 0 .. 7 |-> BitAt(m, d, v)]
    BY <2>3 DEF Buffer, IsBytes
  <2> HIDE DEF f, d
  <2> QED BY <2>2, <2>4 DEF BitAt
<1>2. A = 0 .. (k * w - 1)
  <2>1. (c * n) * w = k * w
    OBVIOUS
  <2> QED BY <2>1
<1> HIDE DEF f, A
<1> QED BY <1>1, <1>2 DEF Buffer, IsBytes, f

(* The address of a bit's byte: byte b of eight in element 8t + b. *)
LEMMA BitOfElement ==
  ASSUME NEW row \in Nat, NEW e \in Nat, NEW t \in 0 .. (row - 1), NEW jj \in 0 .. (e - 1), NEW ii \in Lane,
         NEW b \in 0 .. 7, NEW r, r = Cell(jj, 8, ii)
  PROVE  SourceBit(Cell(Cell(t, 8, b), e, jj), ii) = MatrixBit(Cell(t, 8, b), e, r)
<1> DEFINE i == Cell(t, 8, b)
           ie == i * e
<1>1. ie \in Nat /\ jj \in Nat /\ ii \in Nat
  <2>1. i \in Nat
    BY DEF Cell
  <2> HIDE DEF i
  <2> QED BY <2>1 DEF Lane
<1>2. i * (8 * e) = 8 * ie
  <2>1. i \in Nat
    BY DEF Cell
  <2> HIDE DEF i
  <2> QED BY <2>1
<1> HIDE DEF i, ie
<1>3. 8 * (ie + jj) + ii = 8 * ie + (jj * 8 + ii)
  BY <1>1
<1>4. 8 * (i * e + jj) + ii = i * (8 * e) + r
  BY <1>2, <1>3 DEF ie, Cell
<1>5. SourceBit(Cell(i, e, jj), ii) = MatrixBit(i, e, r)
  BY <1>4 DEF SourceBit, MatrixBit, Cell
<1> QED BY <1>5 DEF i

Sized(n, row, e, N, q, o) == o = 8 /\ n = 8 * row /\ N = n * e /\ q = e * row

(* Bit and byte transpose of the block put the transpose together.          *)
THEOREM ShuffleOfSource ==
  ASSUME NEW row \in Nat, NEW e \in Nat, NEW n \in Nat, NEW N \in Nat, NEW q \in Nat,
         NEW o \in Nat, Sized(n, row, e, N, q, o)
  PROVE  Transpose(BitTrans(ByteTrans(Source(N), n, e), q), o, e, row) = Shuffled(row, e)
<1> DEFINE s == Source(N)
           t == ByteTrans(s, n, e)
           u == BitTrans(t, q)
           f == Transpose(u, o, e, row)
           g == Shuffled(row, e)
           A == 0 .. ((e * o) * row - 1)
           B == 0 .. 7
<1>1. f = [a \in A |-> f[a]]
  <2> HIDE DEF u
  <2> QED BY DEF Transpose
<1>2. g = [a \in A |-> g[a]]
  <2>1. (8 * e) * row = (e * o) * row
    BY DEF Sized
  <2> QED BY <2>1 DEF Shuffled
<1>3. ASSUME NEW a \in A PROVE f[a] = g[a]
  <2>1. PICK jj \in 0 .. (e - 1), ii \in 0 .. (o - 1), x \in 0 .. (row - 1) : a = Cell(Cell(jj, o, ii), row, x)
    <3>1. InCube(a, o, e, row)
      BY CubeOf
    <3> QED BY <3>1 DEF InCube
  <2>o. f = Transpose(u, o, e, row) /\ Lane = 0 .. (o - 1) /\ o = 8
    BY DEF Lane, Sized
  <2> HIDE DEF s, t, u, f, g, A
  <2>n. jj \in Nat /\ ii \in Nat /\ x \in Nat /\ ii \in Lane
    BY <2>o, <2>1
  <2>2. f[a] = u[Cell(Cell(ii, e, jj), row, x)]
    <3>2. Transpose(u, o, e, row)[Cell(Cell(jj, o, ii), row, x)] = u[Cell(Cell(ii, e, jj), row, x)]
      <4>1. Sends(u, o, e, row, jj, ii, x)
        BY TransposeSends
      <4> QED BY <4>1 DEF Sends
    <3> QED BY <2>1, <2>o, <3>2
  <2> DEFINE y == Cell(jj, row, x)
             r == Cell(jj, o, ii)
  <2>3. y \in 0 .. (q - 1)
    BY Grid DEF Sized
  <2>4. Cell(Cell(ii, e, jj), row, x) = Cell(ii, q, y)
    BY <2>n, CellSplit DEF Sized
  <2>5. u[Cell(ii, q, y)] = EightBits(t, y, ii)
    <3> HIDE DEF y
    <3> QED BY <2>n, <2>3, BitTransAt DEF u
  <2>6. ASSUME NEW b \in B PROVE BitAt(t, Cell(y, 8, b), ii) = MatrixBit(Cell(x, 8, b), e, r)
    <3> DEFINE i == Cell(x, 8, b)
               z == Cell(i, e, jj)
    <3>b. b \in 0 .. 7 /\ b \in Nat
      OBVIOUS
    <3>1. i \in 0 .. (n - 1)
      BY <2>n DEF Cell, Sized
    <3>2. Cell(y, 8, b) = Cell(jj, n, i)
      <4>1. n = row * o
        BY <2>o DEF Sized
      <4> HIDE DEF B
      <4>2. Cell(Cell(jj, row, x), o, b) = Cell(jj, n, Cell(x, o, b))
        BY <2>n, <2>o, <3>b, <4>1, CellSplit
      <4> QED BY <2>o, <4>2 DEF y, i
    <3>3. t[Cell(jj, n, i)] = s[z]
      <4>1. PICK k \in 0 .. (n - 1) : k = i
        BY <3>1
      <4> HIDE DEF i
      <4>2. ByteTrans(s, n, e)[Cell(jj, n, k)] = s[Cell(k, e, jj)]
        BY ByteTransValue
      <4> QED BY <4>1, <4>2 DEF t
    <3>4. z \in 0 .. (N - 1)
      <4> HIDE DEF i
      <4> QED BY <3>1, Grid DEF Sized
    <3>5. s[z] = [v \in B |-> SourceBit(z, v)]
      <4> HIDE DEF z
      <4> QED BY <3>4, SourceAt DEF s
    <3>6. ii \in B
      BY <2>n DEF Lane
    <3>7. SourceBit(z, ii) = MatrixBit(i, e, r)
      <4>1. r = Cell(jj, 8, ii)
        BY <2>o
      <4> HIDE DEF r, B
      <4> QED BY <2>n, <3>b, <4>1, BitOfElement
    <3> HIDE DEF B, z, i, r, y
    <3> QED BY <3>2, <3>3, <3>5, <3>6, <3>7 DEF BitAt, i
  <2>7. EightBits(t, y, ii) = [b \in B |-> MatrixBit(Cell(x, 8, b), e, r)]
    <3> HIDE DEF y, r
    <3> QED BY <2>6 DEF EightBits
  <2>8. r \in 0 .. (8 * e - 1)
    <3>1. r \in 0 .. (e * o - 1)
      BY <2>o, Grid
    <3> QED BY <2>o, <3>1
  <2>9. g[Cell(r, row, x)] = [b \in B |-> MatrixBit(Cell(x, 8, b), e, r)]
    <3> HIDE DEF r
    <3> QED BY <2>8, ShuffledAt DEF g
  <2> QED BY <2>1, <2>2, <2>4, <2>5, <2>7, <2>9
<1> HIDE DEF f, g, A
<1>4. f = g
  BY <1>1, <1>2, <1>3
<1> QED BY <1>4 DEF f, g, u, t, s

(* The eight-element transpose of the bit rows gives the block back.        *)
THEOREM UnshuffleOfShuffled ==
  ASSUME NEW row \in Nat, NEW e \in Nat, NEW N, N = (8 * row) * e
  PROVE  Eights(ByteTrans(Shuffled(row, e), 8 * e, row), row, e) = Source(N)
<1> DEFINE h == Shuffled(row, e)
           n == 8 * e
           t == ByteTrans(h, n, row)
           f == Eights(t, row, e)
           g == Source(N)
           A == 0 .. (row * n - 1)
           B == 0 .. 7
<1>0. n \in Nat /\ N = row * n
  BY DEF Cell
<1>1. f = [a \in A |-> f[a]]
  <2> HIDE DEF t
  <2> QED BY DEF Eights
<1>2. g = [a \in A |-> g[a]]
  <2>1. A = 0 .. (N - 1)
    BY <1>0
  <2> QED BY <2>1 DEF Source
<1>3. ASSUME NEW a \in A PROVE f[a] = g[a]
  <2> DEFINE x == a \div n
             z == a % n
             kk == z \div e
             j == z % e
             c == Cell(x, n, Cell(kk, e, j))
  <2>1. x \in 0 .. (row - 1) /\ z \in 0 .. (n - 1) /\ a = Cell(x, n, z)
    <3> HIDE DEF n
    <3> QED BY <1>0, OnGrid
  <2>2. kk \in Lane /\ j \in 0 .. (e - 1) /\ z = Cell(kk, e, j)
    <3> DEFINE o == 8
    <3>1. o \in Nat /\ z \in 0 .. (o * e - 1) /\ Lane = 0 .. (o - 1)
      BY <2>1 DEF Lane
    <3> HIDE DEF o, z
    <3> QED BY <3>1, OnGrid
  <2>n. x \in Nat /\ j \in Nat /\ kk \in Nat /\ kk \in B
    BY <2>1, <2>2 DEF Lane
  <2>3. a = c
    BY <2>1, <2>2
  <2> HIDE DEF x, z, kk, j, h, t, f, g, A, c, n
  <2>4. f[c] = EightBits(t, Cell(x, e, j), kk)
    <3> QED BY <2>1, <2>2, EightsAt DEF f, c, n
  <2>5. ASSUME NEW b \in B PROVE BitAt(t, Cell(Cell(x, e, j), 8, b), kk) = SourceBit(c, b)
    <3> DEFINE r == Cell(j, 8, b)
    <3>b. b \in 0 .. 7 /\ b \in Nat
      OBVIOUS
    <3>1. r \in 0 .. (n - 1)
      BY <2>2, <2>n DEF Cell, n
    <3>2. Cell(Cell(x, e, j), 8, b) = Cell(x, n, r)
      <4> DEFINE o == 8
      <4>1. o \in Nat /\ n = e * o /\ o = 8
        BY DEF n
      <4> HIDE DEF o, B
      <4>2. Cell(Cell(x, e, j), o, b) = Cell(x, n, Cell(j, o, b))
        BY <2>n, <3>b, <4>1, CellSplit
      <4> QED BY <4>1, <4>2 DEF r
    <3>3. t[Cell(x, n, r)] = h[Cell(r, row, x)]
      <4> HIDE DEF r
      <4> QED BY <1>0, <2>1, <3>1, ByteTransAt DEF t
    <3>4. h[Cell(r, row, x)] = [v \in B |-> MatrixBit(Cell(x, 8, v), e, r)]
      <4>1. r \in 0 .. (8 * e - 1)
        BY <3>1 DEF n
      <4> HIDE DEF r
      <4> QED BY <2>1, <4>1, ShuffledAt DEF h
    <3>5. MatrixBit(Cell(x, 8, kk), e, r) = SourceBit(Cell(Cell(x, 8, kk), e, j), b)
      <4>1. b \in Lane /\ kk \in 0 .. 7 /\ r = Cell(j, 8, b)
        BY <3>b, <2>n DEF Lane
      <4> HIDE DEF r, B
      <4> QED BY <2>1, <2>2, <4>1, BitOfElement
    <3>6. Cell(Cell(x, 8, kk), e, j) = c
      <4> DEFINE o == 8
      <4>1. o \in Nat /\ n = o * e /\ o = 8
        BY DEF n
      <4> HIDE DEF o, B
      <4>2. Cell(Cell(x, o, kk), e, j) = Cell(x, n, Cell(kk, e, j))
        BY <2>n, <4>1, CellSplit
      <4> QED BY <4>1, <4>2 DEF c
    <3> HIDE DEF B, r
    <3> QED BY <2>n, <3>2, <3>3, <3>4, <3>5, <3>6 DEF BitAt
  <2>6. EightBits(t, Cell(x, e, j), kk) = [b \in B |-> SourceBit(c, b)]
    BY <2>5 DEF EightBits
  <2>7. g[c] = [b \in B |-> SourceBit(c, b)]
    <3>1. c \in 0 .. (N - 1)
      BY <1>0, <2>3 DEF A
    <3> QED BY <3>1, SourceAt DEF g
  <2> QED BY <2>3, <2>4, <2>6, <2>7
<1> HIDE DEF f, g, A
<1>4. f = g
  BY <1>1, <1>2, <1>3
<1> QED BY <1>4 DEF f, g, t, h, n

(* Bit r of element i is bit i of row r of the transpose.                   *)
IsMatrix(m, n, e) ==
  \A r \in 0 .. (8 * e - 1), i \in 0 .. (n - 1) :
    m[(r * n + i) \div 8][(r * n + i) % 8] = {i * 8 * e + r}

(* The shuffled block is the transpose of the bit matrix.                   *)
LEMMA ShuffledBits ==
  ASSUME NEW row \in Nat, NEW e \in Nat, NEW n \in Nat, n = 8 * row
  PROVE  IsMatrix(Shuffled(row, e), n, e)
<1> SUFFICES ASSUME NEW r \in 0 .. (8 * e - 1), NEW i \in 0 .. (n - 1)
             PROVE  Shuffled(row, e)[(r * n + i) \div 8][(r * n + i) % 8] = {i * 8 * e + r}
  BY DEF IsMatrix
<1> DEFINE t == i \div 8
           b == i % 8
           B == 0 .. 7
           g == Shuffled(row, e)
           y == r * row + t
<1>1. t \in 0 .. (row - 1) /\ b \in B /\ i = 8 * t + b /\ t \in Nat
  OBVIOUS
<1>2. r * n = 8 * (r * row)
  OBVIOUS
<1>3. r * row \in Nat
  OBVIOUS
<1> HIDE DEF t, b, g
<1>4. y \in Nat /\ r * n + i = 8 * y + b
  <2> DEFINE u == r * row
  <2>1. u \in Nat /\ r * n = 8 * u
    BY <1>2, <1>3
  <2> HIDE DEF u
  <2>2. 8 * u + (8 * t + b) = 8 * (u + t) + b /\ u + t \in Nat
    BY <1>1, <2>1
  <2> QED BY <1>1, <2>1, <2>2 DEF u
<1>5. (r * n + i) \div 8 = y /\ (r * n + i) % 8 = b
  <2> HIDE DEF y
  <2>1. (8 * y + b) \div 8 = y /\ (8 * y + b) % 8 = b
    BY <1>1, <1>4
  <2> QED BY <1>4, <2>1
<1>6. y = Cell(r, row, t)
  BY DEF Cell
<1>7. g[Cell(r, row, t)] = [v \in B |-> MatrixBit(Cell(t, 8, v), e, r)]
  BY <1>1, ShuffledAt DEF g
<1>8. MatrixBit(Cell(t, 8, b), e, r) = {i * 8 * e + r}
  <2>1. Cell(t, 8, b) = i
    BY <1>1 DEF Cell
  <2>2. i * (8 * e) = i * 8 * e
    OBVIOUS
  <2>3. MatrixBit(i, e, r) = {i * (8 * e) + r}
    BY DEF MatrixBit, Cell
  <2> QED BY <2>1, <2>2, <2>3
<1> HIDE DEF B, y
<1>9. g[y][b] = {i * 8 * e + r}
  BY <1>1, <1>6, <1>7, <1>8
<1> QED BY <1>5, <1>9 DEF g

-----------------------------------------------------------------------------
(* Each worker, on a block of n elements of e bytes, N bytes in all.        *)

(* W fills a buffer of N bytes with F, and no two loops of W store to the   *)
(* same byte of it.                                                         *)
Fills(W, F, N) ==
  /\ N \in Nat /\ F = [a \in 0 .. (N - 1) |-> F[a]]
  /\ Covers(Stores(W), F, 0 .. (N - 1)) /\ DisjointLoops(W)

LEMMA WorksFills ==
  ASSUME NEW W, NEW F, NEW N \in Nat, F = [a \in 0 .. (N - 1) |-> F[a]], Works(W, F, 0 .. (N - 1))
  PROVE  Fills(W, F, N)
BY DEF Fills, Works

(* A worker that fills its buffer leaves the function there and strays nowhere. *)
LEMMA PutFills ==
  ASSUME NEW m, NEW W, NEW F, NEW N, Fills(W, F, N), DOMAIN m = 0 .. (N - 1)
  PROVE  Put(m, W) = F /\ ~ Strays(m, W)
BY PutWorks DEF Fills, Works

(* Elements of one byte.                                                    *)
LEMMA CopyFills ==
  ASSUME NEW n \in Nat, NEW row \in Nat, NEW e \in Nat, NEW N \in Nat, NEW q \in Nat, NEW o \in Nat,
         Sized(n, row, e, N, q, o), NEW m, e = 1
  PROVE  Fills(<<bshuf_copy(m, n, e)>>, ByteTrans(m, n, e), N)
<1>1. Covers(bshuf_copy(m, n, 1), ByteTrans(m, n, 1), 0 .. (n * 1 - 1))
  BY CopyCovers
<1>2. ByteTrans(m, n, 1) = [a \in 0 .. (n * 1 - 1) |-> ByteTrans(m, n, 1)[a]]
  BY DEF ByteTrans
<1>3. n * 1 = N
  BY DEF Sized
<1>4. Works(<<bshuf_copy(m, n, 1)>>, ByteTrans(m, n, 1), 0 .. (n * 1 - 1))
  BY <1>1, OneLoop
<1> QED BY <1>2, <1>3, <1>4, WorksFills

(* Elements of two, four and eight bytes.                                   *)
LEMMA WideFills ==
  ASSUME NEW n \in Nat, NEW row \in Nat, NEW e \in {2, 4, 8}, NEW N \in Nat, NEW q \in Nat, NEW o \in Nat,
         Sized(n, row, e, N, q, o), NEW m, Buffer(m, n, e)
  PROVE  Fills(TransByteElemSSE(m, n, e), ByteTrans(m, n, e), N)
<1>1. Works(TransByteElemSSE(m, n, e), ByteTrans(m, n, e), 0 .. (n * e - 1))
  BY SSEByteElem
<1>2. ByteTrans(m, n, e) = [a \in 0 .. (n * e - 1) |-> ByteTrans(m, n, e)[a]]
  BY DEF ByteTrans
<1>3. n * e = N
  BY DEF Sized
<1> QED BY <1>1, <1>2, <1>3, WorksFills

(* Elements of any size, byte by byte.                                      *)
LEMMA NarrowFills ==
  ASSUME NEW n \in Nat, NEW row \in Nat, NEW e \in Nat, NEW N \in Nat, NEW q \in Nat, NEW o \in Nat,
         Sized(n, row, e, N, q, o), NEW m
  PROVE  Fills(TransByteElemRemainder(m, n, e, 0), ByteTrans(m, n, e), N)
<1> DEFINE z == 0
           A == 0 .. (N - 1)
<1>z. z \in Nat /\ z % 8 = 0 /\ z <= n /\ z = 0
  OBVIOUS
<1>n. n * e = N
  BY DEF Sized
<1>1. Rect(n, 0 .. (e - 1), 0 .. (n - 1)) = A
  BY <1>n, RectAll
<1>2. ByteTrans(m, n, e) = [a \in A |-> ByteTrans(m, n, e)[a]]
  <2>1. ByteTrans(m, n, e) = [a \in 0 .. (n * e - 1) |-> ByteTrans(m, n, e)[a]]
    BY DEF ByteTrans
  <2> QED BY <2>1, <1>n
<1> HIDE DEF z
<1>3. Works(TransByteElemRemainder(m, n, e, z), ByteTrans(m, n, e), Rect(n, 0 .. (e - 1), z .. (n - 1)))
  BY <1>z, ByteElemRemainderWorks
<1>4. Works(TransByteElemRemainder(m, n, e, 0), ByteTrans(m, n, e), A)
  <2> HIDE DEF A
  <2> QED BY <1>z, <1>1, <1>3
<1> QED BY <1>2, <1>4, WorksFills

(* Elements into chunks.                                                    *)
LEMMA SplitFills ==
  ASSUME NEW n \in Nat, NEW c \in Nat, NEW w \in Nat, NEW N \in Nat, N = (c * n) * w, NEW m
  PROVE  Fills(TransElemType(m, n, c, w), Transpose(m, n, c, w), N)
<1>1. Works(TransElemType(m, n, c, w), Transpose(m, n, c, w), 0 .. (N - 1))
  BY TransElemTypeWorks
<1>2. Transpose(m, n, c, w) = [a \in 0 .. (N - 1) |-> Transpose(m, n, c, w)[a]]
  BY DEF Transpose
<1> QED BY <1>1, <1>2, WorksFills

(* Chunks into elements, and bit rows into their order.                     *)
LEMMA JoinFills ==
  ASSUME NEW n \in Nat, NEW c \in Nat, NEW w \in Nat, NEW N \in Nat, N = (c * w) * n, NEW m
  PROVE  Fills(<<TransElem(m, w, c, n)>>, Transpose(m, w, c, n), N)
<1>1. Covers(TransElem(m, w, c, n), Transpose(m, w, c, n), 0 .. (N - 1))
  BY TransElemCovers
<1>2. Transpose(m, w, c, n) = [a \in 0 .. (N - 1) |-> Transpose(m, w, c, n)[a]]
  BY DEF Transpose
<1>3. Works(<<TransElem(m, w, c, n)>>, Transpose(m, w, c, n), 0 .. (N - 1))
  BY <1>1, OneLoop
<1> QED BY <1>2, <1>3, WorksFills

LEMMA SizedBits ==
  ASSUME NEW n \in Nat, NEW row \in Nat, NEW e \in Nat, NEW N \in Nat, NEW q \in Nat, NEW o \in Nat,
         Sized(n, row, e, N, q, o)
  PROVE  N = 8 * q /\ n * e = 8 * q
BY DEF Sized

(* The byte transpose of the inverse.                                       *)
LEMMA RowFills ==
  ASSUME NEW n \in Nat, NEW row \in Nat, NEW e \in Nat, NEW N \in Nat, NEW q \in Nat, NEW o \in Nat,
         Sized(n, row, e, N, q, o), NEW m, NEW W,
         Works(W, ByteTrans(m, 8 * e, row), 0 .. ((8 * e) * row - 1))
  PROVE  Fills(W, ByteTrans(m, 8 * e, row), N)
<1>1. (8 * e) * row = N
  BY DEF Sized
<1>2. ByteTrans(m, 8 * e, row) = [a \in 0 .. (N - 1) |-> ByteTrans(m, 8 * e, row)[a]]
  BY <1>1 DEF ByteTrans
<1> QED BY <1>1, <1>2, WorksFills

(* The bit transpose of the inverse.                                        *)
LEMMA EightFills ==
  ASSUME NEW n \in Nat, NEW row \in Nat, NEW e \in Nat, NEW N \in Nat, NEW q \in Nat, NEW o \in Nat,
         Sized(n, row, e, N, q, o), NEW m, NEW W,
         Covers(W, Eights(m, row, e), 0 .. (row * (8 * e) - 1))
  PROVE  Fills(<<W>>, Eights(m, row, e), N)
<1>1. row * (8 * e) = N
  BY DEF Sized
<1>2. Eights(m, row, e) = [a \in 0 .. (N - 1) |-> Eights(m, row, e)[a]]
  BY <1>1 DEF Eights
<1>3. Works(<<W>>, Eights(m, row, e), 0 .. (N - 1))
  BY <1>1, OneLoop
<1> QED BY <1>2, <1>3, WorksFills

-----------------------------------------------------------------------------
(* What the buffers hold between two workers.                               *)

Bytes == size * elem_size
Matrix == Shuffled(size \div 8, elem_size)
Pieces == Transpose(in, size, nchunk_elem, Width)
Planes == ByteTrans(in, size, elem_size)

Contents ==
  /\ IF side = "shuffle" THEN in = Source(Bytes) ELSE size % 8 = 0 /\ in = Matrix
  /\ todo \notin {"call", "done"} => size % 8 = 0
  /\ todo \in {"byte_elem", "chunks", "join", "bit_byte", "bitrow_eight"} => side = "shuffle"
  /\ todo \in {"byte_bitrow", "bit_eightelem"} => side = "unshuffle"
  /\ todo \in {"chunks", "join"} => Hierarchical
  /\ todo = "chunks" => out = Pieces
  /\ todo = "join" => chunk = ByteTrans(Pieces, size * nchunk_elem, Width)
  /\ todo = "bit_byte" => out = Planes
  /\ todo = "bitrow_eight" => tmp = BitTrans(Planes, elem_size * (size \div 8))
  /\ todo = "bit_eightelem" => tmp = ByteTrans(in, 8 * elem_size, size \div 8)
  /\ (todo = "done" /\ ret > 0) =>
       /\ size % 8 = 0
       /\ out = IF side = "shuffle" THEN Matrix ELSE Source(Bytes)

TransInv == BuffersOK /\ Contents

(* The sizes of the block of the call, as numbers.                          *)
Measured(n, row, e, N, q, o) ==
  /\ Sized(n, row, e, N, q, o)
  /\ n = size /\ e = elem_size /\ N = Bytes /\ row = size \div 8 /\ q = elem_size * (size \div 8)

(* No block is empty.                                                       *)
LEMMA Measures ==
  ASSUME BuffersOK
  PROVE  size \in Nat \ {0} /\ elem_size \in Nat \ {0} /\ Bytes \in Nat \ {0}
<1>1. size \in Nat \ {0} /\ elem_size \in Nat \ {0}
  BY JobsAssumption DEF BuffersOK
<1>2. \A x, y \in Nat \ {0} : x * y \in Nat \ {0}
  OBVIOUS
<1> QED BY <1>1, <1>2 DEF Bytes

(* A block whose size is a multiple of eight has its sizes.                 *)
LEMMA Measure ==
  ASSUME BuffersOK, size % 8 = 0
  PROVE  \E n, row, e, N, q, o \in Nat : Measured(n, row, e, N, q, o)
<1>1. size \in Nat /\ elem_size \in Nat /\ Bytes \in Nat
  BY Measures
<1> DEFINE row == size \div 8
           q == elem_size * row
           o == 8
<1>2. row \in Nat /\ size = 8 * row
  BY <1>1
<1>3. q \in Nat /\ o \in Nat
  <2> HIDE DEF row
  <2> QED BY <1>1, <1>2
<1>4. Measured(size, row, elem_size, Bytes, q, o)
  <2>1. Sized(size, row, elem_size, Bytes, q, o)
    BY <1>2 DEF Sized, Bytes
  <2> QED BY <2>1 DEF Measured
<1> HIDE DEF row, q, o
<1> QED BY <1>1, <1>2, <1>3, <1>4

-----------------------------------------------------------------------------
(* Each worker of each build.                                               *)

LEMMA SourceBuffer ==
  ASSUME NEW n, NEW e, NEW N, N = n * e
  PROVE  Buffer(Source(N), n, e)
BY SourceIsBytes DEF Buffer

(* The byte transpose of elements that are not split, whatever the build.   *)
LEMMA DirectStores ==
  ASSUME BuffersOK, size % 8 = 0, in = Source(Bytes), ~ Hierarchical
  PROVE  Fills(TransByteElemDirect, Planes, Bytes)
<1>1. PICK n, row, e, N, q, o \in Nat : Measured(n, row, e, N, q, o)
  BY Measure
<1>2. Sized(n, row, e, N, q, o) /\ n = size /\ e = elem_size /\ N = Bytes
  BY <1>1 DEF Measured
<1>3. CASE ~ Scalar /\ e = 1
  <2>1. Fills(<<bshuf_copy(in, n, e)>>, ByteTrans(in, n, e), N)
    BY <1>2, <1>3, CopyFills
  <2>2. TransByteElemDirect = <<bshuf_copy(in, n, e)>>
    BY <1>2, <1>3 DEF TransByteElemDirect
  <2> QED BY <1>2, <2>1, <2>2 DEF Planes
<1>4. CASE ~ Scalar /\ e \in {2, 4, 8}
  <2>1. Buffer(in, n, e)
    BY <1>2, SourceBuffer DEF Sized
  <2>2. PICK k \in {2, 4, 8} : k = e
    BY <1>4
  <2>3. Fills(TransByteElemSSE(in, n, k), ByteTrans(in, n, k), N)
    BY <1>2, <2>1, <2>2, WideFills
  <2>4. TransByteElemDirect = TransByteElemSSE(in, n, e)
    <3>1. e # 1
      BY <1>4
    <3>2. TransByteElemDirect = TransByteElemVec(in, n, e)
      BY <1>2, <1>4, <3>1 DEF TransByteElemDirect
    <3> QED BY <3>2 DEF TransByteElemVec, TransByteElemNEON
  <2> QED BY <1>2, <2>2, <2>3, <2>4 DEF Planes
<1>5. CASE ~ (~ Scalar /\ e = 1) /\ ~ (~ Scalar /\ e \in {2, 4, 8})
  <2>1. Fills(TransByteElemRemainder(in, n, e, 0), ByteTrans(in, n, e), N)
    BY <1>2, NarrowFills
  <2>2. TransByteElemDirect = TransByteElemRemainder(in, n, e, 0)
    BY <1>2, <1>5 DEF TransByteElemDirect
  <2> QED BY <1>2, <2>1, <2>2 DEF Planes
<1> QED BY <1>3, <1>4, <1>5

(* An element that is split is a whole number of chunks.                    *)
LEMMA ChunkWidth ==
  ASSUME BuffersOK, Hierarchical
  PROVE  /\ nchunk_elem \in Nat /\ Width \in {4, 8} /\ Width \in Nat
         /\ elem_size = nchunk_elem * Width /\ ~ Scalar
<1>1. elem_size \in Nat
  BY Measures
<1>2. elem_size % 4 = 0 /\ ~ Scalar
  BY DEF Hierarchical
<1>3. CASE elem_size % 8 = 0
  BY <1>1, <1>2, <1>3 DEF Width, nchunk_elem
<1>4. CASE elem_size % 8 # 0
  BY <1>1, <1>2, <1>4 DEF Width, nchunk_elem
<1> QED BY <1>3, <1>4

(* The block in chunks: c chunks of w bytes an element, k chunks in all.    *)
Chunked(n, e, c, w, k) == n = size /\ e = elem_size /\ c = nchunk_elem /\ w = Width /\ k = size * nchunk_elem
                          /\ e = c * w /\ k = n * c

(* A block that is split has its sizes.                                     *)
LEMMA Chunks ==
  ASSUME BuffersOK, Hierarchical
  PROVE  \E n, e, c, k \in Nat, w \in {4, 8} : Chunked(n, e, c, w, k)
<1>1. size \in Nat /\ elem_size \in Nat
  BY Measures
<1>2. nchunk_elem \in Nat /\ Width \in {4, 8} /\ elem_size = nchunk_elem * Width
  BY ChunkWidth
<1> DEFINE k == size * nchunk_elem
<1>3. k \in Nat
  <2> HIDE DEF nchunk_elem
  <2> QED BY <1>1, <1>2
<1>4. Chunked(size, elem_size, nchunk_elem, Width, k)
  <2> HIDE DEF nchunk_elem, Width
  <2> QED BY <1>2 DEF Chunked
<1> HIDE DEF k, nchunk_elem, Width
<1> QED BY <1>1, <1>2, <1>3, <1>4

LEMMA ChunkBytes ==
  ASSUME BuffersOK, NEW n \in Nat, NEW e \in Nat, NEW c \in Nat, NEW w \in Nat, NEW k \in Nat,
         Chunked(n, e, c, w, k)
  PROVE  Bytes \in Nat /\ Bytes = n * e /\ Bytes = (c * n) * w /\ Bytes = (c * w) * n /\ Bytes = k * w
<1>1. Bytes = n * e
  BY DEF Bytes, Chunked
<1>2. e = c * w /\ k = n * c
  BY DEF Chunked
<1>3. n * (c * w) = (c * n) * w /\ n * (c * w) = (c * w) * n /\ n * (c * w) = (n * c) * w
  OBVIOUS
<1> QED BY <1>1, <1>2, <1>3, Measures

(* The three workers of the byte transpose of elements that are split.      *)
LEMMA SplitStores ==
  ASSUME BuffersOK, Hierarchical
  PROVE  Fills(TransElemType(in, size, nchunk_elem, Width), Pieces, Bytes)
<1>1. PICK n, e, c, k \in Nat, w \in {4, 8} : Chunked(n, e, c, w, k)
  BY Chunks
<1>2. PICK x, N \in Nat : x = w /\ N = Bytes
  BY Measures
<1>3. N = (c * n) * x
  BY <1>1, <1>2, ChunkBytes
<1>4. Fills(TransElemType(in, n, c, x), Transpose(in, n, c, x), N)
  BY <1>3, SplitFills
<1>5. n = size /\ c = nchunk_elem /\ x = Width
  BY <1>1, <1>2 DEF Chunked
<1> QED BY <1>2, <1>4, <1>5 DEF Pieces

LEMMA ChunkStores ==
  ASSUME BuffersOK, Hierarchical, in = Source(Bytes), out = Pieces
  PROVE  Fills(TransByteElemVec(out, size * nchunk_elem, Width),
               ByteTrans(Pieces, size * nchunk_elem, Width), Bytes)
<1>1. PICK n, e, c, k \in Nat, w \in {4, 8} : Chunked(n, e, c, w, k)
  BY Chunks
<1>2. PICK x \in Nat : x = w
  OBVIOUS
<1>b. /\ Bytes \in Nat /\ Bytes = n * e /\ Bytes = k * w
  BY <1>1, <1>2, ChunkBytes
<1>3. PICK N \in Nat : N = Bytes
  BY <1>b
<1> DEFINE P == Transpose(in, n, c, x)
<1>4. n = size /\ c = nchunk_elem /\ x = Width /\ k = size * nchunk_elem
  BY <1>1, <1>2 DEF Chunked
<1>5. Buffer(in, n, e)
  BY <1>b, SourceBuffer
<1>6. k = n * c /\ e = c * x
  BY <1>1, <1>2 DEF Chunked
<1>7. Buffer(P, k, x)
  BY <1>5, <1>6, TransposeBytes
<1> HIDE DEF P
<1>8. Fills(TransByteElemSSE(P, k, w), ByteTrans(P, k, w), N)
  <2>1. w \in {2, 4, 8}
    OBVIOUS
  <2>2. Works(TransByteElemSSE(P, k, w), ByteTrans(P, k, w), 0 .. (k * w - 1))
    BY <1>2, <1>7, <2>1, SSEByteElem
  <2>3. ByteTrans(P, k, w) = [a \in 0 .. (k * w - 1) |-> ByteTrans(P, k, w)[a]]
    BY DEF ByteTrans
  <2>4. k * w = N
    BY <1>b, <1>3
  <2> QED BY <2>2, <2>3, <2>4, WorksFills
<1>9. P = Pieces
  BY <1>4 DEF P, Pieces
<1>10. TransByteElemVec(out, k, w) = TransByteElemSSE(P, k, w)
  BY <1>9 DEF TransByteElemVec, TransByteElemNEON
<1> QED BY <1>2, <1>3, <1>4, <1>8, <1>9, <1>10

LEMMA JoinStores ==
  ASSUME BuffersOK, Hierarchical, chunk = ByteTrans(Pieces, size * nchunk_elem, Width)
  PROVE  Fills(<<TransElem(chunk, Width, nchunk_elem, size)>>, Planes, Bytes)
<1>1. PICK n, e, c, k \in Nat, w \in {4, 8} : Chunked(n, e, c, w, k)
  BY Chunks
<1>2. PICK x \in Nat : x = w
  OBVIOUS
<1>b. /\ Bytes \in Nat /\ Bytes = (c * x) * n
  BY <1>1, <1>2, ChunkBytes
<1>3. PICK N \in Nat : N = Bytes
  BY <1>b
<1>4. n = size /\ e = elem_size /\ c = nchunk_elem /\ x = Width /\ k = size * nchunk_elem
  BY <1>1, <1>2 DEF Chunked
<1>5. ChunkSizes(n, e, c, x, k)
  BY <1>1, <1>2 DEF Chunked, ChunkSizes
<1> DEFINE t == ByteTrans(Transpose(in, n, c, x), k, x)
<1>6. Fills(<<TransElem(t, x, c, n)>>, Transpose(t, x, c, n), N)
  <2> HIDE DEF t
  <2> QED BY <1>b, <1>3, JoinFills
<1>7. Transpose(t, x, c, n) = ByteTrans(in, n, e)
  BY <1>5, ChunksJoined
<1>8. t = chunk
  BY <1>4 DEF Pieces
<1> HIDE DEF t
<1> QED BY <1>3, <1>4, <1>6, <1>7, <1>8 DEF Planes

(* The loops of bshuf_trans_bit_byte of every build, wide ones and          *)
(* remainder, share out the buffer: each byte of it is stored by one of     *)
(* them and no other, with the bits BitTrans says.                          *)
THEOREM BitStores ==
  ASSUME BuffersOK, size % 8 = 0, NEW b \in BuildNames
  PROVE  Fills(TransBitByteOf(b), BitTrans(out, elem_size * (size \div 8)), Bytes)
<1>1. PICK n, row, e, N, q, o \in Nat : Measured(n, row, e, N, q, o)
  BY Measure
<1>2. Sized(n, row, e, N, q, o) /\ n = size /\ e = elem_size /\ N = Bytes /\ q = elem_size * (size \div 8)
  BY <1>1 DEF Measured
<1>3. N = 8 * q /\ n * e = 8 * q
  BY <1>2, SizedBits
<1> DEFINE F == BitTrans(out, q)
           A == 0 .. (8 * q - 1)
<1>4. /\ Works(TransBitByteAVX512(out, n, e), F, A)
      /\ Works(TransBitByteAVX(out, n, e), F, A)
      /\ Works(TransBitByteSSE(out, n, e), F, A)
      /\ Works(TransBitByteNEON(out, n, e), F, A)
  BY <1>3, AVX512BitByte, AVXBitByte, SSEBitByte, NEONBitByte
<1>5. Works(<<RemainderLE(out, n, e, 0)>>, F, A) /\ Works(<<RemainderBE(out, n, e, 0)>>, F, A)
  BY <1>3, ScalarBitByte, OneLoop
<1> HIDE DEF A
<1>6. Works(TransBitByteOf(b), F, A)
  <2> HIDE DEF F
  <2>1. CASE b = "AVX512"
    BY <1>2, <1>4, <2>1 DEF TransBitByteOf
  <2>2. CASE b = "AVX2"
    BY <1>2, <1>4, <2>2 DEF TransBitByteOf
  <2>3. CASE b = "SSE2"
    BY <1>2, <1>4, <2>3 DEF TransBitByteOf
  <2>4. CASE b = "NEON"
    BY <1>2, <1>4, <2>4 DEF TransBitByteOf
  <2>5. CASE b = "LE"
    <3>1. TransBitByteOf(b) = <<RemainderLE(out, size, elem_size, 0)>>
      BY <2>5 DEF TransBitByteOf, RemainderLE
    <3> QED BY <1>2, <1>5, <3>1
  <2>6. CASE b = "BE"
    <3>1. TransBitByteOf(b) = <<RemainderBE(out, size, elem_size, 0)>>
      BY <2>6 DEF TransBitByteOf, RemainderBE
    <3> QED BY <1>2, <1>5, <3>1
  <2> QED BY <2>1, <2>2, <2>3, <2>4, <2>5, <2>6 DEF BuildNames
<1>7. Fills(TransBitByteOf(b), F, N)
  <2> HIDE DEF F
  <2>1. Works(TransBitByteOf(b), F, 0 .. (N - 1))
    BY <1>3, <1>6 DEF A
  <2>2. F = [a \in 0 .. (N - 1) |-> F[a]]
    BY <1>3 DEF F, BitTrans
  <2> QED BY <2>1, <2>2, WorksFills
<1> QED BY <1>2, <1>7

(* The last worker puts the transpose of the bit matrix in the output.      *)
LEMMA BitrowStores ==
  ASSUME BuffersOK, size % 8 = 0, in = Source(Bytes), tmp = BitTrans(Planes, elem_size * (size \div 8))
  PROVE  Fills(<<TransBitrowEight(tmp, size, elem_size)>>, Matrix, Bytes)
<1>1. PICK n, row, e, N, q, o \in Nat : Measured(n, row, e, N, q, o)
  BY Measure
<1>2. /\ Sized(n, row, e, N, q, o) /\ n = size /\ e = elem_size /\ N = Bytes
      /\ q = elem_size * (size \div 8) /\ row = size \div 8
  BY <1>1 DEF Measured
<1>3. N = (e * o) * row /\ o = 8
  BY <1>2 DEF Sized
<1>4. Fills(<<TransElem(tmp, o, e, row)>>, Transpose(tmp, o, e, row), N)
  BY <1>3, JoinFills
<1>5. tmp = BitTrans(ByteTrans(Source(N), n, e), q)
  BY <1>2 DEF Planes
<1>6. Transpose(tmp, o, e, row) = Shuffled(row, e)
  BY <1>2, <1>5, ShuffleOfSource
<1>7. TransBitrowEight(tmp, size, elem_size) = TransElem(tmp, o, e, row)
  BY <1>2, <1>3 DEF TransBitrowEight
<1>8. Matrix = Shuffled(row, e)
  BY <1>2 DEF Matrix
<1>9. Fills(<<TransBitrowEight(tmp, size, elem_size)>>, Matrix, N)
  BY <1>4, <1>6, <1>7, <1>8
<1> QED BY <1>2, <1>9

(* The loops of bshuf_trans_byte_bitrow of every build, whatever tiles they *)
(* work in, share out the buffer: each byte of it is stored by one of them  *)
(* and no other, and they are the bytes of the bit rows.                    *)
THEOREM ByteBitrowStores ==
  ASSUME BuffersOK, size % 8 = 0, in = Matrix, NEW b \in BuildNames
  PROVE  Fills(TransByteBitrowOf(b), ByteTrans(in, 8 * elem_size, size \div 8), Bytes)
<1>1. PICK n, row, e, N, q, o \in Nat : Measured(n, row, e, N, q, o)
  BY Measure
<1>2. /\ Sized(n, row, e, N, q, o) /\ n = size /\ e = elem_size /\ N = Bytes
      /\ row = size \div 8
  BY <1>1 DEF Measured
<1>3. n = 8 * row
  BY <1>2 DEF Sized
<1> DEFINE F == ByteTrans(in, 8 * e, row)
           A == 0 .. ((8 * e) * row - 1)
<1>4. Buffer(in, 8 * e, row)
  BY <1>2, ShuffledBytes DEF Matrix
<1>5. Works(<<TransByteBitrowScal(in, n, e)>>, F, A)
  BY <1>3, ByteBitrowScalCovers, OneLoop
<1>6. Works(TransByteBitrowSSE(in, n, e), F, A)
  BY <1>3, <1>4, SSEBitrow
<1>7. Works(TransByteBitrowAVX(in, n, e), F, A)
  BY <1>3, <1>4, AVXBitrow
<1> HIDE DEF A
<1>8. Works(TransByteBitrowOf(b), F, A)
  <2> HIDE DEF F
  <2>1. CASE b \in {"AVX512", "AVX2"}
    BY <1>2, <1>7, <2>1 DEF TransByteBitrowOf
  <2>2. CASE b = "SSE2"
    BY <1>2, <1>6, <2>2 DEF TransByteBitrowOf
  <2>3. CASE b = "NEON"
    BY <1>2, <1>6, <2>3 DEF TransByteBitrowOf, TransByteBitrowNEON
  <2>4. CASE b \in {"LE", "BE"}
    BY <1>2, <1>5, <2>4 DEF TransByteBitrowOf
  <2> QED BY <2>1, <2>2, <2>3, <2>4 DEF BuildNames
<1>9. Fills(TransByteBitrowOf(b), F, N)
  BY <1>2, <1>8, RowFills DEF A
<1> QED BY <1>2, <1>9

(* The loop of bshuf_shuffle_bit_eightelem of every build stores in every   *)
(* byte of the buffer the one of the source block, when the bit rows hold   *)
(* the transpose.                                                           *)
THEOREM EightelemStores ==
  ASSUME BuffersOK, size % 8 = 0, NEW b \in BuildNames, in = Matrix,
         tmp = ByteTrans(in, 8 * elem_size, size \div 8)
  PROVE  Fills(<<ShuffleBitEightelemOf(b)>>, Source(Bytes), Bytes)
<1>1. PICK n, row, e, N, q, o \in Nat : Measured(n, row, e, N, q, o)
  BY Measure
<1>2. /\ Sized(n, row, e, N, q, o) /\ n = size /\ e = elem_size /\ N = Bytes
      /\ row = size \div 8
  BY <1>1 DEF Measured
<1>3. n = 8 * row /\ N = (8 * row) * e
  BY <1>2 DEF Sized
<1>e. e > 0
  BY <1>2, Measures
<1> DEFINE F == Eights(tmp, row, e)
           A == 0 .. (row * (8 * e) - 1)
<1>4. Covers(ShuffleBitEightelemAVX512(tmp, n, e), F, A)
  BY <1>3, <1>e, AVX512Eightelem
<1>5. Covers(ShuffleBitEightelemAVX(tmp, n, e), F, A)
  BY <1>3, <1>e, AVXEightelem
<1>6. Covers(ShuffleBitEightelemSSE(tmp, n, e), F, A)
  BY <1>3, <1>e, SSEEightelem
<1>7. Covers(ShuffleBitEightelemNEON(tmp, n, e), F, A)
  BY <1>3, <1>e, NEONEightelem
<1>8. Covers(EightelemLE(tmp, n, e), F, A)
  BY <1>3, <1>e, EightelemLECovers
<1>9. Covers(EightelemBE(tmp, n, e), F, A)
  BY <1>3, <1>e, EightelemBECovers
<1> HIDE DEF A
<1>10. Covers(ShuffleBitEightelemOf(b), F, A)
  <2> HIDE DEF F
  <2>1. CASE b = "AVX512"
    BY <1>2, <1>4, <2>1 DEF ShuffleBitEightelemOf
  <2>2. CASE b = "AVX2"
    BY <1>2, <1>5, <2>2 DEF ShuffleBitEightelemOf
  <2>3. CASE b = "SSE2"
    BY <1>2, <1>6, <2>3 DEF ShuffleBitEightelemOf
  <2>4. CASE b = "NEON"
    BY <1>2, <1>7, <2>4 DEF ShuffleBitEightelemOf
  <2>5. CASE b = "LE"
    <3>1. ShuffleBitEightelemOf(b) = EightelemLE(tmp, size, elem_size)
      BY <2>5 DEF ShuffleBitEightelemOf, EightelemLE
    <3> QED BY <1>2, <1>8, <3>1
  <2>6. CASE b = "BE"
    <3>1. ShuffleBitEightelemOf(b) = EightelemBE(tmp, size, elem_size)
      BY <2>6 DEF ShuffleBitEightelemOf, EightelemBE
    <3> QED BY <1>2, <1>9, <3>1
  <2> QED BY <2>1, <2>2, <2>3, <2>4, <2>5, <2>6 DEF BuildNames
<1>11. Fills(<<ShuffleBitEightelemOf(b)>>, F, N)
  BY <1>2, <1>10, EightFills DEF A
<1>12. F = Source(N)
  <2>1. tmp = ByteTrans(Shuffled(row, e), 8 * e, row)
    BY <1>2 DEF Matrix
  <2>2. Eights(ByteTrans(Shuffled(row, e), 8 * e, row), row, e) = Source(N)
    BY <1>3, UnshuffleOfShuffled
  <2> QED BY <2>1, <2>2
<1> HIDE DEF F
<1> QED BY <1>2, <1>11, <1>12

-----------------------------------------------------------------------------
(* Every step keeps the invariant.                                          *)

(* The type invariant, its parts named.                                     *)
BlockOK ==
  /\ <<size, elem_size>> \in Jobs
  /\ side \in {"shuffle", "unshuffle"}
  /\ DOMAIN in = 0 .. (Bytes - 1)
CallOK ==
  /\ build \in Builds \union {"none"}
  /\ ret \in {0, -1, -80, Bytes} /\ (ret = 0 <=> todo # "done")
  /\ (todo \in {"call", "done"}) <=> build = "none"
TempsOK ==
  /\ DOMAIN out = 0 .. (Bytes - 1)
  /\ IF todo \in {"call", "done"} THEN tmp = Free ELSE DOMAIN tmp = 0 .. (Bytes - 1)
  /\ IF todo \in {"chunks", "join"} THEN DOMAIN chunk = 0 .. (Bytes - 1) ELSE chunk = Free
  /\ ~ stray

LEMMA BuffersParts == BuffersOK <=> BlockOK /\ CallOK /\ TempsOK
BY DEF BuffersOK, BlockOK, CallOK, TempsOK, Bytes

LEMMA BuffersNext ==
  ASSUME BlockOK', CallOK', TempsOK'
  PROVE  BuffersOK'
BY DEF BuffersOK, BlockOK, CallOK, TempsOK, Bytes

(* What a worker leaves in a buffer it fills.                               *)
LEMMA Filled ==
  ASSUME NEW m, NEW W, NEW F, NEW N, Fills(W, F, N), DOMAIN m = 0 .. (N - 1)
  PROVE  Put(m, W) = F /\ ~ Strays(m, W) /\ DOMAIN F = 0 .. (N - 1)
<1>1. F = [a \in 0 .. (N - 1) |-> F[a]]
  BY DEF Fills
<1>2. DOMAIN F = 0 .. (N - 1)
  BY <1>1
<1> QED BY <1>2, PutFills

(* The sizes stay with the block.                                           *)
LEMMA BlockSame ==
  ASSUME UNCHANGED <<size, elem_size>>
  PROVE  Bytes' = Bytes /\ Matrix' = Matrix /\ nchunk_elem' = nchunk_elem /\ Width' = Width
BY DEF Bytes, Matrix, nchunk_elem, Width

LEMMA InputSame ==
  ASSUME UNCHANGED <<size, elem_size, in, side>>
  PROVE  Planes' = Planes /\ Pieces' = Pieces /\ (BlockOK => BlockOK')
<1>1. Bytes' = Bytes /\ nchunk_elem' = nchunk_elem /\ Width' = Width
  BY BlockSame
<1> HIDE DEF nchunk_elem, Width
<1> QED BY <1>1 DEF Planes, Pieces, BlockOK

(* One lemma per action.                                                    *)
LEMMA ElemStep ==
  ASSUME TransInv, TransByteElem
  PROVE  TransInv'
<1>1. BlockOK /\ CallOK /\ TempsOK /\ Contents
  BY BuffersParts DEF TransInv
<1>2. todo = "byte_elem" /\ ~ Hierarchical /\ UNCHANGED <<size, elem_size, build, side, in, tmp, chunk, ret>> /\ todo' = "bit_byte"
  BY DEF TransByteElem
<1>3. side = "shuffle" /\ size % 8 = 0 /\ in = Source(Bytes)
  BY <1>1, <1>2 DEF Contents
<1>4. Fills(TransByteElemDirect, Planes, Bytes)
  BY <1>2, <1>3, DirectStores DEF TransInv
<1>5. Put(out, TransByteElemDirect) = Planes /\ ~ Strays(out, TransByteElemDirect) /\ DOMAIN Planes = 0 .. (Bytes - 1)
  BY <1>1, <1>4, Filled DEF TempsOK
<1>6. out' = Planes /\ stray' = FALSE
  BY <1>1, <1>5 DEF TransByteElem, TempsOK
<1>7. Bytes' = Bytes /\ Planes' = Planes /\ BlockOK'
  BY <1>1, <1>2, BlockSame, InputSame
<1>8. CallOK' /\ TempsOK'
  BY <1>1, <1>2, <1>5, <1>6, <1>7 DEF CallOK, TempsOK
<1>9. Contents'
  BY <1>2, <1>3, <1>6, <1>7 DEF Contents
<1>10. BuffersOK'
  BY <1>7, <1>8, BuffersNext
<1> QED BY <1>9, <1>10 DEF TransInv

LEMMA SplitStep ==
  ASSUME TransInv, SplitIntoChunks
  PROVE  TransInv'
<1>1. BlockOK /\ CallOK /\ TempsOK /\ Contents
  BY BuffersParts DEF TransInv
<1>2. todo = "byte_elem" /\ Hierarchical /\ UNCHANGED <<size, elem_size, side, in>>
  BY DEF SplitIntoChunks
<1>3. side = "shuffle" /\ size % 8 = 0 /\ in = Source(Bytes)
  BY <1>1, <1>2 DEF Contents
<1>4. Bytes' = Bytes /\ Pieces' = Pieces /\ BlockOK' /\ Bytes \in Nat
  BY <1>1, <1>2, BlockSame, InputSame, Measures DEF TransInv
<1>5. CASE ReturnOf(-1) /\ tmp' = Free /\ UNCHANGED <<out, chunk, stray>>
  <2>1. todo' = "done" /\ ret' = -1 /\ build' = "none"
    BY <1>5 DEF ReturnOf
  <2>2. CallOK' /\ TempsOK'
    BY <1>1, <1>2, <1>4, <1>5, <2>1 DEF CallOK, TempsOK
  <2>3. Contents'
    BY <1>2, <1>3, <1>4, <2>1 DEF Contents
  <2>4. BuffersOK'
    BY <1>4, <2>2, BuffersNext
  <2> QED BY <2>3, <2>4 DEF TransInv
<1> DEFINE W == TransElemType(in, size, nchunk_elem, Width)
<1>6. CASE /\ chunk' = Junk(size * elem_size)
           /\ out' = Put(out, W)
           /\ stray' = (stray \/ Strays(out, W))
           /\ todo' = "chunks"
           /\ UNCHANGED <<tmp, build, ret>>
  <2>1. Fills(W, Pieces, Bytes)
    BY <1>2, SplitStores DEF TransInv
  <2>2. Put(out, W) = Pieces /\ ~ Strays(out, W) /\ DOMAIN Pieces = 0 .. (Bytes - 1)
    BY <1>1, <2>1, Filled DEF TempsOK
  <2>3. DOMAIN chunk' = 0 .. (Bytes - 1)
    BY <1>6 DEF Junk, Bytes
  <2> HIDE DEF W
  <2>4. out' = Pieces /\ stray' = FALSE
    BY <1>1, <1>6, <2>2 DEF TempsOK
  <2>5. CallOK' /\ TempsOK'
    BY <1>1, <1>2, <1>4, <1>6, <2>2, <2>3, <2>4 DEF CallOK, TempsOK
  <2>6. Hierarchical'
    BY <1>2, <1>6 DEF Hierarchical, Scalar
  <2>7. Contents'
    BY <1>2, <1>3, <1>4, <1>6, <2>4, <2>6 DEF Contents
  <2>8. BuffersOK'
    BY <1>4, <2>5, BuffersNext
  <2> QED BY <2>7, <2>8 DEF TransInv
<1> QED BY <1>5, <1>6 DEF SplitIntoChunks

LEMMA ChunkStep ==
  ASSUME TransInv, TransByteChunks
  PROVE  TransInv'
<1> DEFINE W == TransByteElemVec(out, size * nchunk_elem, Width)
           F == ByteTrans(Pieces, size * nchunk_elem, Width)
<1>1. BlockOK /\ CallOK /\ TempsOK /\ Contents
  BY BuffersParts DEF TransInv
<1>2. /\ todo = "chunks" /\ todo' = "join"
      /\ UNCHANGED <<size, elem_size, build, side, in, out, tmp, ret>>
      /\ chunk' = Put(chunk, W) /\ stray' = (stray \/ Strays(chunk, W))
  BY DEF TransByteChunks
<1>3. side = "shuffle" /\ size % 8 = 0 /\ in = Source(Bytes) /\ Hierarchical /\ out = Pieces
  BY <1>1, <1>2 DEF Contents
<1>4. Fills(W, F, Bytes)
  BY <1>3, ChunkStores DEF TransInv
<1>5. DOMAIN chunk = 0 .. (Bytes - 1)
  BY <1>1, <1>2 DEF TempsOK
<1>6. Put(chunk, W) = F /\ ~ Strays(chunk, W) /\ DOMAIN F = 0 .. (Bytes - 1)
  <2> HIDE DEF W, F
  <2> QED BY <1>4, <1>5, Filled
<1>7. Bytes' = Bytes /\ Pieces' = Pieces /\ BlockOK' /\ nchunk_elem' = nchunk_elem /\ Width' = Width
  BY <1>1, <1>2, BlockSame, InputSame
<1>8. F' = F
  <2> HIDE DEF nchunk_elem, Width
  <2> QED BY <1>2, <1>7
<1>9. chunk' = F' /\ stray' = FALSE
  <2> HIDE DEF W, F
  <2> QED BY <1>1, <1>2, <1>6, <1>8 DEF TempsOK
<1>10. DOMAIN chunk' = 0 .. (Bytes - 1)
  <2> HIDE DEF W, F
  <2> QED BY <1>6, <1>8, <1>9
<1>11. CallOK' /\ TempsOK'
  <2> HIDE DEF W, F
  <2> QED BY <1>1, <1>2, <1>7, <1>9, <1>10 DEF CallOK, TempsOK
<1>12. Hierarchical'
  BY <1>2, <1>3 DEF Hierarchical, Scalar
<1>13. Contents'
  <2>1. side' = "shuffle" /\ size' % 8 = 0 /\ in' = Source(Bytes') /\ todo' = "join"
    BY <1>2, <1>3, <1>7
  <2>2. chunk' = ByteTrans(Pieces', size' * nchunk_elem', Width')
    BY <1>9
  <2> HIDE DEF nchunk_elem, Width
  <2> QED BY <1>12, <2>1, <2>2 DEF Contents
<1>14. BuffersOK'
  BY <1>7, <1>11, BuffersNext
<1> QED BY <1>13, <1>14 DEF TransInv

LEMMA JoinStep ==
  ASSUME TransInv, JoinChunks
  PROVE  TransInv'
<1> DEFINE W == <<TransElem(chunk, Width, nchunk_elem, size)>>
<1>1. BlockOK /\ CallOK /\ TempsOK /\ Contents
  BY BuffersParts DEF TransInv
<1>2. /\ todo = "join" /\ todo' = "bit_byte" /\ chunk' = Free
      /\ UNCHANGED <<size, elem_size, build, side, in, tmp, ret>>
      /\ out' = Put(out, W) /\ stray' = (stray \/ Strays(out, W))
  BY DEF JoinChunks
<1>3. /\ side = "shuffle" /\ size % 8 = 0 /\ in = Source(Bytes) /\ Hierarchical
      /\ chunk = ByteTrans(Pieces, size * nchunk_elem, Width)
  BY <1>1, <1>2 DEF Contents
<1>4. Fills(W, Planes, Bytes)
  BY <1>3, JoinStores DEF TransInv
<1>5. Put(out, W) = Planes /\ ~ Strays(out, W) /\ DOMAIN Planes = 0 .. (Bytes - 1)
  <2> HIDE DEF W
  <2> QED BY <1>1, <1>4, Filled DEF TempsOK
<1> HIDE DEF W
<1>6. out' = Planes /\ stray' = FALSE
  BY <1>1, <1>2, <1>5 DEF TempsOK
<1>7. Bytes' = Bytes /\ Planes' = Planes /\ BlockOK'
  BY <1>1, <1>2, BlockSame, InputSame
<1>8. CallOK' /\ TempsOK'
  BY <1>1, <1>2, <1>5, <1>6, <1>7 DEF CallOK, TempsOK
<1>9. Contents'
  BY <1>2, <1>3, <1>6, <1>7 DEF Contents
<1>10. BuffersOK'
  BY <1>7, <1>8, BuffersNext
<1> QED BY <1>9, <1>10 DEF TransInv

(* Between the entry and the return a build runs.                           *)
LEMMA BuildRuns ==
  ASSUME CallOK, todo \notin {"call", "done"}
  PROVE  build \in BuildNames
BY BuildsAssumption DEF CallOK

LEMMA BitStep ==
  ASSUME TransInv, TransBitByte
  PROVE  TransInv'
<1> DEFINE W == TransBitByteOf(build)
           F == BitTrans(Planes, elem_size * (size \div 8))
<1>1. BlockOK /\ CallOK /\ TempsOK /\ Contents
  BY BuffersParts DEF TransInv
<1>2. /\ todo = "bit_byte" /\ todo' = "bitrow_eight"
      /\ UNCHANGED <<size, elem_size, build, side, in, out, chunk, ret>>
      /\ tmp' = Put(tmp, W) /\ stray' = (stray \/ Strays(tmp, W))
  BY DEF TransBitByte
<1>3. side = "shuffle" /\ size % 8 = 0 /\ in = Source(Bytes) /\ out = Planes
  BY <1>1, <1>2 DEF Contents
<1>4. Fills(W, F, Bytes)
  <2>1. build \in BuildNames
    BY <1>1, <1>2, BuildRuns
  <2> QED BY <1>3, <2>1, BitStores DEF TransInv
<1>5. F' = F
  <2>1. Planes' = Planes
    BY <1>2, InputSame
  <2> QED BY <1>2, <2>1
<1>6. Put(tmp, W) = F /\ ~ Strays(tmp, W) /\ DOMAIN F = 0 .. (Bytes - 1)
  <2> HIDE DEF W, F
  <2>1. DOMAIN tmp = 0 .. (Bytes - 1)
    BY <1>1, <1>2 DEF TempsOK
  <2> QED BY <1>4, <2>1, Filled
<1>7. Bytes' = Bytes /\ BlockOK'
  BY <1>1, <1>2, BlockSame, InputSame
<1>8. tmp' = F' /\ stray' = FALSE
  <2> HIDE DEF W, F
  <2> QED BY <1>1, <1>2, <1>5, <1>6 DEF TempsOK
<1>9. CallOK' /\ TempsOK'
  <2> HIDE DEF W, F
  <2> QED BY <1>1, <1>2, <1>5, <1>6, <1>7, <1>8 DEF CallOK, TempsOK
<1>10. Contents'
  BY <1>2, <1>3, <1>7, <1>8 DEF Contents
<1>11. BuffersOK'
  BY <1>7, <1>9, BuffersNext
<1> QED BY <1>10, <1>11 DEF TransInv

LEMMA BitrowStep ==
  ASSUME TransInv, TransBitrow
  PROVE  TransInv'
<1> DEFINE W == <<TransBitrowEight(tmp, size, elem_size)>>
<1>1. BlockOK /\ CallOK /\ TempsOK /\ Contents
  BY BuffersParts DEF TransInv
<1>2. /\ todo = "bitrow_eight" /\ todo' = "done" /\ build' = "none" /\ tmp' = Free
      /\ ret' = Bytes /\ UNCHANGED <<size, elem_size, side, in, chunk>>
      /\ out' = Put(out, W) /\ stray' = (stray \/ Strays(out, W))
  BY DEF TransBitrow, ReturnOf, Bytes
<1>3. /\ side = "shuffle" /\ size % 8 = 0 /\ in = Source(Bytes)
      /\ tmp = BitTrans(Planes, elem_size * (size \div 8))
  BY <1>1, <1>2 DEF Contents
<1>4. Fills(W, Matrix, Bytes)
  BY <1>3, BitrowStores DEF TransInv
<1> HIDE DEF W
<1>5. Put(out, W) = Matrix /\ ~ Strays(out, W) /\ DOMAIN Matrix = 0 .. (Bytes - 1)
  BY <1>1, <1>4, Filled DEF TempsOK
<1>6. out' = Matrix /\ stray' = FALSE
  BY <1>1, <1>2, <1>5 DEF TempsOK
<1>7. Bytes' = Bytes /\ Matrix' = Matrix /\ BlockOK' /\ Bytes \in Nat \ {0}
  BY <1>1, <1>2, BlockSame, InputSame, Measures DEF TransInv
<1>8. CallOK' /\ TempsOK'
  BY <1>1, <1>2, <1>5, <1>6, <1>7 DEF CallOK, TempsOK
<1>9. Contents'
  BY <1>2, <1>3, <1>6, <1>7 DEF Contents
<1>10. BuffersOK'
  BY <1>7, <1>8, BuffersNext
<1> QED BY <1>9, <1>10 DEF TransInv

LEMMA DeliverStep ==
  ASSUME TransInv, Deliver
  PROVE  TransInv'
<1>1. BlockOK /\ CallOK /\ TempsOK /\ Contents
  BY BuffersParts DEF TransInv
<1>2. /\ todo = "done" /\ side = "shuffle" /\ ret > 0
      /\ in' = out /\ out' = Junk(size * elem_size) /\ side' = "unshuffle"
      /\ todo' = "call" /\ ret' = 0
      /\ UNCHANGED <<size, elem_size, build, tmp, chunk, stray>>
  BY DEF Deliver
<1>3. size % 8 = 0 /\ out = Matrix
  BY <1>1, <1>2 DEF Contents
<1>4. Bytes' = Bytes /\ Matrix' = Matrix
  BY <1>2, BlockSame
<1>5. DOMAIN out' = 0 .. (Bytes - 1)
  BY <1>2 DEF Junk, Bytes
<1>6. DOMAIN in' = 0 .. (Bytes - 1)
  BY <1>1, <1>2 DEF TempsOK
<1>7. BlockOK'
  BY <1>1, <1>2, <1>4, <1>6 DEF BlockOK
<1>8. CallOK'
  BY <1>1, <1>2, <1>4 DEF CallOK
<1>9. TempsOK'
  BY <1>1, <1>2, <1>4, <1>5 DEF TempsOK
<1>10. Contents'
  BY <1>2, <1>3, <1>4 DEF Contents
<1>11. BuffersOK'
  BY <1>7, <1>8, <1>9, BuffersNext
<1> QED BY <1>10, <1>11 DEF TransInv

LEMMA ByteBitrowStep ==
  ASSUME TransInv, TransByteBitrow
  PROVE  TransInv'
<1> DEFINE W == TransByteBitrowOf(build)
           F == ByteTrans(in, 8 * elem_size, size \div 8)
<1>1. BlockOK /\ CallOK /\ TempsOK /\ Contents
  BY BuffersParts DEF TransInv
<1>2. /\ todo = "byte_bitrow" /\ todo' = "bit_eightelem"
      /\ UNCHANGED <<size, elem_size, build, side, in, out, chunk, ret>>
      /\ tmp' = Put(tmp, W) /\ stray' = (stray \/ Strays(tmp, W))
  BY DEF TransByteBitrow
<1>3. side = "unshuffle" /\ size % 8 = 0 /\ in = Matrix
  BY <1>1, <1>2 DEF Contents
<1>4. Fills(W, F, Bytes)
  <2>1. build \in BuildNames
    BY <1>1, <1>2, BuildRuns
  <2> QED BY <1>3, <2>1, ByteBitrowStores DEF TransInv
<1>5. F' = F
  BY <1>2
<1>6. Put(tmp, W) = F /\ ~ Strays(tmp, W) /\ DOMAIN F = 0 .. (Bytes - 1)
  <2> HIDE DEF W, F
  <2>1. DOMAIN tmp = 0 .. (Bytes - 1)
    BY <1>1, <1>2 DEF TempsOK
  <2> QED BY <1>4, <2>1, Filled
<1>7. Bytes' = Bytes /\ Matrix' = Matrix /\ BlockOK'
  BY <1>1, <1>2, BlockSame, InputSame
<1>8. tmp' = F' /\ stray' = FALSE
  <2> HIDE DEF W, F
  <2> QED BY <1>1, <1>2, <1>5, <1>6 DEF TempsOK
<1>9. CallOK' /\ TempsOK'
  <2> HIDE DEF W, F
  <2> QED BY <1>1, <1>2, <1>5, <1>6, <1>7, <1>8 DEF CallOK, TempsOK
<1>10. Contents'
  BY <1>2, <1>3, <1>7, <1>8 DEF Contents
<1>11. BuffersOK'
  BY <1>7, <1>9, BuffersNext
<1> QED BY <1>10, <1>11 DEF TransInv

LEMMA EightelemStep ==
  ASSUME TransInv, ShuffleBitEightelem
  PROVE  TransInv'
<1> DEFINE W == <<ShuffleBitEightelemOf(build)>>
           F == Source(Bytes)
<1>1. BlockOK /\ CallOK /\ TempsOK /\ Contents
  BY BuffersParts DEF TransInv
<1>2. /\ todo = "bit_eightelem" /\ todo' = "done" /\ build' = "none" /\ tmp' = Free
      /\ ret' = Bytes /\ UNCHANGED <<size, elem_size, side, in, chunk>>
      /\ out' = Put(out, W) /\ stray' = (stray \/ Strays(out, W))
  BY DEF ShuffleBitEightelem, ReturnOf, Bytes
<1>3. /\ side = "unshuffle" /\ size % 8 = 0 /\ in = Matrix
      /\ tmp = ByteTrans(in, 8 * elem_size, size \div 8)
  BY <1>1, <1>2 DEF Contents
<1>4. Fills(W, F, Bytes)
  <2>1. build \in BuildNames
    BY <1>1, <1>2, BuildRuns
  <2> QED BY <1>3, <2>1, EightelemStores DEF TransInv
<1> HIDE DEF W, F
<1>5. Put(out, W) = F /\ ~ Strays(out, W) /\ DOMAIN F = 0 .. (Bytes - 1)
  BY <1>1, <1>4, Filled DEF TempsOK
<1>6. out' = F /\ stray' = FALSE
  BY <1>1, <1>2, <1>5 DEF TempsOK
<1>7. Bytes' = Bytes /\ Matrix' = Matrix /\ BlockOK' /\ Bytes \in Nat \ {0}
  BY <1>1, <1>2, BlockSame, InputSame, Measures DEF TransInv
<1>8. CallOK' /\ TempsOK'
  BY <1>1, <1>2, <1>5, <1>6, <1>7 DEF CallOK, TempsOK
<1>9. Contents'
  BY <1>2, <1>3, <1>6, <1>7 DEF Contents, F
<1>10. BuffersOK'
  BY <1>7, <1>8, BuffersNext
<1> QED BY <1>9, <1>10 DEF TransInv

LEMMA CallStep ==
  ASSUME TransInv, NEW b \in Builds, Call(b)
  PROVE  TransInv'
<1>1. BlockOK /\ CallOK /\ TempsOK /\ Contents
  BY BuffersParts DEF TransInv
<1>2. /\ todo = "call" /\ UNCHANGED <<size, elem_size, side, in, out, chunk, stray>>
  BY DEF Call
<1>3. Bytes' = Bytes /\ Matrix' = Matrix /\ BlockOK' /\ Bytes \in Nat \ {0}
  BY <1>1, <1>2, BlockSame, InputSame, Measures DEF TransInv
<1>4. CASE ret' \in {-1, -80} /\ todo' = "done" /\ build' = "none" /\ UNCHANGED tmp
  <2>1. CallOK' /\ TempsOK'
    BY <1>1, <1>2, <1>3, <1>4 DEF CallOK, TempsOK
  <2>2. Contents'
    <3>1. ~ (ret' > 0)
      BY <1>4
    <3> QED BY <1>1, <1>2, <1>3, <1>4, <3>1 DEF Contents
  <2>3. BuffersOK'
    BY <1>3, <2>1, BuffersNext
  <2> QED BY <2>2, <2>3 DEF TransInv
<1>5. CASE /\ size % 8 = 0
           /\ tmp' = Junk(size * elem_size)
           /\ build' = b
           /\ todo' = IF side = "shuffle" THEN "byte_elem" ELSE "byte_bitrow"
           /\ UNCHANGED ret
  <2>1. DOMAIN tmp' = 0 .. (Bytes - 1)
    BY <1>5 DEF Junk, Bytes
  <2>2. b # "none"
    BY BuildsAssumption DEF BuildNames
  <2>3. CallOK' /\ TempsOK'
    BY <1>1, <1>2, <1>3, <1>5, <2>1, <2>2 DEF CallOK, TempsOK
  <2>4. Contents'
    BY <1>1, <1>2, <1>3, <1>5 DEF Contents, BlockOK
  <2>5. BuffersOK'
    BY <1>3, <2>3, BuffersNext
  <2> QED BY <2>4, <2>5 DEF TransInv
<1> QED BY <1>4, <1>5 DEF Call, ReturnOf

(* The invariant holds at the first call.                                   *)
LEMMA TransStarts ==
  ASSUME TransInit
  PROVE  TransInv
<1>1. size \in Nat /\ elem_size \in Nat /\ <<size, elem_size>> \in Jobs
  <2>1. PICK j \in Jobs : size = j[1] /\ elem_size = j[2]
    BY DEF TransInit
  <2>2. j = <<j[1], j[2]>> /\ j[1] \in Nat /\ j[2] \in Nat
    BY JobsAssumption
  <2> QED BY <2>1, <2>2
<1>2. DOMAIN in = 0 .. (Bytes - 1) /\ DOMAIN out = 0 .. (Bytes - 1)
  BY DEF TransInit, Source, Junk, Bytes
<1>3. BlockOK /\ CallOK /\ TempsOK
  BY <1>1, <1>2 DEF TransInit, BlockOK, CallOK, TempsOK
<1>4. Contents
  BY DEF TransInit, Contents, Bytes
<1> QED BY <1>3, <1>4, BuffersParts DEF TransInv

LEMMA TransStays ==
  ASSUME TransInv, UNCHANGED transVars
  PROVE  TransInv'
<1>1. /\ size' = size /\ elem_size' = elem_size /\ build' = build /\ side' = side /\ todo' = todo
      /\ in' = in /\ out' = out /\ tmp' = tmp /\ chunk' = chunk /\ ret' = ret /\ stray' = stray
  BY DEF transVars
<1>2. /\ Bytes' = Bytes /\ Matrix' = Matrix /\ nchunk_elem' = nchunk_elem /\ Width' = Width
      /\ Planes' = Planes /\ Pieces' = Pieces
  BY <1>1, BlockSame, InputSame
<1>3. Hierarchical' = Hierarchical
  BY <1>1 DEF Hierarchical, Scalar
<1>4. BuffersOK'
  BY <1>1 DEF TransInv, BuffersOK
<1>5. Contents'
  <2>1. Contents
    BY DEF TransInv
  <2> HIDE DEF nchunk_elem, Width
  <2> QED BY <1>1, <1>2, <1>3, <2>1 DEF Contents
<1> QED BY <1>4, <1>5 DEF TransInv

(* The invariant the three properties follow from, TransInv: buffers and    *)
(* temporaries are as BuffersOK says, and before each worker the buffer it  *)
(* reads holds the function of the block that the workers before it compose *)
(* to (Contents), whichever builds have run.                                *)
THEOREM TransInductive == TransSpec => []TransInv
<1>1. TransInit => TransInv
  BY TransStarts
<1>2. TransInv /\ [TransNext]_transVars => TransInv'
  <2> SUFFICES ASSUME TransInv, [TransNext]_transVars PROVE TransInv'
    OBVIOUS
  <2>1. ASSUME NEW b \in Builds, Call(b) PROVE TransInv'
    BY <2>1, CallStep
  <2>2. CASE TransByteElem
    BY <2>2, ElemStep
  <2>3. CASE SplitIntoChunks
    BY <2>3, SplitStep
  <2>4. CASE TransByteChunks
    BY <2>4, ChunkStep
  <2>5. CASE JoinChunks
    BY <2>5, JoinStep
  <2>6. CASE TransBitByte
    BY <2>6, BitStep
  <2>7. CASE TransBitrow
    BY <2>7, BitrowStep
  <2>8. CASE Deliver
    BY <2>8, DeliverStep
  <2>9. CASE TransByteBitrow
    BY <2>9, ByteBitrowStep
  <2>10. CASE ShuffleBitEightelem
    BY <2>10, EightelemStep
  <2>11. CASE Finished \/ UNCHANGED transVars
    BY <2>11, TransStays DEF Finished
  <2> QED BY <2>1, <2>2, <2>3, <2>4, <2>5, <2>6, <2>7, <2>8, <2>9, <2>10, <2>11 DEF TransNext
<1> QED BY <1>1, <1>2, PTL DEF TransSpec

(* For every set of blocks and of builds: buffers stay whole, temporaries are *)
(* freed on every path, no worker stores outside its buffer and no two loops *)
(* of a worker store to the same byte.                                      *)
THEOREM TransBuffers == TransSpec => []BuffersOK
<1>1. TransInv => BuffersOK
  BY DEF TransInv
<1> QED BY <1>1, TransInductive, PTL

(* A successful shuffle is the transpose of the bit matrix, for every size of *)
(* a block and every build.                                                 *)
THEOREM TransTransposed == TransSpec => []Transposed
<1>1. TransInv => Transposed
  <2> SUFFICES ASSUME TransInv, todo = "done", side = "shuffle", ret > 0
               PROVE  IsMatrix(out, size, elem_size)
    BY DEF Transposed, IsMatrix
  <2>1. BuffersOK /\ size % 8 = 0 /\ out = Matrix
    BY DEF TransInv, Contents
  <2>2. PICK n, row, e, N, q, o \in Nat : Measured(n, row, e, N, q, o)
    BY <2>1, Measure
  <2>3. Sized(n, row, e, N, q, o) /\ n = size /\ e = elem_size /\ row = size \div 8
    BY <2>2 DEF Measured
  <2>4. n = 8 * row
    BY <2>3 DEF Sized
  <2>5. IsMatrix(Shuffled(row, e), n, e)
    BY <2>4, ShuffledBits
  <2> QED BY <2>1, <2>3, <2>5 DEF Matrix
<1> QED BY <1>1, TransInductive, PTL

(* The inverse gives the block back, for every size, every build that wrote *)
(* it and every build that reads it.                                        *)
THEOREM TransRestored == TransSpec => []Restored
<1>1. TransInv => Restored
  BY DEF TransInv, Contents, Restored, Bytes
<1> QED BY <1>1, TransInductive, PTL
=============================================================================
