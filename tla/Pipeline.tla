------------------------------ MODULE Pipeline ------------------------------
(***************************************************************************)
(* compress and decompress of the programs that put one codec behind the   *)
(* serialiser of the TON library: solution_tiny_lzma_bitshuffle.cpp, which *)
(* tries every element size and keeps the shortest stream, solution_tiny_  *)
(* lzma.cpp, and the three over a vendored codec, solution.cpp (LZ4),      *)
(* solution_lzma_long.cpp (LZMA SDK) and solution_zpaq.cpp.                *)
(*                                                                         *)
(* A stream is known by what its reader meets: the element size its bytes  *)
(* were shuffled by, their number, the stream's length and whether it is   *)
(* whole, for the codecs' errors are ignored on both sides.  How the codec *)
(* works is in LzmaPackets and RangeCoder, how a shuffle works and which   *)
(* errors it has in IOChain and BitTranspose.                              *)
(***************************************************************************)
EXTENDS Integers

CONSTANTS
  Texts,        \* serialised blocks
  Size,         \* their lengths
  NoText, Lost, \* no result yet; no result, or not the text
  MaxEs,        \* the largest element size tried: 1024
  Cap,          \* 2 << 20, of the writer's buffer and of the reader's
  Slack,        \* what the writer's buffer adds: 4096
  TwoBytes, FourBytes, \* the ranges of the header's words: 2^16 and 2^32
  SizeMax,      \* the length of no stream
  Longest(_)    \* the longest stream a codec makes of so many bytes

\* Mutant: a text that is a whole number of elements is padded too.
PadAlways(n, e) == e - (n % e)

Pad(n, e) == IF n % e = 0 THEN 0 ELSE e - (n % e)

Padded(n, e) == n + Pad(n, e)

\* lzma_compress: the size of its output buffer.
Room(n) == LET want == n + (n \div 4) + Slack
           IN IF want > Cap THEN Cap ELSE want

Lengths == UNION {{Padded(Size[t], e) : e \in 1..MaxEs} : t \in Texts}

ASSUME PipelineAssumption ==
  /\ Size \in [Texts -> Nat \ {0}]
  /\ NoText \notin Texts /\ Lost \notin Texts /\ NoText # Lost
  /\ MaxEs \in Nat \ {0} /\ Cap \in Nat \ {0} /\ Slack \in Nat
  /\ TwoBytes \in Nat /\ FourBytes \in Nat /\ SizeMax \in Nat
  /\ MaxEs < TwoBytes /\ TwoBytes <= FourBytes
  /\ \A n \in Lengths : Longest(n) \in Nat /\ Longest(n) < SizeMax /\ Room(n) < SizeMax

Shuffling == {"bitshuffle"}
Buffered  == {"bitshuffle", "tiny_lzma"}             \* the writer's buffer is capped
Limited   == {"bitshuffle", "tiny_lzma", "lz4"}      \* so is the reader's
Programs  == {"bitshuffle", "tiny_lzma", "lz4", "lzma_long", "zpaq"}

VARIABLES
  prog, text,
  oom,       \* an allocation may fail
  pc,
  es,        \* the element size tried
  best,      \* best_elem_size, best_padding, best_compressed
  archive,   \* what compress returns
  decoded,   \* what the reader's codec, and the unshuffle, leave in the buffer
  result

vars == <<prog, text, oom, pc, es, best, archive, decoded, result>>

Streams == [by : 1..MaxEs, size : Nat, len : Nat, whole : BOOLEAN]

NoStream == [by |-> 1, size |-> 0, len |-> SizeMax, whole |-> FALSE]

NoBest == [es |-> 1, pad |-> 0, stream |-> NoStream]

TypeOK ==
  /\ prog \in Programs /\ text \in Texts /\ oom \in BOOLEAN
  /\ pc \in {"try", "read", "unshuffle", "parse", "done"}
  /\ es \in 1..(MaxEs + 1)
  /\ best \in [es : 1..MaxEs, pad : 0..(MaxEs - 1), stream : Streams]
  /\ archive \in [es : 0..(TwoBytes - 1), pad : 0..(FourBytes - 1), stream : Streams]
  /\ decoded \in [len : Nat, ok : BOOLEAN]
  /\ result \in Texts \cup {NoText, Lost}

Init ==
  /\ prog \in Programs /\ text \in Texts /\ oom \in BOOLEAN
  /\ pc = "try" /\ es = 1 /\ best = NoBest /\ archive = NoBest
  /\ decoded = [len |-> 0, ok |-> FALSE]
  /\ result = NoText
-----------------------------------------------------------------------------
(* What the writer's codec may leave in its buffer of n bytes shuffled by e. *)
(* When the stream does not fit, or its tables cannot be allocated, the      *)
(* ignored error leaves dst_len at the size of the whole buffer.             *)
Whole(n, e) ==
  {[by |-> e, size |-> n, len |-> l, whole |-> TRUE] :
     l \in {k \in 1..Longest(n) : prog \in Buffered => k <= Room(n)}}

Cut(n, e) ==
  {s \in {[by |-> e, size |-> n, len |-> Room(n), whole |-> FALSE]} :
     oom \/ (prog \in Buffered /\ Longest(n) > Room(n))}

Compressed(n, e) == Whole(n, e) \cup Cut(n, e)

\* Mutant: the padding of the first stream is kept with a later one.
KeepWithoutPad(s) == [es |-> es, pad |-> best.pad, stream |-> s]

\* One element size: a shuffle that fails is skipped, a shorter stream kept.
Keep(s) == [es |-> es, pad |-> Pad(Size[text], es), stream |-> s]

TryElemSize ==
  /\ pc = "try" /\ prog \in Shuffling /\ es <= MaxEs
  /\ \E s \in Compressed(Padded(Size[text], es), es) :
       best' = IF s.len < best.stream.len THEN Keep(s) ELSE best
  /\ es' = es + 1
  /\ UNCHANGED <<prog, text, oom, pc, archive, decoded, result>>

SkipElemSize ==
  /\ pc = "try" /\ prog \in Shuffling /\ es <= MaxEs /\ oom
  /\ es' = es + 1
  /\ UNCHANGED <<prog, text, oom, pc, best, archive, decoded, result>>

\* The six header bytes and the stream.
Header(b) == [es |-> b.es % TwoBytes, pad |-> b.pad % FourBytes, stream |-> b.stream]

Assemble ==
  /\ pc = "try" /\ prog \in Shuffling /\ es > MaxEs /\ best # NoBest
  /\ archive' = Header(best) /\ pc' = "read"
  /\ UNCHANGED <<prog, text, oom, es, best, decoded, result>>

\* The programs with nothing to choose.
Compress ==
  /\ pc = "try" /\ prog \notin Shuffling
  /\ \E s \in Compressed(Size[text], 1) : archive' = [es |-> 1, pad |-> 0, stream |-> s]
  /\ pc' = "read"
  /\ UNCHANGED <<prog, text, oom, es, best, decoded, result>>

(* What the reader's codec may leave: dst_len is the uncompressed length    *)
(* that the stream names, unless that is more than its buffer holds, and    *)
(* less where bits that are not the stream's look like an end mark.         *)
Refuses(s) == prog \in Limited /\ s.size > Cap

Decoded(s) ==
  IF Refuses(s) THEN {[len |-> Cap, ok |-> FALSE]}
  ELSE {d \in [len : 0..s.size, ok : BOOLEAN] :
          /\ d.ok => d.len = s.size
          /\ (s.whole /\ ~oom) => d.ok}

Decompress ==
  /\ pc = "read"
  /\ decoded' \in Decoded(archive.stream)
  /\ pc' = IF prog \in Shuffling THEN "unshuffle" ELSE "parse"
  /\ UNCHANGED <<prog, text, oom, es, best, archive, result>>

\* bshuf_bitunshuffle by the header's element size; its error is ignored.
Undoes == archive.es = archive.stream.by /\ decoded.len % archive.stream.by = 0

Unshuffle ==
  /\ pc = "unshuffle"
  /\ \E done \in {TRUE, ~oom} : decoded' = [decoded EXCEPT !.ok = @ /\ done /\ Undoes]
  /\ pc' = "parse"
  /\ UNCHANGED <<prog, text, oom, es, best, archive, result>>

\* Bytes after the text may or may not be refused by the library.
Left == decoded.len - archive.pad

Parse ==
  /\ pc = "parse" /\ pc' = "done"
  /\ \/ decoded.ok /\ Left >= Size[text] /\ result' = text
     \/ ~(decoded.ok /\ Left = Size[text]) /\ result' = Lost
  /\ UNCHANGED <<prog, text, oom, es, best, archive, decoded>>

\* Without any stream best_size is SIZE_MAX: six bytes more wrap to five.
Wrap ==
  /\ pc = "try" /\ prog \in Shuffling /\ es > MaxEs /\ best = NoBest
  /\ pc' = "done" /\ result' = Lost
  /\ UNCHANGED <<prog, text, oom, es, best, archive, decoded>>

\* A vector or a buffer that cannot be allocated, a CHECK or move_as_ok.
Abort ==
  /\ pc # "done" /\ oom
  /\ pc' = "done" /\ result' = Lost
  /\ UNCHANGED <<prog, text, oom, es, best, archive, decoded>>

Stopped == pc = "done" /\ UNCHANGED vars

Next ==
  \/ TryElemSize \/ SkipElemSize \/ Assemble \/ Wrap \/ Compress
  \/ Decompress \/ Unshuffle \/ Parse \/ Abort \/ Stopped

Spec == Init /\ [][Next]_vars /\ WF_vars(Next)
-----------------------------------------------------------------------------
\* The lengths the codec is given in this run.
Given == IF prog \in Shuffling THEN {Padded(Size[text], e) : e \in 1..MaxEs} ELSE {Size[text]}

\* The buffers may be too small for some of them, or memory may run out.
Short ==
  \/ oom
  \/ \E n \in Given : \/ prog \in Buffered /\ Longest(n) > Room(n)
                      \/ prog \in Limited /\ n > Cap

(***************************************************************************)
(* The program does what tests/run_tests.py asks of it: the block comes    *)
(* back, unless a buffer may be too short or memory may run out.  This     *)
(* takes the element size and the padding of the stream that was kept      *)
(* (lines 1285-1292 of the bitshuffle program), a header that holds them   *)
(* (1302-1310), a reader that gets the number of elements from the length  *)
(* alone (1346-1348), and that no ignored error (1206, 1215, 1358) matters *)
(* otherwise.                                                              *)
(***************************************************************************)
Promise == INSTANCE Lossless
             WITH Values <- Texts, Nothing <- NoText, Refused <- Lost,
                  given <- text, returned <- result, short <- Short

RoundTrip == Promise!Spec
=============================================================================
