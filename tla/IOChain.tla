------------------------------ MODULE IOChain ------------------------------
(***************************************************************************)
(* Blocked bit (un)shuffling of one buffer by a team of OpenMP threads:    *)
(* the ring of locked pointers of iochain.c and the wrapper of             *)
(* bitshuffle_core.c that drives it.  One action per access to the shared  *)
(* chain, in program order, so that every interleaving the locks leave is  *)
(* explored.  Pointers are byte offsets from the start of their buffer.    *)
(***************************************************************************)
EXTENDS Integers, FiniteSets

CONSTANTS
  Threads,      \* the OpenMP team
  Master,       \* the thread that runs the serial code of the wrapper
  NoThread,     \* the owner of a free lock
  Slots,        \* IOC_SIZE, the number of slots of the ring
  Size,         \* number of elements in the buffer
  ElemSize,     \* bytes in an element
  Mult,         \* BSHUF_BLOCKED_MULT
  TargetBytes,  \* BSHUF_TARGET_BLOCK_SIZE_B
  MinBlock,     \* BSHUF_MIN_RECOMMEND_BLOCK
  BlockSizes    \* the block sizes a caller may ask for, 0 for the default

(* With one slot ioc_get_in would take the same lock twice. *)
ASSUME SlotsAssumption == Slots \in Nat /\ Slots >= 2
ASSUME ThreadsAssumption ==
  /\ IsFiniteSet(Threads)
  /\ Master \in Threads
  /\ NoThread \notin Threads
ASSUME SizesAssumption ==
  /\ Size \in Nat \ {0} /\ ElemSize \in Nat \ {0} /\ Mult \in Nat \ {0}
  /\ TargetBytes \in Nat
  /\ MinBlock \in Nat \ {0} /\ MinBlock % Mult = 0
  /\ BlockSizes \subseteq Nat

VARIABLES
  nextLock, next,            \* ioc_chain: the claim lock and the next iteration
  inLock, inPtr,             \* ioc_chain.in_pl: lock owner and pointer of a slot
  outLock, outPtr,           \* ioc_chain.out_pl
  pc, iter, inAt, outAt,     \* per thread: statement, this_iter, in, out
  blockSize, phase, ii,      \* wrapper: block_size, where it is, loop counter
  err, cumCount, result,     \* wrapper: err, cum_count, returned value
  destroyed,                 \* ioc_destroy has run
  written                    \* regions the blocks have written to the output

chainVars == <<nextLock, next, inLock, inPtr, outLock, outPtr>>
threadVars == <<iter, inAt, outAt>>
wrapVars == <<blockSize, phase, ii, err, cumCount, result, destroyed>>
vars == <<chainVars, pc, threadVars, wrapVars, written>>

ErrBlockSize == -81   \* block_size % BSHUF_BLOCKED_MULT
ErrMalloc    == -1    \* malloc failed in bshuf_trans_bit_elem

Slot == 0 .. Slots - 1
Owner == Threads \union {NoThread}

-----------------------------------------------------------------------------
(* The layout: whole blocks, then a shorter last block, then leftovers.    *)

DefaultBlockSize ==
  LET b == ((TargetBytes \div ElemSize) \div Mult) * Mult
  IN  IF b >= MinBlock THEN b ELSE MinBlock

Blocks        == Size \div blockSize
LastBlockSize == (Size % blockSize) - ((Size % blockSize) % Mult)
LeftoverIter  == IF LastBlockSize > 0 THEN Blocks + 1 ELSE Blocks

(* The byte count the statement being executed passes to ioc_set_next_*. *)
Length ==
  CASE phase = "parallel" -> blockSize * ElemSize
    [] phase = "last"     -> LastBlockSize * ElemSize
    [] OTHER              -> (Size % Mult) * ElemSize

-----------------------------------------------------------------------------
Init ==
  /\ nextLock = NoThread /\ next = 0
  /\ inLock  = [s \in Slot |-> NoThread]
  /\ outLock = [s \in Slot |-> NoThread]
  /\ inPtr   = [s \in Slot |-> 0]
  /\ outPtr  = [s \in Slot |-> 0]
  /\ pc    = [t \in Threads |-> "idle"]
  /\ iter  = [t \in Threads |-> 0]
  /\ inAt  = [t \in Threads |-> 0]
  /\ outAt = [t \in Threads |-> 0]
  /\ blockSize \in BlockSizes
  /\ phase = "start" /\ ii = 0
  /\ err = 0 /\ cumCount = 0 /\ result = 0
  /\ destroyed = FALSE
  /\ written = {}

Goto(t, from, to) == pc[t] = from /\ pc' = [pc EXCEPT ![t] = to]

HereSlot(t)  == iter[t] % Slots
AheadSlot(t) == (iter[t] + 1) % Slots

Acquire(lock, s, t) == lock[s] = NoThread /\ lock' = [lock EXCEPT ![s] = t]
Release(lock, s)    == lock' = [lock EXCEPT ![s] = NoThread]

-----------------------------------------------------------------------------
(* ioc_get_in *)

LockNext(t) ==
  /\ Goto(t, "lockNext", "takeIter")
  /\ nextLock = NoThread /\ nextLock' = t
  /\ UNCHANGED <<next, inLock, inPtr, outLock, outPtr, threadVars, wrapVars, written>>

(* Mutant: this_iter taken one short of the counter. *)
TakeIterOffByOne(t) ==
  /\ Goto(t, "takeIter", "lockIn")
  /\ iter' = [iter EXCEPT ![t] = next - 1]
  /\ next' = next + 1
  /\ UNCHANGED <<nextLock, inLock, inPtr, outLock, outPtr, inAt, outAt, wrapVars, written>>

TakeIter(t) ==
  /\ Goto(t, "takeIter", "lockIn")
  /\ iter' = [iter EXCEPT ![t] = next]
  /\ next' = next + 1
  /\ UNCHANGED <<nextLock, inLock, inPtr, outLock, outPtr, inAt, outAt, wrapVars, written>>

LockIn(t) ==
  /\ Goto(t, "lockIn", "lockNextIn")
  /\ Acquire(inLock, HereSlot(t), t)
  /\ UNCHANGED <<nextLock, next, inPtr, outLock, outPtr, threadVars, wrapVars, written>>

(* Mutant: the lock of the slot ahead is not taken. *)
LockNextInSkipped(t) ==
  /\ Goto(t, "lockNextIn", "lockNextOut")
  /\ UNCHANGED <<chainVars, threadVars, wrapVars, written>>

LockNextIn(t) ==
  /\ Goto(t, "lockNextIn", "lockNextOut")
  /\ Acquire(inLock, AheadSlot(t), t)
  /\ UNCHANGED <<nextLock, next, inPtr, outLock, outPtr, threadVars, wrapVars, written>>

(* Mutant: the output lock of the slot ahead is not taken. *)
LockNextOutSkipped(t) ==
  /\ Goto(t, "lockNextOut", "unlockNext")
  /\ UNCHANGED <<chainVars, threadVars, wrapVars, written>>

LockNextOut(t) ==
  /\ Goto(t, "lockNextOut", "unlockNext")
  /\ Acquire(outLock, AheadSlot(t), t)
  /\ UNCHANGED <<nextLock, next, inLock, inPtr, outPtr, threadVars, wrapVars, written>>

UnlockNext(t) ==
  /\ Goto(t, "unlockNext", "readIn")
  /\ nextLock' = NoThread
  /\ UNCHANGED <<next, inLock, inPtr, outLock, outPtr, threadVars, wrapVars, written>>

ReadIn(t) ==
  /\ Goto(t, "readIn", "writeNextIn")
  /\ inAt' = [inAt EXCEPT ![t] = inPtr[HereSlot(t)]]
  /\ UNCHANGED <<chainVars, iter, outAt, wrapVars, written>>

(* ioc_set_next_in *)

WriteNextIn(t) ==
  /\ Goto(t, "writeNextIn", "unlockNextIn")
  /\ inPtr' = [inPtr EXCEPT ![AheadSlot(t)] = inAt[t] + Length]
  /\ UNCHANGED <<nextLock, next, inLock, outLock, outPtr, threadVars, wrapVars, written>>

(* Mutant: ioc_set_next_in also gives up the slot of its own iteration. *)
UnlockBothIn(t) ==
  /\ Goto(t, "unlockNextIn", "lockOut")
  /\ inLock' = [inLock EXCEPT ![AheadSlot(t)] = NoThread, ![HereSlot(t)] = NoThread]
  /\ UNCHANGED <<nextLock, next, inPtr, outLock, outPtr, threadVars, wrapVars, written>>

UnlockNextIn(t) ==
  /\ Goto(t, "unlockNextIn", "lockOut")
  /\ Release(inLock, AheadSlot(t))
  /\ UNCHANGED <<nextLock, next, inPtr, outLock, outPtr, threadVars, wrapVars, written>>

(* ioc_get_out *)

(* Mutant: ioc_get_out does not wait for the lock. *)
LockOutSkipped(t) ==
  /\ Goto(t, "lockOut", "readOut")
  /\ UNCHANGED <<chainVars, threadVars, wrapVars, written>>

LockOut(t) ==
  /\ Goto(t, "lockOut", "readOut")
  /\ Acquire(outLock, HereSlot(t), t)
  /\ UNCHANGED <<nextLock, next, inLock, inPtr, outPtr, threadVars, wrapVars, written>>

ReadOut(t) ==
  /\ Goto(t, "readOut", "unlockOut")
  /\ outAt' = [outAt EXCEPT ![t] = outPtr[HereSlot(t)]]
  /\ UNCHANGED <<chainVars, iter, inAt, wrapVars, written>>

UnlockOut(t) ==
  /\ Goto(t, "unlockOut", "writeNextOut")
  /\ Release(outLock, HereSlot(t))
  /\ UNCHANGED <<nextLock, next, inLock, inPtr, outPtr, threadVars, wrapVars, written>>

(* ioc_set_next_out *)

WriteNextOut(t) ==
  /\ Goto(t, "writeNextOut", "unlockNextOut")
  /\ outPtr' = [outPtr EXCEPT ![AheadSlot(t)] = outAt[t] + Length]
  /\ UNCHANGED <<nextLock, next, inLock, inPtr, outLock, threadVars, wrapVars, written>>

UnlockNextOut(t) ==
  /\ Goto(t, "unlockNextOut", "unlockIn")
  /\ Release(outLock, AheadSlot(t))
  /\ UNCHANGED <<nextLock, next, inLock, inPtr, outPtr, threadVars, wrapVars, written>>

UnlockIn(t) ==
  /\ Goto(t, "unlockIn", "work")
  /\ Release(inLock, HereSlot(t))
  /\ UNCHANGED <<nextLock, next, inPtr, outLock, outPtr, threadVars, wrapVars, written>>

-----------------------------------------------------------------------------
(* The work on a block, after its pointers have been passed on: the bit    *)
(* transposition of a block, or the memcpy of the leftovers.               *)

Region(t) == [src |-> inAt[t], dst |-> outAt[t], len |-> Length]

WorkDone(t) ==
  /\ Goto(t, "work", "idle")
  /\ written'  = written \union {Region(t)}
  /\ cumCount' = cumCount + Length
  /\ UNCHANGED <<chainVars, threadVars, blockSize, phase, ii, err, result, destroyed>>

(* Mutant: the failure of a block is not recorded. *)
WorkFailedUnnoticed(t) ==
  /\ phase # "leftover"
  /\ Goto(t, "work", "idle")
  /\ cumCount' = cumCount + ErrMalloc
  /\ UNCHANGED <<chainVars, threadVars, blockSize, phase, ii, err, result, destroyed, written>>

(* malloc fails: the count is negative, err is set, the region stays unwritten. *)
WorkFailed(t) ==
  /\ phase # "leftover"
  /\ Goto(t, "work", "idle")
  /\ err' = ErrMalloc
  /\ cumCount' = cumCount + ErrMalloc
  /\ UNCHANGED <<chainVars, threadVars, blockSize, phase, ii, result, destroyed, written>>

-----------------------------------------------------------------------------
(* bshuf_blocked_wrap_fun *)

Begin ==
  /\ phase = "start"
  /\ LET bs == IF blockSize = 0 THEN DefaultBlockSize ELSE blockSize
     IN  /\ blockSize' = bs
         /\ IF bs % Mult # 0
              THEN phase' = "done" /\ result' = ErrBlockSize
              ELSE phase' = "parallel" /\ UNCHANGED result
  /\ UNCHANGED <<chainVars, pc, threadVars, ii, err, cumCount, destroyed, written>>

(* schedule(dynamic, 1): a free thread is handed the next loop index. *)
StartBlock(t) ==
  /\ phase = "parallel" /\ ii < Blocks
  /\ Goto(t, "idle", "lockNext")
  /\ ii' = ii + 1
  /\ UNCHANGED <<chainVars, threadVars, blockSize, phase, err, cumCount, result, destroyed, written>>

AllIdle == \A t \in Threads : pc[t] = "idle"

StartLastBlock ==
  /\ phase = "parallel" /\ ii = Blocks /\ AllIdle
  /\ LastBlockSize > 0
  /\ phase' = "last"
  /\ Goto(Master, "idle", "lockNext")
  /\ UNCHANGED <<chainVars, threadVars, blockSize, ii, err, cumCount, result, destroyed, written>>

BlocksDone ==
  /\ AllIdle
  /\ \/ phase = "parallel" /\ ii = Blocks /\ LastBlockSize = 0
     \/ phase = "last"

(* Mutant: the error is stored, the call does not return. *)
ReturnErrorStays ==
  /\ BlocksDone /\ err < 0
  /\ result' = err
  /\ UNCHANGED <<chainVars, pc, threadVars, blockSize, phase, ii, err, cumCount, destroyed, written>>

ReturnError ==
  /\ BlocksDone /\ err < 0
  /\ phase' = "done" /\ result' = err
  /\ UNCHANGED <<chainVars, pc, threadVars, blockSize, ii, err, cumCount, destroyed, written>>

StartLeftover ==
  /\ BlocksDone /\ err >= 0
  /\ phase' = "leftover"
  /\ Goto(Master, "idle", "lockNext")
  /\ UNCHANGED <<chainVars, threadVars, blockSize, ii, err, cumCount, result, destroyed, written>>

(* cum_count already holds leftover_bytes here: WorkDone added Length. *)
Return ==
  /\ phase = "leftover" /\ AllIdle
  /\ destroyed' = TRUE
  /\ phase' = "done" /\ result' = cumCount
  /\ UNCHANGED <<chainVars, pc, threadVars, blockSize, ii, err, cumCount, written>>

-----------------------------------------------------------------------------
GetIn(t)      == LockNext(t) \/ TakeIter(t) \/ LockIn(t) \/ LockNextIn(t)
                 \/ LockNextOut(t) \/ UnlockNext(t) \/ ReadIn(t)
SetNextIn(t)  == WriteNextIn(t) \/ UnlockNextIn(t)
GetOut(t)     == LockOut(t) \/ ReadOut(t) \/ UnlockOut(t)
SetNextOut(t) == WriteNextOut(t) \/ UnlockNextOut(t) \/ UnlockIn(t)
Work(t)       == WorkDone(t) \/ WorkFailed(t)

Thread(t) == GetIn(t) \/ SetNextIn(t) \/ GetOut(t) \/ SetNextOut(t) \/ Work(t)
Wrapper   == Begin \/ StartLastBlock \/ ReturnError \/ StartLeftover \/ Return

Terminated == phase = "done" /\ UNCHANGED vars

Next == Wrapper \/ Terminated \/ \E t \in Threads : StartBlock(t) \/ Thread(t)

(* Every thread of the team that can run does, and OpenMP hands out every   *)
(* loop index; a lock goes to any waiter, so no stronger fairness is due.   *)
Fairness ==
  /\ WF_vars(Wrapper)
  /\ WF_vars(\E t \in Threads : StartBlock(t))
  /\ \A t \in Threads : WF_vars(Thread(t))

Spec == Init /\ [][Next]_vars
FairSpec == Spec /\ Fairness

-----------------------------------------------------------------------------
(* Properties                                                              *)

(* Where a thread stands in the iteration it has claimed. *)
Unclaimed == {"idle", "lockNext", "takeIter"}
Past(t, statements) == pc[t] \notin Unclaimed \union statements

BeforeReadIn    == {"lockIn", "lockNextIn", "lockNextOut", "unlockNext", "readIn"}
BeforeSetIn     == BeforeReadIn \union {"writeNextIn", "unlockNextIn"}
BeforeReadOut   == BeforeSetIn \union {"lockOut", "readOut"}
BeforeSetOut    == BeforeReadOut \union {"unlockOut", "writeNextOut", "unlockNextOut"}

(* The offset at which iteration i has to find its region. *)
Start(i) ==
  IF i <= Blocks THEN (i * blockSize) * ElemSize
  ELSE IF i = LeftoverIter THEN (Blocks * blockSize + LastBlockSize) * ElemSize
  ELSE Size * ElemSize

TypeOK ==
  /\ nextLock \in Owner /\ next \in Nat
  /\ inLock \in [Slot -> Owner] /\ outLock \in [Slot -> Owner]
  /\ inPtr \in [Slot -> Nat] /\ outPtr \in [Slot -> Nat]
  /\ pc \in [Threads -> Unclaimed \union BeforeSetOut \union {"unlockIn", "work"}]
  /\ iter \in [Threads -> Nat]
  /\ inAt \in [Threads -> Nat] /\ outAt \in [Threads -> Nat]
  /\ blockSize \in Nat /\ (phase \notin {"start", "done"} => blockSize > 0)
  /\ phase \in {"start", "parallel", "last", "leftover", "done"}
  /\ ii \in Nat
  /\ err \in {0, ErrMalloc} /\ cumCount \in Int /\ result \in Int
  /\ destroyed \in BOOLEAN
  /\ written \subseteq [src : Nat, dst : Nat, len : Nat]

(* A thread that has left ioc_get_in (ioc_get_out) holds the input (output)  *)
(* pointer of its own iteration: the pointer its predecessor left in the     *)
(* ring, not one that a thread a lap ahead or behind put into the same slot. *)
PointersInOrder ==
  \A t \in Threads :
    /\ Past(t, BeforeReadIn)  => inAt[t] = Start(iter[t])
    /\ Past(t, BeforeReadOut) => outAt[t] = Start(iter[t])

(* The shared fields that the statement a thread is at reads and writes. *)
Reads(t) ==
  CASE pc[t] = "takeIter" -> {<<"next", 0>>}
    [] pc[t] = "readIn"   -> {<<"in", HereSlot(t)>>}
    [] pc[t] = "readOut"  -> {<<"out", HereSlot(t)>>}
    [] OTHER              -> {}
Writes(t) ==
  CASE pc[t] = "takeIter"     -> {<<"next", 0>>}
    [] pc[t] = "writeNextIn"  -> {<<"in", AheadSlot(t)>>}
    [] pc[t] = "writeNextOut" -> {<<"out", AheadSlot(t)>>}
    [] OTHER                  -> {}

(* No thread is about to write a field of the chain that another thread is  *)
(* about to read or write.                                                  *)
NoDataRace ==
  \A t, u \in Threads :
    t # u => Writes(t) \cap (Reads(u) \union Writes(u)) = {}

(* iochain.c, ioc_set_next_out: the lock of in_pl[this_iter] is kept to the  *)
(* end "to avoid being overtaken": an iteration whose output is not settled  *)
(* is never a whole lap of the ring behind one that has its slots.           *)
NotOvertaken ==
  \A t, u \in Threads :
    (/\ Past(t, {"lockIn"}) /\ pc[t] # "work"
     /\ Past(u, {"lockIn", "lockNextIn"}) /\ pc[u] # "work")
      => iter[u] + 1 < iter[t] + Slots

(* iochain.h: "ioc_get_in is blocked until the previous entry's             *)
(* ioc_set_next_in is called", and the same of ioc_get_out.                 *)
OnlyAfterPrevious ==
  \A t, u \in Threads : iter[u] + 1 = iter[t] =>
    /\ (pc[t] = "lockIn" /\ pc'[t] # "lockIn")   => pc[u] \notin BeforeSetIn
    /\ (pc[t] = "lockOut" /\ pc'[t] # "lockOut") => pc[u] \notin BeforeSetOut

BlockedUntilPreviousSets == [][OnlyAfterPrevious]_vars

(* The blocked run keeps the promise of BlockMap: each byte of the output is *)
(* written once, from the same place, and the count returned is the whole    *)
(* size exactly when all of them were.                                       *)
Filled == UNION { {<<r.dst + k, r.src + k>> : k \in 0 .. r.len - 1} : r \in written }

Promise == INSTANCE BlockMap WITH Total <- Size * ElemSize, filled <- Filled

KeepsPromise == Promise!Spec

(* Every call returns: the ring never deadlocks, not even with as many      *)
(* threads as slots (iochain.h: "Safe for num_threads >= IOC_SIZE").        *)
Returns == <>(phase = "done")

(* iochain.h: "Call ioc_destroy in serial block."                           *)
DestroyedAtReturn == phase = "done" => destroyed
=============================================================================
