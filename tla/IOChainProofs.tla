--------------------------- MODULE IOChainProofs ---------------------------
(***************************************************************************)
(* Proofs about IOChain, for every team of threads, ring size and buffer.  *)
(* The inductive invariant says who holds which lock at which statement,   *)
(* how the claimed iterations are ordered, that the ring is never wrapped  *)
(* onto a slot in use, and what the pointer of a slot is from the moment   *)
(* it is settled to the moment it is read.                                 *)
(***************************************************************************)
EXTENDS IOChain, DivModFacts, FiniteSetTheorems

-----------------------------------------------------------------------------
(* The inductive invariant.                                                *)

Running == phase \in {"parallel", "last", "leftover"}

Claimed(t)      == pc[t] \notin Unclaimed
HoldsNext(t)    == pc[t] \in {"takeIter", "lockIn", "lockNextIn", "lockNextOut", "unlockNext"}
HoldsIn(t)      == pc[t] \notin Unclaimed \union {"lockIn", "work"}
HoldsNextIn(t)  == pc[t] \in {"lockNextOut", "unlockNext", "readIn", "writeNextIn", "unlockNextIn"}
HoldsOut(t)     == pc[t] \in {"readOut", "unlockOut"}
HoldsNextOut(t) ==
  pc[t] \in {"unlockNext", "readIn", "writeNextIn", "unlockNextIn",
             "lockOut", "readOut", "unlockOut", "writeNextOut", "unlockNextOut"}

(* The lock a thread needs at its statement is its own. *)
LocksHeld ==
  \A t \in Threads :
    /\ HoldsNext(t)    => nextLock = t
    /\ HoldsIn(t)      => inLock[HereSlot(t)] = t
    /\ HoldsNextIn(t)  => inLock[AheadSlot(t)] = t
    /\ HoldsOut(t)     => outLock[HereSlot(t)] = t
    /\ HoldsNextOut(t) => outLock[AheadSlot(t)] = t

(* Iterations are claimed once, and the claimer is the newest until it gives *)
(* up next_lock.                                                             *)
ClaimsOrdered ==
  \A t \in Threads : Claimed(t) =>
    /\ iter[t] < next
    /\ HoldsNext(t) => iter[t] = next - 1
    /\ \A u \in Threads : u # t /\ Claimed(u) => iter[u] # iter[t]

(* The slots of an unfinished iteration are not claimed by one a lap ahead. *)
Window ==
  \A t \in Threads : HoldsIn(t) =>
    /\ next <= iter[t] + Slots
    /\ (\A u \in Threads : pc[u] \notin {"lockIn", "lockNextIn"})
         => next < iter[t] + Slots

(* The threads between the loop header and the claim of an iteration. *)
Pending == {t \in Threads : pc[t] \in {"lockNext", "takeIter"}}

Issued ==
  CASE phase = "last"     -> Blocks + 1
    [] phase = "leftover" -> LeftoverIter + 1
    [] OTHER              -> ii

(* The iterations of a phase are those whose length the phase passes on. *)
PhaseIters ==
  /\ phase \in {"start", "done"} => AllIdle
  /\ phase = "start" => next = 0 /\ ii = 0 /\ inPtr[0] = 0 /\ outPtr[0] = 0
  /\ Running => next + Cardinality(Pending) = Issued
  /\ Running => blockSize % Mult = 0
  /\ phase = "parallel" => ii <= Blocks
  /\ phase = "last" => LastBlockSize > 0
  /\ phase \in {"last", "leftover"} =>
       /\ \A t \in Threads : t # Master => pc[t] = "idle"
       /\ Claimed(Master) => iter[Master] = next - 1

Unsettled(u, i, statements) == Claimed(u) /\ iter[u] + 1 = i /\ pc[u] \in statements

BeforeWriteIn  == BeforeReadIn \union {"writeNextIn"}
BeforeWriteOut == BeforeReadOut \union {"unlockOut", "writeNextOut"}

InReady(i) ==
  (\A u \in Threads : ~Unsettled(u, i, BeforeWriteIn)) => inPtr[i % Slots] = Start(i)
OutReady(i) ==
  (\A u \in Threads : ~Unsettled(u, i, BeforeWriteOut)) => outPtr[i % Slots] = Start(i)

(* A settled slot holds the offset of its iteration until that has read it. *)
SlotsSettled ==
  Running =>
    /\ InReady(next) /\ OutReady(next)
    /\ \A t \in Threads :
         /\ pc[t] = "lockIn" => InReady(iter[t])
         /\ pc[t] \in {"lockNextIn", "lockNextOut", "unlockNext", "readIn"}
              => inPtr[HereSlot(t)] = Start(iter[t])
         /\ pc[t] \in BeforeReadOut => OutReady(iter[t])

IInv ==
  /\ TypeOK
  /\ LocksHeld
  /\ ClaimsOrdered
  /\ Window
  /\ PhaseIters
  /\ SlotsSettled
  /\ PointersInOrder

-----------------------------------------------------------------------------
(* Facts about the ring and the layout.                                    *)

LEMMA SlotInRange == \A i \in Nat : i % Slots \in Slot
  BY SlotsAssumption DEF Slot

LEMMA SlotAfterLap == \A i \in Nat : (i + Slots) % Slots = i % Slots
<1>1. Slots \in Nat /\ Slots > 0
  BY SlotsAssumption
<1> QED
  BY <1>1, ModAfterLap, Zenon

(* Two iterations less than a lap apart use different slots. *)
LEMMA SlotsDiffer ==
  ASSUME NEW i \in Nat, NEW j \in Nat, i < j, j < i + Slots
  PROVE  i % Slots # j % Slots
  BY SlotsAssumption, ModDiffer

LEMMA LayoutTypes ==
  ASSUME TypeOK, Running
  PROVE  /\ Blocks \in Nat /\ LastBlockSize \in Nat /\ LeftoverIter \in Nat
         /\ Length \in Nat
         /\ \A i \in Nat : Start(i) \in Nat
  BY SizesAssumption DEF TypeOK, Running, Blocks, LastBlockSize, LeftoverIter, Length, Start

(* An iteration passes on the offset of the next one.  In the last case the *)
(* blocks and the leftovers together are the whole buffer.                   *)
LEMMA StartNext ==
  ASSUME TypeOK, Running, blockSize % Mult = 0, NEW i \in Nat,
         \/ phase = "parallel" /\ i < Blocks
         \/ phase = "last" /\ LastBlockSize > 0 /\ i = Blocks
         \/ phase = "leftover" /\ i = LeftoverIter
  PROVE  Start(i) + Length = Start(i + 1)
<1>1. /\ blockSize \in Nat /\ blockSize > 0
      /\ Blocks \in Nat /\ LastBlockSize \in Nat /\ LeftoverIter \in Nat
  BY LayoutTypes DEF TypeOK, Running
<1>2. CASE phase = "parallel" /\ i < Blocks
  <2>1. Start(i) = (i * blockSize) * ElemSize /\ Start(i + 1) = ((i + 1) * blockSize) * ElemSize
    BY <1>1, <1>2 DEF Start
  <2>2. ((i + 1) * blockSize) * ElemSize = (i * blockSize) * ElemSize + blockSize * ElemSize
    BY <1>1, SizesAssumption
  <2>3. Length = blockSize * ElemSize
    BY <1>2 DEF Length
  <2> QED
    BY <2>1, <2>2, <2>3, <1>1, SizesAssumption
<1>3. CASE phase = "last" /\ LastBlockSize > 0 /\ i = Blocks
  <2>1. LeftoverIter = Blocks + 1
    BY <1>3 DEF LeftoverIter
  <2>2. /\ Start(i) = (Blocks * blockSize) * ElemSize
        /\ Start(i + 1) = (Blocks * blockSize + LastBlockSize) * ElemSize
    BY <1>1, <1>3, <2>1 DEF Start
  <2>3. Length = LastBlockSize * ElemSize
    BY <1>3 DEF Length
  <2>4. Blocks * blockSize \in Int
    BY <1>1
  <2> QED
    BY <2>2, <2>3, <2>4, <1>1, SizesAssumption
<1>4. CASE phase = "leftover" /\ i = LeftoverIter
  <2>1. LastBlockSize = 0 => LeftoverIter = Blocks
    BY <1>1 DEF LeftoverIter
  <2>2. LeftoverIter >= Blocks
    BY <1>1 DEF LeftoverIter
  <2>3. Blocks * blockSize \in Int
    BY <1>1
  <2>4. Start(i) = (Blocks * blockSize + LastBlockSize) * ElemSize
    BY <1>1, <1>4, <2>1, <2>2, <2>3 DEF Start, LeftoverIter
  <2>5. Start(i + 1) = Size * ElemSize
    BY <1>1, <1>4, <2>2 DEF Start
  <2>6. Length = (Size % Mult) * ElemSize
    BY <1>4 DEF Length
  <2>7. Size = blockSize * Blocks + (Size % blockSize) /\ Size % blockSize \in Nat
    BY <1>1, SizesAssumption, DivMod DEF Blocks
  <2>8. (Size % blockSize) % Mult = Size % Mult
    <3>1. Size \in Nat /\ Mult \in Nat /\ Mult > 0
      BY SizesAssumption
    <3> QED
      BY <1>1, <3>1, ModOfMod, Zenon
  <2>9. Size % Mult \in Nat
    BY SizesAssumption
  <2>10. Blocks * blockSize + LastBlockSize + (Size % Mult) = Size
    BY <2>3, <2>7, <2>8, <2>9, <1>1, SizesAssumption DEF LastBlockSize
  <2>11. (Blocks * blockSize + LastBlockSize + (Size % Mult)) * ElemSize
           = (Blocks * blockSize + LastBlockSize) * ElemSize + (Size % Mult) * ElemSize
    BY <2>3, <2>9, <1>1, SizesAssumption
  <2> QED
    BY <2>4, <2>5, <2>6, <2>10, <2>11
<1> QED
  BY <1>2, <1>3, <1>4

-----------------------------------------------------------------------------
(* Types.                                                                  *)

LEMMA LengthType == TypeOK => Length \in Nat
<1> SUFFICES ASSUME TypeOK PROVE Length \in Nat
  OBVIOUS
<1>1. CASE Running
  BY <1>1, LayoutTypes
<1>2. CASE ~Running
  <2>1. Length = (Size % Mult) * ElemSize
    BY <1>2 DEF Length, Running
  <2>2. Size % Mult \in Nat
    BY SizesAssumption
  <2> QED
    BY <2>1, <2>2, SizesAssumption
<1> QED
  BY <1>1, <1>2

LEMMA DefaultType == DefaultBlockSize \in Nat \ {0} /\ DefaultBlockSize % Mult = 0
<1> DEFINE q == (TargetBytes \div ElemSize) \div Mult
<1>1. q \in Nat /\ Mult \in Nat /\ Mult > 0
  BY SizesAssumption
<1>2. q * Mult \in Nat /\ q * Mult - 0 = Mult * q
  <2> HIDE DEF q
  <2> QED BY <1>1
<1> HIDE DEF q
<1>3. (q * Mult) % Mult = 0 % Mult
  <2>1. 0 \in Nat /\ q \in Int
    BY <1>1
  <2> QED
    BY <1>1, <1>2, <2>1, ModMultiple, Zenon
<1>4. 0 % Mult = 0
  BY <1>1
<1>5. DefaultBlockSize = IF q * Mult >= MinBlock THEN q * Mult ELSE MinBlock
  BY DEF DefaultBlockSize, q
<1>6. CASE q * Mult >= MinBlock
  BY <1>2, <1>3, <1>4, <1>5, <1>6, SizesAssumption
<1>7. CASE ~(q * Mult >= MinBlock)
  BY <1>5, <1>7, SizesAssumption
<1> QED
  BY <1>6, <1>7

LEMMA TypeInit == Init => TypeOK
<1> SUFFICES ASSUME Init PROVE TypeOK
  OBVIOUS
<1>1. blockSize \in Nat /\ phase = "start"
  BY SizesAssumption DEF Init
<1>2. 0 \in Slot
  BY SlotsAssumption DEF Slot
<1>3. pc \in [Threads -> Unclaimed]
  BY DEF Init, Unclaimed
<1>4. nextLock \in Owner /\ inLock \in [Slot -> Owner] /\ outLock \in [Slot -> Owner]
  BY DEF Init, Owner
<1>5. /\ inPtr \in [Slot -> Nat] /\ outPtr \in [Slot -> Nat]
      /\ iter \in [Threads -> Nat] /\ inAt \in [Threads -> Nat] /\ outAt \in [Threads -> Nat]
  BY DEF Init
<1>6. /\ next \in Nat /\ ii \in Nat /\ err \in {0, ErrMalloc} /\ cumCount \in Int /\ result \in Int
      /\ written = {}
  BY DEF Init
<1>7. destroyed \in BOOLEAN
  BY Zenon DEF Init
<1> QED BY <1>1, <1>2, <1>3, <1>4, <1>5, <1>6, <1>7
DEF Init, TypeOK, Owner, Unclaimed, BeforeSetOut, BeforeReadOut, BeforeSetIn, BeforeReadIn

LEMMA TypeStep == TypeOK /\ [Next]_vars => TypeOK'
<1> SUFFICES ASSUME TypeOK, [Next]_vars PROVE TypeOK'
  OBVIOUS
<1> USE DEF TypeOK, Goto, Owner, Unclaimed, BeforeSetOut, BeforeReadOut, BeforeSetIn, BeforeReadIn,
            vars, chainVars, threadVars, wrapVars
<1>1. CASE UNCHANGED vars
  BY <1>1
<1>2. CASE Wrapper
  <2>1. CASE Begin
    BY <2>1, DefaultType DEF Begin, ErrBlockSize
  <2>2. CASE StartLastBlock \/ StartLeftover
    BY <2>2, ThreadsAssumption DEF StartLastBlock, StartLeftover, BlocksDone
  <2>3. CASE ReturnError
    BY <2>3 DEF ReturnError, ErrMalloc
  <2>4. CASE Return
    BY <2>4 DEF Return
  <2> QED
    BY <1>2, <2>1, <2>2, <2>3, <2>4 DEF Wrapper
<1>3. ASSUME NEW t \in Threads, StartBlock(t) PROVE TypeOK'
  BY <1>3 DEF StartBlock
<1>4. ASSUME NEW t \in Threads, GetIn(t) PROVE TypeOK'
  <2>1. HereSlot(t) \in Slot
    BY SlotInRange DEF HereSlot
  <2> QED
    BY <1>4, <2>1 DEF GetIn, LockNext, TakeIter, LockIn, LockNextIn, LockNextOut, UnlockNext, ReadIn, Acquire
<1>5. ASSUME NEW t \in Threads, SetNextIn(t) PROVE TypeOK'
  BY <1>5, LengthType DEF SetNextIn, WriteNextIn, UnlockNextIn, Release
<1>6. ASSUME NEW t \in Threads, GetOut(t) PROVE TypeOK'
  <2>1. HereSlot(t) \in Slot
    BY SlotInRange DEF HereSlot
  <2> QED
    BY <1>6, <2>1 DEF GetOut, LockOut, ReadOut, UnlockOut, Acquire, Release
<1>7. ASSUME NEW t \in Threads, SetNextOut(t) PROVE TypeOK'
  BY <1>7, LengthType DEF SetNextOut, WriteNextOut, UnlockNextOut, UnlockIn, Release
<1>8. ASSUME NEW t \in Threads, Work(t) PROVE TypeOK'
  BY <1>8, LengthType DEF Work, WorkDone, WorkFailed, Region, ErrMalloc
<1> QED
  BY <1>1, <1>2, <1>3, <1>4, <1>5, <1>6, <1>7, <1>8 DEF Next, Terminated, Thread

(* Every variable keeps its type, for every team, ring and buffer. *)
THEOREM TypeCorrect == Spec => []TypeOK
  BY TypeInit, TypeStep, PTL DEF Spec

-----------------------------------------------------------------------------
(* Locks.                                                                  *)

LEMMA ThreadSlots ==
  ASSUME TypeOK, NEW t \in Threads
  PROVE  HereSlot(t) \in Slot /\ AheadSlot(t) \in Slot /\ HereSlot(t) # AheadSlot(t)
<1>1. iter[t] \in Nat /\ iter[t] + 1 \in Nat
  BY DEF TypeOK
<1>2. iter[t] < iter[t] + 1 /\ iter[t] + 1 < iter[t] + Slots
  BY <1>1, SlotsAssumption
<1> QED
  BY <1>1, <1>2, SlotInRange, SlotsDiffer, Zenon DEF HereSlot, AheadSlot

LEMMA LocksStep ==
  ASSUME IInv, Next
  PROVE  LocksHeld'
<1> USE DEF IInv
<1> USE DEF LocksHeld, HoldsNext, HoldsIn, HoldsNextIn, HoldsOut, HoldsNextOut, Goto, HereSlot, AheadSlot,
            chainVars, threadVars, Unclaimed
<1>0. /\ NoThread \notin Threads /\ Master \in Threads
      /\ pc \in [Threads -> Unclaimed \union BeforeSetOut \union {"unlockIn", "work"}]
      /\ iter \in [Threads -> Nat]
      /\ inLock \in [Slot -> Owner] /\ outLock \in [Slot -> Owner]
  BY ThreadsAssumption DEF TypeOK
<1>1. CASE Wrapper
  <2>1. CASE Begin \/ ReturnError \/ Return
    BY <2>1, <1>0 DEF Begin, ReturnError, Return
  <2>2. CASE StartLastBlock \/ StartLeftover
    BY <2>2, <1>0 DEF StartLastBlock, StartLeftover
  <2> QED
    BY <1>1, <2>1, <2>2 DEF Wrapper
<1>2. CASE Terminated
  BY <1>2 DEF Terminated, vars
<1>3. ASSUME NEW t \in Threads, StartBlock(t) \/ LockNext(t) \/ TakeIter(t) \/ UnlockNext(t)
      PROVE LocksHeld'
  BY <1>3, <1>0 DEF StartBlock, LockNext, TakeIter, UnlockNext
<1>4. ASSUME NEW t \in Threads, LockIn(t) \/ LockNextIn(t) \/ LockNextOut(t) \/ LockOut(t)
      PROVE LocksHeld'
  BY <1>4, <1>0, ThreadSlots DEF LockIn, LockNextIn, LockNextOut, LockOut, Acquire
<1>5. ASSUME NEW t \in Threads, ReadIn(t) \/ WriteNextIn(t) \/ ReadOut(t) \/ WriteNextOut(t)
      PROVE LocksHeld'
  BY <1>5, <1>0 DEF ReadIn, WriteNextIn, ReadOut, WriteNextOut
<1>6. ASSUME NEW t \in Threads, UnlockNextIn(t) \/ UnlockOut(t) \/ UnlockNextOut(t) \/ UnlockIn(t)
      PROVE LocksHeld'
  BY <1>6, <1>0, ThreadSlots DEF UnlockNextIn, UnlockOut, UnlockNextOut, UnlockIn, Release
<1>7. ASSUME NEW t \in Threads, Work(t)
      PROVE LocksHeld'
  BY <1>7, <1>0 DEF Work, WorkDone, WorkFailed
<1> QED
  BY <1>1, <1>2, <1>3, <1>4, <1>5, <1>6, <1>7
  DEF Next, Thread, GetIn, SetNextIn, GetOut, SetNextOut

-----------------------------------------------------------------------------
(* Claims and the window of the ring.                                      *)

LEMMA ClaimsStep ==
  ASSUME IInv, Next
  PROVE  ClaimsOrdered'
<1> USE DEF IInv
<1> USE DEF ClaimsOrdered, Claimed, HoldsNext, Goto, chainVars, threadVars, Unclaimed
<1>0. /\ Master \in Threads /\ next \in Nat
      /\ pc \in [Threads -> Unclaimed \union BeforeSetOut \union {"unlockIn", "work"}]
      /\ iter \in [Threads -> Nat]
  BY ThreadsAssumption DEF TypeOK
<1>1. CASE Wrapper
  <2>1. CASE Begin \/ ReturnError \/ Return
    BY <2>1, <1>0 DEF Begin, ReturnError, Return
  <2>2. CASE StartLastBlock \/ StartLeftover
    BY <2>2, <1>0 DEF StartLastBlock, StartLeftover
  <2> QED
    BY <1>1, <2>1, <2>2 DEF Wrapper
<1>2. CASE Terminated
  BY <1>2 DEF Terminated, vars
<1>3. ASSUME NEW t \in Threads, TakeIter(t)
      PROVE ClaimsOrdered'
  <2>1. \A u \in Threads : u # t => ~HoldsNext(u)
    BY <1>3 DEF TakeIter, LocksHeld
  <2> QED
    BY <1>3, <1>0, <2>1 DEF TakeIter
<1>4. ASSUME NEW t \in Threads,
             StartBlock(t) \/ LockNext(t) \/ LockIn(t) \/ LockNextIn(t) \/ LockNextOut(t) \/ UnlockNext(t)
      PROVE ClaimsOrdered'
  BY <1>4, <1>0 DEF StartBlock, LockNext, LockIn, LockNextIn, LockNextOut, UnlockNext
<1>5. ASSUME NEW t \in Threads, ReadIn(t) \/ SetNextIn(t) \/ GetOut(t) \/ SetNextOut(t) \/ Work(t)
      PROVE ClaimsOrdered'
  BY <1>5, <1>0 DEF ReadIn, SetNextIn, WriteNextIn, UnlockNextIn, GetOut, LockOut, ReadOut, UnlockOut,
       SetNextOut, WriteNextOut, UnlockNextOut, UnlockIn, Work, WorkDone, WorkFailed
<1> QED
  BY <1>1, <1>2, <1>3, <1>4, <1>5 DEF Next, Thread, GetIn

(* Only LockNextIn makes the window a slot narrower, and it cannot while the *)
(* iteration a lap behind holds the slot.                                    *)
LEMMA WindowStep ==
  ASSUME IInv, Next
  PROVE  Window'
<1> USE DEF IInv
<1> USE DEF Window, HoldsIn, Goto, chainVars, threadVars, Unclaimed
<1>0. /\ Master \in Threads /\ next \in Nat /\ Slots \in Nat /\ Slots >= 2
      /\ pc \in [Threads -> Unclaimed \union BeforeSetOut \union {"unlockIn", "work"}]
      /\ iter \in [Threads -> Nat]
  BY ThreadsAssumption, SlotsAssumption DEF TypeOK
<1>1. CASE Wrapper
  <2>1. CASE Begin \/ ReturnError \/ Return
    BY <2>1, <1>0 DEF Begin, ReturnError, Return
  <2>2. CASE StartLastBlock \/ StartLeftover
    BY <2>2, <1>0 DEF StartLastBlock, StartLeftover
  <2> QED
    BY <1>1, <2>1, <2>2 DEF Wrapper
<1>2. CASE Terminated
  BY <1>2 DEF Terminated, vars
<1>3. ASSUME NEW t \in Threads, TakeIter(t)
      PROVE Window'
  <2>1. \A u \in Threads : pc[u] \notin {"lockIn", "lockNextIn"}
    BY <1>3, <1>0 DEF TakeIter, LocksHeld, HoldsNext
  <2>2. \A u \in Threads : HoldsIn(u) => next < iter[u] + Slots
    BY <2>1
  <2>3. \A u \in Threads : HoldsIn(u)' => u # t /\ HoldsIn(u) /\ iter'[u] = iter[u]
    BY <1>3, <1>0 DEF TakeIter
  <2> QED
    BY <1>3, <1>0, <2>2, <2>3 DEF TakeIter
<1>4. ASSUME NEW t \in Threads, LockIn(t)
      PROVE Window'
  <2>1. iter[t] = next - 1
    BY <1>4, <1>0 DEF LockIn, ClaimsOrdered, Claimed, HoldsNext
  <2> QED
    BY <1>4, <1>0, <2>1 DEF LockIn
<1>5. ASSUME NEW t \in Threads, LockNextIn(t)
      PROVE Window'
  <2>1. iter[t] = next - 1
    BY <1>5, <1>0 DEF LockNextIn, ClaimsOrdered, Claimed, HoldsNext
  <2>2. AheadSlot(t) = next % Slots /\ inLock[AheadSlot(t)] = NoThread
    BY <1>5, <1>0, <2>1 DEF LockNextIn, AheadSlot, Acquire
  <2>3. ASSUME NEW u \in Threads, HoldsIn(u) PROVE next # iter[u] + Slots
    <3>1. inLock[iter[u] % Slots] = u
      BY <2>3, <1>0 DEF LocksHeld, HereSlot
    <3>2. u # NoThread
      BY ThreadsAssumption
    <3> QED
      BY <1>0, <2>2, <3>1, <3>2, SlotAfterLap
  <2> QED
    BY <1>5, <1>0, <2>1, <2>3 DEF LockNextIn
<1>6. ASSUME NEW t \in Threads, StartBlock(t) \/ LockNext(t) \/ LockNextOut(t) \/ UnlockNext(t)
      PROVE Window'
  BY <1>6, <1>0 DEF StartBlock, LockNext, LockNextOut, UnlockNext
<1>7. ASSUME NEW t \in Threads, ReadIn(t) \/ SetNextIn(t) \/ GetOut(t) \/ SetNextOut(t) \/ Work(t)
      PROVE Window'
  BY <1>7, <1>0 DEF ReadIn, SetNextIn, WriteNextIn, UnlockNextIn, GetOut, LockOut, ReadOut, UnlockOut,
       SetNextOut, WriteNextOut, UnlockNextOut, UnlockIn, Work, WorkDone, WorkFailed
<1> QED
  BY <1>1, <1>2, <1>3, <1>4, <1>5, <1>6, <1>7 DEF Next, Thread, GetIn

-----------------------------------------------------------------------------
(* Phases of the wrapper.                                                  *)

LEMMA PendingFinite == IsFiniteSet(Pending) /\ Cardinality(Pending) \in Nat
<1>1. Pending \subseteq Threads
  BY DEF Pending
<1> QED
  BY <1>1, ThreadsAssumption, FS_Subset, FS_CardinalityType

LEMMA NobodyPending == AllIdle => Cardinality(Pending) = 0
<1> SUFFICES ASSUME AllIdle PROVE Cardinality(Pending) = 0
  OBVIOUS
<1>1. Pending = {}
  BY DEF Pending, AllIdle
<1> QED
  BY <1>1, FS_EmptySet

(* Every iteration claimed is one the phase has issued. *)
LEMMA ClaimedIterInPhase ==
  ASSUME IInv, NEW t \in Threads, Claimed(t)
  PROVE  /\ Running
         /\ \/ phase = "parallel" /\ iter[t] < Blocks
            \/ phase = "last" /\ LastBlockSize > 0 /\ iter[t] = Blocks
            \/ phase = "leftover" /\ iter[t] = LeftoverIter
<1> USE DEF IInv
<1>1. Running
  BY DEF Claimed, Unclaimed, PhaseIters, AllIdle, Running, TypeOK
<1>2. /\ Cardinality(Pending) \in Nat /\ next \in Nat /\ iter[t] \in Nat /\ iter[t] < next
      /\ Blocks \in Nat /\ LeftoverIter \in Nat /\ ii \in Nat
  BY <1>1, PendingFinite, LayoutTypes DEF ClaimsOrdered, TypeOK
<1>3. CASE phase = "parallel"
  BY <1>1, <1>2, <1>3 DEF PhaseIters, Issued
<1>4. CASE phase # "parallel"
  <2>1. phase \in {"last", "leftover"}
    BY <1>1, <1>4 DEF Running
  <2>2. t = Master /\ iter[t] = next - 1
    BY <2>1 DEF PhaseIters, Claimed, Unclaimed
  <2>3. Pending = {}
    BY <2>1, <2>2 DEF PhaseIters, Claimed, Unclaimed, Pending
  <2>4. next = Issued
    BY <2>3, <1>1, <1>2, FS_EmptySet DEF PhaseIters
  <2> QED
    BY <2>1, <2>2, <2>4, <1>1, <1>2 DEF PhaseIters, Issued
<1> QED
  BY <1>3, <1>4

LEMMA PhaseStep ==
  ASSUME IInv, Next
  PROVE  PhaseIters'
<1> USE DEF IInv
<1>0. /\ Master \in Threads /\ next \in Nat /\ ii \in Nat /\ iter \in [Threads -> Nat]
      /\ pc \in [Threads -> Unclaimed \union BeforeSetOut \union {"unlockIn", "work"}]
      /\ Cardinality(Pending) \in Nat /\ IsFiniteSet(Pending)
  BY ThreadsAssumption, PendingFinite DEF TypeOK
<1>1. CASE Begin
  <2>1. AllIdle /\ AllIdle' /\ next' = 0 /\ ii' = 0
    BY <1>1 DEF Begin, PhaseIters, AllIdle, chainVars
  <2>2. Cardinality(Pending') = 0
    <3>1. Pending' = {}
      BY <2>1 DEF AllIdle, Pending
    <3> QED
      BY <3>1, FS_EmptySet
  <2>3. phase' = "done" \/ (phase' = "parallel" /\ blockSize' % Mult = 0)
    BY <1>1 DEF Begin
  <2>4. blockSize' \in Nat /\ blockSize' > 0
    BY <1>1, DefaultType DEF Begin, TypeOK
  <2>5. Blocks' \in Nat
    BY <2>4, SizesAssumption, DivMod DEF Blocks
  <2> QED
    BY <2>1, <2>2, <2>3, <2>5 DEF PhaseIters, Issued, Running
<1>2. CASE StartLastBlock
  <2>1. /\ phase = "parallel" /\ AllIdle /\ ii = Blocks /\ LastBlockSize > 0
        /\ phase' = "last" /\ pc' = [pc EXCEPT ![Master] = "lockNext"]
        /\ UNCHANGED <<next, ii, iter, blockSize>>
    BY <1>2 DEF StartLastBlock, Goto, chainVars, threadVars
  <2>2. next = Blocks /\ blockSize % Mult = 0
    BY <2>1, <1>0, NobodyPending DEF PhaseIters, Issued, Running
  <2>3. Pending' = {Master}
    BY <2>1, <1>0 DEF Pending, AllIdle
  <2>4. Cardinality(Pending') = 1
    BY <2>3, FS_Singleton
  <2> QED
    BY <2>1, <2>2, <2>4, <1>0 DEF PhaseIters, Issued, Running, Claimed, Unclaimed, AllIdle, Blocks, LastBlockSize
<1>3. CASE StartLeftover
  <2>1. /\ BlocksDone /\ AllIdle
        /\ phase' = "leftover" /\ pc' = [pc EXCEPT ![Master] = "lockNext"]
        /\ UNCHANGED <<next, ii, iter, blockSize>>
    BY <1>3 DEF StartLeftover, BlocksDone, Goto, chainVars, threadVars
  <2>2. next = LeftoverIter /\ blockSize % Mult = 0
    BY <2>1, <1>0, NobodyPending DEF PhaseIters, Issued, Running, BlocksDone, LeftoverIter
  <2>3. Pending' = {Master}
    BY <2>1, <1>0 DEF Pending, AllIdle
  <2>4. Cardinality(Pending') = 1
    BY <2>3, FS_Singleton
  <2> QED
    BY <2>1, <2>2, <2>4, <1>0
    DEF PhaseIters, Issued, Running, Claimed, Unclaimed, AllIdle, LeftoverIter, Blocks, LastBlockSize
<1>4. CASE ReturnError \/ Return
  BY <1>4 DEF ReturnError, Return, BlocksDone, PhaseIters, AllIdle, Running
<1>5. CASE Terminated
  BY <1>5 DEF Terminated, vars, chainVars, threadVars, wrapVars, PhaseIters, AllIdle, Running
<1>6. ASSUME NEW t \in Threads, StartBlock(t)
      PROVE PhaseIters'
  <2>1. /\ phase = "parallel" /\ phase' = phase /\ ii < Blocks /\ ii' = ii + 1
        /\ pc[t] = "idle" /\ pc' = [pc EXCEPT ![t] = "lockNext"]
        /\ UNCHANGED <<next, iter, blockSize>>
    BY <1>6 DEF StartBlock, Goto, chainVars, threadVars
  <2>2. Pending' = Pending \union {t} /\ t \notin Pending
    BY <2>1, <1>0 DEF Pending
  <2>3. Cardinality(Pending') = Cardinality(Pending) + 1
    BY <2>2, <1>0, FS_AddElement
  <2>4. Blocks \in Nat /\ Blocks' = Blocks
    BY <2>1, LayoutTypes DEF Blocks, Running
  <2> QED
    BY <2>1, <2>3, <2>4, <1>0 DEF PhaseIters, Issued, Running
<1>7. ASSUME NEW t \in Threads, Thread(t)
      PROVE PhaseIters'
  <2>1. /\ pc[t] # "idle"
        /\ UNCHANGED <<phase, ii, blockSize>>
    BY <1>7 DEF Thread, GetIn, LockNext, TakeIter, LockIn, LockNextIn, LockNextOut, UnlockNext, ReadIn,
         SetNextIn, WriteNextIn, UnlockNextIn, GetOut, LockOut, ReadOut, UnlockOut,
         SetNextOut, WriteNextOut, UnlockNextOut, UnlockIn, Work, WorkDone, WorkFailed, Goto, wrapVars
  <2>2. Running /\ phase \notin {"start", "done"}
    BY <2>1 DEF PhaseIters, AllIdle, Running, TypeOK
  <2>3. CASE TakeIter(t)
    <3>1. /\ pc[t] = "takeIter" /\ pc' = [pc EXCEPT ![t] = "lockIn"]
          /\ next' = next + 1 /\ iter' = [iter EXCEPT ![t] = next]
      BY <2>3 DEF TakeIter, Goto
    <3>2. Pending' = Pending \ {t} /\ t \in Pending
      BY <3>1, <1>0 DEF Pending
    <3>3. Cardinality(Pending') = Cardinality(Pending) - 1
      BY <3>2, <1>0, FS_RemoveElement
    <3> QED
      BY <2>1, <2>2, <3>1, <3>3, <1>0
      DEF PhaseIters, Issued, Running, Blocks, LastBlockSize, LeftoverIter, Claimed, Unclaimed
  <2>4. CASE ~TakeIter(t)
    <3>1. /\ UNCHANGED <<next, iter>>
          /\ pc' = [pc EXCEPT ![t] = pc'[t]]
          /\ pc'[t] \in {"lockNext", "takeIter"} <=> pc[t] \in {"lockNext", "takeIter"}
          /\ Claimed(t)' => Claimed(t)
      BY <1>7, <2>4, <1>0 DEF Thread, GetIn, LockNext, LockIn, LockNextIn, LockNextOut, UnlockNext, ReadIn,
         SetNextIn, WriteNextIn, UnlockNextIn, GetOut, LockOut, ReadOut, UnlockOut,
         SetNextOut, WriteNextOut, UnlockNextOut, UnlockIn, Work, WorkDone, WorkFailed, Goto, chainVars, threadVars,
         Claimed, Unclaimed
    <3>2. Pending' = Pending
      BY <3>1, <1>0 DEF Pending
    <3>3. Claimed(Master)' => Claimed(Master)
      BY <3>1, <1>0 DEF Claimed
    <3>4. \A u \in Threads : pc[u] = "idle" => u # t /\ pc'[u] = "idle"
      BY <2>1, <3>1, <1>0
    <3> QED
      BY <2>1, <2>2, <3>1, <3>2, <3>3, <3>4, <1>0
      DEF PhaseIters, Issued, Running, Blocks, LastBlockSize, LeftoverIter
  <2> QED
    BY <2>3, <2>4
<1> QED
  BY <1>1, <1>2, <1>3, <1>4, <1>5, <1>6, <1>7 DEF Next, Wrapper

-----------------------------------------------------------------------------
(* Pointers.                                                               *)

(* The comment in ioc_set_next_out: an iteration is not overtaken. *)
LEMMA NeverOvertaken == IInv => NotOvertaken
<1> SUFFICES ASSUME IInv, NEW t \in Threads, NEW u \in Threads,
                    Past(t, {"lockIn"}), pc[t] # "work",
                    Past(u, {"lockIn", "lockNextIn"}), pc[u] # "work"
             PROVE  iter[u] + 1 < iter[t] + Slots
  BY DEF NotOvertaken
<1>1. /\ HoldsIn(t) /\ Claimed(u)
      /\ next \in Nat /\ iter[t] \in Nat /\ iter[u] \in Nat /\ Slots \in Nat
  BY SlotsAssumption DEF Past, HoldsIn, Claimed, Unclaimed, IInv, TypeOK
<1>2. next <= iter[t] + Slots /\ iter[u] < next
  BY <1>1 DEF IInv, Window, ClaimsOrdered
<1>3. CASE \E v \in Threads : pc[v] \in {"lockIn", "lockNextIn"}
  <2>1. PICK v \in Threads : pc[v] \in {"lockIn", "lockNextIn"}
    BY <1>3
  <2>2. iter[v] = next - 1 /\ v # u /\ Claimed(v)
    BY <2>1 DEF IInv, ClaimsOrdered, Claimed, HoldsNext, Unclaimed, Past
  <2>3. iter[u] # iter[v]
    BY <1>1, <2>2 DEF IInv, ClaimsOrdered
  <2> QED
    BY <1>1, <1>2, <2>2, <2>3
<1>4. CASE ~ \E v \in Threads : pc[v] \in {"lockIn", "lockNextIn"}
  BY <1>1, <1>2, <1>4 DEF IInv, Window
<1> QED
  BY <1>3, <1>4

LEMMA StartStable ==
  ASSUME UNCHANGED blockSize
  PROVE  \A i : Start(i)' = Start(i)
BY DEF Start, Blocks, LeftoverIter, LastBlockSize

(* Whoever gets the lock of in_pl[this_iter] finds the slot settled. *)
LEMMA InSettledAtLock ==
  ASSUME IInv, NEW t \in Threads, pc[t] = "lockIn", inLock[HereSlot(t)] = NoThread
  PROVE  inPtr[HereSlot(t)] = Start(iter[t])
<1> USE DEF IInv
<1>1. Running
  BY ClaimedIterInPhase DEF Claimed, Unclaimed
<1>2. ASSUME NEW u \in Threads, Unsettled(u, iter[t], BeforeWriteIn)
      PROVE  FALSE
  <2>1. u # t /\ iter[t] \in Nat /\ iter[u] \in Nat
    BY <1>2 DEF Unsettled, TypeOK
  <2>2. HoldsNext(t) /\ ~HoldsNext(u)
    BY <2>1 DEF LocksHeld, HoldsNext
  <2>3. HoldsNextIn(u)
    BY <1>2, <2>2 DEF Unsettled, HoldsNext, HoldsNextIn, BeforeWriteIn, BeforeReadIn
  <2>4. inLock[AheadSlot(u)] = u /\ AheadSlot(u) = HereSlot(t)
    BY <1>2, <2>3 DEF LocksHeld, Unsettled, AheadSlot, HereSlot
  <2> QED
    BY <2>4, ThreadsAssumption
<1> QED
  BY <1>1, <1>2 DEF SlotsSettled, InReady, HereSlot

(* Whoever holds the lock of out_pl[this_iter] finds the slot settled. *)
LEMMA OutSettledAtRead ==
  ASSUME IInv, NEW t \in Threads, pc[t] = "readOut"
  PROVE  outPtr[HereSlot(t)] = Start(iter[t])
<1> USE DEF IInv
<1>1. Running /\ Claimed(t)
  BY ClaimedIterInPhase DEF Claimed, Unclaimed
<1>2. ASSUME NEW u \in Threads, Unsettled(u, iter[t], BeforeWriteOut)
      PROVE  FALSE
  <2>1. u # t /\ iter[t] \in Nat /\ iter[u] \in Nat /\ next \in Nat
    BY <1>2 DEF Unsettled, TypeOK
  <2>2. ~HoldsNext(u)
    BY <1>1, <1>2, <2>1 DEF Unsettled, ClaimsOrdered
  <2>3. HoldsNextOut(u)
    BY <1>2, <2>2 DEF Unsettled, HoldsNext, HoldsNextOut, BeforeWriteOut, BeforeReadOut, BeforeSetIn, BeforeReadIn
  <2>4. outLock[AheadSlot(u)] = u /\ AheadSlot(u) = HereSlot(t) /\ outLock[HereSlot(t)] = t
    BY <1>2, <2>3 DEF LocksHeld, Unsettled, AheadSlot, HereSlot, HoldsOut
  <2> QED
    BY <2>1, <2>4
<1> QED
  BY <1>1, <1>2 DEF SlotsSettled, OutReady, HereSlot, BeforeReadOut

LEMMA PointersStep ==
  ASSUME IInv, Next
  PROVE  PointersInOrder'
<1> USE DEF IInv
<1> USE DEF PointersInOrder, Past, Goto, chainVars, threadVars, wrapVars, Unclaimed,
            BeforeReadOut, BeforeSetIn, BeforeReadIn
<1>0. /\ Master \in Threads
      /\ pc \in [Threads -> Unclaimed \union BeforeSetOut \union {"unlockIn", "work"}]
      /\ inAt \in [Threads -> Nat] /\ outAt \in [Threads -> Nat]
  BY ThreadsAssumption DEF TypeOK
<1>1. CASE Wrapper
  <2>1. CASE Begin
    BY <2>1 DEF Begin, PhaseIters, AllIdle
  <2>2. CASE StartLastBlock \/ StartLeftover
    BY <2>2, <1>0, StartStable DEF StartLastBlock, StartLeftover
  <2>3. CASE ReturnError \/ Return
    BY <2>3, StartStable DEF ReturnError, Return
  <2> QED
    BY <1>1, <2>1, <2>2, <2>3 DEF Wrapper
<1>2. CASE Terminated
  BY <1>2, StartStable DEF Terminated, vars
<1>3. ASSUME NEW t \in Threads, ReadIn(t)
      PROVE PointersInOrder'
  <2>1. inPtr[HereSlot(t)] = Start(iter[t])
    BY <1>3, ClaimedIterInPhase DEF ReadIn, SlotsSettled, Claimed
  <2> QED
    BY <1>3, <1>0, <2>1, StartStable DEF ReadIn
<1>4. ASSUME NEW t \in Threads, ReadOut(t)
      PROVE PointersInOrder'
  <2>1. outPtr[HereSlot(t)] = Start(iter[t])
    BY <1>4, OutSettledAtRead DEF ReadOut
  <2> QED
    BY <1>4, <1>0, <2>1, StartStable DEF ReadOut
<1>5. ASSUME NEW t \in Threads, StartBlock(t) \/ LockNext(t) \/ LockIn(t) \/ LockNextIn(t)
                                \/ LockNextOut(t) \/ UnlockNext(t)
      PROVE PointersInOrder'
  BY <1>5, <1>0, StartStable DEF StartBlock, LockNext, LockIn, LockNextIn, LockNextOut, UnlockNext
<1>7. ASSUME NEW t \in Threads, TakeIter(t)
      PROVE PointersInOrder'
  <2>1. \A u \in Threads \ {t} : iter'[u] = iter[u] /\ pc'[u] = pc[u]
    BY <1>7, <1>0 DEF TakeIter, TypeOK
  <2>2. pc'[t] = "lockIn" /\ UNCHANGED <<inAt, outAt, blockSize>>
    BY <1>7, <1>0 DEF TakeIter
  <2> QED
    BY <2>1, <2>2, StartStable
<1>6. ASSUME NEW t \in Threads, SetNextIn(t) \/ LockOut(t) \/ UnlockOut(t) \/ SetNextOut(t) \/ Work(t)
      PROVE PointersInOrder'
  BY <1>6, <1>0, StartStable DEF SetNextIn, WriteNextIn, UnlockNextIn, LockOut, UnlockOut,
       SetNextOut, WriteNextOut, UnlockNextOut, UnlockIn, Work, WorkDone, WorkFailed
<1> QED
  BY <1>1, <1>2, <1>3, <1>4, <1>5, <1>6, <1>7 DEF Next, Thread, GetIn, GetOut

(* A step that moves thread t on without touching pointers or claims leaves  *)
(* the settled slots settled.                                                *)
LEMMA QuietStep ==
  ASSUME SlotsSettled, Running, NEW t \in Threads,
         UNCHANGED <<phase, next, inPtr, outPtr, iter, blockSize>>,
         \A u \in Threads \ {t} : pc'[u] = pc[u],
         pc'[t] # "lockIn",
         pc'[t] \in {"lockNextIn", "lockNextOut", "unlockNext", "readIn"} =>
           \/ pc[t] \in {"lockNextIn", "lockNextOut", "unlockNext", "readIn"}
           \/ inPtr[HereSlot(t)] = Start(iter[t]),
         pc'[t] \in BeforeReadOut => pc[t] \in BeforeReadOut,
         pc[t] \in BeforeWriteIn => pc'[t] \in BeforeWriteIn,
         pc[t] \in BeforeWriteOut => pc'[t] \in BeforeWriteOut
  PROVE  SlotsSettled'
<1>1. \A i : Start(i)' = Start(i)
  BY StartStable
<1>2. ASSUME NEW u \in Threads, NEW i, Unsettled(u, i, BeforeWriteIn)
      PROVE  Unsettled(u, i, BeforeWriteIn)'
  BY <1>2 DEF Unsettled, Claimed, Unclaimed, BeforeWriteIn, BeforeReadIn
<1>3. ASSUME NEW u \in Threads, NEW i, Unsettled(u, i, BeforeWriteOut)
      PROVE  Unsettled(u, i, BeforeWriteOut)'
  BY <1>3 DEF Unsettled, Claimed, Unclaimed, BeforeWriteOut, BeforeReadOut, BeforeSetIn, BeforeReadIn
<1>4. \A i : InReady(i) => InReady(i)'
  BY <1>1, <1>2 DEF InReady
<1>5. \A i : OutReady(i) => OutReady(i)'
  BY <1>1, <1>3 DEF OutReady
<1>6. InReady(next)' /\ OutReady(next)'
  BY <1>4, <1>5 DEF SlotsSettled
<1>7. ASSUME NEW u \in Threads
      PROVE  /\ pc'[u] = "lockIn" => InReady(iter[u])'
             /\ pc'[u] \in {"lockNextIn", "lockNextOut", "unlockNext", "readIn"}
                  => inPtr'[HereSlot(u)'] = Start(iter[u])'
             /\ pc'[u] \in BeforeReadOut => OutReady(iter[u])'
  <2>1. HereSlot(u)' = HereSlot(u) /\ Start(iter[u])' = Start(iter[u])
    BY <1>1 DEF HereSlot
  <2>2. pc'[u] = "lockIn" => InReady(iter[u])'
    BY <1>4 DEF SlotsSettled
  <2>3. pc'[u] \in BeforeReadOut => OutReady(iter[u])'
    BY <1>5 DEF SlotsSettled
  <2> QED
    BY <2>1, <2>2, <2>3 DEF SlotsSettled
<1> QED
  BY <1>6, <1>7 DEF SlotsSettled

LEMMA TakeIterSettled ==
  ASSUME IInv, NEW t \in Threads, TakeIter(t)
  PROVE  SlotsSettled'
<1> USE DEF IInv
<1>1. /\ Running /\ next \in Nat /\ iter \in [Threads -> Nat] /\ pc[t] = "takeIter"
      /\ next' = next + 1 /\ iter' = [iter EXCEPT ![t] = next]
      /\ pc' = [pc EXCEPT ![t] = "lockIn"]
      /\ pc \in [Threads -> Unclaimed \union BeforeSetOut \union {"unlockIn", "work"}]
      /\ UNCHANGED <<inPtr, outPtr, blockSize, phase>>
  BY DEF TakeIter, Goto, TypeOK, PhaseIters, AllIdle, Running, wrapVars
<1>2. \A i : Start(i)' = Start(i)
  BY <1>1, StartStable
<1>3. ASSUME NEW u \in Threads, NEW i \in Nat, i <= next, NEW stm,
             Unsettled(u, i, stm)
      PROVE  Unsettled(u, i, stm)'
  BY <1>1, <1>3 DEF Unsettled, Claimed, Unclaimed
<1>4. \A i \in Nat : i <= next /\ InReady(i) => InReady(i)'
  BY <1>1, <1>2, <1>3 DEF InReady
<1>5. \A i \in Nat : i <= next /\ OutReady(i) => OutReady(i)'
  BY <1>1, <1>2, <1>3 DEF OutReady
<1>6. InReady(next)' /\ OutReady(next)'
  <2>1. Unsettled(t, next, BeforeWriteIn)' /\ Unsettled(t, next, BeforeWriteOut)'
    BY <1>1 DEF Unsettled, Claimed, Unclaimed, BeforeWriteIn, BeforeWriteOut, BeforeReadOut, BeforeSetIn, BeforeReadIn
  <2> QED
    BY <2>1 DEF InReady, OutReady
<1>7. InReady(iter[t])' /\ OutReady(iter[t])'
  <2>1. PICK i \in Nat : i = next
    BY <1>1
  <2>2. iter'[t] = i /\ i <= next /\ InReady(i) /\ OutReady(i)
    BY <1>1, <2>1 DEF SlotsSettled
  <2>3. InReady(i)' /\ OutReady(i)'
    BY <1>4, <1>5, <2>2
  <2> QED
    BY <2>2, <2>3 DEF InReady, OutReady
<1>8. ASSUME NEW u \in Threads, u # t
      PROVE  /\ pc'[u] = "lockIn" => InReady(iter[u])'
             /\ pc'[u] \in {"lockNextIn", "lockNextOut", "unlockNext", "readIn"}
                  => inPtr'[HereSlot(u)'] = Start(iter[u])'
             /\ pc'[u] \in BeforeReadOut => OutReady(iter[u])'
  <2>1. pc'[u] = pc[u] /\ iter'[u] = iter[u] /\ iter[u] \in Nat
    BY <1>1, <1>8
  <2>2. pc[u] \in BeforeReadOut \union {"lockIn"} => iter[u] <= next
    BY <1>1, <2>1 DEF ClaimsOrdered, Claimed, Unclaimed, BeforeReadOut, BeforeSetIn, BeforeReadIn
  <2>3. HereSlot(u)' = HereSlot(u) /\ Start(iter[u])' = Start(iter[u])
    BY <2>1, <1>2 DEF HereSlot
  <2>4. pc'[u] = "lockIn" => InReady(iter[u])'
    <3> SUFFICES ASSUME pc'[u] = "lockIn" PROVE InReady(iter[u])'
      OBVIOUS
    <3>1. InReady(iter[u]) /\ iter[u] <= next
      BY <1>1, <2>1, <2>2 DEF SlotsSettled
    <3> QED
      BY <3>1, <2>1, <1>1, <1>2, <1>3 DEF InReady
  <2>5. pc'[u] \in BeforeReadOut => OutReady(iter[u])'
    <3> SUFFICES ASSUME pc'[u] \in BeforeReadOut PROVE OutReady(iter[u])'
      OBVIOUS
    <3>1. OutReady(iter[u]) /\ iter[u] <= next
      BY <1>1, <2>1, <2>2 DEF SlotsSettled
    <3> QED
      BY <3>1, <2>1, <1>1, <1>2, <1>3 DEF OutReady
  <2> QED
    BY <1>1, <2>1, <2>3, <2>4, <2>5 DEF SlotsSettled
<1>9. pc'[t] = "lockIn"
  BY <1>1
<1> QED
  BY <1>6, <1>7, <1>8, <1>9 DEF SlotsSettled

LEMMA WriteNextInSettled ==
  ASSUME IInv, NEW t \in Threads, WriteNextIn(t)
  PROVE  SlotsSettled'
<1> USE DEF IInv
<1>1. /\ Running /\ next \in Nat /\ iter \in [Threads -> Nat] /\ pc[t] = "writeNextIn"
      /\ inPtr \in [Slot -> Nat]
      /\ pc' = [pc EXCEPT ![t] = "unlockNextIn"]
      /\ inPtr' = [inPtr EXCEPT ![AheadSlot(t)] = inAt[t] + Length]
      /\ pc \in [Threads -> Unclaimed \union BeforeSetOut \union {"unlockIn", "work"}]
      /\ UNCHANGED <<next, iter, outPtr, blockSize, phase>>
  BY DEF WriteNextIn, Goto, TypeOK, PhaseIters, AllIdle, Running, threadVars, wrapVars
<1>2. \A i : Start(i)' = Start(i)
  BY <1>1, StartStable
<1>3. Claimed(t) /\ HoldsIn(t) /\ iter[t] < next /\ next <= iter[t] + Slots
  BY <1>1 DEF Claimed, Unclaimed, HoldsIn, ClaimsOrdered, Window
<1>4. inPtr'[(iter[t] + 1) % Slots] = Start(iter[t] + 1)
  <2>1. inAt[t] = Start(iter[t])
    BY <1>1 DEF PointersInOrder, Past, Unclaimed, BeforeReadIn
  <2>2. Start(iter[t]) + Length = Start(iter[t] + 1)
    BY <1>1, <1>3, ClaimedIterInPhase, StartNext DEF PhaseIters
  <2> QED
    BY <1>1, <2>1, <2>2, ThreadSlots DEF AheadSlot
<1>5. ASSUME NEW i \in Nat, iter[t] + 1 <= i, i <= next, InReady(i)
      PROVE  InReady(i)'
  <2>1. CASE i = iter[t] + 1
    BY <1>2, <1>4, <2>1 DEF InReady
  <2>2. CASE i # iter[t] + 1
    <3>1. (iter[t] + 1) % Slots # i % Slots
      <4>1. /\ iter[t] + 1 \in Nat /\ iter[t] + 1 < i
            /\ i < (iter[t] + 1) + Slots
        BY <1>1, <1>3, <1>5, <2>2, SlotsAssumption
      <4> QED
        BY <4>1, SlotsDiffer, Zenon
    <3>2. inPtr'[i % Slots] = inPtr[i % Slots]
      BY <1>1, <3>1, SlotInRange DEF AheadSlot
    <3>3. \A u \in Threads : Unsettled(u, i, BeforeWriteIn) => Unsettled(u, i, BeforeWriteIn)'
      BY <1>1, <2>2 DEF Unsettled, Claimed
    <3> QED
      BY <1>2, <1>5, <3>2, <3>3 DEF InReady
  <2> QED
    BY <2>1, <2>2
<1>6. ASSUME NEW i, OutReady(i) PROVE OutReady(i)'
  <2>1. \A u \in Threads : Unsettled(u, i, BeforeWriteOut) => Unsettled(u, i, BeforeWriteOut)'
    BY <1>1 DEF Unsettled, Claimed, Unclaimed, BeforeWriteOut, BeforeReadOut, BeforeSetIn
  <2> QED
    BY <1>1, <1>2, <1>6, <2>1 DEF OutReady
<1>7. InReady(next)' /\ OutReady(next)'
  <2>1. InReady(next) /\ OutReady(next)
    BY <1>1 DEF SlotsSettled
  <2>2. iter[t] + 1 <= next
    BY <1>1, <1>3
  <2>3. next' = next
    BY <1>1
  <2> QED
    BY <2>1, <2>2, <2>3, <1>1, <1>5, <1>6 DEF InReady, OutReady
<1>8. ASSUME NEW u \in Threads
      PROVE  /\ pc'[u] = "lockIn" => InReady(iter[u])'
             /\ pc'[u] \in {"lockNextIn", "lockNextOut", "unlockNext", "readIn"}
                  => inPtr'[HereSlot(u)'] = Start(iter[u])'
             /\ pc'[u] \in BeforeReadOut => OutReady(iter[u])'
  <2>1. iter'[u] = iter[u] /\ iter[u] \in Nat
    BY <1>1
  <2>2. ASSUME pc'[u] = "lockIn" PROVE InReady(iter[u])'
    <3>1. pc[u] = "lockIn" /\ u # t
      BY <1>1, <2>2
    <3>2. iter[u] = next - 1 /\ iter[u] # iter[t] /\ InReady(iter[u])
      BY <1>1, <1>3, <3>1 DEF ClaimsOrdered, Claimed, Unclaimed, HoldsNext, SlotsSettled
    <3>3. iter[t] + 1 <= iter[u] /\ iter[u] <= next
      BY <1>1, <1>3, <2>1, <3>2
    <3> QED
      BY <1>5, <2>1, <3>2, <3>3 DEF InReady
  <2>3. ASSUME pc'[u] \in {"lockNextIn", "lockNextOut", "unlockNext", "readIn"}
        PROVE  inPtr'[HereSlot(u)'] = Start(iter[u])'
    <3>1. pc[u] = pc'[u] /\ u # t
      BY <1>1, <2>3
    <3>2. inLock[HereSlot(u)] = u /\ inLock[AheadSlot(t)] = t
      BY <1>1, <2>3, <3>1 DEF LocksHeld, HoldsIn, HoldsNextIn, Unclaimed
    <3>3. inPtr'[HereSlot(u)] = inPtr[HereSlot(u)]
      BY <1>1, <3>1, <3>2, ThreadSlots
    <3>4. HereSlot(u)' = HereSlot(u)
      BY <2>1 DEF HereSlot
    <3>5. inPtr[HereSlot(u)] = Start(iter[u])
      BY <1>1, <2>3, <3>1 DEF SlotsSettled
    <3> QED
      BY <1>2, <2>1, <3>3, <3>4, <3>5
  <2>4. ASSUME pc'[u] \in BeforeReadOut PROVE OutReady(iter[u])'
    <3>1. pc[u] \in BeforeReadOut
      BY <1>1, <2>4 DEF BeforeReadOut, BeforeSetIn
    <3>2. OutReady(iter[u])
      BY <1>1, <3>1 DEF SlotsSettled
    <3> QED
      BY <1>6, <2>1, <3>2 DEF OutReady
  <2> QED
    BY <2>2, <2>3, <2>4
<1> QED
  BY <1>7, <1>8 DEF SlotsSettled

LEMMA WriteNextOutSettled ==
  ASSUME IInv, NEW t \in Threads, WriteNextOut(t)
  PROVE  SlotsSettled'
<1> USE DEF IInv
<1>1. /\ Running /\ next \in Nat /\ iter \in [Threads -> Nat] /\ pc[t] = "writeNextOut"
      /\ outPtr \in [Slot -> Nat] /\ Slots \in Nat
      /\ pc' = [pc EXCEPT ![t] = "unlockNextOut"]
      /\ outPtr' = [outPtr EXCEPT ![AheadSlot(t)] = outAt[t] + Length]
      /\ pc \in [Threads -> Unclaimed \union BeforeSetOut \union {"unlockIn", "work"}]
      /\ UNCHANGED <<next, iter, inPtr, blockSize, phase>>
  BY SlotsAssumption DEF WriteNextOut, Goto, TypeOK, PhaseIters, AllIdle, Running, threadVars, wrapVars
<1>2. \A i : Start(i)' = Start(i)
  BY <1>1, StartStable
<1>3. Claimed(t) /\ HoldsIn(t) /\ iter[t] < next /\ next <= iter[t] + Slots
  BY <1>1 DEF Claimed, Unclaimed, HoldsIn, ClaimsOrdered, Window
<1>4. outPtr'[(iter[t] + 1) % Slots] = Start(iter[t] + 1)
  <2>1. outAt[t] = Start(iter[t])
    BY <1>1 DEF PointersInOrder, Past, Unclaimed, BeforeReadOut, BeforeSetIn, BeforeReadIn
  <2>2. Start(iter[t]) + Length = Start(iter[t] + 1)
    BY <1>1, <1>3, ClaimedIterInPhase, StartNext DEF PhaseIters
  <2> QED
    BY <1>1, <2>1, <2>2, ThreadSlots DEF AheadSlot
(* An iteration within a lap of the one written, either side, is not hit. *)
<1>5. ASSUME NEW i \in Nat, OutReady(i), i <= next, iter[t] + 1 < i + Slots
      PROVE  OutReady(i)'
  <2>1. CASE i = iter[t] + 1
    BY <1>2, <1>4, <2>1 DEF OutReady
  <2>2. CASE i # iter[t] + 1
    <3>1. (iter[t] + 1) % Slots # i % Slots
      <4>1. CASE iter[t] + 1 < i
        <5>1. /\ iter[t] + 1 \in Nat
              /\ i < (iter[t] + 1) + Slots
          BY <1>1, <1>3, <1>5
        <5> QED
          BY <4>1, <5>1, SlotsDiffer, Zenon
      <4>2. CASE i < iter[t] + 1
        <5>1. iter[t] + 1 \in Nat
          BY <1>1
        <5> QED
          BY <4>2, <5>1, <1>5, SlotsDiffer, Zenon
      <4> QED
        BY <4>1, <4>2, <2>2, <1>1
    <3>2. outPtr'[i % Slots] = outPtr[i % Slots]
      BY <1>1, <3>1, SlotInRange DEF AheadSlot
    <3>3. \A u \in Threads : Unsettled(u, i, BeforeWriteOut) => Unsettled(u, i, BeforeWriteOut)'
      BY <1>1, <2>2 DEF Unsettled, Claimed
    <3> QED
      BY <1>2, <1>5, <3>2, <3>3 DEF OutReady
  <2> QED
    BY <2>1, <2>2
<1>6. ASSUME NEW i, InReady(i) PROVE InReady(i)'
  <2>1. \A u \in Threads : Unsettled(u, i, BeforeWriteIn) => Unsettled(u, i, BeforeWriteIn)'
    BY <1>1 DEF Unsettled, Claimed, Unclaimed, BeforeWriteIn, BeforeReadIn
  <2> QED
    BY <1>1, <1>2, <1>6, <2>1 DEF InReady
<1>7. InReady(next)' /\ OutReady(next)'
  <2>1. InReady(next) /\ OutReady(next)
    BY <1>1 DEF SlotsSettled
  <2>2. iter[t] + 1 < next + Slots
    BY <1>1, <1>3, SlotsAssumption
  <2>3. next' = next
    BY <1>1
  <2> QED
    BY <2>1, <2>2, <2>3, <1>1, <1>5, <1>6 DEF InReady, OutReady
<1>8. ASSUME NEW u \in Threads
      PROVE  /\ pc'[u] = "lockIn" => InReady(iter[u])'
             /\ pc'[u] \in {"lockNextIn", "lockNextOut", "unlockNext", "readIn"}
                  => inPtr'[HereSlot(u)'] = Start(iter[u])'
             /\ pc'[u] \in BeforeReadOut => OutReady(iter[u])'
  <2>1. iter'[u] = iter[u] /\ iter[u] \in Nat /\ HereSlot(u)' = HereSlot(u)
    BY <1>1 DEF HereSlot
  <2>2. ASSUME pc'[u] = "lockIn" PROVE InReady(iter[u])'
    <3>1. InReady(iter[u])
      BY <1>1, <2>2 DEF SlotsSettled
    <3> QED
      BY <1>6, <2>1, <3>1 DEF InReady
  <2>3. ASSUME pc'[u] \in {"lockNextIn", "lockNextOut", "unlockNext", "readIn"}
        PROVE  inPtr'[HereSlot(u)'] = Start(iter[u])'
    <3>1. pc[u] = pc'[u]
      BY <1>1, <2>3
    <3>2. inPtr[HereSlot(u)] = Start(iter[u])
      BY <1>1, <2>3, <3>1 DEF SlotsSettled
    <3> QED
      BY <1>1, <1>2, <2>1, <3>2
  <2>4. ASSUME pc'[u] \in BeforeReadOut PROVE OutReady(iter[u])'
    <3>1. pc[u] \in BeforeReadOut /\ u # t
      BY <1>1, <2>4 DEF BeforeReadOut, BeforeSetIn, BeforeReadIn
    <3>2. OutReady(iter[u]) /\ iter[u] <= next
      BY <1>1, <3>1 DEF SlotsSettled, ClaimsOrdered, Claimed, Unclaimed, BeforeReadOut, BeforeSetIn, BeforeReadIn
    <3>3. iter[t] + 1 < iter[u] + Slots
      <4>1. CASE pc[u] = "lockIn"
        <5>1. iter[u] = next - 1
          BY <1>1, <4>1 DEF ClaimsOrdered, Claimed, Unclaimed, HoldsNext
        <5> QED
          BY <1>1, <1>3, <2>1, <5>1, SlotsAssumption
      <4>2. CASE pc[u] # "lockIn"
        BY <1>1, <3>1, <4>2, NeverOvertaken
        DEF NotOvertaken, Past, Unclaimed, BeforeReadOut, BeforeSetIn, BeforeReadIn
      <4> QED
        BY <4>1, <4>2
    <3> QED
      BY <1>5, <2>1, <3>2, <3>3 DEF OutReady
  <2> QED
    BY <2>2, <2>3, <2>4
<1> QED
  BY <1>7, <1>8 DEF SlotsSettled

LEMMA SlotsStep ==
  ASSUME IInv, Next
  PROVE  SlotsSettled'
<1> USE DEF IInv
<1> USE DEF Goto, chainVars, threadVars, wrapVars
<1>0. /\ Master \in Threads
      /\ pc \in [Threads -> Unclaimed \union BeforeSetOut \union {"unlockIn", "work"}]
  BY ThreadsAssumption DEF TypeOK
<1>1. CASE Begin
  <2>1. /\ next' = 0 /\ inPtr'[0] = 0 /\ outPtr'[0] = 0
        /\ \A u \in Threads : pc'[u] = "idle"
    BY <1>1 DEF Begin, PhaseIters, AllIdle
  <2>2. blockSize' \in Nat /\ blockSize' > 0
    BY <1>1, DefaultType DEF Begin, TypeOK
  <2>3. Blocks' \in Nat
    BY <2>2, SizesAssumption, DivMod DEF Blocks
  <2>4. Start(0)' = (0 * blockSize') * ElemSize
    BY <2>3 DEF Start
  <2>5. Start(0)' = 0
    BY <2>2, <2>4, SizesAssumption
  <2>6. 0 % Slots = 0
    BY SlotsAssumption
  <2>7. InReady(next)' /\ OutReady(next)'
    BY <2>1, <2>5, <2>6 DEF InReady, OutReady
  <2> QED
    BY <2>1, <2>7 DEF SlotsSettled, BeforeReadOut, BeforeSetIn, BeforeReadIn
<1>2. CASE StartLastBlock \/ StartLeftover
  <2>1. /\ Running
        /\ UNCHANGED <<next, inPtr, outPtr, iter, blockSize>>
        /\ pc[Master] = "idle" /\ pc' = [pc EXCEPT ![Master] = "lockNext"]
    BY <1>2 DEF StartLastBlock, StartLeftover, BlocksDone, Running
  <2>2. \A i : Start(i)' = Start(i)
    BY <2>1, StartStable
  <2>3. \A i : \A u \in Threads : Unsettled(u, i, BeforeWriteIn)' <=> Unsettled(u, i, BeforeWriteIn)
    BY <2>1, <1>0 DEF Unsettled, Claimed, Unclaimed
  <2>4. \A i : \A u \in Threads : Unsettled(u, i, BeforeWriteOut)' <=> Unsettled(u, i, BeforeWriteOut)
    BY <2>1, <1>0 DEF Unsettled, Claimed, Unclaimed
  <2>5. AllIdle
    BY <1>2 DEF StartLastBlock, StartLeftover, BlocksDone
  <2>6. InReady(next)' /\ OutReady(next)'
    BY <2>1, <2>2, <2>3, <2>4 DEF SlotsSettled, InReady, OutReady
  <2>7. \A u \in Threads : pc'[u] \in {"idle", "lockNext"}
    BY <2>1, <2>5, <1>0 DEF AllIdle
  <2> QED
    BY <2>6, <2>7 DEF SlotsSettled, BeforeReadOut, BeforeSetIn, BeforeReadIn
<1>3. CASE ReturnError \/ Return
  BY <1>3 DEF ReturnError, Return, SlotsSettled, Running
<1>4. CASE Terminated
  <2>1. ~Running'
    BY <1>4 DEF Terminated, vars, Running
  <2> QED
    BY <2>1 DEF SlotsSettled
<1>5. ASSUME NEW t \in Threads, StartBlock(t)
      PROVE SlotsSettled'
  <2>1. Running
    BY <1>5 DEF StartBlock, Running
  <2> QED
    BY <1>5, <1>0, <2>1, QuietStep
    DEF StartBlock, BeforeWriteIn, BeforeWriteOut, BeforeReadOut, BeforeSetIn, BeforeReadIn
<1>6. ASSUME NEW t \in Threads, Thread(t), ~TakeIter(t), ~WriteNextIn(t), ~WriteNextOut(t)
      PROVE SlotsSettled'
  <2>1. /\ pc[t] # "idle" /\ \A u \in Threads \ {t} : pc'[u] = pc[u]
        /\ UNCHANGED <<phase, next, inPtr, outPtr, iter, blockSize>>
        /\ pc'[t] # "lockIn"
        /\ pc'[t] \in BeforeReadOut => pc[t] \in BeforeReadOut
        /\ pc[t] \in BeforeWriteIn => pc'[t] \in BeforeWriteIn
        /\ pc[t] \in BeforeWriteOut => pc'[t] \in BeforeWriteOut
    BY <1>6, <1>0 DEF Thread, GetIn, LockNext, LockIn, LockNextIn, LockNextOut, UnlockNext, ReadIn,
       SetNextIn, UnlockNextIn, GetOut, LockOut, ReadOut, UnlockOut,
       SetNextOut, UnlockNextOut, UnlockIn, Work, WorkDone, WorkFailed,
       BeforeWriteIn, BeforeWriteOut, BeforeReadOut, BeforeSetIn, BeforeReadIn
  <2>2. ASSUME pc'[t] \in {"lockNextIn", "lockNextOut", "unlockNext", "readIn"}
        PROVE  \/ pc[t] \in {"lockNextIn", "lockNextOut", "unlockNext", "readIn"}
               \/ pc[t] = "lockIn" /\ inLock[HereSlot(t)] = NoThread
    BY <1>6, <2>2, <1>0 DEF Thread, GetIn, LockNext, LockIn, LockNextIn, LockNextOut, UnlockNext, ReadIn, Acquire,
       SetNextIn, UnlockNextIn, GetOut, LockOut, ReadOut, UnlockOut,
       SetNextOut, UnlockNextOut, UnlockIn, Work, WorkDone, WorkFailed
  <2>3. Running
    BY <2>1 DEF PhaseIters, AllIdle, Running, TypeOK
  <2> QED
    BY <2>1, <2>2, <2>3, InSettledAtLock, QuietStep
<1> QED
  BY <1>1, <1>2, <1>3, <1>4, <1>5, <1>6, TakeIterSettled, WriteNextInSettled, WriteNextOutSettled DEF Next, Wrapper

-----------------------------------------------------------------------------
(* The theorems.                                                           *)

LEMMA InductiveInvariant == Spec => []IInv
<1>1. Init => IInv
  <2> SUFFICES ASSUME Init PROVE IInv
    OBVIOUS
  <2>1. \A t \in Threads : pc[t] = "idle"
    BY DEF Init
  <2>2. 0 \in Slot
    BY SlotsAssumption DEF Slot
  <2>3. LocksHeld /\ ClaimsOrdered /\ Window /\ PointersInOrder
    BY <2>1 DEF LocksHeld, HoldsNext, HoldsIn, HoldsNextIn, HoldsOut, HoldsNextOut, ClaimsOrdered, Claimed,
       Window, PointersInOrder, Past, Unclaimed
  <2>4. PhaseIters /\ SlotsSettled
    BY <2>1, <2>2 DEF Init, PhaseIters, SlotsSettled, Running, AllIdle
  <2>5. TypeOK
    BY TypeInit
  <2> QED
    BY <2>3, <2>4, <2>5 DEF IInv
<1>2. IInv /\ [Next]_vars => IInv'
  <2> SUFFICES ASSUME IInv, [Next]_vars PROVE IInv'
    OBVIOUS
  <2>1. TypeOK'
    BY TypeStep DEF IInv
  <2>2. CASE Next
    BY <2>1, <2>2, LocksStep, ClaimsStep, WindowStep, PhaseStep, SlotsStep, PointersStep DEF IInv
  <2>3. CASE UNCHANGED vars
    BY <2>3, <2>1 DEF IInv, vars, chainVars, threadVars, wrapVars,
       LocksHeld, HoldsNext, HoldsIn, HoldsNextIn, HoldsOut, HoldsNextOut, HereSlot, AheadSlot,
       ClaimsOrdered, Claimed, Window, PhaseIters, AllIdle, Running, Issued, Pending, Blocks, LastBlockSize,
       LeftoverIter, SlotsSettled, InReady, OutReady, Unsettled, Start, PointersInOrder, Past
  <2> QED
    BY <2>2, <2>3
<1> QED
  BY <1>1, <1>2, PTL DEF Spec

(* Every iteration is given the input and output offsets of its own region: *)
(* ioc_get_in and ioc_get_out answer what the predecessor set.              *)
THEOREM InOrder == Spec => []PointersInOrder
<1>1. IInv => PointersInOrder
  BY DEF IInv
<1> QED
  BY <1>1, InductiveInvariant, PTL

(* An unfinished iteration is never overtaken by one that needs its slots. *)
THEOREM NoLap == Spec => []NotOvertaken
  BY NeverOvertaken, InductiveInvariant, PTL

(* No two threads are at statements that race on a field of the chain. *)
THEOREM RaceFree == Spec => []NoDataRace
<1>1. ASSUME IInv, NEW t \in Threads, NEW u \in Threads, t # u
      PROVE  Writes(t) \cap (Reads(u) \union Writes(u)) = {}
  <2>1. CASE pc[t] = "takeIter"
    <3>1. pc[u] # "takeIter"
      BY <1>1, <2>1 DEF IInv, LocksHeld, HoldsNext
    <3> QED
      BY <2>1, <3>1 DEF Reads, Writes
  <2>2. CASE pc[t] = "writeNextIn"
    <3>1. inLock[AheadSlot(t)] = t
      BY <1>1, <2>2 DEF IInv, LocksHeld, HoldsNextIn
    <3>2. pc[u] = "readIn" => HereSlot(u) # AheadSlot(t)
      BY <1>1, <3>1 DEF IInv, LocksHeld, HoldsIn, Unclaimed
    <3>3. pc[u] = "writeNextIn" => AheadSlot(u) # AheadSlot(t)
      BY <1>1, <3>1 DEF IInv, LocksHeld, HoldsNextIn
    <3> QED
      BY <2>2, <3>2, <3>3 DEF Reads, Writes
  <2>3. CASE pc[t] = "writeNextOut"
    <3>1. outLock[AheadSlot(t)] = t
      BY <1>1, <2>3 DEF IInv, LocksHeld, HoldsNextOut
    <3>2. pc[u] = "readOut" => HereSlot(u) # AheadSlot(t)
      BY <1>1, <3>1 DEF IInv, LocksHeld, HoldsOut
    <3>3. pc[u] = "writeNextOut" => AheadSlot(u) # AheadSlot(t)
      BY <1>1, <3>1 DEF IInv, LocksHeld, HoldsNextOut
    <3> QED
      BY <2>3, <3>2, <3>3 DEF Reads, Writes
  <2>4. CASE pc[t] \notin {"takeIter", "writeNextIn", "writeNextOut"}
    BY <2>4 DEF Writes
  <2> QED
    BY <2>1, <2>2, <2>3, <2>4
<1>2. IInv => NoDataRace
  BY <1>1 DEF NoDataRace
<1> QED
  BY <1>2, InductiveInvariant, PTL

LEMMA LockedSteps ==
  ASSUME IInv, Next, NEW t \in Threads
  PROVE  /\ (pc[t] = "lockIn" /\ pc'[t] # "lockIn")   => inLock[HereSlot(t)] = NoThread
         /\ (pc[t] = "lockOut" /\ pc'[t] # "lockOut") => outLock[HereSlot(t)] = NoThread
<1>0. pc \in [Threads -> Unclaimed \union BeforeSetOut \union {"unlockIn", "work"}] /\ Master \in Threads
  BY ThreadsAssumption DEF IInv, TypeOK
<1>1. CASE Wrapper
  BY <1>0, <1>1 DEF Wrapper, Begin, StartLastBlock, ReturnError, StartLeftover, Return, Goto
<1>2. CASE Terminated
  BY <1>2 DEF Terminated, vars
<1>3. ASSUME NEW u \in Threads, StartBlock(u) \/ Thread(u)
      PROVE  /\ (pc[t] = "lockIn" /\ pc'[t] # "lockIn")   => inLock[HereSlot(t)] = NoThread
             /\ (pc[t] = "lockOut" /\ pc'[t] # "lockOut") => outLock[HereSlot(t)] = NoThread
  BY <1>0, <1>3 DEF StartBlock, Thread, GetIn, LockNext, TakeIter, LockIn, LockNextIn, LockNextOut, UnlockNext, ReadIn,
     SetNextIn, WriteNextIn, UnlockNextIn, GetOut, LockOut, ReadOut, UnlockOut,
     SetNextOut, WriteNextOut, UnlockNextOut, UnlockIn, Work, WorkDone, WorkFailed, Goto, Acquire
<1> QED
  BY <1>1, <1>2, <1>3 DEF Next

(* The blocking that iochain.h documents, as a property of every step. *)
THEOREM Blocked == Spec => BlockedUntilPreviousSets
<1>1. ASSUME IInv, Next, NEW t \in Threads, NEW u \in Threads, iter[u] + 1 = iter[t]
      PROVE  /\ (pc[t] = "lockIn" /\ pc'[t] # "lockIn")   => pc[u] \notin BeforeSetIn
             /\ (pc[t] = "lockOut" /\ pc'[t] # "lockOut") => pc[u] \notin BeforeSetOut
  <2>1. iter[t] \in Nat /\ iter[u] \in Nat /\ next \in Nat /\ t # u /\ HereSlot(t) = AheadSlot(u)
    BY <1>1 DEF IInv, TypeOK, HereSlot, AheadSlot
  <2>2. ASSUME pc[t] = "lockIn", pc'[t] # "lockIn" PROVE pc[u] \notin BeforeSetIn
    <3>1. inLock[HereSlot(t)] = NoThread
      BY <1>1, <2>2, LockedSteps
    <3>2. ~HoldsNext(u)
      BY <1>1, <2>1, <2>2 DEF IInv, LocksHeld, HoldsNext
    <3>3. ~HoldsNextIn(u)
      BY <1>1, <2>1, <3>1, ThreadsAssumption DEF IInv, LocksHeld
    <3> QED
      BY <3>2, <3>3 DEF HoldsNext, HoldsNextIn, BeforeSetIn, BeforeReadIn
  <2>3. ASSUME pc[t] = "lockOut", pc'[t] # "lockOut" PROVE pc[u] \notin BeforeSetOut
    <3>1. outLock[HereSlot(t)] = NoThread
      BY <1>1, <2>3, LockedSteps
    <3>2. ~HoldsNext(u) \/ pc[u] = "takeIter"
      BY <1>1, <2>1, <2>3 DEF IInv, ClaimsOrdered, Claimed, Unclaimed, HoldsNext
    <3>3. ~HoldsNextOut(u)
      BY <1>1, <2>1, <3>1, ThreadsAssumption DEF IInv, LocksHeld
    <3> QED
      BY <3>2, <3>3 DEF HoldsNext, HoldsNextOut, BeforeSetOut, BeforeReadOut, BeforeSetIn, BeforeReadIn
  <2> QED
    BY <2>2, <2>3
<1>2. IInv /\ [Next]_vars => [OnlyAfterPrevious]_vars
  <2>1. IInv /\ Next => OnlyAfterPrevious
    BY <1>1 DEF OnlyAfterPrevious
  <2> QED
    BY <2>1
<1> QED
  BY <1>2, InductiveInvariant, PTL DEF Spec, BlockedUntilPreviousSets
-----------------------------------------------------------------------------
(* What is written.                                                        *)

Done(b)  == <<b, b>> \in Filled
In(t, b) == Claimed(t) /\ Start(iter[t]) <= b /\ b < Start(iter[t]) + Length
Busy     == {t \in Threads : Claimed(t)}

(* No byte is of two regions that are being worked on, nor of one of them   *)
(* and one that has been written.                                           *)
Apart ==
  /\ \A t, u \in Threads : \A b \in Nat : In(t, b) /\ In(u, b) => t = u
  /\ \A t \in Threads : \A b \in Nat : In(t, b) => b < Start(next)
  /\ \A p \in Filled : \E b \in Nat :
       p = <<b, b>> /\ b < Start(next) /\ \A t \in Threads : ~In(t, b)

(* While nothing has failed, each byte of the iterations claimed is written *)
(* or is worked on, and counted or still to be.                             *)
Intact ==
  err = 0 =>
    /\ \A b \in Nat : b < Start(next) => Done(b) \/ \E t \in Threads : In(t, b)
    /\ cumCount + Cardinality(Busy) * Length = Start(next)

(* A byte of a block that failed is missing for good.                       *)
Missing ==
  err # 0 => \E b \in Nat : b < Start(next) /\ ~Done(b) /\ \A t \in Threads : ~In(t, b)

Accounted ==
  /\ phase = "start" => written = {} /\ err = 0 /\ cumCount = 0
  /\ phase # "done" => result = 0
  /\ phase = "leftover" => err = 0
  /\ Running => Apart /\ Intact /\ Missing

(* The offsets of the iterations stay within the buffer. *)
LEMMA StartInside ==
  ASSUME TypeOK, Running, NEW i \in Nat
  PROVE  Start(i) \in Nat /\ Start(i) <= Size * ElemSize
<1>1. /\ blockSize \in Nat /\ blockSize > 0 /\ Blocks \in Nat /\ LastBlockSize \in Nat
      /\ Start(i) \in Nat
  BY LayoutTypes DEF TypeOK, Running
<1>2. /\ Size \in Nat /\ ElemSize \in Nat
      /\ Size = blockSize * Blocks + (Size % blockSize) /\ Size % blockSize \in Nat
  BY <1>1, SizesAssumption, DivMod DEF Blocks
<1>3. (Size % blockSize) % Mult \in Nat
  BY <1>2, SizesAssumption
<1>4. blockSize * Blocks + LastBlockSize <= Size
  BY <1>1, <1>2, <1>3 DEF LastBlockSize
<1>5. \A x, y \in Nat : x <= y => x * ElemSize <= y * ElemSize
  BY <1>2
<1>6. \A x, y \in Nat : x <= y => x * blockSize <= y * blockSize /\ x * blockSize \in Nat
  BY <1>1
<1>7. CASE i <= Blocks
  <2>1. i * blockSize <= Blocks * blockSize /\ i * blockSize \in Nat
    BY <1>1, <1>6, <1>7
  <2>2. i * blockSize <= Size
    <3>1. Blocks * blockSize = blockSize * Blocks /\ blockSize * Blocks \in Nat
      BY <1>1
    <3> HIDE DEF Blocks, LastBlockSize
    <3> QED
      BY <1>1, <1>2, <1>4, <2>1, <3>1
  <2> QED
    BY <1>2, <1>5, <1>7, <2>1, <2>2 DEF Start
<1>8. CASE ~(i <= Blocks) /\ i = LeftoverIter
  <2>1. Blocks * blockSize + LastBlockSize \in Nat /\ Blocks * blockSize + LastBlockSize <= Size
    BY <1>1, <1>4
  <2> QED
    BY <1>2, <1>5, <1>8, <2>1 DEF Start
<1>9. CASE ~(i <= Blocks) /\ i # LeftoverIter
  BY <1>1, <1>9 DEF Start
<1> QED
  BY <1>1, <1>7, <1>8, <1>9

LEMMA BusyFinite == IsFiniteSet(Busy) /\ Cardinality(Busy) \in Nat
<1>1. Busy \subseteq Threads
  BY DEF Busy
<1> QED
  BY <1>1, ThreadsAssumption, FS_Subset, FS_CardinalityType

(* Nobody works on a block when all threads are idle. *)
LEMMA NobodyBusy ==
  ASSUME \A t \in Threads : ~Claimed(t)
  PROVE  Cardinality(Busy) = 0 /\ \A t \in Threads : \A b : ~In(t, b)
<1>1. Busy = {}
  BY DEF Busy
<1> QED
  BY <1>1, FS_EmptySet DEF In

(* The iteration about to be claimed is one that the phase has issued.      *)
LEMMA TakenIterInPhase ==
  ASSUME IInv, NEW t \in Threads, pc[t] = "takeIter"
  PROVE  /\ Running
         /\ \/ phase = "parallel" /\ next < Blocks
            \/ phase = "last" /\ LastBlockSize > 0 /\ next = Blocks
            \/ phase = "leftover" /\ next = LeftoverIter
<1> USE DEF IInv
<1>1. Running
  BY DEF PhaseIters, AllIdle, Running, TypeOK
<1>2. /\ next \in Nat /\ Blocks \in Nat /\ LeftoverIter \in Nat /\ ii \in Nat
      /\ Cardinality(Pending) \in Nat /\ IsFiniteSet(Pending)
  BY <1>1, PendingFinite, LayoutTypes DEF TypeOK
<1>3. t \in Pending
  BY DEF Pending
<1>4. Cardinality(Pending) # 0
  BY <1>2, <1>3, FS_EmptySet
<1>5. CASE phase = "parallel"
  BY <1>1, <1>2, <1>4, <1>5 DEF PhaseIters, Issued
<1>6. CASE phase # "parallel"
  <2>1. phase \in {"last", "leftover"}
    BY <1>1, <1>6 DEF Running
  <2>2. \A u \in Threads : u # Master => pc[u] = "idle"
    BY <2>1 DEF PhaseIters
  <2>3. Pending = {Master}
    BY <1>3, <2>2 DEF Pending
  <2>4. Cardinality(Pending) = 1
    BY <2>3, FS_Singleton
  <2> QED
    BY <1>1, <1>2, <2>1, <2>4 DEF PhaseIters, Issued
<1> QED
  BY <1>5, <1>6

(* A step that claims nothing, writes nothing and fails nowhere.            *)
LEMMA CalmStep ==
  ASSUME Accounted,
         UNCHANGED <<phase, next, iter, blockSize, written, err, cumCount, result>>,
         \A u \in Threads : Claimed(u)' <=> Claimed(u)
  PROVE  Accounted'
<1>1. \A i : Start(i)' = Start(i)
  BY StartStable
<1>2. Length' = Length /\ Filled' = Filled
  BY DEF Length, Filled, LastBlockSize
<1>3. \A u \in Threads : \A b : In(u, b)' <=> In(u, b)
  BY <1>1, <1>2 DEF In
<1>4. Busy' = Busy
  BY DEF Busy
<1>5. Start(next)' = Start(next) /\ \A b : Done(b)' <=> Done(b)
  BY <1>1, <1>2 DEF Done
<1>6. Apart => Apart'
  BY <1>2, <1>3, <1>5 DEF Apart
<1>7. Intact => Intact'
  BY <1>2, <1>3, <1>4, <1>5 DEF Intact
<1>8. Missing => Missing'
  BY <1>3, <1>5 DEF Missing
<1> QED
  BY <1>6, <1>7, <1>8 DEF Accounted, Running

(* The bytes of a newly claimed iteration are new. *)
LEMMA TakeIterAccounted ==
  ASSUME IInv, Accounted, NEW t \in Threads, TakeIter(t)
  PROVE  Accounted'
<1>1. /\ pc[t] = "takeIter" /\ pc' = [pc EXCEPT ![t] = "lockIn"]
      /\ next' = next + 1 /\ iter' = [iter EXCEPT ![t] = next]
      /\ UNCHANGED <<phase, blockSize, written, err, cumCount, result>>
      /\ pc \in [Threads -> Unclaimed \union BeforeSetOut \union {"unlockIn", "work"}]
      /\ next \in Nat /\ iter \in [Threads -> Nat] /\ TypeOK
  BY DEF TakeIter, Goto, wrapVars, IInv, TypeOK
<1>2. Running /\ Apart /\ Intact /\ Missing
  BY <1>1, TakenIterInPhase DEF Accounted
<1>3. /\ Start(next) \in Nat /\ Length \in Nat /\ \A u \in Threads : Start(iter[u]) \in Nat
      /\ Start(next) + Length = Start(next + 1)
  <2>1. /\ \/ phase = "parallel" /\ next < Blocks
           \/ phase = "last" /\ LastBlockSize > 0 /\ next = Blocks
           \/ phase = "leftover" /\ next = LeftoverIter
        /\ blockSize % Mult = 0
    BY <1>1, <1>2, TakenIterInPhase DEF IInv, PhaseIters
  <2> QED
    BY <1>1, <1>2, <2>1, StartNext, LayoutTypes
<1>4. /\ \A i : Start(i)' = Start(i)
      /\ Length' = Length /\ Filled' = Filled
  BY <1>1, StartStable DEF Length, Filled, LastBlockSize
<1>5. /\ Start(next)' = Start(next) + Length
      /\ \A b : Done(b)' <=> Done(b)
  BY <1>1, <1>3, <1>4 DEF Done
<1>6. /\ ~Claimed(t) /\ Claimed(t)'
      /\ \A u \in Threads : u # t => (Claimed(u)' <=> Claimed(u))
  BY <1>1 DEF Claimed, Unclaimed
<1>7. /\ \A b : In(t, b)' <=> Start(next) <= b /\ b < Start(next) + Length
      /\ \A u \in Threads : \A b : u # t => (In(u, b)' <=> In(u, b))
      /\ \A b : ~In(t, b)
  BY <1>1, <1>4, <1>6 DEF In
<1>8. \A u \in Threads : \A b \in Nat : In(u, b) => b < Start(next)
  BY <1>2 DEF Apart
<1>9. Apart'
  <2>1. ASSUME NEW u \in Threads, NEW v \in Threads, NEW b \in Nat, In(u, b)', In(v, b)'
        PROVE  u = v
    <3>1. CASE u = t \/ v = t
      BY <1>3, <1>7, <1>8, <2>1, <3>1
    <3>2. CASE u # t /\ v # t
      BY <1>2, <1>7, <2>1, <3>2 DEF Apart
    <3> QED
      BY <3>1, <3>2
  <2>2. \A u \in Threads : \A b \in Nat : In(u, b)' => b < Start(next)'
    BY <1>3, <1>5, <1>7, <1>8
  <2>3. ASSUME NEW p \in Filled
        PROVE  \E b \in Nat : p = <<b, b>> /\ b < Start(next)' /\ \A u \in Threads : ~In(u, b)'
    <3>1. PICK b \in Nat : p = <<b, b>> /\ b < Start(next) /\ \A u \in Threads : ~In(u, b)
      BY <1>2 DEF Apart
    <3> QED
      BY <1>3, <1>5, <1>7, <3>1
  <2> QED
    BY <1>4, <2>1, <2>2, <2>3 DEF Apart
<1>10. Intact'
  <2> SUFFICES ASSUME err = 0
               PROVE  /\ \A b \in Nat : b < Start(next)' => Done(b)' \/ \E u \in Threads : In(u, b)'
                      /\ cumCount + Cardinality(Busy') * Length = Start(next)'
    BY <1>1, <1>4 DEF Intact
  <2>1. ASSUME NEW b \in Nat, b < Start(next)'
        PROVE  Done(b)' \/ \E u \in Threads : In(u, b)'
    <3>1. CASE b < Start(next)
      BY <1>2, <1>5, <1>7, <3>1 DEF Intact
    <3>2. CASE ~(b < Start(next))
      BY <1>3, <1>5, <1>7, <2>1, <3>2
    <3> QED
      BY <3>1, <3>2
  <2>2. Cardinality(Busy') = Cardinality(Busy) + 1 /\ Cardinality(Busy) \in Nat
    <3>1. Busy' = Busy \union {t} /\ t \notin Busy
      BY <1>6 DEF Busy
    <3> QED
      BY <3>1, BusyFinite, FS_AddElement
  <2>3. Cardinality(Busy') * Length = Cardinality(Busy) * Length + Length
    BY <1>3, <2>2
  <2>4. cumCount + Cardinality(Busy) * Length = Start(next) /\ cumCount \in Int
    BY <1>1, <1>2 DEF Intact, TypeOK
  <2>5. Cardinality(Busy) * Length \in Int
    BY <1>3, <2>2
  <2> QED
    BY <1>3, <1>5, <2>1, <2>3, <2>4, <2>5
<1>11. Missing'
  <2> SUFFICES ASSUME err # 0
               PROVE  \E b \in Nat : b < Start(next)' /\ ~Done(b)' /\ \A u \in Threads : ~In(u, b)'
    BY <1>1 DEF Missing
  <2>1. PICK b \in Nat : b < Start(next) /\ ~Done(b) /\ \A u \in Threads : ~In(u, b)
    BY <1>2 DEF Missing
  <2> QED
    BY <1>3, <1>5, <1>7, <2>1
<1>12. TakeIter(t) => phase' = phase
  BY <1>1
<1> QED
  BY <1>1, <1>9, <1>10, <1>11 DEF Accounted, Running

(* What a block writes, when it is done, is what was being worked on.       *)
LEMMA FilledGrows ==
  ASSUME IInv, NEW t \in Threads, WorkDone(t)
  PROVE  Filled' = Filled \union {<<b, b>> : b \in {c \in Nat : In(t, c)}}
<1>1. /\ pc[t] = "work" /\ written' = written \union {Region(t)}
      /\ iter[t] \in Nat /\ TypeOK /\ Claimed(t)
  BY DEF WorkDone, Goto, IInv, TypeOK, Claimed, Unclaimed
<1>2. inAt[t] = Start(iter[t]) /\ outAt[t] = Start(iter[t])
  BY <1>1 DEF IInv, PointersInOrder, Past, Unclaimed, BeforeReadOut, BeforeSetIn, BeforeReadIn
<1>3. Start(iter[t]) \in Nat /\ Length \in Nat
  BY <1>1, ClaimedIterInPhase, LayoutTypes
<1> DEFINE s == Start(iter[t])
           Bytes(q) == {<<q.dst + k, q.src + k>> : k \in 0 .. q.len - 1}
           G == {<<b, b>> : b \in {c \in Nat : In(t, c)}}
<1>4. Bytes(Region(t)) = {<<s + k, s + k>> : k \in 0 .. Length - 1}
  BY <1>2 DEF Region
<1>5. \A c \in Nat : In(t, c) <=> s <= c /\ c < s + Length
  BY <1>1 DEF In
<1>6. Bytes(Region(t)) = G
  <2>1. s \in Nat /\ Length \in Nat
    BY <1>3
  <2> HIDE DEF s, Bytes
  <2>2. ASSUME NEW p \in Bytes(Region(t)) PROVE p \in G
    <3>1. PICK k \in 0 .. Length - 1 : p = <<s + k, s + k>>
      BY <1>4
    <3>2. s + k \in Nat /\ s <= s + k /\ s + k < s + Length
      BY <2>1
    <3> QED
      BY <1>5, <3>1, <3>2
  <2>3. ASSUME NEW p \in G PROVE p \in Bytes(Region(t))
    <3>1. PICK b \in Nat : In(t, b) /\ p = <<b, b>>
      OBVIOUS
    <3>2. b - s \in 0 .. Length - 1 /\ s + (b - s) = b
      BY <1>5, <2>1, <3>1
    <3> QED
      BY <1>4, <3>1, <3>2
  <2> QED
    BY <2>2, <2>3
<1>7. Filled = UNION {Bytes(q) : q \in written} /\ Filled' = UNION {Bytes(q) : q \in written'}
  BY DEF Filled
<1> HIDE DEF Bytes, G
<1>8. Filled' = Filled \union Bytes(Region(t))
  BY <1>1, <1>7
<1> QED
  BY <1>6, <1>8 DEF G

(* What a step of the work, done or failed, leaves alone. *)
LEMMA WorkEnds ==
  ASSUME IInv, Accounted, NEW t \in Threads, Work(t)
  PROVE  /\ UNCHANGED <<next, iter, blockSize, phase, result>>
         /\ Running /\ Claimed(t) /\ Apart /\ Intact /\ Missing
         /\ Start(next)' = Start(next) /\ Length' = Length
         /\ Start(next) \in Nat /\ Start(iter[t]) \in Nat /\ Length \in Nat
         /\ \A b : ~In(t, b)'
         /\ \A u \in Threads : \A b : u # t => (In(u, b)' <=> In(u, b))
         /\ Cardinality(Busy) \in Nat /\ Cardinality(Busy') = Cardinality(Busy) - 1
<1>1. /\ pc[t] = "work" /\ pc' = [pc EXCEPT ![t] = "idle"]
      /\ UNCHANGED <<next, iter, blockSize, phase, result>>
      /\ pc \in [Threads -> Unclaimed \union BeforeSetOut \union {"unlockIn", "work"}]
      /\ next \in Nat /\ iter \in [Threads -> Nat] /\ TypeOK
  BY DEF Work, WorkDone, WorkFailed, Goto, chainVars, threadVars, IInv, TypeOK
<1>2. /\ Claimed(t) /\ ~Claimed(t)'
      /\ \A u \in Threads : u # t => (Claimed(u)' <=> Claimed(u))
  BY <1>1 DEF Claimed, Unclaimed
<1>3. Running /\ Apart /\ Intact /\ Missing
  BY <1>2, ClaimedIterInPhase DEF Accounted
<1>4. Start(next) \in Nat /\ Start(iter[t]) \in Nat /\ Length \in Nat
  BY <1>1, <1>3, LayoutTypes
<1>5. /\ \A i : Start(i)' = Start(i)
      /\ Start(next)' = Start(next) /\ Length' = Length
  BY <1>1, StartStable DEF Length, LastBlockSize
<1>6. /\ \A b : ~In(t, b)'
      /\ \A u \in Threads : \A b : u # t => (In(u, b)' <=> In(u, b))
  BY <1>1, <1>2, <1>5 DEF In
<1>7. Busy' = Busy \ {t} /\ t \in Busy
  BY <1>2 DEF Busy
<1>8. Cardinality(Busy) \in Nat /\ Cardinality(Busy') = Cardinality(Busy) - 1
  BY <1>7, BusyFinite, FS_RemoveElement
<1> QED
  BY <1>1, <1>2, <1>3, <1>4, <1>5, <1>6, <1>8

LEMMA WorkDoneAccounted ==
  ASSUME IInv, Accounted, NEW t \in Threads, WorkDone(t)
  PROVE  Accounted'
<1>0. Work(t)
  BY DEF Work
<1>1. /\ UNCHANGED <<next, phase, result, err>> /\ cumCount' = cumCount + Length
      /\ cumCount \in Int /\ next \in Nat
  BY <1>0, WorkEnds DEF WorkDone, IInv, TypeOK
<1>2. /\ Running /\ Apart /\ Intact /\ Missing
      /\ Start(next)' = Start(next) /\ Length' = Length
      /\ Start(next) \in Nat /\ Length \in Nat
      /\ \A b : ~In(t, b)'
      /\ \A u \in Threads : \A b : u # t => (In(u, b)' <=> In(u, b))
      /\ Cardinality(Busy) \in Nat /\ Cardinality(Busy') = Cardinality(Busy) - 1
  BY <1>0, WorkEnds
<1>3. Filled' = Filled \union {<<b, b>> : b \in {c \in Nat : In(t, c)}}
  BY FilledGrows
<1>4. \A b \in Nat : Done(b)' <=> Done(b) \/ In(t, b)
  BY <1>3 DEF Done
<1>5. Apart'
  <2>1. \A u, v \in Threads : \A b \in Nat : In(u, b)' /\ In(v, b)' => u = v
    BY <1>2 DEF Apart
  <2>2. \A u \in Threads : \A b \in Nat : In(u, b)' => b < Start(next)'
    BY <1>2 DEF Apart
  <2>3. ASSUME NEW p \in Filled'
        PROVE  \E b \in Nat : p = <<b, b>> /\ b < Start(next)' /\ \A u \in Threads : ~In(u, b)'
    <3>1. CASE p \in Filled
      <4>1. PICK b \in Nat : p = <<b, b>> /\ b < Start(next) /\ \A u \in Threads : ~In(u, b)
        BY <1>2, <3>1 DEF Apart
      <4> QED
        BY <1>2, <4>1
    <3>2. CASE p \notin Filled
      <4>1. PICK b \in Nat : p = <<b, b>> /\ In(t, b)
        BY <1>3, <2>3, <3>2
      <4>2. b < Start(next) /\ \A u \in Threads : u # t => ~In(u, b)
        BY <1>2, <4>1 DEF Apart
      <4> QED
        BY <1>2, <4>1, <4>2
    <3> QED
      BY <3>1, <3>2
  <2> QED
    BY <2>1, <2>2, <2>3 DEF Apart
<1>6. Intact'
  <2> SUFFICES ASSUME err = 0
               PROVE  /\ \A b \in Nat : b < Start(next)' => Done(b)' \/ \E u \in Threads : In(u, b)'
                      /\ cumCount' + Cardinality(Busy') * Length = Start(next)
    BY <1>1, <1>2 DEF Intact
  <2>1. \A b \in Nat : b < Start(next)' => Done(b)' \/ \E u \in Threads : In(u, b)'
    BY <1>2, <1>4 DEF Intact
  <2>2. Cardinality(Busy') * Length = Cardinality(Busy) * Length - Length
    BY <1>2
  <2>3. cumCount + Cardinality(Busy) * Length = Start(next)
    BY <1>2 DEF Intact
  <2>4. Cardinality(Busy) * Length \in Int
    BY <1>2
  <2> QED
    BY <1>1, <1>2, <2>1, <2>2, <2>3, <2>4
<1>7. Missing'
  <2> SUFFICES ASSUME err # 0
               PROVE  \E b \in Nat : b < Start(next)' /\ ~Done(b)' /\ \A u \in Threads : ~In(u, b)'
    BY <1>1 DEF Missing
  <2>1. PICK b \in Nat : b < Start(next) /\ ~Done(b) /\ \A u \in Threads : ~In(u, b)
    BY <1>2 DEF Missing
  <2> QED
    BY <1>2, <1>4, <2>1
<1> QED
  BY <1>1, <1>2, <1>5, <1>6, <1>7 DEF Accounted, Running

(* A block that failed has a first byte, and nobody else writes it.         *)
LEMMA WorkFailedAccounted ==
  ASSUME IInv, Accounted, NEW t \in Threads, WorkFailed(t)
  PROVE  Accounted'
<1>0. Work(t)
  BY DEF Work
<1>1. /\ UNCHANGED <<next, phase, result, written>> /\ err' = ErrMalloc /\ phase # "leftover"
  BY <1>0, WorkEnds DEF WorkFailed
<1>2. /\ Running /\ Claimed(t) /\ Apart
      /\ Start(next)' = Start(next)
      /\ Start(next) \in Nat /\ Start(iter[t]) \in Nat /\ Length \in Nat
      /\ \A b : ~In(t, b)'
      /\ \A u \in Threads : \A b : u # t => (In(u, b)' <=> In(u, b))
  BY <1>0, WorkEnds
<1>3. Filled' = Filled /\ \A b : Done(b)' <=> Done(b)
  BY <1>1 DEF Filled, Done
<1>4. Length > 0
  <2>1. blockSize \in Nat /\ blockSize > 0 /\ LastBlockSize \in Nat /\ ElemSize \in Nat \ {0}
    BY <1>2, LayoutTypes, SizesAssumption DEF IInv, TypeOK, Running
  <2>2. phase = "parallel" \/ (phase = "last" /\ LastBlockSize > 0)
    BY <1>1, <1>2 DEF IInv, PhaseIters, Running
  <2>3. \A x \in Nat : x > 0 => x * ElemSize > 0
    BY <2>1
  <2> QED
    BY <2>1, <2>2, <2>3 DEF Length
<1>5. Apart'
  <2>1. \A u, v \in Threads : \A b \in Nat : In(u, b)' /\ In(v, b)' => u = v
    BY <1>2 DEF Apart
  <2>2. \A u \in Threads : \A b \in Nat : In(u, b)' => b < Start(next)'
    BY <1>2 DEF Apart
  <2>3. \A p \in Filled : \E b \in Nat :
          p = <<b, b>> /\ b < Start(next)' /\ \A u \in Threads : ~In(u, b)'
    BY <1>2 DEF Apart
  <2> QED
    BY <1>3, <2>1, <2>2, <2>3 DEF Apart
<1> DEFINE c == Start(iter[t])
<1>6. c \in Nat /\ In(t, c)
  BY <1>2, <1>4 DEF In
<1> HIDE DEF c
<1>7. c < Start(next) /\ \A u \in Threads : u # t => ~In(u, c)
  BY <1>2, <1>6 DEF Apart
<1>8. ~Done(c)
  <2> SUFFICES ASSUME Done(c) PROVE FALSE
    OBVIOUS
  <2>1. PICK b \in Nat : <<c, c>> = <<b, b>> /\ \A u \in Threads : ~In(u, b)
    BY <1>2 DEF Apart, Done
  <2> QED
    BY <1>6, <2>1
<1>9. Missing' /\ Intact'
  <2>1. err' # 0
    BY <1>1 DEF ErrMalloc
  <2>2. Missing'
    BY <1>2, <1>3, <1>6, <1>7, <1>8 DEF Missing
  <2> QED
    BY <2>1, <2>2 DEF Intact
<1> QED
  BY <1>1, <1>2, <1>5, <1>9 DEF Accounted, Running

LEMMA AccountedStep ==
  ASSUME IInv, Accounted, Next
  PROVE  Accounted'
<1>0. /\ Master \in Threads
      /\ pc \in [Threads -> Unclaimed \union BeforeSetOut \union {"unlockIn", "work"}]
  BY ThreadsAssumption DEF IInv, TypeOK
<1>1. CASE Begin
  <2>1. /\ phase = "start" /\ written = {} /\ err = 0 /\ cumCount = 0 /\ result = 0 /\ next = 0
        /\ AllIdle /\ UNCHANGED <<written, err, cumCount, next, pc>>
        /\ \/ phase' = "done"
           \/ phase' = "parallel" /\ result' = result
    BY <1>1 DEF Begin, Accounted, IInv, PhaseIters, chainVars
  <2>2. Filled' = {}
    BY <2>1 DEF Filled
  <2>3. \A t \in Threads : ~Claimed(t)'
    BY <2>1 DEF AllIdle, Claimed, Unclaimed
  <2>4. Cardinality(Busy') = 0 /\ \A t \in Threads : \A b : ~In(t, b)'
    <3>1. Busy' = {}
      BY <2>3 DEF Busy
    <3> QED
      BY <2>3, <3>1, FS_EmptySet DEF In
  <2>5. blockSize' \in Nat /\ blockSize' > 0
    BY <1>1, DefaultType DEF Begin, IInv, TypeOK
  <2>6. Start(next)' = 0
    <3>1. Blocks' \in Nat
      BY <2>5, SizesAssumption, DivMod DEF Blocks
    <3>2. Start(next)' = (0 * blockSize') * ElemSize
      BY <2>1, <3>1 DEF Start
    <3>3. \A x \in Nat : (0 * x) * ElemSize = 0
      BY SizesAssumption
    <3>4. (0 * blockSize') * ElemSize = 0
      BY <2>5, <3>3, Zenon
    <3> QED
      BY <3>2, <3>4, Zenon
  <2>7. phase' = "parallel" => Length' \in Nat
    <3>1. \A x \in Nat : x * ElemSize \in Nat
      BY SizesAssumption
    <3>2. blockSize' * ElemSize \in Nat
      BY <2>5, <3>1, Zenon
    <3> QED
      BY <3>2 DEF Length
  <2>8. Apart' /\ Missing'
    BY <2>1, <2>2, <2>4 DEF Apart, Missing
  <2>9. phase' = "parallel" => Intact'
    <3>1. \A b \in Nat : ~(b < 0)
      OBVIOUS
    <3>2. phase' = "parallel" => 0 + 0 * Length' = 0
      BY <2>7
    <3> QED
      BY <2>1, <2>4, <2>6, <3>1, <3>2 DEF Intact
  <2> QED
    BY <2>1, <2>8, <2>9 DEF Accounted, Running
<1>2. CASE StartLastBlock \/ StartLeftover
  <2>1. /\ Running /\ AllIdle /\ pc' = [pc EXCEPT ![Master] = "lockNext"]
        /\ UNCHANGED <<next, iter, blockSize, written, err, cumCount, result>>
        /\ phase' \in {"last", "leftover"}
        /\ phase' = "leftover" => err >= 0
    BY <1>2 DEF StartLastBlock, StartLeftover, BlocksDone, Running, Goto, chainVars, threadVars
  <2>2. /\ \A t \in Threads : ~Claimed(t)
        /\ \A t \in Threads : ~Claimed(t)'
    BY <1>0, <2>1 DEF AllIdle, Claimed, Unclaimed
  <2>3. /\ Cardinality(Busy) = 0 /\ \A t \in Threads : \A b : ~In(t, b)
        /\ Cardinality(Busy') = 0 /\ \A t \in Threads : \A b : ~In(t, b)'
    <3>1. Busy = {} /\ Busy' = {}
      BY <2>2 DEF Busy
    <3> QED
      BY <2>2, <3>1, FS_EmptySet DEF In
  <2>4. Filled' = Filled /\ Start(next)' = Start(next) /\ \A b : Done(b)' <=> Done(b)
    BY <2>1, StartStable DEF Filled, Done
  <2>5. Length \in Nat /\ Length' \in Nat
    <3>1. TypeOK /\ blockSize \in Nat /\ LastBlockSize \in Nat
      BY <2>1, LayoutTypes DEF IInv, TypeOK
    <3>2. LastBlockSize * ElemSize \in Nat /\ (Size % Mult) * ElemSize \in Nat
      BY <3>1, SizesAssumption
    <3>3. LastBlockSize' = LastBlockSize
      BY <2>1 DEF LastBlockSize
    <3>4. Length \in Nat
      BY <3>1, LengthType
    <3>5. Length' \in Nat
      BY <2>1, <3>2, <3>3 DEF Length
    <3> QED
      BY <3>4, <3>5
  <2>6. Apart /\ Intact /\ Missing
    BY <2>1 DEF Accounted
  <2>7. Apart' /\ Missing'
    BY <2>1, <2>3, <2>4, <2>6 DEF Apart, Missing
  <2>8. Intact'
    <3>1. \A x \in Nat : 0 * x = 0
      OBVIOUS
    <3>2. 0 * Length = 0 /\ 0 * Length' = 0
      BY <2>5, <3>1, Zenon
    <3> QED
      BY <2>1, <2>3, <2>4, <2>6, <3>2 DEF Intact
  <2>9. err = 0 \/ phase' # "leftover"
    BY <2>1 DEF IInv, TypeOK, ErrMalloc
  <2> QED
    BY <2>1, <2>7, <2>8, <2>9 DEF Accounted, Running
<1>3. CASE ReturnError \/ Return
  BY <1>3 DEF ReturnError, Return, Accounted, Running
<1>4. CASE Terminated
  BY <1>4, CalmStep DEF Terminated, vars, chainVars, threadVars, wrapVars, Claimed
<1>5. ASSUME NEW t \in Threads, StartBlock(t)
      PROVE  Accounted'
  BY <1>0, <1>5, CalmStep DEF StartBlock, Goto, chainVars, threadVars, Claimed, Unclaimed
<1>6. ASSUME NEW t \in Threads, Thread(t), ~TakeIter(t), ~Work(t)
      PROVE  Accounted'
  BY <1>0, <1>6, CalmStep DEF Thread, GetIn, LockNext, LockIn, LockNextIn, LockNextOut, UnlockNext, ReadIn,
     SetNextIn, WriteNextIn, UnlockNextIn, GetOut, LockOut, ReadOut, UnlockOut,
     SetNextOut, WriteNextOut, UnlockNextOut, UnlockIn, Goto, chainVars, threadVars, wrapVars, Claimed, Unclaimed
<1>7. ASSUME NEW t \in Threads, Work(t)
      PROVE  Accounted'
  BY <1>7, WorkDoneAccounted, WorkFailedAccounted DEF Work
<1> QED
  BY <1>1, <1>2, <1>3, <1>4, <1>5, <1>6, <1>7, TakeIterAccounted DEF Next, Wrapper

LEMMA AccountedAlways == Spec => []Accounted
<1>1. Init => Accounted
  <2> SUFFICES ASSUME Init PROVE Accounted
    OBVIOUS
  <2>1. phase = "start" /\ written = {} /\ err = 0 /\ cumCount = 0 /\ result = 0
    BY DEF Init
  <2> QED
    BY <2>1 DEF Accounted, Running
<1>2. IInv /\ Accounted /\ [Next]_vars => Accounted'
  <2> SUFFICES ASSUME IInv, Accounted, [Next]_vars PROVE Accounted'
    OBVIOUS
  <2>1. CASE Next
    BY <2>1, AccountedStep
  <2>2. CASE UNCHANGED vars
    BY <2>2, CalmStep DEF vars, chainVars, threadVars, wrapVars, Claimed
  <2> QED
    BY <2>1, <2>2
<1> QED
  BY <1>1, <1>2, InductiveInvariant, PTL DEF Spec

-----------------------------------------------------------------------------
(* The promise of BlockMap.                                                *)

(* What the end of the work has to show: all bytes, counted.               *)
LEMMA AllWritten ==
  ASSUME IInv, Accounted, phase = "leftover", AllIdle
  PROVE  Filled = Promise!Everything /\ cumCount = Size * ElemSize
<1>1. /\ Running /\ TypeOK /\ err = 0 /\ Apart /\ Intact
  BY DEF Accounted, IInv, Running
<1>2. /\ next \in Nat /\ LeftoverIter \in Nat /\ Blocks \in Nat /\ Length \in Nat
      /\ cumCount \in Int /\ LeftoverIter >= Blocks
  BY <1>1, LayoutTypes DEF TypeOK, LeftoverIter
<1>3. next = LeftoverIter + 1
  BY <1>1, <1>2, NobodyPending DEF IInv, PhaseIters, Issued
<1>4. Start(next) = Size * ElemSize
  BY <1>2, <1>3 DEF Start
<1>5. /\ Cardinality(Busy) = 0
      /\ \A t \in Threads : \A b : ~In(t, b)
  BY NobodyBusy DEF AllIdle, Claimed, Unclaimed
<1>6. Size * ElemSize \in Nat
  BY SizesAssumption
<1>7. cumCount = Size * ElemSize
  <2>1. cumCount + 0 * Length = Size * ElemSize
    BY <1>1, <1>4, <1>5 DEF Intact
  <2>2. 0 * Length = 0
    BY <1>2
  <2> QED
    BY <1>2, <2>1, <2>2
<1>8. ASSUME NEW b \in Nat, b < Size * ElemSize PROVE <<b, b>> \in Filled
  BY <1>1, <1>4, <1>5, <1>8 DEF Intact, Done
<1>9. \A p \in Filled : \E b \in Nat : p = <<b, b>> /\ b < Size * ElemSize
  BY <1>1, <1>4 DEF Apart
<1>10. Promise!Offsets = {b \in Nat : b < Size * ElemSize}
  BY <1>6 DEF Promise!Offsets
<1>11. Filled = Promise!Everything
  BY <1>8, <1>9, <1>10 DEF Promise!Everything
<1> QED
  BY <1>7, <1>11

(* A block that is done is one step of BlockMap, or none if it is empty.    *)
LEMMA WorkDoneWrites ==
  ASSUME IInv, Accounted, NEW t \in Threads, WorkDone(t)
  PROVE  Promise!Write \/ UNCHANGED <<Filled, result>>
<1>0. Work(t)
  BY DEF Work
<1>1. /\ Running /\ Claimed(t) /\ Apart /\ result' = result
      /\ Start(next) \in Nat /\ Start(iter[t]) \in Nat /\ Length \in Nat
      /\ next \in Nat /\ TypeOK
  BY <1>0, WorkEnds DEF IInv, TypeOK
<1>2. result = 0
  BY <1>1 DEF Accounted, Running
<1> DEFINE lo == Start(iter[t])
           hi == lo + Length - 1
           G == {<<b, b>> : b \in {c \in Nat : In(t, c)}}
<1>3. Filled' = Filled \union G
  BY FilledGrows
<1>4. \A b \in Nat : In(t, b) <=> lo <= b /\ b < lo + Length
  BY <1>1 DEF In
<1>5. lo \in Nat
  BY <1>1
<1> HIDE DEF lo
<1>6. CASE Length = 0
  <2>1. \A b \in Nat : ~In(t, b)
    BY <1>4, <1>5, <1>6
  <2>2. G = {}
    BY <2>1
  <2> QED
    BY <1>1, <1>3, <2>2
<1>7. CASE Length # 0
  <2>1. hi \in Nat /\ \A b \in Nat : In(t, b) <=> b \in lo .. hi
    BY <1>1, <1>4, <1>5, <1>7
  <2>2. lo .. hi = {c \in Nat : In(t, c)}
    BY <1>5, <2>1
  <2>3. hi < Start(next) /\ lo < Start(next)
    <3>1. In(t, hi) /\ In(t, lo) /\ hi \in Nat
      BY <1>1, <1>5, <1>7, <2>1
    <3> QED
      BY <1>1, <1>5, <3>1 DEF Apart
  <2>4. Start(next) <= Size * ElemSize /\ Size * ElemSize \in Nat
    BY <1>1, StartInside, SizesAssumption
  <2>5. lo \in Promise!Offsets /\ hi \in Promise!Offsets
    BY <1>1, <1>5, <2>1, <2>3, <2>4 DEF Promise!Offsets
  <2>6. {<<b, b>> : b \in lo .. hi} = G
    BY <2>2
  <2>7. G \cap Filled = {}
    <3> SUFFICES ASSUME NEW p, p \in G, p \in Filled PROVE FALSE
      OBVIOUS
    <3>1. PICK b \in Nat : p = <<b, b>> /\ In(t, b)
      OBVIOUS
    <3>2. PICK c \in Nat : p = <<c, c>> /\ ~In(t, c)
      BY <1>1 DEF Apart
    <3> QED
      BY <3>1, <3>2
  <2> HIDE DEF hi, G
  <2> QED
    BY <1>1, <1>2, <1>3, <2>5, <2>6, <2>7 DEF Promise!Write
<1> QED
  BY <1>6, <1>7

LEMMA PromiseStep ==
  ASSUME IInv, Accounted, [Next]_vars
  PROVE  [Promise!Next]_<<Filled, result>>
<1>0. Size * ElemSize \in Nat /\ Size * ElemSize > 0
  BY SizesAssumption
<1>1. ASSUME UNCHANGED <<written, result>> PROVE UNCHANGED <<Filled, result>>
  BY <1>1 DEF Filled
<1>2. CASE Begin
  <2>1. CASE result' = ErrBlockSize
    <3>1. Filled = {} /\ Filled' = Filled /\ result = 0
      BY <1>2 DEF Begin, Accounted, Filled
    <3>2. <<0, 0>> \in Promise!Everything
      BY <1>0 DEF Promise!Everything, Promise!Offsets
    <3>3. result' < 0
      BY <2>1 DEF ErrBlockSize
    <3> QED
      BY <3>1, <3>2, <3>3 DEF Promise!Next, Promise!Fail
  <2>2. CASE UNCHANGED result
    BY <1>1, <1>2, <2>2 DEF Begin
  <2> QED
    BY <1>2, <2>1, <2>2 DEF Begin
<1>3. CASE ReturnError
  <2>1. /\ Running /\ result' = err /\ err < 0 /\ written' = written
    BY <1>3 DEF ReturnError, BlocksDone, Running
  <2>2. result = 0 /\ Missing /\ TypeOK /\ next \in Nat
    BY <2>1 DEF Accounted, Running, IInv, TypeOK
  <2>3. PICK b \in Nat : b < Start(next) /\ ~Done(b)
    BY <2>1, <2>2 DEF Missing
  <2>4. Start(next) \in Nat /\ Start(next) <= Size * ElemSize
    BY <2>1, <2>2, StartInside
  <2>5. <<b, b>> \in Promise!Everything /\ <<b, b>> \notin Filled
    BY <1>0, <2>3, <2>4 DEF Promise!Everything, Promise!Offsets, Done
  <2>6. Filled' = Filled
    BY <2>1 DEF Filled
  <2> QED
    BY <2>1, <2>2, <2>5, <2>6 DEF Promise!Next, Promise!Fail
<1>4. CASE Return
  <2>1. /\ phase = "leftover" /\ AllIdle /\ result' = cumCount /\ written' = written
    BY <1>4 DEF Return
  <2>2. result = 0
    BY <2>1 DEF Accounted
  <2>3. Filled = Promise!Everything /\ result' = Size * ElemSize /\ Filled' = Filled
    BY <2>1, AllWritten DEF Filled
  <2> QED
    BY <2>2, <2>3 DEF Promise!Next, Promise!Succeed
<1>5. CASE StartLastBlock \/ StartLeftover \/ Terminated \/ UNCHANGED vars
  BY <1>1, <1>5 DEF StartLastBlock, StartLeftover, Terminated, vars, wrapVars
<1>6. ASSUME NEW t \in Threads, StartBlock(t)
      PROVE  UNCHANGED <<Filled, result>>
  BY <1>1, <1>6 DEF StartBlock
<1>7. ASSUME NEW t \in Threads, Thread(t), ~WorkDone(t)
      PROVE  UNCHANGED <<Filled, result>>
  BY <1>1, <1>7 DEF Thread, GetIn, LockNext, TakeIter, LockIn, LockNextIn, LockNextOut, UnlockNext, ReadIn,
     SetNextIn, WriteNextIn, UnlockNextIn, GetOut, LockOut, ReadOut, UnlockOut,
     SetNextOut, WriteNextOut, UnlockNextOut, UnlockIn, Work, WorkFailed, wrapVars
<1>8. ASSUME NEW t \in Threads, WorkDone(t)
      PROVE  [Promise!Next]_<<Filled, result>>
  BY <1>8, WorkDoneWrites DEF Promise!Next
<1> QED
  BY <1>2, <1>3, <1>4, <1>5, <1>6, <1>7, <1>8 DEF Next, Wrapper

(* The wrapper implements BlockMap: whatever the team, the ring and the     *)
(* sizes are and whichever blocks fail, each byte of the output is written  *)
(* at most once, from the same place, and the size of the buffer is         *)
(* returned exactly when all were (src/bitshuffle_core.c:1873-1927).            *)
THEOREM KeepsBlockMap == Spec => KeepsPromise
<1>1. Init => Promise!Init
  BY DEF Init, Promise!Init, Filled
<1>2. IInv /\ Accounted /\ [Next]_vars => [Promise!Next]_<<Filled, result>>
  BY PromiseStep
<1> QED
  BY <1>1, <1>2, InductiveInvariant, AccountedAlways, PTL DEF Spec, KeepsPromise, Promise!Spec
=============================================================================
