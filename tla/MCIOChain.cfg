SPECIFICATION FairSpec
CONSTANTS
  t1 = t1
  t2 = t2
  t3 = t3
  NoThread = NoThread
  Threads <- MCThreads
  Master = t1
  Slots = 3
  Size = 11
  ElemSize = 1
  Mult = 2
  TargetBytes = 3
  MinBlock = 2
  BlockSizes <- MCBlockSizes
INVARIANTS
  TypeOK
  PointersInOrder
  NoDataRace
  NotOvertaken
PROPERTIES
  BlockedUntilPreviousSets
  KeepsPromise
  Returns
