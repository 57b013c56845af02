SPECIFICATION FairSpec
CONSTANTS
  Node = {4, 8, 12, 16}
  List <- Lists
  Main = 4
  Creators = {4, 8}
  MayExit = {8, 12}
  FirstPages <- TwoPages
  ZeroPage = zero
  EndPage = end
  p1 = p1
  p2 = p2
  Header = 1
  HeapSize = 28
  PcbBytes = 3
  HeapLeft = {11, 24}
  Word = 64
  Nil = Nil
  MaxCreates = 3
  MaxWord = 7
  Null = Null
  Junk = Junk
  TailResets <- Either
CHECK_DEADLOCK FALSE
INVARIANT TypeOK
INVARIANT LockHeldByOne
INVARIANT ThreadIsPreemptible
INVARIANT StackIsPrivate
INVARIANT PidIsUnique
INVARIANT NoThreadLost
INVARIANT QueuedHasFrame
INVARIANT ReapHasSuccessor
PROPERTY EveryThreadRunsOrHang
