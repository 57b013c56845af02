SPECIFICATION FairSpec
CONSTANTS
  Node = {4, 8}
  List <- Lists
  Main = 4
  Creators = {4}
  MayExit = {}
  FirstPages <- OnePage
  ZeroPage = zero
  EndPage = end
  p1 = p1
  p2 = p2
  Header = 1
  HeapSize = 28
  PcbBytes = 3
  HeapLeft = {24}
  Word = 64
  Nil = Nil
  MaxCreates = 1
  MaxWord = 7
  Null = Null
  Junk = Junk
  TailResets <- Either
CHECK_DEADLOCK FALSE
PROPERTY EveryThreadRuns
