SPECIFICATION Spec
CONSTANTS
  Thread = {t1, t2}
  MemSize = 20
  PageSize = 4
  Base = 60
  EndAddr = 1
  StackSize = 1
  PageStruct = 1
  HeapSize = 4
  Node <- Pages
  List <- Lists
  MaxWord = 15
  Null = Null
  Junk = Junk
  TailResets <- Either
CHECK_DEADLOCK FALSE
INVARIANT RestIsAllocatable
