SPECIFICATION FairSpec
CONSTANTS
  Entries = 16
  TableLen = 4
  DirBase = 128
  MemWords = 272
  Bits = 4
  Timer = 9
  MaxDepth = 3
CHECK_DEADLOCK FALSE
INVARIANT TypeOK
INVARIANT AddressSpaceHolds
INVARIANT NothingUnregisteredRuns
INVARIANT NestedBehindHandler
INVARIANT VectorsAreReached
PROPERTY NothingIsOverwritten
PROPERTY TicksForEver
