SPECIFICATION FairSpec
CONSTANTS
  Thread = {t1, t2}
  Groups = {{t1}, {t1, t2}}
  Word = 32
  IntBuf = 5
  Fifo = 2
  Keys <- SomeKeys
  MaxTyped = 3
  Prints <- Formats
  Numbers <- Some
  MaxBuf = 3
  Usecs = 5
  Starts = {0, 29}
  MaxGap = 7
  MaxCalls = 2
  MaxShared = 2
CHECK_DEADLOCK FALSE
INVARIANT TypeOK
INVARIANT LineIsFaithful
INVARIANT BuffersHold
PROPERTY DelayIsLongEnough
PROPERTY CallsReturn
