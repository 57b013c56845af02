SPECIFICATION FairSpec
CONSTANTS
  Header = 4
  HeapSize = 72
  Word = 1024
  Nil = Nil
  Programs <- AnyArrays
  PcbBytes = 12
  Machines = {TRUE, FALSE}
CHECK_DEADLOCK FALSE
INVARIANT TypeOK
INVARIANT MessageFits
INVARIANT KfreeStopsAtOnce
INVARIANT MessageHasAPlace
INVARIANT ZeroMeansAnswered
PROPERTY BootGoesOn
