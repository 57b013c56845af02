SPECIFICATION Spec
CONSTANTS
  Header = 2
  HeapSize = 24
  Word = 256
  Nil = Nil
  Requests = {1, 3, 9}
  Clients = {TRUE, FALSE}
  MaxCalls = 6
CHECK_DEADLOCK FALSE
INVARIANT TypeOK
INVARIANT Tiling
INVARIANT BlocksDisjoint
