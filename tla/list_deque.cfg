SPECIFICATION Spec
CONSTANTS
  Node = {n1, n2, n3}
  List = {l1, l2}
  Null = Null
  Junk = Junk
  MaxWord = 4
  TailResets <- Kept
  Ops <- DequeOps
INVARIANT ListInv
PROPERTY Implements
