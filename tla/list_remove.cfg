SPECIFICATION RemoveSpec
CONSTANTS
  Node = {n1, n2, n3}
  List = {l1}
  Null = Null
  Junk = Junk
  MaxWord = 4
  TailResets <- Kept
  Ops <- QueueOps
INVARIANT RemoveKeepsLists
