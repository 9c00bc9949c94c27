SPECIFICATION FairSpec
CONSTANTS
  Node = {n1, n2}
  Pool = {b}
  Heap = {h}
  Val = {v0}
  NoCall = nocall
  Rights <- CodeRights
  Depth = 2
  Faults = {}
PROPERTIES ReadReturns
CHECK_DEADLOCK FALSE
