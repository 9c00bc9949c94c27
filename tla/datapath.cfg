SPECIFICATION WriterSpec
CONSTANTS
  Node = {n1, n2}
  Pool = {b}
  Heap = {h}
  Val = {v0, v1}
  NoCall = nocall
  Rights <- WithRead
  Depth = 3
  Faults <- AllFaults
PROPERTIES ReadIsBarrier ImplementsMemory ReadReturns
CHECK_DEADLOCK FALSE
