SPECIFICATION Spec
CONSTANTS
  NodeCnt = 3
  CurNode = 1
  Base = 64
  Span = 4096
  Thread = {t1, t2}
  Length = {1, 100, 3500}
  MaxBlocks = 3
SYMMETRY ThreadSymmetry
INVARIANTS MessagesApart BlocksApartUnlessRaced PoolSuffices HybridAddressesDecode
CHECK_DEADLOCK FALSE
