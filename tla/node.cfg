SPECIFICATION NodeSpec
CONSTANTS
  NodeCnt = 4
  HashKey <- SmallKeys
  MaxDevices = 3
  Faults <- AllFaults
INVARIANTS RingInOrder DevicesCounted ListHoldsDevices LookupFinds
PROPERTIES RingBuilt AllReleased
CHECK_DEADLOCK FALSE
