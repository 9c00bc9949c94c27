SPECIFICATION Spec
CONSTANTS
  N = 2
  Faults = {}
  NoRoute = {}
  Callers = {0}
  Quitters = {1}
PROPERTIES CheckRefusesDisconnected
CHECK_DEADLOCK FALSE
