SPECIFICATION Spec
CONSTANTS
  N = 2
  Faults <- OtherFaults
  NoRoute = {}
  Callers = {0, 1}
  Quitters = {0, 1}
INVARIANTS TypeOK PostHasKey ConnectedMeansHandshake
PROPERTIES DemotedOnlyByLateStore ImplementsHandshake
CHECK_DEADLOCK FALSE
