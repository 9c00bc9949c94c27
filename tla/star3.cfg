SPECIFICATION StarSpec
CONSTANTS
  N = 3
  Faults = {"rdma_accept"}
  NoRoute <- Pair01
  Callers = {2}
  Quitters = {}
INVARIANTS ConnectedMeansHandshake
PROPERTIES EntryLostOnlyByMemset
CHECK_DEADLOCK FALSE
