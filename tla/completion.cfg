SPECIFICATION OrderedSpec
CONSTANTS
  MaxReqs = 5
  Posted = 2
  Reqs <- SmallReqs
  NoReq = NoReq
  CqeSize = 3
  MaxWr = 3
  Faults <- AllFaults
INVARIANTS CompletionAnnounced
PROPERTIES OverrunNeedsBurst ImplementsRequests CompletionsPolled ReadReturns
CHECK_DEADLOCK FALSE
