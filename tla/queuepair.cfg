\* Two transports in one epoll loop; every call may fail.
SPECIFICATION Spec
CONSTANTS
  Active = {"a", "b"}
  Passive = {"p"}
  Faults <- AllFaults
INVARIANTS TypeOK RegisteredFdsOpen HandlersFindTheirQueue FailureReleases
CHECK_DEADLOCK FALSE
