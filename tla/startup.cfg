\* Three machines, every order of their entries, every failure.
SPECIFICATION Spec
CONSTANTS
  Machine = {"a", "b", "c"}
  Docs <- SmallDocs
  Faults <- AllFaults
INVARIANTS TypeOK TableNamesPeer RequestsKnown
CHECK_DEADLOCK FALSE
