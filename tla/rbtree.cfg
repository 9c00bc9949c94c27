\* All trees over eight keys that calls can build.
SPECIFICATION FairSpec
CONSTANTS
  MaxKey = 8
INVARIANTS TypeOK WalkSeesKeys OneDefect
PROPERTIES CallsReturn
CHECK_DEADLOCK FALSE
