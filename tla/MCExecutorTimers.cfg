CONSTANTS
  MaxTime = 2
  MaxInstTicks = 1
  CallsLimit = 3
  MaxNow = 4
SPECIFICATION Spec
INVARIANTS TypeOK
PROPERTIES HaltEventually
CHECK_DEADLOCK FALSE
