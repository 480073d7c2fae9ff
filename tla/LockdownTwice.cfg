SPECIFICATION Spec
CONSTANTS
  WatchdogAsked = 1
  Floor = 2
INVARIANTS
  CompletedOnce
CHECK_DEADLOCK FALSE
