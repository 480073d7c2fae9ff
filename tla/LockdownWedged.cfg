SPECIFICATION Spec
CONSTANTS
  WatchdogAsked = 1
  Floor = 2
PROPERTIES
  ExitIsGuaranteed
CHECK_DEADLOCK FALSE
