SPECIFICATION HostSpec
CONSTANTS
  WatchdogAsked = 1
  Floor = 1
PROPERTIES
  TestLeavesWithItsSession
CHECK_DEADLOCK FALSE
