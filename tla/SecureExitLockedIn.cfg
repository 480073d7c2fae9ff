SPECIFICATION HostSpec
CONSTANTS
  WatchdogAsked = 1
  Floor = 1
INVARIANTS
  HomeIsNeverLockedIn
CHECK_DEADLOCK FALSE
