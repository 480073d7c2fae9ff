SPECIFICATION MCSpec
CONSTANTS
  WatchdogAsked = 1
  Floor = 2
INVARIANTS
  TypeOK
  NothingUnwatched
  NoEndIsDropped
  NothingOutlivesTheSession
  LeavingAsksForTheEnd
PROPERTIES
  CompletionIsConfirmed
  KeepsThePromise
  WatchdogEndsTheSession
  DrawnUnderItsOwnSession
  EndedSessionLeavesTheTest
  QuitCompletes
CHECK_DEADLOCK FALSE
