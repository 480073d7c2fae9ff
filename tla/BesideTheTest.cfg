SPECIFICATION Spec
CONSTANTS
  t1 = t1 t2 = t2
  Staff <- MCStaff
  MaxPeeks = 2
  MaxDeadlines = 2
  MaxHops = 2
  MaxLost = 1
  c1 = c1 c2 = c2
  Contents <- MCContents
  Stored = c1
  NoContent = NoContent
  Keep = 2
  MaxFailures = 1
  Drains = {d1, d2}
  MaxLines = 2
  MaxBytes = 3
  BatchSize = 1
  Long = {2}
  MaxRecords = 3
  MaxFaults = 2
INVARIANTS FrameGoesToOne SavedMeansSaved
PROPERTIES DisclosureStays NewsReachesTheStudent ReplacedIsKept EditsReachTheServer TakenBeforeItGoes EveryLineIsSent
CHECK_DEADLOCK FALSE
