SPECIFICATION ErrorLogSpec
CONSTANTS
  Drains = {d1}
  MaxLines = 2
  MaxBytes = 9
  BatchSize = 1
  Long = {}
  MaxRecords = 4
  MaxFaults = 2
PROPERTY LastWordsReachTheFile
CHECK_DEADLOCK FALSE
