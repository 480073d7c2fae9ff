SPECIFICATION ErrorLogSpec
CONSTANTS
  Drains = {d1}
  MaxLines = 3
  MaxBytes = 2
  BatchSize = 1
  Long = {1, 2}
  MaxRecords = 4
  MaxFaults = 0
PROPERTY TrimmedToItsBytes
CHECK_DEADLOCK FALSE
