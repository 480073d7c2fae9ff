SPECIFICATION ErrorLogSpec
CONSTANTS
  Drains = {d1}
  MaxLines = 3
  MaxBytes = 9
  BatchSize = 1
  Long = {}
  MaxRecords = 4
  MaxFaults = 2
PROPERTY HalfLineCostsItself
CHECK_DEADLOCK FALSE
