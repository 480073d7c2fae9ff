SPECIFICATION AutosaveSpec
CONSTANTS
  Contents = {c1, c2, c3}
  Stored = c1
  NoContent = NoContent
  Keep = 2
  MaxFailures = 1
INVARIANT LeftAsShown
CHECK_DEADLOCK FALSE
