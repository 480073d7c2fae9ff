SPECIFICATION AutosaveSpec
CONSTANTS
  Contents = {c1, c2, c3}
  Stored = c1
  NoContent = NoContent
  Keep = 2
  MaxFailures = 0
INVARIANT SavedIsTrue
CHECK_DEADLOCK FALSE
