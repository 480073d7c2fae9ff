SPECIFICATION PeekSpec
CONSTANTS
  Staff = {t1, t2}
  MaxPeeks = 2
  MaxDeadlines = 1
  MaxHops = 2
  MaxLost = 0
PROPERTY OldClockEndsNothing
CHECK_DEADLOCK FALSE
