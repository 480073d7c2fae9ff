SPECIFICATION PeekSpec
CONSTANTS
  Staff = {t1, t2}
  MaxPeeks = 2
  MaxDeadlines = 1
  MaxHops = 2
  MaxLost = 0
INVARIANT OneOpenQuestion
CHECK_DEADLOCK FALSE
