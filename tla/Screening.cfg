SPECIFICATION MCSpec
CONSTANTS
  a1 = a1 a2 = a2 retry = retry other = other worry = worry trick = trick blank = blank
  Answers = {a1, a2}
  NoAnswer = NoAnswer
  Essays = {worry, trick, blank}
  BlankEssays = {blank}
  Concerns <- ReportedConcerns
  Retries = {retry}
  Lookers = {other}
  Batch = 1
  MaxRestarts = 1
  MaxFailedWrites = 1
INVARIANT ScreenedMeansHeard
PROPERTY EveryAnswerIsScreened
CHECK_DEADLOCK FALSE
