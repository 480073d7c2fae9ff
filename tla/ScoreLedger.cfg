SPECIFICATION Spec
CONSTANTS
  r1 = r1  q1 = q1  q2 = q2  t1 = t1  t2 = t2
  Responses = {r1}
  NoResponse = NoResponse
  NoText = NoText
  Texts = {t1, t2}
  Scorings = {"auto", "hybrid"}
  Requests = {q1, q2}
  Free = Free
  Abandoned = Abandoned
  Routes <- MCRoutes
  MaxRows = 4
  MaxPassBacks = 2
SYMMETRY TextSymmetry
INVARIANTS HistoryIsAChain OneAiScorePerAnswer
PROPERTIES HandGivenScoreStands HolderKeepsTheClaim
CHECK_DEADLOCK FALSE
