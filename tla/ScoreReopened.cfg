SPECIFICATION Spec
CONSTANTS
  r1 = r1  q1 = q1  q2 = q2  t1 = t1  t2 = t2
  Responses = {r1}
  NoResponse = NoResponse
  NoText = NoText
  Texts = {t1, t2}
  Scorings = {"auto", "hybrid"}
  Requests = {q1, q2}
  Free = Free
  Abandoned = Abandoned
  Routes <- ReopenRoutes
  MaxRows = 3
  MaxPassBacks = 1
SYMMETRY TextSymmetry
INVARIANT NoFinalOnAnOpenAttempt
CHECK_DEADLOCK FALSE
