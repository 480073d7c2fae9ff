SPECIFICATION Spec
CONSTANTS
  a1 = a1 q1 = q1 q2 = q2 t1 = t1 t2 = t2
  p1 = p1 p2 = p2 r1 = r1 r2 = r2 w1 = w1 w2 = w2
  Candidates = {a1}
  Totals = {t1, t2}
  NoTotal = NoTotal
  Sends = {q1, q2}
  MaxPushes = 2
  MaxAssignments = 2
  MaxLosses = 1
  Pupils = {p1, p2}
  NoPupil = NoPupil
  Releases = {r1}
  Workers = {w1, w2}
  Choices <- SkipChoices
  MaxDocs = 2
  MaxSends = 2
  MaxChanges = 1
  MaxPictures = 2
  MaxSlots = 2
  Handlers = {h1}
  MaxFaults = 2
INVARIANT SkipDuplicatesNothing
CHECK_DEADLOCK FALSE
