SPECIFICATION Spec
CONSTANTS
  s1 = s1
  s2 = s2
  r1 = r1
  r2 = r2
  Sittings = {s1, s2}
  Managed = {s1}
  Expiry <- MCExpiry
  Requests = {r1, r2}
  Routes <- MCRoutes
  Answers = {"v"}
  NoAnswer = NoAnswer
  TimeLimit = 1
  DeadlineGrace = 0
  CloseGrace = 1
  MaxNow = 2
  Deadlines = {2}
  MaxId = 2
  MaxPassBacks = 1
INVARIANTS
  TypeOK
  HandedInColumnsAgree
PROPERTIES
  SubmittedStaysInItsSitting
  StudentKeepsTheirTime
  ImplementsContract
