SPECIFICATION Spec
CONSTANTS
  i1 = i1
  Items = {i1}
  i2 = i2
  NoItem = NoItem
  MaxEdits = 2
  MaxScreens = 2
  MaxTasks = 3
INVARIANT NoAnswerLost
PROPERTIES NeverGoesBack HandInCarriesTheAnswers FinishIsAnswered
CHECK_DEADLOCK FALSE
