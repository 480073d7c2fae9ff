SPECIFICATION Spec
CONSTANTS
  i1 = i1  i2 = i2
  Items = {i1, i2}
  NoItem = NoItem
  MaxEdits = 2
  MaxScreens = 2
  MaxTasks = 3
PROPERTY HandInIsComplete
CHECK_DEADLOCK FALSE
