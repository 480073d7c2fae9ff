SPECIFICATION DrawingSpec
CONSTANTS
  Handlers = {h1}
  MaxPictures = 2
  MaxSlots = 2
  MaxFaults = 1
PROPERTIES SavedIsStored
CHECK_DEADLOCK FALSE
