SPECIFICATION LiveSpec
CONSTANTS
  Setups <- MCSyscollector
  Faults = {}
  MaxRows = 1
  MaxChanges = 1
  MaxMishaps = 0
PROPERTY PauseEnds
CHECK_DEADLOCK FALSE
