SPECIFICATION Spec
CONSTANTS
  Setups <- MCFim
  Faults = {"events"}
  MaxRows = 1
  MaxChanges = 1
  MaxMishaps = 0
PROPERTY FimVersionGrows
CHECK_DEADLOCK FALSE
