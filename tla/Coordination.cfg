SPECIFICATION Spec
CONSTANTS
  Setups <- MCEach
  Faults = {"session", "repair", "slow", "ipc", "version", "restart"}
  MaxRows = 2
  MaxChanges = 1
  MaxMishaps = 1
INVARIANTS TypeOK FlushCovers
PROPERTY FimVersionGrows
CHECK_DEADLOCK FALSE
