SPECIFICATION LiveSpec
CONSTANTS
  Setups <- MCLive
  Faults = {"session", "slow", "ipc", "restart", "events"}
  MaxRows = 1
  MaxChanges = 1
  MaxMishaps = 1
PROPERTIES PauseEnds MetadataArrives RowsDelivered
