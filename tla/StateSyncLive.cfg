SPECIFICATION LiveSpec
CONSTANTS
  Ids <- MCFiles
  Values = {v1, v2}
  None = None
  Indexes = {"files"}
  IndexOf <- MCIndexOf
  Environments <- MCLive
  MaxChanges <- MCChanges
PROPERTIES EventuallyConsistent DisabledCleaned
