SPECIFICATION LiveSpec
CONSTANTS
  Ids <- MCFiles
  Values = {v1}
  None = None
  Indexes = {"files"}
  IndexOf <- MCIndexOf
  Environments <- MCGhosts
  MaxChanges <- MCChanges
PROPERTY NoGhosts
