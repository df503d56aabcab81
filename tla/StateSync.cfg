SPECIFICATION Spec
CONSTANTS
  Ids <- MCIds
  Values = {v1, v2}
  None = None
  Indexes <- MCIndexes
  IndexOf <- MCIndexOf
  Environments <- MCSafety
  MaxChanges <- MCChanges
INVARIANTS TypeOK Covered RowIsInBatch NoLostUpsert RowIsCurrent
SYMMETRY MCSymmetry
