CONSTANTS
  Layouts <- MCLayouts
  MaxBulkSize = 5
  Limits = {1, 2, 4}
  Environments <- MCEnvironments
SPECIFICATION LiveSpec
INVARIANTS TypeOK ChunksAreWhole ReturnIsComplete
PROPERTIES CallIsAtomic CallEnds
CHECK_DEADLOCK FALSE
