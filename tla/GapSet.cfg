CONSTANTS
  MaxSize = 8
  Sizes <- MCSizes
SPECIFICATION Spec
INVARIANTS Separated RangesAreTheGaps
PROPERTY ImplementsTracker
CHECK_DEADLOCK FALSE
