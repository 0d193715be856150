SPECIFICATION Spec
CONSTANTS
  Lines = 2
  NProcs = {1}
  Drivers = {"lines"}
  Prefetched = {1}
  MaxStarts = 1
INVARIANT SavedIsReturned
CHECK_DEADLOCK FALSE
