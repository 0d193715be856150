SPECIFICATION Spec
CONSTANTS
  Lines = 4
  NProcs = {2, 3}
  Drivers = {"lines", "groups", "exact"}
  Prefetched = {1}
  MaxStarts = 3
INVARIANTS SavedIsReturned ScoreIsOfAll VerdictsKept
CHECK_DEADLOCK FALSE
