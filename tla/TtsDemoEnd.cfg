SPECIFICATION Spec
CONSTANTS
  Chunk = 2
  LeftContext = 2
  TrailLen = 3
  MaxTokens = 4
PROPERTIES
  EndIsNoticed
CHECK_DEADLOCK FALSE
