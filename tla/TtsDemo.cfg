SPECIFICATION Spec
CONSTANTS
  Chunk = 2
  LeftContext = 2
  TrailLen = 3
  MaxTokens = 9
INVARIANTS
  FramesOnceInOrder
  ContextIsLeft
  SuccessIsWhole
  TextInOrder
  CallbacksAlive
PROPERTIES
  DemoEnds
CHECK_DEADLOCK FALSE
