SPECIFICATION Spec
CONSTANTS
  N = 3
  Bucket = 2
  RtBucket = 2
  Lens <- LensOneAndThree
  EmbedUpfront = TRUE
  MaxRuns = 2
INVARIANTS
  InFlightInOrder
  NothingGarbled
  SuccessIsComplete
  ErrorsSurface
PROPERTIES
  CallReturns
  ImplementsCall
