SPECIFICATION Spec
CONSTANTS
  N = 3
  Bucket = 4
  RtBucket = 2
  Lens <- LensOneAndSeven
  EmbedUpfront = FALSE
  MaxRuns = 1
INVARIANTS
  TypeOK
  NothingGarbled
