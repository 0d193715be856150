SPECIFICATION Spec
CONSTANTS
  RollbackTokens = 1
  RollbackRounds = 1
  Chunks = 4
  ChunkTokens = 2
  FixedTokens = 1
  MaxContext = 12
  MaxNewTokens = 3
  Words = {"a", "b"}
INVARIANTS
  DisplayIsWhole
  FinalIsWhole
