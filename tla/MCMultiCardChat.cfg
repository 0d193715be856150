SPECIFICATION ChatSpec
CONSTANTS
  N = 2
  Lens <- LensUpToTwo
  MaxRuns = 12
  MaxNewTokens = 2
  Limit = 6
  Reserve = 2
  MaxTurns = 3
INVARIANTS
  ContextTokensLag
  CachesInStep
  OneSystemPrompt
  PrefillFits
  AllStepsDecoded
PROPERTIES
  TurnsEnd
