SPECIFICATION Spec
CONSTANTS
  Weights <- MCWeights
  ChunkSize = 3
  MergeSize = 2
  Layers = 2
  Prompts <- MCPrompts
  Texts <- MCTexts
  Images <- MCImages
  Extensions <- MCExtensions
  MaxTokens = 7
  MaxTalks = 2
  None = None
INVARIANTS OutputsAsInOneRun PositionsAsInOneRun
CHECK_DEADLOCK FALSE
