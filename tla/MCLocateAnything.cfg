SPECIFICATION Spec
CONSTANTS
  Prompts <- MCPrompts
  MaxNew = 8
  Modes = {"fast", "slow", "hybrid"}
  Guesses <- MCGuesses
  Singles <- MCSingles
  SlidingWindows = {7, 4096}
INVARIANTS CacheIsOfGenerated MasksAgree WindowAsTrained ArInsideBox RoundsAdvance
CHECK_DEADLOCK FALSE
