SPECIFICATION Spec
CONSTANTS
  Boards = 2
  PerBoard = 1
  DeviceCounts = {1, 2}
  FrameLimits = {0, 2}
  MaxFrames = 2
INVARIANTS
  NoUseAfterRelease
  ReportIsFinal
  AllReleased
PROPERTIES
  Ends
