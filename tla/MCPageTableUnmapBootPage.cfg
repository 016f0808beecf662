SPECIFICATION Spec
CONSTANTS
  b = b
  l = l
  f = f
  Frames <- EarlyFrames
  Last <- EarlyLast
  Other = Other
  FrameAt <- EarlyKernel
  BootZone = TRUE
  Root = Root
  LowTable = LowTable
  None = None
  ENTRIES = 5
  Flags <- PresentOnly
  MapRanges <- MCInnerRanges
  UnmapRanges <- MCLargeRanges
  Touched = {}
CHECK_DEADLOCK FALSE
INVARIANT
  FreedIsUnused
