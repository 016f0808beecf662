SPECIFICATION Spec
CONSTANTS
  b = b
  l = l
  f = f
  Frames = {b, l, f}
  Last = {l}
  Other = Other
  FrameAt <- LateKernel
  BootZone = FALSE
  Root = Root
  LowTable = LowTable
  None = None
  ENTRIES = 5
  Flags <- PresentOnly
  MapRanges <- MCInnerRanges
  UnmapRanges <- MCInnerRanges
  Touched = {}
CHECK_DEADLOCK FALSE
INVARIANT
  UnmapOnlyAsked
