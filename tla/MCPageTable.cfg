SPECIFICATION Spec
CONSTANTS
  b = b
  l = l
  f = f
  Frames = {b, l, f}
  Last = {l}
  Other = Other
  FrameAt <- LateKernel
  BootZone = FALSE
  Root = Root
  LowTable = LowTable
  None = None
  ENTRIES = 5
  Flags <- MCFlags
  MapRanges <- MCMapRanges
  UnmapRanges <- MCUnmapRanges
  Touched <- MCTouched
CHECK_DEADLOCK FALSE
INVARIANTS
  TypeOK
  TlbCoherent
  FramesAccounted
  FreedOnlyInWindow
  MapOkMaps
  UnmapOkUnmaps
PROPERTIES
  ImplementsAddressSpace
  CallsEnd
