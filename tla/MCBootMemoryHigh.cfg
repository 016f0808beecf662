SPECIFICATION Spec
CONSTANTS
  PAGE = 2
  WORD = 16
  Areas <- HighAreas
  MaxAreas = 2
  KernelEnd = 3
CHECK_DEADLOCK FALSE
INVARIANTS
  TotalIsManaged
