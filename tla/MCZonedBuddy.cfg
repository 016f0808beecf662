SPECIFICATION Spec
CONSTANTS
  Callers = {c1, c2}
  Regions <- MCRegions
  Sizes = {1, 2}
  MaxZones = 3
SYMMETRY CallerSymmetry
INVARIANTS
  TypeOK
  NoDoubleAllocation
  NoLostBlock
  CountersNeverWrap
  CountersSettle
  TotalIsManaged
PROPERTY
  ImplementsPagePool
