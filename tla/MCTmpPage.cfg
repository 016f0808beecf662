SPECIFICATION FairSpec
CONSTANTS
  Callers = {c1, c2}
  Frames = {f1, f2}
  Upper = {f1}
  ENTRIES = 2
  Values = {Null, Large}
  Null = Null
  Large = Large
  Nobody = Nobody
INVARIANTS
  TypeOK
  GuardReachesFrame
PROPERTIES
  ImplementsEntryMemory
  GuardIsDropped
