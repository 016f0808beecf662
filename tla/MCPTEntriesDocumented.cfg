SPECIFICATION Spec
CONSTANTS
  AddrBits = {12, 31}
  AskedFlags <- GlobalUser
INVARIANTS
  PageAsDocumented
