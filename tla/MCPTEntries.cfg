SPECIFICATION Spec
CONSTANTS
  AddrBits = {12, 31}
  AskedFlags <- AllFlags
INVARIANTS
  EntryHolds
  
