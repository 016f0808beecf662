SPECIFICATION ConsoleSpec
CONSTANTS
  VGA_WIDTH = 3
  VGA_HEIGHT = 3
  Chars <- MCChars
  Backgrounds <- MCBackgrounds
  SIZES <- MCSizes
  BASE <- MCBase
  ORDERS = 3
  Unit <- MCUnit
CHECK_DEADLOCK FALSE
INVARIANTS
  StoreInBounds
  NoOverflow
  RoundedDown
PROPERTY
  ImplementsTerminal
