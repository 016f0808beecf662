SPECIFICATION FairSpec
CONSTANTS
  Irqs = {0, 1, 3, 8}
CHECK_DEADLOCK FALSE
INVARIANTS
  TypeOK
  NoPhantomException
  InServiceIsRunning
  OnlyKeyboardWaits
  PanicIsLast
PROPERTIES
  ReportedOrHung
  EoiSentOrHung
