SPECIFICATION FairSpec
CONSTANTS
  Irqs = {0, 1}
CHECK_DEADLOCK FALSE
PROPERTIES
  PageFaultSeen
