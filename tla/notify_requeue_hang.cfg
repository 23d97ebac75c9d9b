SPECIFICATION FairSpec
CONSTANTS
  Depth = 2
  MaxInterrupts = 3
  Faults <- RequeueFault
PROPERTY ErrorIsReported
CHECK_DEADLOCK FALSE
