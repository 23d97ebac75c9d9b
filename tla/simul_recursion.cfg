SPECIFICATION FairSpec
CONSTANTS
  MaxFaults = 1
CHECK_DEADLOCK FALSE
PROPERTIES CleanupEnds
