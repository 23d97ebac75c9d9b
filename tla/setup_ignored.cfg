SPECIFICATION Spec
CONSTANTS
  MaxFaults = 0
CHECK_DEADLOCK FALSE
INVARIANT NothingIsMissed
