SPECIFICATION Spec
CONSTANTS
  MaxThreads = 1
  Reinstalls = FALSE
  Removers = {}
  Junk <- StaleJunk
PROPERTY JoinClosesHandle
