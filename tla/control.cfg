SPECIFICATION FairSpec
CONSTANTS
  MaxThreads = 3
  Reinstalls = FALSE
  Removers = {2}
  Junk <- AnyJunk
INVARIANTS
  TypeOK
  RemoveOkMeansGone
  HandlesAreSound
PROPERTIES
  EverythingEnds
