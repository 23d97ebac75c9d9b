SPECIFICATION FairSpec
CONSTANTS
  Depth = 3
  MaxInterrupts = 5
  Faults <- NoHangFaults
INVARIANTS
  TypeOK
  OneWaitIsEnough
  CountsAddUp
  DrainNeverHangs
  NoRequestOutlivesThread
PROPERTIES
  GetsOn
  ImplementsThreadLife
  ImplementsNotifyQueue
  StartsAndStops
  DeliversAll
