SPECIFICATION ProgramsSpec
CONSTANTS
  Apps = {"AdcDma", "HsdinDma", "AdcExternalTrigger", "AdcDacSimul", "AdcHsdinSimul"}
  NumBuffers = 2
  Amount <- MCAmount
  MaxChunks <- MCMaxChunks
  MaxFaults <- MCMaxFaults
  Goal = 2
  MaxEvents = 3
  InterruptFaults = 1
  ProgramFaults = 2
INVARIANTS
  PartsTypeOK
  DataIsSound
  CountedOnce
  CallsAreOrdered
  NothingUnnoticed
PROPERTIES
  ReportedIsTaken
  RaisedIsServed
  ProgramsEnd
\* the programs end
CHECK_DEADLOCK FALSE
