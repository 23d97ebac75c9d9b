SPECIFICATION DmaSpec
CONSTANTS
  c1 = c1
  c2 = c2
  Callers = {c1, c2}
  Loops = 1
  MaxHalts = 1
  IoFails = TRUE
  Depth = 4
  MaxRequests = 3
  Window = 3
  MaxIds = 6
  Waits = TRUE
  Cancels = TRUE
INVARIANTS
  PartsTypeOK
  RequestsAreTold
PROPERTIES
  SuccessIsTrue
  BusyMeansNotTaken
  EverythingIsAnswered
  ToldInOrder
  ImplementsNotifyQueue
\* a request with wait = TRUE ends the program
CHECK_DEADLOCK FALSE
