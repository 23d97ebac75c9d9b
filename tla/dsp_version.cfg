SPECIFICATION Spec
CONSTANTS
  Callers = {c1}
  Polls = 2
  IoFails = FALSE
INVARIANT VersionIsAnswer
