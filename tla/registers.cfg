SPECIFICATION BoardSpec
CONSTANTS
  t1 = t1
  t2 = t2
  u1 = u1
  u2 = u2
  d1 = d1
  d2 = d2
  i1 = i1
  i2 = i2
  Callers = {t1, t2}
  Values = {v0, v1}
  Zero = v0
  Flags = {"port1"}
  IoFails = TRUE
  Threads = {t1, t2}
  Ints <- TwoInts
  NumFifos = 2
  Masks <- SomeMasks
  MaxCalls = 3
  MayFail = TRUE
  Users = {t1, t2}
  Calls <- SomeCalls
  MaxSetups = 2
  WritesFail = TRUE
  MaxFb = 3
  Tables <- SomeTables
  MaxOpens = 2
  ReadsFail = TRUE
  Askers = {t1, t2}
  Asks <- SomeAsks
  MaxAsks = 3
  CallsFail = TRUE
  Openers = {t1, t2}
  Devices = {d1, d2}
  MaxDevices = 2
  MaxChanges = 2
  MaxOpenings = 2
  SystemFails = TRUE
  Setters = {u1}
  Readers = {u2}
  Byte = 2
  Modes = {0, 1}
  Divisors = {1, 2}
  Polls = 2
  NumChannels = 2
  StatusFlags = {"overflow", "used"}
  Rates <- ClockRates
  Entries <- SomeEntries
  TableSize = 2
SYMMETRY Alike
INVARIANTS
  PartsTypeOK
  ReadsAreTrue
  WritesTakeEffect
  SettingsHold
  SetupsAreSound
  NothingUnasked
  EnabledIsExact
  OpensWhatWasAsked
PROPERTIES ImplementsFile ImplementsSetup CalibratesAsAsked
\* the process may die of a division by zero
CHECK_DEADLOCK FALSE
