---------------------------- MODULE MCRegisters ----------------------------
(***************************************************************************)
(* The parts of the board whose functions are sequences of register        *)
(* accesses: the digital I/O, the interrupt sources, the settings, the     *)
(* channel gain table, a user timer, the DSP's mailbox, the temperature    *)
(* sensor, the DMA status flags and a programmable clock; one access in    *)
(* its steps; and opening a board and its function blocks.  The parts      *)
(* share no register, and a call is about one of them, so that what        *)
(* happens in one does not depend on the others and a behaviour of the     *)
(* board is any interleaving of behaviours of the parts.  The model starts *)
(* one of them, `part', and the others stay as they are.                   *)
(***************************************************************************)
EXTENDS DioRegisters, InterruptEnable, BoardSettings, FunctionBlock, RegisterAccess, Boards, TLC

CONSTANTS
  t1, t2,   \* two threads of the application
  u1, u2,   \* two more, of which one sets the user timer and one reads it
  d1, d2,   \* two boards of the machine
  i1, i2,   \* two interrupt sources
  Setters, Readers, Byte, Modes, Divisors,   \* UserTimer's
  Polls,                                     \* DspMailbox's
  NumChannels, StatusFlags,                  \* DmaStatus', the latter its Flags
  Rates,                                     \* ClockRate's
  Entries, TableSize                         \* GainTable's

\* No part tells the two threads apart, nor the two boards.
Alike == Permutations({t1, t2}) \cup Permutations({d1, d2})

VARIABLES
  part,
  uTimer, uCall, uReturned, uAlone, uInStep,
  mSram, mCommand, mSender, mAt, mRetries, mTold, mReturned, mAlone,
  tPtr, tData, tBusy, tTemp, tStep, tFailed, tReturned, tAlone,
  sFlags, sIgnoreUsed, sOp, sAt, sChannel, sSeen, sFresh, sLost, sReturned,
  kClock, kFreq, kCount, kCall, kReturned, kCrashed, kAlone,
  gTable, gLatch, gLast, gWanted, gSingle

\* A mask of one source, and one of all.
SomeMasks ==
  {[NoMask EXCEPT !.ints = {i1}],
   [ints |-> {i1, i2}, edges |-> {Edge}, dma |-> TRUE]}

TwoInts == {i1, i2}

\* Boards with blocks of two types, or none, at every place of the table, and
\* with an entry that contradicts its block.
SomeTables ==
  LET entry(t, a) == [type |-> t, dma |-> IF t = "adc" THEN 64 ELSE 256, channels |-> 2,
                      buffers |-> IF t = "adc" THEN 2 ELSE 1, agrees |-> a]
      right == {f \in [Numbers -> {entry(t, TRUE) : t \in Types}] : TRUE}
  IN  right \cup {[f EXCEPT ![1] = entry("adc", FALSE)] : f \in right}

\* Accesses with the masks of all functions, in pairs that share bits.
SomeAsks ==
  {[name |-> "Configure_Interrupts", on |-> {"int"}], [name |-> "Setup", on |-> {"ignoreUsed"}],
   [name |-> "Setup_Set_Direction", on |-> {"direction"}], [name |-> "Setup_Set_Used", on |-> {}],
   [name |-> "Get_Interrupt_Configuration", on |-> {}]}

\* Every setting and every setup, with the last value of each enumeration, and
\* with the one after it in one of the places.
Last(n) == CHOOSE v \in Documented(n) : \A w \in Documented(n) : w <= v

LastValues(names, bad) ==
  [i \in 1 .. Len(names) |-> IF i = bad THEN Last(names[i]) + 1 ELSE Last(names[i])]

SomeCalls ==
  UNION {{<<names, LastValues(names, bad)>> : bad \in 0 .. Len(names)} :
           names \in Singles \cup Setups}

\* At each clock's limits, in half hertz: one below the lower limit, one above it.
ClockRates ==
  [k \in {"bclk", "pclk", "dac"} |->
     CASE k = "bclk" -> {200, 246}
       [] k = "pclk" -> {1, 2}
       [] k = "dac"  -> {0, 32000000}]

\* Entries with one field at its limit, and with all of them.
SomeEntries ==
  LET none == [channel |-> 0, gain |-> 0, nrse |-> 0, range |-> 0, ground |-> 0, pause |-> 0,
               dac1 |-> 0, dac2 |-> 0, skip |-> 0]
      all  == [channel |-> 15, gain |-> 7, nrse |-> 1, range |-> 3, ground |-> 1, pause |-> 1,
               dac1 |-> 1, dac2 |-> 1, skip |-> 1]
  IN  {all} \cup {[none EXCEPT ![f] = all[f]] : f \in DOMAIN all}

Timer == INSTANCE UserTimer WITH
  timer <- uTimer, call <- uCall, returned <- uReturned, alone <- uAlone, inStep <- uInStep

Dsp == INSTANCE DspMailbox WITH
  sram <- mSram, command <- mCommand, sender <- mSender, at <- mAt, retries <- mRetries,
  told <- mTold, returned <- mReturned, alone <- mAlone

Sensor == INSTANCE TempSensor WITH
  ptr <- tPtr, data <- tData, busy <- tBusy, temp <- tTemp, step <- tStep,
  failed <- tFailed, returned <- tReturned, alone <- tAlone

Status == INSTANCE DmaStatus WITH
  flags <- sFlags, ignoreUsed <- sIgnoreUsed, op <- sOp, at <- sAt, channel <- sChannel,
  seen <- sSeen, fresh <- sFresh, lost <- sLost, returned <- sReturned,
  Flags <- StatusFlags

Clock == INSTANCE ClockRate WITH
  clock <- kClock, freq <- kFreq, count <- kCount, call <- kCall, returned <- kReturned,
  crashed <- kCrashed, alone <- kAlone

Gain == INSTANCE GainTable WITH
  table <- gTable, latch <- gLatch, last <- gLast, wanted <- gWanted, single <- gSingle

ASSUME NobodyAssumption == "nobody" \notin Callers
ASSUME EntriesAssumption == Entries \subseteq Gain!EntryType
ASSUME NumChannelsAssumption == NumChannels \in Nat \ {0}
ASSUME StatusFlagsAssumption == StatusFlags \subseteq Status!AllFlags
ASSUME TableSizeAssumption == TableSize \in Nat
ASSUME ByteAssumption == Byte \in Nat \ {0}
ASSUME ModesAssumption == 0 \in Modes /\ Modes \subseteq Nat
ASSUME DivisorsAssumption == Divisors \subseteq Timer!Counts
ASSUME PollsAssumption == Polls \in Nat \ {0}
ASSUME RatesAssumption == Rates \in [Clock!Clocks -> SUBSET Nat]

dVars == vars
uVars == <<uTimer, uCall, uReturned, uAlone, uInStep>>
mVars == <<mSram, mCommand, mSender, mAt, mRetries, mTold, mReturned, mAlone>>
tVars == <<tPtr, tData, tBusy, tTemp, tStep, tFailed, tReturned, tAlone>>
sVars == <<sFlags, sIgnoreUsed, sOp, sAt, sChannel, sSeen, sFresh, sLost, sReturned>>
kVars == <<kClock, kFreq, kCount, kCall, kReturned, kCrashed, kAlone>>
gVars == <<gTable, gLatch, gLast, gWanted, gSingle>>

\* A part that is not started has one initial state.
BoardInit ==
  /\ part \in {"dio", "timer", "dsp", "sensor", "status", "clock", "enable", "settings", "gain",
              "block", "access", "boards"}
  /\ Init /\ Timer!Init /\ Dsp!Init /\ Sensor!Init /\ Status!Init /\ Clock!Init
  /\ EnableInit /\ SettingsInit /\ Gain!Init /\ BlockInit /\ AccessInit /\ BoardsInit
  /\ part # "status" => sIgnoreUsed = [c \in Status!Channels |-> FALSE]
  /\ part # "clock" => kClock = "dac"
  /\ part # "timer" => uTimer.count = 1
  /\ part # "block" => \A n \in Numbers : table[n].type = "adc" /\ table[n].agrees
  /\ part # "boards" => registry = <<>> /\ ready = {}

\* The steps of one part leave the others alone.
SmallVars == <<uVars, mVars, tVars, sVars, kVars, gVars>>
LargeVars == <<dVars, enableVars, settingVars, blockVars, accessVars, boardVars>>
OnlyDio      == UNCHANGED <<part, SmallVars, enableVars, settingVars, blockVars, accessVars, boardVars>>
OnlyTimer    == UNCHANGED <<part, mVars, tVars, sVars, kVars, gVars, LargeVars>>
OnlyDsp      == UNCHANGED <<part, uVars, tVars, sVars, kVars, gVars, LargeVars>>
OnlySensor   == UNCHANGED <<part, uVars, mVars, sVars, kVars, gVars, LargeVars>>
OnlyStatus   == UNCHANGED <<part, uVars, mVars, tVars, kVars, gVars, LargeVars>>
OnlyClock    == UNCHANGED <<part, uVars, mVars, tVars, sVars, gVars, LargeVars>>
OnlyEnable   == UNCHANGED <<part, SmallVars, dVars, settingVars, blockVars, accessVars, boardVars>>
OnlySettings == UNCHANGED <<part, SmallVars, dVars, enableVars, blockVars, accessVars, boardVars>>
OnlyGain     == UNCHANGED <<part, uVars, mVars, tVars, sVars, kVars, LargeVars>>
OnlyBlock    == UNCHANGED <<part, SmallVars, dVars, enableVars, settingVars, accessVars, boardVars>>
OnlyAccess   == UNCHANGED <<part, SmallVars, dVars, enableVars, settingVars, blockVars, boardVars>>
OnlyBoards   == UNCHANGED <<part, SmallVars, dVars, enableVars, settingVars, blockVars, accessVars>>

DioNext ==
  \/ \E c \in Callers :
       \/ \E op \in Ops : part = "dio" /\ Select(c, op) /\ OnlyDio
       \/ part = "dio" /\ AccessCtrl(c) /\ OnlyDio
       \/ part = "dio" /\ AccessFails(c) /\ OnlyDio
       \/ \E f \in Flags, v \in BOOLEAN : part = "dio" /\ ModifyFlag(c, f, v) /\ OnlyDio
  \/ part = "dio" /\ Event /\ OnlyDio

TimerNext ==
  \/ \E c \in Timer!TimerThreads :
       \/ \E q \in Timer!Reads \cup Timer!Settings : part = "timer" /\ Timer!Begin(c, q) /\ OnlyTimer
       \/ part = "timer" /\ Timer!Access(c) /\ OnlyTimer
       \/ part = "timer" /\ Timer!AccessFails(c) /\ OnlyTimer
  \/ part = "timer" /\ Timer!Tick /\ OnlyTimer

DspNext ==
  \/ \E c \in Callers :
       \/ part = "dsp" /\ Dsp!CalibrateBegin(c) /\ OnlyDsp
       \/ part = "dsp" /\ Dsp!CalibrateSend(c) /\ OnlyDsp
       \/ \E w \in Dsp!Words : \/ part = "dsp" /\ Dsp!CalibrateWrite(c, w) /\ OnlyDsp
                               \/ part = "dsp" /\ Dsp!CalibrateWriteFails(c, w) /\ OnlyDsp
       \/ part = "dsp" /\ Dsp!VersionBegin(c) /\ OnlyDsp
       \/ part = "dsp" /\ Dsp!VersionPoll(c) /\ OnlyDsp
       \/ part = "dsp" /\ Dsp!VersionMajor(c) /\ OnlyDsp
       \/ part = "dsp" /\ Dsp!VersionMinor(c) /\ OnlyDsp
  \/ part = "dsp" /\ Dsp!DspCalibrates /\ OnlyDsp
  \/ part = "dsp" /\ Dsp!DspAnswers /\ OnlyDsp

SensorNext ==
  \/ \E c \in Callers : \/ part = "sensor" /\ Sensor!Begin(c) /\ OnlySensor
                        \/ part = "sensor" /\ Sensor!Access(c) /\ OnlySensor
                        \/ part = "sensor" /\ Sensor!AccessFails(c) /\ OnlySensor
  \/ part = "sensor" /\ Sensor!Measured /\ OnlySensor

StatusNext ==
  \/ \E c \in Status!Channels, f \in StatusFlags : part = "status" /\ Status!Raise(c, f) /\ OnlyStatus
  \/ part = "status" /\ Status!Begin("find", 0, {}) /\ OnlyStatus
  \/ \E c \in Status!Channels : \/ part = "status" /\ Status!Begin("check", c, {}) /\ OnlyStatus
                                \/ part = "status" /\ Status!Begin("errors", c, {}) /\ OnlyStatus
  \/ \E c \in Status!Channels, s \in SUBSET StatusFlags :
       part = "status" /\ Status!Begin("clear", c, s) /\ OnlyStatus
  \/ part = "status" /\ Status!FindFifo /\ OnlyStatus
  \/ part = "status" /\ Status!FindBuffers /\ OnlyStatus
  \/ part = "status" /\ Status!FindSetup /\ OnlyStatus
  \/ part = "status" /\ Status!CheckFifo /\ OnlyStatus
  \/ part = "status" /\ Status!ErrorsFifo /\ OnlyStatus
  \/ part = "status" /\ Status!ErrorsBuffers /\ OnlyStatus
  \/ part = "status" /\ Status!ReadFails /\ OnlyStatus
  \/ part = "status" /\ Status!ClearOne /\ OnlyStatus
  \/ part = "status" /\ Status!ClearFails /\ OnlyStatus
  \/ part = "status" /\ Status!ClearReturns /\ OnlyStatus

\* A division by zero has ended the process.
ClockRuns == part = "clock" /\ kCrashed = Clock!Idle

ClockNext ==
  \E c \in Callers :
    \/ \E name \in Clock!Names(kClock), f \in Clock!Asked, r \in Rates[kClock] :
         ClockRuns /\ Clock!Begin(c, name, f, r) /\ OnlyClock
    \/ ClockRuns /\ Clock!Config(c) /\ OnlyClock
    \/ ClockRuns /\ Clock!ConfigFails(c) /\ OnlyClock
    \/ ClockRuns /\ Clock!SetFrequency(c) /\ OnlyClock
    \/ ClockRuns /\ Clock!SetFrequencyFails(c) /\ OnlyClock
    \/ ClockRuns /\ Clock!SetCount(c) /\ OnlyClock
    \/ ClockRuns /\ Clock!SetCountFails(c) /\ OnlyClock
    \/ ClockRuns /\ Clock!DividesByZero(c) /\ OnlyClock

EnablePart ==
  \/ \E c \in Threads :
       \/ part = "enable" /\ BeginEnable(c) /\ OnlyEnable
       \/ part = "enable" /\ BeginDisable(c) /\ OnlyEnable
       \/ part = "enable" /\ WriteAlgdio(c) /\ OnlyEnable
       \/ part = "enable" /\ ConfigureDma(c) /\ OnlyEnable
       \/ part = "enable" /\ LoadInts(c) /\ OnlyEnable
       \/ part = "enable" /\ StoreInts(c) /\ OnlyEnable
       \/ part = "enable" /\ WriteInts(c) /\ OnlyEnable
       \/ part = "enable" /\ BeginSetSource(c) /\ OnlyEnable
       \/ part = "enable" /\ WriteFifo(c) /\ OnlyEnable
       \/ part = "enable" /\ BeginSetPins(c) /\ OnlyEnable
       \/ part = "enable" /\ WritePins(c) /\ OnlyEnable
       \/ part = "enable" /\ BoardReset(c) /\ OnlyEnable
  \/ part = "enable" /\ PinEdge /\ OnlyEnable

SettingsPart ==
  \E c \in Users :
    \/ part = "settings" /\ BeginSetup(c) /\ OnlySettings
    \/ part = "settings" /\ WriteSetting(c) /\ OnlySettings
    \/ part = "settings" /\ WriteFails(c) /\ OnlySettings
    \/ part = "settings" /\ Refuse(c) /\ OnlySettings
    \/ part = "settings" /\ Command(c) /\ OnlySettings

GainNext ==
  \/ part = "gain" /\ Gain!Clear /\ OnlyGain
  \/ part = "gain" /\ Gain!Fails /\ OnlyGain
  \/ \E e \in Entries :
       \/ part = "gain" /\ Gain!Write(e) /\ OnlyGain
       \/ part = "gain" /\ Gain!Latch(e) /\ OnlyGain

BlockPart ==
  \/ \E n \in 0 .. MaxFb : part = "block" /\ BeginOpen(n) /\ OnlyBlock
  \/ \E t \in Types \ {"invalid"}, n \in Numbers : part = "block" /\ BeginOpenModule(t, n) /\ OnlyBlock
  \/ part = "block" /\ ReadType /\ OnlyBlock
  \/ part = "block" /\ ReadOffset /\ OnlyBlock
  \/ part = "block" /\ ReadDma /\ OnlyBlock
  \/ part = "block" /\ ReadTypeAgain /\ OnlyBlock
  \/ part = "block" /\ ReadChannels /\ OnlyBlock
  \/ part = "block" /\ ReadBuffers /\ OnlyBlock
  \/ part = "block" /\ BlockReadFails /\ OnlyBlock

AccessPart ==
  \E c \in Askers :
    \/ \E ask \in Asks : \/ part = "access" /\ BeginAsk(c, ask) /\ OnlyAccess
                         \/ part = "access" /\ DriverEndsStray(c, ask) /\ OnlyAccess
    \/ part = "access" /\ CreateEvent(c) /\ OnlyAccess
    \/ part = "access" /\ DeviceIoControl(c) /\ OnlyAccess
    \/ part = "access" /\ Wait(c) /\ OnlyAccess
    \/ part = "access" /\ WaitFails(c) /\ OnlyAccess
    \/ part = "access" /\ GetOverlappedResult(c) /\ OnlyAccess
    \/ part = "access" /\ CloseEvent(c) /\ OnlyAccess
    \/ part = "access" /\ DriverActs(c) /\ OnlyAccess
    \/ part = "access" /\ DriverRefuses(c) /\ OnlyAccess

BoardsPart ==
  \/ \E d \in Devices : part = "boards" /\ PlugIn(d) /\ OnlyBoards
  \/ \E i \in 1 .. Len(registry) : part = "boards" /\ TakeOut(i) /\ OnlyBoards
  \/ \E c \in Openers :
       \/ \E n \in Indexes : part = "boards" /\ BeginOpening(c, n) /\ OnlyBoards
       \/ part = "boards" /\ EnumKey(c) /\ OnlyBoards
       \/ part = "boards" /\ ReadValues(c) /\ OnlyBoards
       \/ part = "boards" /\ EnumFails(c) /\ OnlyBoards
       \/ part = "boards" /\ Allocate(c) /\ OnlyBoards
       \/ part = "boards" /\ NotAvailable(c) /\ OnlyBoards
       \/ part = "boards" /\ CreateFile(c) /\ OnlyBoards
       \/ part = "boards" /\ CreateFileFails(c) /\ OnlyBoards
       \/ part = "boards" /\ Query(c) /\ OnlyBoards
       \/ part = "boards" /\ QueryFails(c) /\ OnlyBoards
       \/ part = "boards" /\ Close(c) /\ OnlyBoards

BoardNext ==
  \/ DioNext \/ TimerNext \/ DspNext \/ SensorNext \/ StatusNext \/ ClockNext
  \/ EnablePart \/ SettingsPart \/ GainNext \/ BlockPart \/ AccessPart \/ BoardsPart

BoardSpec == BoardInit /\ [][BoardNext]_<<part, SmallVars, LargeVars>>

----------------------------------------------------------------------------
\* The properties of the parts.  ImplementsFile is DioRegisters';
\* NothingUnasked and EnabledIsExact are InterruptEnable's; SettingsHold is
\* BoardSettings', ImplementsSetup is RegisterAccess'.

\* The registers and the calls of every part are what they are declared to be.
PartsTypeOK ==
  CASE part = "dio"      -> TypeOK
    [] part = "timer"    -> Timer!TypeOK
    [] part = "dsp"      -> Dsp!TypeOK
    [] part = "sensor"   -> Sensor!TypeOK
    [] part = "status"   -> Status!TypeOK
    [] part = "clock"    -> Clock!TypeOK
    [] part = "enable"   -> EnableTypeOK
    [] part = "settings" -> SettingsTypeOK
    [] part = "gain"     -> Gain!TypeOK
    [] part = "block"    -> BlockTypeOK
    [] part = "access"   -> AccessTypeOK
    [] part = "boards"   -> BoardsTypeOK

\* What the functions that read tell is true: the count and the mode of a timer,
\* a temperature measured for the call, and DMA status that agrees with the flags.
\* The version of the DSP is not among them: see VersionIsAnswer of DspMailbox.
ReadsAreTrue ==
  /\ part = "timer"  => Timer!ReadsAreTrue
  /\ part = "sensor" => Sensor!TempIsFresh
  /\ part = "status" => Status!StatusIsTrue

\* SDM35541_UTC_Setup leaves its mode and its divisor in the timer, a clock that
\* was set alone runs at the rate it was set to, and the board takes from the
\* gain table the entries that were written to it.
WritesTakeEffect ==
  /\ part = "timer" => Timer!SetupLoads
  /\ part = "clock" => Clock!RateIsSet
  /\ part = "gain"  => Gain!EntriesAreKept

\* A function that sets several settings sets all of them when it succeeds, and
\* the functions accept exactly the values that their documentation lists.
SetupsAreSound == SetupIsWhole /\ AcceptsDocumented

\* What was opened is what was asked for: the function block of the number, or
\* the n-th of the type, whole and with areas that do not overlap; and a board
\* that the index has meant, for one caller only, with nothing left of a call
\* that failed.
OpensWhatWasAsked ==
  /\ part = "block"  => BlockIsSought /\ AreasAreDisjoint
  /\ part = "boards" => HandleIsOfIndex /\ NothingIsLeft

\* The DSP calibrates with the parameters of one SDM35541_Calibrate.
CalibratesAsAsked == Dsp!CalibratesAsAsked
=============================================================================
