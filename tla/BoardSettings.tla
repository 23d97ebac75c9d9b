--------------------------- MODULE BoardSettings ---------------------------
(***************************************************************************)
(* The configuration of an ADC1002 function block: every function of       *)
(* librtd-SDM35541_adc1002.c that validates a value and writes it to the   *)
(* register of a setting, the functions that set several of them, and the  *)
(* functions that only command the board, called by several threads.       *)
(*                                                                         *)
(* An action is a function's next register access with the validation      *)
(* before it.  The registers are bytes at addresses: an access writes as   *)
(* many bytes as its function says, whoever's they are.  What UTC_Setup,   *)
(* PCLK_Setup and BCLK_Setup do with a mode, a divisor or a rate is in     *)
(* UserTimer and ClockRate.                                                *)
(***************************************************************************)
EXTENDS SettingTables, Sequences

CONSTANTS
  Users,      \* the application's threads
  Calls,      \* the calls it may make: the settings, in order, and their values
  MaxSetups,  \* bound of the model: calls in all
  WritesFail  \* a register access may fail

VARIABLES
  settings,   \* what the registers hold of the settings that were written
  setup,      \* per caller: the call it is in
  setups,     \* calls begun so far
  setupDone,  \* the call that has just returned
  lastSet     \* history: what the last successful write for each setting wrote

settingVars == <<settings, setup, setups, setupDone, lastSet>>

----------------------------------------------------------------------------
\* The accesses: Write_Register_8, _16 or _32

ClockSize(n)     == IF n \in BurstNames THEN 2 ELSE 4
DacSize(n)       == 2
DacClockSize(n)  == 4
PinSize(n)       == 4
UioSize(n)       == 2
ConverterSize(n) == 4
UtcSize(n)       == 4

\* Mutant: the source of a DMA channel is written as a word.
DmaSizeWide(n) == 4

\* DMA_Request_Source and DMA_Set_Source.
DmaSize(n) == IF n \in FifoNames THEN 1 ELSE 4

Size(n) ==
  CASE n \in DmaNames                         -> DmaSize(n)
    [] n \in BurstNames \cup PacerNames       -> ClockSize(n)
    [] n \in DacNames \cup {"DAC_CLK_SOURCE"} -> DacSize(n)
    [] n \in DacClockNames \ {"DAC_CLK_SOURCE"} -> DacClockSize(n)
    [] n \in BusNames \cup PolarityNames \cup {"HSDIN_START"} -> PinSize(n)
    [] n \in UioNames                         -> UioSize(n)
    [] n \in AdcNames                         -> ConverterSize(n)
    [] n \in TimerNames                       -> UtcSize(n)

\* Functions that write no setting: the address and the size of their access.
TableCommands ==
  [CGT_Enable |-> <<308, 4>>, DT_Enable |-> <<312, 4>>, CGT_Latch |-> <<300, 4>>,
   CGT_Write |-> <<296, 2>>, CGT_Reset |-> <<320, 4>>, CGT_Clear |-> <<324, 4>>]

AdcCommands ==
  [DT_Write_Entry |-> <<304, 2>>, CGT_Pause |-> <<316, 4>>,
   ADC_Software_Sample |-> <<16, 2>>, ADC_About_Enable |-> <<276, 4>>,
   ADC_Clear |-> <<292, 4>>, ADC_SCNT_Load |-> <<72, 2>>]

\* DAC_Soft_Update (of one DAC and of both) and DAC_Set_Update_Counter.
DacUpdateCommands ==
  [DAC1_Update |-> <<20, 4>>, DAC2_Update |-> <<24, 4>>, DAC_Update |-> <<36, 4>>,
   DAC1_Counter |-> <<76, 2>>, DAC2_Counter |-> <<80, 2>>]

\* DAC_FIFO_Write ends next to the register of DMA channel 0's source.
DacFifoCommands == [DAC1_FIFO |-> <<508, 2>>, DAC2_FIFO |-> <<510, 2>>]

DacControlCommands ==
  [DAC_Stop |-> <<12, 4>>, DAC1_Reset |-> <<340, 4>>, DAC2_Reset |-> <<360, 4>>,
   DAC1_Clear |-> <<344, 4>>, DAC2_Clear |-> <<364, 4>>]

HsdinCommands == [HSDIN_Software_Sample |-> <<44, 4>>, HSDIN_Clear |-> <<288, 4>>]

BusCommands ==
  [SBUS0_Enable |-> <<384, 2>>, SBUS1_Enable |-> <<392, 2>>, SBUS2_Enable |-> <<404, 2>>]

CounterCommands == [ACNT_Set_Count |-> <<88, 2>>, DCNT_Set_Count |-> <<84, 2>>]

PortCommands == [DIO0_Set_Port |-> <<112, 1>>, DIO1_Set_Port |-> <<116, 1>>]

FifoModeCommands ==
  [McBSP_ADC_FIFO |-> <<484, 4>>, McBSP_DAC_FIFO |-> <<488, 4>>]

\* SRAM_Write keeps two bits of its address.
SramCommands == [SRAM_Write0 |-> <<4088, 4>>, SRAM_Write3 |-> <<4100, 4>>]

\* The addresses and sizes of all the commands.
Commands ==
  LET access(t) == {t[c] : c \in DOMAIN t} IN
  UNION {access(t) : t \in {TableCommands, AdcCommands, DacUpdateCommands, DacFifoCommands,
                            DacControlCommands, HsdinCommands, BusCommands, CounterCommands,
                            PortCommands, FifoModeCommands, SramCommands}}

\* The settings after an access of that many bytes: a setting that begins in them
\* is overwritten (registers are little-endian and every setting fits in its first
\* byte, so an access that only reaches a later byte leaves it as it is).
Overwritten(address, size) ==
  [n \in DOMAIN settings |->
     IF Register(n) \in address .. address + size - 1 THEN 0 ELSE settings[n]]

\* A store of settings when n has been written.
With(store, n, v) == [m \in DOMAIN store \cup {n} |-> IF m = n THEN v ELSE store[m]]

\* fifo_source + 1.
Stored(n, v) == IF n \in FifoNames THEN v + 1 ELSE v

----------------------------------------------------------------------------
\* The calls

\* The settings that each of the functions sets, in its order.  One that sets a
\* single one has that one.
SetupOfTimer == {<<"UTC0_CLOCK", "UTC0_GATE">>, <<"UTC1_CLOCK", "UTC1_GATE">>,
                 <<"UTC2_CLOCK", "UTC2_GATE">>}
SetupOfBurst == {<<"BURST_START", "BCLK_FREQ">>}
SetupOfPacer == {<<"PACER_SELECT", "PCLK_FREQ", "PACER_MODE", "PACER_START", "PACER_STOP">>}
SetupOfDac   == {<<"DAC1_RANGE", "DAC1_SRC", "DAC1_CYCLE">>, <<"DAC2_RANGE", "DAC2_SRC", "DAC2_CYCLE">>}
SourceOfDma  == {<<"DMA0_SRC", "DMA_CH0_FIFO">>, <<"DMA1_SRC", "DMA_CH1_FIFO">>}

Singles == {<<n>> : n \in Names \ FifoNames}
Setups  == SetupOfTimer \cup SetupOfPacer \cup SetupOfDac \cup SetupOfBurst \cup SourceOfDma

ASSUME SetupCallsAssumption ==
  \A k \in Calls : k[1] \in Singles \cup Setups /\ k[2] \in [1 .. Len(k[1]) -> Nat]

ASSUME MaxSetupsAssumption == MaxSetups \in Nat

NoSetup == [names |-> <<>>, values |-> <<>>, step |-> 0, status |-> 0, io |-> FALSE, alone |-> TRUE]

SettingsInit ==
  /\ settings = <<>> /\ lastSet = <<>>
  /\ setup = [c \in Users |-> NoSetup] /\ setups = 0 /\ setupDone = NoSetup

BeginSetup(c) ==
  /\ setup[c] = NoSetup /\ setups < MaxSetups
  /\ setups' = setups + 1
  /\ \E k \in Calls :
       setup' = [d \in Users |->
         IF d = c THEN [NoSetup EXCEPT !.names = k[1], !.values = k[2], !.step = 1,
                                       !.alone = \A e \in Users \ {c} : setup[e] = NoSetup]
         ELSE IF setup[d] # NoSetup THEN [setup[d] EXCEPT !.alone = FALSE] ELSE NoSetup]
  /\ setupDone' = NoSetup
  /\ UNCHANGED <<settings, lastSet>>

\* Mutant: the result of the last write counts.
JoinedLast(names, before, now) == now

\* status |= ...; BCLK_Setup assigns.
Joined(names, before, now) == IF names \in SetupOfBurst \/ before = 0 THEN now ELSE before

\* The call goes on to its next access, or returns.
SetupGoesOn(c, result, io) ==
  LET k == [setup[c] EXCEPT !.status = Joined(setup[c].names, @, result), !.io = @ \/ io,
                           !.step = @ + 1] IN
  IF setup[c].step = Len(setup[c].names)
  THEN setup' = [setup EXCEPT ![c] = NoSetup] /\ setupDone' = k
  ELSE setup' = [setup EXCEPT ![c] = k] /\ UNCHANGED setupDone

Name(c)  == setup[c].names[setup[c].step]
Value(c) == setup[c].values[setup[c].step]

\* The values of a call that are validated before its next access:
\* DMA_Set_Source looks at both of its values first.
Validated(c) ==
  IF setup[c].names \in SourceOfDma
  THEN \A i \in 1 .. 2 : Accepts(setup[c].names[i], setup[c].values[i])
  ELSE Accepts(Name(c), Value(c))

WriteSetting(c) ==
  /\ setup[c] # NoSetup /\ Validated(c)
  /\ LET stored == Stored(Name(c), Value(c)) IN
     /\ settings' = With(Overwritten(Register(Name(c)), Size(Name(c))), Name(c), stored)
     /\ lastSet' = With(lastSet, Name(c), stored)
  /\ SetupGoesOn(c, 0, FALSE)
  /\ UNCHANGED setups

WriteFails(c) ==
  /\ WritesFail /\ setup[c] # NoSetup /\ Validated(c)
  /\ SetupGoesOn(c, -1, TRUE)
  /\ UNCHANGED <<settings, lastSet, setups>>

\* A value is refused: DMA_Set_Source returns, a setup goes on.
Refuse(c) ==
  /\ setup[c] # NoSetup /\ ~Validated(c)
  /\ IF setup[c].names \in SourceOfDma
     THEN setup' = [setup EXCEPT ![c] = NoSetup] /\ setupDone' = [setup[c] EXCEPT !.status = -1]
     ELSE SetupGoesOn(c, -1, FALSE)
  /\ UNCHANGED <<settings, lastSet, setups>>

\* A command is one access.
Command(c) ==
  /\ setup[c] = NoSetup /\ setups < MaxSetups
  /\ setups' = setups + 1 /\ setupDone' = NoSetup
  /\ \E access \in Commands : settings' = Overwritten(access[1], access[2])
  /\ UNCHANGED <<setup, lastSet>>

SettingsNext ==
  \E c \in Users :
    \/ BeginSetup(c) \/ WriteSetting(c) \/ WriteFails(c) \/ Refuse(c) \/ Command(c)

SettingsSpec == SettingsInit /\ [][SettingsNext]_settingVars

----------------------------------------------------------------------------
\* Properties

SetupType == [names : Singles \cup Setups \cup {<<>>}, values : Seq(Nat), step : 0 .. 6,
             status : {0, -1}, io : BOOLEAN, alone : BOOLEAN]

SettingsTypeOK ==
  /\ DOMAIN settings \subseteq Names /\ settings \in [DOMAIN settings -> 0 .. 16]
  /\ setup \in [Users -> SetupType] /\ setupDone \in SetupType /\ setups \in 0 .. MaxSetups

\* A setting stays what it was last set to: no function for another setting,
\* and no command, writes over its register, whatever the calls overlap.
SettingsHold == settings = lastSet

\* A function that sets several settings, returns 0 and is not overlapped has
\* set all of them.  (BCLK_Setup returns the result of its last write.)
SetupIsWhole ==
  setupDone.status = 0 /\ setupDone.alone /\ setupDone.names \notin SetupOfBurst =>
    \A i \in 1 .. Len(setupDone.names) :
      /\ setupDone.names[i] \in DOMAIN settings
      /\ settings[setupDone.names[i]] = Stored(setupDone.names[i], setupDone.values[i])

\* A call fails without a failing access only if a value is none of its
\* enumeration or of its timer, and returns 0 only if all of them are.
AcceptsDocumented ==
  LET documented == \A i \in 1 .. Len(setupDone.names) :
                      setupDone.values[i] \in Documented(setupDone.names[i])
      timer == \E i \in 1 .. Len(setupDone.names) : setupDone.names[i] \in TimerNames
  IN
  setupDone.names \notin SetupOfBurst =>
    /\ setupDone.status = 0 => documented
    /\ setupDone.status # 0 /\ ~setupDone.io => ~documented \/ timer
=============================================================================
