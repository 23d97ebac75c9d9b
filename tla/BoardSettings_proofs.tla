------------------------ MODULE BoardSettings_proofs ------------------------
(***************************************************************************)
(* The proofs about BoardSettings: no access reaches the register of a     *)
(* setting that is not its own, so that every setting stays what it was    *)
(* last set to, a setup that succeeds has set all of its settings, and the *)
(* validators accept what is documented.                                   *)
(***************************************************************************)
EXTENDS BoardSettings, SequenceTheorems, TLAPS

\* The registers of the names that are left are those of the conversions.
ConversionNames == Names \ (DacNames \cup PinNames \cup SourceNames)

LEMMA NamesByPlace ==
  /\ DacNames = {"DAC1_RANGE", "DAC1_SRC", "DAC1_CYCLE", "DAC2_RANGE", "DAC2_SRC", "DAC2_CYCLE"}
  /\ PinNames = {"SBUS0_SOURCE", "SBUS1_SOURCE", "SBUS2_SOURCE", "ETRG_POLARITY", "EINT_POLARITY",
                 "UTC0_CLOCK", "UTC0_GATE", "UTC1_CLOCK", "UTC1_GATE", "UTC2_CLOCK", "UTC2_GATE",
                 "UIO0_SELECT", "UIO1_SELECT"}
  /\ SourceNames = {"DAC_CLK_START", "DAC_CLK_STOP", "PCLK_FREQ", "BCLK_FREQ", "DAC_CLK_SOURCE",
                    "DAC_CLK_MODE", "DMA_CH0_FIFO", "DMA_CH1_FIFO"}
  /\ ConversionNames = {"DMA0_SRC", "DMA1_SRC", "ADC_CONV", "BURST_START", "PACER_START",
                        "PACER_STOP", "PACER_MODE", "HSDIN_START", "ADC_SCNT_SRC", "PACER_SELECT"}
  /\ Names = ConversionNames \cup DacNames \cup PinNames \cup SourceNames
  /\ FifoNames = {"DMA_CH0_FIFO", "DMA_CH1_FIFO"}
  BY DEF ConversionNames, Names, DacNames, PinNames, SourceNames, FifoNames, DmaNames, UioNames,
    PolarityNames, BusNames, DacClockNames, RangeNames, UpdateNames, CycleNames, AdcNames,
    BurstNames, PacerNames, GateNames, TimerNames

LEMMA RegisterByPlace ==
  /\ \A n \in ConversionNames : Register(n) = ConversionRegister(n)
  /\ \A n \in DacNames : Register(n) = DacRegister(n)
  /\ \A n \in PinNames : Register(n) = PinRegister(n)
  /\ \A n \in SourceNames : Register(n) = SourceRegister(n)
  BY NamesByPlace DEF Register, ConversionNames

\* An access of a setting is of at most four bytes, and that of a FIFO of one.
LEMMA SizeBound ==
  \A n \in Names : Size(n) \in 1 .. IF n \in FifoNames THEN 1 ELSE 4
  BY DEF Size, DmaSize, ClockSize, DacSize, DacClockSize, PinSize, UioSize, ConverterSize, UtcSize,
    Names, DacNames, FifoNames, DmaNames, UioNames, PolarityNames, BusNames, DacClockNames,
    RangeNames, UpdateNames, CycleNames, AdcNames, BurstNames, PacerNames, GateNames, TimerNames

\* Within each place the registers are as far apart as their accesses are long.
LEMMA ConversionApart ==
  \A n \in ConversionNames :
    /\ Register(n) \in 252 .. 284 \cup 368 .. 376
    /\ \A m \in ConversionNames \ {n} : Register(m) \notin Register(n) .. Register(n) + 3
  BY NamesByPlace, RegisterByPlace DEF ConversionRegister

LEMMA DacApart ==
  \A n \in DacNames :
    /\ Register(n) \in 328 .. 356
    /\ \A m \in DacNames \ {n} : Register(m) \notin Register(n) .. Register(n) + 3
  BY NamesByPlace, RegisterByPlace DEF DacRegister

LEMMA PinApart ==
  \A n \in PinNames :
    /\ Register(n) \in 380 .. 448
    /\ \A m \in PinNames \ {n} : Register(m) \notin Register(n) .. Register(n) + 3
  BY NamesByPlace, RegisterByPlace DEF PinRegister

LEMMA SourceApart ==
  \A n \in SourceNames :
    /\ Register(n) \in IF n \in FifoNames THEN {512, 513} ELSE 460 .. 480
    /\ \A m \in SourceNames \ {n} :
         Register(m) \notin Register(n) .. Register(n) + (IF n \in FifoNames THEN 0 ELSE 3)
  BY NamesByPlace, RegisterByPlace DEF SourceRegister

\* No access of a setting reaches the register of another.
LEMMA SettingsApart ==
  \A n, m \in Names : m # n => Register(m) \notin Register(n) .. Register(n) + Size(n) - 1
<1> SUFFICES ASSUME NEW n \in Names, NEW m \in Names, m # n
             PROVE  Register(m) \notin Register(n) .. Register(n) + Size(n) - 1
    OBVIOUS
<1> DEFINE reach(k) == IF k \in FifoNames THEN 0 ELSE 3
           places == {ConversionNames, DacNames, PinNames, SourceNames}
<1>1. \A k \in Names :
        \/ k \in ConversionNames /\ k \notin FifoNames /\ Register(k) \in 252 .. 284 \cup 368 .. 376
        \/ k \in DacNames /\ k \notin FifoNames /\ Register(k) \in 328 .. 356
        \/ k \in PinNames /\ k \notin FifoNames /\ Register(k) \in 380 .. 448
        \/ k \in SourceNames /\ k \notin FifoNames /\ Register(k) \in 460 .. 480
        \/ k \in SourceNames /\ k \in FifoNames /\ Register(k) \in {512, 513}
  <2>1. \A k \in FifoNames : k \in SourceNames \ (ConversionNames \cup DacNames \cup PinNames)
    BY NamesByPlace
  <2> QED BY <2>1, ConversionApart, DacApart, PinApart, SourceApart, NamesByPlace
<1>2. Register(m) \notin Register(n) .. Register(n) + reach(n)
  <2>1. ASSUME NEW place \in places, n \in place, m \in place
        PROVE  Register(m) \notin Register(n) .. Register(n) + reach(n)
    <3>1. CASE place = ConversionNames
      BY <2>1, <3>1, <1>1, ConversionApart
    <3>2. CASE place = DacNames
      BY <2>1, <3>2, <1>1, DacApart
    <3>3. CASE place = PinNames
      BY <2>1, <3>3, <1>1, PinApart
    <3>4. CASE place = SourceNames
      BY <2>1, <3>4, SourceApart
    <3> QED BY <3>1, <3>2, <3>3, <3>4
  <2>2. CASE \A place \in places : ~(n \in place /\ m \in place)
    <3> QED BY <2>2, <1>1
  <2> QED BY <2>1, <2>2
<1>3. Register(n) \in Nat /\ Register(m) \in Nat
  BY <1>1
<1>4. Size(n) - 1 \in 0 .. reach(n)
  BY SizeBound
<1> QED BY <1>2, <1>3, <1>4

\* A command's access is before, between or after the registers of the settings.
Between(access) ==
  /\ access[1] \in Nat /\ access[2] \in Nat
  /\ \A b \in access[1] .. access[1] + access[2] - 1 :
       b \in 0 .. 251 \cup 276 .. 279 \cup 288 .. 327 \cup 340 .. 347 \cup 360 .. 367
              \cup 384 .. 387 \cup 392 .. 399 \cup 404 .. 411 \cup 484 .. 511
         \/ b > 513

LEMMA CommandsBetween == \A access \in Commands : Between(access)
<1>1. \A c \in DOMAIN TableCommands : Between(TableCommands[c])
  BY DEF Between, TableCommands
<1>2. \A c \in DOMAIN AdcCommands : Between(AdcCommands[c])
  BY DEF Between, AdcCommands
<1>3. \A c \in DOMAIN DacUpdateCommands : Between(DacUpdateCommands[c])
  BY DEF Between, DacUpdateCommands
<1>4. \A c \in DOMAIN DacFifoCommands : Between(DacFifoCommands[c])
  BY DEF Between, DacFifoCommands
<1>5. \A c \in DOMAIN DacControlCommands : Between(DacControlCommands[c])
  BY DEF Between, DacControlCommands
<1>6. \A c \in DOMAIN HsdinCommands : Between(HsdinCommands[c])
  BY DEF Between, HsdinCommands
<1>7. \A c \in DOMAIN BusCommands : Between(BusCommands[c])
  BY DEF Between, BusCommands
<1>8. \A c \in DOMAIN CounterCommands : Between(CounterCommands[c])
  BY DEF Between, CounterCommands
<1>9. \A c \in DOMAIN PortCommands : Between(PortCommands[c])
  BY DEF Between, PortCommands
<1>10. \A c \in DOMAIN FifoModeCommands : Between(FifoModeCommands[c])
  BY DEF Between, FifoModeCommands
<1>11. \A c \in DOMAIN SramCommands : Between(SramCommands[c])
  BY DEF Between, SramCommands
<1> QED
  BY <1>1, <1>2, <1>3, <1>4, <1>5, <1>6, <1>7, <1>8, <1>9, <1>10, <1>11 DEF Commands

LEMMA CommandsApart ==
  \A access \in Commands, n \in Names : Register(n) \notin access[1] .. access[1] + access[2] - 1
<1> SUFFICES ASSUME NEW access \in Commands, NEW n \in Names,
                    Register(n) \in access[1] .. access[1] + access[2] - 1
             PROVE  FALSE
    OBVIOUS
<1>1. \/ Register(n) \in 0 .. 251 \cup 276 .. 279 \cup 288 .. 327 \cup 340 .. 347 \cup 360 .. 367
                           \cup 384 .. 387 \cup 392 .. 399 \cup 404 .. 411 \cup 484 .. 511
      \/ Register(n) > 513
  BY CommandsBetween DEF Between
<1> QED
  BY <1>1, NamesByPlace, RegisterByPlace
  DEF ConversionRegister, DacRegister, PinRegister, SourceRegister

\* What the validators accept is in the enumerations; what they refuse of them
\* is of a timer.
LEMMA AcceptsBound ==
  \A n \in Names, v \in Nat :
    /\ Accepts(n, v) => v \in Documented(n) /\ v <= 15
    /\ v \in Documented(n) /\ n \notin TimerNames => Accepts(n, v)
<1> DEFINE Exact(n, v) == (Accepts(n, v) <=> v \in Documented(n)) /\ (Accepts(n, v) => v <= 15)
<1> USE DEF DacNames, FifoNames, DmaNames, UioNames, PolarityNames, BusNames, DacClockNames,
       RangeNames, UpdateNames, CycleNames, AdcNames, BurstNames, PacerNames, GateNames, TimerNames
<1>1. ASSUME NEW n \in DmaNames, NEW v \in Nat
      PROVE  Exact(n, v)
  <2>1. Documented(n) = IF n \in FifoNames THEN 0 .. 3 ELSE 0 .. 4 \cup 8 .. 10
    BY DEF Documented, DmaValues
  <2>2. Accepts(n, v) <=> AcceptsDma(n, v)
    BY DEF Accepts
  <2> QED BY <2>1, <2>2 DEF AcceptsDma
<1>2. ASSUME NEW n \in UioNames \cup PolarityNames \cup BusNames \cup {"HSDIN_START"}, NEW v \in Nat
      PROVE  Exact(n, v)
  <2>1. Documented(n) = IF n \in UioNames THEN 0 .. 3 ELSE IF n \in PolarityNames THEN 0 .. 1
                        ELSE IF n = "HSDIN_START" THEN 0 .. 6 ELSE 0 .. 7
    BY DEF Documented, UioValues, PolarityValues, BusValues
  <2>2. Accepts(n, v) <=> AcceptsPin(n, v)
    BY DEF Accepts
  <2> QED BY <2>1, <2>2 DEF AcceptsPin
<1>3. ASSUME NEW n \in DacClockNames, NEW v \in Nat
      PROVE  Exact(n, v)
  <2>1. Documented(n) = IF n = "DAC_CLK_STOP" THEN 0 .. 9 ELSE IF n = "DAC_CLK_START" THEN 0 .. 7 ELSE 0 .. 1
    BY DEF Documented, DacClockValues
  <2>2. Accepts(n, v) <=> IF n = "DAC_CLK_SOURCE" THEN AcceptsFrequency(n, v) ELSE AcceptsDacClock(n, v)
    BY DEF Accepts
  <2> QED BY <2>1, <2>2 DEF AcceptsFrequency, AcceptsDacClock
<1>4. ASSUME NEW n \in DacNames, NEW v \in Nat
      PROVE  Exact(n, v)
  <2>1. Documented(n) = IF n \in CycleNames THEN 0 .. 1 ELSE IF n \in UpdateNames THEN 0 .. 6 ELSE 0 .. 3
    BY DEF Documented, DacValues
  <2>2. Accepts(n, v) <=> IF n \in CycleNames THEN AcceptsDacClock(n, v) ELSE AcceptsConverter(n, v)
    BY DEF Accepts
  <2> QED BY <2>1, <2>2 DEF AcceptsDacClock, AcceptsConverter
<1>5. ASSUME NEW n \in AdcNames, NEW v \in Nat
      PROVE  Exact(n, v)
  <2>1. Documented(n) = IF n = "ADC_CONV" THEN 0 .. 8 ELSE 0 .. 1
    BY DEF Documented, AdcValues
  <2>2. Accepts(n, v) <=> AcceptsConverter(n, v)
    BY DEF Accepts
  <2> QED BY <2>1, <2>2 DEF AcceptsConverter
<1>6. ASSUME NEW n \in BurstNames, NEW v \in Nat
      PROVE  Exact(n, v)
  <2>1. Documented(n) = IF n = "BURST_START" THEN 0 .. 6 ELSE 0 .. 1
    BY DEF Documented, BurstValues
  <2>2. Accepts(n, v) <=> AcceptsFrequency(n, v)
    BY DEF Accepts
  <2> QED BY <2>1, <2>2 DEF AcceptsFrequency
<1>7. ASSUME NEW n \in PacerNames, NEW v \in Nat
      PROVE  Exact(n, v)
  <2>1. Documented(n) = IF n \in {"PACER_STOP", "PACER_START"} THEN 0 .. 15 ELSE 0 .. 1
    BY DEF Documented, PacerValues
  <2>2. Accepts(n, v) <=> IF n \in {"PACER_SELECT", "PCLK_FREQ"} THEN v \in 0 .. 1 ELSE AcceptsPacer(n, v)
    BY DEF Accepts, AcceptsTimer
  <2> QED BY <2>1, <2>2 DEF AcceptsPacer
<1>8. ASSUME NEW n \in TimerNames, NEW v \in Nat, Accepts(n, v)
      PROVE  v \in Documented(n) /\ v <= 15
  <2>1. Documented(n) = IF n \in GateNames THEN 0 .. 4 ELSE 0 .. 5
    BY DEF Documented, TimerValues
  <2>2. IF n \in GateNames THEN AcceptsGate(n, v) ELSE AcceptsTimer(n, v)
    BY <1>8 DEF Accepts
  <2>3. CASE n \in GateNames
    BY <2>1, <2>2, <2>3 DEF AcceptsGate
  <2>4. CASE n \in {"UTC0_CLOCK", "UTC1_CLOCK", "UTC2_CLOCK"}
    <3>1. (n = "UTC0_CLOCK" /\ v \in 0 .. 3) \/ (n = "UTC1_CLOCK" /\ v \in 0 .. 5) \/ (n = "UTC2_CLOCK" /\ v \in 0 .. 4)
      <4>1. CASE n = "UTC0_CLOCK"  BY <2>2, <4>1 DEF AcceptsTimer
      <4>2. CASE n = "UTC1_CLOCK"  BY <2>2, <4>2 DEF AcceptsTimer
      <4>3. CASE n = "UTC2_CLOCK"  BY <2>2, <4>3 DEF AcceptsTimer
      <4> QED BY <2>4, <4>1, <4>2, <4>3
    <3> QED BY <3>1, <2>1
  <2> QED BY <2>3, <2>4
<1> HIDE DEF DacNames, FifoNames, DmaNames, UioNames, PolarityNames, BusNames, DacClockNames,
       RangeNames, UpdateNames, CycleNames, AdcNames, BurstNames, PacerNames, GateNames, TimerNames
<1> QED BY <1>1, <1>2, <1>3, <1>4, <1>5, <1>6, <1>7, <1>8 DEF Names

\* The names of a call are settings, each once.
Distinct(names) ==
  /\ names \in Seq(Names) /\ Len(names) \in 1 .. 5
  /\ \A i, j \in 1 .. Len(names) : i # j => names[i] # names[j]

LEMMA NamesOfCalls ==
  \A names \in Singles \cup Setups : Distinct(names)
<1>1. \A n \in Names : Distinct(<<n>>)
  BY DEF Distinct
<1>2. \A n, m \in Names : n # m => Distinct(<<n, m>>)
  BY DEF Distinct
<1>3. \A n, m, k \in Names : n # m /\ n # k /\ m # k => Distinct(<<n, m, k>>)
  BY DEF Distinct
<1>4. Distinct(<<"PACER_SELECT", "PCLK_FREQ", "PACER_MODE", "PACER_START", "PACER_STOP">>)
  BY NamesByPlace DEF Distinct
<1>5. \A names \in SetupOfTimer : Distinct(names)
  BY <1>2, NamesByPlace DEF SetupOfTimer
<1>6. \A names \in SetupOfBurst : Distinct(names)
  BY <1>2, NamesByPlace DEF SetupOfBurst
<1>7. \A names \in SetupOfDac : Distinct(names)
  BY <1>3, NamesByPlace DEF SetupOfDac
<1>8. \A names \in SourceOfDma : Distinct(names)
  BY <1>2, NamesByPlace DEF SourceOfDma
<1> QED BY <1>1, <1>4, <1>5, <1>6, <1>7, <1>8 DEF Singles, Setups, SetupOfPacer

----------------------------------------------------------------------------
\* The inductive invariant

\* A call, in progress or ended: its names are settings, and what its status
\* says of the values it has come to so far is so.
CallSound(k, done) ==
  LET begun == 1 .. IF done THEN Len(k.names) ELSE k.step - 1
      documented == \A i \in begun : k.values[i] \in Documented(k.names[i])
      refused == \E i \in 1 .. Len(k.names) : \/ k.values[i] \notin Documented(k.names[i])
                                            \/ k.names[i] \in TimerNames
  IN
  k.names \notin SetupOfBurst =>
    /\ k.status = 0 => documented
    /\ k.status # 0 /\ ~k.io => refused

\* What a call that nobody has overlapped has set.
CallSet(store, k, done) ==
  k.status = 0 /\ k.alone /\ k.names \notin SetupOfBurst =>
    \A i \in 1 .. IF done THEN Len(k.names) ELSE k.step - 1 :
      k.names[i] \in DOMAIN store /\ store[k.names[i]] = Stored(k.names[i], k.values[i])

CallType(k) ==
  /\ k \in SetupType
  /\ k.values \in [1 .. Len(k.names) -> Nat]
  /\ k # NoSetup => k.step \in 1 .. Len(k.names) + 1

SettingsInv ==
  /\ setups \in 0 .. MaxSetups
  /\ settings = lastSet /\ DOMAIN settings \subseteq Names
  /\ settings \in [DOMAIN settings -> 0 .. 16]
  /\ setup \in [Users -> SetupType]
  /\ \A c \in Users :
       /\ CallType(setup[c]) /\ CallSound(setup[c], FALSE) /\ CallSet(settings, setup[c], FALSE)
       /\ setup[c] # NoSetup => setup[c].names \in Singles \cup Setups /\ setup[c].step <= Len(setup[c].names)
       /\ setup[c] # NoSetup /\ setup[c].alone => \A d \in Users \ {c} : setup[d] = NoSetup
  /\ CallType(setupDone) /\ CallSound(setupDone, TRUE) /\ CallSet(settings, setupDone, TRUE)
  /\ setupDone # NoSetup /\ setupDone.alone => \A d \in Users : setup[d] = NoSetup

\* What a write and a command leave of the settings.
LEMMA WriteKeeps ==
  ASSUME DOMAIN settings \subseteq Names, NEW n \in Names, NEW v
  PROVE  With(Overwritten(Register(n), Size(n)), n, v) = With(settings, n, v)
  BY SettingsApart DEF Overwritten, With

LEMMA CommandKeeps ==
  ASSUME DOMAIN settings \subseteq Names, settings = [m \in DOMAIN settings |-> settings[m]],
         NEW access \in Commands
  PROVE  Overwritten(access[1], access[2]) = settings
  BY CommandsApart DEF Overwritten

LEMMA NoSetupSound ==
  /\ CallType(NoSetup) /\ CallSound(NoSetup, TRUE) /\ CallSound(NoSetup, FALSE)
  /\ \A store : CallSet(store, NoSetup, TRUE) /\ CallSet(store, NoSetup, FALSE)
<1>1. CallType(NoSetup) /\ CallSound(NoSetup, TRUE) /\ CallSound(NoSetup, FALSE)
  BY DEF CallType, CallSound, SetupType, NoSetup
<1>2. \A store : CallSet(store, NoSetup, TRUE) /\ CallSet(store, NoSetup, FALSE)
  BY DEF CallSet, NoSetup
<1> QED BY <1>1, <1>2

LEMMA InvInit == SettingsInit => SettingsInv
<1> SUFFICES ASSUME SettingsInit PROVE SettingsInv
    OBVIOUS
<1>1. DOMAIN settings = {} /\ settings \in [DOMAIN settings -> 0 .. 16]
  BY DEF SettingsInit
<1>2. /\ setups \in 0 .. MaxSetups /\ settings = lastSet /\ setupDone = NoSetup
      /\ setup \in [Users -> SetupType] /\ \A c \in Users : setup[c] = NoSetup
  BY MaxSetupsAssumption, NoSetupSound DEF SettingsInit, CallType
<1> QED BY <1>1, <1>2, NoSetupSound DEF SettingsInv

LEMMA InvBegin ==
  ASSUME SettingsInv, NEW c \in Users, BeginSetup(c)
  PROVE  SettingsInv'
<1> DEFINE alone == \A e \in Users \ {c} : setup[e] = NoSetup
           new(k) == [names |-> k[1], values |-> k[2], step |-> 1, status |-> 0, io |-> FALSE, alone |-> alone]
<1>1. /\ setupDone' = NoSetup /\ setups' = setups + 1 /\ setups < MaxSetups
      /\ settings' = settings /\ lastSet' = lastSet
  BY DEF BeginSetup
<1>2. PICK k \in Calls :
      setup' = [d \in Users |->
         IF d = c THEN new(k)
         ELSE IF setup[d] # NoSetup THEN [setup[d] EXCEPT !.alone = FALSE] ELSE NoSetup]
  BY DEF BeginSetup, NoSetup
<1>3. alone \in BOOLEAN
  OBVIOUS
<1>4. /\ k[1] \in Singles \cup Setups /\ k[2] \in [1 .. Len(k[1]) -> Nat]
  BY SetupCallsAssumption
<1>5. Distinct(k[1])
  BY <1>4, NamesOfCalls
<1>6. /\ CallType(new(k)) /\ CallSound(new(k), FALSE) /\ CallSet(settings, new(k), FALSE)
      /\ new(k) # NoSetup
  <2> HIDE DEF alone
  <2>1. k[2] \in Seq(Nat)
    BY <1>4, <1>5, SeqDef DEF Distinct
  <2>2. new(k) \in SetupType
    BY <1>3, <1>2, <1>4, <2>1 DEF SetupType
  <2> QED BY <1>2, <1>4, <1>5, <2>2 DEF CallType, CallSound, CallSet, NoSetup, Distinct
<1>7. ASSUME NEW d \in Users \ {c}
      PROVE  /\ CallType(setup'[d]) /\ CallSound(setup'[d], FALSE) /\ CallSet(settings, setup'[d], FALSE)
             /\ setup'[d] # NoSetup => /\ setup'[d].names \in Singles \cup Setups
                                     /\ setup'[d].step <= Len(setup'[d].names)
                                     /\ ~setup'[d].alone
             /\ setup[d] = NoSetup => setup'[d] = NoSetup
  <2>1. CallType(setup[d]) /\ CallSound(setup[d], FALSE) /\ CallSet(settings, setup[d], FALSE)
    BY DEF SettingsInv
  <2>2. CASE setup[d] = NoSetup
    BY <1>2, <2>1, <2>2
  <2>3. CASE setup[d] # NoSetup
    <3> DEFINE now == [setup[d] EXCEPT !.alone = FALSE]
    <3>1. setup'[d] = now
      BY <1>2, <2>3
    <3>2. /\ now.names = setup[d].names /\ now.values = setup[d].values /\ now.step = setup[d].step
          /\ now.status = setup[d].status /\ now.io = setup[d].io /\ ~now.alone /\ now \in SetupType
      BY <2>1 DEF CallType, SetupType
    <3>3. CallType(now) /\ CallSound(now, FALSE) /\ CallSet(settings, now, FALSE)
      BY <2>1, <2>3, <3>2 DEF CallType, CallSound, CallSet
    <3> QED BY <2>3, <3>1, <3>2, <3>3 DEF SettingsInv
  <2> QED BY <2>2, <2>3
<1>8. /\ setup'[c] = new(k)
      /\ setup' = [d \in Users |-> setup'[d]]
  BY <1>2
<1>9. new(k).names = k[1] /\ new(k).step = 1 /\ Len(k[1]) >= 1
  BY <1>5 DEF Distinct
<1>10. alone => \A d \in Users \ {c} : setup'[d] = NoSetup
  BY <1>7
<1>11. new(k).alone = alone
  OBVIOUS
<1> HIDE DEF new, alone
<1>12. \A d \in Users :
         /\ CallType(setup'[d]) /\ CallSound(setup'[d], FALSE) /\ CallSet(settings, setup'[d], FALSE)
         /\ setup'[d] # NoSetup => /\ setup'[d].names \in Singles \cup Setups
                                 /\ setup'[d].step <= Len(setup'[d].names)
         /\ setup'[d] # NoSetup /\ setup'[d].alone => \A e \in Users \ {d} : setup'[e] = NoSetup
  BY <1>4, <1>6, <1>7, <1>8, <1>9, <1>10, <1>11
<1>13. setup' \in [Users -> SetupType]
  BY <1>8, <1>12 DEF CallType
<1>14. setups' \in 0 .. MaxSetups /\ settings' = lastSet'
  BY <1>1, MaxSetupsAssumption DEF SettingsInv
<1>15. /\ DOMAIN settings' \subseteq Names /\ settings' \in [DOMAIN settings' -> 0 .. 16]
  BY <1>1 DEF SettingsInv
<1> QED BY <1>1, <1>12, <1>14, <1>15, <1>13, NoSetupSound DEF SettingsInv

\* The call goes on, or returns.
LEMMA InvGoesOn ==
  ASSUME SettingsInv, NEW c \in Users, setup[c] # NoSetup, UNCHANGED setups,
         NEW result \in {0, -1}, NEW io \in BOOLEAN, SetupGoesOn(c, result, io),
         settings' = lastSet', DOMAIN settings' \subseteq Names,
         settings' \in [DOMAIN settings' -> 0 .. 16],
         \A m \in DOMAIN settings :
           m # Name(c) => m \in DOMAIN settings' /\ settings'[m] = settings[m],
         result = 0 => /\ Value(c) \in Documented(Name(c))
                       /\ Name(c) \in DOMAIN settings' /\ settings'[Name(c)] = Stored(Name(c), Value(c)),
         result # 0 /\ ~io => Value(c) \notin Documented(Name(c)) \/ Name(c) \in TimerNames
  PROVE  SettingsInv'
<1> DEFINE old == setup[c]
           k == [setup[c] EXCEPT !.status = Joined(setup[c].names, @, result), !.io = @ \/ io,
                                 !.step = @ + 1]
<1>1. setup[c] \in SetupType
  BY DEF SettingsInv, CallType
<1>2. /\ CallType(old) /\ CallSound(old, FALSE) /\ CallSet(settings, old, FALSE)
      /\ old.names \in Singles \cup Setups /\ old.step <= Len(old.names)
      /\ old.alone => \A d \in Users \ {c} : setup[d] = NoSetup
  BY DEF SettingsInv
<1>3. /\ Len(old.names) \in 1 .. 5
      /\ \A i, j \in 1 .. Len(old.names) : i # j => old.names[i] # old.names[j]
      /\ old.step \in 1 .. Len(old.names)
  <2>1. Distinct(old.names)
    BY <1>2, NamesOfCalls
  <2> HIDE DEF old
  <2>2. Len(old.names) \in 1 .. 5
    BY <2>1 DEF Distinct
  <2>3. old.step \in 1 .. Len(old.names) + 1 /\ old.step <= Len(old.names)
    BY <1>2, <2>2 DEF CallType, old
  <2>4. \A i, j \in 1 .. Len(old.names) : i # j => old.names[i] # old.names[j]
    BY <2>1 DEF Distinct
  <2> QED BY <2>2, <2>3, <2>4
<1>4. /\ k.names = old.names /\ k.values = old.values /\ k.step = old.step + 1
      /\ k.status = Joined(old.names, old.status, result) /\ k.io = (old.io \/ io) /\ k.alone = old.alone
      /\ k.status \in {0, -1}
  BY <1>2 DEF CallType, SetupType, Joined
<1>5. CallType(k)
  <2>1. k \in SetupType
    <3>1. setup[c].step + 1 \in 0 .. 6
      <4>1. \A m \in 1 .. 5 : \A n \in 1 .. m : n + 1 \in 0 .. 6
        OBVIOUS
      <4> QED BY <1>3, <4>1
    <3>2. Joined(setup[c].names, setup[c].status, result) \in {0, -1}
      BY <1>1 DEF Joined, SetupType
    <3>3. (setup[c].io \/ io) \in BOOLEAN
      OBVIOUS
    <3> QED BY <1>1, <3>1, <3>3, <3>2 DEF SetupType
  <2> QED BY <1>2, <1>3, <1>4, <2>1 DEF CallType
<1>6. /\ k.names \notin SetupOfBurst /\ k.status = 0 => old.status = 0 /\ result = 0
      /\ k.names \notin SetupOfBurst /\ k.status # 0 => old.status # 0 \/ result # 0
  BY <1>4 DEF Joined
<1>7. Name(c) = old.names[old.step] /\ Value(c) = old.values[old.step]
  BY DEF Name, Value
<1>8. CallSound(k, FALSE)
  <2>1. ASSUME k.names \notin SetupOfBurst, k.status = 0, NEW i \in 1 .. k.step - 1
        PROVE  k.values[i] \in Documented(k.names[i])
    BY <1>2, <1>3, <1>4, <1>6, <1>7, <2>1 DEF CallSound
  <2>2. ASSUME k.names \notin SetupOfBurst, k.status # 0, ~k.io
        PROVE  \E i \in 1 .. Len(k.names) : \/ k.values[i] \notin Documented(k.names[i])
                                           \/ k.names[i] \in TimerNames
    <3>1. CASE old.status # 0
      BY <1>2, <1>4, <2>2, <3>1 DEF CallSound
    <3>2. CASE result # 0
      BY <1>3, <1>4, <1>7, <2>2, <3>2
    <3> QED BY <1>6, <2>2, <3>1, <3>2
  <2> QED BY <2>1, <2>2 DEF CallSound
<1>9. CallSet(settings', k, FALSE)
  <2>1. ASSUME k.status = 0, k.alone, k.names \notin SetupOfBurst, NEW i \in 1 .. k.step - 1
        PROVE  /\ k.names[i] \in DOMAIN settings'
               /\ settings'[k.names[i]] = Stored(k.names[i], k.values[i])
    <3>1. CASE i = old.step
      BY <1>4, <1>6, <1>7, <2>1, <3>1
    <3>2. CASE i # old.step
      <4>1. i \in 1 .. old.step - 1 /\ old.names[i] # Name(c)
        <5> HIDE DEF k, old
        <5>1. i \in Int /\ old.step \in Int /\ i <= old.step /\ i >= 1 /\ old.step <= Len(old.names)
          BY <1>3, <1>4, <2>1
        <5>2. i \in 1 .. old.step - 1 /\ i \in 1 .. Len(old.names)
          BY <1>3, <5>1, <3>2
        <5> QED BY <1>3, <1>7, <3>2, <5>2
      <4>2. old.names[i] \in DOMAIN settings /\ settings[old.names[i]] = Stored(old.names[i], old.values[i])
        BY <1>2, <1>4, <1>6, <2>1, <4>1 DEF CallSet
      <4> QED BY <1>4, <4>1, <4>2
    <3> QED BY <3>1, <3>2
  <2> QED BY <2>1 DEF CallSet
<1>10. ASSUME NEW d \in Users \ {c}
      PROVE  setup'[d] = setup[d] /\ CallSet(settings', setup[d], FALSE)
  <2>1. setup'[d] = setup[d]
    BY DEF SetupGoesOn, SettingsInv
  <2>2. setup[d] = NoSetup \/ ~setup[d].alone
    BY DEF SettingsInv
  <2>3. CASE setup[d] = NoSetup
    BY <2>1, <2>3 DEF CallSet, NoSetup
  <2>4. CASE ~setup[d].alone
    BY <2>1, <2>4 DEF CallSet
  <2> QED BY <2>2, <2>3, <2>4
<1>11. setup' \in [Users -> SetupType]
  BY <1>5, NoSetupSound DEF SetupGoesOn, SettingsInv, CallType
<1>12. CASE old.step = Len(old.names)
  <2>1. setup'[c] = NoSetup /\ setupDone' = k
    BY <1>12 DEF SetupGoesOn, SettingsInv
  <2>2. CallSound(k, TRUE) /\ CallSet(settings', k, TRUE)
    BY <1>3, <1>4, <1>8, <1>9, <1>12 DEF CallSound, CallSet
  <2> HIDE DEF k, old
  <2>3. \A d \in Users : d # c =>
          /\ CallType(setup[d]) /\ CallSound(setup[d], FALSE)
          /\ setup[d] # NoSetup =>
               /\ setup[d].names \in Singles \cup Setups
               /\ setup[d].step <= Len(setup[d].names)
               /\ ~setup[d].alone
    BY DEF SettingsInv
  <2>4. k.alone => \A d \in Users : setup'[d] = NoSetup
    BY <1>2, <1>4, <1>10, <2>1
  <2> QED BY <1>5, <1>10, NoSetupSound, <1>11, <2>1, <2>2, <2>3, <2>4 DEF SettingsInv
<1>13. CASE old.step # Len(old.names)
  <2>1. setup'[c] = k /\ setupDone' = setupDone
    BY <1>13 DEF SetupGoesOn, SettingsInv
  <2>2. CallSet(settings', setupDone, TRUE)
    <3>1. setupDone = NoSetup \/ ~setupDone.alone
      BY DEF SettingsInv
    <3>2. CASE setupDone = NoSetup
      BY <3>2 DEF CallSet, NoSetup
    <3>3. CASE ~setupDone.alone
      BY <3>3 DEF CallSet
    <3> QED BY <3>1, <3>2, <3>3
  <2>3. setupDone # NoSetup => ~setupDone.alone
    BY DEF SettingsInv
  <2>4. k.step <= Len(k.names)
    BY <1>3, <1>4, <1>13
  <2> HIDE DEF k, old
  <2> QED
    BY <1>2, <1>4, <1>5, <1>8, <1>9, <1>10, <1>11, <2>1, <2>2, <2>3, <2>4 DEF SettingsInv
<1> QED BY <1>12, <1>13

\* What is known of a call's next setting.
LEMMA NextSetting ==
  ASSUME SettingsInv, NEW c \in Users, setup[c] # NoSetup
  PROVE  /\ Name(c) \in Names /\ Value(c) \in Nat
         /\ setup[c].step \in 1 .. Len(setup[c].names)
         /\ setup[c].names \in Singles \cup Setups
<1>1. /\ setup[c].names \in Singles \cup Setups /\ CallType(setup[c])
      /\ setup[c].step <= Len(setup[c].names)
  BY DEF SettingsInv
<1>2. Distinct(setup[c].names)
  BY <1>1, NamesOfCalls
<1>3. /\ setup[c].names \in Seq(Names) /\ Len(setup[c].names) \in 1 .. 5
      /\ setup[c].values \in [1 .. Len(setup[c].names) -> Nat]
      /\ setup[c].step \in 1 .. Len(setup[c].names)
  BY <1>1, <1>2 DEF Distinct, CallType
<1> QED BY <1>1, <1>3 DEF Name, Value

\* DMA_Set_Source sets two FIFOs' values, and looks at both.
LEMMA ValidatedIs ==
  ASSUME SettingsInv, NEW c \in Users, setup[c] # NoSetup
  PROVE  /\ Validated(c) => Accepts(Name(c), Value(c))
         /\ ~Validated(c) => \E i \in 1 .. Len(setup[c].names) :
              ~Accepts(setup[c].names[i], setup[c].values[i])
         /\ ~Validated(c) /\ setup[c].names \notin SourceOfDma => ~Accepts(Name(c), Value(c))
<1>1. setup[c].step \in 1 .. Len(setup[c].names)
  BY NextSetting
<1>2. CASE setup[c].names \in SourceOfDma
  <2>1. Len(setup[c].names) = 2
    BY <1>2 DEF SourceOfDma
  <2> QED BY <1>1, <1>2, <2>1 DEF Validated, Name, Value
<1>3. CASE setup[c].names \notin SourceOfDma
  BY <1>1, <1>3 DEF Validated, Name, Value
<1> QED BY <1>2, <1>3

LEMMA InvWrite ==
  ASSUME SettingsInv, NEW c \in Users, WriteSetting(c)
  PROVE  SettingsInv'
<1> DEFINE n == Name(c)
           stored == Stored(Name(c), Value(c))
<1>1. setup[c] # NoSetup /\ SetupGoesOn(c, 0, FALSE) /\ UNCHANGED setups
  BY DEF WriteSetting
<1>2. n \in Names /\ Value(c) \in Nat /\ Accepts(n, Value(c))
  BY <1>1, NextSetting, ValidatedIs DEF WriteSetting
<1>3. Value(c) \in Documented(n) /\ stored \in 0 .. 16
  BY <1>2, AcceptsBound DEF Stored
<1>4. DOMAIN settings \subseteq Names /\ settings = lastSet /\ settings \in [DOMAIN settings -> 0 .. 16]
  BY DEF SettingsInv
<1>5. settings' = With(settings, n, stored) /\ lastSet' = settings'
  BY <1>2, <1>4, WriteKeeps DEF WriteSetting
<1> HIDE DEF n, stored
<1>6. /\ DOMAIN settings' = DOMAIN settings \cup {n} /\ settings'[n] = stored
      /\ \A m \in DOMAIN settings : m # n => settings'[m] = settings[m]
      /\ settings' \in [DOMAIN settings' -> 0 .. 16]
  BY <1>3, <1>4, <1>5 DEF With
<1> QED BY <1>1, <1>2, <1>3, <1>4, <1>5, <1>6, InvGoesOn DEF n, stored

\* A step that sets nothing.
LEMMA InvFails ==
  ASSUME SettingsInv, NEW c \in Users, setup[c] # NoSetup, UNCHANGED <<settings, lastSet, setups>>,
         NEW io \in BOOLEAN, SetupGoesOn(c, -1, io),
         ~io => Value(c) \notin Documented(Name(c)) \/ Name(c) \in TimerNames
  PROVE  SettingsInv'
<1> DEFINE result == -1
<1>1. result \in {0, -1} /\ result # 0 /\ SetupGoesOn(c, result, io)
  OBVIOUS
<1> HIDE DEF result
<1>2. /\ settings' = settings /\ lastSet' = lastSet /\ UNCHANGED setups
      /\ settings = lastSet /\ DOMAIN settings \subseteq Names
      /\ settings \in [DOMAIN settings -> 0 .. 16]
  BY DEF SettingsInv
<1> QED BY <1>1, <1>2, InvGoesOn

LEMMA InvWriteFails ==
  ASSUME SettingsInv, NEW c \in Users, WriteFails(c)
  PROVE  SettingsInv'
<1>1. /\ setup[c] # NoSetup /\ SetupGoesOn(c, -1, TRUE) /\ UNCHANGED <<settings, lastSet, setups>>
  BY DEF WriteFails
<1> QED BY <1>1, InvFails

LEMMA InvRefuse ==
  ASSUME SettingsInv, NEW c \in Users, Refuse(c)
  PROVE  SettingsInv'
<1>1. /\ setup[c] # NoSetup /\ ~Validated(c) /\ UNCHANGED setups
      /\ settings' = settings /\ lastSet' = lastSet
  BY DEF Refuse
<1>2. /\ DOMAIN settings \subseteq Names /\ settings = lastSet /\ settings \in [DOMAIN settings -> 0 .. 16]
  BY DEF SettingsInv
<1>3. Name(c) \in Names /\ Value(c) \in Nat
  BY <1>1, NextSetting
<1>4. CASE setup[c].names \notin SourceOfDma
  <2>1. Value(c) \notin Documented(Name(c)) \/ Name(c) \in TimerNames
    BY <1>1, <1>3, <1>4, ValidatedIs, AcceptsBound
  <2>2. SetupGoesOn(c, -1, FALSE)
    BY <1>4 DEF Refuse
  <2> QED BY <1>1, <2>1, <2>2, InvFails
<1>5. CASE setup[c].names \in SourceOfDma
  <2> DEFINE k == [setup[c] EXCEPT !.status = -1]
  <2>1. setup' = [setup EXCEPT ![c] = NoSetup] /\ setupDone' = k
    BY <1>5 DEF Refuse
  <2>2. CallType(setup[c]) /\ setup[c].alone => \A d \in Users \ {c} : setup[d] = NoSetup
    BY <1>1 DEF SettingsInv
  <2>3. /\ k.names = setup[c].names /\ k.values = setup[c].values /\ k.status = -1
        /\ k.step = setup[c].step /\ k.alone = setup[c].alone /\ k \in SetupType
    BY DEF SettingsInv, CallType, SetupType
  <2>4. \E i \in 1 .. Len(k.names) : \/ k.values[i] \notin Documented(k.names[i])
                                    \/ k.names[i] \in TimerNames
    <3>1. PICK i \in 1 .. Len(k.names) : ~Accepts(k.names[i], k.values[i])
      BY <1>1, <2>3, ValidatedIs
    <3>2. k.names[i] \in Names /\ k.values[i] \in Nat
      <4>1. Distinct(k.names)
        BY <1>1, <2>3, NextSetting, NamesOfCalls
      <4>2. k.values \in [1 .. Len(k.names) -> Nat]
        BY <2>3 DEF SettingsInv, CallType
      <4> QED BY <4>1, <4>2 DEF Distinct
    <3> QED BY <3>1, <3>2, AcceptsBound
  <2>5. CallType(k)
    BY <1>1, <2>3 DEF SettingsInv, CallType
  <2> HIDE DEF k
  <2>6. CallSound(k, TRUE) /\ CallSet(settings', k, TRUE)
    BY <2>3, <2>4 DEF CallSound, CallSet
  <2>7. k.alone => \A d \in Users : setup'[d] = NoSetup
    BY <2>1, <2>2, <2>3 DEF SettingsInv
  <2>8. \A d \in Users : setup'[d] = IF d = c THEN NoSetup ELSE setup[d]
    BY <2>1 DEF SettingsInv
  <2>9. setup' \in [Users -> SetupType]
    BY <2>1, NoSetupSound DEF SettingsInv, CallType
  <2>10. setups' \in 0 .. MaxSetups
    BY <1>1 DEF SettingsInv
  <2>11. ASSUME NEW d \in Users
         PROVE  /\ CallType(setup'[d]) /\ CallSound(setup'[d], FALSE) /\ CallSet(settings', setup'[d], FALSE)
                /\ setup'[d] # NoSetup => /\ setup'[d].names \in Singles \cup Setups
                                        /\ setup'[d].step <= Len(setup'[d].names)
                /\ setup'[d] # NoSetup /\ setup'[d].alone => \A e \in Users \ {d} : setup'[e] = NoSetup
    BY <1>1, <2>8, NoSetupSound DEF SettingsInv
  <2> QED BY <1>1, <1>2, <2>1, <2>5, <2>6, <2>7, <2>9, <2>10, <2>11 DEF SettingsInv
<1> QED BY <1>4, <1>5

LEMMA InvCommand ==
  ASSUME SettingsInv, NEW c \in Users, Command(c)
  PROVE  SettingsInv'
<1>1. /\ setups < MaxSetups /\ setups' = setups + 1 /\ setupDone' = NoSetup
      /\ setup' = setup /\ lastSet' = lastSet
  BY DEF Command
<1>2. /\ DOMAIN settings \subseteq Names /\ settings \in [DOMAIN settings -> 0 .. 16]
  BY DEF SettingsInv
<1>3. settings' = settings
  BY <1>2, CommandKeeps DEF Command
<1>4. setups' \in 0 .. MaxSetups
  BY <1>1, MaxSetupsAssumption DEF SettingsInv
<1> QED BY <1>1, <1>3, <1>4, NoSetupSound DEF SettingsInv

LEMMA InvStep == SettingsInv /\ [SettingsNext]_settingVars => SettingsInv'
<1> SUFFICES ASSUME SettingsInv, [SettingsNext]_settingVars PROVE SettingsInv'
    OBVIOUS
<1>1. CASE SettingsNext
  BY <1>1, InvBegin, InvWrite, InvWriteFails, InvRefuse, InvCommand DEF SettingsNext
<1>2. CASE UNCHANGED settingVars
  BY <1>2 DEF SettingsInv, settingVars
<1> QED BY <1>1, <1>2

THEOREM SettingsInvariant == SettingsSpec => []SettingsInv
  BY InvInit, InvStep, PTL DEF SettingsSpec

\* The registers of the settings hold values that fit, and the calls are what
\* they are declared to be.
THEOREM SettingsTyped == SettingsSpec => []SettingsTypeOK
<1>1. SettingsInv => SettingsTypeOK
  <2> SUFFICES ASSUME SettingsInv PROVE SettingsTypeOK
      OBVIOUS
  <2> QED BY DEF SettingsInv, SettingsTypeOK, CallType
<1> QED BY <1>1, SettingsInvariant, PTL

\* A setting stays what it was last set to, whatever calls overlap, however many
\* there are.
THEOREM SettingsAreHeld == SettingsSpec => []SettingsHold
<1>1. SettingsInv => SettingsHold
  BY DEF SettingsInv, SettingsHold
<1> QED BY <1>1, SettingsInvariant, PTL

\* A setup that returns 0 and that no other overlaps has set every one of its
\* settings, and the values refused are those that the enumerations do not have.
THEOREM SetupsAreWhole == SettingsSpec => [](SetupIsWhole /\ AcceptsDocumented)
<1>1. SettingsInv => SetupIsWhole
  BY DEF SettingsInv, SetupIsWhole, CallSet
<1>2. SettingsInv => AcceptsDocumented
  BY DEF SettingsInv, AcceptsDocumented, CallSound
<1> QED BY <1>1, <1>2, SettingsInvariant, PTL
=============================================================================
