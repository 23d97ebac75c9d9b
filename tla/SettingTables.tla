--------------------------- MODULE SettingTables ---------------------------
(***************************************************************************)
(* The settings of an ADC1002 function block: the register of each, the    *)
(* values its enumeration has and the values its validator accepts.  A     *)
(* setting is named for its register in SDM35541_registers.h.              *)
(***************************************************************************)
EXTENDS Integers

----------------------------------------------------------------------------
\* SDM35541_registers.h, in its order: the offset of each register.

ConversionRegister(n) ==
  CASE n = "DMA0_SRC" -> 252 [] n = "DMA1_SRC" -> 256 [] n = "ADC_CONV" -> 260
    [] n = "BURST_START" -> 264 [] n = "PACER_START" -> 268
    [] n = "PACER_STOP" -> 272 [] n = "PACER_MODE" -> 280
    [] n = "HSDIN_START" -> 284 [] n = "ADC_SCNT_SRC" -> 368
    [] n = "PACER_SELECT" -> 376

DacRegister(n) ==
  CASE n = "DAC1_RANGE" -> 328 [] n = "DAC1_SRC" -> 332 [] n = "DAC1_CYCLE" -> 336
    [] n = "DAC2_RANGE" -> 348 [] n = "DAC2_SRC" -> 352 [] n = "DAC2_CYCLE" -> 356

PinRegister(n) ==
  CASE n = "SBUS0_SOURCE" -> 380 [] n = "SBUS1_SOURCE" -> 388
    [] n = "SBUS2_SOURCE" -> 400 [] n = "ETRG_POLARITY" -> 412
    [] n = "EINT_POLARITY" -> 416 [] n = "UTC0_CLOCK" -> 420
    [] n = "UTC0_GATE" -> 424 [] n = "UTC1_CLOCK" -> 428 [] n = "UTC1_GATE" -> 432
    [] n = "UTC2_CLOCK" -> 436 [] n = "UTC2_GATE" -> 440 [] n = "UIO0_SELECT" -> 444
    [] n = "UIO1_SELECT" -> 448

SourceRegister(n) ==
  CASE n = "DAC_CLK_START" -> 460 [] n = "DAC_CLK_STOP" -> 464
    [] n = "PCLK_FREQ" -> 468 [] n = "BCLK_FREQ" -> 472
    [] n = "DAC_CLK_SOURCE" -> 476 [] n = "DAC_CLK_MODE" -> 480
    [] n = "DMA_CH0_FIFO" -> 512 [] n = "DMA_CH1_FIFO" -> 513

----------------------------------------------------------------------------
\* The names, by the subject of their functions

FifoNames     == {"DMA_CH0_FIFO", "DMA_CH1_FIFO"}
DmaNames      == {"DMA0_SRC", "DMA1_SRC"} \cup FifoNames
UioNames      == {"UIO0_SELECT", "UIO1_SELECT"}
PolarityNames == {"ETRG_POLARITY", "EINT_POLARITY"}
BusNames      == {"SBUS0_SOURCE", "SBUS1_SOURCE", "SBUS2_SOURCE"}
DacClockNames == {"DAC_CLK_SOURCE", "DAC_CLK_STOP", "DAC_CLK_START", "DAC_CLK_MODE"}
RangeNames    == {"DAC1_RANGE", "DAC2_RANGE"}
UpdateNames   == {"DAC1_SRC", "DAC2_SRC"}
CycleNames    == {"DAC1_CYCLE", "DAC2_CYCLE"}
DacNames      == RangeNames \cup UpdateNames \cup CycleNames
AdcNames      == {"ADC_SCNT_SRC", "ADC_CONV"}
BurstNames    == {"BCLK_FREQ", "BURST_START"}
PacerNames    == {"PACER_MODE", "PACER_STOP", "PACER_START", "PACER_SELECT", "PCLK_FREQ"}
GateNames     == {"UTC0_GATE", "UTC1_GATE", "UTC2_GATE"}
TimerNames    == {"UTC0_CLOCK", "UTC1_CLOCK", "UTC2_CLOCK"} \cup GateNames

Names == DmaNames \cup UioNames \cup PolarityNames \cup BusNames \cup {"HSDIN_START"}
           \cup DacClockNames \cup DacNames \cup AdcNames \cup BurstNames \cup PacerNames
           \cup TimerNames

\* The registers of the pins, and those at the end of the block.
PinNames    == BusNames \cup PolarityNames \cup TimerNames \cup UioNames
SourceNames == DacClockNames \cup FifoNames \cup {"PCLK_FREQ", "BCLK_FREQ"}

Register(n) ==
  CASE n \in DacNames -> DacRegister(n)
    [] n \in PinNames -> PinRegister(n)
    [] n \in SourceNames -> SourceRegister(n)
    [] n \in Names \ (DacNames \cup PinNames \cup SourceNames) -> ConversionRegister(n)

----------------------------------------------------------------------------
\* The enumerations of SDM35541_adc1002_library.h

DmaValues(n)      == IF n \in FifoNames THEN 0 .. 3 ELSE 0 .. 4 \cup 8 .. 10
UioValues(n)      == 0 .. 3
PolarityValues(n) == 0 .. 1
BusValues(n)      == IF n = "HSDIN_START" THEN 0 .. 6 ELSE 0 .. 7
DacClockValues(n) == CASE n = "DAC_CLK_SOURCE" -> 0 .. 1 [] n = "DAC_CLK_STOP" -> 0 .. 9
                       [] n = "DAC_CLK_START" -> 0 .. 7 [] n = "DAC_CLK_MODE" -> 0 .. 1
DacValues(n)      == CASE n \in CycleNames -> 0 .. 1 [] n \in UpdateNames -> 0 .. 6
                       [] n \in RangeNames -> 0 .. 3
AdcValues(n)      == IF n = "ADC_CONV" THEN 0 .. 8 ELSE 0 .. 1
BurstValues(n)    == IF n = "BURST_START" THEN 0 .. 6 ELSE 0 .. 1
PacerValues(n)    == IF n \in {"PACER_STOP", "PACER_START"} THEN 0 .. 15 ELSE 0 .. 1

\* The enumerations do not say which timer has which of the sources.
TimerValues(n)    == IF n \in GateNames THEN 0 .. 4 ELSE 0 .. 5

Documented(n) ==
  CASE n \in DmaNames                    -> DmaValues(n)
    [] n \in UioNames                    -> UioValues(n)
    [] n \in PolarityNames               -> PolarityValues(n)
    [] n \in BusNames \cup {"HSDIN_START"} -> BusValues(n)
    [] n \in DacClockNames               -> DacClockValues(n)
    [] n \in DacNames                    -> DacValues(n)
    [] n \in AdcNames                    -> AdcValues(n)
    [] n \in BurstNames                  -> BurstValues(n)
    [] n \in PacerNames                  -> PacerValues(n)
    [] n \in TimerNames                  -> TimerValues(n)

----------------------------------------------------------------------------
\* The validators of librtd-SDM35541_adc1002.c

\* validate_dma_request and _dma_source.
AcceptsDma(n, v) == IF n \in FifoNames THEN v \in 0 .. 3 ELSE v \in {0, 1, 2, 3, 4, 8, 9, 10}

\* validate_uio_select, _ext_polarity, _sbus_source and _hsdin_signal.
AcceptsPin(n, v) ==
  \/ n \in UioNames /\ v \in 0 .. 3
  \/ n \in PolarityNames /\ v \in 0 .. 1
  \/ n \in BusNames /\ v \in 0 .. 7
  \/ n = "HSDIN_START" /\ v \in 0 .. 6

\* validate_bclk_freq, _bclk_start and _dac_freq.
AcceptsFrequency(n, v) == IF n = "BURST_START" THEN v \in 0 .. 6 ELSE v \in 0 .. 1

\* validate_dac_clk_mode, _dac_clk_stop, _dac_clk_start and _dac_mode.
AcceptsDacClock(n, v) ==
  \/ n = "DAC_CLK_STOP" /\ v \in 0 .. 9
  \/ n = "DAC_CLK_START" /\ v \in 0 .. 7
  \/ n \in {"DAC_CLK_MODE"} \cup CycleNames /\ v \in 0 .. 1

\* validate_dac_update_source, _dac_range, _adc_scnt_src and _adc_conv_signal.
AcceptsConverter(n, v) ==
  \/ n \in UpdateNames /\ v \in 0 .. 6
  \/ n \in RangeNames /\ v \in 0 .. 3
  \/ n = "ADC_SCNT_SRC" /\ v \in 0 .. 1
  \/ n = "ADC_CONV" /\ v \in 0 .. 8

\* validate_pclk_mode, _pclk_stop and _pclk_start.
AcceptsPacer(n, v) == IF n = "PACER_MODE" THEN v \in 0 .. 1 ELSE v \in 0 .. 15

\* validate_pclk_select, _pclk_freq and _utc_clock_source.
AcceptsTimer(n, v) ==
  CASE n = "UTC0_CLOCK" -> v \in 0 .. 3
    [] n = "UTC1_CLOCK" -> v \in 0 .. 5
    [] n = "UTC2_CLOCK" -> v \in 0 .. 4
    [] n \in {"PACER_SELECT", "PCLK_FREQ"} -> v \in 0 .. 1

\* validate_utc_gate.
AcceptsGate(n, v) == IF n = "UTC0_GATE" THEN v \in 0 .. 3 ELSE v \in 0 .. 4

Accepts(n, v) ==
  CASE n \in DmaNames                                             -> AcceptsDma(n, v)
    [] n \in UioNames \cup PolarityNames \cup BusNames \cup {"HSDIN_START"} -> AcceptsPin(n, v)
    [] n \in BurstNames \cup {"DAC_CLK_SOURCE"}                   -> AcceptsFrequency(n, v)
    [] n \in (CycleNames \cup DacClockNames) \ {"DAC_CLK_SOURCE"} -> AcceptsDacClock(n, v)
    [] n \in UpdateNames \cup RangeNames \cup AdcNames            -> AcceptsConverter(n, v)
    [] n \in {"PACER_MODE", "PACER_STOP", "PACER_START"}          -> AcceptsPacer(n, v)
    [] n \in {"PACER_SELECT", "PCLK_FREQ"} \cup (TimerNames \ GateNames) -> AcceptsTimer(n, v)
    [] n \in GateNames                                            -> AcceptsGate(n, v)
=============================================================================
