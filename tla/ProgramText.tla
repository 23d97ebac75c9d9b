---------------------------- MODULE ProgramText ----------------------------
(***************************************************************************)
(* What the example programs ask of the library, in their order: the text  *)
(* of each from the opening of the board to its main loop, from there to   *)
(* its end, and its Cleanup.  A step is a call <<function, object>>, the   *)
(* names without "SDM35541_"; the object is a DMA channel, a timer or "".  *)
(* A loop over the DMA buffers or the channel table is one step; the loops *)
(* that wait for the board are the step "Loop", and for the programs with  *)
(* callbacks DmaStream and InterruptApp have them in detail.               *)
(*                                                                         *)
(* A UTC_Setup whose timer is not gated, and UTC_Set_Gate with             *)
(* GUTC_NOT_GATED, are UTC_Run; UTC_Set_Gate with GUTC_GATED is UTC_Stop.  *)
(* Dma_Configure_Interrupts is Dma_Irqs or Dma_Irqs_Off.                   *)
(***************************************************************************)
EXTENDS Sequences

On(object, names) == [i \in DOMAIN names |-> <<names[i], object>>]
Call(names) == On("", names)

\* What nearly every program begins and ends with.
Begin  == Call(<<"Board_Open", "Gbc_Board_Reset", "Function_Block_Open">>)
Finish == Call(<<"Gbc_Board_Reset", "Board_Close">>)

----------------------------------------------------------------------------
\* The programs without callbacks

AdcStart == Begin \o Call(<<"ADC_Clear", "FIFO_Get_Status", "CGT_Enable", "CGT_Latch", "PCLK_Setup",
                            "ADC_Conv_Signal", "UIO_Select", "PCLK_Start", "Loop">>)
AdcEnd   == Call(<<"PCLK_Stop", "Loop">>) \o Finish

AdcBurstStart == Begin \o Call(<<"ADC_Clear", "CGT_Clear", "FIFO_Get_Status", "CGT_Enable",
                                 "CGT_Write", "BCLK_Setup", "PCLK_Setup", "ADC_Conv_Signal">>)
                   \o On("again", <<"FIFO_Get_Status">>) \o Call(<<"PCLK_Start", "Loop">>)
AdcBurstEnd   == Call(<<"PCLK_Stop", "Loop">>) \o Finish

HsdinStart == Begin \o Call(<<"HSDIN_Clear", "FIFO_Get_Status">>) \o On("utc0", <<"UTC_Run">>)
                \o Call(<<"HSDIN_Sample_Signal", "Loop">>)
HsdinEnd   == On("utc0", <<"UTC_Stop">>) \o Call(<<"Loop">>) \o Finish

DacStart == Begin \o Call(<<"DAC_Setup", "DAC_Clear", "UIO_Select">>)
DacEnd   == Call(<<"Loop">>) \o Finish

CalibrateStart == Begin
CalibrateEnd   == Call(<<"Calibrate", "Loop", "DSP_CMD_Status">>) \o Finish

TimerStart == Begin \o On("utc0", <<"UTC_Run">>) \o On("utc1", <<"UTC_Run">>)
TimerEnd   == Call(<<"Loop">>) \o On("utc0", <<"UTC_Stop">>) \o On("utc1", <<"UTC_Stop">>) \o Finish

TemperatureText == Call(<<"Board_Open", "Function_Block_Open", "Get_Temp">>) \o Finish
DspVersionText  == Begin \o Call(<<"DSP_Get_Version">>) \o Finish
ListText        == Call(<<"General_Enum_Boards", "Board_Open", "Gbc_Board_Reset",
                          "Function_Block_Open", "Board_Close">>)
ListCleanUp     == Call(<<"Board_Close">>)

DioStart == Begin \o Call(<<"DIO_IRQ_Mode", "DIO_Clock", "DIO_Set_Direction",
                            "DIO_Set_Direction", "Interrupt_Enable", "DIO_Enable_IRQ">>)
DioMatchStart == Begin \o Call(<<"Interrupt_Enable", "DIO_IRQ_Mode", "DIO_Clock", "DIO_Enable_IRQ",
                                 "DIO_Set_Direction", "DIO_Set_Direction", "DIO_Set_Compare">>)
DioCleanup == Call(<<"Interrupt_Disable">>) \o Finish

----------------------------------------------------------------------------
\* The programs with an interrupt callback

Install == Call(<<"Interrupt_Install_Callback">>)
Remove  == Call(<<"Interrupt_Remove_Callback">>)

AnalogDioStart == Begin \o Call(<<"Interrupt_Enable">>) \o Install
                    \o Call(<<"ALGDIO_Set_Direction", "ALGDIO_Set_Mask", "Loop">>)
AnalogDioEnd   == Remove \o Finish

TimerInterruptStart ==
  Begin \o On("utc0", <<"UTC_Run">>) \o On("utc1", <<"UTC_Run">>)
    \o Call(<<"Interrupt_Enable">>) \o Install
TimerInterruptEnd ==
  On("utc0", <<"UTC_Stop">>) \o On("utc1", <<"UTC_Stop">>) \o Remove
TimerInterruptCleanup == On("hsdin", <<"DMA_Remove_Callback">>) \o Finish

DelayInterruptStart ==
  Call(<<"Board_Open", "Function_Block_Open">>) \o Install
    \o Call(<<"ADC_Clear", "CGT_Enable", "CGT_Latch", "PCLK_Setup", "ADC_Conv_Signal", "UIO_Select",
              "ADC_About_Enable", "ACNT_Set_Count", "DCNT_Set_Count", "Interrupt_Enable",
              "PCLK_Start">>)

AboutInterruptStart ==
  Begin \o Call(<<"ADC_Clear", "FIFO_Get_Status", "CGT_Enable", "CGT_Write", "PCLK_Setup",
                  "ADC_Conv_Signal", "UIO_Select", "ADC_About_Enable", "ACNT_Set_Count">>)
    \o On("utc2", <<"UTC_Run">>) \o Call(<<"Interrupt_Enable">>) \o Install \o Call(<<"PCLK_Start">>)

CgtResetInterruptStart ==
  Begin \o Call(<<"Interrupt_Enable">>) \o Install
    \o Call(<<"ADC_Clear", "CGT_Enable", "CGT_Write", "PCLK_Setup", "ADC_Conv_Signal", "UIO_Select",
              "PCLK_Start">>)

ExternalTriggerInterruptStart ==
  Call(<<"Board_Open", "Function_Block_Open">>) \o On("utc0", <<"UTC_Run">>) \o On("utc1", <<"UTC_Run">>)
    \o Call(<<"Interrupt_Enable">>) \o Install
ExternalTriggerInterruptEnd == On("utc0", <<"UTC_Stop">>) \o On("utc1", <<"UTC_Stop">>)

DelayInterruptCleanup           == Remove \o Finish
AboutInterruptCleanup           == Remove \o Finish
CgtResetInterruptCleanup        == Remove \o Finish
ExternalTriggerInterruptCleanup == Remove \o Finish

----------------------------------------------------------------------------
\* The programs with DMA

AdcDmaStart ==
  Begin \o Call(<<"ADC_Clear", "CGT_Enable", "CGT_Latch", "PCLK_Setup", "ADC_Conv_Signal", "UIO_Select">>)
    \o On("adc", <<"DMA_Set_Source", "Dma_Setup", "Dma_Irqs", "Dma_Buffer_Setup">>)

AdcDmaRun ==
  On("adc", <<"DMA_Install_Callback", "DMA_Request_Transfer", "Dma_Start">>) \o Call(<<"PCLK_Start">>)
AdcDmaEnd == Call(<<"PCLK_Stop">>) \o On("adc", <<"Dma_Irqs_Off">>)
AdcDmaCleanup == On("adc", <<"DMA_Remove_Callback">>) \o Finish

HsdinDmaStart ==
  Begin \o Call(<<"HSDIN_Sample_Signal">>) \o On("utc0", <<"UTC_Setup">>) \o Call(<<"FIFO_Size">>)
    \o On("utc1", <<"UTC_Run">>) \o Call(<<"HSDIN_Clear">>)
    \o On("hsdin", <<"DMA_Set_Source", "Dma_Setup", "Dma_Irqs", "Dma_Buffer_Setup">>)
HsdinDmaRun ==
  On("hsdin", <<"DMA_Install_Callback", "DMA_Request_Transfer", "Dma_Start">>)
    \o On("utc0", <<"UTC_Run">>)
HsdinDmaEnd ==
  On("utc0", <<"UTC_Stop">>) \o On("utc1", <<"UTC_Stop">>) \o On("hsdin", <<"Dma_Irqs_Off">>)
HsdinDmaCleanup == On("hsdin", <<"DMA_Remove_Callback">>) \o Finish

DacDmaStart ==
  Begin \o Call(<<"DAC_Setup", "DAC_Set_Rate", "Clear_IT_Mask", "Clear_IT_Overrun">>)
    \o On("dac", <<"DMA_Set_Source", "Dma_Setup", "Dma_Buffer_Setup">>)
DacDmaRun == On("dac", <<"DMA_Request_Transfer", "Dma_Start">>) \o Call(<<"DAC_Start">>)
DacDmaCleanup == On("dac", <<"DMA_Remove_Callback">>) \o Finish

AdcExternalTriggerStart ==
  Begin \o Call(<<"DIO_Set_Direction", "DIO_Set_Port", "ADC_Clear", "FIFO_Get_Status", "CGT_Enable",
                  "CGT_Latch", "PCLK_Setup", "ADC_Conv_Signal", "ETRIG_Polarity_Select",
                  "Interrupt_Enable">>)
AdcExternalTriggerRun ==
  On("adc", <<"DMA_Set_Source", "Dma_Setup", "Dma_Irqs", "Dma_Buffer_Setup", "DMA_Install_Callback",
              "DMA_Request_Transfer">>)
    \o Install \o On("adc", <<"Dma_Start">>) \o Call(<<"PCLK_Start">>)
AdcExternalTriggerEnd ==
  Call(<<"FIFO_Get_Status", "PCLK_Stop">>) \o On("adc", <<"Dma_Irqs_Off">>)
    \o Call(<<"Interrupt_Disable">>) \o On("adc", <<"Dma_Stop">>)
AdcExternalTriggerCleanup == Remove \o On("adc", <<"DMA_Remove_Callback">>) \o Finish

DacInit == On("dac", <<"DMA_Set_Source", "Dma_Setup", "Dma_Buffer_Setup", "DMA_Request_Transfer",
                       "Dma_Start">>) \o Call(<<"DAC_Setup">>)
AdcInit == On("adc", <<"DMA_Set_Source", "Dma_Setup", "Dma_Irqs", "Dma_Buffer_Setup",
                       "DMA_Install_Callback", "DMA_Request_Transfer", "Dma_Start">>)
             \o Call(<<"CGT_Enable", "CGT_Latch", "PCLK_Setup", "ADC_Conv_Signal">>)
AdcDacSimulStart ==
  Begin \o Call(<<"ADC_Clear">>) \o DacInit \o AdcInit \o Call(<<"DAC_Set_Rate", "PCLK_Start">>)
AdcDacSimulCleanup ==
  On("adc", <<"Dma_Stop">>) \o On("dac", <<"Dma_Stop">>) \o On("adc", <<"DMA_Remove_Callback">>)
    \o Finish

HsdinInitSimul == Call(<<"HSDIN_Sample_Signal", "HSDIN_Clear">>)
  \o On("hsdin", <<"DMA_Set_Source", "Dma_Irqs", "Dma_Buffer_Setup", "DMA_Install_Callback",
                   "DMA_Request_Transfer", "Dma_Setup">>)
AdcInitSimul ==
  On("adc", <<"DMA_Set_Source", "Dma_Setup", "Dma_Irqs", "Dma_Buffer_Setup", "DMA_Install_Callback",
              "DMA_Request_Transfer">>)
    \o Call(<<"CGT_Enable", "CGT_Latch", "PCLK_Setup", "ADC_Conv_Signal">>)
AdcHsdinSimulStart ==
  Begin \o Call(<<"ADC_Clear">>) \o On("utc0", <<"UTC_Setup">>) \o Call(<<"FIFO_Size">>)
    \o On("utc1", <<"UTC_Run">>) \o HsdinInitSimul \o AdcInitSimul
    \o On("adc", <<"Dma_Start">>) \o On("hsdin", <<"Dma_Start">>)
    \o Call(<<"PCLK_Start">>) \o On("utc0", <<"UTC_Run">>)

AdcHsdinSimulCleanup ==
  On("adc", <<"Dma_Stop">>) \o On("hsdin", <<"Dma_Stop">>) \o On("adc", <<"DMA_Remove_Callback">>)
    \o On("hsdin", <<"DMA_Remove_Callback">>) \o Finish

----------------------------------------------------------------------------
\* Per program: its text to the main loop, from there on, and its Cleanup.  A
\* program whose Cleanup is <<>> has none: check_result exits.

None == <<>>

Text ==
  [Adc                      |-> <<AdcStart, AdcEnd, None>>,
   AdcBurst                 |-> <<AdcBurstStart, AdcBurstEnd, None>>,
   Hsdin                    |-> <<HsdinStart, HsdinEnd, None>>,
   Dac                      |-> <<DacStart, DacEnd, None>>,
   Calibrate                |-> <<CalibrateStart, CalibrateEnd, None>>,
   Timer                    |-> <<TimerStart, TimerEnd, None>>,
   Temperature              |-> <<None, TemperatureText, None>>,
   DspVersion               |-> <<None, DspVersionText, None>>,
   ListFunctionBlocks       |-> <<None, ListText, ListCleanUp>>,
   DioEvent                 |-> <<DioStart, DioCleanup, DioCleanup>>,
   DioMatch                 |-> <<DioMatchStart, DioCleanup, DioCleanup>>,
   AnalogDio                |-> <<AnalogDioStart, AnalogDioEnd, None>>,
   TimerInterrupt           |-> <<TimerInterruptStart, TimerInterruptEnd \o TimerInterruptCleanup,
                                  TimerInterruptCleanup>>,
   DelayInterrupt           |-> <<DelayInterruptStart, DelayInterruptCleanup,
                                  DelayInterruptCleanup>>,
   AboutInterrupt           |-> <<AboutInterruptStart, AboutInterruptCleanup,
                                  AboutInterruptCleanup>>,
   CgtResetInterrupt        |-> <<CgtResetInterruptStart, CgtResetInterruptCleanup,
                                  CgtResetInterruptCleanup>>,
   ExternalTriggerInterrupt |-> <<ExternalTriggerInterruptStart,
                                  ExternalTriggerInterruptEnd \o ExternalTriggerInterruptCleanup,
                                  ExternalTriggerInterruptCleanup>>,
   AdcDma                   |-> <<AdcDmaStart \o AdcDmaRun, AdcDmaEnd \o AdcDmaCleanup, AdcDmaCleanup>>,
   HsdinDma                 |-> <<HsdinDmaStart \o HsdinDmaRun, HsdinDmaEnd \o HsdinDmaCleanup,
                                  HsdinDmaCleanup>>,
   DacDma                   |-> <<DacDmaStart \o DacDmaRun, DacDmaCleanup, DacDmaCleanup>>,
   AdcExternalTrigger       |-> <<AdcExternalTriggerStart \o AdcExternalTriggerRun,
                                  AdcExternalTriggerEnd \o AdcExternalTriggerCleanup,
                                  AdcExternalTriggerCleanup>>,
   AdcDacSimul              |-> <<AdcDacSimulStart, AdcDacSimulCleanup, AdcDacSimulCleanup>>,
   AdcHsdinSimul            |-> <<AdcHsdinSimulStart, AdcHsdinSimulCleanup, AdcHsdinSimulCleanup>>]

Programs == DOMAIN Text

\* The calls of p before its main loop whose results it does not look at: it
\* checks what an earlier call returned, or nothing.
Unchecked(p) ==
  CASE p \in {"AdcDma", "AdcDacSimul", "AdcHsdinSimul"} ->
         {<<"Dma_Setup", channel>> : channel \in {"adc", "hsdin", "dac"}}
    [] p = "AdcExternalTrigger" -> {<<"DIO_Set_Port", "">>, Install[1]}
    [] p = "DelayInterrupt"     -> {Install[1]}
    [] p = "DacDma"             -> {<<"Clear_IT_Mask", "">>, <<"Clear_IT_Overrun", "">>}
    [] p = "Dac"                -> {<<"DAC_Clear", "">>}
    [] p = "AdcBurst"           -> {<<"FIFO_Get_Status", "again">>}
    [] OTHER                    -> {}

\* Two programs with a Cleanup check one call by check_result.
ExitsAtOnce(p, step) ==
  <<p, step[1]>> \in {<<"TimerInterrupt", "Gbc_Board_Reset">>,
                     <<"ListFunctionBlocks", "Function_Block_Open">>}
=============================================================================
