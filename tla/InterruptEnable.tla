-------------------------- MODULE InterruptEnable --------------------------
(***************************************************************************)
(* The interrupt sources of an ADC1002 function block and who has enabled  *)
(* them: SDM35541_Interrupt_Enable, _Interrupt_Disable, _DMA_Set_Source    *)
(* and _ALGDIO_Set_Mask of librtd-SDM35541_adc1002.c and                   *)
(* SDM35541_Gbc_Board_Reset, called by several threads for one board.  A   *)
(* source is enabled in one of three places: the INT register, of which    *)
(* the handle keeps a copy; the setup register of the DMA channel that     *)
(* DMA_Set_Source has chosen; the ALGDIO mask register.                    *)
(*                                                                         *)
(* A call is a sequence of register accesses and of accesses to memory     *)
(* that the threads share without a lock; each is a step.  Only INT_DMA_0  *)
(* is modelled: INT_DMA_1 is the same code over other constants.           *)
(***************************************************************************)
EXTENDS Integers

CONSTANTS
  Threads,   \* the application's threads
  Ints,      \* board-level sources: the lower 16 bits of a mask
  NumFifos,  \* num_dma_channels; DMA channels are numbered from 0
  Masks,     \* the masks that Enable and Disable are called with
  MaxCalls,  \* bound of the model: calls in all
  MayFail    \* a register access may fail

Edge == "edge"   \* an ALGDIO edge interrupt, one of the bits 0x3c
Pin  == "pin"    \* a pin that is not masked, one of the bits 0x03
None == -1       \* DMA_Set_Source was not called

\* A mask names board-level sources, perhaps the edge, perhaps INT_DMA_0.
MaskType == [ints : SUBSET Ints, edges : SUBSET {Edge}, dma : BOOLEAN]

ASSUME FifosAssumption == NumFifos \in Nat \ {0}
ASSUME MasksAssumption == Masks \subseteq MaskType
ASSUME CallsAssumption == MaxCalls \in Nat
ASSUME MayFailAssumption == MayFail \in BOOLEAN

VARIABLES
  intsEnabled,  \* handle->ints_enabled
  remap,        \* dma_channel_remap[0]
  intReg,       \* the INT register
  algMask,      \* the ALGDIO mask register
  algInt,       \* the ALGDIO interrupt status register
  fifo,         \* the FIFO that feeds channel 0, or None
  dmaInts,      \* DMA channels whose interrupts are enabled
  doing,        \* per caller: the call in progress, its place and its locals
  calls,        \* calls begun so far
  asked,        \* history: board-level sources somebody called Enable for
  sourced,      \* history: the last DMA_Set_Source returned 0, before any reset
  last          \* the call that has just returned

memory   == <<intsEnabled, remap>>
hardware == <<intReg, algMask, algInt, fifo, dmaInts>>
enableVars == <<memory, hardware, doing, calls, asked, sourced, last>>

NoMask == [ints |-> {}, edges |-> {}, dma |-> FALSE]

\* alg, ints: algdio_ints and the new ints_enabled; error: result is not 0;
\* before: ints_enabled as the call began; disturbed: another call overlaps.
NoCall == [op |-> "none", at |-> "idle", mask |-> NoMask, fifo |-> None, alg |-> {}, ints |-> {},
           error |-> FALSE, before |-> {}, disturbed |-> FALSE]

EnableInit ==
  /\ intsEnabled = {} /\ remap = None
  /\ intReg = {} /\ algMask = {} /\ algInt = {} /\ fifo = None /\ dmaInts = {}
  /\ doing = [c \in Threads |-> NoCall] /\ calls = 0
  /\ asked = {} /\ sourced = FALSE /\ last = NoCall

Busy(c) == doing[c].at # "idle"

\* A call begins.  Calls that overlap disturb each other.
Begin(c, frame) ==
  /\ ~Busy(c) /\ calls < MaxCalls
  /\ calls' = calls + 1
  /\ last' = NoCall
  /\ doing' = [d \in Threads |->
       IF d = c THEN frame
       ELSE IF Busy(d) THEN [doing[d] EXCEPT !.disturbed = TRUE] ELSE doing[d]]

\* The frame of a call of c that begins now.
Frame(c, op) == [NoCall EXCEPT !.op = op, !.before = intsEnabled,
                               !.disturbed = \E d \in Threads \ {c} : Busy(d)]

\* A call goes on.
Goes(c, frame) ==
  /\ doing' = [doing EXCEPT ![c] = frame]
  /\ UNCHANGED <<calls, last>>

Returns(c, error) ==
  /\ doing' = [doing EXCEPT ![c] = NoCall]
  /\ last' = [doing[c] EXCEPT !.error = error]
  /\ UNCHANGED calls

----------------------------------------------------------------------------
\* SDM35541_Interrupt_Enable and SDM35541_Interrupt_Disable

\* Both begin with SDM35541_ALGDIO_Get_IRQ_Status, whose result is ignored.
\* Enable replaces what it has read; Disable keeps what its mask does not name,
\* and of a read that failed whatever the local held.
BeginEnable(c) ==
  /\ \E m \in Masks :
       /\ Begin(c, [Frame(c, "enable") EXCEPT !.at = "algdio", !.mask = m, !.alg = m.edges])
       /\ asked' = asked \cup m.ints
  /\ UNCHANGED <<memory, hardware, sourced>>

BeginDisable(c) ==
  /\ \E m \in Masks : \E read \in {algInt} \cup IF MayFail THEN SUBSET {Edge, Pin} ELSE {} :
       Begin(c, [Frame(c, "disable") EXCEPT !.at = "algdio", !.mask = m,
                                            !.alg = read \ m.edges])
  /\ UNCHANGED <<memory, hardware, asked, sourced>>

\* SDM35541_ALGDIO_Set_IRQ_Status writes the mask register; its result is
\* ignored.
WriteAlgdio(c) ==
  /\ doing[c].at = "algdio"
  /\ \/ algMask' = doing[c].alg
     \/ MayFail /\ UNCHANGED algMask
  /\ Goes(c, [doing[c] EXCEPT !.at = "dma"])
  /\ UNCHANGED <<memory, intReg, algInt, fifo, dmaInts, asked, sourced>>

\* Mutant: the result of the last operation counts.
LastError(earlier, now) == now

\* result |= ...
AnyError(earlier, now) == earlier \/ now

\* SDM35541_Dma_Configure_Interrupts of dma_old_to_new(0): it refuses a
\* channel that does not exist, such as -1.
ConfigureDma(c) ==
  /\ doing[c].at = "dma"
  /\ LET goOn(error) ==
           Goes(c, [doing[c] EXCEPT !.at = "load", !.error = AnyError(@, error)])
     IN
     \/ ~doing[c].mask.dma /\ goOn(FALSE) /\ UNCHANGED dmaInts
     \/ /\ doing[c].mask.dma /\ remap \in 0 .. NumFifos - 1
        /\ dmaInts' = IF doing[c].op = "enable" THEN dmaInts \cup {remap} ELSE dmaInts \ {remap}
        /\ goOn(FALSE)
     \/ /\ doing[c].mask.dma /\ (remap \notin 0 .. NumFifos - 1 \/ MayFail)
        /\ goOn(TRUE) /\ UNCHANGED dmaInts
  /\ UNCHANGED <<memory, intReg, algMask, algInt, fifo, asked, sourced>>

\* Mutants: = for |=, and ^= for &= ~.
OnlyMask(held, mask)   == mask
ToggleMask(held, mask) == (held \ mask) \cup (mask \ held)

WithMask(held, mask)    == held \cup mask
WithoutMask(held, mask) == held \ mask

\* handle->ints_enabled |= mask, or &= ~mask: the load, and the store.
LoadInts(c) ==
  /\ doing[c].at = "load"
  /\ Goes(c, [doing[c] EXCEPT !.at = "store",
               !.ints = IF doing[c].op = "enable" THEN WithMask(intsEnabled, doing[c].mask.ints)
                        ELSE WithoutMask(intsEnabled, doing[c].mask.ints)])
  /\ UNCHANGED <<memory, hardware, asked, sourced>>

StoreInts(c) ==
  /\ doing[c].at = "store"
  /\ intsEnabled' = doing[c].ints
  /\ Goes(c, [doing[c] EXCEPT !.at = "write"])
  /\ UNCHANGED <<remap, hardware, asked, sourced>>

\* SDM35541_Set_IT_Mask(handle->ints_enabled): the compiler may load the field
\* again or not.
WriteInts(c) ==
  /\ doing[c].at = "write"
  /\ \/ /\ intReg' \in {doing[c].ints, intsEnabled}
        /\ Returns(c, AnyError(doing[c].error, FALSE))
     \/ MayFail /\ Returns(c, TRUE) /\ UNCHANGED intReg
  /\ UNCHANGED <<memory, algMask, algInt, fifo, dmaInts, asked, sourced>>

----------------------------------------------------------------------------
\* The other functions

\* dma_channel_remap[channel] = fifo_source.
Remap(f) == f

\* SDM35541_DMA_Set_Source up to the write of the request source.
BeginSetSource(c) ==
  /\ \E f \in 0 .. NumFifos - 1 :
       /\ \E error \in {FALSE, MayFail} :
            Begin(c, [Frame(c, "source") EXCEPT !.at = "fifo", !.fifo = f, !.error = error])
       /\ remap' = Remap(f)
  /\ sourced' = FALSE
  /\ UNCHANGED <<intsEnabled, hardware, asked>>

\* The write of fifo_source + 1.
WriteFifo(c) ==
  /\ doing[c].at = "fifo"
  /\ \/ /\ fifo' = doing[c].fifo
        /\ Returns(c, doing[c].error)
        /\ sourced' = (~doing[c].error /\ ~doing[c].disturbed)
     \/ MayFail /\ Returns(c, TRUE) /\ UNCHANGED <<fifo, sourced>>
  /\ UNCHANGED <<memory, intReg, algMask, algInt, dmaInts, asked>>

\* SDM35541_ALGDIO_Set_Mask reads the register and then writes it.
BeginSetPins(c) ==
  /\ \E pins \in SUBSET {Pin} :
       Begin(c, [Frame(c, "pins") EXCEPT !.at = "pins", !.alg = (algMask \ {Pin}) \cup pins])
  /\ UNCHANGED <<memory, hardware, asked, sourced>>

WritePins(c) ==
  /\ doing[c].at = "pins"
  /\ \/ algMask' = doing[c].alg /\ Returns(c, FALSE)
     \/ MayFail /\ Returns(c, TRUE) /\ UNCHANGED algMask
  /\ UNCHANGED <<memory, intReg, algInt, fifo, dmaInts, asked, sourced>>

\* SDM35541_Gbc_Board_Reset: the board's registers, not the library's memory.
BoardReset(c) ==
  /\ Begin(c, NoCall)
  /\ intReg' = {} /\ algMask' = {} /\ algInt' = {} /\ fifo' = None /\ dmaInts' = {}
  /\ sourced' = FALSE
  /\ UNCHANGED <<memory, asked>>

\* An edge on a pin whose interrupt is enabled.
PinEdge ==
  /\ Edge \in algMask /\ Edge \notin algInt
  /\ algInt' = algInt \cup {Edge}
  /\ UNCHANGED <<memory, intReg, algMask, fifo, dmaInts, doing, calls, asked, sourced, last>>

----------------------------------------------------------------------------

CallerStep(c) ==
  \/ BeginEnable(c) \/ BeginDisable(c) \/ WriteAlgdio(c) \/ ConfigureDma(c)
  \/ LoadInts(c) \/ StoreInts(c) \/ WriteInts(c)
  \/ BeginSetSource(c) \/ WriteFifo(c) \/ BeginSetPins(c) \/ WritePins(c) \/ BoardReset(c)

EnableNext == PinEdge \/ \E c \in Threads : CallerStep(c)

EnableSpec == EnableInit /\ [][EnableNext]_enableVars

----------------------------------------------------------------------------
\* Properties

FifoType == {None} \cup 0 .. NumFifos - 1

FrameType ==
  [op : {"none", "enable", "disable", "source", "pins"},
   at : {"idle", "algdio", "dma", "load", "store", "write", "fifo", "pins"},
   mask : MaskType, fifo : FifoType, alg : SUBSET {Edge, Pin}, ints : SUBSET Ints,
   error : BOOLEAN, before : SUBSET Ints, disturbed : BOOLEAN]

EnableTypeOK ==
  /\ intsEnabled \subseteq Ints /\ remap \in FifoType
  /\ intReg \subseteq Ints /\ algMask \subseteq {Edge, Pin} /\ algInt \subseteq {Edge, Pin}
  /\ fifo \in FifoType /\ dmaInts \subseteq 0 .. NumFifos - 1
  /\ doing \in [Threads -> FrameType] /\ last \in FrameType /\ calls \in 0 .. MaxCalls
  /\ asked \subseteq Ints /\ sourced \in BOOLEAN

\* Whatever updates of ints_enabled the threads lose to each other, and
\* whatever a reset leaves behind in it, no board-level interrupt is enabled
\* that nobody ever called Enable for.
NothingUnasked == intReg \subseteq asked

\* A call that has returned 0 and that no other call overlapped has done to the
\* INT register what its mask says, and left all other sources as the handle
\* had them, also after calls that failed half-way.
ExactlyTheMask ==
  ~last.error /\ ~last.disturbed =>
    /\ last.op = "enable"  => intReg = last.before \cup last.mask.ints
    /\ last.op = "disable" => intReg = last.before \ last.mask.ints

\* "This function must be called after SDM35541_DMA_Set_Source": when a call of
\* Enable for INT_DMA_0 has returned 0 after that, the DMA channel whose
\* interrupts are on is the one that the board uses.
DmaIntIsOfItsFifo ==
  last.op = "enable" /\ last.mask.dma /\ ~last.error /\ ~last.disturbed /\ sourced =>
    fifo \in dmaInts

\* What is on after a call that returned 0 is what the call asked for, and at the
\* source that it is for.
EnabledIsExact == ExactlyTheMask /\ DmaIntIsOfItsFifo
=============================================================================
