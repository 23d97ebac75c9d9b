----------------------------- MODULE Programs -----------------------------
(***************************************************************************)
(* The example programs as users of the library: the calls of ProgramText  *)
(* in their order, any of which may fail, and what each leaves in force    *)
(* on the board and in the library.  A call that fails ends the program,   *)
(* through its Cleanup when it has one (Fail), at once otherwise           *)
(* (check_result); but of some calls no program looks at the result, and   *)
(* it goes on as if they had worked.                                       *)
(***************************************************************************)
EXTENDS ProgramText, Integers, FiniteSets

CONSTANT MaxFaults   \* bound of the model: calls that are seen to fail

VARIABLES
  program,  \* which one this is
  part,     \* 1 up to the main loop, 2 the rest, 3 Cleanup
  place,    \* the next call in that part
  inForce,  \* calls whose effect has not been undone
  ended,    \* "no", "done", or "failed"
  faults,   \* calls that were seen to fail
  ignored,  \* calls that failed without the program's looking at it
  nested,   \* Cleanup runs inside Cleanup: the parity of its depth
  early     \* history: a function block was used before it was open

vars == <<program, part, place, inForce, ended, faults, ignored, nested, early>>

Open  == Call(<<"Board_Open">>)[1]
Block == Call(<<"Function_Block_Open">>)[1]

\* Functions that need no function block, and those that need no board either.
OfBoard == {"Board_Open", "Gbc_Board_Reset", "Function_Block_Open", "Board_Close"}
Boardless == {"Board_Open", "General_Enum_Boards", "Loop"}

Channels == {"adc", "hsdin", "dac"}

\* Callbacks are threads of the library: a board reset leaves them.
IsCallback(step) == step[1] \in {"Interrupt_Install_Callback", "DMA_Install_Callback"}

\* Whether `step' undoes what the call s has set up.
Undoes(step, s) ==
  CASE step[1] = "Gbc_Board_Reset"           -> s \notin {Open, Block} /\ ~IsCallback(s)
    [] step[1] = "Board_Close"               -> s \in {Open, Block}
    [] step[1] = "Interrupt_Remove_Callback" -> s = Install[1]
    [] step[1] = "DMA_Remove_Callback"       -> s = <<"DMA_Install_Callback", step[2]>>
    [] step[1] = "PCLK_Stop"                 -> s = <<"PCLK_Start", "">>
    [] step[1] = "UTC_Stop"                  -> s = <<"UTC_Run", step[2]>>
    [] step[1] = "Dma_Stop"                  -> s = <<"Dma_Start", step[2]>>
    [] step[1] = "Dma_Irqs_Off"              -> s = <<"Dma_Irqs", step[2]>>
    [] step[1] = "Interrupt_Disable"         -> s = <<"Interrupt_Enable", "">>
    [] OTHER                                 -> FALSE

\* Calls that leave nothing behind, and the others.
Passing == {"Gbc_Board_Reset", "Board_Close", "Interrupt_Remove_Callback", "DMA_Remove_Callback",
            "PCLK_Stop", "UTC_Stop", "Dma_Stop", "Dma_Irqs_Off", "Interrupt_Disable", "Loop",
            "General_Enum_Boards", "FIFO_Get_Status", "FIFO_Size"}
Lasting(step) == step[1] \notin Passing

After(step) == {s \in inForce : ~Undoes(step, s)} \cup {s \in {step} : Lasting(s)}

----------------------------------------------------------------------------

Init ==
  /\ program \in Programs
  /\ part = (IF Text[program][1] = None THEN 2 ELSE 1) /\ place = 1
  /\ inForce = {} /\ ended = "no" /\ faults = 0 /\ ignored = {} /\ nested = FALSE /\ early = FALSE

Step == Text[program][part][place]

DmaFunctions == {"Dma_Setup", "Dma_Irqs", "Dma_Irqs_Off", "Dma_Buffer_Setup", "Dma_Start", "Dma_Stop"}

\* An error of the board or the operating system.  The library refuses a null
\* handle, and a DMA channel of a function block that is not open: it has none.
MayFail  == faults < MaxFaults
MustFail ==
  \/ Step[1] \notin Boardless /\ Open \notin inForce
  \/ Step[1] \in DmaFunctions /\ Block \notin inForce

\* Mutant: the first call after the main loop is left out.
SecondOfRest == 2

\* Where a program goes on after its main loop.
FirstOfRest == 1

Advances ==
  CASE place < Len(Text[program][part]) -> place' = place + 1 /\ UNCHANGED <<part, ended>>
    [] place = Len(Text[program][part]) /\ part = 1 -> part' = 2 /\ place' = FirstOfRest /\ UNCHANGED ended
    [] OTHER -> ended' = (IF part = 3 THEN "failed" ELSE "done") /\ UNCHANGED <<part, place>>

Works ==
  /\ ended = "no" /\ ~MustFail
  /\ inForce' = After(Step)
  /\ early' = (early \/ (Step[1] \notin OfBoard \cup Boardless /\ part # 3 /\ Block \notin inForce))
  /\ Advances
  /\ UNCHANGED <<program, faults, ignored, nested>>

\* A call fails and nobody looks.
Ignores ==
  /\ ended = "no" /\ Step \in Unchecked(program)
  /\ ignored' = ignored \cup {Step}
  /\ Advances
  /\ UNCHANGED <<program, inForce, faults, nested, early>>

\* The calls of the program's own Cleanup at its normal end are checked as in Cleanup.
InCleanup ==
  \/ part = 3
  \/ part = 2 /\ Len(Text[program][2]) - place < Len(Text[program][3])

\* The two simultaneous programs call Fail, and so Cleanup, when Dma_Stop fails in it.
Reenters(p, step) == p \in {"AdcDacSimul", "AdcHsdinSimul"} /\ step[1] = "Dma_Stop"
Again == Reenters(program, Step)

\* Mutant: Fail prints its message and returns.
FailPrints ==
  /\ ended = "no" /\ MayFail /\ Step \notin Unchecked(program)
  /\ Advances /\ faults' = faults + 1
  /\ UNCHANGED <<program, inForce, ignored, nested, early>>

\* Fail calls Cleanup; check_result exits.
Fails ==
  /\ ended = "no" /\ (MayFail \/ MustFail) /\ Step \notin Unchecked(program)
  /\ IF Text[program][3] # None /\ ~ExitsAtOnce(program, Step) /\ (~InCleanup \/ Again)
     THEN part' = 3 /\ place' = 1 /\ nested' = (nested # InCleanup) /\ UNCHANGED ended
     ELSE ended' = "failed" /\ UNCHANGED <<part, place, nested>>
  /\ faults' = (IF MustFail THEN faults ELSE faults + 1)
  /\ UNCHANGED <<program, inForce, ignored, early>>

Next == Works \/ Ignores \/ Fails

Spec == Init /\ [][Next]_vars

\* Every call returns.
FairSpec == Spec /\ WF_vars(Next)

----------------------------------------------------------------------------
\* Properties

\* The program is at one of its calls.
TypeOK ==
  /\ program \in Programs /\ part \in 1 .. 3
  /\ place \in 1 .. Len(Text[program][part])
  /\ faults \in 0 .. MaxFaults /\ ignored \subseteq Unchecked(program)
  /\ ended \in {"no", "done", "failed"}

\* What makes the board sample or convert.
Producers == {<<"PCLK_Start", "">>, <<"DAC_Start", "">>, <<"UTC_Run", "utc0">>}
Producing == inForce \cap Producers # {}

\* Up to the main loop, into which the last call of the first part leads.
BeforeMainLoop == part = 1 \/ (part = 2 /\ place = 1)

\* The calls of program p before its Cleanup.
Calls(p, step) == \E k \in {1, 2} : \E i \in DOMAIN Text[p][k] : Text[p][k][i] = step

\* What the channels on which p runs DMA need: the callback, where p has one.
NeededByDma(p) ==
  UNION {{<<f, c>> : f \in {"DMA_Set_Source", "Dma_Setup", "Dma_Buffer_Setup", "DMA_Request_Transfer",
                            "Dma_Start"}}
         \cup {s \in {<<"DMA_Install_Callback", c>>} : Calls(p, s)} :
         c \in {d \in Channels : Calls(p, <<"Dma_Start", d>>)}}

\* What the pacer clock needs of a program that is told of interrupts.
NeededByInterrupts(p) ==
  IF Calls(p, Install[1]) /\ Calls(p, <<"PCLK_Start", "">>)
  THEN {Install[1], <<"Interrupt_Enable", "">>} ELSE {}

Needed(p) == NeededByDma(p) \cup NeededByInterrupts(p)

\* AdcDma.cpp, after the setup of its channel: Fail(result, "Error setting up ADC
\* DMA.").  Nothing is sampled that the program would miss: up to the main loop,
\* when a clock runs, the DMA channels have been set up in full, requests have been
\* queued, callbacks installed and the channels started.
NothingIsMissed == BeforeMainLoop /\ Producing => NeededByDma(program) \subseteq inForce

\* When a clock runs up to the main loop, all that the DMA channels and the
\* interrupts of the program need has been set up before, but for set-ups that have
\* failed without the program's looking at it: every other failure has kept the
\* clock from being started.  And no function block is used before it is open.
OnlyIgnoredIsMissed ==
  /\ BeforeMainLoop /\ Producing => Needed(program) \subseteq inForce \cup ignored
  /\ ~early

\* A program that ends as planned, and one that Fail ends because of a single call
\* outside Cleanup, whatever other failures it has ignored, has closed the board with
\* no callback thread left and nothing running.  TimerInterrupt's Cleanup does not
\* remove its callback, and programs without a Cleanup leave that to the operating
\* system.
EndsClean ==
  /\ ended = "done" => inForce = {}
  /\ (/\ ended = "failed" /\ part = 3 /\ faults = 1
      /\ program # "TimerInterrupt") => inForce = {}

\* "Close board, clean up interrupts, and free memory": a program whose Cleanup
\* has begun comes to its end.
CleanupEnds == part = 3 ~> ended # "no"
=============================================================================
