----------------------------- MODULE MCPrograms -----------------------------
(***************************************************************************)
(* The example programs for TLC: those that stream by DMA (DmaStream, with *)
(* MCDmaStream's bounds), those that wait for interrupts (InterruptApp),   *)
(* and all of them as texts of calls (Programs).  A process is one of      *)
(* these, `part'; the variables of the others stay as they are.            *)
(***************************************************************************)
EXTENDS MCDmaStream

CONSTANTS
  Goal, MaxEvents,   \* InterruptApp's
  InterruptFaults,   \* InterruptApp's and Programs' MaxFaults
  ProgramFaults

ASSUME WaiterAssumption == Goal \in Nat /\ MaxEvents \in Nat /\ InterruptFaults \in Nat
ASSUME ProgramFaultsAssumption == ProgramFaults \in Nat

VARIABLES
  part,
  iApp, iRaised, iEvents, iPending, iThread, iBroken, iSection, iDeleted, iOccurred, iResult,
  iCopied, iStatus, iCounted, iRounds, iPc, iExiting, iFailing, iFaults, iGuessed,
  pProgram, pPart, pPlace, pInForce, pEnded, pFaults, pIgnored, pNested, pEarly

InterruptApps ==
  {"DioEvent", "DioMatch", "TimerInterrupt", "DelayInterrupt", "AboutInterrupt",
   "CgtResetInterrupt", "ExternalTriggerInterrupt"}

Waiter == INSTANCE InterruptApp WITH
  app <- iApp, raised <- iRaised, events <- iEvents, pending <- iPending, thread <- iThread,
  broken <- iBroken, section <- iSection, deleted <- iDeleted, occurred <- iOccurred,
  result <- iResult, copied <- iCopied, status <- iStatus, counted <- iCounted,
  rounds <- iRounds, pc <- iPc, exiting <- iExiting, failing <- iFailing, faults <- iFaults,
  guessed <- iGuessed,
  Apps <- InterruptApps, MaxFaults <- InterruptFaults

Program == INSTANCE Programs WITH
  program <- pProgram, part <- pPart, place <- pPlace, inForce <- pInForce, ended <- pEnded,
  faults <- pFaults, ignored <- pIgnored, nested <- pNested, early <- pEarly, MaxFaults <- ProgramFaults

----------------------------------------------------------------------------
\* What is so of the programs' texts: closed facts, which TLC evaluates and the proof
\* that CallsAreOrdered rests on.

\* The calls of program p when none fails, in their order.
Course(p) == Program!Text[p][1] \o Program!Text[p][2]

\* Before its n-th call: s was made, and no call since undoes it.
Standing(p, s, n) ==
  \E i \in 1 .. n - 1 :
    /\ Course(p)[i] = s /\ Program!Lasting(s)
    /\ \A j \in i + 1 .. n - 1 : ~Program!Undoes(Course(p)[j], s)

\* A program has a call between its main loop and its end.
ASSUME TextAssumption ==
  \A p \in Program!Programs :
    /\ \A k \in 1 .. 3 : Program!Text[p][k] \in Seq(STRING \X STRING)
    /\ Program!Text[p][2] # <<>>

\* The board is open when a call needs it, and so is the function block; the board is
\* closed last.
ASSUME OpenAssumption ==
  \A p \in Program!Programs : \A n \in 1 .. Len(Course(p)) :
    LET step == Course(p)[n] IN
    /\ step[1] = "Board_Open" => step = Program!Open
    /\ step[1] \notin Program!Boardless => Standing(p, Program!Open, n)
    /\ step[1] \notin Program!OfBoard \cup Program!Boardless => Standing(p, Program!Block, n)
    /\ Program!Undoes(step, Program!Open) => n = Len(Course(p))

\* Before the main loop, what samples or converts is started after all that a DMA
\* channel of the program needs.
ASSUME ClockLastAssumption ==
  \A p \in Program!Programs : \A i \in 1 .. Len(Program!Text[p][1]) :
    Course(p)[i] \in Program!Producers =>
      \A s \in Program!Needed(p) : \A n \in i + 1 .. Len(Program!Text[p][1]) + 1 : Standing(p, s, n)

\* A call whose result is not looked at undoes nothing, and is none of Cleanup's.
ASSUME UncheckedAssumption ==
  \A p \in Program!Programs : \A s \in Program!Unchecked(p) :
    /\ s \notin {Program!Open, Program!Block}
    /\ \A n \in 1 .. Len(Course(p)) : ~Program!Undoes(s, Course(p)[n])
    /\ \A j \in 1 .. Len(Program!Text[p][3]) : Program!Text[p][3][j] # s

\* What a program sets up, a later call of it undoes.
ASSUME EndAssumption ==
  \A p \in Program!Programs : \A n \in 1 .. Len(Course(p)) :
    Program!Lasting(Course(p)[n]) =>
      \E j \in n + 1 .. Len(Course(p)) : Program!Undoes(Course(p)[j], Course(p)[n])

\* Where there is a Cleanup, but for TimerInterrupt's, it undoes that too; it sets up
\* nothing, and closes the board last.
ASSUME CleanupAssumption ==
  \A p \in Program!Programs \ {"TimerInterrupt"} : LET clean == Program!Text[p][3] IN
    clean # Program!None =>
      /\ \A n \in 1 .. Len(Course(p)) : Program!Lasting(Course(p)[n]) =>
           \E j \in 1 .. Len(clean) : Program!Undoes(clean[j], Course(p)[n])
      /\ \A j \in 1 .. Len(clean) :
           /\ ~Program!Lasting(clean[j])
           /\ Program!Undoes(clean[j], Program!Open) => j = Len(clean)
           /\ clean[j][1] \in Program!DmaFunctions => Program!Reenters(p, clean[j])

streamVars == vars
iVars == <<iApp, iRaised, iEvents, iPending, iThread, iBroken, iSection, iDeleted, iOccurred,
           iResult, iCopied, iStatus, iCounted, iRounds, iPc, iExiting, iFailing, iFaults,
           iGuessed>>
pVars == <<pProgram, pPart, pPlace, pInForce, pEnded, pFaults, pIgnored, pNested, pEarly>>

\* A part that is not started has one initial state.
ProgramsInit ==
  /\ part \in {"stream", "interrupt", "program"}
  /\ Init /\ Waiter!Init /\ Program!Init
  /\ part # "stream" => app = "AdcDma"
  /\ part # "interrupt" => iApp = "DioEvent"
  /\ part # "program" => pProgram = "Adc"

\* The steps of one part leave the others alone.
OnlyStream    == UNCHANGED <<part, iVars, pVars>>
OnlyInterrupt == UNCHANGED <<part, streamVars, pVars>>
OnlyProgram   == UNCHANGED <<part, streamVars, iVars>>

StreamPart ==
  \/ \E s \in Streams : \/ part = "stream" /\ Sample(s) /\ OnlyStream
                        \/ part = "stream" /\ Lose(s) /\ OnlyStream
  \/ \E s \in Streams, b \in Buffers :
       \/ part = "stream" /\ CallbackEnters(s, b) /\ OnlyStream
       \/ part = "stream" /\ CallbackLeaves(s, b) /\ OnlyStream
       \/ part = "stream" /\ UsesDeleted(s, b) /\ OnlyStream
       \/ \E o \in Buffers : part = "stream" /\ ThreadFails(s, b, o) /\ OnlyStream
       \/ part = "stream" /\ RemoveCallback(s, b) /\ OnlyStream
       \/ part = "stream" /\ RemoveFails(s, b) /\ OnlyStream
  \/ part = "stream" /\ CtrlC /\ OnlyStream
  \/ part = "stream" /\ HandleInterrupt /\ OnlyStream
  \/ part = "stream" /\ LoopEnds /\ OnlyStream
  \/ part = "stream" /\ Look /\ OnlyStream
  \/ part = "stream" /\ Enter /\ OnlyStream
  \/ part = "stream" /\ Drain /\ OnlyStream
  \/ part = "stream" /\ Leave /\ OnlyStream
  \/ part = "stream" /\ ClearFlags /\ OnlyStream
  \/ part = "stream" /\ ClearInterrupts /\ OnlyStream
  \/ part = "stream" /\ Stop /\ OnlyStream
  \/ part = "stream" /\ DeleteSection /\ OnlyStream
  \/ part = "stream" /\ StopDma /\ OnlyStream
  \/ part = "stream" /\ Close /\ OnlyStream

InterruptPart ==
  \/ \E source \in Waiter!Sources : part = "interrupt" /\ Waiter!Raise(source) /\ OnlyInterrupt
  \/ part = "interrupt" /\ Waiter!CallbackEnters /\ OnlyInterrupt
  \/ part = "interrupt" /\ Waiter!CallbackLeaves /\ OnlyInterrupt
  \/ part = "interrupt" /\ Waiter!ThreadFails /\ OnlyInterrupt
  \/ part = "interrupt" /\ Waiter!UsesDeleted /\ OnlyInterrupt
  \/ part = "interrupt" /\ Waiter!CtrlC /\ OnlyInterrupt
  \/ part = "interrupt" /\ Waiter!StartAgain /\ OnlyInterrupt
  \/ part = "interrupt" /\ Waiter!LoopEnds /\ OnlyInterrupt
  \/ part = "interrupt" /\ Waiter!Look /\ OnlyInterrupt
  \/ part = "interrupt" /\ Waiter!Poll /\ OnlyInterrupt
  \/ part = "interrupt" /\ Waiter!Waited /\ OnlyInterrupt
  \/ part = "interrupt" /\ Waiter!CheckResult /\ OnlyInterrupt
  \/ part = "interrupt" /\ Waiter!Take /\ OnlyInterrupt
  \/ part = "interrupt" /\ Waiter!ReadStatus /\ OnlyInterrupt
  \/ part = "interrupt" /\ Waiter!AnswerDio /\ OnlyInterrupt
  \/ part = "interrupt" /\ Waiter!ClearMask /\ OnlyInterrupt
  \/ part = "interrupt" /\ Waiter!ClearOverrun /\ OnlyInterrupt
  \/ part = "interrupt" /\ Waiter!ClearFlag /\ OnlyInterrupt
  \/ part = "interrupt" /\ Waiter!StopTimers /\ OnlyInterrupt
  \/ part = "interrupt" /\ Waiter!DeleteSection /\ OnlyInterrupt
  \/ part = "interrupt" /\ Waiter!RemoveCallback /\ OnlyInterrupt
  \/ part = "interrupt" /\ Waiter!RemoveFails /\ OnlyInterrupt
  \/ part = "interrupt" /\ Waiter!Close /\ OnlyInterrupt

ProgramPart ==
  \/ part = "program" /\ Program!Works /\ OnlyProgram
  \/ part = "program" /\ Program!Ignores /\ OnlyProgram
  \/ part = "program" /\ Program!Fails /\ OnlyProgram

ProgramsNext == StreamPart \/ InterruptPart \/ ProgramPart

allVars == <<part, streamVars, iVars, pVars>>

\* The fairness of the program that is started.
ProgramsFairness ==
  /\ WF_allVars(part = "stream" /\ Main /\ OnlyStream)
  /\ \A s \in Streams, b \in Buffers :
       WF_allVars(part = "stream" /\ Callback(s, b) /\ OnlyStream)
  /\ WF_allVars(part = "interrupt" /\ Waiter!Main /\ OnlyInterrupt)
  /\ WF_allVars(part = "interrupt" /\ Waiter!Callback /\ OnlyInterrupt)

ProgramsSpec == ProgramsInit /\ [][ProgramsNext]_allVars /\ ProgramsFairness

----------------------------------------------------------------------------
\* The properties of the programs.  DataIsSound and ReportedIsTaken are DmaStream's.

\* The variables of every program are what they are declared to be.
PartsTypeOK ==
  CASE part = "stream"    -> TypeOK
    [] part = "interrupt" -> Waiter!TypeOK
    [] part = "program"   -> Program!TypeOK

\* An interrupt that came while the main loop was about to look again is
\* looked for in the register.
RaisedIsServed == Waiter!RaisedIsServed

\* No program sleeps while there is data or an interrupt that it was told of.
NothingUnnoticed == ReportedIsNoticed /\ Waiter!RaisedIsNoticed

\* Ctrl-C, an error or the last sample ends the process.
ProgramsEnd == ProgramEnds /\ Waiter!CtrlCEnds

\* No interrupt is counted twice.
CountedOnce == Waiter!CountedOnce

\* The clocks start when everything that takes the samples is ready, but for what
\* failed and was not looked at, and a program that ends leaves nothing running,
\* and no callback.
CallsAreOrdered == Program!OnlyIgnoredIsMissed /\ Program!EndsClean
=============================================================================
