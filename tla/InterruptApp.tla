---------------------------- MODULE InterruptApp ----------------------------
(***************************************************************************)
(* The applications that wait for the board's interrupts.  Five install a  *)
(* callback, which sets a flag: TimerInterrupt, DelayInterrupt,            *)
(* AboutInterrupt, CgtResetInterrupt and ExternalTriggerInterrupt.  Two    *)
(* poll the interrupt register: DioEvent and DioMatch.  The main thread,   *)
(* the callback thread, the flag and the critical section they share, the  *)
(* board's interrupt register, Ctrl-C and the cleanup.                     *)
(*                                                                         *)
(* NotifyThread shows what is assumed of the library here: each interrupt  *)
(* is told once, and a thread that ends by an error tells that.            *)
(***************************************************************************)
EXTENDS Integers, FiniteSets

CONSTANTS
  Apps,        \* the programs that are modelled: a subset of AllApps
  Goal,        \* interrupts the program waits for, or rounds that it polls
  MaxEvents,   \* bound of the model: interrupts of the board
  MaxFaults    \* bound of the model: calls and threads that fail

Polling == {"DioEvent", "DioMatch"}
AllApps == Polling \cup {"TimerInterrupt", "DelayInterrupt", "AboutInterrupt",
                         "CgtResetInterrupt", "ExternalTriggerInterrupt"}

\* The source that is counted, and the timer's second one.
Sources == {"counted", "inverted"}

VARIABLES
  app,       \* which program this is
  raised,    \* the bits of the INT register that are set
  events,    \* history: how often the counted bit was set
  pending,   \* interrupts that the callback thread has not taken
  thread,    \* the callback thread: "idle", "in", "stuck", "gone"
  broken,    \* the callback thread has met an error
  section,   \* critical_section: "free", "main", "callback"
  deleted,   \* critical_section was deleted
  occurred,  \* has_interrupt_occurred
  result,    \* callback_result, interrupt_result: an error
  copied,    \* int_result: main's copy of the result
  status,    \* main's copy of the INT register
  counted,   \* interrupts the program has counted
  rounds,    \* rounds of a polling program
  pc,        \* the main thread
  exiting,   \* exit_program
  failing,   \* Cleanup was called by Fail
  faults,    \* calls and threads that failed
  guessed    \* history: status was used though it was never read

interrupt == <<raised, events, pending>>
callback  == <<thread, broken, occurred, result>>
lock      == <<section, deleted>>
counts    == <<copied, status, counted, rounds, guessed>>
vars == <<app, interrupt, callback, lock, counts, pc, exiting, failing, faults>>

----------------------------------------------------------------------------
\* The programs' differences

\* Clears the flag at the end of the loop.
ClearsLate == app = "TimerInterrupt"

\* Looks at the callback's result before it enters the section.
ChecksFirst == app \in {"TimerInterrupt", "ExternalTriggerInterrupt"}

\* Mutant: only one program does.
HeedsCtrlCOnce == app = "AboutInterrupt"

\* The loop looks at exit_program.
HeedsCtrlC == app \notin {"DelayInterrupt", "DioMatch"}

\* AboutInterrupt's loop runs while `interrupts <= 10'.
LoopDone ==
  CASE app \in Polling        -> rounds >= Goal
    [] app = "AboutInterrupt" -> counted > Goal
    [] OTHER                  -> counted >= Goal

\* Sources that interrupt.
Enabled == IF app = "TimerInterrupt" THEN Sources ELSE {"counted"}

Init ==
  /\ app \in Apps
  /\ raised = {} /\ events = 0 /\ pending = 0
  /\ thread = (IF app \in Polling THEN "gone" ELSE "idle") /\ broken = FALSE
  /\ section = "free" /\ deleted = FALSE
  /\ occurred = FALSE /\ result = FALSE /\ copied = FALSE
  /\ status = {} /\ counted = 0 /\ rounds = 0 /\ pc = "loop"
  /\ exiting = FALSE /\ failing = FALSE /\ faults = 0 /\ guessed = FALSE

Running == pc \notin {"done", "exited"}

Fault == faults < MaxFaults /\ faults' = faults + 1

\* A call of main succeeds and main goes on, or it fails and Fail calls Cleanup.
Succeeds(next) == pc' = next /\ UNCHANGED <<failing, faults>>
CallFails      == Fault /\ failing' = TRUE /\ pc' = "cleanup"

----------------------------------------------------------------------------
\* The board and the driver (external)

\* An event sets its bit and interrupts; a bit that is set is an overrun.
Raise(source) ==
  /\ Running /\ source \in Enabled \ raised
  /\ events < MaxEvents
  /\ raised' = raised \cup {source}
  /\ events' = (IF source = "counted" THEN events + 1 ELSE events)
  /\ pending' = (IF thread = "gone" THEN pending ELSE pending + 1)
  /\ UNCHANGED <<app, callback, lock, counts, pc, exiting, failing, faults>>

----------------------------------------------------------------------------
\* The callback thread: MyCallback

CallbackEnters ==
  /\ Running /\ thread = "idle" /\ pending > 0
  /\ section = "free" /\ ~deleted
  /\ section' = "callback" /\ thread' = "in"
  /\ pending' = pending - 1
  /\ occurred' = TRUE /\ result' = FALSE
  /\ UNCHANGED <<app, raised, events, broken, deleted, counts, pc, exiting, failing, faults>>

CallbackLeaves ==
  /\ Running /\ thread = "in" /\ ~deleted
  /\ section' = "free" /\ thread' = (IF broken THEN "gone" ELSE "idle")
  /\ UNCHANGED <<app, interrupt, broken, occurred, result, deleted, counts, pc, exiting,
                 failing, faults>>

\* The thread ends by an error, of which it tells the callback.
ThreadFails ==
  /\ Running /\ thread = "idle" /\ section = "free" /\ ~deleted
  /\ Fault
  /\ section' = "callback" /\ thread' = "in" /\ broken' = TRUE
  /\ occurred' = TRUE /\ result' = TRUE
  /\ UNCHANGED <<app, interrupt, deleted, counts, pc, exiting, failing>>

\* A callback enters or leaves the deleted section: it works, hangs or crashes.
UsesDeleted ==
  /\ Running /\ deleted
  /\ \/ thread = "idle" /\ pending > 0 /\ pending' = pending - 1
     \/ thread = "in" /\ UNCHANGED pending
  /\ \/ thread' \in {"idle", "stuck"} /\ UNCHANGED pc
     \/ pc' = "exited" /\ UNCHANGED thread
  /\ UNCHANGED <<app, raised, events, broken, lock, occurred, result, counts, exiting,
                 failing, faults>>

----------------------------------------------------------------------------
\* The main loop

\* CtrlCHandler.
CtrlC ==
  /\ Running /\ ~exiting
  /\ exiting' = TRUE
  /\ UNCHANGED <<app, interrupt, callback, lock, counts, pc, failing, faults>>

LoopEnds ==
  /\ pc = "loop" /\ (LoopDone \/ (HeedsCtrlC /\ exiting))
  /\ pc' = "stop"
  /\ UNCHANGED <<app, interrupt, callback, lock, counts, exiting, failing, faults>>

MayLoop == pc = "loop" /\ ~LoopDone /\ ~(HeedsCtrlC /\ exiting)

\* has_int: an interrupt has occurred; otherwise main sleeps and looks again.
Look ==
  /\ MayLoop /\ section = "free" /\ occurred
  /\ copied' = result
  /\ Succeeds(IF ChecksFirst THEN "check" ELSE "take")
  /\ UNCHANGED <<app, interrupt, callback, lock, status, counted, rounds, guessed, exiting>>

\* DelayInterrupt starts the pacer clock in each round, also when it sleeps.
StartAgain ==
  /\ MayLoop /\ app = "DelayInterrupt"
  /\ CallFails
  /\ UNCHANGED <<app, interrupt, callback, lock, counts, exiting>>

\* A polling program writes the port and waits.
Poll ==
  /\ MayLoop /\ app \in Polling
  /\ rounds' = rounds + 1
  /\ pc' = (IF HeedsCtrlC THEN "waited" ELSE "read")
  /\ UNCHANGED <<app, interrupt, callback, lock, copied, status, counted, guessed, exiting,
                 failing, faults>>

\* DioEvent looks at exit_program once more after the wait.
Waited ==
  /\ pc = "waited"
  /\ pc' = (IF exiting THEN "stop" ELSE "read")
  /\ UNCHANGED <<app, interrupt, callback, lock, counts, exiting, failing, faults>>

\* Fail of the callback's result, without the section: ExternalTriggerInterrupt
\* has a copy, TimerInterrupt reads the variable once more.
CheckResult ==
  /\ pc = "check"
  /\ IF (IF ClearsLate THEN result ELSE copied)
     THEN failing' = TRUE /\ pc' = "cleanup"
     ELSE failing' = failing /\ pc' = (IF ClearsLate THEN "read" ELSE "take")
  /\ UNCHANGED <<app, interrupt, callback, lock, counts, exiting, faults>>

\* The flag is cleared in the section, and the result is looked at there.
Take ==
  /\ pc = "take" /\ section = "free"
  /\ occurred' = FALSE
  /\ IF ~ChecksFirst /\ result
     THEN failing' = TRUE /\ pc' = "cleanup" /\ section' = "main"
     ELSE pc' = "read" /\ UNCHANGED <<failing, section>>
  /\ UNCHANGED <<app, interrupt, thread, broken, result, deleted, counts, exiting, faults>>

\* SDM35541_Get_IT_Mask; CgtResetInterrupt goes on when it fails.
ReadStatus ==
  /\ pc = "read"
  /\ \/ /\ status' = raised
        /\ counted' = (IF "counted" \in raised THEN counted + 1 ELSE counted)
        /\ Succeeds(IF app \in Polling /\ raised # {} THEN "answer" ELSE "clear")
        /\ UNCHANGED guessed
     \/ app # "CgtResetInterrupt" /\ CallFails /\ UNCHANGED <<status, counted, guessed>>
     \/ /\ app = "CgtResetInterrupt" /\ Fault
        /\ status' \in SUBSET Sources /\ guessed' = TRUE
        /\ counted' = (IF "counted" \in status' THEN counted + 1 ELSE counted)
        /\ pc' = "clear" /\ UNCHANGED failing
  /\ UNCHANGED <<app, interrupt, callback, lock, copied, rounds, exiting>>

\* DIO_Clear_IRQ, and in DioMatch DIO_Set_Compare.
AnswerDio ==
  /\ pc = "answer"
  /\ Succeeds("clear") \/ CallFails
  /\ UNCHANGED <<app, interrupt, callback, lock, counts, exiting>>

\* Mutant: the bits stay set.
StillRaised == raised

\* What is left of the bits after a write of 0xFFFF.
AfterClear == {}

\* SDM35541_Clear_IT_Mask: every bit, also one that was set since it was read.
ClearMask ==
  /\ pc = "clear"
  /\ \/ raised' = AfterClear /\ Succeeds("overrun")
     \/ CallFails /\ UNCHANGED raised
  /\ UNCHANGED <<app, events, pending, callback, lock, counts, exiting>>

\* Mutant: every program clears the flag last.
AfterOverrunLate == "late"

AfterOverrun == IF ClearsLate THEN "late" ELSE "loop"

\* SDM35541_Clear_IT_Overrun.
ClearOverrun ==
  /\ pc = "overrun"
  /\ Succeeds(AfterOverrun) \/ CallFails
  /\ UNCHANGED <<app, interrupt, callback, lock, counts, exiting>>

\* TimerInterrupt clears the flag here.
ClearFlag ==
  /\ pc = "late" /\ section = "free"
  /\ occurred' = FALSE /\ pc' = "loop"
  /\ UNCHANGED <<app, interrupt, thread, broken, result, lock, counts, exiting, failing, faults>>

----------------------------------------------------------------------------
\* The end of the program, and Cleanup

\* The timers are stopped, in the two programs that have started them.
StopTimers ==
  /\ pc = "stop"
  /\ \/ Succeeds(IF app = "TimerInterrupt" THEN "remove" ELSE "cleanup")
     \/ app \in {"TimerInterrupt", "ExternalTriggerInterrupt"} /\ CallFails
  /\ UNCHANGED <<app, interrupt, callback, lock, counts, exiting>>

\* DeleteCriticalSection, whoever owns it.  TimerInterrupt's Cleanup removes DMA
\* callbacks, which it does not have, and DioEvent's and DioMatch's disables
\* the interrupt.
DeleteSection ==
  /\ pc = "cleanup"
  /\ deleted' = TRUE /\ section' = "free"
  /\ pc' = (IF app \in Polling \cup {"TimerInterrupt"} THEN "close" ELSE "remove")
  /\ UNCHANGED <<app, interrupt, callback, counts, exiting, failing, faults>>

AfterRemove == IF app = "TimerInterrupt" THEN "cleanup" ELSE "close"

\* SDM35541_Interrupt_Remove_Callback ends the thread once it waits; a thread
\* that has ended by itself or that is stuck is an error.
RemoveCallback ==
  /\ pc = "remove" /\ thread = "idle" /\ pending = 0
  /\ thread' = "gone" /\ pc' = AfterRemove
  /\ UNCHANGED <<app, interrupt, broken, occurred, result, lock, counts, exiting, failing, faults>>

\* check_result exits; TimerInterrupt calls Fail while main still runs.
RemoveFails ==
  /\ pc = "remove"
  /\ IF app = "TimerInterrupt" THEN failing' = TRUE /\ pc' = "cleanup"
                               ELSE pc' = "exited" /\ UNCHANGED failing
  /\ UNCHANGED <<app, interrupt, callback, lock, counts, exiting, faults>>

\* Gbc_Board_Reset and Board_Close; after a failure check_result exits.
Close ==
  /\ pc = "close"
  /\ \/ pc' = (IF failing THEN "exited" ELSE "done") /\ UNCHANGED faults
     \/ Fault /\ pc' = "exited"
  /\ UNCHANGED <<app, interrupt, callback, lock, counts, exiting, failing>>

----------------------------------------------------------------------------

Main ==
  \/ LoopEnds \/ Look \/ Poll \/ Waited \/ CheckResult \/ Take \/ ReadStatus
  \/ AnswerDio \/ ClearMask \/ ClearOverrun \/ ClearFlag \/ StopTimers \/ DeleteSection
  \/ RemoveCallback \/ RemoveFails \/ Close

Callback == CallbackEnters \/ CallbackLeaves

Next ==
  \/ \E source \in Sources : Raise(source)
  \/ Callback \/ ThreadFails \/ UsesDeleted \/ CtrlC \/ StartAgain \/ Main

Spec == Init /\ [][Next]_vars

\* Both threads keep running; nothing is assumed of the board.
Fairness == WF_vars(Main) /\ WF_vars(Callback)

FairSpec == Spec /\ Fairness

----------------------------------------------------------------------------
\* Properties

\* The threads, the flag and the counts are what they are declared to be.
TypeOK ==
  /\ app \in Apps /\ raised \subseteq Enabled /\ events \in 0 .. MaxEvents
  /\ pending \in Nat /\ thread \in {"idle", "in", "stuck", "gone"}
  /\ section \in {"free", "main", "callback"} /\ status \subseteq Sources
  /\ {occurred, result, copied, broken, deleted, exiting, failing, guessed}
       \subseteq BOOLEAN
  /\ counted \in Nat /\ rounds \in 0 .. Goal /\ faults \in 0 .. MaxFaults

\* No interrupt is counted twice, whatever comes between the read of the INT
\* register and its clearing, unless the register could not be read.
CountedOnce == guessed \/ counted <= events

\* In these programs an interrupt that is in the register when the loop begins, or that
\* comes once the bits were cleared, has set the flag or has its callback still to come,
\* whichever part of the loop the callbacks ran in, unless their thread has ended.
RaisedIsNoticed ==
  /\ app \in AllApps \ (Polling \cup {"TimerInterrupt"}) /\ ~broken
  /\ pc \in {"loop", "check", "take", "overrun"} /\ raised # {}
  => occurred \/ pending > 0

\* In the programs that clear the flag before they look at the register, no
\* interrupt stays in the register for good: the loop comes to it although the
\* callback may run at any point of the loop.
RaisedIsServed ==
  \A source \in Sources :
    (/\ app \in AllApps \ (Polling \cup {"TimerInterrupt"})
     /\ pc = "loop" /\ source \in raised)
       ~> (source \notin raised \/ failing \/ exiting \/ LoopDone \/ broken \/ ~Running)

\* Ctrl-C or an error ends the program, except the two that do not look at exit_program.
CtrlCEnds ==
  (failing \/ (exiting /\ app \notin {"DelayInterrupt", "DioMatch"})) ~> ~Running
=============================================================================
