----------------------------- MODULE DmaChannel -----------------------------
(***************************************************************************)
(* SDM35541_Dma_Start, _Stop, _Pause and _Clear of librtd-SDM35541_dma.c   *)
(* on one DMA channel.  Each writes the channel's action register and then *)
(* compares it with the last-action register until the two agree, or gives *)
(* up with EBUSY.  Every register access is a step of its own: the device  *)
(* takes actions, and other threads of the application call the same       *)
(* functions, in between.                                                  *)
(***************************************************************************)
EXTENDS Naturals

CONSTANTS
  Callers,   \* the application's threads
  Loops,     \* SDM35541_DMA_ACTION_LOOPS
  MaxHalts,  \* bound of the model: times the device halts by itself
  IoFails    \* a register access may fail

ASSUME CallersAssumption == "controller" \notin Callers
ASSUME LoopsAssumption == Loops \in Nat
ASSUME HaltsAssumption == MaxHalts \in Nat
ASSUME IoAssumption    == IoFails \in BOOLEAN

Actions == {"CLEAR", "GO", "PAUSE", "HALT"}

VARIABLES
  action,   \* the action register
  last,     \* the last-action register
  halts,    \* times the device has halted by itself
  pc,       \* per caller: the register access that comes next
  want,     \* per caller: the action its function asks for
  data8,    \* per caller: ioctl_request.readwrite.access.data.data8
  loops,    \* per caller: loop_count
  result,   \* per caller: what its last call returned
  settled,  \* history, per caller: actions that were, during the call, in both
            \* registers at once
  others    \* history, per caller: who else wrote the action during the call

device == <<action, last, halts>>
locals == <<want, data8, loops>>
vars == <<device, pc, locals, result, settled, others>>

Init ==
  /\ action = "HALT" /\ last = "HALT" /\ halts = 0
  /\ pc = [c \in Callers |-> "idle"]
  /\ want = [c \in Callers |-> "HALT"] /\ data8 = [c \in Callers |-> "HALT"]
  /\ loops = [c \in Callers |-> 0]
  /\ result = [c \in Callers |-> "none"]
  /\ settled = [c \in Callers |-> {}] /\ others = [c \in Callers |-> {}]

Busy(c) == pc[c] # "idle"

\* What the registers show at the end of the step, and that `who' has written
\* the action, go into the histories of the calls that are in progress then.
Observe(who) ==
  /\ settled' = [c \in Callers |->
       IF pc'[c] = "idle" THEN {}
       ELSE IF action' = last' THEN settled[c] \cup {action'} ELSE settled[c]]
  /\ others' = [c \in Callers |->
       IF pc'[c] = "idle" THEN {} ELSE IF Busy(c) THEN others[c] \cup who ELSE {}]

\* The locals of a call end with it.
Return(c, value) ==
  /\ pc' = [pc EXCEPT ![c] = "idle"]
  /\ result' = [result EXCEPT ![c] = value]
  /\ want' = [want EXCEPT ![c] = "HALT"] /\ data8' = [data8 EXCEPT ![c] = "HALT"]
  /\ loops' = [loops EXCEPT ![c] = 0]

----------------------------------------------------------------------------
\* The functions

\* SDM35541_Write of the action: Clear goes on by reading it back.
Begin(c) ==
  /\ pc[c] = "idle"
  /\ \E a \in Actions :
       /\ want' = [want EXCEPT ![c] = a]
       /\ data8' = [data8 EXCEPT ![c] = a]
       /\ action' = a
       /\ pc' = [pc EXCEPT ![c] = IF a = "CLEAR" THEN "readback" ELSE "compare"]
  /\ result' = [result EXCEPT ![c] = "none"]
  /\ UNCHANGED <<last, halts, loops>>
  /\ Observe({c})

\* Clear: the action is read back, and a clear that is gone is written again.
ReadBack(c) ==
  /\ pc[c] = "readback"
  /\ data8' = [data8 EXCEPT ![c] = action]
  /\ pc' = [pc EXCEPT ![c] = IF action = "CLEAR" THEN "compare" ELSE "rewrite"]
  /\ UNCHANGED <<device, want, loops, result>>
  /\ Observe({})

Rewrite(c) ==
  /\ pc[c] = "rewrite"
  /\ action' = "CLEAR"
  /\ data8' = [data8 EXCEPT ![c] = "CLEAR"]
  /\ pc' = [pc EXCEPT ![c] = "readagain"]
  /\ UNCHANGED <<last, halts, want, loops, result>>
  /\ Observe({c})

ReadAgain(c) ==
  /\ pc[c] = "readagain"
  /\ \/ /\ action = "CLEAR"
        /\ data8' = [data8 EXCEPT ![c] = action]
        /\ pc' = [pc EXCEPT ![c] = "compare"]
        /\ UNCHANGED <<want, loops, result>>
     \/ action # "CLEAR" /\ Return(c, "EBUSY")
  /\ UNCHANGED device
  /\ Observe({})

\* Mutant: the loop goes round once more.
MayLoopOnceMore(n) == n <= Loops

\* loop_count < SDM35541_DMA_ACTION_LOOPS.
MayLoop(n) == n < Loops

\* Mutant: the increment is forgotten.
CountForgotten(n) == n

\* loop_count++.
Count(n) == n + 1

\* Mutants: the last action is compared with the intended action, is trusted
\* after one sleep, or no longer counts after the last one.
AgreesWithWant(c)   == last = want[c]
AgreesAfterSleep(c) == loops[c] > 0
AgreesButTooLate(c) == last = data8[c] /\ loops[c] < Loops

\* last_action == ioctl_request.readwrite.access.data.data8.
Agrees(c) == last = data8[c]

\* SDM35541_Dma_Channel_Get_Last_Action, and the comparison.
Compare(c) ==
  /\ pc[c] = "compare"
  /\ \/ Agrees(c) /\ Return(c, "ok")
     \/ ~Agrees(c) /\ ~MayLoop(loops[c]) /\ Return(c, "EBUSY")
     \/ /\ ~Agrees(c) /\ MayLoop(loops[c])
        /\ pc' = [pc EXCEPT ![c] = "reread"]
        /\ loops' = [loops EXCEPT ![c] = Count(loops[c])]
        /\ UNCHANGED <<want, data8, result>>
  /\ UNCHANGED device
  /\ Observe({})

\* The action register is read again, after SDM35541_LAST_ACTION_SLEEP_USEC.
Reread(c) ==
  /\ pc[c] = "reread"
  /\ data8' = [data8 EXCEPT ![c] = action]
  /\ pc' = [pc EXCEPT ![c] = "compare"]
  /\ UNCHANGED <<device, want, loops, result>>
  /\ Observe({})

\* A register access fails, and the function returns its error.
AccessFails(c) ==
  /\ IoFails /\ Busy(c)
  /\ Return(c, "error")
  /\ UNCHANGED device
  /\ Observe({})

----------------------------------------------------------------------------
\* The device

TakeAction ==
  /\ action # last
  /\ last' = action
  /\ UNCHANGED <<action, halts, pc, locals, result>>
  /\ Observe({})

\* "the controller came back and set it to Halt instead".
HaltItself ==
  /\ halts < MaxHalts /\ action # "HALT"
  /\ halts' = halts + 1
  /\ action' = "HALT"
  /\ UNCHANGED <<last, pc, locals, result>>
  /\ Observe({"controller"})

----------------------------------------------------------------------------

CallStep(c) ==
  ReadBack(c) \/ Rewrite(c) \/ ReadAgain(c) \/ Compare(c) \/ Reread(c) \/ AccessFails(c)

Next ==
  \/ \E c \in Callers : Begin(c) \/ CallStep(c)
  \/ TakeAction \/ HaltItself

Spec == Init /\ [][Next]_vars

\* A call that has begun goes on.  The device may take no action at all.
FairSpec == Spec /\ \A c \in Callers : WF_vars(CallStep(c))

----------------------------------------------------------------------------
\* Properties

TypeOK ==
  /\ action \in Actions /\ last \in Actions /\ halts \in 0 .. MaxHalts
  /\ pc \in [Callers -> {"idle", "readback", "rewrite", "readagain", "compare", "reread"}]
  /\ want \in [Callers -> Actions] /\ data8 \in [Callers -> Actions]
  /\ loops \in [Callers -> 0 .. Loops]
  /\ result \in [Callers -> {"none", "ok", "EBUSY", "error"}]
  /\ settled \in [Callers -> SUBSET Actions]
  /\ others \in [Callers -> SUBSET (Callers \cup {"controller"})]

\* Caller c's call returns the value in this step.
Returns(c, value) == Busy(c) /\ pc'[c] = "idle" /\ result'[c] = value

\* "we need to check that the action has been taken by the DMA": when a call
\* succeeds, the action it compared last was in both registers at one instant
\* of the call, though it read them one after the other while the device and
\* other callers went on.
OkMeansTaken == [][\A c \in Callers : Returns(c, "ok") => data8[c] \in settled[c]]_vars

\* "we handle any cases where the intended action results in a different action
\* (usually HALT)": a call that no other caller disturbs succeeds only if the
\* device took what was asked for, or halted.
OkMeansAskedOrHalted ==
  [][\A c \in Callers :
       Returns(c, "ok") /\ others[c] \subseteq {c, "controller"}
         => settled[c] \cap {want[c], "HALT"} # {}]_vars

\* EBUSY to a call that nobody disturbs, neither a caller nor the controller,
\* says that the device did not take the action during the call.
BusyMeansNotTaken ==
  [][\A c \in Callers :
       Returns(c, "EBUSY") /\ others[c] \subseteq {c} => want[c] \notin settled[c]]_vars

\* A call returns, whatever the device does.
CallsReturn == \A c \in Callers : Busy(c) ~> ~Busy(c)
=============================================================================
