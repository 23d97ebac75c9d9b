-------------------------- MODULE CallbackControl --------------------------
(***************************************************************************)
(* SDM35541_Interrupt_Install_Callback and _Remove_Callback (and, the same *)
(* code over other arrays, SDM35541_DMA_Install_Callback and               *)
(* _Remove_Callback) for one function block, against the callback threads  *)
(* they start.  The threads run as ThreadLife says.  The application's     *)
(* thread installs and removes; a callback may remove itself, from the     *)
(* thread it runs in.                                                      *)
(*                                                                         *)
(* One action is one blocking call of the operating system with the        *)
(* straight-line code after it.                                            *)
(***************************************************************************)
EXTENDS Naturals, ThreadLife

CONSTANTS
  MaxThreads,       \* bound of the model: threads Install may start
  Reinstalls,       \* the application installs over an installed callback
  Removers,         \* threads whose callbacks call Remove
  Junk              \* what `status' of a freed thread data may read as

\* 0 lets Install wait on, and 3 stands for every value that is not a status.
ASSUME ThreadsAssumption == MaxThreads \in Nat \ {0}
ASSUME ChoiceAssumption  == Reinstalls \in BOOLEAN /\ Removers \subseteq 1 .. MaxThreads
ASSUME JunkAssumption    == Junk \subseteq 0 .. 3 /\ Junk # {}

Threads == 1 .. MaxThreads
NULL == 0                       \* no handle; threads stand for their handles
App == 0                        \* the application's own thread as a caller
Callers == {App} \cup Removers

VARIABLES
  life,        \* per thread: its life as ThreadLife describes it
  created,     \* threads 1 .. created have been started
  handles,     \* threads whose thread handle is open
  termSlot,    \* int_terminate_events[fb_num]
  threadSlot,  \* int_thread_handles[fb_num]
  at,          \* per caller: where in Install or Remove it is
  local,       \* per caller: the thread its wait or its poll is about
  returned,    \* the last call that returned: its name, result and thread
  overlapped   \* history: a call has begun while another was under way

slots == <<termSlot, threadSlot>>
vars == <<life, created, handles, slots, at, local, returned, overlapped>>

Init ==
  /\ life = [t \in Threads |-> Start]
  /\ created = 0 /\ handles = {} /\ termSlot = NULL /\ threadSlot = NULL
  /\ at = [c \in Callers |-> "idle"] /\ local = [c \in Callers |-> NULL]
  /\ returned = [call |-> "none", result |-> "ok", thread |-> NULL]
  /\ overlapped = FALSE

Exited(t) == life[t].end = "exited"
Freed(t)  == life[t].end \in {"freed", "exited"}

\* c begins a call.
Begins(c) == overlapped' = (overlapped \/ \E d \in Callers \ {c} : at[d] # "idle")

Returns(c, name, error, t) ==
  /\ at' = [at EXCEPT ![c] = "idle"]
  /\ local' = [local EXCEPT ![c] = NULL]
  /\ returned' = [call |-> name, result |-> error, thread |-> t]

\* Mutants: the slots are set to a handle that is none but is not NULL, and
\* one slot is forgotten.
ClearSlotsInvalid == termSlot' = MaxThreads + 1 /\ threadSlot' = MaxThreads + 1
ClearSlotsHalf    == termSlot' = NULL /\ UNCHANGED threadSlot

ClearSlots == termSlot' = NULL /\ threadSlot' = NULL

\* CloseHandle of a thread handle; what it makes of the result so far.
CloseResult(t, error) == IF t \in handles THEN error ELSE "CLOSE_HANDLE_FAILURE"

\* SetEvent on the terminate event of thread t.
CanSignal(t) == t # NULL /\ Terminated(life[t]) # {}

\* Mutant: the event is not set.
SignalForgotten(t) == UNCHANGED life

Signal(t) == life' = [life EXCEPT ![t] = [life[t] EXCEPT !.term = "set"]]

----------------------------------------------------------------------------
\* SDM35541_Interrupt_Install_Callback

\* CreateEvent fails.
InstallNoEvent ==
  /\ at[App] = "idle" /\ (threadSlot = NULL \/ Reinstalls)
  /\ Begins(App)
  /\ Returns(App, "install", "CREATE_EVENT_FAILURE", NULL)
  /\ UNCHANGED <<life, created, handles, slots>>

\* The terminate event goes into its slot; then CreateThread.
InstallStart ==
  /\ at[App] = "idle" /\ (threadSlot = NULL \/ Reinstalls)
  /\ Begins(App)
  /\ created < MaxThreads
  /\ \/ /\ created' = created + 1
        /\ termSlot' = created + 1
        /\ handles' = handles \cup {created + 1}
        /\ at' = [at EXCEPT ![App] = "poll"]
        /\ local' = [local EXCEPT ![App] = created + 1]
        /\ UNCHANGED returned
     \/ /\ termSlot' = NULL
        /\ Returns(App, "install", "CREATE_THREAD_FAILURE", NULL)
        /\ UNCHANGED <<created, handles>>
  /\ UNCHANGED <<life, threadSlot>>

\* What InterlockedExchangeAdd(&thread_data->status, 0) may return.
StatusRead(t) == IF Freed(t) THEN Junk ELSE {life[t].status}

\* The loop on the status ends, and the result is acted on.  When it reads 0 it
\* goes round again, which is no step.
InstallPoll ==
  /\ at[App] = "poll"
  /\ \E s \in StatusRead(local[App]) :
       \/ /\ s = 1
          /\ threadSlot' = local[App]
          /\ Returns(App, "install", "ok", local[App])
       \/ /\ s = 2
          /\ at' = [at EXCEPT ![App] = "join"]
          /\ UNCHANGED <<threadSlot, local, returned>>
       \/ /\ s = 3
          /\ Returns(App, "install", "UNEXPECTED", local[App])
          /\ UNCHANGED threadSlot
  /\ UNCHANGED <<life, created, handles, termSlot, overlapped>>

\* WaitForSingleObject(thread, 2000), and then CloseHandle on the handle in
\* the slot: not on `thread'.
InstallJoin ==
  /\ at[App] = "join"
  /\ \/ /\ Exited(local[App])
        /\ handles' = handles \ {threadSlot}
        /\ Returns(App, "install", CloseResult(threadSlot, "INTERNAL_THREAD_FAILURE"), local[App])
     \/ /\ ~Exited(local[App])
        /\ Returns(App, "install", "THREAD_STUCK", local[App])
        /\ UNCHANGED handles
  /\ ClearSlots
  /\ UNCHANGED <<life, created, overlapped>>

----------------------------------------------------------------------------
\* SDM35541_Interrupt_Remove_Callback, called by c

\* A callback runs in its thread while the thread serves, and once more to
\* report an error.
InCallback(t) ==
  \/ life[t].status = 1 /\ life[t].result = "ok" /\ life[t].term # "closed"
  \/ life[t].end = "told"

MayRemove(c) ==
  /\ at[c] = "idle"
  /\ c # App => InCallback(c)

RemoveNothing(c) ==
  /\ MayRemove(c) /\ Begins(c) /\ termSlot = NULL
  /\ Returns(c, "remove", "ok", NULL)
  /\ UNCHANGED <<life, created, handles, slots>>

\* The thread has exited by itself.
RemoveExited(c) ==
  /\ MayRemove(c) /\ Begins(c) /\ termSlot # NULL
  /\ threadSlot \in handles /\ Exited(threadSlot)
  /\ handles' = handles \ {threadSlot}
  /\ ClearSlots
  /\ Returns(c, "remove", "INTERNAL_THREAD_FAILURE", threadSlot)
  /\ UNCHANGED <<life, created>>

\* The handle in the slot is no open handle: WAIT_FAILED.
RemoveNoHandle(c) ==
  /\ MayRemove(c) /\ Begins(c) /\ termSlot # NULL
  /\ threadSlot \notin handles
  /\ IF CanSignal(termSlot) THEN Signal(termSlot) ELSE UNCHANGED life
  /\ ClearSlots
  /\ Returns(c, "remove", "CLOSE_HANDLE_FAILURE", termSlot)
  /\ UNCHANGED <<created, handles>>

\* The thread is running.
RemoveRunning(c) ==
  /\ MayRemove(c) /\ Begins(c) /\ termSlot # NULL
  /\ threadSlot \in handles /\ ~Exited(threadSlot)
  /\ at' = [at EXCEPT ![c] = "signal"]
  /\ UNCHANGED <<life, created, handles, slots, local, returned>>

\* SetEvent on the terminate event; the wait for the thread begins.
RemoveSignal(c) ==
  /\ at[c] = "signal"
  /\ \/ /\ CanSignal(termSlot)
        /\ Signal(termSlot)
        /\ at' = [at EXCEPT ![c] = "wait"]
        /\ local' = [local EXCEPT ![c] = IF threadSlot \in handles THEN threadSlot ELSE NULL]
        /\ UNCHANGED <<slots, returned>>
     \/ /\ ~CanSignal(termSlot)
        /\ ClearSlots
        /\ Returns(c, "remove", "STOP_THREAD_FAILURE", threadSlot)
        /\ UNCHANGED life
  /\ UNCHANGED <<created, handles, overlapped>>

\* Mutant: the time-out is not told from the thread's exit.
WaitResultLax(t) == IF t = NULL THEN "WAIT_EVENT_FAILURE" ELSE "ok"

WaitResult(t) ==
  IF t = NULL THEN "WAIT_EVENT_FAILURE" ELSE IF Exited(t) THEN "ok" ELSE "THREAD_STUCK"

\* The end of Remove: CloseHandle takes the slot as it is now.
RemoveEnd(c) ==
  /\ Returns(c, "remove", CloseResult(threadSlot, WaitResult(local[c])), local[c])
  /\ handles' = handles \ {threadSlot}
  /\ ClearSlots
  /\ UNCHANGED <<life, created, overlapped>>

\* Mutant: a wait that has timed out begins again.
WaitAgain(c) ==
  IF local[c] # NULL /\ WaitResult(local[c]) = "THREAD_STUCK" THEN UNCHANGED vars ELSE RemoveEnd(c)

\* After the wait, whatever came of it.
AfterWait(c) == RemoveEnd(c)

\* WaitForSingleObject(thread, 1000) on the thread the wait began with is over:
\* the thread has exited, or a second has passed, which may be now.
RemoveWait(c) == at[c] = "wait" /\ AfterWait(c)

----------------------------------------------------------------------------

\* A thread takes a step of its own, unless it is inside Remove.
ThreadGoes(t, lives) ==
  /\ t <= created /\ (t \in Callers => at[t] = "idle")
  /\ \E l \in lives : life' = [life EXCEPT ![t] = l]
  /\ UNCHANGED <<created, handles, slots, at, local, returned, overlapped>>

ThreadRuns(t)  == ThreadGoes(t, Runs(life[t]))
ThreadFails(t) == ThreadGoes(t, Fails(life[t]))

\* The drain at the end of a thread that has failed never ends.
ThreadHangs(t) == ThreadGoes(t, Hangs(life[t]))

\* Install reads freed memory, and that may read 0 however often it is read.
PollsFreed == at[App] = "poll" /\ Freed(local[App]) /\ 0 \in Junk

InstallSteps == InstallPoll \/ InstallJoin
RemoveSteps(c) == RemoveSignal(c) \/ RemoveWait(c)

Next ==
  \/ InstallNoEvent \/ InstallStart \/ InstallPoll \/ InstallJoin
  \/ \E c \in Callers :
       \/ RemoveNothing(c) \/ RemoveExited(c) \/ RemoveNoHandle(c) \/ RemoveRunning(c)
       \/ RemoveSignal(c) \/ RemoveWait(c)
  \/ \E t \in Threads : ThreadRuns(t) \/ ThreadFails(t) \/ ThreadHangs(t)

Spec == Init /\ [][Next]_vars

\* Every thread is scheduled, and a call that has begun goes on, except that
\* nothing makes freed memory read as a status.  Nobody has to begin a call, no
\* thread has to fail, and one that hangs takes no step any more.  That any
\* other thread whose terminate event is set gets to close it is StopsWhenAsked
\* of NotifyThread.
FairSpec ==
  /\ Spec
  /\ WF_vars(InstallSteps /\ ~PollsFreed)
  /\ \A c \in Callers : WF_vars(RemoveSteps(c))
  /\ \A t \in Threads : WF_vars(ThreadRuns(t))

----------------------------------------------------------------------------
\* Properties

Results == {"ok", "CREATE_EVENT_FAILURE", "CREATE_THREAD_FAILURE", "UNEXPECTED",
            "INTERNAL_THREAD_FAILURE", "CLOSE_HANDLE_FAILURE", "THREAD_STUCK",
            "STOP_THREAD_FAILURE", "WAIT_EVENT_FAILURE"}

TypeOK ==
  /\ life \in [Threads -> Lives]
  /\ created \in 0 .. MaxThreads /\ handles \subseteq 1 .. created
  /\ termSlot \in 0 .. created /\ threadSlot \in 0 .. created
  /\ at \in [Callers -> {"idle", "poll", "join", "signal", "wait"}]
  /\ local \in [Callers -> 0 .. created]
  /\ returned \in [call : {"none", "install", "remove"}, result : Results,
                   thread : 0 .. created]
  /\ overlapped \in BOOLEAN

\* As long as no two calls overlap, a thread that would go on calling the
\* user's callback can be stopped: its terminate event is the one in the slot.
NoOrphan ==
  ~overlapped => \A t \in 1 .. created :
    life[t].result = "ok" /\ life[t].term = "clear" => termSlot = t

\* A Remove that found a callback and returned no error has seen its thread
\* exit; unless calls have overlapped, it has closed that thread's handle.
RemoveOkMeansGone ==
  returned.call = "remove" /\ returned.result = "ok" /\ returned.thread # NULL =>
    Exited(returned.thread) /\ (returned.thread \in handles => overlapped)

\* Between two calls that did not overlap, the two slots of an installed
\* callback are of the same thread, and the thread's handle is open.
SlotsAgree ==
  ~overlapped /\ (\A c \in Callers : at[c] = "idle") /\ threadSlot # NULL =>
    termSlot = threadSlot /\ threadSlot \in handles

\* As long as no two calls overlap, only the handle of a thread that was told
\* to stop, or that failed or hangs, is closed.
ClosesStoppedThreads ==
  ~overlapped => \A t \in (1 .. created) \ handles :
    life[t].term # "clear" \/ life[t].result # "ok"

\* The slots and the open handles agree with each other and with the threads,
\* and hold what Remove needs to stop a thread.
HandlesAreSound == NoOrphan /\ SlotsAgree /\ ClosesStoppedThreads

\* Every call returns, whether threads fail, hang or exit meanwhile, and a thread
\* that was told to stop exits, also when its own callback removed it.  The code
\* has two exceptions: Install that has come to read the status of a freed block
\* may read it for ever, and a thread that could not queue a slot again hangs.
EverythingEnds ==
  /\ \A c \in Callers : at[c] # "idle" ~> at[c] = "idle" \/ (c = App /\ PollsFreed)
  /\ \A t \in Threads : life[t].term = "set" ~> Exited(t) \/ life[t].result = "hung"

\* Comment in SDM35541_Interrupt_Install_Callback: "The thread already
\* finished, just close the thread handle".
JoinClosesHandle ==
  [][InstallJoin /\ Exited(local[App]) => local[App] \notin handles']_vars

\* Comment in interrupt_callback_thread: "If there was an error while
\* preparing, set the status value to notify the install callback": Install
\* tells that error from every other.
InstallIsNotified ==
  returned.call = "install" /\ returned.thread # NULL => returned.result # "UNEXPECTED"
=============================================================================
