---------------------------- MODULE NotifyThread ----------------------------
(***************************************************************************)
(* One interrupt callback thread of librtd-SDM35541_os.c:                  *)
(* interrupt_callback_thread and interrupt_callback_thread_core, against   *)
(* the driver's queue of NOTIFY requests and the owner of the terminate    *)
(* event.  dma_callback_thread is the same code with another IOCTL.        *)
(*                                                                         *)
(* The thread owns Depth slots (an OVERLAPPED, its auto-reset event and    *)
(* the status structure).  It queues a NOTIFY request in each, and then    *)
(* waits on the slots in ring order, calls the user's callback and queues  *)
(* the slot again.  The driver completes requests in arrival order.        *)
(***************************************************************************)
EXTENDS Naturals, Sequences

CONSTANTS
  Depth,          \* SDM35541_NOTIFY_QUEUE_DEPTH
  MaxInterrupts,  \* bound of the model: interrupts the board raises
  Faults          \* the calls the operating system may fail in this model

FaultKinds == {"create", "queue", "requeue", "wait", "flush", "close"}

ASSUME DepthAssumption == Depth \in Nat \ {0}
ASSUME BoundAssumption == MaxInterrupts \in Nat
ASSUME FaultAssumption == Faults \subseteq FaultKinds

Slots == 0 .. Depth - 1

VARIABLES
  pc,          \* where the thread is
  numQueued,   \* num_queued of interrupt_callback_thread
  eventCount,  \* event_count of interrupt_callback_thread_core
  signalled,   \* slots whose auto-reset event is signalled
  io,          \* per slot: who has the request, or how it completed
  count,       \* per slot: int_stat[].count, valid when io is "complete"
  result,      \* the thread's local result
  status,      \* thread_data->status
  data,        \* the heap block thread_data points to
  term,        \* terminate_event: "clear", "set", "closed"
  reported,    \* times the callback was called with an error
  driverQ,     \* the driver's NOTIFY requests, oldest first
  driverCount, \* the driver's interrupt count since it last completed one
  fileOpen,    \* the device file is open
  raised,      \* history: interrupts the board has raised
  upto,        \* history, per slot: value of raised when it was completed
  seen         \* history: sum of info.interrupts over the callbacks

threadVars == <<pc, numQueued, eventCount, result, status, data, reported>>
slotVars   == <<signalled, io, count, upto>>
driverVars == <<driverQ, driverCount, raised>>
vars == <<threadVars, slotVars, driverVars, term, fileOpen, seen>>

Init ==
  /\ pc = "create"  /\ numQueued = 0 /\ eventCount = 0
  /\ result = "ok"  /\ status = 0    /\ data = "live" /\ reported = 0
  /\ signalled = {} /\ io = [s \in Slots |-> "user"]
  /\ count = [s \in Slots |-> 0] /\ upto = [s \in Slots |-> 0]
  /\ driverQ = <<>> /\ driverCount = 0 /\ raised = 0
  /\ term = "clear" /\ fileOpen = TRUE /\ seen = 0

MayFail(kind) == kind \in Faults

\* DeviceIoControl fails on a closed file, and where the model lets it fail.
IoctlMayFail(kind) == ~fileOpen \/ MayFail(kind)

\* Mutants: the wrap compares with >, and the increment is forgotten.
NextSlotLate(s)  == IF s + 1 > Depth THEN 0 ELSE s + 1
NextSlotStuck(s) == s

\* event_count++, back to 0 at SDM35541_NOTIFY_QUEUE_DEPTH.
NextSlot(s) == IF s + 1 >= Depth THEN 0 ELSE s + 1

\* An IOCTL_SDM35541_INT_STATUS / OP_NOTIFY request in slot s reaches the
\* driver: the I/O manager resets the event of the OVERLAPPED first.
Notify(s) ==
  /\ fileOpen
  /\ signalled' = signalled \ {s}
  /\ io' = [io EXCEPT ![s] = "pending"]
  /\ driverQ' = Append(driverQ, s)

\* Every request the driver has is cancelled and its event signalled.
CancelAll ==
  /\ signalled' = signalled \cup {s \in Slots : io[s] = "pending"}
  /\ io' = [s \in Slots |-> IF io[s] = "pending" THEN "aborted" ELSE io[s]]
  /\ driverQ' = <<>>

\* Mutant: an error leaves the function before the flush.
AfterErrorNoFlush == "mark"

\* Mutant: after an error the core goes on with its loop.
AfterErrorRetry == "wait"

\* Where an error in the queueing or in the core leads: the flush.
AfterError == "flush"

\* Mutant: the terminate event comes first in wait_events.
TerminateFirst == TRUE

\* wait_events[0] is the slot's event: the terminate event is seen only without it.
SlotFirst == eventCount \notin signalled

\* Mutant: no SetEvent after a failed GetOverlappedResult.
ResignalForgotten == UNCHANGED signalled

\* SetEvent(wait_events[0]).
Resignal == signalled' = signalled \cup {eventCount}

\* Mutant: the callback is told of one interrupt, whatever the count.
InfoInterruptsOne(s) == 1

\* info.interrupts.
InfoInterrupts(s) == count[s]

\* Mutant: the status stays as it was.
FinalStatusKept == status

\* The status after the cleanup: 2 for an error of any time.
FinalStatus == IF result # "ok" THEN 2 ELSE status

\* Mutant: only an error that Install did not see is reported.
ReportsNoFailedStatus == IF result # "ok" /\ status # 2 THEN reported + 1 ELSE reported

\* The callback is called once more when there was an error.
Reports == IF result # "ok" THEN reported + 1 ELSE reported

\* The thread keeps the first error it meets.
Blame(error) == result' = IF result = "ok" THEN error ELSE result

----------------------------------------------------------------------------
\* interrupt_callback_thread up to the main loop

CreateEvents ==
  /\ pc = "create"
  /\ \/ pc' = "queue" /\ UNCHANGED result
     \/ MayFail("create") /\ pc' = "mark" /\ result' = "CREATE_EVENT_FAILURE"
  /\ UNCHANGED <<numQueued, eventCount, status, data, reported, slotVars, driverVars,
                 term, fileOpen, seen>>

QueueNotify ==
  /\ pc = "queue" /\ numQueued < Depth
  /\ \/ /\ Notify(numQueued)
        /\ numQueued' = numQueued + 1
        /\ UNCHANGED <<pc, result>>
     \/ /\ IoctlMayFail("queue")
        /\ result' = "INT_STATUS_FAILURE" /\ pc' = AfterError
        /\ UNCHANGED <<numQueued, signalled, io, driverQ>>
  /\ UNCHANGED <<eventCount, status, data, reported, count, upto, driverCount, raised,
                 term, fileOpen, seen>>

MarkReady ==
  /\ pc = "queue" /\ numQueued = Depth
  /\ status' = 1 /\ pc' = "wait"
  /\ UNCHANGED <<numQueued, eventCount, result, data, reported, slotVars, driverVars,
                 term, fileOpen, seen>>

----------------------------------------------------------------------------
\* interrupt_callback_thread_core

\* WaitForMultipleObjects on the event of slot event_count and on the
\* terminate event: the lowest index that is signalled is returned, and an
\* auto-reset event is reset by the wait.
WakeOnEvent ==
  /\ pc = "wait" /\ eventCount \in signalled
  /\ signalled' = signalled \ {eventCount}
  /\ pc' = "fetch"
  /\ UNCHANGED <<numQueued, eventCount, result, status, data, reported, io, count, upto,
                 driverVars, term, fileOpen, seen>>

WakeOnTerminate ==
  /\ pc = "wait" /\ SlotFirst /\ term = "set"
  /\ pc' = "flush"
  /\ UNCHANGED <<numQueued, eventCount, result, status, data, reported, slotVars,
                 driverVars, term, fileOpen, seen>>

WakeOnFailure ==
  /\ pc = "wait" /\ MayFail("wait")
  /\ result' = "WAIT_EVENT_FAILURE" /\ pc' = AfterError
  /\ UNCHANGED <<numQueued, eventCount, status, data, reported, slotVars, driverVars,
                 term, fileOpen, seen>>

\* GetOverlappedResult: a cancelled request is an error, and then the event
\* the wait has just reset is set again.
FetchResult ==
  /\ pc = "fetch"
  /\ \/ io[eventCount] = "complete" /\ pc' = "callback" /\ UNCHANGED <<signalled, result>>
     \/ /\ io[eventCount] = "aborted"
        /\ result' = "INT_STATUS_FAILURE"
        /\ Resignal
        /\ pc' = AfterError
  /\ UNCHANGED <<numQueued, eventCount, status, data, reported, io, count, upto,
                 driverVars, term, fileOpen, seen>>

\* (thread_data->callback)(info) with info.interrupts = int_stat[].count.
CallUser ==
  /\ pc = "callback"
  /\ seen' = seen + InfoInterrupts(eventCount)
  /\ io' = [io EXCEPT ![eventCount] = "user"]
  /\ pc' = "requeue"
  /\ UNCHANGED <<numQueued, eventCount, result, status, data, reported, signalled, count,
                 upto, driverVars, term, fileOpen>>

Requeue ==
  /\ pc = "requeue"
  /\ \/ /\ Notify(eventCount)
        /\ eventCount' = NextSlot(eventCount)
        /\ pc' = "wait"
        /\ UNCHANGED result
     \/ /\ IoctlMayFail("requeue")
        /\ result' = "INT_STATUS_FAILURE" /\ pc' = AfterError
        /\ UNCHANGED <<eventCount, signalled, io, driverQ>>
  /\ UNCHANGED <<numQueued, status, data, reported, count, upto, driverCount, raised,
                 term, fileOpen, seen>>

----------------------------------------------------------------------------
\* interrupt_callback_thread after the main loop

\* OP_CLEAR_QUEUE, which completes at once, and the wait for its event.
FlushQueue ==
  /\ pc = "flush"
  /\ \/ fileOpen /\ CancelAll /\ pc' = "drain" /\ UNCHANGED result
     \/ /\ IoctlMayFail("flush")
        /\ Blame("DMA_STATUS_FAILURE")
        /\ pc' = "mark"
        /\ UNCHANGED <<signalled, io, driverQ>>
     \/ /\ fileOpen /\ MayFail("wait") /\ CancelAll
        /\ Blame("WAIT_EVENT_FAILURE")
        /\ pc' = "mark"
  /\ UNCHANGED <<numQueued, eventCount, status, data, reported, count, upto, driverCount,
                 raised, term, fileOpen, seen>>

\* Waits for the events of the queued slots, last slot first.
DrainSlot ==
  /\ pc = "drain" /\ numQueued > 0
  /\ numQueued' = numQueued - 1
  /\ numQueued - 1 \in signalled
  /\ signalled' = signalled \ {numQueued - 1}
  /\ UNCHANGED <<pc, eventCount, result, status, data, reported, io, count, upto,
                 driverVars, term, fileOpen, seen>>

DrainOnFailure ==
  /\ pc = "drain" /\ numQueued > 0 /\ MayFail("wait")
  /\ numQueued' = numQueued - 1
  /\ Blame("WAIT_EVENT_FAILURE")
  /\ UNCHANGED <<pc, eventCount, status, data, reported, slotVars, driverVars, term,
                 fileOpen, seen>>

DrainDone ==
  /\ pc = "drain" /\ numQueued = 0
  /\ pc' = "mark"
  /\ UNCHANGED <<numQueued, eventCount, result, status, data, reported, slotVars,
                 driverVars, term, fileOpen, seen>>

MarkFailed ==
  /\ pc = "mark"
  /\ status' = FinalStatus
  /\ pc' = "close"
  /\ UNCHANGED <<numQueued, eventCount, result, data, reported, slotVars, driverVars,
                 term, fileOpen, seen>>

\* CloseHandle on the slot events, the flush event and the terminate event.
CloseHandles ==
  /\ pc = "close"
  /\ term' = "closed" /\ signalled' = {}
  /\ \/ UNCHANGED result
     \/ MayFail("close") /\ Blame("CLOSE_HANDLE_FAILURE")
  /\ pc' = "report"
  /\ UNCHANGED <<numQueued, eventCount, status, data, reported, io, count, upto,
                 driverVars, fileOpen, seen>>

ReportError ==
  /\ pc = "report"
  /\ reported' = Reports
  /\ pc' = "free"
  /\ UNCHANGED <<numQueued, eventCount, result, status, data, slotVars, driverVars, term,
                 fileOpen, seen>>

FreeData ==
  /\ pc = "free"
  /\ data' = "freed" /\ pc' = "return"
  /\ UNCHANGED <<numQueued, eventCount, result, status, reported, slotVars, driverVars,
                 term, fileOpen, seen>>

ThreadReturn ==
  /\ pc = "return"
  /\ pc' = "done"
  /\ UNCHANGED <<numQueued, eventCount, result, status, data, reported, slotVars,
                 driverVars, term, fileOpen, seen>>

----------------------------------------------------------------------------
\* The thread's surroundings

\* The board interrupts.  The driver completes its oldest NOTIFY request
\* with the count of interrupts since the previous completion; without a
\* request it only counts.
Interrupt ==
  /\ raised < MaxInterrupts /\ fileOpen
  /\ raised' = raised + 1
  /\ \/ /\ driverQ # <<>>
        /\ LET s == Head(driverQ) IN
           /\ io' = [io EXCEPT ![s] = "complete"]
           /\ count' = [count EXCEPT ![s] = driverCount + 1]
           /\ upto' = [upto EXCEPT ![s] = raised + 1]
           /\ signalled' = signalled \cup {s}
        /\ driverQ' = Tail(driverQ)
        /\ driverCount' = 0
     \/ /\ driverQ = <<>>
        /\ driverCount' = driverCount + 1
        /\ UNCHANGED <<driverQ, slotVars>>
  /\ UNCHANGED <<threadVars, term, fileOpen, seen>>

\* SDM35541_Interrupt_Remove_Callback sets the terminate event.
Terminate ==
  /\ term = "clear"
  /\ term' = "set"
  /\ UNCHANGED <<threadVars, slotVars, driverVars, fileOpen, seen>>

\* SDM35541_Board_Close closes the file while the callback is installed: the
\* requests the driver still has are cancelled.
CloseFile ==
  /\ fileOpen
  /\ fileOpen' = FALSE
  /\ CancelAll
  /\ UNCHANGED <<threadVars, count, upto, driverCount, raised, term, seen>>

\* Another thread clears the driver's queue for the same function block.  Two
\* callbacks installed on one function block do that to each other, because
\* OP_CLEAR_QUEUE cancels "all of the interrupt type's notification requests".
ForeignFlush ==
  /\ fileOpen /\ driverQ # <<>>
  /\ CancelAll
  /\ UNCHANGED <<threadVars, count, upto, driverCount, raised, term, fileOpen, seen>>

----------------------------------------------------------------------------

\* A wait that blocks ends with a failure.
WaitFails == WakeOnFailure \/ DrainOnFailure

ThreadStep ==
  \/ CreateEvents \/ QueueNotify \/ MarkReady
  \/ WakeOnEvent \/ WakeOnTerminate
  \/ FetchResult \/ CallUser \/ Requeue
  \/ FlushQueue \/ DrainSlot \/ DrainDone
  \/ MarkFailed \/ CloseHandles \/ ReportError \/ FreeData \/ ThreadReturn

\* Only so that TLC tells a finished thread from a deadlocked one.
Finished == pc = "done" /\ UNCHANGED vars

Next == ThreadStep \/ WaitFails \/ Interrupt \/ Terminate \/ CloseFile \/ ForeignFlush \/ Finished

Spec == Init /\ [][Next]_vars

\* The scheduler runs the thread whenever a step of it is possible; that a
\* blocked wait will fail is not one it may count on.  Nothing is assumed of
\* interrupts, of the application or of the device file.
FairSpec == Spec /\ WF_vars(ThreadStep)

----------------------------------------------------------------------------
\* Invariants

Serving == {"wait", "fetch", "callback", "requeue"}

\* How far slot s is from the one the thread turns to next.
Dist(s) == IF s >= eventCount THEN s - eventCount ELSE s + Depth - eventCount

\* Slots queued since the thread began whose request the driver has answered,
\* or, for the slot being requeued, which the thread has taken back.
Behind == numQueued - Len(driverQ)

TypeOK ==
  /\ pc \in {"create", "queue", "flush", "drain", "mark", "close", "report", "free",
             "return", "done"} \cup Serving
  /\ numQueued \in 0 .. Depth /\ eventCount \in Slots
  /\ result \in {"ok", "CREATE_EVENT_FAILURE", "INT_STATUS_FAILURE", "DMA_STATUS_FAILURE",
                 "WAIT_EVENT_FAILURE", "CLOSE_HANDLE_FAILURE"}
  /\ status \in 0 .. 2 /\ data \in {"live", "freed"} /\ reported \in Nat
  /\ signalled \subseteq Slots
  /\ io \in [Slots -> {"user", "pending", "complete", "aborted"}]
  /\ count \in [Slots -> Nat] /\ upto \in [Slots -> Nat]
  /\ driverQ \in Seq(Slots) /\ driverCount \in Nat /\ raised \in Nat /\ seen \in Nat
  /\ term \in {"clear", "set", "closed"} /\ fileOpen \in BOOLEAN

\* While requests circulate the driver holds the slots in ring order, and they
\* are the last ones counted from event_count: the slot whose event the thread
\* waits for is the slot the driver answers first (the single wait_events[0]
\* of interrupt_callback_thread_core is enough).
RingOrder ==
  pc \in {"queue"} \cup Serving =>
    /\ Len(driverQ) <= numQueued
    /\ \A i \in 1 .. Len(driverQ) : Dist(driverQ[i]) = Behind + i - 1

\* The number of interrupts told to the user, the one being told included, is
\* the number raised up to the notification in hand: none is lost, told twice
\* or told out of order by the thread's ring ("Number of driver interrupts
\* that occurred since the last time the user's callback was called").
CountsAddUp == pc = "callback" => seen + count[eventCount] = upto[eventCount]

\* The waits of the cleanup loop, `for(; num_queued > 0; num_queued--)', are
\* for events that are already signalled: the thread does not hang there.
DrainNeverHangs == pc = "drain" => \A s \in 0 .. numQueued - 1 : s \in signalled

\* The driver holds no request whose OVERLAPPED lives on the stack of a thread
\* that has closed its events.
NoRequestOutlivesThread ==
  pc \in {"report", "free", "return", "done"} => \A s \in Slots : io[s] # "pending"

\* The thread sleeps only when it has told of everything: while it waits for its one slot
\* and that is not signalled, no other slot is, none holds an answer, and the driver has
\* all of them.
SleepsOnlyWhenIdle ==
  pc = "wait" /\ eventCount \notin signalled =>
    /\ signalled = {} /\ Len(driverQ) = Depth
    /\ \A s \in Slots : io[s] = "pending"

\* The single wait_events[0] is enough.
OneWaitIsEnough == RingOrder /\ SleepsOnlyWhenIdle

----------------------------------------------------------------------------
\* Action and liveness properties

\* Steps that the thread has before it at most, unless the driver answers more requests:
\* the cleanup's, those before the main loop, and four for each answer.
Work ==
  CASE pc = "done"   -> 0
    [] pc = "return" -> 1
    [] pc = "free"   -> 2
    [] pc = "report" -> 3
    [] pc = "close"  -> 4
    [] pc = "mark"   -> 5
    [] pc = "drain"  -> 6 + numQueued
    [] pc = "flush"  -> 7 + Depth
    [] pc = "wait"     -> 8 + Depth + 4 * Behind
    [] pc = "fetch"    -> 7 + Depth + 4 * Behind
    [] pc = "callback" -> 6 + Depth + 4 * Behind
    [] pc = "requeue"  -> 5 + Depth + 4 * Behind
    [] pc = "queue"    -> 9 + Depth + 4 * Behind + (Depth - numQueued)
    [] pc = "create"   -> 10 + Depth + Depth

\* The thread never goes round in its loops, on errors neither: every step of it leaves it
\* less to do, and only what the driver answers gives it more, four steps each.
GetsOn ==
  [][/\ ThreadStep \/ WaitFails => Work' < Work
     /\ Interrupt => Work' <= Work + 4
     /\ CloseFile \/ ForeignFlush => Work' <= Work + 4 * Len(driverQ)
     /\ Terminate => Work' = Work]_vars

\* A set terminate event ends the thread, once the board stops interrupting
\* (MaxInterrupts sees to that).
StopsWhenAsked == term = "set" ~> pc = "done"

\* SDM35541_os.h: after an error within the thread "the user's callback will
\* be called before the thread exits".
ErrorIsReported == result # "ok" ~> reported = 1

\* Neither Install, which loops until thread_data->status is set, nor Remove waits in vain
\* for the thread, nor does the user for the news of an error.
StartsAndStops == <>(status # 0) /\ StopsWhenAsked /\ ErrorIsReported

\* An interrupt the driver has answered for is told to the user unless the
\* thread is being stopped or fails.
DeliversAll ==
  \A n \in 1 .. MaxInterrupts :
    (\E s \in Slots : io[s] = "complete" /\ upto[s] >= n)
      ~> (seen >= n \/ term # "clear" \/ result # "ok")

----------------------------------------------------------------------------
\* Refinement: what Install and Remove see of this thread.

LifeView ==
  [status |-> status,
   result |-> IF result = "ok" THEN "ok" ELSE "error",
   term   |-> term,
   end    |-> IF pc = "done" THEN "exited" ELSE IF data = "freed" THEN "freed"
              ELSE IF reported > 0 THEN "told" ELSE "none"]

Life == INSTANCE ThreadLifeSpec WITH life <- LifeView

ImplementsThreadLife == Life!Spec

\* Refinement: what the driver and the user see of this thread's ring.

\* The slot at distance d.
SlotAt(d) == IF eventCount + d < Depth THEN eventCount + d ELSE eventCount + d - Depth

\* Slots of the answered ones whose answer the thread has taken.
Taken == IF pc \in {"callback", "requeue"} THEN 1 ELSE 0

\* What the driver has answered in slot s; a cancelled request holds nothing.
AnswerIn(s) == IF io[s] = "complete" THEN count[s] ELSE 0

Starting == {"create", "queue"}

RingWaiting  == IF pc \in Starting \cup Serving THEN Len(driverQ) ELSE 0
RingAnswered == IF pc \in Starting \cup Serving
                  THEN [i \in 1 .. Behind - Taken |-> AnswerIn(SlotAt(i - 1 + Taken))]
                  ELSE <<>>
RingAt       == CASE pc \in Starting                -> "starting"
                  [] pc \in {"wait", "fetch"}        -> "wait"
                  [] pc \in {"callback", "requeue"}  -> pc
                  [] OTHER -> IF result = "ok" THEN "stopped" ELSE "broken"
RingInfo     == IF pc = "callback" THEN InfoInterrupts(eventCount) ELSE 0

Ring == INSTANCE NotifyQueue WITH
  waiting <- RingWaiting, answered <- RingAnswered, at <- RingAt, info <- RingInfo

\* "Number of driver interrupts that occurred since the last time the user's callback
\* was called": each of the driver's answers reaches the callback once, in order and
\* unchanged, before the thread stops, unless an error breaks it, never inside the callback.
ImplementsNotifyQueue == Ring!Spec
=============================================================================
