----------------------------- MODULE DmaStream -----------------------------
(***************************************************************************)
(* The applications that stream samples from the board by DMA: AdcDma,     *)
(* HsdinDma, AdcExternalTrigger, AdcDacSimul and AdcHsdinSimul.  The main  *)
(* thread, one callback thread per DMA buffer, the flags and the critical  *)
(* section they share, Ctrl-C and the cleanup, over the driver's requests. *)
(*                                                                         *)
(* Each program is started: its callbacks are installed, one request is    *)
(* made for each buffer, and the board samples.  Data is counted in chunks *)
(* of one DMA buffer; the board puts chunk n into buffer n % buffers.      *)
(* DmaTransfer shows what is assumed of the library here: each request     *)
(* that finishes is told once, by the callback thread of its buffer.       *)
(***************************************************************************)
EXTENDS Integers, Sequences, FiniteSets

CONSTANTS
  Apps,         \* the programs that are modelled: a subset of AllApps
  NumBuffers,   \* SDM35541_NUM_DMA_BUFFERS, also the function block's num_dma_buffers
  Amount,       \* per program: chunks of data it wants of the board
  MaxChunks,    \* per program, bound of the model: chunks the board samples
  MaxFaults     \* per program, bound of the model: calls and threads that fail

AllApps == {"AdcDma", "HsdinDma", "AdcExternalTrigger", "AdcDacSimul", "AdcHsdinSimul"}

\* Their requests go straight to the place of the data.
DirectApps == {"AdcExternalTrigger", "AdcHsdinSimul"}

\* A direct program wants at least one chunk for each buffer (7 buffers, and 10,
\* 16 and 8 chunks in the source), and the model's memory has a place for each.
ASSUME NumBuffersAssumption == NumBuffers \in Nat \ {0}
ASSUME AppsAssumption == Apps \subseteq AllApps
ASSUME MaxChunksAssumption == MaxChunks \in [Apps -> Nat]
ASSUME AmountAssumption ==
  /\ Amount \in [Apps -> Nat]
  /\ \A a \in Apps \cap DirectApps : Amount[a] \in NumBuffers .. NumBuffers + MaxChunks[a]

Streams == {"adc", "hsdin"}
Buffers == 0 .. NumBuffers - 1

Free       == <<"free", 0>>   \* nobody owns the critical section
MainThread == <<"main", 0>>

VARIABLES
  app,        \* which program this is
  chunk,      \* per stream: chunks the board has sampled
  requests,   \* per stream and buffer: destinations of the driver's requests
  memory,     \* per stream and destination: the chunk written there, 0 for none
  answered,   \* per stream and buffer: answers the callback thread has not taken
  thread,     \* per stream and buffer: "idle", "in", "stuck", "gone"
  section,    \* critical_section: Free, or the thread that owns it
  deleted,    \* critical_section was deleted
  occurred,   \* per stream: has_interrupt_occurred
  result,     \* per stream: callback_result is an error
  filled,     \* per stream: filled_buffers
  current,    \* per stream: current_buffer
  offset,     \* per stream: buffer_offset, in chunks
  ints,       \* per stream: buffers the program has taken (num_ints, samples_read)
  output,     \* per stream: the chunks it took, in its order
  stopped,    \* per stream: the DMA channel was stopped
  pc,         \* the main thread
  todo,       \* main's copies of the flags: streams to handle
  at,         \* the stream that main handles
  removing,   \* callbacks that Cleanup has still to remove
  exiting,    \* exit_program
  failing,    \* Cleanup was called by Fail
  faults,     \* calls and threads that failed
  lost,       \* history: streams with a chunk that no request waited for
  failed,     \* history: callback threads that ended by an error
  misused     \* history: the section was used, or deleted again, after its deletion

board    == <<chunk, requests, memory, answered, stopped, lost>>
flags    == <<occurred, result, filled>>
progress == <<current, offset, ints, output>>
control  == <<todo, at, removing, failing>>
vars == <<app, board, thread, section, deleted, flags, progress, pc, control,
          exiting, faults, failed, misused>>

----------------------------------------------------------------------------
\* The programs' differences

\* Samples two sources, with one main loop.
Active == IF app = "AdcHsdinSimul" THEN Streams ELSE {"adc"}

\* The requests go straight to the place of the data; the other programs have
\* one local buffer per DMA buffer and take the data out of it.
Direct == app \in DirectApps

\* Runs until Ctrl-C.
Endless == app \in {"AdcDma", "AdcDacSimul"}

\* Mutant: every program does.
ClearsLateAlways == TRUE

\* Clears the flags once more after the handlers, in a section of its own.
ClearsLate == app \in {"AdcDacSimul", "AdcHsdinSimul"}

\* Copies the flags in the section before it looks at them.
CopiesFlags == app \in {"AdcExternalTrigger", "AdcDacSimul", "AdcHsdinSimul"}

\* Also waits for the external trigger's interrupt, which the board's INT
\* register and a flag of its own are for.
WaitsForTrigger == app = "AdcExternalTrigger"

\* NUM_INTS; ADC_NUM_INTS is ADC_NUM_DATA divided by the size of the other
\* stream's buffers, which are twice as large.
Wanted(s) == IF app = "AdcHsdinSimul" /\ s = "adc" THEN Amount[app] \div 2 ELSE Amount[app]

\* Stops the DMA channel of a stream as soon as it has all its data.
StopsEarly(s) == app = "AdcHsdinSimul" /\ ints[s] + 1 >= Wanted(s)

Enough == ~Endless /\ \A s \in Active : ints[s] >= Wanted(s)

Destinations == 0 .. NumBuffers + MaxChunks[app]

\* Where the request for a buffer that has just been taken writes.
Destination(s) == IF Direct THEN offset[s] ELSE current[s]

Threads == Active \X Buffers

\* The streams' order in the main loop.
FirstOf(S) == IF "adc" \in S THEN "adc" ELSE "hsdin"

Init ==
  /\ app \in Apps
  /\ chunk = [s \in Streams |-> 0]
  /\ requests = [s \in Streams |-> [b \in Buffers |-> IF s \in Active THEN {b} ELSE {}]]
  /\ memory = [s \in Streams |-> [d \in Destinations |-> 0]]
  /\ answered = [s \in Streams |-> [b \in Buffers |-> 0]]
  /\ thread = [s \in Streams |-> [b \in Buffers |-> IF s \in Active THEN "idle" ELSE "gone"]]
  /\ section = Free /\ deleted = FALSE
  /\ occurred = [s \in Streams |-> FALSE] /\ result = [s \in Streams |-> FALSE]
  /\ filled = [s \in Streams |-> [b \in Buffers |-> FALSE]]
  /\ current = [s \in Streams |-> 0] /\ offset = [s \in Streams |-> NumBuffers]
  /\ ints = [s \in Streams |-> 0] /\ output = [s \in Streams |-> <<>>]
  /\ stopped = {} /\ pc = "loop" /\ todo = {} /\ at = "adc" /\ removing = {}
  /\ exiting = FALSE /\ failing = FALSE /\ faults = 0
  /\ lost = {} /\ failed = {} /\ misused = FALSE

Running == pc \notin {"done", "exited"}

Fault == faults < MaxFaults[app] /\ faults' = faults + 1

----------------------------------------------------------------------------
\* The board and the driver (external)

\* The next chunk of a stream goes to the request that waits for its buffer.
Sample(s) ==
  LET b == chunk[s] % NumBuffers IN
  /\ Running /\ s \in Active \ stopped /\ chunk[s] < MaxChunks[app]
  /\ \E d \in requests[s][b] :
       /\ requests' = [requests EXCEPT ![s][b] = @ \ {d}]
       /\ memory' = [memory EXCEPT ![s][d] = chunk[s] + 1]
  /\ chunk' = [chunk EXCEPT ![s] = @ + 1]
  /\ answered' = [answered EXCEPT ![s][b] = @ + 1]
  /\ UNCHANGED <<app, thread, section, deleted, flags, progress, pc, control,
                 exiting, faults, failed, stopped, lost, misused>>

\* No request waits for the chunk: it may be lost.
Lose(s) ==
  /\ Running /\ s \in Active \ stopped /\ chunk[s] < MaxChunks[app]
  /\ requests[s][chunk[s] % NumBuffers] = {}
  /\ chunk' = [chunk EXCEPT ![s] = @ + 1]
  /\ lost' = lost \cup {s}
  /\ UNCHANGED <<app, requests, memory, answered, thread, section, deleted, flags, progress,
                 pc, control, exiting, faults, failed, stopped, misused>>

----------------------------------------------------------------------------
\* The callback threads: MyCallback

\* EnterCriticalSection and the three assignments.
CallbackEnters(s, b) ==
  /\ Running /\ thread[s][b] = "idle" /\ answered[s][b] > 0
  /\ section = Free /\ ~deleted
  /\ section' = <<s, b>>
  /\ thread' = [thread EXCEPT ![s][b] = "in"]
  /\ answered' = [answered EXCEPT ![s][b] = @ - 1]
  /\ occurred' = [occurred EXCEPT ![s] = TRUE]
  /\ result' = [result EXCEPT ![s] = FALSE]
  /\ filled' = [filled EXCEPT ![s][b] = TRUE]
  /\ UNCHANGED <<app, chunk, requests, memory, deleted, progress, pc, control,
                 exiting, faults, failed, stopped, lost, misused>>

CallbackLeaves(s, b) ==
  /\ Running /\ thread[s][b] = "in" /\ ~deleted
  /\ section' = Free
  /\ thread' = [thread EXCEPT ![s][b] = IF <<s, b>> \in failed THEN "gone" ELSE "idle"]
  /\ UNCHANGED <<app, board, deleted, flags, progress, pc, control, exiting, faults,
                 failed, misused>>

\* The thread ends by an error and calls the callback with nothing but the
\* result: `other', where buffer_num should be, was never assigned.
ThreadFails(s, b, other) ==
  /\ Running /\ thread[s][b] = "idle" /\ section = Free /\ ~deleted
  /\ Fault
  /\ section' = <<s, b>>
  /\ thread' = [thread EXCEPT ![s][b] = "in"]
  /\ occurred' = [occurred EXCEPT ![s] = TRUE]
  /\ result' = [result EXCEPT ![s] = TRUE]
  /\ filled' = [filled EXCEPT ![s][other] = TRUE]
  /\ failed' = failed \cup {<<s, b>>}
  /\ UNCHANGED <<app, board, deleted, progress, pc, control, exiting, misused>>

\* A callback enters or leaves the deleted section: it works, hangs or crashes.
UsesDeleted(s, b) ==
  /\ Running /\ deleted
  /\ \/ thread[s][b] = "idle" /\ answered[s][b] > 0
        /\ answered' = [answered EXCEPT ![s][b] = @ - 1]
     \/ thread[s][b] = "in" /\ UNCHANGED answered
  /\ misused' = TRUE
  /\ \/ /\ \E t \in {"idle", "stuck"} : thread' = [thread EXCEPT ![s][b] = t]
        /\ UNCHANGED pc
     \/ pc' = "exited" /\ UNCHANGED thread
  /\ UNCHANGED <<app, chunk, requests, memory, section, deleted, flags, progress, control,
                 exiting, faults, failed, stopped, lost>>

----------------------------------------------------------------------------
\* The main loop

\* CtrlCHandler.
CtrlC ==
  /\ Running /\ ~exiting
  /\ exiting' = TRUE
  /\ UNCHANGED <<app, board, thread, section, deleted, flags, progress, pc, control,
                 faults, failed, misused>>

\* A call of main fails: Fail calls Cleanup, in or out of the section.
Fails ==
  /\ failing' = TRUE /\ pc' = "cleanup"

LoopEnds ==
  /\ pc = "loop" /\ (exiting \/ Enough)
  /\ pc' = "stop"
  /\ UNCHANGED <<app, board, thread, section, deleted, flags, progress, control,
                 exiting, faults, failed, misused>>

\* A callback has occurred; otherwise main sleeps and looks again.
Look ==
  /\ pc = "loop" /\ ~exiting /\ ~Enough
  /\ CopiesFlags => section = Free
  /\ todo' = {s \in Active : occurred[s]} /\ todo' # {}
  /\ pc' = "enter"
  /\ UNCHANGED <<app, board, thread, section, deleted, flags, progress, at, removing,
                 exiting, failing, faults, failed, misused>>

\* handle_interrupt serves the trigger's interrupt before the DMA callbacks'
\* flag is acted upon.  All it does to the stream is that it may fail.
HandleInterrupt ==
  /\ WaitsForTrigger /\ section = Free
  /\ pc = "enter" \/ (pc = "loop" /\ ~exiting /\ ~Enough)
  /\ Fault /\ Fails
  /\ UNCHANGED <<app, board, thread, section, deleted, flags, progress, todo, at, removing,
                 exiting, failed, misused>>

\* EnterCriticalSection and Fail(callback_result).
Enter ==
  /\ pc = "enter" /\ section = Free
  /\ section' = MainThread /\ at' = FirstOf(todo)
  /\ IF result[at'] THEN Fails ELSE pc' = "drain" /\ UNCHANGED failing
  /\ UNCHANGED <<app, board, thread, deleted, flags, progress, todo, removing, exiting,
                 faults, failed, misused>>

\* Mutants: the same buffer again; a buffer number beyond the last.
SameBuffer(s) == current[s]
NextBufferPast(s) == current[s] + 1

\* A direct program asks only for data it wants.
Asks == Direct => offset[at] < Amount[app]

NextBuffer(s) == (current[s] + 1) % NumBuffers

\* filled_buffers[current_buffer] = FALSE
Unfilled == [filled EXCEPT ![at][current[at]] = FALSE]

\* The current buffer is filled: its data is taken, and it is requested again.
Drain ==
  /\ pc = "drain" /\ filled[at][current[at]]
  /\ filled' = Unfilled
  /\ output' = [output EXCEPT ![at] =
       Append(@, memory[at][IF Direct THEN ints[at] ELSE current[at]])]
  /\ \/ /\ requests' = [requests EXCEPT ![at][current[at]] =
                          IF Asks THEN @ \cup {Destination(at)} ELSE @]
        /\ ints' = [ints EXCEPT ![at] = @ + 1]
        /\ current' = [current EXCEPT ![at] = NextBuffer(at)]
        /\ offset' = [offset EXCEPT ![at] = @ + 1]
        /\ IF StopsEarly(at)
           THEN pc' = "leave" /\ stopped' = stopped \cup {at}
           ELSE pc' = "drain" /\ UNCHANGED stopped
        /\ UNCHANGED <<failing, faults>>
     \/ (Asks \/ StopsEarly(at)) /\ Fault /\ Fails /\ UNCHANGED <<requests, ints, current, offset, stopped>>
  /\ UNCHANGED <<app, chunk, memory, answered, thread, section, deleted, occurred, result,
                 todo, at, removing, exiting, failed, lost, misused>>

\* No more buffers: the flag is cleared in the section.
Leave ==
  /\ pc = "leave" \/ (pc = "drain" /\ ~filled[at][current[at]])
  /\ occurred' = [occurred EXCEPT ![at] = FALSE]
  /\ section' = Free
  /\ todo' = todo \ {at}
  /\ pc' = CASE todo' # {}                 -> "enter"
             [] todo' = {} /\ ClearsLate    -> "late"
             [] todo' = {} /\ WaitsForTrigger -> "loop"
             [] OTHER                       -> "clear"
  /\ UNCHANGED <<app, board, thread, deleted, result, filled, progress, at, removing,
                 exiting, failing, faults, failed, misused>>

\* The two simultaneous programs then clear both flags once more.
ClearFlags ==
  /\ pc = "late" /\ section = Free
  /\ occurred' = [s \in Streams |-> FALSE]
  /\ pc' = "clear"
  /\ UNCHANGED <<app, board, thread, section, deleted, result, filled, progress, control,
                 exiting, faults, failed, misused>>

\* SDM35541_Clear_IT_Mask and _Clear_IT_Overrun.
ClearInterrupts ==
  /\ pc = "clear"
  /\ \/ pc' = "loop" /\ UNCHANGED <<failing, faults>>
     \/ Fault /\ Fails
  /\ UNCHANGED <<app, board, thread, section, deleted, flags, progress, todo, at, removing,
                 exiting, failed, misused>>

\* The clocks and the DMA interrupts are stopped.
Stop ==
  /\ pc = "stop"
  /\ \/ pc' = "cleanup" /\ UNCHANGED <<failing, faults>>
     \/ Fault /\ Fails
  /\ UNCHANGED <<app, board, thread, section, deleted, flags, progress, todo, at, removing,
                 exiting, failed, misused>>

----------------------------------------------------------------------------
\* Cleanup

\* DeleteCriticalSection, whoever owns it.
DeleteSection ==
  /\ pc = "cleanup"
  /\ misused' = (misused \/ deleted)
  /\ deleted' = TRUE /\ section' = Free
  /\ removing' = Threads
  /\ pc' = IF ClearsLate THEN "halt" ELSE "remove"
  /\ UNCHANGED <<app, board, thread, flags, progress, todo, at, exiting, failing, faults,
                 failed>>

\* Cleanup of the simultaneous programs stops the DMA channels; when that fails
\* it calls Fail, which calls Cleanup.
StopDma ==
  /\ pc = "halt"
  /\ \/ pc' = "remove" /\ stopped' = Active /\ UNCHANGED <<failing, faults>>
     \/ Fault /\ Fails /\ UNCHANGED stopped
  /\ UNCHANGED <<app, chunk, requests, memory, answered, lost, thread, section, deleted,
                 flags, progress, todo, at, removing, exiting, failed, misused>>

\* SDM35541_DMA_Remove_Callback ends the thread once it waits; a thread that
\* has ended by itself or that is stuck is an error, and the process exits.
RemoveCallback(s, b) ==
  /\ pc = "remove" /\ <<s, b>> \in removing
  /\ thread[s][b] = "idle" /\ answered[s][b] = 0
  /\ thread' = [thread EXCEPT ![s][b] = "gone"]
  /\ removing' = removing \ {<<s, b>>}
  /\ UNCHANGED <<app, board, section, deleted, flags, progress, pc, todo, at, exiting,
                 failing, faults, failed, misused>>

RemoveFails(s, b) ==
  /\ pc = "remove" /\ <<s, b>> \in removing
  /\ pc' = "exited"
  /\ UNCHANGED <<app, board, thread, section, deleted, flags, progress, control, exiting,
                 faults, failed, misused>>

\* Gbc_Board_Reset and Board_Close; after a failure check_result exits.
Close ==
  /\ pc = "remove" /\ removing = {}
  /\ \/ pc' = (IF failing THEN "exited" ELSE "done") /\ UNCHANGED faults
     \/ Fault /\ pc' = "exited"
  /\ UNCHANGED <<app, board, thread, section, deleted, flags, progress, control, exiting,
                 failed, misused>>

----------------------------------------------------------------------------

Main ==
  \/ LoopEnds \/ Look \/ Enter \/ Drain \/ Leave \/ ClearFlags \/ ClearInterrupts \/ Stop
  \/ DeleteSection \/ StopDma \/ Close
  \/ \E s \in Streams, b \in Buffers : RemoveCallback(s, b) \/ RemoveFails(s, b)

Callback(s, b) == CallbackEnters(s, b) \/ CallbackLeaves(s, b)

Next ==
  \/ \E s \in Streams : Sample(s) \/ Lose(s)
  \/ HandleInterrupt
  \/ \E s \in Streams, b \in Buffers :
       \/ Callback(s, b) \/ UsesDeleted(s, b)
       \/ \E other \in Buffers : ThreadFails(s, b, other)
  \/ CtrlC \/ Main

Spec == Init /\ [][Next]_vars

\* Every thread keeps running; nothing is assumed of the board.
Fairness == WF_vars(Main) /\ \A s \in Streams, b \in Buffers : WF_vars(Callback(s, b))

FairSpec == Spec /\ Fairness

\* The board keeps sampling, too.
SamplingSpec == FairSpec /\ \A s \in Streams : WF_vars(Sample(s))

----------------------------------------------------------------------------
\* Properties

\* The threads, the flags and the program's variables are what they are declared to be.
TypeOK ==
  /\ app \in Apps
  /\ chunk \in [Streams -> 0 .. MaxChunks[app]]
  /\ \A s \in Streams, b \in Buffers : requests[s][b] \subseteq Destinations
  /\ \A s \in Streams : memory[s] \in [Destinations -> 0 .. MaxChunks[app]]
  /\ \A s \in Streams, b \in Buffers : /\ answered[s][b] \in Nat
                                       /\ thread[s][b] \in {"idle", "in", "stuck", "gone"}
  /\ section \in {Free, MainThread} \cup (Streams \X Buffers)
  /\ current \in [Streams -> Buffers] /\ ints \in [Streams -> Nat]

\* A filled buffer belongs to the application: no request of the driver's is
\* outstanding for it and no second callback is due, so that what main takes
\* cannot change while it takes it (as long as no callback thread has failed).
FilledIsOurs ==
  failed = {} => \A s \in Active, b \in Buffers :
    filled[s][b] => requests[s][b] = {} /\ answered[s][b] = 0

\* A direct program requests no data beyond the end of its array.  HsdinDma's requests
\* stay within its local buffers; that it copies these into its own array without a look
\* at the room left there is no matter of the driver's, and of no property.
DataFits == Direct => \A s \in Active, b \in Buffers : \A d \in requests[s][b] : d < Amount[app]

\* The driver never writes where main reads, nor past the end of the data.
RequestsAreSafe == FilledIsOurs /\ DataFits

\* Whatever the order in which the callbacks of the buffers run, the program
\* takes the chunks in the order they were sampled, each once, unless the
\* board found no request for one or a callback thread failed.
TakenInOrder ==
  \A s \in Active : s \notin lost /\ failed = {} =>
    \A i \in 1 .. Len(output[s]) : output[s][i] = i

\* What the program takes is what was sampled.
DataIsSound == RequestsAreSafe /\ TakenInOrder

ClearsInOrder == {"AdcDma", "HsdinDma", "AdcExternalTrigger"}

\* In these programs main never sleeps on a filled buffer: when it looks at the flag
\* again and the buffer it takes next is filled, the flag is set, whatever callbacks ran
\* since it looked at the buffers.
ReportedIsNoticed ==
  app \in ClearsInOrder /\ pc \in {"loop", "enter", "clear"} =>
    \A s \in Active : filled[s][current[s]] => occurred[s]

\* In the programs that clear the flag where they look at the buffers:
\* a buffer that a callback has reported is taken by main, whatever the order of
\* the flag's reads and writes, unless the program ends or has seen an error, or
\* the board lost a chunk (then an earlier buffer may never be filled).
ReportedIsTaken ==
  \A s \in Streams, b \in Buffers :
    (app \in ClearsInOrder /\ pc = "loop" /\ filled[s][b]) ~>
      (~filled[s][b] \/ failing \/ exiting \/ Enough \/ lost # {} \/ failed # {} \/ ~Running)

\* Ctrl-C, an error or the last chunk ends the process, although Cleanup deletes the
\* section first and a callback thread may hang in it for ever.
ProgramEnds == (exiting \/ failing \/ Enough) ~> ~Running

\* "Variable to allow graceful exit from Ctrl-C": the callbacks never use the
\* section after Cleanup has deleted it.
GracefulExit == ~misused

\* "The samples are printed to the screen at the end of the program": while the
\* board keeps sampling, the program gets the data it wants, unless it is stopped
\* or the board loses a chunk.
SamplesArePrinted == <>(Enough \/ exiting \/ failing \/ lost # {} \/ ~Running)
=============================================================================
