----------------------------- MODULE ThreadLife -----------------------------
(***************************************************************************)
(* The life of one callback thread of librtd-SDM35541_os.c, as the two     *)
(* functions that install and remove a callback can see it: the status     *)
(* word in the thread data, the terminate event the thread owns, the heap  *)
(* block holding the thread data, the last call of the user's callback     *)
(* that reports a fatal error, and whether the thread has returned.        *)
(*                                                                         *)
(* Each operator is one step and gives the set of lives it may lead to.    *)
(* ThreadLifeSpec makes a specification of them, which NotifyThread        *)
(* implements; CallbackControl runs several such threads against Install   *)
(* and Remove.                                                             *)
(***************************************************************************)

\* status   the LONG of SDM35541_Interrupt_Thread_Data: 0 preparing, 1 ready,
\*          2 failed
\* result   whether the thread's local result is still SDM35541_ERROR_NO_ERROR;
\*          "hung" once a thread that has failed waits for ever while it drains
\* term     terminate_event: "clear", "set", or "closed" by the thread
\* end      how far it is with ending: the user's callback was called with the
\*          error, the malloc'ed thread data is freed, the thread has returned
Lives == [status : {0, 1, 2}, result : {"ok", "error", "hung"}, term : {"clear", "set", "closed"},
          end : {"none", "told", "freed", "exited"}]

Start == [status |-> 0, result |-> "ok", term |-> "clear", end |-> "none"]

----------------------------------------------------------------------------
\* InterlockedExchange(&thread_data->status, 1).
Readies(l) ==
  IF l.status = 0 /\ l.result = "ok" /\ l.term # "closed"
  THEN {[l EXCEPT !.status = 1]} ELSE {}

\* A call inside the thread fails.
Fails(l) ==
  IF l.result = "ok" /\ l.term # "closed" THEN {[l EXCEPT !.result = "error"]} ELSE {}

\* InterlockedExchange(&thread_data->status, 2).
Marks(l) ==
  IF l.result = "error" /\ l.status # 2 /\ l.term # "closed"
  THEN {[l EXCEPT !.status = 2]} ELSE {}

\* A thread that served could not queue a slot again, and waits, while it drains
\* its queue, for the event of that slot, which the wait that chose the slot has
\* reset.  A thread that fails before it is ready has no such slot.
Hangs(l) ==
  IF l.result = "error" /\ l.status = 1 /\ l.term # "closed"
  THEN {[l EXCEPT !.result = "hung"]} ELSE {}

Closed(l) == [l EXCEPT !.term = "closed"]

\* CloseHandle(thread_data->terminate_event).  A thread that has not failed
\* gets here only because it was ready and its terminate event was set; then
\* closing a handle may still fail.
Closes(l) ==
  IF l.result = "ok"
  THEN IF l.status = 1 /\ l.term = "set"
       THEN {Closed(l), [Closed(l) EXCEPT !.result = "error"]}
       ELSE {}
  ELSE IF l.status = 2 /\ l.term # "closed" THEN {Closed(l)} ELSE {}

\* The user's callback reports the error.
Tells(l) ==
  IF l.term = "closed" /\ l.result = "error" /\ l.end = "none"
  THEN {[l EXCEPT !.end = "told"]} ELSE {}

\* free(data), and the return of the thread function.
Frees(l) ==
  IF l.term = "closed" /\ l.end = IF l.result = "error" THEN "told" ELSE "none"
  THEN {[l EXCEPT !.end = "freed"]} ELSE {}

Exits(l) == IF l.end = "freed" THEN {[l EXCEPT !.end = "exited"]} ELSE {}

\* What the thread does by itself when no call of its own fails or hangs.
Runs(l) == UNION {Readies(l), Marks(l), Closes(l), Tells(l), Frees(l), Exits(l)}

OwnSteps(l) == Runs(l) \cup Fails(l) \cup Hangs(l)

\* SetEvent(terminate_event) by somebody else; it fails on a closed handle.
Terminated(l) ==
  IF l.term = "closed" THEN {} ELSE {[l EXCEPT !.term = "set"]}

=============================================================================
