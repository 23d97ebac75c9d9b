---------------------------- MODULE NotifyQueue ----------------------------
(***************************************************************************)
(* What a callback thread promises, without its slots and events: the      *)
(* driver answers the thread's NOTIFY requests, and the thread calls the   *)
(* user's callback with one answer after the other, each once and in the   *)
(* driver's order, until it is asked to stop or something fails.  An       *)
(* answer is what the callback is told, or Nothing: the request was        *)
(* cancelled.  NotifyThread implements it with its ring of slots, and      *)
(* DmaTransfer builds on it.                                               *)
(***************************************************************************)
EXTENDS Naturals, Sequences

CONSTANT Depth   \* SDM35541_NOTIFY_QUEUE_DEPTH

VARIABLES
  waiting,   \* NOTIFY requests the driver has
  answered,  \* answers the user has not been told, oldest first
  at,        \* the thread: "starting", "wait", "callback", "requeue", "stopped", "broken"
  info       \* what the callback is told; Nothing outside it

vars == <<waiting, answered, at, info>>

Nothing == 0

\* A thread that starts, or one that has started.
Init ==
  /\ answered = <<>> /\ info = Nothing
  /\ \/ at = "starting" /\ waiting = 0
     \/ at = "wait" /\ waiting = Depth

\* A request of every slot is queued before the thread begins to wait.
Queue ==
  /\ at = "starting" /\ waiting + Len(answered) < Depth
  /\ waiting' = waiting + 1
  /\ UNCHANGED <<answered, at, info>>

Ready ==
  /\ at = "starting" /\ waiting + Len(answered) = Depth
  /\ at' = "wait"
  /\ UNCHANGED <<waiting, answered, info>>

\* The driver answers requests, whatever the thread is doing.
Answer ==
  /\ at \in {"starting", "wait", "callback", "requeue"} /\ waiting' < waiting
  /\ answered' \in Seq(Nat)
  /\ Len(answered') + waiting' = Len(answered) + waiting
  /\ SubSeq(answered', 1, Len(answered)) = answered
  /\ UNCHANGED <<at, info>>

\* The callback is called with the oldest answer.
Take ==
  /\ at = "wait" /\ answered # <<>> /\ Head(answered) # Nothing
  /\ info' = Head(answered) /\ answered' = Tail(answered)
  /\ at' = "callback"
  /\ UNCHANGED waiting

Return ==
  /\ at = "callback"
  /\ info' = Nothing /\ at' = "requeue"
  /\ UNCHANGED <<waiting, answered>>

Requeue ==
  /\ at = "requeue"
  /\ waiting' = waiting + 1 /\ at' = "wait"
  /\ UNCHANGED <<answered, info>>

\* The thread stops in good order only when the user has been told of every answer.
Stop ==
  /\ at = "wait" /\ answered = <<>>
  /\ waiting' = 0 /\ at' = "stopped"
  /\ UNCHANGED <<answered, info>>

\* An error, a cancelled request included, but never in the middle of the callback:
\* what the callback has not been told is dropped.
Break ==
  /\ at \notin {"callback", "broken"}
  /\ waiting' = 0 /\ answered' = <<>> /\ info' = Nothing
  /\ at' = "broken"

Next == Queue \/ Ready \/ Answer \/ Take \/ Return \/ Requeue \/ Stop \/ Break

Spec == Init /\ [][Next]_vars
=============================================================================
