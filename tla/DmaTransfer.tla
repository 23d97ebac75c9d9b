---------------------------- MODULE DmaTransfer ----------------------------
(***************************************************************************)
(* DMA requests from SDM35541_DMA_Request_Transfer to the user's DMA       *)
(* callback, for one buffer of one channel: the driver's queue of          *)
(* requests, the driver's queue of NOTIFY requests that                    *)
(* dma_callback_thread_core keeps filled, and the callback.  NotifyThread  *)
(* shows that the thread's ring of slots delivers in order and how the     *)
(* thread starts and ends; here the ring is the sequence of answered       *)
(* notifications, and the thread runs.                                     *)
(*                                                                         *)
(* The driver is external: it completes the request at the head of its     *)
(* queue, starts the next one, and answers the oldest NOTIFY with the      *)
(* finished request; a request that finishes while no NOTIFY is queued     *)
(* notifies nobody ("a request for a notification the next time a DMA      *)
(* finishes").                                                             *)
(***************************************************************************)
EXTENDS Naturals, Sequences

CONSTANTS
  Depth,        \* SDM35541_NOTIFY_QUEUE_DEPTH
  MaxRequests,  \* SDM35541_INTRFC_MAX_DMA_REQUESTS
  Window,       \* requests the application keeps going
  MaxIds,       \* bound of the model: requests made in all
  Waits,        \* the application makes requests with wait = TRUE
  Cancels       \* the application calls Abort, Flush and Flush_All

ASSUME DepthAssumption    == Depth \in Nat \ {0}
ASSUME RequestsAssumption == MaxRequests \in Nat \ {0}
ASSUME WindowAssumption   == Window \in Nat \ {0}
ASSUME IdsAssumption      == MaxIds \in Nat
ASSUME ModeAssumption     == Waits \in BOOLEAN /\ Cancels \in BOOLEAN

VARIABLES
  made,      \* requests made so far; they are numbered
  queue,     \* the driver's requests, the one in progress first
  notifies,  \* NOTIFY requests the driver has
  answered,  \* the thread's answered NOTIFY slots, in ring order
  at,        \* the callback thread: "wait", "callback", "requeue"
  info,      \* what the callback is told: request_id, request_result, pending;
             \* `madeThen' is history: requests made when this one finished
  going,     \* requests the application regards as not finished
  told,      \* history: requests the callback was told of
  lost,      \* history: requests that finished and notified nobody
  waiter     \* a call with wait = TRUE: "none", "waiting", "crashed"

transferVars == <<made, queue, notifies, answered, at, info, going, told, lost, waiter>>

Results == {"SUCCESS", "TIMEOUT", "ABORTED", "FLUSHED"}

Idle == [id |-> 0, result |-> "SUCCESS", pending |-> 0, madeThen |-> 0]

\* The thread has queued its NOTIFY requests.
TransferInit ==
  /\ made = 0 /\ queue = <<>> /\ notifies = Depth /\ answered = <<>>
  /\ at = "wait" /\ info = Idle /\ going = 0
  /\ told = {} /\ lost = {} /\ waiter = "none"

----------------------------------------------------------------------------
\* The application

\* SDM35541_DMA_Request_Transfer without waiting: from the application's main
\* thread or from the callback, while it wants another request going.  (With
\* a full queue the driver refuses it, and nothing changes.)
Request ==
  /\ waiter # "crashed" /\ made < MaxIds /\ going < Window
  /\ Len(queue) < MaxRequests
  /\ made' = made + 1 /\ queue' = Append(queue, made + 1) /\ going' = going + 1
  /\ UNCHANGED <<notifies, answered, at, info, told, lost, waiter>>

\* With wait = TRUE: call_ioctl clears the pointer to the OVERLAPPED instead of
\* the OVERLAPPED, and writes through it before it reaches the driver.
RequestAndWait ==
  /\ Waits /\ waiter = "none" /\ made < MaxIds
  /\ waiter' = "waiting"
  /\ UNCHANGED <<made, queue, notifies, answered, at, info, going, told, lost>>

CallIoctlOverlapped ==
  /\ waiter = "waiting"
  /\ waiter' = "crashed"
  /\ UNCHANGED <<made, queue, notifies, answered, at, info, going, told, lost>>

----------------------------------------------------------------------------
\* The driver

\* Answers to the finished requests `ids' with the result; `behind' requests
\* are left: the next is in progress (is_working), the others are pending.
Answers(ids, value, behind) ==
  [i \in 1 .. Len(ids) |->
     [id |-> ids[i], result |-> value, working |-> IF behind > 0 THEN 1 ELSE 0,
      pending |-> IF behind > 0 THEN behind - 1 ELSE 0, madeThen |-> made]]

\* As many requests as there are NOTIFYs for are told to the thread.
Finish(ids, value, behind) ==
  LET n == IF Len(ids) < notifies THEN Len(ids) ELSE notifies IN
  /\ answered' = answered \o SubSeq(Answers(ids, value, behind), 1, n)
  /\ notifies' = notifies - n
  /\ lost' = lost \cup {ids[i] : i \in n + 1 .. Len(ids)}

\* The request in progress ends with the result, and the next one is started.
End(value) ==
  /\ waiter # "crashed" /\ queue # <<>>
  /\ Finish(<<Head(queue)>>, value, Len(queue) - 1)
  /\ queue' = Tail(queue)
  /\ UNCHANGED <<made, at, info, going, told, waiter>>

\* It ends by itself or by its timeout.
Complete == \E value \in {"SUCCESS", "TIMEOUT"} : End(value)

\* SDM35541_DMA_Abort.
Abort == Cancels /\ End("ABORTED")

\* SDM35541_DMA_Flush and _Flush_All: the request in progress and all queued
\* ones are flushed.
Flush ==
  /\ Cancels /\ waiter # "crashed" /\ queue # <<>>
  /\ Finish(queue, "FLUSHED", 0)
  /\ queue' = <<>>
  /\ UNCHANGED <<made, at, info, going, told, waiter>>

----------------------------------------------------------------------------
\* dma_callback_thread_core

\* Mutant: the request in progress is not counted.
PendingWithoutCurrent(a) == IF a.working # 0 THEN a.pending ELSE 0

\* info.pending.
Pending(a) == IF a.working # 0 THEN a.pending + 1 ELSE 0

\* Mutant: event_count stays where it is, and the slot is looked at again.
UntoldStuck == answered

\* The answers behind the one in hand.
Untold == Tail(answered)

\* The next slot's event is signalled: the callback is called.
CallUser ==
  /\ at = "wait" /\ answered # <<>> /\ waiter # "crashed"
  /\ info' = [id |-> Head(answered).id, result |-> Head(answered).result,
              pending |-> Pending(Head(answered)), madeThen |-> Head(answered).madeThen]
  /\ told' = told \cup {Head(answered).id}
  /\ answered' = Untold
  /\ going' = going - 1
  /\ at' = "callback"
  /\ UNCHANGED <<made, queue, notifies, lost, waiter>>

CallbackReturns ==
  /\ at = "callback" /\ waiter # "crashed"
  /\ at' = "requeue" /\ info' = Idle
  /\ UNCHANGED <<made, queue, notifies, answered, going, told, lost, waiter>>

\* Mutant: the slot is not queued again.
RequeuedNone  == notifies

Requeued == notifies + 1

\* The slot is queued again, after the callback.
Requeue ==
  /\ at = "requeue" /\ waiter # "crashed"
  /\ notifies' = Requeued
  /\ at' = "wait"
  /\ UNCHANGED <<made, queue, answered, info, going, told, lost, waiter>>

----------------------------------------------------------------------------

Thread == CallUser \/ CallbackReturns \/ Requeue

TransferNext ==
  \/ Request \/ RequestAndWait \/ CallIoctlOverlapped
  \/ Complete \/ Abort \/ Flush \/ Thread

TransferSpec == TransferInit /\ [][TransferNext]_transferVars

\* The callback thread is scheduled and callbacks return; the board works its
\* requests off.
FairTransferSpec == TransferSpec /\ WF_transferVars(Thread) /\ WF_transferVars(Complete)

----------------------------------------------------------------------------
\* Properties

TransferTypeOK ==
  /\ made \in 0 .. MaxIds /\ queue \in Seq(1 .. MaxIds) /\ Len(queue) <= MaxRequests
  /\ notifies \in 0 .. Depth
  /\ answered \in Seq([id : 1 .. MaxIds, result : Results, working : {0, 1},
                       pending : Nat, madeThen : 0 .. MaxIds])
  /\ info \in [id : 0 .. MaxIds, result : Results, pending : Nat, madeThen : 0 .. MaxIds]
  /\ at \in {"wait", "callback", "requeue"} /\ going \in 0 .. Window
  /\ told \subseteq 1 .. MaxIds /\ lost \subseteq 1 .. MaxIds
  /\ waiter \in {"none", "waiting", "crashed"}

\* "A function that will be called each time a DMA finishes on the given
\* channel": no request finishes without a NOTIFY to tell of it, as long as
\* the application keeps fewer requests going than the thread has NOTIFYs,
\* also while it queues the next request from inside the callback.
NoRequestLost == lost = {}

\* "the number of transfer requests that were in the queue behind this one":
\* those made before it finished and after it, the one that was in progress
\* included.
PendingIsExact ==
  at = "callback" /\ info.result # "FLUSHED" => info.pending = info.madeThen - info.id

\* Every request that the driver took is told to the callback, unless a waiting
\* call has crashed the program.
EveryRequestTold ==
  \A id \in 1 .. MaxIds :
    (\E i \in 1 .. Len(queue) : queue[i] = id) ~> (id \in told \/ waiter = "crashed")

\* The callback is told of a request once, and in the order in which they were made, also
\* when several are flushed at once and some finish without a NOTIFY.
ToldInOrder ==
  [][at = "wait" /\ at' = "callback" => \A id \in told : id < info'.id]_transferVars

\* Refinement: the NOTIFY requests, and the ids that the callback is told of.
AnsweredIds == [i \in 1 .. Len(answered) |-> answered[i].id]

Notifying == INSTANCE NotifyQueue WITH waiting <- notifies, answered <- AnsweredIds, info <- info.id

\* The requests of a channel run on what NotifyThread's ring gives: each NOTIFY that the
\* driver answers is told to the callback once, in order, and queued again.
ImplementsNotifyQueue == Notifying!Spec
=============================================================================
