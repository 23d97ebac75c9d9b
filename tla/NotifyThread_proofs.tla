------------------------ MODULE NotifyThread_proofs -------------------------
(***************************************************************************)
(* Theorems about NotifyThread, for every Depth and MaxInterrupts.         *)
(***************************************************************************)
EXTENDS NotifyThread, SequenceTheorems, TLAPS

\* The one-line helpers of the thread's steps are always expanded.
USE DEF AfterError, SlotFirst, Resignal, InfoInterrupts, FinalStatus, Reports

----------------------------------------------------------------------------
\* The inductive strengthening

\* While requests circulate: from the first QueueNotify to the thread's
\* decision to stop.
Circulating == pc \in {"queue"} \cup Serving

\* Distance of the first slot not yet told to the user.
Told == IF pc = "requeue" THEN 1 ELSE 0

PhaseInv ==
  /\ pc \in {"create", "queue"} => eventCount = 0
  /\ pc = "create" => /\ numQueued = 0 /\ driverQ = <<>> /\ signalled = {}
                      /\ io = [s \in Slots |-> "user"]
  /\ pc \in Serving => numQueued = Depth

\* The state of a slot's request is a function of its distance in the ring:
\* told, answered, queued in the driver, not yet queued.
IoByDistance ==
  Circulating =>
    \A s \in Slots :
      io[s] \in IF Dist(s) < Told THEN {"user"}
               ELSE IF Dist(s) < Behind THEN {"complete", "aborted"}
               ELSE IF Dist(s) < numQueued THEN {"pending"} ELSE {"user"}

\* The thread works on a slot only after the driver has answered for it.
InHand == pc \in {"fetch", "callback", "requeue"} => Behind >= 1

\* A slot's event is signalled exactly when its request is answered, except
\* between the wait that resets it and the callback.
EventMatchesIo ==
  Circulating =>
    \A s \in Slots :
      s \in signalled <=> /\ io[s] \in {"complete", "aborted"}
                          /\ ~(s = eventCount /\ pc \in {"fetch", "callback"})

RingInv == TypeOK /\ PhaseInv /\ RingOrder /\ IoByDistance /\ InHand /\ EventMatchesIo

\* What cleanup can rely on: every queued slot will signal or has signalled.
FlushReady ==
  fileOpen /\ pc = "flush" =>
    \A s \in 0 .. numQueued - 1 : io[s] = "pending" \/ s \in signalled

DrainInv == FlushReady /\ DrainNeverHangs

\* The thread's progress, as its own variables and the terminate event record
\* it: what the refinement of ThreadLife rests on.
LifeInv ==
  /\ pc \in {"create", "queue"} => status = 0 /\ result = "ok"
  /\ pc \in Serving => status = 1 /\ result = "ok"
  /\ pc \in {"flush", "drain", "mark"} =>
       status \in {0, 1} /\ (result = "ok" => status = 1 /\ term = "set")
  /\ pc = "close" => IF result = "ok" THEN status = 1 /\ term = "set" ELSE status = 2
  /\ term = "closed" <=> pc \in {"report", "free", "return", "done"}
  /\ reported = IF pc \in {"free", "return", "done"} /\ result # "ok" THEN 1 ELSE 0
  /\ data = IF pc \in {"return", "done"} THEN "freed" ELSE "live"

\* The slot whose notification the user hears next.
FirstUntold == IF pc = "requeue" THEN NextSlot(eventCount) ELSE eventCount

\* The totals along the ring of answered slots: from what the user has heard,
\* through each answered slot, to what the driver has counted since.
Ledger ==
  /\ pc = "create" => raised = seen + driverCount
  /\ pc = "callback" => io[eventCount] = "complete"
  /\ Circulating =>
       /\ io[FirstUntold] = "complete" => upto[FirstUntold] = seen + count[FirstUntold]
       /\ \A s \in Slots :
            io[s] = "complete" /\ io[NextSlot(s)] = "complete" /\ NextSlot(s) # FirstUntold
              => upto[NextSlot(s)] = upto[s] + count[NextSlot(s)]
       /\ \A s \in Slots :
            io[s] = "complete" /\ Dist(s) = Behind - 1 => raised = upto[s] + driverCount
       /\ Behind = Told => raised = seen + driverCount

----------------------------------------------------------------------------
\* Type correctness

LEMMA NextSlotType == \A s \in Slots : NextSlot(s) \in Slots
BY DepthAssumption DEF Slots, NextSlot

\* Notify, CancelAll and the driver's completion keep the slots' types.
LEMMA NotifyType ==
  ASSUME TypeOK, NEW s \in Slots, Notify(s)
  PROVE  /\ signalled' \subseteq Slots
         /\ io' \in [Slots -> {"user", "pending", "complete", "aborted"}]
         /\ driverQ' \in Seq(Slots)
BY DEF TypeOK, Notify

LEMMA CancelAllType ==
  ASSUME TypeOK, CancelAll
  PROVE  /\ signalled' \subseteq Slots
         /\ io' \in [Slots -> {"user", "pending", "complete", "aborted"}]
         /\ driverQ' \in Seq(Slots)
<1>1. signalled' \subseteq Slots
  BY DEF TypeOK, CancelAll
<1>2. io' \in [Slots -> {"user", "pending", "complete", "aborted"}]
  <2>1. \A s \in Slots : io[s] \in {"user", "pending", "complete", "aborted"}
    BY DEF TypeOK
  <2> QED
    BY <2>1 DEF CancelAll
<1>3. driverQ' \in Seq(Slots)
  BY DEF CancelAll
<1> QED
  BY <1>1, <1>2, <1>3

LEMMA HeadTailType ==
  ASSUME TypeOK, driverQ # <<>>
  PROVE  Head(driverQ) \in Slots /\ Tail(driverQ) \in Seq(Slots)
BY DEF TypeOK

\* Every variable of the callback thread, of its slots and of the driver's
\* queue keeps its type, whatever call fails and whenever the file is closed.
THEOREM TypeCorrect == Spec => []TypeOK
<1>1. Init => TypeOK
  BY DepthAssumption DEF Init, TypeOK, Slots, Serving
<1>2. TypeOK /\ [Next]_vars => TypeOK'
  <2> SUFFICES ASSUME TypeOK, [Next]_vars PROVE TypeOK'
    OBVIOUS
  <2> USE DEF TypeOK, Serving
  <2> USE DEF threadVars, slotVars, driverVars
  <2>1. CASE CreateEvents
    BY <2>1 DEF CreateEvents
  <2>2. CASE QueueNotify
    <3>1. ASSUME Notify(numQueued), numQueued < Depth PROVE numQueued \in Slots
      BY <3>1, DepthAssumption DEF Slots
    <3>2. CASE Notify(numQueued) /\ numQueued' = numQueued + 1
      BY <2>2, <3>1, <3>2, DepthAssumption DEF QueueNotify, Notify
    <3>3. CASE UNCHANGED <<numQueued, signalled, io, driverQ>>
      BY <2>2, <3>3 DEF QueueNotify
    <3> QED
      BY <2>2, <3>2, <3>3 DEF QueueNotify
  <2>3. CASE MarkReady
    BY <2>3 DEF MarkReady
  <2>4. CASE WakeOnEvent
    BY <2>4 DEF WakeOnEvent
  <2>5. CASE WakeOnTerminate \/ WakeOnFailure
    BY <2>5 DEF WakeOnTerminate, WakeOnFailure
  <2>6. CASE FetchResult
    BY <2>6 DEF FetchResult
  <2>7. CASE CallUser
    BY <2>7 DEF CallUser
  <2>8. CASE Requeue
    <3>1. CASE Notify(eventCount) /\ eventCount' = NextSlot(eventCount) /\ pc' = "wait"
                                 /\ UNCHANGED result
      BY <2>8, <3>1, NextSlotType, NotifyType DEF Requeue
    <3>2. CASE result' = "INT_STATUS_FAILURE" /\ pc' = "flush"
               /\ UNCHANGED <<eventCount, signalled, io, driverQ>>
      BY <2>8, <3>2 DEF Requeue
    <3> QED
      BY <2>8, <3>1, <3>2 DEF Requeue
  <2>9. CASE FlushQueue
    <3>1. CASE CancelAll
      BY <2>9, <3>1, CancelAllType DEF FlushQueue, Blame
    <3>2. CASE UNCHANGED <<signalled, io, driverQ>>
      BY <2>9, <3>2 DEF FlushQueue, Blame
    <3> QED
      BY <2>9, <3>1, <3>2 DEF FlushQueue
  <2>10. CASE DrainSlot \/ DrainOnFailure
    <3>1. numQueued' \in 0 .. Depth
      BY <2>10, DepthAssumption DEF DrainSlot, DrainOnFailure
    <3> QED
      BY <2>10, <3>1 DEF DrainSlot, DrainOnFailure, Blame, slotVars
  <2>11. CASE DrainDone \/ MarkFailed
    BY <2>11 DEF DrainDone, MarkFailed
  <2>12. CASE CloseHandles
    BY <2>12 DEF CloseHandles, Blame
  <2>13. CASE ReportError
    BY <2>13 DEF ReportError
  <2>14. CASE FreeData \/ ThreadReturn
    BY <2>14 DEF FreeData, ThreadReturn
  <2>15. CASE Interrupt
    <3>1. CASE driverQ # <<>>
      <4>1. /\ Head(driverQ) \in Slots /\ driverQ' = Tail(driverQ)
            /\ io' = [io EXCEPT ![Head(driverQ)] = "complete"]
            /\ count' = [count EXCEPT ![Head(driverQ)] = driverCount + 1]
            /\ upto' = [upto EXCEPT ![Head(driverQ)] = raised + 1]
            /\ signalled' = signalled \cup {Head(driverQ)}
            /\ driverCount' = 0 /\ raised' = raised + 1
            /\ UNCHANGED <<threadVars, term, fileOpen, seen>>
        BY <2>15, <3>1, HeadTailType DEF Interrupt
      <4>2. io' \in [Slots -> {"user", "pending", "complete", "aborted"}]
        BY <4>1
      <4>3. count' \in [Slots -> Nat] /\ upto' \in [Slots -> Nat]
        BY <4>1
      <4>4. driverQ' \in Seq(Slots) /\ driverCount' \in Nat /\ raised' \in Nat
        BY <4>1, HeadTailType, <3>1
      <4> QED
        BY <4>1, <4>2, <4>3, <4>4
    <3>2. CASE driverQ = <<>>
      BY <2>15, <3>2 DEF Interrupt
    <3> QED
      BY <3>1, <3>2
  <2>16. CASE Terminate
    BY <2>16 DEF Terminate
  <2>17. CASE CloseFile
    BY <2>17, CancelAllType DEF CloseFile
  <2>18. CASE ForeignFlush
    BY <2>18, CancelAllType DEF ForeignFlush
  <2>19. CASE UNCHANGED vars
    BY <2>19 DEF vars
  <2> QED
    BY <2>1, <2>2, <2>3, <2>4, <2>5, <2>6, <2>7, <2>8, <2>9, <2>10, <2>11, <2>12, <2>13,
       <2>14, <2>15, <2>16, <2>17, <2>18, <2>19 DEF Next, ThreadStep, WaitFails, Finished
<1> QED
  BY <1>1, <1>2, PTL DEF Spec

----------------------------------------------------------------------------
\* The ring

LEMMA DistRange ==
  ASSUME eventCount \in Slots, NEW s \in Slots
  PROVE  /\ Dist(s) \in 0 .. Depth - 1
         /\ Dist(s) = 0 <=> s = eventCount
BY DepthAssumption DEF Slots, Dist

LEMMA DistInjective ==
  ASSUME eventCount \in Slots, NEW s \in Slots, NEW t \in Slots, Dist(s) = Dist(t)
  PROVE  s = t
BY DepthAssumption DEF Slots, Dist

\* Moving event_count to the next slot brings every other slot one nearer.
LEMMA DistMove ==
  ASSUME eventCount \in Slots, eventCount' = NextSlot(eventCount), NEW s \in Slots
  PROVE  Dist(s)' = IF s = eventCount THEN Depth - 1 ELSE Dist(s) - 1
BY DepthAssumption DEF Slots, Dist, NextSlot

LEMMA DistOfNext ==
  ASSUME eventCount \in Slots, NEW s \in Slots
  PROVE  Dist(NextSlot(s)) = IF NextSlot(s) = eventCount THEN 0 ELSE Dist(s) + 1
BY DepthAssumption DEF Slots, Dist, NextSlot

\* What the driver holds is exactly the slots in state "pending", in ring order.
LEMMA QueueHoldsPending ==
  ASSUME RingInv, Circulating
  PROVE  /\ Behind \in 0 .. numQueued /\ Told \in 0 .. 1 /\ Told <= Behind
         /\ \A i \in 1 .. Len(driverQ) :
              driverQ[i] \in Slots /\ io[driverQ[i]] = "pending"
         /\ driverQ # <<>> => /\ Dist(Head(driverQ)) = Behind
                              /\ Head(driverQ) = driverQ[1]
<1>1. Len(driverQ) \in Nat /\ Len(driverQ) <= numQueued /\ numQueued \in 0 .. Depth
  BY DEF RingInv, TypeOK, RingOrder, Circulating
<1>2. Behind \in 0 .. numQueued /\ Told \in 0 .. 1 /\ Told <= Behind
  BY <1>1, DepthAssumption DEF Behind, Told, RingInv, InHand
<1>3. ASSUME NEW i \in 1 .. Len(driverQ)
      PROVE  /\ driverQ[i] \in Slots /\ io[driverQ[i]] = "pending"
             /\ Dist(driverQ[i]) = Behind + i - 1
  <2>1. driverQ[i] \in Slots
    BY <1>3 DEF RingInv, TypeOK
  <2>2. Dist(driverQ[i]) = Behind + i - 1
    BY <1>3 DEF RingInv, RingOrder, Circulating
  <2>3. Dist(driverQ[i]) < numQueued /\ ~(Dist(driverQ[i]) < Behind)
        /\ ~(Dist(driverQ[i]) < Told)
    BY <1>1, <1>2, <2>2 DEF Behind
  <2> QED
    BY <2>1, <2>2, <2>3 DEF RingInv, IoByDistance
<1>4. driverQ # <<>> => Dist(Head(driverQ)) = Behind /\ Head(driverQ) = driverQ[1]
  <2> HAVE driverQ # <<>>
  <2>1. 1 \in 1 .. Len(driverQ) /\ Head(driverQ) = driverQ[1]
    BY <1>1 DEF RingInv, TypeOK
  <2> QED
    BY <2>1, <1>2, <1>3
<1> QED
  BY <1>2, <1>3, <1>4
RingParts == PhaseInv /\ RingOrder /\ IoByDistance /\ InHand /\ EventMatchesIo

\* Nothing is claimed of the ring once the thread has decided to stop.
LEMMA RingLeft ==
  ASSUME pc' \notin {"create", "queue"} \cup Serving
  PROVE  RingParts'
BY DEF RingParts, PhaseInv, RingOrder, IoByDistance, InHand, EventMatchesIo, Circulating,
       Serving

LEMMA RingQueueNotify ==
  ASSUME RingInv, TypeOK', pc = "queue", pc' = "queue", numQueued < Depth,
         Notify(numQueued), numQueued' = numQueued + 1, UNCHANGED eventCount
  PROVE  RingParts'
<1> DEFINE L == Len(driverQ)
<1>1. /\ eventCount = 0 /\ numQueued \in Slots /\ numQueued \in Nat /\ L \in Nat
      /\ L <= numQueued /\ driverQ \in Seq(Slots) /\ eventCount \in Slots
  BY DepthAssumption DEF RingInv, PhaseInv, TypeOK, RingOrder, Slots
<1>2. /\ Len(driverQ') = L + 1 /\ driverQ'[L + 1] = numQueued
      /\ \A i \in 1 .. L : driverQ'[i] = driverQ[i]
  BY <1>1 DEF Notify
<1>3. Behind' = Behind /\ Behind = numQueued - L /\ Told = 0 /\ Told' = 0
  BY <1>1, <1>2 DEF Behind, Told
<1>4. \A s \in Slots : Dist(s)' = s /\ Dist(s) = s
  BY <1>1 DEF Dist, Slots
<1>5. \A i \in 1 .. Len(driverQ') : Dist(driverQ[i])' = (Behind + i - 1)
  <2> TAKE i \in 1 .. Len(driverQ')
  <2>1. CASE i = L + 1
    BY <1>1, <1>2, <1>3, <1>4, <2>1
  <2>2. CASE i \in 1 .. L
    <3>1. Dist(driverQ[i]) = Behind + i - 1 /\ driverQ[i] \in Slots
      BY <1>1, <2>2 DEF RingInv, RingOrder
    <3> QED
      BY <1>2, <1>4, <2>2, <3>1
  <2> QED
    BY <1>1, <1>2, <2>1, <2>2
<1>6. RingOrder'
  BY <1>1, <1>2, <1>3, <1>5 DEF RingOrder
<1>7. IoByDistance'
  <2> SUFFICES ASSUME NEW s \in Slots
               PROVE  io'[s] \in IF s < Behind THEN {"complete", "aborted"}
                                 ELSE IF s < numQueued + 1 THEN {"pending"} ELSE {"user"}
    BY <1>1, <1>3, <1>4 DEF IoByDistance, Slots
  <2>1. io[s] \in IF s < Behind THEN {"complete", "aborted"}
                  ELSE IF s < numQueued THEN {"pending"} ELSE {"user"}
    BY <1>1, <1>3, <1>4 DEF RingInv, IoByDistance, Circulating, Slots
  <2>2. io'[s] = IF s = numQueued THEN "pending" ELSE io[s]
    BY DEF Notify, RingInv, TypeOK
  <2> QED
    BY <1>1, <1>3, <2>1, <2>2 DEF Slots
<1>8. EventMatchesIo'
  <2> SUFFICES ASSUME NEW s \in Slots
               PROVE  s \in signalled' <=> io'[s] \in {"complete", "aborted"}
    BY DEF EventMatchesIo
  <2>1. s \in signalled <=> io[s] \in {"complete", "aborted"}
    BY DEF RingInv, EventMatchesIo, Circulating
  <2>2. io'[s] = IF s = numQueued THEN "pending" ELSE io[s]
    BY DEF Notify, RingInv, TypeOK
  <2> QED
    BY <2>1, <2>2 DEF Notify
<1> QED
  BY <1>1, <1>6, <1>7, <1>8 DEF RingParts, PhaseInv, InHand, Serving

LEMMA RingRequeue ==
  ASSUME RingInv, TypeOK', pc = "requeue", pc' = "wait", UNCHANGED numQueued,
         Notify(eventCount), eventCount' = NextSlot(eventCount)
  PROVE  RingParts'
<1> DEFINE L == Len(driverQ)
<1>1. /\ numQueued = Depth /\ L \in Nat /\ eventCount \in Slots /\ Circulating
      /\ driverQ \in Seq(Slots) /\ L + Behind = Depth /\ Behind >= 1 /\ Behind \in Nat
  BY DepthAssumption DEF RingInv, PhaseInv, TypeOK, RingOrder, Serving, Circulating, InHand,
                         Behind
<1>2. /\ Len(driverQ') = L + 1 /\ driverQ'[L + 1] = eventCount
      /\ \A i \in 1 .. L : driverQ'[i] = driverQ[i]
  BY <1>1 DEF Notify
<1>3. Behind' = Behind - 1 /\ Told = 1 /\ Told' = 0
  BY <1>1, <1>2, DepthAssumption DEF Behind, Told
<1>4. \A s \in Slots : /\ Dist(s)' = IF s = eventCount THEN Depth - 1 ELSE Dist(s) - 1
                       /\ Dist(s) \in 0 .. Depth - 1
                       /\ Dist(s) = 0 <=> s = eventCount
  BY <1>1, DistMove, DistRange
<1>5. \A i \in 1 .. Len(driverQ') : Dist(driverQ[i])' = (Behind - 1 + i - 1)
  <2> TAKE i \in 1 .. Len(driverQ')
  <2>1. CASE i = L + 1
    BY <1>1, <1>2, <1>4, <2>1, DepthAssumption
  <2>2. CASE i \in 1 .. L
    <3>1. Dist(driverQ[i]) = Behind + i - 1 /\ driverQ[i] \in Slots
      BY <1>1, <2>2 DEF RingInv, RingOrder, Circulating
    <3> QED
      BY <1>1, <1>2, <1>4, <2>2, <3>1
  <2> QED
    BY <1>1, <1>2, <2>1, <2>2
<1>6. RingOrder'
  BY <1>1, <1>2, <1>3, <1>5, DepthAssumption DEF RingOrder
<1>7. \A s \in Slots : io'[s] = IF s = eventCount THEN "pending" ELSE io[s]
  BY DEF Notify, RingInv, TypeOK
<1>8. IoByDistance'
  <2> SUFFICES ASSUME NEW s \in Slots
               PROVE  io'[s] \in IF Dist(s)' < Behind - 1 THEN {"complete", "aborted"}
                                 ELSE IF Dist(s)' < Depth THEN {"pending"} ELSE {"user"}
    BY <1>1, <1>3, <1>4, DepthAssumption DEF IoByDistance
  <2>1. io[s] \in IF Dist(s) < 1 THEN {"user"}
                  ELSE IF Dist(s) < Behind THEN {"complete", "aborted"}
                  ELSE IF Dist(s) < Depth THEN {"pending"} ELSE {"user"}
    BY <1>1, <1>3 DEF RingInv, IoByDistance
  <2> QED
    BY <1>1, <1>4, <1>7, <2>1, DepthAssumption
<1>9. EventMatchesIo'
  <2> SUFFICES ASSUME NEW s \in Slots
               PROVE  s \in signalled' <=> io'[s] \in {"complete", "aborted"}
    BY DEF EventMatchesIo
  <2>1. s \in signalled <=> io[s] \in {"complete", "aborted"}
    BY <1>1 DEF RingInv, EventMatchesIo
  <2> QED
    BY <1>7, <2>1 DEF Notify
<1> QED
  BY <1>1, <1>6, <1>8, <1>9 DEF RingParts, PhaseInv, InHand, Serving
LEMMA RingInterrupt ==
  ASSUME RingInv, TypeOK', Circulating, Interrupt, driverQ # <<>>
  PROVE  RingParts'
<1> DEFINE h == Head(driverQ)
           L == Len(driverQ)
<1>1. /\ h \in Slots /\ driverQ' = Tail(driverQ) /\ driverQ \in Seq(Slots) /\ L \in Nat
      /\ io' = [io EXCEPT ![h] = "complete"] /\ signalled' = signalled \cup {h}
      /\ UNCHANGED <<pc, numQueued, eventCount>>
  BY HeadTailType, SMTT(30) DEF Interrupt, threadVars, RingInv, TypeOK
<1>2. /\ L >= 1 /\ Len(driverQ') = L - 1 /\ L <= numQueued /\ numQueued \in Nat
      /\ \A i \in 1 .. L - 1 : driverQ'[i] = driverQ[i + 1]
  BY <1>1, DepthAssumption DEF RingInv, TypeOK, RingOrder, Circulating
<1>3. /\ Behind \in Nat /\ Behind' = Behind + 1 /\ Behind = numQueued - L /\ Told' = Told
      /\ Told \in 0 .. 1 /\ Told <= Behind
  BY <1>1, <1>2, QueueHoldsPending DEF Behind, Told
<1>4. \A s \in Slots : Dist(s)' = Dist(s) /\ Dist(s) \in Nat
  BY <1>1, DistRange, DepthAssumption DEF Dist, RingInv, TypeOK
<1>5. Dist(h) = Behind /\ io[h] = "pending"
  BY <1>2, QueueHoldsPending
<1>6. \A s \in Slots : Dist(s) = Behind => s = h
  BY <1>1, <1>5, DistInjective DEF RingInv, TypeOK
<1>7. \A s \in Slots : io'[s] = IF s = h THEN "complete" ELSE io[s]
  BY <1>1 DEF RingInv, TypeOK
<1>8. RingOrder'
  <2> SUFFICES ASSUME NEW i \in 1 .. L - 1
               PROVE  Dist(driverQ[i])' = Behind + 1 + i - 1
    BY <1>1, <1>2, <1>3 DEF RingOrder
  <2>1. i + 1 \in 1 .. L
    BY <1>1
  <2>2. Dist(driverQ[i + 1]) = Behind + (i + 1) - 1 /\ driverQ[i + 1] \in Slots
    BY <1>1, <2>1 DEF RingInv, RingOrder, Circulating
  <2> QED
    BY <1>2, <1>3, <1>4, <2>2
<1>9. IoByDistance'
  <2> SUFFICES ASSUME NEW s \in Slots
               PROVE  io'[s] \in IF Dist(s) < Told THEN {"user"}
                                 ELSE IF Dist(s) < Behind + 1 THEN {"complete", "aborted"}
                                 ELSE IF Dist(s) < numQueued THEN {"pending"} ELSE {"user"}
    BY <1>1, <1>3, <1>4 DEF IoByDistance
  <2>1. io[s] \in IF Dist(s) < Told THEN {"user"}
                  ELSE IF Dist(s) < Behind THEN {"complete", "aborted"}
                  ELSE IF Dist(s) < numQueued THEN {"pending"} ELSE {"user"}
    BY DEF RingInv, IoByDistance
  <2> HIDE DEF h
  <2>2. CASE s = h
    BY <1>3, <1>5, <1>7, <2>2
  <2>3. CASE s # h
    <3>1. Dist(s) # Behind /\ io'[s] = io[s]
      BY <1>6, <1>7, <2>3
    <3> QED
      BY <1>3, <1>4, <2>1, <3>1
  <2> QED
    BY <2>2, <2>3
<1>10. pc \in {"fetch", "callback"} => h # eventCount
  <2>1. eventCount \in Slots /\ Dist(eventCount) = 0
    BY DistRange DEF RingInv, TypeOK
  <2>2. pc \in {"fetch", "callback"} => Behind >= 1
    BY DEF RingInv, InHand
  <2> QED
    BY <1>3, <1>5, <2>1, <2>2
<1>11. EventMatchesIo'
  <2> SUFFICES ASSUME NEW s \in Slots
               PROVE  s \in signalled' <=>
                        /\ io'[s] \in {"complete", "aborted"}
                        /\ ~(s = eventCount /\ pc \in {"fetch", "callback"})
    BY <1>1 DEF EventMatchesIo
  <2>1. s \in signalled <=> /\ io[s] \in {"complete", "aborted"}
                            /\ ~(s = eventCount /\ pc \in {"fetch", "callback"})
    BY DEF RingInv, EventMatchesIo
  <2> QED
    BY <1>1, <1>7, <1>10, <2>1
<1>12. PhaseInv' /\ InHand'
  BY <1>1, <1>3 DEF RingInv, PhaseInv, InHand, Circulating, Serving
<1> QED
  BY <1>8, <1>9, <1>11, <1>12 DEF RingParts

LEMMA RingCancel ==
  ASSUME RingInv, TypeOK', CancelAll, UNCHANGED <<pc, numQueued, eventCount>>
  PROVE  RingParts'
<1>1. CASE ~Circulating
  <2>1. PhaseInv'
    BY <1>1 DEF RingInv, PhaseInv, CancelAll, Circulating, Serving
  <2> QED
    BY <1>1, <2>1 DEF RingParts, RingOrder, IoByDistance, InHand, EventMatchesIo, Circulating,
                      Serving
<1>2. CASE Circulating
  <2>1. /\ Behind \in 0 .. numQueued /\ Told \in 0 .. 1 /\ Told <= Behind
        /\ numQueued \in Nat /\ eventCount \in Slots
    BY <1>2, QueueHoldsPending, DepthAssumption, SMTT(30) DEF RingInv, TypeOK
  <2>2. driverQ' = <<>> /\ Len(driverQ') = 0 /\ Behind' = numQueued /\ Told' = Told
    BY <2>1 DEF CancelAll, Behind, Told
  <2>3. \A s \in Slots : Dist(s)' = Dist(s) /\ Dist(s) \in Nat
    BY <2>1, DistRange, DepthAssumption DEF Dist
  <2>4. \A s \in Slots : io'[s] = IF io[s] = "pending" THEN "aborted" ELSE io[s]
    BY DEF CancelAll
  <2>5. IoByDistance'
    <3> SUFFICES ASSUME NEW s \in Slots
                 PROVE  io'[s] \in IF Dist(s) < Told THEN {"user"}
                                   ELSE IF Dist(s) < numQueued THEN {"complete", "aborted"}
                                   ELSE {"user"}
      BY <2>1, <2>2, <2>3 DEF IoByDistance
    <3>1. io[s] \in IF Dist(s) < Told THEN {"user"}
                    ELSE IF Dist(s) < Behind THEN {"complete", "aborted"}
                    ELSE IF Dist(s) < numQueued THEN {"pending"} ELSE {"user"}
      BY <1>2 DEF RingInv, IoByDistance
    <3> QED
      BY <2>1, <2>3, <2>4, <3>1
  <2>6. EventMatchesIo'
    <3> SUFFICES ASSUME NEW s \in Slots
                 PROVE  s \in signalled' <=>
                          /\ io'[s] \in {"complete", "aborted"}
                          /\ ~(s = eventCount /\ pc \in {"fetch", "callback"})
      BY DEF EventMatchesIo
    <3>1. s \in signalled <=> /\ io[s] \in {"complete", "aborted"}
                              /\ ~(s = eventCount /\ pc \in {"fetch", "callback"})
      BY <1>2 DEF RingInv, EventMatchesIo
    <3>2. s = eventCount /\ pc \in {"fetch", "callback"} => io[s] # "pending"
      <4> HAVE s = eventCount /\ pc \in {"fetch", "callback"}
      <4>1. Dist(s) = 0 /\ Told = 0 /\ Behind >= 1
        BY <2>1, DistRange DEF Told, RingInv, InHand
      <4> QED
        BY <1>2, <2>1, <4>1 DEF RingInv, IoByDistance
    <3> QED
      BY <2>4, <3>1, <3>2 DEF CancelAll
  <2>7. RingOrder' /\ PhaseInv' /\ InHand'
    BY <1>2, <2>1, <2>2 DEF RingInv, RingOrder, PhaseInv, InHand, Circulating, Serving
  <2> QED
    BY <2>5, <2>6, <2>7 DEF RingParts
<1> QED
  BY <1>1, <1>2
\* A step that moves the thread inside the ring without touching a request.
LEMMA RingMove ==
  ASSUME RingInv, TypeOK', UNCHANGED <<numQueued, eventCount, driverQ>>,
         \/ MarkReady \/ WakeOnEvent \/ CallUser
         \/ FetchResult /\ pc' = "callback"
  PROVE  RingParts'
<1>1. /\ Circulating /\ Circulating' /\ numQueued \in Nat /\ eventCount \in Slots
      /\ Behind \in 0 .. numQueued
  BY QueueHoldsPending, DepthAssumption
     DEF Circulating, Serving, MarkReady, WakeOnEvent, CallUser, FetchResult, RingInv, TypeOK
<1>2. Behind' = Behind /\ \A s \in Slots : Dist(s)' = Dist(s) /\ Dist(s) \in Nat
  BY <1>1, DistRange, DepthAssumption DEF Behind, Dist
<1>3. Dist(eventCount) = 0 /\ \A s \in Slots : Dist(s) = 0 <=> s = eventCount
  BY <1>1, DistRange
<1>4. RingOrder'
  BY <1>1, <1>2 DEF RingInv, RingOrder, Circulating, Dist, Behind
<1>5. PhaseInv'
  BY DEF RingInv, PhaseInv, Serving, MarkReady, WakeOnEvent, CallUser, FetchResult
<1>6. CASE MarkReady \/ (FetchResult /\ pc' = "callback")
  <2>1. /\ UNCHANGED <<io, signalled>> /\ Told = 0 /\ Told' = 0
        /\ pc' \in {"wait", "callback"} /\ pc \in {"queue", "fetch"}
        /\ pc = "queue" <=> pc' = "wait"
    BY <1>6 DEF MarkReady, FetchResult, slotVars, Told
  <2>2. IoByDistance' /\ InHand' /\ EventMatchesIo'
    BY <1>1, <1>2, <2>1 DEF RingInv, IoByDistance, InHand, EventMatchesIo
  <2> QED
    BY <1>4, <1>5, <2>2 DEF RingParts
<1>7. CASE WakeOnEvent
  <2>1. /\ pc = "wait" /\ pc' = "fetch" /\ UNCHANGED io /\ eventCount \in signalled
        /\ signalled' = signalled \ {eventCount} /\ Told = 0 /\ Told' = 0
    BY <1>7 DEF WakeOnEvent, Told
  <2>2. io[eventCount] \in {"complete", "aborted"}
    BY <1>1, <2>1 DEF RingInv, EventMatchesIo
  <2>3. io[eventCount] \in IF 0 < Behind THEN {"complete", "aborted"}
                           ELSE {"pending", "user"}
    BY <1>1, <1>3, <2>1 DEF RingInv, IoByDistance
  <2>4. InHand'
    BY <1>1, <1>2, <2>2, <2>3 DEF InHand
  <2>5. IoByDistance' /\ EventMatchesIo'
    BY <1>1, <1>2, <2>1 DEF RingInv, IoByDistance, EventMatchesIo
  <2> QED
    BY <1>4, <1>5, <2>4, <2>5 DEF RingParts
<1>8. CASE CallUser
  <2>1. /\ pc = "callback" /\ pc' = "requeue" /\ UNCHANGED signalled /\ Told = 0 /\ Told' = 1
        /\ \A s \in Slots : io'[s] = IF s = eventCount THEN "user" ELSE io[s]
    BY <1>8 DEF CallUser, Told, RingInv, TypeOK
  <2>2. Behind >= 1
    BY <2>1 DEF RingInv, InHand
  <2>3. IoByDistance'
    <3> SUFFICES ASSUME NEW s \in Slots
                 PROVE  io'[s] \in IF Dist(s) < 1 THEN {"user"}
                                   ELSE IF Dist(s) < Behind THEN {"complete", "aborted"}
                                   ELSE IF Dist(s) < numQueued THEN {"pending"} ELSE {"user"}
      BY <1>1, <1>2, <2>1 DEF IoByDistance
    <3>1. io[s] \in IF Dist(s) < Behind THEN {"complete", "aborted"}
                    ELSE IF Dist(s) < numQueued THEN {"pending"} ELSE {"user"}
      BY <1>1, <1>2, <2>1 DEF RingInv, IoByDistance
    <3>2. CASE s = eventCount
      BY <1>3, <2>1, <3>2
    <3>3. CASE s # eventCount
      BY <1>2, <1>3, <2>1, <3>1, <3>3
    <3> QED
      BY <3>2, <3>3
  <2>4. EventMatchesIo' /\ InHand'
    BY <1>1, <1>2, <2>1, <2>2 DEF RingInv, EventMatchesIo, InHand
  <2> QED
    BY <1>4, <1>5, <2>3, <2>4 DEF RingParts
<1> QED
  BY <1>6, <1>7, <1>8

LEMMA RingInit == Init => RingInv
<1> SUFFICES ASSUME Init PROVE RingInv
  OBVIOUS
<1>1. TypeOK
  BY DepthAssumption DEF Init, TypeOK, Slots, Serving
<1> QED
  BY <1>1 DEF Init, RingInv, PhaseInv, RingOrder, IoByDistance, InHand, EventMatchesIo,
              Circulating, Serving

LEMMA RingStep == RingInv /\ TypeOK' /\ [Next]_vars => RingInv'
<1> SUFFICES ASSUME RingInv, TypeOK', [Next]_vars
             PROVE  RingParts'
  BY DEF RingInv, RingParts
<1>1. CASE CreateEvents
  <2>1. CASE pc' = "mark"
    BY <2>1, RingLeft DEF Serving
  <2>2. CASE pc' = "queue"
    <3>1. /\ pc = "create" /\ numQueued' = 0 /\ driverQ' = <<>> /\ signalled' = {}
          /\ io' = [s \in Slots |-> "user"] /\ eventCount' = 0
      BY <1>1 DEF CreateEvents, slotVars, driverVars, RingInv, PhaseInv
    <3>2. Behind' = 0 /\ Told' = 0 /\ Len(driverQ') = 0
      <4>1. Len(driverQ') = 0
        BY <3>1
      <4>2. numQueued' = 0
        BY <3>1
      <4>3. Behind' = 0
        BY <4>1, <4>2 DEF Behind
      <4>4. Told' = 0
        BY <2>2 DEF Told
      <4> QED
        BY <4>1, <4>3, <4>4
    <3>3. \A s \in Slots : Dist(s)' = s
      BY <3>1 DEF Dist, Slots
    <3>4. RingOrder' /\ PhaseInv' /\ InHand' /\ EventMatchesIo'
      BY <2>2, <3>1, <3>2 DEF RingOrder, PhaseInv, InHand, EventMatchesIo, Serving
    <3>5. IoByDistance'
      BY <3>1, <3>2, <3>3 DEF IoByDistance, Slots
    <3> QED
      BY <3>4, <3>5 DEF RingParts
  <2> QED
    BY <1>1, <2>1, <2>2 DEF CreateEvents
<1>2. CASE QueueNotify
  <2>1. CASE pc' = "flush"
    BY <2>1, RingLeft DEF Serving
  <2>2. CASE pc' # "flush"
    BY <1>2, <2>2, RingQueueNotify DEF QueueNotify
  <2> QED
    BY <2>1, <2>2
<1>3. CASE MarkReady \/ WakeOnEvent \/ CallUser
  BY <1>3, RingMove DEF MarkReady, WakeOnEvent, CallUser, driverVars
<1>4. CASE WakeOnTerminate \/ WakeOnFailure
  BY <1>4, RingLeft DEF WakeOnTerminate, WakeOnFailure, Serving
<1>5. CASE FetchResult
  <2>1. CASE pc' = "flush"
    BY <2>1, RingLeft DEF Serving
  <2>2. CASE pc' = "callback"
    BY <1>5, <2>2, RingMove DEF FetchResult, driverVars
  <2> QED
    BY <1>5, <2>1, <2>2 DEF FetchResult
<1>6. CASE Requeue
  <2>1. CASE pc' = "flush"
    BY <2>1, RingLeft DEF Serving
  <2>2. CASE pc' = "wait"
    BY <1>6, <2>2, RingRequeue DEF Requeue
  <2> QED
    BY <1>6, <2>1, <2>2 DEF Requeue
<1>7. CASE FlushQueue \/ DrainSlot \/ DrainOnFailure \/ DrainDone \/ MarkFailed
           \/ CloseHandles \/ ReportError \/ FreeData \/ ThreadReturn
  BY <1>7, RingLeft DEF FlushQueue, DrainSlot, DrainOnFailure, DrainDone, MarkFailed, CloseHandles,
                        ReportError, FreeData, ThreadReturn, Serving
<1>8. CASE UNCHANGED <<threadVars, slotVars, driverQ>>
  <2> USE <1>8 DEF threadVars, slotVars
  <2>1. UNCHANGED <<pc, numQueued, eventCount, io, signalled, driverQ>>
    OBVIOUS
  <2>2. (Circulating' <=> Circulating) /\ Behind' = Behind /\ Told' = Told
        /\ \A s \in Slots : Dist(s)' = Dist(s)
    BY <2>1 DEF Circulating, Behind, Told, Dist
  <2>3. PhaseInv' /\ InHand' /\ EventMatchesIo'
    BY <2>1, <2>2 DEF RingInv, PhaseInv, InHand, EventMatchesIo
  <2>4. IoByDistance'
    BY <2>1, <2>2 DEF RingInv, IoByDistance
  <2>5. RingOrder'
    BY <2>1, <2>2, <1>8 DEF RingInv, RingOrder, Dist, Behind
  <2> QED
    BY <2>3, <2>4, <2>5 DEF RingParts
<1>9. CASE Interrupt
  <2>1. CASE driverQ = <<>>
    BY <1>8, <1>9, <2>1 DEF Interrupt
  <2>2. CASE driverQ # <<>> /\ Circulating
    BY <1>9, <2>2, RingInterrupt
  <2>3. CASE driverQ # <<>> /\ ~Circulating
    <3>1. pc' \notin {"create", "queue"} \cup Serving
      BY <1>9, <2>3 DEF Interrupt, threadVars, Circulating, RingInv, PhaseInv
    <3> QED
      BY <3>1, RingLeft
  <2> QED
    BY <2>1, <2>2, <2>3
<1>10. CASE CloseFile \/ ForeignFlush
  BY <1>10, RingCancel DEF CloseFile, ForeignFlush, threadVars
<1>11. CASE Terminate \/ UNCHANGED vars
  BY <1>8, <1>11 DEF Terminate, vars, driverVars
<1> QED
  BY <1>1, <1>2, <1>3, <1>4, <1>5, <1>6, <1>7, <1>9, <1>10, <1>11
     DEF Next, ThreadStep, WaitFails, Finished

\* A slot that is not signalled, where the thread waits, is with the driver, and then all are.
LEMMA RingSleeps == RingInv => SleepsOnlyWhenIdle
<1> SUFFICES ASSUME RingInv, pc = "wait", eventCount \notin signalled
             PROVE  /\ signalled = {} /\ Len(driverQ) = Depth
                    /\ \A s \in Slots : io[s] = "pending"
  BY DEF SleepsOnlyWhenIdle
<1>1. /\ Circulating /\ numQueued = Depth /\ eventCount \in Slots /\ Told = 0
      /\ signalled \subseteq Slots /\ Len(driverQ) \in Nat
  BY DEF RingInv, TypeOK, PhaseInv, Circulating, Serving, Told
<1>2. Behind \in 0 .. Depth /\ Behind = Depth - Len(driverQ)
  BY <1>1, QueueHoldsPending DEF Behind
<1>3. Dist(eventCount) = 0
  BY <1>1, DepthAssumption DEF Dist, Slots
<1>4. io[eventCount] \notin {"complete", "aborted"}
  BY <1>1 DEF RingInv, EventMatchesIo
<1>5. ~(0 < Behind)
  <2>1. io[eventCount] \in IF Dist(eventCount) < Told THEN {"user"}
                           ELSE IF Dist(eventCount) < Behind THEN {"complete", "aborted"}
                           ELSE IF Dist(eventCount) < numQueued THEN {"pending"} ELSE {"user"}
    BY <1>1 DEF RingInv, IoByDistance
  <2> QED BY <1>1, <1>3, <1>4, <2>1
<1>6. Behind = 0 /\ Len(driverQ) = Depth
  BY <1>1, <1>2, <1>5, DepthAssumption
<1>7. ASSUME NEW s \in Slots PROVE io[s] = "pending"
  <2>1. io[s] \in IF Dist(s) < Told THEN {"user"}
                  ELSE IF Dist(s) < Behind THEN {"complete", "aborted"}
                  ELSE IF Dist(s) < numQueued THEN {"pending"} ELSE {"user"}
    BY <1>1 DEF RingInv, IoByDistance
  <2>2. Dist(s) \in 0 .. Depth - 1
    BY <1>1, DistRange
  <2> QED BY <1>1, <1>6, <2>1, <2>2, DepthAssumption
<1>8. \A s \in Slots : s \notin signalled
  BY <1>1, <1>7 DEF RingInv, EventMatchesIo
<1> QED BY <1>1, <1>6, <1>7, <1>8

LEMMA RingInvariant == Spec => []RingInv
BY RingInit, RingStep, TypeCorrect, PTL DEF Spec

\* The driver always holds the thread's requests in ring order, so the one
\* event the thread waits for is the next the driver signals: the thread never sleeps
\* while there is an answer that it has not told of.
THEOREM RingCorrect == Spec => []OneWaitIsEnough
<1>1. RingInv => OneWaitIsEnough
  BY RingSleeps DEF RingInv, OneWaitIsEnough
<1> QED
  BY <1>1, RingInvariant, PTL

----------------------------------------------------------------------------
\* The thread gets on

\* What Work counts with.
WorkTerms ==
  /\ numQueued \in 0 .. Depth /\ Depth \in Nat /\ Depth > 0 /\ Len(driverQ) \in Nat
  /\ driverQ \in Seq(Slots) /\ eventCount \in Slots /\ Behind = numQueued - Len(driverQ)
  /\ pc \in {"queue"} \cup Serving => Behind \in 0 .. Depth
  /\ pc \in {"fetch", "callback", "requeue"} => Behind >= 1
  /\ pc \in Serving => numQueued = Depth
  /\ pc = "create" => numQueued = 0 /\ Behind = 0

LEMMA RingWork == RingInv => WorkTerms
<1> SUFFICES ASSUME RingInv PROVE WorkTerms
  OBVIOUS
<1>1. /\ numQueued \in 0 .. Depth /\ Depth \in Nat /\ Depth > 0 /\ Len(driverQ) \in Nat
      /\ driverQ \in Seq(Slots) /\ eventCount \in Slots
  BY DepthAssumption DEF RingInv, TypeOK
<1>2. pc \in {"queue"} \cup Serving => Len(driverQ) <= numQueued
  BY DEF RingInv, RingOrder
<1>3. pc = "create" => numQueued = 0 /\ Len(driverQ) = 0
  BY DEF RingInv, PhaseInv
<1>4. /\ pc \in {"fetch", "callback", "requeue"} => Behind >= 1
      /\ pc \in Serving => numQueued = Depth
  BY DEF RingInv, InHand, PhaseInv
<1>5. Behind = numQueued - Len(driverQ)
  BY DEF Behind
<1>6. pc \in {"queue"} \cup Serving => Behind \in 0 .. Depth
  BY <1>1, <1>2, <1>5
<1>7. pc = "create" => Behind = 0
  BY <1>1, <1>3, <1>5
<1> QED BY <1>1, <1>3, <1>4, <1>5, <1>6, <1>7 DEF WorkTerms

\* The places of the thread, each with the work that is left there.
WorkAt ==
  /\ pc = "done" => Work = 0
  /\ pc = "return" => Work = 1
  /\ pc = "free" => Work = 2
  /\ pc = "report" => Work = 3
  /\ pc = "close" => Work = 4
  /\ pc = "mark" => Work = 5
  /\ pc = "drain" => Work = 6 + numQueued
  /\ pc = "flush" => Work = 7 + Depth
  /\ pc = "wait" => Work = 8 + Depth + 4 * Behind
  /\ pc = "fetch" => Work = 7 + Depth + 4 * Behind
  /\ pc = "callback" => Work = 6 + Depth + 4 * Behind
  /\ pc = "requeue" => Work = 5 + Depth + 4 * Behind
  /\ pc = "queue" => Work = 9 + Depth + 4 * Behind + (Depth - numQueued)
  /\ pc = "create" => Work = 10 + Depth + Depth

LEMMA WorkIs == WorkAt /\ WorkAt'
BY DEF WorkAt, Work

LEMMA WorkOfThread ==
  ASSUME RingInv, RingInv', ThreadStep \/ WaitFails
  PROVE  Work' < Work
<1> USE RingWork, WorkIs DEF WorkTerms, WorkAt
<1>1. CASE CreateEvents
  BY <1>1 DEF CreateEvents, slotVars, driverVars, Behind, Serving
<1>2. CASE QueueNotify
  <2>1. CASE Notify(numQueued) /\ numQueued' = numQueued + 1 /\ pc' = pc
    <3>1. Len(driverQ') = Len(driverQ) + 1
      BY <2>1 DEF Notify
    <3>2. pc = "queue" /\ pc' = "queue" /\ Behind' = Behind
      BY <1>2, <2>1, <3>1 DEF QueueNotify, Behind
    <3> QED BY <2>1, <3>2
  <2>2. CASE pc' = "flush"
    BY <1>2, <2>2 DEF QueueNotify
  <2> QED BY <1>2, <2>1, <2>2 DEF QueueNotify
<1>3. CASE MarkReady
  BY <1>3 DEF MarkReady, driverVars, Behind
<1>4. CASE WakeOnEvent
  BY <1>4 DEF WakeOnEvent, driverVars, Behind
<1>5. CASE WakeOnTerminate
  BY <1>5 DEF WakeOnTerminate, Serving
<1>6. CASE FetchResult
  BY <1>6 DEF FetchResult, driverVars, Behind
<1>7. CASE CallUser
  BY <1>7 DEF CallUser, driverVars, Behind
<1>8. CASE Requeue
  <2>1. CASE Notify(eventCount) /\ pc' = "wait"
    <3>1. Len(driverQ') = Len(driverQ) + 1
      BY <2>1 DEF Notify
    <3>2. pc = "requeue" /\ Behind' = Behind - 1
      BY <1>8, <2>1, <3>1 DEF Requeue, Behind
    <3> QED BY <2>1, <3>2
  <2>2. CASE pc' = "flush"
    BY <1>8, <2>2 DEF Requeue
  <2> QED BY <1>8, <2>1, <2>2 DEF Requeue
<1>9. CASE FlushQueue
  BY <1>9 DEF FlushQueue
<1>10. CASE DrainSlot \/ DrainOnFailure
  BY <1>10 DEF DrainSlot, DrainOnFailure
<1>11. CASE DrainDone
  BY <1>11 DEF DrainDone
<1>12. CASE MarkFailed \/ CloseHandles \/ ReportError \/ FreeData \/ ThreadReturn
  BY <1>12 DEF MarkFailed, CloseHandles, ReportError, FreeData, ThreadReturn
<1>13. CASE WakeOnFailure
  BY <1>13 DEF WakeOnFailure, Serving
<1> QED BY <1>1, <1>2, <1>3, <1>4, <1>5, <1>6, <1>7, <1>8, <1>9, <1>10, <1>11, <1>12, <1>13
        DEF ThreadStep, WaitFails

LEMMA WorkIsNat == RingInv => Work \in Nat
<1> SUFFICES ASSUME RingInv PROVE Work \in Nat
  OBVIOUS
<1>1. pc \in {"create", "queue", "flush", "drain", "mark", "close", "report", "free", "return", "done",
             "wait", "fetch", "callback", "requeue"}
  BY DEF RingInv, TypeOK, Serving
<1>2. pc \in {"queue", "wait", "fetch", "callback", "requeue"} => Behind \in Nat
  BY RingWork DEF WorkTerms, Serving
<1>3. numQueued \in Nat /\ Depth \in Nat /\ Depth - numQueued \in Nat
  BY RingWork DEF WorkTerms
<1> QED BY <1>1, <1>2, <1>3, WorkIs DEF WorkAt

\* The places other than these do not count what the driver has answered.
LEMMA WorkOfDriver ==
  ASSUME RingInv, RingInv', NEW n \in Nat, UNCHANGED <<pc, numQueued>>,
         Len(driverQ) = Len(driverQ') + n
  PROVE  Work' <= Work + 4 * n
<1> USE RingWork, WorkIs DEF WorkTerms, WorkAt
<1>1. Behind' = Behind + n
  BY DEF Behind
<1>2. CASE pc \in {"queue"} \cup Serving
  <2>0. Behind \in Nat /\ numQueued \in 0 .. Depth /\ Depth \in Nat
    BY <1>2, RingWork DEF WorkTerms, Serving
  <2>1. Behind \in Nat /\ Behind' = Behind + n /\ Depth \in Nat /\ Depth - numQueued \in Nat
    BY ONLY <2>0, <1>1
  <2>2. CASE pc = "queue"
    <3>1. /\ Work = 9 + Depth + 4 * Behind + (Depth - numQueued)
          /\ Work' = 9 + Depth + 4 * Behind' + (Depth - numQueued)
      BY <2>2
    <3> QED BY ONLY <2>1, <3>1, n \in Nat
  <2>3. CASE pc = "wait"
    <3>1. Work = 8 + Depth + 4 * Behind /\ Work' = 8 + Depth + 4 * Behind'
      BY <2>3
    <3> QED BY ONLY <2>1, <3>1, n \in Nat
  <2>4. CASE pc = "fetch"
    <3>1. Work = 7 + Depth + 4 * Behind /\ Work' = 7 + Depth + 4 * Behind'
      BY <2>4
    <3> QED BY ONLY <2>1, <3>1, n \in Nat
  <2>5. CASE pc = "callback"
    <3>1. Work = 6 + Depth + 4 * Behind /\ Work' = 6 + Depth + 4 * Behind'
      BY <2>5
    <3> QED BY ONLY <2>1, <3>1, n \in Nat
  <2>6. CASE pc = "requeue"
    <3>1. Work = 5 + Depth + 4 * Behind /\ Work' = 5 + Depth + 4 * Behind'
      BY <2>6
    <3> QED BY ONLY <2>1, <3>1, n \in Nat
  <2> QED BY <1>2, <2>2, <2>3, <2>4, <2>5, <2>6 DEF Serving
<1>3. CASE pc \notin {"queue"} \cup Serving
  <2>1. pc \in {"create", "flush", "drain", "mark", "close", "report", "free", "return", "done"}
    BY <1>3 DEF RingInv, TypeOK
  <2>2. Work' = Work
    BY <2>1
  <2>3. Work \in Nat
    BY WorkIsNat
  <2> QED BY ONLY <2>2, <2>3, n \in Nat
<1> QED BY <1>2, <1>3

LEMMA WorkOfOthers ==
  ASSUME RingInv, RingInv'
  PROVE  /\ Interrupt => Work' <= Work + 4
         /\ CloseFile \/ ForeignFlush => Work' <= Work + 4 * Len(driverQ)
         /\ Terminate => Work' = Work
<1>1. ASSUME Interrupt PROVE Work' <= Work + 4
  <2>1. CASE driverQ # <<>> /\ driverQ' = Tail(driverQ)
    <3>1. Len(driverQ) = Len(driverQ') + 1
      BY <2>1, RingWork DEF WorkTerms
    <3> QED BY <1>1, <3>1, WorkOfDriver DEF Interrupt, threadVars
  <2>2. CASE UNCHANGED driverQ
    <3>1. Len(driverQ) = Len(driverQ') + 0 /\ UNCHANGED <<pc, numQueued>>
      BY <1>1, <2>2, RingWork DEF WorkTerms, Interrupt, threadVars
    <3>2. Work' = Work
      BY <2>2, <3>1 DEF Work, Behind
    <3> QED BY <3>2, WorkIsNat
  <2> QED BY <1>1, <2>1, <2>2 DEF Interrupt
<1>2. ASSUME CloseFile \/ ForeignFlush PROVE Work' <= Work + 4 * Len(driverQ)
  <2>1. driverQ' = <<>> /\ UNCHANGED <<pc, numQueued>>
    BY <1>2 DEF CloseFile, ForeignFlush, CancelAll, threadVars
  <2>2. Len(driverQ) = Len(driverQ') + Len(driverQ) /\ Len(driverQ) \in Nat
    BY <2>1, RingWork DEF WorkTerms
  <2> QED BY <2>1, <2>2, WorkOfDriver
<1>3. ASSUME Terminate PROVE Work' = Work
  BY <1>3 DEF Terminate, threadVars, driverVars, Work, Behind
<1> QED BY <1>1, <1>2, <1>3

\* However many slots and interrupts, and whatever fails: each step of the thread leaves it
\* less to do, so that without new answers it comes to rest, asleep with everything told
\* (RingCorrect) or at its end.
THEOREM ThreadGetsOn == Spec => GetsOn
<1>1. RingInv /\ RingInv' /\ [Next]_vars
        => [/\ ThreadStep \/ WaitFails => Work' < Work
            /\ Interrupt => Work' <= Work + 4
            /\ CloseFile \/ ForeignFlush => Work' <= Work + 4 * Len(driverQ)
            /\ Terminate => Work' = Work]_vars
  BY WorkOfThread, WorkOfOthers
<1> QED BY <1>1, RingInvariant, PTL DEF Spec, GetsOn

----------------------------------------------------------------------------
\* The totals

LEMMA NextSlotInjective ==
  ASSUME NEW s \in Slots, NEW t \in Slots, NextSlot(s) = NextSlot(t) PROVE s = t
BY DepthAssumption DEF Slots, NextSlot

\* A step that changes no total, no answered slot and not the place in the ring.
LEMMA LedgerKept ==
  ASSUME RingInv, Ledger, Circulating, Circulating', FirstUntold' = FirstUntold,
         \A s \in Slots : io'[s] = "complete" <=> io[s] = "complete",
         \A s \in Slots : Dist(s)' = Dist(s),
         UNCHANGED <<count, upto, seen, raised, driverCount>>, Behind' = Behind, Told' = Told,
         FirstUntold \in Slots, pc' = "callback" => io'[eventCount'] = "complete"
  PROVE  Ledger'
BY NextSlotType DEF Ledger, Circulating, Serving, NextSlot

LEMMA FirstUntoldType == RingInv => FirstUntold \in Slots
BY NextSlotType DEF RingInv, TypeOK, FirstUntold

LEMMA LedgerInterrupt ==
  ASSUME RingInv, Ledger, Circulating, Interrupt, driverQ # <<>>
  PROVE  Ledger'
<1> DEFINE h == Head(driverQ)
<1>1. /\ h \in Slots /\ raised' = raised + 1 /\ driverCount' = 0 /\ UNCHANGED <<pc, eventCount, seen>>
      /\ \A s \in Slots : /\ io'[s] = IF s = h THEN "complete" ELSE io[s]
                          /\ count'[s] = IF s = h THEN driverCount + 1 ELSE count[s]
                          /\ upto'[s] = IF s = h THEN raised + 1 ELSE upto[s]
  BY HeadTailType DEF Interrupt, threadVars, RingInv, TypeOK
<1>2. Dist(h) = Behind /\ Behind' = Behind + 1 /\ Behind \in Nat /\ Told \in 0 .. 1
      /\ Told <= Behind /\ Told' = Told /\ numQueued \in Nat /\ FirstUntold' = FirstUntold
      /\ \A s \in Slots : Dist(s)' = Dist(s) /\ Dist(s) \in 0 .. Depth - 1
  <2>1. Len(driverQ) \in Nat /\ Len(driverQ') = Len(driverQ) - 1 /\ numQueued' = numQueued
        /\ numQueued \in Nat
    BY DepthAssumption DEF Interrupt, threadVars, RingInv, TypeOK
  <2>2. Behind' = Behind + 1
    BY <2>1 DEF Behind
  <2>3. \A s \in Slots : Dist(s)' = Dist(s) /\ Dist(s) \in 0 .. Depth - 1
    BY <1>1, DistRange DEF Dist, RingInv, TypeOK
  <2>4. Told' = Told /\ FirstUntold' = FirstUntold
    BY <1>1 DEF Told, FirstUntold, NextSlot
  <2> QED BY <2>1, <2>2, <2>3, <2>4, QueueHoldsPending, DepthAssumption
<1>3. /\ eventCount \in Slots /\ Dist(eventCount) = 0 /\ FirstUntold \in Slots
      /\ \A s \in Slots : Dist(s) = Behind => s = h
      /\ raised \in Nat /\ driverCount \in Nat /\ seen \in Nat
  BY <1>1, <1>2, DistRange, DistInjective, FirstUntoldType DEF RingInv, TypeOK
<1>4. \A s \in Slots : io[s] = "complete" => Told <= Dist(s) /\ Dist(s) < Behind
  <2> TAKE s \in Slots
  <2>1. io[s] \in IF Dist(s) < Told THEN {"user"}
                  ELSE IF Dist(s) < Behind THEN {"complete", "aborted"}
                  ELSE IF Dist(s) < numQueued THEN {"pending"} ELSE {"user"}
    BY DEF RingInv, IoByDistance
  <2> QED BY <1>2, <2>1, DepthAssumption
<1>5. Dist(FirstUntold) = IF NextSlot(eventCount) = eventCount THEN 0 ELSE Told
  <2>1. CASE pc = "requeue"
    BY <1>3, <2>1, DistOfNext DEF FirstUntold, Told
  <2>2. CASE pc # "requeue"
    BY <1>3, <2>2 DEF FirstUntold, Told
  <2> QED BY <2>1, <2>2
<1>6. \A s \in Slots : /\ NextSlot(s) \in Slots
                       /\ Dist(NextSlot(s)) = IF NextSlot(s) = eventCount THEN 0 ELSE Dist(s) + 1
  BY <1>3, NextSlotType, DistOfNext
<1> HIDE DEF h
<1>7. FirstUntold = h => Behind = Told
  <2>1. NextSlot(eventCount) = eventCount => Depth = 1
    BY <1>3, DepthAssumption DEF NextSlot, Slots
  <2>2. Dist(h) \in 0 .. Depth - 1
    BY <1>1, <1>2
  <2> QED BY <1>2, <1>5, <2>1, <2>2, DepthAssumption
<1>8. io'[FirstUntold] = "complete" => upto'[FirstUntold] = seen + count'[FirstUntold]
  BY <1>1, <1>3, <1>7 DEF Ledger
<1>9. ASSUME NEW s \in Slots, io'[s] = "complete", io'[NextSlot(s)] = "complete",
             NextSlot(s) # FirstUntold
      PROVE  upto'[NextSlot(s)] = upto'[s] + count'[NextSlot(s)]
  <2>1. CASE s # h /\ NextSlot(s) # h
    BY <1>1, <1>6, <1>9, <2>1 DEF Ledger
  <2>2. CASE s # h /\ NextSlot(s) = h
    <3>1. io[s] = "complete" /\ Dist(s) < Behind
      BY <1>1, <1>4, <1>9, <2>2
    <3>2. h # eventCount
      BY <1>2, <1>3, <1>9, <2>2, <3>1 DEF FirstUntold
    <3>3. Dist(s) = Behind - 1
      BY <1>2, <1>6, <2>2, <3>2
    <3>4. raised = upto[s] + driverCount
      BY <3>1, <3>3 DEF Ledger
    <3>5. upto[s] \in Nat
      BY DEF RingInv, TypeOK
    <3> QED BY <1>1, <1>3, <2>2, <3>4, <3>5
  <2>3. CASE s = h
    <3>1. CASE NextSlot(s) = eventCount
      <4>1. pc = "requeue"
        BY <1>9, <3>1 DEF FirstUntold
      <4>2. Told = 1 /\ io[eventCount] # "complete"
        BY <1>2, <1>3, <1>4, <4>1 DEF Told
      <4>3. h = eventCount
        BY <1>1, <1>9, <3>1, <4>2, <1>3
      <4> QED BY <1>2, <1>3, <4>2, <4>3
    <3>2. CASE NextSlot(s) # eventCount
      <4>1. Dist(NextSlot(s)) = Behind + 1
        BY <1>2, <1>6, <2>3, <3>2
      <4>2. NextSlot(s) # h
        BY <1>2, <4>1
      <4>3. NextSlot(s) \in Slots /\ io[NextSlot(s)] = "complete"
        BY <1>1, <1>6, <1>9, <4>2
      <4>4. Dist(NextSlot(s)) < Behind
        BY <1>4, <4>3
      <4> QED BY <1>2, <4>1, <4>4
    <3> QED BY <3>1, <3>2
  <2> QED BY <2>1, <2>2, <2>3
<1>10. ASSUME NEW s \in Slots, Dist(s)' = Behind' - 1 PROVE raised' = upto'[s] + driverCount'
  <2>1. s = h
    BY <1>2, <1>3, <1>10
  <2> QED BY <1>1, <1>3, <2>1
<1>11. Behind' # Told'
  BY <1>2
<1>12. pc' # "create" /\ (pc' = "callback" => io'[eventCount'] = "complete")
  BY <1>1, <1>3 DEF Ledger, Circulating, Serving
<1>13. \A s \in Slots : NextSlot(s)' = NextSlot(s)
  BY DEF NextSlot
<1> QED BY <1>2, <1>8, <1>9, <1>10, <1>11, <1>12, <1>1 DEF Ledger, NextSlot

LEMMA LedgerCancel ==
  ASSUME RingInv, Ledger, Circulating, CancelAll,
         UNCHANGED <<pc, numQueued, eventCount, count, upto, seen, raised, driverCount>>
  PROVE  Ledger'
<1>1. /\ Behind \in 0 .. numQueued /\ Told \in 0 .. 1 /\ Told <= Behind /\ numQueued \in Nat
      /\ eventCount \in Slots
  BY QueueHoldsPending, DepthAssumption DEF RingInv, TypeOK
<1>2. Behind' = numQueued /\ Told' = Told /\ FirstUntold' = FirstUntold
  BY <1>1 DEF CancelAll, Behind, Told, FirstUntold, NextSlot
<1>3. \A s \in Slots : Dist(s)' = Dist(s) /\ Dist(s) \in 0 .. Depth - 1
  BY <1>1, DistRange DEF Dist
<1>4. \A s \in Slots : io'[s] = "complete" <=> io[s] = "complete"
  BY DEF CancelAll
<1>5. ASSUME NEW s \in Slots, io[s] = "complete", Dist(s) = numQueued - 1
      PROVE  Dist(s) = Behind - 1
  <2>1. io[s] \in IF Dist(s) < Told THEN {"user"}
                  ELSE IF Dist(s) < Behind THEN {"complete", "aborted"}
                  ELSE IF Dist(s) < numQueued THEN {"pending"} ELSE {"user"}
    BY DEF RingInv, IoByDistance
  <2> QED BY <1>1, <1>3, <1>5, <2>1, DepthAssumption
<1>6. numQueued = Told => Behind = Told
  BY <1>1
<1>7. pc # "create" /\ (pc = "callback" => io'[eventCount] = "complete")
  BY <1>1, <1>4 DEF Ledger, Circulating, Serving
<1> QED
  BY <1>2, <1>3, <1>4, <1>5, <1>6, <1>7, FirstUntoldType, NextSlotType DEF Ledger, Circulating, NextSlot

LEMMA LedgerCall ==
  ASSUME RingInv, Ledger, CallUser
  PROVE  Ledger'
<1> DEFINE e == eventCount
<1>1. /\ pc = "callback" /\ pc' = "requeue" /\ seen' = seen + count[e] /\ e \in Slots
      /\ UNCHANGED <<eventCount, numQueued, driverQ, count, upto, raised, driverCount>>
      /\ \A s \in Slots : io'[s] = IF s = e THEN "user" ELSE io[s]
      /\ count[e] \in Nat /\ seen \in Nat
  BY DEF CallUser, slotVars, driverVars, RingInv, TypeOK
<1>2. Circulating /\ Told = 0 /\ Told' = 1 /\ FirstUntold = e /\ FirstUntold' = NextSlot(e)
  BY <1>1 DEF Circulating, Serving, Told, FirstUntold, NextSlot
<1>3. Behind' = Behind /\ Dist(e) = 0 /\ \A s \in Slots : Dist(s)' = Dist(s)
  BY <1>1, DistRange DEF Behind, Dist
<1>4. io[e] = "complete" /\ upto[e] = seen'
  BY <1>1, <1>2 DEF Ledger
<1>5. io'[NextSlot(e)] = "complete" => upto[NextSlot(e)] = seen' + count[NextSlot(e)]
  BY <1>1, <1>2, <1>4, NextSlotType DEF Ledger
<1>6. ASSUME NEW s \in Slots, io'[s] = "complete", io'[NextSlot(s)] = "complete"
      PROVE  upto[NextSlot(s)] = upto[s] + count[NextSlot(s)]
  BY <1>1, <1>2, <1>6, NextSlotType DEF Ledger
<1>7. \A s \in Slots : io'[s] = "complete" /\ Dist(s) = Behind - 1 => raised = upto[s] + driverCount
  BY <1>1, <1>2 DEF Ledger
<1>8. Behind = 1 => raised = seen' + driverCount
  BY <1>1, <1>2, <1>3, <1>4 DEF Ledger
<1> QED BY <1>1, <1>2, <1>3, <1>5, <1>6, <1>7, <1>8 DEF Ledger, NextSlot

LEMMA LedgerRequeue ==
  ASSUME RingInv, Ledger, pc = "requeue", pc' = "wait", Notify(eventCount),
         eventCount' = NextSlot(eventCount),
         UNCHANGED <<numQueued, count, upto, seen, raised, driverCount>>
  PROVE  Ledger'
<1> DEFINE e == eventCount
<1>1. /\ e \in Slots /\ Circulating /\ Told = 1 /\ Told' = 0 /\ driverQ \in Seq(Slots)
      /\ io[e] # "complete" /\ Behind >= 1 /\ Behind \in Nat
      /\ \A s \in Slots : io'[s] = IF s = e THEN "pending" ELSE io[s]
  <2>1. e \in Slots /\ Circulating /\ Told = 1 /\ Told' = 0 /\ driverQ \in Seq(Slots)
    BY DEF RingInv, TypeOK, Circulating, Serving, Told
  <2>2. Dist(e) = 0 /\ Behind >= 1 /\ Behind \in Nat
    BY <2>1, DistRange, QueueHoldsPending, DepthAssumption DEF RingInv, TypeOK
  <2>3. io[e] \in IF Dist(e) < Told THEN {"user"}
                  ELSE IF Dist(e) < Behind THEN {"complete", "aborted"}
                  ELSE IF Dist(e) < numQueued THEN {"pending"} ELSE {"user"}
    BY <2>1 DEF RingInv, IoByDistance
  <2>4. \A s \in Slots : io'[s] = IF s = e THEN "pending" ELSE io[s]
    BY <2>1 DEF Notify, RingInv, TypeOK
  <2> QED BY <2>1, <2>2, <2>3, <2>4
<1>2. Behind' = Behind - 1
  BY <1>1, DepthAssumption DEF Notify, Behind, RingInv, TypeOK
<1>3. FirstUntold = NextSlot(e) /\ FirstUntold' = NextSlot(e) /\ NextSlot(e) \in Slots
  BY <1>1, NextSlotType DEF FirstUntold, NextSlot
<1>4. \A s \in Slots : s # e => Dist(s)' = Dist(s) - 1 /\ Dist(s) \in 0 .. Depth - 1
  BY <1>1, DistMove, DistRange
<1>5. ASSUME NEW s \in Slots, io'[s] = "complete" PROVE io[s] = "complete" /\ s # e
  BY <1>1, <1>5
<1>6. ASSUME NEW s \in Slots, io'[s] = "complete", Dist(s)' = Behind' - 1
      PROVE  raised = upto[s] + driverCount
  <2>1. Dist(s) = Behind - 1 /\ io[s] = "complete"
    BY <1>1, <1>2, <1>4, <1>5, <1>6, DepthAssumption
  <2> QED BY <1>1, <2>1 DEF Ledger
<1>7. Behind' = Told' => raised = seen + driverCount
  BY <1>1, <1>2 DEF Ledger
<1>8. ASSUME NEW s \in Slots, io'[s] = "complete", io'[NextSlot(s)] = "complete",
             NextSlot(s) # FirstUntold
      PROVE  upto[NextSlot(s)] = upto[s] + count[NextSlot(s)]
  BY <1>1, <1>5, <1>8, NextSlotType DEF Ledger
<1>9. io'[NextSlot(e)] = "complete" => upto[NextSlot(e)] = seen + count[NextSlot(e)]
  BY <1>1, <1>3, <1>5 DEF Ledger
<1> QED BY <1>3, <1>6, <1>7, <1>8, <1>9 DEF Ledger, NextSlot

LEMMA LedgerStep == RingInv /\ RingInv' /\ Ledger /\ [Next]_vars => Ledger'
<1> SUFFICES ASSUME RingInv, RingInv', Ledger, [Next]_vars PROVE Ledger'
  OBVIOUS
<1> USE DEF threadVars, slotVars, driverVars
<1>1. ASSUME pc' \notin {"create"} \cup {"queue"} \cup Serving PROVE Ledger'
  BY <1>1 DEF Ledger, Circulating, Serving
<1>2. CASE CreateEvents
  <2>1. CASE pc' = "queue"
    <3>1. /\ pc = "create" /\ UNCHANGED <<seen, raised, driverCount>>
          /\ \A s \in Slots : io'[s] = "user"
      BY <1>2 DEF CreateEvents, RingInv, PhaseInv
    <3>2. raised' = seen' + driverCount'
      BY <3>1 DEF Ledger
    <3>3. FirstUntold' \in Slots /\ \A s \in Slots : io'[s] # "complete"
      BY <3>1, FirstUntoldType, NextSlotType, <1>2 DEF CreateEvents, FirstUntold, RingInv, TypeOK
    <3> QED BY <2>1, <3>2, <3>3 DEF Ledger
  <2>2. CASE pc' = "mark"
    BY <1>1, <2>2 DEF Serving
  <2> QED BY <1>2, <2>1, <2>2 DEF CreateEvents
<1>3. CASE QueueNotify
  <2>1. CASE pc' = "flush"
    BY <1>1, <2>1 DEF Serving
  <2>2. CASE pc' # "flush"
    <3>1. /\ pc = "queue" /\ pc' = "queue" /\ Notify(numQueued) /\ numQueued' = numQueued + 1
          /\ UNCHANGED <<eventCount, count, upto, seen, raised, driverCount>> /\ numQueued < Depth
      BY <1>3, <2>2 DEF QueueNotify
    <3>2. /\ eventCount = 0 /\ eventCount \in Slots /\ numQueued \in Slots /\ numQueued \in Nat
          /\ Circulating /\ Circulating' /\ Told = 0 /\ Told' = 0
          /\ FirstUntold = eventCount /\ FirstUntold' = eventCount
      BY <3>1, DepthAssumption
      DEF RingInv, PhaseInv, TypeOK, Slots, Circulating, Told, FirstUntold
    <3>3. Behind' = Behind /\ \A s \in Slots : Dist(s)' = Dist(s)
      BY <3>1, <3>2 DEF Behind, Dist, Notify, RingInv, TypeOK
    <3>4. io[numQueued] # "complete"
      <4>1. Dist(numQueued) = numQueued /\ Behind \in 0 .. numQueued
        BY <3>2, QueueHoldsPending DEF Dist
      <4>2. io[numQueued] \in IF Dist(numQueued) < Told THEN {"user"}
                  ELSE IF Dist(numQueued) < Behind THEN {"complete", "aborted"}
                  ELSE IF Dist(numQueued) < numQueued THEN {"pending"} ELSE {"user"}
        BY <3>2 DEF RingInv, IoByDistance
      <4> QED BY <3>2, <4>1, <4>2
    <3>5. \A s \in Slots : io'[s] = "complete" <=> io[s] = "complete"
      BY <3>1, <3>2, <3>4 DEF Notify, RingInv, TypeOK
    <3> QED BY <3>1, <3>2, <3>3, <3>5, LedgerKept
  <2> QED BY <2>1, <2>2
<1>4. CASE MarkReady \/ WakeOnEvent \/ FetchResult \/ UNCHANGED <<threadVars, slotVars, driverVars, seen>>
  <2>1. CASE pc' \notin {"create"} \cup {"queue"} \cup Serving
    BY <1>1, <2>1
  <2>2. CASE pc = "create"
    BY <1>4, <2>2 DEF MarkReady, WakeOnEvent, FetchResult, Ledger, Circulating, Serving
  <2>3. CASE pc' \in {"create"} \cup {"queue"} \cup Serving /\ pc # "create"
    <3>1. /\ UNCHANGED <<eventCount, numQueued, io, count, upto, driverQ, raised, driverCount, seen>>
          /\ pc' = "callback" => io[eventCount] = "complete"
      BY <1>4 DEF MarkReady, WakeOnEvent, FetchResult, Ledger
    <3>2. Circulating /\ Circulating' /\ (pc' = "requeue" <=> pc = "requeue")
      BY <1>4, <2>3 DEF MarkReady, WakeOnEvent, FetchResult, Circulating, Serving
    <3>3. /\ Behind' = Behind /\ Told' = Told /\ FirstUntold' = FirstUntold
          /\ \A s \in Slots : Dist(s)' = Dist(s)
      BY <3>1, <3>2 DEF Behind, Told, FirstUntold, NextSlot, Dist
    <3> QED BY <3>1, <3>2, <3>3, LedgerKept, FirstUntoldType
  <2> QED BY <2>1, <2>2, <2>3
<1>5. CASE WakeOnTerminate \/ WakeOnFailure
  BY <1>1, <1>5 DEF WakeOnTerminate, WakeOnFailure, Serving
<1>6. CASE CallUser
  BY <1>6, LedgerCall
<1>7. CASE Requeue
  <2>1. CASE pc' = "flush"
    BY <1>1, <2>1 DEF Serving
  <2>2. CASE pc' = "wait"
    BY <1>7, <2>2, LedgerRequeue DEF Requeue
  <2> QED BY <1>7, <2>1, <2>2 DEF Requeue
<1>8. CASE FlushQueue \/ DrainSlot \/ DrainOnFailure \/ DrainDone \/ MarkFailed
           \/ CloseHandles \/ ReportError \/ FreeData \/ ThreadReturn
  BY <1>1, <1>8 DEF FlushQueue, DrainSlot, DrainOnFailure, DrainDone, MarkFailed, CloseHandles,
                    ReportError, FreeData, ThreadReturn, Serving
<1>9. CASE Interrupt \/ CloseFile \/ ForeignFlush
  <2>1. CASE ~Circulating /\ pc # "create"
    <3>1. pc' = pc
      BY <1>9 DEF Interrupt, CloseFile, ForeignFlush
    <3> QED BY <1>1, <2>1, <3>1 DEF Circulating
  <2>2. CASE pc = "create"
    <3>1. driverQ = <<>> /\ raised = seen + driverCount /\ driverCount \in Nat /\ seen \in Nat
      BY <2>2 DEF RingInv, PhaseInv, Ledger, TypeOK
    <3>2. pc' = "create" /\ raised' = seen' + driverCount'
      BY <1>9, <2>2, <3>1 DEF Interrupt, CloseFile, ForeignFlush
    <3> QED BY <3>2 DEF Ledger, Circulating, Serving
  <2>3. CASE Circulating /\ (CloseFile \/ ForeignFlush)
    BY <2>3, LedgerCancel DEF CloseFile, ForeignFlush
  <2>4. CASE Circulating /\ Interrupt /\ driverQ # <<>>
    BY <2>4, LedgerInterrupt
  <2>5. CASE Circulating /\ Interrupt /\ driverQ = <<>>
    <3>1. /\ raised' = raised + 1 /\ driverCount' = driverCount + 1
          /\ UNCHANGED <<pc, numQueued, eventCount, driverQ, io, count, upto, seen>>
          /\ raised \in Nat /\ driverCount \in Nat /\ seen \in Nat
          /\ \A s \in Slots : upto[s] \in Nat
      BY <2>5 DEF Interrupt, RingInv, TypeOK
    <3>2. /\ Behind' = Behind /\ Told' = Told /\ FirstUntold' = FirstUntold
          /\ \A s \in Slots : Dist(s)' = Dist(s)
      BY <3>1 DEF Behind, Told, FirstUntold, NextSlot, Dist
    <3>3. pc # "create" /\ pc' # "create"
      BY <2>5, <3>1 DEF Circulating, Serving
    <3> QED BY <2>5, <3>1, <3>2, <3>3 DEF Ledger, NextSlot
  <2> QED BY <1>9, <2>1, <2>2, <2>3, <2>4, <2>5
<1>10. CASE Terminate \/ UNCHANGED vars
  BY <1>4, <1>10 DEF Terminate, vars
<1> QED
  BY <1>2, <1>3, <1>4, <1>5, <1>6, <1>7, <1>8, <1>9, <1>10
     DEF Next, ThreadStep, WaitFails, Finished

\* Whatever fails and whoever flushes the queue, the interrupts told to the
\* user's callback are those that the board has raised, up to the notification
\* in hand: the ring loses none, tells none twice and keeps their order.
THEOREM CountsCorrect == Spec => []CountsAddUp
<1>1. Init => Ledger
  BY DepthAssumption DEF Init, Ledger, Circulating, Serving
<1>2. Spec => []RingInv
  BY RingInit, RingStep, TypeCorrect, PTL DEF Spec
<1>3. Ledger => CountsAddUp
  BY DEF Ledger, CountsAddUp, Circulating, Serving, FirstUntold
<1> QED
  BY <1>1, <1>2, <1>3, LedgerStep, PTL DEF Spec
----------------------------------------------------------------------------
\* Cleanup

LEMMA DrainStep ==
  ASSUME "requeue" \notin Faults, RingInv, RingInv', DrainInv, [Next]_vars
  PROVE  DrainInv'
<1>1. TypeOK /\ TypeOK'
  BY DEF RingInv
<1>2. pc \in {"queue", "wait", "fetch"} =>
        \A s \in Slots : Dist(s) < numQueued =>
          io[s] = "pending" \/ s \in signalled \/ (s = eventCount /\ pc = "fetch")
  <2> SUFFICES ASSUME pc \in {"queue", "wait", "fetch"}, NEW s \in Slots, Dist(s) < numQueued
               PROVE  io[s] = "pending" \/ s \in signalled \/ (s = eventCount /\ pc = "fetch")
    OBVIOUS
  <2>1. Circulating /\ Told = 0 /\ Dist(s) \in Nat
    <3>1. Circulating /\ Told = 0
      BY DEF Circulating, Serving, Told
    <3>2. Dist(s) \in 0 .. Depth - 1
      BY <1>1, DistRange DEF TypeOK
    <3> QED
      BY <3>1, <3>2, DepthAssumption
  <2>2. io[s] \in {"complete", "aborted", "pending"}
    <3>1. io[s] \in IF Dist(s) < Told THEN {"user"}
                    ELSE IF Dist(s) < Behind THEN {"complete", "aborted"}
                    ELSE IF Dist(s) < numQueued THEN {"pending"} ELSE {"user"}
      BY <2>1 DEF RingInv, IoByDistance
    <3>2. ~(Dist(s) < Told)
      BY <2>1
    <3> QED
      BY <3>1, <3>2
  <2>3. s \in signalled <=> /\ io[s] \in {"complete", "aborted"}
                            /\ ~(s = eventCount /\ pc \in {"fetch", "callback"})
    BY <2>1 DEF RingInv, EventMatchesIo
  <2> QED
    BY <2>2, <2>3
<1>3. pc \in {"queue", "wait", "fetch"} =>
        \A s \in 0 .. numQueued - 1 : s \in Slots /\ Dist(s) < numQueued
  <2>1. 0 .. numQueued - 1 \subseteq Slots
    BY <1>1, DepthAssumption DEF TypeOK, Slots
  <2>2. CASE pc = "queue"
    BY <1>1, <2>1, <2>2, DepthAssumption DEF RingInv, PhaseInv, Dist, TypeOK, Slots
  <2>3. CASE pc \in {"wait", "fetch"}
    <3>1. numQueued = Depth /\ eventCount \in Slots
      BY <1>1, <2>3 DEF RingInv, PhaseInv, Serving, TypeOK
    <3>2. \A s \in Slots : Dist(s) \in 0 .. Depth - 1
      BY <3>1, DistRange
    <3> QED
      BY <2>1, <3>1, <3>2, DepthAssumption
  <2> QED
    BY <2>1, <2>2, <2>3
<1>4. FlushReady'
  <2> SUFFICES ASSUME fileOpen', pc' = "flush", NEW s \in 0 .. numQueued' - 1
               PROVE  io'[s] = "pending" \/ s \in signalled'
    BY DEF FlushReady
  <2>1. CASE QueueNotify \/ WakeOnTerminate \/ WakeOnFailure
    <3>1. /\ pc \in {"queue", "wait"}
          /\ UNCHANGED <<numQueued, io, signalled>>
      BY <2>1 DEF QueueNotify, WakeOnTerminate, WakeOnFailure, slotVars
    <3> QED
      BY <1>2, <1>3, <3>1
  <2>2. CASE FetchResult
    <3>1. /\ pc = "fetch" /\ UNCHANGED <<numQueued, io>>
          /\ signalled' = signalled \cup {eventCount}
      BY <2>2 DEF FetchResult
    <3> QED
      BY <1>2, <1>3, <3>1
  <2>3. ~Requeue
    BY DEF Requeue, IoctlMayFail, MayFail
  <2>4. CASE Interrupt
    <3>1. /\ pc = "flush" /\ fileOpen /\ numQueued' = numQueued
          /\ signalled \subseteq signalled'
      BY <2>4 DEF Interrupt, threadVars, slotVars
    <3>2. \A t \in Slots : io'[t] = io[t] \/ t \in signalled'
      BY <1>1, <2>4 DEF Interrupt, TypeOK, slotVars
    <3>3. io[s] = "pending" \/ s \in signalled
      BY <3>1 DEF DrainInv, FlushReady
    <3>4. s \in Slots
      BY <1>1, <3>1, DepthAssumption DEF TypeOK, Slots
    <3> QED
      BY <3>1, <3>2, <3>3, <3>4
  <2>5. CASE CloseFile \/ ForeignFlush
    <3>1. /\ pc = "flush" /\ fileOpen /\ numQueued' = numQueued /\ CancelAll
      BY <2>5 DEF CloseFile, ForeignFlush, threadVars
    <3>2. io[s] = "pending" \/ s \in signalled
      BY <3>1 DEF DrainInv, FlushReady
    <3>3. s \in Slots
      BY <1>1, <3>1, DepthAssumption DEF TypeOK, Slots
    <3> QED
      BY <3>1, <3>2, <3>3 DEF CancelAll
  <2>6. CASE Terminate \/ UNCHANGED vars
    BY <2>6 DEF Terminate, vars, threadVars, slotVars, DrainInv, FlushReady
  <2>7. ~(CreateEvents \/ MarkReady \/ WakeOnEvent \/ CallUser \/ FlushQueue
          \/ DrainSlot \/ DrainOnFailure \/ DrainDone \/ MarkFailed \/ CloseHandles
          \/ ReportError \/ FreeData \/ ThreadReturn)
    BY DEF CreateEvents, MarkReady, WakeOnEvent, CallUser, FlushQueue, DrainSlot,
           DrainOnFailure, DrainDone,
           MarkFailed, CloseHandles, ReportError, FreeData, ThreadReturn
  <2> QED
    BY <2>1, <2>2, <2>3, <2>4, <2>5, <2>6, <2>7 DEF Next, ThreadStep, WaitFails, Finished
<1>5. DrainNeverHangs'
  <2> SUFFICES ASSUME pc' = "drain", NEW s \in 0 .. numQueued' - 1
               PROVE  s \in signalled'
    BY DEF DrainNeverHangs
  <2>1. CASE FlushQueue
    <3>1. /\ pc = "flush" /\ fileOpen /\ CancelAll /\ numQueued' = numQueued
      BY <2>1 DEF FlushQueue
    <3>2. io[s] = "pending" \/ s \in signalled
      BY <3>1 DEF DrainInv, FlushReady
    <3>3. s \in Slots
      BY <1>1, <3>1, DepthAssumption DEF TypeOK, Slots
    <3> QED
      BY <3>1, <3>2, <3>3 DEF CancelAll
  <2>2. CASE DrainSlot \/ DrainOnFailure
    <3>1. /\ pc = "drain" /\ numQueued' = numQueued - 1 /\ numQueued \in Nat
          /\ signalled \ {numQueued - 1} \subseteq signalled'
      BY <1>1, <2>2, DepthAssumption DEF DrainSlot, DrainOnFailure, TypeOK, slotVars
    <3>2. s \in 0 .. numQueued - 1 /\ s # numQueued - 1
      BY <3>1
    <3> QED
      BY <3>1, <3>2 DEF DrainInv, DrainNeverHangs
  <2>3. CASE Interrupt \/ CloseFile \/ ForeignFlush \/ Terminate \/ UNCHANGED vars
    <3>1. pc = "drain" /\ numQueued' = numQueued /\ signalled \subseteq signalled'
      BY <2>3 DEF Interrupt, CloseFile, ForeignFlush, Terminate, CancelAll, vars, threadVars,
                  slotVars
    <3> QED
      BY <3>1 DEF DrainInv, DrainNeverHangs
  <2>4. ~(CreateEvents \/ QueueNotify \/ MarkReady \/ WakeOnEvent \/ WakeOnTerminate
          \/ WakeOnFailure \/ FetchResult \/ CallUser \/ Requeue
          \/ DrainDone \/ MarkFailed \/ CloseHandles \/ ReportError \/ FreeData
          \/ ThreadReturn)
    BY DEF CreateEvents, QueueNotify, MarkReady, WakeOnEvent, WakeOnTerminate, WakeOnFailure,
           FetchResult, CallUser, Requeue, DrainDone, MarkFailed, CloseHandles, ReportError,
           FreeData, ThreadReturn
  <2> QED
    BY <2>1, <2>2, <2>3, <2>4 DEF Next, ThreadStep, WaitFails, Finished
<1> QED
  BY <1>4, <1>5 DEF DrainInv

\* The cleanup loop only waits for events that are already signalled, provided
\* queueing a slot again does not fail while the device file is open.
THEOREM DrainCorrect == ASSUME "requeue" \notin Faults PROVE Spec => []DrainNeverHangs
<1>1. Init => DrainInv
  BY DEF Init, DrainInv, FlushReady, DrainNeverHangs
<1>2. Spec => []RingInv
  BY RingInit, RingStep, TypeCorrect, PTL DEF Spec
<1>3. RingInv /\ RingInv' /\ DrainInv /\ [Next]_vars => DrainInv'
  BY DrainStep
<1>4. DrainInv => DrainNeverHangs
  BY DEF DrainInv
<1> QED
  BY <1>1, <1>2, <1>3, <1>4, PTL DEF Spec
\* Once the driver's queue has been cleared for the last time, or the file has
\* been closed, the driver holds no request of the thread.
Left ==
  ~fileOpen \/ pc \notin {"create", "queue", "flush"} \cup Serving =>
    \A s \in Slots : io[s] # "pending"

LEMMA LeftStep ==
  ASSUME "flush" \notin Faults, RingInv, Left, [Next]_vars
  PROVE  Left'
<1> USE DEF threadVars, slotVars, driverVars, Left, Serving
<1>1. ASSUME CancelAll PROVE \A s \in Slots : io'[s] # "pending"
  BY <1>1 DEF CancelAll
<1>2. CASE CreateEvents
  BY <1>2 DEF CreateEvents, RingInv, PhaseInv
<1>3. CASE QueueNotify \/ Requeue
  BY <1>3 DEF QueueNotify, Requeue, Notify
<1>4. CASE MarkReady \/ WakeOnEvent \/ WakeOnTerminate \/ WakeOnFailure \/ FetchResult
  BY <1>4 DEF MarkReady, WakeOnEvent, WakeOnTerminate, WakeOnFailure, FetchResult
<1>5. CASE CallUser
  BY <1>5 DEF CallUser, RingInv, TypeOK
<1>6. CASE FlushQueue
  BY <1>1, <1>6 DEF FlushQueue, IoctlMayFail, MayFail
<1>7. CASE DrainSlot \/ DrainOnFailure \/ DrainDone \/ MarkFailed \/ CloseHandles \/ ReportError
           \/ FreeData \/ ThreadReturn
  BY <1>7 DEF DrainSlot, DrainOnFailure, DrainDone, MarkFailed, CloseHandles, ReportError,
              FreeData, ThreadReturn
<1>8. CASE Interrupt
  BY <1>8 DEF Interrupt, RingInv, TypeOK
<1>9. CASE CloseFile \/ ForeignFlush
  BY <1>1, <1>9 DEF CloseFile, ForeignFlush
<1>10. CASE Terminate \/ UNCHANGED vars
  BY <1>10 DEF Terminate, vars
<1> QED
  BY <1>2, <1>3, <1>4, <1>5, <1>6, <1>7, <1>8, <1>9, <1>10
     DEF Next, ThreadStep, WaitFails, Finished

\* A thread that has closed its events has no request with the driver any
\* more, provided clearing the queue does not fail while the file is open.
THEOREM NothingOutlives == ASSUME "flush" \notin Faults PROVE Spec => []NoRequestOutlivesThread
<1>1. Init => Left
  BY DEF Init, Left, Serving
<1>2. Spec => []RingInv
  BY RingInit, RingStep, TypeCorrect, PTL DEF Spec
<1>3. Left => NoRequestOutlivesThread
  BY DEF Left, NoRequestOutlivesThread, Serving
<1>4. RingInv /\ Left /\ [Next]_vars => Left'
  BY LeftStep
<1> QED
  BY <1>1, <1>2, <1>3, <1>4, PTL DEF Spec
----------------------------------------------------------------------------
\* Refinement of ThreadLife

LEMMA LifeInvInit == Init => LifeInv
BY DEF Init, LifeInv, Serving

LEMMA LifeInvStep == TypeOK /\ LifeInv /\ [Next]_vars => LifeInv'
<1> SUFFICES ASSUME TypeOK, LifeInv, [Next]_vars PROVE LifeInv'
  OBVIOUS
<1> USE DEF LifeInv, Serving
<1>1. CASE CreateEvents \/ QueueNotify \/ MarkReady
  BY <1>1 DEF CreateEvents, QueueNotify, MarkReady
<1>2. CASE WakeOnEvent \/ WakeOnTerminate \/ WakeOnFailure
  BY <1>2 DEF WakeOnEvent, WakeOnTerminate, WakeOnFailure
<1>3. CASE FetchResult \/ CallUser \/ Requeue
  BY <1>3 DEF FetchResult, CallUser, Requeue
<1>4. CASE FlushQueue \/ DrainSlot \/ DrainOnFailure \/ DrainDone
  BY <1>4 DEF FlushQueue, DrainSlot, DrainOnFailure, DrainDone, Blame
<1>5. CASE MarkFailed
  BY <1>5 DEF MarkFailed
<1>6. CASE CloseHandles
  BY <1>6 DEF CloseHandles, Blame
<1>7. CASE ReportError
  BY <1>7 DEF ReportError
<1>8. CASE FreeData \/ ThreadReturn
  BY <1>8 DEF FreeData, ThreadReturn
<1>9. CASE Interrupt \/ CloseFile \/ ForeignFlush \/ Terminate \/ UNCHANGED vars
  BY <1>9 DEF Interrupt, CloseFile, ForeignFlush, Terminate, vars, threadVars
<1> QED
  BY <1>1, <1>2, <1>3, <1>4, <1>5, <1>6, <1>7, <1>8, <1>9 DEF Next, ThreadStep, WaitFails, Finished

\* Every step of the callback thread is a step of ThreadLife or changes nothing
\* that Install and Remove can see.
THEOREM LifeRefined == Spec => ImplementsThreadLife
<1>1. Init => Life!Init
  BY DEF Init, Life!Init, LifeView, Life!Start
<1>2. TypeOK /\ LifeInv /\ [Next]_vars => [Life!Next]_LifeView
  <2> SUFFICES ASSUME TypeOK, LifeInv, [Next]_vars, LifeView' # LifeView PROVE Life!Next
    OBVIOUS
  <2> USE DEF Serving, LifeView
  <2>1. ~(QueueNotify /\ UNCHANGED result)
        /\ ~WakeOnEvent /\ ~WakeOnTerminate /\ ~CallUser /\ ~DrainDone
        /\ ~Interrupt /\ ~CloseFile /\ ~ForeignFlush /\ ~UNCHANGED vars
    BY DEF QueueNotify, WakeOnEvent, WakeOnTerminate, CallUser, DrainDone, Interrupt,
           CloseFile, ForeignFlush, vars, threadVars, LifeInv
  <2>2. CASE MarkReady
    <3>1. LifeView' \in Life!Readies(LifeView)
      BY <2>2 DEF MarkReady, Life!Readies, LifeInv
    <3> QED
      BY <3>1 DEF Life!Next, Life!OwnSteps, Life!Runs
  <2>3. CASE CreateEvents \/ QueueNotify \/ WakeOnFailure \/ FetchResult \/ Requeue
             \/ FlushQueue \/ DrainSlot \/ DrainOnFailure
    <3>1. /\ result = "ok" /\ result' # "ok" /\ term # "closed"
          /\ UNCHANGED <<status, term, data, reported>> /\ pc # "done" /\ pc' # "done"
      BY <2>1, <2>3 DEF CreateEvents, QueueNotify, WakeOnFailure, FetchResult, Requeue,
                        FlushQueue, DrainSlot, DrainOnFailure, Blame, LifeInv
    <3>2. LifeView' \in Life!Fails(LifeView)
      BY <3>1 DEF Life!Fails
    <3> QED
      BY <3>2 DEF Life!Next, Life!OwnSteps, Life!Runs
  <2>4. CASE MarkFailed
    <3>1. LifeView' \in Life!Marks(LifeView)
      BY <2>4 DEF MarkFailed, Life!Marks, LifeInv
    <3> QED
      BY <3>1 DEF Life!Next, Life!OwnSteps, Life!Runs
  <2>5. CASE CloseHandles
    <3>1. /\ term' = "closed" /\ term # "closed"
          /\ UNCHANGED <<status, data, reported>> /\ pc # "done" /\ pc' # "done"
          /\ IF result = "ok" THEN status = 1 /\ term = "set"
             ELSE status = 2 /\ result' = result
      BY <2>5 DEF CloseHandles, Blame, LifeInv
    <3>2. Life!Closed(LifeView) = [LifeView EXCEPT !.term = "closed"]
      BY DEF Life!Closed
    <3>3. CASE result # "ok"
      <4>1. LifeView' \in Life!Closes(LifeView)
        BY <3>1, <3>3 DEF Life!Closes, Life!Closed
      <4> QED
        BY <4>1 DEF Life!Next, Life!OwnSteps, Life!Runs
    <3>4. CASE result = "ok" /\ result' = "ok"
      <4>1. LifeView' = Life!Closed(LifeView)
        BY <3>1, <3>2, <3>4
      <4>2. LifeView' \in Life!Closes(LifeView)
        BY <3>1, <3>4, <4>1 DEF Life!Closes
      <4> QED
        BY <4>2 DEF Life!Next, Life!OwnSteps, Life!Runs
    <3>5. CASE result = "ok" /\ result' # "ok"
      <4>1. LifeView' = [Life!Closed(LifeView) EXCEPT !.result = "error"]
        <5> DEFINE c == [status |-> status, result |-> "ok", term |-> "closed",
                         end |-> LifeView.end]
        <5>1. Life!Closed(LifeView) = c
          BY <3>1, <3>5 DEF Life!Closed
        <5>2. LifeView' = [c EXCEPT !.result = "error"]
          BY <3>1, <3>5
        <5> QED
          BY <5>1, <5>2, Zenon
      <4>2. LifeView.result = "ok" /\ LifeView.status = 1 /\ LifeView.term = "set"
        BY <3>1, <3>5
      <4>3. LifeView' \in Life!Closes(LifeView)
        <5> HIDE DEF LifeView
        <5>1. Life!Closes(LifeView)
                = {Life!Closed(LifeView), [Life!Closed(LifeView) EXCEPT !.result = "error"]}
          BY <4>2, Zenon DEF Life!Closes
        <5> QED
          BY <4>1, <5>1, Zenon
      <4> QED
        BY <4>3 DEF Life!Next, Life!OwnSteps, Life!Runs
    <3> QED
      BY <3>3, <3>4, <3>5
  <2>6. CASE ReportError
    <3>1. LifeView' \in Life!Tells(LifeView)
      BY <2>6 DEF ReportError, Life!Tells, LifeInv
    <3> QED
      BY <3>1 DEF Life!Next, Life!OwnSteps, Life!Runs
  <2>7. CASE FreeData
    <3>1. LifeView' \in Life!Frees(LifeView)
      BY <2>7 DEF FreeData, Life!Frees, LifeInv
    <3> QED
      BY <3>1 DEF Life!Next, Life!OwnSteps, Life!Runs
  <2>8. CASE ThreadReturn
    <3>1. LifeView' \in Life!Exits(LifeView)
      BY <2>8 DEF ThreadReturn, Life!Exits, LifeInv
    <3> QED
      BY <3>1 DEF Life!Next, Life!OwnSteps, Life!Runs
  <2>9. CASE Terminate
    <3>1. LifeView' \in Life!Terminated(LifeView)
      BY <2>9 DEF Terminate, Life!Terminated, threadVars
    <3> QED
      BY <3>1 DEF Life!Next
  <2> QED
    BY <2>1, <2>2, <2>3, <2>4, <2>5, <2>6, <2>7, <2>8, <2>9
    DEF Next, ThreadStep, WaitFails, Finished
<1> QED
  BY <1>1, <1>2, LifeInvInit, LifeInvStep, TypeCorrect, PTL
     DEF Spec, ImplementsThreadLife, Life!Spec

----------------------------------------------------------------------------
\* Refinement of NotifyQueue

\* Requests circulate, or are about to.
Active == pc \in Starting \cup Serving

\* The driver counts an interrupt before it answers.
CountsPositive == \A s \in Slots : io[s] = "complete" => count[s] > 0

\* The answers the user has not been told, slot by slot in ring order.
AnswersByDistance ==
  /\ Active => /\ Len(driverQ) \in Nat /\ Behind \in 0 .. numQueued /\ Behind - Taken \in Nat
               /\ RingAnswered \in Seq(Nat) /\ Len(RingAnswered) = Behind - Taken
               /\ \A i \in 1 .. Behind - Taken :
                    /\ SlotAt(i - 1 + Taken) \in Slots
                    /\ Dist(SlotAt(i - 1 + Taken)) = i - 1 + Taken
                    /\ RingAnswered[i] = AnswerIn(SlotAt(i - 1 + Taken))
  /\ ~Active => RingAnswered = <<>>

NotifyInv == RingInv /\ LifeInv /\ CountsPositive /\ AnswersByDistance

LEMMA SlotAtDistance ==
  ASSUME eventCount \in Slots, NEW d \in 0 .. Depth - 1
  PROVE  SlotAt(d) \in Slots /\ Dist(SlotAt(d)) = d
BY DepthAssumption DEF Slots, SlotAt, Dist

LEMMA CountsPositiveStep == TypeOK /\ CountsPositive /\ [Next]_vars => CountsPositive'
<1> SUFFICES ASSUME TypeOK, CountsPositive, [Next]_vars, NEW s \in Slots, io'[s] = "complete"
             PROVE  count'[s] > 0
  BY DEF CountsPositive
<1>1. io[s] = "complete" => count[s] \in Nat /\ count[s] > 0
  BY DEF CountsPositive, TypeOK
<1>2. CASE Interrupt
  <2>1. CASE driverQ = <<>>
    BY <1>1, <1>2, <2>1 DEF Interrupt, slotVars
  <2>2. CASE driverQ # <<>>
    <3>1. /\ Head(driverQ) \in Slots /\ driverCount + 1 > 0
          /\ io' = [io EXCEPT ![Head(driverQ)] = "complete"]
          /\ count' = [count EXCEPT ![Head(driverQ)] = driverCount + 1]
      BY <1>2, <2>2, HeadTailType DEF Interrupt, TypeOK
    <3> QED BY <1>1, <3>1 DEF TypeOK
  <2> QED BY <2>1, <2>2
<1>3. CASE QueueNotify \/ Requeue \/ CallUser
  <2>1. /\ count' = count
        /\ io' = io \/ \E t \in Slots, v \in {"pending", "user"} : io' = [io EXCEPT ![t] = v]
    BY <1>3, DepthAssumption DEF QueueNotify, Requeue, CallUser, Notify, TypeOK, Slots
  <2> QED BY <1>1, <2>1 DEF TypeOK
<1>4. CASE FlushQueue \/ CloseFile \/ ForeignFlush
  <2>1. count' = count /\ (io' = io \/ CancelAll)
    BY <1>4 DEF FlushQueue, CloseFile, ForeignFlush
  <2> QED BY <1>1, <2>1 DEF CancelAll
<1>5. CASE UNCHANGED <<io, count>>
  BY <1>1, <1>5
<1> QED BY <1>2, <1>3, <1>4, <1>5
        DEF Next, ThreadStep, WaitFails, Finished, vars, slotVars, CreateEvents, MarkReady, WakeOnEvent,
            WakeOnTerminate, WakeOnFailure, FetchResult, DrainSlot, DrainOnFailure, DrainDone,
            MarkFailed, CloseHandles, ReportError, FreeData, ThreadReturn, Terminate

LEMMA AnswersAre == RingInv => AnswersByDistance
<1> SUFFICES ASSUME RingInv, Active PROVE AnswersByDistance
  BY DEF AnswersByDistance, RingAnswered, Active
<1>1. /\ Len(driverQ) \in Nat /\ Behind \in 0 .. numQueued /\ Taken \in 0 .. 1 /\ Taken <= Behind
      /\ numQueued \in 0 .. Depth /\ eventCount \in Slots
  <2>1. Len(driverQ) \in Nat /\ numQueued \in 0 .. Depth /\ eventCount \in Slots
    BY DepthAssumption DEF RingInv, TypeOK
  <2>2. CASE pc = "create"
    BY <2>1, <2>2, DepthAssumption DEF RingInv, PhaseInv, Behind, Taken
  <2>3. CASE pc # "create"
    <3>1. Circulating
      BY <2>3 DEF Active, Starting, Circulating
    <3> QED BY <2>1, <3>1, QueueHoldsPending, DepthAssumption DEF RingInv, InHand, Taken
  <2> QED BY <2>2, <2>3
<1> DEFINE n == Behind - Taken
<1>2. n \in Nat /\ n + Taken <= Depth
  BY <1>1, DepthAssumption
<1>3. \A i \in 1 .. n : SlotAt(i - 1 + Taken) \in Slots /\ Dist(SlotAt(i - 1 + Taken)) = i - 1 + Taken
  <2> TAKE i \in 1 .. n
  <2>1. i - 1 + Taken \in 0 .. Depth - 1
    BY <1>1, <1>2, DepthAssumption
  <2> QED BY <1>1, <2>1, SlotAtDistance
<1>4. \A i \in 1 .. n : AnswerIn(SlotAt(i - 1 + Taken)) \in Nat
  BY <1>3 DEF AnswerIn, RingInv, TypeOK
<1>5. RingAnswered = [i \in 1 .. n |-> AnswerIn(SlotAt(i - 1 + Taken))]
  BY DEF RingAnswered, Active
<1> HIDE DEF n
<1>6. /\ RingAnswered \in Seq(Nat) /\ Len(RingAnswered) = n
      /\ \A i \in 1 .. n : RingAnswered[i] = AnswerIn(SlotAt(i - 1 + Taken))
  BY <1>2, <1>4, <1>5
<1> QED BY <1>1, <1>2, <1>3, <1>6 DEF AnswersByDistance, n

\* The answers stay when event_count stays and no answered request changes.
LEMMA AnswersStay ==
  ASSUME NotifyInv, NotifyInv', Active, Active', UNCHANGED <<eventCount, Taken>>, Behind <= Behind',
         \A s \in Slots : Taken <= Dist(s) /\ Dist(s) < Behind =>
                            io'[s] = io[s] /\ count'[s] = count[s]
  PROVE  /\ SubSeq(RingAnswered', 1, Len(RingAnswered)) = RingAnswered
         /\ Behind' = Behind => RingAnswered' = RingAnswered
<1> DEFINE old == RingAnswered
           new == RingAnswered'
<1>1. Behind \in Nat /\ Behind' \in Nat /\ Taken \in 0 .. 1 /\ Taken' = Taken /\ Behind <= Behind'
  <2>1. Behind \in 0 .. numQueued /\ Behind' \in 0 .. numQueued' /\ numQueued \in Nat /\ numQueued' \in Nat
    BY DepthAssumption DEF NotifyInv, AnswersByDistance, RingInv, TypeOK
  <2> QED BY <2>1 DEF Taken
<1>2. /\ old \in Seq(Nat) /\ Len(old) = Behind - Taken /\ new \in Seq(Nat) /\ Len(new) = Behind' - Taken
      /\ Len(old) \in Nat
  BY <1>1 DEF NotifyInv, AnswersByDistance
<1>3. \A i \in 1 .. Len(old) : new[i] = old[i]
  <2> TAKE i \in 1 .. Len(old)
  <2>1. i \in 1 .. Behind - Taken /\ i \in 1 .. Behind' - Taken'
    <3>1. PICK b \in Nat, c \in Nat, t \in 0 .. 1 : b = Behind /\ c = Behind' /\ t = Taken /\ b <= c
      BY <1>1
    <3>2. i \in 1 .. b - t /\ 1 .. b - t \subseteq 1 .. c - t
      BY <1>2, <3>1
    <3> QED BY <1>1, <3>1, <3>2
  <2>2. PICK s : s = SlotAt(i - 1 + Taken)
    OBVIOUS
  <2>3. s \in Slots /\ Dist(s) = i - 1 + Taken /\ old[i] = AnswerIn(s)
    BY <2>1, <2>2 DEF NotifyInv, AnswersByDistance
  <2>4. new[i] = AnswerIn(s)'
    <3>1. SlotAt(i - 1 + Taken)' = s
      BY <1>1, <2>2 DEF SlotAt
    <3> QED BY <2>1, <3>1 DEF NotifyInv, AnswersByDistance
  <2>5. io'[s] = io[s] /\ count'[s] = count[s]
    BY <1>1, <2>1, <2>3
  <2> QED BY <2>3, <2>4, <2>5 DEF AnswerIn
<1>4. Len(old) <= Len(new)
  <2>1. PICK b \in Nat, c \in Nat, t \in 0 .. 1 : b = Behind /\ c = Behind' /\ t = Taken /\ b <= c
    BY <1>1
  <2>2. b \in Nat /\ c \in Nat /\ t \in 0 .. 1 /\ b <= c
    BY <2>1
  <2>3. b - t <= c - t
    BY ONLY <2>2
  <2> QED BY <1>2, <2>1, <2>3
<1> HIDE DEF old, new
<1>5. SubSeq(new, 1, Len(old)) = old
  <2>1. /\ SubSeq(new, 1, Len(old)) \in Seq(Nat) /\ Len(SubSeq(new, 1, Len(old))) = Len(old)
        /\ \A i \in 1 .. Len(old) : SubSeq(new, 1, Len(old))[i] = new[i]
    BY <1>2, <1>4
  <2> QED BY <1>2, <1>3, <2>1, SeqEqual
<1>6. Behind' = Behind => new = old
  BY <1>1, <1>2, <1>3, SeqEqual
<1> QED BY <1>5, <1>6 DEF old, new

\* Before it has decided to stop, the thread stands well with all its requests.
LEMMA RingFacts ==
  ASSUME NotifyInv, Active
  PROVE  /\ RingWaiting = Len(driverQ) /\ RingAnswered \in Seq(Nat)
         /\ Len(driverQ) \in Nat /\ Behind \in Nat /\ Behind = numQueued - Len(driverQ) /\ numQueued \in 0 .. Depth
         /\ Len(RingAnswered) = Behind - Taken /\ Len(RingAnswered) \in Nat /\ Taken \in 0 .. 1
         /\ driverQ = <<>> <=> Len(driverQ) = 0
         /\ driverQ \in Seq(Slots) /\ eventCount \in Slots
         /\ result = "ok" /\ RingAt \in {"starting", "wait", "callback", "requeue"}
<1>1. /\ numQueued \in 0 .. Depth /\ driverQ \in Seq(Slots) /\ eventCount \in Slots
      /\ pc \in {"create", "queue", "wait", "fetch", "callback", "requeue"}
  BY DEF NotifyInv, RingInv, TypeOK, Active, Starting, Serving
<1>2. /\ Len(driverQ) \in Nat /\ Behind \in 0 .. numQueued /\ Behind - Taken \in Nat
      /\ RingAnswered \in Seq(Nat) /\ Len(RingAnswered) = Behind - Taken
  BY DEF NotifyInv, AnswersByDistance
<1>3. RingWaiting = Len(driverQ) /\ Behind = numQueued - Len(driverQ) /\ Taken \in 0 .. 1
  BY DEF RingWaiting, Behind, Taken, Active
<1>4. result = "ok" /\ RingAt \in {"starting", "wait", "callback", "requeue"}
  BY <1>1 DEF NotifyInv, LifeInv, RingAt, Serving, Starting
<1>5. driverQ = <<>> <=> Len(driverQ) = 0
  BY <1>1
<1> QED BY <1>1, <1>2, <1>3, <1>4, <1>5, DepthAssumption

\* The thread has decided to stop: the ring is gone.
LEMMA RingGone ==
  ASSUME NotifyInv, ~Active
  PROVE  /\ RingWaiting = 0 /\ RingAnswered = <<>> /\ RingInfo = 0
         /\ RingAt = IF result = "ok" THEN "stopped" ELSE "broken"
BY DEF NotifyInv, AnswersByDistance, RingWaiting, RingInfo, RingAt, Active, Serving, Starting

\* An error, before the thread has decided to stop or after.
LEMMA RingBreaks ==
  ASSUME NotifyInv, NotifyInv', pc # "callback", result = "ok", result' # "ok"
  PROVE  Ring!Break
<1>1. ~Active'
  BY DEF NotifyInv, LifeInv, Active, Starting
<1>2. RingWaiting' = 0 /\ RingAnswered' = <<>> /\ RingInfo' = 0 /\ RingAt' = "broken"
  BY <1>1 DEF NotifyInv, AnswersByDistance, RingWaiting, RingInfo, RingAt, Active, Serving, Starting
<1>3. RingAt \notin {"callback", "broken"}
  BY DEF RingAt, Starting
<1> QED BY <1>2, <1>3 DEF Ring!Break, Ring!Nothing

\* Requests are answered, by the board or because the driver cancels them.
LEMMA RingAnswers ==
  ASSUME NotifyInv, NotifyInv', Active, Len(driverQ') < Len(driverQ),
         UNCHANGED <<pc, numQueued, eventCount, result, RingInfo>>,
         \A s \in Slots : Taken <= Dist(s) /\ Dist(s) < Behind =>
                            io'[s] = io[s] /\ count'[s] = count[s]
  PROVE  Ring!Answer
<1>1. Active' /\ Taken' = Taken /\ RingAt' = RingAt
  BY DEF Active, Taken, RingAt
<1>2. /\ RingWaiting = Len(driverQ) /\ Len(driverQ) \in Nat /\ numQueued \in Nat /\ Behind = numQueued - Len(driverQ)
      /\ Len(RingAnswered) = Behind - Taken /\ Taken \in 0 .. 1
      /\ RingAt \in {"starting", "wait", "callback", "requeue"}
  BY RingFacts, DepthAssumption
<1>3. /\ RingWaiting' = Len(driverQ') /\ Len(driverQ') \in Nat /\ Behind' = numQueued - Len(driverQ')
      /\ RingAnswered' \in Seq(Nat) /\ Len(RingAnswered') = Behind' - Taken
  BY <1>1 DEF NotifyInv, AnswersByDistance, RingWaiting, Active, Behind
<1>4. Behind <= Behind'
  BY <1>2, <1>3
<1>5. SubSeq(RingAnswered', 1, Len(RingAnswered)) = RingAnswered
  BY <1>1, <1>4, AnswersStay
<1>6. Len(RingAnswered') + RingWaiting' = Len(RingAnswered) + RingWaiting
  BY <1>2, <1>3
<1>7. RingWaiting' < RingWaiting /\ UNCHANGED <<RingAt, RingInfo>>
  BY <1>1, <1>2, <1>3
<1> QED BY <1>2, <1>3, <1>5, <1>6, <1>7 DEF Ring!Answer

\* A step in which the driver and the thread exchange nothing.
LEMMA RingStays ==
  ASSUME NotifyInv, NotifyInv', Active, Active', UNCHANGED <<numQueued, eventCount, RingAt, RingInfo, Taken>>,
         Len(driverQ') = Len(driverQ),
         \A s \in Slots : Taken <= Dist(s) /\ Dist(s) < Behind =>
                            io'[s] = io[s] /\ count'[s] = count[s]
  PROVE  UNCHANGED Ring!vars
<1>1. RingWaiting' = RingWaiting /\ Behind' = Behind
  BY DEF RingWaiting, Active, Behind
<1>2. Behind <= Behind'
  BY <1>1, RingFacts
<1>3. RingAnswered' = RingAnswered
  BY <1>1, <1>2, AnswersStay
<1> QED BY <1>1, <1>3 DEF Ring!vars

\* The thread's own steps while its requests circulate.
LEMMA RingStarts ==
  ASSUME NotifyInv, NotifyInv', CreateEvents \/ QueueNotify \/ MarkReady
  PROVE  [Ring!Next]_Ring!vars
<1>1. pc \in Starting /\ Active /\ Taken = 0 /\ RingInfo = 0 /\ RingAt = "starting" /\ result = "ok"
  BY DEF CreateEvents, QueueNotify, MarkReady, Starting, Active, Taken, RingInfo, RingAt, NotifyInv, LifeInv
<1>2. CASE result' # "ok"
  BY <1>1, <1>2, RingBreaks DEF Ring!Next, Starting
<1>3. CASE CreateEvents /\ result' = "ok"
  <2>1. pc' = "queue" /\ UNCHANGED <<numQueued, eventCount, driverQ, io, count>>
    BY <1>3 DEF CreateEvents, slotVars, driverVars
  <2>2. Active' /\ Taken' = 0 /\ RingInfo' = 0 /\ RingAt' = "starting"
    BY <2>1 DEF Active, Starting, Taken, RingInfo, RingAt
  <2> QED BY <1>1, <2>1, <2>2, RingStays
<1>4. CASE QueueNotify /\ result' = "ok"
  <2>1. /\ pc = "queue" /\ pc' = "queue" /\ numQueued < Depth /\ Notify(numQueued)
        /\ numQueued' = numQueued + 1 /\ UNCHANGED <<eventCount, count>>
    BY <1>1, <1>4 DEF QueueNotify
  <2>2. Active' /\ Taken' = 0 /\ RingInfo' = 0 /\ RingAt' = "starting" /\ eventCount = 0
    BY <2>1 DEF Active, Starting, Taken, RingInfo, RingAt, NotifyInv, RingInv, PhaseInv
  <2>3. /\ Len(driverQ) \in Nat /\ numQueued \in 0 .. Depth /\ RingWaiting = Len(driverQ)
        /\ Behind \in Nat /\ Behind = numQueued - Len(driverQ) /\ Len(RingAnswered) = Behind
        /\ Len(driverQ') = Len(driverQ) + 1
    BY <1>1, <2>1, RingFacts DEF Notify
  <2>4. RingWaiting' = RingWaiting + 1 /\ Behind' = Behind
    <3>1. RingWaiting' = Len(driverQ') /\ Behind' = numQueued' - Len(driverQ')
      BY <2>2 DEF RingWaiting, Active, Behind
    <3> QED BY <2>1, <2>3, <3>1
  <2>5. ASSUME NEW s \in Slots, Dist(s) < Behind PROVE io'[s] = io[s] /\ count'[s] = count[s]
    <3>1. s # numQueued
      BY <2>2, <2>3, <2>5, DepthAssumption DEF Dist, Slots
    <3> QED BY <2>1, <3>1 DEF Notify, NotifyInv, RingInv, TypeOK
  <2>6. RingAnswered' = RingAnswered
    BY <1>1, <2>1, <2>2, <2>3, <2>4, <2>5, AnswersStay
  <2>7. RingWaiting + Len(RingAnswered) < Depth
    BY <2>1, <2>3
  <2> QED BY <1>1, <2>2, <2>4, <2>6, <2>7 DEF Ring!Queue, Ring!Next
<1>5. CASE MarkReady
  <2>1. pc' = "wait" /\ numQueued = Depth /\ UNCHANGED <<numQueued, eventCount, driverQ, io, count>>
    BY <1>5 DEF MarkReady, slotVars, driverVars
  <2>2. Active' /\ Taken' = 0 /\ RingInfo' = 0 /\ RingAt' = "wait"
    BY <2>1 DEF Active, Serving, Starting, Taken, RingInfo, RingAt
  <2>3. RingWaiting' = RingWaiting /\ Behind' = Behind
    BY <1>1, <2>1, <2>2 DEF RingWaiting, Active, Behind
  <2>4. Behind <= Behind'
    BY <1>1, <2>3, RingFacts
  <2>5. RingAnswered' = RingAnswered
    BY <1>1, <2>1, <2>2, <2>3, <2>4, AnswersStay
  <2>6. RingWaiting + Len(RingAnswered) = Depth
    BY <1>1, <2>1, RingFacts
  <2> QED BY <1>1, <2>2, <2>3, <2>5, <2>6 DEF Ring!Ready, Ring!Next
<1> QED BY <1>2, <1>3, <1>4, <1>5 DEF MarkReady, NotifyInv, LifeInv

\* The slot that the thread waits for is the one the driver answers next: without its
\* event there is no answer.
LEMMA RingWakes ==
  ASSUME NotifyInv, NotifyInv', WakeOnEvent \/ WakeOnTerminate \/ WakeOnFailure
  PROVE  [Ring!Next]_Ring!vars
<1>1. pc = "wait" /\ Active /\ Taken = 0 /\ RingInfo = 0 /\ RingAt = "wait" /\ result = "ok"
  BY DEF WakeOnEvent, WakeOnTerminate, WakeOnFailure, Active, Serving, Starting, Taken, RingInfo, RingAt,
         NotifyInv, LifeInv
<1>2. CASE WakeOnFailure
  <2>1. result' # "ok"
    BY <1>2 DEF WakeOnFailure
  <2> QED BY <1>1, <2>1, RingBreaks DEF Ring!Next
<1>3. CASE WakeOnEvent
  <2>1. pc' = "fetch" /\ UNCHANGED <<numQueued, eventCount, driverQ, io, count>>
    BY <1>3 DEF WakeOnEvent, driverVars
  <2>2. Active' /\ Taken' = 0 /\ RingInfo' = 0 /\ RingAt' = "wait"
    BY <2>1 DEF Active, Serving, Starting, Taken, RingInfo, RingAt
  <2> QED BY <1>1, <2>1, <2>2, RingStays
<1>4. CASE WakeOnTerminate
  <2>1. eventCount \notin signalled /\ pc' = "flush" /\ result' = "ok"
    BY <1>1, <1>4 DEF WakeOnTerminate
  <2>2. ~Active' /\ RingAt' = "stopped" /\ RingWaiting' = 0 /\ RingInfo' = 0 /\ RingAnswered' = <<>>
    BY <2>1 DEF Active, Serving, Starting, RingAt, RingWaiting, RingInfo, RingAnswered
  <2>3. Behind = 0
    <3>1. eventCount \in Slots /\ Behind \in Nat /\ Dist(eventCount) = 0 /\ Circulating /\ Told = 0
      BY <1>1, RingFacts, DistRange DEF Circulating, Serving, Told
    <3>2. io[eventCount] \notin {"complete", "aborted"}
      BY <1>1, <2>1, <3>1 DEF NotifyInv, RingInv, EventMatchesIo
    <3>3. Behind > 0 => io[eventCount] \in {"complete", "aborted"}
      BY <3>1 DEF NotifyInv, RingInv, IoByDistance
    <3> QED BY <3>1, <3>2, <3>3
  <2>4. RingAnswered = <<>>
    <3>1. RingAnswered \in Seq(Nat) /\ Len(RingAnswered) = 0
      BY <1>1, <2>3, RingFacts
    <3> QED BY <3>1
  <2> QED BY <1>1, <2>2, <2>4 DEF Ring!Stop, Ring!Next
<1> QED BY <1>2, <1>3, <1>4

LEMMA RingFetches == ASSUME NotifyInv, NotifyInv', FetchResult PROVE Ring!Next
<1>1. pc = "fetch" /\ Active /\ Taken = 0 /\ RingInfo = 0 /\ RingAt = "wait" /\ result = "ok"
  BY DEF FetchResult, Active, Serving, Starting, Taken, RingInfo, RingAt, NotifyInv, LifeInv
<1>2. CASE result' # "ok"
  BY <1>1, <1>2, RingBreaks DEF Ring!Next
<1>3. CASE result' = "ok"
  <2>1. /\ pc' = "callback" /\ io[eventCount] = "complete"
        /\ UNCHANGED <<numQueued, eventCount, driverQ, io, count>>
    BY <1>3 DEF FetchResult, driverVars
  <2>2. Active' /\ Taken' = 1 /\ RingInfo' = count[eventCount] /\ RingAt' = "callback"
    BY <2>1 DEF Active, Serving, Starting, Taken, RingInfo, RingAt
  <2>3. RingWaiting' = RingWaiting /\ Behind' = Behind
    BY <1>1, <2>1, <2>2 DEF RingWaiting, Active, Behind
  <2>4. Behind \in Nat /\ Behind >= 1 /\ eventCount \in Slots
    BY <1>1, RingFacts DEF NotifyInv, RingInv, InHand
  <2> DEFINE old == RingAnswered
             new == RingAnswered'
  <2>5. /\ old \in Seq(Nat) /\ Len(old) = Behind
        /\ \A i \in 1 .. Behind : SlotAt(i - 1 + 0) \in Slots /\ old[i] = AnswerIn(SlotAt(i - 1 + 0))
    BY <1>1, <2>4 DEF NotifyInv, AnswersByDistance
  <2>6. /\ new \in Seq(Nat) /\ Len(new) = Behind - 1
        /\ \A i \in 1 .. Behind - 1 : new[i] = AnswerIn(SlotAt(i - 1 + 1))
    <3>1. /\ new \in Seq(Nat) /\ Len(new) = Behind - 1
          /\ \A i \in 1 .. Behind - 1 : new[i] = AnswerIn(SlotAt(i - 1 + Taken))'
      BY <2>2, <2>3 DEF NotifyInv, AnswersByDistance
    <3>2. ASSUME NEW i \in 1 .. Behind - 1 PROVE AnswerIn(SlotAt(i - 1 + Taken))' = AnswerIn(SlotAt(i - 1 + 1))
      BY <2>1, <2>2 DEF AnswerIn, SlotAt
    <3> QED BY <3>1, <3>2
  <2> HIDE DEF old, new
  <2>7. old # <<>> /\ new = Tail(old)
    <3>1. old # <<>>
      BY <2>4, <2>5
    <3>2. Tail(old) \in Seq(Nat) /\ Len(Tail(old)) = Behind - 1
          /\ \A i \in 1 .. Behind - 1 : Tail(old)[i] = old[i + 1]
      BY <2>4, <2>5, <3>1, HeadTailProperties
    <3>3. ASSUME NEW i \in 1 .. Behind - 1 PROVE new[i] = Tail(old)[i]
      <4>1. i + 1 \in 1 .. Behind /\ i + 1 - 1 + 0 = i - 1 + 1
        BY <2>4
      <4> QED BY <2>5, <2>6, <3>2, <4>1
    <3> QED BY <2>6, <3>1, <3>2, <3>3, SeqEqual
  <2>8. Head(old) = count[eventCount] /\ count[eventCount] # 0
    <3>1. SlotAt(0) = eventCount
      BY <2>4, DepthAssumption DEF SlotAt, Slots
    <3>2. old[1] = AnswerIn(SlotAt(0)) /\ Head(old) = old[1]
      <4>1. 1 \in 1 .. Behind /\ 1 - 1 + 0 = 0
        BY <2>4
      <4> QED BY <2>5, <2>7, <4>1
    <3> QED BY <2>1, <2>4, <3>1, <3>2 DEF AnswerIn, NotifyInv, CountsPositive
  <2> QED BY <1>1, <2>2, <2>3, <2>7, <2>8 DEF Ring!Take, Ring!Next, Ring!Nothing, old, new
<1> QED BY <1>2, <1>3

LEMMA RingCalls == ASSUME NotifyInv, NotifyInv', CallUser PROVE Ring!Next
<1>1. /\ pc = "callback" /\ pc' = "requeue" /\ Active /\ Active' /\ Taken = 1 /\ Taken' = 1
      /\ RingAt = "callback" /\ RingAt' = "requeue" /\ RingInfo' = 0
      /\ UNCHANGED <<numQueued, eventCount, driverQ, count>> /\ io' = [io EXCEPT ![eventCount] = "user"]
  BY DEF CallUser, Active, Serving, Starting, Taken, RingInfo, RingAt, driverVars
<1>2. RingWaiting' = RingWaiting /\ Behind' = Behind /\ eventCount \in Slots
  BY <1>1, RingFacts DEF RingWaiting, Active, Behind
<1>3. ASSUME NEW s \in Slots, 1 <= Dist(s) PROVE io'[s] = io[s] /\ count'[s] = count[s]
  BY <1>1, <1>2, <1>3, DistRange DEF NotifyInv, RingInv, TypeOK
<1>4. Behind <= Behind'
  BY <1>1, <1>2, RingFacts
<1>5. RingAnswered' = RingAnswered
  BY <1>1, <1>2, <1>3, <1>4, AnswersStay
<1> QED BY <1>1, <1>2, <1>5 DEF Ring!Return, Ring!Next, Ring!Nothing

\* The ring turns by one slot: what was the second answer is the first.
LEMMA RingRequeues == ASSUME NotifyInv, NotifyInv', Requeue PROVE Ring!Next
<1>1. pc = "requeue" /\ Active /\ Taken = 1 /\ RingInfo = 0 /\ RingAt = "requeue" /\ result = "ok"
  BY DEF Requeue, Active, Serving, Starting, Taken, RingInfo, RingAt, NotifyInv, LifeInv
<1>2. CASE result' # "ok"
  BY <1>1, <1>2, RingBreaks DEF Ring!Next
<1>3. CASE result' = "ok"
  <2>1. pc' = "wait" /\ Notify(eventCount) /\ eventCount' = NextSlot(eventCount) /\ UNCHANGED <<numQueued, count>>
    BY <1>3 DEF Requeue
  <2>2. Active' /\ Taken' = 0 /\ RingInfo' = 0 /\ RingAt' = "wait"
    BY <2>1 DEF Active, Serving, Starting, Taken, RingInfo, RingAt
  <2>3. /\ Len(driverQ) \in Nat /\ numQueued \in 0 .. Depth /\ RingWaiting = Len(driverQ)
        /\ Behind \in Nat /\ Behind = numQueued - Len(driverQ) /\ Len(driverQ') = Len(driverQ) + 1
        /\ eventCount \in Slots /\ Len(RingAnswered) = Behind - 1 /\ RingAnswered \in Seq(Nat)
        /\ Behind - 1 \in Nat
    BY <1>1, <2>1, RingFacts DEF Notify
  <2>4. RingWaiting' = RingWaiting + 1 /\ Behind' = Behind - 1
    <3>1. RingWaiting' = Len(driverQ') /\ Behind' = numQueued' - Len(driverQ')
      BY <2>2 DEF RingWaiting, Active, Behind
    <3> QED BY <2>1, <2>3, <3>1
  <2> DEFINE old == RingAnswered
             new == RingAnswered'
  <2>5. \A i \in 1 .. Behind - 1 : /\ SlotAt(i - 1 + 1) \in Slots /\ Dist(SlotAt(i - 1 + 1)) = i - 1 + 1
                                   /\ old[i] = AnswerIn(SlotAt(i - 1 + 1))
    BY <1>1 DEF NotifyInv, AnswersByDistance
  <2>6. /\ new \in Seq(Nat) /\ Len(new) = Behind - 1
        /\ \A i \in 1 .. Behind - 1 : new[i] = AnswerIn(SlotAt(i - 1 + Taken))'
    <3>1. (Behind - Taken)' = Behind - 1
      BY <2>2, <2>3, <2>4
    <3> QED BY <2>2, <3>1 DEF NotifyInv, AnswersByDistance
  <2>7. ASSUME NEW i \in 1 .. Behind - 1 PROVE new[i] = old[i]
    <3>1. PICK s \in Slots : s = SlotAt(i - 1 + 1) /\ Dist(s) = i - 1 + 1 /\ old[i] = AnswerIn(s)
      BY <2>5
    <3>2. SlotAt(i - 1 + Taken)' = s
      <4>1. i \in Nat /\ i >= 1 /\ i < Depth
        <5>1. Len(driverQ) \in Nat /\ numQueued <= Depth /\ i <= numQueued - Len(driverQ) - 1
          BY <2>3
        <5> QED BY <2>3, <5>1, DepthAssumption
      <4>2. SlotAt(i - 1 + Taken)' = IF eventCount' + (i - 1) < Depth THEN eventCount' + (i - 1)
                                     ELSE eventCount' + (i - 1) - Depth
        BY <2>2, <4>1 DEF SlotAt
      <4>3. s = IF eventCount + i < Depth THEN eventCount + i ELSE eventCount + i - Depth
        BY <3>1, <4>1 DEF SlotAt
      <4>4. eventCount' = IF eventCount + 1 >= Depth THEN 0 ELSE eventCount + 1
        BY <2>1 DEF NextSlot
      <4>5. eventCount \in Nat /\ eventCount < Depth /\ Depth \in Nat
        BY <2>3, DepthAssumption DEF Slots
      <4> QED BY <4>1, <4>2, <4>3, <4>4, <4>5
    <3>3. s # eventCount
      BY <2>3, <3>1, DistRange
    <3>4. io'[s] = io[s] /\ count'[s] = count[s]
      BY <2>1, <3>3 DEF Notify, NotifyInv, RingInv, TypeOK
    <3> QED BY <2>6, <3>1, <3>2, <3>4 DEF AnswerIn
  <2> HIDE DEF old, new
  <2>8. new = old
    BY <2>3, <2>6, <2>7, SeqEqual DEF old
  <2> QED BY <1>1, <2>2, <2>4, <2>8 DEF Ring!Requeue, Ring!Next, old, new
<1> QED BY <1>2, <1>3

LEMMA RingDriver ==
  ASSUME NotifyInv, NotifyInv', Interrupt \/ CloseFile \/ ForeignFlush, Active
  PROVE  [Ring!Next]_Ring!vars
<1>1. /\ UNCHANGED threadVars /\ Active' /\ Taken' = Taken /\ RingAt' = RingAt /\ eventCount \in Slots
      /\ UNCHANGED <<pc, numQueued, eventCount, result>>
      /\ Interrupt \/ (CancelAll /\ count' = count)
  BY RingFacts DEF Interrupt, CloseFile, ForeignFlush, threadVars, Active, Taken, RingAt
<1>2. /\ Len(driverQ) \in Nat /\ driverQ \in Seq(Slots)
      /\ driverQ = <<>> <=> Len(driverQ) = 0
      /\ Behind \in Nat /\ Taken \in 0 .. 1
  BY RingFacts
<1>3. /\ Len(driverQ') <= Len(driverQ)
      /\ \A s \in Slots : Taken <= Dist(s) /\ Dist(s) < Behind => io'[s] = io[s] /\ count'[s] = count[s]
      /\ Len(driverQ') = Len(driverQ) \/ Len(driverQ') < Len(driverQ)
  <2>1. CASE pc = "create"
    <3>1. Len(driverQ) = 0 /\ driverQ = <<>> /\ Behind = 0
      <4>1. driverQ = <<>> /\ numQueued = 0
        BY <2>1 DEF NotifyInv, RingInv, PhaseInv
      <4>2. Len(driverQ) = 0
        BY <1>2, <4>1
      <4>3. Behind = numQueued - Len(driverQ)
        BY DEF Behind
      <4>4. Behind = 0
        BY ONLY <4>1, <4>2, <4>3
      <4> QED BY ONLY <4>1, <4>2, <4>4
    <3>2. \A s \in Slots : Dist(s) \in Nat
      BY <1>1, DistRange, DepthAssumption
    <3>3. Len(driverQ') = 0
      BY <1>1, <3>1 DEF Interrupt, CancelAll
    <3> QED BY <3>1, <3>2, <3>3
  <2>2. CASE pc # "create"
    <3>1. /\ Circulating /\ Told \in 0 .. 1 /\ Told <= Taken
          /\ driverQ # <<>> => Dist(Head(driverQ)) = Behind
      <4>1. Circulating
        BY <2>2 DEF Active, Starting, Circulating
      <4>2. RingInv
        BY DEF NotifyInv
      <4>3. driverQ # <<>> => Dist(Head(driverQ)) = Behind
        BY <4>1, <4>2, QueueHoldsPending
      <4> QED BY <4>1, <4>3 DEF Told, Taken
    <3>2. ASSUME NEW s \in Slots, Taken <= Dist(s), Dist(s) < Behind
          PROVE  io[s] \in {"complete", "aborted"} /\ (driverQ # <<>> => s # Head(driverQ))
      <4>1. Dist(s) \in Nat /\ ~(Dist(s) < Told)
        BY <1>1, <1>2, <3>1, <3>2, DistRange, DepthAssumption
      <4>2. io[s] \in {"complete", "aborted"}
        BY <3>1, <3>2, <4>1 DEF NotifyInv, RingInv, IoByDistance
      <4> QED BY <1>2, <3>1, <3>2, <4>1, <4>2
    <3>3. CASE Interrupt /\ driverQ # <<>>
      <4>1. /\ driverQ' = Tail(driverQ) /\ io' = [io EXCEPT ![Head(driverQ)] = "complete"]
            /\ count' = [count EXCEPT ![Head(driverQ)] = driverCount + 1]
        BY <3>3 DEF Interrupt
      <4>2. Len(driverQ') = Len(driverQ) - 1
        BY <1>2, <3>3, <4>1
      <4>3. \A s \in Slots : Taken <= Dist(s) /\ Dist(s) < Behind => io'[s] = io[s] /\ count'[s] = count[s]
        BY <3>2, <3>3, <4>1 DEF NotifyInv, RingInv, TypeOK
      <4>4. Len(driverQ) \in Nat
        BY <1>2
      <4>5. Len(driverQ') <= Len(driverQ) /\ Len(driverQ') < Len(driverQ)
        BY ONLY <4>2, <4>4
      <4> QED BY ONLY <4>3, <4>5
    <3>4. CASE Interrupt /\ driverQ = <<>>
      BY <1>2, <3>4 DEF Interrupt, slotVars
    <3>5. CASE CancelAll /\ count' = count
      <4>1. Len(driverQ') = 0
        BY <3>5 DEF CancelAll
      <4>2. \A s \in Slots : Taken <= Dist(s) /\ Dist(s) < Behind => io'[s] = io[s] /\ count'[s] = count[s]
        BY <3>2, <3>5 DEF CancelAll
      <4>3. Len(driverQ) \in Nat
        BY <1>2
      <4>4. /\ Len(driverQ') <= Len(driverQ)
            /\ Len(driverQ') = Len(driverQ) \/ Len(driverQ') < Len(driverQ)
        BY ONLY <4>1, <4>3
      <4> QED BY ONLY <4>2, <4>4
    <3> QED BY <1>1, <3>3, <3>4, <3>5
  <2> QED BY <2>1, <2>2
<1>4. RingInfo' = RingInfo
  <2>1. CASE pc # "callback"
    BY <1>1, <2>1 DEF RingInfo
  <2>2. CASE pc = "callback"
    <3>1. driverQ # <<>> => Head(driverQ) # eventCount
      <4>1. Circulating /\ Behind >= 1 /\ Dist(eventCount) = 0
        BY <1>1, <2>2, DistRange DEF Circulating, Serving, NotifyInv, RingInv, InHand
      <4> QED BY <4>1, QueueHoldsPending DEF NotifyInv
    <3>2. count'[eventCount] = count[eventCount]
      BY <1>1, <1>2, <3>1 DEF Interrupt, slotVars, NotifyInv, RingInv, TypeOK
    <3> QED BY <1>1, <2>2, <3>2 DEF RingInfo
  <2> QED BY <2>1, <2>2
<1>5. CASE Len(driverQ') < Len(driverQ)
  BY <1>1, <1>3, <1>4, <1>5, RingAnswers DEF Ring!Next
<1>6. CASE Len(driverQ') = Len(driverQ)
  BY <1>1, <1>3, <1>4, <1>6, RingStays
<1> QED BY <1>3, <1>5, <1>6

LEMMA RingNext == NotifyInv /\ NotifyInv' /\ [Next]_vars => [Ring!Next]_Ring!vars
<1> SUFFICES ASSUME NotifyInv, NotifyInv', [Next]_vars PROVE [Ring!Next]_Ring!vars
  OBVIOUS
<1>1. CASE CreateEvents \/ QueueNotify \/ MarkReady
  BY <1>1, RingStarts
<1>2. CASE WakeOnEvent \/ WakeOnTerminate \/ WakeOnFailure
  BY <1>2, RingWakes
<1>3. CASE FetchResult \/ CallUser \/ Requeue
  BY <1>3, RingFetches, RingCalls, RingRequeues
<1>4. CASE (Interrupt \/ CloseFile \/ ForeignFlush) /\ Active
  BY <1>4, RingDriver
<1>5. CASE ~Active /\ ~Active'
  <2>1. /\ RingWaiting = 0 /\ RingAnswered = <<>> /\ RingInfo = 0
        /\ RingAt = IF result = "ok" THEN "stopped" ELSE "broken"
    BY <1>5, RingGone
  <2>2. /\ RingWaiting' = 0 /\ RingAnswered' = <<>> /\ RingInfo' = 0
        /\ RingAt' = IF result' = "ok" THEN "stopped" ELSE "broken"
    BY <1>5 DEF NotifyInv, AnswersByDistance, RingWaiting, RingInfo, RingAt, Active, Serving, Starting
  <2>3. result # "ok" => result' # "ok"
    BY <1>5 DEF Next, ThreadStep, WaitFails, Finished, vars, threadVars, CreateEvents, QueueNotify, MarkReady,
           WakeOnEvent, WakeOnTerminate, WakeOnFailure, FetchResult, CallUser, Requeue, FlushQueue, DrainSlot,
           DrainOnFailure, DrainDone, MarkFailed, CloseHandles, ReportError, FreeData, ThreadReturn,
           Interrupt, CloseFile, ForeignFlush, Terminate, Blame, Active, Starting, Serving
  <2>4. CASE result = "ok" /\ result' # "ok"
    <3>1. pc # "callback"
      BY <1>5 DEF Active, Serving
    <3> QED BY <2>4, <3>1, RingBreaks DEF Ring!Next
  <2>5. CASE ~(result = "ok" /\ result' # "ok")
    BY <2>1, <2>2, <2>3, <2>5 DEF Ring!vars
  <2> QED BY <2>4, <2>5
<1>6. CASE (Terminate \/ UNCHANGED vars) /\ Active
  <2>1. UNCHANGED <<pc, numQueued, eventCount, driverQ, io, count, result>>
    BY <1>6 DEF Terminate, vars, threadVars, slotVars, driverVars
  <2>2. Active' /\ UNCHANGED <<RingAt, RingInfo, Taken>>
    BY <1>6, <2>1 DEF Active, RingAt, RingInfo, Taken
  <2> QED BY <1>6, <2>1, <2>2, RingStays
<1>7. CASE FlushQueue \/ DrainSlot \/ DrainOnFailure \/ DrainDone \/ MarkFailed \/ CloseHandles
           \/ ReportError \/ FreeData \/ ThreadReturn \/ Finished
  <2>1. ~Active /\ ~Active'
    BY <1>7 DEF FlushQueue, DrainSlot, DrainOnFailure, DrainDone, MarkFailed, CloseHandles,
           ReportError, FreeData, ThreadReturn, Finished, vars, threadVars, Active, Serving, Starting
  <2> QED BY <1>5, <2>1
<1>8. CASE (Interrupt \/ CloseFile \/ ForeignFlush \/ Terminate \/ UNCHANGED vars) /\ ~Active
  <2>1. ~Active'
    BY <1>8 DEF Interrupt, CloseFile, ForeignFlush, Terminate, vars, threadVars, Active
  <2> QED BY <1>5, <1>8, <2>1
<1> QED BY <1>1, <1>2, <1>3, <1>4, <1>6, <1>7, <1>8 DEF Next, ThreadStep, WaitFails

\* The ring of slots does what NotifyQueue says, with every depth and every set of faults:
\* the user is told of each answer of the driver once, in order and unchanged.
THEOREM RingRefined == Spec => ImplementsNotifyQueue
<1>1. Init => Ring!Init
  <2> SUFFICES ASSUME Init PROVE Ring!Init
    OBVIOUS
  <2>1. RingWaiting = 0 /\ RingInfo = 0 /\ RingAt = "starting"
    BY DEF Init, RingWaiting, RingInfo, RingAt, Starting
  <2>2. RingAnswered = <<>>
    <3>1. Active /\ Behind - Taken = 0
      <4>1. Active /\ Taken = 0 /\ driverQ = <<>> /\ numQueued = 0
        BY DEF Init, Active, Starting, Taken
      <4>2. Len(driverQ) = 0
        BY <4>1
      <4>3. Behind = numQueued - Len(driverQ)
        BY DEF Behind
      <4>4. Behind = 0
        BY ONLY <4>1, <4>2, <4>3
      <4> QED BY ONLY <4>1, <4>4
    <3>2. AnswersByDistance
      BY RingInit, AnswersAre
    <3>3. RingAnswered \in Seq(Nat) /\ Len(RingAnswered) = 0
      BY <3>1, <3>2 DEF AnswersByDistance
    <3> QED BY <3>3
  <2> QED BY <2>1, <2>2 DEF Ring!Init, Ring!Nothing
<1>2. Init => CountsPositive
  BY DEF Init, CountsPositive
<1>3. RingInv /\ CountsPositive /\ LifeInv => NotifyInv
  BY AnswersAre DEF NotifyInv
<1>4. RingInv => TypeOK
  BY DEF RingInv
<1> QED BY <1>1, <1>2, <1>3, <1>4, TypeCorrect, RingInit, RingStep, LifeInvInit, LifeInvStep,
           CountsPositiveStep, RingNext, PTL DEF Spec, ImplementsNotifyQueue, Ring!Spec
=============================================================================
