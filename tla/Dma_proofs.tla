----------------------------- MODULE Dma_proofs -----------------------------
(***************************************************************************)
(* Proofs about DMA, for any callers, loops, halts, queues and requests:   *)
(* what success and EBUSY of a call say about the DMA channel              *)
(* (DmaChannel), that no request ends untold and what the callback is told *)
(* of those behind it (DmaTransfer), that it is told of each request once  *)
(* and in order, that the requests run on a NotifyQueue, and that a        *)
(* behaviour of both together (MCDma) is a behaviour of each.              *)
(*                                                                         *)
(* A call compares two registers that it has read at two different times.  *)
(* The invariant that makes the comparison worth something is Compared: if *)
(* the two values agree now, then the registers themselves agreed at some  *)
(* instant of the call.  Undisturbed adds what is known while nobody else  *)
(* writes the action.  That each request is told once needs IdsInOrder:    *)
(* ids told, answered and with the driver ascend, also across lost ones.   *)
(***************************************************************************)
EXTENDS MCDma, SequenceTheorems, TLAPS

----------------------------------------------------------------------------
\* The channel

\* A call begins with nothing noted, has noted every agreement of the
\* registers while it is in progress, and a call about to compare has noted
\* the value it may find to agree.
Compared(c) ==
  /\ ~Busy(c) => settled[c] = {}
  /\ Busy(c) /\ action = last => action \in settled[c]
  /\ pc[c] = "compare" /\ last = data8[c] => data8[c] \in settled[c]

\* While only the call itself has written the action, it is the intended one,
\* and once the device has taken it, the last action is too.  While only the
\* controller interferes, it may also be HALT.
Undisturbed(c) ==
  Busy(c) =>
    /\ pc[c] \in {"readback", "rewrite", "readagain"} => want[c] = "CLEAR"
    /\ others[c] \subseteq {c} =>
         /\ pc[c] \notin {"rewrite", "readagain"}
         /\ action = want[c] /\ data8[c] = want[c]
         /\ want[c] \in settled[c] => last = want[c]
    /\ others[c] \subseteq {c, "controller"} =>
         action \in {want[c], "HALT"} /\ data8[c] \in {want[c], "HALT"}

ChannelInv == TypeOK /\ \A c \in Callers : Compared(c) /\ Undisturbed(c)

----------------------------------------------------------------------------

\* Every call has some place, and the registers hold an action, always.
LEMMA ChannelTypeInit == Init => TypeOK
BY HaltsAssumption, LoopsAssumption DEF Init, TypeOK, Actions

LEMMA ChannelTypeStep == TypeOK /\ [Next]_vars => TypeOK'
<1> SUFFICES ASSUME TypeOK, [Next]_vars PROVE TypeOK'
  OBVIOUS
<1> USE HaltsAssumption, LoopsAssumption DEF TypeOK, Actions
<1>1. ASSUME NEW who \in SUBSET (Callers \cup {"controller"}), Observe(who), action' \in Actions
      PROVE  /\ settled' \in [Callers -> SUBSET Actions]
             /\ others' \in [Callers -> SUBSET (Callers \cup {"controller"})]
  <2>1. settled' \in [Callers -> SUBSET Actions]
    BY <1>1 DEF Observe
  <2>2. others' \in [Callers -> SUBSET (Callers \cup {"controller"})]
    BY <1>1 DEF Observe
  <2> QED BY <2>1, <2>2
<1>2. ASSUME NEW c \in Callers, Begin(c) PROVE TypeOK'
  BY <1>1, <1>2 DEF Begin
<1>3. ASSUME NEW c \in Callers, ReadBack(c) PROVE TypeOK'
  BY <1>1, <1>3 DEF ReadBack, device
<1>4. ASSUME NEW c \in Callers, Rewrite(c) PROVE TypeOK'
  BY <1>1, <1>4 DEF Rewrite
<1>5. ASSUME NEW c \in Callers, ReadAgain(c) PROVE TypeOK'
  BY <1>1, <1>5 DEF ReadAgain, Return, device
<1>6. ASSUME NEW c \in Callers, Compare(c) PROVE TypeOK'
  BY <1>1, <1>6 DEF Compare, Return, MayLoop, Count, device
<1>7. ASSUME NEW c \in Callers, Reread(c) PROVE TypeOK'
  BY <1>1, <1>7 DEF Reread, device
<1>8. ASSUME NEW c \in Callers, AccessFails(c) PROVE TypeOK'
  BY <1>1, <1>8 DEF AccessFails, Return, device
<1>9. CASE TakeAction
  BY <1>1, <1>9 DEF TakeAction, locals
<1>10. CASE HaltItself
  BY <1>1, <1>10 DEF HaltItself, locals
<1>11. CASE UNCHANGED vars
  BY <1>11 DEF vars, device, locals
<1> QED
  BY <1>2, <1>3, <1>4, <1>5, <1>6, <1>7, <1>8, <1>9, <1>10, <1>11 DEF Next, CallStep

----------------------------------------------------------------------------

\* A call that only watches a step in which nothing but the registers change
\* keeps what it knows.
LEMMA WatcherKeeps ==
  ASSUME TypeOK, NEW d \in Callers, Compared(d), Undisturbed(d),
         NEW who \in SUBSET (Callers \cup {"controller"}), Observe(who),
         pc'[d] = pc[d], want'[d] = want[d], data8'[d] = data8[d],
         \/ last' = last /\ action' = action
         \/ last' = action /\ action' = action
         \/ last' = last /\ action' \in Actions /\ who # {} /\ d \notin who
            /\ (who = {"controller"} => action' = "HALT")
            /\ (who # {"controller"} => "controller" \notin who)
  PROVE  Compared(d)' /\ Undisturbed(d)'
<1> USE CallersAssumption DEF TypeOK, Actions, Busy
<1>1. CASE pc[d] = "idle"
  BY <1>1 DEF Compared, Undisturbed, Observe
<1>2. CASE pc[d] # "idle"
  <2>1. /\ settled'[d] = IF action' = last' THEN settled[d] \cup {action'} ELSE settled[d]
        /\ others'[d] = others[d] \cup who
    BY <1>2 DEF Observe
  <2>2. Compared(d)'
    BY <2>1, <1>2 DEF Compared
  <2>3. Undisturbed(d)'
    <3>1. CASE who = {"controller"} /\ action' = "HALT"
      BY <2>1, <1>2, <3>1 DEF Undisturbed
    <3>2. CASE last' \in {last, action} /\ action' = action
      BY <2>1, <1>2, <3>2 DEF Undisturbed
    <3>3. CASE who # {} /\ d \notin who /\ "controller" \notin who
      BY <2>1, <1>2, <3>3 DEF Undisturbed
    <3> QED BY <3>1, <3>2, <3>3
  <2> QED BY <2>2, <2>3
<1> QED BY <1>1, <1>2

\* What a caller knows after a step of its own.
LEMMA MoverKeeps ==
  ASSUME TypeOK, NEW c \in Callers, Compared(c), Undisturbed(c), Begin(c) \/ CallStep(c)
  PROVE  Compared(c)' /\ Undisturbed(c)'
<1> USE CallersAssumption DEF TypeOK, Actions, Busy
<1>1. CASE Begin(c)
  <2>1. /\ pc[c] = "idle" /\ action' = want'[c] /\ data8'[c] = want'[c] /\ last' = last
        /\ pc'[c] = IF want'[c] = "CLEAR" THEN "readback" ELSE "compare"
    BY <1>1 DEF Begin
  <2>2. /\ settled'[c] = IF action' = last' THEN {action'} ELSE {}
        /\ others'[c] = {}
    <3>1. Observe({c}) /\ settled[c] = {} /\ pc'[c] # "idle"
      BY <1>1, <2>1 DEF Begin, Compared
    <3> QED BY <2>1, <3>1 DEF Observe
  <2> QED BY <2>1, <2>2 DEF Compared, Undisturbed
<1>2. CASE ReadBack(c)
  BY <1>2 DEF ReadBack, Observe, Compared, Undisturbed, device
<1>3. CASE Rewrite(c)
  BY <1>3 DEF Rewrite, Observe, Compared, Undisturbed
<1>4. CASE ReadAgain(c)
  BY <1>4 DEF ReadAgain, Return, Observe, Compared, Undisturbed, device
<1>5. CASE Compare(c)
  BY <1>5 DEF Compare, Return, Observe, Compared, Undisturbed, device
<1>6. CASE Reread(c)
  BY <1>6 DEF Reread, Observe, Compared, Undisturbed, device
<1>7. CASE AccessFails(c)
  BY <1>7 DEF AccessFails, Return, Observe, Compared, Undisturbed
<1> QED BY <1>1, <1>2, <1>3, <1>4, <1>5, <1>6, <1>7 DEF CallStep

----------------------------------------------------------------------------

LEMMA ChannelInvInit == Init => ChannelInv
<1>1. Init => TypeOK
  BY ChannelTypeInit
<1>2. Init => \A c \in Callers : Compared(c) /\ Undisturbed(c)
  BY DEF Init, Compared, Undisturbed, Busy
<1> QED BY <1>1, <1>2 DEF ChannelInv

LEMMA ChannelInvStep == ChannelInv /\ [Next]_vars => ChannelInv'
<1> SUFFICES ASSUME ChannelInv, [Next]_vars PROVE ChannelInv'
  OBVIOUS
<1>1. TypeOK /\ TypeOK' /\ \A c \in Callers : Compared(c) /\ Undisturbed(c)
  BY ChannelTypeStep DEF ChannelInv
<1>2. ASSUME NEW c \in Callers, Begin(c) \/ CallStep(c), NEW d \in Callers
      PROVE  Compared(d)' /\ Undisturbed(d)'
  <2>1. CASE d = c
    BY <1>1, <1>2, <2>1, MoverKeeps
  <2>2. CASE d # c
    <3>1. /\ pc'[d] = pc[d] /\ want'[d] = want[d] /\ data8'[d] = data8[d]
          /\ last' = last /\ action' \in Actions
      <4>1. CASE Begin(c)
        BY <1>1, <2>2, <4>1 DEF Begin, TypeOK
      <4>2. CASE CallStep(c)
        BY <1>1, <2>2, <4>2
        DEF CallStep, ReadBack, Rewrite, ReadAgain, Compare, Reread, AccessFails, Return,
            device, TypeOK
      <4> QED BY <1>2, <4>1, <4>2
    <3>2. Observe({c}) \/ (action' = action /\ Observe({}))
      <4>1. CASE Begin(c) \/ Rewrite(c)
        BY <4>1 DEF Begin, Rewrite
      <4>2. CASE ReadBack(c) \/ ReadAgain(c) \/ Compare(c) \/ Reread(c) \/ AccessFails(c)
        BY <4>2 DEF ReadBack, ReadAgain, Compare, Reread, AccessFails, device
      <4> QED BY <1>2, <4>1, <4>2 DEF CallStep
    <3>3. "controller" \notin {c} /\ d \notin {c}
      BY <2>2, CallersAssumption
    <3>4. CASE Observe({c})
      BY <1>1, <3>1, <3>3, <3>4, WatcherKeeps
    <3>5. CASE action' = action /\ Observe({})
      BY <1>1, <3>1, <3>5, WatcherKeeps
    <3> QED BY <3>2, <3>4, <3>5
  <2> QED BY <2>1, <2>2
<1>3. ASSUME TakeAction, NEW d \in Callers PROVE Compared(d)' /\ Undisturbed(d)'
  BY <1>1, <1>3, WatcherKeeps DEF TakeAction, locals
<1>4. ASSUME HaltItself, NEW d \in Callers PROVE Compared(d)' /\ Undisturbed(d)'
  <2>1. d \notin {"controller"}
    BY CallersAssumption
  <2> QED BY <1>1, <1>4, <2>1, WatcherKeeps DEF HaltItself, locals, Actions
<1>5. ASSUME UNCHANGED vars, NEW d \in Callers PROVE Compared(d)' /\ Undisturbed(d)'
  BY <1>1, <1>5 DEF vars, device, locals, Compared, Undisturbed, Busy
<1>6. \A d \in Callers : Compared(d)' /\ Undisturbed(d)'
  BY <1>2, <1>3, <1>4, <1>5 DEF Next
<1> QED BY <1>1, <1>6 DEF ChannelInv

----------------------------------------------------------------------------

\* The step in which a call returns 0 or EBUSY is that of its last comparison,
\* or, for EBUSY, Clear's second look at the action register.
LEMMA ReturnSteps ==
  ASSUME TypeOK, [Next]_vars, NEW c \in Callers
  PROVE  /\ Returns(c, "ok") => pc[c] = "compare" /\ Agrees(c)
         /\ Returns(c, "EBUSY") =>
              \/ pc[c] = "compare" /\ ~Agrees(c)
              \/ pc[c] = "readagain"
<1> USE DEF TypeOK, Returns, Busy
<1>1. ASSUME NEW d \in Callers, Begin(d) \/ CallStep(d), d # c PROVE pc'[c] = pc[c]
  BY <1>1 DEF Begin, CallStep, ReadBack, Rewrite, ReadAgain, Compare, Reread, AccessFails, Return
<1>2. CASE Begin(c)
  BY <1>2 DEF Begin
<1>3. CASE CallStep(c)
  BY <1>3 DEF CallStep, ReadBack, Rewrite, ReadAgain, Compare, Reread, AccessFails, Return
<1>4. CASE TakeAction \/ HaltItself \/ UNCHANGED vars
  BY <1>4 DEF TakeAction, HaltItself, vars
<1> QED BY <1>1, <1>2, <1>3, <1>4 DEF Next

\* The locals, the registers and the histories of every call are well typed.
THEOREM ChannelTypeCorrect == Spec => []TypeOK
<1>1. ChannelInv => TypeOK
  BY DEF ChannelInv
<1> QED BY ChannelInvInit, ChannelInvStep, <1>1, PTL DEF Spec

\* Success of Start, Stop, Pause or Clear says that the action the call compared
\* last was in both registers at one instant of the call.
THEOREM SuccessIsTaken == Spec => OkMeansTaken
<1>1. ChannelInv /\ [Next]_vars =>
        [\A c \in Callers : Returns(c, "ok") => data8[c] \in settled[c]]_vars
  BY ReturnSteps DEF ChannelInv, Compared, Agrees
<1> QED BY ChannelInvInit, ChannelInvStep, <1>1, PTL DEF Spec, OkMeansTaken

\* Success of a call that no other caller disturbs says that the device took
\* what the call asked for, or halted.
THEOREM SuccessIsAskedOrHalted == Spec => OkMeansAskedOrHalted
<1> DEFINE Asked(c) ==
      Returns(c, "ok") /\ others[c] \subseteq {c, "controller"}
        => settled[c] \cap {want[c], "HALT"} # {}
<1>1. ASSUME ChannelInv, [Next]_vars, NEW c \in Callers PROVE Asked(c)
  BY <1>1, ReturnSteps DEF ChannelInv, Compared, Undisturbed, Agrees, Busy
<1>2. ChannelInv /\ [Next]_vars => [\A c \in Callers : Asked(c)]_vars
  BY <1>1
<1> QED BY ChannelInvInit, ChannelInvStep, <1>2, PTL DEF Spec, OkMeansAskedOrHalted

\* EBUSY to a call that nobody disturbs says that the device has not taken the
\* action during the call.
THEOREM BusyIsNotTaken == Spec => BusyMeansNotTaken
<1> DEFINE NotTaken(c) ==
      Returns(c, "EBUSY") /\ others[c] \subseteq {c} => want[c] \notin settled[c]
<1>1. ASSUME ChannelInv, [Next]_vars, NEW c \in Callers PROVE NotTaken(c)
  BY <1>1, ReturnSteps DEF ChannelInv, Undisturbed, Agrees, Busy
<1>2. ChannelInv /\ [Next]_vars => [\A c \in Callers : NotTaken(c)]_vars
  BY <1>1
<1> QED BY ChannelInvInit, ChannelInvStep, <1>2, PTL DEF Spec, BusyMeansNotTaken

----------------------------------------------------------------------------
\* The requests

\* Every NOTIFY of the thread is with the driver, answered, or being served.
NotifiesAddUp == notifies + Len(answered) + (IF at = "wait" THEN 0 ELSE 1) = Depth

\* The application counts every request the driver or the thread still has.
GoingCovers == Len(queue) + Len(answered) <= going

\* The driver's queue holds the latest requests, in the order they were made.
QueueOrder == \A i \in 1 .. Len(queue) : queue[i] = made - Len(queue) + i

Exact(id, outcome, pending, madeThen) == outcome # "FLUSHED" => pending = madeThen - id

\* What the driver has answered is exact.
AnswersExact ==
  \A i \in 1 .. Len(answered) :
    Exact(answered[i].id, answered[i].result, Pending(answered[i]), answered[i].madeThen)

AnswerType == [id : 1 .. MaxIds, result : Results, working : {0, 1}, pending : Nat,
               madeThen : 0 .. MaxIds]

TransferInv ==
  /\ TransferTypeOK /\ NotifiesAddUp /\ GoingCovers /\ QueueOrder /\ AnswersExact /\ PendingIsExact

USE DepthAssumption, RequestsAssumption, WindowAssumption, IdsAssumption

----------------------------------------------------------------------------

\* The answers to finished requests are answers, as many as requests.
LEMMA AnswersType ==
  ASSUME TransferTypeOK, NEW ids \in Seq(1 .. MaxIds), NEW value \in Results, NEW behind \in Nat
  PROVE  /\ Answers(ids, value, behind) \in Seq(AnswerType)
         /\ Len(Answers(ids, value, behind)) = Len(ids)
         /\ \A i \in 1 .. Len(ids) :
              Answers(ids, value, behind)[i] =
                [id |-> ids[i], result |-> value, working |-> IF behind > 0 THEN 1 ELSE 0,
                 pending |-> IF behind > 0 THEN behind - 1 ELSE 0, madeThen |-> made]
<1> DEFINE A(i) == [id |-> ids[i], result |-> value, working |-> IF behind > 0 THEN 1 ELSE 0,
                    pending |-> IF behind > 0 THEN behind - 1 ELSE 0, madeThen |-> made]
<1>1. Len(ids) \in Nat
  OBVIOUS
<1>2. \A i \in 1 .. Len(ids) : A(i) \in AnswerType
  BY DEF AnswerType, TransferTypeOK
<1> HIDE DEF A
<1>3. [i \in 1 .. Len(ids) |-> A(i)] \in Seq(AnswerType)
  BY <1>1, <1>2
<1>4. Len([i \in 1 .. Len(ids) |-> A(i)]) = Len(ids)
  BY <1>1, <1>2
<1> QED BY <1>3, <1>4 DEF A, Answers

\* What Finish does, element by element.
LEMMA FinishSteps ==
  ASSUME TransferTypeOK, NEW ids \in Seq(1 .. MaxIds), NEW value \in Results, NEW behind \in Nat,
         Finish(ids, value, behind)
  PROVE  \E n \in 0 .. Len(ids) :
           /\ n = IF Len(ids) < notifies THEN Len(ids) ELSE notifies
           /\ notifies' = notifies - n
           /\ answered' \in Seq(AnswerType)
           /\ Len(answered') = Len(answered) + n
           /\ \A i \in 1 .. Len(answered) : answered'[i] = answered[i]
           /\ \A i \in 1 .. n : answered'[Len(answered) + i] =
                [id |-> ids[i], result |-> value, working |-> IF behind > 0 THEN 1 ELSE 0,
                 pending |-> IF behind > 0 THEN behind - 1 ELSE 0, madeThen |-> made]
           /\ lost' = lost \cup {ids[i] : i \in n + 1 .. Len(ids)}
<1> DEFINE n == IF Len(ids) < notifies THEN Len(ids) ELSE notifies
           A == Answers(ids, value, behind)
           S == SubSeq(A, 1, n)
<1>1. n \in 0 .. Len(ids)
  BY DEF TransferTypeOK
<1>2. answered' = answered \o S /\ notifies' = notifies - n
      /\ lost' = lost \cup {ids[i] : i \in n + 1 .. Len(ids)}
  BY DEF Finish
<1>3. answered \in Seq(AnswerType)
  BY DEF TransferTypeOK, AnswerType
<1>4. A \in Seq(AnswerType) /\ Len(A) = Len(ids)
  BY AnswersType
<1>5. \A i \in 1 .. n : A[i] =
        [id |-> ids[i], result |-> value, working |-> IF behind > 0 THEN 1 ELSE 0,
         pending |-> IF behind > 0 THEN behind - 1 ELSE 0, madeThen |-> made]
  <2>1. \A i \in 1 .. n : i \in 1 .. Len(ids)
    BY <1>1
  <2> HIDE DEF n
  <2> QED BY <2>1, AnswersType
<1> HIDE DEF A, n
<1>6. S \in Seq(AnswerType) /\ Len(S) = n /\ \A i \in 1 .. n : S[i] = A[i]
  BY <1>1, <1>4
<1> HIDE DEF S
<1>7. /\ answered' \in Seq(AnswerType)
      /\ Len(answered') = Len(answered) + n
      /\ \A i \in 1 .. Len(answered) : answered'[i] = answered[i]
      /\ \A i \in 1 .. n : answered'[Len(answered) + i] = S[i]
  <2>1. /\ answered \o S \in Seq(AnswerType)
        /\ Len(answered \o S) = Len(answered) + n
        /\ \A i \in 1 .. Len(answered) + n :
             (answered \o S)[i] = IF i <= Len(answered) THEN answered[i] ELSE S[i - Len(answered)]
    BY <1>3, <1>6, ConcatProperties
  <2>2. Len(answered) \in Nat /\ n \in Nat
    BY <1>1, <1>3
  <2> QED BY <1>2, <2>1, <2>2
<1>8. \A i \in 1 .. n : answered'[Len(answered) + i] =
        [id |-> ids[i], result |-> value, working |-> IF behind > 0 THEN 1 ELSE 0,
         pending |-> IF behind > 0 THEN behind - 1 ELSE 0, madeThen |-> made]
  BY <1>5, <1>6, <1>7
<1>9. n = IF Len(ids) < notifies THEN Len(ids) ELSE notifies
  BY DEF n
<1> HIDE DEF n
<1> WITNESS n \in 0 .. Len(ids)
<1> QED BY <1>2, <1>7, <1>8, <1>9

\* What Finish keeps of the invariant, if each finished request is flushed or
\* is alone and has `behind' later ones.
LEMMA FinishKeeps ==
  ASSUME TransferInv, NEW ids \in Seq(1 .. MaxIds), NEW value \in Results, NEW behind \in Nat,
         Finish(ids, value, behind), UNCHANGED <<made, at>>,
         value = "FLUSHED" \/ (Len(ids) = 1 /\ ids[1] = made - behind)
  PROVE  /\ notifies' \in 0 .. Depth /\ answered' \in Seq(AnswerType)
         /\ lost' \subseteq 1 .. MaxIds
         /\ NotifiesAddUp' /\ AnswersExact'
         /\ Len(answered') <= Len(answered) + Len(ids)
<1>1. PICK n \in 0 .. Len(ids) :
        /\ n = IF Len(ids) < notifies THEN Len(ids) ELSE notifies
        /\ notifies' = notifies - n
        /\ answered' \in Seq(AnswerType)
        /\ Len(answered') = Len(answered) + n
        /\ \A i \in 1 .. Len(answered) : answered'[i] = answered[i]
        /\ \A i \in 1 .. n : answered'[Len(answered) + i] =
             [id |-> ids[i], result |-> value, working |-> IF behind > 0 THEN 1 ELSE 0,
              pending |-> IF behind > 0 THEN behind - 1 ELSE 0, madeThen |-> made]
        /\ lost' = lost \cup {ids[i] : i \in n + 1 .. Len(ids)}
  BY FinishSteps DEF TransferInv
<1>2. Len(answered) \in Nat /\ notifies \in 0 .. Depth /\ made \in Nat
      /\ lost \subseteq 1 .. MaxIds
  BY DEF TransferInv, TransferTypeOK
<1>3. lost' \subseteq 1 .. MaxIds
  <2>1. \A i \in n + 1 .. Len(ids) : ids[i] \in 1 .. MaxIds
    OBVIOUS
  <2>2. lost' = lost \cup {ids[i] : i \in n + 1 .. Len(ids)}
    BY <1>1
  <2> QED BY <1>2, <2>1, <2>2
<1>4. NotifiesAddUp'
  <2>1. notifies' = notifies - n /\ Len(answered') = Len(answered) + n /\ n \in Nat /\ at' = at
    BY <1>1
  <2> QED BY <1>2, <2>1 DEF TransferInv, NotifiesAddUp
<1>5. ASSUME NEW i \in 1 .. Len(answered')
      PROVE  Exact(answered'[i].id, answered'[i].result, Pending(answered'[i]),
                   answered'[i].madeThen)
  <2>1. CASE i <= Len(answered)
    BY <1>1, <1>2, <2>1 DEF TransferInv, AnswersExact
  <2>2. CASE i > Len(answered)
    <3> DEFINE k == i - Len(answered)
    <3>1. k \in 1 .. n /\ i = Len(answered) + k
      BY <1>1, <1>2, <2>2
    <3> HIDE DEF k
    <3>2. /\ answered'[i].id = ids[k] /\ answered'[i].result = value
          /\ answered'[i].madeThen = made /\ answered'[i].working = IF behind > 0 THEN 1 ELSE 0
          /\ answered'[i].pending = IF behind > 0 THEN behind - 1 ELSE 0
      <4>1. answered'[i] =
              [id |-> ids[k], result |-> value, working |-> IF behind > 0 THEN 1 ELSE 0,
               pending |-> IF behind > 0 THEN behind - 1 ELSE 0, madeThen |-> made]
        BY <1>1, <3>1
      <4> QED BY <4>1
    <3>3. Pending(answered'[i]) = behind
      BY <3>2 DEF Pending
    <3>4. value # "FLUSHED" => ids[k] = made - behind
      BY <1>1, <3>1
    <3> QED BY <1>2, <3>2, <3>3, <3>4 DEF Exact
  <2> QED BY <1>1, <1>2, <2>1, <2>2
<1>6. AnswersExact'
  BY <1>5 DEF AnswersExact
<1> QED BY <1>1, <1>2, <1>3, <1>4, <1>6

----------------------------------------------------------------------------

LEMMA TransferInvInit == TransferInit => TransferInv
<1> SUFFICES ASSUME TransferInit PROVE TransferInv
  OBVIOUS
<1>1. TransferTypeOK
  BY ModeAssumption DEF TransferInit, TransferTypeOK, Idle, Results
<1> QED
  BY <1>1 DEF TransferInit, TransferInv, NotifiesAddUp, GoingCovers, QueueOrder, AnswersExact, PendingIsExact

LEMMA RequestKeeps == TransferInv /\ Request => TransferInv'
<1> SUFFICES ASSUME TransferInv, Request PROVE TransferInv'
  OBVIOUS
<1>1. /\ queue \in Seq(1 .. MaxIds) /\ made + 1 \in 1 .. MaxIds /\ Len(queue) \in Nat
      /\ queue' = Append(queue, made + 1) /\ made' = made + 1
  BY DEF TransferInv, TransferTypeOK, Request
<1>2. /\ queue' \in Seq(1 .. MaxIds) /\ Len(queue') = Len(queue) + 1
      /\ \A i \in 1 .. Len(queue) : queue'[i] = queue[i]
      /\ queue'[Len(queue) + 1] = made + 1
  BY <1>1, AppendProperties
<1>3. TransferTypeOK'
  BY <1>1, <1>2 DEF TransferInv, TransferTypeOK, Request
<1>4. QueueOrder'
  BY <1>1, <1>2 DEF TransferInv, QueueOrder, TransferTypeOK
<1>5. GoingCovers'
  BY <1>1, <1>2 DEF TransferInv, GoingCovers, TransferTypeOK, Request
<1>6. NotifiesAddUp' /\ AnswersExact' /\ PendingIsExact'
  BY DEF TransferInv, Request, NotifiesAddUp, AnswersExact, PendingIsExact
<1> QED BY <1>3, <1>4, <1>5, <1>6 DEF TransferInv

\* The request at the head of the queue has as many later ones as are left.
LEMMA EndKeeps == ASSUME TransferInv, NEW value \in Results, End(value) PROVE TransferInv'
<1>1. /\ queue \in Seq(1 .. MaxIds) /\ queue # <<>> /\ queue' = Tail(queue)
      /\ Finish(<<Head(queue)>>, value, Len(queue) - 1)
      /\ UNCHANGED <<made, at, info, going, told, waiter>>
  BY DEF TransferInv, TransferTypeOK, End
<1>2. /\ Head(queue) \in 1 .. MaxIds /\ Tail(queue) \in Seq(1 .. MaxIds)
      /\ Len(Tail(queue)) = Len(queue) - 1
      /\ \A i \in 1 .. Len(Tail(queue)) : Tail(queue)[i] = queue[i + 1]
  BY <1>1, HeadTailProperties
<1>3. Len(queue) - 1 \in Nat /\ Head(queue) = made - (Len(queue) - 1)
  BY <1>1 DEF TransferInv, QueueOrder, TransferTypeOK
<1>4. /\ <<Head(queue)>> \in Seq(1 .. MaxIds) /\ Len(<<Head(queue)>>) = 1
      /\ <<Head(queue)>>[1] = made - (Len(queue) - 1)
  BY <1>2, <1>3
<1>5. /\ notifies' \in 0 .. Depth /\ answered' \in Seq(AnswerType)
      /\ lost' \subseteq 1 .. MaxIds /\ NotifiesAddUp' /\ AnswersExact'
      /\ Len(answered') <= Len(answered) + 1
  BY <1>1, <1>3, <1>4, FinishKeeps
<1>6. TransferTypeOK'
  BY <1>1, <1>2, <1>5 DEF TransferInv, TransferTypeOK, AnswerType
<1>7. GoingCovers'
  BY <1>1, <1>2, <1>3, <1>5 DEF TransferInv, GoingCovers, TransferTypeOK
<1>8. QueueOrder'
  BY <1>1, <1>2, <1>3 DEF TransferInv, QueueOrder, TransferTypeOK
<1>9. PendingIsExact'
  BY <1>1 DEF TransferInv, PendingIsExact
<1> QED BY <1>5, <1>6, <1>7, <1>8, <1>9 DEF TransferInv

LEMMA FlushKeeps == TransferInv /\ Flush => TransferInv'
<1> SUFFICES ASSUME TransferInv, Flush PROVE TransferInv'
  OBVIOUS
<1>1. /\ queue \in Seq(1 .. MaxIds) /\ queue' = <<>> /\ Finish(queue, "FLUSHED", 0)
      /\ UNCHANGED <<made, at, info, going, told, waiter>>
  BY DEF TransferInv, TransferTypeOK, Flush
<1>2. "FLUSHED" \in Results
  BY DEF Results
<1>3. /\ notifies' \in 0 .. Depth /\ answered' \in Seq(AnswerType)
      /\ lost' \subseteq 1 .. MaxIds /\ NotifiesAddUp' /\ AnswersExact'
      /\ Len(answered') <= Len(answered) + Len(queue)
  BY <1>1, <1>2, FinishKeeps
<1>4. TransferTypeOK'
  BY <1>1, <1>3 DEF TransferInv, TransferTypeOK, AnswerType
<1>5. GoingCovers' /\ QueueOrder'
  BY <1>1, <1>3 DEF TransferInv, GoingCovers, QueueOrder, TransferTypeOK
<1>6. PendingIsExact'
  BY <1>1 DEF TransferInv, PendingIsExact
<1> QED BY <1>3, <1>4, <1>5, <1>6 DEF TransferInv

LEMMA CallUserKeeps == TransferInv /\ CallUser => TransferInv'
<1> SUFFICES ASSUME TransferInv, CallUser PROVE TransferInv'
  OBVIOUS
<1> DEFINE a == Head(answered)
<1>1. /\ answered \in Seq(AnswerType) /\ answered # <<>> /\ answered' = Tail(answered)
      /\ at = "wait" /\ at' = "callback" /\ going' = going - 1 /\ told' = told \cup {a.id}
      /\ info' = [id |-> a.id, result |-> a.result, pending |-> Pending(a),
                   madeThen |-> a.madeThen]
      /\ UNCHANGED <<made, queue, notifies, lost, waiter>>
  BY DEF TransferInv, TransferTypeOK, CallUser, Untold, AnswerType
<1>2. /\ a \in AnswerType /\ Tail(answered) \in Seq(AnswerType)
      /\ Len(Tail(answered)) = Len(answered) - 1
      /\ \A i \in 1 .. Len(Tail(answered)) : Tail(answered)[i] = answered[i + 1]
  BY <1>1, HeadTailProperties
<1>3. Len(answered) \in Nat /\ Len(answered) >= 1 /\ a = answered[1]
  BY <1>1
<1>4. Exact(a.id, a.result, Pending(a), a.madeThen)
  BY <1>3 DEF TransferInv, AnswersExact
<1> HIDE DEF a
<1>5. a.id \in 1 .. MaxIds /\ a.result \in Results /\ Pending(a) \in Nat
      /\ a.madeThen \in 0 .. MaxIds
  BY <1>2 DEF AnswerType, Pending
<1>6. going' \in 0 .. Window /\ GoingCovers'
  BY <1>1, <1>2, <1>3 DEF TransferInv, GoingCovers, TransferTypeOK
<1>7. TransferTypeOK'
  <2>1. told' \subseteq 1 .. MaxIds
    BY <1>1, <1>5 DEF TransferInv, TransferTypeOK
  <2>2. info' \in [id : 0 .. MaxIds, result : Results, pending : Nat, madeThen : 0 .. MaxIds]
    BY <1>1, <1>5
  <2>3. answered' \in Seq(AnswerType)
    BY <1>1, <1>2
  <2> QED BY <1>1, <1>6, <2>1, <2>2, <2>3 DEF TransferInv, TransferTypeOK, AnswerType
<1>8. NotifiesAddUp'
  BY <1>1, <1>2, <1>3 DEF TransferInv, NotifiesAddUp, TransferTypeOK
<1>9. QueueOrder'
  BY <1>1 DEF TransferInv, QueueOrder
<1>10. AnswersExact'
  BY <1>1, <1>2, <1>3 DEF TransferInv, AnswersExact
<1>11. PendingIsExact'
  BY <1>1, <1>4 DEF Exact, PendingIsExact
<1> QED BY <1>6, <1>7, <1>8, <1>9, <1>10, <1>11 DEF TransferInv

LEMMA CallbackReturnsKeeps == TransferInv /\ CallbackReturns => TransferInv'
<1> SUFFICES ASSUME TransferInv, CallbackReturns PROVE TransferInv'
  OBVIOUS
<1>1. TransferTypeOK'
  BY DEF TransferInv, TransferTypeOK, CallbackReturns, Idle, Results
<1> QED
  BY <1>1 DEF TransferInv, CallbackReturns, NotifiesAddUp, GoingCovers, QueueOrder, AnswersExact,
              PendingIsExact

LEMMA RequeueKeeps == TransferInv /\ Requeue => TransferInv'
<1> SUFFICES ASSUME TransferInv, Requeue PROVE TransferInv'
  OBVIOUS
<1>1. notifies' = notifies + 1 /\ at = "requeue" /\ at' = "wait"
      /\ UNCHANGED <<made, queue, answered, info, going, told, lost, waiter>>
  BY DEF Requeue, Requeued
<1>2. Len(answered) \in Nat /\ notifies \in 0 .. Depth
  BY DEF TransferInv, TransferTypeOK
<1>3. NotifiesAddUp' /\ notifies' \in 0 .. Depth
  BY <1>1, <1>2 DEF TransferInv, NotifiesAddUp
<1>4. TransferTypeOK'
  BY <1>1, <1>3 DEF TransferInv, TransferTypeOK
<1> QED
  BY <1>1, <1>3, <1>4 DEF TransferInv, GoingCovers, QueueOrder, AnswersExact, PendingIsExact

LEMMA TransferInvStep == TransferInv /\ [TransferNext]_transferVars => TransferInv'
<1> SUFFICES ASSUME TransferInv, [TransferNext]_transferVars PROVE TransferInv'
  OBVIOUS
<1>1. CASE Request
  BY <1>1, RequestKeeps
<1>2. CASE RequestAndWait \/ CallIoctlOverlapped
  BY <1>2
  DEF RequestAndWait, CallIoctlOverlapped, TransferInv, TransferTypeOK, NotifiesAddUp, GoingCovers, QueueOrder,
      AnswersExact, PendingIsExact
<1>3. CASE Complete \/ Abort
  BY <1>3, EndKeeps DEF Complete, Abort, Results
<1>4. CASE Flush
  BY <1>4, FlushKeeps
<1>5. CASE Thread
  BY <1>5, CallUserKeeps, CallbackReturnsKeeps, RequeueKeeps DEF Thread
<1>6. CASE UNCHANGED transferVars
  BY <1>6
  DEF transferVars, TransferInv, TransferTypeOK, NotifiesAddUp, GoingCovers, QueueOrder, AnswersExact, PendingIsExact
<1> QED BY <1>1, <1>2, <1>3, <1>4, <1>5, <1>6 DEF TransferNext

----------------------------------------------------------------------------

\* The driver's queues, the thread's ring and the application's count are well
\* typed and within their bounds.
THEOREM TransferTypeCorrect == TransferSpec => []TransferTypeOK
<1>1. TransferInv => TransferTypeOK
  BY DEF TransferInv
<1> QED BY TransferInvInit, TransferInvStep, <1>1, PTL DEF TransferSpec

\* info.pending is exactly the number of requests behind the one told of,
\* however long the queue.
THEOREM PendingCorrect == TransferSpec => []PendingIsExact
<1>1. TransferInv => PendingIsExact
  BY DEF TransferInv
<1> QED BY TransferInvInit, TransferInvStep, <1>1, PTL DEF TransferSpec

\* An application that keeps fewer requests going than the thread has NOTIFYs
\* is told of every request: none finishes while the driver has no NOTIFY.
THEOREM NothingLost == ASSUME Window < Depth PROVE TransferSpec => []NoRequestLost
<1>1. TransferInit => NoRequestLost
  BY DEF TransferInit, NoRequestLost
<1>2. ASSUME TransferInv, NoRequestLost, [TransferNext]_transferVars PROVE NoRequestLost'
  <2>1. Len(queue) <= notifies
    BY <1>2 DEF TransferInv, TransferTypeOK, NotifiesAddUp, GoingCovers
  <2>2. ASSUME NEW ids \in Seq(1 .. MaxIds), NEW value \in Results, NEW behind \in Nat,
               Finish(ids, value, behind), Len(ids) <= notifies
        PROVE  lost' = lost
    <3>1. PICK n \in 0 .. Len(ids) :
            /\ n = IF Len(ids) < notifies THEN Len(ids) ELSE notifies
            /\ lost' = lost \cup {ids[i] : i \in n + 1 .. Len(ids)}
      BY <1>2, <2>2, FinishSteps DEF TransferInv
    <3>2. n = Len(ids)
      BY <1>2, <2>2, <3>1 DEF TransferInv, TransferTypeOK
    <3> QED BY <3>1, <3>2
  <2>3. ASSUME NEW value \in Results, End(value) PROVE lost' = lost
    <3>1. /\ queue \in Seq(1 .. MaxIds) /\ queue # <<>>
          /\ Finish(<<Head(queue)>>, value, Len(queue) - 1)
      BY <1>2, <2>3 DEF TransferInv, TransferTypeOK, End
    <3>2. /\ <<Head(queue)>> \in Seq(1 .. MaxIds) /\ Len(<<Head(queue)>>) = 1
          /\ Len(queue) - 1 \in Nat /\ Len(queue) >= 1
      BY <3>1
    <3>3. Len(<<Head(queue)>>) <= notifies
      BY <1>2, <2>1, <3>2 DEF TransferInv, TransferTypeOK
    <3> QED BY <2>2, <2>3, <3>1, <3>2, <3>3
  <2>4. CASE Flush
    <3>1. queue \in Seq(1 .. MaxIds) /\ Finish(queue, "FLUSHED", 0)
      BY <1>2, <2>4 DEF TransferInv, TransferTypeOK, Flush
    <3>2. lost' = lost
      BY <2>1, <2>2, <3>1 DEF Results
    <3> QED BY <1>2, <3>2 DEF NoRequestLost
  <2>5. CASE Complete \/ Abort
    BY <1>2, <2>3, <2>5 DEF Complete, Abort, Results, NoRequestLost
  <2>6. CASE Request \/ RequestAndWait \/ CallIoctlOverlapped \/ Thread \/ UNCHANGED transferVars
    BY <1>2, <2>6
    DEF Request, RequestAndWait, CallIoctlOverlapped, Thread, CallUser, CallbackReturns, Requeue,
        transferVars, NoRequestLost
  <2> QED BY <1>2, <2>4, <2>5, <2>6 DEF TransferNext
<1> QED BY TransferInvInit, TransferInvStep, <1>1, <1>2, PTL DEF TransferSpec

----------------------------------------------------------------------------
\* The order in which requests are told

\* Requests told, answered and still with the driver, in the order of their numbers.
IdsInOrder ==
  /\ \A id \in told : id <= made - Len(queue)
  /\ \A i \in 1 .. Len(answered) :
       /\ answered[i].id <= made - Len(queue)
       /\ \A id \in told : id < answered[i].id
       /\ \A j \in 1 .. i - 1 : answered[j].id < answered[i].id

\* Requests finish from the head of the driver's queue on.
LEMMA FinishInOrder ==
  ASSUME TransferInv, IdsInOrder, NEW ids \in Seq(1 .. MaxIds), NEW value \in Results, NEW behind \in Nat,
         Finish(ids, value, behind), UNCHANGED <<made, told>>, Len(queue) \in Nat,
         Len(queue') = Len(queue) - Len(ids), \A i \in 1 .. Len(ids) : ids[i] = made - Len(queue) + i
  PROVE  IdsInOrder'
<1>1. PICK n \in 0 .. Len(ids) :
        /\ n = IF Len(ids) < notifies THEN Len(ids) ELSE notifies
        /\ notifies' = notifies - n
        /\ answered' \in Seq(AnswerType)
        /\ Len(answered') = Len(answered) + n
        /\ \A i \in 1 .. Len(answered) : answered'[i] = answered[i]
        /\ \A i \in 1 .. n : answered'[Len(answered) + i] =
             [id |-> ids[i], result |-> value, working |-> IF behind > 0 THEN 1 ELSE 0,
              pending |-> IF behind > 0 THEN behind - 1 ELSE 0, madeThen |-> made]
        /\ lost' = lost \cup {ids[i] : i \in n + 1 .. Len(ids)}
  BY FinishSteps DEF TransferInv
<1>2. /\ Len(answered) \in Nat /\ made \in Nat /\ told \subseteq 1 .. MaxIds /\ Len(ids) \in Nat
      /\ \A i \in 1 .. Len(answered) : answered[i].id \in 1 .. MaxIds
  <2>1. Len(ids) \in Nat
    OBVIOUS
  <2>2. /\ Len(answered) \in Nat /\ made \in Nat /\ told \subseteq 1 .. MaxIds
        /\ answered \in Seq(AnswerType)
    BY DEF TransferInv, TransferTypeOK, AnswerType
  <2>3. ASSUME NEW i \in 1 .. Len(answered) PROVE answered[i].id \in 1 .. MaxIds
    <3>1. answered[i] \in AnswerType
      BY <2>2
    <3> QED BY <3>1 DEF AnswerType
  <2> QED BY <2>1, <2>2, <2>3
<1> DEFINE old == Len(answered)
           bound == made - Len(queue)
<1>3. bound \in Int /\ (made - Len(queue))' = bound + Len(ids) /\ bound <= bound + Len(ids)
  BY <1>2
<1>4. \A i \in 1 .. n : answered'[old + i].id = bound + i
  <2>1. ASSUME NEW i \in 1 .. n PROVE answered'[old + i].id = ids[i]
    <3>1. answered'[old + i] =
            [id |-> ids[i], result |-> value, working |-> IF behind > 0 THEN 1 ELSE 0,
             pending |-> IF behind > 0 THEN behind - 1 ELSE 0, madeThen |-> made]
      BY <1>1
    <3> QED BY ONLY <3>1
  <2>2. \A i \in 1 .. n : i \in 1 .. Len(ids)
    BY <1>1, <1>2
  <2> QED BY <2>1, <2>2
<1>5. /\ \A id \in told : id \in Int /\ id <= bound
      /\ \A i \in 1 .. old : /\ answered'[i] = answered[i] /\ answered[i].id <= bound
                             /\ \A id \in told : id < answered[i].id
                             /\ \A j \in 1 .. i - 1 : answered[j].id < answered[i].id
  BY <1>1, <1>2 DEF IdsInOrder
<1>6. old \in Nat /\ n \in Nat /\ n <= Len(ids) /\ Len(answered') = old + n
  BY <1>1, <1>2
<1>7. bound + Len(ids) \in Int /\ \A i \in 1 .. old : answered[i].id \in Int
  BY <1>2, <1>3
<1> HIDE DEF old, bound
<1>8. ASSUME NEW i \in 1 .. old + n
      PROVE  /\ answered'[i].id <= bound + Len(ids)
             /\ \A id \in told : id < answered'[i].id
             /\ \A j \in 1 .. i - 1 : answered'[j].id < answered'[i].id
  <2>1. CASE i <= old
    <3>1. i \in 1 .. old /\ \A j \in 1 .. i - 1 : j \in 1 .. old
      BY <1>6, <2>1
    <3>2. answered[i].id \in Int /\ answered'[i].id = answered[i].id /\ answered[i].id <= bound
      BY <1>5, <1>7, <3>1
    <3>3. answered'[i].id <= bound + Len(ids)
      BY <1>3, <1>7, <3>2
    <3>4. \A id \in told : id < answered'[i].id
      BY <1>5, <3>1, <3>2
    <3>5. \A j \in 1 .. i - 1 : answered'[j].id < answered'[i].id
      BY <1>5, <3>1, <3>2
    <3> QED BY <3>3, <3>4, <3>5
  <2>2. CASE i > old
    <3>1. PICK k \in 1 .. n : i = old + k
      <4>1. i - old \in 1 .. n /\ i = old + (i - old)
        BY <1>6, <2>2
      <4> QED BY <4>1
    <3>2. answered'[i].id = bound + k /\ k <= Len(ids) /\ k >= 1 /\ k \in Int
      BY <1>4, <1>6, <3>1
    <3>3. \A id \in told : id < bound + k
      BY <1>3, <1>5, <3>2
    <3>4. ASSUME NEW j \in 1 .. i - 1 PROVE answered'[j].id < bound + k
      <4>1. CASE j <= old
        <5>1. j \in 1 .. old
          BY <1>6, <4>1
        <5>2. answered[j].id \in Int /\ answered'[j].id = answered[j].id /\ answered[j].id <= bound
          BY <1>5, <1>7, <5>1
        <5> QED BY <1>3, <3>2, <5>2
      <4>2. CASE j > old
        <5>1. j - old \in 1 .. n /\ j = old + (j - old) /\ j - old < k
          BY <1>6, <3>1, <4>2
        <5>2. answered'[j].id = bound + (j - old)
          BY <1>4, <5>1
        <5> QED BY <1>3, <3>2, <5>1, <5>2
      <4> QED BY <1>6, <3>1, <4>1, <4>2
    <3>5. bound + k <= bound + Len(ids)
      BY <1>2, <1>3, <3>2
    <3>6. /\ answered'[i].id <= bound + Len(ids)
          /\ \A id \in told : id < answered'[i].id
      BY <3>2, <3>3, <3>5
    <3>7. \A j \in 1 .. i - 1 : answered'[j].id < answered'[i].id
      BY <3>2, <3>4
    <3> QED BY <3>6, <3>7
  <2>3. i <= old \/ i > old
    BY <1>6
  <2> QED BY <2>1, <2>2, <2>3, Zenon
<1>9. \A id \in told : id <= bound + Len(ids)
  BY <1>2, <1>3, <1>5
<1> QED BY <1>3, <1>6, <1>8, <1>9 DEF IdsInOrder

LEMMA OrderInit == TransferInit => IdsInOrder
BY DEF TransferInit, IdsInOrder

LEMMA OrderStep == TransferInv /\ IdsInOrder /\ [TransferNext]_transferVars => IdsInOrder'
<1> SUFFICES ASSUME TransferInv, IdsInOrder, [TransferNext]_transferVars PROVE IdsInOrder'
  OBVIOUS
<1>1. /\ made \in Nat /\ queue \in Seq(1 .. MaxIds) /\ Len(queue) \in Nat /\ told \subseteq 1 .. MaxIds
      /\ answered \in Seq(AnswerType) /\ \A i \in 1 .. Len(queue) : queue[i] = made - Len(queue) + i
  BY DEF TransferInv, TransferTypeOK, QueueOrder, AnswerType
<1>2. CASE Request
  <2>1. Len(queue') = Len(queue) + 1 /\ made' = made + 1 /\ UNCHANGED <<told, answered>>
    BY <1>1, <1>2 DEF Request
  <2>2. (made - Len(queue))' = made - Len(queue)
    BY <1>1, <2>1
  <2> QED BY <2>1, <2>2 DEF IdsInOrder
<1>3. ASSUME NEW value \in Results, End(value) PROVE IdsInOrder'
  <2>1. /\ queue # <<>> /\ Finish(<<Head(queue)>>, value, Len(queue) - 1)
        /\ queue' = Tail(queue) /\ UNCHANGED <<made, told>>
    BY <1>3 DEF End
  <2> DEFINE ids == <<Head(queue)>>
  <2>2. /\ ids \in Seq(1 .. MaxIds) /\ Len(ids) = 1 /\ ids[1] = queue[1] /\ Len(queue) >= 1
        /\ Len(queue') = Len(queue) - 1 /\ Len(queue) - 1 \in Nat
    BY <1>1, <2>1
  <2> HIDE DEF ids
  <2>3. Len(queue') = Len(queue) - Len(ids) /\ \A i \in 1 .. Len(ids) : ids[i] = made - Len(queue) + i
    BY <1>1, <2>2
  <2>4. Finish(ids, value, Len(queue) - 1)
    BY <2>1 DEF ids
  <2> QED BY <1>1, <2>1, <2>2, <2>3, <2>4, FinishInOrder
<1>4. CASE Flush
  <2>1. Finish(queue, "FLUSHED", 0) /\ Len(queue') = 0 /\ UNCHANGED <<made, told>> /\ "FLUSHED" \in Results
    BY <1>4 DEF Flush, Results
  <2>2. Len(queue') = Len(queue) - Len(queue)
    BY <1>1, <2>1
  <2> QED BY <1>1, <2>1, <2>2, FinishInOrder
<1>5. CASE CallUser
  <2> DEFINE a == Head(answered)
  <2>1. /\ answered # <<>> /\ answered' = Tail(answered) /\ told' = told \cup {a.id}
        /\ UNCHANGED <<made, queue>>
    BY <1>5 DEF CallUser, Untold
  <2>2. /\ Len(Tail(answered)) = Len(answered) - 1 /\ Len(answered) \in Nat /\ Len(answered) >= 1
        /\ \A i \in 1 .. Len(Tail(answered)) : Tail(answered)[i] = answered[i + 1]
        /\ a = answered[1]
    BY <1>1, <2>1, HeadTailProperties
  <2> HIDE DEF a
  <2>3. a.id <= made - Len(queue)
    BY <2>2 DEF IdsInOrder
  <2>4. ASSUME NEW i \in 1 .. Len(answered')
        PROVE  /\ answered'[i].id <= made - Len(queue)
               /\ \A id \in told' : id < answered'[i].id
               /\ \A j \in 1 .. i - 1 : answered'[j].id < answered'[i].id
    <3>1. /\ answered'[i] = answered[i + 1] /\ i + 1 \in 1 .. Len(answered) /\ 1 \in 1 .. i + 1 - 1
          /\ \A j \in 1 .. i - 1 : answered'[j] = answered[j + 1] /\ j + 1 \in 1 .. i + 1 - 1
      BY <2>1, <2>2
    <3> QED BY <2>1, <2>2, <3>1 DEF IdsInOrder
  <2> QED BY <2>1, <2>3, <2>4 DEF IdsInOrder
<1>6. CASE RequestAndWait \/ CallIoctlOverlapped \/ CallbackReturns \/ Requeue \/ UNCHANGED transferVars
  <2>1. UNCHANGED <<made, queue, answered, told>>
    BY <1>6 DEF RequestAndWait, CallIoctlOverlapped, CallbackReturns, Requeue, transferVars
  <2> QED BY <2>1 DEF IdsInOrder
<1> QED BY <1>2, <1>3, <1>4, <1>5, <1>6 DEF TransferNext, Thread, Complete, Abort, Results

\* Each request is told once at most, and they are told in the order in which they were
\* made, however many are flushed and however few NOTIFYs the driver has.
THEOREM ToldOnceInOrder == TransferSpec => ToldInOrder
<1>1. TransferInv /\ IdsInOrder /\ [TransferNext]_transferVars =>
        [at = "wait" /\ at' = "callback" => \A id \in told : id < info'.id]_transferVars
  <2> SUFFICES ASSUME TransferInv, IdsInOrder, TransferNext, at = "wait", at' = "callback"
               PROVE  \A id \in told : id < info'.id
    OBVIOUS
  <2>1. CallUser
    BY DEF TransferNext, Request, RequestAndWait, CallIoctlOverlapped, Complete, Abort, End, Flush, Thread,
           CallbackReturns, Requeue
  <2>2. info'.id = Head(answered).id /\ answered # <<>> /\ answered \in Seq(AnswerType)
    BY <2>1 DEF CallUser, TransferInv, TransferTypeOK, AnswerType
  <2>3. Head(answered) = answered[1] /\ 1 \in 1 .. Len(answered)
    BY <2>2
  <2> QED BY <2>2, <2>3 DEF IdsInOrder
<1> QED BY <1>1, TransferInvInit, TransferInvStep, OrderInit, OrderStep, PTL DEF TransferSpec, ToldInOrder

----------------------------------------------------------------------------
\* Refinement of NotifyQueue

LEMMA AnsweredIdsAre ==
  ASSUME TransferTypeOK
  PROVE  /\ AnsweredIds \in Seq(Nat) /\ Len(AnsweredIds) = Len(answered) /\ Len(answered) \in Nat
         /\ \A i \in 1 .. Len(answered) : AnsweredIds[i] = answered[i].id /\ answered[i].id # 0
<1>1. answered \in Seq(AnswerType) /\ Len(answered) \in Nat
  BY DEF TransferTypeOK, AnswerType
<1>2. ASSUME NEW i \in 1 .. Len(answered) PROVE answered[i].id \in Nat /\ answered[i].id # 0
  <2>1. answered[i] \in AnswerType
    BY <1>1
  <2> QED BY <2>1 DEF AnswerType
<1>3. AnsweredIds = [i \in 1 .. Len(answered) |-> answered[i].id]
  BY DEF AnsweredIds
<1> QED BY <1>1, <1>2, <1>3

\* The driver answers NOTIFYs with finished requests.
LEMMA FinishAnswers ==
  ASSUME TransferInv, TransferInv', NEW ids \in Seq(1 .. MaxIds), NEW value \in Results, NEW behind \in Nat,
         Finish(ids, value, behind), UNCHANGED <<at, info>>
  PROVE  [Notifying!Next]_Notifying!vars
<1>1. PICK n \in 0 .. Len(ids) :
        /\ n = IF Len(ids) < notifies THEN Len(ids) ELSE notifies
        /\ notifies' = notifies - n
        /\ answered' \in Seq(AnswerType)
        /\ Len(answered') = Len(answered) + n
        /\ \A i \in 1 .. Len(answered) : answered'[i] = answered[i]
        /\ \A i \in 1 .. n : answered'[Len(answered) + i] =
             [id |-> ids[i], result |-> value, working |-> IF behind > 0 THEN 1 ELSE 0,
              pending |-> IF behind > 0 THEN behind - 1 ELSE 0, madeThen |-> made]
        /\ lost' = lost \cup {ids[i] : i \in n + 1 .. Len(ids)}
  BY FinishSteps DEF TransferInv
<1>2. notifies \in Nat /\ n \in Nat /\ at \in {"wait", "callback", "requeue"}
  <2>1. Len(ids) \in Nat
    OBVIOUS
  <2> QED BY <2>1 DEF TransferInv, TransferTypeOK
<1>3. TransferTypeOK /\ TransferTypeOK'
  BY DEF TransferInv
<1> DEFINE old == AnsweredIds
           new == AnsweredIds'
<1>4. /\ old \in Seq(Nat) /\ Len(old) = Len(answered) /\ Len(answered) \in Nat
      /\ \A i \in 1 .. Len(answered) : old[i] = answered[i].id
  BY <1>3, AnsweredIdsAre
<1>5. /\ new \in Seq(Nat) /\ Len(new) = Len(answered) + n
      /\ \A i \in 1 .. Len(answered) : new[i] = answered[i].id
  <2>1. new = [i \in 1 .. Len(answered') |-> answered'[i].id]
    BY DEF AnsweredIds
  <2>2. ASSUME NEW i \in 1 .. Len(answered') PROVE answered'[i].id \in Nat
    <3>1. answered'[i] \in AnswerType
      BY <1>1
    <3> QED BY <3>1 DEF AnswerType
  <2>3. Len(answered') \in Nat /\ \A i \in 1 .. Len(answered) : i \in 1 .. Len(answered')
    BY <1>1, <1>2, <1>4
  <2>4. new \in Seq(Nat) /\ Len(new) = Len(answered') /\ \A i \in 1 .. Len(answered') : new[i] = answered'[i].id
    BY <2>1, <2>2, <2>3
  <2> QED BY <1>1, <2>3, <2>4
<1> HIDE DEF old, new
<1>6. /\ Len(old) \in Nat /\ Len(new) = Len(old) + n
      /\ \A i \in 1 .. Len(old) : new[i] = old[i]
  BY <1>4, <1>5
<1>7. CASE n = 0
  <2>1. Len(new) = Len(old) /\ old \in Seq(Nat) /\ new \in Seq(Nat) /\ \A i \in 1 .. Len(old) : new[i] = old[i]
    <3>1. Len(new) = Len(old)
      BY ONLY <1>6, <1>7
    <3> QED BY <1>4, <1>5, <1>6, <3>1
  <2>4. new = old
    BY ONLY <2>1, SeqEqual
  <2>2. notifies' = notifies
    BY <1>1, <1>2, <1>7
  <2> QED BY <2>2, <2>4 DEF Notifying!vars, old, new
<1>8. CASE n > 0
  <2>1. Len(old) <= Len(new)
    BY <1>2, <1>6
  <2>2. SubSeq(new, 1, Len(old)) = old
    <3>1. /\ SubSeq(new, 1, Len(old)) \in Seq(Nat) /\ Len(SubSeq(new, 1, Len(old))) = Len(old)
          /\ \A i \in 1 .. Len(old) : SubSeq(new, 1, Len(old))[i] = new[i]
      BY <1>5, <1>6, <2>1
    <3> QED BY <1>4, <1>6, <3>1, SeqEqual
  <2>3. notifies' < notifies /\ Len(new) + notifies' = Len(old) + notifies
    <3>1. /\ notifies \in Nat /\ n \in Nat /\ Len(old) \in Nat /\ n > 0
          /\ notifies' = notifies - n /\ Len(new) = Len(old) + n
      BY <1>1, <1>2, <1>6, <1>8
    <3> QED BY ONLY <3>1
  <2> QED BY <1>2, <1>5, <2>2, <2>3 DEF Notifying!Answer, Notifying!Next, old, new
<1> QED BY <1>2, <1>7, <1>8

LEMMA NotifyingNext ==
  TransferInv /\ TransferInv' /\ [TransferNext]_transferVars => [Notifying!Next]_Notifying!vars
<1> SUFFICES ASSUME TransferInv, TransferInv', [TransferNext]_transferVars
             PROVE  [Notifying!Next]_Notifying!vars
  OBVIOUS
<1>1. TransferTypeOK /\ queue \in Seq(1 .. MaxIds) /\ Len(queue) \in Nat
  BY DEF TransferInv, TransferTypeOK
<1>2. ASSUME NEW value \in Results, End(value) PROVE [Notifying!Next]_Notifying!vars
  <2>1. queue # <<>> /\ Finish(<<Head(queue)>>, value, Len(queue) - 1) /\ UNCHANGED <<at, info>>
    BY <1>2 DEF End
  <2>2. <<Head(queue)>> \in Seq(1 .. MaxIds) /\ Len(queue) - 1 \in Nat
    BY <1>1, <2>1
  <2> QED BY <2>1, <2>2, FinishAnswers
<1>3. CASE Complete \/ Abort
  BY <1>2, <1>3 DEF Complete, Abort, Results
<1>4. CASE Flush
  <2>1. Finish(queue, "FLUSHED", 0) /\ "FLUSHED" \in Results /\ UNCHANGED <<at, info>>
    BY <1>4 DEF Flush, Results
  <2> QED BY <1>1, <2>1, FinishAnswers
<1>5. CASE CallUser
  <2>1. /\ at = "wait" /\ at' = "callback" /\ answered # <<>> /\ answered' = Tail(answered)
        /\ info'.id = Head(answered).id /\ notifies' = notifies
    BY <1>5 DEF CallUser, Untold
  <2>2. /\ answered \in Seq(AnswerType) /\ Tail(answered) \in Seq(AnswerType)
        /\ Len(Tail(answered)) = Len(answered) - 1 /\ Len(answered) >= 1 /\ Len(answered) \in Nat
        /\ \A i \in 1 .. Len(Tail(answered)) : Tail(answered)[i] = answered[i + 1]
        /\ Head(answered) = answered[1]
    <3>1. answered \in Seq(AnswerType)
      BY <1>1 DEF TransferTypeOK, AnswerType
    <3> QED BY <2>1, <3>1, HeadTailProperties
  <2> DEFINE old == AnsweredIds
             new == AnsweredIds'
  <2>3. /\ old \in Seq(Nat) /\ Len(old) = Len(answered)
        /\ \A i \in 1 .. Len(answered) : old[i] = answered[i].id /\ answered[i].id # 0
    BY <1>1, AnsweredIdsAre
  <2>4. /\ new \in Seq(Nat) /\ Len(new) = Len(answered) - 1
        /\ \A i \in 1 .. Len(answered) - 1 : new[i] = answered[i + 1].id
    <3>1. new = [i \in 1 .. Len(answered) - 1 |-> answered[i + 1].id]
      BY <2>1, <2>2 DEF AnsweredIds
    <3>2. ASSUME NEW i \in 1 .. Len(answered) - 1 PROVE answered[i + 1].id \in Nat
      <4>1. i + 1 \in 1 .. Len(answered)
        BY <2>2
      <4>2. answered[i + 1] \in AnswerType
        BY <2>2, <4>1
      <4> QED BY <4>2 DEF AnswerType
    <3> QED BY <2>2, <3>1, <3>2
  <2> HIDE DEF old, new
  <2>5. old # <<>> /\ Head(old) = answered[1].id /\ answered[1].id # 0
    BY <2>2, <2>3
  <2>6. new = Tail(old)
    <3>1. Tail(old) \in Seq(Nat) /\ Len(Tail(old)) = Len(old) - 1
          /\ \A i \in 1 .. Len(Tail(old)) : Tail(old)[i] = old[i + 1]
      BY <2>3, <2>5, HeadTailProperties
    <3>2. ASSUME NEW i \in 1 .. Len(new) PROVE new[i] = Tail(old)[i]
      <4>1. i \in 1 .. Len(answered) - 1 /\ i + 1 \in 1 .. Len(answered) /\ i \in 1 .. Len(Tail(old))
        BY <2>2, <2>3, <2>4, <3>1
      <4> QED BY <2>3, <2>4, <3>1, <4>1
    <3>3. Len(new) = Len(Tail(old))
      BY <2>2, <2>3, <2>4, <3>1
    <3> QED BY ONLY <2>4, <3>1, <3>2, <3>3, SeqEqual
  <2> QED BY <2>1, <2>2, <2>5, <2>6 DEF Notifying!Take, Notifying!Next, Notifying!Nothing, old, new
<1>6. CASE CallbackReturns
  <2>1. at = "callback" /\ at' = "requeue" /\ info'.id = 0 /\ UNCHANGED <<notifies, answered>>
    BY <1>6 DEF CallbackReturns, Idle
  <2>2. AnsweredIds' = AnsweredIds
    BY <2>1 DEF AnsweredIds
  <2> QED BY <2>1, <2>2 DEF Notifying!Return, Notifying!Next, Notifying!Nothing
<1>7. CASE Requeue
  <2>1. at = "requeue" /\ at' = "wait" /\ notifies' = notifies + 1 /\ UNCHANGED <<answered, info>>
    BY <1>7 DEF Requeue, Requeued
  <2>2. AnsweredIds' = AnsweredIds
    BY <2>1 DEF AnsweredIds
  <2> QED BY <2>1, <2>2 DEF Notifying!Requeue, Notifying!Next
<1>8. CASE Request \/ RequestAndWait \/ CallIoctlOverlapped \/ UNCHANGED transferVars
  <2>1. UNCHANGED <<notifies, answered, at, info>>
    BY <1>8 DEF Request, RequestAndWait, CallIoctlOverlapped, transferVars
  <2>2. AnsweredIds' = AnsweredIds
    BY <2>1 DEF AnsweredIds
  <2> QED BY <2>1, <2>2 DEF Notifying!vars
<1> QED BY <1>3, <1>4, <1>5, <1>6, <1>7, <1>8 DEF TransferNext, Thread

\* The requests of a channel run on a NotifyQueue, as NotifyThread's ring gives it: with
\* any number of NOTIFYs and requests, each answer is told once, in order, and its NOTIFY
\* queued again.
THEOREM TransferRefined == TransferSpec => ImplementsNotifyQueue
<1>1. TransferInit => Notifying!Init
  <2> SUFFICES ASSUME TransferInit PROVE Notifying!Init
    OBVIOUS
  <2>1. at = "wait" /\ notifies = Depth /\ info.id = 0 /\ answered = <<>>
    BY DEF TransferInit, Idle
  <2>2. AnsweredIds = <<>>
    <3>1. AnsweredIds \in Seq(Nat) /\ Len(AnsweredIds) = Len(answered) /\ Len(answered) = 0
      BY <2>1, AnsweredIdsAre, TransferInvInit DEF TransferInv
    <3> QED BY <3>1
  <2> QED BY <2>1, <2>2 DEF Notifying!Init, Notifying!Nothing
<1> QED BY <1>1, TransferInvInit, TransferInvStep, NotifyingNext, PTL
        DEF TransferSpec, ImplementsNotifyQueue, Notifying!Spec

----------------------------------------------------------------------------
\* Both together

LEMMA PartsInit == DmaInit => Init /\ TransferInit
  BY DEF DmaInit

LEMMA ChannelPartStep == [DmaNext]_dmaVars => [Next]_vars
<1>1. ChannelNext => [Next]_vars
  BY DEF ChannelNext, Next, CallStep
<1>2. TransferPart => UNCHANGED vars
  BY DEF TransferPart, OnlyTransfer, cVars
<1>3. UNCHANGED dmaVars => UNCHANGED vars
  BY DEF dmaVars, cVars
<1> QED BY <1>1, <1>2, <1>3 DEF DmaNext

LEMMA TransferPartStep == [DmaNext]_dmaVars => [TransferNext]_transferVars
<1>1. TransferPart => [TransferNext]_transferVars
  BY DEF TransferPart, TransferNext, Thread
<1>2. ChannelNext => UNCHANGED transferVars
  BY DEF ChannelNext, OnlyChannel
<1>3. UNCHANGED dmaVars => UNCHANGED transferVars
  BY DEF dmaVars
<1> QED BY <1>1, <1>2, <1>3 DEF DmaNext

\* What is true of each part is true of the library that has both.
THEOREM DmaIsBoth == DmaSpec => Spec /\ TransferSpec
  BY PartsInit, ChannelPartStep, TransferPartStep, PTL DEF DmaSpec, Spec, TransferSpec

\* The registers, the calls, the queues and the threads of the DMA functions are
\* what they are declared to be.
THEOREM PartsTyped == DmaSpec => []PartsTypeOK
<1>1. TypeOK /\ TransferTypeOK => PartsTypeOK
  BY DEF PartsTypeOK
<1> QED BY <1>1, DmaIsBoth, ChannelTypeCorrect, TransferTypeCorrect, PTL

\* An application that keeps fewer requests going than the callback thread has NOTIFY
\* requests is told of every request that finishes, and for one that was not flushed is
\* told how many were behind it, also while it drives the channels.
THEOREM DmaRequestsTold == ASSUME Window < Depth PROVE DmaSpec => []RequestsAreTold
<1>1. NoRequestLost /\ PendingIsExact => RequestsAreTold
  BY DEF RequestsAreTold
<1>2. TransferSpec => []NoRequestLost
  BY NothingLost
<1> QED BY <1>1, <1>2, DmaIsBoth, PendingCorrect, PTL

\* While requests finish and are told, success of Start, Stop, Pause or Clear says that
\* the board took the action or halted.
THEOREM DmaSuccess == DmaSpec => SuccessIsTrue
  BY DmaIsBoth, SuccessIsTaken, SuccessIsAskedOrHalted, PTL DEF SuccessIsTrue

\* And EBUSY to a call that nobody disturbs says that it did not.
THEOREM DmaBusy == DmaSpec => BusyMeansNotTaken
  BY DmaIsBoth, BusyIsNotTaken, PTL

\* With the channels used by any callers at the same time, the callback is told of each
\* request once, in the order of the requests.
THEOREM DmaToldInOrder == DmaSpec => ToldInOrder
  BY DmaIsBoth, ToldOnceInOrder, PTL

\* With the channels used by any callers at the same time, the requests' NOTIFYs are used
\* as the callback thread's ring gives them.
THEOREM DmaNotifies == DmaSpec => ImplementsNotifyQueue
  BY DmaIsBoth, TransferRefined, PTL
=============================================================================
