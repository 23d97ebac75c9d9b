------------------------------- MODULE MCDma -------------------------------
(***************************************************************************)
(* DMA for TLC: the control of a DMA channel (DmaChannel) and the requests *)
(* of one of its buffers (DmaTransfer).  The functions of one touch        *)
(* nothing of the other, so that a behaviour of both is any interleaving   *)
(* of a behaviour of each.  The model starts one of them, `part', and the  *)
(* other stays as it is.                                                   *)
(***************************************************************************)
EXTENDS DmaChannel, DmaTransfer

CONSTANTS c1, c2   \* two threads of the application

VARIABLE part

cVars == vars

DmaInit == part \in {"channel", "transfer"} /\ Init /\ TransferInit

\* The steps of one part leave the other alone.
OnlyChannel  == UNCHANGED <<part, transferVars>>
OnlyTransfer == UNCHANGED <<part, cVars>>

ChannelNext ==
  \/ \E c \in Callers :
       \/ part = "channel" /\ Begin(c) /\ OnlyChannel
       \/ part = "channel" /\ ReadBack(c) /\ OnlyChannel
       \/ part = "channel" /\ Rewrite(c) /\ OnlyChannel
       \/ part = "channel" /\ ReadAgain(c) /\ OnlyChannel
       \/ part = "channel" /\ Compare(c) /\ OnlyChannel
       \/ part = "channel" /\ Reread(c) /\ OnlyChannel
       \/ part = "channel" /\ AccessFails(c) /\ OnlyChannel
  \/ part = "channel" /\ TakeAction /\ OnlyChannel
  \/ part = "channel" /\ HaltItself /\ OnlyChannel

TransferPart ==
  \/ part = "transfer" /\ Request /\ OnlyTransfer
  \/ part = "transfer" /\ RequestAndWait /\ OnlyTransfer
  \/ part = "transfer" /\ CallIoctlOverlapped /\ OnlyTransfer
  \/ part = "transfer" /\ Complete /\ OnlyTransfer
  \/ part = "transfer" /\ Abort /\ OnlyTransfer
  \/ part = "transfer" /\ Flush /\ OnlyTransfer
  \/ part = "transfer" /\ CallUser /\ OnlyTransfer
  \/ part = "transfer" /\ CallbackReturns /\ OnlyTransfer
  \/ part = "transfer" /\ Requeue /\ OnlyTransfer

DmaNext == ChannelNext \/ TransferPart

dmaVars == <<part, cVars, transferVars>>

\* The fairness of the part that is started.
DmaFairness ==
  /\ \A c \in Callers : WF_dmaVars(part = "channel" /\ CallStep(c) /\ OnlyChannel)
  /\ WF_dmaVars(part = "transfer" /\ Thread /\ OnlyTransfer)
  /\ WF_dmaVars(part = "transfer" /\ Complete /\ OnlyTransfer)

DmaSpec == DmaInit /\ [][DmaNext]_dmaVars /\ DmaFairness

----------------------------------------------------------------------------
\* The properties are those of the two modules.

\* The registers, the calls, the queues and the threads are what they are declared to be.
PartsTypeOK == TypeOK /\ TransferTypeOK

\* Every request that finishes is told, and what is told of the queue is exact.
RequestsAreTold == NoRequestLost /\ PendingIsExact

\* A call that returns 0 has seen the board take the action that it asked for, or, with
\* Clear, the channel halt.
SuccessIsTrue == OkMeansTaken /\ OkMeansAskedOrHalted

\* No call polls for ever, and the application is told of every request that
\* has been queued, in the end.
EverythingIsAnswered == CallsReturn /\ EveryRequestTold
=============================================================================
