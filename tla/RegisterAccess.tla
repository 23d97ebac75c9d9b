--------------------------- MODULE RegisterAccess ---------------------------
(***************************************************************************)
(* A register access, from the function of the DMA library through         *)
(* SDM35541_Modify or SDM35541_Read to call_ioctl, which makes it a        *)
(* request to the driver and waits for its end.  One action is one call of *)
(* the operating system (external), or a step of the driver, which carries *)
(* out a request in one piece (SDM35541_INTRFC_REG_OP_SAFEWRITE).          *)
(***************************************************************************)
EXTENDS Naturals, SetupFields

CONSTANTS
  MaxAsks,    \* bound of the model: the calls made
  CallsFail   \* the operating system's calls may fail

VARIABLES
  setupReg,   \* the register
  asking,     \* per caller: the call it is in
  ioAt,       \* per caller: the next call of the operating system
  request,    \* per caller: its request, as the driver has it
  gotten,     \* per caller: `reg_op.data', the bits read
  failed,     \* per caller: `result' is an error
  strays,     \* per caller: requests whose caller has given up waiting
  told,       \* what the last call that ended has told
  asks        \* history: the calls begun

accessVars == <<setupReg, asking, ioAt, request, gotten, failed, strays, told, asks>>

AccessInit ==
  /\ setupReg = {} /\ asking = [c \in Askers |-> NoAsk]
  /\ ioAt = [c \in Askers |-> "idle"] /\ request = [c \in Askers |-> "none"]
  /\ gotten = [c \in Askers |-> {}] /\ failed = [c \in Askers |-> FALSE]
  /\ strays = [c \in Askers |-> {}] /\ told = NothingTold /\ asks = 0

GoesOn(c, place) == ioAt' = [ioAt EXCEPT ![c] = place]

\* The function has looked at its arguments and filled the request in.
BeginAsk(c, ask) ==
  /\ ioAt[c] = "idle" /\ asks < MaxAsks /\ asks' = asks + 1
  /\ asking' = [asking EXCEPT ![c] = ask] /\ GoesOn(c, "create")
  /\ told' = NothingTold
  /\ UNCHANGED <<setupReg, request, gotten, failed, strays>>

\* The functions of librtd-SDM35541_dma.c take the bits from the byte that was
\* read; if it was not, from what the stack held.
EndAsk(c, ok) ==
  /\ told' = [ok |-> ok, ask |-> asking[c],
              value |-> IF ok THEN gotten[c] \cap {"int", "errInt"} ELSE {}]
  /\ asking' = [asking EXCEPT ![c] = NoAsk] /\ GoesOn(c, "idle")
  /\ request' = [request EXCEPT ![c] = "none"]
  /\ gotten' = [gotten EXCEPT ![c] = {}] /\ failed' = [failed EXCEPT ![c] = FALSE]

CreateEvent(c) ==
  /\ ioAt[c] = "create"
  /\ \/ GoesOn(c, "control") /\ UNCHANGED <<asking, request, gotten, failed, told>>
     \/ CallsFail /\ EndAsk(c, FALSE)
  /\ UNCHANGED <<setupReg, strays, asks>>

\* The driver takes the request, or refuses it and `result' is set.
DeviceIoControl(c) ==
  /\ ioAt[c] = "control"
  /\ \/ request' = [request EXCEPT ![c] = "pending"] /\ GoesOn(c, "wait") /\ UNCHANGED failed
     \/ /\ CallsFail /\ failed' = [failed EXCEPT ![c] = TRUE] /\ GoesOn(c, "close")
        /\ UNCHANGED request
  /\ UNCHANGED <<setupReg, asking, gotten, strays, told, asks>>

\* The event is set when the driver has ended the request.
Wait(c) ==
  /\ ioAt[c] = "wait" /\ request[c] \in {"done", "refused"}
  /\ GoesOn(c, "result")
  /\ UNCHANGED <<setupReg, asking, request, gotten, failed, strays, told, asks>>

\* The wait itself fails, and nobody cancels the request: the driver may have
\* it still, with an OVERLAPPED on a stack frame that is gone.
WaitFails(c) ==
  /\ CallsFail /\ ioAt[c] = "wait"
  /\ failed' = [failed EXCEPT ![c] = TRUE] /\ GoesOn(c, "close")
  /\ strays' = IF request[c] = "pending" THEN [strays EXCEPT ![c] = @ \cup {asking[c]}] ELSE strays
  /\ request' = [request EXCEPT ![c] = IF @ = "pending" THEN "lost" ELSE @]
  /\ UNCHANGED <<setupReg, asking, gotten, told, asks>>

GetOverlappedResult(c) ==
  /\ ioAt[c] = "result"
  /\ failed' = [failed EXCEPT ![c] = request[c] = "refused"] /\ GoesOn(c, "close")
  /\ UNCHANGED <<setupReg, asking, request, gotten, strays, told, asks>>

\* Failing to close the event is the call's failure, whatever became of it.
CloseEvent(c) ==
  /\ ioAt[c] = "close"
  /\ EndAsk(c, ~failed[c]) \/ (CallsFail /\ EndAsk(c, FALSE))
  /\ UNCHANGED <<setupReg, strays, asks>>

----------------------------------------------------------------------------
\* The driver

\* The masks of the functions; that of a read is none.
\* Mutant: Set_Direction uses the mask of Setup.
MaskWide(name) ==
  IF name = "Setup_Set_Direction" THEN {"direction", "ignoreUsed"} ELSE About(name)

Mask(name) ==
  CASE name = "Configure_Interrupts"        -> {"int", "errInt"}
    [] name = "Setup"                       -> {"ignoreUsed", "direction"}
    [] name = "Setup_Set_Direction"         -> {"direction"}
    [] name = "Setup_Set_Used"              -> {"ignoreUsed"}
    [] name = "Get_Interrupt_Configuration" -> {}

\* The masked bits get those of the data.
Modified(ask) ==
  (setupReg \ Mask(ask.name)) \cup (ask.on \cap Mask(ask.name))

DriverActs(c) ==
  /\ request[c] = "pending" /\ request' = [request EXCEPT ![c] = "done"]
  /\ setupReg' = Modified(asking[c])
  /\ gotten' = [gotten EXCEPT ![c] = IF Reading(asking[c]) THEN setupReg ELSE {}]
  /\ UNCHANGED <<asking, ioAt, failed, strays, told, asks>>

DriverRefuses(c) ==
  /\ CallsFail /\ request[c] = "pending" /\ request' = [request EXCEPT ![c] = "refused"]
  /\ UNCHANGED <<setupReg, asking, ioAt, gotten, failed, strays, told, asks>>

DriverEndsStray(c, ask) ==
  /\ ask \in strays[c] /\ strays' = [strays EXCEPT ![c] = @ \ {ask}]
  /\ setupReg' \in {setupReg, Modified(ask)}
  /\ UNCHANGED <<asking, ioAt, request, gotten, failed, told, asks>>

AccessNext ==
  \E c \in Askers :
    \/ \E ask \in Asks : BeginAsk(c, ask) \/ DriverEndsStray(c, ask)
    \/ CreateEvent(c) \/ DeviceIoControl(c) \/ Wait(c) \/ WaitFails(c)
    \/ GetOverlappedResult(c) \/ CloseEvent(c)
    \/ DriverActs(c) \/ DriverRefuses(c)

AccessSpec == AccessInit /\ [][AccessNext]_accessVars

----------------------------------------------------------------------------
\* Properties

AccessTypeOK ==
  /\ setupReg \subseteq SetupBits
  /\ asking \in [Askers -> Asks \cup {NoAsk}]
  /\ ioAt \in [Askers -> {"idle", "create", "control", "wait", "result", "close"}]
  /\ request \in [Askers -> {"none", "pending", "done", "refused", "lost"}]
  /\ gotten \in [Askers -> SUBSET SetupBits]
  /\ failed \in [Askers -> BOOLEAN] /\ strays \in [Askers -> SUBSET Asks]
  /\ told \in [ok : BOOLEAN, ask : Asks \cup {NoAsk}, value : SUBSET SetupBits] /\ asks \in Nat

SetupOf == INSTANCE SetupFile WITH
  reg <- setupReg,
  acted <- [c \in Askers |-> CASE request[c] = "done" -> "yes"
                               [] request[c] = "lost" -> "left"
                               [] OTHER               -> "no"],
  got <- [c \in Askers |-> gotten[c] \cap {"int", "errInt"}]

\* To their callers the functions look like the cells of SetupFile: whatever
\* fails on the way, a call that returns 0 has acted once, between its call and
\* its return, on its own bits, and no request acts twice.
ImplementsSetup == SetupOf!FileSpec
=============================================================================
