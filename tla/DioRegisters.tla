---------------------------- MODULE DioRegisters ----------------------------
(***************************************************************************)
(* The DIO functions that reach their register through DIO_CTRL: a         *)
(* read-modify-write of the select field of DIO_STATUS, which the driver   *)
(* does as one operation, and then one access to DIO_CTRL.  And the        *)
(* functions that modify another bit of DIO_STATUS.  One action is one     *)
(* IOCTL.                                                                  *)
(***************************************************************************)
EXTENDS DioChip

CONSTANT IoFails   \* register accesses may fail

ASSUME IoAssumption == IoFails \in BOOLEAN

VARIABLES
  chip,       \* the registers behind DIO_CTRL and the IRQ status
  select,     \* bits 0 and 1 of DIO_STATUS
  flags,      \* the other bits of DIO_STATUS
  call,       \* per caller: the call it is in, between its two accesses
  disturbed,  \* history: another call has selected since this one did
  returned    \* what the last call that ended told its caller

vars == <<chip, select, flags, call, disturbed, returned>>

Init ==
  /\ chip = Cleared
  /\ select = "control" /\ flags = [f \in Flags |-> FALSE]
  /\ call = [c \in Callers |-> Idle] /\ disturbed = [c \in Callers |-> FALSE]
  /\ returned = Zero

\* Mutant: the mask of the select field takes the other bits with it.
SelectMaskWide == {"select"} \cup Flags

SelectMask == {"select"}
FlagMask(f) == {f}

\* SDM35541_Modify_Register_8 on DIO_STATUS: the masked bits get those of the
\* data, whose select field is s and in which the bits `on' are 1.
Modify(mask, s, on) ==
  /\ select' = IF "select" \in mask THEN s ELSE select
  /\ flags' = [f \in Flags |-> IF f \in mask THEN f \in on ELSE flags[f]]

\* The first access of every call: its register is selected.
Select(c, op) ==
  /\ call[c] = Idle
  /\ Modify(SelectMask, op.reg, {})
  /\ call' = [call EXCEPT ![c] = op]
  /\ disturbed' = [d \in Callers |-> d # c /\ call[d] # Idle]
  /\ UNCHANGED <<chip, returned>>

\* The second: DIO_CTRL is read or written, whatever is selected now.
AccessCtrl(c) ==
  /\ call[c] # Idle
  /\ chip' = After(chip, call[c], select)
  /\ returned' = Told(chip, call[c], select)
  /\ call' = [call EXCEPT ![c] = Idle]
  /\ disturbed' = [disturbed EXCEPT ![c] = FALSE]
  /\ UNCHANGED <<select, flags>>

AccessFails(c) ==
  /\ IoFails /\ call[c] # Idle
  /\ call' = [call EXCEPT ![c] = Idle]
  /\ disturbed' = [disturbed EXCEPT ![c] = FALSE]
  /\ UNCHANGED <<chip, select, flags, returned>>

\* DIO_Set_Direction of port 1, DIO_IRQ_Mode, DIO_Clock, DIO_Enable_IRQ.
ModifyFlag(c, f, v) ==
  /\ call[c] = Idle
  /\ Modify(FlagMask(f), "control", IF v THEN {f} ELSE {})
  /\ UNCHANGED <<chip, call, disturbed, returned>>

\* The chip sees an event or a match.
Event ==
  /\ ~chip.irq /\ chip' = [chip EXCEPT !.irq = TRUE]
  /\ UNCHANGED <<select, flags, call, disturbed, returned>>

Next ==
  \/ \E c \in Callers :
       \/ \E op \in Ops : Select(c, op)
       \/ AccessCtrl(c) \/ AccessFails(c)
       \/ \E f \in Flags, v \in BOOLEAN : ModifyFlag(c, f, v)
  \/ Event

Spec == Init /\ [][Next]_vars

----------------------------------------------------------------------------
\* Properties

TypeOK ==
  /\ chip \in Chips
  /\ select \in Selects /\ flags \in [Flags -> BOOLEAN]
  /\ call \in [Callers -> Ops \cup {Idle}]
  /\ disturbed \in [Callers -> BOOLEAN]
  /\ returned \in Values

\* A call acts on its own register unless another call has selected between
\* its two accesses; no call changes a bit of DIO_STATUS that is another
\* function's, or disturbs one of the others through it.
File == INSTANCE DioFile
ImplementsFile == File!Spec
=============================================================================
