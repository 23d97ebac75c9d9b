------------------------------ MODULE DioChip ------------------------------
(***************************************************************************)
(* The registers of the digital I/O chip and what an access to DIO_CTRL    *)
(* does to them, for the modules DioFile and DioRegisters.  The chip is    *)
(* known from SDM35541_registers.h and from how the library uses it.       *)
(***************************************************************************)

CONSTANTS
  Callers,   \* the application's threads
  Values,    \* the values of a register
  Zero,      \* the value a reset leaves
  Flags      \* the single bits of DIO_STATUS: port 1's direction (0x04), the
             \* IRQ mode (0x08), the IRQ enable (0x10), the clock (0x20)

ASSUME ZeroAssumption == Zero \in Values
ASSUME FlagsAssumption == "select" \notin Flags

\* What bits 0 and 1 of DIO_STATUS may select: 0, 1, 2 and 3.
Registers == {"direction", "mask", "compare"}
Selects   == {"control"} \cup Registers

\* The calls that access DIO_CTRL, and the register each is about.
Gets == [name : {"get"}, reg : Registers, value : {Zero}]
Sets == [name : {"set"}, reg : Registers, value : Values]
ClearIRQ == [name |-> "clear", reg |-> "control", value |-> Zero]
Reset    == [name |-> "reset", reg |-> "control", value |-> Zero]
Ops == Gets \cup Sets \cup {ClearIRQ, Reset}
Idle == [name |-> "none", reg |-> "control", value |-> Zero]

Chips == [regs : [Registers -> Values], irq : BOOLEAN]
Cleared == [regs |-> [r \in Registers |-> Zero], irq |-> FALSE]

Writes(op) == op.name \in {"set", "reset"}

\* The chip after the access of op, with reg selected: reading the control
\* register clears the IRQ status, writing it resets the chip.
After(chip, op, reg) ==
  CASE reg = "control" /\ Writes(op)   -> Cleared
    [] reg = "control" /\ ~Writes(op)  -> [chip EXCEPT !.irq = FALSE]
    [] reg # "control" /\ Writes(op)   -> [chip EXCEPT !.regs = [@ EXCEPT ![reg] = op.value]]
    [] reg # "control" /\ ~Writes(op)  -> chip

\* The value the access hands to its caller.
Told(chip, op, reg) ==
  IF reg # "control" /\ ~Writes(op) THEN chip.regs[reg] ELSE Zero
=============================================================================
