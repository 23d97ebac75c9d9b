------------------------------ MODULE DioFile ------------------------------
(***************************************************************************)
(* What the DIO functions of librtd-SDM35541_adc1002.c promise: DIO_CTRL   *)
(* looks like a file of registers.  A call acts at one instant, on its own *)
(* register and on no other thing, or it fails and changes nothing.  Only  *)
(* a call during which another one has begun may act on another register.  *)
(* The functions of the single bits of DIO_STATUS disturb nobody.          *)
(***************************************************************************)
EXTENDS DioChip

VARIABLES
  chip,       \* the registers and the IRQ status
  flags,      \* the single bits of DIO_STATUS
  call,       \* per caller: the call it is in
  disturbed,  \* per caller: another call has begun since its own
  returned    \* what the last call that ended told its caller

vars == <<chip, flags, call, disturbed, returned>>

Init ==
  /\ chip = Cleared /\ flags = [f \in Flags |-> FALSE]
  /\ call = [c \in Callers |-> Idle] /\ disturbed = [c \in Callers |-> FALSE]
  /\ returned = Zero

Begin(c, op) ==
  /\ call[c] = Idle
  /\ call' = [call EXCEPT ![c] = op]
  /\ disturbed' = [d \in Callers |-> d # c /\ call[d] # Idle]
  /\ UNCHANGED <<chip, flags, returned>>

\* The call takes effect and returns.
End(c) ==
  /\ call[c] # Idle
  /\ \E reg \in IF disturbed[c] THEN Selects ELSE {call[c].reg} :
       /\ chip' = After(chip, call[c], reg)
       /\ returned' = Told(chip, call[c], reg)
  /\ call' = [call EXCEPT ![c] = Idle]
  /\ disturbed' = [disturbed EXCEPT ![c] = FALSE]
  /\ UNCHANGED flags

Fail(c) ==
  /\ call[c] # Idle
  /\ call' = [call EXCEPT ![c] = Idle]
  /\ disturbed' = [disturbed EXCEPT ![c] = FALSE]
  /\ UNCHANGED <<chip, flags, returned>>

SetFlag(c, f, v) ==
  /\ call[c] = Idle
  /\ flags' = [flags EXCEPT ![f] = v]
  /\ UNCHANGED <<chip, call, disturbed, returned>>

Event ==
  /\ ~chip.irq /\ chip' = [chip EXCEPT !.irq = TRUE]
  /\ UNCHANGED <<flags, call, disturbed, returned>>

Next ==
  \/ \E c \in Callers :
       \/ \E op \in Ops : Begin(c, op)
       \/ End(c) \/ Fail(c)
       \/ \E f \in Flags, v \in BOOLEAN : SetFlag(c, f, v)
  \/ Event

Spec == Init /\ [][Next]_vars
=============================================================================
