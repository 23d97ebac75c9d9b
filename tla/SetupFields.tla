---------------------------- MODULE SetupFields ----------------------------
(***************************************************************************)
(* The SETUP register of a DMA channel (SDM35541_registers.h) and the      *)
(* functions of librtd-SDM35541_dma.c that are about it, for the modules   *)
(* SetupFile and RegisterAccess.  The register is the set of its bits that *)
(* are 1.                                                                  *)
(***************************************************************************)

CONSTANTS
  Askers,   \* the application's threads
  Asks      \* bound of the model: what they ask for

SetupBits == {"int", "errInt", "direction", "ignoreUsed"}
AskNames ==
  {"Configure_Interrupts", "Setup", "Setup_Set_Direction", "Setup_Set_Used",
   "Get_Interrupt_Configuration"}

\* The bits a function is about; it sets those of them in `on'.  The last one
\* reads instead.
About(name) ==
  CASE name = "Configure_Interrupts"        -> {"int", "errInt"}
    [] name = "Setup"                       -> {"direction", "ignoreUsed"}
    [] name = "Setup_Set_Direction"         -> {"direction"}
    [] name = "Setup_Set_Used"              -> {"ignoreUsed"}
    [] name = "Get_Interrupt_Configuration" -> {}

ASSUME AsksAssumption ==
  \A ask \in Asks : ask = [name |-> ask.name, on |-> ask.on] /\ ask.name \in AskNames
                    /\ ask.on \subseteq About(ask.name)

NoAsk == [name |-> "none", on |-> {}]
NothingTold == [ok |-> FALSE, ask |-> NoAsk, value |-> {}]

Reading(ask) == ask.name = "Get_Interrupt_Configuration"
Put(reg, ask) == (reg \ About(ask.name)) \cup ask.on
Got(reg, ask) == IF Reading(ask) THEN reg \cap {"int", "errInt"} ELSE {}
=============================================================================
