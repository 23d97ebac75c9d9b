---------------------------- MODULE MCDmaStream ----------------------------
(***************************************************************************)
(* The streaming programs for TLC.  The program with two streams has many  *)
(* more states, and is checked with fewer chunks and with no faults.       *)
(***************************************************************************)
EXTENDS DmaStream

MCAmount    == [a \in Apps |-> IF a = "AdcHsdinSimul" THEN 2 ELSE 3]
MCMaxChunks == [a \in Apps |-> IF a = "AdcHsdinSimul" THEN 3 ELSE 4]
MCMaxFaults == [a \in Apps |-> IF a = "AdcHsdinSimul" THEN 0 ELSE 1]
=============================================================================
