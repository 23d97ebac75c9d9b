--------------------------- MODULE ThreadLifeSpec ---------------------------
(***************************************************************************)
(* The life of one callback thread (ThreadLife) as a specification.        *)
(***************************************************************************)
EXTENDS ThreadLife

VARIABLE life

Init == life = Start

Next == life' \in OwnSteps(life) \cup Terminated(life)

Spec == Init /\ [][Next]_life
=============================================================================
