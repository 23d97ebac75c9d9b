----------------------------- MODULE SetupFile -----------------------------
(***************************************************************************)
(* What the functions that set and read the SETUP register of a DMA        *)
(* channel promise.  A call acts at one instant, on the bits it is about   *)
(* and on no other; one that succeeds has acted, one that fails may have.  *)
(* A failed call may also leave its request with the driver, where it acts *)
(* later, at most once.                                                    *)
(***************************************************************************)
EXTENDS SetupFields

VARIABLES
  reg,      \* the register
  asking,   \* per caller: the call it is in
  acted,    \* per caller: whether its call has acted, or is "left" to act later
  got,      \* per caller: what its call has read
  strays,   \* per caller: calls it gave up that may act yet
  told      \* what the last call that ended has told

fileVars == <<reg, asking, acted, got, strays, told>>

FileInit ==
  /\ reg = {} /\ asking = [c \in Askers |-> NoAsk] /\ acted = [c \in Askers |-> "no"]
  /\ got = [c \in Askers |-> {}] /\ strays = [c \in Askers |-> {}] /\ told = NothingTold

Begin(c, ask) ==
  /\ asking[c] = NoAsk /\ asking' = [asking EXCEPT ![c] = ask]
  /\ told' = NothingTold
  /\ UNCHANGED <<reg, acted, got, strays>>

Act(c) ==
  /\ asking[c] # NoAsk /\ acted[c] = "no"
  /\ acted' = [acted EXCEPT ![c] = "yes"]
  /\ reg' = Put(reg, asking[c]) /\ got' = [got EXCEPT ![c] = Got(reg, asking[c])]
  /\ UNCHANGED <<asking, strays, told>>

End(c, ok) ==
  /\ asking[c] # NoAsk /\ (ok => acted[c] = "yes")
  /\ told' = [ok |-> ok, ask |-> asking[c], value |-> IF ok THEN got[c] ELSE {}]
  /\ asking' = [asking EXCEPT ![c] = NoAsk]
  /\ acted' = [acted EXCEPT ![c] = "no"] /\ got' = [got EXCEPT ![c] = {}]
  /\ UNCHANGED <<reg, strays>>

\* The call is going to fail, and its request is left with the driver.
GiveUp(c) ==
  /\ asking[c] # NoAsk /\ acted[c] = "no"
  /\ acted' = [acted EXCEPT ![c] = "left"]
  /\ strays' = [strays EXCEPT ![c] = @ \cup {asking[c]}]
  /\ UNCHANGED <<reg, asking, got, told>>

StrayActs(c, ask) ==
  /\ ask \in strays[c] /\ strays' = [strays EXCEPT ![c] = @ \ {ask}]
  /\ reg' = Put(reg, ask)
  /\ UNCHANGED <<asking, acted, got, told>>

StrayEnds(c, ask) ==
  /\ ask \in strays[c] /\ strays' = [strays EXCEPT ![c] = @ \ {ask}]
  /\ UNCHANGED <<reg, asking, acted, got, told>>

FileNext ==
  \E c \in Askers :
    \/ \E ask \in Asks : Begin(c, ask) \/ StrayActs(c, ask) \/ StrayEnds(c, ask)
    \/ Act(c) \/ GiveUp(c)
    \/ \E ok \in BOOLEAN : End(c, ok)

FileSpec == FileInit /\ [][FileNext]_fileVars
=============================================================================
