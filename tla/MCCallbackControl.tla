------------------------- MODULE MCCallbackControl -------------------------
(***************************************************************************)
(* CallbackControl for TLC: what a freed status word may read as.          *)
(***************************************************************************)
EXTENDS CallbackControl

AnyJunk == 0 .. 3
\* The heap leaves the freed block as the thread left it.
StaleJunk == {2}
\* The debug heap fills freed blocks.
FilledJunk == {3}
=============================================================================
