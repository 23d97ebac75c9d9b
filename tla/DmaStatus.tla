------------------------------ MODULE DmaStatus ------------------------------
(***************************************************************************)
(* The status flags of the DMA channels of a function block, which the     *)
(* board sets at any time, and the functions that read them one register   *)
(* after the other or clear them: SDM35541_Dma_Find_Interrupt,             *)
(* _Check_For_Error, _Get_Errors and _Clear_Interrupt.  One thread calls   *)
(* them; one action is one register access.                                *)
(***************************************************************************)
EXTENDS Naturals, Sequences

CONSTANTS
  NumChannels,   \* func_block->num_dma_channels
  Flags,         \* bound of the model: the flags the board sets
  IoFails        \* register accesses may fail

Channels == 0 .. NumChannels - 1

\* The registers: two bytes that are read as one word, and three that are read
\* as another (two of them by Check_For_Error and Get_Errors).
FifoFlags   == {"overflow", "underflow"}
BufferFlags == {"used", "invalid"}
AllFlags    == FifoFlags \cup BufferFlags \cup {"complete"}

\* The order in which Clear_Interrupt goes through them.
ClearOrder == <<"overflow", "underflow", "used", "invalid", "complete">>

VARIABLES
  flags,       \* per channel: the flags that are set
  ignoreUsed,  \* per channel: SDM35541_DMA_SETUP_IGNORE_USED
  op,          \* the call: "find", "check", "errors", "clear" or "none"
  at,          \* its next access
  channel,     \* `channel': of the loop, or as passed
  seen,        \* the flags the call has seen, or has still to clear
  fresh,       \* history: per channel, the flags set since the call began
  lost,        \* history: a read of this call has failed unnoticed
  returned     \* the last call that returned, and what it told

call == <<op, at, channel, seen>>
vars == <<flags, ignoreUsed, call, fresh, lost, returned>>

Nothing == [op |-> "none", ok |-> FALSE, channel |-> 0, seen |-> {}]

Init ==
  /\ flags = [c \in Channels |-> {}] /\ ignoreUsed \in [Channels -> BOOLEAN]
  /\ op = "none" /\ at = "idle" /\ channel = 0 /\ seen = {}
  /\ fresh = [c \in Channels |-> {}] /\ lost = FALSE /\ returned = Nothing

\* The board sets a flag.
Raise(c, f) ==
  /\ f \notin flags[c]
  /\ flags' = [flags EXCEPT ![c] = @ \cup {f}]
  /\ fresh' = [fresh EXCEPT ![c] = @ \cup {f}]
  /\ UNCHANGED <<ignoreUsed, call, lost, returned>>

Begin(name, c, s) ==
  /\ op = "none" /\ op' = name /\ channel' = c /\ seen' = s
  /\ at' = IF name = "clear" THEN "clear" ELSE "fifo"
  /\ fresh' = [d \in Channels |-> {}] /\ lost' = FALSE /\ returned' = Nothing
  /\ UNCHANGED <<flags, ignoreUsed>>

Returns(ok, c, s) ==
  /\ returned' = [op |-> op, ok |-> ok, channel |-> c, seen |-> s]
  /\ op' = "none" /\ at' = "idle" /\ channel' = 0 /\ seen' = {}

Continues(place, c, s) ==
  /\ at' = place /\ channel' = c /\ seen' = s /\ UNCHANGED <<op, returned>>

\* Every failing read ends the call, except the first one of Get_Errors.
ReadFails ==
  /\ IoFails /\ at \in {"fifo", "buffers", "setup"} /\ ~(op = "errors" /\ at = "fifo")
  /\ Returns(FALSE, channel, seen)
  /\ UNCHANGED <<flags, ignoreUsed, fresh, lost>>

----------------------------------------------------------------------------
\* Find_Interrupt

\* The loop steps on while nothing is found.
NextChannel(s) == IF s = {} THEN channel + 1 ELSE channel

\* Mutant: the loop runs once too often.
MoreLate == channel + 1 <= NumChannels

\* The loop has another channel.
More == channel + 1 < NumChannels

\* The end of the loop's body, with what this channel has shown.
FindNext(s) ==
  IF s = {} /\ More
    THEN Continues("fifo", NextChannel(s), {})
    ELSE Returns(TRUE, NextChannel(s), s)

FindFifo ==
  /\ op = "find" /\ at = "fifo"
  /\ Continues("buffers", channel, flags[channel] \cap FifoFlags)
  /\ UNCHANGED <<flags, ignoreUsed, fresh, lost>>

\* With the used flag set, the setup register decides whether it counts.
FindBuffers ==
  /\ op = "find" /\ at = "buffers"
  /\ LET s == seen \cup (flags[channel] \cap {"used", "invalid", "complete"})
     IN  IF "used" \in s THEN Continues("setup", channel, s) ELSE FindNext(s)
  /\ UNCHANGED <<flags, ignoreUsed, fresh, lost>>

FindSetup ==
  /\ op = "find" /\ at = "setup"
  /\ FindNext(IF ignoreUsed[channel] THEN seen \ {"used"} ELSE seen)
  /\ UNCHANGED <<flags, ignoreUsed, fresh, lost>>

----------------------------------------------------------------------------
\* Check_For_Error and Get_Errors

CheckFifo ==
  /\ op = "check" /\ at = "fifo"
  /\ LET s == flags[channel] \cap FifoFlags
     IN  IF s # {} THEN Returns(TRUE, channel, s) ELSE Continues("buffers", channel, s)
  /\ UNCHANGED <<flags, ignoreUsed, fresh, lost>>

\* The result of the first read of Get_Errors is overwritten by the second's.
ErrorsFifo ==
  /\ op = "errors" /\ at = "fifo"
  /\ \/ /\ Continues("buffers", channel, flags[channel] \cap FifoFlags)
        /\ UNCHANGED lost
     \/ /\ IoFails
        /\ \E junk \in SUBSET FifoFlags : Continues("buffers", channel, junk)
        /\ lost' = TRUE
  /\ UNCHANGED <<flags, ignoreUsed, fresh>>

ErrorsBuffers ==
  /\ op \in {"check", "errors"} /\ at = "buffers"
  /\ Returns(TRUE, channel, seen \cup (flags[channel] \cap BufferFlags))
  /\ UNCHANGED <<flags, ignoreUsed, fresh, lost>>

----------------------------------------------------------------------------
\* Clear_Interrupt of the flags in `seen', in order; a failing write ends it.
\* If none is asked for, the result is not set.

ToClear == {i \in 1 .. Len(ClearOrder) : ClearOrder[i] \in seen}
First == ClearOrder[CHOOSE i \in ToClear : \A j \in ToClear : i <= j]

\* A write to the flag's byte clears it.
ClearOne ==
  /\ at \in {"clear", "cleared"} /\ seen # {}
  /\ flags' = [flags EXCEPT ![channel] = @ \ {First}]
  /\ fresh' = [fresh EXCEPT ![channel] = @ \ {First}]
  /\ Continues("cleared", channel, seen \ {First})
  /\ UNCHANGED <<ignoreUsed, lost>>

ClearFails ==
  /\ IoFails /\ at \in {"clear", "cleared"} /\ seen # {}
  /\ Returns(FALSE, channel, seen)
  /\ UNCHANGED <<flags, ignoreUsed, fresh, lost>>

\* After a write the result is that of the last one.
ClearReturns ==
  /\ at \in {"clear", "cleared"} /\ seen = {}
  /\ \E ok \in IF at = "cleared" THEN {TRUE} ELSE BOOLEAN : Returns(ok, channel, {})
  /\ UNCHANGED <<flags, ignoreUsed, fresh, lost>>

Next ==
  \/ \E c \in Channels, f \in Flags : Raise(c, f)
  \/ Begin("find", 0, {})
  \/ \E c \in Channels : Begin("check", c, {}) \/ Begin("errors", c, {})
  \/ \E c \in Channels, s \in SUBSET Flags : Begin("clear", c, s)
  \/ FindFifo \/ FindBuffers \/ FindSetup \/ CheckFifo \/ ErrorsFifo \/ ErrorsBuffers
  \/ ReadFails \/ ClearOne \/ ClearFails \/ ClearReturns

Spec == Init /\ [][Next]_vars

----------------------------------------------------------------------------
\* Properties

TypeOK ==
  /\ flags \in [Channels -> SUBSET Flags] /\ fresh \in [Channels -> SUBSET Flags]
  /\ op \in {"none", "find", "check", "errors", "clear"}
  /\ at \in {"idle", "fifo", "buffers", "setup", "clear", "cleared"}
  /\ channel \in Channels /\ seen \subseteq AllFlags /\ lost \in BOOLEAN

\* The flags of channel c that make Find_Interrupt stop there.
Counting(c) == IF ignoreUsed[c] THEN flags[c] \ {"used"} ELSE flags[c]

\* What a call that succeeded has told is set, and what it has not told was
\* set, if at all, only after the call began: in the channels Find_Interrupt
\* has passed over, in the one it found, and in the one of the other two (of
\* which Check_For_Error tells only whether there is any).
StatusIsTrue ==
  LET c == returned.channel
  IN  returned.ok /\ ~lost =>
        /\ c \in Channels => returned.seen \subseteq flags[c]
        /\ returned.op = "find" =>
             /\ c \in Channels <=> returned.seen # {}
             /\ \A d \in Channels : d <= c => Counting(d) \ returned.seen \subseteq fresh[d]
        /\ returned.op = "errors" \/ (returned.op = "check" /\ returned.seen = {}) =>
             (flags[c] \cap (FifoFlags \cup BufferFlags)) \ returned.seen \subseteq fresh[c]
=============================================================================
