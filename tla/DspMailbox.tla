----------------------------- MODULE DspMailbox -----------------------------
(***************************************************************************)
(* The commands of the on-board DSP: SDM35541_Calibrate leaves four        *)
(* parameters in the shared SRAM and raises a command;                     *)
(* SDM35541_DSP_Get_Version raises one, polls for its completion and reads *)
(* the answer from the same SRAM.  One action is one register access, or a *)
(* step of the DSP (external), which works while the calls go on.          *)
(***************************************************************************)
EXTENDS Naturals

CONSTANTS
  Callers,    \* the application's threads
  Polls,      \* how often Get_Version polls (35 in the code)
  IoFails     \* register accesses may fail

VARIABLES
  sram,        \* per word: whose parameter it holds, or the DSP's version
  command,     \* the command the DSP executes, "none" if it is done
  sender,      \* history: the caller of the last command, "nobody" before the first
  at,          \* per caller: its next access
  retries,     \* per caller: `retries'
  told,        \* per caller: the words of the version it has read
  returned,    \* the last call that returned
  alone        \* history: since the last call began, or since the DSP took up
               \* what was sent before it, nothing else has used the SRAM

vars == <<sram, command, sender, at, retries, told, returned, alone>>

Words == 0 .. 3
Init ==
  /\ sram = [w \in Words |-> "old"] /\ command = "none" /\ sender = "nobody"
  /\ at = [c \in Callers |-> "idle"] /\ retries = [c \in Callers |-> 0]
  /\ told = [c \in Callers |-> <<"none", "none">>]
  /\ returned = [call |-> "none", result |-> 0, told |-> <<"none", "none">>]
  /\ alone = TRUE

Goes(c, place) == at' = [at EXCEPT ![c] = place]

Returns(c, name, r) ==
  /\ at' = [at EXCEPT ![c] = "idle"]
  /\ returned' = [call |-> name, result |-> r, told |-> told[c]]
  /\ retries' = [retries EXCEPT ![c] = 0]
  /\ told' = [told EXCEPT ![c] = <<"none", "none">>]

Begins(c) == alone' = (command = "none" /\ \A d \in Callers \ {c} : at[d] = "idle")

----------------------------------------------------------------------------
\* SDM35541_Calibrate

\* The calls are told apart by the caller: its parameters are its name.
Writing == [w \in Words |-> CASE w = 0 -> "write0" [] w = 1 -> "write1"
                              [] w = 2 -> "write2" [] w = 3 -> "write3"]

CalibrateBegin(c) ==
  /\ at[c] = "idle" /\ Goes(c, "write0") /\ Begins(c)
  /\ UNCHANGED <<sram, command, sender, retries, told, returned>>

\* Mutant: the last parameter is forgotten.
AfterWriteEarly(w) == IF w >= 2 THEN "calibrate" ELSE Writing[w + 1]

AfterWrite(w) == IF w = 3 THEN "calibrate" ELSE Writing[w + 1]

\* SDM35541_SRAM_Write of word w; its failure is the result w + 1.
CalibrateWrite(c, w) ==
  /\ at[c] = Writing[w]
  /\ sram' = [sram EXCEPT ![w] = c]
  /\ Goes(c, AfterWrite(w))
  /\ UNCHANGED <<command, sender, retries, told, returned, alone>>

CalibrateWriteFails(c, w) ==
  /\ IoFails /\ at[c] = Writing[w]
  /\ Returns(c, "calibrate", w + 1)
  /\ UNCHANGED <<sram, command, sender, alone>>

Send(c, cmd) == command' = cmd /\ sender' = c

\* The command is sent; nobody waits for its completion.
CalibrateSend(c) ==
  /\ at[c] = "calibrate"
  /\ \/ Send(c, "calibrate") /\ Returns(c, "calibrate", 0)
     \/ IoFails /\ Returns(c, "calibrate", 5) /\ UNCHANGED <<command, sender>>
  /\ UNCHANGED <<sram, alone>>

----------------------------------------------------------------------------
\* SDM35541_DSP_Get_Version

VersionBegin(c) ==
  /\ at[c] = "idle" /\ Begins(c)
  /\ \/ Send(c, "version") /\ Goes(c, "poll") /\ UNCHANGED <<retries, told, returned>>
     \/ IoFails /\ Returns(c, "version", 1) /\ UNCHANGED <<command, sender>>
  /\ UNCHANGED sram

\* SDM35541_DSP_CMD_Complete.  The byte is the board's: the header says, and the
\* example Calibrate waits accordingly, that it is zero when the command is done
\* and greater while it is executed.
IsComplete == IF command = "none" THEN 0 ELSE 1

\* Get_Version goes on to the answer when the byte is not zero.
VersionPoll(c) ==
  /\ at[c] = "poll"
  /\ \/ /\ IsComplete # 0
        /\ Goes(c, "major") /\ UNCHANGED <<retries, told, returned>>
     \/ /\ IsComplete = 0 /\ retries[c] + 1 < Polls
        /\ retries' = [retries EXCEPT ![c] = @ + 1] /\ UNCHANGED <<at, told, returned>>
     \/ /\ IsComplete = 0 /\ retries[c] + 1 = Polls
        /\ Returns(c, "version", 3)
     \/ IoFails /\ Returns(c, "version", 2)
  /\ UNCHANGED <<sram, command, sender, alone>>

\* The results of the two reads are not looked at: a word that could not be
\* read is what the memory happened to hold.
WordRead(w) == {sram[w]} \cup IF IoFails THEN {"junk"} ELSE {}

VersionMajor(c) ==
  /\ at[c] = "major"
  /\ \E v \in WordRead(0) : told' = [told EXCEPT ![c] = <<v, "none">>]
  /\ Goes(c, "minor")
  /\ UNCHANGED <<sram, command, sender, retries, returned, alone>>

VersionMinor(c) ==
  /\ at[c] = "minor"
  /\ \E v \in WordRead(1) :
       returned' = [call |-> "version", result |-> 0, told |-> <<told[c][1], v>>]
  /\ Goes(c, "idle")
  /\ retries' = [retries EXCEPT ![c] = 0]
  /\ told' = [told EXCEPT ![c] = <<"none", "none">>]
  /\ UNCHANGED <<sram, command, sender, alone>>

----------------------------------------------------------------------------
\* The DSP: it ends the command, for a version after it has left the answer.
DspCalibrates ==
  /\ command = "calibrate" /\ command' = "none"
  /\ UNCHANGED <<sram, sender, at, retries, told, returned, alone>>

DspAnswers ==
  /\ command = "version" /\ command' = "none"
  /\ sram' = [sram EXCEPT ![0] = "version", ![1] = "version"]
  /\ UNCHANGED <<sender, at, retries, told, returned, alone>>

Next ==
  \/ \E c \in Callers :
       \/ CalibrateBegin(c) \/ CalibrateSend(c)
       \/ \E w \in Words : CalibrateWrite(c, w) \/ CalibrateWriteFails(c, w)
       \/ VersionBegin(c) \/ VersionPoll(c) \/ VersionMajor(c) \/ VersionMinor(c)
  \/ DspCalibrates \/ DspAnswers

Spec == Init /\ [][Next]_vars

----------------------------------------------------------------------------
\* Properties

Results == {"old", "version", "junk", "none"} \cup Callers

TypeOK ==
  /\ sram \in [Words -> Results] /\ sender \in Callers \cup {"nobody"}
  /\ command \in {"none", "calibrate", "version"}
  /\ at \in [Callers -> {"idle", "write0", "write1", "write2", "write3", "calibrate",
                         "poll", "major", "minor"}]
  /\ retries \in [Callers -> 0 .. Polls - 1]
  /\ told \in [Callers -> Results \X Results]
  /\ returned \in [call : {"none", "calibrate", "version"}, result : 0 .. 5,
                   told : Results \X Results]
  /\ alone \in BOOLEAN

\* SDM35541_adc1002_library.h: zero "if the DSP has completed the instruction".
\* So a Get_Version that returns 0, during which nobody else has used the DSP,
\* tells the DSP's answer and not what the SRAM held before, except for words
\* that could not be read.
VersionIsAnswer ==
  returned.call = "version" /\ returned.result = 0 /\ alone /\ (\A c \in Callers : at[c] = "idle") =>
    \A i \in {1, 2} : returned.told[i] \in {"version", "junk"}

\* What the DSP calibrates with are the four parameters of one call, also after
\* calls that failed half-way, unless another call began before the DSP was done.
CalibratesAsAsked ==
  [][DspCalibrates /\ alone => \A w \in Words : sram[w] = sender]_vars
=============================================================================
