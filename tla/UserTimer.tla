----------------------------- MODULE UserTimer -----------------------------
(***************************************************************************)
(* One user timer/counter of the board, an 8254 that is read and written a *)
(* byte at a time: SDM35541_UTC_Set_Mode, _Set_Divisor, _Get_Count,        *)
(* _Get_Mode (_Get_Status is the same with another mask) and _Setup.  A    *)
(* call is a sequence of register accesses; one action is one access.  The *)
(* chip remembers which byte comes next, so what a call does depends on    *)
(* where the calls before it ended.                                        *)
(***************************************************************************)
EXTENDS Naturals, Sequences

CONSTANTS
  Setters,   \* threads that set the timer
  Readers,   \* threads, or callbacks, that read it
  Byte,      \* bound of the model: values of a byte (256 in the chip)
  Modes,     \* modes the application asks for, 0 among them
  Divisors,  \* divisors it asks for, and bound of the model: counts it goes through
  IoFails    \* register accesses may fail

TimerThreads == Setters \cup Readers
Counts  == 0 .. Byte * Byte - 1

None == Byte * Byte   \* no latched count

VARIABLES
  timer,     \* the chip
  call,      \* per caller: the call it is in
  returned,  \* the last call, if it has succeeded: what it was asked and what it told
  alone,     \* history: no other call has begun during the one that began last
  inStep     \* history: since the last control word no call has failed in the
             \* middle, and none have overlapped

vars == <<timer, call, returned, alone, inStep>>

Lsb(n) == n % Byte
Msb(n) == n \div Byte

\* A call: its name, its next access, what it is asked, what it has read, and
\* (history) the count when it was latched.
\* The accesses of each call, in order.
Accesses(name) ==
  CASE name = "Set_Mode"    -> <<"control">>
    [] name = "Set_Divisor" -> <<"writeLsb", "writeMsb">>
    [] name = "Get_Count"   -> <<"latch", "delay", "readLsb", "readMsb">>
    [] name = "Get_Mode"    -> <<"readBack", "delay", "readStatus">>
    [] name = "Setup"       -> <<"source", "gate", "control", "writeLsb", "writeMsb">>

AsksFor(name, m, d) ==
  [name |-> name, step |-> 1, mode |-> m, divisor |-> d, value |-> 0,
   latched |-> 0, ok |-> TRUE]
Idle == [AsksFor("none", 0, 0) EXCEPT !.step = 0]

Reads == {AsksFor("Get_Count", 0, 0), AsksFor("Get_Mode", 0, 0)}
Settings ==
  {AsksFor("Set_Mode", m, 0) : m \in Modes} \cup {AsksFor("Set_Divisor", 0, d) : d \in Divisors}
    \cup {AsksFor("Setup", m, d) : m \in Modes, d \in Divisors}

Init ==
  /\ \E n \in Divisors :
       timer = [count |-> n, divisor |-> 0, mode |-> 0, lsbIn |-> 0, latch |-> None,
                statusLatched |-> FALSE, readMsb |-> FALSE, writeMsb |-> FALSE]
  /\ call = [c \in TimerThreads |-> Idle] /\ returned = Idle
  /\ alone = TRUE /\ inStep = FALSE

----------------------------------------------------------------------------
\* The chip (external)

Control(m) ==
  [timer EXCEPT !.mode = m, !.latch = None, !.statusLatched = FALSE,
                !.readMsb = FALSE, !.writeMsb = FALSE]

WriteByte(b) ==
  IF timer.writeMsb
    THEN [timer EXCEPT !.divisor = b * Byte + timer.lsbIn, !.writeMsb = FALSE]
    ELSE [timer EXCEPT !.lsbIn = b, !.writeMsb = TRUE]

\* A second latch command before the first is read is ignored.
Latch == IF timer.latch = None THEN [timer EXCEPT !.latch = timer.count] ELSE timer

Source == IF timer.latch = None THEN timer.count ELSE timer.latch

\* A read of the counter's register: what it tells, and what it leaves.
ByteRead ==
  IF timer.statusLatched THEN timer.mode
  ELSE IF timer.readMsb THEN Msb(Source) ELSE Lsb(Source)

AfterRead ==
  IF timer.statusLatched THEN [timer EXCEPT !.statusLatched = FALSE]
  ELSE IF timer.readMsb THEN [timer EXCEPT !.readMsb = FALSE, !.latch = None]
  ELSE [timer EXCEPT !.readMsb = TRUE]

\* The counter counts; this matters while a count is read.
Tick == /\ \E c \in TimerThreads : call[c].name = "Get_Count"
        /\ \E n \in Divisors \ {timer.count} : timer' = [timer EXCEPT !.count = n]
        /\ UNCHANGED <<call, returned, alone, inStep>>

----------------------------------------------------------------------------
\* The calls

Begin(c, q) ==
  /\ call[c] = Idle
  /\ \/ q \in Reads /\ c \in Readers
     \/ q \in Settings /\ c \in Setters
  /\ call' = [call EXCEPT ![c] = q] /\ returned' = Idle
  /\ alone' = (\A d \in TimerThreads \ {c} : call[d] = Idle)
  /\ inStep' = (inStep /\ alone')
  /\ UNCHANGED timer

\* Mutant: the latch command leaves out the counter's number.
LatchOther == timer

LatchCommand == Latch
ControlWord(m) == Control(m)
FirstByte(n) == Lsb(n)
SecondByte(n) == Msb(n)

\* The chip, and the value of the call q, after access a.
Effect(a, q) ==
  CASE a \in {"source", "gate", "delay"} -> [chip |-> timer, value |-> q.value]
    [] a = "control"    -> [chip |-> ControlWord(q.mode), value |-> q.value]
    [] a = "writeLsb"   -> [chip |-> WriteByte(FirstByte(q.divisor)), value |-> q.value]
    [] a = "writeMsb"   -> [chip |-> WriteByte(SecondByte(q.divisor)), value |-> q.value]
    [] a = "latch"      -> [chip |-> LatchCommand, value |-> q.value]
    [] a = "readLsb"    -> [chip |-> AfterRead, value |-> ByteRead]
    [] a = "readMsb"    -> [chip |-> AfterRead, value |-> ByteRead * Byte + q.value]
    [] a = "readBack"   -> [chip |-> [timer EXCEPT !.statusLatched = TRUE], value |-> q.value]
    [] a = "readStatus" -> [chip |-> AfterRead, value |-> ByteRead]

\* Caller c returns; a failed call tells nothing.
Returns(c, q) ==
  call' = [call EXCEPT ![c] = Idle] /\ returned' = IF q.ok THEN q ELSE Idle

\* Caller c goes on as q: to the next access, or it returns.
GoesOn(c, q) ==
  IF q.step < Len(Accesses(q.name))
    THEN call' = [call EXCEPT ![c] = [q EXCEPT !.step = @ + 1]] /\ UNCHANGED returned
    ELSE Returns(c, q)

Access(c) ==
  /\ call[c] # Idle
  /\ LET a == Accesses(call[c].name)[call[c].step]
         e == Effect(a, call[c])
     IN  /\ timer' = e.chip
         /\ GoesOn(c, [call[c] EXCEPT !.value = e.value,
                                 !.latched = IF a = "latch" THEN timer.count ELSE @])
         /\ inStep' = IF a = "control" THEN alone ELSE inStep
  /\ UNCHANGED alone

\* A failing access ends the call; Setup remembers it and goes on with its
\* next part, unless it is in the last one.
AccessFails(c) ==
  /\ IoFails /\ call[c] # Idle
  /\ LET q == [call[c] EXCEPT !.ok = FALSE]
     IN  IF Accesses(q.name)[q.step] \in {"source", "gate", "control"}
           THEN GoesOn(c, q) ELSE Returns(c, q)
  /\ inStep' = FALSE
  /\ UNCHANGED <<timer, alone>>

Next ==
  \/ \E c \in TimerThreads :
       \/ \E q \in Reads \cup Settings : Begin(c, q)
       \/ Access(c) \/ AccessFails(c)
  \/ Tick

Spec == Init /\ [][Next]_vars

----------------------------------------------------------------------------
\* Properties

TypeOK ==
  /\ timer \in [count : Counts, divisor : Counts, mode : Modes, lsbIn : 0 .. Byte - 1,
                latch : Counts \cup {None}, statusLatched : BOOLEAN,
                readMsb : BOOLEAN, writeMsb : BOOLEAN]
  /\ \A c \in TimerThreads : call[c].step \in 0 .. 5
  /\ alone \in BOOLEAN /\ inStep \in BOOLEAN

\* A Setup that succeeds, and during which no other call begins, has loaded
\* its mode and its divisor, wherever the calls before it have left the chip.
SetupLoads ==
  returned.name = "Setup" /\ alone /\ (\A c \in TimerThreads : call[c] = Idle) =>
    timer.mode = returned.mode /\ timer.divisor = returned.divisor /\ inStep

\* While the calls are in step with the chip, a count read is the value the
\* counter had at one instant, also if it counts between the two bytes, and a
\* status read is the status.
ReadsAreTrue ==
  inStep /\ (\A c \in TimerThreads : call[c] = Idle) =>
    /\ returned.name = "Get_Count" => returned.value = returned.latched
    /\ returned.name = "Get_Mode"  => returned.value = timer.mode
=============================================================================
