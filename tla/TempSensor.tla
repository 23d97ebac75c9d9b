----------------------------- MODULE TempSensor -----------------------------
(***************************************************************************)
(* SDM35541_Get_Temp: the temperature sensor behind the board's I2C        *)
(* registers.  A call waits until the sensor is idle, starts one           *)
(* measurement, waits for its end and reads it.  The I2C registers are     *)
(* shared by all callers.  One action is one access to them or a step of   *)
(* the sensor (external).                                                  *)
(*                                                                         *)
(* I2C_ADDR and I2C_DATA are only ever written with one value: their       *)
(* writes are left out, and what their failures do is among the failures   *)
(* of the accesses next to them.                                           *)
(***************************************************************************)
EXTENDS Naturals, Sequences

CONSTANTS
  Callers,   \* the application's threads
  IoFails    \* register accesses may fail

VARIABLES
  ptr,        \* I2C_PTR: which register of the sensor a transfer is about
  data,       \* I2C_READ: the result of the last transfer
  busy,       \* the sensor measures, for the caller that is `busy'
  temp,       \* the sensor's temperature register: for whom it was measured
  step,       \* per caller: its next access, 0 if it is in no call
  failed,     \* per caller: SDM35541_status # 0
  returned,   \* the last call that returned: its caller, result, temperature
  alone       \* history: the call that began last has not been overlapped

vars == <<ptr, data, busy, temp, step, failed, returned, alone>>

Nobody == "nobody"

\* The accesses of a call, in order: the pointer, the transfer, the result.
Script == <<"ptrStatus", "goRead", "readStatus",
            "ptrOneShot", "goWrite",
            "ptrStatus", "goRead", "readStatus",
            "ptrTemp", "goRead", "readTemp">>

Init ==
  /\ ptr = "status" /\ data = "idle" /\ busy = Nobody /\ temp = Nobody
  /\ step = [c \in Callers |-> 0] /\ failed = [c \in Callers |-> FALSE]
  /\ returned = [caller |-> Nobody, ok |-> FALSE, temp |-> Nobody] /\ alone = TRUE

Begin(c) ==
  /\ step[c] = 0 /\ step' = [step EXCEPT ![c] = 1]
  /\ alone' = (\A d \in Callers \ {c} : step[d] = 0)
  /\ UNCHANGED <<ptr, data, busy, temp, failed, returned>>

\* What a transfer from the sensor reads: bit 0x80 of the status, or the
\* temperature; nothing that is used from the one-shot register.
Transfer == CASE ptr = "status"  -> (IF busy = Nobody THEN "idle" ELSE "busy")
              [] ptr = "temp"    -> temp
              [] ptr = "oneShot" -> "junk"

\* The effect of the access at step s of caller c, if it reaches the board.
\* A one-shot command is ignored while the sensor measures.
Effect(c, s) ==
  CASE Script[s] = "ptrStatus"  -> ptr' = "status" /\ UNCHANGED <<data, busy>>
    [] Script[s] = "ptrOneShot" -> ptr' = "oneShot" /\ UNCHANGED <<data, busy>>
    [] Script[s] = "ptrTemp"    -> ptr' = "temp" /\ UNCHANGED <<data, busy>>
    [] Script[s] = "goRead"     -> data' = Transfer /\ UNCHANGED <<ptr, busy>>
    [] Script[s] = "goWrite"    -> /\ busy' = IF ptr = "oneShot" /\ busy = Nobody THEN c ELSE busy
                                   /\ UNCHANGED <<ptr, data>>
    [] OTHER                    -> UNCHANGED <<ptr, data, busy>>

Returns(c, ok, value) ==
  /\ step' = [step EXCEPT ![c] = 0]
  /\ failed' = [failed EXCEPT ![c] = FALSE]
  /\ returned' = [caller |-> c, ok |-> ok, temp |-> value]

\* The condition of the loop that ends with the access at s.
Again(s) == s \in {3, 8} /\ data = "busy"

\* The results so far are looked at after each transfer from the sensor and
\* after the start of the measurement.
Checks(s) == Script[s] \in {"readStatus", "goWrite", "readTemp"}

\* Caller c goes on after its access at s; bad: it, or one before it, failed.
GoesOn(c, s, bad) ==
  IF Checks(s) /\ bad THEN Returns(c, FALSE, Nobody)
  ELSE IF s = Len(Script) THEN Returns(c, TRUE, data)
  ELSE /\ step' = [step EXCEPT ![c] = IF Again(s) THEN s - 2 ELSE s + 1]
       /\ failed' = [failed EXCEPT ![c] = bad]
       /\ UNCHANGED returned

Access(c) ==
  /\ step[c] # 0
  /\ Effect(c, step[c])
  /\ GoesOn(c, step[c], failed[c])
  /\ UNCHANGED <<temp, alone>>

\* The access fails; it, or those it stands for, may have reached the board.
AccessFails(c) ==
  /\ IoFails /\ step[c] # 0
  /\ Effect(c, step[c]) \/ UNCHANGED <<ptr, data, busy>>
  /\ GoesOn(c, step[c], TRUE)
  /\ UNCHANGED <<temp, alone>>

\* The sensor ends its measurement.
Measured ==
  /\ busy # Nobody /\ temp' = busy /\ busy' = Nobody
  /\ UNCHANGED <<ptr, data, step, failed, returned, alone>>

Next == \/ \E c \in Callers : Begin(c) \/ Access(c) \/ AccessFails(c)
        \/ Measured

Spec == Init /\ [][Next]_vars

----------------------------------------------------------------------------
\* Properties

TypeOK ==
  /\ ptr \in {"status", "oneShot", "temp"}
  /\ data \in {"idle", "busy", "junk", Nobody} \cup Callers
  /\ busy \in Callers \cup {Nobody} /\ temp \in Callers \cup {Nobody}
  /\ step \in [Callers -> 0 .. Len(Script)]
  /\ failed \in [Callers -> BOOLEAN] /\ alone \in BOOLEAN
  /\ returned.temp \in {"idle", "busy", "junk", Nobody} \cup Callers

\* A Get_Temp that succeeds and that no other call overlaps tells a temperature
\* that was measured for it, whatever failed calls before it have started.
TempIsFresh ==
  returned.ok /\ alone /\ (\A c \in Callers : step[c] = 0) => returned.temp = returned.caller
=============================================================================
