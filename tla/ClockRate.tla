----------------------------- MODULE ClockRate -----------------------------
(***************************************************************************)
(* One of the board's three programmable clocks (burst, pacer, DAC):       *)
(* SDM35541_BCLK_Set_Rate, _PCLK_Set_Rate and _DAC_Set_Rate, and the       *)
(* BCLK_Setup and PCLK_Setup around them.  A call writes the primary       *)
(* frequency, then the count it has computed.  One action is one register  *)
(* access, with the arithmetic before it.                                  *)
(*                                                                         *)
(* Rates are counted in 1 / Frac Hz.  Rounding to float is left out.       *)
(***************************************************************************)
EXTENDS Integers, Sequences

CONSTANTS
  Callers,   \* the application's threads
  Rates,     \* per clock: the rates it asks for, in 1 / Frac Hz
  IoFails    \* register accesses may fail

Frac   == 2
Clocks == {"bclk", "pclk", "dac"}
Freqs  == {8000000, 20000000}
Bad    == 0   \* a frequency that is none of the two
Asked  == Freqs \cup {Bad}

VARIABLES
  clock,     \* which of the clocks this is; it never changes
  freq,      \* its frequency register
  count,     \* its count register, -1 for all ones
  call,      \* per caller: the call it is in
  returned,  \* the last call that returned
  crashed,   \* the process has divided by zero, in this call
  alone      \* history: the call that began last has not been overlapped

vars == <<clock, freq, count, call, returned, crashed, alone>>

----------------------------------------------------------------------------
\* The arithmetic

MaxRate(k) == IF k = "dac" THEN 20000000 ELSE 1250000

\* 0xFFFF and 0x00FFFFFF, what the counts are checked against.
Limit(k) == IF k = "bclk" THEN 65535 ELSE 16777215

\* Mutant: the lower limit is that of a count with one bit more.
TooSlowLate(k, f, r) == k # "dac" /\ r <= (f * Frac) \div (2 * Limit(k))

\* rate <= (float) primary_clock / limit.
TooSlow(k, f, r) == IF k = "dac" THEN r = 0 ELSE r <= (f * Frac) \div Limit(k)

\* Rates outside the limits are refused.
Accepted(k, f, r) == r <= MaxRate(k) * Frac /\ ~TooSlow(k, f, r)

\* (uint32_t) rate; what follows divides by it.
Whole(r) == r \div Frac

\* `divisor': 16 bits wide for the burst clock.
Divisor(k, f, r) ==
  LET d == f \div Whole(r) IN IF k = "bclk" THEN d % 65536 ELSE d

\* What a count register keeps of a count, 24 bits in the pacer clock.
Kept(k, c) == IF k = "pclk" THEN c % 16777216 ELSE c

----------------------------------------------------------------------------
\* The calls

\* The accesses of each call, in order.  "config" is the write of a register
\* that nothing here depends on; "early" is the frequency, written by Setup.
Accesses(k, name) ==
  CASE name = "Set_Rate"                -> <<"freq", "count">>
    [] name = "Setup" /\ k = "bclk" -> <<"config", "freq", "count">>
    [] name = "Setup" /\ k # "bclk" ->
         <<"config", "early", "config", "config", "config", "freq", "count">>

\* A call: what it is asked, its next access, the status so far, and (history)
\* how many of Setup's own writes are missing.
AsksFor(name, f, r) == [name |-> name, freq |-> f, rate |-> r, step |-> 1, status |-> 0, missed |-> 0]
Idle == [name |-> "none", freq |-> Bad, rate |-> 0, step |-> 0, status |-> 0, missed |-> 0]

\* The DAC has no such Setup.
Names(k) == IF k = "dac" THEN {"Set_Rate"} ELSE {"Set_Rate", "Setup"}

Init ==
  /\ clock \in Clocks /\ freq = 8000000 /\ count = 0
  /\ call = [c \in Callers |-> Idle] /\ returned = Idle
  /\ crashed = Idle /\ alone = TRUE

Begin(c, name, f, r) ==
  /\ call[c] = Idle /\ call' = [call EXCEPT ![c] = AsksFor(name, f, r)]
  /\ returned' = Idle /\ alone' = (\A d \in Callers \ {c} : call[d] = Idle)
  /\ UNCHANGED <<clock, freq, count, crashed>>

\* The next access of caller c, if it has one.
Upcoming(c) == IF call[c] = Idle THEN "none" ELSE Accesses(clock, call[c].name)[call[c].step]

\* The status after another result: PCLK_Setup ors them, BCLK_Setup does not.
Joined(before, now) == IF clock = "pclk" /\ before # 0 THEN before ELSE now

GoesOn(c, s, m) ==
  /\ call' = [call EXCEPT ![c] = [call[c] EXCEPT !.step = call[c].step + 1, !.status = s, !.missed = m]]
  /\ UNCHANGED returned

\* Set_Rate ends with this result, and the call around it as well.
Returns(c, result) ==
  /\ call' = [call EXCEPT ![c] = Idle]
  /\ returned' = [call[c] EXCEPT !.status = Joined(@, result)]

\* A write of Setup.
Config(c) ==
  /\ Upcoming(c) \in {"config", "early"}
  /\ freq' = IF Upcoming(c) = "early" THEN call[c].freq ELSE freq
  /\ freq' # Bad
  /\ GoesOn(c, Joined(call[c].status, 0), call[c].missed)
  /\ UNCHANGED <<clock, count, crashed, alone>>

\* It fails, or refuses the frequency: Setup goes on.
ConfigFails(c) ==
  /\ Upcoming(c) \in {"config", "early"}
  /\ IoFails \/ (Upcoming(c) = "early" /\ call[c].freq = Bad)
  /\ GoesOn(c, Joined(call[c].status, -1), 1)
  /\ UNCHANGED <<clock, freq, count, crashed, alone>>

\* Set_Rate writes the frequency, before it has looked at the rate.
SetFrequency(c) ==
  /\ Upcoming(c) = "freq" /\ call[c].freq # Bad
  /\ freq' = call[c].freq
  /\ GoesOn(c, call[c].status, call[c].missed)
  /\ UNCHANGED <<clock, count, crashed, alone>>

SetFrequencyFails(c) ==
  /\ Upcoming(c) = "freq" /\ (IoFails \/ call[c].freq = Bad)
  /\ Returns(c, -1)
  /\ UNCHANGED <<clock, freq, count, crashed, alone>>

SetCount(c) ==
  /\ Upcoming(c) = "count"
  /\ Accepted(clock, call[c].freq, call[c].rate) /\ Whole(call[c].rate) # 0
  /\ count' = Kept(clock, Divisor(clock, call[c].freq, call[c].rate) - 1)
  /\ Returns(c, 0)
  /\ UNCHANGED <<clock, freq, crashed, alone>>

\* The rate is refused, or the count cannot be written.
SetCountFails(c) ==
  /\ Upcoming(c) = "count"
  /\ \/ ~Accepted(clock, call[c].freq, call[c].rate)
     \/ IoFails /\ Whole(call[c].rate) # 0
  /\ Returns(c, -1)
  /\ UNCHANGED <<clock, freq, count, crashed, alone>>

\* An accepted rate below 1 Hz: the process dies.
DividesByZero(c) ==
  /\ Upcoming(c) = "count"
  /\ Accepted(clock, call[c].freq, call[c].rate) /\ Whole(call[c].rate) = 0
  /\ crashed' = call[c] /\ call' = [d \in Callers |-> Idle] /\ returned' = Idle
  /\ UNCHANGED <<clock, freq, count, alone>>

Next ==
  /\ crashed = Idle
  /\ \E c \in Callers :
       \/ \E name \in Names(clock), f \in Asked, r \in Rates[clock] : Begin(c, name, f, r)
       \/ Config(c) \/ ConfigFails(c) \/ SetFrequency(c) \/ SetFrequencyFails(c)
       \/ SetCount(c) \/ SetCountFails(c) \/ DividesByZero(c)

Spec == Init /\ [][Next]_vars

----------------------------------------------------------------------------
\* Properties

\* The requests callers make, and the calls they become.
Requests(k) == [name : Names(k), freq : Asked, rate : Rates[k], step : 1 .. 7,
                status : {0, -1}, missed : {0, 1}]

TypeOK ==
  /\ clock \in Clocks /\ freq \in Freqs /\ count \in Int
  /\ call \in [Callers -> Requests(clock) \cup {Idle}]
  /\ returned \in Requests(clock) \cup {Idle} /\ crashed \in Requests(clock) \cup {Idle}
  /\ alone \in BOOLEAN

\* A rate that is a whole number, and not above the frequency it is made from.
Sound(q) == q.rate % Frac = 0 /\ Whole(q.rate) <= q.freq

\* A call for such a rate that succeeds and is not overlapped leaves both
\* registers as they are for that rate: the count neither wraps nor is cut off,
\* the frequency is the one it was computed for, and in PCLK_Setup none of the
\* other writes is missing.  No such rate divides by zero.
RateIsSet ==
  /\ returned # Idle /\ returned.status = 0 /\ alone /\ Sound(returned) =>
       /\ freq = returned.freq
       /\ count = freq \div Whole(returned.rate) - 1
       /\ clock = "pclk" => returned.missed = 0
  /\ crashed # Idle => ~Sound(crashed)
=============================================================================
