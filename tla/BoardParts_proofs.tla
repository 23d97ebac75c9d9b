------------------------- MODULE BoardParts_proofs -------------------------
(***************************************************************************)
(* The board that the run `registers' checks, and its parts.  First what   *)
(* each of the small parts promises: the timer, the DSP's mailbox, the     *)
(* temperature sensor, the DMA status flags, a clock and the gain table.   *)
(* Then that a behaviour of the board is one of every part, so that what   *)
(* is proved of a part holds of the board.                                 *)
(***************************************************************************)
EXTENDS MCRegisters, InterruptEnable_proofs, BoardSettings_proofs, BoardAccess_proofs,
        SequenceTheorems, TLAPS

----------------------------------------------------------------------------
\* The user timer

\* A count is put together from its two bytes.
LEMMA BytesOfCount ==
  /\ \A n \in Timer!Counts : /\ Timer!Lsb(n) \in 0 .. Byte - 1 /\ Timer!Msb(n) \in 0 .. Byte - 1
                             /\ Timer!Msb(n) * Byte + Timer!Lsb(n) = n
  /\ \A b, l \in 0 .. Byte - 1 : b * Byte + l \in Timer!Counts
  /\ 0 \in Timer!Counts /\ 0 \in 0 .. Byte - 1 /\ Timer!None \notin Timer!Counts
  /\ Timer!Counts \subseteq Nat
<1> USE ByteAssumption
<1>1. ASSUME NEW n \in Timer!Counts
      PROVE  /\ Timer!Lsb(n) \in 0 .. Byte - 1 /\ Timer!Msb(n) \in 0 .. Byte - 1
             /\ Timer!Msb(n) * Byte + Timer!Lsb(n) = n
  <2>1. n \in Nat /\ n < Byte * Byte
    BY DEF Timer!Counts
  <2>2. PICK q, r : q = n \div Byte /\ r = n % Byte
    OBVIOUS
  <2>3. q \in Nat /\ r \in 0 .. Byte - 1 /\ n = Byte * q + r
    BY <2>1, <2>2
  <2>4. q < Byte
    <3>1. SUFFICES ASSUME q >= Byte PROVE FALSE
      BY <2>3
    <3>2. Byte * q >= Byte * Byte
      BY <2>3, <3>1
    <3> QED BY <2>1, <2>3, <3>2
  <2>5. q * Byte + r = n
    BY <2>3
  <2> QED BY <2>2, <2>3, <2>4, <2>5 DEF Timer!Lsb, Timer!Msb
<1>2. ASSUME NEW b \in 0 .. Byte - 1, NEW l \in 0 .. Byte - 1 PROVE b * Byte + l \in Timer!Counts
  <2>1. PICK m \in Nat : Byte = b + 1 + m
    <3>1. Byte - 1 - b \in Nat /\ Byte = b + 1 + (Byte - 1 - b)
      OBVIOUS
    <3> QED BY <3>1
  <2>2. b * Byte + l \in Nat
    OBVIOUS
  <2>3. (b + 1) * Byte <= Byte * Byte
    <3>1. (b + 1 + m) * Byte = (b + 1) * Byte + m * Byte
      OBVIOUS
    <3>2. m * Byte >= 0
      OBVIOUS
    <3> QED BY <2>1, <3>1, <3>2
  <2>4. (b + 1) * Byte = b * Byte + Byte
    OBVIOUS
  <2> QED BY <2>2, <2>3, <2>4 DEF Timer!Counts
<1>3. 0 \in Timer!Counts /\ Timer!None \notin Timer!Counts
  <2>1. Byte * Byte >= 1 /\ Byte * Byte \in Nat
    OBVIOUS
  <2> QED BY <2>1 DEF Timer!Counts, Timer!None
<1> QED BY <1>1, <1>2, <1>3 DEF Timer!Counts

\* The accesses of the calls, one by one.
LEMMA AccessesAre ==
  /\ Len(Timer!Accesses("Set_Mode")) = 1 /\ Timer!Accesses("Set_Mode")[1] = "control"
  /\ Len(Timer!Accesses("Set_Divisor")) = 2 /\ Timer!Accesses("Set_Divisor")[1] = "writeLsb"
  /\ Timer!Accesses("Set_Divisor")[2] = "writeMsb"
  /\ Len(Timer!Accesses("Get_Count")) = 4 /\ Timer!Accesses("Get_Count")[1] = "latch"
  /\ Timer!Accesses("Get_Count")[2] = "delay" /\ Timer!Accesses("Get_Count")[3] = "readLsb"
  /\ Timer!Accesses("Get_Count")[4] = "readMsb"
  /\ Len(Timer!Accesses("Get_Mode")) = 3 /\ Timer!Accesses("Get_Mode")[1] = "readBack"
  /\ Timer!Accesses("Get_Mode")[2] = "delay" /\ Timer!Accesses("Get_Mode")[3] = "readStatus"
  /\ Len(Timer!Accesses("Setup")) = 5 /\ Timer!Accesses("Setup")[1] = "source"
  /\ Timer!Accesses("Setup")[2] = "gate" /\ Timer!Accesses("Setup")[3] = "control"
  /\ Timer!Accesses("Setup")[4] = "writeLsb" /\ Timer!Accesses("Setup")[5] = "writeMsb"
BY DEF Timer!Accesses

UtcNames == {"none", "Set_Mode", "Set_Divisor", "Get_Count", "Get_Mode", "Setup"}

TimerCalls ==
  [name : UtcNames, step : 0 .. 5, mode : Modes, divisor : Timer!Counts, value : Nat,
   latched : Nat, ok : BOOLEAN]

ChipType ==
  [count : Timer!Counts, divisor : Timer!Counts, mode : Modes, lsbIn : 0 .. Byte - 1,
   latch : Timer!Counts \cup {Timer!None}, statusLatched : BOOLEAN,
   readMsb : BOOLEAN, writeMsb : BOOLEAN]

\* A call that is not over is before one of its accesses.
InCall(q) ==
  /\ q = Timer!Idle <=> q.name = "none"
  /\ q # Timer!Idle => q.step \in 1 .. Len(Timer!Accesses(q.name))

TimerTypes ==
  /\ uTimer \in ChipType /\ uCall \in [Timer!TimerThreads -> TimerCalls]
  /\ \A c \in Timer!TimerThreads : InCall(uCall[c])
  /\ uReturned \in TimerCalls /\ uAlone \in BOOLEAN /\ uInStep \in BOOLEAN

\* Nothing is latched, and the next byte read or written is the lower one.
Clean == uTimer.latch = Timer!None /\ ~uTimer.statusLatched /\ ~uTimer.readMsb

\* The chip is where the call of c is.
InPlace(c) ==
  LET q == uCall[c]
  IN  /\ q.name = "Set_Mode"    => Clean /\ ~uTimer.writeMsb
      /\ q.name = "Set_Divisor" => Clean /\ (uTimer.writeMsb <=> q.step = 2)
      /\ q.name = "Get_Count"   =>
           /\ ~uTimer.writeMsb /\ ~uTimer.statusLatched
           /\ q.step = 1 => Clean
           /\ q.step # 1 => /\ uTimer.latch = q.latched /\ q.latched \in Timer!Counts
                            /\ uTimer.readMsb <=> q.step = 4
           /\ q.step = 4 => q.value = Timer!Lsb(q.latched)
      /\ q.name = "Get_Mode"    =>
           /\ ~uTimer.writeMsb /\ ~uTimer.readMsb /\ uTimer.latch = Timer!None
           /\ uTimer.statusLatched <=> q.step # 1
      /\ q.name = "Setup"       => Clean /\ (uTimer.writeMsb <=> q.step = 5)

\* What a Setup that nothing has disturbed has loaded so far.
Loading(c) ==
  LET q == uCall[c]
  IN  q.name = "Setup" /\ q.ok /\ q.step \in {4, 5} =>
        /\ uInStep /\ uTimer.mode = q.mode
        /\ q.step = 5 => uTimer.lsbIn = Timer!Lsb(q.divisor)

TimerInv ==
  /\ TimerTypes
  /\ uInStep => uAlone
  /\ uAlone => \A c, d \in Timer!TimerThreads :
                 uCall[c] # Timer!Idle /\ uCall[d] # Timer!Idle => c = d
  /\ uInStep /\ (\A c \in Timer!TimerThreads : uCall[c] = Timer!Idle) => Clean /\ ~uTimer.writeMsb
  /\ uInStep => \A c \in Timer!TimerThreads : InPlace(c)
  /\ uAlone => \A c \in Timer!TimerThreads : Loading(c)
  /\ Timer!SetupLoads /\ Timer!ReadsAreTrue

LEMMA IdleIs ==
  Timer!Idle = [name |-> "none", step |-> 0, mode |-> 0, divisor |-> 0, value |-> 0,
                latched |-> 0, ok |-> TRUE]
  /\ Timer!Idle \in TimerCalls
<1>1. Timer!Idle = [name |-> "none", step |-> 0, mode |-> 0, divisor |-> 0, value |-> 0,
                    latched |-> 0, ok |-> TRUE]
  <2>1. PICK a : a = Timer!AsksFor("none", 0, 0)
    OBVIOUS
  <2>2. a = [name |-> "none", step |-> 1, mode |-> 0, divisor |-> 0, value |-> 0,
             latched |-> 0, ok |-> TRUE]
    BY <2>1 DEF Timer!AsksFor
  <2>3. Timer!Idle = [a EXCEPT !.step = 0]
    BY <2>1 DEF Timer!Idle
  <2> QED BY <2>2, <2>3
<1>2. 0 \in Timer!Counts /\ 0 \in Modes
  BY BytesOfCount, ModesAssumption
<1> QED BY <1>1, <1>2 DEF TimerCalls, UtcNames

LEMMA TimerInvInit == Timer!Init => TimerInv
<1> SUFFICES ASSUME Timer!Init PROVE TimerInv
  OBVIOUS
<1>1. PICK n \in Divisors :
        uTimer = [count |-> n, divisor |-> 0, mode |-> 0, lsbIn |-> 0, latch |-> Timer!None,
                  statusLatched |-> FALSE, readMsb |-> FALSE, writeMsb |-> FALSE]
  BY DEF Timer!Init
<1>2. uTimer \in ChipType
  BY <1>1, BytesOfCount, ModesAssumption, DivisorsAssumption DEF ChipType
<1>3. uCall \in [Timer!TimerThreads -> TimerCalls] /\ uReturned \in TimerCalls
      /\ \A c \in Timer!TimerThreads : uCall[c] = Timer!Idle
  BY IdleIs DEF Timer!Init
<1>4. TimerTypes
  BY <1>2, <1>3, IdleIs DEF TimerTypes, InCall, Timer!Init
<1> QED
  BY <1>3, <1>4, IdleIs DEF TimerInv, InPlace, Loading, Timer!SetupLoads, Timer!ReadsAreTrue, Timer!Init

\* What each access does to the chip, and what the call has read then.
LEMMA EffectIs ==
  ASSUME NEW q
  PROVE  /\ \A a \in {"source", "gate", "delay"} :
              Timer!Effect(a, q).chip = uTimer /\ Timer!Effect(a, q).value = q.value
         /\ Timer!Effect("control", q).chip = Timer!Control(q.mode)
         /\ Timer!Effect("control", q).value = q.value
         /\ Timer!Effect("writeLsb", q).chip = Timer!WriteByte(Timer!Lsb(q.divisor))
         /\ Timer!Effect("writeLsb", q).value = q.value
         /\ Timer!Effect("writeMsb", q).chip = Timer!WriteByte(Timer!Msb(q.divisor))
         /\ Timer!Effect("writeMsb", q).value = q.value
         /\ Timer!Effect("latch", q).chip = Timer!Latch
         /\ Timer!Effect("latch", q).value = q.value
         /\ Timer!Effect("readLsb", q).chip = Timer!AfterRead
         /\ Timer!Effect("readLsb", q).value = Timer!ByteRead
         /\ Timer!Effect("readMsb", q).chip = Timer!AfterRead
         /\ Timer!Effect("readMsb", q).value = Timer!ByteRead * Byte + q.value
         /\ Timer!Effect("readBack", q).chip = [uTimer EXCEPT !.statusLatched = TRUE]
         /\ Timer!Effect("readBack", q).value = q.value
         /\ Timer!Effect("readStatus", q).chip = Timer!AfterRead
         /\ Timer!Effect("readStatus", q).value = Timer!ByteRead
BY DEF Timer!Effect, Timer!ControlWord, Timer!FirstByte, Timer!SecondByte, Timer!LatchCommand

AccessNames ==
  {"source", "gate", "delay", "control", "writeLsb", "writeMsb", "latch", "readLsb", "readMsb",
   "readBack", "readStatus"}

LEMMA EffectTyped ==
  ASSUME uTimer \in ChipType, NEW q \in TimerCalls, NEW a \in AccessNames
  PROVE  Timer!Effect(a, q).chip \in ChipType /\ Timer!Effect(a, q).value \in Nat
<1>1. Timer!ByteRead \in Nat /\ Timer!AfterRead \in ChipType
  <2>1. Timer!Source \in Timer!Counts
    BY DEF Timer!Source, ChipType
  <2>2. Timer!Msb(Timer!Source) \in Nat /\ Timer!Lsb(Timer!Source) \in Nat /\ uTimer.mode \in Nat
    <3>1. Timer!Msb(Timer!Source) \in 0 .. Byte - 1 /\ Timer!Lsb(Timer!Source) \in 0 .. Byte - 1
      BY <2>1, BytesOfCount
    <3>2. uTimer.mode \in Nat
      BY ModesAssumption DEF ChipType
    <3> QED BY <3>1, <3>2, ByteAssumption
  <2>3. Timer!ByteRead \in Nat
    BY <2>2 DEF Timer!ByteRead
  <2>4. Timer!AfterRead \in ChipType
    BY DEF Timer!AfterRead, ChipType
  <2> QED BY <2>3, <2>4
<1>2. Timer!Control(q.mode) \in ChipType
  BY DEF Timer!Control, ChipType, TimerCalls
<1>3. ASSUME NEW b \in 0 .. Byte - 1 PROVE Timer!WriteByte(b) \in ChipType
  <2>1. b * Byte + uTimer.lsbIn \in Timer!Counts
    BY BytesOfCount DEF ChipType
  <2> QED BY <2>1 DEF Timer!WriteByte, ChipType
<1>4. Timer!Lsb(q.divisor) \in 0 .. Byte - 1 /\ Timer!Msb(q.divisor) \in 0 .. Byte - 1
  BY BytesOfCount DEF TimerCalls
<1>5. Timer!Latch \in ChipType /\ [uTimer EXCEPT !.statusLatched = TRUE] \in ChipType
  BY DEF Timer!Latch, ChipType
<1>6. q.value \in Nat /\ Timer!ByteRead * Byte + q.value \in Nat
  BY <1>1, ByteAssumption DEF TimerCalls
<1> QED BY EffectIs, <1>1, <1>2, <1>3, <1>4, <1>5, <1>6, ZenonT(40) DEF AccessNames


\* The chip after each kind of access, field by field.
LEMMA AfterControl ==
  ASSUME uTimer \in ChipType, NEW m, uTimer' = Timer!Control(m)
  PROVE  /\ uTimer'.mode = m /\ uTimer'.latch = Timer!None /\ ~uTimer'.statusLatched
         /\ ~uTimer'.readMsb /\ ~uTimer'.writeMsb
BY DEF Timer!Control, ChipType

LEMMA AfterWrite ==
  ASSUME uTimer \in ChipType, NEW b \in 0 .. Byte - 1, uTimer' = Timer!WriteByte(b)
  PROVE  /\ uTimer'.mode = uTimer.mode /\ uTimer'.latch = uTimer.latch
         /\ uTimer'.statusLatched <=> uTimer.statusLatched
         /\ uTimer'.readMsb <=> uTimer.readMsb
         /\ uTimer'.writeMsb <=> ~uTimer.writeMsb
         /\ uTimer.writeMsb => uTimer'.divisor = b * Byte + uTimer.lsbIn
         /\ ~uTimer.writeMsb => uTimer'.lsbIn = b
<1>1. PICK n : n = b * Byte + uTimer.lsbIn
  OBVIOUS
<1>2. CASE uTimer.writeMsb
  <2>1. uTimer' = [uTimer EXCEPT !.divisor = n, !.writeMsb = FALSE]
    BY <1>1, <1>2 DEF Timer!WriteByte
  <2> QED BY <1>1, <1>2, <2>1 DEF ChipType
<1>3. CASE ~uTimer.writeMsb
  BY <1>3 DEF Timer!WriteByte, ChipType
<1> QED BY <1>2, <1>3

LEMMA AfterLatch ==
  ASSUME uTimer \in ChipType, uTimer' = Timer!Latch
  PROVE  /\ uTimer'.mode = uTimer.mode /\ uTimer'.lsbIn = uTimer.lsbIn
         /\ uTimer.latch = Timer!None => uTimer'.latch = uTimer.count
         /\ uTimer'.statusLatched <=> uTimer.statusLatched
         /\ uTimer'.readMsb <=> uTimer.readMsb
         /\ uTimer'.writeMsb <=> uTimer.writeMsb
BY DEF Timer!Latch, ChipType

LEMMA AfterByteRead ==
  ASSUME uTimer \in ChipType, uTimer' = Timer!AfterRead
  PROVE  /\ uTimer'.mode = uTimer.mode /\ uTimer'.lsbIn = uTimer.lsbIn
         /\ ~uTimer'.statusLatched
         /\ uTimer'.writeMsb <=> uTimer.writeMsb
         /\ uTimer.statusLatched =>
              /\ uTimer'.latch = uTimer.latch
              /\ uTimer'.readMsb <=> uTimer.readMsb
              /\ Timer!ByteRead = uTimer.mode
         /\ ~uTimer.statusLatched /\ uTimer.readMsb =>
              /\ uTimer'.latch = Timer!None /\ ~uTimer'.readMsb
              /\ uTimer.latch # Timer!None => Timer!ByteRead = Timer!Msb(uTimer.latch)
         /\ ~uTimer.statusLatched /\ ~uTimer.readMsb =>
              /\ uTimer'.latch = uTimer.latch /\ uTimer'.readMsb
              /\ uTimer.latch # Timer!None => Timer!ByteRead = Timer!Lsb(uTimer.latch)
BY DEF Timer!AfterRead, Timer!ByteRead, Timer!Source, ChipType

LEMMA AfterReadBack ==
  ASSUME uTimer \in ChipType, uTimer' = [uTimer EXCEPT !.statusLatched = TRUE]
  PROVE  /\ uTimer'.mode = uTimer.mode /\ uTimer'.lsbIn = uTimer.lsbIn
         /\ uTimer'.latch = uTimer.latch /\ uTimer'.statusLatched
         /\ uTimer'.readMsb <=> uTimer.readMsb
         /\ uTimer'.writeMsb <=> uTimer.writeMsb
BY DEF ChipType

\* The call q of c goes on, or returns, with the value v and the latched count l.
GoesOnWith(c, q, v, l) ==
  /\ uCall'[c].name = q.name /\ uCall'[c].step = q.step + 1 /\ uCall'[c].mode = q.mode
  /\ uCall'[c].divisor = q.divisor /\ uCall'[c].value = v /\ uCall'[c].latched = l
  /\ uCall'[c].ok <=> q.ok
  /\ uCall'[c] # Timer!Idle /\ uCall'[c] \in TimerCalls /\ UNCHANGED uReturned

ReturnsWith(c, q, v, l) ==
  /\ uCall'[c] = Timer!Idle /\ uReturned' \in TimerCalls
  /\ q.ok => /\ uReturned'.name = q.name /\ uReturned'.mode = q.mode
             /\ uReturned'.divisor = q.divisor /\ uReturned'.value = v
             /\ uReturned'.latched = l
  /\ ~q.ok => uReturned'.name = "none"

\* What access a, number k of the n accesses of the call q of c, does.
Moves(c, q, a, v, l, k, n) ==
  /\ q = uCall[c] /\ q.name # "none" /\ a = Timer!Accesses(q.name)[q.step]
  /\ uTimer' = Timer!Effect(a, q).chip /\ v = Timer!Effect(a, q).value
  /\ l = IF a = "latch" THEN uTimer.count ELSE q.latched
  /\ uAlone' = uAlone /\ uInStep' = IF a = "control" THEN uAlone ELSE uInStep
  /\ uCall' = [uCall EXCEPT ![c] = uCall'[c]]
  /\ k = q.step /\ n = Len(Timer!Accesses(q.name)) /\ k <= n
  /\ k < n => GoesOnWith(c, q, v, l)
  /\ k = n => ReturnsWith(c, q, v, l)

LEMMA AccessMoves ==
  ASSUME TimerTypes, NEW c \in Timer!TimerThreads, Timer!Access(c)
  PROVE  \E q \in TimerCalls, a \in AccessNames, v, l \in Nat, k, n \in 1 .. 5 :
           Moves(c, q, a, v, l, k, n)
<1>1. PICK q \in TimerCalls : q = uCall[c]
  BY DEF TimerTypes
<1>2. /\ InCall(q) /\ uTimer \in ChipType /\ q # Timer!Idle /\ q.name # "none"
      /\ uCall \in [Timer!TimerThreads -> TimerCalls]
      /\ q.step \in 1 .. Len(Timer!Accesses(q.name))
  BY <1>1 DEF TimerTypes, Timer!Access, InCall
<1>3. Timer!Accesses(q.name)[q.step] \in AccessNames /\ Len(Timer!Accesses(q.name)) \in 1 .. 5
  BY <1>2, AccessesAre DEF InCall, TimerCalls, UtcNames, AccessNames
<1>4. PICK a \in AccessNames : a = Timer!Accesses(q.name)[q.step]
  BY <1>3
<1>5. PICK v \in Nat : v = Timer!Effect(a, q).value
  BY <1>2, EffectTyped
<1>6. PICK l \in Nat : l = IF a = "latch" THEN uTimer.count ELSE q.latched
  <2>1. uTimer.count \in Nat /\ q.latched \in Nat
    BY <1>2, BytesOfCount DEF ChipType, TimerCalls
  <2> QED BY <2>1
<1>7. PICK r : r = [q EXCEPT !.value = v, !.latched = l]
  OBVIOUS
<1>8. /\ uTimer' = Timer!Effect(a, q).chip /\ Timer!GoesOn(c, r)
      /\ uAlone' = uAlone /\ uInStep' = IF a = "control" THEN uAlone ELSE uInStep
  BY <1>1, <1>4, <1>5, <1>6, <1>7 DEF Timer!Access
<1>9. /\ r \in TimerCalls /\ r.name = q.name /\ r.step = q.step /\ r.mode = q.mode
      /\ r.divisor = q.divisor /\ r.value = v /\ r.latched = l /\ (r.ok <=> q.ok)
  BY <1>7 DEF TimerCalls
<1>10. PICK n \in 1 .. 5 : n = Len(Timer!Accesses(q.name))
  BY <1>3
<1>11. PICK k \in 1 .. 5 : k = q.step /\ k <= n
  <2>1. PICK k \in 1 .. n : k = q.step
    BY <1>2, <1>10
  <2> QED BY <2>1
<1>12. CASE k < n
  <2>1. PICK t : t = [r EXCEPT !.step = k + 1]
    OBVIOUS
  <2>2. k + 1 \in 0 .. 5
    BY <1>12
  <2>3. /\ t \in TimerCalls /\ t.name = r.name /\ t.step = k + 1 /\ t.mode = r.mode
        /\ t.divisor = r.divisor /\ t.value = r.value /\ t.latched = r.latched
        /\ t.ok <=> r.ok
    BY <1>9, <2>1, <2>2 DEF TimerCalls
  <2>4. t # Timer!Idle
    BY <1>2, <1>9, <2>3, IdleIs
  <2>5. r.step < Len(Timer!Accesses(r.name)) /\ t = [r EXCEPT !.step = r.step + 1]
    BY <1>9, <1>10, <1>11, <1>12, <2>1
  <2>6. uCall' = [uCall EXCEPT ![c] = t] /\ UNCHANGED uReturned
    BY <1>8, <2>5 DEF Timer!GoesOn
  <2>7. uCall'[c] = t
    BY <1>2, <2>6
  <2>8. GoesOnWith(c, q, v, l)
    BY <1>9, <1>11, <2>3, <2>4, <2>6, <2>7 DEF GoesOnWith
  <2>9. k # n
    BY <1>12
  <2>10. uCall' = [uCall EXCEPT ![c] = uCall'[c]]
    BY <2>6, <2>7
  <2>11. Moves(c, q, a, v, l, k, n)
    BY ONLY <1>1, <1>2, <1>4, <1>5, <1>6, <1>8, <1>10, <1>11, <2>8, <2>9, <2>10, Zenon DEF Moves
  <2> QED BY <2>11
<1>13. CASE ~(k < n)
  <2>1. ~(r.step < Len(Timer!Accesses(r.name)))
    BY <1>9, <1>10, <1>11, <1>13
  <2>2. uCall' = [uCall EXCEPT ![c] = Timer!Idle] /\ uReturned' = IF r.ok THEN r ELSE Timer!Idle
    BY <1>8, <2>1 DEF Timer!GoesOn, Timer!Returns
  <2>3. uCall'[c] = Timer!Idle
    BY <1>2, <2>2
  <2>4. ReturnsWith(c, q, v, l)
    BY <1>9, <2>2, <2>3, IdleIs DEF ReturnsWith
  <2>5. uCall' = [uCall EXCEPT ![c] = uCall'[c]]
    BY <2>2, <2>3
  <2>6. Moves(c, q, a, v, l, k, n)
    BY ONLY <1>1, <1>2, <1>4, <1>5, <1>6, <1>8, <1>10, <1>11, <1>13, <2>4, <2>5, Zenon DEF Moves
  <2> QED BY <2>6
<1> QED BY <1>12, <1>13

LEMMA TypesAfterAccess ==
  ASSUME TimerTypes, NEW c \in Timer!TimerThreads, Timer!Access(c)
  PROVE  TimerTypes'
<1>1. PICK q \in TimerCalls, a \in AccessNames, v \in Nat, l \in Nat, k \in 1 .. 5, n \in 1 .. 5 :
        Moves(c, q, a, v, l, k, n)
  BY AccessMoves
<1>2. uTimer' \in ChipType /\ uAlone' \in BOOLEAN /\ uInStep' \in BOOLEAN
  BY <1>1, EffectTyped DEF TimerTypes, Moves
<1>3. uCall'[c] \in TimerCalls /\ uReturned' \in TimerCalls /\ InCall(uCall'[c])
  <2>1. CASE k < n
    BY <1>1, <2>1, IdleIs DEF GoesOnWith, InCall, TimerTypes, Moves
  <2>2. CASE k = n
    BY <1>1, <2>2, IdleIs DEF ReturnsWith, InCall, Moves
  <2>3. k < n \/ k = n
    BY <1>1 DEF Moves
  <2> QED BY <2>1, <2>2, <2>3
<1>4. PICK r : r = uCall'[c]
  OBVIOUS
<1>5. uCall' = [uCall EXCEPT ![c] = r]
  BY <1>1, <1>4 DEF Moves
<1> QED BY <1>2, <1>3, <1>4, <1>5 DEF TimerTypes

\* The invariant of a call that no other overlaps is about that call alone.
AfterStep(c) ==
  /\ uCall[c] # Timer!Idle => (uInStep => InPlace(c)) /\ Loading(c)
  /\ uCall[c] = Timer!Idle =>
       /\ uInStep => Clean /\ ~uTimer.writeMsb
       /\ uReturned.name = "Setup" =>
            uTimer.mode = uReturned.mode /\ uTimer.divisor = uReturned.divisor /\ uInStep
       /\ uInStep => /\ uReturned.name = "Get_Count" => uReturned.value = uReturned.latched
                     /\ uReturned.name = "Get_Mode"  => uReturned.value = uTimer.mode

LEMMA AloneKeeps ==
  ASSUME TimerInv, TimerTypes', NEW c \in Timer!TimerThreads,
         uAlone' = uAlone, uInStep' => uAlone,
         \A d \in Timer!TimerThreads \ {c} : uCall'[d] = uCall[d],
         uCall[c] # Timer!Idle, uAlone => AfterStep(c)'
  PROVE  TimerInv'
<1>1. uAlone => \A d \in Timer!TimerThreads \ {c} : uCall'[d] = Timer!Idle
  BY DEF TimerInv
<1>2. uAlone => /\ \A d \in Timer!TimerThreads \ {c} : InPlace(d)' /\ Loading(d)'
                /\ uCall'[c] = Timer!Idle => InPlace(c)' /\ Loading(c)'
  BY <1>1, IdleIs DEF InPlace, Loading
<1>3. uAlone => \A d, b \in Timer!TimerThreads :
                  uCall'[d] # Timer!Idle /\ uCall'[b] # Timer!Idle => d = b
  BY <1>1
<1>4. Timer!SetupLoads' /\ Timer!ReadsAreTrue'
  BY DEF Timer!SetupLoads, Timer!ReadsAreTrue, AfterStep
<1>5. uInStep' => \A d \in Timer!TimerThreads : InPlace(d)'
  BY <1>2 DEF AfterStep
<1>6. uAlone' => \A d \in Timer!TimerThreads : Loading(d)'
  BY <1>2 DEF AfterStep
<1>7. uInStep' /\ (\A d \in Timer!TimerThreads : uCall'[d] = Timer!Idle)
        => Clean' /\ ~uTimer'.writeMsb
  BY DEF AfterStep
<1> QED BY <1>3, <1>4, <1>5, <1>6, <1>7 DEF TimerInv

LEMMA AccessKeeps ==
  ASSUME TimerInv, NEW c \in Timer!TimerThreads, Timer!Access(c)
  PROVE  TimerInv'
<1>1. TimerTypes /\ TimerTypes' /\ uTimer \in ChipType
  BY TypesAfterAccess DEF TimerInv, TimerTypes
<1>2a. PICK q \in TimerCalls, a \in AccessNames, v \in Nat, l \in Nat, k \in 1 .. 5, n \in 1 .. 5 :
         Moves(c, q, a, v, l, k, n)
  BY <1>1, AccessMoves
<1>2. /\ q \in TimerCalls /\ a \in AccessNames /\ v \in Nat /\ l \in Nat /\ k \in 1 .. 5 /\ n \in 1 .. 5
      /\ q = uCall[c] /\ q.name # "none"
      /\ a = Timer!Accesses(q.name)[q.step]
      /\ uTimer' = Timer!Effect(a, q).chip /\ v = Timer!Effect(a, q).value
      /\ l = IF a = "latch" THEN uTimer.count ELSE q.latched
      /\ uAlone' = uAlone /\ uInStep' = IF a = "control" THEN uAlone ELSE uInStep
      /\ uCall' = [uCall EXCEPT ![c] = uCall'[c]]
      /\ k = q.step /\ n = Len(Timer!Accesses(q.name)) /\ k <= n
      /\ k < n => GoesOnWith(c, q, v, l)
      /\ k = n => ReturnsWith(c, q, v, l)
  BY ONLY <1>2a, Zenon DEF Moves
<1>3. /\ uInStep => InPlace(c) /\ uAlone
      /\ uAlone => Loading(c)
  BY DEF TimerInv
<1>4. /\ uTimer.count \in Timer!Counts /\ q.divisor \in Timer!Counts
      /\ Timer!None \notin Timer!Counts /\ Timer!Lsb(q.divisor) \in 0 .. Byte - 1
  <2>1. uTimer.count \in Timer!Counts /\ q.divisor \in Timer!Counts
    BY <1>1 DEF ChipType, TimerCalls
  <2> QED BY <2>1, BytesOfCount
<1>5. ASSUME uAlone PROVE AfterStep(c)'
  <2>1. CASE q.name = "Set_Mode" /\ k = 1
    <3>1. Timer!Accesses(q.name) = Timer!Accesses("Set_Mode") /\ q.step = 1
      BY <1>2, <2>1
    <3>2. a = "control" /\ n = 1
      BY <1>2, <3>1, AccessesAre
    <3>3. ReturnsWith(c, q, v, l)
      BY <1>2, <2>1, <3>2
    <3>4. uTimer' = Timer!Control(q.mode) /\ v = q.value
      BY ONLY <1>2, <3>2, EffectIs, ZenonT(40)
    <3>5. /\ uTimer'.mode = q.mode /\ uTimer'.latch = Timer!None /\ ~uTimer'.statusLatched
          /\ ~uTimer'.readMsb /\ ~uTimer'.writeMsb
      BY <1>1, <1>4, <3>4, AfterControl
    <3> QED
      BY <1>2, <1>3, <1>4, <1>5, <2>1, <3>1, <3>2, <3>3, <3>4, <3>5, IdleIs DEF AfterStep, InPlace, Loading, Clean, ReturnsWith
  <2>2. CASE q.name = "Set_Divisor" /\ k = 1
    <3>1. Timer!Accesses(q.name) = Timer!Accesses("Set_Divisor") /\ q.step = 1
      BY <1>2, <2>2
    <3>2. a = "writeLsb" /\ n = 2
      BY <1>2, <3>1, AccessesAre
    <3>a. k < n
      BY <2>2, <3>2
    <3>3. GoesOnWith(c, q, v, l)
      BY <1>2, <2>2, <3>2, <3>a
    <3>4. uTimer' = Timer!WriteByte(Timer!Lsb(q.divisor)) /\ v = q.value
      BY ONLY <1>2, <3>2, EffectIs, ZenonT(40)
    <3>5. /\ uTimer'.mode = uTimer.mode /\ uTimer'.latch = uTimer.latch
          /\ uTimer'.statusLatched <=> uTimer.statusLatched
          /\ uTimer'.readMsb <=> uTimer.readMsb
          /\ uTimer'.writeMsb <=> ~uTimer.writeMsb
          /\ ~uTimer.writeMsb => uTimer'.lsbIn = Timer!Lsb(q.divisor)
      BY <1>1, <1>4, <3>4, AfterWrite
    <3> QED
      BY <1>2, <1>3, <1>4, <1>5, <2>2, <3>1, <3>2, <3>3, <3>4, <3>5, IdleIs DEF AfterStep, InPlace, Loading, Clean, GoesOnWith
  <2>3. CASE q.name = "Set_Divisor" /\ k = 2
    <3>1. Timer!Accesses(q.name) = Timer!Accesses("Set_Divisor") /\ q.step = 2
      BY <1>2, <2>3
    <3>2. a = "writeMsb" /\ n = 2
      BY <1>2, <3>1, AccessesAre
    <3>3. ReturnsWith(c, q, v, l)
      BY <1>2, <2>3, <3>2
    <3>4. uTimer' = Timer!WriteByte(Timer!Msb(q.divisor)) /\ v = q.value
      BY ONLY <1>2, <3>2, EffectIs, ZenonT(40)
    <3>5. /\ uTimer'.mode = uTimer.mode /\ uTimer'.latch = uTimer.latch
          /\ uTimer'.statusLatched <=> uTimer.statusLatched
          /\ uTimer'.readMsb <=> uTimer.readMsb
          /\ uTimer'.writeMsb <=> ~uTimer.writeMsb
          /\ uTimer.writeMsb /\ uTimer.lsbIn = Timer!Lsb(q.divisor) => uTimer'.divisor = q.divisor
      <4>1. Timer!Msb(q.divisor) \in 0 .. Byte - 1
        BY <1>4, BytesOfCount
      <4>2. Timer!Msb(q.divisor) * Byte + Timer!Lsb(q.divisor) = q.divisor
        BY <1>4, BytesOfCount
      <4> QED BY <1>1, <3>4, <4>1, <4>2, AfterWrite
    <3> QED
      BY <1>2, <1>3, <1>4, <1>5, <2>3, <3>1, <3>2, <3>3, <3>4, <3>5, IdleIs DEF AfterStep, InPlace, Loading, Clean, ReturnsWith
  <2>4. CASE q.name = "Get_Count" /\ k = 1
    <3>1. Timer!Accesses(q.name) = Timer!Accesses("Get_Count") /\ q.step = 1
      BY <1>2, <2>4
    <3>2. a = "latch" /\ n = 4
      BY <1>2, <3>1, AccessesAre
    <3>a. k < n
      BY <2>4, <3>2
    <3>3. GoesOnWith(c, q, v, l)
      BY <1>2, <2>4, <3>2, <3>a
    <3>4. uTimer' = Timer!Latch /\ v = q.value
      BY ONLY <1>2, <3>2, EffectIs, ZenonT(40)
    <3>5. /\ uTimer.latch = Timer!None => uTimer'.latch = uTimer.count
          /\ uTimer'.statusLatched <=> uTimer.statusLatched
          /\ uTimer'.readMsb <=> uTimer.readMsb
          /\ uTimer'.writeMsb <=> uTimer.writeMsb
      BY <1>1, <1>4, <3>4, AfterLatch
    <3> QED
      BY <1>2, <1>3, <1>4, <1>5, <2>4, <3>1, <3>2, <3>3, <3>4, <3>5, IdleIs DEF AfterStep, InPlace, Loading, Clean, GoesOnWith
  <2>5. CASE q.name = "Get_Count" /\ k = 2
    <3>1. Timer!Accesses(q.name) = Timer!Accesses("Get_Count") /\ q.step = 2
      BY <1>2, <2>5
    <3>2. a = "delay" /\ n = 4
      BY <1>2, <3>1, AccessesAre
    <3>a. k < n
      BY <2>5, <3>2
    <3>3. GoesOnWith(c, q, v, l)
      BY <1>2, <2>5, <3>2, <3>a
    <3>4. uTimer' = uTimer /\ v = q.value
      BY ONLY <1>2, <3>2, EffectIs, ZenonT(40)
    <3> QED
      BY <1>2, <1>3, <1>4, <1>5, <2>5, <3>1, <3>2, <3>3, <3>4, IdleIs DEF AfterStep, InPlace, Loading, Clean, GoesOnWith
  <2>6. CASE q.name = "Get_Count" /\ k = 3
    <3>1. Timer!Accesses(q.name) = Timer!Accesses("Get_Count") /\ q.step = 3
      BY <1>2, <2>6
    <3>2. a = "readLsb" /\ n = 4
      BY <1>2, <3>1, AccessesAre
    <3>a. k < n
      BY <2>6, <3>2
    <3>3. GoesOnWith(c, q, v, l)
      BY <1>2, <2>6, <3>2, <3>a
    <3>4. uTimer' = Timer!AfterRead /\ v = Timer!ByteRead
      BY ONLY <1>2, <3>2, EffectIs, ZenonT(40)
    <3>5. /\ ~uTimer'.statusLatched
          /\ uTimer'.writeMsb <=> uTimer.writeMsb
          /\ ~uTimer.statusLatched /\ ~uTimer.readMsb /\ uTimer.latch \in Timer!Counts =>
               uTimer'.latch = uTimer.latch /\ uTimer'.readMsb /\ v = Timer!Lsb(uTimer.latch)
      BY <1>1, <1>4, <3>4, AfterByteRead
    <3> QED
      BY <1>2, <1>3, <1>4, <1>5, <2>6, <3>1, <3>2, <3>3, <3>4, <3>5, IdleIs DEF AfterStep, InPlace, Loading, Clean, GoesOnWith
  <2>7. CASE q.name = "Get_Count" /\ k = 4
    <3>1. Timer!Accesses(q.name) = Timer!Accesses("Get_Count") /\ q.step = 4
      BY <1>2, <2>7
    <3>2. a = "readMsb" /\ n = 4
      BY <1>2, <3>1, AccessesAre
    <3>3. ReturnsWith(c, q, v, l)
      BY <1>2, <2>7, <3>2
    <3>4. uTimer' = Timer!AfterRead /\ v = Timer!ByteRead * Byte + q.value
      <4>1. uTimer' = Timer!Effect("readMsb", q).chip /\ v = Timer!Effect("readMsb", q).value
        BY ONLY <1>2, <3>2, Zenon
      <4> QED BY ONLY <4>1, EffectIs
    <3>5. /\ ~uTimer'.statusLatched
          /\ uTimer'.writeMsb <=> uTimer.writeMsb
          /\ ~uTimer.statusLatched /\ uTimer.readMsb /\ uTimer.latch \in Timer!Counts =>
               /\ uTimer'.latch = Timer!None /\ ~uTimer'.readMsb
               /\ q.value = Timer!Lsb(uTimer.latch) => v = uTimer.latch
      <4>1. uTimer.latch \in Timer!Counts =>
              Timer!Msb(uTimer.latch) * Byte + Timer!Lsb(uTimer.latch) = uTimer.latch
        BY BytesOfCount
      <4> QED BY <1>1, <1>4, <3>4, <4>1, AfterByteRead
    <3> QED
      BY <1>2, <1>3, <1>4, <1>5, <2>7, <3>1, <3>2, <3>3, <3>4, <3>5, IdleIs DEF AfterStep, InPlace, Loading, Clean, ReturnsWith
  <2>8. CASE q.name = "Get_Mode" /\ k = 1
    <3>1. Timer!Accesses(q.name) = Timer!Accesses("Get_Mode") /\ q.step = 1
      BY <1>2, <2>8
    <3>2. a = "readBack" /\ n = 3
      BY <1>2, <3>1, AccessesAre
    <3>a. k < n
      BY <2>8, <3>2
    <3>3. GoesOnWith(c, q, v, l)
      BY <1>2, <2>8, <3>2, <3>a
    <3>4. uTimer' = [uTimer EXCEPT !.statusLatched = TRUE] /\ v = q.value
      BY ONLY <1>2, <3>2, EffectIs, ZenonT(40)
    <3>5. /\ uTimer'.latch = uTimer.latch /\ uTimer'.statusLatched
          /\ uTimer'.readMsb <=> uTimer.readMsb
          /\ uTimer'.writeMsb <=> uTimer.writeMsb
      BY <1>1, <1>4, <3>4, AfterReadBack
    <3> QED
      BY <1>2, <1>3, <1>4, <1>5, <2>8, <3>1, <3>2, <3>3, <3>4, <3>5, IdleIs DEF AfterStep, InPlace, Loading, Clean, GoesOnWith
  <2>9. CASE q.name = "Get_Mode" /\ k = 2
    <3>1. Timer!Accesses(q.name) = Timer!Accesses("Get_Mode") /\ q.step = 2
      BY <1>2, <2>9
    <3>2. a = "delay" /\ n = 3
      BY <1>2, <3>1, AccessesAre
    <3>a. k < n
      BY <2>9, <3>2
    <3>3. GoesOnWith(c, q, v, l)
      BY <1>2, <2>9, <3>2, <3>a
    <3>4. uTimer' = uTimer /\ v = q.value
      BY ONLY <1>2, <3>2, EffectIs, ZenonT(40)
    <3> QED
      BY <1>2, <1>3, <1>4, <1>5, <2>9, <3>1, <3>2, <3>3, <3>4, IdleIs DEF AfterStep, InPlace, Loading, Clean, GoesOnWith
  <2>10. CASE q.name = "Get_Mode" /\ k = 3
    <3>1. Timer!Accesses(q.name) = Timer!Accesses("Get_Mode") /\ q.step = 3
      BY <1>2, <2>10
    <3>2. a = "readStatus" /\ n = 3
      BY <1>2, <3>1, AccessesAre
    <3>3. ReturnsWith(c, q, v, l)
      BY <1>2, <2>10, <3>2
    <3>4. uTimer' = Timer!AfterRead /\ v = Timer!ByteRead
      BY ONLY <1>2, <3>2, EffectIs, ZenonT(40)
    <3>5. /\ uTimer'.mode = uTimer.mode /\ ~uTimer'.statusLatched
          /\ uTimer'.writeMsb <=> uTimer.writeMsb
          /\ uTimer.statusLatched => /\ uTimer'.latch = uTimer.latch /\ v = uTimer.mode
                                     /\ uTimer'.readMsb <=> uTimer.readMsb
      BY <1>1, <1>4, <3>4, AfterByteRead
    <3> QED
      BY <1>2, <1>3, <1>4, <1>5, <2>10, <3>1, <3>2, <3>3, <3>4, <3>5, IdleIs DEF AfterStep, InPlace, Loading, Clean, ReturnsWith
  <2>11. CASE q.name = "Setup" /\ k = 1
    <3>1. Timer!Accesses(q.name) = Timer!Accesses("Setup") /\ q.step = 1
      BY <1>2, <2>11
    <3>2. a = "source" /\ n = 5
      BY <1>2, <3>1, AccessesAre
    <3>a. k < n
      BY <2>11, <3>2
    <3>3. GoesOnWith(c, q, v, l)
      BY <1>2, <2>11, <3>2, <3>a
    <3>4. uTimer' = uTimer /\ v = q.value
      BY ONLY <1>2, <3>2, EffectIs, ZenonT(40)
    <3> QED
      BY <1>2, <1>3, <1>4, <1>5, <2>11, <3>1, <3>2, <3>3, <3>4, IdleIs DEF AfterStep, InPlace, Loading, Clean, GoesOnWith
  <2>12. CASE q.name = "Setup" /\ k = 2
    <3>1. Timer!Accesses(q.name) = Timer!Accesses("Setup") /\ q.step = 2
      BY <1>2, <2>12
    <3>2. a = "gate" /\ n = 5
      BY <1>2, <3>1, AccessesAre
    <3>a. k < n
      BY <2>12, <3>2
    <3>3. GoesOnWith(c, q, v, l)
      BY <1>2, <2>12, <3>2, <3>a
    <3>4. uTimer' = uTimer /\ v = q.value
      BY ONLY <1>2, <3>2, EffectIs, ZenonT(40)
    <3> QED
      BY <1>2, <1>3, <1>4, <1>5, <2>12, <3>1, <3>2, <3>3, <3>4, IdleIs DEF AfterStep, InPlace, Loading, Clean, GoesOnWith
  <2>13. CASE q.name = "Setup" /\ k = 3
    <3>1. Timer!Accesses(q.name) = Timer!Accesses("Setup") /\ q.step = 3
      BY <1>2, <2>13
    <3>2. a = "control" /\ n = 5
      BY <1>2, <3>1, AccessesAre
    <3>a. k < n
      BY <2>13, <3>2
    <3>3. GoesOnWith(c, q, v, l)
      BY <1>2, <2>13, <3>2, <3>a
    <3>4. uTimer' = Timer!Control(q.mode) /\ v = q.value
      BY ONLY <1>2, <3>2, EffectIs, ZenonT(40)
    <3>5. /\ uTimer'.mode = q.mode /\ uTimer'.latch = Timer!None /\ ~uTimer'.statusLatched
          /\ ~uTimer'.readMsb /\ ~uTimer'.writeMsb
      BY <1>1, <1>4, <3>4, AfterControl
    <3> QED
      BY <1>2, <1>3, <1>4, <1>5, <2>13, <3>1, <3>2, <3>3, <3>4, <3>5, IdleIs DEF AfterStep, InPlace, Loading, Clean, GoesOnWith
  <2>14. CASE q.name = "Setup" /\ k = 4
    <3>1. Timer!Accesses(q.name) = Timer!Accesses("Setup") /\ q.step = 4
      BY <1>2, <2>14
    <3>2. a = "writeLsb" /\ n = 5
      BY <1>2, <3>1, AccessesAre
    <3>a. k < n
      BY <2>14, <3>2
    <3>3. GoesOnWith(c, q, v, l)
      BY <1>2, <2>14, <3>2, <3>a
    <3>4. uTimer' = Timer!WriteByte(Timer!Lsb(q.divisor)) /\ v = q.value
      BY ONLY <1>2, <3>2, EffectIs, ZenonT(40)
    <3>5. /\ uTimer'.mode = uTimer.mode /\ uTimer'.latch = uTimer.latch
          /\ uTimer'.statusLatched <=> uTimer.statusLatched
          /\ uTimer'.readMsb <=> uTimer.readMsb
          /\ uTimer'.writeMsb <=> ~uTimer.writeMsb
          /\ ~uTimer.writeMsb => uTimer'.lsbIn = Timer!Lsb(q.divisor)
      BY <1>1, <1>4, <3>4, AfterWrite
    <3> QED
      BY <1>2, <1>3, <1>4, <1>5, <2>14, <3>1, <3>2, <3>3, <3>4, <3>5, IdleIs DEF AfterStep, InPlace, Loading, Clean, GoesOnWith
  <2>15. CASE q.name = "Setup" /\ k = 5
    <3>1. Timer!Accesses(q.name) = Timer!Accesses("Setup") /\ q.step = 5
      BY <1>2, <2>15
    <3>2. a = "writeMsb" /\ n = 5
      BY <1>2, <3>1, AccessesAre
    <3>3. ReturnsWith(c, q, v, l)
      BY <1>2, <2>15, <3>2
    <3>4. uTimer' = Timer!WriteByte(Timer!Msb(q.divisor)) /\ v = q.value
      BY ONLY <1>2, <3>2, EffectIs, ZenonT(40)
    <3>5. /\ uTimer'.mode = uTimer.mode /\ uTimer'.latch = uTimer.latch
          /\ uTimer'.statusLatched <=> uTimer.statusLatched
          /\ uTimer'.readMsb <=> uTimer.readMsb
          /\ uTimer'.writeMsb <=> ~uTimer.writeMsb
          /\ uTimer.writeMsb /\ uTimer.lsbIn = Timer!Lsb(q.divisor) => uTimer'.divisor = q.divisor
      <4>1. Timer!Msb(q.divisor) \in 0 .. Byte - 1
        BY <1>4, BytesOfCount
      <4>2. Timer!Msb(q.divisor) * Byte + Timer!Lsb(q.divisor) = q.divisor
        BY <1>4, BytesOfCount
      <4> QED BY <1>1, <3>4, <4>1, <4>2, AfterWrite
    <3> QED
      BY <1>2, <1>3, <1>4, <1>5, <2>15, <3>1, <3>2, <3>3, <3>4, <3>5, IdleIs DEF AfterStep, InPlace, Loading, Clean, ReturnsWith
  <2>16. \/ q.name = "Set_Mode" /\ n = 1
         \/ q.name = "Set_Divisor" /\ n = 2
         \/ q.name = "Get_Count" /\ n = 4
         \/ q.name = "Get_Mode" /\ n = 3
         \/ q.name = "Setup" /\ n = 5
    BY <1>2, AccessesAre DEF TimerCalls, UtcNames
  <2>17. k \in {1, 2, 3, 4, 5} /\ k <= n
    BY <1>2
  <2> QED
    BY <2>1, <2>2, <2>3, <2>4, <2>5, <2>6, <2>7, <2>8,
       <2>9, <2>10, <2>11, <2>12, <2>13, <2>14, <2>15, <2>16, <2>17
<1>6. \A d \in Timer!TimerThreads \ {c} : uCall'[d] = uCall[d]
  BY <1>1, <1>2 DEF TimerTypes
<1>7. uCall[c] # Timer!Idle /\ (uInStep' => uAlone)
  BY <1>2, <1>3, IdleIs
<1> QED BY <1>1, <1>2, <1>5, <1>6, <1>7, AloneKeeps

\* A failing access ends the call, or it goes on as one that has failed.
LEMMA FailureKeeps ==
  ASSUME TimerInv, NEW c \in Timer!TimerThreads, Timer!AccessFails(c)
  PROVE  TimerInv'
<1>1. TimerTypes
  BY DEF TimerInv
<1>2. PICK q \in TimerCalls : q = uCall[c]
  BY <1>1 DEF TimerTypes
<1>3. PICK f : f = [q EXCEPT !.ok = FALSE]
  OBVIOUS
<1>4. f \in TimerCalls /\ f.name = q.name /\ f.step = q.step /\ ~f.ok
  BY <1>2, <1>3 DEF TimerCalls
<1>5. q # Timer!Idle /\ q.name # "none" /\ UNCHANGED <<uTimer, uAlone>> /\ uInStep' = FALSE
  BY <1>1, <1>2 DEF Timer!AccessFails, TimerTypes, InCall
<1>6. PICK n \in 1 .. 5 : n = Len(Timer!Accesses(q.name))
  <2>1. Len(Timer!Accesses(q.name)) \in 1 .. 5
    BY <1>5, AccessesAre DEF TimerCalls, UtcNames
  <2> QED BY <2>1
<1>7. PICK k \in 1 .. n : k = q.step
  BY <1>1, <1>2, <1>5, <1>6 DEF TimerTypes, InCall
<1>8. Timer!GoesOn(c, f) \/ Timer!Returns(c, f)
  BY <1>2, <1>3 DEF Timer!AccessFails
<1>9. PICK r \in TimerCalls :
        /\ uCall' = [uCall EXCEPT ![c] = r] /\ InCall(r)
        /\ r # Timer!Idle => ~r.ok /\ uReturned' = uReturned
        /\ r = Timer!Idle => uReturned' = Timer!Idle
  <2>1. CASE k < n /\ Timer!GoesOn(c, f)
    <3>1. PICK t : t = [f EXCEPT !.step = k + 1]
      OBVIOUS
    <3>2. k + 1 \in 1 .. n /\ k + 1 \in 0 .. 5
      BY <2>1
    <3>3. t \in TimerCalls /\ t.name = q.name /\ t.step = k + 1 /\ ~t.ok
      BY <1>4, <3>1, <3>2 DEF TimerCalls
    <3>4. t # Timer!Idle /\ t.step \in 1 .. Len(Timer!Accesses(t.name))
      BY <1>5, <1>6, <3>2, <3>3, IdleIs
    <3>5. f.step < Len(Timer!Accesses(f.name)) /\ t = [f EXCEPT !.step = f.step + 1]
      BY <1>4, <1>6, <1>7, <2>1, <3>1
    <3>6. uCall' = [uCall EXCEPT ![c] = t] /\ uReturned' = uReturned
      BY <2>1, <3>5 DEF Timer!GoesOn
    <3> QED BY <1>5, <3>3, <3>4, <3>6 DEF InCall
  <2>2. CASE Timer!Returns(c, f) \/ ~(k < n)
    <3>1. ~(k < n) => ~(f.step < Len(Timer!Accesses(f.name)))
      BY <1>4, <1>6, <1>7
    <3>2. Timer!Returns(c, f)
      BY <1>8, <2>2, <3>1 DEF Timer!GoesOn
    <3>3. uCall' = [uCall EXCEPT ![c] = Timer!Idle] /\ uReturned' = Timer!Idle
      BY <1>4, <3>2 DEF Timer!Returns
    <3> QED BY <3>3, IdleIs DEF InCall
  <2> QED BY <1>8, <2>1, <2>2
<1>10. uCall \in [Timer!TimerThreads -> TimerCalls] /\ uReturned \in TimerCalls
  BY <1>1 DEF TimerTypes
<1>11. uCall'[c] = r /\ \A d \in Timer!TimerThreads \ {c} : uCall'[d] = uCall[d]
  BY <1>9, <1>10
<1>12. TimerTypes'
  <2>1. uCall' \in [Timer!TimerThreads -> TimerCalls] /\ uReturned' \in TimerCalls
    BY <1>9, <1>10, IdleIs
  <2>2. \A d \in Timer!TimerThreads : InCall(uCall'[d])
    BY <1>1, <1>9, <1>11 DEF TimerTypes
  <2> QED BY <1>1, <1>5, <2>1, <2>2 DEF TimerTypes
<1>13. AfterStep(c)'
  BY <1>5, <1>9, <1>11, IdleIs DEF AfterStep, Loading
<1> QED BY <1>2, <1>5, <1>11, <1>12, <1>13, AloneKeeps

LEMMA BeginKeeps ==
  ASSUME TimerInv, NEW c \in Timer!TimerThreads,
         NEW q \in Timer!Reads \cup Timer!Settings, Timer!Begin(c, q)
  PROVE  TimerInv'
<1>1. TimerTypes
  BY DEF TimerInv
<1>2. /\ q.name \in UtcNames \ {"none"} /\ q.step = 1 /\ q.mode \in Modes
      /\ q.divisor \in Timer!Counts /\ q \in TimerCalls
  <2>1. PICK name \in UtcNames \ {"none"}, m \in Modes, d \in Timer!Counts :
          q = Timer!AsksFor(name, m, d)
    <3>1. 0 \in Timer!Counts /\ 0 \in Modes /\ Divisors \subseteq Timer!Counts
      BY BytesOfCount, ModesAssumption, DivisorsAssumption
    <3> QED BY <3>1 DEF Timer!Reads, Timer!Settings, UtcNames
  <2>2. q = [name |-> name, step |-> 1, mode |-> m, divisor |-> d, value |-> 0,
             latched |-> 0, ok |-> TRUE]
    BY <2>1 DEF Timer!AsksFor
  <2> QED BY <2>1, <2>2 DEF TimerCalls
<1>3. /\ uCall[c] = Timer!Idle /\ uCall' = [uCall EXCEPT ![c] = q] /\ uReturned' = Timer!Idle
      /\ uAlone' <=> \A d \in Timer!TimerThreads \ {c} : uCall[d] = Timer!Idle
      /\ uAlone' \in BOOLEAN /\ uInStep' \in BOOLEAN
      /\ uInStep' <=> uInStep /\ uAlone'
      /\ uTimer' = uTimer
  BY <1>1 DEF Timer!Begin, TimerTypes
<1>4. /\ uCall \in [Timer!TimerThreads -> TimerCalls]
      /\ uCall'[c] = q /\ \A d \in Timer!TimerThreads \ {c} : uCall'[d] = uCall[d]
  BY <1>1, <1>3 DEF TimerTypes
<1>5. q # Timer!Idle /\ InCall(q)
  <2>1. q # Timer!Idle
    BY <1>2, IdleIs
  <2>2. PICK n \in 1 .. 5 : n = Len(Timer!Accesses(q.name))
    BY <1>2, AccessesAre DEF UtcNames
  <2>3. 1 \in 1 .. n
    OBVIOUS
  <2> QED BY <1>2, <2>1, <2>2, <2>3 DEF InCall
<1>6. TimerTypes'
  <2>1. \A d \in Timer!TimerThreads : InCall(uCall'[d])
    BY <1>1, <1>4, <1>5 DEF TimerTypes
  <2> QED BY <1>1, <1>2, <1>3, <1>4, <2>1, IdleIs DEF TimerTypes
<1>7. uInStep' => Clean /\ ~uTimer.writeMsb
  BY <1>3 DEF TimerInv
<1>8. uInStep' => \A d \in Timer!TimerThreads : InPlace(d)'
  <2> SUFFICES ASSUME uInStep', NEW d \in Timer!TimerThreads PROVE InPlace(d)'
    OBVIOUS
  <2>1. CASE d = c
    BY <1>2, <1>3, <1>4, <1>7, <2>1 DEF InPlace, Clean
  <2>2. CASE d # c
    BY <1>3, <1>4, <2>2, IdleIs DEF InPlace
  <2> QED BY <2>1, <2>2
<1>9. uAlone' => \A d \in Timer!TimerThreads : Loading(d)'
  <2> SUFFICES ASSUME uAlone', NEW d \in Timer!TimerThreads PROVE Loading(d)'
    OBVIOUS
  <2>1. CASE d = c
    BY <1>2, <1>4, <2>1 DEF Loading
  <2>2. CASE d # c
    BY <1>3, <1>4, <2>2, IdleIs DEF Loading
  <2> QED BY <2>1, <2>2
<1>10. ~(\A d \in Timer!TimerThreads : uCall'[d] = Timer!Idle)
  BY <1>4, <1>5
<1>11. Timer!SetupLoads' /\ Timer!ReadsAreTrue'
  BY <1>10 DEF Timer!SetupLoads, Timer!ReadsAreTrue
<1>12. uAlone' => \A d, b \in Timer!TimerThreads :
                   uCall'[d] # Timer!Idle /\ uCall'[b] # Timer!Idle => d = b
  BY <1>3, <1>4
<1> QED BY <1>3, <1>6, <1>8, <1>9, <1>10, <1>11, <1>12 DEF TimerInv

LEMMA TickKeeps ==
  ASSUME TimerInv, Timer!Tick
  PROVE  TimerInv'
<1>1. PICK n \in Divisors : uTimer' = [uTimer EXCEPT !.count = n]
  BY DEF Timer!Tick
<1>2. UNCHANGED <<uCall, uReturned, uAlone, uInStep>>
  BY DEF Timer!Tick
<1>3. uTimer \in ChipType /\ n \in Timer!Counts
  BY DivisorsAssumption DEF TimerInv, TimerTypes
<1>4. /\ uTimer' \in ChipType /\ uTimer'.mode = uTimer.mode /\ uTimer'.latch = uTimer.latch
      /\ uTimer'.lsbIn = uTimer.lsbIn /\ uTimer'.divisor = uTimer.divisor
      /\ uTimer'.statusLatched <=> uTimer.statusLatched
      /\ uTimer'.readMsb <=> uTimer.readMsb
      /\ uTimer'.writeMsb <=> uTimer.writeMsb
  BY <1>1, <1>3 DEF ChipType
<1>5. TimerTypes'
  BY <1>2, <1>4 DEF TimerInv, TimerTypes
<1>6. (Clean' <=> Clean) /\ Timer!SetupLoads' /\ Timer!ReadsAreTrue'
  BY <1>2, <1>4 DEF TimerInv, Clean, Timer!SetupLoads, Timer!ReadsAreTrue
<1>7. \A c \in Timer!TimerThreads : (InPlace(c) => InPlace(c)') /\ (Loading(c) => Loading(c)')
  BY <1>2, <1>4, <1>6 DEF InPlace, Loading
<1> QED BY <1>2, <1>4, <1>5, <1>6, <1>7 DEF TimerInv

LEMMA TimerInvStep == TimerInv /\ [Timer!Next]_uVars => TimerInv'
<1> SUFFICES ASSUME TimerInv, [Timer!Next]_uVars PROVE TimerInv'
  OBVIOUS
<1>1. CASE UNCHANGED uVars
  BY <1>1 DEF uVars, TimerInv, TimerTypes, ChipType, Clean, InPlace, Loading,
              Timer!SetupLoads, Timer!ReadsAreTrue
<1>2. ASSUME NEW c \in Timer!TimerThreads, NEW q \in Timer!Reads \cup Timer!Settings,
             Timer!Begin(c, q)
      PROVE  TimerInv'
  BY <1>2, BeginKeeps
<1>3. ASSUME NEW c \in Timer!TimerThreads, Timer!Access(c) PROVE TimerInv'
  BY <1>3, AccessKeeps
<1>4. ASSUME NEW c \in Timer!TimerThreads, Timer!AccessFails(c) PROVE TimerInv'
  BY <1>4, FailureKeeps
<1>5. CASE Timer!Tick
  BY <1>5, TickKeeps
<1> QED BY <1>1, <1>2, <1>3, <1>4, <1>5 DEF Timer!Next

LEMMA TimerIsSound ==
  Timer!Spec => [](Timer!TypeOK /\ Timer!SetupLoads /\ Timer!ReadsAreTrue)
<1>1. UNCHANGED Timer!vars => UNCHANGED uVars
  BY DEF Timer!vars, uVars
<1>4. TimerInv /\ [Timer!Next]_Timer!vars => TimerInv'
  BY <1>1, TimerInvStep
<1>2. TimerInv => Timer!TypeOK
  BY DEF TimerInv, TimerTypes, ChipType, TimerCalls, Timer!TypeOK
<1>3. TimerInv => Timer!SetupLoads /\ Timer!ReadsAreTrue
  BY DEF TimerInv
<1> QED BY TimerInvInit, <1>2, <1>3, <1>4, PTL DEF Timer!Spec

----------------------------------------------------------------------------
\* The DSP's mailbox

\* What the SRAM holds of a call that nothing has disturbed: the parameters it
\* has written so far.
Mail(c) ==
  /\ mAt[c] \in {"write1", "write2", "write3", "calibrate"} => mSram[0] = c
  /\ mAt[c] \in {"write2", "write3", "calibrate"} => mSram[1] = c
  /\ mAt[c] \in {"write3", "calibrate"} => mSram[2] = c
  /\ mAt[c] = "calibrate" => mSram[3] = c
  /\ mAt[c] \in {"write0", "write1", "write2", "write3", "calibrate"} => mCommand = "none"
  /\ mAt[c] \in {"poll", "major", "minor"} => mCommand # "calibrate"

DspInv ==
  /\ Dsp!TypeOK
  /\ mAlone => /\ \A c, d \in Callers : mAt[c] # "idle" /\ mAt[d] # "idle" => c = d
               /\ \A c \in Callers : Mail(c)
               /\ mCommand = "calibrate" => /\ \A c \in Callers : mAt[c] = "idle"
                                            /\ \A w \in Dsp!Words : mSram[w] = mSender

LEMMA DspInvInit == Dsp!Init => DspInv
<1> SUFFICES ASSUME Dsp!Init PROVE DspInv
  OBVIOUS
<1>1. Dsp!TypeOK
  BY PollsAssumption DEF Dsp!Init, Dsp!TypeOK, Dsp!Results
<1> QED BY <1>1 DEF Dsp!Init, DspInv, Mail

LEMMA DspTypeStep == Dsp!TypeOK /\ [Dsp!Next]_mVars => Dsp!TypeOK'
<1> SUFFICES ASSUME Dsp!TypeOK, [Dsp!Next]_mVars PROVE Dsp!TypeOK'
  OBVIOUS
<1> USE PollsAssumption DEF Dsp!TypeOK, Dsp!Goes
<1>0. /\ Callers \subseteq Dsp!Results
      /\ {"old", "version", "junk", "none"} \subseteq Dsp!Results
  BY DEF Dsp!Results
<1>1. ASSUME NEW c \in Callers, NEW name \in {"calibrate", "version"}, NEW r \in 0 .. 5,
             Dsp!Returns(c, name, r)
      PROVE  /\ mAt' \in [Callers -> {"idle", "write0", "write1", "write2", "write3", "calibrate",
                                      "poll", "major", "minor"}]
             /\ mRetries' \in [Callers -> 0 .. Polls - 1]
             /\ mTold' \in [Callers -> Dsp!Results \X Dsp!Results]
             /\ mReturned' \in [call : {"none", "calibrate", "version"}, result : 0 .. 5,
                                told : Dsp!Results \X Dsp!Results]
  BY <1>0, <1>1 DEF Dsp!Returns
<1>2. ASSUME NEW c \in Callers, Dsp!CalibrateBegin(c) PROVE Dsp!TypeOK'
  BY <1>2 DEF Dsp!CalibrateBegin, Dsp!Begins
<1>3. ASSUME NEW c \in Callers, Dsp!CalibrateSend(c) PROVE Dsp!TypeOK'
  BY <1>3, <1>1 DEF Dsp!CalibrateSend, Dsp!Send
<1>4. ASSUME NEW c \in Callers, NEW w \in Dsp!Words, Dsp!CalibrateWrite(c, w) PROVE Dsp!TypeOK'
  <2>1. mSram' \in [Dsp!Words -> Dsp!Results]
    BY <1>0, <1>4 DEF Dsp!CalibrateWrite
  <2>2. Dsp!AfterWrite(w) \in {"write1", "write2", "write3", "calibrate"}
    BY DEF Dsp!AfterWrite, Dsp!Words, Dsp!Writing
  <2> QED BY <1>4, <2>1, <2>2 DEF Dsp!CalibrateWrite
<1>5. ASSUME NEW c \in Callers, NEW w \in Dsp!Words, Dsp!CalibrateWriteFails(c, w)
      PROVE  Dsp!TypeOK'
  <2>1. w + 1 \in 0 .. 5
    BY DEF Dsp!Words
  <2> QED BY <1>1, <1>5, <2>1 DEF Dsp!CalibrateWriteFails
<1>6. ASSUME NEW c \in Callers, Dsp!VersionBegin(c) PROVE Dsp!TypeOK'
  BY <1>6, <1>1 DEF Dsp!VersionBegin, Dsp!Send, Dsp!Begins
<1>7. ASSUME NEW c \in Callers, Dsp!VersionPoll(c) PROVE Dsp!TypeOK'
  BY <1>7, <1>1 DEF Dsp!VersionPoll
<1>8. ASSUME NEW c \in Callers, Dsp!VersionMajor(c) PROVE Dsp!TypeOK'
  <2>1. PICK v \in Dsp!WordRead(0) : mTold' = [mTold EXCEPT ![c] = <<v, "none">>]
    BY <1>8 DEF Dsp!VersionMajor
  <2>2. v \in Dsp!Results
    BY <1>0 DEF Dsp!WordRead, Dsp!Words
  <2> QED BY <1>0, <1>8, <2>1, <2>2 DEF Dsp!VersionMajor
<1>9. ASSUME NEW c \in Callers, Dsp!VersionMinor(c) PROVE Dsp!TypeOK'
  <2>1. PICK v \in Dsp!WordRead(1) :
          mReturned' = [call |-> "version", result |-> 0, told |-> <<mTold[c][1], v>>]
    BY <1>9 DEF Dsp!VersionMinor
  <2>2. v \in Dsp!Results /\ mTold[c][1] \in Dsp!Results
    BY <1>0 DEF Dsp!WordRead, Dsp!Words
  <2> QED BY <1>0, <1>9, <2>1, <2>2 DEF Dsp!VersionMinor
<1>10. CASE Dsp!DspCalibrates
  BY <1>10 DEF Dsp!DspCalibrates
<1>11. CASE Dsp!DspAnswers
  BY <1>0, <1>11 DEF Dsp!DspAnswers
<1>12. CASE UNCHANGED mVars
  BY <1>12 DEF mVars
<1> QED
  BY <1>2, <1>3, <1>4, <1>5, <1>6, <1>7, <1>8, <1>9, <1>10, <1>11, <1>12 DEF Dsp!Next

LEMMA DspInvStep == DspInv /\ [Dsp!Next]_mVars => DspInv'
<1> SUFFICES ASSUME DspInv, [Dsp!Next]_mVars PROVE DspInv'
  OBVIOUS
<1>0. Dsp!TypeOK /\ Dsp!TypeOK'
  BY DspTypeStep DEF DspInv
<1> DEFINE One == mAlone => \A c, d \in Callers : mAt[c] # "idle" /\ mAt[d] # "idle" => c = d
           Mails == mAlone => \A c \in Callers : Mail(c)
           Sent == mAlone /\ mCommand = "calibrate" =>
                     /\ \A c \in Callers : mAt[c] = "idle"
                     /\ \A w \in Dsp!Words : mSram[w] = mSender
<1>a. One /\ Mails /\ Sent
  BY DEF DspInv
<1>b. SUFFICES One' /\ Mails' /\ Sent'
  BY <1>0 DEF DspInv
<1> HIDE DEF One, Mails, Sent
<1>c. mAt \in [Callers -> {"idle", "write0", "write1", "write2", "write3", "calibrate",
                           "poll", "major", "minor"}]
      /\ mTold \in [Callers -> Dsp!Results \X Dsp!Results] /\ mAlone \in BOOLEAN
      /\ mSram \in [Dsp!Words -> Dsp!Results]
  BY <1>0 DEF Dsp!TypeOK
<1> USE DEF Dsp!Goes, One, Mails, Sent
<1>1. ASSUME NEW c \in Callers, Dsp!CalibrateBegin(c)
      PROVE  One' /\ Mails' /\ Sent'
  BY <1>a, <1>c, <1>1 DEF Dsp!CalibrateBegin, Dsp!Begins, Mail
<1>2. ASSUME NEW c \in Callers, Dsp!CalibrateSend(c)
      PROVE  One' /\ Mails' /\ Sent'
  BY <1>a, <1>c, <1>2
  DEF Dsp!CalibrateSend, Dsp!Send, Dsp!Returns, Mail, Dsp!Words
<1>3. ASSUME NEW c \in Callers, NEW w \in Dsp!Words, Dsp!CalibrateWrite(c, w)
      PROVE  One' /\ Mails' /\ Sent'
  <2>1. /\ mAt[c] = Dsp!Writing[w] /\ mAt' = [mAt EXCEPT ![c] = Dsp!AfterWrite(w)]
        /\ mSram' = [mSram EXCEPT ![w] = c]
        /\ UNCHANGED <<mCommand, mSender, mRetries, mTold, mReturned, mAlone>>
    BY <1>3 DEF Dsp!CalibrateWrite
  <2>2. \/ w = 0 /\ mAt[c] = "write0" /\ mAt' = [mAt EXCEPT ![c] = "write1"]
        \/ w = 1 /\ mAt[c] = "write1" /\ mAt' = [mAt EXCEPT ![c] = "write2"]
        \/ w = 2 /\ mAt[c] = "write2" /\ mAt' = [mAt EXCEPT ![c] = "write3"]
        \/ w = 3 /\ mAt[c] = "write3" /\ mAt' = [mAt EXCEPT ![c] = "calibrate"]
    <3>1. Dsp!Writing[0] = "write0" /\ Dsp!Writing[1] = "write1" /\ Dsp!Writing[2] = "write2"
          /\ Dsp!Writing[3] = "write3"
      BY DEF Dsp!Words, Dsp!Writing
    <3>2. CASE w = 0
      <4>1. Dsp!AfterWrite(0) = "write1"
        <5>1. 0 + 1 = 1 /\ 0 # 3
          OBVIOUS
        <5> QED BY <3>1, <5>1, Zenon DEF Dsp!AfterWrite
      <4> QED BY <2>1, <3>1, <3>2, <4>1
    <3>3. CASE w = 1
      <4>1. Dsp!AfterWrite(1) = "write2"
        <5>1. 1 + 1 = 2 /\ 1 # 3
          OBVIOUS
        <5> QED BY <3>1, <5>1, Zenon DEF Dsp!AfterWrite
      <4> QED BY <2>1, <3>1, <3>3, <4>1
    <3>4. CASE w = 2
      <4>1. Dsp!AfterWrite(2) = "write3"
        <5>1. 2 + 1 = 3 /\ 2 # 3
          OBVIOUS
        <5> QED BY <3>1, <5>1, Zenon DEF Dsp!AfterWrite
      <4> QED BY <2>1, <3>1, <3>4, <4>1
    <3>5. CASE w = 3
      BY <2>1, <3>1, <3>5 DEF Dsp!AfterWrite
    <3> QED BY <3>2, <3>3, <3>4, <3>5 DEF Dsp!Words
  <2>3. One'
    BY <1>a, <1>c, <2>1, <2>2
  <2>4. Mails'
    BY <1>a, <1>c, <2>1, <2>2 DEF Mail, Dsp!Words
  <2>5. Sent'
    BY <1>a, <1>c, <2>1, <2>2 DEF Mail
  <2> QED BY <2>3, <2>4, <2>5
<1>4. ASSUME NEW c \in Callers, NEW w \in Dsp!Words, Dsp!CalibrateWriteFails(c, w)
      PROVE  One' /\ Mails' /\ Sent'
  BY <1>a, <1>c, <1>4 DEF Dsp!CalibrateWriteFails, Dsp!Returns, Mail
<1>5. ASSUME NEW c \in Callers, Dsp!VersionBegin(c)
      PROVE  One' /\ Mails' /\ Sent'
  <2>1. /\ mAt[c] = "idle" /\ mSram' = mSram
        /\ mAlone' <=> mCommand = "none" /\ \A d \in Callers \ {c} : mAt[d] = "idle"
    BY <1>5 DEF Dsp!VersionBegin, Dsp!Begins
  <2>2. CASE Dsp!Send(c, "version") /\ Dsp!Goes(c, "poll") /\ UNCHANGED <<mRetries, mTold, mReturned>>
    BY <1>a, <1>c, <2>1, <2>2 DEF Dsp!Send, Mail
  <2>3. CASE Dsp!Returns(c, "version", 1) /\ UNCHANGED <<mCommand, mSender>>
    BY <1>a, <1>c, <2>1, <2>3 DEF Dsp!Returns, Mail
  <2> QED BY <1>5, <2>2, <2>3 DEF Dsp!VersionBegin
<1>6. ASSUME NEW c \in Callers, Dsp!VersionPoll(c)
      PROVE  One' /\ Mails' /\ Sent'
  BY <1>a, <1>c, <1>6
  DEF Dsp!VersionPoll, Dsp!IsComplete, Dsp!Returns, Mail
<1>7. ASSUME NEW c \in Callers, Dsp!VersionMajor(c)
      PROVE  One' /\ Mails' /\ Sent'
  BY <1>a, <1>c, <1>7 DEF Dsp!VersionMajor, Dsp!WordRead, Mail
<1>8. ASSUME NEW c \in Callers, Dsp!VersionMinor(c)
      PROVE  One' /\ Mails' /\ Sent'
  BY <1>a, <1>c, <1>8 DEF Dsp!VersionMinor, Dsp!WordRead, Mail
<1>9. ASSUME Dsp!DspCalibrates PROVE One' /\ Mails' /\ Sent'
  BY <1>a, <1>c, <1>9 DEF Dsp!DspCalibrates, Mail
<1>10. ASSUME Dsp!DspAnswers PROVE One' /\ Mails' /\ Sent'
  BY <1>a, <1>c, <1>10 DEF Dsp!DspAnswers, Mail, Dsp!Words
<1>11. ASSUME UNCHANGED mVars PROVE One' /\ Mails' /\ Sent'
  BY <1>a, <1>11 DEF mVars, Mail
<1> QED
  BY <1>1, <1>2, <1>3, <1>4, <1>5, <1>6, <1>7, <1>8, <1>9, <1>10, <1>11 DEF Dsp!Next

\* The mailbox is what it is declared to be, and the DSP calibrates with the
\* parameters of one call.
LEMMA DspIsSound == Dsp!Spec => []Dsp!TypeOK /\ Dsp!CalibratesAsAsked
<1>1. UNCHANGED Dsp!vars => UNCHANGED mVars
  BY DEF Dsp!vars, mVars
<1>2. DspInv /\ [Dsp!Next]_Dsp!vars => DspInv'
  BY <1>1, DspInvStep
<1>3. DspInv => Dsp!TypeOK
  BY DEF DspInv
<1>4. DspInv => [Dsp!DspCalibrates /\ mAlone => \A w \in Dsp!Words : mSram[w] = mSender]_Dsp!vars
  BY DEF DspInv, Dsp!DspCalibrates
<1> QED BY DspInvInit, <1>2, <1>3, <1>4, PTL DEF Dsp!Spec, Dsp!CalibratesAsAsked

----------------------------------------------------------------------------
\* The temperature sensor

\* What a call that nobody disturbs knows of the sensor at its place.
SensorKnows(c) ==
  tFailed[c] = FALSE =>
    /\ tStep[c] \in {2, 7} => tPtr = "status"
    /\ tStep[c] \in {3, 8} /\ tData # "busy" => tBusy = "nobody"
    /\ tStep[c] \in {4, 5} => tBusy = "nobody"
    /\ tStep[c] = 5 => tPtr = "oneShot"
    /\ tStep[c] \in {6, 7, 8} => tBusy = c \/ (tBusy = "nobody" /\ tTemp = c)
    /\ tStep[c] \in {9, 10, 11} => tBusy = "nobody" /\ tTemp = c
    /\ tStep[c] = 10 => tPtr = "temp"
    /\ tStep[c] = 11 => tData = c

SensorInv ==
  /\ Sensor!TypeOK /\ Sensor!TempIsFresh
  /\ tAlone => \A c \in Callers :
       tStep[c] # 0 => SensorKnows(c) /\ \A d \in Callers \ {c} : tStep[d] = 0

LEMMA ScriptIs ==
  /\ Len(Sensor!Script) = 11
  /\ \A s \in 1 .. 11 :
       Sensor!Script[s] = CASE s \in {1, 6} -> "ptrStatus" [] s \in {2, 7, 10} -> "goRead"
                            [] s \in {3, 8} -> "readStatus" [] s = 4 -> "ptrOneShot"
                            [] s = 5 -> "goWrite" [] s = 9 -> "ptrTemp" [] s = 11 -> "readTemp"
BY DEF Sensor!Script

\* The effect of an access at a place.
LEMMA SensorEffect ==
  ASSUME NEW c \in Callers, NEW s \in 1 .. 11, Sensor!Effect(c, s)
  PROVE  /\ s \in {1, 6} => tPtr' = "status" /\ UNCHANGED <<tData, tBusy>>
         /\ s \in {2, 7, 10} => tData' = Sensor!Transfer /\ UNCHANGED <<tPtr, tBusy>>
         /\ s \in {3, 8, 11} => UNCHANGED <<tPtr, tData, tBusy>>
         /\ s = 4 => tPtr' = "oneShot" /\ UNCHANGED <<tData, tBusy>>
         /\ s = 5 => /\ tBusy' = IF tPtr = "oneShot" /\ tBusy = "nobody" THEN c ELSE tBusy
                     /\ UNCHANGED <<tPtr, tData>>
         /\ s = 9 => tPtr' = "temp" /\ UNCHANGED <<tData, tBusy>>
BY ScriptIs DEF Sensor!Effect, Sensor!Nobody

LEMMA SensorInvInit == Sensor!Init => SensorInv
BY ScriptIs DEF Sensor!Init, SensorInv, Sensor!TypeOK, Sensor!TempIsFresh, Sensor!Nobody

\* An access and what follows it, whether it has failed or not.
LEMMA SensorAccess ==
  ASSUME SensorInv, NEW c \in Callers, tStep[c] # 0, NEW bad \in BOOLEAN,
         Sensor!Effect(c, tStep[c]) \/ (bad = TRUE /\ UNCHANGED <<tPtr, tData, tBusy>>),
         Sensor!GoesOn(c, tStep[c], bad), UNCHANGED <<tTemp, tAlone>>,
         bad = FALSE => tFailed[c] = FALSE
  PROVE  SensorInv'
<1> DEFINE s == tStep[c]
<1>0. Sensor!TypeOK /\ s \in 1 .. 11
  BY ScriptIs DEF SensorInv, Sensor!TypeOK
<1>1. Sensor!Transfer \in {"idle", "busy", "junk", "nobody"} \cup Callers
  BY <1>0 DEF Sensor!Transfer, Sensor!TypeOK, Sensor!Nobody
<1>2. /\ tPtr' \in {"status", "oneShot", "temp"} /\ tBusy' \in Callers \cup {"nobody"}
      /\ tData' \in {"idle", "busy", "junk", "nobody"} \cup Callers
  <2>1. CASE Sensor!Effect(c, s)
    BY <1>0, <1>1, <2>1, SensorEffect, SMTT(30) DEF Sensor!TypeOK, Sensor!Nobody
  <2>2. CASE UNCHANGED <<tPtr, tData, tBusy>>
    BY <1>0, <2>2 DEF Sensor!TypeOK, Sensor!Nobody
  <2> QED BY <2>1, <2>2
<1>3. \/ s \in {3, 5, 8, 11} /\ bad = TRUE /\ Sensor!Returns(c, FALSE, "nobody")
      \/ s = 11 /\ bad = FALSE /\ Sensor!Returns(c, TRUE, tData)
      \/ /\ s # 11 /\ (s \in {3, 5, 8} => bad = FALSE) /\ UNCHANGED tReturned
         /\ tStep' = [tStep EXCEPT ![c] = IF s \in {3, 8} /\ tData = "busy" THEN s - 2 ELSE s + 1]
         /\ tFailed' = [tFailed EXCEPT ![c] = bad]
  <2>1. Sensor!Checks(s) <=> s \in {3, 5, 8, 11}
    BY <1>0, ScriptIs DEF Sensor!Checks
  <2>2. Sensor!Again(s) <=> s \in {3, 8} /\ tData = "busy"
    BY DEF Sensor!Again
  <2> HIDE DEF s
  <2>3. Sensor!GoesOn(c, s, bad)
    BY DEF s
  <2>4. CASE Sensor!Checks(s) /\ bad
    BY <2>1, <2>3, <2>4 DEF Sensor!GoesOn, Sensor!Nobody
  <2>5. CASE ~(Sensor!Checks(s) /\ bad) /\ s = 11
    BY <2>1, <2>3, <2>5, ScriptIs DEF Sensor!GoesOn
  <2>6. CASE ~(Sensor!Checks(s) /\ bad) /\ s # 11
    BY <2>1, <2>2, <2>3, <2>6, ScriptIs DEF Sensor!GoesOn
  <2> QED BY <2>4, <2>5, <2>6
<1>4. Sensor!TypeOK'
  <2>1. tStep' \in [Callers -> 0 .. 11] /\ tFailed' \in [Callers -> BOOLEAN]
    <3>1. s # 11 => (IF s \in {3, 8} /\ tData = "busy" THEN s - 2 ELSE s + 1) \in 0 .. 11
      BY <1>0
    <3>2. tStep \in [Callers -> 0 .. 11] /\ tFailed \in [Callers -> BOOLEAN]
      BY <1>0, ScriptIs DEF Sensor!TypeOK
    <3>3. PICK n \in 0 .. 11, b \in BOOLEAN :
            tStep' = [tStep EXCEPT ![c] = n] /\ tFailed' = [tFailed EXCEPT ![c] = b]
      <4> DEFINE n == IF s \in {3, 8} /\ tData = "busy" THEN s - 2 ELSE s + 1
      <4>1. CASE Sensor!Returns(c, FALSE, "nobody") \/ Sensor!Returns(c, TRUE, tData)
        BY <4>1, 0 \in 0 .. 11, FALSE \in BOOLEAN DEF Sensor!Returns
      <4>2. CASE s # 11 /\ tStep' = [tStep EXCEPT ![c] = n] /\ tFailed' = [tFailed EXCEPT ![c] = bad]
        <5>1. n \in 0 .. 11
          BY <3>1, <4>2
        <5> HIDE DEF n
        <5> QED BY <4>2, <5>1
      <4> QED BY <1>3, <4>1, <4>2
    <3> QED BY <3>2, <3>3
  <2>2. tReturned'.temp \in {"idle", "busy", "junk", "nobody"} \cup Callers
    BY <1>0, <1>3 DEF Sensor!TypeOK, Sensor!Returns, Sensor!Nobody
  <2> QED BY <1>0, <1>2, <2>1, <2>2, ScriptIs DEF Sensor!TypeOK, Sensor!Nobody
<1>5. \A d \in Callers \ {c} : tStep'[d] = tStep[d]
  BY <1>0, <1>3 DEF Sensor!TypeOK, Sensor!Returns
<1>6. tAlone => SensorKnows(c)
  BY DEF SensorInv
<1>7. CASE s \in {3, 5, 8, 11} /\ bad = TRUE /\ Sensor!Returns(c, FALSE, "nobody")
  <2>1. tStep'[c] = 0 /\ tReturned'.ok = FALSE
    BY <1>0, <1>7 DEF Sensor!Returns, Sensor!TypeOK
  <2> QED BY <1>4, <1>5, <2>1 DEF SensorInv, Sensor!TempIsFresh
<1>8. CASE s = 11 /\ bad = FALSE /\ Sensor!Returns(c, TRUE, tData)
  <2>1. tStep'[c] = 0 /\ tReturned' = [caller |-> c, ok |-> TRUE, temp |-> tData]
    BY <1>0, <1>8 DEF Sensor!Returns, Sensor!TypeOK
  <2>2. tAlone => tData = c
    BY <1>6, <1>8 DEF SensorKnows
  <2> QED BY <1>4, <1>5, <2>1, <2>2 DEF SensorInv, Sensor!TempIsFresh
<1>9. CASE /\ s # 11 /\ (s \in {3, 5, 8} => bad = FALSE) /\ UNCHANGED tReturned
           /\ tStep' = [tStep EXCEPT ![c] = IF s \in {3, 8} /\ tData = "busy" THEN s - 2 ELSE s + 1]
           /\ tFailed' = [tFailed EXCEPT ![c] = bad]
  <2>1. tStep'[c] = (IF s \in {3, 8} /\ tData = "busy" THEN s - 2 ELSE s + 1) /\ tFailed'[c] = bad
    BY <1>0, <1>9 DEF Sensor!TypeOK
  <2>2. tStep'[c] # 0
    BY <1>0, <2>1
  <2>3. ASSUME tAlone PROVE SensorKnows(c)'
    <3> SUFFICES ASSUME bad = FALSE PROVE SensorKnows(c)'
      BY <2>1 DEF SensorKnows
    <3>1. SensorKnows(c) /\ tFailed[c] = FALSE /\ Sensor!Effect(c, s) /\ tTemp' = tTemp
      BY <1>6, <2>3
    <3>2. Sensor!Transfer = CASE tPtr = "status" -> (IF tBusy = "nobody" THEN "idle" ELSE "busy")
                              [] tPtr = "temp" -> tTemp [] tPtr = "oneShot" -> "junk"
      BY DEF Sensor!Transfer, Sensor!Nobody
    <3> HIDE DEF s
    <3>3. CASE s \in {1, 2, 3}
      BY <1>0, <2>1, <3>1, <3>2, <3>3, SensorEffect DEF SensorKnows, s
    <3>4. CASE s \in {4, 5}
      BY <1>0, <2>1, <3>1, <3>4, SensorEffect DEF SensorKnows, s
    <3>5. CASE s \in {6, 7, 8}
      BY <1>0, <2>1, <3>1, <3>2, <3>5, SensorEffect, NobodyAssumption DEF SensorKnows, s
    <3>6. CASE s \in {9, 10}
      BY <1>0, <2>1, <3>1, <3>2, <3>6, SensorEffect DEF SensorKnows, s
    <3> QED BY <1>0, <1>9, <3>3, <3>4, <3>5, <3>6
  <2> QED BY <1>4, <1>5, <2>2, <2>3 DEF SensorInv, Sensor!TempIsFresh
<1> QED BY <1>3, <1>7, <1>8, <1>9

LEMMA SensorInvStep == SensorInv /\ [Sensor!Next]_tVars => SensorInv'
<1> SUFFICES ASSUME SensorInv, [Sensor!Next]_tVars PROVE SensorInv'
  OBVIOUS
<1>0. Sensor!TypeOK
  BY DEF SensorInv
<1>1. ASSUME NEW c \in Callers, Sensor!Begin(c) PROVE SensorInv'
  <2>1. tStep'[c] = 1 /\ \A d \in Callers \ {c} : tStep'[d] = tStep[d]
    BY <1>0, <1>1 DEF Sensor!Begin, Sensor!TypeOK
  <2>2. Sensor!TypeOK'
    BY <1>0, <1>1, ScriptIs DEF Sensor!Begin, Sensor!TypeOK
  <2>3. SensorKnows(c)'
    BY <2>1 DEF SensorKnows
  <2> QED BY <1>1, <2>1, <2>2, <2>3 DEF SensorInv, Sensor!Begin, Sensor!TempIsFresh
<1>2. ASSUME NEW c \in Callers, Sensor!Access(c) PROVE SensorInv'
  <2>1. tFailed[c] \in BOOLEAN
    BY <1>0 DEF Sensor!TypeOK
  <2> QED BY <1>2, <2>1, SensorAccess DEF Sensor!Access
<1>3. ASSUME NEW c \in Callers, Sensor!AccessFails(c) PROVE SensorInv'
  BY <1>3, SensorAccess DEF Sensor!AccessFails
<1>4. CASE Sensor!Measured
  <2>1. Sensor!TypeOK'
    BY <1>0, <1>4 DEF Sensor!Measured, Sensor!TypeOK
  <2>2. ASSUME NEW c \in Callers, SensorKnows(c) PROVE SensorKnows(c)'
    BY <1>4, <2>2 DEF Sensor!Measured, SensorKnows, Sensor!Nobody
  <2> QED BY <1>4, <2>1, <2>2 DEF Sensor!Measured, SensorInv, Sensor!TempIsFresh
<1>5. CASE UNCHANGED tVars
  BY <1>0, <1>5 DEF tVars, SensorInv, Sensor!TypeOK, Sensor!TempIsFresh, SensorKnows
<1> QED BY <1>1, <1>2, <1>3, <1>4, <1>5 DEF Sensor!Next

\* The sensor's registers and calls are what they are declared to be, and a
\* temperature that is told was measured for the call.
LEMMA SensorIsSound == Sensor!Spec => [](Sensor!TypeOK /\ Sensor!TempIsFresh)
<1>1. UNCHANGED Sensor!vars => UNCHANGED tVars
  BY DEF Sensor!vars, tVars
<1>2. SensorInv /\ [Sensor!Next]_Sensor!vars => SensorInv'
  BY <1>1, SensorInvStep
<1>3. SensorInv => Sensor!TypeOK /\ Sensor!TempIsFresh
  BY DEF SensorInv
<1> QED BY SensorInvInit, <1>2, <1>3, PTL DEF Sensor!Spec

----------------------------------------------------------------------------
\* The DMA status flags

\* Where a call is, what it has seen is set, and what it has passed over was
\* not set when it began.
Looking ==
  /\ sOp = "none" => sAt = "idle"
  /\ sOp \in {"find", "check", "errors"} => sAt \in {"fifo", "buffers", "setup"}
  /\ sOp \in {"check", "errors"} => sAt # "setup"
  /\ sOp = "clear" => sAt \in {"clear", "cleared"}
  /\ sOp # "none" => ~sReturned.ok
  /\ sOp = "find" =>
       /\ \A d \in Status!Channels : d < sChannel => Status!Counting(d) \subseteq sFresh[d]
       /\ sAt = "buffers" =>
            /\ sSeen \subseteq sFlags[sChannel] \cap Status!FifoFlags
            /\ (sFlags[sChannel] \cap Status!FifoFlags) \ sSeen \subseteq sFresh[sChannel]
       /\ sAt = "setup" =>
            /\ sSeen \subseteq sFlags[sChannel]
            /\ sFlags[sChannel] \ sSeen \subseteq sFresh[sChannel]
  /\ sOp = "check" /\ sAt = "buffers" =>
       /\ sSeen = {}
       /\ sFlags[sChannel] \cap Status!FifoFlags \subseteq sFresh[sChannel]
  /\ sOp = "errors" /\ sAt = "buffers" /\ ~sLost =>
       /\ sSeen \subseteq sFlags[sChannel]
       /\ (sFlags[sChannel] \cap Status!FifoFlags) \ sSeen \subseteq sFresh[sChannel]

StatusInv ==
  /\ Status!TypeOK /\ sReturned.channel \in Nat
  /\ sReturned.op \in {"check", "errors"} => sReturned.channel \in Status!Channels
  /\ sIgnoreUsed \in [Status!Channels -> BOOLEAN]
  /\ Looking /\ Status!StatusIsTrue

LEMMA StatusInvInit == Status!Init => StatusInv
<1> SUFFICES ASSUME Status!Init PROVE StatusInv
  OBVIOUS
<1>1. 0 \in Status!Channels
  BY NumChannelsAssumption DEF Status!Channels
<1>2. Status!TypeOK
  BY <1>1 DEF Status!Init, Status!TypeOK
<1> QED
  BY <1>2 DEF Status!Init, StatusInv, Looking, Status!StatusIsTrue, Status!Nothing

LEMMA StatusTypeStep == Status!TypeOK /\ [Status!Next]_sVars => Status!TypeOK'
<1> SUFFICES ASSUME Status!TypeOK, [Status!Next]_sVars PROVE Status!TypeOK'
  OBVIOUS
<1> USE NumChannelsAssumption, StatusFlagsAssumption
        DEF Status!TypeOK, Status!call, Status!Continues, Status!Returns
<1>0. 0 \in Status!Channels /\ StatusFlags \subseteq Status!AllFlags
      /\ Status!FifoFlags \subseteq Status!AllFlags
      /\ Status!BufferFlags \subseteq Status!AllFlags
      /\ {"used", "invalid", "complete"} \subseteq Status!AllFlags
  BY DEF Status!Channels, Status!AllFlags, Status!FifoFlags, Status!BufferFlags
<1>1. ASSUME NEW c \in Status!Channels, NEW f \in StatusFlags, Status!Raise(c, f)
      PROVE  Status!TypeOK'
  BY <1>1 DEF Status!Raise
<1>2. ASSUME NEW name \in {"find", "check", "errors", "clear"}, NEW c \in Status!Channels,
             NEW s \in SUBSET StatusFlags, Status!Begin(name, c, s)
      PROVE  Status!TypeOK'
  BY <1>0, <1>2 DEF Status!Begin
<1>3. ASSUME NEW s \in SUBSET Status!AllFlags, Status!FindNext(s),
             UNCHANGED <<sFlags, sIgnoreUsed, sFresh, sLost>>
      PROVE  Status!TypeOK'
  <2>1. s = {} /\ Status!More => Status!NextChannel(s) \in Status!Channels
    BY DEF Status!More, Status!NextChannel, Status!Channels
  <2> QED BY <1>0, <1>3, <2>1 DEF Status!FindNext
<1>4. CASE Status!FindFifo
  BY <1>0, <1>4 DEF Status!FindFifo
<1>5. CASE Status!FindBuffers
  <2> DEFINE s == sSeen \cup (sFlags[sChannel] \cap {"used", "invalid", "complete"})
  <2>1. s \in SUBSET Status!AllFlags
    BY <1>0
  <2>2. /\ IF "used" \in s THEN Status!Continues("setup", sChannel, s) ELSE Status!FindNext(s)
        /\ UNCHANGED <<sFlags, sIgnoreUsed, sFresh, sLost>>
    BY <1>5 DEF Status!FindBuffers
  <2> HIDE DEF s
  <2> QED BY <1>3, <2>1, <2>2
<1>6. CASE Status!FindSetup
  <2> DEFINE s == IF sIgnoreUsed[sChannel] THEN sSeen \ {"used"} ELSE sSeen
  <2>1. s \in SUBSET Status!AllFlags
    OBVIOUS
  <2>2. Status!FindNext(s) /\ UNCHANGED <<sFlags, sIgnoreUsed, sFresh, sLost>>
    BY <1>6 DEF Status!FindSetup
  <2> HIDE DEF s
  <2> QED BY <1>3, <2>1, <2>2
<1>7. CASE Status!CheckFifo
  BY <1>0, <1>7 DEF Status!CheckFifo
<1>8. CASE Status!ErrorsFifo
  BY <1>0, <1>8 DEF Status!ErrorsFifo
<1>9. CASE Status!ErrorsBuffers
  BY <1>0, <1>9 DEF Status!ErrorsBuffers
<1>10. CASE Status!ReadFails
  BY <1>0, <1>10 DEF Status!ReadFails
<1>11. CASE Status!ClearOne
  <2>1. sFlags' \in [Status!Channels -> SUBSET StatusFlags]
        /\ sFresh' \in [Status!Channels -> SUBSET StatusFlags]
    BY <1>11 DEF Status!ClearOne
  <2> QED BY <1>11, <2>1 DEF Status!ClearOne
<1>12. CASE Status!ClearFails
  BY <1>0, <1>12 DEF Status!ClearFails
<1>13. CASE Status!ClearReturns
  BY <1>0, <1>13 DEF Status!ClearReturns
<1>14. CASE UNCHANGED sVars
  BY <1>14 DEF sVars
<1> QED
  BY <1>0, <1>1, <1>2, <1>4, <1>5, <1>6, <1>7, <1>8, <1>9, <1>10, <1>11, <1>12, <1>13, <1>14
  DEF Status!Next

\* A call that returns with s in channel c.
LEMMA StatusReturns ==
  ASSUME StatusInv, Status!TypeOK', NEW ok \in BOOLEAN, NEW c \in Nat, NEW s,
         Status!Returns(ok, c, s), UNCHANGED <<sFlags, sIgnoreUsed, sFresh, sLost>>,
         sOp \in {"check", "errors"} => c \in Status!Channels,
         ok /\ ~sLost =>
           /\ c \in Status!Channels => s \subseteq sFlags[c]
           /\ sOp = "find" =>
                /\ c \in Status!Channels <=> s # {}
                /\ \A d \in Status!Channels : d <= c => Status!Counting(d) \ s \subseteq sFresh[d]
           /\ sOp = "errors" \/ (sOp = "check" /\ s = {}) =>
                (sFlags[c] \cap (Status!FifoFlags \cup Status!BufferFlags)) \ s \subseteq sFresh[c]
  PROVE  StatusInv'
<1>1. sReturned' = [op |-> sOp, ok |-> ok, channel |-> c, seen |-> s] /\ sOp' = "none"
      /\ sAt' = "idle"
  BY DEF Status!Returns
<1>2. Looking'
  BY <1>1 DEF Looking
<1>3. Status!StatusIsTrue'
  BY <1>1 DEF Status!StatusIsTrue, Status!Counting
<1> QED BY <1>1, <1>2, <1>3 DEF StatusInv

\* The end of the loop's body of Find_Interrupt, when the channel has shown s.
LEMMA FindGoesOn ==
  ASSUME StatusInv, Status!TypeOK', sOp = "find", NEW s, s \subseteq sFlags[sChannel],
         Status!Counting(sChannel) \ s \subseteq sFresh[sChannel],
         Status!FindNext(s), UNCHANGED <<sFlags, sIgnoreUsed, sFresh, sLost>>
  PROVE  StatusInv'
<1>1. sChannel \in Status!Channels /\ sChannel \in Nat /\ sChannel < NumChannels
  BY NumChannelsAssumption DEF StatusInv, Status!TypeOK, Status!Channels
<1>2. \A d \in Status!Channels : d < sChannel => Status!Counting(d) \subseteq sFresh[d]
  BY DEF StatusInv, Looking
<1>3. \A d \in Status!Channels : d \in Nat
  BY DEF Status!Channels
<1>4. CASE s = {} /\ Status!More
  <2>1. sAt' = "fifo" /\ sChannel' = sChannel + 1 /\ sSeen' = {} /\ UNCHANGED <<sOp, sReturned>>
    BY <1>4 DEF Status!FindNext, Status!Continues, Status!NextChannel
  <2>2. \A d \in Status!Channels : d < sChannel' => Status!Counting(d)' \subseteq sFresh'[d]
    BY <1>1, <1>2, <1>3, <1>4, <2>1 DEF Status!Counting
  <2>3. Looking'
    BY <2>1, <2>2 DEF StatusInv, Looking
  <2>4. Status!StatusIsTrue'
    BY <2>1 DEF StatusInv, Looking, Status!StatusIsTrue
  <2> QED BY <2>1, <2>3, <2>4 DEF StatusInv
<1>5. CASE s = {} /\ ~Status!More
  <2>1. sChannel + 1 = NumChannels /\ sChannel + 1 \notin Status!Channels /\ sChannel + 1 \in Nat
    BY <1>1, <1>5, NumChannelsAssumption DEF Status!More, Status!Channels
  <2>2. Status!Returns(TRUE, sChannel + 1, s)
    BY <1>5 DEF Status!FindNext, Status!NextChannel
  <2>3. \A d \in Status!Channels : d <= sChannel + 1 => Status!Counting(d) \ s \subseteq sFresh[d]
    BY <1>1, <1>2, <1>3, <1>5, <2>1
  <2> QED BY <1>5, <2>1, <2>2, <2>3, StatusReturns
<1>6. CASE s # {}
  <2>1. Status!Returns(TRUE, sChannel, s)
    BY <1>6 DEF Status!FindNext, Status!NextChannel
  <2>2. ASSUME NEW d \in Status!Channels, d <= sChannel
        PROVE  Status!Counting(d) \ s \subseteq sFresh[d]
    <3>1. CASE d = sChannel
      <4>1. Status!Counting(sChannel) \ s \subseteq sFresh[sChannel]
        OBVIOUS
      <4> QED BY ONLY <3>1, <4>1, Zenon
    <3>2. CASE d < sChannel
      BY <1>2, <3>2
    <3>3. d \in Nat /\ sChannel \in Nat /\ d <= sChannel
      BY ONLY <1>1, <1>3, <2>2, Zenon
    <3>4. d = sChannel \/ d < sChannel
      BY ONLY <3>3
    <3> QED BY ONLY <3>1, <3>2, <3>4, Zenon
  <2> QED BY <1>1, <1>6, <2>1, <2>2, StatusReturns
<1> QED BY <1>4, <1>5, <1>6

LEMMA StatusInvStep == StatusInv /\ [Status!Next]_sVars => StatusInv'
<1> SUFFICES ASSUME StatusInv, [Status!Next]_sVars PROVE StatusInv'
  OBVIOUS
<1>0. Status!TypeOK'
  BY StatusTypeStep DEF StatusInv
<1>a. /\ sChannel \in Status!Channels /\ sChannel \in Nat /\ sSeen \subseteq Status!AllFlags
      /\ sFlags \in [Status!Channels -> SUBSET StatusFlags]
      /\ sFresh \in [Status!Channels -> SUBSET StatusFlags]
      /\ sIgnoreUsed \in [Status!Channels -> BOOLEAN] /\ sLost \in BOOLEAN
  BY DEF StatusInv, Status!TypeOK, Status!Channels
<1> USE DEF Status!call, Status!Continues
<1>1. ASSUME NEW c \in Status!Channels, NEW f \in StatusFlags, Status!Raise(c, f)
      PROVE  StatusInv'
  <2>1. /\ UNCHANGED <<sIgnoreUsed, sOp, sAt, sChannel, sSeen, sLost, sReturned>>
        /\ sFlags' = [sFlags EXCEPT ![c] = @ \cup {f}]
        /\ sFresh' = [sFresh EXCEPT ![c] = @ \cup {f}]
    BY <1>1 DEF Status!Raise
  <2>2. \A d \in Status!Channels :
          /\ sFlags[d] \subseteq sFlags'[d] /\ sFresh[d] \subseteq sFresh'[d]
          /\ sFlags'[d] \ sFlags[d] \subseteq sFresh'[d]
    BY <1>a, <2>1
  <2>3. \A d \in Status!Channels : Status!Counting(d)' \ Status!Counting(d) \subseteq sFresh'[d]
    BY <1>a, <2>1, <2>2 DEF Status!Counting
  <2>4. Looking'
    BY <1>a, <2>1, <2>2, <2>3 DEF StatusInv, Looking
  <2>5. Status!StatusIsTrue'
    BY <1>a, <2>1, <2>2, <2>3 DEF StatusInv, Status!StatusIsTrue
  <2> QED BY <1>0, <2>1, <2>4, <2>5 DEF StatusInv
<1>2. ASSUME NEW name \in {"find", "check", "errors", "clear"}, NEW c \in Status!Channels,
             NEW s \in SUBSET StatusFlags, name = "find" => c = 0, Status!Begin(name, c, s)
      PROVE  StatusInv'
  <2>1. /\ sOp' = name /\ sChannel' = c /\ sAt' = (IF name = "clear" THEN "clear" ELSE "fifo")
        /\ sReturned' = [op |-> "none", ok |-> FALSE, channel |-> 0, seen |-> {}]
        /\ UNCHANGED <<sFlags, sIgnoreUsed>>
    BY <1>2 DEF Status!Begin, Status!Nothing
  <2>2. \A d \in Status!Channels : ~(d < 0)
    BY DEF Status!Channels
  <2>3. Looking'
    BY <1>2, <2>1, <2>2 DEF Looking
  <2> QED BY <1>0, <1>a, <2>1, <2>3 DEF StatusInv, Status!StatusIsTrue
<1>3. CASE Status!FindFifo
  BY <1>0, <1>a, <1>3 DEF Status!FindFifo, StatusInv, Looking, Status!StatusIsTrue, Status!Counting
<1>4. CASE Status!FindBuffers
  <2> DEFINE s == sSeen \cup (sFlags[sChannel] \cap {"used", "invalid", "complete"})
  <2>1. /\ IF "used" \in s THEN Status!Continues("setup", sChannel, s) ELSE Status!FindNext(s)
        /\ UNCHANGED <<sFlags, sIgnoreUsed, sFresh, sLost>> /\ sOp = "find" /\ sAt = "buffers"
    BY <1>4 DEF Status!FindBuffers
  <2>2. s \subseteq sFlags[sChannel] /\ sFlags[sChannel] \ s \subseteq sFresh[sChannel]
    BY <1>a, <2>1, StatusFlagsAssumption DEF StatusInv, Looking, Status!AllFlags, Status!FifoFlags,
       Status!BufferFlags
  <2> HIDE DEF s
  <2>3. CASE "used" \in s
    BY <1>0, <2>1, <2>2, <2>3 DEF StatusInv, Looking, Status!StatusIsTrue, Status!Counting
  <2>4. CASE "used" \notin s
    <3>1. Status!Counting(sChannel) \ s \subseteq sFresh[sChannel]
      BY <2>2 DEF Status!Counting
    <3> QED BY <1>0, <2>1, <2>2, <2>4, <3>1, FindGoesOn
  <2> QED BY <2>3, <2>4
<1>5. CASE Status!FindSetup
  <2> DEFINE s == IF sIgnoreUsed[sChannel] THEN sSeen \ {"used"} ELSE sSeen
  <2>1. Status!FindNext(s) /\ UNCHANGED <<sFlags, sIgnoreUsed, sFresh, sLost>> /\ sOp = "find"
        /\ sAt = "setup"
    BY <1>5 DEF Status!FindSetup
  <2>2. s \subseteq sFlags[sChannel] /\ Status!Counting(sChannel) \ s \subseteq sFresh[sChannel]
    BY <1>a, <2>1 DEF StatusInv, Looking, Status!Counting
  <2> HIDE DEF s
  <2> QED BY <1>0, <2>1, <2>2, FindGoesOn
<1>6. CASE Status!CheckFifo
  <2> DEFINE s == sFlags[sChannel] \cap Status!FifoFlags
  <2>1. /\ IF s # {} THEN Status!Returns(TRUE, sChannel, s)
           ELSE Status!Continues("buffers", sChannel, s)
        /\ UNCHANGED <<sFlags, sIgnoreUsed, sFresh, sLost>> /\ sOp = "check" /\ sAt = "fifo"
    BY <1>6 DEF Status!CheckFifo
  <2>2. CASE s # {}
    BY <1>0, <1>a, <2>1, <2>2, StatusReturns
  <2>3. CASE s = {}
    BY <1>0, <1>a, <2>1, <2>3 DEF StatusInv, Looking, Status!StatusIsTrue
  <2> QED BY <2>2, <2>3
<1>7. CASE Status!ErrorsFifo
  BY <1>0, <1>a, <1>7 DEF Status!ErrorsFifo, StatusInv, Looking, Status!StatusIsTrue
<1>8. CASE Status!ErrorsBuffers
  <2> DEFINE s == sSeen \cup (sFlags[sChannel] \cap Status!BufferFlags)
  <2>1. Status!Returns(TRUE, sChannel, s) /\ UNCHANGED <<sFlags, sIgnoreUsed, sFresh, sLost>>
        /\ sOp \in {"check", "errors"} /\ sAt = "buffers"
    BY <1>8 DEF Status!ErrorsBuffers
  <2>2. ~sLost => /\ s \subseteq sFlags[sChannel]
                  /\ (sFlags[sChannel] \cap (Status!FifoFlags \cup Status!BufferFlags)) \ s
                       \subseteq sFresh[sChannel]
    BY <2>1 DEF StatusInv, Looking
  <2> HIDE DEF s
  <2> QED BY <1>0, <1>a, <2>1, <2>2, StatusReturns
<1>9. CASE Status!ReadFails
  BY <1>0, <1>a, <1>9, StatusReturns DEF Status!ReadFails
<1>10. CASE Status!ClearOne
  BY <1>0, <1>a, <1>10 DEF Status!ClearOne, StatusInv, Looking, Status!StatusIsTrue
<1>11. CASE Status!ClearFails
  BY <1>0, <1>a, <1>11, StatusReturns DEF Status!ClearFails
<1>12. CASE Status!ClearReturns
  <2>1. PICK ok \in BOOLEAN : Status!Returns(ok, sChannel, {})
    BY <1>12 DEF Status!ClearReturns
  <2>2. sOp = "clear"
    BY <1>12 DEF Status!ClearReturns, StatusInv, Status!TypeOK, Looking
  <2> QED BY <1>0, <1>a, <1>12, <2>1, <2>2, StatusReturns DEF Status!ClearReturns
<1>13. CASE UNCHANGED sVars
  BY <1>0, <1>13 DEF sVars, StatusInv, Looking, Status!StatusIsTrue, Status!Counting
<1>14. 0 \in Status!Channels
  BY NumChannelsAssumption DEF Status!Channels
<1> QED
  BY <1>1, <1>2, <1>3, <1>4, <1>5, <1>6, <1>7, <1>8, <1>9, <1>10, <1>11, <1>12, <1>13, <1>14
  DEF Status!Next

\* The flags are what they are declared to be, and a status told agrees with them.
LEMMA StatusIsSound == Status!Spec => [](Status!TypeOK /\ Status!StatusIsTrue)
<1>1. UNCHANGED Status!vars => UNCHANGED sVars
  BY DEF Status!vars, Status!call, sVars
<1>2. StatusInv /\ [Status!Next]_Status!vars => StatusInv'
  BY <1>1, StatusInvStep
<1>3. StatusInv => Status!TypeOK /\ Status!StatusIsTrue
  BY DEF StatusInv
<1> QED BY StatusInvInit, <1>2, <1>3, PTL DEF Status!Spec

----------------------------------------------------------------------------
\* The clocks

\* What division is.
LEMMA Division ==
  ASSUME NEW f \in Nat, NEW n \in Nat \ {0}
  PROVE  f \div n \in Nat /\ (f \div n) * n <= f /\ f < (f \div n) * n + n
  OBVIOUS

\* A rate above clock / limit has a divisor that is not above the limit.
LEMMA LimitBounds ==
  ASSUME NEW f \in Nat, NEW n \in Nat \ {0}, NEW l \in Nat \ {0},
         ~(n * 2 <= (f * 2) \div l)
  PROVE  f \div n <= l
<1> DEFINE q == f \div n
           p == (f * 2) \div l
<1>1. q \in Nat /\ q * n <= f  BY Division
<1>2. p \in Nat /\ f * 2 < p * l + l  BY Division
<1> HIDE DEF q, p
<1>3. SUFFICES ASSUME q > l PROVE FALSE  BY <1>1 DEF q
<1>4. n * 2 >= p + 1  BY <1>2 DEF p
<1>5. q * n >= l * n  BY <1>1, <1>3
<1>6. l * (n * 2) >= l * (p + 1)  BY <1>2, <1>4
<1>7. QED  BY <1>1, <1>2, <1>5, <1>6

\* A whole rate that is accepted, and not above the frequency, has a count that
\* fits: BCLK_Set_Rate's 16-bit divisor does not wrap, the pacer's 24-bit
\* register loses nothing, and the divisor is not 0.
THEOREM WholeRatesFit ==
  ASSUME NEW k \in Clock!Clocks, NEW f \in Clock!Freqs, NEW r \in Nat,
         Clock!Accepted(k, f, r), r % Clock!Frac = 0, Clock!Whole(r) <= f
  PROVE  /\ Clock!Whole(r) # 0
         /\ Clock!Kept(k, Clock!Divisor(k, f, r) - 1) = f \div Clock!Whole(r) - 1
<1> DEFINE n == Clock!Whole(r)
<1>1. n \in Nat /\ r = n * 2  BY SMT DEF Clock!Whole, Clock!Frac
<1>2. r # 0
  <2>1. CASE k = "dac"  BY <2>1, SMT DEF Clock!Accepted, Clock!TooSlow
  <2>2. CASE k # "dac"
    <3>1. Clock!Limit(k) \in Nat \ {0} /\ (f * Clock!Frac) \div Clock!Limit(k) \in Nat  BY SMT DEF Clock!Limit, Clock!Frac, Clock!Freqs
    <3>2. QED  BY <2>2, <3>1, SMT DEF Clock!Accepted, Clock!TooSlow
  <2>3. QED  BY <2>1, <2>2, SMT
<1>3. n \in Nat \ {0}  BY <1>1, <1>2, SMT
<1>4. f \in Nat  BY SMT DEF Clock!Freqs
<1> HIDE DEF n
<1>5. f \div n \in Nat /\ f \div n # 0
  <2>1. n <= f  BY SMT DEF n
  <2>2. QED  BY <1>3, <1>4, <2>1, SMT
<1>6. CASE k # "dac"
  <2> DEFINE l == Clock!Limit(k)
  <2>1. l \in Nat \ {0}  BY SMT DEF Clock!Limit
  <2>2. ~(n * 2 <= (f * 2) \div l)  BY <1>1, <1>6, SMT DEF Clock!Accepted, Clock!TooSlow, Clock!Frac
  <2> HIDE DEF l
  <2>3. f \div n <= l  BY <1>3, <1>4, <2>1, <2>2, LimitBounds
  <2>4. CASE k = "bclk"  BY <1>3, <1>5, <2>3, <2>4, SMT DEF l, Clock!Limit, n, Clock!Divisor, Clock!Kept
  <2>5. CASE k = "pclk"  BY <1>3, <1>5, <2>3, <2>5, SMT DEF l, Clock!Limit, n, Clock!Divisor, Clock!Kept
  <2>6. QED  BY <1>3, <1>6, <2>4, <2>5 DEF Clock!Clocks, n
<1>7. CASE k = "dac"  BY <1>3, <1>7, SMT DEF n, Clock!Divisor, Clock!Kept
<1>8. QED  BY <1>6, <1>7

----------------------------------------------------------------------------
\* The registers

ClockPlace(k, q) == Clock!Accesses(k, q.name)[q.step]

\* A caller is at one of its accesses.
ClockSteps ==
  \A c \in Callers : kCall[c] # Clock!Idle => kCall[c].step \in DOMAIN Clock!Accesses(kClock, kCall[c].name)

\* A call that is not overlapped is the only one, it has returned if one has,
\* and it computes its count for the frequency that it has set.
ClockAloneOK ==
  kAlone =>
    /\ \A c, d \in Callers : kCall[c] # Clock!Idle /\ kCall[d] # Clock!Idle => c = d
    /\ kReturned # Clock!Idle => \A c \in Callers : kCall[c] = Clock!Idle
    /\ \A c \in Callers : kCall[c] # Clock!Idle /\ ClockPlace(kClock, kCall[c]) = "count" => kFreq = kCall[c].freq

\* PCLK_Setup remembers that a write is missing.
ClockStatusOK ==
  kClock = "pclk" => \A c \in Callers : kCall[c].status = 0 => kCall[c].missed = 0

ClockInv == Clock!TypeOK /\ ClockSteps /\ ClockAloneOK /\ ClockStatusOK /\ Clock!RateIsSet

\* A call begins with its first access, which is not the count's.
LEMMA ClockFirstAccess ==
  ASSUME NEW k, NEW name \in {"Set_Rate", "Setup"}
  PROVE  1 \in DOMAIN Clock!Accesses(k, name) /\ Clock!Accesses(k, name)[1] # "count"
<1>1. CASE name = "Set_Rate"
  <2>1. Clock!Accesses(k, name) = <<"freq", "count">>  BY <1>1 DEF Clock!Accesses
  <2>2. QED  BY <2>1
<1>2. CASE name = "Setup" /\ k = "bclk"
  <2>1. Clock!Accesses(k, name) = <<"config", "freq", "count">>  BY <1>2 DEF Clock!Accesses
  <2>2. QED  BY <2>1
<1>3. CASE name = "Setup" /\ k # "bclk"
  <2>1. Clock!Accesses(k, name) = <<"config", "early", "config", "config", "config", "freq", "count">>
        BY <1>3 DEF Clock!Accesses
  <2>2. QED  BY <2>1
<1>4. QED  BY <1>1, <1>2, <1>3

\* The order of the accesses: one follows unless it is the count's, and the
\* count is written after the frequency.
LEMMA ClockAccessOrder ==
  ASSUME NEW k, NEW name \in {"Set_Rate", "Setup"}, NEW s \in DOMAIN Clock!Accesses(k, name)
  PROVE  /\ s \in 1 .. 7 /\ Clock!Accesses(k, name)[s] \in {"config", "early", "freq", "count"}
         /\ Clock!Accesses(k, name)[s] # "count" =>
              /\ s + 1 \in DOMAIN Clock!Accesses(k, name)
              /\ Clock!Accesses(k, name)[s + 1] = "count" => Clock!Accesses(k, name)[s] = "freq"
<1>1. CASE name = "Set_Rate"
  <2>1. Clock!Accesses(k, name) = <<"freq", "count">>  BY <1>1 DEF Clock!Accesses
  <2>2. QED  BY <2>1
<1>2. CASE name = "Setup" /\ k = "bclk"
  <2>1. Clock!Accesses(k, name) = <<"config", "freq", "count">>  BY <1>2 DEF Clock!Accesses
  <2>2. QED  BY <2>1
<1>3. CASE name = "Setup" /\ k # "bclk"
  <2>1. Clock!Accesses(k, name) = <<"config", "early", "config", "config", "config", "freq", "count">>
        BY <1>3 DEF Clock!Accesses
  <2>2. QED  BY <2>1
<1>4. QED  BY <1>1, <1>2, <1>3

\* A call is a record of its own kind, and Idle is none.
LEMMA ClockRequests ==
  ASSUME NEW k \in Clock!Clocks, NEW q \in Clock!Requests(k)
  PROVE  /\ q # Clock!Idle /\ q.name \in {"Set_Rate", "Setup"}
         /\ q.freq \in Clock!Asked /\ q.rate \in Nat /\ q.step \in 1 .. 7
         /\ q.status \in {0, -1} /\ q.missed \in {0, 1}
<1>1. q.step \in 1 .. 7 /\ q.name \in Clock!Names(k)  BY DEF Clock!Requests
<1>2. q # Clock!Idle  BY <1>1 DEF Clock!Idle
<1>3. q.name \in {"Set_Rate", "Setup"}  BY <1>1 DEF Clock!Names
<1>4. q.rate \in Nat  BY RatesAssumption DEF Clock!Requests
<1>5. QED  BY <1>1, <1>2, <1>3, <1>4 DEF Clock!Requests

\* A call that goes on to its next access.
LEMMA ClockAdvances ==
  ASSUME ClockInv,
         NEW c \in Callers, kCall[c] # Clock!Idle, ClockPlace(kClock, kCall[c]) # "count",
         NEW s \in {0, -1}, NEW m \in {0, 1}, kClock = "pclk" /\ s = 0 => m = 0,
         kCall' = [kCall EXCEPT ![c] = [kCall[c] EXCEPT !.step = kCall[c].step + 1, !.status = s, !.missed = m]],
         kFreq' \in Clock!Freqs, ClockPlace(kClock, kCall[c]) = "freq" => kFreq' = kCall[c].freq,
         UNCHANGED <<kClock, kCount, kReturned, kCrashed, kAlone>>
  PROVE  ClockInv'
<1> DEFINE q == kCall[c]
           new == [q EXCEPT !.step = q.step + 1, !.status = s, !.missed = m]
<1>0. kClock \in Clock!Clocks /\ q \in Clock!Requests(kClock)  BY DEF ClockInv, Clock!TypeOK
<1>1. q.name \in {"Set_Rate", "Setup"} /\ q.step \in 1 .. 7  BY <1>0, ClockRequests
<1>2. q.step \in DOMAIN Clock!Accesses(kClock, q.name)  BY DEF ClockInv, ClockSteps
<1>3. /\ q.step + 1 \in DOMAIN Clock!Accesses(kClock, q.name)
      /\ Clock!Accesses(kClock, q.name)[q.step + 1] = "count" => Clock!Accesses(kClock, q.name)[q.step] = "freq"
  <2>1. Clock!Accesses(kClock, q.name)[q.step] # "count"  BY DEF ClockPlace
  <2>2. QED  BY <1>1, <1>2, <2>1, ClockAccessOrder
<1>4. q.step + 1 \in 1 .. 7  BY <1>1, <1>3, ClockAccessOrder
<1>5. new \in Clock!Requests(kClock)  BY <1>0, <1>4 DEF Clock!Requests
<1>6. new # Clock!Idle  BY <1>0, <1>5, ClockRequests
<1>7. new.name = q.name /\ new.step = q.step + 1 /\ new.freq = q.freq /\ new.status = s /\ new.missed = m
      BY <1>0 DEF Clock!Requests
<1>8. kCall' \in [Callers -> Clock!Requests(kClock) \cup {Clock!Idle}] /\ kCall'[c] = new
      /\ \A d \in Callers \ {c} : kCall'[d] = kCall[d]
  <2>1. kCall' = [kCall EXCEPT ![c] = new]  OBVIOUS
  <2>2. kCall \in [Callers -> Clock!Requests(kClock) \cup {Clock!Idle}]  BY DEF ClockInv, Clock!TypeOK
  <2> HIDE DEF new
  <2>3. QED  BY <1>5, <2>1, <2>2
<1> HIDE DEF q, new
<1>9. Clock!TypeOK'  BY <1>8 DEF ClockInv, Clock!TypeOK, Clock!Requests
<1>10. ClockSteps'  BY <1>3, <1>6, <1>7, <1>8 DEF ClockInv, ClockSteps
<1>11. ClockAloneOK'
  <2>1. SUFFICES ASSUME kAlone
                 PROVE  /\ \A d, e \in Callers : kCall'[d] # Clock!Idle /\ kCall'[e] # Clock!Idle => d = e
                        /\ kReturned # Clock!Idle => \A d \in Callers : kCall'[d] = Clock!Idle
                        /\ \A d \in Callers : kCall'[d] # Clock!Idle /\ ClockPlace(kClock, kCall'[d]) = "count" =>
                             kFreq' = kCall'[d].freq
        BY DEF ClockAloneOK
  <2>2. \A d \in Callers \ {c} : kCall'[d] = Clock!Idle  BY <1>8, <2>1 DEF ClockInv, ClockAloneOK
  <2>3. kReturned = Clock!Idle  BY <2>1 DEF ClockInv, ClockAloneOK
  <2>4. ClockPlace(kClock, new) = "count" => kFreq' = new.freq  BY <1>3, <1>7 DEF ClockPlace, q
  <2>5. QED  BY <1>8, <2>2, <2>3, <2>4
<1>12. ClockStatusOK'  BY <1>7, <1>8 DEF ClockInv, ClockStatusOK
<1>13. Clock!RateIsSet'
  <2>1. ~kAlone \/ kReturned = Clock!Idle  BY DEF ClockInv, ClockAloneOK
  <2>2. QED  BY <2>1 DEF ClockInv, Clock!RateIsSet
<1>14. QED  BY <1>9, <1>10, <1>11, <1>12, <1>13 DEF ClockInv

\* A call that returns.
LEMMA ClockReturns ==
  ASSUME ClockInv,
         NEW c \in Callers, kCall[c] # Clock!Idle, NEW result \in {0, -1}, Clock!Returns(c, result), kCount' \in Int,
         UNCHANGED <<kClock, kFreq, kCrashed, kAlone>>,
         kReturned'.status = 0 /\ kAlone /\ Clock!Sound(kCall[c]) =>
           kFreq = kCall[c].freq /\ kCount' = kFreq \div Clock!Whole(kCall[c].rate) - 1
  PROVE  ClockInv'
<1> DEFINE q == kCall[c]
           st == Clock!Joined(q.status, result)
<1>0. kClock \in Clock!Clocks /\ q \in Clock!Requests(kClock)  BY DEF ClockInv, Clock!TypeOK
<1>1. q.status \in {0, -1} /\ st \in {0, -1} /\ (st = 0 /\ kClock = "pclk" => q.status = 0)
      BY <1>0, ClockRequests DEF Clock!Joined
<1>2. /\ kReturned' \in Clock!Requests(kClock) /\ kReturned'.status = st
      /\ kReturned'.freq = q.freq /\ kReturned'.rate = q.rate /\ kReturned'.missed = q.missed
  <2>1. kReturned' = [q EXCEPT !.status = st]  BY DEF Clock!Returns
  <2> HIDE DEF st
  <2>2. QED  BY <1>0, <1>1, <2>1 DEF Clock!Requests
<1>3. kCall' \in [Callers -> Clock!Requests(kClock) \cup {Clock!Idle}] /\ kCall'[c] = Clock!Idle
      /\ \A d \in Callers \ {c} : kCall'[d] = kCall[d]
  <2>1. kCall' = [kCall EXCEPT ![c] = Clock!Idle]  BY DEF Clock!Returns
  <2>2. kCall \in [Callers -> Clock!Requests(kClock) \cup {Clock!Idle}]  BY DEF ClockInv, Clock!TypeOK
  <2>3. QED  BY <2>1, <2>2
<1> HIDE DEF q, st
<1>4. Clock!TypeOK'  BY <1>2, <1>3 DEF ClockInv, Clock!TypeOK, Clock!Requests
<1>5. ClockSteps'  BY <1>3 DEF ClockInv, ClockSteps
<1>6. ClockAloneOK'
  <2>1. kAlone => \A d \in Callers : kCall'[d] = Clock!Idle  BY <1>3 DEF ClockInv, ClockAloneOK
  <2>2. QED  BY <2>1 DEF ClockAloneOK
<1>7. ClockStatusOK'
  <2>1. Clock!Idle.missed = 0  BY DEF Clock!Idle
  <2>2. QED  BY <1>3, <2>1 DEF ClockInv, ClockStatusOK
<1>8. Clock!RateIsSet'
  <2>1. kCrashed' # Clock!Idle => ~Clock!Sound(kCrashed')  BY DEF ClockInv, Clock!RateIsSet
  <2>2. Clock!Sound(kReturned') <=> Clock!Sound(q)  BY <1>2 DEF Clock!Sound
  <2>3. SUFFICES ASSUME kReturned'.status = 0, kAlone, Clock!Sound(q)
                 PROVE  /\ kFreq' = kReturned'.freq
                        /\ kCount' = kFreq' \div Clock!Whole(kReturned'.rate) - 1
                        /\ kClock = "pclk" => kReturned'.missed = 0
        BY <2>1, <2>2 DEF Clock!RateIsSet
  <2>4. kFreq = q.freq /\ kCount' = kFreq \div Clock!Whole(q.rate) - 1  BY <2>3 DEF q
  <2>5. kClock = "pclk" => q.missed = 0  BY <1>1, <1>2, <2>3 DEF ClockInv, ClockStatusOK, q
  <2>6. QED  BY <1>2, <2>4, <2>5
<1>9. QED  BY <1>4, <1>5, <1>6, <1>7, <1>8 DEF ClockInv

\* What Upcoming says of a caller.
LEMMA ClockUpcoming ==
  ASSUME ClockInv, NEW c \in Callers,
         Clock!Upcoming(c) \in {"config", "early", "freq", "count"}
  PROVE  kCall[c] # Clock!Idle /\ Clock!Upcoming(c) = ClockPlace(kClock, kCall[c])
  BY DEF Clock!Upcoming, ClockPlace

\* A call begins.
LEMMA ClockBegins ==
  ASSUME ClockInv,
         NEW c \in Callers, NEW name \in Clock!Names(kClock), NEW f \in Clock!Asked, NEW r \in Rates[kClock],
         Clock!Begin(c, name, f, r)
  PROVE  ClockInv'
<1> DEFINE new == Clock!AsksFor(name, f, r)
<1>0. kClock \in Clock!Clocks  BY DEF ClockInv, Clock!TypeOK
<1>1. new \in Clock!Requests(kClock) /\ new.name = name /\ new.step = 1 /\ new.status = 0 /\ new.missed = 0
      BY DEF Clock!Requests, Clock!AsksFor
<1>2. kCall' \in [Callers -> Clock!Requests(kClock) \cup {Clock!Idle}] /\ kCall'[c] = new
      /\ \A d \in Callers \ {c} : kCall'[d] = kCall[d]
  <2>1. kCall' = [kCall EXCEPT ![c] = new]  BY DEF Clock!Begin
  <2>2. kCall \in [Callers -> Clock!Requests(kClock) \cup {Clock!Idle}]  BY DEF ClockInv, Clock!TypeOK
  <2> HIDE DEF new
  <2>3. QED  BY <1>1, <2>1, <2>2
<1> HIDE DEF new
<1>3. name \in {"Set_Rate", "Setup"}  BY DEF Clock!Names
<1>4. 1 \in DOMAIN Clock!Accesses(kClock, name) /\ Clock!Accesses(kClock, name)[1] # "count"
      BY <1>3, ClockFirstAccess
<1>5. kClock' = kClock /\ kFreq' = kFreq /\ kCount' = kCount /\ kCrashed' = kCrashed /\ kReturned' = Clock!Idle
      /\ kAlone' = (\A d \in Callers \ {c} : kCall[d] = Clock!Idle)
      BY DEF Clock!Begin
<1>6. Clock!TypeOK'  BY <1>2, <1>5 DEF ClockInv, Clock!TypeOK, Clock!Requests
<1>7. ClockSteps'  BY <1>1, <1>2, <1>4, <1>5 DEF ClockInv, ClockSteps
<1>8. ClockAloneOK'
  <2>1. kAlone' => \A d \in Callers \ {c} : kCall'[d] = Clock!Idle  BY <1>2, <1>5
  <2>2. ClockPlace(kClock, new) # "count"  BY <1>1, <1>4 DEF ClockPlace
  <2>3. QED  BY <1>2, <1>5, <2>1, <2>2 DEF ClockAloneOK
<1>9. ClockStatusOK'  BY <1>1, <1>2, <1>5 DEF ClockInv, ClockStatusOK
<1>10. Clock!RateIsSet'  BY <1>5 DEF ClockInv, Clock!RateIsSet
<1>11. QED  BY <1>6, <1>7, <1>8, <1>9, <1>10 DEF ClockInv

\* Every step of the clock's calls keeps the invariant.
LEMMA ClockInvStep ==
  ASSUME ClockInv, [Clock!Next]_kVars
  PROVE  ClockInv'
<1>0. kClock \in Clock!Clocks /\ kFreq \in Clock!Freqs /\ kCount \in Int /\ Clock!Freqs \subseteq Clock!Asked /\ Clock!Bad \notin Clock!Freqs
      BY SMT DEF ClockInv, Clock!TypeOK, Clock!Asked, Clock!Freqs, Clock!Bad
<1>1. CASE UNCHANGED kVars
  <2>1. kClock' = kClock /\ kFreq' = kFreq /\ kCount' = kCount /\ kCall' = kCall /\ kReturned' = kReturned
        /\ kCrashed' = kCrashed /\ kAlone' = kAlone
        BY <1>1 DEF kVars
  <2>2. QED  BY <2>1 DEF ClockInv, Clock!TypeOK, ClockSteps, ClockAloneOK, ClockStatusOK, Clock!RateIsSet
<1>2. ASSUME NEW c \in Callers, NEW name \in Clock!Names(kClock), NEW f \in Clock!Asked, NEW r \in Rates[kClock],
             Clock!Begin(c, name, f, r)
      PROVE  ClockInv'
      BY <1>2, ClockBegins
<1>3. ASSUME NEW c \in Callers, Clock!Config(c)  PROVE ClockInv'
  <2> DEFINE q == kCall[c]
  <2>1. q # Clock!Idle /\ Clock!Upcoming(c) = ClockPlace(kClock, q) /\ ClockPlace(kClock, q) \in {"config", "early"}
        BY <1>3, ClockUpcoming DEF Clock!Config
  <2>2. q \in Clock!Requests(kClock) /\ q.freq \in Clock!Asked /\ q.status \in {0, -1} /\ q.missed \in {0, 1}
    <3>1. q \in Clock!Requests(kClock)  BY <2>1 DEF ClockInv, Clock!TypeOK
    <3>2. QED  BY <1>0, <3>1, ClockRequests
  <2>3. kFreq' \in Clock!Freqs
        BY <1>0, <1>3, <2>2, SMT DEF Clock!Config, Clock!Asked
  <2>4. Clock!Joined(q.status, 0) \in {0, -1}
        /\ (kClock = "pclk" /\ Clock!Joined(q.status, 0) = 0 => q.missed = 0)
        BY <2>2 DEF ClockInv, ClockStatusOK, Clock!Joined
  <2>5. kCall' = [kCall EXCEPT ![c] = [q EXCEPT !.step = q.step + 1, !.status = Clock!Joined(q.status, 0),
                                              !.missed = q.missed]]
        BY <1>3 DEF Clock!Config, Clock!GoesOn
  <2>6. UNCHANGED <<kClock, kCount, kReturned, kCrashed, kAlone>>  BY <1>3 DEF Clock!Config, Clock!GoesOn
  <2>7. QED  BY <2>1, <2>2, <2>3, <2>4, <2>5, <2>6, ClockAdvances
<1>4. ASSUME NEW c \in Callers, Clock!ConfigFails(c)  PROVE ClockInv'
  <2> DEFINE q == kCall[c]
  <2>1. q # Clock!Idle /\ Clock!Upcoming(c) = ClockPlace(kClock, q) /\ ClockPlace(kClock, q) \in {"config", "early"}
        BY <1>4, ClockUpcoming DEF Clock!ConfigFails
  <2>2. q.status \in {0, -1}
    <3>1. q \in Clock!Requests(kClock)  BY <2>1 DEF ClockInv, Clock!TypeOK
    <3>2. QED  BY <1>0, <3>1, ClockRequests
  <2>3. Clock!Joined(q.status, -1) = -1  BY <2>2 DEF Clock!Joined
  <2>4. kCall' = [kCall EXCEPT ![c] = [q EXCEPT !.step = q.step + 1, !.status = Clock!Joined(q.status, -1),
                                              !.missed = 1]]
        BY <1>4 DEF Clock!ConfigFails, Clock!GoesOn
  <2>5. UNCHANGED <<kClock, kFreq, kCount, kReturned, kCrashed, kAlone>>  BY <1>4 DEF Clock!ConfigFails, Clock!GoesOn
  <2>6. kFreq' \in Clock!Freqs /\ -1 \in {0, -1} /\ 1 \in {0, 1} /\ -1 # 0  BY <1>0, <2>5
  <2>7. ClockPlace(kClock, q) # "count" /\ ClockPlace(kClock, q) # "freq"  BY <2>1
  <2> HIDE DEF q
  <2>8. QED  BY <2>1, <2>3, <2>4, <2>5, <2>6, <2>7, ClockAdvances DEF q
<1>5. ASSUME NEW c \in Callers, Clock!SetFrequency(c)  PROVE ClockInv'
  <2> DEFINE q == kCall[c]
  <2>1. q # Clock!Idle /\ Clock!Upcoming(c) = ClockPlace(kClock, q) /\ ClockPlace(kClock, q) = "freq"
        BY <1>5, ClockUpcoming DEF Clock!SetFrequency
  <2>2. q \in Clock!Requests(kClock) /\ q.freq \in Clock!Asked /\ q.status \in {0, -1} /\ q.missed \in {0, 1}
    <3>1. q \in Clock!Requests(kClock)  BY <2>1 DEF ClockInv, Clock!TypeOK
    <3>2. QED  BY <1>0, <3>1, ClockRequests
  <2>3. kFreq' \in Clock!Freqs /\ kFreq' = q.freq  BY <1>0, <1>5, <2>2, SMT DEF Clock!SetFrequency, Clock!Asked
  <2>4. kClock = "pclk" /\ q.status = 0 => q.missed = 0  BY DEF ClockInv, ClockStatusOK
  <2>5. kCall' = [kCall EXCEPT ![c] = [q EXCEPT !.step = q.step + 1, !.status = q.status,
                                              !.missed = q.missed]]
        BY <1>5 DEF Clock!SetFrequency, Clock!GoesOn
  <2>6. UNCHANGED <<kClock, kCount, kReturned, kCrashed, kAlone>>  BY <1>5 DEF Clock!SetFrequency, Clock!GoesOn
  <2>7. QED  BY <2>1, <2>2, <2>3, <2>4, <2>5, <2>6, ClockAdvances
<1>6. ASSUME NEW c \in Callers, Clock!SetFrequencyFails(c) \/ Clock!SetCountFails(c)  PROVE ClockInv'
  <2>1. Clock!Upcoming(c) \in {"freq", "count"} /\ Clock!Returns(c, -1) /\ UNCHANGED <<kClock, kFreq, kCount, kCrashed, kAlone>>
        BY <1>6 DEF Clock!SetFrequencyFails, Clock!SetCountFails
  <2>2. kCall[c] # Clock!Idle  BY <2>1, ClockUpcoming
  <2>3. kReturned'.status # 0
    <3>1. kCall[c] \in Clock!Requests(kClock)  BY <2>2 DEF ClockInv, Clock!TypeOK
    <3>2. kReturned'.status = Clock!Joined(kCall[c].status, -1)  BY <2>1, <3>1 DEF Clock!Returns, Clock!Requests
    <3>3. kCall[c].status \in {0, -1}  BY <1>0, <3>1, ClockRequests
    <3>4. QED  BY <3>2, <3>3 DEF Clock!Joined
  <2>4. QED  BY <1>0, <2>1, <2>2, <2>3, ClockReturns
<1>7. ASSUME NEW c \in Callers, Clock!SetCount(c)  PROVE ClockInv'
  <2> DEFINE q == kCall[c]
  <2>1. /\ Clock!Upcoming(c) = "count" /\ Clock!Accepted(kClock, q.freq, q.rate) /\ Clock!Returns(c, 0)
        /\ kCount' = Clock!Kept(kClock, Clock!Divisor(kClock, q.freq, q.rate) - 1)
        /\ UNCHANGED <<kClock, kFreq, kCrashed, kAlone>>
        BY <1>7 DEF Clock!SetCount
  <2>2. q # Clock!Idle /\ ClockPlace(kClock, q) = "count"  BY <2>1, ClockUpcoming
  <2>3. q.freq \in Clock!Asked /\ q.rate \in Nat
    <3>1. q \in Clock!Requests(kClock)  BY <2>2 DEF ClockInv, Clock!TypeOK
    <3>2. QED  BY <1>0, <3>1, ClockRequests
  <2>4. kAlone => kFreq = q.freq  BY <2>2 DEF ClockInv, ClockAloneOK
  <2>5. ASSUME kAlone, Clock!Sound(q)  PROVE kFreq = q.freq /\ kCount' = kFreq \div Clock!Whole(q.rate) - 1
    <3>1. q.freq \in Clock!Freqs  BY <1>0, <2>4, <2>5
    <3>2. q.rate % Clock!Frac = 0 /\ Clock!Whole(q.rate) <= q.freq  BY <2>5 DEF Clock!Sound
    <3>3. Clock!Kept(kClock, Clock!Divisor(kClock, q.freq, q.rate) - 1) = q.freq \div Clock!Whole(q.rate) - 1
          BY <1>0, <2>1, <2>3, <3>1, <3>2, WholeRatesFit
    <3>4. QED  BY <2>1, <2>4, <2>5, <3>3
  <2>6. kCount' \in Int
    <3>1. Clock!Whole(q.rate) \in Nat \ {0}  BY <1>7, <2>3, SMT DEF Clock!SetCount, Clock!Whole, Clock!Frac
    <3>2. q.freq \in Int  BY <2>3, SMT DEF Clock!Asked, Clock!Freqs, Clock!Bad
    <3>3. q.freq \div Clock!Whole(q.rate) \in Int  BY <3>1, <3>2, SMT
    <3>4. Clock!Divisor(kClock, q.freq, q.rate) \in Int  BY <3>3, SMT DEF Clock!Divisor
    <3>5. QED  BY <2>1, <3>4, SMT DEF Clock!Kept
  <2>7. QED  BY <2>1, <2>2, <2>5, <2>6, ClockReturns
<1>8. ASSUME NEW c \in Callers, Clock!DividesByZero(c)  PROVE ClockInv'
  <2> DEFINE q == kCall[c]
  <2>1. /\ Clock!Upcoming(c) = "count" /\ Clock!Accepted(kClock, q.freq, q.rate) /\ Clock!Whole(q.rate) = 0
        /\ kCrashed' = q /\ kCall' = [d \in Callers |-> Clock!Idle] /\ kReturned' = Clock!Idle
        /\ kClock' = kClock /\ kFreq' = kFreq /\ kCount' = kCount /\ kAlone' = kAlone
        BY <1>8 DEF Clock!DividesByZero
  <2>2. q # Clock!Idle  BY <2>1, ClockUpcoming
  <2>3. q \in Clock!Requests(kClock)  BY <2>2 DEF ClockInv, Clock!TypeOK
  <2>4. q.freq \in Clock!Asked /\ q.rate \in Nat  BY <1>0, <2>3, ClockRequests
  <2>5. ~Clock!Sound(q)
    <3>1. SUFFICES ASSUME q.rate % Clock!Frac = 0  PROVE FALSE
          BY DEF Clock!Sound
    <3>2. q.rate = 0  BY <2>1, <2>4, <3>1 DEF Clock!Whole, Clock!Frac
    <3>3. (q.freq * Clock!Frac) \div Clock!Limit(kClock) >= 0
          BY <2>4, SMT DEF Clock!Asked, Clock!Freqs, Clock!Bad, Clock!Frac, Clock!Limit
    <3>4. Clock!TooSlow(kClock, q.freq, q.rate)  BY <3>2, <3>3 DEF Clock!TooSlow
    <3>5. QED  BY <2>1, <3>4 DEF Clock!Accepted
  <2>6. Clock!TypeOK'  BY <2>1, <2>3 DEF ClockInv, Clock!TypeOK, Clock!Requests
  <2>7. ClockSteps' /\ ClockStatusOK'
    <3>1. Clock!Idle.missed = 0  BY DEF Clock!Idle
    <3>2. QED  BY <2>1, <3>1 DEF ClockSteps, ClockStatusOK
  <2>8. ClockAloneOK'  BY <2>1 DEF ClockAloneOK
  <2>9. Clock!RateIsSet'  BY <2>1, <2>5 DEF Clock!RateIsSet
  <2>10. QED  BY <2>6, <2>7, <2>8, <2>9 DEF ClockInv
<1>9. QED  BY <1>1, <1>2, <1>3, <1>4, <1>5, <1>6, <1>7, <1>8 DEF Clock!Next

LEMMA ClockInvInit == Clock!Init => ClockInv
<1>1. 8000000 \in Clock!Freqs /\ 0 \in Int  BY SMT DEF Clock!Freqs
<1>2. Clock!Idle.missed = 0  BY DEF Clock!Idle
<1>3. QED  BY <1>1, <1>2 DEF Clock!Init, ClockInv, Clock!TypeOK, ClockSteps, ClockAloneOK, ClockStatusOK,
                          Clock!RateIsSet

\* A clock that was set alone runs at the rate it was set to.
THEOREM RateSet == Clock!Spec => [](Clock!TypeOK /\ Clock!RateIsSet)
<1>1. UNCHANGED Clock!vars => UNCHANGED kVars  BY DEF Clock!vars, kVars
<1>2. ClockInv /\ [Clock!Next]_Clock!vars => ClockInv'  BY <1>1, ClockInvStep
<1>3. ClockInv => Clock!TypeOK /\ Clock!RateIsSet  BY DEF ClockInv
<1>4. QED  BY ClockInvInit, <1>2, <1>3, PTL DEF Clock!Spec

----------------------------------------------------------------------------
\* The gain table

\* What the board takes a word for is the entry it was packed from: its fields
\* do not run into each other.
LEMMA UnpackedIsPacked ==
  ASSUME NEW e \in Gain!EntryType
  PROVE  Gain!Packed(e) \in Gain!Words /\ Gain!Unpacked(Gain!Packed(e)) = e
<1>1. PICK c \in 0 .. 15 : c = e.channel  BY DEF Gain!EntryType
<1>2. PICK g \in 0 .. 7 : g = e.gain  BY DEF Gain!EntryType
<1>3. PICK n \in {0, 1} : n = e.nrse  BY DEF Gain!EntryType
<1>4. PICK r \in 0 .. 3 : r = e.range  BY DEF Gain!EntryType
<1>5. PICK o \in {0, 1} : o = e.ground  BY DEF Gain!EntryType
<1>6. PICK p \in {0, 1} : p = e.pause  BY DEF Gain!EntryType
<1>7. PICK x \in {0, 1} : x = e.dac1  BY DEF Gain!EntryType
<1>8. PICK y \in {0, 1} : y = e.dac2  BY DEF Gain!EntryType
<1>9. PICK s \in {0, 1} : s = e.skip  BY DEF Gain!EntryType
<1>10. e = [channel |-> c, gain |-> g, nrse |-> n, range |-> r, ground |-> o, pause |-> p,
            dac1 |-> x, dac2 |-> y, skip |-> s]
  BY <1>1, <1>2, <1>3, <1>4, <1>5, <1>6, <1>7, <1>8, <1>9 DEF Gain!EntryType
<1>11. PICK w : w = c + 16 * g + 128 * n + 256 * r + 1024 * o + 2048 * p + 4096 * x + 8192 * y
                     + 16384 * s
  OBVIOUS
<1>12. Gain!Packed(e) = w
  BY <1>10, <1>11 DEF Gain!Packed
<1>13. w % 16 = c
  BY <1>11
<1>14. (w \div 16) % 8 = g
  <2>1. w \div 16 = g + 8 * (n + 2 * r + 8 * o + 16 * p + 32 * x + 64 * y + 128 * s)
    BY <1>11
  <2> QED BY <2>1
<1>15. (w \div 128) % 2 = n
  BY <1>11
<1>16. (w \div 256) % 4 = r
  BY <1>11
<1>17. (w \div 1024) % 2 = o
  BY <1>11
<1>18. (w \div 2048) % 2 = p
  BY <1>11
<1>19. (w \div 4096) % 2 = x
  BY <1>11
<1>20. (w \div 8192) % 2 = y
  BY <1>11
<1>21. (w \div 16384) % 2 = s
  BY <1>11
<1>22. Gain!Unpacked(w) = e
  BY <1>10, <1>13, <1>14, <1>15, <1>16, <1>17, <1>18, <1>19, <1>20, <1>21 DEF Gain!Unpacked
<1>23. w \in Gain!Words
  <2>1. w \in Nat /\ w <= Gain!MaxWord /\ Gain!MaxWord \in Nat
    BY <1>11 DEF Gain!MaxWord
  <2> QED BY <2>1 DEF Gain!Words
<1> QED BY <1>12, <1>22, <1>23

GainInv == Gain!TypeOK /\ Gain!EntriesAreKept

LEMMA GainInvInit == Gain!Init => GainInv
<1> SUFFICES ASSUME Gain!Init PROVE GainInv
  OBVIOUS
<1>1. Gain!Unpacked(0) \in Gain!EntryType
  BY DEF Gain!Unpacked, Gain!EntryType
<1>2. <<>> \in Seq(Gain!Words) /\ <<>> \in Seq(Gain!EntryType) /\ Len(<<>>) = 0
  OBVIOUS
<1>3. Gain!TypeOK
  <2>1. 0 \in Gain!Words
    BY DEF Gain!Words, Gain!MaxWord
  <2> QED BY <1>1, <1>2, <2>1, TableSizeAssumption DEF Gain!Init, Gain!TypeOK
<1>4. Gain!EntriesAreKept
  BY <1>2 DEF Gain!Init, Gain!EntriesAreKept
<1> QED BY <1>3, <1>4 DEF GainInv

LEMMA GainInvStep == GainInv /\ [Gain!Next]_gVars => GainInv'
<1> SUFFICES ASSUME GainInv, [Gain!Next]_gVars PROVE GainInv'
  OBVIOUS
<1>0. Gain!TypeOK /\ Gain!EntriesAreKept
  BY DEF GainInv
<1>1. CASE Gain!Clear
  <2>1. <<>> \in Seq(Gain!Words) /\ <<>> \in Seq(Gain!EntryType) /\ Len(<<>>) = 0
    OBVIOUS
  <2>2. gTable' = <<>> /\ gWanted' = <<>> /\ gLast' = "ok" /\ UNCHANGED <<gLatch, gSingle>>
    BY <1>1 DEF Gain!Clear
  <2>3. Gain!TypeOK'
    BY <1>0, <2>1, <2>2, TableSizeAssumption DEF Gain!TypeOK
  <2>4. Gain!EntriesAreKept'
    BY <1>0, <2>1, <2>2 DEF Gain!EntriesAreKept
  <2> QED BY <2>3, <2>4 DEF GainInv
<1>2. CASE Gain!Fails
  BY <1>0, <1>2 DEF Gain!Fails, GainInv, Gain!TypeOK, Gain!EntriesAreKept
<1>3. ASSUME NEW e \in Entries, Gain!Write(e) PROVE GainInv'
  <2>1. e \in Gain!EntryType /\ Gain!Packed(e) \in Gain!Words /\ Gain!Unpacked(Gain!Packed(e)) = e
    BY EntriesAssumption, UnpackedIsPacked
  <2>2. PICK w \in Gain!Words : w = Gain!Packed(e)
    BY <2>1
  <2>3. /\ gTable' = Append(gTable, w) /\ gWanted' = Append(gWanted, e) /\ gLast' = "ok"
        /\ UNCHANGED <<gLatch, gSingle>> /\ Len(gTable) < TableSize
    BY <1>3, <2>2 DEF Gain!Write
  <2>4. /\ gTable \in Seq(Gain!Words) /\ gWanted \in Seq(Gain!EntryType)
        /\ Len(gTable) = Len(gWanted) /\ Len(gTable) \in Nat
        /\ \A i \in 1 .. Len(gTable) : Gain!Unpacked(gTable[i]) = gWanted[i]
    BY <1>0, LenProperties DEF Gain!TypeOK, Gain!EntriesAreKept
  <2>5. /\ gTable' \in Seq(Gain!Words) /\ Len(gTable') = Len(gTable) + 1
        /\ gTable'[Len(gTable) + 1] = w /\ \A i \in 1 .. Len(gTable) : gTable'[i] = gTable[i]
    BY <2>2, <2>3, <2>4, AppendProperties
  <2>6. /\ gWanted' \in Seq(Gain!EntryType) /\ Len(gWanted') = Len(gTable) + 1
        /\ gWanted'[Len(gTable) + 1] = e /\ \A i \in 1 .. Len(gTable) : gWanted'[i] = gWanted[i]
    BY <2>1, <2>3, <2>4, AppendProperties
  <2>7. Gain!TypeOK'
    BY <1>0, <2>3, <2>4, <2>5, <2>6, TableSizeAssumption DEF Gain!TypeOK
  <2>8. ASSUME NEW i \in 1 .. Len(gTable') PROVE Gain!Unpacked(gTable'[i]) = gWanted'[i]
    <3>1. i \in 1 .. Len(gTable) \/ i = Len(gTable) + 1
      BY <2>4, <2>5
    <3> QED BY <2>1, <2>2, <2>4, <2>5, <2>6, <3>1
  <2>9. Gain!EntriesAreKept'
    BY <1>0, <2>3, <2>5, <2>6, <2>8 DEF Gain!EntriesAreKept
  <2> QED BY <2>7, <2>9 DEF GainInv
<1>4. ASSUME NEW e \in Entries, Gain!Latch(e) PROVE GainInv'
  <2>1. e \in Gain!EntryType /\ Gain!Packed(e) \in Gain!Words /\ Gain!Unpacked(Gain!Packed(e)) = e
    BY EntriesAssumption, UnpackedIsPacked
  <2>2. /\ gLatch' = Gain!Packed(e) /\ gSingle' = e /\ gLast' = "ok"
        /\ UNCHANGED <<gTable, gWanted>>
    BY <1>4 DEF Gain!Latch
  <2>3. Gain!TypeOK'
    BY <1>0, <2>1, <2>2 DEF Gain!TypeOK
  <2>4. Gain!Unpacked(gLatch') = gSingle'
    BY <2>1, <2>2
  <2>5. Gain!EntriesAreKept'
    BY <1>0, <2>2, <2>4 DEF Gain!EntriesAreKept
  <2> QED BY <2>3, <2>5 DEF GainInv
<1>5. CASE UNCHANGED gVars
  BY <1>0, <1>5 DEF gVars, GainInv, Gain!TypeOK, Gain!EntriesAreKept
<1> QED BY <1>1, <1>2, <1>3, <1>4, <1>5 DEF Gain!Next

\* The table is one of entries, and what the board takes from it was written to it.
LEMMA GainIsSound == Gain!Spec => [](Gain!TypeOK /\ Gain!EntriesAreKept)
<1>1. UNCHANGED Gain!vars => UNCHANGED gVars
  BY DEF Gain!vars, gVars
<1>2. GainInv /\ [Gain!Next]_Gain!vars => GainInv'
  BY <1>1, GainInvStep
<1>3. GainInv => Gain!TypeOK /\ Gain!EntriesAreKept
  BY DEF GainInv
<1> QED BY GainInvInit, <1>2, <1>3, PTL DEF Gain!Spec

----------------------------------------------------------------------------
\* The board

\* A step of the board is a step of one part, and leaves the others alone.
LEMMA StepsOfParts ==
  ASSUME [BoardNext]_<<part, SmallVars, LargeVars>>
  PROVE  /\ [Next]_dVars
         /\ [Timer!Next]_uVars
         /\ [Dsp!Next]_mVars
         /\ [Sensor!Next]_tVars
         /\ [Status!Next]_sVars
         /\ [Clock!Next]_kVars
         /\ [EnableNext]_enableVars
         /\ [SettingsNext]_settingVars
         /\ [Gain!Next]_gVars
         /\ [BlockNext]_blockVars
         /\ [AccessNext]_accessVars
         /\ [BoardsNext]_boardVars
         /\ part' = part
<1> USE DEF SmallVars, LargeVars
<1>1. CASE DioNext
  <2>1. Next /\ OnlyDio
    BY <1>1 DEF DioNext, Next
  <2> HIDE DEF DioNext
  <2> QED BY <2>1 DEF OnlyDio
<1>2. CASE TimerNext
  <2>1. Timer!Next /\ OnlyTimer
    BY <1>2 DEF TimerNext, Timer!Next
  <2> HIDE DEF TimerNext
  <2> QED BY <2>1 DEF OnlyTimer
<1>3. CASE DspNext
  <2>1. Dsp!Next /\ OnlyDsp
    BY <1>3 DEF DspNext, Dsp!Next
  <2> HIDE DEF DspNext
  <2> QED BY <2>1 DEF OnlyDsp
<1>4. CASE SensorNext
  <2>1. Sensor!Next /\ OnlySensor
    BY <1>4 DEF SensorNext, Sensor!Next
  <2> HIDE DEF SensorNext
  <2> QED BY <2>1 DEF OnlySensor
<1>5. CASE StatusNext
  <2>1. Status!Next /\ OnlyStatus
    BY <1>5 DEF StatusNext, Status!Next
  <2> HIDE DEF StatusNext
  <2> QED BY <2>1 DEF OnlyStatus
<1>6. CASE ClockNext
  <2>1. Clock!Next /\ OnlyClock
    BY <1>6 DEF ClockNext, Clock!Next, ClockRuns
  <2> HIDE DEF ClockNext
  <2> QED BY <2>1 DEF OnlyClock
<1>7. CASE EnablePart
  <2>1. EnableNext /\ OnlyEnable
    BY <1>7 DEF EnablePart, EnableNext, CallerStep
  <2> HIDE DEF EnablePart
  <2> QED BY <2>1 DEF OnlyEnable
<1>8. CASE SettingsPart
  <2>1. SettingsNext /\ OnlySettings
    BY <1>8 DEF SettingsPart, SettingsNext
  <2> HIDE DEF SettingsPart
  <2> QED BY <2>1 DEF OnlySettings
<1>9. CASE GainNext
  <2>1. Gain!Next /\ OnlyGain
    BY <1>9 DEF GainNext, Gain!Next
  <2> HIDE DEF GainNext
  <2> QED BY <2>1 DEF OnlyGain
<1>10. CASE BlockPart
  <2>1. BlockNext /\ OnlyBlock
    BY <1>10 DEF BlockPart, BlockNext
  <2> HIDE DEF BlockPart
  <2> QED BY <2>1 DEF OnlyBlock
<1>11. CASE AccessPart
  <2>1. AccessNext /\ OnlyAccess
    BY <1>11 DEF AccessPart, AccessNext
  <2> HIDE DEF AccessPart
  <2> QED BY <2>1 DEF OnlyAccess
<1>12. CASE BoardsPart
  <2>1. BoardsNext /\ OnlyBoards
    BY <1>12 DEF BoardsPart, BoardsNext
  <2> HIDE DEF BoardsPart
  <2> QED BY <2>1 DEF OnlyBoards
<1>13. CASE UNCHANGED <<part, SmallVars, LargeVars>>
  BY <1>13
<1> QED BY <1>1, <1>2, <1>3, <1>4, <1>5, <1>6, <1>7, <1>8, <1>9, <1>10, <1>11, <1>12, <1>13 DEF BoardNext

\* A behaviour of the board is a behaviour of each of its parts.
THEOREM BoardIsItsParts ==
  BoardSpec =>
    /\ Spec
    /\ EnableSpec
    /\ SettingsSpec
    /\ BlockSpec
    /\ AccessSpec
    /\ BoardsSpec
    /\ Timer!Spec
    /\ Dsp!Spec
    /\ Sensor!Spec
    /\ Status!Spec
    /\ Clock!Spec
    /\ Gain!Spec
<1>1. BoardInit => /\ Init
                   /\ EnableInit
                   /\ SettingsInit
                   /\ BlockInit
                   /\ AccessInit
                   /\ BoardsInit
                   /\ Timer!Init
                   /\ Dsp!Init
                   /\ Sensor!Init
                   /\ Status!Init
                   /\ Clock!Init
                   /\ Gain!Init
  BY DEF BoardInit
<1>2. [BoardNext]_<<part, SmallVars, LargeVars>> =>
      /\ [Next]_vars
      /\ [EnableNext]_enableVars
      /\ [SettingsNext]_settingVars
      /\ [BlockNext]_blockVars
      /\ [AccessNext]_accessVars
      /\ [BoardsNext]_boardVars
      /\ [Timer!Next]_Timer!vars
      /\ [Dsp!Next]_Dsp!vars
      /\ [Sensor!Next]_Sensor!vars
      /\ [Status!Next]_Status!vars
      /\ [Clock!Next]_Clock!vars
      /\ [Gain!Next]_Gain!vars
  <2> SUFFICES ASSUME [BoardNext]_<<part, SmallVars, LargeVars>>
               PROVE  /\ [Next]_vars
                      /\ [EnableNext]_enableVars
                      /\ [SettingsNext]_settingVars
                      /\ [BlockNext]_blockVars
                      /\ [AccessNext]_accessVars
                      /\ [BoardsNext]_boardVars
                      /\ [Timer!Next]_Timer!vars
                      /\ [Dsp!Next]_Dsp!vars
                      /\ [Sensor!Next]_Sensor!vars
                      /\ [Status!Next]_Status!vars
                      /\ [Clock!Next]_Clock!vars
                      /\ [Gain!Next]_Gain!vars
    OBVIOUS
  <2>1. /\ UNCHANGED uVars => UNCHANGED Timer!vars
        /\ UNCHANGED mVars => UNCHANGED Dsp!vars
        /\ UNCHANGED tVars => UNCHANGED Sensor!vars
        /\ UNCHANGED sVars => UNCHANGED Status!vars
        /\ UNCHANGED kVars => UNCHANGED Clock!vars
        /\ UNCHANGED gVars => UNCHANGED Gain!vars
        /\ UNCHANGED dVars => UNCHANGED vars
    BY DEF uVars, mVars, tVars, sVars, kVars, gVars, dVars, vars, Status!call, Timer!vars, Dsp!vars, Sensor!vars, Status!vars, Clock!vars, Gain!vars
  <2> QED BY <2>1, StepsOfParts
<1> QED
  BY <1>1, <1>2, PTL
  DEF BoardSpec, Spec, EnableSpec, SettingsSpec, BlockSpec, AccessSpec, BoardsSpec, Timer!Spec, Dsp!Spec, Sensor!Spec, Status!Spec, Clock!Spec, Gain!Spec

\* A function that sets several settings and succeeds has set all of them, and the
\* functions accept exactly the documented values.
THEOREM SetupsSound == BoardSpec => []SetupsAreSound
<1>1. SettingsSpec => [](SetupIsWhole /\ AcceptsDocumented)
  BY SetupsAreWhole
<1>2. SetupIsWhole /\ AcceptsDocumented <=> SetupsAreSound
  BY DEF SetupsAreSound
<1> QED BY <1>1, <1>2, BoardIsItsParts, PTL

\* The function block that was opened is the one asked for, whole and disjoint from
\* the others; a handle is of a board that the index has meant, is one caller's, and
\* a call that failed leaves nothing.
THEOREM OpensRight == BoardSpec => []OpensWhatWasAsked
<1>1. BlockIsSought /\ AreasAreDisjoint /\ HandleIsOfIndex /\ NothingIsLeft => OpensWhatWasAsked
  BY DEF OpensWhatWasAsked
<1> QED BY <1>1, BoardIsItsParts, BlockFound, AreasCorrect, HandlesOfIndexes, NothingStays, PTL

\* The part is one of the twelve, and a step is of the same one.
PartNames ==
  {"dio", "timer", "dsp", "sensor", "status", "clock", "enable", "settings", "gain", "block",
   "access", "boards"}

LEMMA PartStays == BoardSpec => [](part \in PartNames)
<1>1. BoardInit => part \in PartNames
  BY DEF BoardInit, PartNames
<1>2. part \in PartNames /\ [BoardNext]_<<part, SmallVars, LargeVars>> => (part \in PartNames)'
  BY StepsOfParts
<1> QED BY <1>1, <1>2, PTL DEF BoardSpec

\* The registers and the calls of every part of the board are what they are
\* declared to be, whatever is called, by however many threads, and wherever a
\* register access fails.
THEOREM PartsTyped == BoardSpec => []PartsTypeOK
<1>1. /\ part \in PartNames /\ TypeOK /\ Timer!TypeOK /\ Dsp!TypeOK /\ Sensor!TypeOK
      /\ Status!TypeOK /\ Clock!TypeOK /\ EnableTypeOK /\ SettingsTypeOK /\ Gain!TypeOK
      /\ BlockTypeOK /\ AccessTypeOK /\ BoardsTypeOK
      => PartsTypeOK
  BY Zenon DEF PartsTypeOK, PartNames
<1> QED
  BY <1>1, PartStays, BoardIsItsParts, DioTypeCorrect, TimerIsSound, DspIsSound, SensorIsSound,
     StatusIsSound, RateSet, EnableTypeCorrect, SettingsTyped, GainIsSound, BlockTypeCorrect,
     AccessTypeCorrect, BoardsTypeCorrect, PTL

\* What the functions that read tell is true: a count is the counter's at one
\* instant although it is read a byte at a time, a mode is the timer's, a
\* temperature was measured for the call, and the DMA status agrees with the
\* flags; under the conditions that those properties name.  Of the DSP's version
\* it says nothing.
THEOREM ReadsTrue == BoardSpec => []ReadsAreTrue
<1>1. Timer!ReadsAreTrue /\ Sensor!TempIsFresh /\ Status!StatusIsTrue => ReadsAreTrue
  BY DEF ReadsAreTrue
<1> QED BY <1>1, BoardIsItsParts, TimerIsSound, SensorIsSound, StatusIsSound, PTL

\* SDM35541_UTC_Setup loads its mode and its divisor wherever earlier calls have
\* left the chip, a clock that was set alone runs at the rate it was set to, and
\* the board takes from the gain table the entries that were written to it.
THEOREM WritesEffective == BoardSpec => []WritesTakeEffect
<1>1. Timer!SetupLoads /\ Clock!RateIsSet /\ Gain!EntriesAreKept => WritesTakeEffect
  BY DEF WritesTakeEffect
<1> QED BY <1>1, BoardIsItsParts, TimerIsSound, RateSet, GainIsSound, PTL

\* The DSP calibrates with the parameters of one SDM35541_Calibrate, unless
\* another call has begun during it: never with a mixture of two.
THEOREM CalibrationAsAsked == BoardSpec => CalibratesAsAsked
BY BoardIsItsParts, DspIsSound, PTL DEF CalibratesAsAsked

\* Of the board: no interrupt source is on that nobody asked for, an undisturbed Enable or
\* Disable does exactly its mask, and a setting holds what its last successful call stored.
THEOREM BoardHolds == BoardSpec => [](NothingUnasked /\ EnabledIsExact /\ SettingsHold)
BY BoardIsItsParts, EnabledWasAsked, EnableIsExact, SettingsAreHeld, PTL

\* Of the board: the DIO registers are a file of registers, and one access of a register is
\* atomic.
THEOREM BoardImplements == BoardSpec => ImplementsFile /\ ImplementsSetup
BY BoardIsItsParts, FileImplemented, AccessImplementsSetup, PTL
============================================================================
