----------------------------- MODULE GainTable -----------------------------
(***************************************************************************)
(* The channel gain table of an ADC1002 function block: each write appends *)
(* a 16-bit word that SDM35541_CGT_Create_Entry packs from the fields of   *)
(* an entry, and the board takes the words apart again as it samples.      *)
(***************************************************************************)
EXTENDS Integers, Sequences

CONSTANTS
  Entries,     \* the entries they write
  TableSize,   \* bound of the model: entries in the table
  IoFails      \* a register access may fail

\* The bit fields of SDM35541_cgt_entry_t.
EntryType ==
  [channel : 0 .. 15, gain : 0 .. 7, nrse : {0, 1}, range : 0 .. 3, ground : {0, 1},
   pause : {0, 1}, dac1 : {0, 1}, dac2 : {0, 1}, skip : {0, 1}]

VARIABLES
  table,     \* the words in the board's table
  latch,     \* the word of CGT_Latch, for a single channel
  last,      \* what the last call did: "none", "ok", "failed"
  wanted,    \* history: the entries written since the table was cleared
  single     \* history: the entry latched

vars == <<table, latch, last, wanted, single>>

\* SDM35541_CGT_Create_Entry: fields are or-ed into bits of their own, which is
\* a sum.
Packed(e) ==
  e.channel + 16 * e.gain + 128 * e.nrse + 256 * e.range + 1024 * e.ground
    + 2048 * e.pause + 4096 * e.dac1 + 8192 * e.dac2 + 16384 * e.skip

\* What the board takes a word for.
Unpacked(w) ==
  [channel |-> w % 16, gain |-> (w \div 16) % 8, nrse |-> (w \div 128) % 2,
   range |-> (w \div 256) % 4, ground |-> (w \div 1024) % 2, pause |-> (w \div 2048) % 2,
   dac1 |-> (w \div 4096) % 2, dac2 |-> (w \div 8192) % 2, skip |-> (w \div 16384) % 2]

Init == table = <<>> /\ latch = 0 /\ last = "none" /\ wanted = <<>> /\ single = Unpacked(0)

\* SDM35541_CGT_Write.
Write(e) ==
  /\ Len(table) < TableSize
  /\ table' = Append(table, Packed(e)) /\ wanted' = Append(wanted, e) /\ last' = "ok"
  /\ UNCHANGED <<latch, single>>

\* SDM35541_CGT_Latch.
Latch(e) ==
  /\ latch' = Packed(e) /\ single' = e /\ last' = "ok"
  /\ UNCHANGED <<table, wanted>>

\* SDM35541_CGT_Clear.  (CGT_Reset goes back to the first entry.)
Clear ==
  /\ table' = <<>> /\ wanted' = <<>> /\ last' = "ok"
  /\ UNCHANGED <<latch, single>>

\* The access of any of them fails.
Fails == IoFails /\ last' = "failed" /\ UNCHANGED <<table, latch, wanted, single>>

Next == Clear \/ Fails \/ \E e \in Entries : Write(e) \/ Latch(e)

Spec == Init /\ [][Next]_vars

----------------------------------------------------------------------------
\* Properties

\* The fields fill 15 bits.
MaxWord == 32767
Words   == 0 .. MaxWord

TypeOK ==
  /\ table \in Seq(Words) /\ Len(table) <= TableSize /\ latch \in Words
  /\ last \in {"none", "ok", "failed"}
  /\ wanted \in Seq(EntryType) /\ single \in EntryType

\* The board takes from the table the entries that were written to it, field by
\* field and in their order, and from the latch the entry of the last latch.
EntriesAreKept ==
  /\ Len(table) = Len(wanted) /\ \A i \in 1 .. Len(table) : Unpacked(table[i]) = wanted[i]
  /\ Unpacked(latch) = single
=============================================================================
