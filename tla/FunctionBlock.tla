---------------------------- MODULE FunctionBlock ----------------------------
(***************************************************************************)
(* How an application finds a function block of the board:                 *)
(* SDM35541_Function_Block_Open reads one entry of the board's table, and  *)
(* the block it points to, into the caller's struct;                       *)
(* SDM35541_Function_Block_Open_Module opens one entry after the other, in *)
(* the same struct, until it has the number-th of a type.  One action is   *)
(* one register read.                                                      *)
(***************************************************************************)
EXTENDS Integers, FiniteSets

CONSTANTS
  MaxFb,      \* SDM35541_MAX_FB, 62 in the code
  Tables,     \* the tables a board may have (external)
  MaxOpens,   \* bound of the model: the calls made
  ReadsFail   \* register reads may fail

\* SDM35541_DMA_CTRL_BLOCK_SIZE and SDM35541_DMA_BUFFER_CTRL_BLOCK_SIZE.
BlockSize == 16

Numbers == 0 .. MaxFb - 1

\* An entry of the table: the type of the block, where its DMA registers are,
\* how many channels it has, how many buffers each of them, and whether the
\* block repeats the type of the entry.  "invalid" is one of two values.
Types == {"invalid", "adc", "dac"}
Entry == [type : Types, dma : Nat, channels : Nat, buffers : Nat, agrees : BOOLEAN]

ASSUME MaxFbAssumption == MaxFb \in Nat \ {0}
ASSUME TablesAssumption == Tables \subseteq [Numbers -> Entry]

VARIABLES
  table,    \* the board's
  from,     \* the struct: per field, the entry it was read from, or NoEntry
  areas,    \* the struct: the areas of its channels and of their buffers
  sought,   \* the call: the type and which of that type, or one number
  left,     \* `number_of_type'
  count,    \* `func_block_count', or `number'
  next,     \* the next read
  opened,   \* the last call that returned, and its result
  opens     \* history: the calls begun

blockVars == <<table, from, areas, sought, left, count, next, opened, opens>>

NoEntry == -1
BlockFields == {"type", "offset", "dma", "channels", "buffers", "number"}
NoOpen == [call |-> "none", type |-> "invalid", n |-> 0]

\* The offsets of a channel's registers and of those of one of its buffers.
ChannelAt(e, c) == e.dma + (BlockSize + BlockSize * e.buffers) * c

BufferAt(e, c, b) == ChannelAt(e, c) + BlockSize + BlockSize * b

\* Buffer -1 stands for the channel itself.
Areas(e) ==
  {[channel |-> c, buffer |-> -1, at |-> ChannelAt(e, c)] : c \in 0 .. e.channels - 1}
  \cup {[channel |-> c, buffer |-> b, at |-> BufferAt(e, c, b)] :
          c \in 0 .. e.channels - 1, b \in 0 .. e.buffers - 1}

BlockInit ==
  /\ table \in Tables
  /\ from = [f \in BlockFields |-> NoEntry] /\ areas = {}
  /\ sought = NoOpen /\ left = 0 /\ count = 0 /\ next = "idle"
  /\ opened = [call |-> NoOpen, result |-> "none"] /\ opens = 0

BlockReturns(result) ==
  /\ opened' = [call |-> sought, result |-> result]
  /\ next' = "idle" /\ sought' = NoOpen /\ left' = 0 /\ count' = 0

\* Open of an entry returns at once if there is none of this number.
BeginOpen(n) ==
  /\ next = "idle" /\ opens < MaxOpens /\ opens' = opens + 1
  /\ IF n >= MaxFb
       THEN /\ opened' = [call |-> [call |-> "open", type |-> "invalid", n |-> n], result |-> "number"]
            /\ UNCHANGED <<next, sought, left, count>>
       ELSE /\ sought' = [call |-> "open", type |-> "invalid", n |-> n]
            /\ left' = 0 /\ count' = n /\ next' = "type"
            /\ UNCHANGED opened
  /\ UNCHANGED <<table, from, areas>>

BeginOpenModule(t, n) ==
  /\ next = "idle" /\ opens < MaxOpens /\ opens' = opens + 1
  /\ sought' = [call |-> "module", type |-> t, n |-> n]
  /\ left' = n /\ count' = 0 /\ next' = "type"
  /\ UNCHANGED <<table, from, areas, opened>>

\* Every failing read ends the call; the fields read so far are in the struct.
BlockReadFails ==
  /\ ReadsFail /\ next # "idle" /\ BlockReturns("io")
  /\ UNCHANGED <<table, from, areas, opens>>

\* Mutant: the entry counts before it is compared.
FoundEarly(t) == t = sought.type /\ left <= 1

Found(t) == t = sought.type /\ left = 0

\* Open has returned 0: Open_Module looks at the type in the struct.
EntryDone ==
  LET t == table[count].type
  IN  IF sought.call = "open" \/ Found(t)
        THEN BlockReturns("ok")
        ELSE IF count + 1 = MaxFb
          THEN BlockReturns("nodev")
          ELSE /\ count' = count + 1
               /\ left' = IF t = sought.type THEN left - 1 ELSE left
               /\ next' = "type"
               /\ UNCHANGED <<sought, opened>>

ReadsField(f) == next = f /\ from' = [from EXCEPT ![f] = count]

\* An entry without a block is no error, and the rest of the struct stays.
ReadType ==
  /\ ReadsField("type")
  /\ IF table[count].type = "invalid"
       THEN EntryDone
       ELSE next' = "offset" /\ UNCHANGED <<sought, left, count, opened>>
  /\ UNCHANGED <<table, areas, opens>>

ReadOffset ==
  /\ ReadsField("offset") /\ next' = "dma"
  /\ UNCHANGED <<table, areas, sought, left, count, opened, opens>>

ReadDma ==
  /\ ReadsField("dma") /\ next' = "again"
  /\ UNCHANGED <<table, areas, sought, left, count, opened, opens>>

\* The sanity check: the block's own type.
ReadTypeAgain ==
  /\ next = "again"
  /\ IF table[count].agrees
       THEN next' = "channels" /\ UNCHANGED <<sought, left, count, opened>>
       ELSE BlockReturns("fault")
  /\ UNCHANGED <<table, from, areas, opens>>

ReadChannels ==
  /\ ReadsField("channels") /\ next' = "buffers"
  /\ UNCHANGED <<table, areas, sought, left, count, opened, opens>>

\* The last read; the offsets are computed from what was read before.
ReadBuffers ==
  /\ next = "buffers"
  /\ from' = [from EXCEPT !["buffers"] = count, !["number"] = count]
  /\ areas' = Areas([table[count] EXCEPT !.dma = table[from["dma"]].dma,
                                         !.channels = table[from["channels"]].channels])
  /\ EntryDone
  /\ UNCHANGED <<table, opens>>

BlockNext ==
  \/ \E n \in 0 .. MaxFb : BeginOpen(n)
  \/ \E t \in Types \ {"invalid"}, n \in Numbers : BeginOpenModule(t, n)
  \/ ReadType \/ ReadOffset \/ ReadDma \/ ReadTypeAgain \/ ReadChannels \/ ReadBuffers
  \/ BlockReadFails

BlockSpec == BlockInit /\ [][BlockNext]_blockVars

----------------------------------------------------------------------------
\* Properties

\* The struct's fields are of entries of the table, or not set, and a call
\* reads an entry of the table.
BlockTypeOK ==
  /\ table \in Tables /\ from \in [BlockFields -> Numbers \cup {NoEntry}]
  /\ sought \in [call : {"none", "open", "module"}, type : Types, n : Nat]
  /\ left \in Nat /\ count \in Numbers
  /\ next \in {"idle", "type", "offset", "dma", "again", "channels", "buffers"}
  /\ opens \in Nat

OfType(t, n) == {i \in 0 .. n : table[i].type = t}

\* The struct is that of entry n, in all its fields, and there is a block.
IsEntry(n) ==
  /\ table[n].type # "invalid"
  /\ \A f \in BlockFields : from[f] = n
  /\ areas = Areas(table[n])

\* A call that has returned 0 leaves the struct of the entry it was asked for:
\* that of the number, unless it has no block, or the n-th of the type.  No
\* call says there is no such block when there is one, nor that an entry is
\* contradictory when none is.
BlockIsSought ==
  LET c == opened.call
  IN  next = "idle" =>
        /\ opened.result = "ok" /\ c.call = "open" =>
             table[c.n].type = "invalid" \/ IsEntry(c.n)
        /\ opened.result = "ok" /\ c.call = "module" =>
             LET n == from["type"]
             IN  IsEntry(n) /\ table[n].type = c.type /\ Cardinality(OfType(c.type, n)) = c.n + 1
        /\ opened.result = "nodev" => Cardinality(OfType(c.type, MaxFb - 1)) <= c.n
        /\ opened.result = "fault" => \E n \in Numbers : ~table[n].agrees

\* The registers of two channels, of two buffers, or of a channel and a buffer
\* do not overlap, whatever calls were made and failed before.
AreasAreDisjoint ==
  \A a, b \in areas : a # b => a.at + BlockSize <= b.at \/ b.at + BlockSize <= a.at
=============================================================================
