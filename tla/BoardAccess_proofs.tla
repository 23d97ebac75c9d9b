------------------------- MODULE BoardAccess_proofs -------------------------
(***************************************************************************)
(* Proofs about how an application gets at the board: opening it, finding  *)
(* its function blocks, accessing one register, and the digital I/O        *)
(* registers behind their select field.                                    *)
(*                                                                         *)
(*  - Boards: whatever boards come and go, a handle is of a board that its *)
(*    index has meant, and nothing is left behind without one.  A caller's *)
(*    place says what it has, and the entry its index ends up with was     *)
(*    enumerated while the index meant it.                                 *)
(*  - FunctionBlock: the block that was asked for, whole, with areas that  *)
(*    do not overlap, for every table.  What a call has read is of the     *)
(*    entry it is at, and it has passed as many of the type as it counts.  *)
(*  - RegisterAccess: whichever call of the operating system fails, an     *)
(*    access to the SETUP register looks to its caller as SetupFile says.  *)
(*    The place of a call in call_ioctl is tied to what the driver has     *)
(*    made of its request.                                                 *)
(*  - DioRegisters: the two-step access of the DIO functions implements    *)
(*    the register file of DioFile, for any callers and any single bits.   *)
(***************************************************************************)
EXTENDS DioRegisters, RegisterAccess, FunctionBlock, Boards,
        FiniteSetTheorems, SequenceTheorems, TLAPS

----------------------------------------------------------------------------
\* Opening and closing boards

\* The file a caller must have: of its handle, or of the handle it is about to
\* get.
Held(c) ==
  IF board[c] # "none" THEN {[by |-> c, board |-> board[c]]}
  ELSE IF opening[c] = "query" THEN {[by |-> c, board |-> EntryOf(c).dev]} ELSE {}

\* During a call, whatever entry the index ends up with was enumerated while the
\* index meant it; and what a caller has is what its place says.
CallerOK(c) ==
  /\ opening[c] # "idle" =>
       board[c] = "none" /\ c \notin stuck /\ AtIndex(registry, wanted[c]) \subseteq wasAt[c]
  /\ opening[c] = "values" =>
       place[c] \in Indexes /\ key[c] \in Devices /\ (place[c] = wanted[c] => key[c] \in wasAt[c])
  /\ opening[c] # "idle" /\ EntryOf(c).ready => EntryOf(c).dev \in wasAt[c] \cap ready
  /\ opening[c] \in {"file", "query"} => owned[c] /\ EntryOf(c).ready
  /\ opening[c] = "idle" /\ board[c] = "none" => ~owned[c]
  /\ board[c] # "none" => board[c] \in wasAt[c] \cap ready /\ owned[c] /\ c \notin stuck
  /\ c \notin stuck => FileOf(c) = Held(c)

MemoryType ==
  /\ BoardsTypeOK /\ registry \in Seq(Devices)
  /\ devinfo \in [Openers -> [Indexes -> [dev : Devices \cup {"none"}, ready : BOOLEAN]]]
  /\ key \in [Openers -> Devices \cup {"none"}] /\ wasAt \in [Openers -> SUBSET Devices]

OneFile == \A f, g \in files : f.board = g.board => f = g

BoardsInv == MemoryType /\ OneFile /\ \A c \in Openers : CallerOK(c)

\* What the steps of one caller leave of another.
Unmoved(d) ==
  /\ opening'[d] = opening[d] /\ wanted'[d] = wanted[d] /\ devinfo'[d] = devinfo[d]
  /\ place'[d] = place[d] /\ key'[d] = key[d] /\ owned'[d] = owned[d] /\ board'[d] = board[d]
  /\ wasAt'[d] = wasAt[d] /\ (d \in stuck' <=> d \in stuck) /\ FileOf(d)' = FileOf(d)

LEMMA UnmovedOK ==
  ASSUME NEW d, CallerOK(d), Unmoved(d), UNCHANGED <<registry, ready>>
  PROVE  CallerOK(d)'
<1>1. EntryOf(d)' = EntryOf(d) /\ Held(d)' = Held(d)
  BY DEF Unmoved, EntryOf, Held
<1>2. AtIndex(registry, wanted[d])' = AtIndex(registry, wanted[d])
  BY DEF Unmoved, AtIndex
<1> QED BY <1>1, <1>2 DEF CallerOK, Unmoved

\* No file, or the one it holds, is another caller's.
LEMMA FilesOfOthers ==
  ASSUME NEW c, NEW d, c # d
  PROVE  /\ files' = files => FileOf(d)' = FileOf(d)
         /\ files' = files \ FileOf(c) => FileOf(d)' = FileOf(d)
         /\ \A b : files' = files \cup {[by |-> c, board |-> b]} => FileOf(d)' = FileOf(d)
BY DEF FileOf

LEMMA NoEntries ==
  ASSUME NEW i \in Indexes
  PROVE  [j \in Indexes |-> NoDevice][i] = [dev |-> "none", ready |-> FALSE]
BY DEF NoDevice

LEMMA ZeroIndex == 0 \in Indexes /\ MaxDevices \in Nat
BY MaxDevicesAssumption DEF Indexes

LEMMA NoEntriesType ==
  [i \in Indexes |-> NoDevice] \in [Indexes -> [dev : Devices \cup {"none"}, ready : BOOLEAN]]
BY DEF NoDevice

LEMMA AtIndexType ==
  ASSUME NEW r \in Seq(Devices), NEW n \in Indexes PROVE AtIndex(r, n) \subseteq Devices
<1>1. n \in Nat /\ Len(r) \in Nat /\ \A i \in 1 .. Len(r) : r[i] \in Devices
  BY ZeroIndex, ElementOfSeq, LenProperties DEF Indexes
<1> QED BY <1>1 DEF AtIndex

LEMMA BoardsInvInit == BoardsInit => BoardsInv
<1> SUFFICES ASSUME BoardsInit PROVE BoardsInv
  OBVIOUS
<1>1. MemoryType
  <2>1. registry \in Seq(Devices)
    <3>1. ASSUME NEW d \in Devices PROVE <<d>> \in Seq(Devices)
      OBVIOUS
    <3>2. <<>> \in Seq(Devices)
      OBVIOUS
    <3> QED BY <3>1, <3>2 DEF BoardsInit
  <2>2. BoardsTypeOK
    BY ZeroIndex DEF BoardsInit, BoardsTypeOK
  <2> QED BY <2>1, <2>2, NoEntriesType DEF BoardsInit, MemoryType
<1>2. OneFile
  BY DEF BoardsInit, OneFile
<1>3. ASSUME NEW c \in Openers PROVE CallerOK(c)
  BY DEF BoardsInit, CallerOK, FileOf, Held
<1> QED BY <1>1, <1>2, <1>3 DEF BoardsInv

\* A call that ends without a handle has nothing, and its file is closed or
\* cannot be.
LEMMA GivesUpKeeps ==
  ASSUME BoardsInv, NEW c \in Openers, GivesUp(c), opening[c] # "idle",
         \/ opening[c] # "query" /\ UNCHANGED <<files, stuck>>
         \/ files' = files \ FileOf(c) /\ UNCHANGED stuck
         \/ stuck' = stuck \cup {c} /\ UNCHANGED files
  PROVE  BoardsInv'
<1> USE DEF BoardsInv
<1>1. MemoryType'
  <2>1. files' \subseteq files
    BY Zenon
  <2> QED BY <2>1, ZeroIndex, NoEntriesType DEF MemoryType, BoardsTypeOK, GivesUp, StepsTo
<1>2. OneFile'
  BY DEF OneFile
<1>3. CallerOK(c)'
  <2>1. /\ opening'[c] = "idle" /\ board'[c] = "none" /\ owned'[c] = FALSE
        /\ board[c] = "none" /\ c \notin stuck /\ FileOf(c) = Held(c)
    BY DEF GivesUp, StepsTo, CallerOK, MemoryType, BoardsTypeOK
  <2>2. c \notin stuck' => FileOf(c)' = {}
    <3>1. CASE opening[c] # "query" /\ UNCHANGED <<files, stuck>>
      BY <2>1, <3>1 DEF FileOf, Held
    <3>2. CASE files' = files \ FileOf(c)
      BY <3>2 DEF FileOf
    <3> QED BY <3>1, <3>2
  <2> QED BY <2>1, <2>2 DEF CallerOK, Held
<1>4. ASSUME NEW d \in Openers, d # c PROVE CallerOK(d)'
  <2>1. FileOf(d)' = FileOf(d)
    BY <1>4, FilesOfOthers
  <2>2. Unmoved(d)
    BY <1>4, <2>1 DEF Unmoved, GivesUp, StepsTo, MemoryType, BoardsTypeOK
  <2> QED BY <2>2, UnmovedOK DEF GivesUp
<1> QED BY <1>1, <1>2, <1>3, <1>4

\* A step of a caller in its call that neither files nor boards notice.
LEMMA CallerKeeps ==
  ASSUME BoardsInv, NEW c \in Openers, MemoryType', CallerOK(c)',
         UNCHANGED <<registry, ready, files, stuck>>,
         \A d \in Openers \ {c} :
           /\ opening'[d] = opening[d] /\ wanted'[d] = wanted[d] /\ devinfo'[d] = devinfo[d]
           /\ place'[d] = place[d] /\ key'[d] = key[d] /\ owned'[d] = owned[d]
           /\ board'[d] = board[d] /\ wasAt'[d] = wasAt[d]
  PROVE  BoardsInv'
<1>1. ASSUME NEW d \in Openers, d # c PROVE CallerOK(d)'
  BY <1>1, UnmovedOK DEF BoardsInv, Unmoved, FileOf
<1> QED BY <1>1 DEF BoardsInv, OneFile

\* A board that comes or goes.
LEMMA PluggedKeeps ==
  ASSUME BoardsInv, NEW r \in Seq(Devices), Plugged(r) PROVE BoardsInv'
<1> USE DEF BoardsInv, Plugged, callVars
<1>1. \A c \in Openers : wasAt'[c] = wasAt[c] \cup AtIndex(r, wanted[c])
  BY DEF MemoryType
<1>2. \A c \in Openers : AtIndex(r, wanted[c]) \subseteq Devices
  BY AtIndexType DEF MemoryType, BoardsTypeOK
<1>3. MemoryType'
  BY <1>2 DEF MemoryType, BoardsTypeOK
<1>4. ASSUME NEW c \in Openers PROVE CallerOK(c)'
  <2>1. EntryOf(c)' = EntryOf(c) /\ Held(c)' = Held(c) /\ FileOf(c)' = FileOf(c)
    BY DEF EntryOf, Held, FileOf
  <2>2. AtIndex(registry, wanted[c])' = AtIndex(r, wanted[c])
    BY DEF AtIndex
  <2> QED BY <1>1, <2>1, <2>2 DEF CallerOK
<1> QED BY <1>3, <1>4 DEF OneFile

LEMMA BoardsInvStep == BoardsInv /\ [BoardsNext]_boardVars => BoardsInv'
<1> SUFFICES ASSUME BoardsInv, [BoardsNext]_boardVars PROVE BoardsInv'
  OBVIOUS
<1>0. MemoryType /\ BoardsTypeOK /\ registry \in Seq(Devices)
      /\ \A c \in Openers : CallerOK(c)
  BY DEF BoardsInv, MemoryType
<1>1. ASSUME NEW d \in Devices, PlugIn(d) PROVE BoardsInv'
  <2>1. Append(registry, d) \in Seq(Devices)
    BY <1>0
  <2> QED BY <1>1, <2>1, PluggedKeeps DEF PlugIn
<1>2. ASSUME NEW i \in 1 .. Len(registry), TakeOut(i) PROVE BoardsInv'
  <2>1. i \in Nat /\ i >= 1 /\ i <= Len(registry) /\ Len(registry) \in Nat
    BY <1>0
  <2>2. SubSeq(registry, 1, i - 1) \in Seq(Devices)
    BY <1>0, <2>1, SubSeqProperties
  <2>3. SubSeq(registry, i + 1, Len(registry)) \in Seq(Devices)
    BY <1>0, <2>1, SubSeqProperties
  <2>4. SubSeq(registry, 1, i - 1) \o SubSeq(registry, i + 1, Len(registry)) \in Seq(Devices)
    BY <2>2, <2>3, ConcatProperties
  <2> QED BY <1>2, <2>4, PluggedKeeps DEF TakeOut
<1>3. ASSUME NEW c \in Openers, NEW n \in Indexes, BeginOpening(c, n) PROVE BoardsInv'
  <2>1. AtIndex(registry, n) \subseteq Devices
    BY <1>0, AtIndexType
  <2>2. MemoryType'
    BY <1>0, <1>3, <2>1, ZeroIndex, NoEntriesType
    DEF MemoryType, BoardsTypeOK, BeginOpening, StepsTo
  <2>3. /\ opening'[c] = "enum" /\ wanted'[c] = n /\ wasAt'[c] = AtIndex(registry, n)
        /\ devinfo'[c] = [i \in Indexes |-> NoDevice] /\ board'[c] = "none" /\ c \notin stuck'
        /\ opening[c] = "idle" /\ board[c] = "none"
    BY <1>0, <1>3 DEF MemoryType, BoardsTypeOK, BeginOpening, StepsTo
  <2>4. EntryOf(c)' = [dev |-> "none", ready |-> FALSE]
    BY <2>3, NoEntries DEF EntryOf
  <2>5. FileOf(c)' = {}
    BY <1>0, <1>3, <2>3 DEF FileOf, CallerOK, Held, BeginOpening
  <2>6. CallerOK(c)'
    BY <1>3, <2>3, <2>4, <2>5 DEF CallerOK, Held, BeginOpening
  <2> QED BY <1>0, <1>3, <2>2, <2>6, CallerKeeps
    DEF BeginOpening, StepsTo, MemoryType, BoardsTypeOK
<1>4. ASSUME NEW c \in Openers, EnumKey(c) PROVE BoardsInv'
  <2>1. opening[c] = "enum" /\ UNCHANGED <<registry, ready, files, wanted, devinfo, owned, board,
                                          wasAt, stuck, changes, openings>>
    BY <1>4 DEF EnumKey
  <2>2. EntryOf(c)' = EntryOf(c) /\ FileOf(c)' = FileOf(c) /\ FileOf(c) = Held(c) /\ Held(c) = {}
        /\ AtIndex(registry, wanted[c])' = AtIndex(registry, wanted[c])
    BY <1>0, <2>1 DEF EntryOf, FileOf, CallerOK, Held, AtIndex
  <2>3. place[c] \in 0 .. MaxDevices
    BY <1>0 DEF BoardsTypeOK
  <2>4. CASE place[c] = MaxDevices
    <3>1. opening' = [opening EXCEPT ![c] = "check"] /\ UNCHANGED <<place, key>>
      BY <1>4, <2>4 DEF EnumKey, StepsTo
    <3>2. MemoryType'
      BY <1>0, <2>1, <3>1 DEF MemoryType, BoardsTypeOK
    <3>3. opening'[c] = "check"
      BY <1>0, <3>1 DEF BoardsTypeOK
    <3>4. CallerOK(c)'
      BY <1>0, <2>1, <2>2, <3>3 DEF CallerOK, Held
    <3> QED BY <1>0, <2>1, <3>1, <3>2, <3>4, CallerKeeps DEF BoardsTypeOK
  <2>5. CASE place[c] # MaxDevices /\ place[c] < Len(registry)
    <3>1. /\ key' = [key EXCEPT ![c] = registry[place[c] + 1]]
          /\ opening' = [opening EXCEPT ![c] = "values"] /\ UNCHANGED place
      BY <1>4, <2>5 DEF EnumKey, StepsTo
    <3>2. registry[place[c] + 1] \in Devices /\ place[c] \in Indexes
      BY <1>0, <2>3, <2>5, ZeroIndex, ElementOfSeq, LenProperties DEF Indexes
    <3>3. MemoryType'
      BY <1>0, <2>1, <3>1, <3>2 DEF MemoryType, BoardsTypeOK
    <3>4. opening'[c] = "values" /\ key'[c] = registry[place[c] + 1]
      BY <1>0, <3>1 DEF BoardsTypeOK, MemoryType
    <3>5. place[c] = wanted[c] => key'[c] \in wasAt[c]
      BY <1>0, <2>1, <2>5, <3>4 DEF CallerOK, AtIndex
    <3>6. CallerOK(c)'
      BY <1>0, <2>1, <2>2, <3>1, <3>2, <3>4, <3>5 DEF CallerOK, Held
    <3> QED BY <1>0, <2>1, <3>1, <3>3, <3>6, CallerKeeps DEF BoardsTypeOK, MemoryType
  <2>6. CASE place[c] # MaxDevices /\ ~(place[c] < Len(registry))
    <3>1. place' = [place EXCEPT ![c] = @ + 1] /\ UNCHANGED <<opening, key>>
      BY <1>4, <2>6 DEF EnumKey
    <3>2. place[c] + 1 \in 0 .. MaxDevices
      BY <2>3, <2>6, ZeroIndex
    <3>3. MemoryType'
      BY <1>0, <2>1, <3>1, <3>2 DEF MemoryType, BoardsTypeOK
    <3>4. CallerOK(c)'
      BY <1>0, <2>1, <2>2, <3>1 DEF CallerOK, Held
    <3> QED BY <1>0, <2>1, <3>1, <3>3, <3>4, CallerKeeps DEF BoardsTypeOK
  <2> QED BY <2>4, <2>5, <2>6
<1>5. ASSUME NEW c \in Openers, ReadValues(c) PROVE BoardsInv'
  <2> DEFINE entry == [dev |-> key[c], ready |-> key[c] \in ready]
  <2>1. /\ opening[c] = "values"
        /\ devinfo' = [devinfo EXCEPT ![c][place[c]] = entry]
        /\ place' = [place EXCEPT ![c] = @ + 1] /\ key' = [key EXCEPT ![c] = "none"]
        /\ opening' = [opening EXCEPT ![c] = "enum"]
        /\ UNCHANGED <<registry, ready, files, wanted, owned, board, wasAt, stuck, changes, openings>>
    BY <1>5 DEF ReadValues, StepsTo
  <2>2. place[c] \in Indexes /\ key[c] \in Devices /\ wanted[c] \in Indexes
        /\ (place[c] = wanted[c] => key[c] \in wasAt[c])
    BY <1>0, <2>1 DEF CallerOK, BoardsTypeOK
  <2>3. place[c] + 1 \in 0 .. MaxDevices
    BY <2>2, ZeroIndex DEF Indexes
  <2>4. entry \in [dev : Devices \cup {"none"}, ready : BOOLEAN]
    BY <2>2
  <2>5. EntryOf(c)' = IF place[c] = wanted[c] THEN entry ELSE EntryOf(c)
    BY <1>0, <2>1, <2>2 DEF EntryOf, MemoryType
  <2>6. entry.dev = key[c] /\ (entry.ready <=> key[c] \in ready)
    OBVIOUS
  <2> HIDE DEF entry
  <2>7. MemoryType'
    <3>1. devinfo' \in [Openers -> [Indexes -> [dev : Devices \cup {"none"}, ready : BOOLEAN]]]
      BY <1>0, <2>1, <2>4 DEF MemoryType
    <3> QED BY <1>0, <2>1, <2>3, <3>1 DEF MemoryType, BoardsTypeOK
  <2>8. opening'[c] = "enum" /\ FileOf(c)' = FileOf(c) /\ FileOf(c) = Held(c) /\ Held(c) = {}
        /\ AtIndex(registry, wanted[c])' = AtIndex(registry, wanted[c])
    BY <1>0, <2>1 DEF BoardsTypeOK, FileOf, CallerOK, Held, AtIndex
  <2>9. CallerOK(c)'
    BY <1>0, <2>1, <2>2, <2>5, <2>6, <2>8 DEF CallerOK, Held
  <2>10. \A d \in Openers \ {c} :
           opening'[d] = opening[d] /\ devinfo'[d] = devinfo[d] /\ place'[d] = place[d]
           /\ key'[d] = key[d]
    BY <1>0, <2>1 DEF MemoryType, BoardsTypeOK
  <2> QED BY <1>0, <2>1, <2>7, <2>9, <2>10, CallerKeeps
<1>6. ASSUME NEW c \in Openers, EnumFails(c) PROVE BoardsInv'
  BY <1>6, GivesUpKeeps DEF EnumFails
<1>7. ASSUME NEW c \in Openers, Allocate(c) PROVE BoardsInv'
  <2>1. /\ opening[c] = "check" /\ EntryOf(c).ready
        /\ owned' = [owned EXCEPT ![c] = TRUE] /\ opening' = [opening EXCEPT ![c] = "file"]
        /\ UNCHANGED <<registry, ready, files, wanted, devinfo, place, key, board, wasAt, stuck,
                       changes, openings>>
    BY <1>7 DEF Allocate, StepsTo
  <2>2. MemoryType'
    BY <1>0, <2>1 DEF MemoryType, BoardsTypeOK
  <2>3. opening'[c] = "file" /\ owned'[c] = TRUE /\ EntryOf(c)' = EntryOf(c)
        /\ FileOf(c)' = FileOf(c) /\ FileOf(c) = Held(c) /\ Held(c) = {}
        /\ AtIndex(registry, wanted[c])' = AtIndex(registry, wanted[c])
    BY <1>0, <2>1 DEF BoardsTypeOK, FileOf, CallerOK, Held, AtIndex, EntryOf
  <2>4. CallerOK(c)'
    BY <1>0, <2>1, <2>3 DEF CallerOK, Held
  <2> QED BY <1>0, <2>1, <2>2, <2>4, CallerKeeps DEF BoardsTypeOK
<1>8. ASSUME NEW c \in Openers, NotAvailable(c) PROVE BoardsInv'
  BY <1>8, GivesUpKeeps DEF NotAvailable
<1>9. ASSUME NEW c \in Openers, CreateFile(c) PROVE BoardsInv'
  <2> DEFINE file == [by |-> c, board |-> EntryOf(c).dev]
  <2>1. /\ opening[c] = "file" /\ opening' = [opening EXCEPT ![c] = "query"]
        /\ files' = files \cup {file} /\ \A f \in files : f.board # EntryOf(c).dev
        /\ UNCHANGED <<registry, ready, wanted, devinfo, place, key, owned, board, wasAt, stuck,
                       changes, openings>>
    BY <1>9 DEF CreateFile, StepsTo
  <2>2. EntryOf(c).ready /\ owned[c] /\ EntryOf(c).dev \in Devices /\ board[c] = "none"
        /\ c \notin stuck /\ FileOf(c) = {}
    <3>1. EntryOf(c).dev \in wasAt[c] /\ wasAt[c] \subseteq Devices
      BY <1>0, <2>1 DEF CallerOK, MemoryType
    <3> QED BY <1>0, <2>1, <3>1 DEF CallerOK, Held
  <2>3. MemoryType'
    BY <1>0, <2>1, <2>2 DEF MemoryType, BoardsTypeOK
  <2>4. OneFile'
    <3> SUFFICES ASSUME NEW f \in files', NEW g \in files', f.board = g.board PROVE f = g
      BY DEF OneFile
    <3>1. file.board = EntryOf(c).dev
      OBVIOUS
    <3> HIDE DEF file
    <3> QED BY <2>1, <3>1 DEF BoardsInv, OneFile
  <2>5. opening'[c] = "query" /\ EntryOf(c)' = EntryOf(c) /\ FileOf(c)' = {file}
        /\ AtIndex(registry, wanted[c])' = AtIndex(registry, wanted[c])
    BY <1>0, <2>1, <2>2 DEF BoardsTypeOK, FileOf, AtIndex, EntryOf
  <2>6. CallerOK(c)'
    BY <1>0, <2>1, <2>2, <2>5 DEF CallerOK, Held
  <2>7. ASSUME NEW d \in Openers, d # c PROVE CallerOK(d)'
    <3>1. FileOf(d)' = FileOf(d)
      BY <2>1, <2>7, FilesOfOthers
    <3>2. Unmoved(d)
      BY <1>0, <2>1, <2>7, <3>1 DEF Unmoved, BoardsTypeOK
    <3> QED BY <1>0, <2>1, <3>2, UnmovedOK
  <2> QED BY <2>3, <2>4, <2>6, <2>7 DEF BoardsInv
<1>10. ASSUME NEW c \in Openers, CreateFileFails(c) PROVE BoardsInv'
  BY <1>10, GivesUpKeeps DEF CreateFileFails
<1>11. ASSUME NEW c \in Openers, Query(c) PROVE BoardsInv'
  <2>1. /\ opening[c] = "query" /\ board' = [board EXCEPT ![c] = EntryOf(c).dev]
        /\ opening' = [opening EXCEPT ![c] = "idle"]
        /\ UNCHANGED <<registry, ready, files, wanted, devinfo, place, key, owned, wasAt, stuck,
                       changes, openings>>
    BY <1>11 DEF Query, StepsTo
  <2>2. EntryOf(c).ready /\ owned[c] /\ EntryOf(c).dev \in wasAt[c] \cap ready /\ board[c] = "none"
        /\ EntryOf(c).dev \in Devices /\ c \notin stuck
        /\ FileOf(c) = {[by |-> c, board |-> EntryOf(c).dev]}
    <3>1. EntryOf(c).dev \in wasAt[c] /\ wasAt[c] \subseteq Devices
      BY <1>0, <2>1 DEF CallerOK, MemoryType
    <3> QED BY <1>0, <2>1, <3>1 DEF CallerOK, Held
  <2>3. EntryOf(c).dev # "none"
    BY <2>2, DevicesAssumption
  <2>4. MemoryType'
    BY <1>0, <2>1, <2>2 DEF MemoryType, BoardsTypeOK
  <2>5. opening'[c] = "idle" /\ board'[c] = EntryOf(c).dev /\ FileOf(c)' = FileOf(c)
    BY <1>0, <2>1 DEF BoardsTypeOK, FileOf
  <2>6. CallerOK(c)'
    BY <1>0, <2>1, <2>2, <2>3, <2>5 DEF CallerOK, Held
  <2> QED BY <1>0, <2>1, <2>4, <2>6, CallerKeeps DEF BoardsTypeOK
<1>12. ASSUME NEW c \in Openers, QueryFails(c) PROVE BoardsInv'
  BY <1>12, GivesUpKeeps DEF QueryFails, Closed
<1>13. ASSUME NEW c \in Openers, Close(c) PROVE BoardsInv'
  <2>1. /\ board[c] # "none" /\ c \notin stuck /\ opening[c] = "idle"
        /\ FileOf(c) = {[by |-> c, board |-> board[c]]}
    BY <1>0, <1>13 DEF Close, CallerOK, Held, BoardsTypeOK
  <2>2. \/ files' = files \ FileOf(c) /\ UNCHANGED stuck
        \/ stuck' = stuck \cup {c} /\ UNCHANGED files
    BY <1>13 DEF Close
  <2>3. files' \subseteq files
    BY <2>2
  <2>4. MemoryType'
    BY <1>0, <1>13, <2>3, ZeroIndex, NoEntriesType DEF MemoryType, BoardsTypeOK, Close
  <2>5. OneFile'
    BY <2>3 DEF BoardsInv, OneFile
  <2>6. opening'[c] = "idle" /\ board'[c] = "none" /\ owned'[c] = FALSE
        /\ (c \notin stuck' => FileOf(c)' = {})
    BY <1>0, <1>13, <2>1, <2>2 DEF BoardsTypeOK, FileOf, Close
  <2>7. CallerOK(c)'
    BY <2>6 DEF CallerOK, Held
  <2>8. ASSUME NEW d \in Openers, d # c PROVE CallerOK(d)'
    <3>1. FileOf(d)' = FileOf(d)
      BY <2>2, <2>8, FilesOfOthers
    <3>2. Unmoved(d)
      BY <1>0, <1>13, <2>2, <2>8, <3>1 DEF Unmoved, BoardsTypeOK, MemoryType, Close
    <3> QED BY <1>0, <1>13, <3>2, UnmovedOK DEF Close
  <2> QED BY <2>4, <2>5, <2>7, <2>8 DEF BoardsInv
<1>14. CASE UNCHANGED boardVars
  <2>1. UNCHANGED <<registry, ready, files, stuck>> /\ MemoryType' /\ OneFile'
    BY <1>0, <1>14 DEF boardVars, MemoryType, BoardsTypeOK, BoardsInv, OneFile
  <2>2. ASSUME NEW d \in Openers PROVE CallerOK(d)'
    <3>1. Unmoved(d)
      BY <1>14 DEF boardVars, Unmoved, FileOf
    <3> QED BY <1>0, <2>1, <3>1, UnmovedOK
  <2> QED BY <2>1, <2>2 DEF BoardsInv
<1> QED
  BY <1>1, <1>2, <1>3, <1>4, <1>5, <1>6, <1>7, <1>8, <1>9, <1>10, <1>11, <1>12, <1>13, <1>14
  DEF BoardsNext

LEMMA BoardsInvariant == BoardsSpec => []BoardsInv
BY BoardsInvInit, BoardsInvStep, PTL DEF BoardsSpec

\* Every caller of SDM35541_Board_Open is at a place of it, with an index that
\* devinfo has.
THEOREM BoardsTypeCorrect == BoardsSpec => []BoardsTypeOK
<1>1. BoardsInv => BoardsTypeOK
  BY DEF BoardsInv, MemoryType
<1> QED BY <1>1, BoardsInvariant, PTL

\* However boards come and go while the registry is enumerated, a handle is of
\* a board that its index has meant during the call, which nobody else has.
THEOREM HandlesOfIndexes == BoardsSpec => []HandleIsOfIndex
<1>1. BoardsInv => HandleIsOfIndex
  <2> SUFFICES ASSUME BoardsInv, NEW c \in Openers, board[c] # "none"
               PROVE  /\ board[c] \in wasAt[c] \cap ready /\ owned[c]
                      /\ [by |-> c, board |-> board[c]] \in files
                      /\ \A d \in Openers \ {c} : board[d] # board[c]
    BY DEF HandleIsOfIndex
  <2>1. \A d \in Openers : board[d] # "none" => [by |-> d, board |-> board[d]] \in files
    <3> TAKE d \in Openers
    <3> HAVE board[d] # "none"
    <3>1. FileOf(d) = {[by |-> d, board |-> board[d]]}
      BY DEF BoardsInv, CallerOK, Held
    <3> QED BY <3>1 DEF FileOf
  <2>2. ASSUME NEW d \in Openers \ {c} PROVE board[d] # board[c]
    <3> SUFFICES ASSUME board[d] = board[c] PROVE FALSE
      OBVIOUS
    <3>1. [by |-> c, board |-> board[c]] = [by |-> d, board |-> board[d]]
      BY <2>1 DEF BoardsInv, OneFile
    <3> QED BY <3>1
  <2> QED BY <2>1, <2>2 DEF BoardsInv, CallerOK
<1> QED BY <1>1, BoardsInvariant, PTL

\* SDM35541_Board_Open and _Board_Close leave neither memory nor file behind,
\* wherever they failed, unless CloseHandle does.
THEOREM NothingStays == BoardsSpec => []NothingIsLeft
<1>1. BoardsInv => NothingIsLeft
  BY DEF BoardsInv, CallerOK, Held, NothingIsLeft
<1> QED BY <1>1, BoardsInvariant, PTL

----------------------------------------------------------------------------
\* Finding a function block

\* Where a call is in the table: Open is at the entry of its number, Open_Module
\* has passed as many blocks of the type as it no longer counts.
Seeks ==
  next # "idle" =>
    \/ sought.call = "open" /\ count = sought.n
    \/ /\ sought.call = "module" /\ sought.type # "invalid"
       /\ sought.n = left + Cardinality(OfType(sought.type, count - 1))

\* What the call has read of the entry it is at.
HasRead ==
  /\ next \in {"offset", "dma", "again", "channels", "buffers"} =>
       table[count].type # "invalid" /\ from["type"] = count
  /\ next \in {"dma", "again", "channels", "buffers"} => from["offset"] = count
  /\ next \in {"again", "channels", "buffers"} => from["dma"] = count
  /\ next = "buffers" => from["channels"] = count

BlockInv ==
  /\ BlockTypeOK /\ Seeks /\ HasRead /\ BlockIsSought
  /\ areas = {} \/ \E e \in Entry : areas = Areas(e)

LEMMA OfTypeFinite ==
  ASSUME NEW t, NEW n \in Int
  PROVE  IsFiniteSet(OfType(t, n)) /\ Cardinality(OfType(t, n)) \in Nat
<1>1. IsFiniteSet(0 .. n)
  BY FS_Interval
<1>2. IsFiniteSet(OfType(t, n))
  BY <1>1, FS_Subset DEF OfType
<1> QED BY <1>2, FS_CardinalityType

LEMMA OfTypeNext ==
  ASSUME NEW t, NEW n \in Nat
  PROVE  Cardinality(OfType(t, n)) =
           Cardinality(OfType(t, n - 1)) + (IF table[n].type = t THEN 1 ELSE 0)
<1>1. OfType(t, n) = IF table[n].type = t THEN OfType(t, n - 1) \cup {n} ELSE OfType(t, n - 1)
  BY DEF OfType
<1>2. n \notin OfType(t, n - 1)
  BY DEF OfType
<1>3. IsFiniteSet(OfType(t, n - 1)) /\ Cardinality(OfType(t, n - 1)) \in Nat
  BY OfTypeFinite
<1>4. Cardinality(OfType(t, n - 1) \cup {n}) = Cardinality(OfType(t, n - 1)) + 1
  BY <1>2, <1>3, FS_AddElement
<1> QED BY <1>1, <1>3, <1>4

LEMMA OfTypeNone == ASSUME NEW t PROVE Cardinality(OfType(t, -1)) = 0
<1>1. OfType(t, -1) = {}
  BY DEF OfType
<1> QED BY <1>1, FS_EmptySet

LEMMA TableTyped ==
  ASSUME BlockTypeOK, NEW n \in Numbers
  PROVE  table[n] \in Entry
BY TablesAssumption DEF BlockTypeOK

LEMMA BlockInvInit == BlockInit => BlockInv
<1> SUFFICES ASSUME BlockInit PROVE BlockInv
  OBVIOUS
<1>1. 0 \in Numbers
  BY MaxFbAssumption DEF Numbers
<1>2. BlockTypeOK
  BY <1>1 DEF BlockInit, BlockTypeOK, NoOpen, Types, NoEntry
<1>3. Seeks /\ HasRead /\ BlockIsSought /\ areas = {}
  BY DEF BlockInit, Seeks, HasRead, BlockIsSought, NoOpen
<1> QED BY <1>2, <1>3 DEF BlockInv

\* A call that has come to the end of an entry returns it or goes on to the
\* next, and stays where it says.
LEMMA EntryDoneKeeps ==
  ASSUME BlockTypeOK, Seeks, EntryDone, next # "idle",
         from' \in [BlockFields -> Numbers \cup {NoEntry}],
         table' = table, opens' = opens,
         NEW n, n = count, table[n].type # "invalid" => IsEntry(n)',
         next' \in {"idle", "type"}
  PROVE  BlockTypeOK' /\ Seeks' /\ HasRead' /\ BlockIsSought'
<1> DEFINE t == table[count].type
           passed == Cardinality(OfType(sought.type, count - 1))
           all == Cardinality(OfType(sought.type, count))
<1>1. count \in Nat /\ left \in Nat /\ count <= MaxFb - 1 /\ MaxFb \in Nat
      /\ passed \in Nat /\ t \in Types /\ sought.n \in Nat
  BY OfTypeFinite, TableTyped, MaxFbAssumption DEF BlockTypeOK, Numbers, Entry
<1>2. all = passed + (IF t = sought.type THEN 1 ELSE 0)
  BY <1>1, OfTypeNext
<1>3. HasRead'
  BY DEF HasRead
<1>4. \A u, m : OfType(u, m)' = OfType(u, m)
  BY DEF OfType
<1>5. CASE sought.call = "open"
  <2>1. BlockReturns("ok") /\ count = sought.n
    BY <1>5 DEF EntryDone, Seeks
  <2>2. BlockTypeOK' /\ Seeks'
    BY <2>1, MaxFbAssumption DEF BlockReturns, BlockTypeOK, Seeks, NoOpen, Types, Numbers
  <2>3. opened' = [call |-> sought, result |-> "ok"] /\ sought.n = n
    BY <2>1 DEF BlockReturns
  <2>4. table'[n].type = "invalid" \/ IsEntry(n)'
    OBVIOUS
  <2>5. BlockIsSought'
    BY <1>5, <2>3, <2>4 DEF BlockIsSought
  <2> QED BY <1>3, <2>2, <2>5
<1>6. CASE sought.call # "open" /\ Found(t)
  <2>1. BlockReturns("ok") /\ sought.call = "module" /\ t = sought.type /\ left = 0
        /\ sought.n = left + passed /\ sought.type # "invalid"
    BY <1>6 DEF EntryDone, Seeks, Found
  <2>2. BlockTypeOK' /\ Seeks'
    BY <2>1, MaxFbAssumption DEF BlockReturns, BlockTypeOK, Seeks, NoOpen, Types, Numbers
  <2>3. IsEntry(n)' /\ from'["type"] = n
    BY <2>1 DEF IsEntry, BlockFields
  <2>4. Cardinality(OfType(sought.type, n)) = sought.n + 1
    BY <1>1, <1>2, <2>1
  <2>5. opened' = [call |-> sought, result |-> "ok"]
    BY <2>1 DEF BlockReturns
  <2>6. BlockIsSought'
    <3>1. \A u, m : {i \in 0 .. m : table'[i].type = u} = OfType(u, m)
      BY DEF OfType
    <3> QED BY <2>1, <2>3, <2>4, <2>5, <3>1 DEF BlockIsSought, OfType
  <2> QED BY <1>3, <2>2, <2>6
<1>7. CASE sought.call # "open" /\ ~Found(t) /\ count + 1 = MaxFb
  <2>1. BlockReturns("nodev") /\ sought.call = "module" /\ sought.n = left + passed
    BY <1>7 DEF EntryDone, Seeks
  <2>2. BlockTypeOK' /\ Seeks'
    BY <2>1, MaxFbAssumption DEF BlockReturns, BlockTypeOK, Seeks, NoOpen, Types, Numbers
  <2>3. all <= sought.n /\ count = MaxFb - 1
    BY <1>1, <1>2, <1>7, <2>1 DEF Found
  <2>4. opened' = [call |-> sought, result |-> "nodev"]
    BY <2>1 DEF BlockReturns
  <2>5. BlockIsSought'
    BY <1>4, <2>1, <2>3, <2>4 DEF BlockIsSought
  <2> QED BY <1>3, <2>2, <2>5
<1>8. CASE sought.call # "open" /\ ~Found(t) /\ count + 1 # MaxFb
  <2>1. /\ count' = count + 1 /\ left' = (IF t = sought.type THEN left - 1 ELSE left)
        /\ next' = "type" /\ sought' = sought /\ opened' = opened
        /\ sought.call = "module" /\ sought.n = left + passed /\ sought.type # "invalid"
    BY <1>8 DEF EntryDone, Seeks
  <2>2. left' \in Nat /\ count' \in Numbers /\ count' - 1 = count
    BY <1>1, <1>8, <2>1 DEF Found, Numbers
  <2>3. BlockTypeOK'
    BY <2>1, <2>2 DEF BlockTypeOK
  <2>4. OfType(sought.type, count - 1)' = OfType(sought.type, count)
    BY <2>1, <2>2 DEF OfType
  <2>5. sought.n = left' + all
    BY <1>1, <1>2, <1>8, <2>1 DEF Found
  <2>6. Seeks'
    BY <2>1, <2>2, <2>4, <2>5 DEF Seeks
  <2>7. BlockIsSought'
    BY <2>1 DEF BlockIsSought
  <2> QED BY <1>3, <2>3, <2>6, <2>7
<1> QED BY <1>5, <1>6, <1>7, <1>8

\* A read that goes on with the same entry.
LEMMA ReadGoesOn ==
  ASSUME BlockInv, next # "idle", next' \notin {"idle"},
         next' \in {"offset", "dma", "again", "channels", "buffers"},
         from' \in [BlockFields -> Numbers \cup {NoEntry}],
         UNCHANGED <<table, areas, sought, left, count, opened, opens>>
  PROVE  BlockTypeOK' /\ Seeks' /\ BlockIsSought'
         /\ (areas = {} \/ \E e \in Entry : areas = Areas(e))'
<1>1. BlockTypeOK'
  BY DEF BlockInv, BlockTypeOK
<1>2. Seeks'
  BY DEF BlockInv, Seeks, OfType
<1>3. BlockIsSought'
  BY DEF BlockIsSought
<1> QED BY <1>1, <1>2, <1>3 DEF BlockInv

LEMMA FromTyped ==
  ASSUME BlockTypeOK, NEW f \in BlockFields, ReadsField(f)
  PROVE  from' \in [BlockFields -> Numbers \cup {NoEntry}]
BY DEF BlockTypeOK, ReadsField

LEMMA BlockInvStep == BlockInv /\ [BlockNext]_blockVars => BlockInv'
<1> SUFFICES ASSUME BlockInv, [BlockNext]_blockVars PROVE BlockInv'
  OBVIOUS
<1> USE DEF blockVars
<1>0. BlockTypeOK /\ Seeks /\ HasRead /\ BlockIsSought
  BY DEF BlockInv
<1>1. ASSUME NEW n \in 0 .. MaxFb, BeginOpen(n) PROVE BlockInv'
  <2>1. (areas = {} \/ \E e \in Entry : areas = Areas(e))'
    BY <1>1 DEF BeginOpen, BlockInv
  <2>2. CASE n >= MaxFb
    <3>1. BlockTypeOK' /\ HasRead' /\ Seeks'
      BY <1>0, <1>1, <2>2 DEF BeginOpen, BlockTypeOK, HasRead, Seeks
    <3>2. BlockIsSought'
      BY <1>1, <2>2 DEF BeginOpen, BlockIsSought
    <3> QED BY <2>1, <3>1, <3>2 DEF BlockInv
  <2>3. CASE ~(n >= MaxFb)
    <3>1. n \in Numbers
      BY <2>3, MaxFbAssumption DEF Numbers
    <3>2. BlockTypeOK' /\ HasRead' /\ Seeks'
      BY <1>0, <1>1, <2>3, <3>1 DEF BeginOpen, BlockTypeOK, HasRead, Seeks, Types, Numbers
    <3>3. BlockIsSought'
      BY <1>1, <2>3 DEF BeginOpen, BlockIsSought
    <3> QED BY <2>1, <3>2, <3>3 DEF BlockInv
  <2> QED BY <2>2, <2>3
<1>2. ASSUME NEW t \in Types \ {"invalid"}, NEW n \in Numbers, BeginOpenModule(t, n)
      PROVE  BlockInv'
  <2>1. (areas = {} \/ \E e \in Entry : areas = Areas(e))'
    BY <1>2 DEF BeginOpenModule, BlockInv
  <2>2. BlockTypeOK' /\ HasRead' /\ BlockIsSought'
    BY <1>0, <1>2, MaxFbAssumption
    DEF BeginOpenModule, BlockTypeOK, HasRead, BlockIsSought, Numbers
  <2>3. Seeks'
    <3>1. /\ sought' = [call |-> "module", type |-> t, n |-> n] /\ left' = n /\ count' = 0
          /\ next' = "type"
      BY <1>2 DEF BeginOpenModule
    <3>2. Cardinality(OfType(t, -1))' = 0
      <4>1. OfType(t, -1)' = {}
        BY DEF OfType
      <4> QED BY <4>1, FS_EmptySet
    <3>3. OfType(sought.type, count - 1)' = OfType(t, -1)'
      BY <3>1 DEF OfType
    <3> QED BY <3>1, <3>2, <3>3 DEF Seeks, Numbers
  <2> QED BY <2>1, <2>2, <2>3 DEF BlockInv
<1>3. CASE ReadType
  <2>1. next = "type" /\ from' = [from EXCEPT !["type"] = count]
        /\ UNCHANGED <<table, areas, opens>>
    BY <1>3 DEF ReadType, ReadsField
  <2>2. from' \in [BlockFields -> Numbers \cup {NoEntry}]
    BY <1>0, <2>1 DEF BlockTypeOK
  <2>3. (areas = {} \/ \E e \in Entry : areas = Areas(e))'
    BY <2>1 DEF BlockInv
  <2>4. CASE table[count].type = "invalid"
    <3>1. EntryDone
      BY <1>3, <2>4 DEF ReadType
    <3>2. next' \in {"idle", "type"}
      BY <3>1 DEF EntryDone, BlockReturns
    <3>3. BlockTypeOK' /\ Seeks' /\ HasRead' /\ BlockIsSought'
      BY <1>0, <2>1, <2>2, <2>4, <3>1, <3>2, EntryDoneKeeps
    <3> QED BY <2>3, <3>3 DEF BlockInv
  <2>5. CASE table[count].type # "invalid"
    <3>1. next' = "offset" /\ UNCHANGED <<sought, left, count, opened>>
      BY <1>3, <2>5 DEF ReadType
    <3>2. HasRead'
      BY <1>0, <2>1, <2>5, <3>1 DEF HasRead, BlockTypeOK, BlockFields
    <3> QED BY <2>1, <2>2, <3>1, <3>2, ReadGoesOn DEF BlockInv
  <2> QED BY <2>4, <2>5
<1>4. CASE ReadOffset
  <2>1. HasRead'
    BY <1>0, <1>4 DEF ReadOffset, ReadsField, HasRead, BlockTypeOK, BlockFields
  <2>2. "offset" \in BlockFields
    BY DEF BlockFields
  <2> QED BY <1>0, <1>4, <2>1, <2>2, FromTyped, ReadGoesOn DEF ReadOffset, ReadsField, BlockInv
<1>5. CASE ReadDma
  <2>1. HasRead'
    BY <1>0, <1>5 DEF ReadDma, ReadsField, HasRead, BlockTypeOK, BlockFields
  <2>2. "dma" \in BlockFields
    BY DEF BlockFields
  <2> QED BY <1>0, <1>5, <2>1, <2>2, FromTyped, ReadGoesOn DEF ReadDma, ReadsField, BlockInv
<1>6. CASE ReadTypeAgain
  <2>1. CASE table[count].agrees
    <3>1. HasRead'
      BY <1>0, <1>6, <2>1 DEF ReadTypeAgain, HasRead
    <3> QED BY <1>0, <1>6, <2>1, <3>1, ReadGoesOn DEF ReadTypeAgain, BlockInv, BlockTypeOK
  <2>2. CASE ~table[count].agrees
    <3>1. BlockReturns("fault") /\ UNCHANGED <<table, from, areas, opens>>
      BY <1>6, <2>2 DEF ReadTypeAgain
    <3>2. BlockTypeOK' /\ Seeks' /\ HasRead'
      BY <1>0, <3>1, MaxFbAssumption
      DEF BlockReturns, BlockTypeOK, Seeks, HasRead, NoOpen, Types, Numbers
    <3>3. BlockIsSought'
      BY <1>0, <2>2, <3>1 DEF BlockReturns, BlockIsSought, BlockTypeOK
    <3> QED BY <3>1, <3>2, <3>3 DEF BlockInv
  <2> QED BY <2>1, <2>2
<1>7. CASE ReadChannels
  <2>1. HasRead'
    BY <1>0, <1>7 DEF ReadChannels, ReadsField, HasRead, BlockTypeOK, BlockFields
  <2>2. "channels" \in BlockFields
    BY DEF BlockFields
  <2> QED BY <1>0, <1>7, <2>1, <2>2, FromTyped, ReadGoesOn DEF ReadChannels, ReadsField, BlockInv
<1>8. CASE ReadBuffers
  <2>1. /\ next = "buffers" /\ EntryDone /\ UNCHANGED <<table, opens>>
        /\ from' = [from EXCEPT !["buffers"] = count, !["number"] = count]
        /\ areas' = Areas([table[count] EXCEPT !.dma = table[from["dma"]].dma,
                                               !.channels = table[from["channels"]].channels])
    BY <1>8 DEF ReadBuffers
  <2>2. /\ table[count].type # "invalid" /\ from["type"] = count /\ from["offset"] = count
        /\ from["dma"] = count /\ from["channels"] = count
    BY <1>0, <2>1 DEF HasRead
  <2>3. from' \in [BlockFields -> Numbers \cup {NoEntry}] /\ count \in Numbers
    BY <1>0, <2>1 DEF BlockTypeOK
  <2>4. table[count] \in Entry
    BY <1>0, <2>3, TableTyped
  <2>5. [table[count] EXCEPT !.dma = table[from["dma"]].dma,
                             !.channels = table[from["channels"]].channels] = table[count]
    BY <2>2, <2>4 DEF Entry
  <2>6. areas' = Areas(table[count])
    BY <2>1, <2>5
  <2>7. \A f \in BlockFields : from'[f] = count
    BY <1>0, <2>1, <2>2 DEF BlockTypeOK, BlockFields
  <2>8. next' \in {"idle", "type"}
    BY <2>1 DEF EntryDone, BlockReturns
  <2>9. (areas = {} \/ \E e \in Entry : areas = Areas(e))'
    BY <2>4, <2>6
  <2>10. table'[count] = table[count]
    BY <2>1
  <2>11. BlockTypeOK' /\ Seeks' /\ HasRead' /\ BlockIsSought'
    <3>1. ASSUME NEW n, n = count PROVE IsEntry(n)'
      BY <2>1, <2>2, <2>6, <2>7, <3>1 DEF IsEntry
    <3> QED BY <1>0, <2>1, <2>3, <2>8, <3>1, EntryDoneKeeps
  <2> QED BY <2>9, <2>11 DEF BlockInv
<1>9. CASE BlockReadFails
  <2>1. BlockReturns("io") /\ UNCHANGED <<table, from, areas, opens>>
    BY <1>9 DEF BlockReadFails
  <2>2. BlockTypeOK' /\ Seeks' /\ HasRead'
    BY <1>0, <2>1, MaxFbAssumption
    DEF BlockReturns, BlockTypeOK, Seeks, HasRead, NoOpen, Types, Numbers
  <2>3. BlockIsSought'
    BY <2>1 DEF BlockReturns, BlockIsSought
  <2> QED BY <2>1, <2>2, <2>3 DEF BlockInv
<1>10. CASE UNCHANGED blockVars
  <2>1. BlockTypeOK' /\ HasRead'
    BY <1>0, <1>10 DEF BlockTypeOK, HasRead
  <2>2. Seeks'
    BY <1>0, <1>10 DEF Seeks, OfType
  <2>3. BlockIsSought'
    BY <1>0, <1>10 DEF BlockIsSought, IsEntry, OfType
  <2> QED BY <1>10, <2>1, <2>2, <2>3 DEF BlockInv
<1> QED
  BY <1>1, <1>2, <1>3, <1>4, <1>5, <1>6, <1>7, <1>8, <1>9, <1>10 DEF BlockNext

\* Two channels of a block are as far apart as the registers of one of them and
\* of its buffers are long.
LEMMA ChannelsApart ==
  ASSUME NEW e \in Entry, NEW c \in Nat, NEW d \in Nat, c < d
  PROVE  ChannelAt(e, c) + BlockSize + BlockSize * e.buffers <= ChannelAt(e, d)
<1> DEFINE k == BlockSize + BlockSize * e.buffers
<1>1. k \in Nat /\ e.dma \in Nat
  BY DEF Entry, BlockSize
<1>2. ChannelAt(e, c) = e.dma + k * c /\ ChannelAt(e, d) = e.dma + k * d
  BY DEF ChannelAt
<1> HIDE DEF k
<1>3. k * c + k = k * (c + 1) /\ k * c \in Nat /\ k * d \in Nat
  BY <1>1
<1>4. k * (c + 1) <= k * d
  <2>1. PICK g \in Nat : d = c + 1 + g
    <3>1. d - (c + 1) \in Nat /\ d = c + 1 + (d - (c + 1))
      OBVIOUS
    <3> QED BY <3>1
  <2>2. k * d = k * (c + 1) + k * g /\ k * g \in Nat /\ k * (c + 1) \in Nat
    BY <1>1, <2>1
  <2> QED BY <2>2
<1>5. ChannelAt(e, c) + BlockSize + BlockSize * e.buffers = ChannelAt(e, c) + k
  BY <1>1, <1>2, <1>3 DEF k, BlockSize, Entry
<1> QED BY <1>1, <1>2, <1>3, <1>4, <1>5

\* Where an area is in its channel.
LEMMA AreaInChannel ==
  ASSUME NEW e \in Entry, NEW a \in Areas(e)
  PROVE  /\ a.channel \in Nat /\ a.buffer \in -1 .. e.buffers - 1 /\ e.buffers \in Nat
         /\ ChannelAt(e, a.channel) \in Nat
         /\ a.at = ChannelAt(e, a.channel) + BlockSize + BlockSize * a.buffer
         /\ a = [channel |-> a.channel, buffer |-> a.buffer, at |-> a.at]
<1>1. e.dma \in Nat /\ e.channels \in Nat /\ e.buffers \in Nat
  BY DEF Entry
<1>2. \A c \in Nat : ChannelAt(e, c) \in Nat
  <2> TAKE c \in Nat
  <2>1. BlockSize + BlockSize * e.buffers \in Nat
    BY <1>1 DEF BlockSize
  <2>2. (BlockSize + BlockSize * e.buffers) * c \in Nat
    BY <2>1
  <2> QED BY <1>1, <2>2 DEF ChannelAt
<1>3. CASE \E c \in 0 .. e.channels - 1 : a = [channel |-> c, buffer |-> -1, at |-> ChannelAt(e, c)]
  <2>1. PICK c \in 0 .. e.channels - 1 : a = [channel |-> c, buffer |-> -1, at |-> ChannelAt(e, c)]
    BY <1>3
  <2>2. c \in Nat /\ a.channel = c /\ a.buffer = -1 /\ a.at = ChannelAt(e, c)
    BY <1>1, <2>1
  <2>3. ChannelAt(e, c) \in Nat
    BY <1>2, <2>2
  <2> HIDE DEF ChannelAt
  <2> QED BY <1>1, <2>1, <2>2, <2>3 DEF BlockSize
<1>4. CASE \E c \in 0 .. e.channels - 1, b \in 0 .. e.buffers - 1 :
             a = [channel |-> c, buffer |-> b, at |-> BufferAt(e, c, b)]
  <2>1. PICK c \in 0 .. e.channels - 1, b \in 0 .. e.buffers - 1 :
          a = [channel |-> c, buffer |-> b, at |-> BufferAt(e, c, b)]
    BY <1>4
  <2>2. c \in Nat /\ a.channel = c /\ a.buffer = b /\ a.at = BufferAt(e, c, b)
    BY <1>1, <2>1
  <2>3. ChannelAt(e, c) \in Nat
    BY <1>2, <2>2
  <2> QED BY <1>1, <2>1, <2>2, <2>3 DEF BufferAt
<1> QED BY <1>3, <1>4 DEF Areas

LEMMA AreasApart ==
  ASSUME NEW e \in Entry, NEW a \in Areas(e), NEW b \in Areas(e), a # b
  PROVE  a.at + BlockSize <= b.at \/ b.at + BlockSize <= a.at
<1> DEFINE A(c) == ChannelAt(e, c)
<1>1. /\ a.channel \in Nat /\ a.buffer \in -1 .. e.buffers - 1 /\ e.buffers \in Nat
      /\ A(a.channel) \in Nat /\ a.at = A(a.channel) + BlockSize + BlockSize * a.buffer
  BY AreaInChannel
<1>2. /\ b.channel \in Nat /\ b.buffer \in -1 .. e.buffers - 1
      /\ A(b.channel) \in Nat /\ b.at = A(b.channel) + BlockSize + BlockSize * b.buffer
  BY AreaInChannel
<1>3. CASE a.channel < b.channel
  <2>1. A(a.channel) + BlockSize + BlockSize * e.buffers <= A(b.channel)
    BY <1>1, <1>2, <1>3, ChannelsApart
  <2> HIDE DEF A
  <2> QED BY <1>1, <1>2, <2>1 DEF BlockSize
<1>4. CASE b.channel < a.channel
  <2>1. A(b.channel) + BlockSize + BlockSize * e.buffers <= A(a.channel)
    BY <1>1, <1>2, <1>4, ChannelsApart
  <2> HIDE DEF A
  <2> QED BY <1>1, <1>2, <2>1 DEF BlockSize
<1>5. CASE a.channel = b.channel
  <2>1. a.buffer # b.buffer
    <3> SUFFICES ASSUME a.buffer = b.buffer PROVE FALSE
      OBVIOUS
    <3>1. a.at = b.at
      BY <1>1, <1>2, <1>5
    <3>2. a = [channel |-> a.channel, buffer |-> a.buffer, at |-> a.at]
          /\ b = [channel |-> b.channel, buffer |-> b.buffer, at |-> b.at]
      BY AreaInChannel
    <3> QED BY <1>5, <3>1, <3>2
  <2> HIDE DEF A
  <2> QED BY <1>1, <1>2, <1>5, <2>1 DEF BlockSize
<1> QED BY <1>1, <1>2, <1>3, <1>4, <1>5

----------------------------------------------------------------------------

LEMMA BlockInvariant == BlockSpec => []BlockInv
BY BlockInvInit, BlockInvStep, PTL DEF BlockSpec

\* The struct's fields are of entries of the table, and a call is at one.
THEOREM BlockTypeCorrect == BlockSpec => []BlockTypeOK
<1>1. BlockInv => BlockTypeOK
  BY DEF BlockInv
<1> QED BY <1>1, BlockInvariant, PTL

\* SDM35541_Function_Block_Open and _Open_Module leave, when they return 0, the
\* whole struct of the block that was asked for; and "no such device" is true.
THEOREM BlockFound == BlockSpec => []BlockIsSought
<1>1. BlockInv => BlockIsSought
  BY DEF BlockInv
<1> QED BY <1>1, BlockInvariant, PTL

\* The areas of the DMA channels and of their buffers that the struct holds do
\* not overlap, whatever calls failed half-way.
THEOREM AreasCorrect == BlockSpec => []AreasAreDisjoint
<1>1. BlockInv => AreasAreDisjoint
  <2> SUFFICES ASSUME BlockInv, NEW a \in areas, NEW b \in areas, a # b
               PROVE  a.at + BlockSize <= b.at \/ b.at + BlockSize <= a.at
    BY DEF AreasAreDisjoint
  <2>1. PICK e \in Entry : areas = Areas(e)
    BY DEF BlockInv
  <2> QED BY <2>1, AreasApart
<1> QED BY <1>1, BlockInvariant, PTL

----------------------------------------------------------------------------
\* One access: call_ioctl

\* Where a call is says what became of its request.
Linked(c) ==
  /\ ioAt[c] = "idle" => asking[c] = NoAsk
  /\ ioAt[c] # "idle" => asking[c] \in Asks
  /\ ioAt[c] \in {"idle", "create", "control"} => request[c] = "none"
  /\ ioAt[c] = "wait" => request[c] \in {"pending", "done", "refused"}
  /\ ioAt[c] = "result" => request[c] \in {"done", "refused"}
  /\ ioAt[c] = "close" => request[c] # "pending" /\ (request[c] = "done" \/ failed[c] = TRUE)
  /\ request[c] # "done" => gotten[c] = {}

AccessInv == AccessTypeOK /\ \A c \in Askers : Linked(c)

----------------------------------------------------------------------------
\* What a request of each function means

LEMMA NoAskIsNone == NoAsk \notin Asks
BY AsksAssumption DEF NoAsk, AskNames

\* The mask of a function is what it is about.
LEMMA MaskIsAbout == ASSUME NEW ask \in Asks PROVE Mask(ask.name) = About(ask.name)
BY AsksAssumption DEF Mask, About, AskNames

LEMMA ModifiedIsPut == ASSUME NEW ask \in Asks PROVE Modified(ask) = Put(setupReg, ask)
<1>1. ask.on \subseteq About(ask.name)
  BY AsksAssumption
<1> QED BY <1>1, MaskIsAbout DEF Modified, Put

LEMMA PutTyped ==
  ASSUME NEW ask \in Asks, NEW reg \in SUBSET SetupBits
  PROVE  Put(reg, ask) \in SUBSET SetupBits
<1>1. ask.on \subseteq About(ask.name) /\ ask.name \in AskNames
  BY AsksAssumption
<1>2. About(ask.name) \subseteq SetupBits
  BY <1>1 DEF About, AskNames, SetupBits
<1> QED BY <1>1, <1>2 DEF Put

----------------------------------------------------------------------------
\* The invariant

LEMMA AccessInvInit == AccessInit => AccessInv
<1> SUFFICES ASSUME AccessInit PROVE AccessInv
  OBVIOUS
<1>1. NothingTold \in [ok : BOOLEAN, ask : Asks \cup {NoAsk}, value : SUBSET SetupBits]
  BY DEF NothingTold
<1>2. AccessTypeOK
  BY <1>1 DEF AccessInit, AccessTypeOK
<1> QED BY <1>2 DEF AccessInit, AccessInv, Linked

LEMMA EndAskKeeps ==
  ASSUME AccessInv, NEW c \in Askers, NEW ok \in BOOLEAN, EndAsk(c, ok),
         UNCHANGED <<setupReg, strays, asks>>
  PROVE  AccessInv'
<1>1. gotten[c] \subseteq SetupBits /\ asking[c] \in Asks \cup {NoAsk}
  BY DEF AccessInv, AccessTypeOK
<1>2. told' \in [ok : BOOLEAN, ask : Asks \cup {NoAsk}, value : SUBSET SetupBits]
  BY <1>1 DEF EndAsk
<1>3. AccessTypeOK'
  BY <1>2 DEF EndAsk, GoesOn, AccessInv, AccessTypeOK
<1>4. ASSUME NEW d \in Askers PROVE Linked(d)'
  BY DEF EndAsk, GoesOn, AccessInv, AccessTypeOK, Linked
<1> QED BY <1>3, <1>4 DEF AccessInv

LEMMA AccessInvStep == AccessInv /\ [AccessNext]_accessVars => AccessInv'
<1> SUFFICES ASSUME AccessInv, [AccessNext]_accessVars PROVE AccessInv'
  OBVIOUS
<1> USE DEF AccessInv, AccessTypeOK, GoesOn
<1>1. ASSUME NEW c \in Askers, NEW ask \in Asks, BeginAsk(c, ask) PROVE AccessInv'
  <2>1. NothingTold \in [ok : BOOLEAN, ask : Asks \cup {NoAsk}, value : SUBSET SetupBits]
    BY DEF NothingTold
  <2>2. AccessTypeOK'
    BY <1>1, <2>1 DEF BeginAsk
  <2> QED BY <1>1, <2>2 DEF BeginAsk, Linked
<1>2. ASSUME NEW c \in Askers, CreateEvent(c) PROVE AccessInv'
  <2>1. CASE EndAsk(c, FALSE)
    BY <1>2, <2>1, EndAskKeeps DEF CreateEvent
  <2>2. CASE GoesOn(c, "control") /\ UNCHANGED <<asking, request, gotten, failed, told>>
    BY <1>2, <2>2 DEF CreateEvent, Linked
  <2> QED BY <1>2, <2>1, <2>2 DEF CreateEvent
<1>3. ASSUME NEW c \in Askers, DeviceIoControl(c) PROVE AccessInv'
  <2>1. AccessTypeOK'
    BY <1>3 DEF DeviceIoControl
  <2>2. ASSUME NEW d \in Askers PROVE Linked(d)'
    BY <1>3 DEF DeviceIoControl, Linked
  <2> QED BY <2>1, <2>2
<1>4. ASSUME NEW c \in Askers, Wait(c) PROVE AccessInv'
  <2>1. AccessTypeOK'
    BY <1>4 DEF Wait
  <2>2. ASSUME NEW d \in Askers PROVE Linked(d)'
    BY <1>4 DEF Wait, Linked
  <2> QED BY <2>1, <2>2
<1>5. ASSUME NEW c \in Askers, WaitFails(c) PROVE AccessInv'
  <2>1. AccessTypeOK'
    <3>1. request[c] = "pending" => asking[c] \in Asks
      BY DEF Linked
    <3>2. strays' \in [Askers -> SUBSET Asks]
      BY <1>5, <3>1 DEF WaitFails
    <3>3. request' \in [Askers -> {"none", "pending", "done", "refused", "lost"}]
      BY <1>5 DEF WaitFails
    <3>4. ioAt' \in [Askers -> {"idle", "create", "control", "wait", "result", "close"}]
          /\ failed' \in [Askers -> BOOLEAN]
      BY <1>5 DEF WaitFails
    <3> QED BY <1>5, <3>2, <3>3, <3>4 DEF WaitFails
  <2>2. ASSUME NEW d \in Askers PROVE Linked(d)'
    BY <1>5 DEF WaitFails, Linked
  <2> QED BY <2>1, <2>2
<1>6. ASSUME NEW c \in Askers, GetOverlappedResult(c) PROVE AccessInv'
  <2>1. AccessTypeOK'
    BY <1>6 DEF GetOverlappedResult
  <2>2. ASSUME NEW d \in Askers PROVE Linked(d)'
    BY <1>6 DEF GetOverlappedResult, Linked
  <2> QED BY <2>1, <2>2
<1>7. ASSUME NEW c \in Askers, CloseEvent(c) PROVE AccessInv'
  <2>1. PICK ok \in BOOLEAN : EndAsk(c, ok)
    BY <1>7 DEF CloseEvent
  <2> QED BY <1>7, <2>1, EndAskKeeps DEF CloseEvent
<1>8. ASSUME NEW c \in Askers, DriverActs(c) PROVE AccessInv'
  <2>1. ioAt[c] = "wait" /\ asking[c] \in Asks
    BY <1>8 DEF DriverActs, Linked
  <2>2. setupReg' \in SUBSET SetupBits
    BY <1>8, <2>1, ModifiedIsPut, PutTyped DEF DriverActs
  <2> QED BY <1>8, <2>1, <2>2 DEF DriverActs, Linked
<1>9. ASSUME NEW c \in Askers, DriverRefuses(c) PROVE AccessInv'
  <2>1. AccessTypeOK'
    BY <1>9 DEF DriverRefuses
  <2>2. ASSUME NEW d \in Askers PROVE Linked(d)'
    BY <1>9 DEF DriverRefuses, Linked
  <2> QED BY <2>1, <2>2
<1>10. ASSUME NEW c \in Askers, NEW ask \in Asks, DriverEndsStray(c, ask) PROVE AccessInv'
  <2>1. setupReg' \in SUBSET SetupBits
    BY <1>10, ModifiedIsPut, PutTyped DEF DriverEndsStray
  <2> QED BY <1>10, <2>1 DEF DriverEndsStray, Linked
<1>11. CASE UNCHANGED accessVars
  BY <1>11 DEF accessVars, Linked
<1> QED
  BY <1>1, <1>2, <1>3, <1>4, <1>5, <1>6, <1>7, <1>8, <1>9, <1>10, <1>11 DEF AccessNext

\* Every caller is at some place of call_ioctl, with a request in some state.
THEOREM AccessTypeCorrect == AccessSpec => []AccessTypeOK
<1>1. AccessInv => AccessTypeOK
  BY DEF AccessInv
<1> QED BY <1>1, AccessInvInit, AccessInvStep, PTL DEF AccessSpec

----------------------------------------------------------------------------
\* The refinement

\* What SetupFile calls acted and got, of a request and of the bits read.
ActedOf(r) == CASE r = "done" -> "yes" [] r = "lost" -> "left" [] OTHER -> "no"
Acted == [c \in Askers |-> ActedOf(request[c])]
GotBits == [c \in Askers |-> gotten[c] \cap {"int", "errInt"}]

LEMMA SameFields ==
  /\ SetupOf!NoAsk = NoAsk /\ SetupOf!NothingTold = NothingTold
  /\ \A reg, ask : SetupOf!Put(reg, ask) = Put(reg, ask) /\ SetupOf!Got(reg, ask) = Got(reg, ask)
BY DEF SetupOf!NoAsk, NoAsk, SetupOf!NothingTold, NothingTold, SetupOf!Put, Put, SetupOf!About, About,
       SetupOf!Got, Got, SetupOf!Reading, Reading

LEMMA StartsAsFile == AccessInit => SetupOf!FileInit
<1> SUFFICES ASSUME AccessInit PROVE SetupOf!FileInit
  OBVIOUS
<1>1. Acted = [c \in Askers |-> "no"] /\ GotBits = [c \in Askers |-> {}]
  BY DEF AccessInit, Acted, ActedOf, GotBits
<1> QED BY <1>1, SameFields DEF AccessInit, SetupOf!FileInit, Acted, ActedOf, GotBits

LEMMA EndIsEnd ==
  ASSUME AccessInv, NEW c \in Askers, NEW ok \in BOOLEAN, EndAsk(c, ok), ioAt[c] # "idle",
         ok = TRUE => request[c] = "done", UNCHANGED <<setupReg, strays>>
  PROVE  SetupOf!End(c, ok)
<1> USE DEF AccessInv, AccessTypeOK, Linked
<1>1. asking[c] # NoAsk
  BY NoAskIsNone
<1>2. ok => Acted[c] = "yes"
  BY DEF Acted, ActedOf
<1>3. /\ Acted' = [Acted EXCEPT ![c] = "no"]
      /\ GotBits' = [GotBits EXCEPT ![c] = {}]
  BY ZenonT(40) DEF EndAsk, Acted, ActedOf, GotBits
<1>4. told' = [ok |-> ok, ask |-> asking[c], value |-> IF ok THEN GotBits[c] ELSE {}]
  BY DEF EndAsk, GotBits
<1>5. asking' = [asking EXCEPT ![c] = NoAsk]
  BY DEF EndAsk
<1> QED BY <1>1, <1>2, <1>3, <1>4, <1>5, SameFields DEF SetupOf!End, Acted, ActedOf, GotBits

\* A step that changes nothing of what SetupFile sees.
LEMMA Unseen ==
  ASSUME UNCHANGED <<setupReg, asking, strays, told>>, Acted' = Acted, GotBits' = GotBits
  PROVE  UNCHANGED SetupOf!fileVars
BY DEF SetupOf!fileVars, Acted, ActedOf, GotBits

LEMMA StepImplements ==
  ASSUME AccessInv, [AccessNext]_accessVars PROVE [SetupOf!FileNext]_SetupOf!fileVars
<1> USE DEF AccessInv, AccessTypeOK, GoesOn
<1>1. ASSUME NEW c \in Askers, NEW ask \in Asks, BeginAsk(c, ask) PROVE SetupOf!FileNext
  BY <1>1, SameFields DEF BeginAsk, Linked, SetupOf!FileNext, SetupOf!Begin
<1>2. ASSUME NEW c \in Askers, CreateEvent(c)
      PROVE  SetupOf!FileNext \/ UNCHANGED SetupOf!fileVars
  <2>1. CASE EndAsk(c, FALSE)
    BY <1>2, <2>1, EndIsEnd DEF CreateEvent, SetupOf!FileNext
  <2>2. CASE GoesOn(c, "control") /\ UNCHANGED <<asking, request, gotten, failed, told>>
    BY <1>2, <2>2, Unseen DEF CreateEvent, Acted, GotBits
  <2> QED BY <1>2, <2>1, <2>2 DEF CreateEvent
<1>3. ASSUME NEW c \in Askers, DeviceIoControl(c) PROVE UNCHANGED SetupOf!fileVars
  <2>1. Acted' = Acted
    BY <1>3 DEF DeviceIoControl, Linked, Acted, ActedOf
  <2> QED BY <1>3, <2>1, Unseen DEF DeviceIoControl, GotBits
<1>4. ASSUME NEW c \in Askers, Wait(c) PROVE UNCHANGED SetupOf!fileVars
  BY <1>4, Unseen DEF Wait, Acted, GotBits
<1>5. ASSUME NEW c \in Askers, WaitFails(c)
      PROVE  SetupOf!FileNext \/ UNCHANGED SetupOf!fileVars
  <2>1. CASE request[c] = "pending"
    <3>1. asking[c] # NoAsk /\ Acted[c] = "no" /\ Acted' = [Acted EXCEPT ![c] = "left"]
      BY <1>5, <2>1, NoAskIsNone DEF WaitFails, Linked, Acted, ActedOf
    <3>2. strays' = [strays EXCEPT ![c] = @ \cup {asking[c]}] /\ GotBits' = GotBits
          /\ UNCHANGED <<setupReg, asking, told>>
      BY <1>5, <2>1 DEF WaitFails, GotBits
    <3>3. SetupOf!GiveUp(c)
      BY <3>1, <3>2, SameFields DEF SetupOf!GiveUp, Acted, ActedOf, GotBits
    <3> QED BY <3>3 DEF SetupOf!FileNext
  <2>2. CASE request[c] # "pending"
    <3>1. request' = request /\ UNCHANGED <<setupReg, asking, strays, told, gotten>>
      BY <1>5, <2>2 DEF WaitFails
    <3> QED BY <3>1, Unseen DEF Acted, GotBits
  <2> QED BY <2>1, <2>2
<1>6. ASSUME NEW c \in Askers, GetOverlappedResult(c) PROVE UNCHANGED SetupOf!fileVars
  BY <1>6, Unseen DEF GetOverlappedResult, Acted, GotBits
<1>7. ASSUME NEW c \in Askers, CloseEvent(c) PROVE SetupOf!FileNext
  <2>1. PICK ok \in BOOLEAN : EndAsk(c, ok) /\ (ok = TRUE => failed[c] = FALSE)
    BY <1>7 DEF CloseEvent
  <2>2. ok = TRUE => request[c] = "done"
    BY <1>7, <2>1 DEF CloseEvent, Linked
  <2> QED BY <1>7, <2>1, <2>2, EndIsEnd DEF CloseEvent, SetupOf!FileNext
<1>8. ASSUME NEW c \in Askers, DriverActs(c) PROVE SetupOf!FileNext
  <2>1. asking[c] \in Asks /\ asking[c] # NoAsk /\ Acted[c] = "no"
    BY <1>8, NoAskIsNone DEF DriverActs, Linked, Acted, ActedOf
  <2>2. setupReg' = Put(setupReg, asking[c])
    BY <1>8, <2>1, ModifiedIsPut DEF DriverActs
  <2>3. Acted' = [Acted EXCEPT ![c] = "yes"]
    BY <1>8 DEF DriverActs, Acted, ActedOf
  <2>4. GotBits' = [GotBits EXCEPT ![c] = Got(setupReg, asking[c])]
    BY <1>8 DEF DriverActs, GotBits, Got
  <2>5. SetupOf!Act(c)
    BY <1>8, <2>1, <2>2, <2>3, <2>4, SameFields DEF DriverActs, SetupOf!Act, Acted, ActedOf, GotBits
  <2> QED BY <2>5 DEF SetupOf!FileNext
<1>9. ASSUME NEW c \in Askers, DriverRefuses(c) PROVE UNCHANGED SetupOf!fileVars
  <2>1. Acted' = Acted
    BY <1>9 DEF DriverRefuses, Acted, ActedOf
  <2> QED BY <1>9, <2>1, Unseen DEF DriverRefuses, GotBits
<1>10. ASSUME NEW c \in Askers, NEW ask \in Asks, DriverEndsStray(c, ask)
       PROVE  SetupOf!FileNext
  <2>1. setupReg' = setupReg \/ setupReg' = Put(setupReg, ask)
    BY <1>10, ModifiedIsPut DEF DriverEndsStray
  <2>2. SetupOf!StrayActs(c, ask) \/ SetupOf!StrayEnds(c, ask)
    BY <1>10, <2>1, SameFields DEF DriverEndsStray, SetupOf!StrayActs, SetupOf!StrayEnds
  <2> QED BY <2>2 DEF SetupOf!FileNext
<1>11. CASE UNCHANGED accessVars
  BY <1>11, Unseen DEF accessVars, Acted, GotBits
<1> QED
  BY <1>1, <1>2, <1>3, <1>4, <1>5, <1>6, <1>7, <1>8, <1>9, <1>10, <1>11 DEF AccessNext

\* Whichever call of the operating system fails on the way, a function that
\* returns 0 has acted exactly once between its call and its return, on the
\* bits it is about; one that fails acts once or never, perhaps later.
THEOREM AccessImplementsSetup == AccessSpec => ImplementsSetup
<1>1. AccessInv /\ [AccessNext]_accessVars => [SetupOf!FileNext]_SetupOf!fileVars
  BY StepImplements
<1> QED
  BY <1>1, StartsAsFile, AccessInvInit, AccessInvStep, PTL
  DEF AccessSpec, ImplementsSetup, SetupOf!FileSpec

----------------------------------------------------------------------------
\* The digital I/O registers

\* What an undisturbed call has selected is still selected.
OwnSelected == \A c \in Callers : call[c] # Idle /\ ~disturbed[c] => select = call[c].reg

DioInv == TypeOK /\ OwnSelected

----------------------------------------------------------------------------

\* Every operation is about a register that can be selected, and has a value.
LEMMA OpsType ==
  ASSUME NEW op \in Ops
  PROVE  op.reg \in Selects /\ op.value \in Values /\ op # Idle
BY ZeroAssumption DEF Ops, Gets, Sets, ClearIRQ, Reset, Idle, Selects, Registers

\* An access leaves a chip a chip, and tells a value.
LEMMA AccessType ==
  ASSUME NEW x \in Chips, NEW op \in Ops, NEW reg \in Selects
  PROVE  After(x, op, reg) \in Chips /\ Told(x, op, reg) \in Values
<1>1. op.value \in Values
  BY OpsType
<1>2. Cleared \in Chips
  BY ZeroAssumption DEF Cleared, Chips
<1>3. [x EXCEPT !.irq = FALSE] \in Chips
  BY DEF Chips
<1>4. [x EXCEPT !.regs = [@ EXCEPT ![reg] = op.value]] \in Chips
  BY <1>1 DEF Chips
<1>5. After(x, op, reg) \in Chips
  BY <1>2, <1>3, <1>4 DEF After
<1>6. Told(x, op, reg) \in Values
  BY ZeroAssumption DEF Told, Chips, Selects
<1> QED BY <1>5, <1>6

----------------------------------------------------------------------------

LEMMA DioInvInit == Init => DioInv
BY ZeroAssumption DEF Init, DioInv, TypeOK, OwnSelected, Cleared, Chips, Selects, Idle

\* The first access leaves the bits alone and selects the register of the call.
LEMMA SelectEffect ==
  ASSUME flags \in [Flags -> BOOLEAN], NEW s, Modify(SelectMask, s, {})
  PROVE  select' = s /\ flags' = flags
BY FlagsAssumption DEF Modify, SelectMask

\* A call about one bit leaves the selection and the other bits alone.
LEMMA FlagEffect ==
  ASSUME flags \in [Flags -> BOOLEAN], NEW f \in Flags, NEW v \in BOOLEAN,
         Modify(FlagMask(f), "control", IF v THEN {f} ELSE {})
  PROVE  select' = select /\ flags' = [flags EXCEPT ![f] = v]
<1>1. select' = select
  BY FlagsAssumption DEF Modify, FlagMask
<1>2. \A g \in Flags : flags'[g] = IF g = f THEN v ELSE flags[g]
  BY DEF Modify, FlagMask
<1>3. flags' = [g \in Flags |-> flags'[g]]
  BY DEF Modify
<1> QED BY <1>1, <1>2, <1>3

LEMMA DioInvStep == DioInv /\ [Next]_vars => DioInv'
<1> SUFFICES ASSUME DioInv, [Next]_vars PROVE DioInv'
  OBVIOUS
<1> USE DEF DioInv
<1>1. ASSUME NEW c \in Callers, NEW op \in Ops, Select(c, op) PROVE DioInv'
  <2>1. select' = op.reg /\ flags' = flags
    BY <1>1, SelectEffect DEF Select, TypeOK
  <2>2. TypeOK'
    BY <1>1, <2>1, OpsType DEF Select, TypeOK
  <2>3. OwnSelected'
    BY <1>1, <2>1 DEF Select, TypeOK, OwnSelected
  <2> QED BY <2>2, <2>3
<1>2. ASSUME NEW c \in Callers, AccessCtrl(c) PROVE DioInv'
  <2>1. call[c] \in Ops
    BY <1>2 DEF AccessCtrl, TypeOK
  <2>2. TypeOK'
    BY <1>2, <2>1, AccessType DEF AccessCtrl, TypeOK
  <2>3. OwnSelected'
    BY <1>2 DEF AccessCtrl, TypeOK, OwnSelected
  <2> QED BY <2>2, <2>3
<1>3. ASSUME NEW c \in Callers, AccessFails(c) PROVE DioInv'
  BY <1>3 DEF AccessFails, TypeOK, OwnSelected
<1>4. ASSUME NEW c \in Callers, NEW f \in Flags, NEW v \in BOOLEAN, ModifyFlag(c, f, v)
      PROVE  DioInv'
  <2>1. select' = select /\ flags' = [flags EXCEPT ![f] = v]
    BY <1>4, FlagEffect DEF ModifyFlag, TypeOK
  <2> QED BY <1>4, <2>1 DEF ModifyFlag, TypeOK, OwnSelected
<1>5. CASE Event
  BY <1>5 DEF Event, TypeOK, OwnSelected, Chips
<1>6. CASE UNCHANGED vars
  BY <1>6 DEF vars, TypeOK, OwnSelected
<1> QED BY <1>1, <1>2, <1>3, <1>4, <1>5, <1>6 DEF Next

\* The state of the registers and of the calls keeps its type.
THEOREM DioTypeCorrect == Spec => []TypeOK
<1>1. DioInv => TypeOK
  BY DEF DioInv
<1> QED BY DioInvInit, DioInvStep, <1>1, PTL DEF Spec

\* The file speaks of the same chip.
LEMMA SameChip ==
  /\ File!Ops = Ops /\ File!Idle = Idle /\ File!Selects = Selects /\ File!Cleared = Cleared
  /\ \A x, op, reg : File!After(x, op, reg) = After(x, op, reg)
  /\ \A x, op, reg : File!Told(x, op, reg) = Told(x, op, reg)
<1>1. File!Ops = Ops /\ File!Idle = Idle /\ File!Selects = Selects /\ File!Cleared = Cleared
  BY DEF File!Ops, File!Gets, File!Sets, File!ClearIRQ, File!Reset, File!Idle, File!Selects,
         File!Registers, File!Cleared,
         Ops, Gets, Sets, ClearIRQ, Reset, Idle, Selects, Registers, Cleared
<1>2. ASSUME NEW x, NEW op, NEW reg
      PROVE  File!After(x, op, reg) = After(x, op, reg) /\ File!Told(x, op, reg) = Told(x, op, reg)
  BY <1>1 DEF File!After, File!Told, File!Writes, After, Told, Writes
<1> QED BY <1>1, <1>2

\* Every step of the two-step access is a step of the register file.
LEMMA FileStep == DioInv /\ [Next]_vars => [File!Next]_File!vars
<1> SUFFICES ASSUME DioInv, [Next]_vars PROVE File!Next \/ UNCHANGED File!vars
  OBVIOUS
<1> USE DEF DioInv
<1>1. ASSUME NEW c \in Callers, NEW op \in Ops, Select(c, op) PROVE File!Next
  <2>1. flags' = flags
    BY <1>1, SelectEffect DEF Select, TypeOK
  <2>2. File!Begin(c, op)
    BY <1>1, <2>1, SameChip DEF Select, File!Begin
  <2> QED BY <2>2, SameChip DEF File!Next
<1>2. ASSUME NEW c \in Callers, AccessCtrl(c) PROVE File!Next
  <2>1. select \in IF disturbed[c] THEN Selects ELSE {call[c].reg}
    BY <1>2 DEF AccessCtrl, TypeOK, OwnSelected
  <2>2. File!End(c)
    BY <1>2, <2>1, SameChip DEF AccessCtrl, File!End
  <2> QED BY <2>2 DEF File!Next
<1>3. ASSUME NEW c \in Callers, AccessFails(c) PROVE File!Next
  <2>1. File!Fail(c)
    BY <1>3, SameChip DEF AccessFails, File!Fail
  <2> QED BY <2>1 DEF File!Next
<1>4. ASSUME NEW c \in Callers, NEW f \in Flags, NEW v \in BOOLEAN, ModifyFlag(c, f, v)
      PROVE  File!Next
  <2>1. flags' = [flags EXCEPT ![f] = v]
    BY <1>4, FlagEffect DEF ModifyFlag, TypeOK
  <2>2. File!SetFlag(c, f, v)
    BY <1>4, <2>1, SameChip DEF ModifyFlag, File!SetFlag
  <2> QED BY <2>2 DEF File!Next
<1>5. CASE Event
  BY <1>5 DEF Event, File!Event, File!Next
<1>6. CASE UNCHANGED vars
  BY <1>6 DEF vars, File!vars
<1> QED BY <1>1, <1>2, <1>3, <1>4, <1>5, <1>6 DEF Next

\* A call that no other disturbs acts on its own register, once, and on nothing
\* else; the functions of the single bits disturb none.
THEOREM FileImplemented == Spec => ImplementsFile
<1>1. Init => File!Init
  BY SameChip DEF Init, File!Init
<1> QED BY DioInvInit, DioInvStep, <1>1, FileStep, PTL DEF Spec, ImplementsFile, File!Spec
=============================================================================
