------------------------------- MODULE Boards -------------------------------
(***************************************************************************)
(* Finding, opening and closing a board: SDM35541_Board_Open enumerates    *)
(* the registry into `devinfo' with SDM35541_General_Enum_Boards, and      *)
(* opens the device of the entry its caller asks for by its index;         *)
(* SDM35541_Board_Close gives everything back.  One action is one call of  *)
(* the operating system (external) or a change in the machine's boards,    *)
(* which the calls meet in the middle of what they do.                     *)
(***************************************************************************)
EXTENDS Naturals, Sequences

CONSTANTS
  Openers,      \* the processes that open boards
  Devices,      \* the boards there may be, by their device number
  MaxDevices,   \* how many entries Board_Open asks for (50 in the code)
  MaxChanges,   \* bound of the model: boards plugged in or out
  MaxOpenings,  \* bound of the model: calls of Board_Open
  SystemFails   \* the operating system's calls may fail

ASSUME MaxDevicesAssumption == MaxDevices \in Nat \ {0}
ASSUME DevicesAssumption == "none" \notin Devices

Indexes == 0 .. MaxDevices - 1
NoDevice == [dev |-> "none", ready |-> FALSE]

VARIABLES
  registry,   \* the keys of the boards, in the order they are enumerated in
  ready,      \* the boards whose availability is 3, the value that Open wants
  files,      \* the device files that are open: by whom, of which board
  opening,    \* per caller: its call's place
  wanted,     \* per caller: `dev_num', an index
  devinfo,    \* per caller: the entries it has enumerated
  place,      \* per caller: `i', the entry to be read next
  key,        \* per caller: the key it reads
  owned,     \* per caller: it has the memory of a descriptor
  board,      \* per caller: the board of its handle, or "none"
  wasAt,      \* history: the boards that its index has meant during the call
  stuck,      \* history: callers whose CloseHandle has failed
  changes, openings

boardVars == <<registry, ready, files, opening, wanted, devinfo, place, key, owned, board,
               wasAt, stuck, changes, openings>>

callVars == <<opening, wanted, devinfo, place, key, owned, board, openings>>

\* The board that index n means.
AtIndex(r, n) == IF n < Len(r) THEN {r[n + 1]} ELSE {}

BoardsInit ==
  /\ registry \in {<<>>} \cup {<<d>> : d \in Devices}
  /\ ready \in SUBSET Devices /\ files = {}
  /\ opening = [c \in Openers |-> "idle"] /\ wanted = [c \in Openers |-> 0]
  /\ devinfo = [c \in Openers |-> [i \in Indexes |-> NoDevice]]
  /\ place = [c \in Openers |-> 0] /\ key = [c \in Openers |-> "none"]
  /\ owned = [c \in Openers |-> FALSE] /\ board = [c \in Openers |-> "none"]
  /\ wasAt = [c \in Openers |-> {}] /\ stuck = {} /\ changes = 0 /\ openings = 0

----------------------------------------------------------------------------
\* The machine.  A board whose file is open is not taken out.

Plugged(r) ==
  /\ changes < MaxChanges /\ changes' = changes + 1
  /\ registry' = r
  /\ wasAt' = [c \in Openers |-> wasAt[c] \cup AtIndex(r, wanted[c])]
  /\ UNCHANGED <<callVars, ready, files, stuck>>

PlugIn(d) ==
  /\ \A i \in 1 .. Len(registry) : registry[i] # d
  /\ Plugged(Append(registry, d))

TakeOut(i) ==
  /\ \A f \in files : f.board # registry[i]
  /\ Plugged(SubSeq(registry, 1, i - 1) \o SubSeq(registry, i + 1, Len(registry)))

----------------------------------------------------------------------------
\* Board_Open

StepsTo(c, p) == opening' = [opening EXCEPT ![c] = p]

BeginOpening(c, n) ==
  /\ opening[c] = "idle" /\ board[c] = "none" /\ openings < MaxOpenings /\ c \notin stuck
  /\ openings' = openings + 1
  /\ wanted' = [wanted EXCEPT ![c] = n]
  /\ devinfo' = [devinfo EXCEPT ![c] = [i \in Indexes |-> NoDevice]]
  /\ wasAt' = [wasAt EXCEPT ![c] = AtIndex(registry, n)]
  /\ place' = [place EXCEPT ![c] = 0] /\ StepsTo(c, "enum")
  /\ UNCHANGED <<registry, ready, files, key, owned, board, stuck, changes>>

\* RegEnumKeyEx of the next key, or the end of the loop.
EnumKey(c) ==
  /\ opening[c] = "enum"
  /\ IF place[c] = MaxDevices
       THEN StepsTo(c, "check") /\ UNCHANGED <<place, key>>
       ELSE IF place[c] < Len(registry)
         THEN key' = [key EXCEPT ![c] = registry[place[c] + 1]] /\ StepsTo(c, "values") /\ UNCHANGED place
         ELSE place' = [place EXCEPT ![c] = @ + 1] /\ UNCHANGED <<opening, key>>
  /\ UNCHANGED <<registry, ready, files, wanted, devinfo, owned, board, wasAt, stuck, changes, openings>>

\* Without a handle, the call's memory and file given back.
GivesUp(c) ==
  /\ StepsTo(c, "idle") /\ owned' = [owned EXCEPT ![c] = FALSE]
  /\ key' = [key EXCEPT ![c] = "none"] /\ place' = [place EXCEPT ![c] = 0]
  /\ wasAt' = [wasAt EXCEPT ![c] = {}] /\ wanted' = [wanted EXCEPT ![c] = 0]
  /\ devinfo' = [devinfo EXCEPT ![c] = [i \in Indexes |-> NoDevice]]
  /\ UNCHANGED <<registry, ready, board, changes, openings>>

\* RegOpenKeyEx and the values of the key, if it is still there.
ReadValues(c) ==
  /\ opening[c] = "values" /\ \E i \in 1 .. Len(registry) : registry[i] = key[c]
  /\ devinfo' = [devinfo EXCEPT ![c][place[c]] = [dev |-> key[c], ready |-> key[c] \in ready]]
  /\ place' = [place EXCEPT ![c] = @ + 1] /\ key' = [key EXCEPT ![c] = "none"]
  /\ StepsTo(c, "enum")
  /\ UNCHANGED <<registry, ready, files, wanted, owned, board, wasAt, stuck, changes, openings>>

\* A key that is gone, or any call of the registry that fails, ends the call.
EnumFails(c) ==
  /\ \/ opening[c] = "values" /\ \A i \in 1 .. Len(registry) : registry[i] # key[c]
     \/ SystemFails /\ opening[c] \in {"enum", "values"}
  /\ GivesUp(c) /\ UNCHANGED <<files, stuck>>

EntryOf(c) == devinfo[c][wanted[c]]

\* The entry must be ready; and malloc.
Allocate(c) ==
  /\ opening[c] = "check" /\ EntryOf(c).ready
  /\ owned' = [owned EXCEPT ![c] = TRUE] /\ StepsTo(c, "file")
  /\ UNCHANGED <<registry, ready, files, wanted, devinfo, place, key, board, wasAt, stuck, changes, openings>>

NotAvailable(c) ==
  /\ opening[c] = "check" /\ (~EntryOf(c).ready \/ SystemFails)
  /\ GivesUp(c) /\ UNCHANGED <<files, stuck>>

\* CreateFile opens a board for one caller only.
CreateFile(c) ==
  /\ opening[c] = "file" /\ \E i \in 1 .. Len(registry) : registry[i] = EntryOf(c).dev
  /\ \A f \in files : f.board # EntryOf(c).dev
  /\ files' = files \cup {[by |-> c, board |-> EntryOf(c).dev]} /\ StepsTo(c, "query")
  /\ UNCHANGED <<registry, ready, wanted, devinfo, place, key, owned, board, wasAt, stuck, changes, openings>>

CreateFileFails(c) ==
  /\ opening[c] = "file"
  /\ \/ \A i \in 1 .. Len(registry) : registry[i] # EntryOf(c).dev
     \/ \E f \in files : f.board = EntryOf(c).dev
     \/ SystemFails
  /\ GivesUp(c) /\ UNCHANGED <<files, stuck>>

FileOf(c) == {f \in files : f.by = c}

\* The board answers the query, and the caller has its handle.
Query(c) ==
  /\ opening[c] = "query"
  /\ board' = [board EXCEPT ![c] = EntryOf(c).dev] /\ StepsTo(c, "idle")
  /\ UNCHANGED <<registry, ready, files, wanted, devinfo, place, key, owned, wasAt, stuck, changes, openings>>

\* What is closed when the query fails.
Closed(c) == FileOf(c)

QueryFails(c) ==
  /\ SystemFails /\ opening[c] = "query" /\ GivesUp(c)
  /\ \/ files' = files \ Closed(c) /\ UNCHANGED stuck
     \/ stuck' = stuck \cup {c} /\ UNCHANGED files

----------------------------------------------------------------------------
\* Board_Close: what it does to the requests is DmaTransfer's and NotifyThread's.
\* The descriptor is freed also when CloseHandle fails.
Close(c) ==
  /\ board[c] # "none"
  /\ board' = [board EXCEPT ![c] = "none"] /\ owned' = [owned EXCEPT ![c] = FALSE]
  /\ wasAt' = [wasAt EXCEPT ![c] = {}] /\ wanted' = [wanted EXCEPT ![c] = 0]
  /\ devinfo' = [devinfo EXCEPT ![c] = [i \in Indexes |-> NoDevice]]
  /\ place' = [place EXCEPT ![c] = 0]
  /\ \/ files' = files \ FileOf(c) /\ UNCHANGED stuck
     \/ SystemFails /\ stuck' = stuck \cup {c} /\ UNCHANGED files
  /\ UNCHANGED <<registry, ready, opening, key, changes, openings>>

BoardsNext ==
  \/ \E d \in Devices : PlugIn(d)
  \/ \E i \in 1 .. Len(registry) : TakeOut(i)
  \/ \E c \in Openers :
       \/ \E n \in Indexes : BeginOpening(c, n)
       \/ EnumKey(c) \/ ReadValues(c) \/ EnumFails(c)
       \/ Allocate(c) \/ NotAvailable(c) \/ CreateFile(c) \/ CreateFileFails(c)
       \/ Query(c) \/ QueryFails(c) \/ Close(c)

BoardsSpec == BoardsInit /\ [][BoardsNext]_boardVars

----------------------------------------------------------------------------
\* Properties

BoardsTypeOK ==
  /\ ready \subseteq Devices /\ files \subseteq [by : Openers, board : Devices]
  /\ opening \in [Openers -> {"idle", "enum", "values", "check", "file", "query"}]
  /\ wanted \in [Openers -> Indexes] /\ place \in [Openers -> 0 .. MaxDevices]
  /\ owned \in [Openers -> BOOLEAN] /\ board \in [Openers -> Devices \cup {"none"}]

\* A handle is of one of the boards that its index has meant while Board_Open
\* ran, which was ready; it has a descriptor and a file of its own, and no two
\* callers have a handle of the same board.
HandleIsOfIndex ==
  \A c \in Openers : board[c] # "none" =>
    /\ board[c] \in wasAt[c] \cap ready /\ owned[c]
    /\ [by |-> c, board |-> board[c]] \in files
    /\ \A d \in Openers \ {c} : board[d] # board[c]

\* A caller without a handle has neither memory nor file, unless CloseHandle
\* has failed: then the board stays taken.
NothingIsLeft ==
  \A c \in Openers : opening[c] = "idle" /\ board[c] = "none" =>
    ~owned[c] /\ (c \in stuck \/ FileOf(c) = {})
=============================================================================
