----------------------- MODULE InterruptEnable_proofs -----------------------
(***************************************************************************)
(* Proofs about InterruptEnable, for any threads, sources and masks and    *)
(* any number of calls: no thread enables what nobody asked for, and a     *)
(* call that no other overlaps does exactly what its mask says.            *)
(*                                                                         *)
(* The argument for the second is that a call knows whether it has been    *)
(* alone: while it has, the copy of the INT register and the remapping are *)
(* what it last saw or wrote, and once it has returned everything is at    *)
(* rest until the next call begins.                                        *)
(***************************************************************************)
EXTENDS InterruptEnable, TLAPS

\* What anybody holds that may become the INT register was asked for.
Asked ==
  /\ intReg \subseteq asked /\ intsEnabled \subseteq asked
  /\ \A c \in Threads :
       /\ doing[c].ints \subseteq asked
       /\ doing[c].op = "enable" => doing[c].mask.ints \subseteq asked

AskedInv == EnableTypeOK /\ Asked

\* What a call that was alone so far knows at its place.
Holds(f) ==
  /\ f.at \in {"algdio", "dma", "load", "store", "write"} => f.op \in {"enable", "disable"}
  /\ f.at = "fifo" => f.op = "source"
  /\ f.at = "pins" => f.op = "pins"
  /\ ~f.disturbed =>
       /\ f.at \in {"algdio", "dma", "load"} => intsEnabled = f.before
       /\ f.at \in {"store", "write"} =>
            /\ f.op = "enable" => f.ints = f.before \cup f.mask.ints
            /\ f.op = "disable" => f.ints = f.before \ f.mask.ints
       /\ f.at = "write" => intsEnabled = f.ints
       /\ f.at = "fifo" => remap = f.fifo
       /\ f.at \in {"load", "store", "write"} /\ f.op = "enable" /\ f.mask.dma /\ ~f.error =>
            remap \in dmaInts

\* What the call that returned last knew, and still does.
LastHolds ==
  ~last.error /\ ~last.disturbed =>
    /\ last.op = "enable"  => intReg = last.before \cup last.mask.ints
    /\ last.op = "disable" => intReg = last.before \ last.mask.ints
    /\ last.op = "enable" /\ last.mask.dma => remap \in dmaInts

\* Two calls at a time know of each other, and none has begun since a call
\* returned that was alone.
Alone ==
  /\ \A c, d \in Threads : c # d /\ Busy(c) /\ Busy(d) => doing[c].disturbed
  /\ last.op # "none" /\ ~last.disturbed => \A c \in Threads : ~Busy(c)

Exact ==
  /\ Alone /\ LastHolds /\ (\A c \in Threads : Holds(doing[c]))
  /\ sourced => fifo = remap

ExactInv == EnableTypeOK /\ Exact

----------------------------------------------------------------------------

LEMMA NoCallType == NoCall \in FrameType
<1> NoMask \in MaskType
  BY DEF NoMask, MaskType
<1> HIDE DEF NoMask
<1> QED BY DEF NoCall, FrameType, FifoType

\* What the locals of a call hold, the registers and the copies of them.
LEMMA TypeInit == EnableInit => EnableTypeOK
<1> SUFFICES ASSUME EnableInit PROVE EnableTypeOK
  OBVIOUS
<1>1. /\ intsEnabled \subseteq Ints /\ intReg \subseteq Ints /\ asked \subseteq Ints
      /\ algMask \subseteq {Edge, Pin} /\ algInt \subseteq {Edge, Pin}
      /\ dmaInts \subseteq 0 .. NumFifos - 1 /\ remap \in FifoType /\ fifo \in FifoType
  BY DEF EnableInit, FifoType
<1>2. doing \in [Threads -> FrameType] /\ last \in FrameType /\ sourced \in BOOLEAN
  BY NoCallType, Zenon DEF EnableInit
<1>3. calls \in 0 .. MaxCalls
  BY CallsAssumption DEF EnableInit
<1> QED BY <1>1, <1>2, <1>3 DEF EnableTypeOK

LEMMA BeginType ==
  ASSUME EnableTypeOK, NEW c \in Threads, NEW frame \in FrameType, Begin(c, frame)
  PROVE  doing' \in [Threads -> FrameType] /\ last' \in FrameType /\ calls' \in 0 .. MaxCalls
<1>1. last' \in FrameType /\ calls' \in 0 .. MaxCalls
  BY NoCallType, CallsAssumption DEF Begin, EnableTypeOK
<1>2. ASSUME NEW d \in Threads PROVE [doing[d] EXCEPT !.disturbed = TRUE] \in FrameType
  BY DEF EnableTypeOK, FrameType
<1>3. doing' \in [Threads -> FrameType]
  BY <1>2 DEF Begin, EnableTypeOK
<1> QED BY <1>1, <1>3

LEMMA FrameTyped ==
  ASSUME EnableTypeOK, NEW c \in Threads, NEW op \in {"enable", "disable", "source", "pins"}
  PROVE  /\ Frame(c, op) \in FrameType
         /\ Frame(c, op).op = op /\ Frame(c, op).before = intsEnabled
         /\ Frame(c, op).ints = {} /\ Frame(c, op).error = FALSE
         /\ Frame(c, op).disturbed = (\E d \in Threads \ {c} : Busy(d))
BY NoCallType DEF Frame, NoCall, FrameType, EnableTypeOK

LEMMA ReturnsType ==
  ASSUME EnableTypeOK, NEW c \in Threads, NEW error \in BOOLEAN, Returns(c, error)
  PROVE  doing' \in [Threads -> FrameType] /\ last' \in FrameType /\ calls' \in 0 .. MaxCalls
<1>1. [doing[c] EXCEPT !.error = error] \in FrameType
  BY DEF EnableTypeOK, FrameType
<1> QED BY <1>1, NoCallType DEF Returns, EnableTypeOK

LEMMA GoesType ==
  ASSUME EnableTypeOK, NEW c \in Threads, NEW frame \in FrameType, Goes(c, frame)
  PROVE  doing' \in [Threads -> FrameType] /\ last' \in FrameType /\ calls' \in 0 .. MaxCalls
BY DEF Goes, EnableTypeOK

LEMMA TypeStep == EnableTypeOK /\ [EnableNext]_enableVars => EnableTypeOK'
<1> SUFFICES ASSUME EnableTypeOK, [EnableNext]_enableVars PROVE EnableTypeOK'
  OBVIOUS
<1> USE DEF memory, hardware
<1>1. ASSUME NEW c \in Threads, BeginEnable(c) PROVE EnableTypeOK'
  <2>1. PICK m \in Masks :
          /\ Begin(c, [Frame(c, "enable") EXCEPT !.at = "algdio", !.mask = m, !.alg = m.edges])
          /\ asked' = asked \cup m.ints
    BY <1>1 DEF BeginEnable
  <2>2. m \in MaskType /\ m.ints \subseteq Ints /\ m.edges \subseteq {Edge}
    BY MasksAssumption DEF MaskType
  <2>3. [Frame(c, "enable") EXCEPT !.at = "algdio", !.mask = m, !.alg = m.edges] \in FrameType
    BY <2>2, FrameTyped DEF FrameType
  <2> QED BY <1>1, <2>1, <2>2, <2>3, BeginType DEF BeginEnable, EnableTypeOK
<1>2. ASSUME NEW c \in Threads, BeginDisable(c) PROVE EnableTypeOK'
  <2>1. PICK m \in Masks, read \in SUBSET {Edge, Pin} :
          Begin(c, [Frame(c, "disable") EXCEPT !.at = "algdio", !.mask = m,
                                               !.alg = read \ m.edges])
    BY <1>2 DEF BeginDisable, EnableTypeOK
  <2>2. m \in MaskType
    BY MasksAssumption
  <2>3. [Frame(c, "disable") EXCEPT !.at = "algdio", !.mask = m, !.alg = read \ m.edges]
          \in FrameType
    BY <2>1, <2>2, FrameTyped DEF FrameType
  <2> QED BY <1>2, <2>1, <2>3, BeginType DEF BeginDisable, EnableTypeOK
<1>3. ASSUME NEW c \in Threads, WriteAlgdio(c) PROVE EnableTypeOK'
  <2>1. [doing[c] EXCEPT !.at = "dma"] \in FrameType /\ doing[c].alg \subseteq {Edge, Pin}
    BY DEF FrameType, EnableTypeOK
  <2> QED BY <1>3, <2>1, GoesType DEF WriteAlgdio, EnableTypeOK
<1>4. ASSUME NEW c \in Threads, ConfigureDma(c) PROVE EnableTypeOK'
  <2>1. dmaInts' \subseteq 0 .. NumFifos - 1
    BY <1>4 DEF ConfigureDma, EnableTypeOK
  <2>2. PICK error \in BOOLEAN : Goes(c, [doing[c] EXCEPT !.at = "load", !.error = AnyError(@, error)])
    BY <1>4 DEF ConfigureDma
  <2>3. AnyError(doing[c].error, error) \in BOOLEAN
    BY DEF AnyError
  <2> HIDE DEF AnyError
  <2>4. [doing[c] EXCEPT !.at = "load", !.error = AnyError(@, error)] \in FrameType
    BY <2>3 DEF FrameType, EnableTypeOK
  <2> QED BY <1>4, <2>1, <2>2, <2>4, GoesType DEF ConfigureDma, EnableTypeOK
<1>5. ASSUME NEW c \in Threads, LoadInts(c) PROVE EnableTypeOK'
  <2> DEFINE new == IF doing[c].op = "enable" THEN WithMask(intsEnabled, doing[c].mask.ints)
                    ELSE WithoutMask(intsEnabled, doing[c].mask.ints)
  <2>1. new \in SUBSET Ints
    BY DEF WithMask, WithoutMask, EnableTypeOK, FrameType, MaskType
  <2>2. Goes(c, [doing[c] EXCEPT !.at = "store", !.ints = new])
    BY <1>5 DEF LoadInts
  <2> HIDE DEF new
  <2>3. [doing[c] EXCEPT !.at = "store", !.ints = new] \in FrameType
    BY <2>1 DEF FrameType, EnableTypeOK
  <2> QED BY <1>5, <2>2, <2>3, GoesType DEF LoadInts, EnableTypeOK
<1>6. ASSUME NEW c \in Threads, StoreInts(c) PROVE EnableTypeOK'
  <2>1. [doing[c] EXCEPT !.at = "write"] \in FrameType /\ doing[c].ints \subseteq Ints
    BY DEF FrameType, EnableTypeOK
  <2> QED BY <1>6, <2>1, GoesType DEF StoreInts, EnableTypeOK
<1>7. ASSUME NEW c \in Threads, WriteInts(c) PROVE EnableTypeOK'
  <2>1. doing[c].ints \subseteq Ints /\ AnyError(doing[c].error, FALSE) \in BOOLEAN
    BY DEF FrameType, EnableTypeOK, AnyError
  <2> QED BY <1>7, <2>1, ReturnsType DEF WriteInts, EnableTypeOK
<1>8. ASSUME NEW c \in Threads, BeginSetSource(c) PROVE EnableTypeOK'
  <2>1. PICK f \in 0 .. NumFifos - 1, error \in BOOLEAN :
          /\ Begin(c, [Frame(c, "source") EXCEPT !.at = "fifo", !.fifo = f, !.error = error])
          /\ remap' = f
    BY <1>8, MayFailAssumption DEF BeginSetSource, Remap
  <2>2. [Frame(c, "source") EXCEPT !.at = "fifo", !.fifo = f, !.error = error] \in FrameType
    BY <2>1, FrameTyped DEF FrameType, FifoType
  <2>3. sourced' \in BOOLEAN
    BY <1>8 DEF BeginSetSource
  <2> QED BY <1>8, <2>1, <2>2, <2>3, BeginType DEF BeginSetSource, EnableTypeOK, FifoType
<1>9. ASSUME NEW c \in Threads, WriteFifo(c) PROVE EnableTypeOK'
  <2>1. doing[c].fifo \in FifoType /\ doing[c].error \in BOOLEAN
    BY DEF EnableTypeOK, FrameType
  <2>2. sourced' \in BOOLEAN
    BY <1>9, Zenon DEF WriteFifo, EnableTypeOK
  <2> QED BY <1>9, <2>1, <2>2, ReturnsType DEF WriteFifo, EnableTypeOK
<1>10. ASSUME NEW c \in Threads, BeginSetPins(c) PROVE EnableTypeOK'
  <2>1. PICK pins \in SUBSET {Pin} :
          Begin(c, [Frame(c, "pins") EXCEPT !.at = "pins", !.alg = (algMask \ {Pin}) \cup pins])
    BY <1>10 DEF BeginSetPins
  <2>2. [Frame(c, "pins") EXCEPT !.at = "pins", !.alg = (algMask \ {Pin}) \cup pins] \in FrameType
    BY <2>1, FrameTyped DEF FrameType, EnableTypeOK
  <2> QED BY <1>10, <2>1, <2>2, BeginType DEF BeginSetPins, EnableTypeOK
<1>11. ASSUME NEW c \in Threads, WritePins(c) PROVE EnableTypeOK'
  <2>1. doing[c].alg \subseteq {Edge, Pin}
    BY DEF FrameType, EnableTypeOK
  <2> QED BY <1>11, <2>1, ReturnsType DEF WritePins, EnableTypeOK
<1>12. ASSUME NEW c \in Threads, BoardReset(c) PROVE EnableTypeOK'
  <2>1. sourced' \in BOOLEAN
    BY <1>12 DEF BoardReset
  <2> QED BY <1>12, <2>1, NoCallType, BeginType DEF BoardReset, EnableTypeOK, FifoType
<1>13. CASE PinEdge
  BY <1>13 DEF PinEdge, EnableTypeOK
<1>14. CASE UNCHANGED enableVars
  BY <1>14 DEF enableVars, EnableTypeOK
<1> QED
  BY <1>1, <1>2, <1>3, <1>4, <1>5, <1>6, <1>7, <1>8, <1>9, <1>10, <1>11, <1>12, <1>13, <1>14
  DEF EnableNext, CallerStep

----------------------------------------------------------------------------
\* No interrupt that nobody asked for

\* A call that begins holds nothing that was not asked for.
LEMMA AskedBegins ==
  ASSUME EnableTypeOK, EnableTypeOK', Asked, NEW c \in Threads, NEW frame \in FrameType,
         Begin(c, frame), frame.ints = {}, asked \subseteq asked',
         frame.op = "enable" => frame.mask.ints \subseteq asked',
         intsEnabled' = intsEnabled, intReg' \subseteq intReg
  PROVE  Asked'
<1> SUFFICES ASSUME NEW d \in Threads
             PROVE  /\ doing'[d].ints \subseteq asked'
                    /\ doing'[d].op = "enable" => doing'[d].mask.ints \subseteq asked'
  BY DEF Asked
<1>1. CASE d = c
  BY <1>1 DEF Begin, EnableTypeOK
<1>2. CASE d # c
  <2>1. /\ doing'[d].ints = doing[d].ints /\ doing'[d].op = doing[d].op
        /\ doing'[d].mask = doing[d].mask
    BY <1>2 DEF Begin, EnableTypeOK, FrameType
  <2> QED BY <2>1 DEF Asked
<1> QED BY <1>1, <1>2

\* A call that goes on holds what it held, or what it has just computed.
LEMMA AskedGoesOn ==
  ASSUME EnableTypeOK, Asked, NEW c \in Threads, NEW frame \in FrameType, Goes(c, frame),
         frame.op = doing[c].op, frame.mask = doing[c].mask, frame.ints \subseteq asked,
         asked' = asked, intReg' = intReg, intsEnabled' \subseteq asked
  PROVE  Asked'
BY DEF Goes, Asked, EnableTypeOK

LEMMA AskedReturns ==
  ASSUME EnableTypeOK, Asked, NEW c \in Threads, NEW error, Returns(c, error),
         asked' = asked, intReg' \subseteq asked, intsEnabled' = intsEnabled
  PROVE  Asked'
BY DEF Returns, NoCall, Asked, EnableTypeOK

LEMMA AskedStep ==
  ASSUME EnableTypeOK, EnableTypeOK', Asked, [EnableNext]_enableVars PROVE Asked'
<1> USE DEF memory, hardware
<1>1. ASSUME NEW c \in Threads, BeginEnable(c) PROVE Asked'
  <2>1. PICK m \in Masks :
          /\ Begin(c, [Frame(c, "enable") EXCEPT !.at = "algdio", !.mask = m, !.alg = m.edges])
          /\ asked' = asked \cup m.ints
    BY <1>1 DEF BeginEnable
  <2> DEFINE frame == [Frame(c, "enable") EXCEPT !.at = "algdio", !.mask = m, !.alg = m.edges]
  <2>2. frame \in FrameType /\ frame.ints = {} /\ frame.mask = m
    BY FrameTyped, MasksAssumption DEF FrameType, MaskType
  <2>3. intsEnabled' = intsEnabled /\ intReg' = intReg
    BY <1>1 DEF BeginEnable
  <2> HIDE DEF frame
  <2> QED BY <2>1, <2>2, <2>3, AskedBegins DEF frame
<1>2. ASSUME NEW c \in Threads, BeginDisable(c) PROVE Asked'
  <2>1. PICK m \in Masks, read \in SUBSET {Edge, Pin} :
          Begin(c, [Frame(c, "disable") EXCEPT !.at = "algdio", !.mask = m,
                                               !.alg = read \ m.edges])
    BY <1>2 DEF BeginDisable, EnableTypeOK
  <2> DEFINE frame == [Frame(c, "disable") EXCEPT !.at = "algdio", !.mask = m,
                                                  !.alg = read \ m.edges]
  <2>2. frame \in FrameType /\ frame.ints = {} /\ frame.op = "disable"
    BY FrameTyped, MasksAssumption DEF FrameType
  <2>3. intsEnabled' = intsEnabled /\ intReg' = intReg /\ asked' = asked
    BY <1>2 DEF BeginDisable
  <2>4. Begin(c, frame)
    BY <2>1
  <2> HIDE DEF frame
  <2> QED BY <2>2, <2>3, <2>4, AskedBegins
<1>3. ASSUME NEW c \in Threads, WriteAlgdio(c) PROVE Asked'
  <2>1. [doing[c] EXCEPT !.at = "dma"] \in FrameType
    BY DEF FrameType, EnableTypeOK
  <2> QED BY <1>3, <2>1, AskedGoesOn DEF WriteAlgdio, Asked, EnableTypeOK, FrameType
<1>4. ASSUME NEW c \in Threads, ConfigureDma(c) PROVE Asked'
  <2>1. PICK error \in BOOLEAN : Goes(c, [doing[c] EXCEPT !.at = "load", !.error = AnyError(@, error)])
    BY <1>4 DEF ConfigureDma
  <2> DEFINE frame == [doing[c] EXCEPT !.at = "load", !.error = AnyError(@, error)]
  <2>2. AnyError(doing[c].error, error) \in BOOLEAN
    BY DEF AnyError
  <2> HIDE DEF AnyError
  <2>3. frame \in FrameType /\ frame.op = doing[c].op /\ frame.mask = doing[c].mask
        /\ frame.ints = doing[c].ints
    BY <2>2 DEF FrameType, EnableTypeOK
  <2>4. Goes(c, frame)
    BY <2>1
  <2> HIDE DEF frame
  <2> QED BY <1>4, <2>3, <2>4, AskedGoesOn DEF ConfigureDma, Asked
<1>5. ASSUME NEW c \in Threads, LoadInts(c) PROVE Asked'
  <2> DEFINE new == IF doing[c].op = "enable" THEN WithMask(intsEnabled, doing[c].mask.ints)
                    ELSE WithoutMask(intsEnabled, doing[c].mask.ints)
             frame == [doing[c] EXCEPT !.at = "store", !.ints = new]
  <2>1. new \in SUBSET Ints /\ new \subseteq asked
    BY DEF WithMask, WithoutMask, EnableTypeOK, FrameType, MaskType, Asked
  <2>2. Goes(c, frame)
    BY <1>5 DEF LoadInts
  <2> HIDE DEF new
  <2>3. frame \in FrameType /\ frame.op = doing[c].op /\ frame.mask = doing[c].mask
        /\ frame.ints = new
    BY <2>1 DEF FrameType, EnableTypeOK
  <2> HIDE DEF frame
  <2> QED BY <1>5, <2>1, <2>2, <2>3, AskedGoesOn DEF LoadInts, Asked
<1>6. ASSUME NEW c \in Threads, StoreInts(c) PROVE Asked'
  <2>1. [doing[c] EXCEPT !.at = "write"] \in FrameType
    BY DEF FrameType, EnableTypeOK
  <2> QED BY <1>6, <2>1, AskedGoesOn DEF StoreInts, Asked, EnableTypeOK, FrameType
<1>7. ASSUME NEW c \in Threads, WriteInts(c) PROVE Asked'
  BY <1>7, AskedReturns DEF WriteInts, Asked
<1>8. ASSUME NEW c \in Threads, BeginSetSource(c) PROVE Asked'
  <2>1. PICK f \in 0 .. NumFifos - 1, error \in BOOLEAN :
          Begin(c, [Frame(c, "source") EXCEPT !.at = "fifo", !.fifo = f, !.error = error])
    BY <1>8, MayFailAssumption DEF BeginSetSource
  <2> DEFINE frame == [Frame(c, "source") EXCEPT !.at = "fifo", !.fifo = f, !.error = error]
  <2>2. frame \in FrameType /\ frame.ints = {} /\ frame.op = "source"
    BY FrameTyped DEF FrameType, FifoType
  <2>3. intsEnabled' = intsEnabled /\ intReg' = intReg /\ asked' = asked
    BY <1>8 DEF BeginSetSource
  <2>4. Begin(c, frame)
    BY <2>1
  <2> HIDE DEF frame
  <2> QED BY <2>2, <2>3, <2>4, AskedBegins
<1>9. ASSUME NEW c \in Threads, WriteFifo(c) PROVE Asked'
  BY <1>9, AskedReturns DEF WriteFifo, Asked
<1>10. ASSUME NEW c \in Threads, BeginSetPins(c) PROVE Asked'
  <2>1. PICK pins \in SUBSET {Pin} :
          Begin(c, [Frame(c, "pins") EXCEPT !.at = "pins", !.alg = (algMask \ {Pin}) \cup pins])
    BY <1>10 DEF BeginSetPins
  <2> DEFINE frame == [Frame(c, "pins") EXCEPT !.at = "pins", !.alg = (algMask \ {Pin}) \cup pins]
  <2>2. frame \in FrameType /\ frame.ints = {} /\ frame.op = "pins"
    BY FrameTyped DEF FrameType, EnableTypeOK
  <2>3. intsEnabled' = intsEnabled /\ intReg' = intReg /\ asked' = asked
    BY <1>10 DEF BeginSetPins
  <2>4. Begin(c, frame)
    BY <2>1
  <2> HIDE DEF frame
  <2> QED BY <2>2, <2>3, <2>4, AskedBegins
<1>11. ASSUME NEW c \in Threads, WritePins(c) PROVE Asked'
  BY <1>11, AskedReturns DEF WritePins, Asked
<1>12. ASSUME NEW c \in Threads, BoardReset(c) PROVE Asked'
  <2>1. NoCall.ints = {} /\ NoCall.op = "none"
    BY DEF NoCall
  <2>2. intsEnabled' = intsEnabled /\ intReg' = {} /\ asked' = asked
    BY <1>12 DEF BoardReset
  <2> QED BY <1>12, <2>1, <2>2, NoCallType, AskedBegins DEF BoardReset
<1>13. CASE PinEdge
  BY <1>13 DEF PinEdge, Asked
<1>14. CASE UNCHANGED enableVars
  BY <1>14 DEF enableVars, Asked
<1> QED
  BY <1>1, <1>2, <1>3, <1>4, <1>5, <1>6, <1>7, <1>8, <1>9, <1>10, <1>11, <1>12, <1>13, <1>14
  DEF EnableNext, CallerStep

----------------------------------------------------------------------------
\* A call that was alone

LEMMA HoldsDisturbed ==
  ASSUME NEW f \in FrameType, Holds(f), NEW g \in FrameType, g.at = f.at, g.op = f.op,
         f.at = "idle" \/ g.disturbed
  PROVE  Holds(g)'
BY DEF Holds, FrameType

\* Its frame says whether it is alone, and disturbs the others.
LEMMA ExactBegins ==
  ASSUME EnableTypeOK, EnableTypeOK', Exact, NEW c \in Threads, NEW frame \in FrameType,
         Begin(c, frame), frame.at # "idle" => frame.disturbed = (\E d \in Threads \ {c} : Busy(d)),
         Holds(frame)', sourced' => fifo' = remap'
  PROVE  Exact'
<1>1. ASSUME NEW d \in Threads, d # c
      PROVE  /\ doing'[d] \in FrameType /\ doing'[d].at = doing[d].at /\ doing'[d].op = doing[d].op
             /\ Busy(d) => doing'[d].disturbed
  BY <1>1 DEF Begin, EnableTypeOK, FrameType
<1>2. doing'[c] = frame
  BY DEF Begin, EnableTypeOK
<1>3. Alone'
  <2>1. last'.op = "none"
    BY DEF Begin, NoCall
  <2>2. ASSUME NEW d \in Threads, NEW e \in Threads, d # e, Busy(d)', Busy(e)'
        PROVE  doing'[d].disturbed
    <3>1. CASE d = c
      BY <1>1, <1>2, <2>2, <3>1 DEF Busy
    <3>2. CASE d # c
      BY <1>1, <2>2, <3>2 DEF Busy
    <3> QED BY <3>1, <3>2
  <2> QED BY <2>1, <2>2 DEF Alone
<1>4. LastHolds'
  BY DEF Begin, NoCall, LastHolds
<1>5. ASSUME NEW d \in Threads PROVE Holds(doing[d])'
  <2>1. CASE d = c
    BY <1>2, <2>1
  <2>2. CASE d # c
    BY <1>1, <2>2, HoldsDisturbed DEF Exact, EnableTypeOK, Busy
  <2> QED BY <2>1, <2>2
<1> QED BY <1>3, <1>4, <1>5 DEF Exact

LEMMA OthersHold ==
  ASSUME EnableTypeOK, Exact, NEW c \in Threads, Busy(c), NEW d \in Threads, d # c,
         doing'[d] = doing[d]
  PROVE  Holds(doing[d])'
BY HoldsDisturbed DEF Exact, Alone, EnableTypeOK, Busy

LEMMA ExactGoesOn ==
  ASSUME EnableTypeOK, Exact, NEW c \in Threads, Busy(c), NEW frame \in FrameType,
         Goes(c, frame), frame.at # "idle", frame.disturbed = doing[c].disturbed,
         Holds(frame)', UNCHANGED <<sourced, fifo, remap>>
  PROVE  Exact'
<1>1. doing'[c] = frame /\ \A d \in Threads \ {c} : doing'[d] = doing[d]
  BY DEF Goes, EnableTypeOK
<1>2. last' = last /\ (last.op = "none" \/ last.disturbed)
  BY DEF Goes, Exact, Alone
<1>3. Alone'
  BY <1>1, <1>2 DEF Exact, Alone, Busy
<1>4. LastHolds'
  BY <1>2 DEF LastHolds
<1>5. ASSUME NEW d \in Threads PROVE Holds(doing[d])'
  BY <1>1, OthersHold
<1> QED BY <1>3, <1>4, <1>5 DEF Exact

LEMMA ExactReturns ==
  ASSUME EnableTypeOK, Exact, NEW c \in Threads, Busy(c), NEW error \in BOOLEAN,
         Returns(c, error), LastHolds', sourced' => fifo' = remap'
  PROVE  Exact'
<1>1. /\ doing'[c] = NoCall /\ \A d \in Threads \ {c} : doing'[d] = doing[d]
      /\ last'.disturbed = doing[c].disturbed
  BY DEF Returns, EnableTypeOK, FrameType
<1>2. ~Busy(c)'
  BY <1>1 DEF Busy, NoCall
<1>3. Alone'
  BY <1>1, <1>2 DEF Exact, Alone, Busy
<1>4. ASSUME NEW d \in Threads PROVE Holds(doing[d])'
  <2>1. CASE d = c
    BY <1>1, <2>1 DEF Holds, NoCall
  <2>2. CASE d # c
    BY <1>1, <2>2, OthersHold
  <2> QED BY <2>1, <2>2
<1> QED BY <1>3, <1>4 DEF Exact

LEMMA ExactStep ==
  ASSUME EnableTypeOK, EnableTypeOK', Exact, [EnableNext]_enableVars PROVE Exact'
<1> USE DEF memory, hardware
<1>1. ASSUME NEW c \in Threads, BeginEnable(c) PROVE Exact'
  <2>1. PICK m \in Masks :
          Begin(c, [Frame(c, "enable") EXCEPT !.at = "algdio", !.mask = m, !.alg = m.edges])
    BY <1>1 DEF BeginEnable
  <2> DEFINE frame == [Frame(c, "enable") EXCEPT !.at = "algdio", !.mask = m, !.alg = m.edges]
  <2>2. /\ frame \in FrameType /\ frame.at = "algdio" /\ frame.op = "enable"
        /\ frame.before = intsEnabled /\ frame.disturbed = (\E d \in Threads \ {c} : Busy(d))
    BY FrameTyped, MasksAssumption, ZenonT(40) DEF FrameType, MaskType
  <2>3. Begin(c, frame) /\ UNCHANGED <<intsEnabled, remap, dmaInts, fifo, sourced>>
    BY <1>1, <2>1 DEF BeginEnable
  <2> HIDE DEF frame
  <2>4. PICK g \in FrameType : g = frame
    BY <2>2
  <2>5. Holds(g)'
    BY <2>2, <2>3, <2>4 DEF Holds
  <2> QED BY <2>2, <2>3, <2>4, <2>5, ExactBegins DEF Exact
<1>2. ASSUME NEW c \in Threads, BeginDisable(c) PROVE Exact'
  <2>1. PICK m \in Masks, read \in SUBSET {Edge, Pin} :
          Begin(c, [Frame(c, "disable") EXCEPT !.at = "algdio", !.mask = m,
                                               !.alg = read \ m.edges])
    BY <1>2 DEF BeginDisable, EnableTypeOK
  <2> DEFINE frame == [Frame(c, "disable") EXCEPT !.at = "algdio", !.mask = m,
                                                  !.alg = read \ m.edges]
  <2>2. /\ frame \in FrameType /\ frame.at = "algdio" /\ frame.op = "disable"
        /\ frame.before = intsEnabled /\ frame.disturbed = (\E d \in Threads \ {c} : Busy(d))
    BY FrameTyped, MasksAssumption DEF FrameType
  <2>3. Begin(c, frame) /\ UNCHANGED <<intsEnabled, remap, dmaInts, fifo, sourced>>
    BY <1>2, <2>1 DEF BeginDisable
  <2> HIDE DEF frame
  <2>4. PICK g \in FrameType : g = frame
    BY <2>2
  <2>5. Holds(g)'
    BY <2>2, <2>3, <2>4 DEF Holds
  <2> QED BY <2>2, <2>3, <2>4, <2>5, ExactBegins DEF Exact
<1>3. ASSUME NEW c \in Threads, WriteAlgdio(c) PROVE Exact'
  <2> DEFINE f == doing[c]
             frame == [f EXCEPT !.at = "dma"]
  <2>1. f \in FrameType /\ Holds(f) /\ f.at = "algdio" /\ Busy(c)
    BY <1>3 DEF EnableTypeOK, Exact, WriteAlgdio, Busy
  <2>2. Goes(c, frame) /\ UNCHANGED <<intsEnabled, remap, dmaInts, fifo, sourced>>
    BY <1>3 DEF WriteAlgdio
  <2> HIDE DEF f
  <2>3. /\ frame \in FrameType /\ frame.at = "dma" /\ frame.op = f.op
        /\ frame.before = f.before /\ frame.disturbed = f.disturbed
    BY <2>1 DEF FrameType
  <2> HIDE DEF frame
  <2>4. PICK g \in FrameType : g = frame
    BY <2>3
  <2>5. Holds(g)'
    BY <2>1, <2>2, <2>3, <2>4 DEF Holds
  <2> QED BY <2>1, <2>2, <2>3, <2>4, <2>5, ExactGoesOn DEF f
<1>4. ASSUME NEW c \in Threads, ConfigureDma(c) PROVE Exact'
  <2>1. PICK error \in BOOLEAN :
          /\ Goes(c, [doing[c] EXCEPT !.at = "load", !.error = AnyError(@, error)])
          /\ doing[c].op = "enable" /\ doing[c].mask.dma /\ error = FALSE => remap \in dmaInts'
    BY <1>4 DEF ConfigureDma
  <2> DEFINE f == doing[c]
             frame == [f EXCEPT !.at = "load", !.error = AnyError(@, error)]
  <2>2. f \in FrameType /\ Holds(f) /\ f.at = "dma" /\ Busy(c)
    BY <1>4 DEF EnableTypeOK, Exact, ConfigureDma, Busy
  <2>3. Goes(c, frame) /\ UNCHANGED <<intsEnabled, remap, fifo, sourced>>
        /\ (f.op = "enable" /\ f.mask.dma /\ error = FALSE => remap \in dmaInts')
    BY <1>4, <2>1 DEF ConfigureDma
  <2> HIDE DEF f
  <2>4. AnyError(f.error, error) \in BOOLEAN /\ (AnyError(f.error, error) = FALSE => error = FALSE)
    BY <2>2 DEF AnyError, FrameType
  <2> HIDE DEF AnyError
  <2>5. /\ frame \in FrameType /\ frame.at = "load" /\ frame.op = f.op /\ frame.mask = f.mask
        /\ frame.before = f.before /\ frame.disturbed = f.disturbed
        /\ frame.error = AnyError(f.error, error)
    BY <2>2, <2>4 DEF FrameType
  <2> HIDE DEF frame
  <2>6. PICK g \in FrameType : g = frame
    BY <2>5
  <2>7. Holds(g)'
    BY <2>2, <2>3, <2>4, <2>5, <2>6 DEF Holds
  <2> QED BY <2>2, <2>3, <2>5, <2>6, <2>7, ExactGoesOn DEF f
<1>5. ASSUME NEW c \in Threads, LoadInts(c) PROVE Exact'
  <2> DEFINE f == doing[c]
             new == IF f.op = "enable" THEN WithMask(intsEnabled, f.mask.ints)
                    ELSE WithoutMask(intsEnabled, f.mask.ints)
             frame == [f EXCEPT !.at = "store", !.ints = new]
  <2>1. f \in FrameType /\ Holds(f) /\ f.at = "load" /\ Busy(c)
    BY <1>5 DEF EnableTypeOK, Exact, LoadInts, Busy
  <2>2. Goes(c, frame) /\ UNCHANGED <<intsEnabled, remap, dmaInts, fifo, sourced>>
    BY <1>5 DEF LoadInts
  <2>3. f.op = "disable" => new = intsEnabled \ f.mask.ints
    BY DEF WithoutMask
  <2>4. f.op = "enable" => new = intsEnabled \cup f.mask.ints
    BY DEF WithMask
  <2>5. new \subseteq Ints
    BY <2>1 DEF WithMask, WithoutMask, EnableTypeOK, FrameType, MaskType
  <2> HIDE DEF f, new
  <2>6. /\ frame \in FrameType /\ frame.at = "store" /\ frame.op = f.op /\ frame.mask = f.mask
        /\ frame.before = f.before /\ frame.disturbed = f.disturbed /\ frame.error = f.error
        /\ frame.ints = new
    BY <2>1, <2>5 DEF FrameType
  <2> HIDE DEF frame
  <2>7. PICK g \in FrameType : g = frame
    BY <2>6
  <2>8. Holds(g)'
    BY <2>1, <2>2, <2>3, <2>4, <2>6, <2>7 DEF Holds
  <2> QED BY <2>1, <2>2, <2>6, <2>7, <2>8, ExactGoesOn DEF f
<1>6. ASSUME NEW c \in Threads, StoreInts(c) PROVE Exact'
  <2> DEFINE f == doing[c]
             frame == [f EXCEPT !.at = "write"]
  <2>1. f \in FrameType /\ Holds(f) /\ f.at = "store" /\ Busy(c)
    BY <1>6 DEF EnableTypeOK, Exact, StoreInts, Busy
  <2>2. Goes(c, frame) /\ intsEnabled' = f.ints /\ UNCHANGED <<remap, dmaInts, fifo, sourced>>
    BY <1>6 DEF StoreInts
  <2> HIDE DEF f
  <2>3. /\ frame \in FrameType /\ frame.at = "write" /\ frame.op = f.op /\ frame.mask = f.mask
        /\ frame.before = f.before /\ frame.disturbed = f.disturbed /\ frame.error = f.error
        /\ frame.ints = f.ints
    BY <2>1 DEF FrameType
  <2> HIDE DEF frame
  <2>4. PICK g \in FrameType : g = frame
    BY <2>3
  <2>5. Holds(g)'
    BY <2>1, <2>2, <2>3, <2>4 DEF Holds
  <2> QED BY <2>1, <2>2, <2>3, <2>4, <2>5, ExactGoesOn DEF f
<1>7. ASSUME NEW c \in Threads, WriteInts(c) PROVE Exact'
  <2> DEFINE f == doing[c]
  <2>1. f \in FrameType /\ Holds(f) /\ f.at = "write" /\ Busy(c)
    BY <1>7 DEF EnableTypeOK, Exact, WriteInts, Busy
  <2>2. PICK error \in BOOLEAN :
          /\ Returns(c, error)
          /\ error = FALSE => f.error = FALSE /\ intReg' \in {f.ints, intsEnabled}
    BY <1>7, <2>1 DEF WriteInts, AnyError, FrameType
  <2>3. last' = [f EXCEPT !.error = error] /\ UNCHANGED <<remap, dmaInts, fifo, sourced>>
    BY <1>7, <2>2 DEF WriteInts, Returns
  <2> HIDE DEF f
  <2>4. /\ last'.op = f.op /\ last'.mask = f.mask /\ last'.before = f.before
        /\ last'.disturbed = f.disturbed /\ last'.error = error
    BY <2>1, <2>3 DEF FrameType
  <2>5. LastHolds'
    BY <2>1, <2>2, <2>3, <2>4 DEF LastHolds, Holds
  <2> QED BY <2>1, <2>2, <2>3, <2>5, ExactReturns DEF Exact
<1>8. ASSUME NEW c \in Threads, BeginSetSource(c) PROVE Exact'
  <2>1. PICK f \in 0 .. NumFifos - 1, error \in BOOLEAN :
          /\ Begin(c, [Frame(c, "source") EXCEPT !.at = "fifo", !.fifo = f, !.error = error])
          /\ remap' = f
    BY <1>8, MayFailAssumption DEF BeginSetSource, Remap
  <2> DEFINE frame == [Frame(c, "source") EXCEPT !.at = "fifo", !.fifo = f, !.error = error]
  <2>2. /\ frame \in FrameType /\ frame.at = "fifo" /\ frame.op = "source" /\ frame.fifo = f
        /\ frame.disturbed = (\E d \in Threads \ {c} : Busy(d))
    BY FrameTyped DEF FrameType, FifoType
  <2>3. Begin(c, frame) /\ remap' = f
    BY <2>1
  <2>4. sourced' = FALSE
    BY <1>8 DEF BeginSetSource
  <2> HIDE DEF frame
  <2>5. PICK g \in FrameType : g = frame
    BY <2>2
  <2>6. Holds(g)'
    BY <2>2, <2>3, <2>5 DEF Holds
  <2> QED BY <2>2, <2>3, <2>4, <2>5, <2>6, ExactBegins
<1>9. ASSUME NEW c \in Threads, WriteFifo(c) PROVE Exact'
  <2> DEFINE f == doing[c]
  <2>1. f \in FrameType /\ Holds(f) /\ f.at = "fifo" /\ f.op = "source" /\ Busy(c)
    BY <1>9 DEF EnableTypeOK, Exact, WriteFifo, Busy, Holds
  <2>2. PICK error \in BOOLEAN : Returns(c, error)
    BY <1>9, <2>1 DEF WriteFifo, FrameType
  <2>3. sourced' => fifo' = remap'
    BY <1>9, <2>1 DEF WriteFifo, Exact, Holds
  <2>4. last' = [f EXCEPT !.error = error]
    BY <2>2 DEF Returns
  <2> HIDE DEF f
  <2>5. last'.op = "source"
    BY <2>1, <2>4 DEF FrameType
  <2> QED BY <2>1, <2>2, <2>3, <2>5, ExactReturns DEF LastHolds
<1>10. ASSUME NEW c \in Threads, BeginSetPins(c) PROVE Exact'
  <2>1. PICK pins \in SUBSET {Pin} :
          Begin(c, [Frame(c, "pins") EXCEPT !.at = "pins", !.alg = (algMask \ {Pin}) \cup pins])
    BY <1>10 DEF BeginSetPins
  <2> DEFINE frame == [Frame(c, "pins") EXCEPT !.at = "pins", !.alg = (algMask \ {Pin}) \cup pins]
  <2>2. /\ frame \in FrameType /\ frame.at = "pins" /\ frame.op = "pins"
        /\ frame.disturbed = (\E d \in Threads \ {c} : Busy(d))
    BY FrameTyped DEF FrameType, EnableTypeOK
  <2>3. Begin(c, frame) /\ UNCHANGED <<remap, fifo, sourced>>
    BY <1>10, <2>1 DEF BeginSetPins
  <2> HIDE DEF frame
  <2>4. PICK g \in FrameType : g = frame
    BY <2>2
  <2>5. Holds(g)'
    BY <2>2, <2>4 DEF Holds
  <2> QED BY <2>2, <2>3, <2>4, <2>5, ExactBegins DEF Exact
<1>11. ASSUME NEW c \in Threads, WritePins(c) PROVE Exact'
  <2> DEFINE f == doing[c]
  <2>1. f \in FrameType /\ Holds(f) /\ f.at = "pins" /\ f.op = "pins" /\ Busy(c)
    BY <1>11 DEF EnableTypeOK, Exact, WritePins, Busy, Holds
  <2>2. PICK error \in BOOLEAN : Returns(c, error)
    BY <1>11 DEF WritePins
  <2>3. last' = [f EXCEPT !.error = error] /\ UNCHANGED <<remap, fifo, sourced>>
    BY <1>11, <2>2 DEF WritePins, Returns
  <2> HIDE DEF f
  <2>4. last'.op = "pins"
    BY <2>1, <2>3 DEF FrameType
  <2> QED BY <2>1, <2>2, <2>3, <2>4, ExactReturns DEF LastHolds, Exact
<1>12. ASSUME NEW c \in Threads, BoardReset(c) PROVE Exact'
  <2>1. NoCall.at = "idle" /\ Holds(NoCall)'
    BY DEF NoCall, Holds
  <2>2. Begin(c, NoCall) /\ sourced' = FALSE
    BY <1>12 DEF BoardReset
  <2> QED BY <2>1, <2>2, NoCallType, ExactBegins
<1>13. CASE PinEdge
  BY <1>13 DEF PinEdge, Exact, Alone, LastHolds, Holds, Busy
<1>14. CASE UNCHANGED enableVars
  BY <1>14 DEF enableVars, Exact, Alone, LastHolds, Holds, Busy
<1> QED
  BY <1>1, <1>2, <1>3, <1>4, <1>5, <1>6, <1>7, <1>8, <1>9, <1>10, <1>11, <1>12, <1>13, <1>14
  DEF EnableNext, CallerStep

LEMMA ExactInit == EnableInit => Exact
<1> SUFFICES ASSUME EnableInit PROVE Exact
  OBVIOUS
<1>1. NoCall.at = "idle" /\ NoCall.op = "none" /\ Holds(NoCall)
  BY DEF NoCall, Holds
<1>2. Alone
  BY <1>1 DEF EnableInit, Alone, Busy
<1>3. LastHolds
  BY <1>1 DEF EnableInit, LastHolds
<1>4. \A c \in Threads : Holds(doing[c])
  BY <1>1 DEF EnableInit
<1>5. sourced = FALSE
  BY DEF EnableInit
<1> QED BY <1>2, <1>3, <1>4, <1>5 DEF Exact

----------------------------------------------------------------------------

\* Every register, every copy of one and every local of a call is always one
\* of the values its type says.
THEOREM EnableTypeCorrect == EnableSpec => []EnableTypeOK
<1>1. EnableInit => EnableTypeOK
  BY TypeInit
<1>2. EnableTypeOK /\ [EnableNext]_enableVars => EnableTypeOK'
  BY TypeStep
<1> QED BY <1>1, <1>2, PTL DEF EnableSpec

\* SDM35541_Interrupt_Enable and _Interrupt_Disable lose updates of
\* handle->ints_enabled to each other, and a board reset leaves it as it was;
\* but no board-level interrupt is ever on that nobody called Enable for.
THEOREM EnabledWasAsked == EnableSpec => []NothingUnasked
<1>1. EnableInit => AskedInv
  BY TypeInit DEF EnableInit, AskedInv, Asked, NoCall
<1>2. AskedInv /\ [EnableNext]_enableVars => AskedInv'
  BY TypeStep, AskedStep DEF AskedInv
<1>3. AskedInv => NothingUnasked
  BY DEF AskedInv, Asked, NothingUnasked
<1> QED BY <1>1, <1>2, <1>3, PTL DEF EnableSpec

LEMMA ExactInvariant == EnableSpec => []ExactInv
<1>1. EnableInit => ExactInv
  BY TypeInit, ExactInit DEF ExactInv
<1>2. ExactInv /\ [EnableNext]_enableVars => ExactInv'
  BY TypeStep, ExactStep DEF ExactInv
<1> QED BY <1>1, <1>2, PTL DEF EnableSpec

\* A call of SDM35541_Interrupt_Enable or _Disable that returns 0 and that no
\* other overlaps sets the INT register to what the handle held with its mask
\* added or taken away, whatever earlier calls left behind.  If it enables
\* INT_DMA_0 after SDM35541_DMA_Set_Source, the DMA interrupts that are on are
\* those of the channel that the board uses: the remapping in the library's
\* memory and the request source agree.
THEOREM EnableIsExact == EnableSpec => []EnabledIsExact
<1>1. ExactInv => ExactlyTheMask
  BY DEF ExactInv, Exact, LastHolds, ExactlyTheMask
<1>2. ExactInv => DmaIntIsOfItsFifo
  BY DEF ExactInv, Exact, LastHolds, DmaIntIsOfItsFifo
<1>3. ExactInv => EnabledIsExact
  BY <1>1, <1>2 DEF EnabledIsExact
<1> QED BY <1>3, ExactInvariant, PTL
=============================================================================
