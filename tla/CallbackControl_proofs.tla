----------------------- MODULE CallbackControl_proofs -----------------------
(***************************************************************************)
(* Proofs about CallbackControl, for any number of threads, any callbacks  *)
(* that remove themselves and whatever a freed status word may read as:    *)
(* as long as the application does not install over an installed callback  *)
(* and no two calls overlap, no callback thread is lost.                   *)
(*                                                                         *)
(* The invariant says that a thread which nobody has told to stop is the   *)
(* one whose terminate event is in the slot, with its handle open, at      *)
(* every place of every call, and what a call in progress knows of the     *)
(* two slots.                                                              *)
(***************************************************************************)
EXTENDS CallbackControl, TLAPS

\* The thread goes to its end without being told anything more.
StoppedLife(l) == l.term # "clear" \/ l.result # "ok"
Stopped(t) == StoppedLife(life[t])

\* What holds of the life of every thread.
Plausible(l) ==
  /\ l.status = 2 => l.result # "ok"
  /\ l.end # "none" => l.term = "closed"

Quiet == \A c \in Callers : at[c] = "idle"

\* What a call in progress knows of the slots.
Installing ==
  /\ at[App] \in {"poll", "join"} =>
       /\ threadSlot = NULL /\ termSlot # NULL /\ local[App] = termSlot /\ termSlot \in handles
  /\ at[App] = "join" => Stopped(termSlot)

Removing(c) ==
  /\ at[c] \in {"poll", "join"} => c = App
  /\ at[c] \in {"signal", "wait"} =>
       termSlot = threadSlot /\ threadSlot \in handles
  /\ at[c] = "wait" => local[c] = threadSlot /\ Stopped(threadSlot)

\* What the slots say between two calls.
Resting ==
  Quiet => IF threadSlot = NULL THEN \A t \in 1 .. created : Stopped(t)
           ELSE termSlot = threadSlot /\ threadSlot \in handles

SlotsSound ==
  /\ \A c, d \in Callers : at[c] # "idle" /\ at[d] # "idle" => c = d
  /\ \A t \in 1 .. created : Stopped(t) \/ (termSlot = t /\ t \in handles)
  /\ Installing /\ Resting /\ \A c \in Callers : Removing(c)

LivesPlausible == \A t \in Threads : Plausible(life[t])

----------------------------------------------------------------------------
\* Single steps of a thread's life

LEMMA LifeSteps ==
  ASSUME NEW l \in Lives, NEW m \in OwnSteps(l) \cup Terminated(l)
  PROVE  /\ m \in Lives
         /\ Plausible(l) => Plausible(m)
         /\ StoppedLife(l) => StoppedLife(m)
         /\ l.end = "exited" /\ Plausible(l) => m.end = "exited"
<1> USE DEF Lives, Plausible, StoppedLife
<1>1. CASE m \in Readies(l)
  BY <1>1 DEF Readies
<1>2. CASE m \in Marks(l)
  BY <1>2 DEF Marks
<1>3. CASE m \in Closes(l)
  BY <1>3 DEF Closes, Closed
<1>4. CASE m \in Tells(l)
  BY <1>4 DEF Tells
<1>5. CASE m \in Frees(l)
  BY <1>5 DEF Frees
<1>6. CASE m \in Exits(l)
  BY <1>6 DEF Exits
<1>7. CASE m \in Fails(l)
  BY <1>7 DEF Fails
<1>8. CASE m \in Terminated(l)
  BY <1>8 DEF Terminated
<1>9. CASE m \in Hangs(l)
  BY <1>9 DEF Hangs
<1> QED BY <1>1, <1>2, <1>3, <1>4, <1>5, <1>6, <1>7, <1>8, <1>9 DEF Runs, OwnSteps

\* A step in which the life of thread t alone may change.
OneLife(t) ==
  \E m \in OwnSteps(life[t]) \cup Terminated(life[t]) : life' = [life EXCEPT ![t] = m]

LEMMA LivesKept ==
  ASSUME TypeOK, LivesPlausible, life' = life \/ \E t \in Threads : OneLife(t)
  PROVE  /\ life' \in [Threads -> Lives] /\ LivesPlausible'
         /\ \A t \in Threads : Stopped(t) => Stopped(t)'
         /\ \A t \in Threads : Exited(t) => Exited(t)'
<1>1. CASE life' = life
  BY <1>1 DEF TypeOK, LivesPlausible, Stopped, Exited
<1>2. ASSUME NEW t \in Threads, OneLife(t)
      PROVE  /\ life' \in [Threads -> Lives] /\ LivesPlausible'
             /\ \A u \in Threads : Stopped(u) => Stopped(u)'
             /\ \A u \in Threads : Exited(u) => Exited(u)'
  <2>1. PICK m \in OwnSteps(life[t]) \cup Terminated(life[t]) :
          life' = [life EXCEPT ![t] = m]
    BY <1>2 DEF OneLife
  <2>2. life[t] \in Lives /\ Plausible(life[t])
    BY DEF TypeOK, LivesPlausible
  <2>3. /\ m \in Lives /\ Plausible(m) /\ (StoppedLife(life[t]) => StoppedLife(m))
        /\ life[t].end = "exited" => m.end = "exited"
    BY <2>1, <2>2, LifeSteps
  <2>4. \A u \in Threads : life'[u] = IF u = t THEN m ELSE life[u]
    BY <2>1 DEF TypeOK
  <2>5. life' \in [Threads -> Lives]
    BY <2>1, <2>3 DEF TypeOK
  <2> QED BY <2>3, <2>4, <2>5 DEF LivesPlausible, Stopped, Exited
<1> QED BY <1>1, <1>2

LEMMA SignalIsALifeStep ==
  ASSUME TypeOK, NEW t \in Threads, CanSignal(t), Signal(t)
  PROVE  OneLife(t) /\ Stopped(t)'
<1>1. [life[t] EXCEPT !.term = "set"] \in Terminated(life[t])
  BY DEF CanSignal, Terminated
<1>2. OneLife(t)
  BY <1>1 DEF Signal, OneLife
<1>3. Stopped(t)'
  BY DEF Signal, TypeOK, Lives, Stopped, StoppedLife
<1> QED BY <1>2, <1>3

\* Every step leaves the lives as they are or changes one of them by a step.
LEMMA EveryLifeStep ==
  ASSUME TypeOK, [Next]_vars PROVE life' = life \/ \E t \in Threads : OneLife(t)
<1>1. ASSUME NEW c \in Callers, RemoveNoHandle(c) \/ RemoveSignal(c)
      PROVE  life' = life \/ \E t \in Threads : OneLife(t)
  <2>1. termSlot # NULL => termSlot \in Threads
    BY ThreadsAssumption DEF TypeOK, Threads, NULL
  <2> QED BY <1>1, <2>1, SignalIsALifeStep DEF RemoveNoHandle, RemoveSignal, CanSignal
<1>2. ASSUME NEW t \in Threads, ThreadRuns(t) \/ ThreadFails(t) \/ ThreadHangs(t) PROVE OneLife(t)
  BY <1>2 DEF ThreadRuns, ThreadFails, ThreadHangs, ThreadGoes, OwnSteps, OneLife
<1>3. CASE InstallNoEvent \/ InstallStart \/ InstallPoll \/ InstallJoin
  BY <1>3 DEF InstallNoEvent, InstallStart, InstallPoll, InstallJoin
<1>4. ASSUME NEW c \in Callers,
             RemoveNothing(c) \/ RemoveExited(c) \/ RemoveRunning(c) \/ RemoveWait(c)
      PROVE  life' = life
  BY <1>4 DEF RemoveNothing, RemoveExited, RemoveRunning, RemoveWait, AfterWait, RemoveEnd
<1>5. CASE UNCHANGED vars
  BY <1>5 DEF vars
<1> QED BY <1>1, <1>2, <1>3, <1>4, <1>5 DEF Next

----------------------------------------------------------------------------
\* Types

TypeInv == TypeOK /\ LivesPlausible

LEMMA TypeInit == Init => TypeInv
<1>1. Start \in Lives /\ Plausible(Start)
  BY DEF Start, Lives, Plausible
<1> SUFFICES ASSUME Init PROVE TypeInv
  OBVIOUS
<1>2. LivesPlausible /\ life \in [Threads -> Lives]
  BY <1>1 DEF Init, LivesPlausible
<1>3. returned \in [call : {"none", "install", "remove"}, result : Results, thread : 0 .. created]
  BY DEF Init, NULL, Results
<1>4. overlapped \in BOOLEAN
  BY DEF Init
<1>5. /\ created \in 0 .. MaxThreads /\ handles \subseteq 1 .. created
      /\ termSlot \in 0 .. created /\ threadSlot \in 0 .. created
      /\ at \in [Callers -> {"idle", "poll", "join", "signal", "wait"}]
      /\ local \in [Callers -> 0 .. created]
  BY ThreadsAssumption DEF Init, NULL
<1> QED BY <1>2, <1>3, <1>4, <1>5 DEF TypeInv, TypeOK

LEMMA ReturnsType ==
  ASSUME TypeOK, NEW c \in Callers, NEW name \in {"install", "remove"}, NEW error \in Results,
         NEW t \in 0 .. created, Returns(c, name, error, t), created' = created
  PROVE  /\ at' \in [Callers -> {"idle", "poll", "join", "signal", "wait"}]
         /\ local' \in [Callers -> 0 .. created']
         /\ returned' \in [call : {"none", "install", "remove"}, result : Results,
                           thread : 0 .. created']
<1>1. NULL \in 0 .. created
  BY ThreadsAssumption DEF TypeOK, NULL
<1> QED BY <1>1 DEF Returns, TypeOK

LEMMA TypeStep == TypeInv /\ [Next]_vars => TypeInv'
<1> SUFFICES ASSUME TypeInv, [Next]_vars PROVE TypeInv'
  OBVIOUS
<1>1. life' \in [Threads -> Lives] /\ LivesPlausible'
  BY EveryLifeStep, LivesKept DEF TypeInv
<1> SUFFICES TypeOK'
  BY <1>1 DEF TypeInv
<1> USE ThreadsAssumption, <1>1 DEF TypeInv, slots, NULL
<1>2. created \in Nat /\ NULL \in 0 .. created /\ App \in Callers
  BY DEF TypeOK, Callers
<1>3. CASE InstallNoEvent
  <2>1. overlapped' \in BOOLEAN
    BY <1>3 DEF InstallNoEvent, Begins
  <2> QED BY <1>2, <1>3, <2>1, ReturnsType DEF InstallNoEvent, TypeOK, Results
<1>4. CASE InstallStart
  <2>1. overlapped' \in BOOLEAN
    BY <1>4 DEF InstallStart, Begins
  <2>2. CASE created' = created + 1
    <3>0. /\ created < MaxThreads /\ handles' = handles \cup {created + 1}
          /\ termSlot' = created + 1 /\ threadSlot' = threadSlot
          /\ handles \subseteq 1 .. created /\ threadSlot \in 0 .. created
      BY <1>2, <1>4, <2>2 DEF InstallStart, TypeOK
    <3>1. /\ created' \in 0 .. MaxThreads /\ handles' \subseteq 1 .. created'
          /\ termSlot' \in 0 .. created' /\ threadSlot' \in 0 .. created'
      BY <1>2, <2>2, <3>0
    <3>2. at' \in [Callers -> {"idle", "poll", "join", "signal", "wait"}]
          /\ local' \in [Callers -> 0 .. created'] /\ returned' = returned
      BY <1>2, <1>4, <2>2 DEF InstallStart, TypeOK
    <3>3. returned' \in [call : {"none", "install", "remove"}, result : Results,
                         thread : 0 .. created']
      BY <1>2, <2>2, <3>2 DEF TypeOK
    <3> QED BY <2>1, <3>1, <3>2, <3>3 DEF TypeOK
  <2>3. CASE Returns(App, "install", "CREATE_THREAD_FAILURE", NULL) /\ termSlot' = NULL
             /\ UNCHANGED <<created, handles>>
    <3>1. threadSlot' = threadSlot
      BY <1>4 DEF InstallStart
    <3> QED BY <1>2, <2>1, <2>3, <3>1, ReturnsType DEF TypeOK, Results
  <2> QED BY <1>4, <2>2, <2>3 DEF InstallStart
<1>5. CASE InstallPoll
  <2>1. local[App] \in 0 .. created /\ UNCHANGED <<created, handles, termSlot, overlapped>>
    BY <1>2, <1>5 DEF InstallPoll, TypeOK
  <2>2. CASE Returns(App, "install", "ok", local[App]) /\ threadSlot' = local[App]
    BY <2>1, <2>2, <1>2, ReturnsType DEF TypeOK, Results
  <2>3. CASE at' = [at EXCEPT ![App] = "join"] /\ UNCHANGED <<threadSlot, local, returned>>
    BY <2>1, <2>3 DEF TypeOK
  <2>4. CASE Returns(App, "install", "UNEXPECTED", local[App]) /\ UNCHANGED threadSlot
    BY <2>1, <2>4, <1>2, ReturnsType DEF TypeOK, Results
  <2> QED BY <1>5, <2>2, <2>3, <2>4 DEF InstallPoll
<1>6. CASE InstallJoin
  <2>1. PICK error \in Results : Returns(App, "install", error, local[App])
    BY <1>6 DEF InstallJoin, CloseResult, Results
  <2>2. local[App] \in 0 .. created /\ handles' \subseteq handles /\ UNCHANGED <<created, overlapped>>
    BY <1>2, <1>6 DEF InstallJoin, TypeOK
  <2> QED BY <1>2, <1>6, <2>1, <2>2, ReturnsType DEF InstallJoin, ClearSlots, TypeOK
<1>7. ASSUME NEW c \in Callers, RemoveNothing(c) \/ RemoveExited(c) \/ RemoveNoHandle(c)
      PROVE  TypeOK'
  <2>1. overlapped' \in BOOLEAN
    BY <1>7 DEF RemoveNothing, RemoveExited, RemoveNoHandle, Begins
  <2>2. PICK error \in Results, t \in 0 .. created : Returns(c, "remove", error, t)
    BY <1>2, <1>7 DEF RemoveNothing, RemoveExited, RemoveNoHandle, TypeOK, Results
  <2>3. /\ handles' \subseteq handles /\ created' = created
        /\ termSlot' \in {NULL, termSlot} /\ threadSlot' \in {NULL, threadSlot}
    BY <1>7 DEF RemoveNothing, RemoveExited, RemoveNoHandle, ClearSlots
  <2> QED BY <1>2, <2>1, <2>2, <2>3, ReturnsType DEF TypeOK
<1>8. ASSUME NEW c \in Callers, RemoveRunning(c) PROVE TypeOK'
  <2>1. overlapped' \in BOOLEAN
    BY <1>8 DEF RemoveRunning, Begins
  <2> QED BY <1>8, <2>1 DEF RemoveRunning, TypeOK
<1>9. ASSUME NEW c \in Callers, RemoveSignal(c) PROVE TypeOK'
  <2>1. CASE at' = [at EXCEPT ![c] = "wait"]
    BY <1>2, <1>9, <2>1 DEF RemoveSignal, TypeOK, Returns
  <2>2. CASE ClearSlots /\ Returns(c, "remove", "STOP_THREAD_FAILURE", threadSlot)
    <3>1. threadSlot \in 0 .. created /\ UNCHANGED <<created, handles, overlapped>>
      BY <1>9 DEF RemoveSignal, TypeOK
    <3> QED BY <1>2, <2>2, <3>1, ReturnsType DEF ClearSlots, TypeOK, Results
  <2> QED BY <1>9, <2>1, <2>2 DEF RemoveSignal
<1>10. ASSUME NEW c \in Callers, RemoveWait(c) PROVE TypeOK'
  <2>1. PICK error \in Results : Returns(c, "remove", error, local[c])
    BY <1>10 DEF RemoveWait, AfterWait, RemoveEnd, CloseResult, WaitResult, Results
  <2>2. local[c] \in 0 .. created /\ handles' \subseteq handles /\ UNCHANGED <<created, overlapped>>
        /\ ClearSlots
    BY <1>10 DEF RemoveWait, AfterWait, RemoveEnd, TypeOK
  <2> QED BY <1>2, <2>1, <2>2, ReturnsType DEF ClearSlots, TypeOK
<1>11. ASSUME NEW t \in Threads, ThreadRuns(t) \/ ThreadFails(t) \/ ThreadHangs(t) PROVE TypeOK'
  BY <1>11 DEF ThreadRuns, ThreadFails, ThreadHangs, ThreadGoes, TypeOK
<1>12. CASE UNCHANGED vars
  BY <1>12 DEF vars, TypeOK
<1> QED
  BY <1>3, <1>4, <1>5, <1>6, <1>7, <1>8, <1>9, <1>10, <1>11, <1>12 DEF Next

----------------------------------------------------------------------------
\* The slots

Sound == TypeInv /\ (~overlapped => SlotsSound)

LEMMA AllRest ==
  ASSUME TypeOK', Quiet', termSlot' = NULL, threadSlot' = NULL,
         \A t \in 1 .. created' : Stopped(t)'
  PROVE  SlotsSound'
BY DEF SlotsSound, Installing, Resting, Removing, Quiet, Callers

\* A call that begins without disturbing another begins when all is quiet.
LEMMA BeginsQuiet ==
  ASSUME NEW c \in Callers, at[c] = "idle", Begins(c), ~overlapped'
  PROVE  Quiet /\ ~overlapped
BY DEF Begins, Quiet

LEMMA ReturnsQuiet ==
  ASSUME TypeOK, NEW c \in Callers, NEW name, NEW error, NEW t, Returns(c, name, error, t),
         Quiet \/ (SlotsSound /\ at[c] # "idle")
  PROVE  Quiet'
BY DEF Returns, TypeOK, Quiet, SlotsSound

\* A step that leaves the calls and the slots alone.
LEMMA SlotsKept ==
  ASSUME TypeOK, SlotsSound, UNCHANGED <<created, handles, slots, at, local>>,
         \A t \in Threads : Stopped(t) => Stopped(t)'
  PROVE  SlotsSound'
<1>1. 1 .. created \subseteq Threads /\ handles \subseteq 1 .. created
  BY ThreadsAssumption DEF TypeOK, Threads
<1>2. UNCHANGED <<termSlot, threadSlot>>
  BY DEF slots
<1> QED BY <1>1, <1>2 DEF SlotsSound, Installing, Resting, Removing, Quiet

LEMMA SlotsStep ==
  ASSUME Reinstalls = FALSE, TypeInv, TypeInv', ~overlapped => SlotsSound, [Next]_vars, ~overlapped'
  PROVE  SlotsSound'
<1> USE ThreadsAssumption DEF TypeInv, slots
<1>1. /\ created \in Nat /\ NULL \notin 1 .. created /\ App \in Callers /\ 1 .. created \subseteq Threads
      /\ handles \subseteq 1 .. created
  BY DEF TypeOK, Callers, Threads, NULL
<1>2. \A t \in Threads : Stopped(t) => Stopped(t)'
  BY EveryLifeStep, LivesKept
<1>3. \A t \in Threads : Freed(t) => Stopped(t)
  BY DEF Freed, LivesPlausible, Plausible, Stopped, StoppedLife
<1>4. ASSUME Quiet, SlotsSound, threadSlot = NULL PROVE \A t \in 1 .. created : Stopped(t)
  BY <1>4 DEF SlotsSound, Resting
<1>5. ASSUME Quiet, SlotsSound, threadSlot # NULL
      PROVE  termSlot = threadSlot /\ threadSlot \in handles
  BY <1>5 DEF SlotsSound, Resting
<1>6. ASSUME SlotsSound, Stopped(termSlot) PROVE \A t \in 1 .. created : Stopped(t)
  BY <1>6 DEF SlotsSound
<1>7. ASSUME ClearSlots, Quiet', created' = created, \A t \in 1 .. created : Stopped(t)
      PROVE  SlotsSound'
  BY <1>1, <1>2, <1>7, AllRest DEF ClearSlots
<1>8. CASE InstallNoEvent
  <2>1. Quiet /\ SlotsSound
    BY <1>1, <1>8, BeginsQuiet DEF InstallNoEvent
  <2>2. UNCHANGED <<created, handles, slots, at>> /\ local'[App] = NULL
    BY <1>1, <1>8, <2>1 DEF InstallNoEvent, Returns, TypeOK, Quiet
  <2>3. \A c \in Callers : at[c] = "idle" /\ at'[c] = "idle"
    BY <2>1, <2>2 DEF Quiet
  <2> QED BY <1>1, <1>2, <2>1, <2>2, <2>3 DEF SlotsSound, Installing, Resting, Removing, Quiet
<1>9. CASE InstallStart
  <2>1. Quiet /\ SlotsSound /\ threadSlot = NULL /\ threadSlot' = NULL /\ life' = life
    BY <1>1, <1>9, BeginsQuiet DEF InstallStart
  <2>2. \A t \in 1 .. created : Stopped(t) /\ Stopped(t)'
    BY <1>1, <1>2, <1>4, <2>1
  <2>3. CASE created' = created + 1
    <3>1. /\ termSlot' = created + 1 /\ handles' = handles \cup {created + 1}
          /\ at' = [at EXCEPT ![App] = "poll"] /\ local' = [local EXCEPT ![App] = created + 1]
      BY <1>1, <1>9, <2>3 DEF InstallStart
    <3>2. \A c \in Callers : at'[c] = IF c = App THEN "poll" ELSE "idle"
      BY <2>1, <3>1 DEF Quiet, TypeOK
    <3>3. local'[App] = created + 1 /\ created + 1 # NULL
      BY <1>1, <3>1 DEF TypeOK, NULL
    <3>4. \A t \in 1 .. created' : Stopped(t)' \/ (termSlot' = t /\ t \in handles')
      BY <1>1, <2>2, <2>3, <3>1
    <3> QED
      BY <1>1, <2>1, <3>1, <3>2, <3>3, <3>4 DEF SlotsSound, Installing, Resting, Removing, Quiet
  <2>4. CASE created' # created + 1
    <3>1. /\ termSlot' = NULL /\ Returns(App, "install", "CREATE_THREAD_FAILURE", NULL)
          /\ created' = created
      BY <1>9, <2>4 DEF InstallStart
    <3>2. Quiet'
      BY <1>1, <2>1, <3>1, ReturnsQuiet
    <3> QED BY <1>7, <2>1, <2>2, <3>1, <3>2 DEF ClearSlots
  <2> QED BY <2>3, <2>4
<1>10. CASE InstallPoll \/ InstallJoin
  <2>1. ~overlapped /\ SlotsSound /\ at[App] \in {"poll", "join"} /\ created' = created
    BY <1>10 DEF InstallPoll, InstallJoin
  <2>2. threadSlot = NULL /\ termSlot \in handles /\ local[App] = termSlot /\ termSlot \in Threads
    BY <1>1, <2>1 DEF SlotsSound, Installing
  <2>3. ASSUME NEW name, NEW error, NEW t, Returns(App, name, error, t) PROVE Quiet'
    BY <1>1, <2>1, <2>3, ReturnsQuiet
  <2>4. CASE InstallPoll
    <3>1. UNCHANGED <<life, handles, termSlot>>
      BY <2>4 DEF InstallPoll
    <3>2. PICK s \in StatusRead(termSlot) :
            \/ /\ s = 1 /\ threadSlot' = local[App]
               /\ Returns(App, "install", "ok", local[App])
            \/ /\ s = 2 /\ at' = [at EXCEPT ![App] = "join"]
               /\ UNCHANGED <<threadSlot, local, returned>>
            \/ /\ s = 3 /\ Returns(App, "install", "UNEXPECTED", local[App])
               /\ UNCHANGED threadSlot
      BY <2>2, <2>4 DEF InstallPoll
    <3>3. s \in {2, 3} => Stopped(termSlot)
      <4>1. CASE Freed(termSlot)
        BY <1>3, <2>2, <4>1
      <4>2. CASE ~Freed(termSlot)
        <5>1. s = life[termSlot].status /\ life[termSlot] \in Lives /\ Plausible(life[termSlot])
          BY <2>2, <3>2, <4>2 DEF StatusRead, TypeOK, LivesPlausible
        <5> QED BY <5>1 DEF Lives, Plausible, Stopped, StoppedLife
      <4> QED BY <4>1, <4>2
    <3>4. CASE s = 1
      <4>1. Quiet' /\ threadSlot' = termSlot
        BY <2>2, <2>3, <3>2, <3>4
      <4>2. \A t \in 1 .. created : Stopped(t)' \/ (termSlot = t /\ t \in handles)
        BY <1>1, <1>2, <2>1 DEF SlotsSound
      <4> QED
        BY <1>1, <2>1, <2>2, <3>1, <4>1, <4>2 DEF SlotsSound, Installing, Resting, Removing, Quiet
    <3>5. CASE s = 2
      <4>1. \A c \in Callers : at'[c] = IF c = App THEN "join" ELSE "idle"
        BY <1>1, <2>1, <3>2, <3>5 DEF SlotsSound, TypeOK
      <4>2. \A t \in 1 .. created : Stopped(t)' \/ (termSlot = t /\ t \in handles)
        BY <1>1, <1>2, <2>1 DEF SlotsSound
      <4>3. threadSlot' = NULL /\ local' = local /\ Stopped(termSlot)' /\ termSlot # NULL
        BY <1>1, <1>2, <2>2, <3>1, <3>2, <3>3, <3>5
      <4> QED
        BY <1>1, <2>1, <2>2, <3>1, <4>1, <4>2, <4>3
        DEF SlotsSound, Installing, Resting, Removing, Quiet
    <3>6. CASE s = 3
      <4>1. Quiet' /\ threadSlot' = NULL
        BY <2>2, <2>3, <3>2, <3>6
      <4>2. \A t \in 1 .. created' : Stopped(t)'
        BY <1>1, <1>2, <1>6, <2>1, <3>3, <3>6
      <4> QED BY <1>1, <4>1, <4>2 DEF SlotsSound, Installing, Resting, Removing, Quiet
    <3> QED BY <3>2, <3>4, <3>5, <3>6
  <2>5. CASE InstallJoin
    <3>1. Stopped(termSlot)
      BY <2>1, <2>5 DEF InstallJoin, SlotsSound, Installing
    <3>2. Quiet' /\ ClearSlots
      BY <2>3, <2>5 DEF InstallJoin
    <3> QED BY <1>6, <1>7, <2>1, <3>1, <3>2
  <2> QED BY <1>10, <2>4, <2>5
<1>11. ASSUME NEW c \in Callers, RemoveNothing(c) PROVE SlotsSound'
  <2>1. Quiet /\ SlotsSound
    BY <1>11, BeginsQuiet DEF RemoveNothing, MayRemove
  <2>2. UNCHANGED <<created, handles, slots, at>>
    BY <1>11, <2>1 DEF RemoveNothing, Returns, TypeOK, Quiet
  <2>3. \A d \in Callers : at[d] = "idle" /\ at'[d] = "idle"
    BY <2>1, <2>2 DEF Quiet
  <2> QED BY <1>1, <1>2, <2>1, <2>2, <2>3 DEF SlotsSound, Installing, Resting, Removing, Quiet
<1>12. ASSUME NEW c \in Callers, RemoveExited(c) \/ RemoveNoHandle(c) PROVE SlotsSound'
  <2>1. Quiet /\ SlotsSound
    BY <1>12, BeginsQuiet DEF RemoveExited, RemoveNoHandle, MayRemove
  <2>2. Quiet' /\ ClearSlots /\ created' = created
    BY <1>12, <2>1, ReturnsQuiet DEF RemoveExited, RemoveNoHandle
  <2>3. CASE RemoveExited(c)
    <3>1. threadSlot # NULL /\ Freed(threadSlot) /\ threadSlot \in Threads
      BY <1>1, <2>3 DEF RemoveExited, Exited, Freed
    <3> QED BY <1>3, <1>5, <1>6, <1>7, <2>1, <2>2, <3>1
  <2>4. CASE RemoveNoHandle(c)
    BY <1>4, <1>5, <1>7, <2>1, <2>2, <2>4 DEF RemoveNoHandle
  <2> QED BY <1>12, <2>3, <2>4
<1>13. ASSUME NEW c \in Callers, RemoveRunning(c) PROVE SlotsSound'
  <2>1. Quiet /\ SlotsSound
    BY <1>13, BeginsQuiet DEF RemoveRunning, MayRemove
  <2>2. \A d \in Callers : at'[d] = IF d = c THEN "signal" ELSE "idle"
    BY <1>13, <2>1 DEF RemoveRunning, Quiet, TypeOK
  <2>3. UNCHANGED <<life, created, handles, slots, local>> /\ threadSlot \in handles
    BY <1>13 DEF RemoveRunning
  <2>4. termSlot = threadSlot
    BY <1>1, <1>5, <2>1, <2>3
  <2>5. \A t \in 1 .. created : Stopped(t)' \/ (termSlot = t /\ t \in handles)
    BY <1>1, <1>2, <2>1 DEF SlotsSound
  <2> QED
    BY <1>1, <2>2, <2>3, <2>4, <2>5 DEF SlotsSound, Installing, Resting, Removing, Quiet
<1>14. ASSUME NEW c \in Callers, RemoveSignal(c) PROVE SlotsSound'
  <2>1. /\ SlotsSound /\ at[c] = "signal" /\ UNCHANGED <<created, handles>>
        /\ termSlot = threadSlot /\ threadSlot \in handles /\ threadSlot \in Threads
    BY <1>1, <1>14 DEF RemoveSignal, SlotsSound, Removing
  <2>2. CASE CanSignal(termSlot)
    <3>1. /\ Stopped(threadSlot)' /\ at' = [at EXCEPT ![c] = "wait"] /\ UNCHANGED slots
          /\ local' = [local EXCEPT ![c] = threadSlot]
      BY <1>14, <2>1, <2>2, SignalIsALifeStep DEF RemoveSignal
    <3>2. \A d \in Callers : at'[d] = IF d = c THEN "wait" ELSE "idle"
      BY <2>1, <3>1 DEF SlotsSound, TypeOK
    <3>3. local'[c] = threadSlot
      BY <3>1 DEF TypeOK
    <3>4. \A t \in 1 .. created : Stopped(t)' \/ (termSlot = t /\ t \in handles)
      BY <1>1, <1>2, <2>1 DEF SlotsSound
    <3> QED
      BY <1>1, <2>1, <3>1, <3>2, <3>3, <3>4
      DEF SlotsSound, Installing, Resting, Removing, Quiet
  <2>3. CASE ~CanSignal(termSlot)
    <3>1. ClearSlots /\ Quiet'
      BY <1>14, <2>1, <2>3, ReturnsQuiet DEF RemoveSignal
    <3>2. Stopped(termSlot)
      BY <1>1, <2>1, <2>3 DEF CanSignal, Terminated, Stopped, StoppedLife
    <3> QED BY <1>6, <1>7, <2>1, <3>1, <3>2
  <2> QED BY <2>2, <2>3
<1>15. ASSUME NEW c \in Callers, RemoveWait(c) PROVE SlotsSound'
  <2>1. /\ SlotsSound /\ at[c] = "wait" /\ created' = created /\ ClearSlots
        /\ termSlot = threadSlot /\ Stopped(threadSlot)
    BY <1>15 DEF RemoveWait, AfterWait, RemoveEnd, SlotsSound, Removing
  <2>2. Quiet'
    BY <1>15, <2>1, ReturnsQuiet DEF RemoveWait, AfterWait, RemoveEnd
  <2> QED BY <1>6, <1>7, <2>1, <2>2
<1>16. ASSUME NEW t \in Threads, ThreadRuns(t) \/ ThreadFails(t) \/ ThreadHangs(t) PROVE SlotsSound'
  BY <1>2, <1>16, SlotsKept DEF ThreadRuns, ThreadFails, ThreadHangs, ThreadGoes
<1>17. CASE UNCHANGED vars
  BY <1>2, <1>17, SlotsKept DEF vars
<1> QED
  BY <1>8, <1>9, <1>10, <1>11, <1>12, <1>13, <1>14, <1>15, <1>16, <1>17 DEF Next

LEMMA SoundInit == Init => Sound
<1> SUFFICES ASSUME Init PROVE SlotsSound
  BY TypeInit DEF Sound
<1>1. \A c \in Callers : at[c] = "idle"
  BY DEF Init
<1>2. created = 0 /\ threadSlot = NULL
  BY DEF Init
<1> QED
  BY <1>1, <1>2 DEF SlotsSound, Installing, Resting, Removing, Quiet, Callers

LEMMA SoundStep == Reinstalls = FALSE /\ Sound /\ [Next]_vars => Sound'
<1> SUFFICES ASSUME Reinstalls = FALSE, Sound, [Next]_vars PROVE Sound'
  OBVIOUS
<1>1. TypeInv'
  BY TypeStep DEF Sound
<1> QED BY <1>1, SlotsStep DEF Sound

----------------------------------------------------------------------------

\* The slots, the handles, the lives of the threads and the locals of the calls
\* are always what their types say.
THEOREM TypeCorrect == Spec => []TypeOK
<1>1. TypeInv => TypeOK
  BY DEF TypeInv
<1> QED BY <1>1, TypeInit, TypeStep, PTL DEF Spec

\* Unless calls overlap or the application installs over an installed
\* callback, a thread that would go on calling the user's callback has its
\* terminate event in the slot, where Remove finds it; the two slots of an
\* installed callback are of one thread, whose handle is open, and Install and
\* Remove close the handle of no thread that still runs.
THEOREM HandlesCorrect == ASSUME Reinstalls = FALSE PROVE Spec => []HandlesAreSound
<1>1. Sound => HandlesAreSound
  <2> SUFFICES ASSUME TypeInv, ~overlapped, SlotsSound PROVE HandlesAreSound
    BY DEF Sound, HandlesAreSound, NoOrphan, SlotsAgree, ClosesStoppedThreads
  <2>1. SlotsAgree
    BY DEF SlotsAgree, SlotsSound, Resting, Quiet
  <2>2. ASSUME NEW t \in (1 .. created) \ handles
        PROVE  life[t].term # "clear" \/ life[t].result # "ok"
    BY DEF SlotsSound, Stopped, StoppedLife
  <2>3. ASSUME NEW t \in 1 .. created, life[t].result = "ok", life[t].term = "clear"
        PROVE  termSlot = t
    BY <2>3 DEF SlotsSound, Stopped, StoppedLife
  <2> QED BY <2>1, <2>2, <2>3 DEF HandlesAreSound, NoOrphan, ClosesStoppedThreads
<1> QED BY <1>1, SoundInit, SoundStep, PTL DEF Spec

----------------------------------------------------------------------------
\* What success of Remove says

LEMMA GoneStep ==
  ASSUME Reinstalls = FALSE, Sound, Sound', RemoveOkMeansGone, [Next]_vars
  PROVE  RemoveOkMeansGone'
<1> USE ThreadsAssumption DEF Sound, TypeInv
<1>1. /\ created \in Nat /\ 1 .. created \subseteq Threads /\ returned.thread \in 0 .. created
      /\ \A t \in Threads : Exited(t) => Exited(t)'
  BY EveryLifeStep, LivesKept DEF TypeOK, Threads
<1>2. overlapped => overlapped'
  BY DEF Next, InstallNoEvent, InstallStart, InstallPoll, InstallJoin, RemoveNothing, RemoveExited,
         RemoveNoHandle, RemoveRunning, RemoveSignal, RemoveWait, AfterWait, RemoveEnd,
         ThreadRuns, ThreadFails, ThreadHangs, ThreadGoes, Begins, vars
<1>3. ASSUME returned' = returned, handles' \subseteq handles \cup {created + 1}
      PROVE  RemoveOkMeansGone'
  <2> SUFFICES ASSUME returned.call = "remove", returned.result = "ok", returned.thread # NULL
               PROVE  Exited(returned.thread)' /\ (returned.thread \in handles' => overlapped')
    BY <1>3 DEF RemoveOkMeansGone
  <2>1. returned.thread \in Threads /\ returned.thread # created + 1
    BY <1>1 DEF NULL
  <2>2. Exited(returned.thread) /\ (returned.thread \in handles => overlapped)
    BY DEF RemoveOkMeansGone
  <2> QED BY <1>1, <1>2, <1>3, <2>1, <2>2 DEF Exited
<1>4. ASSUME NEW c \in Callers, NEW name, NEW error, NEW t, Returns(c, name, error, t),
             name # "remove" \/ error # "ok" \/ t = NULL
      PROVE  RemoveOkMeansGone'
  BY <1>4 DEF Returns, RemoveOkMeansGone
<1>5. App \in Callers
  BY DEF Callers
<1>6. CASE InstallNoEvent \/ InstallPoll \/ InstallJoin
  <2>1. CASE returned' = returned
    BY <1>3, <1>6, <2>1 DEF InstallNoEvent, InstallPoll, InstallJoin
  <2>2. CASE returned' # returned
    BY <1>4, <1>5, <1>6, <2>2 DEF InstallNoEvent, InstallPoll, InstallJoin
  <2> QED BY <2>1, <2>2
<1>7. CASE InstallStart
  <2>1. CASE returned' = returned
    BY <1>3, <1>7, <2>1 DEF InstallStart
  <2>2. CASE returned' # returned
    BY <1>4, <1>5, <1>7, <2>2 DEF InstallStart
  <2> QED BY <2>1, <2>2
<1>8. ASSUME NEW c \in Callers, RemoveNothing(c) \/ RemoveExited(c) \/ RemoveNoHandle(c)
      PROVE  RemoveOkMeansGone'
  BY <1>4, <1>8 DEF RemoveNothing, RemoveExited, RemoveNoHandle
<1>9. ASSUME NEW c \in Callers, RemoveRunning(c) PROVE RemoveOkMeansGone'
  BY <1>3, <1>9 DEF RemoveRunning
<1>10. ASSUME NEW c \in Callers, RemoveSignal(c) PROVE RemoveOkMeansGone'
  <2>1. CASE returned' = returned
    BY <1>3, <1>10, <2>1 DEF RemoveSignal
  <2>2. CASE returned' # returned
    BY <1>4, <1>10, <2>2 DEF RemoveSignal
  <2> QED BY <2>1, <2>2
<1>11. ASSUME NEW c \in Callers, RemoveWait(c) PROVE RemoveOkMeansGone'
  <2> DEFINE u == local[c]
  <2>1. /\ Returns(c, "remove", CloseResult(threadSlot, WaitResult(u)), u)
        /\ handles' = handles \ {threadSlot} /\ life' = life /\ overlapped' = overlapped
    BY <1>11 DEF RemoveWait, AfterWait, RemoveEnd
  <2>2. at[c] = "wait" /\ u \in 0 .. created
    BY <1>11 DEF RemoveWait, TypeOK
  <2>3. CASE u = NULL \/ ~Exited(u)
    <3>1. CloseResult(threadSlot, WaitResult(u)) # "ok"
      BY <2>3 DEF CloseResult, WaitResult
    <3> QED BY <1>4, <2>1, <3>1
  <2>4. CASE u # NULL /\ Exited(u)
    <3>1. ~overlapped => u = threadSlot
      BY <2>2 DEF SlotsSound, Removing
    <3>2. returned'.thread = u
      BY <2>1 DEF Returns
    <3> QED BY <2>1, <2>4, <3>1, <3>2 DEF RemoveOkMeansGone, Exited
  <2> QED BY <2>3, <2>4
<1>12. ASSUME NEW t \in Threads, ThreadRuns(t) \/ ThreadFails(t) \/ ThreadHangs(t) PROVE RemoveOkMeansGone'
  BY <1>3, <1>12 DEF ThreadRuns, ThreadFails, ThreadHangs, ThreadGoes
<1>13. CASE UNCHANGED vars
  BY <1>3, <1>13 DEF vars
<1> QED
  BY <1>6, <1>7, <1>8, <1>9, <1>10, <1>11, <1>12, <1>13 DEF Next

\* A Remove that found a callback and returned no error has seen its thread
\* exit, and unless calls overlapped it has closed that thread's handle.
THEOREM RemoveCorrect == ASSUME Reinstalls = FALSE PROVE Spec => []RemoveOkMeansGone
<1>1. Init => RemoveOkMeansGone
  BY DEF Init, RemoveOkMeansGone
<1>2. Sound /\ Sound' /\ RemoveOkMeansGone /\ [Next]_vars => RemoveOkMeansGone'
  BY GoneStep
<1> QED BY <1>1, <1>2, SoundInit, SoundStep, PTL DEF Spec
=============================================================================
