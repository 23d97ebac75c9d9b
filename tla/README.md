# TLA+ verification of the SDM35541 Windows library

This directory holds TLA+ models of the user-mode library in `src/Library` and
of the example programs that use it, the TLC configurations that check them on
small instances, and TLAPS proofs of the results that hold for every value of
the constants. `PROJECT.json` maps every definition to the lines it is
translated from.

## 1. The system

The SDM35541 is a data acquisition board. An application links
`librtd-SDM35541`, which reaches the board through a kernel driver whose source
is not in the repository: every register access, interrupt and DMA operation
is a `DeviceIoControl` on one file handle per board.

| Component | Source | State it keeps | Operations | Modelled by |
|---|---|---|---|---|
| Callback threads (interrupt and DMA) | `librtd-SDM35541_os.c` 512-1221 | per thread: a ring of 16 OVERLAPPED structures with their events, a status word shared with Install, a heap block | queue the ring, wait, call the user, requeue; on termination or failure flush, drain, close, report | `NotifyThread`, `NotifyQueue`, `ThreadLife`, `ThreadLifeSpec` |
| Installing and removing callbacks | `librtd-SDM35541_os.c` 1265-1475, 1785-2012 | per function block (and DMA buffer): the slots `*_terminate_events[]`, `*_thread_handles[]` | Install_Callback, Remove_Callback | `CallbackControl` |
| DMA requests | `librtd-SDM35541_os.c` 880-981, 1493-1777 | none in the library; the driver's request queue and its NOTIFY queue | Request_Transfer, Abort, Flush, Flush_All, Get_Status | `DmaTransfer`, `NotifyQueue` |
| IOCTL access | `librtd-SDM35541_os.c` 118-202 | an event and an OVERLAPPED on the stack per call | `call_ioctl` | `RegisterAccess`; `DmaTransfer` (the path with the caller's OVERLAPPED) |
| Register access | `librtd-SDM35541_board_access.c` 70-291 | none | Read, Write, Modify: one IOCTL each | `RegisterAccess`; the atomic steps of the other modules |
| DMA channel control | `librtd-SDM35541_dma.c` 88-418, 513-714 | the channel's action, last-action, setup and interrupt registers | Start, Stop, Pause, Clear; Setup, its parts, the interrupt configuration | `DmaChannel`; `SetupFields`, `SetupFile`, `RegisterAccess` |
| Interrupt sources | `librtd-SDM35541_adc1002.c` 1936-2180, 4456-4614, `gbc.c` 44-65 | `handle->ints_enabled`, the global `dma_channel_remap[]`, the INT, ALGDIO and DMA registers | Interrupt_Enable, Interrupt_Disable, DMA_Set_Source, ALGDIO_Set_Mask, Board_Reset | `InterruptEnable` |
| DMA status flags | `librtd-SDM35541_dma.c` 718-950, 1072-1250 | per channel: five status registers, set by the board | Find_Interrupt, Check_For_Error, Get_Errors, Clear_Interrupt | `DmaStatus` |
| Settings (ADC, DAC, HSDIN, SyncBus, clocks, gates) | `librtd-SDM35541_adc1002.c` 175-1345, 2089-3769 | about forty registers of 8, 16 and 32 bits | one function per setting; four setups of several; DMA_Set_Source; some thirty commands | `SettingTables`, `BoardSettings` |
| Channel gain table | `librtd-SDM35541_adc1002.c` 2928-2993 | the table and the latch | CGT_Write, CGT_Latch, CGT_Clear, CGT_Create_Entry | `GainTable` |
| Digital I/O | `librtd-SDM35541_adc1002.c` 3813-4135 | three registers behind one select field, and other bits beside it | DIO_* | `DioChip`, `DioFile`, `DioRegisters` |
| User timers | `librtd-SDM35541_adc1002.c` 2201-2542 | the byte pointers and latches of an 8254 | UTC_* | `UserTimer` |
| Clocks | `librtd-SDM35541_adc1002.c` 2610-2873, 3331-3401 | per clock: a frequency and a count register | BCLK/PCLK/DAC_Set_Rate, BCLK_Setup, PCLK_Setup | `ClockRate` |
| DSP and calibration | `librtd-SDM35541_adc1002.c` 4228-4418 | four words of SRAM shared with the DSP, one command register | Calibrate, DSP_Get_Version | `DspMailbox` |
| Temperature sensor | `librtd-SDM35541_adc1002.c` 4618-4743 | the I2C pointer and result registers, shared by all callers | Get_Temp | `TempSensor` |
| Function block discovery | `librtd-SDM35541_gbc.c` 204-400 | the struct of the caller | Function_Block_Open, Function_Block_Open_Module | `FunctionBlock` |
| Board open, close, enumeration | `librtd-SDM35541_board_access.c` 295-415, `os.c` 229-429 | the handle, the file | Open, Close, Enum_Boards | `Boards`; what Close does to callback threads in `NotifyThread` |
| Example programs | `src/Examples` | what they have set up and installed; flags shared with callbacks, a critical section, `exit_program` | set up, main loop, callback, Ctrl-C, Cleanup | `ProgramText`, `Programs`, `DmaStream`, `InterruptApp` |
| Utilities | `librtd-SDM35541_util.c` | none | sleep, error text, sample waves | `check_result` in `Programs`; the rest not modelled |

### How the parts interact

* `Install_Callback` creates the terminate event, stores it in its slot, starts
  the thread with a heap block and polls the block's `status` with `Sleep(0)`
  until it is 1 or 2. The thread owns the block and the event from then on: it
  closes the event and frees the block by itself.
* The thread keeps 16 NOTIFY requests with the driver. The driver answers the
  oldest one when the board interrupts (or a DMA finishes) and signals its
  event; the thread waits for one slot's event at a time, calls the user's
  callback, and queues the slot again.
* `Remove_Callback` sets the terminate event and waits one second for the
  thread; then it closes the thread's handle and clears both slots whatever
  the wait said. A callback may call it, in the thread it would wait for.
* `Board_Close` closes the file while threads may still be running: their
  requests are cancelled and their later IOCTLs fail.
* Any thread of the application may call any register function. Nothing in the
  library takes a lock.
* The example programs have a main thread, which polls a flag, and callbacks,
  which set it in a critical section; Ctrl-C sets `exit_program` in a thread of
  its own; any call that fails runs `Cleanup` and ends the process.

### What is hard here

Concurrency without locks (threads, their owner and the driver share events,
the status word and the slots); a cleanup that must drain exactly what the
driver still has; time-outs after which the other side goes on; registers read
one after the other while the hardware changes them; calls that fail half-way
after memory was changed; boards that come and go while they are enumerated;
flags that are cleared in another place than they are looked at. The full list is
`hazards` in `PROJECT.json`, each at its line.

### What makes each component correct

* Callback thread: the ring order of the waits is the order of the driver's
  answers; every interrupt is told once, with the right count; a set terminate
  event or an error ends the thread, the cleanup does not hang, and no request
  survives the stack frame its OVERLAPPED is in; an error is reported once.
* Install and Remove: a running thread can always be stopped; success of
  Remove means the thread is gone; no handle of a healthy thread is closed;
  every call returns.
* DMA requests: every request the driver took is told to the callback, with
  the exact number still pending.
* DMA channel: success and EBUSY say something true of the hardware.
* Register access: a call that returns 0 has acted once, between its call and
  its return, on its own bits; one that fails, once or never.
* Interrupt sources: what is enabled is what somebody asked for.
* Settings: a setting stays what it was set to, whatever is set or commanded
  beside it; a setup sets all it says; what is accepted is what is documented.
* Digital I/O: the registers behind `DIO_CTRL` look like a file of registers,
  and the functions of other bits of `DIO_STATUS` disturb nobody.
* User timer: Setup loads what it is asked wherever earlier calls stopped; a
  count or a status that is read is one the timer had.
* DSP, temperature: what is told is the answer to this call; what the DSP
  calibrates with is one call's parameters.
* DMA status: what is told is set, and what is passed over was not.
* Clocks: a clock that was set runs at the rate asked for.
* Opening: what is opened is the block or the board that was asked for, and a
  call that fails leaves nothing behind.
* Programs: samples are taken in order, each once, and never while the driver
  may write there; every interrupt is served and none counted twice; sources
  start when everything that takes their samples is ready, as far as the program
  looks at what its calls return; the end undoes what is in force; Ctrl-C ends the
  process.

## 2. Modules

### The library's threads

**`ThreadLife`** gives the life of one callback thread as Install and Remove
see it, one operator per step. **`ThreadLifeSpec`** makes it a specification.
It is the abstract specification of `NotifyThread` and, at the same time, the
description of a thread that `CallbackControl` runs: the refinement
`ImplementsThreadLife` joins the two levels, so the thread's ring does not have
to be in the model of Install and Remove. A thread that could not queue a slot again may
hang in its drain for ever (`Hangs`): to `NotifyThread`, which has the drain in detail, this
is no step, and `CallbackControl` has it as a thread that takes no step any more.

**`NotifyQueue`** is the other abstract specification of a thread: what the driver and
the user's callback see of it. NOTIFY requests wait with the driver, it answers them in
order, and the thread tells the user one answer after the other, each once, and queues
the request again; it stops in good order only with nothing untold. There are no
slots, events or indices in it.

**`NotifyThread`** is one callback thread against the driver's NOTIFY queue.
`pc` names the place in `interrupt_callback_thread` or its core: `create` (638),
`queue` (681), `wait` (524), `fetch` (534), `callback` (550), `requeue` (557),
`flush` (725), `drain` (761), `mark` (779), `close` (786), `report` (824),
`free` (835). `numQueued`, `eventCount`, `result` and `status` are the variables
of those names in the code. `io[s]` is the state of the OVERLAPPED of slot s,
`signalled` the set of its auto-reset events that are set. Every call that can
fail has a failing disjunct; `Faults` chooses which kinds of failure a run
allows, and an IOCTL on a closed file always fails. The surroundings are
`Interrupt`, `Terminate`, `CloseFile`, and `ForeignFlush` (another callback on
the same function block flushes its queue, which the driver shares).
`dma_callback_thread` is the same control flow with another IOCTL, compared
line by line. `Ring` is the refinement to `NotifyQueue`: what the ring's slots hold ahead
of `eventCount`, slot by slot, is the sequence of untold answers. `Work` is a
measure of what the thread has still to do, for `GetsOn`: a step of the thread lowers it,
and only what the driver answers raises it.

**`CallbackControl`** is Install and Remove for one function block. `at[c]` is
where caller c is: the application (0), or a callback in its thread. One action
is one blocking call with the straight-line code after it. `local` is the thread
a wait or poll began with, which is not always the one in the slot when it ends.
`Junk` is what the status word may read as once the thread has freed the block: in the
run 0 to 3, every value that Install tells apart. With 0 Install may poll for ever
(`PollsFreed`).

### DMA

**`DmaTransfer`** is the path of a DMA request through the driver's request
queue and NOTIFY queue to the callback, and the path of `wait = TRUE` into
`call_ioctl`. The thread's ring is here the sequence of answered slots, in order.
What justifies that is `NotifyQueue`: the ring of `NotifyThread` implements it, and so do
the NOTIFY requests of this module (`Notifying`), so that both are about the same queue.

**`DmaChannel`** is the handshake of Start, Stop, Pause and Clear with the DMA
controller, one action per register access. `data8` and `loops` are the locals
of those names in the code (`access.data.data8`, `loop_count`). Stop and Pause
are Start with another action value; Clear adds the readback and the rewrite.
`settled` and `others` are histories of the call in progress.

**`MCDma`** puts the two side by side: they share no state.

### Register accesses

**`RegisterAccess`** takes one access apart: from a function of the DMA library
through `SDM35541_Modify` or `_Read` to `call_ioctl`, one action per call of the
operating system, any of which may fail, and the driver's steps. Its abstract
specification is **`SetupFile`**: a register whose fields are read and set in
one instant between call and return. A call whose wait fails leaves its request
behind (`strays`), which may act later; a call may also fail, when its event
cannot be closed, after it has acted. **`SetupFields`** has what both
share: which bits each function is about, put together from the masks of
`SDM35541_Dma_Setup`, its parts and the interrupt configuration. The other
modules take an access as one step that works, or fails and does nothing: by
`ImplementsSetup` that is right of every failure but those two.

**`InterruptEnable`** is the three places where an interrupt source is enabled,
and the functions that change them, one action per access to a register or to
unlocked memory.

**`SettingTables`** has, for every setting of the board, its register, the values
that its validator accepts and the values of its enumeration in the header.
**`BoardSettings`** runs the functions: each access overwrites as many bytes as
it is wide, so that the registers lie in one address space and a setting can be
lost to a neighbour's write; setups are sequences of such writes with the
status each function makes of their results. `Calls` is the set of calls an
application may make: any, for the proofs; a covering one for TLC.

**`GainTable`** packs entries into words as `CGT_Create_Entry` does, and
unpacks them as the board does.

**`DioRegisters`** is the two-step access to the DIO registers, one action per
IOCTL; `Modify` is the driver's read-modify-write of `DIO_STATUS` under a mask.
**`DioFile`** is its abstract specification: a call takes effect at one instant
on its own register, unless another call has begun since it did. **`DioChip`**
has what both share, the registers and what an access does to them.

**`UserTimer`** is one 8254 counter behind byte-wide accesses. `Accesses` is the
sequence of accesses of each call, `Effect` what each does to the chip, `step`
where a call is. `inStep` is the history of whether the byte pointers can be out
of step with the calls.

**`DspMailbox`** is Calibrate and DSP_Get_Version against a DSP that works while
they go on. The completion byte is the board's, and is as the header
(`SDM35541_adc1002_library.h`, 6074) has it and the program Calibrate waits for it:
zero once the command is done. Get_Version has it the other way round, takes a nonzero
byte for completion, and so tells what it finds in the SRAM while the DSP still works.
Nothing is therefore proved or checked of what it tells; `dsp_version` shows the violation.

**`TempSensor`** is Get_Temp as a `Script` of accesses with two loops, against a
sensor that takes its time and is shared.

**`DmaStatus`** is the functions that read the five status registers of each
channel in pieces, or clear them, while the board sets them. `fresh` is the
history of what was set since the call began.

**`ClockRate`** is one of three clocks: the writes of a call in order, with the
checks, the integer arithmetic and the register widths before the last.

**`FunctionBlock`** is Function_Block_Open and _Open_Module. `from` is, for each
field of the caller's struct, the entry of the board's table it was read from:
what the properties need to know of a struct is whether it is all of one entry.

**`Boards`** is Board_Open with the enumeration of the registry, and Board_Close,
one action per call of the operating system, while boards are plugged in and
taken out. `wasAt` is the history of the boards an index has meant since the
call began.

**`MCRegisters`** puts these parts side by side for TLC. They share no register
and no memory of the library, and a call is about one of them, so a behaviour of
the board is an interleaving of behaviours of the parts, and an invariant
of one part holds in every interleaving if it holds of the part alone. The
module therefore starts one part, `part`, per behaviour and checks all of them
in one run. `BoardIsItsParts` (section 5) proves the easy half of this, that a
behaviour of the module is one of each part. The parts' constants are the
module's, with their assumptions, and `registers.cfg` gives their values.

### The example programs

**`ProgramText`** has, for each program, its library calls in order: up to the
main loop, the rest, and `Cleanup`. **`Programs`** runs one text; any call may
fail, and `inForce` is the set of calls whose effect has not been undone. A failure that
the program sees ends it, through Cleanup or at once (`Fails`); `Unchecked` lists the calls
whose results it does not look at, because the result is not stored or the next check is
of another, and after these it goes on (`Ignores`, `ignored`). What the proofs
need of the texts is stated in `MCPrograms` as closed assumptions that TLC evaluates:
`Course` is a program's calls when none fails and `Standing` that an earlier call
of it has not been undone; `TextAssumption` (no part is missing), `OpenAssumption` (the
board is open where a call needs it, and closed last), `ClockLastAssumption` (sources of
samples start last), `EndAssumption` and `CleanupAssumption` (what was set up is undone,
by the rest and by `Cleanup`), `UncheckedAssumption` (a call that is not looked at undoes
nothing). That nothing is missing when a clock starts is false of the code
(`NothingIsMissed`, run `setup_ignored`); what is checked and proved is that nothing is
missing but what failed unseen (`OnlyIgnoredIsMissed`): the failures that a program does see
keep the clock from being started, and the order of its calls is right.

**`DmaStream`** is the five programs that stream by DMA, from the moment the
board samples: the main thread, a callback thread per buffer, flags, the critical
section, Ctrl-C, Cleanup. The differences between the programs are operators
of their own (`Direct`, `Endless`, `ClearsLate`, ...). Data is counted in chunks
of a buffer; `memory` says which chunk is at which place, `output` which chunks
the program has taken. `DataFits` is about where the driver's requests write; `HsdinDma`
copies from its local buffers into its own array without a look at the room left there,
about which nothing is claimed (section 4).

**`InterruptApp`** is the seven programs that wait for interrupts or poll for
them, in the same way. `events` and `counted` are how often the source was
raised and how often the program has counted it.

Both assume of the library what `NotifyThread` and `DmaTransfer` show: each
interrupt and each finished request is told once, to the callback of its
buffer; a thread that fails tells that, unless it hangs (section 4, 1), which is left
out here.

**`MCPrograms`** puts the three side by side as `MCRegisters` does; the values are in
`programs.cfg`.

**`MC...`** modules give the constants their values. **`..._proofs`** modules
hold the theorems.

## 3. Runs

| Run | Shows | Bounds |
|---|---|---|
| `notify_ring` | all properties of the thread with every fault but a failing requeue and a failing flush: it waits in the driver's order and never sleeps on an answer (`OneWaitIsEnough`), counts right, drains, ends, reports its error (`StartsAndStops`), takes boundedly many steps of its own (`GetsOn`), and implements `ThreadLife` and `NotifyQueue` | 3 slots and 5 interrupts: the ring wraps, and the driver runs out of requests |
| `notify_requeue_hang` (violation) | after a failed requeue the drain waits for an event nobody sets | 2 slots |
| `control` | Install and Remove by an application and by a callback that removes itself, with threads that fail or hang: what holds while calls do not overlap, and what holds always | 3 threads in all: a time-out of Remove leaves an old thread beside a new one, twice; thread 2's callback calls Remove |
| `control_join_handle`, `control_notified` (violations) | the wrong handle closed; the freed status word read | 1 thread |
| `dma` | what success and EBUSY of the DMA functions mean (`SuccessIsTrue`, `BusyMeansNotTaken`); requests are told, with the exact count (`RequestsAreTold`), once and in order (`ToldInOrder`), as `NotifyQueue` has it; calls return | channel: 2 callers, 1 iteration of the loop (the code has 10), the controller halts once by itself, every access may fail. Requests: 4 notifications, 3 requests queued and going, 6 in all: the ring wraps |
| `dsp_version` (violation) | DSP_Get_Version returns 0 with what the SRAM held before, while the DSP still executes its command | 1 caller, no failing access |
| `registers` | what the register functions tell and leave, what opening opens, and that one access is an atomic one | below |
| `programs` | what the programs do with the data, the interrupts, the order of calls, Ctrl-C and failing calls; that none sleeps on what it was told of (`NothingUnnoticed`) | 2 buffers; 3 chunks wanted and 4 sampled (2 and 3 with two streams), so that the buffers wrap; 1 call or thread fails (none with two streams). Interrupts: 3, of which 2 are waited for. Texts: 2 calls that are seen to fail, of which the second may be in Cleanup, and any number that fail unseen |
| `setup_ignored` (violation) | a program starts the clock though the setup of its DMA channel has failed | no other failing call |
| `simul_wakeup` (violation) | `AdcHsdinSimul` waits for ever for a flag it has cleared | 2 chunks |
| `simul_recursion` (violation) | Cleanup and Fail call each other without end | 1 failing call |

The parts of `registers` have two callers (the status flags, the blocks and the
gain table: one), and every access may fail.

| Part | Bounds |
|---|---|
| digital I/O | 2 values, 1 bit beside the select field |
| interrupt sources | 2 sources, 2 FIFOs, 2 masks (one of a source, one of everything), 3 calls: two overlap and one follows |
| settings | every setting, command and setup; each function with the last value of its enumeration and the one after it, in each place of a setup; 2 calls: each pair of calls, in any order and interleaved |
| gain table | entries with one field at its limit, and with all; 2 entries |
| timer | bytes of 2 values, so that divisors 1 and 2 exchange their bytes; 2 modes; 1 setter, 1 reader |
| DSP | 2 polls (the code has 35) |
| status flags | 2 channels, 1 flag of each word |
| clocks | a rate below and one above each lower limit (200 and 246 half hertz, 1 and 2), and for the DAC 0 and 16 MHz |
| function blocks | 3 entries (the code has 62) of 2 types or none, one of which may contradict its block; 2 calls with one struct |
| one access | 5 asks whose bits overlap in pairs, 3 calls |
| boards | 2 boards, 2 entries (the code has 50), 2 changes of the registry, 2 openings |

The bounds are the smallest at which each hazard occurs; where a property does
not depend on them for a reason one can state, section 5 proves it for all.

Deadlock is checked in `notify_ring`, `control*` and `dsp_version`. It is off in `dma`,
where a waiting request ends the program, in `registers`, where a division by
zero ends the process and calls are bounded, in `programs`, `setup_ignored` and `simul_*`,
whose programs end, and in `notify_requeue_hang`, whose thread does hang.
`registers` uses symmetry over the two callers and the two boards; its
properties are invariants and properties of steps, for which that is sound.

### Fairness

* `NotifyThread`: the thread takes a step when it can (it is scheduled, and its
  waits end when an event is set). Nothing is assumed of the board, of the
  application or of the file. `StartsAndStops` relies on interrupts being
  finitely many: while one slot after the other is signalled, the wait prefers
  them to the terminate event, which has the higher index.
* `CallbackControl`: a call that has begun goes on, and threads are scheduled.
  No thread must fail and nobody must begin a call. What the code does not give is not
  assumed: an Install that polls a freed block need not ever read anything but 0, and
  a thread that has failed after it was ready may hang in its drain instead of going
  on to its end. `EverythingEnds` names the two as its exceptions: every other call
  returns, also a Remove that waits for a hanging thread, and every other thread
  that was told to stop exits.
* `DmaChannel`: a call goes on; the controller may never act.
* `DmaTransfer`: the thread runs, callbacks return, and the board works its
  requests off. A waiting call has crashed the program: then nothing happens any more.
* `DmaStream`, `InterruptApp`: the main thread and each callback thread are
  scheduled; Remove ends a thread that waits. Nothing is assumed of the board,
  but in `simul_wakeup`, where it keeps sampling.
* `Programs`: every call returns.

## 4. Where code and documentation disagree

Each is a run that must find a violation; `findings` in `PROJECT.json` has the
details and the quoted lines.

1. A failed requeue makes the cleanup of a callback thread wait for ever for
   the event the wait has just reset (`os.c` 570, 764).
2. Install, when its thread fails, closes the handle in the slot, not the
   thread's, and returns another error (`os.c` 1369).
3. Install may read the status word after the thread has freed it, and take the failure
   for another, or poll for ever (`os.c` 1351).
4. `AdcHsdinSimul` clears its flags once more after it has handled them, and
   forgets a callback that came in between (`AdcHsdinSimul.cpp` 282).
5. The Cleanup of `AdcDacSimul` and `AdcHsdinSimul` calls Fail, which calls
   Cleanup; when the function block is not open they do not end
   (`AdcDacSimul.cpp` 240).
6. DSP_Get_Version takes the completion byte of the DSP the other way round than the header
   and the program Calibrate (`adc1002.c` 4342).
7. Three programs do not store the result of Dma_Setup and check a stale one, and start
   their clock although the setup has failed (`AdcDma.cpp` 203); two do so with the
   installation of a callback.

More behaviours are recorded as hazards without a run, among them: `call_ioctl`
clears the pointer to the OVERLAPPED, not the structure, so a DMA request with
`wait = TRUE` crashes (`os.c` 145; a step of `DmaTransfer`); Interrupt_Enable and
Interrupt_Disable overwrite the ALGDIO mask register for every source
(`adc1002.c` 4612; a step of `InterruptEnable`); `HsdinDma` takes all buffers that
are filled without looking at the room left in its array (`HsdinDma.cpp` 307); a
callback whose Remove times out clears the slots of a callback installed meanwhile;
installing over an installed callback loses its terminate event; a clock rate
below 1 Hz may divide by zero; BCLK_Setup returns the result of its last write
only. Where such a behaviour would make a property false, the
property says so in its premise: `HandlesAreSound` is about
applications whose calls have not overlapped (`overlapped`), and is false with
`Reinstalls` TRUE.

## 5. What is proved

TLAPS checks the following for every value of the constants that satisfies the
named assumptions in the modules. Where a run checks several parts as one
product, a part's theorems are about its own specification first; that a
behaviour of the product is a behaviour of each part is a theorem too
(`BoardIsItsParts`, `DmaIsBoth`, `ProgramsAreTheirParts`), and carries them to the
product the run checks.

**`NotifyThread_proofs`** (any depth of the ring, any faults unless said
otherwise): `TypeCorrect`; `RingCorrect`, `Spec => []OneWaitIsEnough`; `CountsCorrect`,
`[]CountsAddUp`; `DrainCorrect`, `[]DrainNeverHangs` when no requeue fails;
`NothingOutlives`, `[]NoRequestOutlivesThread` when no flush of an open file
fails; `ThreadGetsOn`, `GetsOn`; `LifeRefined`, `Spec => ImplementsThreadLife`;
`RingRefined`, `Spec => ImplementsNotifyQueue`. The order of the ring alone is not
inductive: the invariant `RingInv` also says which slots the driver holds (each once,
exactly those that are `pending`), which slots are answered but not yet served
(signalled, and nearer to `eventCount` than every queued one), and what is left
of that at each place of the cleanup. That the thread never sleeps on an untold answer
follows: the nearest slot that the driver does not hold is the one it waits for.
The drain loop does not hang because each
slot it waits for was answered and not consumed, cancelled by the flush, or set
again after a failed fetch. For the counts, `Ledger` adds up what was told, what
lies answered in the slots ahead of `eventCount` in ring order, and what the
driver has. `ThreadGetsOn` is the part of termination that needs no fairness: its measure
`Work` is a natural number which each step of the thread lowers, also on every path of an
error, so that the thread can go on for ever only if interrupts do.
For `NotifyQueue` the invariant `NotifyInv` adds to `RingInv` that the untold answers, as
`Ring` reads them off the slots, are those at the distances 0, 1, ... from `eventCount`
(`AnswersByDistance`) and that none of them is `Nothing` (`CountsPositive`); then
each answer of the driver appends, each fetch takes the head, and every other step of
the ring is a stutter.

**`CallbackControl_proofs`** (any number of threads, any removers): `TypeCorrect`;
`HandlesCorrect` and `RemoveCorrect` (`[]HandlesAreSound`, `[]RemoveOkMeansGone`) when
the application does not install over an installed callback. The invariant, `SlotsSound` and `Linked`, ties each
place of Install and Remove to the slots: which thread a caller's `local` is,
that the two slots name one thread, and that its handle is open until that
caller closes it. What it says of the slots holds until calls overlap; what a
successful wait has seen holds always.

**`Dma_proofs`**, the channel (any callers, loops and halts): `ChannelTypeCorrect`,
`SuccessIsTaken`, `SuccessIsAskedOrHalted`, `BusyIsNotTaken`. The invariant is
about what a call knows: if the value it has read and the last-action register
agree now, then both registers agreed at an instant of the call; while only the
call itself has written, the action is still the intended one. They rest on
`CallersAssumption` (the controller is no caller). The requests (any depth, queue
length and number of requests): `TransferTypeCorrect`; `PendingCorrect`,
`[]PendingIsExact`; `NothingLost`, `[]NoRequestLost` when `Window < Depth`. The
invariant: the thread's notifications are with the driver, answered, or in the
callback; the driver's queue holds the latest requests in order; the
application counts every request that is queued or answered. The premise is
needed: in the library both numbers are 16, and with `Window = Depth` a request
that finishes during a callback is lost. `ToldOnceInOrder`, `ToldInOrder`, needs no such
premise: what was told, what lies answered and what the driver has are three ascending
pieces of the requests' numbers, each behind the one before (`IdsInOrder`), and a lost
request only leaves a gap. `TransferRefined`, `TransferSpec => ImplementsNotifyQueue`: the
NOTIFY requests are used as the ring of `NotifyThread` gives them. Both together, as
`dma` runs them: `DmaIsBoth`, `DmaSpec => Spec /\ TransferSpec`, and so `PartsTyped`,
`DmaRequestsTold` (`[]RequestsAreTold`, when `Window < Depth`), `DmaSuccess`
(`SuccessIsTrue`), `DmaBusy`, `DmaToldInOrder` and `DmaNotifies`.

**`InterruptEnable_proofs`** (any threads, sources, masks and FIFOs):
`EnableTypeCorrect`; `EnabledWasAsked`, `[]NothingUnasked`; `EnableIsExact`,
`[]EnabledIsExact` (the INT register, and the DMA channel's interrupts). For the first
the invariant `Asked` says that the handle's copy, every caller's local copy and
the register hold only sources that were asked for, so that losing an update or
restoring one adds none. For the second `Exact` follows the one call that no
other overlaps: what it has read, written and returned so far is what the
handle held when it began, with its mask.

**`BoardSettings_proofs`** (any callers and calls, every setting of the board):
`SettingsTyped`; `SettingsAreHeld`, `[]SettingsHold`; `SetupsAreWhole`,
`[](SetupIsWhole /\ AcceptsDocumented)`. Accesses overwrite as many bytes as they
are wide, so the proof first shows from the tables that no access reaches the
register of another setting. The invariant then follows each call while it is
alone: the settings it has written so far hold its values, and its status is
good only if it has written them all.

**`BoardAccess_proofs`** is how a register of the right board comes to be
accessed.

* `Boards` (any boards, callers and entries): `BoardsTypeCorrect`; `HandlesOfIndexes`,
  `[]HandleIsOfIndex`; `NothingStays`, `[]NothingIsLeft`. The invariant gives, for each
  place of Board_Open, the file and the memory the call holds, and that two open
  files are of two boards.
* `FunctionBlock` (every table of the board, also those that contradict
  themselves): `BlockTypeCorrect`; `BlockFound`, `[]BlockIsSought`; `AreasCorrect`,
  `[]AreasAreDisjoint`.
* `RegisterAccess` (any callers and asks): `AccessTypeCorrect`;
  `AccessImplementsSetup`, `AccessSpec => ImplementsSetup`. The invariant ties the
  request to the place of its call, and a completed request to what it has
  read; each call of the operating system is then a stutter, the driver's step
  the access, and a failed wait the step that leaves the request behind.
* `DioRegisters` (any threads, values and bits): `DioTypeCorrect`;
  `FileImplemented`, `Spec => ImplementsFile`. The invariant is that a call that
  nobody has disturbed has its own register selected; the proof is then that
  each IOCTL is a step of `DioFile` or a stutter, which for the bits of
  `DIO_STATUS` rests on the masks being disjoint (`FlagsAssumption`).

**`BoardParts_proofs`** has the small parts, and the board.

* The timer, the DSP, the sensor, the status flags, the clocks and the gain
  table, each for any callers and its own constants (`MCRegisters` names the
  assumptions: bytes of any size, any modes and divisors, any number of polls,
  of channels and of entries). The timer's proof is that a count is put together
  from the two bytes the chip gave when it was latched, as long as no call has
  left a byte pointer out of step; the DSP's, that the SRAM holds what a call that is
  alone has written so far (of what DSP_Get_Version tells nothing is proved, see section
  4); the sensor's, that from its one-shot on the conversion
  that an undisturbed call waits for, or has seen end, is its own; the flags',
  that what the call has not seen of a status word was set after it began.
* `WholeRatesFit`, about the arithmetic alone: a rate in whole hertz that the check
  accepts gives a divisor that fits the register and is not zero. `RateSet`,
  `Clock!Spec => [](Clock!TypeOK /\ Clock!RateIsSet)`: the invariant follows a call
  that no other overlaps; from its second access on the frequency register
  holds what it wrote.
* `BoardIsItsParts`, `BoardSpec` implies the specification of every part; and so,
  for the board that `registers` runs: `PartsTyped`, `ReadsTrue`, `WritesEffective`,
  `SetupsSound`, `OpensRight` (the invariants `PartsTypeOK`, `ReadsAreTrue`,
  `WritesTakeEffect`, `SetupsAreSound`, `OpensWhatWasAsked`), `CalibrationAsAsked`
  (`CalibratesAsAsked`), `BoardHolds` (`NothingUnasked`, `EnabledIsExact`, `SettingsHold`)
  and `BoardImplements` (the refinements `ImplementsFile` and `ImplementsSetup`).

**`ProgramParts_proofs`** has the example programs.

* `DmaStream` (any number of buffers, any amounts and faults): `StreamTyped`;
  `DataSound`, `[]DataIsSound`. The invariant `StreamInv`, while no callback thread
  has failed and for streams that lost no chunk: each buffer is with the driver, or its callback is due, or it is
  filled (`Apart`); and of the `NumBuffers` chunks that follow those the program
  has taken, the sampled ones are in their place, with no request that could
  overwrite them, and the others are awaited (`Sorted`). That a buffer is not
  requested again before its chunk is taken is what makes it inductive.
  `AmountAssumption` is that a program whose requests go to the data itself wants
  at least one chunk for each buffer: the board has 7, and the programs want
  10, 16 and 8. `DataNoticed`, `[]ReportedIsNoticed`, the safety half of `ReportedIsTaken`:
  when main looks at the flag again and the buffer it takes next is filled, the flag
  is set. It is inductive once it says that such a program has one stream
  (`NoticeInv`): main clears the flag only when that buffer is not filled, and a callback
  sets both in one section.
* `InterruptApp` (any goal, events and faults): `Waits`, its types and `CountedOnce`.
  Of the events, one may be in the register and not yet counted: it is counted
  when the register is read, and cleared by a later access.
  A program that ignores the failure of that read goes on with a status it has never
  read; from then on nothing is claimed (`guessed`). `InterruptsNoticed`,
  `[]RaisedIsNoticed`, the safety half of `RaisedIsServed`: outside the part of the loop
  that clears the flag and then the register, an interrupt in the register has set the
  flag or has its callback to come (`WakeInv`).
* `Programs`, for any number of failing calls, seen or not: `CallsTyped`; `CallsInOrder`,
  `[](OnlyIgnoredIsMissed /\ EndsClean)`. The assumptions on the texts are about the course of
  calls when none fails. The invariant `CallsInv` carries them to every run: before
  `Cleanup`, what is in force stands on the course at this place, and what stands there is
  in force or has failed unseen; in a `Cleanup` after one failure that was seen, the calls
  that remain undo everything that is in force, and the board is open as long as anything
  is.
* `ProgramsAreTheirParts`, `ProgramsSpec` implies the specification of each; and so,
  for what `programs` runs: `PartsTyped`, `DataIsAlwaysSound`, `AllCountedOnce`,
  `CallsAlwaysOrdered`, `NothingMissed` (`NothingUnnoticed`).

### Only model-checked

* Liveness (`StartsAndStops`, `DeliversAll`, `EverythingEnds`, `EverythingIsAnswered`,
  `ReportedIsTaken`, `RaisedIsServed`, `ProgramsEnd`), which rests on fairness and ENABLED,
  is out of the prover's reach. For three of them the safety part that carries them is
  proved: `GetsOn` and `DrainNeverHangs` for the thread's termination, `NothingUnnoticed`
  for the programs' main loops.
* The assumptions on the programs' texts are closed facts that TLC evaluates, text by
  text; the proofs use them as assumptions.
* What the violation runs find.

## 6. What the models assume, and leave out

* The driver is external. It is modelled from `SDM35541_Interface.h` and from
  how the library uses it: NOTIFY requests are answered oldest first, a finished
  request that finds none notifies nobody, `OP_CLEAR_QUEUE` cancels all
  notifications of the function block, a flush answers each flushed request.
* One board, one function block, one DMA buffer in the models of the library's
  threads. `dma_channel_remap` is shared by all boards in the code;
  `InterruptEnable` has one. `INT_DMA_1` is `INT_DMA_0` over other constants.
* Handle values are not reused, so closing a wrong handle fails and harms no
  other object.
* `Faults` of `notify_ring` leaves out the failing flush: the property
  `NoRequestOutlivesThread` does not hold with it, as the hazard list says.
* A board reset clears the interrupt and DMA registers and no memory.
* A read-modify-write of a register is one step of the driver. A reset of the
  DIO chip zeroes its registers.
* A register access that fails has done nothing. `RegisterAccess` shows when
  that is not so: after a failed wait for the event, or a failure to close it.
* The 8254 is as its data sheet says: a read pointer and a write pointer, a
  second latch command is ignored until the first is read, a status latch is
  read before a count. A value of a byte stands for 256 by 2 of them.
* A command of the DSP is done when the DSP ends it, and a new command replaces
  the old one. An I2C access that fails may have reached the sensor.
* The count register of the pacer clock keeps 24 bits, as PCLK_Read masks it;
  the DAC's keeps 32. Rounding of a rate to `float` is left out.
* A device's file is exclusive, and a board whose file is open is not taken out
  of the machine. `Board_Open` is called with an index below the size of
  `devinfo`, which it does not check.
* The programs' DMA sources are not told apart but in `AdcHsdinSimul`; the
  critical section is a lock, whose use after its deletion hangs or goes on.
* Parameter checks and failing `malloc` change no state and are left out, where
  no property is about them.
* The second interrupt status read, time stamps, sample values and all other
  payload are left out.

Not modelled: the read-only functions without a sequence of accesses
(`DMA_Get_Status`, `Dma_Status`, `Get_Fifo_Counts`, board information), the buffer
descriptors of the DMA channels, which are single writes; error texts
(`SDM35541_Get_Error_Msg`, `get_error_from_ioctl`); the sample waves and the
sleep of `librtd-SDM35541_util.c`; the printing of the programs; and the run of `DacDma`,
which only waits for Ctrl-C while the driver works its requests off.

## 7. What could come next

1. Several boards that share `dma_channel_remap`, in `InterruptEnable`.
2. DMA_Get_Status beside requests that finish while it runs, in `DmaTransfer`.
3. The liveness properties from `GetsOn` and `NothingUnnoticed`, with a prover that has
   rules for fairness.
