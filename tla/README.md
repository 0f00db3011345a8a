# VICE68kRGB: a TLA+ model

This directory specifies parts of VICE68kRGB, an Amiga (m68k) fork of the
emulator VICE 3.1. The emulator's sources are in `src/src`; a path such as
`ahi.c:589` below is `src/src/arch/amigaos/ahi.c`, line 589. The modules are
translated from the code. Each definition is matched with the lines it stands
for in `PROJECT.json` (`map`).

Seven subsystems are modelled. They are the ones whose correctness depends on
the order of events rather than on a computation:

1. the AHI sound backend, where two Exec tasks and a device share a ring;
2. the suspension of the sound and the hard pause, where `sound.c`, the AHI
   backend, the menus, the trap slot and the frame loop change each other's
   state;
3. the alarms of a CPU and the guard that keeps its 32-bit clock from
   overflowing, on which every chip of every machine is built;
4. the interrupt lines and the CPU that looks at them between two opcodes;
5. the clocks of the disk drives, which follow the main CPU's in bursts;
6. the event history, which records inputs and plays them again;
7. network play, where two processes run two machines in lock step.

## Inventory

| Component | State | Operations | Hard about it | Correct when |
|---|---|---|---|---|
| AHI backend (`arch/amigaos/ahi.c`, `sounddrv/soundahi.c`) | `audio_t`: ring of fragments with `used` flags, read and write positions, `play`, `shutting_down`; two chained I/O requests; `frf_ahi_pause_reopen` | open, close, play_samples, samples_free, pause, continue, release, resume; the audio task's loop | two tasks, a device, signals that merge, a bounded wait, abort, forced restart | the device's fragment is not written; requests are sent once and come back; samples are heard once and in order; calls return |
| Sound layer (`sound.c`) | `snddata`: `playdev`, `issuspended`, buffer; `playback_enabled`, `sound_state_changed`, `warp_mode_enabled` | open, close, run, flush, suspend, resume, set_warp_mode, set resources | each call may close the device its caller goes on to use; suspended and resumed by many callers | flags of both layers agree; a running ring is never found empty; SID state survives a pause |
| Amiga UI, pause, frame advance (`arch/amigaos/ui.c`, `vsyncapi.c`) | `is_paused`, `pause_pending` | menu items, `ui_pause_emulation`, `pause_trap`, `vsyncarch_advance_frame`, `postsync` | the menus work inside the trap too | who pauses gets a stopped machine with AHI released, and gets AHI back |
| Frame loop (`vsync.c`) | frame times, counters | `vsync_do_vsync`, `vsync_suspend_speed_eval` | order of UI, flush and postsync | see above |
| Interrupt lines and traps (`interrupt.c`, `interrupt.h`) | IRQ/NMI counters and clocks, `trap_func`, DMA and stolen cycles | set_irq, set_nmi, ack, trigger_trap, do_trap, time_warp | one trap slot; delays; saturating time warp | counters and mask follow the lines; one NMI for an edge; no interrupt without a cause |
| Alarm contexts (`alarm.c`, `alarm.h`) | `pending_alarms[]`, `num_pending_alarms`, cached next tick and index, each alarm's `pending_idx` | set, unset, dispatch, update_next, time_warp | swap with the last on removal, cached minimum, wrapped clocks, callbacks that set alarms | each alarm is called on time, once, whatever the guard does |
| Clock guard (`clkguard.c`) | maximum, base, list of callbacks | prevent_overflow, clock_sub | subtracts from every clock at once | invisible to whoever uses the clock |
| CPU cores (`6510core.c`, `mainc64cpu.c`, `65816core.c`) | registers, clock | PROCESS_ALARMS, instructions, interrupts, traps | alarms before interrupts before instructions | no instruction starts with an alarm due |
| Drive CPUs (`drive/*.c`) | own clock, own guard, stop clock, sync factor | execute, clk_update, prevent_clk_overflow | two clocks reduced by two guards at different times | the drive has run as long as the main CPU |
| IEC bus, serial devices (`iecbus`, `serial`) | bus lines, the device's state and time-outs | listen, talk, EOI handshakes | timing and ATN at any moment | no byte is lost or sent twice |
| I/O chip cores (`core/cia*.c`, `viacore.c`, `riotcore.c`, `tpicore.c`) | timers, ports, interrupt flags | store, read, timer alarms | an alarm and an access in the same cycle | interrupt at the right cycle |
| Storage chips (`flash040core.c`, `ser-eeprom.c`, `m93c86.c`, `spi-sdcard.c`, `ata.c`) | command state, memory, dirty flag | command sequences, erase alarm | long sequences; an erase suspended by its alarm | the data sheet's state machine |
| Network play (`network.c`, `socket.c`) | mode, two sockets, ring of event lists, frame delta, `suspended` | start server, connect client, suspend, hook, disconnect | two machines in lock step, late data, loss | both execute the same events in the same frame |
| Event history (`event.c`) | list of events, current event, event alarm, milestone, two snapshot files | record in four modes, playback, milestones by traps | a trap runs later than it was asked for; resets and the guard renumber the clocks | a playback repeats the recording, and stops with it |
| Snapshots (`snapshot.c`) | file modules | read, write | host files | what is read is what was written |
| Autostart (`autostart.c`) | mode, deadlines | advance, attach, reset | waits for a screen, with time-outs | reaches "done" or gives up |
| Datasette (`datasette.c`, `tape/`) | mode, motor, counter, next pulse | control, motor, read alarm | mode changes while a pulse is on its way | each pulse once, the motor stops |
| Disk images, vdrive (`vdrive/`, `diskimage/`) | BAM, buffers, channels | allocate, open, read, write | a full disk in the middle of a write | a block belongs to one file |
| Keyboard buffer (`kbdbuf.c`), keyboard, joysticks | queue, matrix | feed, flush | a queue fed into the machine's memory | in order, nothing lost |
| Attachment and fliplist (`attach.c`, `fliplist.c`) | images, circular list | attach, add, remove, next | the last element is removed | the current entry stays in the list |
| Video chips, SID engines, file system device, resources, monitor, cartridges, other ports, tools | | | computation, tables, host I/O | not a subject for a model checker |

Interactions: chips set alarms in the context of their CPU. The CPU core
dispatches them, then takes interrupts and traps. At the end of a frame the
raster alarm calls the guard and `vsync_do_vsync`, which handles the UI's
messages (these may suspend the sound, pause, change resources), flushes the
sound to the backend and calls `postsync`; its hook exchanges the events of network
play, lets the drives catch up and calls the guards. The audio task empties the ring.
Events of the history are alarms of the main CPU; recordings, playbacks, milestones and
network sessions begin and end in traps.

`PROJECT.json` lists the hazards of this code, each at its line, with the
properties that would catch it.

## Modules

| Module | Models |
|---|---|
| `AhiRing` | `ahi.c`: the emulator's calls, the audio task and the device |
| `AudioStream` | what the backend promises: a first-in first-out stream |
| `AlarmContext` | `alarm.c`, `alarm.h`, `clkguard.c`, PROCESS_ALARMS of `6510core.c` |
| `Timers` | what they promise together: timers on a clock without end |
| `SoundPause` | `sound.c`, the release and resume of `ahi.c`, the pause of `ui.c` and `vsyncapi.c`, the frame of `vsync.c`, the trap slot of `interrupt.c` |
| `InterruptLines` | `interrupt.h`, `interrupt.c`, the interrupt logic of `6510core.c` and its delays |
| `DriveClock` | the clocks of `drivecpu.c`, `drive.c` and `drive-overflow.c` |
| `EventHistory` | `event.c`, with the reset of `machine.c` and the trap slot |
| `NetPlay` | both processes of `network.c` and their sockets |
| `LockStep` | what network play promises: the same events in the same frame |
| `LeastNumber` | least element of a set of numbers and what follows from it: induction up to a number, recursion along a list; for the proofs |
| `AhiRingProofs`, `SoundPauseProofs`, `GuardedClocksProofs`, `HistoryProofs`, `PlaybackProofs`, `LockStepProofs`, `NetPlayProofs` | theorems |
| `MCAhiRing`, `MCAlarmContext`, `MCSoundPause`, `MCNetPlay`, `MCEventHistory` | instances for TLC |
| `MCGuardedClocks` | an instance that has four users of the clock guard side by side |

Operators named `X_something` after a definition `X`, with a comment that
begins with "Fault:", are plausible bugs in the code of `X`. They are used
nowhere: they are there to be put in the place of `X`, which shows that a
property depends on it (`mutants` in `PROJECT.json`).

### AhiRing

The emulator's task is at `mpc`, the audio task at `tpc`. Everything between
ObtainSemaphore and ReleaseSemaphore is one action; every Exec call outside of
it is another. Signals are sets of bits, so that a signal sent twice is one
signal, and `Wait` takes those it waits for. A fragment holds a sequence of
tags instead of samples. The two `AHIRequest`s have the state Exec and the
device see: idle, busy, aborting, done; `after` is `ahir_Link`. `link = 0` is
the NULL of a forced restart (`ahi.c:217`). The task's stale signal bit after a
restart is modelled: the reply is never taken from the port, so its bit stays.

`ahi_play_samples` checks the capacity under one hold of the semaphore and
copies under others, as the code does; a DOWAIT write gives up after
`WaitLoops` attempts, a NOWAIT write fails at once. `loops` counts them and is -1
for a NOWAIT write and when it is not used any more.

### AlarmContext

`pending_alarms[]` is the pair of functions `who` and `when` on `0 .. num - 1`.
Additions and subtractions of clocks wrap around at `ClockMax`. `Set`,
`Unset`, `Dispatch` and `TimeWarp` do what their functions do, with the
recomputation of the cached next alarm each of them makes. `Instruction`
advances the clock only when no alarm is due; a callback may set and unset
alarms, and may steal cycles. The guard runs once per frame (`slack`) and
subtracts a multiple of `clk_base`. `NeverEmpty` says that the last alarm is
not unset outside of its own callback: the main CPU's context has the raster
alarm of its video chip, a drive's context has no such alarm.

What the chips set is chosen freely within `Horizon`. This is an assumption
about them: an alarm lies within `SubMin` cycles of the clock (`DeadlinesNear`
shows that nothing else in this code moves it away).

### SoundPause

The program is one thread and `pc` is where it is in a frame: executing
instructions (`cpu`), handling messages (`ui`), in `sound_flush`, after it
(`post`), or in the pause trap. `sound_suspend` and `sound_resume` write a
fragment before or after they tell the backend, and may close the device
doing so. They are two steps with `ret` as the return point, because the
audio task runs in between. The audio task is reduced to what it takes
from the ring. `ring` abstracts `audio_t` to a task, a number of used
fragments, how many of those the device has, and `play`.

`sound_flush` fills a ring that looks like an underrun (`sound.c:1431`) before it writes on;
`FlushWrite` does so too, and `FlushFindsFragment` says that it never has to. The flush is not
reached where `sound_resume` closed the device: that is `MenusKeepDevice`, and after a failed
`ahi_resume` it is what the next flush does in any case (see Observations).

`pc = "no device"` is a use of `snddata.playdev` after it was set to NULL,
`pc = "two tasks"` an `ahi_open` that clears `audio_t` under a running task.
The program does not survive either, the model stops there, and the
properties say when they are not reached.

### InterruptLines

Chips raise and clear their lines at any cycle (`RaiseIrq` ...). `cs` is
`interrupt_cpu_status_t`; `cpu` is the clock, the I flag, what `last_opcode_info`
says of the last opcode, and whether the CPU is between opcodes, on the way to
an interrupt's vector, or in BRK. DO_INTERRUPT is two steps, because alarms run
between its pushes and its vector, where an NMI may take over. `truth` says what
happened on the lines, counted in cycles: it is a history that no action reads, and
the properties compare it with the clocks and masks, which is all the CPU has.
`PushCycles` (5 in the code) is 2 in the instance.

### DriveClock

A drive has `clk`, `stop_clk`, `last_clk` and the rest of a cycle `accum`. `Executed` is
`drivecpu_execute`: opcodes are as long as they are, so that the last one ends up to
`OpCycles - 1` cycles behind `stop_clk`. The comparison of the two clocks is that of
signed integers, as in the code. `DriveVsync` is the end of a frame: the drives that do
not skip cycles catch up, then the main guard, then each drive's guard in turn, as
`machine_vsync_hook` does. `due` and `owed` count what really passes, without modulus.

### EventHistory

The machine is `hist`, the inputs it has had and when: it is deterministic, and its
state is a function of that. A snapshot is a machine; the end file also has the list of
events, which is written and read with all that `event_snapshot_read_module` does to it
(timestamps are left out and made again). A request of the user stores a trap, and the
trap is served at the end of the alarms of an opcode; the slot keeps the last. A failed
snapshot is a disjunct of its trap. `record` is a history: what the recording began with.

`PlaybackReproduces` and `PlaybackStopsThere` suppose that the two files belong together
(`FilesMatch`) and that no recording began while a playback was active (`mixed`). Both can
be otherwise in the code: see Observations.

### NetPlay

A process is `idle`, `server` (waiting), `server_connected` or `client`, and `pc` is where
it is in a trap or the hook. A step of the hook ends where the code may wait for the
network. TCP is external: `wire` is an ordered stream for each direction, and `far` is what a peer
knows of the other end, `open`, `closed` or `reset`. A connection breaks, is closed by the
program, or by the system when a process ends; data that was not read makes a close a
reset, and so does sending to a closed end. At the end of a stream that was closed and not
reset a receive returns 0 bytes and `network_recv_buffer` goes on: the model has no step there.
The length and the list of a frame, which two calls send (`network.c:801`), are one message: the
model sends both or neither. To the reader a connection that breaks between the two is one that breaks before
it has read the list (`BodyFails`); the sender disconnects in either case.

A machine is the sequence of what it has executed since the snapshot, so that two
machines are equal when the sequences are. `said` is a history of the lists that were sent.
`ImplementsLockStep` maps a session to `LockStep`: the members are the peers that have the
session's lists.

The model keeps the roles: one process is only a server and the other only a client.

## Runs

| Run | Shows |
|---|---|
| `ahi_safety` | no torn playback, requests come back, one fragment is heard at a time, the ring is not freed under the task, checked capacity and reported space can be relied on, the `used` flags tell full from empty; with a device that may stop playing at any time, a waiting write returns; with one that plays, no wake-up is lost and open and close return |
| `ahi_stream` | the backend implements `AudioStream` |
| `ahi_stuck_close` | (violation) closing may wait forever for a stuck request |
| `alarms_main` | array, indexes and cache agree; alarms stay near the clock; a context that always has an alarm implements `Timers` |
| `sound_wide` | all menu items at all times, a device that may not open: the layers agree; when `sound_flush` gets to look at the ring, it is not an underrun |
| `sound_calm` | the pause releases AHI, stops the machine, keeps the SID engine, gets AHI back; a pause that is asked for is reached, and a frame advance pauses again |
| `sound_full` | (violation) see Findings |
| `net_play` | two sessions of three frames: both machines execute the same, in step; the sync test passes; every reader finds what it waits for; nobody in a session waits for ever |
| `net_left` | (violation) see Findings |
| `guarded_clocks` | an empty alarm context and a full array; two interrupt sources; a drive that follows the main CPU; histories that are recorded, continued, overwritten, played: each for itself, across the subtractions of its guard |
| `drive_stall`, `event_ghost` | (violations) see Findings |

`guarded_clocks` is one run for four components that do not interact in it: `part` chooses
one, and the others stay as they are. They answer one question, whether what holds a clock survives
the subtraction of the guard, and share its configuration.

Bounds:

- *Ring.* Three fragments of two units: an occupied fragment at the device, one
  queued and one being written, with a partly filled one possible. A write of
  four units that starts in a partly filled fragment passes the ends of two, and is copied in three pieces. For the stream, fragments of one
  unit with two tags tell any reordering, loss or repetition of neighbours.
  `WaitLoops` is 2 for the code's 250: a write that waits looks for room, waits, looks again
  and gives up. The count is only compared with its bound.
- *Alarms.* A clock of five bits, a guard that subtracts 15 or 17 of the at most
  26 the clock reaches, so the clock goes around again and again; three alarms are
  what it takes to remove one, move the last into its place and keep a third as
  the next. In `guarded_clocks` the array has two entries, so that it is full.
- *Sound.* The ring has the code's eight fragments; `MaxPend = 3` is enough for
  a buffer that is empty, partly written, and full.
- *Interrupts.* Two sources: one can hold the line while the other goes. The guard subtracts 3 at 7, which is
  `Grace`, so that clocks saturate and are still told apart. `PushCycles` is 2.
- *Drives.* A clock modulo 24 with a guard at 20; `sync_factor` is 1.5, so that a rest of
  a cycle is carried. One drive that is never idle. Two drives (5.1 million states), the
  other idling methods and other start clocks were checked with the same modules and are too long for
  a run here; see Observations for what they show.
- *History.* A second of 3 cycles, a frame of 2, a guard that subtracts 10 at 14; from cycle 13
  five opcodes with two inputs and six requests, or six with one and five: a recording with an input, a
  reset or a subtraction in it, continued or overwritten, and its playback. `Crowded = FALSE`: an input or a
  request does not fall on the opcode at which an earlier one has not been served yet.
- *Network.* `Deltas` are 2 and 3 for the code's 5 and more, so that with the smaller one the ring wraps around
  within a session of three frames, and a second session may have another delta than the first; one packet for the 50 of the
  test; one input, one suspension and one broken line in a session.

`CHECK_DEADLOCK FALSE` is set where the system stops: the two stops of `SoundPause`, ended
processes or the bound of frames in `NetPlay`, and the bounds on opcodes and clocks in
`guarded_clocks`, `drive_stall` and `event_ghost`. The other instances are checked for deadlock.

## Fairness

- `AhiRing!Spec`: weak fairness of each task inside a call, because Exec
  schedules both tasks, and of the device finishing or aborting a request. The emulator
  need never call anything. `StuckSpec` drops the assumption that a request
  that plays is ever finished, but keeps it for a request that is aborted.
- `SoundPause!FairSpec`: weak fairness of `Run`, the program's own steps: the
  CPU goes on to the end of a frame, and a frame to its end. Strong fairness of
  leaving a message loop (`EndMessages`, `Unpause`): the messages of the windows
  are finitely many, so a loop that can be left again and again is left.
  Nothing is assumed about the audio task or what the user chooses.
- `ahi_safety` runs under `StuckSpec`; `QueuedFragmentsPlayed` and `OpenAndCloseReturn`
  suppose what `StuckSpec` leaves out (`DevicePlays`), and `PlayReturns` does not.
- `NetPlay!Spec`: weak fairness of each process's own steps, because its system runs it.
  That includes the step with which a suspended peer goes on: its user closes the menu or dialog that
  suspended it. Nothing else is assumed about users. A stream delivers what is in it or breaks with an
  error; a line that falls silent is left to TCP, whose time-outs make it such an error.
- `AlarmContext` has no liveness property: whether a callback ends is up to the
  chips, and `Timers` states as safety that no instruction starts with a timer due.

## Proofs

All theorems are for all values of the constants within the named assumptions:
at least two fragments, positive sizes; a guard as `clk_guard_init` tests it, a
frame and a horizon shorter than `SubMin`; delays of at least two frames
(`network.c` makes them five and more). That `MaxInputs` is a number
(`BoundsAssumption`) is of the model's bound, not of the code.

For the drives (`DriveAssumption`): a frame shorter than `CLKGUARD_SUB_MIN`, that 0x100000 less than
a quarter of the clock's 2^32, `sync_factor` such that a frame is less than half a turn of a drive's clock, and
so few reductions counted (`MaxGuards`) that what a drive may be behind is less than that as well: with the code's
numbers up to a thousand. For the history (`HistAssumption`): a frame longer than one opcode and
shorter than the guard's margin, a reset that sets the clock to less than that margin, a guard whose maximum is more than two margins and a second above 0 (the code's is about 2^32 - 2^20), and room
for a frame and a second between it and `CLOCK_MAX`.

`AhiRingProofs`
- `TypeCorrect`: `TypeOK`. The work is in the arithmetic of a copy that is cut
  at the end of a fragment (`CopyBounds`).
- `PlaybackNeverTorn`, `DeviceClosedIdle`: from the inductive `PlaybackInv`. It
  adds to the property who has the ring when (`LifeTime`), which requests are out
  at each point of the task (`RequestsOut`), and that the read position is
  at the fragment behind the last one sent (`ReadPosition`): without these the
  property says nothing of the step that sends or returns a fragment.
- `TaskAlwaysHasRing`, `FragmentsHeardInTurn`: from `CallInv`, which says for each
  point of a call of the emulator where the audio task is: looping and not told to
  leave between `ahi_open` and `ahi_close`, gone before the ring is freed. The second
  also needs that a request without a link is the only one out (`RequestsOut`).
- `RingInvariant`, `FullIsNotEmpty`: in use are the fragments from the read position up to the
  write position, and the one played last, right behind them. The property speaks of the case
  where the positions meet; only with the one in between is that inductive, as `ahi_advance`
  frees a fragment that was sent one step before.
- `WriteNeverCutShort`, `ReportedSpaceStays`: from `SpaceInv`. The audio task can only add
  room, so what was checked under one hold of the semaphore holds under the next; that takes
  `WholeInv` (only the fragment at the write position is partly filled) and the room as
  a number of fragments (`SpaceByRoom`).

- `BackendImplementsStream`: the refinement of `AudioStream`. What is queued of the stream are
  the fragments from the read position on, less the one that was sent and not yet passed
  (`SentInv`: it is that fragment which the last request plays). A copy is a `Put`, `TaskSend`
  a hand-over, and `ahi_close` a reset; all else, the advance included, is a stutter.

`SoundPauseProofs`
- `SoundTypes`, `SuspensionAgrees`, `FlushNeverUnderruns`: for every menu, and
  whether AHI opens or not, from `SoundInv`. It says at which points
  `sound.c` has a device, that the layers' flags agree also without a task (where
  `play` is clear), and that a playing ring keeps a fragment: the audio task gives a
  fragment back only when it has sent another.
- `PauseReleases`, `PauseRestores`, `NeverTwoTasks`, `PauseKeepsSid`: assuming `Calm`
  (AHI can be opened again, and warp mode is left alone in the pause), from
  `PauseInv`: outside of the pause the device and the task come and go together, and
  there AHI is marked for reopening exactly when there is a device. Both conditions are
  needed: see Observations.
- `PauseStops`: assuming that nothing else triggers a trap, which is needed as well.

`GuardedClocksProofs`

The alarms:

- `AlarmTypes`, `AlarmIndexes` from `IndexInv == TypeOK /\ IndexesAgree`, which is
  inductive.
- `AlarmDeadlines`, `AlarmsNeverHidden` from `ClockInv`: the clock, and each alarm
  relative to it, are in ranges in which a sum does not wrap around; the cached
  tick is not later than any alarm.
- `AlarmNextIsEarliest` (assuming `NeverEmpty`) from `CacheInv`: the cached index
  is an entry and the cached tick is that entry's.
- `AlarmTimers` (assuming `NeverEmpty`): the refinement. The cycles left of a
  pending alarm are `when[idx[a]] - clk`. Each step is a step of `Timers`, and the
  guard's subtraction is a stutter.

The interrupt lines, for any finite set of sources:

- `LinesTyped`, `LinesAreCounted`, `EdgesAreLatched`, `ClocksTellTheAges` and
  `EachInterruptHasCause` from the inductive `LinesInv`. It is the conjunction of the
  invariants with `PendKept`: whenever an IRQ is remembered without a line,
  `irq_pending_clk` says until when. Without it the step that forgets the IRQ has no clock to look at.
  The counters need cardinalities: `HavingAdds` and `HavingRemoves` say what a changed line does to them.
  That a warp keeps the ages rests on `SubMin >= Grace`: a clock that stops at 0 is then
  far enough in the past.

The drives, and the four parts:

- `DrivesTyped`: `DriveTypeOK`, for any number of drives and every idling method, from `DriveTyped`. The main clock
  is less than a frame behind the point where its guard would have subtracted; that leaves room for a frame.
- `DrivesInStep` (assuming that no drive skips cycles): `DrivesKeepUp`, from `DriveInv`. Its part `InStep` says
  of each drive that `stop_clk` and its clock are as far apart as what the drive owes, less what its own guard left
  behind and modulo a turn of the clock; and that its `last_clk` is where the main clock was when it
  last executed, less than a frame ago. Modulo is what makes it hard: the code compares the two clocks as signed
  numbers, and the step needs the bound on what is owed to know that the comparison is the true one. An end of
  a frame goes through all drives (`GuardGoesOn`), and each goes through the guards of the others.
- `PartsTyped`: the instance `MCGuardedClocks`, whose parts keep their invariants side by side.

`HistoryProofs`
- `HistoryTyped`: `HistTypeOK`, from `HistTyped`. That `current` points into the list takes that every list ends with an
  "end" and that a playback and a reset do not go beyond it; lists come from snapshots, so the files have to
  be readable too (`Readable`), and what is written can be read again: `WriteTyped` and `ReadTyped` are about
  the recursion through the events, with the timestamps that are left out and made again.
- The tale of a list (`Tale`): to each event there is a moment, at which it takes effect, and which fixes how far the
  clock is ahead of the time, where the frames begin, and which inputs there were (`Follows`). A list keeps a tale when
  it grows (`TaleGrows`), is cut (`TalePrefix`), is written without its timestamps (`WrittenTale`), and is read with new
  ones (`ReadTale`). A list that was read is also dense: no event is more than a second from the one before,
  which is what timestamps are for, since the alarm compares clocks that are reduced in between.

`PlaybackProofs`
- `HistoryReproduced` and `HistoryStops` (assuming `~ Crowded`): `PlaybackReproduces` and `PlaybackStopsThere`, from
  `TaleInv`. That the inputs agree now says nothing of the inputs to come, so the invariant is about lists: the list that
  is recorded has a tale with whose last moment the machine is where it is (`RecordTold`); so has the list in the end
  file, for the machine in the file (`FilesTold`); and the list that is played has a tale, and the machine is between
  the moment of the last event and that of the next, with the alarm set for it (`PlayTold`, `Awaits`). The hard steps are those
  at the end of a frame: the guard subtracts and the event of the overflow is played in either order, and in between
  the machine is ahead of its tale (`Behind`) or the tale ahead of it (`Sooner`). `Calm` says what the traps find. The assumption is
  needed: see Observations.

`LockStepProofs`
- `MachinesAgree`: in `LockStep` two members have executed the same in every frame both have
  executed. The invariant says that a machine is what the lists that were said make it
  (frame by frame); so it does not mention the other machine.

`NetPlayProofs`
- `NetInvariant`: the inductive `NetInv`, for any inputs, delays and number of sessions.
  `StreamParses` and `SyncTestPasses` look at the head of the stream only; a step that reads it
  uncovers the next message, and so the invariant is about all of it. `Member` says that the machine
  of a peer after `n` frames is what was said up to frame `n - delta + 1` (`Executed`), that each list
  in its ring is that of its frame (`FrameAt`: the arithmetic of the ring), and that its wire
  carries, with marks in between, what the other has said and it has not yet taken (`Carries`). As long as
  the two are connected that is all of it; otherwise the end of it may be lost.
  `ServerInv`, `ClientInv` and `LinkedInv` say where the two are in the handshake and what is then
  on the wire; `LoneInv` that a peer without the session's lists knows of the reset, and so sends nothing.
- `NetTypeCorrect`, `StreamAlwaysParses`, `SyncTestAlwaysPasses` and `PeersAgree` follow from it.
- `PlaysInLockStep`: the refinement of `LockStep`. The delay begins a session (`RecvPong`) and lets
  the client join it (`GetDelta`), the hook's send says a list, its receive executes the lists due
  (`ReadsFrame`: they are those of `delta - 1` frames ago), and whatever ends a membership is a
  `Leave`. Everything else is a stutter, as is all that a process does which is no member.

Only model-checked:

- all liveness (`PlayReturns`, `QueuedFragmentsPlayed`, `OpenAndCloseReturn`, `PauseTakesEffect`,
  `AdvancePausesAgain`, `FramesGoOn`), which is out of the prover's reach.

## Findings

Each is a run that TLC finds violated, with the quoted sentence of the source or
of the documentation (`findings` in `PROJECT.json`).

1. `ahi_stuck_close`: `ahi_close` can wait forever. The stale signal bit of a forced
   restart makes the task skip AbortIO (`ahi.c:199`).
2. `sound_full`: `sound_suspend` writes its fade-out, and `sound_resume` its fade-in, to a ring
   that may be full; the write fails, the device is closed, and the caller reads
   `playdev->suspend` (`sound.c:1593`) or `playdev->flush` (`sound.c:1401`) through NULL. The
   run finds the second; with `pc = "ui"` only, or `pc = "refill"` only, `MenusKeepDevice` fails as well.
3. `net_left`: when the other peer has left, `network_hook` disconnects in its send and
   receives all the same; the second disconnect closes a closed socket, on which
   `socket.c:924` asserts.
4. `drive_stall`: a drive's own guard reduces its clock and not `stop_clk`; the drive
   stands still for about two seconds, once in about 71 minutes (`drive-overflow.c:39`).
5. `event_ghost`: after a playback that was stopped in front of a recorded reset, a reset
   makes the rest of the history play, although no playback is active (`event.c:767`).

## Observations

These have no run of their own; each was found with TLC by changing a constant or
a premise that is named, or while the code was read.

Pause and alarms:

- `OpenMayFail = TRUE` in `SoundPause_calm.cfg`: another program may take ahi.device in the pause. The result of
  `ahi_resume` is discarded (`ui.c:508`), so the CPU runs on with a sound
  device without a task (`DeviceHasTask` fails). After a failed resume
  `frf_ahi_pause_reopen` stays set, and a later pause does not release AHI
  (`ahi.c:748`; `ReleasedWhilePaused` fails). The next flush finds no room in a ring without a task for the
  fade-in of `sound_resume`, closes the device and goes on to use it (`sound.c:1401`).
- `PausedMenu` with leaving warp mode: `sound_resume` writes to the released backend,
  which closes the SID engine and turns the sound off (`sound.c:1737`; `SidPreserved` fails).
- `Menu` with events: a trap that is triggered behind the pause's takes its slot; the machine shows
  as paused and runs (`interrupt.c:321`; `PausedStops` fails).
- `NeverEmpty = FALSE`: `alarm_context_time_warp` also moves the tick of an empty context
  (`alarm.c:99`). An alarm set afterwards is not the next (`NextIsEarliest` fails), and the
  dispatcher may use the index -1. No alarm is missed (`NoneMissed`, proved).
- `RELEASE_NOTES_FRF.txt:24-25` says that the generic resume hook calls `ahi_resume`.
  It calls `ahi_continue` (`soundahi.c`); the model follows the code.

Interrupts and drives:

- A second IRQ source that goes active sets `irq_clk` again (`interrupt.h:161`) and so delays
  an IRQ that was already there. An NMI keeps its clock (`interrupt.h:194`).
- `NumDrives = 2` with different idling methods: at an overflow of the main clock the first
  drive to be guarded makes all catch up, to a clock that is `sub` too large for those whose
  `last_clk` was reduced already (`drivecpu.c:269`): they execute `sub` cycles too many.
- `Idlings = {"skip_cycles"}`: a drive that was not accessed for long when the main clock overflows
  does not skip, because `drivecpu_wake_up` sees the reduced main clock (`drivecpu.c:247`).
- `drive_clk_overflow_callback` rotates the disk when the clock is already reduced and the
  rotation's own clock is not yet (`drive-overflow.c:47-49`).

Event history:

- "Return to milestone" without a milestone in this recording loads the end file of the session before
  (`event.c:926`); the next end file then does not belong to the start file (`FilesMatch`).
- A recording that overwrites a playback makes the current event the end of the list and leaves its
  clock as it is (`event.c:679`); the model's end has the clock 0 of a new one. The next recorded event,
  or the end of the recording, overwrites it. Only a milestone that is set before any of them
  is saved with it, and no property depends on where the playback of such a list ends.
- A milestone's list has no end. A playback that runs behind it reads the sentinel, whose
  clock is 0, and stays active.
- A recording can begin while a playback is active, when the two are asked for before the
  first trap is served (`record.mixed`). Stopped, it leaves the playback active; a recording that overwrites the
  playback then goes on behind the "end" of the first (`event.c:676`), where its own playback will stop. The model
  marks such a list (`record.base`).
- A guard with a maximum of less than two margins and a second would let `event_alarm_handler` take an event behind
  a subtraction for one that is due (`HistAssumption`); 2^32 is far from that.
- When the end snapshot cannot be written, the recording goes on behind the end that is already in
  the list (`event.c:741`); what follows is never played. An input between the request to stop and
  its trap lies there as well.
- `Crowded = TRUE`: two events at the end of the frame in which the guard subtracts, the
  first of them before and the second behind the subtraction: the second is set one turn
  of the guard late (`event.c:340`).

Network play:

- A server that ends its side regularly while the client waits for the snapshot leaves it
  in an endless loop (`network.c:351`). In a session that does not happen: `FramesGoOn`.
- When the test of the delay fails (`network.c:416`, `448`), the mode stays connected; without
  lists from an earlier session the next hook reads through NULL.
- The client does not look at the result of receiving the delta (`network.c:451`).
- The delta is a BYTE (`network.c:438`): a round trip of more than 250 frames wraps around.
- Disconnecting twice from the menu closes a closed socket, as in `net_left`.
- Values of two joysticks in one frame: the second `memcpy` takes the place of the first before its
  alarm (`joystick.c:203`).

## Not modelled, and why

Samples, volumes, time stamps and speed adjustment (data); ahi.device, Exec and TCP
beyond what the code uses of them (external); the lists of messages in a port;
`SoundSuspendTime` (0 by default), recording devices, other menus; the forward time warp and `alarm_destroy`
(not used by the program); registration of guard callbacks (at start only); stolen cycles and DMA
in the interrupt status (bus timing of one chip); the disk's rotation (arithmetic on bits); the delay
between a key or a joystick and its latch; images in the event history. Host files, parsing, drawing and
signal processing are not a subject for this kind of model. The map covers a small share of the
repository's lines because most of them are other machines' chips, cartridges, tables,
translations, vendored libraries and code for other operating systems.

Left, in this order: the ring as `SoundPause` sees it as an abstract specification of
`AhiRing`, so that the two models of `ahi.c` are one; the command state machine of `flash040core.c` with its
erase alarm; the bus handshake of `serial-iec-device.c`. Autostart, the datasette, the
fliplist and the keyboard buffer are sequential and depend on timings of the machine's own
programs or on its screen; a model of them would restate the code.
