---------------------------- MODULE EventHistory ----------------------------
(***************************************************************************)
(* The event history: src/src/event.c, with the trap slot of interrupt.c,  *)
(* the reset of machine.c and the guard of the main clock.                 *)
(*                                                                         *)
(* A recording is a snapshot of the machine at its start, one at its end   *)
(* (or at a milestone), and the list of the user's inputs with the clocks  *)
(* at which they took effect.  The machine is deterministic, so that its   *)
(* state is the time it has run and the history of its inputs: hist, in    *)
(* cycles that are counted without end.                                    *)
(*                                                                         *)
(* Between two opcodes the CPU dispatches the alarms that are due (pc      *)
(* "alarms": the event alarm, the chips', the end of a frame with the      *)
(* user's messages), then a trap, then a reset, and executes an opcode.    *)
(***************************************************************************)
EXTENDS Integers, Sequences

CONSTANTS
  Second,        \* machine_get_cycles_per_second
  HistClockMax,  \* CLOCK_MAX
  HistGuardMax,  \* clk_max_value of the main guard
  HistSubMin,    \* CLKGUARD_SUB_MIN
  HistFrame,     \* the opcodes of a frame
  ResetClk,      \* the clock after a reset
  Keys,          \* what the user presses
  Crowded,       \* bound: may inputs and requests meet at one opcode?
  StartClk,      \* bound: the clock when the model begins
  Limits         \* bounds: each run is within a [time, inputs, requests] of these

(* The guard is as clk_guard_init tests it; after it there is room for the *)
(* last frame and the stamp of the last second.  A frame is more than one  *)
(* opcode, and a reset leaves the clock at a few cycles.  A key is not one *)
(* of the other types of events.                                           *)
ASSUME HistAssumption ==
  /\ Second \in Nat \ {0} /\ HistFrame \in Nat \ {0, 1} /\ Crowded \in BOOLEAN
  /\ HistClockMax \in Nat /\ HistGuardMax \in Nat /\ HistSubMin \in Nat
  /\ HistSubMin > HistFrame /\ HistGuardMax - Second > 2 * (HistSubMin + HistFrame - 1)
  /\ HistClockMax >= HistGuardMax + HistSubMin
  /\ HistClockMax >= HistGuardMax + HistFrame + Second - 1
  /\ ResetClk \in 1 .. HistSubMin - 1 /\ StartClk \in 0 .. HistGuardMax - 1
  /\ Keys \cap {"end", "reset", "overflow", "timestamp", "initial save", "initial reset"} = {}

VARIABLES
  ev,        \* the static variables of event.c
  mach,      \* the machine: what a snapshot keeps
  files,     \* the two snapshot files
  pend,      \* pc, and the pending trap and reset
  record     \* history: what the recording began with, and what was asked

histVars == <<ev, mach, files, pend, record>>

None == -1
NoFile == [exists |-> FALSE]
Sentinel == [type |-> "end", clk |-> 0]    \* of lib_calloc
Machine(clk) == [clk |-> clk, time |-> 0, hist |-> <<>>, frame |-> 0]
PowerUp == Machine(ResetClk)
NoMachine == Machine(None)

HistInit ==
  /\ ev = [record_active |-> FALSE, playback_active |-> FALSE, list |-> <<>>, current |-> 1,
           next_timestamp_clk |-> 0, alarm |-> None, milestone |-> 0, reset_ack |-> FALSE]
  /\ mach = Machine(StartClk)
  /\ files = [start |-> NoFile, end |-> NoFile]
  /\ pend = [pc |-> "alarms", trap |-> "none", reset |-> "none"]
  /\ record \in [base : {PowerUp}, mixed : {FALSE}, requests : {0}, limit : Limits]

-----------------------------------------------------------------------------
(* The list of events. *)

Wrapped(clk) == clk % (HistClockMax + 1)

(* event_record_in_list: behind the last event there is a sentinel. *)
Put(list, current, type, clk) ==
  SubSeq(list, 1, current - 1) \o <<[type |-> type, clk |-> clk], Sentinel>>

(* event_record *)
Recorded(e, type, clk) ==
  IF ~ e.record_active THEN e
  ELSE [e EXCEPT !.list = Put(@, e.current, type, clk), !.current = @ + 1,
                 !.next_timestamp_clk = IF type = "reset" THEN Wrapped(@ - clk) ELSE @]

(* clk_guard_clock_sub: whole frames; clk_guard_prevent_overflow *)
HistSub == ((HistGuardMax - HistSubMin) \div HistFrame) * HistFrame

GuardedBy(clk) == IF clk < HistGuardMax THEN 0 ELSE HistSub

(* Fault: the guard is forgotten. *)
NextAlarm_plain(e, clk) == [e EXCEPT !.alarm = e.list[e.current].clk]

(* next_alarm_set *)
NextAlarm(e, clk) ==
  LET new == e.list[e.current].clk
  IN  [e EXCEPT !.alarm = IF clk > HistSubMin /\ new < clk - HistSubMin
                          THEN Wrapped(new + HistSub) ELSE new]

(* event_snapshot_read_module: a timestamp for each second. *)
Stamped(s, e) ==
  LET limit == IF e.type = "overflow" THEN HistGuardMax ELSE e.clk
      first == IF s.ts = None THEN e.clk ELSE s.ts
      n     == IF limit > first THEN (limit - first + Second - 1) \div Second ELSE 0
      after == first + n * Second
  IN  IF s.ended THEN s
      ELSE IF e.type = "initial reset" THEN [s EXCEPT !.list = Append(@, e), !.ts = 0]
      ELSE [list  |-> s.list \o [i \in 1 .. n |-> [type |-> "timestamp", clk |-> first + (i - 1) * Second]]
                             \o <<e>>,
            ts    |-> CASE e.type = "overflow" -> after - HistSub
                        [] e.type = "reset" -> after - e.clk
                        [] OTHER -> after,
            ended |-> e.type = "end"]

ReadModule(list) ==
  LET read[n \in 0 .. Len(list)] ==
        IF n = 0 THEN [list |-> <<>>, ts |-> None, ended |-> FALSE]
        ELSE Stamped(read[n - 1], list[n])
  IN  read[Len(list)]

(* event_snapshot_write_module leaves the timestamps out. *)
WriteModule(list) ==
  LET written[n \in 0 .. Len(list)] ==
        IF n = 0 THEN <<>>
        ELSE IF list[n].type = "timestamp" THEN written[n - 1]
        ELSE Append(written[n - 1], list[n])
  IN  written[Len(list)]

(* The snapshot module is read, and warp_end_list goes to its end. *)
ReadToEnd(e, list) ==
  LET s == ReadModule(list)
  IN  [e EXCEPT !.list = Append(SubSeq(s.list, 1, Len(s.list) - 1), Sentinel),
                !.current = Len(s.list), !.next_timestamp_clk = s.ts]

(* event_playback_stop *)
PlaybackStopped(e) ==
  IF e.playback_active THEN [e EXCEPT !.playback_active = FALSE, !.alarm = None] ELSE e

(* Fault: a recorded reset does not go on with the event behind it. *)
ResetAcked_stops(e, clk) ==
  LET e1 == IF e.reset_ack THEN NextAlarm([e EXCEPT !.reset_ack = FALSE], clk) ELSE e
  IN  IF e.list # <<>> /\ e.record_active THEN [e1 EXCEPT !.alarm = e.next_timestamp_clk] ELSE e1

(* event_reset_ack *)
ResetAcked(e, clk) ==
  LET e1 == IF e.reset_ack THEN NextAlarm([e EXCEPT !.reset_ack = FALSE], clk) ELSE e
      e2 == IF e1.list # <<>> /\ e1.list[e1.current].type = "reset"
            THEN NextAlarm([e1 EXCEPT !.current = @ + 1], clk) ELSE e1
  IN  IF e.list = <<>> THEN e
      ELSE IF e.record_active THEN [e2 EXCEPT !.alarm = e.next_timestamp_clk] ELSE e2

-----------------------------------------------------------------------------
(* Alarms. *)

AlarmDue == ev.alarm # None /\ ev.alarm <= mach.clk
AlarmsDone == pend.pc = "alarms" /\ ~ AlarmDue /\ mach.frame < HistFrame

Idle == pend.trap = "none" /\ pend.reset = "none"

Happens(input) == [mach EXCEPT !.hist = Append(@, <<mach.time, input>>)]

(* event_alarm_handler, with machine_reset_event_playback *)
EventAlarm ==
  /\ pend.pc = "alarms" /\ AlarmDue
  /\ IF ev.record_active
     THEN /\ ev' = [ev EXCEPT !.next_timestamp_clk = Wrapped(@ + Second),
                              !.alarm = Wrapped(ev.next_timestamp_clk + Second)]
          /\ UNCHANGED <<mach, pend>>
     ELSE LET e  == ev.list[ev.current]
              e0 == [ev EXCEPT !.alarm = None]
          IN  /\ mach' = IF e.type \in Keys \cup {"reset"} THEN Happens(e.type) ELSE mach
              /\ pend' = IF e.type = "reset" THEN [pend EXCEPT !.reset = "soft"] ELSE pend
              /\ ev' = CASE e.type = "end" -> PlaybackStopped(e0)
                         [] e.type = "reset" -> e0
                         [] OTHER -> NextAlarm([e0 EXCEPT !.current = @ + 1], mach.clk)
  /\ UNCHANGED <<files, record>>

(* An input of the user takes effect, unless a playback is active.         *)
Input(key) ==
  /\ pend.pc = "alarms" /\ ~ ev.playback_active /\ Len(mach.hist) < record.limit.inputs
  /\ Crowded \/ (Idle /\ mach.frame < HistFrame)
  /\ mach' = Happens(key)
  /\ ev' = Recorded(ev, key, mach.clk)
  /\ UNCHANGED <<files, pend, record>>

(* machine_trigger_reset, called by the user *)
UserReset ==
  /\ pend.pc = "alarms" /\ ~ ev.playback_active /\ Len(mach.hist) < record.limit.inputs
  /\ Crowded \/ (Idle /\ mach.frame < HistFrame)
  /\ mach' = Happens("reset")
  /\ ev' = Recorded(ev, "reset", mach.clk)
  /\ pend' = [pend EXCEPT !.reset = "soft"]
  /\ UNCHANGED <<files, record>>

(* The end of a frame: the guard, whose callbacks warp the alarm and then  *)
(* call clk_overflow_callback.                                             *)
EndFrame ==
  /\ pend.pc = "alarms" /\ mach.frame = HistFrame
  /\ LET sub == GuardedBy(mach.clk)
         clk == mach.clk - sub
         e   == IF sub = 0 THEN ev ELSE Recorded(ev, "overflow", clk)
     IN  /\ mach' = [mach EXCEPT !.frame = 0, !.clk = clk]
         /\ ev' = [e EXCEPT !.alarm = IF @ = None THEN None ELSE IF @ > sub THEN @ - sub ELSE 0,
                            !.next_timestamp_clk =
                              IF @ = 0 THEN 0 ELSE Wrapped(@ - sub)]
  /\ UNCHANGED <<files, pend, record>>

-----------------------------------------------------------------------------
(* The user's requests, which are served by traps; the last one counts. *)

Request(trap, e) ==
  /\ pend.pc = "alarms" /\ mach.frame = 0 /\ record.requests < record.limit.requests
  /\ Crowded \/ (Idle /\ ~ AlarmDue)
  /\ ev' = e
  /\ pend' = [pend EXCEPT !.trap = IF trap = "none" THEN @ ELSE trap]
  /\ record' = [record EXCEPT !.requests = @ + 1]
  /\ UNCHANGED <<mach, files>>

(* event_record_start; overwriting, it first stops the playback. *)
RecordStart(mode) ==
  /\ mode = "overwrite" => ev.playback_active
  /\ ~ ev.record_active
  /\ Request(mode, IF mode = "overwrite" THEN PlaybackStopped(ev) ELSE ev)

(* event_record_stop *)
RecordStop ==
  /\ ev.record_active
  /\ Request("stop", [Recorded(ev, "end", mach.clk) EXCEPT !.alarm = None])

(* event_record_set_milestone *)
SetMilestone == ev.record_active /\ Request("set milestone", ev)

(* event_record_reset_milestone *)
ResetMilestone ==
  ev.record_active /\ ~ ev.playback_active /\ Request("reset milestone", ev)

(* event_playback_start *)
PlaybackStart == ~ ev.record_active /\ ~ ev.playback_active /\ Request("playback", ev)

(* event_playback_stop *)
PlaybackStop == ev.playback_active /\ Request("none", PlaybackStopped(ev))

-----------------------------------------------------------------------------
(* The traps: each ends with a state ev' and a machine, or fails. *)

(* interrupt_do_trap; a reset that is pending follows at once. *)
Served == [pend EXCEPT !.trap = "none", !.pc = IF pend.reset = "none" THEN "opcode" ELSE "reset"]
PowerCycled == [pend EXCEPT !.trap = "none", !.reset = "power", !.pc = "reset"]

Serve(trap) ==
  /\ AlarmsDone /\ pend.trap = trap
  /\ pend' = Served

(* The end of event_record_start_trap. *)
Started(e, next) ==
  [e EXCEPT !.record_active = TRUE, !.next_timestamp_clk = next, !.alarm = next, !.milestone = 0]

NewList(e, initial, clk) ==
  [e EXCEPT !.list = <<[type |-> initial, clk |-> clk], Sentinel>>, !.current = 2]

Mixed(r) == [r EXCEPT !.mixed = @ \/ ev.playback_active]

TrapSave ==
  /\ Serve("save")
  /\ \/ /\ files' = [files EXCEPT !.start = mach]
        /\ ev' = Started(NewList(ev, "initial save", mach.clk), mach.clk)
        /\ record' = Mixed([record EXCEPT !.base = mach])
     \/ UNCHANGED <<ev, files, record>>
  /\ UNCHANGED mach

TrapLoad ==
  /\ Serve("load")
  /\ \/ /\ files.end # NoFile
        /\ mach' = files.end.mach
        /\ ev' = Started(ReadToEnd(ev, files.end.list), files.end.mach.clk)
        /\ record' = Mixed([record EXCEPT !.base = files.end.base])
     \/ UNCHANGED <<ev, mach, record>>
  /\ UNCHANGED files

TrapReset ==
  /\ AlarmsDone /\ pend.trap = "reset"
  /\ pend' = IF ev.playback_active THEN Served ELSE PowerCycled
  /\ ev' = Started(NewList(ev, "initial reset", mach.clk), 0)
  /\ record' = Mixed([record EXCEPT !.base = IF ev.playback_active THEN NoMachine ELSE PowerUp])
  /\ UNCHANGED <<mach, files>>

(* The current event becomes the end of the list.  (It keeps its clock,    *)
(* which the next event to be recorded overwrites: here it is a new one.)  *)
TrapOverwrite ==
  /\ Serve("overwrite")
  /\ ev' = Started([ev EXCEPT !.list = Append(SubSeq(@, 1, ev.current - 1), Sentinel)], mach.clk)
  /\ record' = IF record.mixed THEN [record EXCEPT !.base = NoMachine] ELSE record
  /\ UNCHANGED <<mach, files>>

(* The end snapshot, with the list as it is. *)
EndFile(stopped) ==
  [mach |-> mach, list |-> WriteModule(ev.list), base |-> record.base, stopped |-> stopped]

(* It may not be possible to write it: the recording goes on, with an end  *)
(* in the middle of its list.                                              *)
TrapStop ==
  /\ Serve("stop")
  /\ \/ /\ files' = [files EXCEPT !.end = EndFile(TRUE)]
        /\ ev' = [ev EXCEPT !.record_active = FALSE]
        /\ UNCHANGED record
     \/ /\ UNCHANGED <<files, ev>>
        /\ record' = [record EXCEPT !.base = NoMachine]
  /\ UNCHANGED mach

TrapSetMilestone ==
  /\ Serve("set milestone")
  /\ \/ /\ files' = [files EXCEPT !.end = EndFile(FALSE)]
        /\ ev' = [ev EXCEPT !.milestone = ev.next_timestamp_clk]
     \/ UNCHANGED <<files, ev>>
  /\ UNCHANGED <<mach, record>>

TrapResetMilestone ==
  /\ Serve("reset milestone")
  /\ \/ /\ files.end # NoFile
        /\ mach' = files.end.mach
        /\ LET e == ReadToEnd(ev, files.end.list)
           IN  ev' = IF e.milestone > 0
                     THEN [e EXCEPT !.alarm = e.milestone, !.next_timestamp_clk = e.milestone]
                     ELSE e
        /\ record' = [record EXCEPT !.base = files.end.base]
     \/ ev' = [ev EXCEPT !.record_active = FALSE] /\ UNCHANGED <<mach, record>>
  /\ UNCHANGED files

(* History: what is played began with start, if the two files match. *)
Replayed(start) ==
  [record EXCEPT !.mixed = FALSE,
                 !.base = IF files.end.base = start THEN start ELSE NoMachine]

(* event_playback_start_trap: the start snapshot may be missing. *)
TrapPlayback ==
  /\ AlarmsDone /\ pend.trap = "playback"
  /\ UNCHANGED files
  /\ LET s  == ReadModule(IF files.end = NoFile THEN <<>> ELSE files.end.list)
         e  == [ev EXCEPT !.list = s.list, !.next_timestamp_clk = s.ts, !.current = 1]
         e2 == [e EXCEPT !.current = 2, !.playback_active = TRUE]
     IN  \/ UNCHANGED <<ev, mach, record>> /\ pend' = Served
         \/ /\ files.end # NoFile
            /\ e.list[1].type = "initial save"
            /\ pend' = Served
            /\ \/ UNCHANGED <<mach, record>> /\ ev' = e
               \/ /\ mach' = files.start
                  /\ ev' = NextAlarm(e2, files.start.clk)
                  /\ record' = Replayed(files.start)
         \/ /\ files.end # NoFile
            /\ e.list[1].type = "initial reset"
            /\ UNCHANGED mach
            /\ ev' = [e2 EXCEPT !.reset_ack = TRUE]
            /\ pend' = PowerCycled
            /\ record' = Replayed(PowerUp)

(* cpu_reset with machine_reset and event_reset_ack *)
DoReset ==
  /\ \/ pend.pc = "reset"
     \/ AlarmsDone /\ pend.trap = "none" /\ pend.reset # "none"
  /\ mach' = IF pend.reset = "power" THEN PowerUp
             ELSE [mach EXCEPT !.clk = ResetClk, !.frame = 0]
  /\ ev' = ResetAcked(ev, ResetClk)
  /\ pend' = [pend EXCEPT !.reset = "none", !.pc = "opcode"]
  /\ UNCHANGED <<files, record>>

Opcode ==
  /\ \/ pend.pc = "opcode"
     \/ AlarmsDone /\ pend.trap = "none" /\ pend.reset = "none"
  /\ mach.time < record.limit.time
  /\ mach' = [mach EXCEPT !.clk = @ + 1, !.time = @ + 1, !.frame = @ + 1]
  /\ pend' = [pend EXCEPT !.pc = "alarms"]
  /\ UNCHANGED <<ev, files, record>>

HistNext ==
  \/ EventAlarm \/ UserReset \/ EndFrame
  \/ \E key \in Keys : Input(key)
  \/ \E mode \in {"save", "load", "reset", "overwrite"} : RecordStart(mode)
  \/ RecordStop \/ SetMilestone \/ ResetMilestone \/ PlaybackStart \/ PlaybackStop
  \/ TrapSave \/ TrapLoad \/ TrapReset \/ TrapOverwrite \/ TrapStop
  \/ TrapSetMilestone \/ TrapResetMilestone \/ TrapPlayback
  \/ DoReset \/ Opcode

HistSpec == HistInit /\ [][HistNext]_histVars
-----------------------------------------------------------------------------

(* Recording, current is the sentinel at the end of the list; the clocks   *)
(* stay below CLOCK_MAX (event.c:304).                                     *)
HistTypeOK ==
  /\ mach.clk \in 0 .. HistClockMax
  /\ ev.current \in 1 .. Len(ev.list) + 1
  /\ ev.record_active => ev.current = Len(ev.list) /\ ev.list[ev.current].type = "end"
  /\ ev.alarm # None => ev.alarm \in 0 .. HistClockMax

(* The two files belong together: the start file is what the recording of  *)
(* the end file began with, and its list is whole.                         *)
FilesMatch ==
  files.end # NoFile /\ files.end.base = (IF ev.list[1].type = "initial save"
                                          THEN files.start ELSE PowerUp)

Playing ==
  /\ ev.playback_active /\ ~ record.mixed /\ FilesMatch
  /\ AlarmsDone /\ Idle

(* A playback reproduces what was recorded: at each opcode the machine has *)
(* had the inputs that it had had then, across resets and subtractions of  *)
(* the guard, milestones and histories that were continued or overwritten  *)
(* (event.c:335, event_alarm_handler, event_snapshot_read_module).         *)
PlaybackReproduces ==
  LET recorded == files.end.mach.hist IN
  Playing => \E n \in 0 .. Len(recorded) :
               /\ mach.hist = SubSeq(recorded, 1, n)
               /\ \A i \in 1 .. Len(recorded) : recorded[i][1] <= mach.time <=> i <= n

(* ... and it stops where the recording was stopped, not earlier and not   *)
(* later, so that the user can go on from there ("The playback stops when  *)
(* the end of the session is reached", doc/vice.texi:16449).               *)
PlaybackStopsThere ==
  [][ev.playback_active /\ ~ record.mixed /\ FilesMatch /\ files.end.stopped =>
       /\ EventAlarm /\ ~ ev'.playback_active => mach.time = files.end.mach.time
       /\ Opcode /\ pend.pc = "alarms" => mach.time < files.end.mach.time]_histVars

(* No recorded input is played while no playback is active: the user who   *)
(* stopped it has the machine for himself (event.c:871, event.c:756).      *)
NoGhosts == [][EventAlarm /\ mach'.hist # mach.hist => ev.playback_active]_histVars
=============================================================================
