--------------------------- MODULE PlaybackProofs ---------------------------
(***************************************************************************)
(* Proofs that a playback repeats what was recorded and stops where the    *)
(* recording was stopped, for any keys, clocks and requests, where no two  *)
(* inputs or requests meet at one opcode (~ Crowded).                      *)
(*                                                                         *)
(* The invariant TaleInv says of each list that there are moments at which *)
(* its events take effect: of the list that is recorded, that the machine  *)
(* has come to the moment of its last event; of the list in the end file,  *)
(* that the machine in that file has; of the list that is played, that the *)
(* machine is between the moment of the event it was at and that of the    *)
(* event it waits for. A recording and its playback begin with the same    *)
(* machine, and a moment determines the inputs so far, so the playback has *)
(* those of the recording.                                                 *)
(***************************************************************************)
EXTENDS HistoryProofs

(***************************************************************************)
(* The invariant.                                                          *)
(***************************************************************************)
(* What the traps and the reset find where no two inputs or requests meet  *)
(* at one opcode: they come between two frames and never two at once, and  *)
(* a recording that is not mixed with a playback excludes it.              *)
Calm ==
  /\ pend.trap # "none" =>
       pend.pc = "alarms" /\ pend.reset = "none" /\ mach.frame = 0 /\ ~ AlarmDue
  /\ pend.pc = "opcode" => pend.trap = "none" /\ pend.reset = "none"
  /\ pend.pc = "reset" <=> pend.reset = "power"
  /\ ev.reset_ack => pend.reset = "power"
  /\ pend.trap \in {"stop", "set milestone", "reset milestone"} => ev.record_active
  /\ pend.trap \in {"save", "load", "reset", "overwrite"} => ~ ev.record_active
  /\ pend.trap \in {"overwrite", "playback"} => ~ ev.playback_active
  /\ ev.playback_active /\ ~ record.mixed => ~ ev.record_active

(* What the record is made of. *)
RecordTyped ==
  /\ record = [base |-> record.base, mixed |-> record.mixed,
               requests |-> record.requests, limit |-> record.limit]
  /\ record.mixed \in BOOLEAN

(* A machine and the machines of the files remember only the past. *)
Remembered ==
  /\ Remembers(mach)
  /\ files.start # NoFile => Remembers(files.start)
  /\ files.end # NoFile => Remembers(files.end.mach)

(* The machine m is as it was left after the moment q. *)
At(q, m) ==
  m.time >= q.at /\ m.clk = Shows(q, m.time) /\ m.hist = q.hist /\ m.frame = FrameAt(q, m.time)

(* The list W of the end file f is without timestamps, Q are the moments   *)
(* of its events, and the machine of f has come to the last of them.       *)
FileTale(f, W, Q) ==
  /\ f.list = Append(W, Sentinel)
  /\ Tale(f.base, W, Q)
  /\ \A i \in 1 .. Len(W) : W[i].type # "timestamp"
  /\ At(Q[Len(W)], f.mach)
  /\ f.stopped <=> W[Len(W)].type = "end"
  /\ f.stopped => Q[Len(W)].at = f.mach.time

FileTold(f) == \E W \in Seq(Event), Q \in Seq(Moment) : FileTale(f, W, Q)

FilesTold == files.end # NoFile /\ files.end.base # NoMachine => FileTold(files.end)

(* A machine that runs, or waits for a reset, has come to q: it is as it   *)
(* was left after q, but for the end of a frame that the program has not   *)
(* seen yet.                                                               *)
Runs(q, m, pc) ==
  /\ m.time >= q.at /\ m.clk = Shows(q, m.time) /\ m.hist = q.hist
  /\ m.frame \in {FrameAt(q, m.time), HistFrame}
  /\ m.frame = HistFrame => FrameAt(q, m.time) = 0
  /\ pc = "alarms" => m.time >= q.next

Reaches(q, m, p) ==
  /\ p.reset = "none" => Runs(q, m, p.pc)
  /\ p.reset = "soft" =>
       /\ m.time = q.at /\ m.hist = q.hist /\ q.off = ResetClk - q.at /\ q.from = q.at
       /\ m.frame < HistFrame
  /\ p.reset = "power" => q = Beginning(PowerUp)

(* The list that is recorded is P, and G are the moments of its events; it *)
(* has an end as soon as the recording is to be stopped.                   *)
RecordTale(P, G) ==
  /\ ev.list = Append(P, Sentinel) /\ ev.current = Len(P) + 1
  /\ Tale(record.base, P, G)
  /\ P[Len(P)].type = "end" <=> pend.trap = "stop"
  /\ pend.trap = "stop" => G[Len(P)].at = mach.time
  /\ Reaches(G[Len(P)], mach, pend)

RecordTold ==
  ev.record_active /\ record.base # NoMachine =>
    \E P \in Seq(Event), G \in Seq(Moment) : RecordTale(P, G)

(* Where a recording is to overwrite what is not played yet, what has been *)
(* played is its beginning.                                                *)
OverwriteTold ==
  pend.trap = "overwrite" /\ ~ record.mixed /\ record.base # NoMachine =>
    \E P \in Seq(Event), G \in Seq(Moment) :
      /\ SubSeq(ev.list, 1, ev.current - 1) = P /\ ev.current = Len(P) + 1
      /\ Tale(record.base, P, G) /\ P[Len(P)].type # "end"
      /\ At(G[Len(P)], mach)

-----------------------------------------------------------------------------
(* While a trap is pending, only a trap can happen. *)

Traps ==
  \/ TrapSave \/ TrapLoad \/ TrapReset \/ TrapOverwrite \/ TrapStop
  \/ TrapSetMilestone \/ TrapResetMilestone \/ TrapPlayback

LEMMA TrapFirst ==
  ASSUME ~ Crowded, HistTyped, Calm, pend.trap # "none", [HistNext]_histVars
  PROVE  Traps \/ UNCHANGED histVars
<1>1. /\ pend.pc = "alarms" /\ pend.reset = "none" /\ mach.frame = 0 /\ ~ AlarmDue /\ HistFrame # 0
      /\ ~ Idle
  BY MoreNumbers DEF Calm, Idle
<1>2. ~ EventAlarm /\ ~ UserReset /\ ~ EndFrame /\ ~ DoReset /\ ~ Opcode
  BY <1>1 DEF EventAlarm, UserReset, EndFrame, DoReset, Opcode
<1>3. \A key \in Keys : ~ Input(key)
  BY <1>1 DEF Input
<1>4. /\ \A mode \in {"save", "load", "reset", "overwrite"} : ~ RecordStart(mode)
      /\ ~ RecordStop /\ ~ SetMilestone /\ ~ ResetMilestone /\ ~ PlaybackStart /\ ~ PlaybackStop
  BY <1>1 DEF RecordStart, RecordStop, SetMilestone, ResetMilestone, PlaybackStart, PlaybackStop,
              Request
<1> QED
  BY <1>2, <1>3, <1>4 DEF HistNext, Traps

(* What every trap does with the pending trap. *)
LEMMA TrapServes ==
  ASSUME HistTyped, Calm, Traps
  PROVE  /\ pend.trap # "none" /\ pend.pc = "alarms" /\ pend.reset = "none" /\ mach.frame = 0
         /\ ~ AlarmDue /\ pend'.trap = "none"
         /\ \/ pend' = Served /\ pend'.reset = "none" /\ pend'.pc = "opcode"
            \/ pend' = PowerCycled /\ pend'.reset = "power" /\ pend'.pc = "reset"
<1>1. pend.trap # "none" /\ (pend' = Served \/ pend' = PowerCycled)
  <2>1. CASE TrapSave \/ TrapLoad
    BY <2>1 DEF TrapSave, TrapLoad, Serve
  <2>2. CASE TrapReset
    BY <2>2 DEF TrapReset
  <2>3. CASE TrapOverwrite \/ TrapStop
    BY <2>3 DEF TrapOverwrite, TrapStop, Serve
  <2>4. CASE TrapSetMilestone \/ TrapResetMilestone
    BY <2>4 DEF TrapSetMilestone, TrapResetMilestone, Serve
  <2>5. CASE TrapPlayback
    BY <2>5 DEF TrapPlayback
  <2> QED
    BY <2>1, <2>2, <2>3, <2>4, <2>5 DEF Traps
<1>2. pend \in PendState
  BY DEF HistTyped
<1>3. pend.pc = "alarms" /\ pend.reset = "none" /\ mach.frame = 0 /\ ~ AlarmDue
  BY <1>1 DEF Calm
<1>4. /\ Served.trap = "none" /\ Served.reset = "none" /\ Served.pc = "opcode"
      /\ PowerCycled.trap = "none" /\ PowerCycled.reset = "power" /\ PowerCycled.pc = "reset"
  BY <1>2, <1>3 DEF Served, PowerCycled, PendState
<1> QED
  BY <1>1, <1>3, <1>4

LEMMA EvFields ==
  ASSUME HistTyped
  PROVE  /\ ev \in HistState /\ pend \in PendState /\ mach \in MachState
         /\ ev.record_active \in BOOLEAN /\ ev.playback_active \in BOOLEAN /\ ev.reset_ack \in BOOLEAN
BY DEF HistTyped, EvTyped, HistState

(* record is a record all along. *)
LEMMA RecordTypedNext ==
  ASSUME HistTyped, RecordTyped, [HistNext]_histVars
  PROVE  RecordTyped'
<1>1. /\ record = [base |-> record.base, mixed |-> record.mixed,
                   requests |-> record.requests, limit |-> record.limit]
      /\ record.mixed \in BOOLEAN /\ ev.playback_active \in BOOLEAN
  BY EvFields DEF RecordTyped
<1>2. CASE UNCHANGED record
  BY <1>1, <1>2 DEF RecordTyped
<1>3. ASSUME NEW b, record' = [record EXCEPT !.base = b] PROVE RecordTyped'
  BY <1>1, <1>3 DEF RecordTyped
<1>4. ASSUME NEW b, record' = Mixed([record EXCEPT !.base = b]) PROVE RecordTyped'
  BY <1>1, <1>4 DEF RecordTyped, Mixed
<1>5. ASSUME record' = [record EXCEPT !.requests = @ + 1] PROVE RecordTyped'
  BY <1>1, <1>5 DEF RecordTyped
<1>6. ASSUME NEW b, record' = Replayed(b) PROVE RecordTyped'
  BY <1>1, <1>6 DEF RecordTyped, Replayed
<1>7. CASE EventAlarm \/ UserReset \/ EndFrame \/ DoReset \/ Opcode \/ (\E key \in Keys : Input(key))
  BY <1>2, <1>7 DEF EventAlarm, UserReset, EndFrame, DoReset, Opcode, Input
<1>8. CASE \/ \E mode \in {"save", "load", "reset", "overwrite"} : RecordStart(mode)
           \/ RecordStop \/ SetMilestone \/ ResetMilestone \/ PlaybackStart \/ PlaybackStop
  BY <1>5, <1>8 DEF RecordStart, RecordStop, SetMilestone, ResetMilestone, PlaybackStart,
                    PlaybackStop, Request
<1>9. CASE TrapSave \/ TrapLoad \/ TrapReset
  BY <1>2, <1>4, <1>9 DEF TrapSave, TrapLoad, TrapReset
<1>10. CASE TrapOverwrite \/ TrapStop \/ TrapSetMilestone \/ TrapResetMilestone
  BY <1>2, <1>3, <1>10 DEF TrapOverwrite, TrapStop, TrapSetMilestone, TrapResetMilestone
<1>11. CASE TrapPlayback
  BY <1>2, <1>6, <1>11 DEF TrapPlayback
<1> QED
  BY <1>2, <1>7, <1>8, <1>9, <1>10, <1>11 DEF HistNext, histVars

-----------------------------------------------------------------------------
(* Calm. *)

(* What the operators leave alone. *)
Fields(e) ==
  /\ DOMAIN e = {"record_active", "playback_active", "list", "current", "next_timestamp_clk",
                 "alarm", "milestone", "reset_ack"}
  /\ e.playback_active \in BOOLEAN

LEMMA EvIsFields ==
  ASSUME NEW e \in HistState PROVE Fields(e)
BY DEF HistState, Fields

LEMMA StartedFlags ==
  ASSUME NEW e, Fields(e), NEW n
  PROVE  /\ Started(e, n).playback_active = e.playback_active
         /\ Started(e, n).reset_ack = e.reset_ack /\ Fields(Started(e, n))
         /\ Started(e, n).record_active = TRUE
         /\ Started(e, n).list = e.list /\ Started(e, n).current = e.current
<1>1. /\ DOMAIN e = {"record_active", "playback_active", "list", "current", "next_timestamp_clk",
                     "alarm", "milestone", "reset_ack"}
      /\ e.playback_active \in BOOLEAN
  BY DEF Fields
<1> QED
  BY <1>1 DEF Started, Fields

LEMMA NewListFlags ==
  ASSUME NEW e, Fields(e), NEW i, NEW c
  PROVE  /\ NewList(e, i, c).playback_active = e.playback_active
         /\ NewList(e, i, c).reset_ack = e.reset_ack /\ Fields(NewList(e, i, c))
         /\ NewList(e, i, c).record_active = e.record_active
<1>1. /\ DOMAIN e = {"record_active", "playback_active", "list", "current", "next_timestamp_clk",
                     "alarm", "milestone", "reset_ack"}
      /\ e.playback_active \in BOOLEAN
  BY DEF Fields
<1> QED
  BY <1>1 DEF NewList, Fields

LEMMA ReadToEndFlags ==
  ASSUME NEW e, Fields(e), NEW l
  PROVE  /\ ReadToEnd(e, l).playback_active = e.playback_active
         /\ ReadToEnd(e, l).reset_ack = e.reset_ack /\ Fields(ReadToEnd(e, l))
         /\ ReadToEnd(e, l).record_active = e.record_active
<1>1. /\ DOMAIN e = {"record_active", "playback_active", "list", "current", "next_timestamp_clk",
                     "alarm", "milestone", "reset_ack"}
      /\ e.playback_active \in BOOLEAN
  BY DEF Fields
<1> QED
  BY <1>1 DEF ReadToEnd, Fields

LEMMA StoppedFlags ==
  ASSUME NEW e, Fields(e)
  PROVE  /\ PlaybackStopped(e).playback_active = FALSE
         /\ PlaybackStopped(e).reset_ack = e.reset_ack /\ Fields(PlaybackStopped(e))
         /\ PlaybackStopped(e).record_active = e.record_active
         /\ PlaybackStopped(e).list = e.list /\ PlaybackStopped(e).current = e.current
         /\ PlaybackStopped(e).alarm \in {None, e.alarm}
<1>1. /\ DOMAIN e = {"record_active", "playback_active", "list", "current", "next_timestamp_clk",
                     "alarm", "milestone", "reset_ack"}
      /\ e.playback_active \in BOOLEAN
  BY DEF Fields
<1> QED
  BY <1>1 DEF PlaybackStopped, Fields

LEMMA RecordedFlags ==
  ASSUME NEW e, Fields(e), NEW t, NEW c
  PROVE  /\ Recorded(e, t, c).playback_active = e.playback_active
         /\ Recorded(e, t, c).reset_ack = e.reset_ack /\ Fields(Recorded(e, t, c))
         /\ Recorded(e, t, c).record_active = e.record_active
         /\ Recorded(e, t, c).alarm = e.alarm
<1>1. /\ DOMAIN e = {"record_active", "playback_active", "list", "current", "next_timestamp_clk",
                     "alarm", "milestone", "reset_ack"}
      /\ e.playback_active \in BOOLEAN
  BY DEF Fields
<1> QED
  BY <1>1 DEF Recorded, Fields

LEMMA NextAlarmFlags ==
  ASSUME NEW e, Fields(e), NEW c
  PROVE  /\ NextAlarm(e, c).playback_active = e.playback_active
         /\ NextAlarm(e, c).reset_ack = e.reset_ack /\ Fields(NextAlarm(e, c))
         /\ NextAlarm(e, c).record_active = e.record_active
         /\ NextAlarm(e, c).list = e.list /\ NextAlarm(e, c).current = e.current
<1>1. /\ DOMAIN e = {"record_active", "playback_active", "list", "current", "next_timestamp_clk",
                     "alarm", "milestone", "reset_ack"}
      /\ e.playback_active \in BOOLEAN
  BY DEF Fields
<1> QED
  BY <1>1 DEF NextAlarm, Fields

LEMMA TrapSaveCalm ==
  ASSUME HistTyped, Calm, RecordTyped, TrapSave \/ TrapLoad \/ TrapReset
  PROVE  /\ ev'.reset_ack = ev.reset_ack
         /\ ev'.playback_active /\ ~ record'.mixed => ~ ev'.record_active
<1>1. /\ ev \in HistState /\ ev.playback_active \in BOOLEAN
      /\ record = [base |-> record.base, mixed |-> record.mixed,
                   requests |-> record.requests, limit |-> record.limit]
      /\ ev.playback_active /\ ~ record.mixed => ~ ev.record_active
  BY EvFields DEF RecordTyped, Calm
<1>2. ASSUME NEW b PROVE Mixed([record EXCEPT !.base = b]).mixed <=> (record.mixed \/ ev.playback_active)
  BY <1>1 DEF Mixed
<1>3. ASSUME NEW e, Fields(e), NEW n
      PROVE  Started(e, n).playback_active = e.playback_active /\ Started(e, n).reset_ack = e.reset_ack
  BY <1>3, StartedFlags
<1>4. ASSUME NEW b, NEW e, Fields(e), NEW n, e.playback_active = ev.playback_active,
             e.reset_ack = ev.reset_ack, ev' = Started(e, n), record' = Mixed([record EXCEPT !.base = b])
      PROVE  /\ ev'.reset_ack = ev.reset_ack
             /\ ev'.playback_active /\ ~ record'.mixed => ~ ev'.record_active
  BY <1>2, <1>3, <1>4
<1>5. ASSUME UNCHANGED <<ev, record>>
      PROVE  /\ ev'.reset_ack = ev.reset_ack
             /\ ev'.playback_active /\ ~ record'.mixed => ~ ev'.record_active
  BY <1>1, <1>5
<1>6. CASE TrapSave
  <2>1. \/ UNCHANGED <<ev, record>>
        \/ /\ ev' = Started(NewList(ev, "initial save", mach.clk), mach.clk)
           /\ record' = Mixed([record EXCEPT !.base = mach])
    BY <1>6 DEF TrapSave
  <2> DEFINE i == "initial save"
             c == mach.clk
             e == NewList(ev, i, c)
  <2>2. Fields(e) /\ e.playback_active = ev.playback_active /\ e.reset_ack = ev.reset_ack
    <3> HIDE DEF i, c
    <3> QED
      BY <1>1, EvIsFields, NewListFlags
  <2> QED
    BY <1>4, <1>5, <2>1, <2>2
<1>7. CASE TrapLoad
  <2>1. \/ UNCHANGED <<ev, record>>
        \/ /\ ev' = Started(ReadToEnd(ev, files.end.list), files.end.mach.clk)
           /\ record' = Mixed([record EXCEPT !.base = files.end.base])
    BY <1>7 DEF TrapLoad
  <2> DEFINE e == ReadToEnd(ev, files.end.list)
  <2>2. Fields(e) /\ e.playback_active = ev.playback_active /\ e.reset_ack = ev.reset_ack
    BY <1>1, EvIsFields, ReadToEndFlags
  <2> QED
    BY <1>4, <1>5, <2>1, <2>2
<1>8. CASE TrapReset
  <2>1. \E b : /\ ev' = Started(NewList(ev, "initial reset", mach.clk), 0)
               /\ record' = Mixed([record EXCEPT !.base = b])
    BY <1>8 DEF TrapReset
  <2> DEFINE i == "initial reset"
             c == mach.clk
             e == NewList(ev, i, c)
  <2>2. Fields(e) /\ e.playback_active = ev.playback_active /\ e.reset_ack = ev.reset_ack
    <3> HIDE DEF i, c
    <3> QED
      BY <1>1, EvIsFields, NewListFlags
  <2> QED
    BY <1>4, <2>1, <2>2
<1> QED
  BY <1>6, <1>7, <1>8

LEMMA TrapsCalm ==
  ASSUME HistTyped, Calm, RecordTyped, Traps
  PROVE  Calm'
<1>1. /\ ev \in HistState /\ ev.playback_active \in BOOLEAN /\ ~ ev.reset_ack
      /\ record = [base |-> record.base, mixed |-> record.mixed,
                   requests |-> record.requests, limit |-> record.limit]
      /\ ev.playback_active /\ ~ record.mixed => ~ ev.record_active
      /\ Fields(ev)
  <2>1. ~ ev.reset_ack
    BY TrapServes DEF Calm
  <2> QED
    BY <2>1, EvFields, EvIsFields DEF RecordTyped, Calm
<1>2. /\ pend'.trap = "none"
      /\ \/ pend' = Served /\ pend'.reset = "none" /\ pend'.pc = "opcode"
         \/ pend' = PowerCycled /\ pend'.reset = "power" /\ pend'.pc = "reset"
  BY TrapServes
<1>3. SUFFICES /\ ev'.reset_ack => pend'.reset = "power"
               /\ ev'.playback_active /\ ~ record'.mixed => ~ ev'.record_active
  BY <1>2, <1>3 DEF Calm
<1>4. CASE TrapSave \/ TrapLoad \/ TrapReset
  BY <1>1, <1>4, TrapSaveCalm
<1>5. CASE TrapOverwrite
  <2> DEFINE e == [ev EXCEPT !.list = Append(SubSeq(@, 1, ev.current - 1), Sentinel)]
  <2>1. ~ ev.playback_active /\ ev' = Started(e, mach.clk)
    BY <1>5 DEF TrapOverwrite, Serve, Calm
  <2>2. Fields(e) /\ e.playback_active = ev.playback_active /\ e.reset_ack = ev.reset_ack
    BY <1>1 DEF Fields
  <2> HIDE DEF e
  <2> QED
    BY <1>1, <2>1, <2>2, StartedFlags
<1>6. CASE TrapStop \/ TrapSetMilestone
  <2>1. /\ ev'.reset_ack = ev.reset_ack /\ ev'.playback_active = ev.playback_active
        /\ ev'.record_active = ev.record_active \/ ev'.record_active = FALSE
        /\ record'.mixed = record.mixed
    <3>1. /\ UNCHANGED ev \/ ev' = [ev EXCEPT !.record_active = FALSE]
             \/ ev' = [ev EXCEPT !.milestone = ev.next_timestamp_clk]
          /\ UNCHANGED record \/ record' = [record EXCEPT !.base = NoMachine]
      BY <1>6 DEF TrapStop, TrapSetMilestone
    <3>2. record'.mixed = record.mixed
      BY <1>1, <3>1
    <3>3. CASE UNCHANGED ev
      BY <3>2, <3>3
    <3>4. CASE ev' = [ev EXCEPT !.record_active = FALSE]
      BY <1>1, <3>2, <3>4 DEF Fields
    <3>5. CASE ev' = [ev EXCEPT !.milestone = ev.next_timestamp_clk]
      BY <1>1, <3>2, <3>5 DEF Fields
    <3> QED
      BY <3>1, <3>3, <3>4, <3>5
  <2> QED
    BY <1>1, <2>1
<1>7. CASE TrapResetMilestone
  <2> DEFINE e == ReadToEnd(ev, files.end.list)
  <2>1. Fields(e) /\ e.playback_active = ev.playback_active /\ e.reset_ack = ev.reset_ack
        /\ e.record_active = ev.record_active
    BY <1>1, ReadToEndFlags
  <2>2. /\ \/ ev' = e \/ ev' = [e EXCEPT !.alarm = e.milestone, !.next_timestamp_clk = e.milestone]
           \/ ev' = [ev EXCEPT !.record_active = FALSE]
        /\ record'.mixed = record.mixed
    BY <1>1, <1>7 DEF TrapResetMilestone
  <2> HIDE DEF e
  <2>3. /\ ev'.reset_ack = ev.reset_ack /\ ev'.playback_active = ev.playback_active
        /\ ev'.record_active = ev.record_active \/ ev'.record_active = FALSE
    <3>1. CASE ev' = e
      BY <1>1, <2>1, <3>1
    <3>2. CASE ev' = [e EXCEPT !.alarm = e.milestone, !.next_timestamp_clk = e.milestone]
      BY <1>1, <2>1, <3>2 DEF Fields
    <3>3. CASE ev' = [ev EXCEPT !.record_active = FALSE]
      BY <1>1, <3>3 DEF Fields
    <3> QED
      BY <2>2, <3>1, <3>2, <3>3
  <2> QED
    BY <1>1, <2>2, <2>3
<1>8. CASE TrapPlayback
  <2>1. ~ ev.playback_active /\ ~ ev.record_active /\ pend.trap = "playback"
    BY <1>8 DEF TrapPlayback, Calm, HistTyped
  <2> DEFINE s  == ReadModule(IF files.end = NoFile THEN <<>> ELSE files.end.list)
             e  == [ev EXCEPT !.list = s.list, !.next_timestamp_clk = s.ts, !.current = 1]
             e2 == [e EXCEPT !.current = 2, !.playback_active = TRUE]
  <2>2. /\ e.record_active = ev.record_active /\ e.reset_ack = ev.reset_ack
        /\ e.playback_active = ev.playback_active
        /\ e2.record_active = ev.record_active /\ e2.reset_ack = ev.reset_ack /\ Fields(e2)
    BY <1>1 DEF Fields
  <2>3. \/ ev' = ev \/ ev' = e \/ ev' = NextAlarm(e2, files.start.clk)
        \/ ev' = [e2 EXCEPT !.reset_ack = TRUE] /\ pend' = PowerCycled
    BY <1>8 DEF TrapPlayback
  <2> HIDE DEF s, e, e2
  <2>4. CASE ev' = ev \/ ev' = e
    BY <1>1, <2>1, <2>2, <2>4
  <2>5. CASE ev' = NextAlarm(e2, files.start.clk)
    BY <1>1, <2>1, <2>2, <2>5, NextAlarmFlags
  <2>6. CASE ev' = [e2 EXCEPT !.reset_ack = TRUE] /\ pend' = PowerCycled
    <3>1. ev'.record_active = e2.record_active
      BY <2>2, <2>6 DEF Fields
    <3>2. pend'.reset = "power"
      BY <1>2, <2>6 DEF Served, PowerCycled, HistTyped, PendState
    <3> QED
      BY <1>1, <2>1, <2>2, <3>1, <3>2
  <2> QED
    BY <2>3, <2>4, <2>5, <2>6
<1> QED
  BY <1>4, <1>5, <1>6, <1>7, <1>8 DEF Traps

LEMMA NextFlags ==
  ASSUME NEW e, Fields(e)
  PROVE  LET n == [e EXCEPT !.current = @ + 1]
         IN  /\ Fields(n) /\ n.playback_active = e.playback_active /\ n.reset_ack = e.reset_ack
             /\ n.record_active = e.record_active /\ n.list = e.list /\ n.current = e.current + 1
BY DEF Fields

LEMMA AlarmFlags ==
  ASSUME NEW e, Fields(e), NEW a
  PROVE  LET n == [e EXCEPT !.alarm = a]
         IN  /\ Fields(n) /\ n.playback_active = e.playback_active /\ n.reset_ack = e.reset_ack
             /\ n.record_active = e.record_active /\ n.list = e.list /\ n.current = e.current
             /\ n.alarm = a
BY DEF Fields

LEMMA AckFlags ==
  ASSUME NEW e, Fields(e)
  PROVE  LET n == [e EXCEPT !.reset_ack = FALSE]
         IN  /\ Fields(n) /\ n.playback_active = e.playback_active /\ n.reset_ack = FALSE
             /\ n.record_active = e.record_active /\ n.list = e.list /\ n.current = e.current
BY DEF Fields

(* What event_reset_ack does in terms of NextAlarm. *)
Acked(e, clk) == IF e.reset_ack THEN NextAlarm([e EXCEPT !.reset_ack = FALSE], clk) ELSE e
Skipped(e, clk) ==
  IF e.list # <<>> /\ e.list[e.current].type = "reset"
  THEN NextAlarm([e EXCEPT !.current = @ + 1], clk) ELSE e

LEMMA ResetAckedIs ==
  ASSUME NEW e, NEW clk
  PROVE  ResetAcked(e, clk) =
           IF e.list = <<>> THEN e
           ELSE IF e.record_active
                THEN [Skipped(Acked(e, clk), clk) EXCEPT !.alarm = e.next_timestamp_clk]
                ELSE Skipped(Acked(e, clk), clk)
BY DEF ResetAcked, Acked, Skipped

LEMMA AckedFlags ==
  ASSUME NEW e, Fields(e), e.reset_ack \in BOOLEAN, NEW clk
  PROVE  LET a == Acked(e, clk)
         IN  /\ Fields(a) /\ a.playback_active = e.playback_active /\ a.reset_ack = FALSE
             /\ a.record_active = e.record_active /\ a.list = e.list /\ a.current = e.current
<1> DEFINE n == [e EXCEPT !.reset_ack = FALSE]
<1>1. /\ Fields(n) /\ n.playback_active = e.playback_active /\ n.reset_ack = FALSE
      /\ n.record_active = e.record_active /\ n.list = e.list /\ n.current = e.current
  BY AckFlags
<1>2. Acked(e, clk) = IF e.reset_ack THEN NextAlarm(n, clk) ELSE e
  BY DEF Acked
<1> HIDE DEF n
<1> QED
  BY <1>1, <1>2, NextAlarmFlags

LEMMA SkippedFlags ==
  ASSUME NEW e, Fields(e), NEW clk
  PROVE  LET s == Skipped(e, clk)
         IN  /\ Fields(s) /\ s.playback_active = e.playback_active /\ s.reset_ack = e.reset_ack
             /\ s.record_active = e.record_active /\ s.list = e.list
<1> DEFINE n == [e EXCEPT !.current = @ + 1]
<1>1. /\ Fields(n) /\ n.playback_active = e.playback_active /\ n.reset_ack = e.reset_ack
      /\ n.record_active = e.record_active /\ n.list = e.list
  BY NextFlags
<1>2. Skipped(e, clk) \in {e, NextAlarm(n, clk)}
  BY DEF Skipped
<1> HIDE DEF n
<1> QED
  BY <1>1, <1>2, NextAlarmFlags

LEMMA ResetFlags ==
  ASSUME NEW e, Fields(e), e.reset_ack \in BOOLEAN, e.list = <<>> => ~ e.reset_ack, NEW clk
  PROVE  LET s == ResetAcked(e, clk)
         IN  /\ s.playback_active = e.playback_active /\ ~ s.reset_ack
             /\ s.record_active = e.record_active /\ s.list = e.list
<1> DEFINE a == Acked(e, clk)
           b == Skipped(a, clk)
<1>1. /\ Fields(a) /\ a.playback_active = e.playback_active /\ a.reset_ack = FALSE
      /\ a.record_active = e.record_active /\ a.list = e.list
  BY AckedFlags
<1>2. /\ Fields(b) /\ b.playback_active = e.playback_active /\ b.reset_ack = FALSE
      /\ b.record_active = e.record_active /\ b.list = e.list
  <2> HIDE DEF a
  <2> QED
    BY <1>1, SkippedFlags
<1>3. ResetAcked(e, clk) = IF e.list = <<>> THEN e
                           ELSE IF e.record_active THEN [b EXCEPT !.alarm = e.next_timestamp_clk]
                           ELSE b
  BY ResetAckedIs
<1> HIDE DEF a, b
<1>4. LET n == [b EXCEPT !.alarm = e.next_timestamp_clk]
      IN  /\ n.playback_active = b.playback_active /\ n.reset_ack = b.reset_ack
          /\ n.record_active = b.record_active /\ n.list = b.list
  BY <1>2, AlarmFlags
<1> QED
  BY <1>2, <1>3, <1>4

LEMMA QuietCalm ==
  ASSUME pend'.trap = "none", pend'.pc = "opcode" => pend'.reset = "none",
         pend'.pc = "reset" <=> pend'.reset = "power", ev'.reset_ack => pend'.reset = "power",
         ev'.playback_active /\ ~ record'.mixed => ~ ev'.record_active
  PROVE  Calm'
BY DEF Calm

LEMMA CalmParts ==
  ASSUME HistTyped, Calm, RecordTyped
  PROVE  /\ Fields(ev) /\ ev.reset_ack \in BOOLEAN
         /\ record.mixed \in BOOLEAN
         /\ ev.list = <<>> => ~ ev.reset_ack
         /\ pend = [pc |-> pend.pc, reset |-> pend.reset, trap |-> pend.trap]
         /\ pend.pc \in {"alarms", "opcode", "reset"} /\ pend.reset \in {"none", "soft", "power"}
         /\ pend.pc = "opcode" => pend.trap = "none" /\ pend.reset = "none"
         /\ pend.pc = "reset" <=> pend.reset = "power"
         /\ pend.pc = "reset" => pend.trap = "none"
         /\ ev.reset_ack => pend.reset = "power"
         /\ ev.playback_active /\ ~ record.mixed => ~ ev.record_active
<1>1. Fields(ev) /\ ev.reset_ack \in BOOLEAN /\ pend \in PendState
  BY EvFields, EvIsFields
<1>2. ev.list = <<>> => ~ ev.reset_ack
  BY DEF HistTyped, EvTyped, Listed
<1>3. /\ pend = [pc |-> pend.pc, reset |-> pend.reset, trap |-> pend.trap]
      /\ pend.pc \in {"alarms", "opcode", "reset"} /\ pend.reset \in {"none", "soft", "power"}
  BY <1>1 DEF PendState
<1> QED
  BY <1>1, <1>2, <1>3 DEF Calm, RecordTyped

LEMMA EventAlarmFlags ==
  ASSUME HistTyped, Calm, RecordTyped, EventAlarm
  PROVE  /\ ev'.reset_ack = ev.reset_ack /\ ev'.record_active = ev.record_active
         /\ ev'.playback_active => ev.playback_active
<1>0. Fields(ev)
  BY CalmParts
<1>1. CASE ev.record_active
  <2>1. ev' = [ev EXCEPT !.next_timestamp_clk = Wrapped(@ + Second),
                         !.alarm = Wrapped(ev.next_timestamp_clk + Second)]
    BY <1>1 DEF EventAlarm
  <2> QED
    BY <1>0, <2>1 DEF Fields
<1>2. CASE ~ ev.record_active
  <2> DEFINE e0 == [ev EXCEPT !.alarm = None]
             e1 == [e0 EXCEPT !.current = @ + 1]
  <2>1. ev' \in {PlaybackStopped(e0), e0, NextAlarm(e1, mach.clk)}
    <3>1. ev' = CASE ev.list[ev.current].type = "end" -> PlaybackStopped(e0)
                  [] ev.list[ev.current].type = "reset" -> e0
                  [] OTHER -> NextAlarm(e1, mach.clk)
      BY <1>2 DEF EventAlarm
    <3> HIDE DEF e0, e1
    <3> QED
      BY <3>1
  <2>2. Fields(e0) /\ e0.playback_active = ev.playback_active /\ e0.reset_ack = ev.reset_ack
        /\ e0.record_active = ev.record_active
    BY <1>0, AlarmFlags
  <2>3. Fields(e1) /\ e1.playback_active = ev.playback_active /\ e1.reset_ack = ev.reset_ack
        /\ e1.record_active = ev.record_active
    <3> HIDE DEF e0
    <3> QED
      BY <2>2, NextFlags
  <2> HIDE DEF e0, e1
  <2>4. CASE ev' = PlaybackStopped(e0)
    BY <2>2, <2>4, StoppedFlags
  <2>5. CASE ev' = e0
    BY <2>2, <2>5
  <2>6. CASE ev' = NextAlarm(e1, mach.clk)
    BY <2>3, <2>6, NextAlarmFlags
  <2> QED
    BY <2>1, <2>4, <2>5, <2>6
<1> QED
  BY <1>1, <1>2

LEMMA EventAlarmCalm ==
  ASSUME HistTyped, Calm, RecordTyped, EventAlarm
  PROVE  Calm'
<1>1. /\ pend.pc = "alarms" /\ pend.trap = "none" /\ pend.reset # "power" /\ ~ ev.reset_ack
      /\ record' = record /\ Fields(ev)
      /\ ev.playback_active /\ ~ record.mixed => ~ ev.record_active
      /\ pend = [pc |-> pend.pc, reset |-> pend.reset, trap |-> pend.trap]
  BY CalmParts DEF EventAlarm, Calm
<1>2. pend' = pend \/ pend' = [pend EXCEPT !.reset = "soft"]
  BY DEF EventAlarm
<1>3. pend'.trap = "none" /\ pend'.pc = "alarms" /\ pend'.reset # "power"
  BY <1>1, <1>2
<1>4. /\ ev'.reset_ack = ev.reset_ack /\ ev'.record_active = ev.record_active
      /\ ev'.playback_active => ev.playback_active
  BY EventAlarmFlags
<1> QED
  BY <1>1, <1>3, <1>4, QuietCalm

LEMMA InputCalm ==
  ASSUME ~ Crowded, HistTyped, Calm, RecordTyped, UserReset \/ \E key \in Keys : Input(key)
  PROVE  Calm'
<1>1. /\ pend.pc = "alarms" /\ pend.trap = "none" /\ pend.reset = "none" /\ ~ ev.reset_ack
      /\ record' = record /\ Fields(ev) /\ ~ ev.playback_active
      /\ pend = [pc |-> pend.pc, reset |-> pend.reset, trap |-> pend.trap]
  BY CalmParts DEF UserReset, Input, Calm, Idle
<1>2. pend' = pend \/ pend' = [pend EXCEPT !.reset = "soft"]
  BY DEF UserReset, Input
<1>3. pend'.trap = "none" /\ pend'.pc = "alarms" /\ pend'.reset # "power"
  BY <1>1, <1>2
<1>4. PICK t : ev' = Recorded(ev, t, mach.clk)
  BY DEF UserReset, Input
<1>5. ~ ev'.playback_active /\ ~ ev'.reset_ack
  BY <1>1, <1>4, RecordedFlags
<1> QED
  BY <1>3, <1>5, QuietCalm

LEMMA EndFrameCalm ==
  ASSUME HistTyped, Calm, RecordTyped, EndFrame
  PROVE  Calm'
<1>1. /\ pend.pc = "alarms" /\ pend.trap = "none" /\ pend.reset # "power" /\ ~ ev.reset_ack
      /\ record' = record /\ pend' = pend /\ Fields(ev)
      /\ ev.playback_active /\ ~ record.mixed => ~ ev.record_active
  BY CalmParts, MoreNumbers DEF EndFrame, Calm
<1> DEFINE sub == GuardedBy(mach.clk)
           kind == "overflow"
           c == mach.clk - sub
           e == IF sub = 0 THEN ev ELSE Recorded(ev, kind, c)
<1>2. Fields(e) /\ e.playback_active = ev.playback_active /\ e.reset_ack = ev.reset_ack
      /\ e.record_active = ev.record_active
  <2> HIDE DEF kind, c, sub
  <2> QED
    BY <1>1, RecordedFlags
<1>3. PICK a, n : ev' = [e EXCEPT !.alarm = a, !.next_timestamp_clk = n]
  <2>1. ev' = [e EXCEPT !.alarm = IF @ = None THEN None ELSE IF @ > sub THEN @ - sub ELSE 0,
                        !.next_timestamp_clk = IF @ = 0 THEN 0 ELSE Wrapped(@ - sub)]
    BY DEF EndFrame
  <2> HIDE DEF e
  <2> QED
    BY <2>1
<1> HIDE DEF e
<1>4. ev'.playback_active = ev.playback_active /\ ev'.reset_ack = ev.reset_ack
      /\ ev'.record_active = ev.record_active
  BY <1>2, <1>3 DEF Fields
<1> QED
  BY <1>1, <1>4, QuietCalm, CalmParts
LEMMA DoResetCalm ==
  ASSUME HistTyped, Calm, RecordTyped, DoReset
  PROVE  Calm'
<1>1. /\ pend.trap = "none" /\ record' = record /\ Fields(ev) /\ ev.reset_ack \in BOOLEAN
      /\ ev.list = <<>> => ~ ev.reset_ack
      /\ ev.playback_active /\ ~ record.mixed => ~ ev.record_active
      /\ pend = [pc |-> pend.pc, reset |-> pend.reset, trap |-> pend.trap]
      /\ pend' = [pend EXCEPT !.reset = "none", !.pc = "opcode"]
      /\ ev' = ResetAcked(ev, ResetClk)
  BY CalmParts DEF DoReset
<1>2. pend'.trap = "none" /\ pend'.pc = "opcode" /\ pend'.reset = "none"
  BY <1>1
<1>3. ~ ev'.reset_ack /\ ev'.playback_active = ev.playback_active
      /\ ev'.record_active = ev.record_active
  <2> DEFINE c == ResetClk
  <2> HIDE DEF c
  <2>1. ~ ResetAcked(ev, c).reset_ack /\ ResetAcked(ev, c).playback_active = ev.playback_active
        /\ ResetAcked(ev, c).record_active = ev.record_active
    BY <1>1, ResetFlags
  <2> QED
    BY <1>1, <2>1 DEF c
<1> QED
  BY <1>1, <1>2, <1>3, QuietCalm

LEMMA OpcodeCalm ==
  ASSUME HistTyped, Calm, RecordTyped, Opcode
  PROVE  Calm'
<1>1. /\ pend.trap = "none" /\ pend.reset = "none" /\ record' = record /\ ev' = ev
      /\ ~ ev.reset_ack
      /\ ev.playback_active /\ ~ record.mixed => ~ ev.record_active
      /\ pend = [pc |-> pend.pc, reset |-> pend.reset, trap |-> pend.trap]
      /\ pend' = [pend EXCEPT !.pc = "alarms"]
  BY CalmParts DEF Opcode, Calm
<1>2. pend'.trap = "none" /\ pend'.pc = "alarms" /\ pend'.reset = "none"
  BY <1>1
<1> QED
  BY <1>1, <1>2, QuietCalm

(* A request: the trap is one that fits what is going on. *)
LEMMA RequestCalm ==
  ASSUME ~ Crowded, HistTyped, Calm, RecordTyped, NEW trap, NEW e, Request(trap, e),
         e.reset_ack = ev.reset_ack, e.record_active = ev.record_active,
         e.playback_active => ev.playback_active, e.alarm \in {None, ev.alarm},
         trap \in {"stop", "set milestone", "reset milestone"} => ev.record_active,
         trap \in {"save", "load", "reset", "overwrite"} => ~ ev.record_active,
         trap \in {"overwrite", "playback"} => ~ e.playback_active
  PROVE  Calm'
<1>1. /\ pend.pc = "alarms" /\ mach.frame = 0 /\ pend.trap = "none" /\ pend.reset = "none"
      /\ ~ AlarmDue /\ ev' = e /\ mach' = mach
      /\ pend' = [pend EXCEPT !.trap = IF trap = "none" THEN @ ELSE trap]
      /\ record' = [record EXCEPT !.requests = @ + 1]
  BY DEF Request, Idle
<1>2. /\ ~ ev.reset_ack
      /\ ev.playback_active /\ ~ record.mixed => ~ ev.record_active
      /\ pend = [pc |-> pend.pc, reset |-> pend.reset, trap |-> pend.trap]
      /\ record = [base |-> record.base, mixed |-> record.mixed,
                   requests |-> record.requests, limit |-> record.limit]
  BY <1>1, CalmParts DEF RecordTyped, Calm
<1>3. pend'.pc = "alarms" /\ pend'.reset = "none" /\ pend'.trap = trap
  <2>1. (IF trap = "none" THEN pend.trap ELSE trap) = trap
    BY <1>1
  <2> QED
    BY <1>1, <1>2, <2>1
<1>4. record'.mixed = record.mixed
  BY <1>1, <1>2
<1>5. ~ AlarmDue'
  BY <1>1 DEF AlarmDue
<1> QED
  BY <1>1, <1>2, <1>3, <1>4, <1>5 DEF Calm

LEMMA RequestsCalm ==
  ASSUME ~ Crowded, HistTyped, Calm, RecordTyped,
         \/ \E mode \in {"save", "load", "reset", "overwrite"} : RecordStart(mode)
         \/ RecordStop \/ SetMilestone \/ ResetMilestone \/ PlaybackStart \/ PlaybackStop
  PROVE  Calm'
<1>1. Fields(ev)
  BY CalmParts
<1>2. /\ PlaybackStopped(ev).reset_ack = ev.reset_ack
      /\ PlaybackStopped(ev).record_active = ev.record_active
      /\ ~ PlaybackStopped(ev).playback_active
      /\ PlaybackStopped(ev).alarm \in {None, ev.alarm}
  BY <1>1, StoppedFlags
<1>3. ASSUME NEW mode \in {"save", "load", "reset", "overwrite"}, RecordStart(mode) PROVE Calm'
  <2>1. /\ ~ ev.record_active
        /\ Request(mode, IF mode = "overwrite" THEN PlaybackStopped(ev) ELSE ev)
    BY <1>3 DEF RecordStart
  <2>2. CASE mode = "overwrite"
    <3>1. Request("overwrite", PlaybackStopped(ev))
      BY <2>1, <2>2
    <3> QED
      BY <1>2, <2>1, <3>1, RequestCalm
  <2>3. CASE mode # "overwrite"
    <3>1. Request(mode, ev) /\ mode # "playback"
      BY <2>1, <2>3
    <3> QED
      BY <2>1, <2>3, <3>1, RequestCalm
  <2> QED
    BY <2>2, <2>3
<1>4. CASE RecordStop
  <2> DEFINE kind == "end"
             r == Recorded(ev, kind, mach.clk)
             e == [r EXCEPT !.alarm = None]
  <2>1. ev.record_active /\ Request("stop", e)
    BY <1>4 DEF RecordStop
  <2>2. Fields(r) /\ r.playback_active = ev.playback_active /\ r.reset_ack = ev.reset_ack
        /\ r.record_active = ev.record_active
    <3> HIDE DEF kind
    <3> QED
      BY <1>1, RecordedFlags
  <2>3. e.playback_active = ev.playback_active /\ e.reset_ack = ev.reset_ack
        /\ e.record_active = ev.record_active /\ e.alarm = None
    <3> HIDE DEF r
    <3> QED
      BY <2>2, AlarmFlags
  <2> HIDE DEF e
  <2> QED
    BY <2>1, <2>3, RequestCalm
<1>5. CASE SetMilestone \/ ResetMilestone
  <2>1. PICK trap \in {"set milestone", "reset milestone"} : ev.record_active /\ Request(trap, ev)
    BY <1>5 DEF SetMilestone, ResetMilestone
  <2> QED
    BY <2>1, RequestCalm
<1>6. CASE PlaybackStart
  <2>1. ~ ev.playback_active /\ Request("playback", ev)
    BY <1>6 DEF PlaybackStart
  <2> QED
    BY <2>1, RequestCalm
<1>7. CASE PlaybackStop
  <2>1. Request("none", PlaybackStopped(ev))
    BY <1>7 DEF PlaybackStop
  <2> QED
    BY <1>2, <2>1, RequestCalm
<1> QED
  BY <1>3, <1>4, <1>5, <1>6, <1>7

LEMMA CalmNext ==
  ASSUME ~ Crowded, HistTyped, Calm, RecordTyped, [HistNext]_histVars
  PROVE  Calm'
<1>1. CASE UNCHANGED histVars
  BY <1>1 DEF Calm, AlarmDue, histVars
<1> QED
  BY <1>1, TrapsCalm, EventAlarmCalm, InputCalm, EndFrameCalm, DoResetCalm, OpcodeCalm, RequestsCalm
  DEF HistNext, Traps

LEMMA HappensIs ==
  ASSUME mach \in MachState, NEW input \in Types
  PROVE  /\ Happens(input).hist = Append(mach.hist, <<mach.time, input>>)
         /\ Happens(input).time = mach.time /\ Happens(input).clk = mach.clk
         /\ Happens(input).frame = mach.frame
BY DEF Happens, MachState

LEMMA HappensRemembered ==
  ASSUME mach \in MachState, Remembers(mach), NEW input \in Types
  PROVE  Remembers(Happens(input))
<1> DEFINE h == mach.hist
           x == <<mach.time, input>>
<1>1. h \in Seq(Nat \X Types) /\ x \in Nat \X Types /\ x[1] = mach.time /\ mach.time \in Nat
      /\ Happens(input).hist = Append(h, x) /\ Happens(input).time = mach.time
  BY HappensIs DEF MachState
<1>2. \A i \in 1 .. Len(h) : h[i][1] <= mach.time
  BY DEF Remembers
<1> HIDE DEF h, x
<1> SUFFICES ASSUME NEW i \in 1 .. Len(Append(h, x)) PROVE Append(h, x)[i][1] <= mach.time
  BY <1>1 DEF Remembers
<1>3. CASE i \in 1 .. Len(h)
  <2>1. Append(h, x)[i] = h[i]
    BY <1>1, <1>3
  <2> QED
    BY <1>2, <1>3, <2>1
<1>4. CASE i = Len(h) + 1
  <2>1. Append(h, x)[i] = x
    BY <1>1, <1>4
  <2> QED
    BY <1>1, <2>1
<1>5. i \in 1 .. Len(h) \/ i = Len(h) + 1
  BY <1>1
<1> QED
  BY <1>3, <1>4, <1>5

LEMMA PowerUpIs ==
  /\ PowerUp \in Base /\ PowerUp # NoMachine
  /\ PowerUp.clk = ResetClk /\ PowerUp.time = 0 /\ PowerUp.hist = <<>> /\ PowerUp.frame = 0
  /\ PowerUp \in MachState /\ Remembers(PowerUp)
<1>1. ResetClk \in 0 .. HistGuardMax - 1
  BY HistNumbers
<1>2. PowerUp.clk = ResetClk /\ PowerUp.time = 0 /\ PowerUp.hist = <<>> /\ PowerUp.frame = 0
      /\ NoMachine.clk = None
  BY DEF PowerUp, NoMachine, Machine
<1>3. PowerUp \in MachState
  <2> DEFINE c == ResetClk
  <2> HIDE DEF c
  <2>1. Machine(c) \in MachState
    BY <1>1, MachineTyped DEF c
  <2> QED
    BY <2>1 DEF c, PowerUp
<1>4. Remembers(PowerUp)
  BY <1>2 DEF Remembers
<1>5. PowerUp # NoMachine
  BY <1>1, <1>2 DEF None
<1> QED
  BY <1>2, <1>3, <1>4, <1>5 DEF Base

LEMMA StartIs ==
  ASSUME NEW c \in 0 .. HistGuardMax - 1
  PROVE  Remembers(Machine(c))
BY DEF Machine, Remembers

(* The machine after each step. *)
LEMMA MachNext ==
  ASSUME HistTyped, [HistNext]_histVars
  PROVE  \/ mach' = mach
         \/ \E input \in Types : mach' = Happens(input)
         \/ mach' = [mach EXCEPT !.clk = @ + 1, !.time = @ + 1, !.frame = @ + 1]
         \/ \E c : mach' = [mach EXCEPT !.clk = c, !.frame = 0]
         \/ mach' = PowerUp
         \/ files.start # NoFile /\ mach' = files.start
         \/ files.end # NoFile /\ mach' = files.end.mach
<1>1. CASE EventAlarm
  BY <1>1 DEF EventAlarm, Types
<1>2. CASE UserReset \/ \E key \in Keys : Input(key)
  BY <1>2 DEF UserReset, Input, Types
<1>3. CASE EndFrame
  <2>1. mach' = [mach EXCEPT !.frame = 0, !.clk = mach.clk - GuardedBy(mach.clk)]
    BY <1>3 DEF EndFrame
  <2>2. mach' = [mach EXCEPT !.clk = mach.clk - GuardedBy(mach.clk), !.frame = 0]
    BY <2>1 DEF HistTyped, MachState
  <2> QED
    BY <2>2
<1>4. CASE DoReset \/ Opcode
  BY <1>4 DEF DoReset, Opcode
<1>5. CASE \/ \E mode \in {"save", "load", "reset", "overwrite"} : RecordStart(mode)
           \/ RecordStop \/ SetMilestone \/ ResetMilestone \/ PlaybackStart \/ PlaybackStop
  BY <1>5 DEF RecordStart, RecordStop, SetMilestone, ResetMilestone, PlaybackStart, PlaybackStop, Request
<1>6. CASE TrapSave \/ TrapReset \/ TrapOverwrite \/ TrapStop \/ TrapSetMilestone
  BY <1>6 DEF TrapSave, TrapReset, TrapOverwrite, TrapStop, TrapSetMilestone
<1>7. CASE TrapLoad \/ TrapResetMilestone
  BY <1>7 DEF TrapLoad, TrapResetMilestone
<1>8. CASE TrapPlayback
  <2> DEFINE s  == ReadModule(IF files.end = NoFile THEN <<>> ELSE files.end.list)
             e  == [ev EXCEPT !.list = s.list, !.next_timestamp_clk = s.ts, !.current = 1]
  <2>1. mach' = mach \/ (files.end # NoFile /\ e.list[1].type = "initial save" /\ mach' = files.start)
    BY <1>8 DEF TrapPlayback
  <2>2. CASE files.end # NoFile /\ e.list[1].type = "initial save" /\ mach' = files.start
    <3>1. ~ ev.record_active /\ s = ReadModule(files.end.list)
      BY <1>8, <2>2 DEF TrapPlayback, HistTyped
    <3>2. e.list = s.list
      BY EvFields, EvIsFields DEF Fields
    <3> HIDE DEF s, e
    <3>3. s.list[1].type = "initial save" => files.start # NoFile
      BY <2>2, <3>1, PlayedTyped
    <3> QED
      BY <2>2, <3>2, <3>3
  <2> QED
    BY <2>1, <2>2
<1>9. CASE UNCHANGED histVars
  BY <1>9 DEF histVars
<1> QED
  BY <1>1, <1>2, <1>3, <1>4, <1>5, <1>6, <1>7, <1>8, <1>9 DEF HistNext

LEMMA FilesNext ==
  ASSUME HistTyped, Calm, [HistNext]_histVars
  PROVE  \/ files' = files
         \/ files' = [files EXCEPT !.start = mach] /\ TrapSave
         \/ files' = [files EXCEPT !.end = EndFile(TRUE)] /\ TrapStop
         \/ files' = [files EXCEPT !.end = EndFile(FALSE)] /\ TrapSetMilestone
<1>1. CASE TrapSave
  BY <1>1 DEF TrapSave
<1>2. CASE TrapStop
  BY <1>2 DEF TrapStop
<1>3. CASE TrapSetMilestone
  BY <1>3 DEF TrapSetMilestone
<1>4. CASE TrapLoad \/ TrapReset \/ TrapOverwrite \/ TrapResetMilestone \/ TrapPlayback
  BY <1>4 DEF TrapLoad, TrapReset, TrapOverwrite, TrapResetMilestone, TrapPlayback
<1>5. CASE \/ \E mode \in {"save", "load", "reset", "overwrite"} : RecordStart(mode)
           \/ RecordStop \/ SetMilestone \/ ResetMilestone \/ PlaybackStart \/ PlaybackStop
  BY <1>5 DEF RecordStart, RecordStop, SetMilestone, ResetMilestone, PlaybackStart, PlaybackStop, Request
<1>6. CASE EventAlarm \/ UserReset \/ EndFrame \/ DoReset \/ Opcode \/ (\E key \in Keys : Input(key))
  BY <1>6 DEF EventAlarm, UserReset, EndFrame, DoReset, Opcode, Input
<1>7. CASE UNCHANGED histVars
  BY <1>7 DEF histVars
<1> QED
  BY <1>1, <1>2, <1>3, <1>4, <1>5, <1>6, <1>7 DEF HistNext

LEMMA RememberedNext ==
  ASSUME HistTyped, Calm, Remembered, [HistNext]_histVars
  PROVE  Remembered'
<1>1. mach \in MachState /\ files = [start |-> files.start, end |-> files.end]
      /\ mach.time \in Nat
  BY DEF HistTyped, Readable, MachState
<1>2. Remembers(mach')
  <2>1. CASE mach' = mach
    BY <2>1 DEF Remembered
  <2>2. CASE \E input \in Types : mach' = Happens(input)
    BY <1>1, <2>2, HappensRemembered DEF Remembered
  <2>3. CASE mach' = [mach EXCEPT !.clk = @ + 1, !.time = @ + 1, !.frame = @ + 1]
    <3>1. mach'.hist = mach.hist /\ mach'.time = mach.time + 1
      BY <1>1, <2>3 DEF MachState
    <3>2. \A i \in 1 .. Len(mach.hist) : mach.hist[i][1] \in Nat
      BY <1>1 DEF MachState
    <3>3. \A i \in 1 .. Len(mach.hist) : mach.hist[i][1] <= mach.time
      BY DEF Remembered, Remembers
    <3> QED
      BY <1>1, <3>1, <3>2, <3>3 DEF Remembers
  <2>4. CASE \E c : mach' = [mach EXCEPT !.clk = c, !.frame = 0]
    <3>1. mach'.hist = mach.hist /\ mach'.time = mach.time
      BY <1>1, <2>4 DEF MachState
    <3> QED
      BY <3>1 DEF Remembered, Remembers
  <2>5. CASE mach' = PowerUp
    BY <2>5, PowerUpIs
  <2>6. CASE \/ files.start # NoFile /\ mach' = files.start
             \/ files.end # NoFile /\ mach' = files.end.mach
    BY <2>6 DEF Remembered
  <2> QED
    BY <2>1, <2>2, <2>3, <2>4, <2>5, <2>6, MachNext
<1>3. \A b : EndFile(b).mach = mach
  BY DEF EndFile
<1> QED
  BY <1>1, <1>2, <1>3, FilesNext DEF Remembered

LEMMA FrontIs ==
  ASSUME NEW S, NEW P \in Seq(S), NEW s \in S
  PROVE  SubSeq(Append(P, s), 1, (Len(P) + 1) - 1) = P
<1>1. Len(P) \in Nat /\ (Len(P) + 1) - 1 = Len(P) /\ Append(P, s) \in Seq(S)
      /\ Len(Append(P, s)) = Len(P) + 1
  OBVIOUS
<1>2. /\ SubSeq(Append(P, s), 1, Len(P)) \in Seq(S)
      /\ Len(SubSeq(Append(P, s), 1, Len(P))) = Len(P)
      /\ \A i \in 1 .. Len(P) : SubSeq(Append(P, s), 1, Len(P))[i] = P[i]
  BY <1>1
<1> QED
  BY <1>1, <1>2

LEMMA PutIs ==
  ASSUME NEW S, NEW P \in Seq(S), NEW s \in S, NEW e \in S
  PROVE  SubSeq(Append(P, s), 1, (Len(P) + 1) - 1) \o <<e, s>> = Append(Append(P, e), s)
<1>1. SubSeq(Append(P, s), 1, (Len(P) + 1) - 1) = P
  BY FrontIs
<1>2. P \o <<e, s>> = Append(Append(P, e), s)
  <2>1. <<e, s>> \in Seq(S) /\ Len(<<e, s>>) = 2 /\ <<e, s>>[1] = e /\ <<e, s>>[2] = s
    OBVIOUS
  <2> DEFINE a == P \o <<e, s>>
             b == Append(Append(P, e), s)
             n == Len(P)
  <2>2. n \in Nat /\ a \in Seq(S) /\ Len(a) = n + 2 /\ \A i \in 1 .. n : a[i] = P[i]
    BY <2>1
  <2>3. a[n + 1] = e /\ a[n + 2] = s
    BY <2>1
  <2>4. b \in Seq(S) /\ Len(b) = n + 2 /\ \A i \in 1 .. n : b[i] = P[i]
    OBVIOUS
  <2>5. b[n + 1] = e /\ b[n + 2] = s
    OBVIOUS
  <2> HIDE DEF a, b, n
  <2>6. \A i \in 1 .. n + 2 : i \in 1 .. n \/ i = n + 1 \/ i = n + 2
    BY <2>2
  <2>7. \A i \in 1 .. n + 2 : a[i] = b[i]
    BY <2>2, <2>3, <2>4, <2>5, <2>6
  <2>8. a = b
    BY <2>2, <2>4, <2>7
  <2> QED
    BY <2>8 DEF a, b
<1> QED
  BY <1>1, <1>2

(* r has the list of events P with one more. *)
OneMoreIn(r, P, x) == r.list = Append(Append(P, x), Sentinel) /\ r.current = Len(P) + 2

LEMMA RecordedIs ==
  ASSUME NEW e, Fields(e), e.record_active, NEW P \in Seq(Event),
         e.list = Append(P, Sentinel), e.current = Len(P) + 1,
         NEW kind, NEW c, NEW x \in Event, x = [type |-> kind, clk |-> c]
  PROVE  OneMoreIn(Recorded(e, kind, c), P, x)
<1> DEFINE l == Put(e.list, e.current, kind, c)
<1>1. l = Append(Append(P, x), Sentinel)
  <2>1. l = SubSeq(Append(P, Sentinel), 1, (Len(P) + 1) - 1) \o <<x, Sentinel>>
    BY DEF Put
  <2> QED
    BY <2>1, PutIs, SentinelTyped
<1>2. \E t : Recorded(e, kind, c) = [e EXCEPT !.list = l, !.current = e.current + 1, !.next_timestamp_clk = t]
  BY DEF Recorded
<1> HIDE DEF l
<1>3. Recorded(e, kind, c).list = l /\ Recorded(e, kind, c).current = e.current + 1
  BY <1>2 DEF Fields
<1>4. e.current + 1 = Len(P) + 2
  OBVIOUS
<1> QED
  BY <1>1, <1>3, <1>4 DEF OneMoreIn

(* A machine between two frames is where its tale is. *)
LEMMA GoesAt ==
  ASSUME NEW q \in Moment, NEW m \in MachState, NEW pc, Runs(q, m, pc), m.frame < HistFrame
  PROVE  At(q, m)
<1>1. m.frame # HistFrame
  BY MoreNumbers DEF MachState
<1> QED
  BY <1>1 DEF Runs, At

LEMMA BeforeAt ==
  ASSUME NEW q \in Moment, NEW p \in Moment, Before(q, p), NEW m \in MachState, At(p, m)
  PROVE  At(q, m)
<1>1. q.at \in Nat /\ p.at \in Nat /\ m.time \in Nat /\ q.at <= p.at
      /\ q.off = p.off /\ q.from = p.from /\ q.hist = p.hist
  BY MomentParts DEF Before, MachState
<1>2. Shows(q, m.time) = Shows(p, m.time) /\ FrameAt(q, m.time) = FrameAt(p, m.time)
  BY <1>1 DEF Shows, FrameAt
<1> QED
  BY <1>1, <1>2 DEF At

LEMMA TaleEnds ==
  ASSUME NEW base, NEW list, NEW G, Tale(base, list, G)
  PROVE  G[Len(list)] \in Moment /\ list[Len(list)] \in Event /\ Len(list) \in Nat /\ Len(list) >= 1
<1>1. /\ Len(list) \in Nat /\ Len(list) >= 1
      /\ \A i \in 1 .. Len(list) : list[i] \in Event /\ G[i] \in Moment
  BY TaleParts
<1>2. Len(list) \in 1 .. Len(list)
  BY <1>1
<1> QED
  BY <1>1, <1>2

Halted == pend.trap = "stop"
Ends == pend.trap \in {"stop", "set milestone"}

LEMMA WrittenFile ==
  ASSUME HistTyped, Calm, NEW P \in Seq(Event), NEW G \in Seq(Moment), RecordTale(P, G),
         Ends
  PROVE  FileTold(EndFile(Halted))
<1> DEFINE q == G[Len(P)]
           stopped == Halted
           f == EndFile(stopped)
<1>1. /\ f.mach = mach /\ f.list = WriteModule(ev.list) /\ f.base = record.base
      /\ f.stopped = stopped
  BY DEF EndFile
<1> HIDE DEF f, stopped
<1>2. /\ pend.pc = "alarms" /\ pend.reset = "none" /\ mach.frame < HistFrame /\ mach \in MachState
  <2>1. pend.pc = "alarms" /\ pend.reset = "none" /\ mach.frame = 0 /\ mach \in MachState
    BY DEF Calm, HistTyped, Ends
  <2>2. mach.frame < HistFrame
    <3>1. mach.frame = 0 /\ HistFrame \in Nat \ {0, 1}
      BY <2>1, MoreNumbers
    <3> QED
      BY <3>1
  <2> QED
    BY <2>1, <2>2
<1>3. /\ ev.list = Append(P, Sentinel) /\ Tale(record.base, P, G)
      /\ P[Len(P)].type = "end" <=> stopped
      /\ stopped => q.at = mach.time
      /\ Runs(q, mach, pend.pc)
  BY <1>2 DEF RecordTale, Reaches, Halted, stopped
<1>10. q \in Moment
  BY <1>3, TaleEnds
<1> HIDE DEF q
<1>4. At(q, mach)
  BY <1>2, <1>3, <1>10, GoesAt
<1>5. PICK W \in Seq(Event), Q \in Seq(Moment) :
        /\ WriteModule(Append(P, Sentinel)) = Append(W, Sentinel)
        /\ Tale(record.base, W, Q)
        /\ \A i \in 1 .. Len(W) : W[i].type # "timestamp"
        /\ Before(Q[Len(W)], q)
        /\ W[Len(W)].type = "end" <=> P[Len(P)].type = "end"
        /\ P[Len(P)].type # "timestamp" => Q[Len(W)].at = q.at
  <2> DEFINE base == record.base
  <2> HIDE DEF base
  <2>1. Tale(base, P, G)
    BY <1>3 DEF base
  <2>2. PICK W \in Seq(Event), Q \in Seq(Moment) : Wrote(base, P, G, W, Q)
    BY <2>1, WrittenTale
  <2> QED
    BY <2>2 DEF Wrote, q, base
<1>6. Q[Len(W)] \in Moment
  BY <1>5, TaleEnds
<1>7. At(Q[Len(W)], mach)
  BY <1>2, <1>3, <1>10, <1>4, <1>5, <1>6, BeforeAt
<1>8. stopped => Q[Len(W)].at = mach.time
  <2>1. ASSUME stopped PROVE Q[Len(W)].at = mach.time
    <3>1. P[Len(P)].type # "timestamp"
      BY <1>3, <2>1
    <3> QED
      BY <1>3, <1>5, <2>1, <3>1
  <2> QED
    BY <2>1
<1>9. FileTale(f, W, Q)
  BY <1>1, <1>3, <1>5, <1>7, <1>8 DEF FileTale
<1> QED
  BY <1>9 DEF FileTold, f, stopped

LEMMA FilesToldNext ==
  ASSUME HistTyped, Calm, FilesTold, RecordTold, [HistNext]_histVars
  PROVE  FilesTold'
<1>1. files = [start |-> files.start, end |-> files.end]
  BY DEF HistTyped, Readable
<1>2. CASE files' = files \/ files' = [files EXCEPT !.start = mach]
  <2>1. files'.end = files.end
    BY <1>1, <1>2
  <2> QED
    BY <2>1 DEF FilesTold
<1>3. ASSUME files' = [files EXCEPT !.end = EndFile(Halted)],
             Ends
      PROVE  FilesTold'
  <2>1. files'.end = EndFile(Halted)
    BY <1>1, <1>3
  <2> SUFFICES ASSUME EndFile(Halted).base # NoMachine PROVE FileTold(EndFile(Halted))
    BY <2>1 DEF FilesTold
  <2>2. ev.record_active /\ record.base # NoMachine
    BY <1>3 DEF Calm, EndFile, Ends
  <2>3. PICK P \in Seq(Event), G \in Seq(Moment) : RecordTale(P, G)
    BY <2>2 DEF RecordTold
  <2> QED
    BY <1>3, <2>3, WrittenFile
<1>4. CASE files' = [files EXCEPT !.end = EndFile(TRUE)] /\ TrapStop
  <2>1. EndFile(TRUE) = EndFile(Halted) /\ pend.trap = "stop"
    BY <1>4 DEF TrapStop, Serve, Halted
  <2> QED
    BY <1>3, <1>4, <2>1 DEF Ends
<1>5. CASE files' = [files EXCEPT !.end = EndFile(FALSE)] /\ TrapSetMilestone
  <2>1. EndFile(FALSE) = EndFile(Halted) /\ pend.trap = "set milestone"
    BY <1>5 DEF TrapSetMilestone, Serve, Halted
  <2> QED
    BY <1>3, <1>5, <2>1 DEF Ends
<1> QED
  BY <1>2, <1>4, <1>5, FilesNext

(* The moment of an event that takes effect at the time t. *)
MomentOf(q, e, t) ==
  [at |-> t, next |-> IF e.type = "reset" THEN t + 1 ELSE t,
   off |-> IF e.type = "overflow" THEN q.off - HistSub
           ELSE IF e.type = "reset" THEN ResetClk - t ELSE q.off,
   from |-> IF e.type = "reset" THEN t ELSE q.from,
   hist |-> IF Reported(e) THEN Append(q.hist, <<t, e.type>>) ELSE q.hist]

LEMMA MomentOfTyped ==
  ASSUME NEW q \in Moment, NEW e \in Event, NEW t \in Nat
  PROVE  MomentOf(q, e, t) \in MomentState
<1> DEFINE next == IF e.type = "reset" THEN t + 1 ELSE t
           off == IF e.type = "overflow" THEN q.off - HistSub
                  ELSE IF e.type = "reset" THEN ResetClk - t ELSE q.off
           from == IF e.type = "reset" THEN t ELSE q.from
           hist == IF Reported(e) THEN Append(q.hist, <<t, e.type>>) ELSE q.hist
<1>1. q.off \in Int /\ q.from \in Nat /\ q.hist \in Seq(Nat \X Types) /\ HistSub \in Int /\ ResetClk \in Int
  BY MomentParts, MoreNumbers
<1>2. next \in Nat /\ off \in Int /\ from \in Nat
  BY <1>1
<1>3. hist \in Seq(Nat \X Types)
  <2>1. e.type \in Types
    BY EventParts
  <2>2. <<t, e.type>> \in Nat \X Types
    BY <2>1
  <2> QED
    BY <1>1, <2>2
<1>4. MomentOf(q, e, t) = [at |-> t, next |-> next, off |-> off, from |-> from, hist |-> hist]
  BY DEF MomentOf
<1> HIDE DEF next, off, from, hist
<1> QED
  BY <1>2, <1>3, <1>4 DEF MomentState

LEMMA MomentOfFollows ==
  ASSUME NEW q \in Moment, NEW e \in Event, NEW t \in Nat, e.type \notin Starts, t >= q.next,
         Shows(q, t) = DueAt(e),
         e.type = "overflow" =>
           FrameAt(q, t) = 0 /\ Shows(q, t) >= HistGuardMax /\ Shows(q, t) < HistGuardMax + HistFrame,
         e.type # "overflow" => Turned(q, t) < HistGuardMax
  PROVE  Follows(e, q, MomentOf(q, e, t))
<1> DEFINE r == MomentOf(q, e, t)
<1>1. /\ r.at = t
      /\ r.next = IF e.type = "reset" THEN r.at + 1 ELSE r.at
      /\ r.off = IF e.type = "overflow" THEN q.off - HistSub
                 ELSE IF e.type = "reset" THEN ResetClk - r.at ELSE q.off
      /\ r.from = IF e.type = "reset" THEN r.at ELSE q.from
      /\ r.hist = IF Reported(e) THEN Append(q.hist, <<r.at, e.type>>) ELSE q.hist
  BY DEF MomentOf
<1> HIDE DEF r
<1>2. DueAt(e) \in Nat
  BY EventParts
<1>3. Shows(q, r.at) >= DueAt(e) /\ ~ (Shows(q, r.at) > DueAt(e)) /\ r.at >= q.next
  BY <1>1, <1>2
<1> QED
  BY <1>1, <1>3 DEF Follows, r

(* The list of the recording grows. *)
LEMMA RecordGrows ==
  ASSUME NEW P \in Seq(Event), NEW G \in Seq(Moment), RecordTale(P, G), ~ Halted,
         NEW e \in Event, NEW r \in MomentState, Follows(e, G[Len(P)], r),
         ev'.list = Append(Append(P, e), Sentinel), ev'.current = Len(P) + 2,
         record'.base = record.base, e.type = "end" <=> Halted',
         Halted' => r.at = mach'.time, Reaches(r, mach', pend')
  PROVE  RecordTold'
<1> DEFINE base == record.base
           X == Append(P, e)
           H == Append(G, r)
<1>1. Tale(base, P, G) /\ P[Len(P)].type # "end"
  BY DEF RecordTale, Halted
<1>2. /\ Tale(base, X, H) /\ X[Len(P) + 1] = e /\ H[Len(P) + 1] = r /\ Len(X) = Len(P) + 1
      /\ r \in Moment
  <2> HIDE DEF base, X, H
  <2>1. Tale(base, Append(P, e), Append(G, r)) /\ r \in Moment
    BY <1>1, TaleGrows
  <2>2. Len(G) = Len(P)
    BY <1>1, TaleParts
  <2>3. Append(P, e)[Len(P) + 1] = e /\ Append(G, r)[Len(P) + 1] = r
        /\ Len(Append(P, e)) = Len(P) + 1
    BY <2>1, <2>2
  <2> QED
    BY <2>1, <2>3 DEF X, H
<1>3. X \in Seq(Event) /\ H \in Seq(Moment)
  <2> HIDE DEF base, X, H
  <2> QED
    BY <1>2, TaleParts
<1>4. (Len(P) + 1) + 1 = Len(P) + 2
  OBVIOUS
<1>5. RecordTale(X, H)'
  <2>1. ev'.list = Append(X, Sentinel) /\ ev'.current = Len(X) + 1 /\ Tale(record'.base, X, H)
    BY <1>2, <1>4
  <2>2. X[Len(X)] = e /\ H[Len(X)] = r
    BY <1>2
  <2> HIDE DEF X, H
  <2>3. X[Len(X)].type = "end" <=> pend'.trap = "stop"
    BY <2>2 DEF Halted
  <2>4. pend'.trap = "stop" => H[Len(X)].at = mach'.time
    BY <2>2 DEF Halted
  <2> QED
    BY <2>1, <2>2, <2>3, <2>4 DEF RecordTale
<1> HIDE DEF X, H
<1> QED
  BY <1>3, <1>5 DEF RecordTold

(* The list of the recording stays. *)
LEMMA RecordStays ==
  ASSUME RecordTold, ev'.record_active => ev.record_active, record'.base = record.base,
         ev'.list = ev.list, ev'.current = ev.current, Halted' <=> Halted,
         Halted => mach'.time = mach.time,
         \A q \in Moment : Reaches(q, mach, pend) => Reaches(q, mach', pend')
  PROVE  RecordTold'
<1> SUFFICES ASSUME ev'.record_active, record'.base # NoMachine
             PROVE  \E P \in Seq(Event), G \in Seq(Moment) : RecordTale(P, G)'
  BY DEF RecordTold
<1>1. PICK P \in Seq(Event), G \in Seq(Moment) : RecordTale(P, G)
  BY DEF RecordTold
<1>2. G[Len(P)] \in Moment
  BY <1>1, TaleEnds DEF RecordTale
<1>3. Reaches(G[Len(P)], mach', pend')
  BY <1>1, <1>2 DEF RecordTale
<1>4. /\ ev'.list = Append(P, Sentinel) /\ ev'.current = Len(P) + 1
      /\ Tale(record'.base, P, G)
  BY <1>1 DEF RecordTale
<1>5. /\ P[Len(P)].type = "end" <=> pend'.trap = "stop"
      /\ pend'.trap = "stop" => G[Len(P)].at = mach'.time
  BY <1>1 DEF RecordTale, Halted
<1>6. RecordTale(P, G)'
  BY <1>3, <1>4, <1>5 DEF RecordTale
<1> QED
  BY <1>6

(* What happens now follows what the machine has come to. *)
LEMMA NowParts ==
  ASSUME NEW q \in Moment, NEW m \in MachState, Runs(q, m, "alarms"), m.frame < HistFrame
  PROVE  /\ m.time \in Nat /\ m.time >= q.at /\ m.time >= q.next /\ m.clk = Shows(q, m.time)
         /\ m.hist = q.hist /\ m.frame = FrameAt(q, m.time)
         /\ Turned(q, m.time) < HistGuardMax
<1>1. /\ m.time >= q.at /\ m.time >= q.next /\ m.clk = Shows(q, m.time) /\ m.hist = q.hist
  BY DEF Runs
<1>2. m.frame = FrameAt(q, m.time)
  BY GoesAt DEF At
<1>3. m.time \in Nat /\ m.clk - m.frame < HistGuardMax
  BY DEF MachState
<1> QED
  BY <1>1, <1>2, <1>3 DEF Turned

LEMMA NowFollows ==
  ASSUME NEW q \in Moment, NEW m \in MachState, Runs(q, m, "alarms"), m.frame < HistFrame,
         NEW e \in Event, e.clk = m.clk, e.type \notin Starts, e.type # "overflow"
  PROVE  Follows(e, q, MomentOf(q, e, m.time)) /\ MomentOf(q, e, m.time) \in MomentState
<1> DEFINE t == m.time
<1>1. t \in Nat /\ t >= q.next /\ m.clk = Shows(q, t) /\ Turned(q, t) < HistGuardMax
  BY NowParts
<1>2. DueAt(e) = m.clk
  BY EventParts DEF DueAt
<1> HIDE DEF t
<1>3. Follows(e, q, MomentOf(q, e, t))
  BY <1>1, <1>2, MomentOfFollows
<1>4. MomentOf(q, e, t) \in MomentState
  BY <1>1, MomentOfTyped
<1> QED
  BY <1>3, <1>4 DEF t

LEMMA Growing ==
  ASSUME HistTyped, Calm, RecordTyped, ev.record_active, NEW P \in Seq(Event), NEW G \in Seq(Moment),
         RecordTale(P, G), NEW kind, NEW c, NEW x \in Event, x = [type |-> kind, clk |-> c]
  PROVE  /\ Recorded(ev, kind, c).list = Append(Append(P, x), Sentinel)
         /\ Recorded(ev, kind, c).current = Len(P) + 2
         /\ Fields(Recorded(ev, kind, c))
<1>1. Fields(ev) /\ ev.list = Append(P, Sentinel) /\ ev.current = Len(P) + 1
  BY CalmParts DEF RecordTale
<1>2. /\ Recorded(ev, kind, c).list = Append(Append(P, x), Sentinel)
      /\ Recorded(ev, kind, c).current = Len(P) + 2
  <2>1. PICK e : e = ev
    OBVIOUS
  <2>2. Fields(e) /\ e.record_active /\ e.list = Append(P, Sentinel) /\ e.current = Len(P) + 1
    BY <1>1, <2>1
  <2>3. OneMoreIn(Recorded(e, kind, c), P, x)
    BY <2>2, RecordedIs
  <2> QED
    BY <2>1, <2>3 DEF OneMoreIn
<1>3. Fields(Recorded(ev, kind, c))
  BY <1>1, RecordedFlags
<1> QED
  BY <1>2, <1>3

LEMMA Grown ==
  ASSUME NEW r, Fields(r), ev' = r \/ ev' = [r EXCEPT !.alarm = None]
  PROVE  ev'.list = r.list /\ ev'.current = r.current
<1>1. CASE ev' = r
  BY <1>1
<1>2. CASE ev' = [r EXCEPT !.alarm = None]
  BY <1>2 DEF Fields
<1> QED
  BY <1>1, <1>2

(* The recording is active after a step only if it was. *)
LEMMA OnlyRecording ==
  ASSUME HistTyped, Calm, RecordTyped, NEW kind, NEW c, ev' = Recorded(ev, kind, c)
  PROVE  ev'.record_active = ev.record_active
BY CalmParts, RecordedFlags

LEMMA InputTold ==
  ASSUME ~ Crowded, HistTyped, Calm, RecordTyped, RecordTold, NEW key \in Keys, Input(key)
  PROVE  RecordTold'
<1> SUFFICES ASSUME ev'.record_active, record'.base # NoMachine PROVE RecordTold'
  BY DEF RecordTold
<1> DEFINE c == mach.clk
           e == [type |-> key, clk |-> c]
<1>1. /\ pend' = pend /\ pend.pc = "alarms" /\ pend.reset = "none" /\ ~ Halted /\ ~ Halted'
      /\ mach.frame < HistFrame /\ mach' = Happens(key) /\ record' = record
      /\ ev' = Recorded(ev, key, c) /\ mach \in MachState
  BY DEF Input, Idle, Halted, HistTyped
<1>2. ev.record_active /\ record.base # NoMachine
  BY <1>1, OnlyRecording
<1>3. PICK P \in Seq(Event), G \in Seq(Moment) : RecordTale(P, G)
  BY <1>2 DEF RecordTold
<1> DEFINE q == G[Len(P)]
           r == MomentOf(q, e, mach.time)
<1>4. q \in Moment /\ Runs(q, mach, "alarms")
  BY <1>1, <1>3, TaleEnds DEF RecordTale, Reaches
<1>5. /\ key \in Types
      /\ key \notin {"end", "reset", "overflow", "timestamp", "initial save", "initial reset"}
  BY KeyTypes DEF Types
<1>6. e \in Event /\ e.clk = c /\ e.type = key
  BY <1>1, <1>5, MachNumbers DEF Event
<1>7. e.type \notin Starts /\ e.type # "overflow" /\ e.type # "reset" /\ e.type # "end" /\ Reported(e)
  BY <1>5, <1>6 DEF Starts, Reported
<1>8. ev'.list = Append(Append(P, e), Sentinel) /\ ev'.current = Len(P) + 2
  <2> HIDE DEF c
  <2>1. e \in Event /\ e = [type |-> key, clk |-> c]
    BY <1>6
  <2> HIDE DEF e
  <2>2. /\ Recorded(ev, key, c).list = Append(Append(P, e), Sentinel)
        /\ Recorded(ev, key, c).current = Len(P) + 2
    BY <1>2, <1>3, <2>1, Growing
  <2> QED
    BY <1>1, <2>2
<1> HIDE DEF q
<1>9. Follows(e, q, r) /\ r \in MomentState
  <2> HIDE DEF e
  <2> QED
    BY <1>1, <1>4, <1>6, <1>7, NowFollows
<1>10. Reaches(r, mach', pend')
  <2>1. /\ mach.time \in Nat /\ mach.time >= q.at /\ mach.clk = Shows(q, mach.time)
        /\ mach.hist = q.hist /\ mach.frame = FrameAt(q, mach.time)
    BY <1>1, <1>4, NowParts
  <2>2. /\ r.at = mach.time /\ r.next = mach.time /\ r.off = q.off /\ r.from = q.from
        /\ r.hist = Append(q.hist, <<mach.time, key>>)
    BY <1>6, <1>7 DEF MomentOf
  <2>3. /\ mach'.hist = Append(mach.hist, <<mach.time, key>>)
        /\ mach'.time = mach.time /\ mach'.clk = mach.clk /\ mach'.frame = mach.frame
    BY <1>1, <1>5, HappensIs
  <2>4. /\ Shows(r, mach.time) = Shows(q, mach.time) /\ FrameAt(r, mach.time) = FrameAt(q, mach.time)
    BY <2>2 DEF Shows, FrameAt
  <2> HIDE DEF r
  <2>5. mach.frame # HistFrame /\ mach.time >= mach.time
    <3>1. mach.frame \in Nat /\ HistFrame \in Nat /\ mach.frame < HistFrame
      BY <1>1, MachNumbers, MoreNumbers
    <3> QED
      BY <2>1, <3>1
  <2>6. Runs(r, mach', "alarms")
    BY <2>1, <2>2, <2>3, <2>4, <2>5 DEF Runs
  <2> QED
    BY <1>1, <2>6 DEF Reaches
<1> HIDE DEF e, r
<1>11. RecordTold'
  <2>1. (e.type = "end" <=> Halted') /\ (Halted' => r.at = mach'.time)
    BY <1>1, <1>7
  <2> QED
    BY <1>1, <1>3, <1>6, <1>8, <1>9, <1>10, <2>1, RecordGrows DEF q
<1> QED
  BY <1>11

LEMMA UserResetTold ==
  ASSUME ~ Crowded, HistTyped, Calm, RecordTyped, RecordTold, UserReset
  PROVE  RecordTold'
<1> SUFFICES ASSUME ev'.record_active, record'.base # NoMachine PROVE RecordTold'
  BY DEF RecordTold
<1> DEFINE c == mach.clk
           kind == "reset"
           e == [type |-> kind, clk |-> c]
<1>1. /\ pend' = [pend EXCEPT !.reset = "soft"] /\ pend.pc = "alarms" /\ pend.reset = "none"
      /\ pend.trap = "none"
      /\ mach.frame < HistFrame /\ mach' = Happens(kind) /\ record' = record
      /\ ev' = Recorded(ev, kind, c) /\ mach \in MachState /\ pend \in PendState
  BY DEF UserReset, Idle, HistTyped
<1>2. ev.record_active /\ record.base # NoMachine
  <2> HIDE DEF c, kind
  <2> QED
    BY <1>1, OnlyRecording
<1>3. PICK P \in Seq(Event), G \in Seq(Moment) : RecordTale(P, G)
  BY <1>2 DEF RecordTold
<1> DEFINE q == G[Len(P)]
           r == MomentOf(q, e, mach.time)
<1>4. q \in Moment /\ Runs(q, mach, "alarms")
  BY <1>1, <1>3, TaleEnds DEF RecordTale, Reaches
<1>5. kind \in Types
  BY DEF Types
<1>6. e \in Event /\ e.clk = c /\ e.type = kind
  BY <1>1, <1>5, MachNumbers DEF Event
<1>7. e.type \notin Starts /\ e.type # "overflow" /\ e.type = "reset" /\ e.type # "end" /\ Reported(e)
  BY <1>6 DEF Starts, Reported
<1>8. ev'.list = Append(Append(P, e), Sentinel) /\ ev'.current = Len(P) + 2
  <2>1. e \in Event /\ e = [type |-> kind, clk |-> c]
    BY <1>6
  <2> HIDE DEF c, kind, e
  <2>2. /\ Recorded(ev, kind, c).list = Append(Append(P, e), Sentinel)
        /\ Recorded(ev, kind, c).current = Len(P) + 2
    BY <1>2, <1>3, <2>1, Growing
  <2> QED
    BY <1>1, <2>2
<1> HIDE DEF q
<1>9. Follows(e, q, r) /\ r \in MomentState
  <2> HIDE DEF e
  <2> QED
    BY <1>1, <1>4, <1>6, <1>7, NowFollows
<1>10. pend'.reset = "soft" /\ ~ Halted /\ ~ Halted'
  BY <1>1 DEF Halted, PendState
<1>11. Reaches(r, mach', pend')
  <2>1. mach.hist = q.hist
    BY <1>4 DEF Runs
  <2>2. /\ r.at = mach.time /\ r.off = ResetClk - mach.time /\ r.from = mach.time
        /\ r.hist = Append(q.hist, <<mach.time, kind>>)
    BY <1>6, <1>7 DEF MomentOf
  <2>3. /\ mach'.hist = Append(mach.hist, <<mach.time, kind>>)
        /\ mach'.time = mach.time /\ mach'.frame = mach.frame
    <3> HIDE DEF kind
    <3> QED
      BY <1>1, <1>5, HappensIs
  <2> HIDE DEF r, kind
  <2> QED
    BY <1>1, <1>10, <2>1, <2>2, <2>3 DEF Reaches
<1> HIDE DEF e, r
<1>12. RecordTold'
  <2>1. (e.type = "end" <=> Halted') /\ (Halted' => r.at = mach'.time)
    BY <1>7, <1>10
  <2> QED
    BY <1>1, <1>3, <1>6, <1>8, <1>9, <1>10, <1>11, <2>1, RecordGrows DEF q
<1> QED
  BY <1>12

LEMMA RecordStopTold ==
  ASSUME ~ Crowded, HistTyped, Calm, RecordTyped, RecordTold, RecordStop
  PROVE  RecordTold'
<1> SUFFICES ASSUME ev'.record_active, record'.base # NoMachine PROVE RecordTold'
  BY DEF RecordTold
<1> DEFINE c == mach.clk
           kind == "end"
           e == [type |-> kind, clk |-> c]
<1>1. /\ pend' = [pend EXCEPT !.trap = IF "stop" = "none" THEN @ ELSE "stop"] /\ pend.pc = "alarms"
      /\ pend.reset = "none" /\ pend.trap = "none"
      /\ mach.frame = 0 /\ mach' = mach /\ record' = [record EXCEPT !.requests = @ + 1]
      /\ ev' = [Recorded(ev, kind, c) EXCEPT !.alarm = None] /\ mach \in MachState /\ pend \in PendState
      /\ ev.record_active
  BY DEF RecordStop, Request, Idle, HistTyped
<1>2. record'.base = record.base /\ record.base # NoMachine
  BY <1>1 DEF RecordTyped
<1>3. PICK P \in Seq(Event), G \in Seq(Moment) : RecordTale(P, G)
  BY <1>1, <1>2 DEF RecordTold
<1> DEFINE q == G[Len(P)]
           r == MomentOf(q, e, mach.time)
<1>4. q \in Moment /\ Runs(q, mach, "alarms")
  BY <1>1, <1>3, TaleEnds DEF RecordTale, Reaches
<1>5. kind \in Types
  BY DEF Types
<1>6. e \in Event /\ e.clk = c /\ e.type = kind
  BY <1>1, <1>5, MachNumbers DEF Event
<1>7. e.type \notin Starts /\ e.type # "overflow" /\ e.type # "reset" /\ e.type = "end" /\ ~ Reported(e)
  BY <1>6, HistAssumption DEF Starts, Reported
<1>8. ev'.list = Append(Append(P, e), Sentinel) /\ ev'.current = Len(P) + 2
  <2>1. e \in Event /\ e = [type |-> kind, clk |-> c]
    BY <1>6
  <2> HIDE DEF c, kind, e
  <2>2. /\ Recorded(ev, kind, c).list = Append(Append(P, e), Sentinel)
        /\ Recorded(ev, kind, c).current = Len(P) + 2
        /\ Fields(Recorded(ev, kind, c))
    BY <1>1, <1>3, <2>1, Growing
  <2>3. ev'.list = Recorded(ev, kind, c).list /\ ev'.current = Recorded(ev, kind, c).current
    BY <1>1, <2>2, Grown
  <2> QED
    BY <2>2, <2>3
<1> HIDE DEF q
<1>13. mach.frame < HistFrame
  <2>1. mach.frame = 0 /\ HistFrame \in Nat \ {0, 1}
    BY <1>1, MoreNumbers
  <2> HIDE DEF e, r, c, kind
  <2> QED
    BY <2>1
<1>9. Follows(e, q, r) /\ r \in MomentState
  <2> HIDE DEF e
  <2> QED
    BY <1>1, <1>4, <1>6, <1>7, <1>13, NowFollows
<1>10. pend'.reset = "none" /\ pend'.pc = "alarms" /\ ~ Halted /\ Halted'
  BY <1>1 DEF Halted, PendState
<1>11. Reaches(r, mach', pend')
  <2>1. /\ mach.time \in Nat /\ mach.time >= q.at /\ mach.clk = Shows(q, mach.time)
        /\ mach.hist = q.hist /\ mach.frame = FrameAt(q, mach.time)
    BY <1>1, <1>4, <1>13, NowParts
  <2>2. /\ r.at = mach.time /\ r.next = mach.time /\ r.off = q.off /\ r.from = q.from
        /\ r.hist = q.hist
    BY <1>7 DEF MomentOf
  <2>4. /\ Shows(r, mach.time) = Shows(q, mach.time) /\ FrameAt(r, mach.time) = FrameAt(q, mach.time)
    BY <2>2 DEF Shows, FrameAt
  <2> HIDE DEF r
  <2>5. mach.frame # HistFrame /\ mach.time >= mach.time
    <3>1. mach.frame \in Nat /\ HistFrame \in Nat /\ mach.frame < HistFrame
      BY <1>1, <1>13, MachNumbers, MoreNumbers
    <3> QED
      BY <2>1, <3>1
  <2>6. Runs(r, mach, "alarms")
    BY <2>1, <2>2, <2>4, <2>5 DEF Runs
  <2> QED
    BY <1>1, <1>10, <2>6 DEF Reaches
<1> HIDE DEF e, r
<1>12. RecordTold'
  <2>1. (e.type = "end" <=> Halted')
    BY <1>7, <1>10
  <2>2. Halted' => r.at = mach'.time
    BY <1>1 DEF r, MomentOf
  <2> QED
    BY <1>1, <1>2, <1>3, <1>6, <1>8, <1>9, <1>10, <1>11, <2>1, <2>2, RecordGrows DEF q
<1> QED
  BY <1>12

(* The fields of ev after the end of a frame. *)
LEMMA EndFrameIs ==
  ASSUME HistTyped, Calm, RecordTyped, EndFrame, NEW sub, sub = GuardedBy(mach.clk),
         NEW c, c = mach.clk - sub, NEW kind, kind = "overflow"
  PROVE  LET e == IF sub = 0 THEN ev ELSE Recorded(ev, kind, c) IN
         /\ ev'.record_active = ev.record_active /\ ev'.playback_active = ev.playback_active
         /\ ev'.reset_ack = ev.reset_ack
         /\ ev'.list = e.list /\ ev'.current = e.current
         /\ ev'.alarm = IF ev.alarm = None THEN None ELSE IF ev.alarm > sub THEN ev.alarm - sub ELSE 0
<1> DEFINE e == IF sub = 0 THEN ev ELSE Recorded(ev, kind, c)
           a == IF e.alarm = None THEN None ELSE IF e.alarm > sub THEN e.alarm - sub ELSE 0
<1>1. Fields(ev)
  BY CalmParts
<1>2. Fields(e) /\ e.playback_active = ev.playback_active /\ e.reset_ack = ev.reset_ack
      /\ e.record_active = ev.record_active /\ e.alarm = ev.alarm
  BY <1>1, RecordedFlags
<1>3. ev' = [e EXCEPT !.alarm = IF @ = None THEN None ELSE IF @ > sub THEN @ - sub ELSE 0,
                      !.next_timestamp_clk = IF @ = 0 THEN 0 ELSE Wrapped(@ - sub)]
  BY DEF EndFrame
<1> HIDE DEF e
<1>4. PICK n : ev' = [e EXCEPT !.alarm = a, !.next_timestamp_clk = n]
  BY <1>3
<1>5. a = IF ev.alarm = None THEN None ELSE IF ev.alarm > sub THEN ev.alarm - sub ELSE 0
  BY <1>2
<1> HIDE DEF a
<1>6. /\ ev'.record_active = e.record_active /\ ev'.playback_active = e.playback_active
      /\ ev'.reset_ack = e.reset_ack /\ ev'.list = e.list /\ ev'.current = e.current /\ ev'.alarm = a
  BY <1>2, <1>4 DEF Fields
<1> QED
  BY <1>2, <1>5, <1>6 DEF e

LEMMA EndFrameMach ==
  ASSUME HistTyped, EndFrame, NEW sub, sub = GuardedBy(mach.clk)
  PROVE  /\ mach.frame = HistFrame /\ mach \in MachState /\ pend.pc = "alarms" /\ pend' = pend
         /\ record' = record
         /\ mach'.frame = 0 /\ mach'.clk = mach.clk - sub /\ mach'.time = mach.time
         /\ mach'.hist = mach.hist
<1>1. /\ mach.frame = HistFrame /\ mach \in MachState /\ pend.pc = "alarms" /\ pend' = pend
      /\ record' = record
      /\ mach' = [mach EXCEPT !.frame = 0, !.clk = mach.clk - sub]
  BY DEF EndFrame, HistTyped
<1> QED
  BY <1>1 DEF MachState

LEMMA GuardIs ==
  ASSUME NEW m \in MachState, m.frame = HistFrame, NEW sub, sub = GuardedBy(m.clk)
  PROVE  /\ m.clk \in Nat /\ m.clk <= Latest /\ sub \in Nat /\ sub <= m.clk /\ m.clk - sub \in 0 .. Latest
         /\ (sub = 0 /\ m.clk < HistGuardMax) \/ (sub = HistSub /\ m.clk >= HistGuardMax)
         /\ m.clk < HistGuardMax + HistFrame
<1>1. sub \in Nat /\ sub <= m.clk /\ m.clk - sub \in 0 .. Latest /\ m.clk \in 0 .. Latest /\ m.clk \in Nat
  BY GuardedBounds, MachNumbers
<1>2. (sub = 0 /\ m.clk < HistGuardMax) \/ (sub = HistSub /\ m.clk >= HistGuardMax)
  BY <1>1, HistNumbers DEF GuardedBy
<1>3. m.clk < HistGuardMax + HistFrame
  BY MachNumbers, HistNumbers
<1> QED
  BY <1>1, <1>2, <1>3

LEMMA EndFrameTold ==
  ASSUME HistTyped, Calm, RecordTyped, RecordTold, EndFrame
  PROVE  RecordTold'
<1> SUFFICES ASSUME ev'.record_active, record'.base # NoMachine PROVE RecordTold'
  BY DEF RecordTold
<1> DEFINE sub == GuardedBy(mach.clk)
           c == mach.clk - sub
           kind == "overflow"
           e == [type |-> kind, clk |-> c]
           t == mach.time
<1>1. /\ mach.frame = HistFrame /\ mach \in MachState /\ pend.pc = "alarms" /\ pend' = pend
      /\ record' = record
      /\ mach'.frame = 0 /\ mach'.clk = c /\ mach'.time = t /\ mach'.hist = mach.hist
  BY EndFrameMach
<1>2. LET x == IF sub = 0 THEN ev ELSE Recorded(ev, kind, c) IN
      /\ ev'.record_active = ev.record_active /\ ev'.list = x.list /\ ev'.current = x.current
  BY EndFrameIs
<1>3. /\ mach.clk \in Nat /\ mach.clk <= Latest /\ sub \in Nat /\ sub <= mach.clk /\ c \in 0 .. Latest
      /\ (sub = 0 /\ mach.clk < HistGuardMax) \/ (sub = HistSub /\ mach.clk >= HistGuardMax)
      /\ mach.clk < HistGuardMax + HistFrame
  BY <1>1, GuardIs
<1>4. ev.record_active /\ record.base # NoMachine
  BY <1>1, <1>2
<1>5. PICK P \in Seq(Event), G \in Seq(Moment) : RecordTale(P, G)
  BY <1>4 DEF RecordTold
<1> DEFINE q == G[Len(P)]
<1>6. /\ pend.reset # "power" /\ mach.frame # 0 /\ ~ Halted
  BY <1>1, MoreNumbers DEF Calm, Halted
<1>7. pend.reset = "none" /\ q \in Moment /\ Runs(q, mach, "alarms")
  <2>1. Reaches(q, mach, pend) /\ q \in Moment
    BY <1>5, TaleEnds DEF RecordTale
  <2> HIDE DEF q
  <2>2. pend.reset # "soft"
    <3>1. ~ (mach.frame < HistFrame)
      BY <1>1, MachNumbers
    <3> QED
      BY <2>1, <3>1 DEF Reaches
  <2>3. pend.reset \in {"none", "soft", "power"}
    BY EvFields DEF PendState
  <2> QED
    BY <1>1, <1>6, <2>1, <2>2, <2>3 DEF Reaches
<1>8. /\ t \in Nat /\ t >= q.at /\ t >= q.next /\ mach.clk = Shows(q, t) /\ mach.hist = q.hist
      /\ FrameAt(q, t) = 0
  <2> HIDE DEF q
  <2> QED
    BY <1>1, <1>7 DEF Runs, MachState
<1>9. CASE sub = 0
  <2>1. ev'.list = ev.list /\ ev'.current = ev.current
    BY <1>2, <1>9
  <2>2. mach'.clk = mach.clk
    BY <1>1, <1>3, <1>9
  <2>3. ASSUME NEW p \in Moment, Reaches(p, mach, pend) PROVE Reaches(p, mach', pend')
    <3>1. Runs(p, mach, "alarms")
      BY <1>1, <1>7, <2>3 DEF Reaches
    <3>2. FrameAt(p, mach.time) = 0
      BY <1>1, <3>1 DEF Runs
    <3>3. 0 # HistFrame
      BY MoreNumbers
    <3>4. Runs(p, mach', "alarms")
      BY <1>1, <2>2, <3>1, <3>2, <3>3 DEF Runs
    <3> QED
      BY <1>1, <1>7, <3>4 DEF Reaches
  <2> HIDE DEF sub, c, q
  <2> QED
    BY <1>1, <1>2, <2>1, <2>3, RecordStays DEF Halted
<1>10. CASE sub # 0
  <2>1. sub = HistSub /\ mach.clk >= HistGuardMax
    BY <1>3, <1>10
  <2>2. /\ e \in Event /\ e.clk = c /\ e.type = kind /\ kind \in Types
    <3>1. kind \in Types
      BY DEF Types
    <3> HIDE DEF kind, c
    <3> QED
      BY <1>3, <3>1 DEF Event
  <2>3. e.type \notin Starts /\ e.type = "overflow" /\ e.type # "reset" /\ e.type # "end" /\ ~ Reported(e)
    BY <2>2, HistAssumption DEF Starts, Reported
  <2>4. ev'.list = Append(Append(P, e), Sentinel) /\ ev'.current = Len(P) + 2
    <3>1. e \in Event /\ e = [type |-> kind, clk |-> c]
      BY <2>2
    <3> HIDE DEF c, kind, e, sub
    <3>2. /\ Recorded(ev, kind, c).list = Append(Append(P, e), Sentinel)
          /\ Recorded(ev, kind, c).current = Len(P) + 2
      BY <1>4, <1>5, <3>1, Growing
    <3> QED
      BY <1>2, <1>10, <3>2
  <2> DEFINE r == MomentOf(q, e, t)
  <2> HIDE DEF q
  <2>5. Follows(e, q, r) /\ r \in MomentState
    <3>1. DueAt(e) = Shows(q, t)
      <4>1. DueAt(e) = c + HistSub
        BY <2>2, <2>3 DEF DueAt
      <4>2. c + HistSub = mach.clk
        BY <1>3, <2>1
      <4> QED
        BY <1>8, <4>1, <4>2
    <3>2. Shows(q, t) >= HistGuardMax /\ Shows(q, t) < HistGuardMax + HistFrame
      BY <1>3, <1>8, <2>1
    <3> HIDE DEF e, t
    <3>3. e.type # "overflow" => Turned(q, t) < HistGuardMax
      BY <2>3
    <3>4. Follows(e, q, MomentOf(q, e, t))
      BY <1>7, <1>8, <2>2, <2>3, <3>1, <3>2, <3>3, MomentOfFollows
    <3>5. MomentOf(q, e, t) \in MomentState
      BY <1>7, <1>8, <2>2, MomentOfTyped
    <3> QED
      BY <3>4, <3>5
  <2>6. Reaches(r, mach', pend')
    <3>1. /\ r.at = t /\ r.next = t /\ r.off = q.off - HistSub /\ r.from = q.from
          /\ r.hist = q.hist
      BY <2>3 DEF MomentOf
    <3> HIDE DEF r
    <3>2. Shows(r, t) = c
      <4>1. Shows(r, t) = t + (q.off - HistSub) /\ Shows(q, t) = t + q.off /\ q.off \in Int
        BY <1>7, <3>1, MomentParts DEF Shows
      <4>2. c = (t + q.off) - HistSub
        BY <1>8, <2>1, <4>1
      <4> HIDE DEF c
      <4> QED
        BY <1>8, <4>1, <4>2, MoreNumbers
    <3>3. FrameAt(r, t) = 0 /\ t >= t /\ 0 # HistFrame
      <4>1. FrameAt(r, t) = FrameAt(q, t)
        BY <3>1 DEF FrameAt
      <4> QED
        BY <1>8, <4>1, MoreNumbers
    <3> HIDE DEF c, t
    <3>4. Runs(r, mach', "alarms")
      BY <1>1, <1>8, <3>1, <3>2, <3>3 DEF Runs
    <3> QED
      BY <1>1, <1>7, <3>4 DEF Reaches
  <2> HIDE DEF e, r
  <2>7. (e.type = "end" <=> Halted') /\ (Halted' => r.at = mach'.time)
    <3>1. ~ Halted'
      BY <1>1, <1>6 DEF Halted
    <3> QED
      BY <2>3, <3>1
  <2> QED
    BY <1>1, <1>5, <1>6, <2>2, <2>4, <2>5, <2>6, <2>7, RecordGrows DEF q
<1> QED
  BY <1>9, <1>10

(* An opcode takes the machine along its tale. *)
LEMMA OpcodeGoes ==
  ASSUME NEW q \in Moment, NEW m \in MachState, NEW pc, Runs(q, m, pc), m.frame < HistFrame,
         NEW n, n.time = m.time + 1, n.clk = m.clk + 1, n.frame = m.frame + 1, n.hist = m.hist
  PROVE  Runs(q, n, "alarms")
<1> DEFINE t == m.time
           f == m.frame
<1>1. /\ t \in Nat /\ q.at \in Nat /\ q.next \in Nat /\ q.from \in Nat /\ q.off \in Int
      /\ q.from <= q.at /\ q.next \in {q.at, q.at + 1} /\ f \in Nat /\ HistFrame \in Nat
  BY MomentParts, MachNumbers, MoreNumbers
<1>2. /\ t >= q.at /\ m.clk = Shows(q, t) /\ m.hist = q.hist
  BY DEF Runs
<1>3. f = FrameAt(q, t)
  BY GoesAt DEF At
<1>4. t + 1 >= q.at /\ t + 1 >= q.next /\ t >= q.from
  BY <1>1, <1>2
<1>5. m.clk + 1 = Shows(q, t + 1)
  BY <1>1, <1>2 DEF Shows
<1>6. /\ FrameAt(q, t + 1) = IF FrameAt(q, t) + 1 = HistFrame THEN 0 ELSE FrameAt(q, t) + 1
  BY <1>1, <1>4, FrameGoesOn
<1>7. f + 1 \in {FrameAt(q, t + 1), HistFrame} /\ (f + 1 = HistFrame => FrameAt(q, t + 1) = 0)
  BY <1>3, <1>6
<1> QED
  BY <1>2, <1>4, <1>5, <1>7 DEF Runs

LEMMA OpcodeMach ==
  ASSUME HistTyped, Calm, Opcode
  PROVE  /\ mach \in MachState /\ mach.frame < HistFrame /\ pend.reset = "none"
         /\ ev' = ev /\ record' = record /\ files' = files
         /\ mach'.time = mach.time + 1 /\ mach'.clk = mach.clk + 1 /\ mach'.frame = mach.frame + 1
         /\ mach'.hist = mach.hist
         /\ pend'.trap = pend.trap /\ pend'.reset = "none" /\ pend'.pc = "alarms"
<1>1. /\ mach \in MachState /\ pend \in PendState /\ pend' = [pend EXCEPT !.pc = "alarms"]
      /\ mach' = [mach EXCEPT !.clk = @ + 1, !.time = @ + 1, !.frame = @ + 1]
      /\ ev' = ev /\ record' = record /\ files' = files
  BY DEF Opcode, HistTyped
<1>2. pend.reset = "none" /\ mach.frame < HistFrame
  BY DEF Opcode, Calm, HistTyped, AlarmsDone
<1>3. /\ mach'.time = mach.time + 1 /\ mach'.clk = mach.clk + 1 /\ mach'.frame = mach.frame + 1
      /\ mach'.hist = mach.hist
  BY <1>1 DEF MachState
<1>4. pend'.trap = pend.trap /\ pend'.reset = pend.reset /\ pend'.pc = "alarms"
  BY <1>1 DEF PendState
<1> QED
  BY <1>1, <1>2, <1>3, <1>4

LEMMA OpcodeTold ==
  ASSUME HistTyped, Calm, RecordTold, Opcode
  PROVE  RecordTold'
<1>1. /\ mach \in MachState /\ mach.frame < HistFrame /\ pend.reset = "none"
      /\ ev' = ev /\ record' = record
      /\ mach'.time = mach.time + 1 /\ mach'.clk = mach.clk + 1 /\ mach'.frame = mach.frame + 1
      /\ mach'.hist = mach.hist
      /\ pend'.trap = pend.trap /\ pend'.reset = "none" /\ pend'.pc = "alarms"
  BY OpcodeMach
<1>2. ASSUME NEW q \in Moment, Reaches(q, mach, pend) PROVE Reaches(q, mach', pend')
  <2>1. Runs(q, mach, pend.pc)
    BY <1>1, <1>2 DEF Reaches
  <2>2. Runs(q, mach', "alarms")
    BY <1>1, <2>1, OpcodeGoes
  <2> QED
    BY <1>1, <2>2 DEF Reaches
<1>3. ~ Halted /\ ~ Halted'
  <2>1. pend.trap = "none"
    BY DEF Opcode, Calm
  <2> QED
    BY <1>1, <2>1 DEF Halted
<1> QED
  BY <1>1, <1>2, <1>3, RecordStays

LEMMA DoResetIs ==
  ASSUME HistTyped, Calm, DoReset
  PROVE  /\ ev' = ResetAcked(ev, ResetClk) /\ record' = record /\ files' = files
         /\ pend.trap = "none" /\ pend.reset \in {"soft", "power"}
         /\ pend'.trap = "none" /\ pend'.reset = "none" /\ pend'.pc = "opcode"
         /\ pend.reset = "power" => mach' = PowerUp
         /\ pend.reset = "soft" => /\ mach'.clk = ResetClk /\ mach'.frame = 0 /\ mach'.time = mach.time
                                   /\ mach'.hist = mach.hist
         /\ mach' \in MachState /\ mach'.frame = 0 /\ mach'.clk = ResetClk
<1>1. /\ ev' = ResetAcked(ev, ResetClk) /\ record' = record /\ files' = files
      /\ pend \in PendState /\ mach \in MachState
      /\ pend' = [pend EXCEPT !.reset = "none", !.pc = "opcode"]
      /\ mach' = IF pend.reset = "power" THEN PowerUp ELSE [mach EXCEPT !.clk = ResetClk, !.frame = 0]
  BY DEF DoReset, HistTyped
<1>2. pend.trap = "none" /\ pend.reset # "none"
  BY DEF DoReset, Calm
<1>3. pend.reset \in {"soft", "power"} /\ pend'.reset = "none" /\ pend'.pc = "opcode"
      /\ pend'.trap = pend.trap
  BY <1>1, <1>2 DEF PendState
<1>4. CASE pend.reset = "power"
  BY <1>1, <1>2, <1>3, <1>4, PowerUpIs
<1>5. CASE pend.reset = "soft"
  <2>1. mach' = [mach EXCEPT !.clk = ResetClk, !.frame = 0]
    BY <1>1, <1>5
  <2>2. /\ mach'.clk = ResetClk /\ mach'.frame = 0 /\ mach'.time = mach.time /\ mach'.hist = mach.hist
    BY <1>1, <2>1 DEF MachState
  <2>3. mach' \in MachState
    <3> DEFINE c == ResetClk
    <3>1. c \in HistClocks /\ 0 \in 0 .. HistFrame /\ c - 0 < HistGuardMax
      BY HistNumbers DEF HistClocks
    <3> HIDE DEF c
    <3>2. mach.time \in Nat
      BY <1>1 DEF MachState
    <3>3. [mach EXCEPT !.clk = c, !.frame = 0] \in MachState
      BY <1>1, <3>1, <3>2, MachSet
    <3> QED
      BY <2>1, <3>3 DEF c
  <2> QED
    BY <1>1, <1>2, <1>3, <1>5, <2>2, <2>3
<1> QED
  BY <1>3, <1>4, <1>5

LEMMA ResetKeepsPlace ==
  ASSUME NEW e, Fields(e), e.reset_ack \in BOOLEAN, e.list # <<>>, e.list[e.current].type # "reset", NEW clk
  PROVE  /\ ResetAcked(e, clk).current = e.current
         /\ ~ e.record_active => ResetAcked(e, clk) = Acked(e, clk)
<1> DEFINE a == Acked(e, clk)
<1>1. Fields(a) /\ a.list = e.list /\ a.current = e.current
  BY AckedFlags
<1> HIDE DEF a
<1>2. Skipped(a, clk) = a
  BY <1>1 DEF Skipped
<1>3. ResetAcked(e, clk) = IF e.record_active THEN [a EXCEPT !.alarm = e.next_timestamp_clk] ELSE a
  BY <1>2, ResetAckedIs DEF a
<1>4. [a EXCEPT !.alarm = e.next_timestamp_clk].current = a.current
  BY <1>1 DEF Fields
<1> QED
  BY <1>1, <1>3, <1>4 DEF a

LEMMA DoResetTold ==
  ASSUME HistTyped, Calm, RecordTyped, RecordTold, DoReset
  PROVE  RecordTold'
<1> SUFFICES ASSUME ev'.record_active, record'.base # NoMachine PROVE RecordTold'
  BY DEF RecordTold
<1>1. /\ ev' = ResetAcked(ev, ResetClk) /\ record' = record
      /\ pend.trap = "none" /\ pend.reset \in {"soft", "power"}
      /\ pend'.trap = "none" /\ pend'.reset = "none" /\ pend'.pc = "opcode"
      /\ pend.reset = "power" => mach' = PowerUp
      /\ pend.reset = "soft" => /\ mach'.clk = ResetClk /\ mach'.frame = 0 /\ mach'.time = mach.time
                                /\ mach'.hist = mach.hist
  BY DoResetIs
<1>2. /\ Fields(ev) /\ ev.reset_ack \in BOOLEAN /\ (ev.list = <<>> => ~ ev.reset_ack)
  BY CalmParts
<1>3. ev'.record_active = ev.record_active /\ ev'.list = ev.list
  <2> DEFINE c == ResetClk
  <2> HIDE DEF c
  <2>1. ResetAcked(ev, c).record_active = ev.record_active /\ ResetAcked(ev, c).list = ev.list
    BY <1>2, ResetFlags
  <2> QED
    BY <1>1, <2>1 DEF c
<1>4. PICK P \in Seq(Event), G \in Seq(Moment) : RecordTale(P, G)
  BY <1>1, <1>3 DEF RecordTold
<1>5. ev'.current = ev.current
  <2>1. ev.list = Append(P, Sentinel) /\ ev.current = Len(P) + 1
    BY <1>4 DEF RecordTale
  <2>2. ev.list # <<>> /\ ev.list[ev.current] = Sentinel
    BY <2>1, SentinelTyped
  <2>3. ev.list[ev.current].type # "reset"
    BY <2>2, SentinelTyped
  <2> DEFINE c == ResetClk
  <2> HIDE DEF c
  <2>4. ResetAcked(ev, c).current = ev.current
    BY <1>2, <2>2, <2>3, ResetKeepsPlace
  <2> QED
    BY <1>1, <2>4 DEF c
<1>6. ASSUME NEW q \in Moment, Reaches(q, mach, pend) PROVE Reaches(q, mach', pend')
  <2>1. q.at \in Nat /\ q.from \in Nat /\ q.off \in Int /\ HistFrame # 0 /\ ResetClk \in Nat
    BY MomentParts, MoreNumbers
  <2>2. FrameAt(q, q.from) = 0
    BY <2>1, FrameGoesOn
  <2>3. CASE pend.reset = "soft"
    <3>1. mach.time = q.at /\ mach.hist = q.hist /\ q.off = ResetClk - q.at /\ q.from = q.at
      BY <1>6, <2>3 DEF Reaches
    <3>2. Shows(q, q.at) = ResetClk
      BY <2>1, <3>1 DEF Shows
    <3>3. Runs(q, mach', "opcode")
      BY <1>1, <2>1, <2>2, <2>3, <3>1, <3>2 DEF Runs
    <3> QED
      BY <1>1, <3>3 DEF Reaches
  <2>4. CASE pend.reset = "power"
    <3>1. q = Beginning(PowerUp) /\ mach' = PowerUp
      BY <1>1, <1>6, <2>4 DEF Reaches
    <3>2. q.at = 0 /\ q.off = ResetClk - 0 /\ q.from = 0 /\ q.hist = <<>>
      BY <3>1, PowerUpIs DEF Beginning
    <3>3. Shows(q, 0) = ResetClk
      BY <2>1, <3>2 DEF Shows
    <3>4. Runs(q, mach', "opcode")
      BY <2>1, <2>2, <3>1, <3>2, <3>3, PowerUpIs DEF Runs
    <3> QED
      BY <1>1, <3>4 DEF Reaches
  <2> QED
    BY <1>1, <2>3, <2>4
<1>7. ~ Halted /\ ~ Halted'
  BY <1>1 DEF Halted
<1> QED
  BY <1>1, <1>3, <1>5, <1>6, <1>7, RecordStays

LEMMA EventAlarmTold ==
  ASSUME HistTyped, Calm, RecordTyped, RecordTold, EventAlarm
  PROVE  RecordTold'
<1> SUFFICES ASSUME ev'.record_active PROVE RecordTold'
  BY DEF RecordTold
<1>1. ev.record_active /\ Fields(ev)
  BY EventAlarmFlags, CalmParts
<1>2. /\ mach' = mach /\ pend' = pend /\ record' = record
      /\ ev' = [ev EXCEPT !.next_timestamp_clk = Wrapped(@ + Second),
                          !.alarm = Wrapped(ev.next_timestamp_clk + Second)]
  BY <1>1 DEF EventAlarm
<1>3. ev'.list = ev.list /\ ev'.current = ev.current
  BY <1>1, <1>2 DEF Fields
<1> QED
  BY <1>1, <1>2, <1>3, RecordStays DEF Halted

LEMMA RequestTold ==
  ASSUME ~ Crowded, HistTyped, Calm, RecordTyped, RecordTold, NEW trap, NEW e, Request(trap, e),
         trap # "stop", e.list = ev.list, e.current = ev.current, e.record_active = ev.record_active
  PROVE  RecordTold'
<1>1. /\ pend.trap = "none" /\ ev' = e /\ mach' = mach /\ pend \in PendState
      /\ pend' = [pend EXCEPT !.trap = IF trap = "none" THEN @ ELSE trap]
      /\ record' = [record EXCEPT !.requests = @ + 1]
  BY DEF Request, Idle, HistTyped
<1>2. record'.base = record.base
  BY <1>1 DEF RecordTyped
<1>3. pend'.pc = pend.pc /\ pend'.reset = pend.reset /\ ~ Halted /\ ~ Halted'
  BY <1>1 DEF PendState, Halted
<1>4. \A q \in Moment : Reaches(q, mach, pend) => Reaches(q, mach', pend')
  BY <1>1, <1>3 DEF Reaches
<1> QED
  BY <1>1, <1>2, <1>3, <1>4, RecordStays

LEMMA RequestsTold ==
  ASSUME ~ Crowded, HistTyped, Calm, RecordTyped, RecordTold,
         \/ \E mode \in {"save", "load", "reset", "overwrite"} : RecordStart(mode)
         \/ RecordStop \/ SetMilestone \/ ResetMilestone \/ PlaybackStart \/ PlaybackStop
  PROVE  RecordTold'
<1>1. LET e == PlaybackStopped(ev) IN
      e.list = ev.list /\ e.current = ev.current /\ e.record_active = ev.record_active
  BY CalmParts, StoppedFlags
<1>2. ASSUME NEW mode \in {"save", "load", "reset", "overwrite"}, RecordStart(mode)
      PROVE  RecordTold'
  <2>1. PICK e \in {PlaybackStopped(ev), ev} : Request(mode, e)
    BY <1>2 DEF RecordStart
  <2>2. mode # "stop"
    OBVIOUS
  <2>3. e.list = ev.list /\ e.current = ev.current /\ e.record_active = ev.record_active
    BY <1>1, <2>1
  <2> QED
    BY <2>1, <2>2, <2>3, RequestTold
<1>3. CASE RecordStop
  BY <1>3, RecordStopTold
<1>4. CASE SetMilestone \/ ResetMilestone \/ PlaybackStart
  <2>1. PICK trap \in {"set milestone", "reset milestone", "playback"} : Request(trap, ev)
    BY <1>4 DEF SetMilestone, ResetMilestone, PlaybackStart
  <2>2. trap # "stop"
    BY <2>1
  <2> QED
    BY <2>1, <2>2, RequestTold
<1>5. CASE PlaybackStop
  <2>1. Request("none", PlaybackStopped(ev))
    BY <1>5 DEF PlaybackStop
  <2> QED
    BY <1>1, <2>1, RequestTold
<1> QED
  BY <1>2, <1>3, <1>4, <1>5

LEMMA SetMilestoneTold ==
  ASSUME HistTyped, Calm, RecordTyped, RecordTold, TrapSetMilestone
  PROVE  RecordTold'
<1>1. /\ pend.pc = "alarms" /\ pend.reset = "none" /\ pend'.trap = "none"
      /\ pend.trap = "set milestone" /\ mach' = mach /\ record' = record
      /\ pend' = Served
  BY TrapServes DEF TrapSetMilestone, Serve, Traps
<1>2. pend'.reset = "none" /\ pend'.pc = "opcode"
  <2>1. pend \in PendState
    BY DEF HistTyped
  <2> QED
    BY <1>1, <2>1 DEF Served, PendState
<1>3. ev'.list = ev.list /\ ev'.current = ev.current /\ ev'.record_active = ev.record_active
  <2>1. Fields(ev)
    BY CalmParts
  <2>2. ev' = ev \/ ev' = [ev EXCEPT !.milestone = ev.next_timestamp_clk]
    BY DEF TrapSetMilestone
  <2> QED
    BY <2>1, <2>2 DEF Fields
<1>4. ASSUME NEW q \in Moment, Reaches(q, mach, pend) PROVE Reaches(q, mach', pend')
  <2>1. Runs(q, mach, "alarms")
    BY <1>1, <1>4 DEF Reaches
  <2>2. Runs(q, mach, "opcode")
    BY <2>1 DEF Runs
  <2> QED
    BY <1>1, <1>2, <2>2 DEF Reaches
<1>5. ~ Halted /\ ~ Halted'
  BY <1>1 DEF Halted
<1> QED
  BY <1>1, <1>3, <1>4, <1>5, RecordStays

-----------------------------------------------------------------------------
(* New lists. *)

LEMMA BeginningTyped ==
  ASSUME NEW base \in Base
  PROVE  LET q == Beginning(base) IN
         /\ q \in Moment /\ Shows(q, base.time) = base.clk /\ FrameAt(q, base.time) = 0
         /\ q.at = base.time /\ q.next = base.time + 1 /\ q.hist = base.hist /\ q.from = base.time
<1> DEFINE q == Beginning(base)
<1>1. /\ base \in MachState /\ base.frame = 0 /\ base.time \in Nat /\ base.clk \in Nat
      /\ base.hist \in Seq(Nat \X Types) /\ base.clk - base.frame < HistGuardMax
      /\ \A i \in 1 .. Len(base.hist) : base.hist[i][1] <= base.time
  BY MachNumbers DEF Base, MachState, Remembers
<1>2. /\ q.at = base.time /\ q.next = base.time + 1 /\ q.off = base.clk - base.time
      /\ q.from = base.time /\ q.hist = base.hist
      /\ q = [at |-> q.at, next |-> q.next, off |-> q.off, from |-> q.from, hist |-> q.hist]
  BY DEF Beginning
<1> HIDE DEF q
<1>3. q \in MomentState
  BY <1>1, <1>2 DEF MomentState
<1>4. Shows(q, q.at) = base.clk
  BY <1>1, <1>2 DEF Shows
<1>5. FrameAt(q, q.at) = 0
  <2>1. q.at - q.from = 0 /\ HistFrame \in Nat \ {0, 1} /\ 0 \in Nat
    BY <1>1, <1>2, MoreNumbers
  <2>2. 0 % HistFrame = 0
    BY <2>1, ModStep
  <2> QED
    BY <2>1, <2>2 DEF FrameAt
<1>6. Turned(q, q.at) < HistGuardMax
  BY <1>1, <1>4, <1>5 DEF Turned
<1>7. q \in Moment
  BY <1>1, <1>2, <1>3, <1>4, <1>6 DEF Moment
<1> QED
  BY <1>2, <1>4, <1>5, <1>7 DEF q

LEMMA NewTale ==
  ASSUME NEW e \in Event, NEW base, Begins(e, base)
  PROVE  Tale(base, <<e>>, <<Beginning(base)>>)
<1>1. Beginning(base) \in Moment
  BY BeginningTyped DEF Begins
<1> DEFINE q == Beginning(base)
           l == <<e>>
           G == <<q>>
<1> HIDE DEF q
<1>2. /\ l \in Seq(Event) /\ G \in Seq(Moment) /\ Len(l) = 1 /\ Len(G) = 1 /\ l[1] = e /\ G[1] = q
  BY <1>1 DEF q
<1>3. 1 .. Len(l) - 1 = {}
  BY <1>2
<1> HIDE DEF l, G
<1>4. Tale(base, l, G)
  BY <1>2, <1>3 DEF Tale, q
<1> QED
  BY <1>4 DEF l, G, q

LEMMA OneOf ==
  ASSUME NEW S, NEW e \in S, NEW s \in S
  PROVE  /\ <<e>> \in Seq(S) /\ Len(<<e>>) = 1 /\ <<e>>[1] = e /\ Append(<<e>>, s) = <<e, s>>
         /\ Len(<<e>>) + 1 = 2
<1> DEFINE P == <<e>>
<1>1. P \in Seq(S) /\ Len(P) = 1 /\ P[1] = e
  OBVIOUS
<1>2. Append(<<e>>, s) = <<e, s>>
  <2>1. /\ <<e, s>> \in Seq(S) /\ Len(<<e, s>>) = 2 /\ <<e, s>>[1] = e /\ <<e, s>>[2] = s
    OBVIOUS
  <2> DEFINE b == <<e, s>>
             a == Append(P, s)
  <2>2. b \in Seq(S) /\ Len(b) = 2 /\ b[1] = e /\ b[2] = s
    BY <2>1
  <2> HIDE DEF b, P
  <2>3. a \in Seq(S) /\ Len(a) = 2 /\ a[1] = e /\ a[2] = s
    <3>1. Append(P, s) \in Seq(S) /\ Len(Append(P, s)) = Len(P) + 1
          /\ Append(P, s)[1] = P[1] /\ Append(P, s)[Len(P) + 1] = s
      <4>1. 1 \in 1 .. Len(P) /\ P \in Seq(S)
        BY <1>1
      <4>2. /\ Append(P, s) \in Seq(S) /\ Len(Append(P, s)) = Len(P) + 1
            /\ \A i \in 1 .. Len(P) : Append(P, s)[i] = P[i]
            /\ Append(P, s)[Len(P) + 1] = s
        BY <4>1, AppendProperties
      <4> QED
        BY <4>1, <4>2
    <3>2. Len(P) + 1 = 2
      BY <1>1
    <3> QED
      BY <1>1, <3>1, <3>2
  <2> HIDE DEF a
  <2>4. \A i \in 1 .. 2 : a[i] = b[i]
    BY <2>2, <2>3
  <2>5. a = b
    BY <2>2, <2>3, <2>4, SeqEqual
  <2> QED
    BY <2>5 DEF a, b, P
<1>3. Len(P) + 1 = 2
  <2> HIDE DEF P
  <2> QED
    BY <1>1
<1> QED
  BY <1>1, <1>2, <1>3

Single(S, P, e, s) ==
  P \in Seq(S) /\ Len(P) = 1 /\ P[1] = e /\ Append(P, s) = <<e, s>> /\ Len(P) + 1 = 2

LEMMA OneMore ==
  ASSUME NEW S, NEW e \in S, NEW s \in S
  PROVE  Single(S, <<e>>, e, s)
BY OneOf DEF Single

LEMMA NewRecord ==
  ASSUME NEW e \in Event, e.type # "end", Begins(e, record'.base),
         ev'.list = <<e, Sentinel>>, ev'.current = 2, pend'.trap = "none",
         Reaches(Beginning(record'.base), mach', pend')
  PROVE  RecordTold'
<1>0. Beginning(record'.base) \in Moment
  BY BeginningTyped DEF Begins
<1>1. PICK q \in Moment : q = Beginning(record'.base)
  BY <1>0
<1> DEFINE P == <<e>>
           G == <<q>>
<1>2. Tale(record'.base, P, G)
  BY <1>1, NewTale
<1>4. Single(Event, P, e, Sentinel) /\ Single(Moment, G, q, q)
  BY <1>1, OneMore, SentinelTyped
<1> HIDE DEF P, G
<1>5. P \in Seq(Event) /\ G \in Seq(Moment) /\ G[Len(P)] = q /\ P[Len(P)] = e
      /\ ev'.list = Append(P, Sentinel) /\ ev'.current = Len(P) + 1
  BY <1>4 DEF Single
<1>7. (P[Len(P)].type = "end" <=> Halted') /\ ~ Halted'
  BY <1>5 DEF Halted
<1>6. RecordTale(P, G)'
  BY <1>1, <1>2, <1>5, <1>7 DEF RecordTale, Halted
<1>8. \E X \in Seq(Event), H \in Seq(Moment) : RecordTale(X, H)'
  BY <1>5, <1>6
<1> QED
  BY <1>8 DEF RecordTold

(* A list that is read again, up to its end: the recording goes on there.  *)
Backed(l, c, f, P, G) ==
  /\ l = Append(P, Sentinel) /\ c = Len(P) + 1
  /\ Tale(f.base, P, G) /\ P[Len(P)].type # "end" /\ At(G[Len(P)], f.mach)

LEMMA EndBefore ==
  ASSUME NEW base, NEW V, NEW H, Tale(base, V, H), V[Len(V)].type = "end"
  PROVE  LET m == Len(V) - 1 IN
         /\ m \in 1 .. Len(V) /\ V[m].type # "end" /\ Before(H[m], H[Len(V)])
         /\ H[m] \in Moment /\ H[Len(V)] \in Moment
<1> DEFINE m == Len(V) - 1
<1>1. /\ Len(V) \in Nat /\ Len(V) >= 1 /\ V[1].type \in Starts
      /\ \A i \in 1 .. Len(V) : H[i] \in Moment
  BY TaleParts
<1>2. Len(V) # 1
  BY <1>1 DEF Starts
<1>3. m \in 1 .. Len(V) - 1 /\ m \in 1 .. Len(V) /\ m + 1 = Len(V) /\ Len(V) \in 1 .. Len(V)
  BY <1>1, <1>2
<1>4. V[m].type # "end" /\ Follows(V[Len(V)], H[m], H[Len(V)])
  BY <1>3 DEF Tale
<1> DEFINE q == H[m]
           r == H[Len(V)]
           e == V[Len(V)]
<1>5. q \in Moment /\ r \in Moment
  BY <1>1, <1>3
<1>6. e.type = "end" /\ ~ Reported(e)
  BY KeyTypes DEF Reported
<1>7. Follows(e, q, r)
  BY <1>4
<1> HIDE DEF q, r, e
<1>8. r.off = q.off /\ r.from = q.from /\ r.hist = q.hist /\ r.at >= q.next /\ r.next = r.at
  BY <1>6, <1>7 DEF Follows
<1>9. /\ q.at \in Nat /\ q.next \in Nat /\ r.at \in Nat /\ q.next >= q.at
  BY <1>5, MomentParts
<1>10. Before(q, r)
  BY <1>8, <1>9 DEF Before
<1> QED
  BY <1>3, <1>4, <1>5, <1>10 DEF q, r

LEMMA ReadBack ==
  ASSUME NEW f, FileTold(f), f.mach \in MachState, NEW e, Fields(e)
  PROVE  \E P \in Seq(Event), G \in Seq(Moment) :
           Backed(ReadToEnd(e, f.list).list, ReadToEnd(e, f.list).current, f, P, G)
<1>1. PICK W \in Seq(Event), Q \in Seq(Moment) : FileTale(f, W, Q)
  BY DEF FileTold
<1> DEFINE s == ReadModule(f.list)
           l == Append(SubSeq(s.list, 1, Len(s.list) - 1), Sentinel)
<1>2. ReadToEnd(e, f.list).list = l /\ ReadToEnd(e, f.list).current = Len(s.list)
  BY DEF ReadToEnd, Fields
<1>3. PICK V \in Seq(Event), H \in Seq(Moment) :
        /\ Tale(f.base, V, H) /\ H[Len(V)] = Q[Len(W)]
        /\ s.list = IF V[Len(V)].type = "end" THEN V ELSE Append(V, Sentinel)
  <2> DEFINE base == f.base
  <2>1. Tale(base, W, Q) /\ (\A i \in 1 .. Len(W) : W[i].type # "timestamp")
        /\ f.list = Append(W, Sentinel)
    BY <1>1 DEF FileTale
  <2> HIDE DEF base
  <2>2. PICK V \in Seq(Event), H \in Seq(Moment) :
          /\ Tale(base, V, H) /\ H[Len(V)] = Q[Len(W)]
          /\ ReadModule(Append(W, Sentinel)).list =
               IF V[Len(V)].type = "end" THEN V ELSE Append(V, Sentinel)
    BY <2>1, ReadTale
  <2> QED
    BY <2>1, <2>2 DEF base
<1>4. At(H[Len(V)], f.mach)
  BY <1>1, <1>3 DEF FileTale
<1> HIDE DEF s, l
<1>5. CASE V[Len(V)].type # "end"
  <2>1. s.list = Append(V, Sentinel)
    BY <1>3, <1>5
  <2>2. Len(s.list) = Len(V) + 1
    BY <2>1, SentinelTyped
  <2>3. SubSeq(s.list, 1, Len(s.list) - 1) = V
    BY <2>1, <2>2, FrontIs, SentinelTyped
  <2>4. l = Append(V, Sentinel)
    BY <2>3 DEF l
  <2>5. Backed(l, Len(s.list), f, V, H)
    BY <1>3, <1>4, <1>5, <2>2, <2>4 DEF Backed
  <2> QED
    BY <1>2, <2>5
<1>6. CASE V[Len(V)].type = "end"
  <2> DEFINE m == Len(V) - 1
             P == SubSeq(V, 1, m)
             G == SubSeq(H, 1, m)
  <2>1. /\ m \in 1 .. Len(V) /\ V[m].type # "end" /\ Before(H[m], H[Len(V)])
        /\ H[m] \in Moment /\ H[Len(V)] \in Moment
    BY <1>3, <1>6, EndBefore
  <2>2. At(H[m], f.mach)
    BY <1>4, <2>1, BeforeAt
  <2>3. s.list = V /\ Len(V) = m + 1
    <3>1. Len(V) \in Nat
      OBVIOUS
    <3> QED
      BY <1>3, <1>6, <3>1
  <2>4. l = Append(P, Sentinel)
    BY <2>3 DEF l
  <2> HIDE DEF m
  <2>5. /\ Tale(f.base, P, G) /\ Len(P) = m
        /\ \A i \in 1 .. m : P[i] = V[i] /\ G[i] = H[i]
    <3> DEFINE base == f.base
    <3>1. Tale(base, V, H)
      BY <1>3
    <3> HIDE DEF base, P, G
    <3>2. /\ Tale(base, SubSeq(V, 1, m), SubSeq(H, 1, m)) /\ Len(SubSeq(V, 1, m)) = m
          /\ \A i \in 1 .. m : SubSeq(V, 1, m)[i] = V[i] /\ SubSeq(H, 1, m)[i] = H[i]
      BY <2>1, <3>1, TalePrefix
    <3> QED
      BY <3>2 DEF base, P, G
  <2> HIDE DEF P, G
  <2>6. m \in 1 .. m
    BY <2>1
  <2>7. P[Len(P)] = V[m] /\ G[Len(P)] = H[m]
    BY <2>5, <2>6
  <2>8. Backed(l, Len(s.list), f, P, G)
    BY <2>1, <2>2, <2>3, <2>4, <2>5, <2>7 DEF Backed
  <2>9. P \in Seq(Event) /\ G \in Seq(Moment)
    BY <2>5, TaleParts
  <2> QED
    BY <1>2, <2>8, <2>9
<1> QED
  BY <1>5, <1>6

LEMMA AtGoes ==
  ASSUME NEW q, NEW m, At(q, m), HistFrame # 0, m.frame # HistFrame
  PROVE  Runs(q, m, "opcode")
BY DEF At, Runs

(* The recording goes on from the file f. *)
LEMMA BackTold ==
  ASSUME NEW f, f.mach \in MachState, f.mach.frame < HistFrame, NEW l, NEW c,
         NEW P \in Seq(Event), NEW G \in Seq(Moment), Backed(l, c, f, P, G),
         ev'.list = l, ev'.current = c, mach' = f.mach, record'.base = f.base,
         ~ Halted', pend'.reset = "none", pend'.pc = "opcode"
  PROVE  RecordTold'
<1>1. ev'.list = Append(P, Sentinel) /\ ev'.current = Len(P) + 1 /\ Tale(record'.base, P, G)
      /\ P[Len(P)].type # "end" /\ At(G[Len(P)], mach')
  BY DEF Backed
<1>2. HistFrame # 0 /\ mach'.frame # HistFrame
  BY MachNumbers, MoreNumbers
<1>3. Runs(G[Len(P)], mach', "opcode")
  BY <1>1, <1>2, AtGoes
<1>4. Reaches(G[Len(P)], mach', pend')
  BY <1>3 DEF Reaches
<1>5. (P[Len(P)].type = "end" <=> Halted') /\ ~ Halted'
  BY <1>1
<1>6. RecordTale(P, G)'
  BY <1>1, <1>4, <1>5 DEF RecordTale, Halted
<1>7. \E X \in Seq(Event), H \in Seq(Moment) : RecordTale(X, H)'
  BY <1>6
<1> QED
  BY <1>7 DEF RecordTold

(* What a trap of a new list does with the list. *)
LEMMA NewListIs ==
  ASSUME NEW e, Fields(e), NEW i, NEW c, NEW x, x = [type |-> i, clk |-> c], NEW n,
         NEW s, s = Started(NewList(e, i, c), n)
  PROVE  s.list = <<x, Sentinel>> /\ s.current = 2
<1> DEFINE l == <<x, Sentinel>>
           b == NewList(e, i, c)
<1>1. b = [e EXCEPT !.list = l, !.current = 2]
  BY DEF NewList
<1> HIDE DEF l, b
<1>2. b.list = l /\ b.current = 2
  BY <1>1 DEF Fields
<1>3. Fields(b)
  BY NewListFlags DEF b
<1>4. Started(b, n).list = b.list /\ Started(b, n).current = b.current /\ Started(b, n).record_active = TRUE
  BY <1>3, StartedFlags
<1> QED
  BY <1>2, <1>4 DEF l, b

LEMMA MixedBase ==
  ASSUME RecordTyped, NEW b, record' = Mixed([record EXCEPT !.base = b])
  PROVE  record'.base = b
BY DEF RecordTyped, Mixed

LEMMA ServedIs ==
  ASSUME HistTyped, Calm, Traps, pend' = Served
  PROVE  pend'.trap = "none" /\ pend'.reset = "none" /\ pend'.pc = "opcode" /\ ~ Halted'
<1>1. pend \in PendState /\ pend.reset = "none"
  BY TrapServes DEF HistTyped
<1>2. pend'.trap = "none" /\ pend'.reset = "none" /\ pend'.pc = "opcode"
  BY <1>1 DEF Served, PendState
<1> QED
  BY <1>2 DEF Halted

(* The machine that a recording begins with. *)
LEMMA BaseIs ==
  ASSUME HistTyped, Remembered, mach.frame = 0
  PROVE  mach \in Base /\ mach.clk \in 0 .. Latest
BY MachNumbers DEF Base, Remembered, HistTyped

LEMMA SaveTold ==
  ASSUME HistTyped, Calm, RecordTyped, Remembered, TrapSave
  PROVE  RecordTold'
<1> SUFFICES ASSUME ev'.record_active PROVE RecordTold'
  BY DEF RecordTold
<1>1. Fields(ev) /\ ~ ev.record_active /\ mach' = mach /\ mach.frame = 0 /\ pend' = Served
  BY TrapServes, CalmParts DEF TrapSave, Serve, Calm, Traps
<1>2. pend'.trap = "none" /\ pend'.reset = "none" /\ pend'.pc = "opcode"
  BY <1>1, ServedIs DEF Traps
<1> DEFINE c == mach.clk
           kind == "initial save"
           x == [type |-> kind, clk |-> c]
           b == mach
<1>3. ev' = Started(NewList(ev, kind, c), c) /\ record' = Mixed([record EXCEPT !.base = b])
  BY <1>1 DEF TrapSave
<1>4. record'.base = mach
  BY <1>3, MixedBase
<1>5. mach \in Base /\ c \in 0 .. Latest
  BY <1>1, BaseIs
<1>6. x \in Event /\ x.type = "initial save" /\ x.clk = c
  <2>1. kind \in Types
    BY DEF Types
  <2> HIDE DEF c, kind
  <2>2. x \in Event /\ x.type = kind /\ x.clk = c
    BY <1>5, <2>1 DEF Event
  <2> HIDE DEF x
  <2> QED
    BY <2>2 DEF kind
<1>7. ev'.list = <<x, Sentinel>> /\ ev'.current = 2
  <2>1. x = [type |-> kind, clk |-> c]
    OBVIOUS
  <2> HIDE DEF c, kind, x
  <2> QED
    BY <1>1, <1>3, <2>1, NewListIs
<1> HIDE DEF x
<1>8. Begins(x, mach) /\ x.type # "end"
  BY <1>5, <1>6 DEF Begins
<1>9. Reaches(Beginning(mach), mach, pend')
  <2>1. PICK q : q = Beginning(mach)
    OBVIOUS
  <2>2. /\ q.at = mach.time /\ q.hist = mach.hist /\ Shows(q, mach.time) = mach.clk
        /\ FrameAt(q, mach.time) = 0
    BY <1>5, <2>1, BeginningTyped
  <2>3. 0 # HistFrame /\ mach.time >= mach.time
    BY <1>5, MoreNumbers, MachNumbers DEF Base
  <2>4. Runs(q, mach, "opcode")
    BY <1>1, <2>2, <2>3 DEF Runs
  <2>5. Reaches(q, mach, pend')
    BY <1>2, <2>4 DEF Reaches
  <2> QED
    BY <2>1, <2>5
<1>10. Begins(x, record'.base) /\ Reaches(Beginning(record'.base), mach', pend')
  BY <1>1, <1>4, <1>8, <1>9
<1> QED
  BY <1>2, <1>6, <1>7, <1>8, <1>10, NewRecord

LEMMA TrapResetTold ==
  ASSUME HistTyped, Calm, RecordTyped, TrapReset
  PROVE  RecordTold'
<1> SUFFICES ASSUME record'.base # NoMachine PROVE RecordTold'
  BY DEF RecordTold
<1>1. Fields(ev) /\ mach' = mach /\ mach \in MachState
  BY CalmParts DEF TrapReset, HistTyped
<1> DEFINE c == mach.clk
           kind == "initial reset"
           x == [type |-> kind, clk |-> c]
           b == IF ev.playback_active THEN NoMachine ELSE PowerUp
<1>2. record' = Mixed([record EXCEPT !.base = b])
      /\ ev' = Started(NewList(ev, kind, c), 0)
  BY DEF TrapReset
<1>3. record'.base = b
  BY <1>2, MixedBase
<1>4. ~ ev.playback_active /\ record'.base = PowerUp
  BY <1>3
<1>5. pend'.trap = "none" /\ pend'.reset = "power"
  <2>1. pend' = PowerCycled /\ pend \in PendState
    BY <1>4 DEF TrapReset, HistTyped
  <2> QED
    BY <2>1 DEF PowerCycled, PendState
<1>6. x \in Event /\ x.type = "initial reset"
  <2>1. kind \in Types /\ c \in 0 .. Latest
    BY <1>1, MachNumbers DEF Types
  <2> HIDE DEF c, kind
  <2>2. x \in Event /\ x.type = kind
    BY <2>1 DEF Event
  <2> HIDE DEF x
  <2> QED
    BY <2>2 DEF kind
<1>7. ev'.list = <<x, Sentinel>> /\ ev'.current = 2
  <2>1. x = [type |-> kind, clk |-> c]
    OBVIOUS
  <2> DEFINE z == 0
  <2> HIDE DEF c, kind, x, z
  <2>2. ev' = Started(NewList(ev, kind, c), z)
    BY <1>2 DEF z
  <2> QED
    BY <1>1, <2>1, <2>2, NewListIs
<1> HIDE DEF x
<1>8. Begins(x, record'.base) /\ x.type # "end"
  BY <1>4, <1>6, PowerUpIs DEF Begins
<1>9. Reaches(Beginning(record'.base), mach', pend')
  <2>1. pend'.reset # "none" /\ pend'.reset # "soft"
    BY <1>5
  <2> QED
    BY <1>4, <2>1 DEF Reaches
<1> QED
  BY <1>5, <1>6, <1>7, <1>8, <1>9, NewRecord

(* The end file that is read. *)
LEMMA EndFileIs ==
  ASSUME HistTyped, files.end # NoFile
  PROVE  files.end.mach \in MachState /\ files.end.mach.frame < HistFrame
BY DEF HistTyped, Readable

LEMMA LoadTold ==
  ASSUME HistTyped, Calm, RecordTyped, FilesTold, TrapLoad
  PROVE  RecordTold'
<1> SUFFICES ASSUME ev'.record_active, record'.base # NoMachine PROVE RecordTold'
  BY DEF RecordTold
<1>1. Fields(ev) /\ ~ ev.record_active /\ pend' = Served
  BY TrapServes, CalmParts DEF TrapLoad, Serve, Calm, Traps
<1>2. pend'.reset = "none" /\ pend'.pc = "opcode" /\ ~ Halted'
  BY <1>1, ServedIs DEF Traps
<1> DEFINE f == files.end
           b == f.base
           r == ReadToEnd(ev, f.list)
           c == f.mach.clk
<1>3. f # NoFile /\ mach' = f.mach /\ ev' = Started(r, c) /\ record' = Mixed([record EXCEPT !.base = b])
  BY <1>1 DEF TrapLoad
<1>4. record'.base = b
  BY <1>3, MixedBase
<1>5. FileTold(f) /\ f.mach \in MachState /\ f.mach.frame < HistFrame
  BY <1>3, <1>4, EndFileIs DEF FilesTold
<1> HIDE DEF f
<1>6. PICK P \in Seq(Event), G \in Seq(Moment) :
        Backed(ReadToEnd(ev, f.list).list, ReadToEnd(ev, f.list).current, f, P, G)
  BY <1>1, <1>5, ReadBack
<1>7. Backed(r.list, r.current, f, P, G) /\ Fields(r)
  BY <1>1, <1>6, ReadToEndFlags
<1> HIDE DEF r, c
<1>8. ev'.list = r.list /\ ev'.current = r.current
  BY <1>3, <1>7, StartedFlags
<1> QED
  BY <1>2, <1>3, <1>4, <1>5, <1>7, <1>8, BackTold

LEMMA ResetMilestoneTold ==
  ASSUME HistTyped, Calm, RecordTyped, FilesTold, TrapResetMilestone
  PROVE  RecordTold'
<1> SUFFICES ASSUME ev'.record_active, record'.base # NoMachine PROVE RecordTold'
  BY DEF RecordTold
<1>1. Fields(ev) /\ pend' = Served
  BY CalmParts DEF TrapResetMilestone, Serve
<1>2. pend'.reset = "none" /\ pend'.pc = "opcode" /\ ~ Halted'
  BY <1>1, ServedIs DEF Traps
<1> DEFINE f == files.end
           b == f.base
           r == ReadToEnd(ev, f.list)
<1>9. ev' # [ev EXCEPT !.record_active = FALSE]
  <2>1. [ev EXCEPT !.record_active = FALSE].record_active = FALSE
    BY <1>1 DEF Fields
  <2> QED
    BY <2>1
<1>3. /\ f # NoFile /\ mach' = f.mach /\ record' = [record EXCEPT !.base = b]
      /\ ev' = r \/ ev' = [r EXCEPT !.alarm = r.milestone, !.next_timestamp_clk = r.milestone]
  BY <1>9 DEF TrapResetMilestone
<1>4. record'.base = b
  BY <1>3 DEF RecordTyped
<1>5. FileTold(f) /\ f.mach \in MachState /\ f.mach.frame < HistFrame
  BY <1>3, <1>4, EndFileIs DEF FilesTold
<1> HIDE DEF f
<1>6. PICK P \in Seq(Event), G \in Seq(Moment) :
        Backed(ReadToEnd(ev, f.list).list, ReadToEnd(ev, f.list).current, f, P, G)
  BY <1>1, <1>5, ReadBack
<1>7. Backed(r.list, r.current, f, P, G) /\ Fields(r)
  BY <1>1, <1>6, ReadToEndFlags
<1> HIDE DEF r
<1>8. ev'.list = r.list /\ ev'.current = r.current
  BY <1>3, <1>7 DEF Fields
<1> QED
  BY <1>2, <1>3, <1>4, <1>5, <1>7, <1>8, BackTold

LEMMA OverwriteToldTrap ==
  ASSUME HistTyped, Calm, RecordTyped, OverwriteTold, TrapOverwrite
  PROVE  RecordTold'
<1> SUFFICES ASSUME record'.base # NoMachine PROVE RecordTold'
  BY DEF RecordTold
<1>1. Fields(ev) /\ pend' = Served /\ mach' = mach /\ mach.frame = 0 /\ mach \in MachState
      /\ pend.trap = "overwrite"
  BY TrapServes, CalmParts DEF TrapOverwrite, Serve, Traps, HistTyped
<1>2. pend'.reset = "none" /\ pend'.pc = "opcode" /\ ~ Halted'
  BY <1>1, ServedIs DEF Traps
<1>3. ~ record.mixed /\ record' = record
  <2>1. record' = IF record.mixed THEN [record EXCEPT !.base = NoMachine] ELSE record
    BY DEF TrapOverwrite
  <2>2. [record EXCEPT !.base = NoMachine].base = NoMachine
    BY DEF RecordTyped
  <2> QED
    BY <2>1, <2>2
<1> DEFINE s == SubSeq(ev.list, 1, ev.current - 1)
           l == Append(s, Sentinel)
           e == [ev EXCEPT !.list = l]
           c == mach.clk
<1>4. ev' = Started(e, c)
  BY DEF TrapOverwrite
<1>5. PICK P \in Seq(Event), G \in Seq(Moment) :
        /\ s = P /\ ev.current = Len(P) + 1
        /\ Tale(record.base, P, G) /\ P[Len(P)].type # "end"
        /\ At(G[Len(P)], mach)
  BY <1>1, <1>3 DEF OverwriteTold
<1>6. l = Append(P, Sentinel)
  BY <1>5
<1> HIDE DEF l, c
<1>7. Fields(e) /\ e.list = l /\ e.current = ev.current
  BY <1>1 DEF Fields
<1> HIDE DEF e
<1>8. ev'.list = l /\ ev'.current = ev.current
  BY <1>4, <1>7, StartedFlags
<1>9. ev'.list = Append(P, Sentinel) /\ ev'.current = Len(P) + 1 /\ Tale(record'.base, P, G)
      /\ At(G[Len(P)], mach')
  BY <1>1, <1>3, <1>5, <1>6, <1>8
<1>10. mach.frame # HistFrame /\ HistFrame # 0
  BY <1>1, MoreNumbers
<1>11. Runs(G[Len(P)], mach', "opcode")
  BY <1>1, <1>9, <1>10, AtGoes
<1>12. Reaches(G[Len(P)], mach', pend')
  BY <1>2, <1>11 DEF Reaches
<1>13. (P[Len(P)].type = "end" <=> Halted') /\ ~ Halted'
  BY <1>2, <1>5
<1>14. RecordTale(P, G)'
  BY <1>9, <1>12, <1>13 DEF RecordTale, Halted
<1>15. \E X \in Seq(Event), H \in Seq(Moment) : RecordTale(X, H)'
  BY <1>14
<1> QED
  BY <1>15 DEF RecordTold

LEMMA OtherTrapsTold ==
  ASSUME HistTyped, Calm, RecordTyped, TrapStop \/ TrapPlayback
  PROVE  RecordTold'
<1>1. Fields(ev)
  BY CalmParts
<1>2. CASE TrapStop
  <2>1. CASE ev' = [ev EXCEPT !.record_active = FALSE]
    BY <1>1, <2>1 DEF Fields, RecordTold
  <2>2. CASE record' = [record EXCEPT !.base = NoMachine]
    BY <2>2 DEF RecordTyped, RecordTold
  <2> QED
    BY <1>2, <2>1, <2>2 DEF TrapStop
<1>3. CASE TrapPlayback
  <2> DEFINE s  == ReadModule(IF files.end = NoFile THEN <<>> ELSE files.end.list)
             e  == [ev EXCEPT !.list = s.list, !.next_timestamp_clk = s.ts, !.current = 1]
             e2 == [e EXCEPT !.current = 2, !.playback_active = TRUE]
             c == files.start.clk
  <2>1. ~ ev.record_active
    BY <1>3 DEF TrapPlayback, HistTyped
  <2>2. Fields(e) /\ Fields(e2) /\ ~ e.record_active /\ ~ e2.record_active
    BY <1>1, <2>1 DEF Fields
  <2>3. \/ ev' = ev \/ ev' = e \/ ev' = NextAlarm(e2, c) \/ ev' = [e2 EXCEPT !.reset_ack = TRUE]
    BY <1>3 DEF TrapPlayback
  <2> HIDE DEF e2, e, c
  <2>4. ~ NextAlarm(e2, c).record_active
    BY <2>2, NextAlarmFlags
  <2>5. ~ [e2 EXCEPT !.reset_ack = TRUE].record_active
    BY <2>2 DEF Fields
  <2>6. ~ ev'.record_active
    BY <2>1, <2>2, <2>3, <2>4, <2>5
  <2> QED
    BY <2>6 DEF RecordTold
<1> QED
  BY <1>2, <1>3

LEMMA RecordToldNext ==
  ASSUME ~ Crowded, HistTyped, Calm, RecordTyped, Remembered, FilesTold, OverwriteTold, RecordTold,
         [HistNext]_histVars
  PROVE  RecordTold'
<1>1. CASE EventAlarm \/ UserReset \/ EndFrame \/ DoReset \/ Opcode \/ (\E key \in Keys : Input(key))
  BY <1>1, EventAlarmTold, UserResetTold, EndFrameTold, DoResetTold, OpcodeTold, InputTold
<1>2. CASE \/ \E mode \in {"save", "load", "reset", "overwrite"} : RecordStart(mode)
           \/ RecordStop \/ SetMilestone \/ ResetMilestone \/ PlaybackStart \/ PlaybackStop
  BY <1>2, RequestsTold
<1>3. CASE TrapSave \/ TrapLoad \/ TrapReset \/ TrapOverwrite
  BY <1>3, SaveTold, LoadTold, TrapResetTold, OverwriteToldTrap
<1>4. CASE TrapStop \/ TrapSetMilestone \/ TrapResetMilestone \/ TrapPlayback
  BY <1>4, OtherTrapsTold, SetMilestoneTold, ResetMilestoneTold
<1>5. CASE UNCHANGED histVars
  BY <1>5, RecordStays DEF histVars, Halted
<1> QED
  BY <1>1, <1>2, <1>3, <1>4, <1>5 DEF HistNext

(***************************************************************************)
(* The machine that plays a list back.  It is after the moment q as the    *)
(* recorded one was (Runs), but for an overflow at the end of a frame:     *)
(* when its event is played before the guard has subtracted, the clock is  *)
(* still ahead (Behind), when the guard has subtracted before its event is *)
(* played, it is already behind (Before it: Sooner).                       *)
(***************************************************************************)
Behind(q, m, pc) ==
  /\ pc = "alarms" /\ m.frame = HistFrame /\ m.time = q.at /\ q.next = q.at
  /\ FrameAt(q, m.time) = 0 /\ m.hist = q.hist
  /\ m.clk = Shows(q, m.time) + HistSub /\ m.clk >= HistGuardMax

Sooner(q, m, pc) ==
  /\ pc = "alarms" /\ m.frame = 0 /\ m.time >= q.next /\ m.time >= q.at
  /\ FrameAt(q, m.time) = 0 /\ m.hist = q.hist
  /\ m.clk = Shows(q, m.time) - HistSub

(* The event x, at the moment r, is the next. *)
Awaits(x, r, q, m, pc, a) ==
  /\ m.time <= r.at /\ (pc # "alarms" => m.time < r.at)
  /\ \/ Runs(q, m, pc) /\ a = DueAt(x)
     \/ Behind(q, m, pc) /\ a = DueAt(x) + HistSub
     \/ Sooner(q, m, pc) /\ x.type = "overflow" /\ m.time = r.at /\ a = x.clk

(* There is no other event, only the sentinel. *)
Lasts(q, m, pc, a) ==
  /\ a = 0 \/ a = HistSub
  /\ Runs(q, m, pc) \/ Behind(q, m, pc)
  /\ pc = "alarms" => m.time <= q.next \/ m.clk <= HistSub
  /\ pc # "alarms" => m.time < q.next \/ m.clk < HistSub

(* The machine has just come to q. *)
Arrived(q, m, pc) ==
  /\ m.time = q.at /\ (pc # "alarms" => q.next = q.at + 1)
  /\ Runs(q, m, pc) \/ Behind(q, m, pc)

(* What next_alarm_set sets. *)
NewAlarm(x, c) ==
  IF c > HistSubMin /\ x.clk < c - HistSubMin THEN Wrapped(x.clk + HistSub) ELSE x.clk

LEMMA NextAlarmIs ==
  ASSUME NEW e, Fields(e), NEW x, x = e.list[e.current], NEW c
  PROVE  NextAlarm(e, c).alarm = NewAlarm(x, c)
<1> DEFINE a == NewAlarm(x, c)
<1>1. NextAlarm(e, c) = [e EXCEPT !.alarm = a]
  BY DEF NextAlarm, NewAlarm
<1> HIDE DEF a
<1> QED
  BY <1>1, AlarmFlags DEF a

(* The clock of a key or a timestamp is near, that of an overflow is not:  *)
(* the guard tells them apart.                                             *)
LEMMA WrappedSmall ==
  ASSUME NEW c \in Nat, c <= HistClockMax
  PROVE  Wrapped(c) = c
<1>1. HistClockMax \in Nat
  BY HistNumbers
<1>2. (HistClockMax + 1) \in Nat \ {0} /\ c < HistClockMax + 1
  BY <1>1
<1> DEFINE h == HistClockMax + 1
<1> HIDE DEF h
<1>3. c % h = c
  <2> DEFINE m == (c \div h) * h
             d == c \div h
  <2>1. d \in Nat /\ c % h \in 0 .. h - 1 /\ c % h = c - m
    BY <1>2, Quotient DEF h
  <2>2. h \in Nat /\ c < h
    BY <1>2 DEF h
  <2>3. d = 0 \/ m >= h
    <3>1. d = 0 \/ d >= 1
      BY <2>1
    <3>2. ASSUME d >= 1 PROVE d * h >= h
      <4>1. d * h = (d - 1) * h + h /\ (d - 1) * h \in Nat
        BY <2>1, <2>2, <3>2
      <4> QED
        BY <2>2, <4>1
    <3> QED
      BY <3>1, <3>2
  <2>4. m \in Nat
    BY <2>1, <2>2
  <2>5. m < h
    <3> HIDE DEF m, d
    <3> QED
      BY <2>1, <2>2, <2>4
  <2>6. d = 0
    <3> HIDE DEF m, d
    <3> QED
      BY <2>2, <2>3, <2>4, <2>5
  <2>7. m = 0
    BY <2>2, <2>6
  <2> HIDE DEF m
  <2> QED
    BY <2>1, <2>7
<1> QED
  BY <1>3 DEF Wrapped, h

LEMMA SteadyAlarm ==
  ASSUME NEW q \in Moment, NEW x \in Event, NEW r \in Moment, Follows(x, q, r), Near(x, q),
         NEW c, c = Shows(q, q.at)
  PROVE  NewAlarm(x, c) = DueAt(x)
<1>1. c \in Int /\ x.clk \in Nat /\ q.at \in Nat /\ q.off \in Int
  BY MomentParts, EventParts DEF Shows
<1>2. /\ DueAt(x) <= c + Second + HistFrame - 1
      /\ DueAt(x) >= c - HistFrame + 1 \/ c <= HistSubMin
  BY DEF Near
<1>3. CASE x.type # "overflow"
  <2>1. DueAt(x) = x.clk
    BY <1>3, <1>1 DEF DueAt
  <2>2. ~ (c > HistSubMin /\ x.clk < c - HistSubMin)
    BY <1>1, <1>2, <2>1, HistNumbers
  <2> QED
    BY <2>1, <2>2 DEF NewAlarm
<1>4. CASE x.type = "overflow"
  <2>1. DueAt(x) = x.clk + HistSub
    BY <1>4 DEF DueAt
  <2>2. DueAt(x) \in Nat /\ DueAt(x) >= HistGuardMax /\ DueAt(x) < HistGuardMax + HistFrame
    <3>1. Shows(q, r.at) = DueAt(x) /\ DueAt(x) \in Nat
      BY <1>4, Exactly
    <3> QED
      BY <1>4, <3>1 DEF Follows
  <2>3. c > HistSubMin
    BY <1>1, <1>2, <2>2, HistNumbers
  <2>4. x.clk < c - HistSubMin
    BY <1>1, <1>2, <2>1, <2>3, HistNumbers, MoreNumbers
  <2>5. Wrapped(x.clk + HistSub) = x.clk + HistSub
    BY <2>1, <2>2, HistNumbers, WrappedSmall
  <2> QED
    BY <2>1, <2>3, <2>4, <2>5 DEF NewAlarm
<1> QED
  BY <1>3, <1>4

LEMMA BehindAlarm ==
  ASSUME NEW q \in Moment, NEW x \in Event, NEW r \in Moment, Follows(x, q, r), Near(x, q),
         NEW c, c = Shows(q, q.at) + HistSub, c >= HistGuardMax, c <= Latest
  PROVE  NewAlarm(x, c) = DueAt(x) + HistSub
<1> DEFINE s == Shows(q, q.at)
<1>1. s \in Int /\ x.clk \in Nat /\ c = s + HistSub
  BY MomentParts, EventParts DEF Shows
<1>2. /\ DueAt(x) <= s + Second + HistFrame - 1
      /\ DueAt(x) <= s + Second \/ x.type = "overflow"
  BY DEF Near
<1> HIDE DEF s
<1>3. x.type # "overflow"
  <2> SUFFICES ASSUME x.type = "overflow" PROVE FALSE
    OBVIOUS
  <2>2. DueAt(x) \in Nat /\ DueAt(x) >= HistGuardMax
    <3>1. Shows(q, r.at) = DueAt(x) /\ DueAt(x) \in Nat
      BY Exactly
    <3> QED
      BY <3>1 DEF Follows
  <2> QED
    BY <1>1, <1>2, <2>2, HistNumbers, MoreNumbers
<1>4. DueAt(x) = x.clk
  BY <1>1, <1>3 DEF DueAt
<1>5. c > HistSubMin /\ x.clk < c - HistSubMin /\ x.clk + HistSub <= HistClockMax
      /\ x.clk + HistSub \in Nat
  BY <1>1, <1>2, <1>3, <1>4, HistNumbers, MoreNumbers
<1>6. Wrapped(x.clk + HistSub) = x.clk + HistSub
  BY <1>5, WrappedSmall
<1> QED
  BY <1>4, <1>5, <1>6 DEF NewAlarm

LEMMA SentinelAlarm ==
  ASSUME NEW c
  PROVE  NewAlarm(Sentinel, c) = 0 \/ NewAlarm(Sentinel, c) = HistSub
<1>1. Sentinel.clk = 0 /\ HistSub \in Nat /\ HistSub <= HistClockMax /\ 0 + HistSub = HistSub
  BY SentinelTyped, MoreNumbers, HistNumbers
<1>2. Wrapped(HistSub) = HistSub
  BY <1>1, WrappedSmall
<1> QED
  BY <1>1, <1>2 DEF NewAlarm

(* When the machine has come to q, next_alarm_set waits for what is next.  *)
LEMMA ArrivedAwaits ==
  ASSUME NEW q \in Moment, NEW m \in MachState, NEW pc, Arrived(q, m, pc),
         NEW x \in Event, NEW r \in Moment, Follows(x, q, r), Near(x, q)
  PROVE  Awaits(x, r, q, m, pc, NewAlarm(x, m.clk))
<1>1. /\ q.at \in Nat /\ q.next \in Nat /\ r.at \in Nat /\ q.next >= q.at
      /\ m.time = q.at /\ m.time \in Nat
      /\ pc # "alarms" => q.next = q.at + 1
  BY MomentParts, MachNumbers DEF Arrived
<1>2. r.at >= q.next
  BY DEF Follows
<1>3. m.time <= r.at /\ (pc # "alarms" => m.time < r.at)
  BY <1>1, <1>2
<1>4. CASE Runs(q, m, pc)
  <2>1. m.clk = Shows(q, q.at)
    BY <1>1, <1>4 DEF Runs
  <2>2. NewAlarm(x, m.clk) = DueAt(x)
    BY <2>1, SteadyAlarm
  <2> QED
    BY <1>3, <1>4, <2>2 DEF Awaits
<1>5. CASE Behind(q, m, pc)
  <2>1. m.clk = Shows(q, q.at) + HistSub /\ m.clk >= HistGuardMax /\ m.clk <= Latest
    BY <1>1, <1>5, MachNumbers DEF Behind
  <2>2. NewAlarm(x, m.clk) = DueAt(x) + HistSub
    BY <2>1, BehindAlarm
  <2> QED
    BY <1>3, <1>5, <2>2 DEF Awaits
<1> QED
  BY <1>4, <1>5 DEF Arrived

LEMMA ArrivedLasts ==
  ASSUME NEW q \in Moment, NEW m \in MachState, NEW pc, Arrived(q, m, pc)
  PROVE  Lasts(q, m, pc, NewAlarm(Sentinel, m.clk))
<1>1. /\ q.at \in Nat /\ q.next \in Nat /\ q.next >= q.at
      /\ m.time = q.at /\ m.time \in Nat
      /\ pc # "alarms" => q.next = q.at + 1
  BY MomentParts, MachNumbers DEF Arrived
<1>2. (pc = "alarms" => m.time <= q.next) /\ (pc # "alarms" => m.time < q.next)
  BY <1>1
<1> QED
  BY <1>2, SentinelAlarm DEF Lasts, Arrived

(* The alarm of the next event goes off when its time has come. *)
LEMMA TimeComes ==
  ASSUME NEW q \in Moment, NEW x \in Event, NEW r \in Moment, Follows(x, q, r),
         NEW t \in Nat, t >= q.next, t <= r.at
  PROVE  /\ DueAt(x) <= Shows(q, t) => t = r.at
         /\ ~ (DueAt(x) <= Shows(q, t)) => t < r.at
<1>1. /\ q.at \in Nat /\ q.next \in Nat /\ r.at \in Nat /\ q.off \in Int /\ DueAt(x) \in Nat
      /\ Shows(q, t) = t + q.off /\ Shows(q, r.at) = r.at + q.off
  BY MomentParts, EventParts DEF Shows
<1>2. Shows(q, r.at) >= DueAt(x) /\ (Shows(q, r.at) > DueAt(x) => r.at = q.next)
  BY DEF Follows
<1> QED
  BY <1>1, <1>2

LEMMA AlarmTells ==
  ASSUME NEW q \in Moment, NEW x \in Event, NEW r \in Moment, Follows(x, q, r),
         NEW m \in MachState, NEW a, Awaits(x, r, q, m, "alarms", a)
  PROVE  /\ a <= m.clk => m.time = r.at
         /\ ~ (a <= m.clk) => m.time < r.at
         /\ a \in Nat /\ m.time >= q.next /\ m.time >= q.at
<1> DEFINE t == m.time
           s == Shows(q, t)
<1>1. t \in Nat /\ m.clk \in Nat /\ t <= r.at /\ DueAt(x) \in Nat /\ x.clk \in Nat /\ HistSub \in Nat
      /\ s \in Int /\ q.next \in Nat /\ q.at \in Nat /\ q.next >= q.at
  BY MachNumbers, EventParts, MoreNumbers, MomentParts DEF Awaits, Shows
<1>2. t >= q.next => (DueAt(x) <= s => t = r.at) /\ (~ (DueAt(x) <= s) => t < r.at)
  BY <1>1, TimeComes
<1>3. CASE Runs(q, m, "alarms") /\ a = DueAt(x)
  <2>1. t >= q.next /\ m.clk = s
    BY <1>3 DEF Runs
  <2> HIDE DEF t, s
  <2> QED
    BY <1>1, <1>2, <1>3, <2>1 DEF t
<1>4. CASE Behind(q, m, "alarms") /\ a = DueAt(x) + HistSub
  <2>1. t >= q.next /\ m.clk = s + HistSub
    BY <1>1, <1>4 DEF Behind
  <2> HIDE DEF t, s
  <2>2. (a <= m.clk) <=> DueAt(x) <= s
    BY <1>1, <1>4, <2>1
  <2>3. a \in Nat
    BY <1>1, <1>4
  <2> QED
    BY <1>1, <1>2, <2>1, <2>2, <2>3 DEF t
<1>5. CASE Sooner(q, m, "alarms") /\ x.type = "overflow" /\ m.time = r.at /\ a = x.clk
  <2>1. t >= q.next /\ m.clk = s - HistSub
    BY <1>5 DEF Sooner
  <2>2. a <= m.clk
    <3>1. DueAt(x) = x.clk + HistSub
      BY <1>5 DEF DueAt
    <3>2. DueAt(x) <= s
      BY <1>5, <1>1 DEF Follows
    <3> HIDE DEF s
    <3> QED
      BY <1>1, <1>5, <2>1, <3>1, <3>2
  <2> QED
    BY <1>1, <1>5, <2>1, <2>2
<1> QED
  BY <1>3, <1>4, <1>5 DEF Awaits

-----------------------------------------------------------------------------
(* The steps of the machine that plays back. *)

(* A machine that awaits an event later is where the recorded one was.     *)
LEMMA AwaitsGoes ==
  ASSUME NEW q \in Moment, NEW x \in Event, NEW r \in Moment,
         NEW m \in MachState, NEW pc, NEW a, Awaits(x, r, q, m, pc, a), m.frame < HistFrame, m.time < r.at
  PROVE  Runs(q, m, pc) /\ a = DueAt(x)
<1>1. m.frame # HistFrame /\ m.time # r.at
  BY MachNumbers, MoreNumbers, MomentParts
<1> QED
  BY <1>1 DEF Awaits, Behind, Sooner

LEMMA OpcodeAwaits ==
  ASSUME NEW q \in Moment, NEW x \in Event, NEW r \in Moment,
         NEW m \in MachState, NEW pc, NEW a, Awaits(x, r, q, m, pc, a), m.frame < HistFrame, m.time < r.at,
         NEW n, n.time = m.time + 1, n.clk = m.clk + 1, n.frame = m.frame + 1, n.hist = m.hist
  PROVE  Awaits(x, r, q, n, "alarms", a)
<1>1. Runs(q, m, pc) /\ a = DueAt(x)
  BY AwaitsGoes
<1>2. Runs(q, n, "alarms")
  BY <1>1, OpcodeGoes
<1>3. n.time <= r.at
  BY MachNumbers, MomentParts
<1> QED
  BY <1>1, <1>2, <1>3 DEF Awaits

LEMMA ServeAwaits ==
  ASSUME NEW q \in Moment, NEW x \in Event, NEW r \in Moment,
         NEW m \in MachState, NEW pc, NEW a, Awaits(x, r, q, m, pc, a), m.frame < HistFrame, m.time < r.at
  PROVE  Awaits(x, r, q, m, "opcode", a)
<1>1. Runs(q, m, pc) /\ a = DueAt(x)
  BY AwaitsGoes
<1>2. Runs(q, m, "opcode")
  BY <1>1 DEF Runs
<1> QED
  BY <1>1, <1>2 DEF Awaits

(* The last event was played: until the alarm goes off, or time is over.   *)
LEMMA OpcodeLasts ==
  ASSUME NEW q \in Moment, NEW m \in MachState, NEW pc, NEW a, Lasts(q, m, pc, a), m.frame < HistFrame,
         pc = "alarms" => ~ (a <= m.clk),
         NEW n, n.time = m.time + 1, n.clk = m.clk + 1, n.frame = m.frame + 1, n.hist = m.hist
  PROVE  Lasts(q, n, "alarms", a)
<1>1. Runs(q, m, pc)
  <2>1. m.frame # HistFrame
    BY MachNumbers, MoreNumbers
  <2> QED
    BY <2>1 DEF Lasts, Behind
<1>2. Runs(q, n, "alarms")
  BY <1>1, OpcodeGoes
<1>3. m.time < q.next \/ m.clk < HistSub
  <2>1. m.clk \in Nat /\ HistSub \in Nat /\ (a = 0 \/ a = HistSub)
    BY MachNumbers, MoreNumbers DEF Lasts
  <2>2. CASE pc = "alarms"
    BY <2>1, <2>2
  <2>3. CASE pc # "alarms"
    BY <2>3 DEF Lasts
  <2> QED
    BY <2>2, <2>3
<1>4. n.time <= q.next \/ n.clk <= HistSub
  BY <1>3, MachNumbers, MoreNumbers, MomentParts
<1> QED
  BY <1>2, <1>4 DEF Lasts

LEMMA ServeLasts ==
  ASSUME NEW q \in Moment, NEW m \in MachState, NEW a, Lasts(q, m, "alarms", a), m.frame < HistFrame,
         ~ (a <= m.clk)
  PROVE  Lasts(q, m, "opcode", a) /\ Runs(q, m, "alarms")
<1>1. Runs(q, m, "alarms")
  <2>1. m.frame # HistFrame
    BY MachNumbers, MoreNumbers
  <2> QED
    BY <2>1 DEF Lasts, Behind
<1>2. Runs(q, m, "opcode")
  BY <1>1 DEF Runs
<1>3. m.clk < HistSub
  BY MachNumbers, MoreNumbers DEF Lasts
<1> QED
  BY <1>1, <1>2, <1>3 DEF Lasts

(* The machine n is m after the end of a frame. *)
Turns(m, n, sub) ==
  /\ m.frame = HistFrame /\ sub = GuardedBy(m.clk)
  /\ n.frame = 0 /\ n.clk = m.clk - sub /\ n.time = m.time /\ n.hist = m.hist

(* The guard subtracts only where the event of an overflow was recorded.   *)
LEMMA GuardTells ==
  ASSUME NEW q \in Moment, NEW x \in Event, NEW r \in Moment, Follows(x, q, r),
         NEW t \in Nat, t >= q.from, t <= r.at, FrameAt(q, t) = 0, Shows(q, t) >= HistGuardMax
  PROVE  x.type = "overflow" /\ t = r.at
<1>1. /\ q.at \in Nat /\ r.at \in Nat /\ q.off \in Int /\ q.from \in Nat
      /\ Shows(q, t) \in Int /\ Turned(q, t) = Shows(q, t) - 0 /\ Turned(q, t) = Shows(q, t)
  BY MomentParts DEF Shows, Turned
<1>2. /\ Turned(q, t) <= Turned(q, r.at) /\ Turned(q, r.at) \in Int
      /\ t < r.at /\ FrameAt(q, r.at) = 0 => Turned(q, t) <= Shows(q, r.at) - HistFrame
  BY <1>1, TurnsGrow
<1>3. x.type = "overflow"
  <2> SUFFICES ASSUME x.type # "overflow" PROVE FALSE
    OBVIOUS
  <2>1. Turned(q, r.at) < HistGuardMax
    BY DEF Follows
  <2> QED
    BY <1>1, <1>2, <2>1, HistNumbers
<1>4. FrameAt(q, r.at) = 0 /\ Shows(q, r.at) < HistGuardMax + HistFrame
  BY <1>3 DEF Follows
<1>5. Shows(q, r.at) \in Int
  BY <1>1 DEF Shows
<1>6. ~ (t < r.at)
  BY <1>1, <1>2, <1>4, <1>5, HistNumbers
<1> QED
  BY <1>1, <1>3, <1>6

(* Then the events come on, and the machine behind is right again. *)
LEMMA TurnsAwaits ==
  ASSUME NEW q \in Moment, NEW x \in Event, NEW r \in Moment, Follows(x, q, r),
         NEW m \in MachState, NEW a, Awaits(x, r, q, m, "alarms", a),
         NEW n, NEW sub, Turns(m, n, sub)
  PROVE  Awaits(x, r, q, n, "alarms", IF a > sub THEN a - sub ELSE 0)
<1> DEFINE b == IF a > sub THEN a - sub ELSE 0
           t == m.time
<1>1. /\ m.clk \in Nat /\ sub \in Nat /\ sub <= m.clk
      /\ (sub = 0 /\ m.clk < HistGuardMax) \/ (sub = HistSub /\ m.clk >= HistGuardMax)
  BY GuardIs DEF Turns
<1>2. /\ t \in Nat /\ x.clk \in Nat /\ DueAt(x) \in Nat /\ HistSub \in Nat /\ HistFrame # 0
      /\ t <= r.at /\ a \in Nat
  BY MachNumbers, EventParts, MoreNumbers, AlarmTells DEF Awaits
<1>3. n.time <= r.at /\ n.frame = 0 /\ n.time = t /\ n.hist = m.hist /\ n.clk = m.clk - sub
  BY <1>2 DEF Turns
<1>4. \/ Runs(q, n, "alarms") /\ b = DueAt(x)
      \/ Sooner(q, n, "alarms") /\ x.type = "overflow" /\ t = r.at /\ b = x.clk
  <2>1. CASE Runs(q, m, "alarms") /\ a = DueAt(x)
    <3>1. t >= q.at /\ t >= q.next /\ m.clk = Shows(q, t) /\ FrameAt(q, t) = 0 /\ m.hist = q.hist
      BY <2>1 DEF Runs, Turns
    <3>2. CASE sub = 0
      <4>1. n.clk = m.clk
        BY <1>1, <1>3, <3>2
      <4>2. b = DueAt(x)
        BY <1>2, <2>1, <3>2
      <4>3. n.frame # HistFrame
        BY <1>2, <1>3
      <4>4. Runs(q, n, "alarms")
        BY <1>3, <3>1, <4>1, <4>3 DEF Runs
      <4> QED
        BY <4>2, <4>4
    <3>3. CASE sub = HistSub /\ m.clk >= HistGuardMax
      <4>1. x.type = "overflow" /\ t = r.at
        <5>1. t >= q.from
          BY <1>2, <3>1, MomentParts
        <5> HIDE DEF t
        <5> QED
          BY <1>2, <3>1, <3>3, <5>1, GuardTells
      <4>2. a = x.clk + HistSub
        BY <2>1, <4>1 DEF DueAt
      <4>3. b = x.clk
        BY <1>2, <3>3, <4>2
      <4>4. Sooner(q, n, "alarms")
        BY <1>3, <3>1, <3>3 DEF Sooner
      <4> QED
        BY <4>1, <4>3, <4>4
    <3> QED
      BY <1>1, <3>2, <3>3
  <2>2. CASE Behind(q, m, "alarms") /\ a = DueAt(x) + HistSub
    <3>1. /\ t = q.at /\ q.next = q.at /\ FrameAt(q, t) = 0 /\ m.hist = q.hist
          /\ m.clk = Shows(q, t) + HistSub /\ m.clk >= HistGuardMax
      BY <2>2 DEF Behind
    <3>2. sub = HistSub /\ Shows(q, t) \in Int
      <4>1. Shows(q, t) \in Int
        BY <1>2, MomentParts DEF Shows
      <4> QED
        BY <1>1, <3>1, <4>1, HistNumbers
    <3>3. b = DueAt(x)
      BY <1>2, <2>2, <3>2
    <3>4. n.clk = Shows(q, t)
      BY <1>2, <1>3, <3>1, <3>2
    <3>5. n.frame # HistFrame /\ t >= q.at
      BY <1>2, <1>3, <3>1
    <3>6. Runs(q, n, "alarms")
      BY <1>3, <3>1, <3>4, <3>5 DEF Runs
    <3> QED
      BY <3>3, <3>6
  <2>3. CASE Sooner(q, m, "alarms")
    BY <1>2, <2>3 DEF Sooner, Turns
  <2> QED
    BY <2>1, <2>2, <2>3 DEF Awaits
<1> QED
  BY <1>3, <1>4 DEF Awaits

LEMMA TurnsLasts ==
  ASSUME NEW q \in Moment,
         NEW m \in MachState, NEW a, Lasts(q, m, "alarms", a),
         NEW n, NEW sub, Turns(m, n, sub)
  PROVE  Lasts(q, n, "alarms", IF a > sub THEN a - sub ELSE 0)
<1> DEFINE b == IF a > sub THEN a - sub ELSE 0
           t == m.time
<1>1. /\ m.clk \in Nat /\ sub \in Nat /\ sub <= m.clk
      /\ (sub = 0 /\ m.clk < HistGuardMax) \/ (sub = HistSub /\ m.clk >= HistGuardMax)
  BY GuardIs DEF Turns
<1>2. /\ t \in Nat /\ HistSub \in Nat /\ HistFrame # 0 /\ (a = 0 \/ a = HistSub) /\ HistSub < HistGuardMax
      /\ q.next \in Nat /\ q.at \in Nat /\ q.from \in Nat /\ q.from <= q.at /\ q.next \in {q.at, q.at + 1}
      /\ HistFrame \in Nat \ {0, 1} /\ HistGuardMax \in Nat
  BY MachNumbers, MoreNumbers, MomentParts, HistNumbers DEF Lasts
<1>3. n.frame = 0 /\ n.time = t /\ n.hist = m.hist /\ n.clk = m.clk - sub
  BY DEF Turns
<1>4. b = 0 \/ b = HistSub
  BY <1>1, <1>2
<1>5. t <= q.next \/ n.clk <= HistSub
  BY <1>1, <1>2, <1>3 DEF Lasts
<1>6. Runs(q, n, "alarms")
  <2>1. CASE Runs(q, m, "alarms")
    <3>1. t >= q.at /\ t >= q.next /\ m.clk = Shows(q, t) /\ FrameAt(q, t) = 0 /\ m.hist = q.hist
      BY <2>1 DEF Runs, Turns
    <3>2. ~ (m.clk >= HistGuardMax)
      <4> SUFFICES ASSUME m.clk >= HistGuardMax PROVE FALSE
        OBVIOUS
      <4>1. t = q.next
        <5>1. ~ (m.clk <= HistSub)
          BY <1>1, <1>2
        <5> QED
          BY <1>2, <3>1, <5>1 DEF Lasts
      <4>2. CASE q.next = q.at
        <5>1. Turned(q, q.at) < HistGuardMax
          BY DEF Moment
        <5>2. Turned(q, q.at) = m.clk - 0
          BY <3>1, <4>1, <4>2 DEF Turned
        <5> QED
          BY <1>1, <1>2, <5>1, <5>2
      <4>3. CASE q.next = q.at + 1
        <5>1. q.from = q.at
          BY <4>3 DEF Moment
        <5>2. FrameAt(q, q.from + 1) = 1
          BY <1>2, FrameGoesOn
        <5> QED
          BY <3>1, <4>1, <4>3, <5>1, <5>2
      <4> QED
        BY <1>2, <4>2, <4>3
    <3>3. n.clk = m.clk
      <4>1. sub = 0
        BY <1>1, <3>2
      <4> QED
        BY <1>1, <1>3, <4>1
    <3>4. n.frame # HistFrame
      BY <1>2, <1>3
    <3> QED
      BY <1>3, <3>1, <3>3, <3>4 DEF Runs
  <2>2. CASE Behind(q, m, "alarms")
    <3>1. /\ t = q.at /\ q.next = q.at /\ FrameAt(q, t) = 0 /\ m.hist = q.hist
          /\ m.clk = Shows(q, t) + HistSub /\ m.clk >= HistGuardMax
      BY <2>2 DEF Behind
    <3>2. sub = HistSub /\ Shows(q, t) \in Int
      <4>1. Shows(q, t) \in Int
        BY <1>2, MomentParts DEF Shows
      <4> QED
        BY <1>1, <3>1, <4>1, HistNumbers
    <3>4. n.clk = Shows(q, t)
      BY <1>2, <1>3, <3>1, <3>2
    <3>5. n.frame # HistFrame /\ t >= q.at
      BY <1>2, <1>3, <3>1
    <3> QED
      BY <1>3, <3>1, <3>4, <3>5 DEF Runs
  <2> QED
    BY <2>1, <2>2 DEF Lasts
<1> QED
  BY <1>3, <1>4, <1>5, <1>6 DEF Lasts

(* The machine n is m after the event x at the moment r. *)
Takes(m, n, r) == n.clk = m.clk /\ n.time = m.time /\ n.frame = m.frame /\ n.hist = r.hist

LEMMA Remains ==
  ASSUME NEW q \in Moment, NEW x \in Event, NEW r \in Moment, Follows(x, q, r),
         x.type # "reset", x.type # "overflow"
  PROVE  /\ r.next = r.at /\ r.off = q.off /\ r.from = q.from
         /\ \A t : Shows(r, t) = Shows(q, t) /\ FrameAt(r, t) = FrameAt(q, t)
BY DEF Follows, Shows, FrameAt

LEMMA PlaysOn ==
  ASSUME NEW q \in Moment, NEW x \in Event, NEW r \in Moment, Follows(x, q, r),
         x.type # "reset", NEW m \in MachState, NEW a, Awaits(x, r, q, m, "alarms", a), a <= m.clk,
         NEW n, Takes(m, n, r)
  PROVE  Arrived(r, n, "alarms")
<1> DEFINE t == m.time
<1>1. /\ t = r.at /\ t \in Nat /\ m.clk \in Nat /\ m.clk <= Latest /\ HistSub \in Nat
      /\ t >= q.next /\ t >= q.at /\ HistFrame # 0 /\ m.clk - m.frame < HistGuardMax
      /\ x.clk \in Nat /\ q.off \in Int
  BY AlarmTells, MachNumbers, MoreNumbers, MomentParts, EventParts
<1>2. n.time = t /\ n.clk = m.clk /\ n.frame = m.frame /\ n.hist = r.hist
  BY DEF Takes
<1>3. r.next = r.at
  BY DEF Follows
<1>4. CASE x.type # "overflow"
  <2>1. Shows(r, t) = Shows(q, t) /\ FrameAt(r, t) = FrameAt(q, t)
    BY <1>4, Remains
  <2>2. CASE Runs(q, m, "alarms")
    <3>1. /\ m.clk = Shows(q, t) /\ m.frame \in {FrameAt(q, t), HistFrame}
          /\ m.frame = HistFrame => FrameAt(q, t) = 0
      BY <2>2 DEF Runs
    <3>2. t >= t
      BY <1>1
    <3>3. Runs(r, n, "alarms")
      BY <1>1, <1>2, <1>3, <2>1, <3>1, <3>2 DEF Runs
    <3> QED
      BY <1>1, <1>2, <3>3 DEF Arrived
  <2>3. CASE Behind(q, m, "alarms")
    <3>1. Behind(r, n, "alarms")
      BY <1>1, <1>2, <1>3, <2>1, <2>3 DEF Behind
    <3> QED
      BY <1>1, <1>2, <3>1 DEF Arrived
  <2> QED
    BY <1>4, <2>2, <2>3 DEF Awaits
<1>5. CASE x.type = "overflow"
  <2>1. /\ r.off = q.off - HistSub /\ r.from = q.from /\ FrameAt(q, t) = 0
        /\ Shows(q, t) >= HistGuardMax
    BY <1>1, <1>5 DEF Follows
  <2>2. FrameAt(r, t) = 0 /\ Shows(q, t) = t + q.off /\ Shows(r, t) = t + (q.off - HistSub)
    BY <2>1 DEF FrameAt, Shows
  <2>3. Shows(r, t) = Shows(q, t) - HistSub
    BY <1>1, <2>2
  <2>4. CASE Runs(q, m, "alarms")
    <3>1. m.clk = Shows(q, t) /\ m.frame \in {0, HistFrame}
      BY <2>1, <2>4 DEF Runs
    <3>2. m.frame = HistFrame
      <4>1. m.frame # 0
        <5> SUFFICES ASSUME m.frame = 0 PROVE FALSE
          OBVIOUS
        <5>1. m.clk - 0 < HistGuardMax
          BY <1>1
        <5> QED
          BY <1>1, <2>1, <3>1, <5>1, HistNumbers
      <4> QED
        BY <3>1, <4>1
    <3>3. m.clk = Shows(r, t) + HistSub /\ m.clk >= HistGuardMax
      BY <1>1, <2>1, <2>3, <3>1
    <3>4. Behind(r, n, "alarms")
      BY <1>1, <1>2, <1>3, <2>2, <3>2, <3>3 DEF Behind
    <3> QED
      BY <1>1, <1>2, <3>4 DEF Arrived
  <2>5. CASE Behind(q, m, "alarms")
    <3>1. m.clk = Shows(q, t) + HistSub
      BY <2>5 DEF Behind
    <3>2. FALSE
      <4>1. Shows(q, t) \in Int
        BY <1>1, <2>2
      <4> QED
        BY <1>1, <2>1, <3>1, <4>1, HistNumbers, MoreNumbers
    <3> QED
      BY <3>2
  <2>6. CASE Sooner(q, m, "alarms")
    <3>1. m.clk = Shows(r, t) /\ m.frame = 0
      BY <2>3, <2>6 DEF Sooner
    <3>2. t >= t
      BY <1>1
    <3>3. Runs(r, n, "alarms")
      BY <1>1, <1>2, <1>3, <2>2, <3>1, <3>2 DEF Runs
    <3> QED
      BY <1>1, <1>2, <3>3 DEF Arrived
  <2> QED
    BY <2>4, <2>5, <2>6 DEF Awaits
<1> QED
  BY <1>4, <1>5

(* The machine that a playback begins with. *)
LEMMA BeginningArrived ==
  ASSUME NEW base \in Base
  PROVE  Arrived(Beginning(base), base, "opcode")
<1>1. PICK q : q = Beginning(base)
  OBVIOUS
<1>2. /\ q.at = base.time /\ q.next = base.time + 1 /\ q.hist = base.hist
      /\ Shows(q, base.time) = base.clk /\ FrameAt(q, base.time) = 0
  BY <1>1, BeginningTyped
<1>3. base.frame = 0 /\ base.time >= base.time /\ HistFrame # 0
  BY MoreNumbers, MachNumbers DEF Base
<1>4. Runs(q, base, "opcode")
  BY <1>2, <1>3 DEF Runs
<1>5. Arrived(q, base, "opcode")
  BY <1>2, <1>4 DEF Arrived
<1> QED
  BY <1>1, <1>5

(* The machine after the event of a reset, when it has been reset. *)
LEMMA ResetArrived ==
  ASSUME NEW q \in Moment, NEW x \in Event, NEW r \in Moment, Follows(x, q, r), x.type = "reset",
         NEW n, n.clk = ResetClk, n.frame = 0, n.time = r.at, n.hist = r.hist
  PROVE  Arrived(r, n, "opcode")
<1>1. r.next = r.at + 1 /\ r.off = ResetClk - r.at /\ r.from = r.at
  BY DEF Follows
<1>2. r.at \in Nat /\ ResetClk \in Nat /\ HistFrame # 0
  BY MomentParts, MoreNumbers
<1>3. Shows(r, r.at) = ResetClk
  BY <1>1, <1>2 DEF Shows
<1>4. FrameAt(r, r.at) = 0
  <2>1. r.at >= r.from
    BY <1>1, <1>2
  <2>2. FrameAt(r, r.from) = 0
    BY <1>2, <2>1, FrameGoesOn
  <2> QED
    BY <1>1, <2>2
<1>5. n.time >= r.at
  BY <1>2
<1>6. Runs(r, n, "opcode")
  BY <1>2, <1>3, <1>4, <1>5 DEF Runs
<1> QED
  BY <1>1, <1>6 DEF Arrived

-----------------------------------------------------------------------------
(* The tale of what is played. *)

(* The list that is played is that of the end file, read with timestamps;  *)
(* V are its events, G their moments, and k the event that was played      *)
(* last.                                                                   *)
Played(V, G, k) ==
  /\ ev.list = (IF files.end.stopped THEN V ELSE Append(V, Sentinel)) /\ ev.current = k + 1
  /\ Tale(record.base, V, G) /\ Dense(V, G)
  /\ ResetFirst(V) /\ Len(V) > 1 => StampSecond(V)
  /\ files.end.stopped <=> V[Len(V)].type = "end"
  /\ files.end.mach.hist = G[Len(V)].hist /\ G[Len(V)].at <= files.end.mach.time
  /\ files.end.stopped => G[Len(V)].at = files.end.mach.time
  /\ k \in 1 .. Len(V)
  /\ files.end.stopped => k < Len(V)

Follow(V, G, k, m, pc, a) ==
  /\ k < Len(V) => Awaits(V[k + 1], G[k + 1], G[k], m, pc, a)
  /\ k = Len(V) => Lasts(G[k], m, pc, a)

Rebooting == pend.reset = "power"
Restarting == pend.reset = "soft"
Running == pend.reset = "none"

(* Where the machine that plays back is: it reboots to begin with, it is   *)
(* to be reset by the next event, or it waits for that event.              *)
Place(V, G, k) ==
  /\ Rebooting => k = 1 /\ ResetFirst(V) /\ ev.reset_ack
  /\ Restarting => /\ k < Len(V) /\ V[k + 1].type = "reset"
                   /\ mach.time = G[k + 1].at /\ mach.hist = G[k + 1].hist /\ ev.alarm = None
  /\ Running => Follow(V, G, k, mach, pend.pc, ev.alarm)

(* What is played was recorded, and the machine is where the recorded one  *)
(* was.                                                                    *)
PlayTold ==
  ev.playback_active /\ ~ record.mixed =>
    /\ files.end # NoFile
    /\ FilesMatch => record.base = files.end.base
    /\ record.base # NoMachine =>
         \E V \in Seq(Event), G \in Seq(Moment), k \in Nat : Played(V, G, k) /\ Place(V, G, k)

LEMMA PlayedParts ==
  ASSUME NEW V \in Seq(Event), NEW G \in Seq(Moment), NEW k \in Nat, Played(V, G, k)
  PROVE  /\ k \in 1 .. Len(V) /\ Len(V) \in Nat /\ G[k] \in Moment /\ ev.list # <<>> /\ ev.current = k + 1
         /\ \A i \in 1 .. Len(V) : ev.list[i] = V[i]
         /\ k = Len(V) => ev.list[ev.current] = Sentinel
         /\ k < Len(V) => /\ V[k + 1] \in Event /\ G[k + 1] \in Moment /\ Follows(V[k + 1], G[k], G[k + 1])
                          /\ Near(V[k + 1], G[k]) /\ ev.list[ev.current] = V[k + 1] /\ V[k].type # "end"
                          /\ k + 1 \in 1 .. Len(V)
<1>1. /\ Tale(record.base, V, G) /\ Dense(V, G) /\ k \in 1 .. Len(V) /\ Len(V) \in Nat
      /\ ev.current = k + 1
      /\ ev.list = V \/ ev.list = Append(V, Sentinel)
      /\ k = Len(V) => ev.list = Append(V, Sentinel)
  BY DEF Played
<1>2. \A i \in 1 .. Len(V) : V[i] \in Event /\ G[i] \in Moment
  <2> DEFINE base == record.base
  <2>1. Tale(base, V, G)
    BY <1>1
  <2> HIDE DEF base
  <2> QED
    BY <2>1, TaleParts
<1>3. k < Len(V) => k \in 1 .. Len(V) - 1 /\ k + 1 \in 1 .. Len(V)
  BY <1>1
<1>4. k < Len(V) => Follows(V[k + 1], G[k], G[k + 1]) /\ Near(V[k + 1], G[k]) /\ V[k].type # "end"
  BY <1>1, <1>3 DEF Tale, Dense
<1>5. (\A i \in 1 .. Len(V) : ev.list[i] = V[i]) /\ ev.list # <<>>
  <2>1. /\ \A i \in 1 .. Len(V) : Append(V, Sentinel)[i] = V[i]
        /\ Append(V, Sentinel) # <<>>
    BY SentinelTyped
  <2>2. V # <<>>
    BY <1>1
  <2> QED
    BY <1>1, <2>1, <2>2
<1>6. k = Len(V) => ev.list[ev.current] = Sentinel
  BY <1>1, SentinelTyped
<1>7. k < Len(V) => ev.list[ev.current] = V[k + 1]
  BY <1>1, <1>3, <1>5
<1> QED
  BY <1>1, <1>2, <1>3, <1>4, <1>5, <1>6, <1>7

(* A playback goes on: the list and the files stay. *)
Continues ==
  /\ ev'.playback_active /\ ~ record'.mixed => ev.playback_active /\ ~ record.mixed
  /\ files' = files /\ record'.base = record.base /\ ev'.list = ev.list

LEMMA PlayGoesOn ==
  ASSUME PlayTold, Continues,
         ASSUME NEW V \in Seq(Event), NEW G \in Seq(Moment), NEW k \in Nat,
                Played(V, G, k), Place(V, G, k), ev'.playback_active, ev.playback_active,
                ~ record.mixed
         PROVE  \E j \in Nat : /\ j \in 1 .. Len(V) /\ (files.end.stopped => j < Len(V))
                               /\ ev'.current = j + 1 /\ Place(V, G, j)'
  PROVE  PlayTold'
<1> SUFFICES ASSUME ev'.playback_active, ~ record'.mixed
             PROVE  /\ files.end # NoFile
                    /\ FilesMatch' => record.base = files.end.base
                    /\ record.base # NoMachine =>
                         \E V \in Seq(Event), G \in Seq(Moment), k \in Nat :
                           Played(V, G, k)' /\ Place(V, G, k)'
  BY DEF PlayTold, Continues
<1>1. /\ files.end # NoFile /\ (FilesMatch => record.base = files.end.base)
      /\ ev.playback_active /\ ~ record.mixed
      /\ record.base # NoMachine =>
           \E V \in Seq(Event), G \in Seq(Moment), k \in Nat : Played(V, G, k) /\ Place(V, G, k)
  BY DEF PlayTold, Continues
<1>2. FilesMatch' <=> FilesMatch
  BY DEF FilesMatch, Continues
<1> SUFFICES ASSUME record.base # NoMachine
             PROVE  \E V \in Seq(Event), G \in Seq(Moment), k \in Nat :
                      Played(V, G, k)' /\ Place(V, G, k)'
  BY <1>1, <1>2
<1>3. PICK V \in Seq(Event), G \in Seq(Moment), k \in Nat : Played(V, G, k) /\ Place(V, G, k)
  BY <1>1
<1>4. PICK j \in Nat : /\ j \in 1 .. Len(V) /\ (files.end.stopped => j < Len(V))
                       /\ ev'.current = j + 1 /\ Place(V, G, j)'
  BY <1>1, <1>3
<1>5. Played(V, G, j)'
  BY <1>3, <1>4 DEF Played, Continues
<1> QED
  BY <1>4, <1>5

LEMMA PlayStays ==
  ASSUME PlayTold, Continues, ev'.current = ev.current,
         ASSUME NEW V \in Seq(Event), NEW G \in Seq(Moment), NEW k \in Nat,
                Played(V, G, k), Place(V, G, k), ev'.playback_active, ev.playback_active, ~ record.mixed
         PROVE  Place(V, G, k)'
  PROVE  PlayTold'
<1>1. ASSUME NEW V \in Seq(Event), NEW G \in Seq(Moment), NEW k \in Nat,
             Played(V, G, k), Place(V, G, k), ev'.playback_active, ev.playback_active, ~ record.mixed
      PROVE  \E j \in Nat : /\ j \in 1 .. Len(V) /\ (files.end.stopped => j < Len(V))
                            /\ ev'.current = j + 1 /\ Place(V, G, j)'
  <2>1. Place(V, G, k)'
    BY <1>1
  <2>2. k \in 1 .. Len(V) /\ (files.end.stopped => k < Len(V)) /\ ev'.current = k + 1
    BY <1>1 DEF Played
  <2> QED
    BY <2>1, <2>2
<1> QED
  BY <1>1, PlayGoesOn

(* The alarm of a playback. *)
LEMMA Sounds ==
  ASSUME HistTyped, NEW V \in Seq(Event), NEW G \in Seq(Moment), NEW k \in Nat, Played(V, G, k), k < Len(V),
         NEW pc, Follow(V, G, k, mach, pc, ev.alarm)
  PROVE  /\ Awaits(V[k + 1], G[k + 1], G[k], mach, pc, ev.alarm)
         /\ pc = "alarms" /\ AlarmDue => mach.time = G[k + 1].at
         /\ (pc = "alarms" => ~ AlarmDue) => mach.time < G[k + 1].at
<1>1. Awaits(V[k + 1], G[k + 1], G[k], mach, pc, ev.alarm) /\ mach \in MachState
  BY DEF Follow, HistTyped
<1> DEFINE q == G[k]
           x == V[k + 1]
           r == G[k + 1]
           a == ev.alarm
<1>2. Awaits(x, r, q, mach, pc, a) /\ Follows(x, q, r) /\ x \in Event /\ q \in Moment /\ r \in Moment
  BY <1>1, PlayedParts
<1> HIDE DEF q, x, r
<1>3. CASE pc = "alarms"
  <2>1. Awaits(x, r, q, mach, "alarms", a)
    BY <1>2, <1>3
  <2>2. /\ a <= mach.clk => mach.time = r.at
        /\ ~ (a <= mach.clk) => mach.time < r.at
        /\ a \in Nat
    BY <1>1, <1>2, <2>1, AlarmTells
  <2>3. AlarmDue <=> a <= mach.clk
    BY <2>2 DEF AlarmDue, None
  <2> QED
    BY <1>1, <1>3, <2>2, <2>3 DEF r
<1>4. CASE pc # "alarms"
  <2>1. mach.time < r.at
    BY <1>2, <1>4 DEF Awaits
  <2> QED
    BY <1>1, <1>4, <2>1 DEF r
<1> QED
  BY <1>3, <1>4

(* The alarm of the sentinel is an alarm. *)
LEMMA LastAlarm ==
  ASSUME NEW q \in Moment, NEW pc, Lasts(q, mach, pc, ev.alarm)
  PROVE  AlarmDue <=> ev.alarm <= mach.clk
<1>1. ev.alarm # None
  BY MoreNumbers DEF Lasts, None
<1> QED
  BY <1>1 DEF AlarmDue

LEMMA OpcodePlays ==
  ASSUME HistTyped, Calm, RecordTyped, PlayTold, Opcode
  PROVE  PlayTold'
<1>1. /\ mach \in MachState /\ mach.frame < HistFrame /\ pend.reset = "none"
      /\ ev' = ev /\ record' = record /\ files' = files
      /\ mach'.time = mach.time + 1 /\ mach'.clk = mach.clk + 1 /\ mach'.frame = mach.frame + 1
      /\ mach'.hist = mach.hist
      /\ pend'.trap = pend.trap /\ pend'.reset = "none" /\ pend'.pc = "alarms"
  BY OpcodeMach
<1>2. pend.pc = "alarms" => ~ AlarmDue
  BY DEF Opcode, AlarmsDone
<1>3. ASSUME NEW V \in Seq(Event), NEW G \in Seq(Moment), NEW k \in Nat, Played(V, G, k), Place(V, G, k)
      PROVE  Place(V, G, k)'
  <2>1. Follow(V, G, k, mach, pend.pc, ev.alarm)
    BY <1>1, <1>3 DEF Place, Running
  <2>2. k \in 1 .. Len(V) /\ G[k] \in Moment
    BY <1>3, PlayedParts
  <2>3. CASE k < Len(V)
    <3>1. V[k + 1] \in Event /\ G[k + 1] \in Moment /\ Follows(V[k + 1], G[k], G[k + 1])
      BY <1>3, <2>3, PlayedParts
    <3>2. /\ Awaits(V[k + 1], G[k + 1], G[k], mach, pend.pc, ev.alarm)
          /\ mach.time < G[k + 1].at
      BY <1>2, <1>3, <2>1, <2>3, Sounds
    <3>3. Awaits(V[k + 1], G[k + 1], G[k], mach', "alarms", ev.alarm)
      BY <1>1, <2>2, <3>1, <3>2, OpcodeAwaits
    <3>4. Follow(V, G, k, mach', "alarms", ev.alarm)
      BY <2>3, <3>3 DEF Follow
    <3> QED
      BY <1>1, <3>4 DEF Place, Rebooting, Restarting
  <2>4. CASE k = Len(V)
    <3>1. Lasts(G[k], mach, pend.pc, ev.alarm)
      BY <2>1, <2>4 DEF Follow
    <3>2. pend.pc = "alarms" => ~ (ev.alarm <= mach.clk)
      BY <1>2, <2>2, <3>1, LastAlarm
    <3>3. Lasts(G[k], mach', "alarms", ev.alarm)
      BY <1>1, <2>2, <3>1, <3>2, OpcodeLasts
    <3>4. Follow(V, G, k, mach', "alarms", ev.alarm)
      BY <2>4, <3>3 DEF Follow
    <3> QED
      BY <1>1, <3>4 DEF Place, Rebooting, Restarting
  <2> QED
    BY <2>2, <2>3, <2>4
<1>4. Continues /\ ev'.current = ev.current
  BY <1>1 DEF Continues
<1> QED
  BY <1>3, <1>4, PlayStays

LEMMA EndFramePlays ==
  ASSUME HistTyped, Calm, RecordTyped, PlayTold, EndFrame
  PROVE  PlayTold'
<1>1. PICK sub : sub = GuardedBy(mach.clk)
  OBVIOUS
<1>2. /\ mach.frame = HistFrame /\ mach \in MachState /\ pend.pc = "alarms" /\ pend' = pend
      /\ record' = record
      /\ mach'.frame = 0 /\ mach'.clk = mach.clk - sub /\ mach'.time = mach.time
      /\ mach'.hist = mach.hist
  BY <1>1, EndFrameMach
<1>3. files' = files
  BY DEF EndFrame
<1>4. PICK c, kind : c = mach.clk - sub /\ kind = "overflow"
  OBVIOUS
<1>5. PICK e : e = IF sub = 0 THEN ev ELSE Recorded(ev, kind, c)
  OBVIOUS
<1>6. /\ ev'.record_active = ev.record_active /\ ev'.playback_active = ev.playback_active
      /\ ev'.reset_ack = ev.reset_ack
      /\ ev'.list = e.list /\ ev'.current = e.current
      /\ ev'.alarm = IF ev.alarm = None THEN None ELSE IF ev.alarm > sub THEN ev.alarm - sub ELSE 0
  BY <1>1, <1>4, <1>5, EndFrameIs
<1> SUFFICES ASSUME ev'.playback_active, ~ record'.mixed PROVE PlayTold'
  BY DEF PlayTold
<1>7. ~ ev.record_active
  BY <1>2, <1>6, CalmParts
<1>8. e = ev
  BY <1>5, <1>7 DEF Recorded
<1>9. Continues /\ ev'.current = ev.current
  BY <1>2, <1>3, <1>6, <1>8 DEF Continues
<1>10. ASSUME NEW V \in Seq(Event), NEW G \in Seq(Moment), NEW k \in Nat, Played(V, G, k), Place(V, G, k)
       PROVE  Place(V, G, k)'
  <2>1. k \in 1 .. Len(V) /\ G[k] \in Moment
    BY <1>10, PlayedParts
  <2>2. ~ Rebooting /\ ~ Rebooting' /\ (Restarting' <=> Restarting) /\ (Running' <=> Running)
    BY <1>2, CalmParts DEF Rebooting, Restarting, Running
  <2>3. CASE Restarting
    <3>1. /\ k < Len(V) /\ V[k + 1].type = "reset" /\ ~ Running
          /\ mach.time = G[k + 1].at /\ mach.hist = G[k + 1].hist /\ ev.alarm = None
      BY <1>10, <2>3 DEF Place, Restarting, Running
    <3>2. mach'.time = G[k + 1].at /\ mach'.hist = G[k + 1].hist /\ ev'.alarm = None
      BY <1>2, <1>6, <3>1
    <3> QED
      BY <2>2, <3>1, <3>2 DEF Place
  <2>4. CASE Running
    <3>1. Follow(V, G, k, mach, "alarms", ev.alarm) /\ ~ Restarting
      BY <1>2, <1>10, <2>4 DEF Place, Restarting, Running
    <3>2. Turns(mach, mach', sub)
      BY <1>1, <1>2 DEF Turns
    <3>3. CASE k < Len(V)
      <4>1. V[k + 1] \in Event /\ G[k + 1] \in Moment /\ Follows(V[k + 1], G[k], G[k + 1])
        BY <1>10, <3>3, PlayedParts
      <4>2. Awaits(V[k + 1], G[k + 1], G[k], mach, "alarms", ev.alarm)
        BY <3>1, <3>3 DEF Follow
      <4>3. ev.alarm \in Nat
        BY <1>2, <2>1, <4>1, <4>2, AlarmTells
      <4>4. ev'.alarm = IF ev.alarm > sub THEN ev.alarm - sub ELSE 0
        BY <1>6, <4>3 DEF None
      <4>5. Awaits(V[k + 1], G[k + 1], G[k], mach', "alarms", ev'.alarm)
        BY <1>2, <2>1, <3>2, <4>1, <4>2, <4>4, TurnsAwaits
      <4>6. Follow(V, G, k, mach', "alarms", ev'.alarm)
        BY <3>3, <4>5 DEF Follow
      <4> QED
        BY <1>2, <2>2, <3>1, <4>6 DEF Place
    <3>4. CASE k = Len(V)
      <4>1. Lasts(G[k], mach, "alarms", ev.alarm)
        BY <3>1, <3>4 DEF Follow
      <4>2. ev.alarm \in Nat
        BY <4>1, MoreNumbers DEF Lasts
      <4>3. ev'.alarm = IF ev.alarm > sub THEN ev.alarm - sub ELSE 0
        BY <1>6, <4>2 DEF None
      <4>4. Lasts(G[k], mach', "alarms", ev'.alarm)
        BY <1>2, <2>1, <3>2, <4>1, <4>3, TurnsLasts
      <4>5. Follow(V, G, k, mach', "alarms", ev'.alarm)
        BY <3>4, <4>4 DEF Follow
      <4> QED
        BY <1>2, <2>2, <3>1, <4>5 DEF Place
    <3> QED
      BY <2>1, <3>3, <3>4
  <2>5. Restarting \/ Running \/ Rebooting
    BY CalmParts DEF Rebooting, Restarting, Running
  <2> QED
    BY <2>2, <2>3, <2>4, <2>5
<1> QED
  BY <1>9, <1>10, PlayStays

(* The event behind one that has been played. *)
LEMMA NextFollows ==
  ASSUME NEW base, NEW V \in Seq(Event), NEW G \in Seq(Moment), Tale(base, V, G), Dense(V, G),
         NEW j \in 1 .. Len(V), NEW l, l = V \/ l = Append(V, Sentinel),
         j = Len(V) => l = Append(V, Sentinel),
         NEW e, Fields(e), e.list = l, e.current = j + 1,
         NEW m \in MachState, NEW pc, Arrived(G[j], m, pc), NEW a, a = NextAlarm(e, m.clk).alarm
  PROVE  Follow(V, G, j, m, pc, a)
<1>1. /\ Len(V) \in Nat /\ j \in Nat
      /\ \A i \in 1 .. Len(V) : V[i] \in Event /\ G[i] \in Moment
  BY TaleParts
<1>2. CASE j < Len(V)
  <2>1. j \in 1 .. Len(V) - 1 /\ j + 1 \in 1 .. Len(V)
    BY <1>1, <1>2
  <2>2. Follows(V[j + 1], G[j], G[j + 1]) /\ Near(V[j + 1], G[j])
    BY <2>1 DEF Tale, Dense
  <2>3. l[j + 1] = V[j + 1]
    <3>1. Append(V, Sentinel)[j + 1] = V[j + 1]
      BY <2>1, SentinelTyped
    <3> QED
      BY <3>1
  <2>4. V[j + 1] \in Event /\ G[j] \in Moment /\ G[j + 1] \in Moment
    BY <1>1, <2>1
  <2>5. PICK x : x = V[j + 1]
    OBVIOUS
  <2>6. x = e.list[e.current]
    BY <2>3, <2>5
  <2>7. a = NewAlarm(x, m.clk)
    BY <2>6, NextAlarmIs
  <2>8. Awaits(x, G[j + 1], G[j], m, pc, a)
    BY <2>2, <2>4, <2>5, <2>7, ArrivedAwaits
  <2> QED
    BY <1>2, <2>5, <2>8 DEF Follow
<1>3. CASE j = Len(V)
  <2>1. l[j + 1] = Sentinel
    BY <1>1, <1>3, SentinelTyped
  <2>2. PICK x : x = Sentinel
    OBVIOUS
  <2>3. x = e.list[e.current]
    BY <2>1, <2>2
  <2>4. a = NewAlarm(x, m.clk)
    BY <2>3, NextAlarmIs
  <2>5. Lasts(G[j], m, pc, a)
    BY <1>1, <2>2, <2>4, ArrivedLasts
  <2> QED
    BY <1>3, <2>5 DEF Follow
<1> QED
  BY <1>1, <1>2, <1>3

LEMMA PlayedList ==
  ASSUME NEW V \in Seq(Event), NEW G \in Seq(Moment), NEW k \in Nat, Played(V, G, k),
         NEW j \in 1 .. Len(V), files.end.stopped => j < Len(V)
  PROVE  /\ Tale(record.base, V, G) /\ Dense(V, G)
         /\ ev.list = V \/ ev.list = Append(V, Sentinel)
         /\ j = Len(V) => ev.list = Append(V, Sentinel)
BY DEF Played

(* What happened before the event that is awaited. *)
LEMMA AwaitsHist ==
  ASSUME NEW x, NEW r, NEW q, NEW m, NEW pc, NEW a, Awaits(x, r, q, m, pc, a)
  PROVE  m.hist = q.hist
BY DEF Awaits, Runs, Behind, Sooner

LEMMA EventAlarmIs ==
  ASSUME HistTyped, Calm, RecordTyped, EventAlarm, ~ ev.record_active, NEW e, e = ev.list[ev.current]
  PROVE  /\ record' = record /\ files' = files /\ pend.pc = "alarms" /\ AlarmDue
         /\ e.type = "end" => ~ ev'.playback_active
         /\ e.type = "reset" => /\ mach' = Happens("reset") /\ pend'.reset = "soft"
                                /\ ev'.current = ev.current /\ ev'.alarm = None /\ ev'.list = ev.list
         /\ e.type \notin {"end", "reset"} =>
              /\ mach' = (IF e.type \in Keys THEN Happens(e.type) ELSE mach)
              /\ pend' = pend
              /\ \E n : /\ Fields(n) /\ n.list = ev.list /\ n.current = ev.current + 1
                        /\ ev'.alarm = NextAlarm(n, mach.clk).alarm
                        /\ ev'.list = ev.list /\ ev'.current = ev.current + 1
<1>1. Fields(ev) /\ pend = [pc |-> pend.pc, reset |-> pend.reset, trap |-> pend.trap]
  BY CalmParts
<1>2. PICK no : no = None
  OBVIOUS
<1>3. PICK e0 : e0 = [ev EXCEPT !.alarm = no]
  OBVIOUS
<1>4. Fields(e0) /\ e0.list = ev.list /\ e0.current = ev.current /\ e0.alarm = no
  BY <1>1, <1>3, AlarmFlags
<1>5. /\ record' = record /\ files' = files /\ pend.pc = "alarms" /\ AlarmDue
      /\ mach' = IF e.type \in Keys \cup {"reset"} THEN Happens(e.type) ELSE mach
      /\ pend' = IF e.type = "reset" THEN [pend EXCEPT !.reset = "soft"] ELSE pend
      /\ ev' = CASE e.type = "end" -> PlaybackStopped(e0)
                 [] e.type = "reset" -> e0
                 [] OTHER -> NextAlarm([e0 EXCEPT !.current = @ + 1], mach.clk)
  BY <1>2, <1>3 DEF EventAlarm
<1>6. ASSUME e.type = "end" PROVE ~ ev'.playback_active
  <2>1. ev' = PlaybackStopped(e0)
    BY <1>5, <1>6
  <2> QED
    BY <1>4, <2>1, StoppedFlags
<1>7. ASSUME e.type = "reset"
      PROVE  /\ mach' = Happens("reset") /\ pend'.reset = "soft"
             /\ ev'.current = ev.current /\ ev'.alarm = None /\ ev'.list = ev.list
  <2>1. ev' = e0 /\ mach' = Happens("reset") /\ pend' = [pend EXCEPT !.reset = "soft"]
    BY <1>5, <1>7
  <2> QED
    BY <1>1, <1>2, <1>4, <2>1
<1>8. ASSUME e.type \notin {"end", "reset"}
      PROVE  /\ mach' = (IF e.type \in Keys THEN Happens(e.type) ELSE mach)
             /\ pend' = pend
             /\ \E n : /\ Fields(n) /\ n.list = ev.list /\ n.current = ev.current + 1
                       /\ ev'.alarm = NextAlarm(n, mach.clk).alarm
                       /\ ev'.list = ev.list /\ ev'.current = ev.current + 1
  <2>1. PICK n : n = [e0 EXCEPT !.current = @ + 1]
    OBVIOUS
  <2>2. Fields(n) /\ n.list = ev.list /\ n.current = ev.current + 1
    BY <1>4, <2>1, NextFlags
  <2>3. ev' = NextAlarm(n, mach.clk)
    BY <1>5, <1>8, <2>1
  <2>4. ev'.list = ev.list /\ ev'.current = ev.current + 1
    BY <2>2, <2>3, NextAlarmFlags
  <2> QED
    BY <1>5, <1>8, <2>2, <2>3, <2>4
<1> QED
  BY <1>5, <1>6, <1>7, <1>8

LEMMA EventAlarmPlays ==
  ASSUME HistTyped, Calm, RecordTyped, PlayTold, EventAlarm
  PROVE  PlayTold'
<1> SUFFICES ASSUME ev'.playback_active, ~ record'.mixed PROVE PlayTold'
  BY DEF PlayTold
<1>1. ev.playback_active
  BY EventAlarmFlags
<1>2. record' = record /\ files' = files /\ pend.pc = "alarms" /\ AlarmDue
  BY DEF EventAlarm
<1>3. ~ ev.record_active
  BY <1>1, <1>2, CalmParts
<1>4. mach \in MachState /\ mach' \in MachState
  BY EventAlarmTyped DEF HistTyped
<1>5. PICK x : x = ev.list[ev.current]
  OBVIOUS
<1>6. /\ x.type # "end"
      /\ x.type = "reset" => /\ mach' = Happens("reset") /\ pend'.reset = "soft"
                             /\ ev'.current = ev.current /\ ev'.alarm = None /\ ev'.list = ev.list
      /\ x.type \notin {"end", "reset"} =>
           /\ mach' = (IF x.type \in Keys THEN Happens(x.type) ELSE mach)
           /\ pend' = pend
           /\ \E n : /\ Fields(n) /\ n.list = ev.list /\ n.current = ev.current + 1
                     /\ ev'.alarm = NextAlarm(n, mach.clk).alarm
                     /\ ev'.list = ev.list /\ ev'.current = ev.current + 1
  BY <1>3, <1>5, EventAlarmIs
<1>7. Continues
  BY <1>1, <1>2, <1>6 DEF Continues
<1>8. ASSUME NEW V \in Seq(Event), NEW G \in Seq(Moment), NEW k \in Nat, Played(V, G, k), Place(V, G, k)
      PROVE  \E j \in Nat : /\ j \in 1 .. Len(V) /\ (files.end.stopped => j < Len(V))
                            /\ ev'.current = j + 1 /\ Place(V, G, j)'
  <2>1. Running /\ ~ Restarting /\ ~ Rebooting
    <3>1. ~ Rebooting
      BY <1>2, CalmParts DEF Rebooting
    <3>2. ~ Restarting
      BY <1>2, <1>8 DEF Place, AlarmDue
    <3> QED
      BY <3>1, <3>2, CalmParts DEF Rebooting, Restarting, Running
  <2>2. Follow(V, G, k, mach, "alarms", ev.alarm)
    BY <1>2, <1>8, <2>1 DEF Place
  <2>3. /\ k \in 1 .. Len(V) /\ Len(V) \in Nat /\ ev.current = k + 1 /\ G[k] \in Moment
        /\ k = Len(V) => ev.list[ev.current] = Sentinel
    BY <1>8, PlayedParts
  <2>4. k < Len(V)
    BY <1>5, <1>6, <2>3, SentinelTyped
  <2>5. /\ x = V[k + 1] /\ x \in Event /\ G[k + 1] \in Moment /\ Follows(x, G[k], G[k + 1])
    BY <1>5, <1>8, <2>4, PlayedParts
  <2>6. PICK r : r = G[k + 1]
    OBVIOUS
  <2>7. /\ Awaits(x, r, G[k], mach, "alarms", ev.alarm) /\ mach.time = r.at
    BY <1>2, <1>8, <2>2, <2>4, <2>5, <2>6, Sounds
  <2>8. mach.hist = G[k].hist
    BY <2>7, AwaitsHist
  <2>9. r \in Moment /\ Follows(x, G[k], r)
    BY <2>5, <2>6
  <2>10. CASE x.type = "reset"
    <3>1. /\ mach' = Happens("reset") /\ pend'.reset = "soft" /\ ev'.current = k + 1 /\ ev'.alarm = None
      BY <1>6, <2>3, <2>10
    <3>2. PICK input \in Types : input = "reset"
      BY DEF Types
    <3>3. mach'.time = mach.time /\ mach'.hist = Append(mach.hist, <<mach.time, input>>)
      BY <1>4, <3>1, <3>2, HappensIs
    <3>4. r.hist = Append(G[k].hist, <<r.at, x.type>>)
      BY <2>9, <2>10 DEF Follows, Reported
    <3>5. mach'.time = G[k + 1].at /\ mach'.hist = G[k + 1].hist
      BY <2>6, <2>7, <2>8, <2>10, <3>2, <3>3, <3>4
    <3>6. Place(V, G, k)'
      BY <2>4, <2>5, <2>10, <3>1, <3>5 DEF Place, Rebooting, Restarting, Running
    <3> QED
      BY <1>8, <2>3, <3>1, <3>6 DEF Played
  <2>11. CASE x.type # "reset"
    <3>1. mach' = (IF x.type \in Keys THEN Happens(x.type) ELSE mach) /\ pend' = pend
      BY <1>6, <2>11
    <3>2. PICK n : /\ Fields(n) /\ n.list = ev.list /\ n.current = ev.current + 1
                   /\ ev'.alarm = NextAlarm(n, mach.clk).alarm
                   /\ ev'.list = ev.list /\ ev'.current = ev.current + 1
      BY <1>6, <2>11
    <3>3. Takes(mach, mach', r)
      <4>1. CASE x.type \in Keys
        <5>1. x.type \in Types /\ mach' = Happens(x.type)
          BY <3>1, <4>1 DEF Types
        <5>2. /\ mach'.hist = Append(mach.hist, <<mach.time, x.type>>)
              /\ mach'.time = mach.time /\ mach'.clk = mach.clk /\ mach'.frame = mach.frame
          BY <1>4, <5>1, HappensIs
        <5>3. r.hist = Append(G[k].hist, <<r.at, x.type>>)
          BY <2>9, <4>1 DEF Follows, Reported
        <5> QED
          BY <2>7, <2>8, <5>2, <5>3 DEF Takes
      <4>2. CASE x.type \notin Keys
        <5>1. r.hist = G[k].hist
          BY <2>9, <2>11, <4>2 DEF Follows, Reported
        <5> QED
          BY <2>8, <3>1, <4>2, <5>1 DEF Takes
      <4> QED
        BY <4>1, <4>2
    <3>4. ev.alarm <= mach.clk
      BY <1>2 DEF AlarmDue
    <3>5. Arrived(r, mach', "alarms")
      BY <1>4, <2>3, <2>5, <2>7, <2>9, <2>11, <3>3, <3>4, PlaysOn
    <3>6. PICK j \in Nat : j = k + 1
      BY <2>3
    <3>7. j \in 1 .. Len(V) /\ (files.end.stopped => j < Len(V))
      <4>1. files.end.stopped => V[Len(V)].type = "end"
        BY <1>8 DEF Played
      <4> QED
        BY <1>6, <2>3, <2>4, <2>5, <3>6, <4>1
    <3>8. PICK l : l = ev.list
      OBVIOUS
    <3>9. /\ Tale(record.base, V, G) /\ Dense(V, G) /\ (l = V \/ l = Append(V, Sentinel))
          /\ j = Len(V) => l = Append(V, Sentinel)
      BY <1>8, <3>7, <3>8, PlayedList
    <3>10. mach'.clk = mach.clk
      BY <3>3 DEF Takes
    <3>11. /\ n.list = l /\ n.current = j + 1 /\ ev'.alarm = NextAlarm(n, mach'.clk).alarm
           /\ Arrived(G[j], mach', "alarms")
      BY <2>3, <2>6, <3>2, <3>5, <3>6, <3>8, <3>10
    <3>12. Follow(V, G, j, mach', "alarms", ev'.alarm)
      BY <1>4, <3>2, <3>7, <3>9, <3>11, NextFollows
    <3>13. Place(V, G, j)'
      BY <1>2, <2>1, <3>1, <3>12 DEF Place, Rebooting, Restarting, Running
    <3> QED
      BY <2>3, <3>2, <3>6, <3>7, <3>13
  <2> QED
    BY <2>10, <2>11
<1> QED
  BY <1>7, <1>8, PlayGoesOn

(* What event_reset_ack does during a playback. *)
LEMMA RebootIs ==
  ASSUME HistTyped, Calm, RecordTyped, ~ ev.record_active, ev.list # <<>>, ev.reset_ack,
         ev.list[ev.current].type # "reset", NEW c, ev' = ResetAcked(ev, c)
  PROVE  \E n : /\ Fields(n) /\ n.list = ev.list /\ n.current = ev.current
                /\ ev'.alarm = NextAlarm(n, c).alarm
                /\ ev'.list = ev.list /\ ev'.current = ev.current
<1>1. Fields(ev) /\ ev.reset_ack \in BOOLEAN
  BY CalmParts
<1>2. PICK n : n = [ev EXCEPT !.reset_ack = FALSE]
  OBVIOUS
<1>3. Fields(n) /\ n.list = ev.list /\ n.current = ev.current
  BY <1>1, <1>2, AckFlags
<1>4. ev' = Acked(ev, c)
  BY <1>1, ResetKeepsPlace
<1>5. ev' = NextAlarm(n, c)
  BY <1>2, <1>4 DEF Acked
<1>6. ev'.list = ev.list /\ ev'.current = ev.current
  BY <1>3, <1>5, NextAlarmFlags
<1> QED
  BY <1>3, <1>5, <1>6

LEMMA RestartIs ==
  ASSUME HistTyped, Calm, RecordTyped, ~ ev.record_active, ev.list # <<>>, ~ ev.reset_ack,
         ev.list[ev.current].type = "reset", NEW c, ev' = ResetAcked(ev, c)
  PROVE  \E n : /\ Fields(n) /\ n.list = ev.list /\ n.current = ev.current + 1
                /\ ev'.alarm = NextAlarm(n, c).alarm
                /\ ev'.list = ev.list /\ ev'.current = ev.current + 1
<1>1. Fields(ev)
  BY CalmParts
<1>2. PICK n : n = [ev EXCEPT !.current = @ + 1]
  OBVIOUS
<1>3. Fields(n) /\ n.list = ev.list /\ n.current = ev.current + 1
  BY <1>1, <1>2, NextFlags
<1>4. Acked(ev, c) = ev
  BY DEF Acked
<1>5. ev' = Skipped(ev, c)
  BY <1>4, ResetAckedIs
<1>6. ev' = NextAlarm(n, c)
  BY <1>2, <1>5 DEF Skipped
<1>7. ev'.list = ev.list /\ ev'.current = ev.current + 1
  BY <1>3, <1>6, NextAlarmFlags
<1> QED
  BY <1>3, <1>6, <1>7

LEMMA ResetBase ==
  ASSUME NEW base, NEW V, NEW G, Tale(base, V, G), ResetFirst(V)
  PROVE  base = PowerUp /\ G[1] = Beginning(PowerUp)
BY DEF Tale, Begins, ResetFirst

LEMMA DoResetPlays ==
  ASSUME HistTyped, Calm, RecordTyped, PlayTold, DoReset
  PROVE  PlayTold'
<1> SUFFICES ASSUME ev'.playback_active, ~ record'.mixed PROVE PlayTold'
  BY DEF PlayTold
<1>1. PICK c : c = ResetClk
  OBVIOUS
<1>2. /\ ev' = ResetAcked(ev, c) /\ record' = record /\ files' = files
      /\ pend.trap = "none" /\ pend.reset \in {"soft", "power"}
      /\ pend'.trap = "none" /\ pend'.reset = "none" /\ pend'.pc = "opcode"
      /\ pend.reset = "power" => mach' = PowerUp
      /\ pend.reset = "soft" => /\ mach'.clk = c /\ mach'.frame = 0 /\ mach'.time = mach.time
                                /\ mach'.hist = mach.hist
      /\ mach' \in MachState /\ mach'.clk = c
  BY <1>1, DoResetIs
<1>3. /\ Fields(ev) /\ ev.reset_ack \in BOOLEAN /\ (ev.list = <<>> => ~ ev.reset_ack)
  BY CalmParts
<1>4. ev.playback_active /\ ev'.list = ev.list
  BY <1>2, <1>3, ResetFlags
<1>5. ~ ev.record_active /\ (ev.reset_ack => pend.reset = "power")
  BY <1>2, <1>4, CalmParts
<1>6. Continues
  BY <1>2, <1>4 DEF Continues
<1>7. ASSUME NEW V \in Seq(Event), NEW G \in Seq(Moment), NEW k \in Nat, Played(V, G, k), Place(V, G, k)
      PROVE  \E j \in Nat : /\ j \in 1 .. Len(V) /\ (files.end.stopped => j < Len(V))
                            /\ ev'.current = j + 1 /\ Place(V, G, j)'
  <2>1. /\ k \in 1 .. Len(V) /\ Len(V) \in Nat /\ ev.current = k + 1 /\ G[k] \in Moment /\ ev.list # <<>>
        /\ k = Len(V) => ev.list[ev.current] = Sentinel
    BY <1>7, PlayedParts
  <2>2. PICK l : l = ev.list
    OBVIOUS
  <2>3. ASSUME NEW j \in 1 .. Len(V), files.end.stopped => j < Len(V),
               NEW n, Fields(n), n.list = ev.list, n.current = j + 1,
               ev'.alarm = NextAlarm(n, c).alarm, Arrived(G[j], mach', "opcode")
        PROVE  Place(V, G, j)'
    <3>1. /\ Tale(record.base, V, G) /\ Dense(V, G) /\ (l = V \/ l = Append(V, Sentinel))
          /\ j = Len(V) => l = Append(V, Sentinel)
      BY <1>7, <2>2, <2>3, PlayedList
    <3>2. n.list = l /\ ev'.alarm = NextAlarm(n, mach'.clk).alarm
      BY <1>2, <2>2, <2>3
    <3>3. Follow(V, G, j, mach', "opcode", ev'.alarm)
      BY <1>2, <2>3, <3>1, <3>2, NextFollows
    <3> QED
      BY <1>2, <3>3 DEF Place, Rebooting, Restarting, Running
  <2>4. CASE pend.reset = "power"
    <3>1. k = 1 /\ ResetFirst(V) /\ ev.reset_ack /\ mach' = PowerUp
      BY <1>2, <1>7, <2>4 DEF Place, Rebooting
    <3>2. Tale(record.base, V, G)
      BY <1>7 DEF Played
    <3>3. G[k] = Beginning(PowerUp)
      BY <3>1, <3>2, ResetBase
    <3>4. Arrived(G[k], mach', "opcode")
      BY <3>1, <3>3, PowerUpIs, BeginningArrived
    <3>5. ev.list[ev.current].type # "reset"
      <4>1. CASE k < Len(V)
        <5>1. ev.list[ev.current] = V[2] /\ Len(V) > 1
          BY <1>7, <2>1, <3>1, <4>1, PlayedParts
        <5>2. V[2].type = "timestamp"
          BY <1>7, <3>1, <5>1 DEF Played, StampSecond
        <5> QED
          BY <5>1, <5>2
      <4>2. CASE k = Len(V)
        BY <2>1, <4>2, SentinelTyped
      <4> QED
        BY <2>1, <4>1, <4>2
    <3>6. PICK n : /\ Fields(n) /\ n.list = ev.list /\ n.current = ev.current
                   /\ ev'.alarm = NextAlarm(n, c).alarm
                   /\ ev'.list = ev.list /\ ev'.current = ev.current
      BY <1>2, <1>5, <2>1, <3>1, <3>5, RebootIs
    <3>7. files.end.stopped => k < Len(V)
      BY <1>7 DEF Played
    <3>8. Place(V, G, k)'
      BY <2>1, <2>3, <3>4, <3>6, <3>7
    <3> QED
      BY <2>1, <3>6, <3>7, <3>8
  <2>5. CASE pend.reset = "soft"
    <3>1. /\ k < Len(V) /\ V[k + 1].type = "reset" /\ mach.time = G[k + 1].at /\ mach.hist = G[k + 1].hist
      BY <1>7, <2>5 DEF Place, Restarting
    <3>2. /\ ev.list[ev.current] = V[k + 1] /\ V[k + 1] \in Event /\ G[k + 1] \in Moment
          /\ Follows(V[k + 1], G[k], G[k + 1])
      BY <1>7, <3>1, PlayedParts
    <3>3. ~ ev.reset_ack
      BY <1>5, <2>5
    <3>4. PICK n : /\ Fields(n) /\ n.list = ev.list /\ n.current = ev.current + 1
                   /\ ev'.alarm = NextAlarm(n, c).alarm
                   /\ ev'.list = ev.list /\ ev'.current = ev.current + 1
      BY <1>2, <1>5, <2>1, <3>1, <3>2, <3>3, RestartIs
    <3>5. PICK j \in Nat : j = k + 1
      BY <2>1
    <3>6. j \in 1 .. Len(V) /\ (files.end.stopped => j < Len(V))
      <4>1. files.end.stopped => V[Len(V)].type = "end"
        BY <1>7 DEF Played
      <4> QED
        BY <2>1, <3>1, <3>5, <4>1
    <3>7. mach'.clk = ResetClk /\ mach'.frame = 0 /\ mach'.time = G[k + 1].at /\ mach'.hist = G[k + 1].hist
      BY <1>1, <1>2, <2>5, <3>1
    <3>8. Arrived(G[k + 1], mach', "opcode")
      BY <2>1, <3>1, <3>2, <3>7, ResetArrived
    <3>9. Place(V, G, j)'
      BY <2>1, <2>3, <3>4, <3>5, <3>6, <3>8
    <3> QED
      BY <2>1, <3>4, <3>5, <3>6, <3>9
  <2> QED
    BY <1>2, <2>4, <2>5
<1> QED
  BY <1>6, <1>7, PlayGoesOn

(* The user's inputs are not during a playback. *)
LEMMA InputPlays ==
  ASSUME HistTyped, Calm, RecordTyped, UserReset \/ \E key \in Keys : Input(key)
  PROVE  PlayTold'
<1>1. Fields(ev) /\ ~ ev.playback_active
  BY CalmParts DEF UserReset, Input
<1>2. PICK kind, c : ev' = Recorded(ev, kind, c)
  BY DEF UserReset, Input
<1>3. ~ ev'.playback_active
  BY <1>1, <1>2, RecordedFlags
<1> QED
  BY <1>3 DEF PlayTold

LEMMA SamePlace ==
  ASSUME PlayTold, ev' = ev, files' = files, mach' = mach, record'.base = record.base,
         record'.mixed = record.mixed, pend'.pc = pend.pc, pend'.reset = pend.reset
  PROVE  PlayTold'
<1>1. ASSUME NEW V \in Seq(Event), NEW G \in Seq(Moment), NEW k \in Nat,
             Played(V, G, k), Place(V, G, k), ev'.playback_active, ev.playback_active, ~ record.mixed
      PROVE  Place(V, G, k)'
  <2>1. (Rebooting' <=> Rebooting) /\ (Restarting' <=> Restarting) /\ (Running' <=> Running)
    BY DEF Rebooting, Restarting, Running
  <2>2. Follow(V, G, k, mach', pend'.pc, ev'.alarm) <=> Follow(V, G, k, mach, pend.pc, ev.alarm)
    OBVIOUS
  <2> QED
    BY <1>1, <2>1, <2>2 DEF Place
<1>2. Continues /\ ev'.current = ev.current
  BY DEF Continues
<1> QED
  BY <1>1, <1>2, PlayStays

LEMMA RequestIs ==
  ASSUME HistTyped, Calm, RecordTyped, NEW trap, NEW e, Request(trap, e)
  PROVE  /\ ev' = e /\ files' = files /\ mach' = mach /\ record'.base = record.base
         /\ record'.mixed = record.mixed /\ pend'.pc = pend.pc /\ pend'.reset = pend.reset
<1>1. /\ ev' = e /\ files' = files /\ mach' = mach
      /\ pend' = [pend EXCEPT !.trap = IF trap = "none" THEN @ ELSE trap]
      /\ record' = [record EXCEPT !.requests = @ + 1]
  BY DEF Request
<1>2. /\ pend = [pc |-> pend.pc, reset |-> pend.reset, trap |-> pend.trap]
      /\ record = [base |-> record.base, mixed |-> record.mixed,
                   requests |-> record.requests, limit |-> record.limit]
  BY CalmParts DEF RecordTyped
<1>3. record'.base = record.base /\ record'.mixed = record.mixed
  BY <1>1, <1>2
<1>4. pend'.pc = pend.pc /\ pend'.reset = pend.reset
  <2>1. PICK t : t = IF trap = "none" THEN pend.trap ELSE trap
    OBVIOUS
  <2>2. pend' = [pend EXCEPT !.trap = t]
    BY <1>1, <2>1
  <2> QED
    BY <1>2, <2>2
<1> QED
  BY <1>1, <1>3, <1>4

LEMMA RequestPlays ==
  ASSUME HistTyped, Calm, RecordTyped, PlayTold, NEW trap, NEW e, Request(trap, e),
         e = ev \/ ~ e.playback_active \/ (ev.record_active /\ e.playback_active = ev.playback_active)
  PROVE  PlayTold'
<1>1. /\ ev' = e /\ files' = files /\ mach' = mach /\ record'.base = record.base
      /\ record'.mixed = record.mixed /\ pend'.pc = pend.pc /\ pend'.reset = pend.reset
  BY RequestIs
<1>2. CASE e = ev
  BY <1>1, <1>2, SamePlace
<1>3. CASE ~ e.playback_active
  BY <1>1, <1>3 DEF PlayTold
<1>4. CASE ev.record_active /\ e.playback_active = ev.playback_active
  BY <1>1, <1>4, CalmParts DEF PlayTold
<1> QED
  BY <1>2, <1>3, <1>4

LEMMA RequestsPlay ==
  ASSUME HistTyped, Calm, RecordTyped, PlayTold,
         \/ \E mode \in {"save", "load", "reset", "overwrite"} : RecordStart(mode)
         \/ RecordStop \/ SetMilestone \/ ResetMilestone \/ PlaybackStart \/ PlaybackStop
  PROVE  PlayTold'
<1>1. Fields(ev)
  BY CalmParts
<1>2. PICK p : p = PlaybackStopped(ev)
  OBVIOUS
<1>3. ~ p.playback_active
  BY <1>1, <1>2, StoppedFlags
<1>4. ASSUME NEW mode, RecordStart(mode) PROVE PlayTold'
  <2>1. PICK e : Request(mode, e) /\ (e = ev \/ e = p)
    BY <1>2, <1>4 DEF RecordStart
  <2> QED
    BY <1>3, <2>1, RequestPlays
<1>5. CASE RecordStop
  <2>1. PICK kind, c, no, trap :
          Request(trap, [Recorded(ev, kind, c) EXCEPT !.alarm = no])
    BY <1>5 DEF RecordStop
  <2>2. PICK r : r = Recorded(ev, kind, c)
    OBVIOUS
  <2>3. PICK e : e = [r EXCEPT !.alarm = no]
    OBVIOUS
  <2>4. Fields(r) /\ r.playback_active = ev.playback_active
    BY <1>1, <2>2, RecordedFlags
  <2>5. e.playback_active = r.playback_active
    BY <2>3, <2>4, AlarmFlags
  <2>6. ev.record_active /\ Request(trap, e)
    BY <1>5, <2>1, <2>2, <2>3 DEF RecordStop
  <2> QED
    BY <2>4, <2>5, <2>6, RequestPlays
<1>6. CASE SetMilestone \/ ResetMilestone \/ PlaybackStart
  <2>1. PICK trap : Request(trap, ev)
    BY <1>6 DEF SetMilestone, ResetMilestone, PlaybackStart
  <2> QED
    BY <2>1, RequestPlays
<1>7. CASE PlaybackStop
  <2>1. PICK trap : Request(trap, p)
    BY <1>2, <1>7 DEF PlaybackStop
  <2> QED
    BY <1>3, <2>1, RequestPlays
<1> QED
  BY <1>4, <1>5, <1>6, <1>7

(* A trap that fails during a playback. *)
LEMMA ServePlays ==
  ASSUME HistTyped, Calm, RecordTyped, PlayTold, Traps, pend' = Served, AlarmsDone,
         ev' = ev, files' = files, mach' = mach, record' = record
  PROVE  PlayTold'
<1>1. /\ pend.pc = "alarms" /\ pend.reset = "none" /\ pend'.reset = "none" /\ pend'.pc = "opcode"
      /\ mach.frame < HistFrame /\ ~ AlarmDue /\ mach \in MachState
  BY TrapServes, ServedIs, EvFields DEF AlarmsDone
<1>2. ASSUME NEW V \in Seq(Event), NEW G \in Seq(Moment), NEW k \in Nat, Played(V, G, k), Place(V, G, k)
      PROVE  Place(V, G, k)'
  <2>1. Follow(V, G, k, mach, "alarms", ev.alarm)
    BY <1>1, <1>2 DEF Place, Running
  <2>2. k \in 1 .. Len(V) /\ G[k] \in Moment
    BY <1>2, PlayedParts
  <2>3. CASE k < Len(V)
    <3>1. V[k + 1] \in Event /\ G[k + 1] \in Moment /\ Follows(V[k + 1], G[k], G[k + 1])
      BY <1>2, <2>3, PlayedParts
    <3>2. PICK pc : pc = "alarms"
      OBVIOUS
    <3>3. /\ Awaits(V[k + 1], G[k + 1], G[k], mach, pc, ev.alarm)
          /\ mach.time < G[k + 1].at
      BY <1>1, <1>2, <2>1, <2>3, <3>2, Sounds
    <3>4. Awaits(V[k + 1], G[k + 1], G[k], mach, "opcode", ev.alarm)
      BY <1>1, <2>2, <3>1, <3>3, ServeAwaits
    <3>5. Follow(V, G, k, mach, "opcode", ev.alarm)
      BY <2>3, <3>4 DEF Follow
    <3> QED
      BY <1>1, <3>5 DEF Place, Rebooting, Restarting
  <2>4. CASE k = Len(V)
    <3>1. Lasts(G[k], mach, "alarms", ev.alarm)
      BY <2>1, <2>4 DEF Follow
    <3>2. ~ (ev.alarm <= mach.clk)
      BY <1>1, <2>2, <3>1, LastAlarm
    <3>3. Lasts(G[k], mach, "opcode", ev.alarm)
      BY <1>1, <2>2, <3>1, <3>2, ServeLasts
    <3>4. Follow(V, G, k, mach, "opcode", ev.alarm)
      BY <2>4, <3>3 DEF Follow
    <3> QED
      BY <1>1, <3>4 DEF Place, Rebooting, Restarting
  <2> QED
    BY <2>2, <2>3, <2>4
<1>3. Continues /\ ev'.current = ev.current
  BY DEF Continues
<1> QED
  BY <1>2, <1>3, PlayStays

LEMMA MixedFlag ==
  ASSUME RecordTyped, NEW b, record' = Mixed([record EXCEPT !.base = b])
  PROVE  record'.mixed <=> record.mixed \/ ev.playback_active
BY DEF RecordTyped, Mixed

LEMMA BaseFlag ==
  ASSUME RecordTyped, NEW b, record' = record \/ record' = [record EXCEPT !.base = b]
  PROVE  record'.mixed = record.mixed
BY DEF RecordTyped

(* A new recording is not what is played. *)
LEMMA NewRecordPlays ==
  ASSUME HistTyped, Calm, RecordTyped, NEW b, record' = Mixed([record EXCEPT !.base = b]),
         ev'.playback_active = ev.playback_active
  PROVE  PlayTold'
BY MixedFlag DEF PlayTold

LEMMA SavePlays ==
  ASSUME HistTyped, Calm, RecordTyped, PlayTold, TrapSave
  PROVE  PlayTold'
<1>1. Fields(ev)
  BY CalmParts
<1>2. Traps /\ pend' = Served /\ AlarmsDone /\ mach' = mach
  BY DEF TrapSave, Serve, Traps
<1>3. CASE UNCHANGED <<ev, files, record>>
  BY <1>2, <1>3, ServePlays
<1>4. CASE /\ ev' = Started(NewList(ev, "initial save", mach.clk), mach.clk)
           /\ record' = Mixed([record EXCEPT !.base = mach])
  <2>1. PICK i, n : ev' = Started(NewList(ev, i, n), n)
    BY <1>4
  <2>2. PICK l : l = NewList(ev, i, n)
    OBVIOUS
  <2>3. Fields(l) /\ l.playback_active = ev.playback_active
    BY <1>1, <2>2, NewListFlags
  <2>4. ev'.playback_active = ev.playback_active
    BY <2>1, <2>2, <2>3, StartedFlags
  <2> QED
    BY <1>4, <2>4, NewRecordPlays
<1> QED
  BY <1>3, <1>4 DEF TrapSave

LEMMA LoadPlays ==
  ASSUME HistTyped, Calm, RecordTyped, PlayTold, TrapLoad
  PROVE  PlayTold'
<1>1. Fields(ev)
  BY CalmParts
<1>2. Traps /\ pend' = Served /\ AlarmsDone /\ files' = files
  BY DEF TrapLoad, Serve, Traps
<1>3. CASE UNCHANGED <<ev, mach, record>>
  BY <1>2, <1>3, ServePlays
<1>4. CASE /\ ev' = Started(ReadToEnd(ev, files.end.list), files.end.mach.clk)
           /\ record' = Mixed([record EXCEPT !.base = files.end.base])
  <2>1. PICK l, n : l = ReadToEnd(ev, files.end.list) /\ n = files.end.mach.clk /\ ev' = Started(l, n)
    BY <1>4
  <2>2. Fields(l) /\ l.playback_active = ev.playback_active
    BY <1>1, <2>1, ReadToEndFlags
  <2>3. Started(l, n).playback_active = l.playback_active
    BY <2>2, StartedFlags
  <2>4. ev'.playback_active = ev.playback_active
    BY <2>1, <2>2, <2>3
  <2> QED
    BY <1>4, <2>4, NewRecordPlays
<1> QED
  BY <1>3, <1>4 DEF TrapLoad

LEMMA TrapResetPlays ==
  ASSUME HistTyped, Calm, RecordTyped, PlayTold, TrapReset
  PROVE  PlayTold'
<1>1. Fields(ev)
  BY CalmParts
<1>2. PICK i, c, n, b : /\ ev' = Started(NewList(ev, i, c), n)
                        /\ record' = Mixed([record EXCEPT !.base = b])
  BY DEF TrapReset
<1>3. PICK l : l = NewList(ev, i, c)
  OBVIOUS
<1>4. Fields(l) /\ l.playback_active = ev.playback_active
  BY <1>1, <1>3, NewListFlags
<1>5. ev'.playback_active = ev.playback_active
  BY <1>2, <1>3, <1>4, StartedFlags
<1> QED
  BY <1>2, <1>5, NewRecordPlays

(* The other traps of a recording. *)
LEMMA RecordingPlays ==
  ASSUME HistTyped, Calm, RecordTyped, PlayTold, TrapStop \/ TrapSetMilestone \/ TrapResetMilestone
  PROVE  PlayTold'
<1>1. Fields(ev) /\ ev.record_active /\ (ev.playback_active /\ ~ record.mixed => ~ ev.record_active)
  <2>1. pend.trap \in {"stop", "set milestone", "reset milestone"}
    BY DEF TrapStop, TrapSetMilestone, TrapResetMilestone, Serve
  <2> QED
    BY <2>1, CalmParts DEF Calm
<1>2. record'.mixed = record.mixed
  <2>1. \E b : record' = record \/ record' = [record EXCEPT !.base = b]
    BY DEF TrapStop, TrapSetMilestone, TrapResetMilestone
  <2> QED
    BY <2>1, BaseFlag
<1>3. ev'.playback_active = ev.playback_active
  <2>1. CASE TrapStop
    <3>1. ev' = ev \/ ev' = [ev EXCEPT !.record_active = FALSE]
      BY <2>1 DEF TrapStop
    <3> QED
      BY <1>1, <3>1 DEF Fields
  <2>2. CASE TrapSetMilestone
    <3>1. ev' = ev \/ \E m : ev' = [ev EXCEPT !.milestone = m]
      BY <2>2 DEF TrapSetMilestone
    <3> QED
      BY <1>1, <3>1 DEF Fields
  <2>3. CASE TrapResetMilestone
    <3>1. PICK e : e = ReadToEnd(ev, files.end.list)
      OBVIOUS
    <3>2. Fields(e) /\ e.playback_active = ev.playback_active
      BY <1>1, <3>1, ReadToEndFlags
    <3>3. \/ ev' = [ev EXCEPT !.record_active = FALSE]
          \/ ev' = e
          \/ \E m : ev' = [e EXCEPT !.alarm = m, !.next_timestamp_clk = m]
      BY <2>3, <3>1 DEF TrapResetMilestone
    <3> QED
      BY <1>1, <3>2, <3>3 DEF Fields
  <2> QED
    BY <2>1, <2>2, <2>3
<1> QED
  BY <1>1, <1>2, <1>3 DEF PlayTold

LEMMA OverwritePlays ==
  ASSUME HistTyped, Calm, RecordTyped, PlayTold, TrapOverwrite
  PROVE  PlayTold'
<1>1. Fields(ev) /\ ~ ev.playback_active
  <2>1. pend.trap = "overwrite"
    BY DEF TrapOverwrite, Serve
  <2> QED
    BY <2>1, CalmParts DEF Calm
<1>2. PICK l, n : ev' = Started([ev EXCEPT !.list = Append(SubSeq(@, 1, ev.current - 1), Sentinel)], n)
  BY DEF TrapOverwrite
<1>3. PICK m : m = Append(SubSeq(ev.list, 1, ev.current - 1), Sentinel)
  OBVIOUS
<1>4. PICK e : e = [ev EXCEPT !.list = m]
  OBVIOUS
<1>5. Fields(e) /\ e.playback_active = ev.playback_active
  BY <1>1, <1>4 DEF Fields
<1>6. ev' = Started(e, n)
  BY <1>2, <1>3, <1>4
<1>7. ~ ev'.playback_active
  BY <1>1, <1>5, <1>6, StartedFlags
<1> QED
  BY <1>7 DEF PlayTold

LEMMA ReplayedIs ==
  ASSUME RecordTyped, NEW start, record' = Replayed(start)
  PROVE  record'.base = IF files.end.base = start THEN start ELSE NoMachine
BY DEF RecordTyped, Replayed

(* What has been read is the tale of the end file. *)
Opened(f, base, V, H) ==
  /\ Tale(base, V, H) /\ Dense(V, H)
  /\ ResetFirst(V) /\ Len(V) > 1 => StampSecond(V)
  /\ ReadModule(f.list).list = IF f.stopped THEN V ELSE Append(V, Sentinel)
  /\ f.stopped <=> V[Len(V)].type = "end"
  /\ f.mach.hist = H[Len(V)].hist /\ H[Len(V)].at <= f.mach.time
  /\ f.stopped => H[Len(V)].at = f.mach.time

LEMMA FileOpens ==
  ASSUME NEW f, FileTold(f), NEW base, base = f.base
  PROVE  \E V \in Seq(Event), H \in Seq(Moment) : Opened(f, base, V, H)
<1>1. PICK W \in Seq(Event), Q \in Seq(Moment) : FileTale(f, W, Q)
  BY DEF FileTold
<1>2. /\ Tale(base, W, Q) /\ (\A i \in 1 .. Len(W) : W[i].type # "timestamp")
      /\ f.list = Append(W, Sentinel)
  BY <1>1 DEF FileTale
<1>3. PICK V \in Seq(Event), H \in Seq(Moment) :
        /\ Tale(base, V, H) /\ Dense(V, H) /\ H[Len(V)] = Q[Len(W)]
        /\ V[Len(V)].type = "end" <=> W[Len(W)].type = "end"
        /\ ResetFirst(V) /\ Len(V) > 1 => StampSecond(V)
        /\ ReadModule(Append(W, Sentinel)).list =
             IF V[Len(V)].type = "end" THEN V ELSE Append(V, Sentinel)
  BY <1>2, ReadTale
<1>4. /\ At(Q[Len(W)], f.mach)
      /\ f.stopped <=> W[Len(W)].type = "end"
      /\ f.stopped => Q[Len(W)].at = f.mach.time
  BY <1>1 DEF FileTale
<1>5. f.stopped <=> V[Len(V)].type = "end"
  BY <1>3, <1>4
<1>6. ReadModule(f.list).list = IF f.stopped THEN V ELSE Append(V, Sentinel)
  BY <1>2, <1>3, <1>5
<1>7. /\ f.mach.hist = H[Len(V)].hist /\ H[Len(V)].at <= f.mach.time
      /\ f.stopped => H[Len(V)].at = f.mach.time
  <2>1. PICK q : q = H[Len(V)]
    OBVIOUS
  <2>2. /\ f.mach.time >= q.at /\ f.mach.hist = q.hist
        /\ f.stopped => q.at = f.mach.time
    BY <1>3, <1>4, <2>1 DEF At
  <2>3. f.mach.time >= q.at <=> q.at <= f.mach.time
    OBVIOUS
  <2> QED
    BY <2>1, <2>2, <2>3
<1> QED
  BY <1>3, <1>5, <1>6, <1>7 DEF Opened

LEMMA EndLater ==
  ASSUME NEW base, NEW V, NEW G, Tale(base, V, G), V[Len(V)].type = "end"
  PROVE  1 < Len(V)
<1>1. /\ Len(V) \in Nat /\ Len(V) >= 1 /\ V[1].type \in Starts
  BY TaleParts
<1>2. V[1].type # "end"
  BY <1>1 DEF Starts
<1>3. Len(V) # 1
  BY <1>2
<1>4. \A m \in Nat : m >= 1 /\ m # 1 => 1 < m
  OBVIOUS
<1> QED
  BY <1>1, <1>3, <1>4

LEMMA OneAndOne == \E k \in Nat : k = 1 /\ 2 = k + 1
OBVIOUS

Begun(s, start, V, G, k) ==
  /\ V[k] = s.list[k] /\ G[k] = Beginning(start) /\ start \in Base
  /\ Tale(start, V, G) /\ Dense(V, G) /\ k \in 1 .. Len(V)
  /\ s.list = V \/ s.list = Append(V, Sentinel)
  /\ k = Len(V) => s.list = Append(V, Sentinel)

LEMMA Opens ==
  ASSUME RecordTyped, FilesTold, files.end # NoFile, files' = files,
         NEW s, s = ReadModule(files.end.list),
         NEW start, record' = Replayed(start), record'.base # NoMachine,
         NEW k \in Nat, k = 1, ev'.list = s.list, ev'.current = k + 1
  PROVE  \E V \in Seq(Event), G \in Seq(Moment) : Played(V, G, k)' /\ Begun(s, start, V, G, k)
<1>1. files.end.base = start /\ record'.base = start /\ start # NoMachine
  BY ReplayedIs
<1>2. FileTold(files.end)
  BY <1>1 DEF FilesTold
<1>3. PICK f : f = files.end
  OBVIOUS
<1>4. PICK V \in Seq(Event), H \in Seq(Moment) : Opened(f, start, V, H)
  BY <1>1, <1>2, <1>3, FileOpens
<1>5. /\ Tale(start, V, H) /\ Dense(V, H)
      /\ ResetFirst(V) /\ Len(V) > 1 => StampSecond(V)
      /\ s.list = IF f.stopped THEN V ELSE Append(V, Sentinel)
      /\ f.stopped <=> V[Len(V)].type = "end"
      /\ f.mach.hist = H[Len(V)].hist /\ H[Len(V)].at <= f.mach.time
      /\ f.stopped => H[Len(V)].at = f.mach.time
  BY <1>3, <1>4 DEF Opened
<1>6. Len(V) \in Nat /\ Len(V) >= 1
  BY <1>5, TaleParts
<1>7. f.stopped => k < Len(V)
  BY <1>5, EndLater
<1>8. k \in 1 .. Len(V)
  BY <1>6
<1>9. Played(V, H, k)'
  <2>1. f = files'.end /\ start = record'.base
    BY <1>1, <1>3
  <2>2. ev'.list = (IF files'.end.stopped THEN V ELSE Append(V, Sentinel)) /\ ev'.current = k + 1
    BY <1>5, <2>1
  <2>3. Tale(record'.base, V, H)
    BY <1>5, <2>1
  <2> QED
    BY <1>5, <1>7, <1>8, <2>1, <2>2, <2>3 DEF Played
<1>10. V[k] = s.list[k]
  <2>1. Append(V, Sentinel)[k] = V[k]
    BY <1>8, SentinelTyped
  <2> QED
    BY <1>5, <2>1
<1>11. H[k] = Beginning(start) /\ start \in Base
  BY <1>5 DEF Tale, Begins
<1>12. Begun(s, start, V, H, k)
  BY <1>5, <1>7, <1>8, <1>10, <1>11 DEF Begun
<1> QED
  BY <1>9, <1>12

(* A playback begins. *)
LEMMA PlaybackBegins ==
  ASSUME RecordTyped, FilesTold, files.end # NoFile, files' = files,
         NEW s, s = ReadModule(files.end.list),
         NEW start, record' = Replayed(start), NEW i, s.list[1].type = i,
         start = IF i = "initial save" THEN files.start ELSE PowerUp,
         NEW n, Fields(n), n.list = s.list, n.current = 2, ev'.list = s.list, ev'.current = 2,
         \/ /\ mach' = start /\ ev'.alarm = NextAlarm(n, start.clk).alarm
            /\ pend'.reset = "none" /\ pend'.pc = "opcode"
         \/ i = "initial reset" /\ pend'.reset = "power" /\ ev'.reset_ack
  PROVE  PlayTold'
<1>1. FilesMatch' => record'.base = files'.end.base
  <2>1. ASSUME FilesMatch' PROVE files.end.base = start
    BY <2>1 DEF FilesMatch
  <2> QED
    BY <2>1, ReplayedIs
<1>2. ASSUME record'.base # NoMachine
      PROVE  \E V \in Seq(Event), G \in Seq(Moment), k \in Nat : Played(V, G, k)' /\ Place(V, G, k)'
  <2>1. PICK k \in Nat : k = 1 /\ 2 = k + 1
    BY OneAndOne
  <2>2. PICK V \in Seq(Event), G \in Seq(Moment) : Played(V, G, k)' /\ Begun(s, start, V, G, k)
    <3>1. ev'.current = k + 1
      BY <2>1
    <3> QED
      BY <1>2, <2>1, <3>1, Opens
  <2>3. Place(V, G, k)'
    <3>1. CASE i = "initial reset" /\ pend'.reset = "power" /\ ev'.reset_ack
      <4>1. ResetFirst(V)
        BY <2>1, <2>2, <3>1 DEF ResetFirst, Begun
      <4> QED
        BY <2>1, <3>1, <4>1 DEF Place, Rebooting, Restarting, Running
    <3>2. CASE /\ mach' = start /\ ev'.alarm = NextAlarm(n, start.clk).alarm
               /\ pend'.reset = "none" /\ pend'.pc = "opcode"
      <4>1. start \in MachState /\ Arrived(G[k], start, "opcode")
        BY <2>2, BeginningArrived DEF Base, Begun
      <4>2. PICK l, a : l = s.list /\ a = NextAlarm(n, start.clk).alarm
        OBVIOUS
      <4>3. /\ Tale(start, V, G) /\ Dense(V, G) /\ (l = V \/ l = Append(V, Sentinel))
            /\ k \in 1 .. Len(V) /\ (k = Len(V) => l = Append(V, Sentinel))
        BY <2>2, <4>2 DEF Begun
      <4>4. n.list = l /\ n.current = k + 1
        BY <2>1, <4>2
      <4>5. Follow(V, G, k, start, "opcode", a)
        BY <4>1, <4>2, <4>3, <4>4, NextFollows
      <4>6. Follow(V, G, k, mach', pend'.pc, ev'.alarm)
        BY <3>2, <4>2, <4>5
      <4> QED
        BY <3>2, <4>6 DEF Place, Rebooting, Restarting, Running
    <3> QED
      BY <3>1, <3>2
  <2> QED
    BY <2>2, <2>3
<1> QED
  BY <1>1, <1>2 DEF PlayTold

LEMMA PlaybackPlays ==
  ASSUME HistTyped, Calm, RecordTyped, FilesTold, TrapPlayback
  PROVE  PlayTold'
<1>1. Fields(ev) /\ ~ ev.playback_active /\ Traps
  <2>1. pend.trap = "playback"
    BY DEF TrapPlayback
  <2> QED
    BY <2>1, CalmParts DEF Calm, Traps
<1>2. PICK s : s = ReadModule(IF files.end = NoFile THEN <<>> ELSE files.end.list)
  OBVIOUS
<1>3. PICK e : e = [ev EXCEPT !.list = s.list, !.next_timestamp_clk = s.ts, !.current = 1]
  OBVIOUS
<1>4. PICK e2 : e2 = [e EXCEPT !.current = 2, !.playback_active = TRUE]
  OBVIOUS
<1>5. /\ Fields(e) /\ e.playback_active = ev.playback_active /\ e.list = s.list
      /\ Fields(e2) /\ e2.list = s.list /\ e2.current = 2
  <2>1. PICK l, t : l = s.list /\ t = s.ts
    OBVIOUS
  <2>2. PICK c, d : c = 1 /\ d = 2
    OBVIOUS
  <2>3. PICK b \in BOOLEAN : b = TRUE
    OBVIOUS
  <2>4. /\ e = [ev EXCEPT !.list = l, !.next_timestamp_clk = t, !.current = c]
        /\ e2 = [e EXCEPT !.current = d, !.playback_active = b]
    BY <1>3, <1>4, <2>1, <2>2, <2>3
  <2>5. Fields(ev)
    BY <1>1
  <2>6. /\ Fields(e) /\ e.playback_active = ev.playback_active /\ e.list = l
        /\ Fields(e2) /\ e2.list = l /\ e2.current = d
    <3>1. Fields(e) /\ e.playback_active = ev.playback_active /\ e.list = l
      BY <2>4, <2>5 DEF Fields
    <3>2. Fields(e2) /\ e2.list = e.list /\ e2.current = d
      BY <2>3, <2>4, <3>1 DEF Fields
    <3> QED
      BY <3>1, <3>2
  <2> QED
    BY <2>1, <2>2, <2>6
<1>6. files' = files
  BY DEF TrapPlayback
<1>7. \/ UNCHANGED ev
      \/ ev' = e
      \/ /\ files.end # NoFile /\ e.list[1].type = "initial save" /\ pend' = Served
         /\ mach' = files.start /\ ev' = NextAlarm(e2, files.start.clk) /\ record' = Replayed(files.start)
      \/ /\ files.end # NoFile /\ e.list[1].type = "initial reset"
         /\ ev' = [e2 EXCEPT !.reset_ack = TRUE] /\ pend' = PowerCycled /\ record' = Replayed(PowerUp)
  BY <1>2, <1>3, <1>4 DEF TrapPlayback
<1>8. CASE UNCHANGED ev
  BY <1>1, <1>8 DEF PlayTold
<1>9. CASE ev' = e
  BY <1>1, <1>5, <1>9 DEF PlayTold
<1>10. CASE /\ files.end # NoFile /\ e.list[1].type = "initial save" /\ pend' = Served
            /\ mach' = files.start /\ ev' = NextAlarm(e2, files.start.clk) /\ record' = Replayed(files.start)
  <2>1. s = ReadModule(files.end.list)
    BY <1>2, <1>10
  <2>2. PICK i : i = s.list[1].type
    OBVIOUS
  <2>3. i = "initial save"
    BY <1>5, <1>10, <2>2
  <2>4. PICK start : start = files.start
    OBVIOUS
  <2>5. start = IF i = "initial save" THEN files.start ELSE PowerUp
    BY <2>3, <2>4
  <2>6. record' = Replayed(start) /\ mach' = start /\ ev' = NextAlarm(e2, start.clk)
    BY <1>10, <2>4
  <2>7. ev'.list = s.list /\ ev'.current = 2
    BY <1>5, <2>6, NextAlarmFlags
  <2>8. ev'.alarm = NextAlarm(e2, start.clk).alarm
    BY <2>6
  <2>9. pend'.reset = "none" /\ pend'.pc = "opcode"
    BY <1>1, <1>10, ServedIs
  <2> QED
    BY <1>5, <1>6, <1>10, <2>1, <2>2, <2>5, <2>6, <2>7, <2>8, <2>9, PlaybackBegins
<1>11. CASE /\ files.end # NoFile /\ e.list[1].type = "initial reset"
            /\ ev' = [e2 EXCEPT !.reset_ack = TRUE] /\ pend' = PowerCycled /\ record' = Replayed(PowerUp)
  <2>1. s = ReadModule(files.end.list)
    BY <1>2, <1>11
  <2>2. PICK i : i = s.list[1].type
    OBVIOUS
  <2>3. i = "initial reset"
    BY <1>5, <1>11, <2>2
  <2>4. PICK start : start = PowerUp
    OBVIOUS
  <2>5. start = IF i = "initial save" THEN files.start ELSE PowerUp
    BY <2>3, <2>4
  <2>6. record' = Replayed(start)
    BY <1>11, <2>4
  <2>7. ev'.list = s.list /\ ev'.current = 2 /\ ev'.reset_ack
    BY <1>5, <1>11 DEF Fields
  <2>8. pend'.reset = "power"
    <3>1. pend \in PendState
      BY DEF HistTyped
    <3> QED
      BY <1>11, <3>1 DEF PowerCycled, PendState
  <2> QED
    BY <1>5, <1>6, <1>11, <2>1, <2>2, <2>3, <2>5, <2>6, <2>7, <2>8, PlaybackBegins
<1> QED
  BY <1>7, <1>8, <1>9, <1>10, <1>11

LEMMA PlayToldNext ==
  ASSUME HistTyped, Calm, RecordTyped, FilesTold, PlayTold, [HistNext]_histVars
  PROVE  PlayTold'
<1>1. CASE UNCHANGED histVars
  BY <1>1, SamePlace DEF histVars
<1>2. CASE EventAlarm
  BY <1>2, EventAlarmPlays
<1>3. CASE UserReset \/ \E key \in Keys : Input(key)
  BY <1>3, InputPlays
<1>4. CASE EndFrame
  BY <1>4, EndFramePlays
<1>5. CASE \/ \E mode \in {"save", "load", "reset", "overwrite"} : RecordStart(mode)
           \/ RecordStop \/ SetMilestone \/ ResetMilestone \/ PlaybackStart \/ PlaybackStop
  BY <1>5, RequestsPlay
<1>6. CASE TrapSave
  BY <1>6, SavePlays
<1>7. CASE TrapLoad
  BY <1>7, LoadPlays
<1>8. CASE TrapReset
  BY <1>8, TrapResetPlays
<1>9. CASE TrapOverwrite
  BY <1>9, OverwritePlays
<1>10. CASE TrapStop \/ TrapSetMilestone \/ TrapResetMilestone
  BY <1>10, RecordingPlays
<1>11. CASE TrapPlayback
  BY <1>11, PlaybackPlays
<1>12. CASE DoReset
  BY <1>12, DoResetPlays
<1>13. CASE Opcode
  BY <1>13, OpcodePlays
<1> QED
  BY <1>1, <1>2, <1>3, <1>4, <1>5, <1>6, <1>7, <1>8, <1>9, <1>10, <1>11, <1>12, <1>13 DEF HistNext

(* The machine at which a recording overwrites the rest of what is played. *)
LEMMA FollowAt ==
  ASSUME HistTyped, NEW V \in Seq(Event), NEW G \in Seq(Moment), NEW k \in Nat, Played(V, G, k),
         Follow(V, G, k, mach, "alarms", ev.alarm), ~ AlarmDue, mach.frame < HistFrame
  PROVE  At(G[k], mach)
<1>1. mach \in MachState /\ k \in 1 .. Len(V) /\ G[k] \in Moment
  BY EvFields, PlayedParts
<1>2. Runs(G[k], mach, "alarms")
  <2>1. CASE k < Len(V)
    <3>1. PICK pc : pc = "alarms"
      OBVIOUS
    <3>2. V[k + 1] \in Event /\ G[k + 1] \in Moment /\ Follows(V[k + 1], G[k], G[k + 1])
      BY <2>1, PlayedParts
    <3>3. /\ Awaits(V[k + 1], G[k + 1], G[k], mach, pc, ev.alarm)
          /\ mach.time < G[k + 1].at
      BY <2>1, <3>1, Sounds
    <3>4. Runs(G[k], mach, pc)
      BY <1>1, <3>2, <3>3, AwaitsGoes
    <3> QED
      BY <3>1, <3>4
  <2>2. CASE k = Len(V)
    <3>1. Lasts(G[k], mach, "alarms", ev.alarm)
      BY <2>2 DEF Follow
    <3>2. ~ (ev.alarm <= mach.clk)
      BY <1>1, <3>1, LastAlarm
    <3> QED
      BY <1>1, <3>1, <3>2, ServeLasts
  <2> QED
    BY <1>1, <2>1, <2>2
<1> QED
  BY <1>1, <1>2, GoesAt

LEMMA FrontOfFront ==
  ASSUME NEW S, NEW V \in Seq(S), NEW s \in S, NEW k \in 1 .. Len(V)
  PROVE  SubSeq(Append(V, s), 1, k) = SubSeq(V, 1, k)
<1>1. /\ Append(V, s) \in Seq(S) /\ Len(Append(V, s)) = Len(V) + 1 /\ k \in Nat /\ Len(V) \in Nat
      /\ \A i \in 1 .. k : Append(V, s)[i] = V[i]
  OBVIOUS
<1> DEFINE W == Append(V, s)
<1> HIDE DEF W
<1>2. /\ SubSeq(W, 1, k) \in Seq(S) /\ SubSeq(V, 1, k) \in Seq(S)
      /\ Len(SubSeq(W, 1, k)) = k /\ Len(SubSeq(V, 1, k)) = k
      /\ \A i \in 1 .. k : SubSeq(W, 1, k)[i] = W[i] /\ SubSeq(V, 1, k)[i] = V[i]
  BY <1>1, SubSeqProperties DEF W
<1>3. \A i \in 1 .. k : W[i] = V[i]
  BY <1>1 DEF W
<1> QED
  BY <1>2, <1>3, SeqEqual DEF W

Overwrites == pend.trap = "overwrite"

LEMMA OverwriteStarts ==
  ASSUME ~ Crowded, HistTyped, Calm, RecordTyped, PlayTold, RecordStart("overwrite")
  PROVE  OverwriteTold'
<1>1. PICK trap : trap = "overwrite"
  OBVIOUS
<1>2. PICK e : e = PlaybackStopped(ev)
  OBVIOUS
<1>3. ev.playback_active /\ Request(trap, e)
  BY <1>1, <1>2 DEF RecordStart
<1>4. /\ ev' = e /\ files' = files /\ mach' = mach /\ record'.base = record.base
      /\ record'.mixed = record.mixed
  BY <1>3, RequestIs
<1>5. e.list = ev.list /\ e.current = ev.current
  BY <1>2, CalmParts, StoppedFlags
<1>6. pend.pc = "alarms" /\ mach.frame = 0 /\ pend.reset = "none" /\ ~ AlarmDue
  BY <1>3 DEF Request, Idle
<1> SUFFICES ASSUME ~ record.mixed, record.base # NoMachine
             PROVE  \E P \in Seq(Event), G \in Seq(Moment) :
                      /\ SubSeq(ev.list, 1, ev.current - 1) = P /\ ev.current = Len(P) + 1
                      /\ Tale(record.base, P, G) /\ P[Len(P)].type # "end"
                      /\ At(G[Len(P)], mach)
  BY <1>4, <1>5 DEF OverwriteTold
<1>7. PICK V \in Seq(Event), G \in Seq(Moment), k \in Nat : Played(V, G, k) /\ Place(V, G, k)
  BY <1>3 DEF PlayTold
<1>8. At(G[k], mach)
  <2>1. Follow(V, G, k, mach, "alarms", ev.alarm)
    BY <1>6, <1>7 DEF Place, Running
  <2>2. mach.frame < HistFrame
    BY <1>6, MoreNumbers
  <2> QED
    BY <1>6, <1>7, <2>1, <2>2, FollowAt
<1>9. /\ k \in 1 .. Len(V) /\ Len(V) \in Nat /\ ev.current = k + 1
      /\ k < Len(V) => V[k].type # "end"
  BY <1>7, PlayedParts
<1>10. V[k].type # "end"
  <2>1. /\ files.end.stopped <=> V[Len(V)].type = "end"
        /\ files.end.stopped => k < Len(V)
    BY <1>7 DEF Played
  <2> QED
    BY <1>9, <2>1
<1>11. PICK base : base = record.base
  OBVIOUS
<1>12. Tale(base, V, G) /\ (ev.list = V \/ ev.list = Append(V, Sentinel))
  BY <1>7, <1>11 DEF Played
<1>13. PICK P, H : P = SubSeq(V, 1, k) /\ H = SubSeq(G, 1, k)
  OBVIOUS
<1>14. /\ Tale(base, P, H) /\ Len(P) = k /\ P[k] = V[k] /\ H[k] = G[k]
  <2>1. /\ Tale(base, SubSeq(V, 1, k), SubSeq(G, 1, k)) /\ Len(SubSeq(V, 1, k)) = k
        /\ \A i \in 1 .. k : SubSeq(V, 1, k)[i] = V[i] /\ SubSeq(G, 1, k)[i] = G[i]
    BY <1>9, <1>12, TalePrefix
  <2> QED
    BY <1>9, <1>13, <2>1
<1>15. P \in Seq(Event) /\ H \in Seq(Moment)
  BY <1>14, TaleParts
<1>16. SubSeq(ev.list, 1, k) = P
  <2>1. SubSeq(Append(V, Sentinel), 1, k) = SubSeq(V, 1, k)
    BY <1>9, SentinelTyped, FrontOfFront
  <2> QED
    BY <1>12, <1>13, <2>1
<1>17. ev.current - 1 = k
  BY <1>9
<1> QED
  BY <1>8, <1>9, <1>10, <1>11, <1>14, <1>15, <1>16, <1>17

LEMMA TrapStays ==
  ASSUME HistTyped, Calm, RecordTyped,
         EventAlarm \/ UserReset \/ EndFrame \/ DoReset \/ Opcode \/ \E key \in Keys : Input(key)
  PROVE  pend'.trap = pend.trap
<1>1. pend = [pc |-> pend.pc, reset |-> pend.reset, trap |-> pend.trap]
  BY CalmParts
<1>2. \/ pend' = pend
      \/ pend' = [pend EXCEPT !.reset = "soft"]
      \/ pend' = [pend EXCEPT !.reset = "none", !.pc = "opcode"]
      \/ pend' = [pend EXCEPT !.pc = "alarms"]
  BY DEF EventAlarm, UserReset, EndFrame, DoReset, Opcode, Input
<1> QED
  BY <1>1, <1>2

LEMMA RequestTrap ==
  ASSUME HistTyped, Calm, RecordTyped, NEW trap, NEW e, Request(trap, e), trap # "overwrite", ~ Overwrites
  PROVE  ~ Overwrites'
<1>1. PICK t : t = IF trap = "none" THEN pend.trap ELSE trap
  OBVIOUS
<1>2. pend' = [pend EXCEPT !.trap = t]
  BY <1>1 DEF Request
<1>3. pend'.trap = t
  BY <1>2, CalmParts
<1> QED
  BY <1>1, <1>3 DEF Overwrites

LEMMA OverwriteToldNext ==
  ASSUME ~ Crowded, HistTyped, Calm, RecordTyped, PlayTold, OverwriteTold, [HistNext]_histVars
  PROVE  OverwriteTold'
<1>1. CASE UNCHANGED histVars
  BY <1>1 DEF histVars, OverwriteTold
<1>2. CASE Traps
  <2>1. pend'.trap = "none"
    BY <1>2, TrapServes
  <2> QED
    BY <2>1 DEF OverwriteTold
<1>3. CASE ~ Traps /\ ~ UNCHANGED histVars
  <2>1. pend.trap = "none"
    BY <1>3, TrapFirst
  <2>2. ~ Overwrites
    BY <2>1 DEF Overwrites
  <2>3. CASE EventAlarm \/ UserReset \/ EndFrame \/ DoReset \/ Opcode \/ \E key \in Keys : Input(key)
    <3>1. pend'.trap = pend.trap
      BY <2>3, TrapStays
    <3> QED
      BY <2>1, <3>1 DEF OverwriteTold
  <2>4. CASE RecordStart("overwrite")
    BY <2>4, OverwriteStarts
  <2>5. CASE \/ \E mode \in {"save", "load", "reset"} : RecordStart(mode)
             \/ RecordStop \/ SetMilestone \/ ResetMilestone \/ PlaybackStart \/ PlaybackStop
    <3>1. \E trap, e : Request(trap, e) /\ trap # "overwrite"
      <4>1. CASE \E mode \in {"save", "load", "reset"} : RecordStart(mode)
        BY <4>1 DEF RecordStart
      <4>2. CASE RecordStop
        <5>1. PICK e : e = [Recorded(ev, "end", mach.clk) EXCEPT !.alarm = None]
          OBVIOUS
        <5>2. PICK trap : trap = "stop"
          OBVIOUS
        <5>3. Request(trap, e)
          BY <4>2, <5>1, <5>2 DEF RecordStop
        <5>4. trap # "overwrite"
          BY <5>2
        <5> QED
          BY <5>3, <5>4
      <4>3. CASE SetMilestone
        <5>1. PICK trap : trap = "set milestone"
          OBVIOUS
        <5>2. Request(trap, ev)
          BY <4>3, <5>1 DEF SetMilestone
        <5>3. trap # "overwrite"
          BY <5>1
        <5> QED
          BY <5>2, <5>3
      <4>4. CASE ResetMilestone
        <5>1. PICK trap : trap = "reset milestone"
          OBVIOUS
        <5>2. Request(trap, ev)
          BY <4>4, <5>1 DEF ResetMilestone
        <5>3. trap # "overwrite"
          BY <5>1
        <5> QED
          BY <5>2, <5>3
      <4>5. CASE PlaybackStart
        <5>1. PICK trap : trap = "playback"
          OBVIOUS
        <5>2. Request(trap, ev)
          BY <4>5, <5>1 DEF PlaybackStart
        <5>3. trap # "overwrite"
          BY <5>1
        <5> QED
          BY <5>2, <5>3
      <4>6. CASE PlaybackStop
        <5>1. PICK trap : trap = "none"
          OBVIOUS
        <5>2. Request(trap, PlaybackStopped(ev))
          BY <4>6, <5>1 DEF PlaybackStop
        <5>3. trap # "overwrite"
          BY <5>1
        <5> QED
          BY <5>2, <5>3
      <4> QED
        BY <2>5, <4>1, <4>2, <4>3, <4>4, <4>5, <4>6
    <3>2. ~ Overwrites'
      BY <2>2, <3>1, RequestTrap
    <3> QED
      BY <3>2 DEF OverwriteTold, Overwrites
  <2>6. HistNext
    BY <1>3
  <2> QED
    BY <1>3, <2>3, <2>4, <2>5, <2>6 DEF HistNext, Traps
<1> QED
  BY <1>1, <1>2, <1>3

(***************************************************************************)
(* The invariant of the history, and what follows from it.                 *)
(***************************************************************************)
TaleInv ==
  /\ HistTyped /\ Calm /\ RecordTyped /\ Remembered
  /\ FilesTold /\ RecordTold /\ OverwriteTold /\ PlayTold

LEMMA TaleInvInit ==
  ASSUME HistInit
  PROVE  TaleInv
<1>1. /\ ev = [record_active |-> FALSE, playback_active |-> FALSE, list |-> <<>>, current |-> 1,
               next_timestamp_clk |-> 0, alarm |-> None, milestone |-> 0, reset_ack |-> FALSE]
      /\ mach = Machine(StartClk)
      /\ files = [start |-> NoFile, end |-> NoFile]
      /\ pend = [pc |-> "alarms", trap |-> "none", reset |-> "none"]
      /\ record \in [base : {PowerUp}, mixed : {FALSE}, requests : {0}, limit : Limits]
  BY DEF HistInit
<1>2. HistTyped
  BY HistTypedInit
<1>3. Calm
  BY <1>1 DEF Calm
<1>4. RecordTyped
  BY <1>1 DEF RecordTyped
<1>5. Remembered
  <2>1. Remembers(mach)
    BY <1>1, HistNumbers, StartIs
  <2> QED
    BY <1>1, <2>1 DEF Remembered
<1>6. FilesTold /\ RecordTold /\ OverwriteTold /\ PlayTold
  BY <1>1 DEF FilesTold, RecordTold, OverwriteTold, PlayTold
<1> QED
  BY <1>2, <1>3, <1>4, <1>5, <1>6 DEF TaleInv

LEMMA TaleInvNext ==
  ASSUME ~ Crowded, TaleInv, [HistNext]_histVars
  PROVE  TaleInv'
<1>1. /\ HistTyped /\ Calm /\ RecordTyped /\ Remembered
      /\ FilesTold /\ RecordTold /\ OverwriteTold /\ PlayTold
  BY DEF TaleInv
<1>2. HistTyped'
  BY <1>1, HistTypedNext
<1>3. Calm'
  BY <1>1, CalmNext
<1>4. RecordTyped'
  BY <1>1, RecordTypedNext
<1>5. Remembered'
  BY <1>1, RememberedNext
<1>6. FilesTold'
  BY <1>1, FilesToldNext
<1>7. RecordTold'
  BY <1>1, RecordToldNext
<1>8. OverwriteTold'
  BY <1>1, OverwriteToldNext
<1>9. PlayTold'
  BY <1>1, PlayToldNext
<1> QED
  BY <1>2, <1>3, <1>4, <1>5, <1>6, <1>7, <1>8, <1>9 DEF TaleInv

(* What is played and matches is whole. *)
LEMMA Whole ==
  ASSUME HistTyped, ev.playback_active, ~ record.mixed, FilesMatch, PlayTold
  PROVE  \E V \in Seq(Event), G \in Seq(Moment), k \in Nat : Played(V, G, k) /\ Place(V, G, k)
<1>1. files.end # NoFile /\ record.base = files.end.base
  BY DEF PlayTold
<1>2. files.end.base = (IF ev.list[1].type = "initial save" THEN files.start ELSE PowerUp)
  BY DEF FilesMatch
<1>3. ASSUME ev.list[1].type = "initial save" PROVE files.start # NoMachine
  <2>1. PICK start : start = files.start
    OBVIOUS
  <2>2. ev.list \in Seq(Savable(start)) /\ ev.list # <<>>
    BY <2>1 DEF HistTyped, EvTyped, Listed
  <2>3. ev.list[1] \in Savable(start)
    BY <2>2
  <2>4. start # NoFile
    BY <1>3, <2>3 DEF Savable
  <2>5. files.start \in MachState
    BY <2>1, <2>4 DEF HistTyped, Readable
  <2>6. files.start.clk \in Nat
    BY <2>5, MachNumbers
  <2>7. NoMachine.clk \notin Nat
    BY DEF NoMachine, Machine, None
  <2> QED
    BY <2>6, <2>7
<1>4. record.base # NoMachine
  BY <1>1, <1>2, <1>3, PowerUpIs
<1> QED
  BY <1>4 DEF PlayTold

(* The history of a moment begins that of a later one. *)
LEMMA HistPrefix ==
  ASSUME NEW q \in Moment, NEW r \in Moment, Len(q.hist) <= Len(r.hist),
         \A i \in 1 .. Len(q.hist) : r.hist[i] = q.hist[i]
  PROVE  q.hist = SubSeq(r.hist, 1, Len(q.hist)) /\ Len(q.hist) \in 0 .. Len(r.hist)
<1> DEFINE S == Nat \X Types
           n == Len(q.hist)
<1>1. q.hist \in Seq(S) /\ r.hist \in Seq(S)
  BY MomentParts
<1>2. n \in Nat /\ n <= Len(r.hist) /\ Len(r.hist) \in Nat
  BY <1>1
<1> HIDE DEF S
<1>3. /\ SubSeq(r.hist, 1, n) \in Seq(S) /\ Len(SubSeq(r.hist, 1, n)) = n
      /\ \A i \in 1 .. n : SubSeq(r.hist, 1, n)[i] = r.hist[i]
  BY <1>1, <1>2, SubSeqProperties
<1>4. q.hist = SubSeq(r.hist, 1, n)
  BY <1>1, <1>2, <1>3, SeqEqual
<1> QED
  BY <1>2, <1>4

LEMMA Reproduced ==
  ASSUME TaleInv
  PROVE  PlaybackReproduces
<1> SUFFICES ASSUME Playing
             PROVE  \E n \in 0 .. Len(files.end.mach.hist) :
                      /\ mach.hist = SubSeq(files.end.mach.hist, 1, n)
                      /\ \A i \in 1 .. Len(files.end.mach.hist) :
                           files.end.mach.hist[i][1] <= mach.time <=> i <= n
  BY DEF PlaybackReproduces
<1>1. /\ HistTyped /\ Calm /\ RecordTyped /\ PlayTold
      /\ ev.playback_active /\ ~ record.mixed /\ FilesMatch /\ AlarmsDone /\ pend.reset = "none"
  BY DEF TaleInv, Playing, Idle
<1>2. PICK V \in Seq(Event), G \in Seq(Moment), k \in Nat : Played(V, G, k) /\ Place(V, G, k)
  BY <1>1, Whole
<1>3. pend.pc = "alarms" /\ ~ AlarmDue /\ mach.frame < HistFrame /\ mach \in MachState
  BY <1>1, EvFields DEF AlarmsDone
<1>4. Follow(V, G, k, mach, "alarms", ev.alarm)
  BY <1>1, <1>2, <1>3 DEF Place, Running
<1>5. At(G[k], mach)
  BY <1>1, <1>2, <1>3, <1>4, FollowAt
<1>6. PICK q, r : q = G[k] /\ r = G[Len(V)]
  OBVIOUS
<1>7. /\ k \in 1 .. Len(V) /\ Len(V) \in Nat /\ q \in Moment
  BY <1>2, <1>6, PlayedParts
<1>8. PICK base : base = record.base /\ Tale(base, V, G) /\ files.end.mach.hist = r.hist
  BY <1>2, <1>6 DEF Played
<1>9. r \in Moment
  BY <1>6, <1>8, TaleEnds
<1>10. mach.time \in Nat /\ q.at \in Nat /\ q.at <= mach.time /\ mach.hist = q.hist
  <2>1. mach.time >= q.at /\ mach.hist = q.hist
    BY <1>5, <1>6 DEF At
  <2> QED
    BY <1>3, <1>7, <2>1, MachNumbers, MomentParts
<1>11. /\ Len(q.hist) <= Len(r.hist)
       /\ \A i \in 1 .. Len(q.hist) : r.hist[i] = q.hist[i]
       /\ \A i \in 1 .. Len(r.hist) : i > Len(q.hist) => r.hist[i][1] > mach.time
  <2>1. CASE k < Len(V)
    <3>1. PICK pc : pc = "alarms"
      OBVIOUS
    <3>2. mach.time < G[k + 1].at /\ G[k + 1] \in Moment
      BY <1>1, <1>2, <1>3, <1>4, <2>1, <3>1, Sounds, PlayedParts
    <3>3. k \in 1 .. Len(V) - 1 /\ Len(V) \in k + 1 .. Len(V)
      BY <1>7, <2>1
    <3>4. Later(q, G[k + 1], r)
      BY <1>6, <1>8, <3>3, TaleTells
    <3>5. \A i \in 1 .. Len(r.hist) : r.hist[i][1] \in Nat
      BY <1>9, MomentParts
    <3>6. G[k + 1].at \in Nat
      BY <3>2, MomentParts
    <3>7. /\ Len(q.hist) <= Len(r.hist)
          /\ \A i \in 1 .. Len(q.hist) : r.hist[i] = q.hist[i]
          /\ \A i \in 1 .. Len(r.hist) : i > Len(q.hist) => r.hist[i][1] >= G[k + 1].at
      BY <3>4 DEF Later
    <3>8. PICK t, u : t = G[k + 1].at /\ u = mach.time
      OBVIOUS
    <3>9. t \in Nat /\ u \in Nat /\ u < t
      BY <1>10, <3>2, <3>6, <3>8
    <3>10. ASSUME NEW i \in 1 .. Len(r.hist), i > Len(q.hist) PROVE r.hist[i][1] > u
      <4>1. r.hist[i][1] >= t
        BY <3>7, <3>8, <3>10
      <4>2. r.hist[i][1] \in Nat
        BY <3>5, <3>10
      <4> QED
        BY <3>9, <4>1, <4>2
    <3> QED
      BY <3>7, <3>8, <3>10
  <2>2. CASE k = Len(V)
    <3>1. q = r /\ Len(q.hist) \in Nat
      BY <1>6, <1>7, <2>2, MomentParts
    <3> QED
      BY <3>1
  <2> QED
    BY <1>7, <2>1, <2>2
<1>12. \A i \in 1 .. Len(q.hist) : q.hist[i][1] <= mach.time
  <2>1. \A i \in 1 .. Len(q.hist) : q.hist[i][1] <= q.at /\ q.hist[i][1] \in Nat
    <3>1. \A i \in 1 .. Len(q.hist) : q.hist[i][1] <= q.at
      BY <1>7 DEF Moment
    <3>2. q.hist \in Seq(Nat \X Types)
      BY <1>7, MomentParts
    <3>3. \A i \in 1 .. Len(q.hist) : q.hist[i][1] \in Nat
      BY <3>2
    <3> QED
      BY <3>1, <3>3
  <2> QED
    BY <1>10, <2>1
<1>13. PICK n : n = Len(q.hist)
  OBVIOUS
<1>14. /\ n \in Nat /\ Len(r.hist) \in Nat /\ n \in 0 .. Len(r.hist)
       /\ mach.hist = SubSeq(r.hist, 1, n)
  <2>1. q.hist = SubSeq(r.hist, 1, Len(q.hist)) /\ Len(q.hist) \in 0 .. Len(r.hist)
    BY <1>7, <1>9, <1>11, HistPrefix
  <2>2. Len(q.hist) \in Nat /\ Len(r.hist) \in Nat
    BY <1>7, <1>9, MomentParts
  <2> QED
    BY <1>10, <1>13, <2>1, <2>2
<1>15. ASSUME NEW i \in 1 .. Len(r.hist) PROVE r.hist[i][1] <= mach.time <=> i <= n
  <2>1. r.hist[i][1] \in Nat /\ i \in Nat
    BY <1>9, <1>14, MomentParts
  <2>2. CASE i <= n
    <3>1. i \in 1 .. n
      BY <1>14, <2>1, <2>2
    <3> QED
      BY <1>11, <1>12, <1>13, <2>2, <3>1
  <2>3. CASE ~ (i <= n)
    <3>1. r.hist[i][1] > mach.time
      BY <1>11, <1>13, <1>14, <2>1, <2>3
    <3> QED
      BY <1>10, <2>1, <2>3, <3>1
  <2> QED
    BY <2>2, <2>3
<1> QED
  BY <1>8, <1>14, <1>15

(* A playback stops at the event of the end, and only there. *)
LEMMA StopsAtEnd ==
  ASSUME HistTyped, Calm, RecordTyped, PlayTold, ev.playback_active, ~ record.mixed, EventAlarm,
         ~ ev'.playback_active, NEW x, x = ev.list[ev.current]
  PROVE  x.type = "end"
<1> SUFFICES ASSUME x.type # "end" PROVE FALSE
  OBVIOUS
<1>1. Fields(ev) /\ ~ ev.record_active
  BY CalmParts
<1>2. PICK no : no = None
  OBVIOUS
<1>3. PICK e0 : e0 = [ev EXCEPT !.alarm = no]
  OBVIOUS
<1>4. Fields(e0) /\ e0.playback_active = ev.playback_active
  BY <1>1, <1>3 DEF Fields
<1>5. ev' = e0 \/ ev' = NextAlarm([e0 EXCEPT !.current = @ + 1], mach.clk)
  BY <1>1, <1>2, <1>3 DEF EventAlarm
<1>6. CASE ev' = e0
  BY <1>4, <1>6
<1>7. CASE ev' = NextAlarm([e0 EXCEPT !.current = @ + 1], mach.clk)
  <2>1. PICK n : n = [e0 EXCEPT !.current = @ + 1]
    OBVIOUS
  <2>2. Fields(n) /\ n.playback_active = e0.playback_active
    BY <1>4, <2>1, NextFlags
  <2>3. ev'.playback_active = n.playback_active
    BY <1>7, <2>1, <2>2, NextAlarmFlags
  <2> QED
    BY <1>4, <2>2, <2>3
<1> QED
  BY <1>5, <1>6, <1>7

LEMMA StoppedThere ==
  ASSUME TaleInv, ev.playback_active, ~ record.mixed, FilesMatch, files.end.stopped
  PROVE  /\ EventAlarm /\ ~ ev'.playback_active => mach.time = files.end.mach.time
         /\ Opcode /\ pend.pc = "alarms" => mach.time < files.end.mach.time
<1>1. HistTyped /\ Calm /\ RecordTyped /\ PlayTold
  BY DEF TaleInv
<1>2. PICK V \in Seq(Event), G \in Seq(Moment), k \in Nat : Played(V, G, k) /\ Place(V, G, k)
  BY <1>1, Whole
<1>3. PICK base : base = record.base /\ Tale(base, V, G)
  BY <1>2 DEF Played
<1>4. /\ k < Len(V) /\ G[Len(V)].at = files.end.mach.time
  BY <1>2 DEF Played
<1>5. /\ k \in 1 .. Len(V) /\ Len(V) \in Nat /\ k + 1 \in 1 .. Len(V)
      /\ V[k + 1] \in Event /\ G[k + 1] \in Moment /\ ev.list[ev.current] = V[k + 1]
  BY <1>2, <1>4, PlayedParts
<1>6. PICK pc : pc = "alarms"
  OBVIOUS
<1>7. ASSUME pend.pc = "alarms", ev.alarm # None PROVE Follow(V, G, k, mach, pc, ev.alarm)
  <2>1. ~ Rebooting
    BY <1>1, <1>7, CalmParts DEF Rebooting
  <2>2. ~ Restarting
    BY <1>2, <1>7 DEF Place
  <2>3. Running
    BY <1>1, <2>1, <2>2, CalmParts DEF Rebooting, Restarting, Running
  <2> QED
    BY <1>2, <1>6, <1>7, <2>3 DEF Place
<1>8. ASSUME EventAlarm, ~ ev'.playback_active PROVE mach.time = files.end.mach.time
  <2>1. pend.pc = "alarms" /\ AlarmDue
    BY <1>8 DEF EventAlarm
  <2>2. mach.time = G[k + 1].at
    <3>1. Follow(V, G, k, mach, pc, ev.alarm)
      BY <1>7, <2>1 DEF AlarmDue
    <3> QED
      BY <1>1, <1>2, <1>4, <1>6, <2>1, <3>1, Sounds
  <2>3. V[k + 1].type = "end"
    BY <1>1, <1>5, <1>8, StopsAtEnd
  <2>4. k + 1 = Len(V)
    <3>1. \A i \in 1 .. Len(V) - 1 : V[i].type # "end"
      BY <1>3 DEF Tale
    <3>2. k + 1 \notin 1 .. Len(V) - 1
      BY <2>3, <3>1
    <3> QED
      BY <1>4, <1>5, <3>2
  <2> QED
    BY <1>4, <2>2, <2>4
<1>9. ASSUME Opcode, pend.pc = "alarms" PROVE mach.time < files.end.mach.time
  <2>1. ~ AlarmDue /\ pend.reset = "none"
    BY <1>9 DEF Opcode, AlarmsDone
  <2>2. Follow(V, G, k, mach, pc, ev.alarm)
    BY <1>2, <1>6, <1>9, <2>1 DEF Place, Running
  <2>3. mach.time < G[k + 1].at
    BY <1>1, <1>2, <1>4, <1>6, <2>1, <2>2, Sounds
  <2>4. G[Len(V)].at >= G[k + 1].at
    <3>1. k \in 1 .. Len(V) - 1 /\ Len(V) \in k + 1 .. Len(V)
      BY <1>4, <1>5
    <3> QED
      BY <1>3, <3>1, TaleTells
  <2>5. mach.time \in Nat /\ G[k + 1].at \in Nat /\ G[Len(V)].at \in Nat
    BY <1>1, <1>3, <1>5, EvFields, MachNumbers, MomentParts, TaleEnds
  <2> QED
    BY <1>4, <2>3, <2>4, <2>5
<1> QED
  BY <1>8, <1>9

(***************************************************************************)
(* PlaybackReproduces, where no two inputs or requests meet at one opcode: *)
(* a playback gives the machine the recorded inputs, each at the cycle at  *)
(* which it was given when it was recorded, over all subtractions of the   *)
(* guard (event.c:335), resets, cuts and continuations of the list, and    *)
(* although the timestamps are made anew when a list is read               *)
(* (event_snapshot_read_module).                                           *)
(***************************************************************************)
THEOREM HistoryReproduced ==
  ASSUME ~ Crowded
  PROVE  HistSpec => []PlaybackReproduces
<1>1. HistInit => TaleInv
  BY TaleInvInit
<1>2. TaleInv /\ [HistNext]_histVars => TaleInv'
  BY TaleInvNext
<1>3. TaleInv => PlaybackReproduces
  BY Reproduced
<1> QED
  BY <1>1, <1>2, <1>3, PTL DEF HistSpec

(***************************************************************************)
(* PlaybackStopsThere, under the same condition: a playback of a recording *)
(* that was stopped stops in the cycle in which the recording was stopped, *)
(* and the machine executes nothing behind it (event_alarm_handler,        *)
(* event.c:353).                                                           *)
(***************************************************************************)
THEOREM HistoryStops ==
  ASSUME ~ Crowded
  PROVE  HistSpec => PlaybackStopsThere
<1>1. HistInit => TaleInv
  BY TaleInvInit
<1>2. TaleInv /\ [HistNext]_histVars => TaleInv'
  BY TaleInvNext
<1>3. TaleInv => [ev.playback_active /\ ~ record.mixed /\ FilesMatch /\ files.end.stopped =>
                    /\ EventAlarm /\ ~ ev'.playback_active => mach.time = files.end.mach.time
                    /\ Opcode /\ pend.pc = "alarms" => mach.time < files.end.mach.time]_histVars
  BY StoppedThere
<1> QED
  BY <1>1, <1>2, <1>3, PTL DEF HistSpec, PlaybackStopsThere

=============================================================================
