------------------------------ MODULE AhiRing ------------------------------
(***************************************************************************)
(* The AHI sound backend, src/src/arch/amigaos/ahi.c.                      *)
(*                                                                         *)
(* Two Exec tasks share the structure `audio': the emulator's task (here   *)
(* "main"), which calls ahi_open, ahi_play_samples, ahi_samples_free,      *)
(* ahi_pause, ahi_continue and ahi_close, and the process that runs        *)
(* ahi_task (here "task"), which hands full fragments of the ring to       *)
(* ahi.device with two I/O requests that alternate and are chained by      *)
(* ahir_Link.  The third party is ahi.device itself, external code.        *)
(*                                                                         *)
(* Everything between ObtainSemaphore and ReleaseSemaphore is one atomic   *)
(* action; so is every Exec call made outside the semaphore.  Signals are  *)
(* sets of bits: setting a bit that is set changes nothing, and Wait()     *)
(* takes all the received bits it waits for at once.                       *)
(*                                                                         *)
(* The build modelled is the one of the m68k sources (not AMIGA_OS4).      *)
(***************************************************************************)
EXTENDS Integers, Sequences, FiniteSets

CONSTANTS
  Frags,      \* fragments in the ring (8 in ahi_open)
  FragSize,   \* capacity of a fragment, in units of a write (441 samples)
  Tag,        \* the distinguishable contents of a unit
  MaxWrite,   \* bound: the longest write the emulator makes, in units
  WaitLoops   \* attempts of a DOWAIT write before it gives up (250)

ASSUME FragsAssumption == Frags \in Nat /\ Frags >= 2
ASSUME SizesAssumption == /\ FragSize \in Nat \ {0}
                          /\ MaxWrite \in Nat \ {0}
                          /\ WaitLoops \in Nat \ {0}

VARIABLES
  slot,          \* audio.audio_buffers: what is in a fragment, and its used flag
  read_buffer,   \* audio.read_buffer
  write_buffer,  \* audio.write_buffer
  play,          \* audio.play
  shutting_down, \* audio.shutting_down
  allocated,     \* audio.audio_buffers # NULL and audio.semaphore # NULL
  audio_task,    \* audio.audio_task # NULL
  mainSig,       \* signal bits pending at the emulator's task
  mpc,           \* where the emulator's task is
  src,           \* what ahi_play_samples still has to copy
  loops,         \* wait_loops of a DOWAIT write while it looks for room, else -1
  space,         \* what ahi_samples_free last answered, 0 when that is used or void
  taskSig,       \* signal bits pending at the audio task
  tpc,           \* where the audio task is
  exit,          \* flags & FLAG_EXIT
  cur,           \* AHIIO: the request to send next (1, 2, or 0 for NULL)
  link,          \* the request sent last, 0 for NULL
  prev,          \* previous_read_buffer
  req            \* the two I/O requests, as Exec and ahi.device see them

ringVars == <<slot, read_buffer, write_buffer, play, shutting_down,
              allocated, audio_task>>
mainVars == <<mpc, src, loops, space>>
taskVars == <<tpc, exit, cur, link, prev>>
vars     == <<ringVars, mainVars, taskVars, mainSig, taskSig, req>>

Slots    == 0 .. Frags - 1
Requests == {1, 2}
Port(r)  == IF r = 1 THEN "P1" ELSE "P2"     \* the signal of r's reply port
Bits     == {"D", "E", "P1", "P2"}
Chunk    == {s \in Seq(Tag) : Len(s) <= FragSize}          \* what a fragment holds
Writes   == UNION {[1 .. n -> Tag] : n \in 1 .. MaxWrite}  \* what is written

Fragment == [used : BOOLEAN, data : Chunk]
Request  == [st    : {"idle", "busy", "aborting", "done"},
             slot  : Slots, data : Chunk, after : 0 .. 2]

EmptySlot   == [used |-> FALSE, data |-> <<>>]
EmptyRing   == [i \in Slots |-> EmptySlot]
IdleRequest == [st |-> "idle", slot |-> 0, data |-> <<>>, after |-> 0]

(* Fault: the ring's bound is off by one. *)
NextSlot_late(i) == IF i + 1 > Frags THEN 0 ELSE i + 1

(***************************************************************************)
(* The fragment after i: the ring's increment, as both sides write it.     *)
(***************************************************************************)
NextSlot(i) == IF i + 1 >= Frags THEN 0 ELSE i + 1

(* The fragment k places after i, k < Frags. *)
Ahead(i, k) == IF i + k >= Frags THEN i + k - Frags ELSE i + k

(***************************************************************************)
(* ahi_writable_bytes_locked: only consecutive free fragments from         *)
(* write_buffer on can be written, and the first may be partly filled.  A  *)
(* free fragment whose size is the full size is one that was played.       *)
(***************************************************************************)
Stops == {k \in 0 .. Frags : k = Frags \/ slot[Ahead(write_buffer, k)].used}

FreeRun == CHOOSE k \in Stops : \A j \in Stops : k <= j

(* Fault: a partly filled fragment is counted as an empty one. *)
Fill_ignored(f) == 0

Fill(f) == IF Len(f.data) = FragSize THEN 0 ELSE Len(f.data)

Writable ==
  IF ~ allocated \/ shutting_down \/ FreeRun = 0 THEN 0
  ELSE FreeRun * FragSize - Fill(slot[write_buffer])

(* Fault: the space is counted in whole fragments. *)
SamplesFree_whole ==
  IF ~ audio_task \/ shutting_down THEN 0
  ELSE FreeRun * FragSize

(* ahi_in_buffer and ahi_samples_free: capacity less what is not writable. *)
SamplesFree ==
  IF ~ audio_task THEN 0 ELSE Writable

Init ==
  /\ slot = EmptyRing /\ read_buffer = 0 /\ write_buffer = 0
  /\ play = FALSE /\ shutting_down = FALSE
  /\ allocated = FALSE /\ audio_task = FALSE
  /\ mpc = "idle" /\ src = <<>> /\ loops = -1 /\ space = 0
  /\ tpc = "none" /\ exit = FALSE /\ cur = 0 /\ link = 0 /\ prev = -1
  /\ req = [r \in Requests |-> IdleRequest]
  /\ mainSig = {} /\ taskSig = {}

----------------------------------------------------------------------------
(* The emulator's task. *)

(***************************************************************************)
(* ahi_open up to its Wait.  The caller opens a closed backend only.  When *)
(* a buffer or the process cannot be had, ahi_close frees the rest and     *)
(* `audio' is as before, so that failure is no step here.                  *)
(***************************************************************************)
OpenStart ==
  /\ mpc = "idle" /\ ~ allocated
  /\ slot' = EmptyRing /\ read_buffer' = 0 /\ write_buffer' = 0
  /\ play' = FALSE /\ shutting_down' = FALSE
  /\ allocated' = TRUE /\ audio_task' = TRUE
  /\ mainSig' = mainSig \ {"D", "E"}
  /\ mpc' = "opening" /\ tpc' = "start" /\ taskSig' = {}
  /\ exit' = FALSE /\ cur' = 0 /\ link' = 0 /\ prev' = -1
  /\ req' = [r \in Requests |-> IdleRequest]
  /\ UNCHANGED <<src, loops, space>>

(* ahi_open after its Wait: an error bit leads to ahi_close without task. *)
OpenEnd ==
  /\ mpc = "opening" /\ mainSig \cap {"D", "E"} # {}
  /\ mainSig' = mainSig \ {"D", "E"}
  /\ IF "E" \in mainSig
       THEN audio_task' = FALSE /\ mpc' = "close"
       ELSE audio_task' = audio_task /\ mpc' = "idle"
  /\ UNCHANGED <<slot, read_buffer, write_buffer, play, shutting_down,
                 allocated, src, loops, space, taskVars, taskSig, req>>

(* The sound layer asks for the free space before it writes. *)
AskSpace ==
  /\ mpc = "idle" /\ space' = SamplesFree
  /\ UNCHANGED <<ringVars, mpc, src, loops, taskVars, mainSig, taskSig, req>>

(* ahi_play_samples is called; a closed backend refuses without a step. *)
PlayStart(w, dowait) ==
  /\ mpc = "idle" /\ audio_task
  /\ mpc' = "capacity" /\ src' = w /\ loops' = IF dowait THEN 0 ELSE -1
  /\ UNCHANGED <<ringVars, space, taskVars, mainSig, taskSig, req>>

Fits == Len(src) <= Writable

(* There is room: the copy loop begins.  The attempts and the answer of    *)
(* ahi_samples_free are not used any more.                                 *)
PlayFits ==
  /\ mpc = "capacity" /\ Fits
  /\ mpc' = "copy" /\ loops' = -1 /\ space' = 0
  /\ UNCHANGED <<ringVars, src, taskVars, mainSig, taskSig, req>>

(* Fault: the attempts of a DOWAIT write never run out. *)
PlayRefused_endless ==
  /\ mpc = "capacity" /\ ~ Fits
  /\ IF loops = -1
       THEN mpc' = "idle" /\ src' = <<>> /\ space' = 0
       ELSE UNCHANGED <<mpc, src, space>>
  /\ UNCHANGED <<loops, ringVars, taskVars, mainSig, taskSig, req>>

(* NOWAIT, or the last attempt of DOWAIT: return -1. *)
PlayRefused ==
  /\ mpc = "capacity" /\ ~ Fits
  /\ loops = -1 \/ loops + 1 >= WaitLoops
  /\ mpc' = "idle" /\ src' = <<>> /\ loops' = -1 /\ space' = 0
  /\ UNCHANGED <<ringVars, taskVars, mainSig, taskSig, req>>

(* timer_usleep, and the capacity is looked at again. *)
PlayRetry ==
  /\ mpc = "capacity" /\ ~ Fits
  /\ loops # -1 /\ loops + 1 < WaitLoops
  /\ loops' = loops + 1
  /\ UNCHANGED <<ringVars, mpc, src, space, taskVars, mainSig, taskSig, req>>

(***************************************************************************)
(* One round of the copy loop: as much of src as the fragment takes, the   *)
(* fragment passed on when it is full.                                     *)
(***************************************************************************)
Kept ==      \* what is in the fragment, a stale full size reset to zero
  IF Len(slot[write_buffer].data) >= FragSize THEN <<>>
                                              ELSE slot[write_buffer].data
CopyLen ==
  IF Len(src) > FragSize - Len(Kept) THEN FragSize - Len(Kept) ELSE Len(src)

Filled == Kept \o SubSeq(src, 1, CopyLen)

CopyChunk ==
  /\ slot' = [slot EXCEPT ![write_buffer] =
                [used |-> Len(Filled) = FragSize, data |-> Filled]]
  /\ write_buffer' = IF Len(Filled) = FragSize THEN NextSlot(write_buffer)
                                               ELSE write_buffer
  /\ src' = SubSeq(src, CopyLen + 1, Len(src))
  /\ play' = TRUE /\ mpc' = "wake"

(* The copy loop with its checks; a used fragment makes it return -1. *)
Copy ==
  /\ mpc = "copy"
  /\ IF ~ allocated \/ ~ audio_task \/ shutting_down \/ slot[write_buffer].used
       THEN mpc' = "idle" /\ src' = <<>> /\ UNCHANGED ringVars
       ELSE /\ CopyChunk
            /\ UNCHANGED <<read_buffer, shutting_down, allocated, audio_task>>
  /\ UNCHANGED <<loops, space, taskVars, mainSig, taskSig, req>>

(* Fault: a written fragment does not wake the audio task. *)
Wake_silent ==
  /\ mpc = "wake"
  /\ IF src = <<>> THEN mpc' = "idle" /\ loops' = -1 /\ space' = 0
                   ELSE mpc' = "copy" /\ UNCHANGED <<loops, space>>
  /\ UNCHANGED <<ringVars, src, taskVars, mainSig, taskSig, req>>

(* Signal(task, SIGBREAKF_CTRL_D), after a chunk or in ahi_continue. *)
Wake ==
  /\ mpc = "wake"
  /\ taskSig' = taskSig \cup {"D"}
  /\ IF src = <<>> THEN mpc' = "idle" /\ loops' = -1 /\ space' = 0
                   ELSE mpc' = "copy" /\ UNCHANGED <<loops, space>>
  /\ UNCHANGED <<ringVars, src, taskVars, mainSig, req>>

Pause ==
  /\ mpc = "idle" /\ audio_task /\ play
  /\ play' = FALSE
  /\ UNCHANGED <<slot, read_buffer, write_buffer, shutting_down, allocated,
                 audio_task, mainVars, taskVars, mainSig, taskSig, req>>

Continue ==
  /\ mpc = "idle" /\ audio_task
  /\ play' = TRUE /\ mpc' = "wake" /\ space' = 0
  /\ UNCHANGED <<slot, read_buffer, write_buffer, shutting_down, allocated,
                 audio_task, src, loops, taskVars, mainSig, taskSig, req>>

(* ahi_close is called; from ahi_open's failure it starts at the same place. *)
CloseStart ==
  /\ mpc = "idle" /\ allocated
  /\ mpc' = "close" /\ space' = 0
  /\ UNCHANGED <<ringVars, src, loops, taskVars, mainSig, taskSig, req>>

CloseMark ==
  /\ mpc = "close"
  /\ shutting_down' = TRUE /\ play' = FALSE
  /\ mpc' = IF audio_task THEN "close_signal" ELSE "free"
  /\ UNCHANGED <<slot, read_buffer, write_buffer, allocated, audio_task,
                 src, loops, space, taskVars, mainSig, taskSig, req>>

CloseSignal ==
  /\ mpc = "close_signal"
  /\ taskSig' = taskSig \cup {"E"} /\ mpc' = "close_wait"
  /\ UNCHANGED <<ringVars, src, loops, space, taskVars, mainSig, req>>

(* Fault: any wake-up ends the wait for the audio task's end. *)
CloseWait_once ==
  /\ mpc = "close_wait" /\ mainSig \cap {"D", "E"} # {}
  /\ mainSig' = mainSig \ {"D", "E"}
  /\ audio_task' = FALSE /\ mpc' = "free"
  /\ UNCHANGED <<slot, read_buffer, write_buffer, play, shutting_down,
                 allocated, src, loops, space, taskVars, taskSig, req>>

(* The do-while: a wake-up without the error bit is waited for again. *)
CloseWait ==
  /\ mpc = "close_wait" /\ mainSig \cap {"D", "E"} # {}
  /\ mainSig' = mainSig \ {"D", "E"}
  /\ IF "E" \in mainSig
       THEN audio_task' = FALSE /\ mpc' = "free"
       ELSE audio_task' = audio_task /\ mpc' = mpc
  /\ UNCHANGED <<slot, read_buffer, write_buffer, play, shutting_down,
                 allocated, src, loops, space, taskVars, taskSig, req>>

(* The memory is freed and `audio' cleared. *)
CloseFree ==
  /\ mpc = "free"
  /\ slot' = EmptyRing /\ read_buffer' = 0 /\ write_buffer' = 0
  /\ play' = FALSE /\ shutting_down' = FALSE
  /\ allocated' = FALSE /\ audio_task' = FALSE
  /\ mpc' = "idle" /\ space' = 0
  /\ UNCHANGED <<src, loops, taskVars, mainSig, taskSig, req>>

Main ==
  \/ OpenStart \/ OpenEnd \/ AskSpace
  \/ \E w \in Writes, dowait \in BOOLEAN : PlayStart(w, dowait)
  \/ PlayFits \/ PlayRefused \/ PlayRetry \/ Copy \/ Wake
  \/ Pause \/ Continue
  \/ CloseStart \/ CloseMark \/ CloseSignal \/ CloseWait \/ CloseFree

----------------------------------------------------------------------------
(* The audio task. *)

(* ahi_task opens ahi.device; it tells the emulator's task that it could. *)
TaskOpen ==
  /\ tpc = "start"
  /\ tpc' = "check" /\ cur' = 1
  /\ mainSig' = mainSig \cup {"D"}
  /\ UNCHANGED <<ringVars, mainVars, exit, link, prev, taskSig, req>>

TaskOpenFails ==
  /\ tpc = "start"
  /\ tpc' = "dying"
  /\ UNCHANGED <<ringVars, mainVars, exit, cur, link, prev, mainSig, taskSig,
                 req>>

(* The head of the loop: the exit flag, then `used' and `play' at once. *)
TaskCheck ==
  /\ tpc = "check"
  /\ tpc' = IF exit THEN "drain"
            ELSE IF play /\ ~ shutting_down /\ slot[read_buffer].used
              THEN "send" ELSE "idle"
  /\ UNCHANGED <<ringVars, mainVars, exit, cur, link, prev, mainSig, taskSig,
                 req>>

(* Fault: the request is not chained to the one before. *)
TaskSend_unchained ==
  /\ tpc = "send"
  /\ req' = [req EXCEPT ![cur] =
       [st   |-> "busy", slot |-> read_buffer,
        data |-> slot[read_buffer].data, after |-> 0]]
  /\ tpc' = IF link = 0 THEN "advance" ELSE "wait_link"
  /\ UNCHANGED <<ringVars, mainVars, exit, cur, link, prev, mainSig, taskSig>>

(* Fault: the data is taken from the fragment before write_buffer. *)
TaskSend_newest ==
  LET s == IF write_buffer = 0 THEN Frags - 1 ELSE write_buffer - 1
  IN  /\ tpc = "send"
      /\ req' = [req EXCEPT ![cur] =
           [st    |-> "busy", slot |-> s, data |-> slot[s].data,
            after |-> IF link # 0 /\ req[link].st # "done" THEN link ELSE 0]]
      /\ tpc' = IF link = 0 THEN "advance" ELSE "wait_link"
      /\ UNCHANGED <<ringVars, mainVars, exit, cur, link, prev, mainSig,
                     taskSig>>

(* SendIO of the fragment at read_buffer, chained to the one before. *)
TaskSend ==
  /\ tpc = "send"
  /\ req' = [req EXCEPT ![cur] =
       [st    |-> "busy",
        slot  |-> read_buffer,
        data  |-> slot[read_buffer].data,
        after |-> IF link # 0 /\ req[link].st # "done" THEN link ELSE 0]]
  /\ tpc' = IF link = 0 THEN "advance" ELSE "wait_link"
  /\ UNCHANGED <<ringVars, mainVars, exit, cur, link, prev, mainSig, taskSig>>

(* AbortIO, unless CheckIO says that the request is back already. *)
Aborted(r) == IF req[r].st = "busy" THEN [req EXCEPT ![r].st = "aborting"] ELSE req

(***************************************************************************)
(* Wait for the chained request, a wake-up or the order to exit.  The      *)
(* order aborts the request, unless its reply came with it.                *)
(***************************************************************************)
TaskWaitLink ==
  LET got  == taskSig \cap {"D", "E", Port(link)}
      back == Port(link) \in got
  IN  /\ tpc = "wait_link" /\ got # {}
      /\ taskSig' = taskSig \ got
      /\ exit' = (exit \/ "E" \in got)
      /\ req' = IF "E" \in got /\ ~ back THEN Aborted(link) ELSE req
      /\ tpc' = IF back \/ exit' THEN "wait_io" ELSE tpc
      /\ UNCHANGED <<ringVars, mainVars, cur, link, prev, mainSig>>

(***************************************************************************)
(* WaitIO(link) of a request that is back takes it off its reply port and  *)
(* leaves the port's signal bit alone; then CheckIO(AHIIO): if the request *)
(* just sent is back as well, playback fell behind and starts afresh.      *)
(***************************************************************************)
TaskWaitIO ==
  /\ tpc = "wait_io" /\ req[link].st = "done"
  /\ req' = [req EXCEPT ![link].st = "idle"]
  /\ cur' = IF req[cur].st = "done" THEN 0 ELSE cur
  /\ tpc' = "advance"
  /\ UNCHANGED <<ringVars, mainVars, exit, link, prev, mainSig, taskSig>>

(* WaitIO of a request that is not back waits for its port's signal ... *)
TaskWaitIOBlocks ==
  /\ tpc = "wait_io" /\ req[link].st # "done"
  /\ tpc' = "wait_port"
  /\ UNCHANGED <<ringVars, mainVars, exit, cur, link, prev, mainSig, taskSig,
                 req>>

(* ... takes that signal, and no other, and looks again. *)
TaskWaitPort ==
  /\ tpc = "wait_port" /\ Port(link) \in taskSig
  /\ taskSig' = taskSig \ {Port(link)} /\ tpc' = "wait_io"
  /\ UNCHANGED <<ringVars, mainVars, exit, cur, link, prev, mainSig, req>>

(* Fault: the fragment that was just sent is freed, not the one before. *)
TaskAdvance_early ==
  /\ tpc = "advance"
  /\ slot' = [slot EXCEPT ![read_buffer].used = FALSE]
  /\ link' = cur /\ cur' = IF cur = 1 THEN 2 ELSE 1
  /\ prev' = read_buffer /\ read_buffer' = NextSlot(read_buffer)
  /\ tpc' = "check" /\ mainSig' = mainSig \cup {"D"}
  /\ UNCHANGED <<write_buffer, play, shutting_down, allocated, audio_task,
                 mainVars, exit, taskSig, req>>

(* Fault: a restart forgets the fragment played last. *)
TaskAdvance_forgets ==
  /\ tpc = "advance"
  /\ slot' = IF prev >= 0 /\ cur # 0 THEN [slot EXCEPT ![prev].used = FALSE]
                                    ELSE slot
  /\ link' = cur /\ cur' = IF cur = 1 THEN 2 ELSE 1
  /\ prev' = read_buffer /\ read_buffer' = NextSlot(read_buffer)
  /\ tpc' = "check" /\ mainSig' = mainSig \cup {"D"}
  /\ UNCHANGED <<write_buffer, play, shutting_down, allocated, audio_task,
                 mainVars, exit, taskSig, req>>

(***************************************************************************)
(* The fragment played before is free again, the one just sent becomes the *)
(* previous one, the requests change places; then Signal(main_task, D).    *)
(***************************************************************************)
TaskAdvance ==
  /\ tpc = "advance"
  /\ slot' = IF prev >= 0 THEN [slot EXCEPT ![prev].used = FALSE] ELSE slot
  /\ link' = cur
  /\ cur' = IF cur = 1 THEN 2 ELSE 1
  /\ prev' = read_buffer
  /\ read_buffer' = NextSlot(read_buffer)
  /\ tpc' = "check"
  /\ mainSig' = mainSig \cup {"D"}
  /\ UNCHANGED <<write_buffer, play, shutting_down, allocated, audio_task,
                 mainVars, exit, taskSig, req>>

(* Fault: an idle task is not waiting for the order to exit. *)
TaskIdle_deaf ==
  /\ tpc = "idle" /\ "D" \in taskSig
  /\ taskSig' = taskSig \ {"D"} /\ tpc' = "check"
  /\ UNCHANGED <<ringVars, mainVars, exit, cur, link, prev, mainSig, req>>

(* Nothing to play: Wait for a wake-up or the order to exit. *)
TaskIdle ==
  LET got == taskSig \cap {"D", "E"}
  IN  /\ tpc = "idle" /\ got # {}
      /\ taskSig' = taskSig \ got
      /\ exit' = (exit \/ "E" \in got)
      /\ tpc' = "check"
      /\ UNCHANGED <<ringVars, mainVars, cur, link, prev, mainSig, req>>

(* Fault: the device is closed with the last request still out. *)
TaskDrain_skipped ==
  /\ tpc = "drain"
  /\ tpc' = "close_device"
  /\ UNCHANGED <<ringVars, mainVars, exit, cur, link, prev, mainSig, taskSig,
                 req>>

(* After the loop: the last request is aborted if it is still out ... *)
TaskDrain ==
  /\ tpc = "drain"
  /\ IF link = 0 THEN tpc' = "close_device" /\ UNCHANGED req
                 ELSE tpc' = "drain_wait" /\ req' = Aborted(link)
  /\ UNCHANGED <<ringVars, mainVars, exit, cur, link, prev, mainSig, taskSig>>

(* ... and taken back; the signal bits matter no more. *)
TaskDrainWait ==
  /\ tpc = "drain_wait" /\ req[link].st = "done"
  /\ req' = [req EXCEPT ![link].st = "idle"]
  /\ link' = 0 /\ tpc' = "close_device"
  /\ UNCHANGED <<ringVars, mainVars, exit, cur, prev, mainSig, taskSig>>

TaskCloseDevice ==
  /\ tpc = "close_device"
  /\ tpc' = "dying"
  /\ UNCHANGED <<ringVars, mainVars, exit, cur, link, prev, mainSig, taskSig,
                 req>>

(* Forbid() makes the signal and the end of the process one step. *)
TaskEnd ==
  /\ tpc = "dying"
  /\ tpc' = "none"
  /\ mainSig' = mainSig \cup {"E"}
  /\ UNCHANGED <<ringVars, mainVars, exit, cur, link, prev, taskSig, req>>

Task ==
  \/ TaskOpen \/ TaskOpenFails \/ TaskCheck \/ TaskSend \/ TaskWaitLink
  \/ TaskWaitIO \/ TaskWaitIOBlocks \/ TaskWaitPort
  \/ TaskAdvance \/ TaskIdle \/ TaskDrain \/ TaskDrainWait \/ TaskCloseDevice \/ TaskEnd

----------------------------------------------------------------------------
(* ahi.device (external): requests are played in chain order. *)

(* A reply: the request is on its port, and what was chained to it can go. *)
Replied(r) ==
  /\ req' = [q \in Requests |->
       IF q = r THEN [req[r] EXCEPT !.st = "done"]
       ELSE IF req[q].after = r THEN [req[q] EXCEPT !.after = 0] ELSE req[q]]
  /\ taskSig' = taskSig \cup {Port(r)}
  /\ UNCHANGED <<ringVars, mainVars, taskVars, mainSig>>

DevicePlayed(r)  == req[r].st = "busy" /\ req[r].after = 0 /\ Replied(r)
DeviceAborted(r) == req[r].st = "aborting" /\ Replied(r)

Device == \E r \in Requests : DevicePlayed(r) \/ DeviceAborted(r)

Next == Main \/ Task \/ Device

(***************************************************************************)
(* Exec runs every ready task; the device plays what it was given and      *)
(* answers an abort.  In StuckSpec it may stop playing for ever, but still *)
(* answers an abort.  Nothing makes the emulator start a call, but it      *)
(* finishes the one it is in.                                              *)
(***************************************************************************)
MainInCall ==
  \/ OpenEnd \/ PlayFits \/ PlayRefused \/ PlayRetry \/ Copy \/ Wake
  \/ CloseMark \/ CloseSignal \/ CloseWait \/ CloseFree

StuckFairness ==
  /\ WF_vars(MainInCall) /\ WF_vars(Task)
  /\ \A r \in Requests : WF_vars(DeviceAborted(r))

DevicePlays == \A r \in Requests : WF_vars(DevicePlayed(r))

Fairness == StuckFairness /\ DevicePlays

Spec      == Init /\ [][Next]_vars /\ Fairness
StuckSpec == Init /\ [][Next]_vars /\ StuckFairness

----------------------------------------------------------------------------
(* Properties. *)

RingType ==
  /\ slot \in [Slots -> Fragment]
  /\ read_buffer \in Slots /\ write_buffer \in Slots
  /\ play \in BOOLEAN /\ shutting_down \in BOOLEAN
  /\ allocated \in BOOLEAN /\ audio_task \in BOOLEAN

MainType ==
  /\ mpc \in {"idle", "opening", "capacity", "copy", "wake", "close",
              "close_signal", "close_wait", "free"}
  /\ src \in Seq(Tag) /\ Len(src) <= MaxWrite
  /\ loops \in -1 .. WaitLoops /\ space \in Nat
  /\ mainSig \subseteq {"D", "E"}

TaskType ==
  /\ tpc \in {"none", "start", "check", "send", "wait_link", "wait_io",
              "wait_port", "advance", "idle", "drain", "drain_wait", "close_device", "dying"}
  /\ exit \in BOOLEAN /\ cur \in 0 .. 2 /\ link \in 0 .. 2
  /\ prev \in -1 .. Frags - 1
  /\ taskSig \subseteq Bits

RequestType ==
  req \in [Requests -> Request]

TypeOK == RingType /\ MainType /\ TaskType /\ RequestType

AtDevice(r) == req[r].st \in {"busy", "aborting"}

(***************************************************************************)
(* While ahi.device owns a request, the memory it plays from exists and is *)
(* what it was when the request was sent: the emulator never writes into a *)
(* fragment that is being played.                                          *)
(***************************************************************************)
NoTornPlayback ==
  \A r \in Requests : AtDevice(r) =>
    /\ allocated
    /\ slot[req[r].slot].used
    /\ slot[req[r].slot].data = req[r].data

(***************************************************************************)
(* A request is not given to the device while the device has it, and the   *)
(* device is closed with no request out.                                   *)
(***************************************************************************)
RequestsReturned ==
  /\ tpc = "send" => ~ AtDevice(cur)
  /\ tpc \in {"close_device", "dying", "none"} => \A r \in Requests : ~ AtDevice(r)

(***************************************************************************)
(* Two fragments are never heard at once: of the requests the device has,  *)
(* at most one is not chained to another.                                  *)
(***************************************************************************)
OneFragmentHeard ==
  \A r, q \in Requests :
    r # q /\ AtDevice(r) /\ AtDevice(q) => req[r].after # 0 \/ req[q].after # 0

(***************************************************************************)
(* The audio task only ever runs on a ring that is allocated, and ahi_open *)
(* leaves with the task that it created or with nothing at all.            *)
(***************************************************************************)
TaskHasRing ==
  /\ tpc # "none" => allocated
  /\ mpc = "idle" => (audio_task <=> allocated) /\ (tpc # "none" <=> allocated)

(***************************************************************************)
(* Once the capacity check let a write pass, the rest of the write keeps   *)
(* fitting: the used fragment that the copy loop checks for ("this should  *)
(* be impossible after the capacity check") is never met.                  *)
(***************************************************************************)
CapacityCheckSuffices ==
  mpc = "copy" \/ (mpc = "wake" /\ src # <<>>) => src # <<>> /\ Fits

(***************************************************************************)
(* The space ahi_samples_free reports stays available until the next call: *)
(* a write of no more than that is not refused.                            *)
(***************************************************************************)
SpaceKept == mpc \in {"idle", "capacity"} => space <= Writable

(* The complete fragments from read_buffer on that were not advanced over. *)
Queued ==
  IF write_buffer > read_buffer THEN write_buffer - read_buffer
  ELSE IF write_buffer = read_buffer /\ ~ slot[read_buffer].used THEN 0
  ELSE write_buffer - read_buffer + Frags

QueuedSlots == {Ahead(read_buffer, k) : k \in 0 .. Queued - 1}

(***************************************************************************)
(* Which fragments are in use is decided by the used flags: they are the   *)
(* queued ones and the one played last, so that equal read and write       *)
(* positions never confuse a full ring with an empty one.                  *)
(***************************************************************************)
UsedFlagsTellFullFromEmpty ==
  allocated =>
    {i \in Slots : slot[i].used} = QueuedSlots \cup ({prev} \ {-1})

(* The backend as a stream: the mapping to AudioStream. *)
Sent == tpc \in {"wait_link", "wait_io", "wait_port", "advance"}

outBar ==
  IF ~ allocated THEN <<>>
  ELSE (IF prev >= 0 THEN <<slot[prev].data>> ELSE <<>>)
       \o (IF Sent THEN <<req[IF link = 0 THEN cur ELSE 3 - link].data>>
                   ELSE <<>>)

pendingBar ==
  IF ~ allocated THEN <<>>
  ELSE LET skip == IF Sent THEN 1 ELSE 0
       IN  [k \in 1 .. Queued - skip |->
              slot[Ahead(read_buffer, skip + k - 1)].data]

partialBar ==
  IF ~ allocated \/ slot[write_buffer].used \/ Fill(slot[write_buffer]) = 0
    THEN <<>> ELSE slot[write_buffer].data

Stream == INSTANCE AudioStream
            WITH partial <- partialBar, pending <- pendingBar, out <- outBar

(***************************************************************************)
(* Fragments are played in the order they were written, each once and      *)
(* unchanged, and nothing is dropped before ahi_close: the backend         *)
(* implements AudioStream.                                                 *)
(***************************************************************************)
ImplementsStream == Stream!StreamSpec

(* A complete fragment is to be handed over, and playback is not paused or ended. *)
FragmentWaits == tpc # "none" /\ play /\ slot[read_buffer].used

(***************************************************************************)
(* No wake-up is lost: while a complete fragment waits to be handed to the *)
(* device, the audio task goes on handing over fragments, in the order of  *)
(* the ring, if the device goes on playing.                                *)
(***************************************************************************)
QueuedFragmentsPlayed ==
  DevicePlays => []<> ~ FragmentWaits \/ []<><<TaskAdvance>>_vars

(* With a device that goes on playing, ahi_open and ahi_close return,       *)
(* whatever the audio task is doing.                                       *)
OpenAndCloseReturn ==
  DevicePlays => (mpc \in {"opening", "close", "close_signal", "close_wait", "free"}
                    ~> mpc = "idle")

(***************************************************************************)
(* "A stuck AHI request must not freeze VICE or the Amiga task             *)
(* indefinitely": ahi_close gets its answer from the audio task although   *)
(* the device plays nothing any more.                                      *)
(***************************************************************************)
StuckRequestFreezesNothing == mpc = "close_wait" ~> mpc = "idle"

(***************************************************************************)
(* ahi_play_samples returns even if the device plays nothing any more: a   *)
(* waiting write is bounded ("a stuck AHI request must not freeze VICE").  *)
(***************************************************************************)
PlayReturns == mpc \in {"capacity", "copy", "wake"} ~> mpc = "idle"
============================================================================
