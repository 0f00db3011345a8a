----------------------------- MODULE SoundPause -----------------------------
(***************************************************************************)
(* How sound.c, the AHI backend and the hard pause of the Amiga UI play    *)
(* together: src/src/sound.c (open, close, flush, suspend, resume),        *)
(* src/src/arch/amigaos/ahi.c (ahi_pause, ahi_continue, ahi_release,       *)
(* ahi_resume), ui.c (pause_trap), vsyncapi.c (frame advance), the order   *)
(* of vsync_do_vsync (vsync.c) and the one trap slot of interrupt.c.       *)
(*                                                                         *)
(* The program is one thread: pc is where it is in a frame.  The other     *)
(* thread is the audio task; module AhiRing has its details, here it only  *)
(* takes fragments from the ring.  Sound is counted in whole fragments.    *)
(* The SID engine is open exactly when the device is.  SoundSuspendTime is *)
(* its default 0, no device records, and the network is not connected.     *)
(***************************************************************************)
EXTENDS Naturals

CONSTANTS
  Frags,        \* fragnr: the fragments of the ring (8)
  MaxPend,      \* SOUND_BUFSIZE in fragments
  OpenMayFail,  \* ahi_open may fail: another program has the device
  Menu,         \* what is chosen from the menus while the machine runs
  PausedMenu    \* what is chosen from the menus in the pause trap

Items == {"open menu", "warp", "sound", "settings", "pause", "advance", "event"}

ASSUME SizeAssumption == Frags \in Nat /\ Frags >= 2 /\ MaxPend \in Nat \ {0}
ASSUME MenuAssumption == Menu \subseteq Items /\ PausedMenu \subseteq Items
                         /\ OpenMayFail \in BOOLEAN

VARIABLES
  enabled,  \* playback_enabled
  device,   \* snddata.playdev # NULL
  changed,  \* sound_state_changed
  susp,     \* snddata.issuspended
  warp,     \* warp_mode_enabled
  pend,     \* the whole fragments in snddata.buffer
  ring,     \* what is left of audio_t: see Ring
  reopen,   \* frf_ahi_pause_reopen
  paused,   \* is_paused
  advance,  \* pause_pending
  trap,     \* the trap that is pending: trap_func
  pc, ret   \* where the program is; where sound_suspend and _resume return

mixer == <<enabled, device, changed, susp, pend>>
ui    == <<paused, advance, trap>>
vars  == <<mixer, warp, ring, reopen, ui, pc, ret>>

Ring == [alive : BOOLEAN,    \* audio_task # NULL: the task has ahi.device
         used  : 0 .. Frags, \* the fragments with the used flag
         sent  : 0 .. 2,     \* those of them that ahi.device has
         play  : BOOLEAN]

NoRing    == [alive |-> FALSE, used |-> 0, sent |-> 0, play |-> FALSE]
EmptyRing == [NoRing EXCEPT !.alive = TRUE]

Stopped == {"no device", "two tasks"}  \* what the program does not survive
Code    == {"cpu", "ui", "flush", "resume", "write", "post", "release", "paused",
            "leave", "stop", "refill", "no device", "two tasks"}

Init ==
  /\ enabled = TRUE /\ device = FALSE /\ changed = FALSE /\ susp = FALSE
  /\ warp = FALSE /\ pend = 0 /\ ring = NoRing /\ reopen = FALSE
  /\ paused = FALSE /\ advance = FALSE /\ trap = "none"
  /\ pc = "cpu" /\ ret = "cpu"

-----------------------------------------------------------------------------
(* ahi_close and sound_close; sound_error also turns the sound off. *)
Close      == device' = FALSE /\ changed' = FALSE /\ ring' = NoRing
SoundError == Close /\ enabled' = FALSE

(* ahi_play_samples does not wait: there is room for a fragment, or it fails. *)
Room   == ring.alive /\ ring.used < Frags
Put(n) == ring' = [ring EXCEPT !.used = @ + n, !.play = @ \/ n > 0]

(* Fault: it is not looked whether the sound is suspended already. *)
Suspend_again(r) ==
  /\ IF ~ device THEN pc' = r /\ UNCHANGED <<mixer, ring, ret>>
     ELSE IF Room
     THEN Put(1) /\ pc' = "stop" /\ ret' = r /\ UNCHANGED mixer
     ELSE SoundError /\ pc' = "no device" /\ UNCHANGED <<susp, pend, ret>>
  /\ UNCHANGED reopen

(***************************************************************************)
(* sound_suspend: the last fragment fades out, then the backend is         *)
(* suspended.  When there is no room for it the device is closed, and      *)
(* playdev->suspend is looked up through NULL.                             *)
(***************************************************************************)
Suspend(r) ==
  /\ IF ~ device \/ susp THEN pc' = r /\ UNCHANGED <<mixer, ring, ret>>
     ELSE IF Room
     THEN Put(1) /\ pc' = "stop" /\ ret' = r /\ UNCHANGED mixer
     ELSE SoundError /\ pc' = "no device" /\ UNCHANGED <<susp, pend, ret>>
  /\ UNCHANGED reopen

(* Fault: the sound counts as suspended, but the queue goes on playing. *)
Stop_flag ==
  /\ pc = "stop" /\ pc' = ret /\ susp' = TRUE
  /\ UNCHANGED <<enabled, device, changed, warp, pend, ring, reopen, ui, ret>>

Stop ==
  /\ pc = "stop" /\ pc' = ret
  /\ ring' = [ring EXCEPT !.play = FALSE] /\ susp' = TRUE
  /\ UNCHANGED <<enabled, device, changed, warp, pend, reopen, ui, ret>>

(* sound_resume: ahi_continue does nothing when there is no task. *)
Resume(r) ==
  /\ IF device /\ susp
     THEN /\ susp' = FALSE /\ ring' = [ring EXCEPT !.play = ring.alive]
          /\ pc' = "refill" /\ ret' = r
     ELSE pc' = r /\ UNCHANGED <<susp, ring, ret>>
  /\ UNCHANGED <<enabled, device, changed, pend, reopen>>

(* Fault: the sound does not fade in. *)
Refill_none ==
  /\ pc = "refill" /\ pc' = ret
  /\ UNCHANGED <<mixer, warp, ring, reopen, ui, ret>>

(***************************************************************************)
(* The rest of sound_resume: the next fragment fades in.  When there is no *)
(* room for it the device is closed; sound_flush goes on to look up        *)
(* playdev->flush through NULL.                                            *)
(***************************************************************************)
Refill ==
  /\ pc = "refill"
  /\ IF Room THEN Put(1) /\ pc' = ret /\ UNCHANGED mixer
     ELSE /\ SoundError /\ UNCHANGED <<susp, pend>>
          /\ pc' = IF ret = "write" THEN "no device" ELSE ret
  /\ UNCHANGED <<warp, reopen, ui, ret>>

(***************************************************************************)
(* sound_open, when r is the ring the program has: the new ring is filled  *)
(* up to one fragment.  ahi_open clears the whole of audio_t first, also   *)
(* when a task is using it.                                                *)
(***************************************************************************)
Open(r, ok, failed) ==
  /\ \/ /\ ~ r.alive
        /\ device' = TRUE /\ susp' = FALSE /\ changed' = FALSE
        /\ pend' \in {0, 1} /\ pc' = ok
        /\ ring' = [EmptyRing EXCEPT !.used = Frags - 1, !.play = TRUE]
        /\ UNCHANGED enabled
     \/ /\ ~ r.alive /\ OpenMayFail
        /\ SoundError /\ pc' = failed /\ UNCHANGED <<susp, pend>>
     \/ /\ r.alive /\ pc' = "two tasks"
        /\ UNCHANGED <<enabled, device, changed, susp, pend, ring>>
  /\ UNCHANGED <<warp, reopen, ui, ret>>

(***************************************************************************)
(* sound_run_sound on an open device: at most a fragment is generated.  A  *)
(* cycle based engine drops what does not fit, a sample based one fails.   *)
(***************************************************************************)
Generate(ok, failed) ==
  /\ \/ \E n \in {0, 1} : /\ pend' = IF pend + n > MaxPend THEN MaxPend ELSE pend + n
                          /\ pc' = ok /\ UNCHANGED <<enabled, device, changed, susp, ring>>
     \/ /\ pend = MaxPend /\ SoundError /\ pc' = failed /\ UNCHANGED <<susp, pend>>
  /\ UNCHANGED <<warp, reopen, ui, ret>>

-----------------------------------------------------------------------------
(* The CPU writes or reads a register of the SID: sound_run_sound. *)
SidAccess ==
  /\ pc = "cpu" /\ trap = "none" /\ enabled
  /\ IF device THEN Generate("cpu", "cpu") ELSE Open(ring, "cpu", "cpu")

(* The end of a frame: vsync_do_vsync starts with the messages of the UI. *)
Frame ==
  /\ pc = "cpu" /\ trap = "none" /\ pc' = "ui"
  /\ UNCHANGED <<mixer, warp, ring, reopen, ui, ret>>

(***************************************************************************)
(* sound_flush.  The ring is looked at and written to in steps of its own, *)
(* between which the audio task runs.                                      *)
(***************************************************************************)
FlushRun ==
  /\ pc = "flush"
  /\ \/ /\ ~ enabled /\ pc' = "post"
        /\ IF device THEN Close ELSE UNCHANGED <<device, changed, ring>>
        /\ UNCHANGED <<enabled, susp, warp, pend, reopen, ui, ret>>
     \/ /\ enabled /\ device /\ ~ changed
        /\ Generate("resume", "post")
     \/ /\ enabled /\ (changed \/ ~ device)
        /\ Open(IF device THEN NoRing ELSE ring, "resume", "post")

FlushResume ==
  /\ pc = "resume"
  /\ IF warp THEN /\ pend' = 0 /\ pc' = "post"
                  /\ UNCHANGED <<enabled, device, changed, susp, ring, reopen, ret>>
             ELSE Resume("write")
  /\ UNCHANGED <<warp, ui>>

(* Fault: as much is written as there is, whatever the space. *)
FlushWrite_all ==
  /\ pc = "write" /\ pc' = "post"
  /\ Put(pend) /\ pend' = 0
  /\ UNCHANGED <<enabled, device, changed, susp, warp, reopen, ui, ret>>

(***************************************************************************)
(* What fits is written.  An empty ring looks like an underrun: then it is *)
(* first filled, with the last sample, up to what is about to be written.  *)
(***************************************************************************)
FlushWrite ==
  /\ pc = "write" /\ pc' = "post"
  /\ LET space == IF ring.alive THEN Frags - ring.used ELSE 0
         n     == IF pend > space THEN space ELSE pend
         fill  == IF pend > 0 /\ space = Frags THEN Frags - n ELSE 0
     IN  Put(fill + n) /\ pend' = pend - n
  /\ UNCHANGED <<enabled, device, changed, susp, warp, reopen, ui, ret>>

(* Fault: the frame that was asked for is not the last one. *)
Post_runs ==
  /\ pc = "post" /\ pc' = "cpu" /\ advance' = FALSE
  /\ UNCHANGED <<mixer, warp, ring, reopen, paused, trap, ret>>

(* vsyncarch_postsync: a frame advance pauses again. *)
Post ==
  /\ pc = "post" /\ pc' = "cpu" /\ advance' = FALSE
  /\ IF advance /\ ~ paused THEN paused' = TRUE /\ trap' = "pause"
                            ELSE UNCHANGED <<paused, trap>>
  /\ UNCHANGED <<mixer, warp, ring, reopen, ret>>

-----------------------------------------------------------------------------
(* ui_event_handle is called once a frame, and in the loop of pause_trap. *)
Chosen(item) == (pc = "ui" /\ item \in Menu) \/ (pc = "paused" /\ item \in PausedMenu)

(* A menu is opened (IDCMP_MENUVERIFY), as dialogs do too: vsync_suspend_speed_eval. *)
OpenMenu == Chosen("open menu") /\ Suspend(pc) /\ UNCHANGED <<warp, ui>>

ToggleWarp ==
  /\ Chosen("warp") /\ warp' = ~ warp
  /\ IF warp THEN Resume(pc) ELSE Suspend(pc)
  /\ UNCHANGED ui

(* The resource Sound, and a resource whose setter asks for a new device. *)
ToggleSound ==
  /\ Chosen("sound") /\ enabled' = ~ enabled
  /\ UNCHANGED <<device, changed, susp, warp, pend, ring, reopen, ui, pc, ret>>

ChangeSettings ==
  /\ Chosen("settings") /\ changed' = TRUE
  /\ UNCHANGED <<enabled, device, susp, warp, pend, ring, reopen, ui, pc, ret>>

(* Fault: the flag is set, but the trap is left to somebody else. *)
TogglePause_flag ==
  /\ Chosen("pause") /\ paused' = ~ paused
  /\ UNCHANGED <<mixer, warp, ring, reopen, advance, trap, pc, ret>>

(* ui_pause_emulation. *)
TogglePause ==
  /\ Chosen("pause") /\ paused' = ~ paused
  /\ trap' = IF paused THEN trap ELSE "pause"
  /\ UNCHANGED <<mixer, warp, ring, reopen, advance, pc, ret>>

(* vsyncarch_advance_frame. *)
AdvanceFrame ==
  /\ Chosen("advance") /\ paused
  /\ paused' = FALSE /\ advance' = TRUE
  /\ UNCHANGED <<mixer, warp, ring, reopen, trap, pc, ret>>

(* A recording is started or a milestone set: its trap takes the slot. *)
EventTrap ==
  /\ Chosen("event") /\ trap' = "event"
  /\ UNCHANGED <<mixer, warp, ring, reopen, paused, advance, pc, ret>>

EndMessages ==
  /\ pc = "ui" /\ pc' = "flush"
  /\ UNCHANGED <<mixer, warp, ring, reopen, ui, ret>>

-----------------------------------------------------------------------------
(* interrupt_do_trap: the trap runs before the next instruction. *)
PauseTrap ==
  /\ pc = "cpu" /\ trap = "pause" /\ trap' = "none"
  /\ Suspend("release")
  /\ UNCHANGED <<warp, paused, advance>>

(* A trap of event.c: reading a snapshot suspends the sound, writing does not. *)
OtherTrap ==
  /\ pc = "cpu" /\ trap = "event" /\ trap' = "none"
  /\ Suspend("cpu") \/ UNCHANGED <<mixer, ring, reopen, pc, ret>>
  /\ UNCHANGED <<warp, paused, advance>>

(* Fault: it is not noted that there is something to reopen. *)
Release_forgets ==
  /\ pc = "release" /\ pc' = "paused"
  /\ IF ring.alive /\ ~ reopen THEN ring' = NoRing ELSE UNCHANGED ring
  /\ UNCHANGED <<mixer, warp, reopen, ui, ret>>

(* ahi_release. *)
Release ==
  /\ pc = "release" /\ pc' = "paused"
  /\ IF ring.alive /\ ~ reopen THEN ring' = NoRing /\ reopen' = TRUE
                               ELSE UNCHANGED <<ring, reopen>>
  /\ UNCHANGED <<mixer, warp, ui, ret>>

(* Fault: a reopened backend still counts as released. *)
Unpause_released ==
  /\ pc = "paused" /\ ~ paused
  /\ IF reopen /\ ring.alive THEN pc' = "two tasks" /\ UNCHANGED ring
     ELSE /\ pc' = "leave"
          /\ IF reopen THEN ring' = EmptyRing ELSE UNCHANGED ring
  /\ UNCHANGED <<mixer, warp, reopen, ui, ret>>

(* The loop of pause_trap ends: ahi_resume. *)
Unpause ==
  /\ pc = "paused" /\ ~ paused
  /\ IF reopen /\ ring.alive THEN pc' = "two tasks" /\ UNCHANGED <<ring, reopen>>
     ELSE /\ pc' = "leave"
          /\ \/ reopen /\ ring' = EmptyRing /\ reopen' = FALSE
             \/ reopen /\ OpenMayFail /\ UNCHANGED <<ring, reopen>>
             \/ ~ reopen /\ UNCHANGED <<ring, reopen>>
  /\ UNCHANGED <<mixer, warp, ui, ret>>

LeaveTrap == pc = "leave" /\ Suspend("cpu") /\ UNCHANGED <<warp, ui>>

(***************************************************************************)
(* ahi_task.  It sends a fragment, and with a fragment sent before it      *)
(* waits until that is played and gives it back: of what was sent, the     *)
(* last is kept.  ahi_pause stops it from sending, not from giving back.   *)
(***************************************************************************)
TaskSends ==
  /\ ring.alive /\ ring.play /\ ring.sent < 2 /\ ring.sent < ring.used
  /\ ring' = [ring EXCEPT !.sent = @ + 1]

TaskGivesBack ==
  /\ ring.alive /\ ring.sent = 2
  /\ ring' = [ring EXCEPT !.sent = 1, !.used = @ - 1]

AudioTask ==
  /\ pc \notin Stopped
  /\ TaskSends \/ TaskGivesBack
  /\ UNCHANGED <<mixer, warp, reopen, ui, pc, ret>>

Messages == OpenMenu \/ ToggleWarp \/ ToggleSound \/ ChangeSettings \/ TogglePause
            \/ AdvanceFrame \/ EventTrap

Run == Frame \/ FlushRun \/ FlushResume \/ FlushWrite \/ Post \/ Stop \/ Refill
       \/ PauseTrap \/ OtherTrap \/ Release \/ LeaveTrap

Next == Messages \/ EndMessages \/ Run \/ Unpause \/ SidAccess \/ AudioTask

Spec == Init /\ [][Next]_vars

(***************************************************************************)
(* The CPU goes on, and the messages of the windows come to an end: a loop *)
(* that handles them is left when it may be left again and again.          *)
(***************************************************************************)
FairSpec == Spec /\ WF_vars(Run) /\ SF_vars(EndMessages) /\ SF_vars(Unpause)

-----------------------------------------------------------------------------

TypeOK ==
  /\ enabled \in BOOLEAN /\ device \in BOOLEAN /\ changed \in BOOLEAN
  /\ susp \in BOOLEAN /\ warp \in BOOLEAN /\ reopen \in BOOLEAN
  /\ paused \in BOOLEAN /\ advance \in BOOLEAN
  /\ pend \in 0 .. MaxPend /\ ring \in Ring
  /\ trap \in {"none", "pause", "event"}
  /\ pc \in Code /\ ret \in {"cpu", "ui", "write", "release", "paused"}

(***************************************************************************)
(* issuspended of sound.c and play of ahi.c, which different events        *)
(* change, agree: between the steps of a suspend or a resume, a sound that *)
(* counts as suspended is not played, and one that does not is.            *)
(***************************************************************************)
SuspendedIsSilent ==
  device /\ ring.alive /\ pc \notin {"stop", "refill"} => susp = ~ ring.play

(***************************************************************************)
(* When sound_flush gets to look at the ring, the task is alive and there  *)
(* is a fragment in it, whatever suspends, pauses and reopenings came      *)
(* before and however far the task is.  Else the flush would take a ring   *)
(* that ahi_resume reopened for an underrun and fill it up: the sound      *)
(* would be late by the whole ring, and there would be no room for the     *)
(* next fade.  (Where sound_resume closes the device, the flush does not   *)
(* get there: see MenusKeepDevice.)                                        *)
(***************************************************************************)
FlushFindsFragment ==
  pc = "write" => device /\ ring.alive /\ ring.play /\ ring.used > 0

(* The program is in the loop of pause_trap, or in a call it made there. *)
Released == pc = "paused" \/ (pc \in {"stop", "refill"} /\ ret = "paused")

InPauseTrap == Released \/ pc \in {"release", "leave"} \/ (pc = "stop" /\ ret = "release")

(***************************************************************************)
(* "AHI is released while paused" (RELEASE_NOTES_FRF.txt): no task of the  *)
(* program has ahi.device.                                                 *)
(***************************************************************************)
ReleasedWhilePaused == Released => ~ ring.alive

(***************************************************************************)
(* "... and reopened before emulation resumes": when the CPU runs, the     *)
(* device that sound.c has open has a task.                                *)
(***************************************************************************)
DeviceHasTask == pc = "cpu" /\ device => ring.alive

(* No ahi_open clears audio_t while a task is using it. *)
OneAudioTask == pc # "two tasks"

(***************************************************************************)
(* A machine that shows as paused stops: the pause trap is pending or has  *)
(* control.                                                                *)
(***************************************************************************)
PausedStops == paused /\ pc \notin Stopped => trap = "pause" \/ InPauseTrap

(***************************************************************************)
(* "FastSID/ReSID state is preserved while the AHI backend is released":   *)
(* the SID engine is not closed while the machine is paused.               *)
(***************************************************************************)
SidPreserved == [][Released => device' = device]_vars

(***************************************************************************)
(* "Dialogs, cartridge attachment, reset and warp transitions only stop    *)
(* new playback temporarily" (ahi_pause): neither the suspension by a menu *)
(* nor the resumption behind it closes the device, which the caller goes   *)
(* on to use.                                                              *)
(***************************************************************************)
MenusKeepDevice ==
  [][(pc \in {"ui", "refill"}) => (device' = device)]_vars

(* Who asks for a pause gets it, and with a frame advance the next pause. *)
PauseTakesEffect    == paused ~> (~ paused \/ pc = "paused" \/ pc \in Stopped)
AdvancePausesAgain  == advance ~> (paused \/ pc \in Stopped)
=============================================================================
