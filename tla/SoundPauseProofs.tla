-------------------------- MODULE SoundPauseProofs --------------------------
(***************************************************************************)
(* Proofs about SoundPause, for every size of the ring and of the buffer,  *)
(* and every choice of menu items unless a theorem excludes some.          *)
(***************************************************************************)
EXTENDS SoundPause, TLAPS

(* What of the ring the rest relies on. *)
RingInv ==
  /\ ~ ring.alive => ~ ring.play
  /\ ring.sent <= ring.used
  /\ ring.play /\ pc # "refill" => ring.used > 0

(***************************************************************************)
(* The device at each point of the program.  The suspension and the play   *)
(* flag agree also without a task, where the play flag is clear.           *)
(***************************************************************************)
DeviceInv ==
  /\ pc \in {"resume", "write", "stop", "refill"} => device
  /\ pc = "write" => ~ susp
  /\ pc = "stop" => ret # "write"
  /\ pc = "refill" => ~ susp /\ ring.play = ring.alive /\ ret # "release"
  /\ pc = "release" /\ device => susp
  /\ device /\ pc \notin {"stop", "refill"} => susp = ~ ring.play

SoundInv == TypeOK /\ RingInv /\ DeviceInv

-----------------------------------------------------------------------------
(* While AHI can be opened again and warp mode is left alone in the pause. *)
Calm == ~ OpenMayFail /\ "warp" \notin PausedMenu

(***************************************************************************)
(* The backend is released exactly between Release and Unpause; outside of *)
(* the pause the device and the task come and go together.                 *)
(***************************************************************************)
PauseInv ==
  /\ pc = "paused" => ~ ring.alive /\ reopen = device
  /\ pc # "paused" => ~ reopen /\ (pc # "no device" => device = ring.alive)
  /\ pc \in {"stop", "refill"} => ret # "paused"
  /\ pc \in {"paused", "leave"} /\ device => susp
  /\ pc # "two tasks"

(* No trap but the pause's is triggered. *)
OnlyPauseTrap == "event" \notin Menu \cup PausedMenu

StopInv ==
  /\ PausedStops
  /\ trap # "event"
  /\ pc = "leave" => ~ paused

-----------------------------------------------------------------------------
(* The fields of the ring, for provers that need not know the record. *)
LEMMA RingFields ==
  ASSUME ring \in Ring
  PROVE  /\ ring.alive \in BOOLEAN /\ ring.play \in BOOLEAN
         /\ ring.used \in 0 .. Frags /\ ring.sent \in 0 .. 2
  BY DEF Ring

(* What ahi_close leaves is a ring, silent and empty. *)
LEMMA NoRingFields ==
  /\ NoRing \in Ring
  /\ ~ NoRing.alive /\ ~ NoRing.play /\ NoRing.sent <= NoRing.used
  <1>1. 0 \in 0 .. Frags
    BY SizeAssumption
  <1>2. NoRing \in Ring
    BY <1>1 DEF Ring, NoRing
  <1>3. ~ NoRing.alive /\ ~ NoRing.play /\ NoRing.sent <= NoRing.used
    BY DEF NoRing
  <1>. QED BY <1>2, <1>3

(* Nothing has the device then. *)
LEMMA NoRingAlive == NoRing.alive = FALSE
  BY DEF NoRing

(* So is what ahi_open leaves, but for the task. *)
LEMMA EmptyRingFields ==
  /\ EmptyRing \in Ring
  /\ EmptyRing.alive = TRUE /\ EmptyRing.play = FALSE /\ EmptyRing.used = 0 /\ EmptyRing.sent = 0
  /\ ~ EmptyRing.play /\ EmptyRing.sent <= EmptyRing.used
  <1>1. EmptyRing \in Ring
    BY NoRingFields DEF EmptyRing, Ring
  <1>. QED BY <1>1 DEF EmptyRing, NoRing

(* sound_open fills it, but for one fragment, and it plays. *)
LEMMA OpenRingFields ==
  ASSUME NEW r, r = [EmptyRing EXCEPT !.used = Frags - 1, !.play = TRUE]
  PROVE  r \in Ring /\ r.alive = TRUE /\ r.play = TRUE /\ r.used > 0 /\ r.sent <= r.used
  <1>1. Frags - 1 \in 0 .. Frags /\ Frags - 1 > 0 /\ 0 <= Frags - 1
    BY SizeAssumption
  <1>2. r \in Ring
    BY <1>1, EmptyRingFields DEF Ring
  <1>3. r.alive = TRUE /\ r.play = TRUE /\ r.used = Frags - 1 /\ r.sent = 0
    BY <1>1, EmptyRingFields DEF Ring
  <1>. QED BY <1>1, <1>2, <1>3

(* Fragments that fit are put into the ring, and start it. *)
LEMMA PutFields ==
  ASSUME ring \in Ring, NEW n \in Nat, n <= Frags - ring.used, Put(n)
  PROVE  /\ ring' \in Ring /\ ring'.alive = ring.alive /\ ring'.sent = ring.sent
         /\ ring'.used = ring.used + n
         /\ n = 0 => ring'.play = ring.play
         /\ n > 0 => ring'.play = TRUE
  <1> DEFINE u == ring.used + n
             p == ring.play \/ n > 0
  <1>1. u \in 0 .. Frags /\ p \in BOOLEAN
    BY SizeAssumption, RingFields
  <1>2. ring' = [ring EXCEPT !.used = u, !.play = p]
    BY DEF Put
  <1>3. u = ring.used + n
    OBVIOUS
  <1>4. (n = 0 => p = ring.play) /\ (n > 0 => p = TRUE)
    BY RingFields
  <1> HIDE DEF u, p
  <1>5. /\ ring' \in Ring /\ ring'.alive = ring.alive /\ ring'.sent = ring.sent
        /\ ring'.used = u /\ ring'.play = p
    BY <1>1, <1>2 DEF Ring
  <1>. QED BY <1>3, <1>4, <1>5

(* The same for one fragment. *)
LEMMA PutOneFields ==
  ASSUME ring \in Ring, 1 <= Frags - ring.used, Put(1)
  PROVE  /\ ring' \in Ring /\ ring'.alive = ring.alive /\ ring'.play = TRUE
         /\ ring'.sent = ring.sent /\ ring'.used = ring.used + 1
  <1> DEFINE n == 1
  <1>1. n \in Nat /\ n > 0 /\ n <= Frags - ring.used /\ Put(n)
    OBVIOUS
  <1>2. ring'.used = ring.used + n => ring'.used = ring.used + 1
    OBVIOUS
  <1> HIDE DEF n
  <1>. QED BY <1>1, <1>2, PutFields

(* The play flag is changed and nothing else. *)
LEMMA PlayFields ==
  ASSUME ring \in Ring, NEW b \in BOOLEAN, ring' = [ring EXCEPT !.play = b]
  PROVE  /\ ring' \in Ring /\ ring'.alive = ring.alive /\ ring'.sent = ring.sent
         /\ ring'.used = ring.used /\ ring'.play = b
  BY DEF Ring

(* The audio task leaves a fragment in the ring, and what is sent in use. *)
LEMMA TaskFields ==
  ASSUME ring \in Ring, ring.sent <= ring.used, TaskSends \/ TaskGivesBack
  PROVE  /\ ring' \in Ring /\ ring'.alive = ring.alive /\ ring'.play = ring.play
         /\ ring'.sent <= ring'.used /\ ring'.used > 0
  <1>1. CASE TaskSends
    <2> DEFINE s == ring.sent + 1
    <2>1. s \in 0 .. 2 /\ s <= ring.used /\ ring.used > 0
      BY <1>1, RingFields, SizeAssumption DEF TaskSends
    <2>2. ring' = [ring EXCEPT !.sent = s]
      BY <1>1 DEF TaskSends
    <2> HIDE DEF s
    <2>3. /\ ring' \in Ring /\ ring'.alive = ring.alive /\ ring'.play = ring.play
          /\ ring'.sent = s /\ ring'.used = ring.used
      BY <2>1, <2>2 DEF Ring
    <2>. QED BY <2>1, <2>3
  <1>2. CASE TaskGivesBack
    <2> DEFINE u == ring.used - 1
    <2>1. u \in 0 .. Frags /\ u > 0 /\ 1 \in 0 .. 2
      BY <1>2, RingFields, SizeAssumption DEF TaskGivesBack
    <2>2. ring' = [ring EXCEPT !.sent = 1, !.used = u]
      BY <1>2 DEF TaskGivesBack
    <2> HIDE DEF u
    <2>3. /\ ring' \in Ring /\ ring'.alive = ring.alive /\ ring'.play = ring.play
          /\ ring'.sent = 1 /\ ring'.used = u
      BY <2>1, <2>2 DEF Ring
    <2>4. 1 <= u
      BY <2>1, SizeAssumption
    <2>. QED BY <2>1, <2>3, <2>4
  <1>. QED BY <1>1, <1>2

(* sound_suspend has nothing to do, writes the last fragment, or closes. *)
LEMMA SuspendCases ==
  ASSUME TypeOK, NEW r, Suspend(r)
  PROVE  /\ UNCHANGED reopen
         /\ \/ (~ device \/ susp) /\ pc' = r /\ UNCHANGED <<mixer, ring, ret>>
            \/ /\ device /\ ~ susp /\ ring.alive
               /\ pc' = "stop" /\ ret' = r /\ UNCHANGED mixer
               /\ ring' \in Ring /\ ring'.alive = TRUE /\ ring'.play = TRUE
               /\ ring'.sent = ring.sent /\ ring'.used = ring.used + 1
            \/ /\ device /\ ~ susp /\ pc' = "no device"
               /\ enabled' = FALSE /\ device' = FALSE /\ changed' = FALSE
               /\ ring' = NoRing /\ UNCHANGED <<susp, pend, ret>>
  <1>0. ring \in Ring /\ ring.used \in 0 .. Frags
    BY RingFields DEF TypeOK
  <1>1. CASE ~ device \/ susp
    BY <1>1 DEF Suspend
  <1>2. CASE device /\ ~ susp /\ Room
    <2>1. 1 <= Frags - ring.used /\ ring.alive
      BY <1>0, <1>2, SizeAssumption DEF Room
    <2>2. Put(1) /\ pc' = "stop" /\ ret' = r /\ UNCHANGED mixer /\ UNCHANGED reopen
      BY <1>2 DEF Suspend
    <2>3. /\ ring' \in Ring /\ ring'.alive = ring.alive /\ ring'.play = TRUE
          /\ ring'.sent = ring.sent /\ ring'.used = ring.used + 1
      BY <1>0, <2>1, <2>2, PutOneFields
    <2>4. ring.alive = TRUE
      BY <1>0, <2>1, RingFields
    <2>. QED BY <1>2, <2>1, <2>2, <2>3, <2>4
  <1>3. CASE device /\ ~ susp /\ ~ Room
    BY <1>3 DEF Suspend, SoundError, Close
  <1>. QED BY <1>1, <1>2, <1>3

(* The fragment that fades in is written, or the device is closed. *)
LEMMA RefillCases ==
  ASSUME TypeOK, Refill
  PROVE  /\ pc = "refill" /\ UNCHANGED <<warp, reopen, ui, ret>>
         /\ \/ /\ ring.alive /\ pc' = ret /\ UNCHANGED mixer
               /\ ring' \in Ring /\ ring'.alive = TRUE /\ ring'.play = TRUE
               /\ ring'.sent = ring.sent /\ ring'.used = ring.used + 1
            \/ /\ pc' = IF ret = "write" THEN "no device" ELSE ret
               /\ enabled' = FALSE /\ device' = FALSE /\ changed' = FALSE
               /\ ring' = NoRing /\ UNCHANGED <<susp, pend>>
  <1>0. ring \in Ring /\ ring.used \in 0 .. Frags
    BY RingFields DEF TypeOK
  <1>1. CASE Room
    <2>1. 1 <= Frags - ring.used /\ ring.alive
      BY <1>0, <1>1, SizeAssumption DEF Room
    <2>2. Put(1) /\ pc' = ret /\ UNCHANGED mixer /\ UNCHANGED <<warp, reopen, ui, ret>>
      BY <1>1 DEF Refill
    <2>3. /\ ring' \in Ring /\ ring'.alive = ring.alive /\ ring'.play = TRUE
          /\ ring'.sent = ring.sent /\ ring'.used = ring.used + 1
      BY <1>0, <2>1, <2>2, PutOneFields
    <2>4. ring.alive = TRUE
      BY <1>0, <2>1, RingFields
    <2>. QED BY <2>1, <2>2, <2>3, <2>4 DEF Refill
  <1>2. CASE ~ Room
    BY <1>2 DEF Refill, SoundError, Close
  <1>. QED BY <1>1, <1>2

(* sound_flush puts no more into the ring than there is room for. *)
LEMMA FlushWriteCases ==
  ASSUME TypeOK, FlushWrite
  PROVE  /\ pc = "write" /\ pc' = "post"
         /\ UNCHANGED <<enabled, device, changed, susp, warp, reopen, ui, ret>>
         /\ pend' \in 0 .. MaxPend
         /\ ring' \in Ring /\ ring'.alive = ring.alive /\ ring'.sent = ring.sent
         /\ ring'.used \in 0 .. Frags /\ ring.used <= ring'.used
         /\ ring'.play = ring.play \/ (ring'.play = TRUE /\ ring'.used > 0 /\ ring.alive)
  <1> DEFINE space == IF ring.alive THEN Frags - ring.used ELSE 0
             n     == IF pend > space THEN space ELSE pend
             fill  == IF pend > 0 /\ space = Frags THEN Frags - n ELSE 0
             k     == fill + n
  <1>0. /\ ring \in Ring /\ ring.used \in 0 .. Frags /\ ring.alive \in BOOLEAN
        /\ pend \in 0 .. MaxPend
    BY RingFields DEF TypeOK
  <1>1. /\ space \in 0 .. Frags /\ space <= Frags - ring.used /\ (space > 0 => ring.alive)
    BY <1>0, SizeAssumption
  <1>2. n \in Nat /\ n <= space /\ pend - n \in 0 .. MaxPend
    BY <1>0, <1>1, SizeAssumption
  <1>3. /\ pc = "write" /\ pc' = "post"
        /\ UNCHANGED <<enabled, device, changed, susp, warp, reopen, ui, ret>>
        /\ Put(k) /\ pend' = pend - n
    BY DEF FlushWrite
  <1> HIDE DEF space, n
  <1>4. k \in Nat /\ k <= space
    BY <1>1, <1>2, SizeAssumption
  <1> HIDE DEF fill, k
  <1>5. k <= Frags - ring.used
    BY <1>0, <1>1, <1>4, SizeAssumption
  <1>6. /\ ring' \in Ring /\ ring'.alive = ring.alive /\ ring'.sent = ring.sent
        /\ ring'.used = ring.used + k
        /\ k = 0 => ring'.play = ring.play
        /\ k > 0 => ring'.play = TRUE
    BY <1>0, <1>3, <1>4, <1>5, PutFields
  <1>7. ring'.used \in 0 .. Frags /\ ring.used <= ring'.used /\ (k > 0 => ring'.used > 0)
    BY <1>0, <1>4, <1>5, <1>6, SizeAssumption
  <1>8. k > 0 => ring.alive
    BY <1>0, <1>1, <1>4, SizeAssumption
  <1>9. k = 0 \/ k > 0
    BY <1>4
  <1>10. ring'.play = ring.play \/ (ring'.play = TRUE /\ ring'.used > 0 /\ ring.alive)
    BY <1>6, <1>7, <1>8, <1>9
  <1>. QED BY <1>2, <1>3, <1>6, <1>7, <1>10

(* The device is opened, or cannot be, or a task is still using audio_t. *)
LEMMA OpenCases ==
  ASSUME TypeOK, NEW r, NEW ok, NEW failed, Open(r, ok, failed)
  PROVE  /\ UNCHANGED <<warp, reopen, ui, ret>>
         /\ \/ /\ ~ r.alive /\ pc' = ok
               /\ device' = TRUE /\ susp' = FALSE /\ changed' = FALSE /\ UNCHANGED enabled
               /\ pend' \in 0 .. MaxPend
               /\ ring' \in Ring /\ ring'.alive = TRUE /\ ring'.play = TRUE
               /\ ring'.used > 0 /\ ring'.sent <= ring'.used
            \/ /\ ~ r.alive /\ OpenMayFail /\ pc' = failed
               /\ enabled' = FALSE /\ device' = FALSE /\ changed' = FALSE
               /\ ring' = NoRing /\ UNCHANGED <<susp, pend>>
            \/ /\ r.alive /\ pc' = "two tasks"
               /\ UNCHANGED <<enabled, device, changed, susp, pend, ring>>
  <1>1. {0, 1} \subseteq 0 .. MaxPend
    BY SizeAssumption
  <1> DEFINE full == [EmptyRing EXCEPT !.used = Frags - 1, !.play = TRUE]
  <1>2. /\ full \in Ring /\ full.alive = TRUE /\ full.play = TRUE /\ full.used > 0
        /\ full.sent <= full.used
    BY OpenRingFields
  <1>3. /\ UNCHANGED <<warp, reopen, ui, ret>>
        /\ \/ /\ ~ r.alive /\ pc' = ok
              /\ device' = TRUE /\ susp' = FALSE /\ changed' = FALSE /\ UNCHANGED enabled
              /\ pend' \in {0, 1} /\ ring' = full
           \/ /\ ~ r.alive /\ OpenMayFail /\ pc' = failed
              /\ enabled' = FALSE /\ device' = FALSE /\ changed' = FALSE
              /\ ring' = NoRing /\ UNCHANGED <<susp, pend>>
           \/ /\ r.alive /\ pc' = "two tasks"
              /\ UNCHANGED <<enabled, device, changed, susp, pend, ring>>
    BY DEF Open, SoundError, Close
  <1> HIDE DEF full
  <1>. QED BY <1>1, <1>2, <1>3

(* Sound is generated, or there is no room for it and the device is closed. *)
LEMMA GenerateCases ==
  ASSUME TypeOK, NEW ok, NEW failed, Generate(ok, failed)
  PROVE  /\ UNCHANGED <<warp, reopen, ui, ret, susp>> /\ pend' \in 0 .. MaxPend
         /\ \/ pc' = ok /\ UNCHANGED <<enabled, device, changed, ring>>
            \/ /\ pc' = failed
               /\ enabled' = FALSE /\ device' = FALSE /\ changed' = FALSE
               /\ ring' = NoRing
  <1>1. pend \in 0 .. MaxPend /\ MaxPend \in 0 .. MaxPend
    BY SizeAssumption DEF TypeOK
  <1>2. \A n \in {0, 1} : (IF pend + n > MaxPend THEN MaxPend ELSE pend + n) \in 0 .. MaxPend
    BY <1>1, SizeAssumption
  <1>. QED BY <1>1, <1>2 DEF Generate, SoundError, Close

(* sound_resume has nothing to do, or clears the flag and goes on to the fade. *)
LEMMA ResumeCases ==
  ASSUME TypeOK, NEW r, Resume(r)
  PROVE  /\ UNCHANGED <<enabled, device, changed, pend, reopen>>
         /\ \/ (~ device \/ ~ susp) /\ pc' = r /\ UNCHANGED <<susp, ring, ret>>
            \/ /\ device /\ susp /\ susp' = FALSE /\ pc' = "refill" /\ ret' = r
               /\ ring' \in Ring /\ ring'.alive = ring.alive /\ ring'.sent = ring.sent
               /\ ring'.used = ring.used /\ ring'.play = ring.alive
  <1>1. CASE device /\ susp
    <2>1. ring \in Ring /\ ring.alive \in BOOLEAN
      BY RingFields DEF TypeOK
    <2>2. ring' = [ring EXCEPT !.play = ring.alive]
      BY <1>1 DEF Resume
    <2>3. /\ ring' \in Ring /\ ring'.alive = ring.alive /\ ring'.sent = ring.sent
          /\ ring'.used = ring.used /\ ring'.play = ring.alive
      BY <2>1, <2>2, PlayFields
    <2>. QED BY <1>1, <2>3 DEF Resume
  <1>2. CASE ~ (device /\ susp)
    BY <1>2 DEF Resume
  <1>. QED BY <1>1, <1>2

-----------------------------------------------------------------------------
(***************************************************************************)
(* What a step can do to the sound: nothing, go on with a fragment more or *)
(* less, open the device, or close it.                                     *)
(***************************************************************************)
Closed == /\ device' = FALSE /\ changed' = FALSE /\ susp' = susp
          /\ enabled' \in BOOLEAN /\ pend' \in 0 .. MaxPend /\ ring' = NoRing

Opened == /\ device' = TRUE /\ changed' = FALSE /\ susp' = FALSE
          /\ enabled' \in BOOLEAN /\ pend' \in 0 .. MaxPend
          /\ ring' \in Ring /\ ring'.alive = TRUE /\ ring'.play = TRUE
          /\ ring'.used > 0 /\ ring'.sent <= ring'.used

Kept == /\ UNCHANGED <<enabled, device, changed, susp, ring>> /\ pend' \in 0 .. MaxPend

(* The first part of sound_flush. *)
LEMMA FlushRunCases ==
  ASSUME TypeOK, FlushRun
  PROVE  /\ pc = "flush" /\ UNCHANGED <<warp, reopen, ui, ret>>
         /\ \/ Closed /\ pc' = "post"
            \/ Kept /\ ~ device /\ pc' = "post"
            \/ Kept /\ device /\ pc' = "resume"
            \/ Opened /\ pc' = "resume"
            \/ Kept /\ ~ device /\ ring.alive /\ pc' = "two tasks"
  <1>0. pend \in 0 .. MaxPend /\ enabled \in BOOLEAN /\ device \in BOOLEAN
    BY DEF TypeOK
  <1>1. pc = "flush"
    BY DEF FlushRun
  <1>2. CASE /\ ~ enabled /\ pc' = "post"
             /\ IF device THEN Close ELSE UNCHANGED <<device, changed, ring>>
             /\ UNCHANGED <<enabled, susp, warp, pend, reopen, ui, ret>>
    BY <1>0, <1>1, <1>2 DEF Close, Closed, Kept
  <1>3. CASE enabled /\ device /\ ~ changed /\ Generate("resume", "post")
    BY <1>0, <1>1, <1>3, GenerateCases DEF Closed, Kept
  <1>4. CASE /\ enabled /\ (changed \/ ~ device)
             /\ Open(IF device THEN NoRing ELSE ring, "resume", "post")
    <2> DEFINE r == IF device THEN NoRing ELSE ring
    <2>1. r.alive => ~ device /\ ring.alive
      BY NoRingFields
    <2>2. Open(r, "resume", "post")
      BY <1>4
    <2> HIDE DEF r
    <2>. QED BY <1>0, <1>1, <2>1, <2>2, OpenCases DEF Closed, Opened, Kept
  <1>. QED BY <1>2, <1>3, <1>4 DEF FlushRun

(* An access to a register of the SID. *)
LEMMA SidAccessCases ==
  ASSUME TypeOK, SidAccess
  PROVE  /\ pc = "cpu" /\ UNCHANGED <<warp, reopen, ui, ret>>
         /\ \/ Closed /\ pc' = "cpu"
            \/ Kept /\ pc' = "cpu"
            \/ Opened /\ pc' = "cpu"
            \/ Kept /\ ~ device /\ ring.alive /\ pc' = "two tasks"
  <1>0. pend \in 0 .. MaxPend /\ enabled \in BOOLEAN /\ device \in BOOLEAN
    BY DEF TypeOK
  <1>1. CASE device
    <2>1. pc = "cpu" /\ Generate("cpu", "cpu")
      BY <1>1 DEF SidAccess
    <2>. QED BY <1>0, <2>1, GenerateCases DEF Closed, Kept
  <1>2. CASE ~ device
    <2>1. pc = "cpu" /\ Open(ring, "cpu", "cpu")
      BY <1>2 DEF SidAccess
    <2>. QED BY <1>0, <1>2, <2>1, OpenCases DEF Closed, Opened, Kept
  <1>. QED BY <1>1, <1>2

-----------------------------------------------------------------------------
(* The invariant is kept by sound_suspend, wherever it is called. *)
LEMMA SuspendKeeps ==
  ASSUME SoundInv, NEW r \in {"cpu", "ui", "release", "paused"}, Suspend(r),
         pc \notin {"stop", "refill"}, UNCHANGED <<paused, advance>>, warp' \in BOOLEAN,
         trap' \in {"none", "pause", "event"}
  PROVE  SoundInv'
  <1>0. TypeOK /\ RingInv /\ DeviceInv
    BY DEF SoundInv
  <1>1. CASE (~ device \/ susp) /\ pc' = r /\ UNCHANGED <<mixer, ring, ret>> /\ UNCHANGED reopen
    <2>1. TypeOK'
      BY ZenonT(40), <1>0, <1>1 DEF TypeOK, mixer, Code
    <2>2. RingInv' /\ DeviceInv'
      BY <1>0, <1>1 DEF RingInv, DeviceInv, mixer, TypeOK
    <2>. QED BY <2>1, <2>2 DEF SoundInv
  <1>2. CASE /\ device /\ pc' = "stop" /\ ret' = r /\ UNCHANGED mixer /\ UNCHANGED reopen
             /\ ring' \in Ring /\ ring'.alive = TRUE /\ ring'.play = TRUE
             /\ ring'.sent = ring.sent /\ ring'.used = ring.used + 1
    <2>1. TypeOK'
      BY <1>0, <1>2 DEF TypeOK, mixer, Code
    <2>2. ring.used \in Nat /\ ring.sent \in Nat
      BY <1>0, RingFields, SizeAssumption DEF TypeOK
    <2>3. RingInv'
      BY <1>0, <1>2, <2>2 DEF RingInv
    <2>4. DeviceInv'
      BY <1>2 DEF DeviceInv, mixer
    <2>. QED BY <2>1, <2>3, <2>4 DEF SoundInv
  <1>3. CASE /\ pc' = "no device" /\ ring' = NoRing /\ UNCHANGED reopen
             /\ enabled' = FALSE /\ device' = FALSE /\ changed' = FALSE
             /\ UNCHANGED <<susp, pend, ret>>
    <2>1. TypeOK'
      BY <1>0, <1>3, NoRingFields DEF TypeOK, Code
    <2>2. RingInv'
      BY <1>3, NoRingFields DEF RingInv
    <2>3. DeviceInv'
      BY <1>3 DEF DeviceInv
    <2>. QED BY <2>1, <2>2, <2>3 DEF SoundInv
  <1>. QED BY <1>0, <1>1, <1>2, <1>3, SuspendCases

(* And by sound_resume. *)
LEMMA ResumeKeeps ==
  ASSUME SoundInv, NEW r \in {"ui", "paused", "write"}, Resume(r),
         pc \notin {"stop", "refill"}, r = "write" => device,
         warp' \in BOOLEAN, UNCHANGED ui
  PROVE  SoundInv'
  <1>0. TypeOK /\ RingInv /\ DeviceInv /\ device \in BOOLEAN /\ susp \in BOOLEAN
    BY DEF SoundInv, TypeOK
  <1>1. UNCHANGED <<enabled, device, changed, pend, reopen>>
    BY <1>0, ResumeCases
  <1>2. CASE (~ device \/ ~ susp) /\ pc' = r /\ UNCHANGED <<susp, ring, ret>>
    <2>1. TypeOK'
      BY ZenonT(40), <1>0, <1>1, <1>2 DEF TypeOK, ui, Code
    <2>2. RingInv'
      BY <1>0, <1>2 DEF RingInv
    <2>3. DeviceInv'
      BY <1>0, <1>1, <1>2 DEF DeviceInv
    <2>. QED BY <2>1, <2>2, <2>3 DEF SoundInv
  <1>3. CASE /\ device /\ susp /\ susp' = FALSE /\ pc' = "refill" /\ ret' = r
             /\ ring' \in Ring /\ ring'.alive = ring.alive /\ ring'.sent = ring.sent
             /\ ring'.used = ring.used /\ ring'.play = ring.alive
    <2>1. TypeOK'
      BY <1>0, <1>1, <1>3 DEF TypeOK, ui, Code
    <2>2. RingInv'
      BY <1>0, <1>3 DEF RingInv
    <2>3. DeviceInv'
      BY <1>0, <1>1, <1>3 DEF DeviceInv
    <2>. QED BY <2>1, <2>2, <2>3 DEF SoundInv
  <1>. QED BY <1>0, <1>2, <1>3, ResumeCases

(* And by what opens or closes the device. *)
LEMMA OutcomeKeeps ==
  ASSUME SoundInv, UNCHANGED <<warp, reopen, ui, ret>>,
         \/ Closed /\ pc' \in {"cpu", "post"}
         \/ Opened /\ pc' \in {"cpu", "resume"}
         \/ Kept /\ pc' \in {"cpu", "post", "resume", "two tasks"} /\ (pc' = "resume" => device),
         pc \notin {"stop", "refill"}
  PROVE  SoundInv'
  <1>0. TypeOK /\ RingInv /\ DeviceInv
    BY DEF SoundInv
  <1>1. CASE Closed /\ pc' \in {"cpu", "post"}
    <2>1. TypeOK'
      BY <1>0, <1>1, NoRingFields DEF TypeOK, ui, Code, Closed
    <2>2. RingInv'
      BY <1>1, NoRingFields DEF RingInv, Closed
    <2>3. DeviceInv'
      BY <1>1 DEF DeviceInv, Closed
    <2>. QED BY <2>1, <2>2, <2>3 DEF SoundInv
  <1>2. CASE Opened /\ pc' \in {"cpu", "resume"}
    <2>1. TypeOK'
      BY <1>0, <1>2 DEF TypeOK, ui, Code, Opened
    <2>3. RingInv'
      BY <1>2 DEF RingInv, Opened
    <2>4. DeviceInv'
      BY <1>2 DEF DeviceInv, Opened
    <2>. QED BY <2>1, <2>3, <2>4 DEF SoundInv
  <1>3. CASE Kept /\ pc' \in {"cpu", "post", "resume", "two tasks"} /\ (pc' = "resume" => device)
    <2>0. pc' \in Code
      BY <1>3 DEF Code
    <2>1. TypeOK'
      BY ZenonT(40), <1>0, <1>3, <2>0 DEF TypeOK, ui, Kept
    <2>2. RingInv'
      BY <1>0, <1>3 DEF RingInv, Kept
    <2>3. DeviceInv'
      BY <1>0, <1>3 DEF DeviceInv, Kept
    <2>. QED BY <2>1, <2>2, <2>3 DEF SoundInv
  <1>. QED BY <1>1, <1>2, <1>3

(* The invariant is kept by every step. *)
LEMMA SoundKeeps == ASSUME SoundInv, [Next]_vars PROVE SoundInv'
  <1>0. TypeOK /\ RingInv /\ DeviceInv
    BY DEF SoundInv
  <1>1. CASE OpenMenu
    <2>1. /\ Suspend(pc) /\ pc \in {"ui", "paused"} /\ UNCHANGED <<warp, ui>>
      BY <1>1 DEF OpenMenu, Chosen
    <2>2. warp' \in BOOLEAN /\ trap' \in {"none", "pause", "event"}
      BY <1>0, <2>1 DEF ui, TypeOK
    <2>. QED BY <2>1, <2>2, SuspendKeeps DEF ui
  <1>2. CASE ToggleWarp
    <2>1. /\ warp' = ~ warp /\ pc \in {"ui", "paused"} /\ UNCHANGED ui
          /\ IF warp THEN Resume(pc) ELSE Suspend(pc)
      BY <1>2 DEF ToggleWarp, Chosen
    <2>2. warp' \in BOOLEAN /\ trap' \in {"none", "pause", "event"}
      BY <1>0, <2>1 DEF ui, TypeOK
    <2>3. CASE Resume(pc)
      BY <2>1, <2>2, <2>3, ResumeKeeps
    <2>4. CASE Suspend(pc)
      BY <2>1, <2>2, <2>4, SuspendKeeps DEF ui
    <2>. QED BY <2>1, <2>3, <2>4
  <1>3. CASE ToggleSound
    <2>1. TypeOK'
      BY <1>0, <1>3 DEF ToggleSound, TypeOK, mixer, ui
    <2>2. RingInv' /\ DeviceInv'
      BY <1>0, <1>3 DEF ToggleSound, RingInv, DeviceInv, mixer, ui, Chosen
    <2>. QED BY <2>1, <2>2 DEF SoundInv
  <1>4. CASE ChangeSettings
    <2>1. TypeOK'
      BY <1>0, <1>4 DEF ChangeSettings, TypeOK, mixer, ui
    <2>2. RingInv' /\ DeviceInv'
      BY <1>0, <1>4 DEF ChangeSettings, RingInv, DeviceInv, mixer, ui, Chosen
    <2>. QED BY <2>1, <2>2 DEF SoundInv
  <1>5. CASE TogglePause
    <2>1. TypeOK'
      BY <1>0, <1>5 DEF TogglePause, TypeOK, mixer, ui
    <2>2. RingInv' /\ DeviceInv'
      BY <1>0, <1>5 DEF TogglePause, RingInv, DeviceInv, mixer, ui, Chosen
    <2>. QED BY <2>1, <2>2 DEF SoundInv
  <1>6. CASE AdvanceFrame
    <2>1. TypeOK'
      BY <1>0, <1>6 DEF AdvanceFrame, TypeOK, mixer, ui
    <2>2. RingInv' /\ DeviceInv'
      BY <1>0, <1>6 DEF AdvanceFrame, RingInv, DeviceInv, mixer, ui, Chosen
    <2>. QED BY <2>1, <2>2 DEF SoundInv
  <1>7. CASE EventTrap
    <2>1. TypeOK'
      BY <1>0, <1>7 DEF EventTrap, TypeOK, mixer, ui
    <2>2. RingInv' /\ DeviceInv'
      BY <1>0, <1>7 DEF EventTrap, RingInv, DeviceInv, mixer, ui, Chosen
    <2>. QED BY <2>1, <2>2 DEF SoundInv
  <1>8. CASE EndMessages
    <2>1. TypeOK'
      BY <1>0, <1>8 DEF EndMessages, TypeOK, mixer, ui, Code
    <2>2. RingInv' /\ DeviceInv'
      BY <1>0, <1>8 DEF EndMessages, RingInv, DeviceInv, mixer, ui
    <2>. QED BY <2>1, <2>2 DEF SoundInv
  <1>9. CASE Frame
    <2>1. TypeOK'
      BY <1>0, <1>9 DEF Frame, TypeOK, mixer, ui, Code
    <2>2. RingInv' /\ DeviceInv'
      BY <1>0, <1>9 DEF Frame, RingInv, DeviceInv, mixer, ui
    <2>. QED BY <2>1, <2>2 DEF SoundInv
  <1>10. CASE Post
    <2>1. TypeOK'
      BY ZenonT(40), <1>0, <1>10 DEF Post, TypeOK, mixer, ui, Code
    <2>2. RingInv' /\ DeviceInv'
      BY <1>0, <1>10 DEF Post, RingInv, DeviceInv, mixer, ui
    <2>. QED BY <2>1, <2>2 DEF SoundInv
  <1>11. CASE FlushRun
    BY <1>0, <1>11, FlushRunCases, OutcomeKeeps
  <1>12. CASE FlushResume
    <2>1. pc = "resume" /\ device /\ UNCHANGED <<warp, ui>>
      BY <1>0, <1>12 DEF FlushResume, DeviceInv
    <2>2. CASE Resume("write")
      <3>1. warp' \in BOOLEAN
        BY <1>0, <2>1 DEF TypeOK
      <3>. QED BY <2>1, <2>2, <3>1, ResumeKeeps
    <2>3. CASE /\ pend' = 0 /\ pc' = "post"
               /\ UNCHANGED <<enabled, device, changed, susp, ring, reopen, ret>>
      <3>1. pend' \in 0 .. MaxPend
        BY <2>3, SizeAssumption
      <3>. QED BY <2>1, <2>3, <3>1, OutcomeKeeps DEF Kept
    <2>. QED BY <1>12, <2>2, <2>3 DEF FlushResume
  <1>13. CASE FlushWrite
    <2>1. /\ pc = "write" /\ pc' = "post"
          /\ UNCHANGED <<enabled, device, changed, susp, warp, reopen, ui, ret>>
          /\ pend' \in 0 .. MaxPend
      BY <1>0, <1>13, FlushWriteCases
    <2>2. /\ ring' \in Ring /\ ring'.alive = ring.alive /\ ring'.sent = ring.sent
          /\ ring'.used \in 0 .. Frags /\ ring.used <= ring'.used
          /\ ring'.play = ring.play \/ (ring'.play = TRUE /\ ring'.used > 0 /\ ring.alive)
      BY <1>0, <1>13, FlushWriteCases
    <2>3. pc' \in Code
      BY <2>1 DEF Code
    <2>4. TypeOK'
      BY <1>0, <2>1, <2>2, <2>3 DEF TypeOK, ui
    <2>5. /\ ring.used \in Nat /\ ring.sent \in Nat /\ ring'.used \in Nat
          /\ ring.play \in BOOLEAN /\ ring.alive \in BOOLEAN
      BY <1>0, <2>2, RingFields, SizeAssumption DEF TypeOK
    <2>6. ring'.sent <= ring'.used /\ (ring.used > 0 => ring'.used > 0)
      BY <1>0, <2>2, <2>5 DEF RingInv
    <2>7. RingInv'
      BY <1>0, <2>1, <2>2, <2>5, <2>6 DEF RingInv
    <2>8. device /\ ~ susp /\ ring.play
      BY <1>0, <2>1, <2>5 DEF DeviceInv
    <2>9. pc' = "post" /\ susp' = FALSE /\ ring'.play = TRUE
      BY <1>0, <2>1, <2>2, <2>5, <2>8 DEF TypeOK
    <2>10. DeviceInv'
      BY <2>9 DEF DeviceInv
    <2>. QED BY <2>4, <2>7, <2>10 DEF SoundInv
  <1>14. CASE Stop
    <2>1. ring \in Ring /\ ring' = [ring EXCEPT !.play = FALSE] /\ FALSE \in BOOLEAN
      BY <1>0, <1>14 DEF Stop, TypeOK
    <2>2. /\ ring' \in Ring /\ ring'.alive = ring.alive /\ ring'.sent = ring.sent
          /\ ring'.used = ring.used /\ ring'.play = FALSE
      BY <2>1, PlayFields
    <2>3. /\ pc = "stop" /\ pc' = ret /\ susp' = TRUE
          /\ UNCHANGED <<enabled, device, changed, warp, pend, reopen, ui, ret>>
          /\ ret \in {"cpu", "ui", "release", "paused"}
      BY <1>0, <1>14 DEF Stop, TypeOK, DeviceInv
    <2>4. TypeOK'
      BY ZenonT(40), <1>0, <2>2, <2>3 DEF TypeOK, ui, Code
    <2>5. RingInv'
      BY <1>0, <2>2, <2>3 DEF RingInv
    <2>6. DeviceInv'
      BY <1>0, <2>2, <2>3 DEF DeviceInv
    <2>. QED BY <2>4, <2>5, <2>6 DEF SoundInv
  <1>15. CASE Refill
    <2>0. /\ pc = "refill" /\ UNCHANGED <<warp, reopen, ui, ret>> /\ susp = FALSE
          /\ ret \in {"cpu", "ui", "write", "paused"} /\ device
      BY <1>0, <1>15, RefillCases DEF TypeOK, DeviceInv
    <2>1. CASE /\ pc' = ret /\ UNCHANGED mixer
               /\ ring' \in Ring /\ ring'.alive = TRUE /\ ring'.play = TRUE
               /\ ring'.sent = ring.sent /\ ring'.used = ring.used + 1
      <3>1. TypeOK'
        BY <1>0, <2>0, <2>1 DEF TypeOK, mixer, ui, Code
      <3>2. ring.used \in Nat /\ ring.sent \in Nat
        BY <1>0, RingFields, SizeAssumption DEF TypeOK
      <3>3. RingInv'
        BY <1>0, <2>1, <3>2 DEF RingInv
      <3>4. DeviceInv'
        BY <1>0, <2>0, <2>1 DEF DeviceInv, mixer
      <3>. QED BY <3>1, <3>3, <3>4 DEF SoundInv
    <2>2. CASE /\ pc' = IF ret = "write" THEN "no device" ELSE ret
               /\ enabled' = FALSE /\ device' = FALSE /\ changed' = FALSE
               /\ ring' = NoRing /\ UNCHANGED <<susp, pend>>
      <3>1. pc' \in {"no device", "cpu", "ui", "release", "paused"}
        BY <2>0, <2>2
      <3>2. TypeOK'
        BY <1>0, <2>0, <2>2, <3>1, NoRingFields DEF TypeOK, ui, Code
      <3>3. RingInv'
        BY <2>2, NoRingFields DEF RingInv
      <3>4. DeviceInv'
        BY <2>2, <3>1 DEF DeviceInv
      <3>. QED BY <3>2, <3>3, <3>4 DEF SoundInv
    <2>. QED BY <1>0, <1>15, <2>1, <2>2, RefillCases
  <1>16. CASE PauseTrap
    <2>1. pc = "cpu" /\ trap' = "none" /\ Suspend("release") /\ UNCHANGED <<warp, paused, advance>>
      BY <1>16 DEF PauseTrap
    <2>2. warp' \in BOOLEAN
      BY <1>0, <2>1 DEF TypeOK
    <2>. QED BY <2>1, <2>2, SuspendKeeps
  <1>17. CASE OtherTrap
    <2>1. pc = "cpu" /\ trap' = "none" /\ UNCHANGED <<warp, paused, advance>>
      BY <1>17 DEF OtherTrap
    <2>2. CASE Suspend("cpu")
      <3>1. warp' \in BOOLEAN
        BY <1>0, <2>1 DEF TypeOK
      <3>. QED BY <2>1, <2>2, <3>1, SuspendKeeps
    <2>3. CASE UNCHANGED <<mixer, ring, reopen, pc, ret>>
      <3>1. TypeOK'
        BY <1>0, <2>1, <2>3 DEF TypeOK, mixer
      <3>2. RingInv' /\ DeviceInv'
        BY <1>0, <2>3 DEF RingInv, DeviceInv, mixer
      <3>. QED BY <3>1, <3>2 DEF SoundInv
    <2>. QED BY <1>17, <2>2, <2>3 DEF OtherTrap
  <1>18. CASE Release
    <2>1. /\ pc = "release" /\ pc' = "paused" /\ UNCHANGED <<mixer, warp, ui, ret>>
          /\ ring' = NoRing \/ ring' = ring
          /\ reopen' = TRUE \/ reopen' = reopen
      BY <1>18 DEF Release
    <2>0. ring' \in Ring /\ reopen' \in BOOLEAN /\ pc' \in Code
      BY <1>0, <2>1, NoRingFields DEF TypeOK, Code
    <2>2. TypeOK'
      BY <1>0, <2>0, <2>1 DEF TypeOK, mixer, ui
    <2>3. RingInv'
      BY <1>0, <2>1, NoRingFields DEF RingInv
    <2>4. DeviceInv'
      BY <1>0, <2>1, NoRingFields DEF DeviceInv, mixer, TypeOK
    <2>. QED BY <2>2, <2>3, <2>4 DEF SoundInv
  <1>19. CASE LeaveTrap
    <2>1. pc = "leave" /\ Suspend("cpu") /\ UNCHANGED <<warp, ui>>
      BY <1>19 DEF LeaveTrap
    <2>2. warp' \in BOOLEAN /\ trap' \in {"none", "pause", "event"}
      BY <1>0, <2>1 DEF ui, TypeOK
    <2>. QED BY <2>1, <2>2, SuspendKeeps DEF ui
  <1>20. CASE Unpause
    <2>1. /\ pc = "paused" /\ pc' \in {"leave", "two tasks"} /\ UNCHANGED <<mixer, warp, ui, ret>>
          /\ ring' = ring \/ (ring' = EmptyRing /\ ~ ring.alive)
          /\ reopen' = FALSE \/ reopen' = reopen
      BY <1>20 DEF Unpause
    <2>0. ring' \in Ring /\ reopen' \in BOOLEAN /\ pc' \in Code
      BY <1>0, <2>1, EmptyRingFields DEF TypeOK, Code
    <2>2. TypeOK'
      BY ZenonT(40), <1>0, <2>0, <2>1 DEF TypeOK, mixer, ui
    <2>3. RingInv'
      BY <1>0, <2>1, EmptyRingFields DEF RingInv
    <2>4. DeviceInv'
      BY <1>0, <2>1, EmptyRingFields DEF DeviceInv, RingInv, mixer, TypeOK
    <2>. QED BY <2>2, <2>3, <2>4 DEF SoundInv
  <1>21. CASE SidAccess
    <2>1. \/ Closed /\ pc' \in {"cpu", "post"}
          \/ Opened /\ pc' \in {"cpu", "resume"}
          \/ Kept /\ pc' \in {"cpu", "post", "resume", "two tasks"} /\ (pc' = "resume" => device)
      BY <1>0, <1>21, SidAccessCases
    <2>2. UNCHANGED <<warp, reopen, ui, ret>> /\ pc \notin {"stop", "refill"}
      BY <1>0, <1>21, SidAccessCases
    <2>. QED BY <2>1, <2>2, OutcomeKeeps
  <1>22. CASE AudioTask
    <2>1. UNCHANGED <<mixer, warp, reopen, ui, pc, ret>> /\ (TaskSends \/ TaskGivesBack)
      BY <1>22 DEF AudioTask
    <2>2. /\ ring' \in Ring /\ ring'.alive = ring.alive /\ ring'.play = ring.play
          /\ ring'.sent <= ring'.used /\ ring'.used > 0
      BY <1>0, <2>1, TaskFields DEF TypeOK, RingInv
    <2>3. TypeOK'
      BY <1>0, <2>1, <2>2 DEF TypeOK, mixer, ui
    <2>4. RingInv' /\ DeviceInv'
      BY <1>0, <2>1, <2>2 DEF RingInv, DeviceInv, mixer
    <2>. QED BY <2>3, <2>4 DEF SoundInv
  <1>23. CASE UNCHANGED vars
    <2>1. TypeOK'
      BY <1>0, <1>23 DEF vars, TypeOK, mixer, ui
    <2>2. RingInv' /\ DeviceInv'
      BY <1>0, <1>23 DEF vars, RingInv, DeviceInv, mixer
    <2>. QED BY <2>1, <2>2 DEF SoundInv
  <1>. QED BY <1>1, <1>2, <1>3, <1>4, <1>5, <1>6, <1>7, <1>8, <1>9, <1>10, <1>11,
              <1>12, <1>13, <1>14, <1>15, <1>16, <1>17, <1>18, <1>19, <1>20, <1>21, <1>22, <1>23 DEF Next, Messages, Run

-----------------------------------------------------------------------------
(* sound_suspend keeps it: in the pause the sound is suspended already. *)
LEMMA SuspendKeepsPause ==
  ASSUME SoundInv, PauseInv, NEW r \in {"cpu", "ui", "release", "paused"}, Suspend(r),
         pc \in {"cpu", "ui", "paused", "leave"}, pc = "paused" <=> r = "paused"
  PROVE  PauseInv'
  <1>0. TypeOK /\ ring.alive \in BOOLEAN /\ device \in BOOLEAN /\ UNCHANGED reopen
    BY RingFields, SuspendCases DEF SoundInv, TypeOK
  <1>1. CASE pc' = r /\ UNCHANGED <<mixer, ring, ret>>
    BY <1>0, <1>1 DEF PauseInv, mixer
  <1>2. CASE device /\ ~ susp
    <2>1. pc # "paused" /\ ~ reopen /\ r # "paused"
      BY <1>2 DEF PauseInv
    <2>2. CASE /\ pc' = "stop" /\ ret' = r /\ UNCHANGED mixer /\ ring'.alive = TRUE
      BY <1>0, <1>2, <2>1, <2>2 DEF PauseInv, mixer
    <2>3. CASE pc' = "no device"
      BY <1>0, <2>1, <2>3 DEF PauseInv
    <2>. QED BY <1>0, <1>2, <2>2, <2>3, SuspendCases
  <1>. QED BY <1>0, <1>1, <1>2, SuspendCases

(* And so does what opens or closes the device. *)
LEMMA OutcomeKeepsPause ==
  ASSUME PauseInv, UNCHANGED reopen, pc \in {"cpu", "flush"}, device \in BOOLEAN,
         ring.alive \in BOOLEAN, pc' \in {"cpu", "post", "resume", "two tasks"},
         \/ Closed \/ Opened \/ Kept,
         pc' # "two tasks" \/ (Kept /\ ~ device /\ ring.alive)
  PROVE  PauseInv'
  <1>1. pc' # "two tasks"
    BY DEF PauseInv
  <1>2. \/ device' = device /\ ring'.alive = ring.alive
        \/ device' = FALSE /\ ring'.alive = FALSE
        \/ device' = TRUE /\ ring'.alive = TRUE
    BY NoRingAlive DEF Closed, Opened, Kept
  <1>. QED BY <1>1, <1>2 DEF PauseInv

(* The release invariant is kept by every step. *)
LEMMA PauseKeeps == ASSUME Calm, SoundInv, PauseInv, [Next]_vars PROVE PauseInv'
  <1>0. /\ TypeOK /\ RingInv /\ DeviceInv
        /\ ring.alive \in BOOLEAN /\ device \in BOOLEAN /\ reopen \in BOOLEAN
    BY RingFields DEF SoundInv, TypeOK
  <1>1. CASE OpenMenu
    BY <1>1, SuspendKeepsPause DEF OpenMenu, Chosen
  <1>2. CASE ToggleWarp
    <2>1. pc = "ui" /\ IF warp THEN Resume("ui") ELSE Suspend("ui")
      BY <1>2 DEF ToggleWarp, Chosen, Calm
    <2>2. CASE Resume("ui")
      <3>1. device' = device /\ ring'.alive = ring.alive /\ reopen' = reopen
        BY <1>0, <2>2, ResumeCases
      <3>2. pc' = "ui" \/ (pc' = "refill" /\ ret' = "ui")
        BY <1>0, <2>2, ResumeCases
      <3>. QED BY <2>1, <3>1, <3>2 DEF PauseInv
    <2>3. CASE Suspend("ui")
      BY <2>1, <2>3, SuspendKeepsPause
    <2>. QED BY <2>1, <2>2, <2>3
  <1>3. CASE ToggleSound
    BY <1>3 DEF ToggleSound, PauseInv, mixer, Chosen
  <1>4. CASE ChangeSettings
    BY <1>4 DEF ChangeSettings, PauseInv, mixer, Chosen
  <1>5. CASE TogglePause
    BY <1>5 DEF TogglePause, PauseInv, mixer, Chosen
  <1>6. CASE AdvanceFrame
    BY <1>6 DEF AdvanceFrame, PauseInv, mixer, Chosen
  <1>7. CASE EventTrap
    BY <1>7 DEF EventTrap, PauseInv, mixer, Chosen
  <1>8. CASE EndMessages
    BY <1>8 DEF EndMessages, PauseInv, mixer
  <1>9. CASE Frame
    BY <1>9 DEF Frame, PauseInv, mixer
  <1>10. CASE Post
    BY <1>10 DEF Post, PauseInv, mixer
  <1>11. CASE FlushRun
    <2>1. /\ pc = "flush" /\ pc' \in {"post", "resume", "two tasks"} /\ reopen' = reopen
          /\ Closed \/ Opened \/ Kept
      BY <1>0, <1>11, FlushRunCases
    <2>2. pc' # "two tasks" \/ (Kept /\ ~ device /\ ring.alive)
      BY <1>0, <1>11, FlushRunCases
    <2>. QED BY <1>0, <2>1, <2>2, OutcomeKeepsPause
  <1>12. CASE FlushResume
    <2>1. CASE pc = "resume" /\ Resume("write")
      <3>1. device' = device /\ ring'.alive = ring.alive /\ reopen' = reopen
        BY <1>0, <2>1, ResumeCases
      <3>2. pc' = "write" \/ (pc' = "refill" /\ ret' = "write")
        BY <1>0, <2>1, ResumeCases
      <3>. QED BY <2>1, <3>1, <3>2 DEF PauseInv
    <2>2. CASE pc = "resume" /\ pc' = "post" /\ UNCHANGED <<device, ring, reopen>>
      BY <2>2 DEF PauseInv
    <2>. QED BY <1>12, <2>1, <2>2 DEF FlushResume
  <1>13. CASE FlushWrite
    <2>1. pc = "write" /\ pc' = "post" /\ UNCHANGED reopen
      BY <1>0, <1>13, FlushWriteCases
    <2>2. device' = device /\ ring'.alive = ring.alive
      BY <1>0, <1>13, FlushWriteCases
    <2>. QED BY <2>1, <2>2 DEF PauseInv
  <1>14. CASE Stop
    <2>1. /\ pc = "stop" /\ pc' = ret /\ ret \in {"cpu", "ui", "release"}
          /\ UNCHANGED <<device, reopen, ret>>
      BY <1>0, <1>14 DEF Stop, TypeOK, DeviceInv, PauseInv
    <2>2. ring'.alive = ring.alive
      BY <1>14, <1>0, PlayFields DEF Stop, TypeOK
    <2>. QED BY <1>0, <2>1, <2>2 DEF PauseInv
  <1>15. CASE Refill
    <2>1. pc = "refill" /\ ret \in {"cpu", "ui", "write"} /\ device /\ UNCHANGED <<reopen, ret>>
      BY <1>0, <1>15, RefillCases DEF TypeOK, DeviceInv, PauseInv
    <2>2. CASE pc' = ret /\ UNCHANGED mixer /\ ring'.alive = TRUE /\ ring.alive
      BY <1>0, <2>1, <2>2 DEF PauseInv, mixer
    <2>3. CASE pc' \in {"no device", "cpu", "ui"} /\ device' = FALSE /\ ring' = NoRing
      BY <1>0, <2>1, <2>3, NoRingAlive DEF PauseInv
    <2>. QED BY <1>0, <1>15, <2>1, <2>2, <2>3, RefillCases
  <1>16. CASE PauseTrap
    BY <1>16, SuspendKeepsPause DEF PauseTrap
  <1>17. CASE OtherTrap
    <2>1. CASE pc = "cpu" /\ Suspend("cpu")
      BY <2>1, SuspendKeepsPause
    <2>2. CASE UNCHANGED <<mixer, ring, reopen, pc, ret>>
      BY <2>2 DEF PauseInv, mixer
    <2>. QED BY <1>17, <2>1, <2>2 DEF OtherTrap
  <1>18. CASE Release
    <2>1. pc = "release" /\ pc' = "paused" /\ UNCHANGED mixer /\ ~ reopen /\ device = ring.alive
      BY <1>18 DEF Release, PauseInv
    <2>2. CASE ring.alive /\ ring' = NoRing /\ reopen' = TRUE
      BY <1>0, <2>1, <2>2, NoRingFields DEF PauseInv, mixer, DeviceInv
    <2>3. CASE ~ ring.alive /\ UNCHANGED <<ring, reopen>>
      BY <1>0, <2>1, <2>3 DEF PauseInv, mixer, DeviceInv
    <2>. QED BY <1>18, <2>1, <2>2, <2>3 DEF Release
  <1>19. CASE LeaveTrap
    BY <1>19, SuspendKeepsPause DEF LeaveTrap
  <1>20. CASE Unpause
    <2>1. pc = "paused" /\ UNCHANGED mixer /\ UNCHANGED ret /\ ~ ring.alive /\ reopen = device
      BY <1>20 DEF Unpause, PauseInv
    <2>2. pc' = "leave"
      BY <1>20, <2>1 DEF Unpause
    <2>3. CASE reopen /\ ring' = EmptyRing /\ reopen' = FALSE
      BY <1>0, <2>1, <2>2, <2>3, EmptyRingFields DEF PauseInv, mixer
    <2>4. CASE ~ reopen /\ UNCHANGED <<ring, reopen>>
      BY <1>0, <2>1, <2>2, <2>4 DEF PauseInv, mixer
    <2>. QED BY <1>20, <2>1, <2>3, <2>4 DEF Unpause, Calm
  <1>21. CASE SidAccess
    <2>1. /\ pc = "cpu" /\ pc' \in {"cpu", "two tasks"} /\ reopen' = reopen
          /\ Closed \/ Opened \/ Kept
      BY <1>0, <1>21, SidAccessCases
    <2>2. pc' = "cpu" \/ (Kept /\ ~ device /\ ring.alive)
      BY <1>0, <1>21, SidAccessCases
    <2>. QED BY <1>0, <2>1, <2>2, OutcomeKeepsPause
  <1>22. CASE AudioTask
    <2>1. UNCHANGED <<mixer, reopen, pc, ret>> /\ (TaskSends \/ TaskGivesBack)
      BY <1>22 DEF AudioTask
    <2>2. ring'.alive = ring.alive
      BY <1>0, <2>1, TaskFields DEF TypeOK, RingInv
    <2>. QED BY <1>0, <2>1, <2>2 DEF PauseInv, mixer
  <1>23. CASE UNCHANGED vars
    BY <1>23 DEF vars, mixer, PauseInv
  <1>. QED BY <1>1, <1>2, <1>3, <1>4, <1>5, <1>6, <1>7, <1>8, <1>9, <1>10, <1>11,
              <1>12, <1>13, <1>14, <1>15, <1>16, <1>17, <1>18, <1>19, <1>20, <1>21, <1>22, <1>23 DEF Next, Messages, Run

-----------------------------------------------------------------------------
(* sound_suspend keeps it wherever it is called from. *)
LEMMA SuspendKeepsStop ==
  ASSUME TypeOK, StopInv, NEW r, Suspend(r), UNCHANGED paused,
         \/ /\ pc \in {"cpu", "ui"} /\ r = pc /\ UNCHANGED trap
         \/ /\ pc = "paused" /\ r = pc /\ UNCHANGED trap
         \/ /\ pc = "cpu" /\ r = "release" /\ trap' = "none"
         \/ /\ pc = "leave" /\ r = "cpu" /\ UNCHANGED trap
  PROVE  StopInv'
  <1>1. pc' = r \/ (pc' = "stop" /\ ret' = r) \/ pc' = "no device"
    BY SuspendCases
  <1>2. trap' # "event"
    BY DEF StopInv
  <1>3. r # "leave"
    OBVIOUS
  <1>4. PausedStops'
    BY <1>1 DEF StopInv, PausedStops, InPauseTrap, Released, Stopped
  <1>. QED BY <1>1, <1>2, <1>3, <1>4 DEF StopInv

(* It is kept by every step when nothing else triggers a trap. *)
LEMMA StopKeeps == ASSUME OnlyPauseTrap, TypeOK, DeviceInv, StopInv, [Next]_vars PROVE StopInv'
  <1>1. CASE OpenMenu
    <2>1. pc \in {"ui", "paused"} /\ Suspend(pc) /\ UNCHANGED <<paused, trap>>
      BY <1>1 DEF OpenMenu, Chosen, ui
    <2>. QED BY <2>1, SuspendKeepsStop
  <1>2. CASE ToggleWarp
    <2>1. /\ pc \in {"ui", "paused"} /\ UNCHANGED <<paused, trap>>
          /\ IF warp THEN Resume(pc) ELSE Suspend(pc)
      BY <1>2 DEF ToggleWarp, Chosen, ui
    <2>2. CASE Resume(pc)
      <3>1. pc' = pc \/ (pc' = "refill" /\ ret' = pc)
        BY <2>2, ResumeCases
      <3>. QED BY <2>1, <3>1 DEF StopInv, PausedStops, InPauseTrap, Released, Stopped
    <2>3. CASE Suspend(pc)
      BY <2>1, <2>3, SuspendKeepsStop
    <2>. QED BY <2>1, <2>2, <2>3
  <1>3. CASE ToggleSound
    BY <1>3 DEF ToggleSound, StopInv, PausedStops, InPauseTrap, Released, Stopped, ui, Chosen
  <1>4. CASE ChangeSettings
    BY <1>4 DEF ChangeSettings, StopInv, PausedStops, InPauseTrap, Released, Stopped, ui, Chosen
  <1>5. CASE TogglePause
    BY <1>5 DEF TogglePause, StopInv, PausedStops, InPauseTrap, Released, Stopped, ui, Chosen
  <1>6. CASE AdvanceFrame
    BY <1>6 DEF AdvanceFrame, StopInv, PausedStops, InPauseTrap, Released, Stopped, ui, Chosen
  <1>7. CASE EventTrap
    BY <1>7 DEF EventTrap, StopInv, PausedStops, InPauseTrap, Released, Stopped, ui,
                  Chosen, OnlyPauseTrap
  <1>8. CASE EndMessages
    BY <1>8 DEF EndMessages, StopInv, PausedStops, InPauseTrap, Released, Stopped, ui
  <1>9. CASE Frame
    BY <1>9 DEF Frame, StopInv, PausedStops, InPauseTrap, Released, Stopped, ui
  <1>10. CASE Post
    BY <1>10 DEF Post, StopInv, PausedStops, InPauseTrap, Released, Stopped, ui
  <1>11. CASE FlushRun
    <2>1. pc = "flush" /\ pc' \in {"post", "resume", "two tasks"} /\ UNCHANGED <<paused, trap>>
      BY <1>11, FlushRunCases DEF ui
    <2>. QED BY <2>1 DEF StopInv, PausedStops, InPauseTrap, Released, Stopped
  <1>12. CASE FlushResume
    <2>1. pc = "resume" /\ UNCHANGED <<paused, trap>>
      BY <1>12 DEF FlushResume, ui
    <2>2. pc' \in {"write", "refill", "post"}
      BY <1>12, ResumeCases DEF FlushResume
    <2>. QED BY <2>1, <2>2 DEF StopInv, PausedStops, InPauseTrap, Released, Stopped
  <1>13. CASE FlushWrite
    <2>1. pc = "write" /\ pc' = "post" /\ UNCHANGED <<paused, trap>>
      BY <1>13, FlushWriteCases DEF ui
    <2>. QED BY <2>1 DEF StopInv, PausedStops, InPauseTrap, Released, Stopped
  <1>14. CASE Stop
    <2>1. /\ pc = "stop" /\ pc' = ret /\ UNCHANGED <<paused, trap>>
          /\ ret \in {"cpu", "ui", "write", "release", "paused"}
      BY <1>14 DEF Stop, ui, TypeOK
    <2>. QED BY <2>1 DEF StopInv, PausedStops, InPauseTrap, Released, Stopped
  <1>15. CASE Refill
    <2>1. /\ pc = "refill" /\ UNCHANGED <<paused, trap>>
          /\ ret \in {"cpu", "ui", "write", "release", "paused"}
          /\ pc' = ret \/ pc' = "no device"
      BY <1>15, RefillCases DEF ui, TypeOK
    <2>. QED BY <2>1 DEF StopInv, PausedStops, InPauseTrap, Released, Stopped
  <1>16. CASE PauseTrap
    <2>1. pc = "cpu" /\ trap' = "none" /\ Suspend("release") /\ UNCHANGED paused
      BY <1>16 DEF PauseTrap
    <2>. QED BY <2>1, SuspendKeepsStop
  <1>17. CASE OtherTrap
    BY <1>17 DEF OtherTrap, StopInv
  <1>18. CASE Release
    <2>1. pc = "release" /\ pc' = "paused" /\ UNCHANGED <<paused, trap>>
      BY <1>18 DEF Release, ui
    <2>. QED BY <2>1 DEF StopInv, PausedStops, InPauseTrap, Released, Stopped
  <1>19. CASE LeaveTrap
    <2>1. pc = "leave" /\ Suspend("cpu") /\ UNCHANGED <<paused, trap>>
      BY <1>19 DEF LeaveTrap, ui
    <2>. QED BY <2>1, SuspendKeepsStop
  <1>20. CASE Unpause
    <2>1. /\ pc = "paused" /\ ~ paused /\ pc' \in {"leave", "two tasks"}
          /\ UNCHANGED <<paused, trap>>
      BY <1>20 DEF Unpause, ui
    <2>. QED BY <2>1 DEF StopInv, PausedStops, InPauseTrap, Released, Stopped
  <1>21. CASE SidAccess
    <2>1. pc = "cpu" /\ pc' \in {"cpu", "two tasks"} /\ UNCHANGED <<paused, trap>>
      BY <1>21, SidAccessCases DEF ui
    <2>. QED BY <2>1 DEF StopInv, PausedStops, InPauseTrap, Released, Stopped
  <1>22. CASE AudioTask
    BY <1>22 DEF AudioTask, ui, StopInv, PausedStops, InPauseTrap, Released, Stopped
  <1>23. CASE UNCHANGED vars
    BY <1>23 DEF vars, ui, StopInv, PausedStops, InPauseTrap, Released, Stopped
  <1>. QED BY <1>1, <1>2, <1>3, <1>4, <1>5, <1>6, <1>7, <1>8, <1>9, <1>10, <1>11,
              <1>12, <1>13, <1>14, <1>15, <1>16, <1>17, <1>18, <1>19, <1>20, <1>21, <1>22, <1>23 DEF Next, Messages, Run

-----------------------------------------------------------------------------
(* The invariant holds, for every menu and every device. *)
LEMMA SoundInvariant == Spec => []SoundInv
  <1>1. Init => SoundInv
    <2>1. ASSUME Init PROVE TypeOK
      <3>1. 0 \in 0 .. MaxPend /\ NoRing \in Ring
        BY NoRingFields, SizeAssumption
      <3>2. pc \in Code /\ ret \in {"cpu", "ui", "write", "release", "paused"}
        BY <2>1 DEF Init, Code
      <3>. QED BY <2>1, <3>1, <3>2 DEF Init, TypeOK
    <2>2. ASSUME Init PROVE RingInv /\ DeviceInv
      BY <2>2, NoRingFields DEF Init, RingInv, DeviceInv
    <2>. QED BY <2>1, <2>2 DEF SoundInv
  <1>. QED BY <1>1, SoundKeeps, PTL DEF Spec

(***************************************************************************)
(* The ring, the buffer and the flags keep their types: in particular the  *)
(* fragments in use never pass the size of the ring, nor the buffer its    *)
(* own, for every size of both.                                            *)
(***************************************************************************)
THEOREM SoundTypes == Spec => []TypeOK
  <1>1. SoundInv => TypeOK
    BY DEF SoundInv
  <1>. QED BY <1>1, SoundInvariant, PTL

(***************************************************************************)
(* Whatever is chosen from the menus, and whether ahi.device opens or not: *)
(* issuspended of sound.c and the play flag of ahi.c agree.                *)
(***************************************************************************)
THEOREM SuspensionAgrees == Spec => []SuspendedIsSilent
  <1>1. SoundInv => SuspendedIsSilent
    BY DEF SoundInv, DeviceInv, SuspendedIsSilent
  <1>. QED BY <1>1, SoundInvariant, PTL

(***************************************************************************)
(* When sound_flush gets to look at the ring, there is a live task and a   *)
(* fragment in the ring.                                                   *)
(***************************************************************************)
THEOREM FlushNeverUnderruns == Spec => []FlushFindsFragment
  <1>1. SoundInv => FlushFindsFragment
    <2>1. ASSUME SoundInv, pc = "write" PROVE device /\ ring.alive /\ ring.play /\ ring.used > 0
      <3>1. device /\ ~ susp /\ (susp = ~ ring.play) /\ ring.play \in BOOLEAN
        BY <2>1, RingFields DEF SoundInv, DeviceInv, TypeOK
      <3>2. ring.play
        BY <3>1
      <3>. QED BY <2>1, <3>1, <3>2 DEF SoundInv, RingInv
    <2>. QED BY <2>1 DEF FlushFindsFragment
  <1>. QED BY <1>1, SoundInvariant, PTL

(* And under calm conditions so does the release invariant. *)
LEMMA PauseInvariant == ASSUME Calm PROVE Spec => []PauseInv
  <1>1. Init => PauseInv
    BY NoRingAlive DEF Init, PauseInv
  <1>2. SoundInv /\ PauseInv /\ [Next]_vars => PauseInv'
    BY PauseKeeps
  <1>. QED BY <1>1, <1>2, SoundInvariant, PTL DEF Spec

(***************************************************************************)
(* When ahi.device can be opened again and warp mode is left alone in the  *)
(* pause, the pause has no task with ahi.device, ...                       *)
(***************************************************************************)
THEOREM PauseReleases == ASSUME Calm PROVE Spec => []ReleasedWhilePaused
  <1>1. PauseInv => ReleasedWhilePaused
    BY DEF PauseInv, ReleasedWhilePaused, Released
  <1>. QED BY <1>1, PauseInvariant, PTL

(* ... the CPU runs on with a device that has its task, ... *)
THEOREM PauseRestores == ASSUME Calm PROVE Spec => []DeviceHasTask
  <1>1. PauseInv => DeviceHasTask
    BY DEF PauseInv, DeviceHasTask
  <1>. QED BY <1>1, PauseInvariant, PTL

(* ... no second task is started over the first, ... *)
THEOREM NeverTwoTasks == ASSUME Calm PROVE Spec => []OneAudioTask
  <1>1. PauseInv => OneAudioTask
    BY DEF PauseInv, OneAudioTask
  <1>. QED BY <1>1, PauseInvariant, PTL

(***************************************************************************)
(* ... and the SID engine, which is open exactly when the device is, stays *)
(* open until the pause ends.                                              *)
(***************************************************************************)
THEOREM PauseKeepsSid == ASSUME Calm PROVE Spec => SidPreserved
  <1>1. SoundInv /\ PauseInv /\ [Next]_vars => [Released => device' = device]_vars
    <2>1. ASSUME SoundInv, PauseInv, Next, Released PROVE device' = device
      <3>1. pc = "paused" /\ (device => susp) /\ TypeOK
        BY <2>1 DEF Released, PauseInv, SoundInv
      <3>2. CASE OpenMenu
        BY <3>1, <3>2, SuspendCases DEF OpenMenu, mixer
      <3>3. CASE ToggleWarp
        BY <3>1, <3>3 DEF ToggleWarp, Chosen, Calm
      <3>4. CASE UNCHANGED device
        BY <3>4
      <3>5. ToggleSound \/ ChangeSettings \/ TogglePause \/ AdvanceFrame \/ EventTrap
              => UNCHANGED device
        BY DEF ToggleSound, ChangeSettings, TogglePause, AdvanceFrame, EventTrap, mixer
      <3>6. Unpause \/ AudioTask => UNCHANGED device
        BY DEF Unpause, AudioTask, mixer
      <3>7. ~ (EndMessages \/ Frame \/ FlushRun \/ FlushResume \/ FlushWrite \/ Post \/ Stop
               \/ Refill \/ PauseTrap \/ OtherTrap \/ Release \/ LeaveTrap \/ SidAccess)
        BY <3>1 DEF EndMessages, Frame, FlushRun, FlushResume, FlushWrite, Post, Stop,
                    Refill, PauseTrap, OtherTrap, Release, LeaveTrap, SidAccess
      <3>. QED BY <2>1, <3>2, <3>3, <3>4, <3>5, <3>6, <3>7 DEF Next, Messages, Run
    <2>. QED BY <2>1
  <1>. QED BY <1>1, SoundInvariant, PauseInvariant, PTL DEF Spec, SidPreserved

(***************************************************************************)
(* When nothing but the pause triggers traps, a machine that shows as      *)
(* paused stops, however the pause is toggled and advanced, also where     *)
(* ahi.device cannot be opened or warp mode is changed in the pause.       *)
(***************************************************************************)
THEOREM PauseStops == ASSUME OnlyPauseTrap PROVE Spec => []PausedStops
  <1>1. Init => StopInv
    BY DEF Init, StopInv, PausedStops
  <1>2. SoundInv /\ StopInv /\ [Next]_vars => StopInv'
    BY StopKeeps DEF SoundInv
  <1>3. StopInv => PausedStops
    BY DEF StopInv
  <1>. QED BY <1>1, <1>2, <1>3, SoundInvariant, PTL DEF Spec
=============================================================================
