--------------------------- MODULE AhiRingProofs ---------------------------
(***************************************************************************)
(* Proofs about AhiRing, for every ring with at least two fragments, every *)
(* fragment size, every set of contents and every number of attempts.      *)
(***************************************************************************)
EXTENDS AhiRing, LeastNumber, SequenceTheorems, TLAPS

(***************************************************************************)
(* The run of free fragments is a number of fragments, it ends where a     *)
(* fragment is used or the whole ring was counted, and all before is free. *)
(***************************************************************************)
LEMMA FreeRunSpec ==
  ASSUME TypeOK
  PROVE  /\ FreeRun \in 0 .. Frags
         /\ FreeRun \in Stops
         /\ \A j \in Stops : FreeRun <= j
<1>1. Frags \in Stops /\ Stops \subseteq 0 .. Frags
  BY FragsAssumption DEF Stops
<1>2. \E n \in Stops : \A j \in Stops : n <= j
  <2> HIDE DEF Stops
  <2> QED
    BY <1>1, FragsAssumption, LeastElement
<1> QED
  BY <1>1, <1>2 DEF FreeRun

(***************************************************************************)
(* ahi_writable_bytes_locked never answers a negative number: the clamp of *)
(* ahi_in_buffer has nothing to do.                                        *)
(***************************************************************************)
LEMMA WritableNat ==
  ASSUME TypeOK
  PROVE  Writable \in Nat
<1>1. FreeRun \in Nat /\ FragSize \in Nat
  BY FreeRunSpec, FragsAssumption, SizesAssumption
<1>2. Fill(slot[write_buffer]) \in 0 .. FragSize
  BY SizesAssumption DEF TypeOK, RingType, Fragment, Fill, Chunk
<1>3. FreeRun # 0 => FreeRun * FragSize >= FragSize /\ FreeRun * FragSize \in Nat
  <2>1. FreeRun # 0 => \E d \in Nat : FreeRun = 1 + d
    BY <1>1
  <2> QED
    BY <1>1, <2>1
<1> QED
  BY <1>1, <1>2, <1>3 DEF Writable

(* The values the ring and the requests start from have their types. *)
LEMMA EmptyValues ==
  EmptyRing \in [Slots -> Fragment] /\ IdleRequest \in Request /\ 0 \in Slots
<1>1. <<>> \in Chunk
  BY SizesAssumption DEF Chunk
<1>2. EmptySlot \in Fragment
  BY <1>1 DEF EmptySlot, Fragment
<1>3. 0 \in Slots
  BY FragsAssumption DEF Slots
<1> QED
  BY <1>1, <1>2, <1>3 DEF EmptyRing, IdleRequest, Request

(* A reply leaves requests requests. *)
LEMMA ReplyType ==
  ASSUME NEW q \in Request
  PROVE  /\ [q EXCEPT !.after = 0] \in Request
         /\ [q EXCEPT !.st = "done"] \in Request
<1>1. [q EXCEPT !.after = 0] \in Request
  BY DEF Request
<1>2. [q EXCEPT !.st = "done"] \in Request
  BY DEF Request
<1> QED
  BY <1>1, <1>2

(***************************************************************************)
(* A round of the copy loop takes at most what is left and at most what    *)
(* the fragment has room for.                                              *)
(***************************************************************************)
LEMMA CopyBounds ==
  ASSUME TypeOK
  PROVE  /\ Kept \in Seq(Tag) /\ Len(Kept) < FragSize
         /\ CopyLen \in 0 .. Len(src) /\ CopyLen <= FragSize - Len(Kept)
         /\ Filled \in Chunk /\ Len(Filled) = Len(Kept) + CopyLen
         /\ Len(SubSeq(src, CopyLen + 1, Len(src))) = Len(src) - CopyLen
         /\ SubSeq(src, CopyLen + 1, Len(src)) \in Seq(Tag)
<1>1. /\ slot[write_buffer].data \in Seq(Tag)
      /\ src \in Seq(Tag) /\ Len(src) \in Nat /\ FragSize \in Nat \ {0}
  BY SizesAssumption DEF TypeOK, RingType, MainType, Fragment, Chunk
<1>2. Kept \in Seq(Tag) /\ Len(Kept) < FragSize /\ Len(Kept) \in Nat
  BY <1>1 DEF Kept
<1>3. CopyLen \in 0 .. Len(src) /\ CopyLen <= FragSize - Len(Kept)
  BY <1>1, <1>2 DEF CopyLen
<1>4. SubSeq(src, 1, CopyLen) \in Seq(Tag) /\ Len(SubSeq(src, 1, CopyLen)) = CopyLen
  BY <1>1, <1>3
<1>5. Filled \in Seq(Tag) /\ Len(Filled) = Len(Kept) + CopyLen
  BY <1>2, <1>4 DEF Filled
<1>6. /\ SubSeq(src, CopyLen + 1, Len(src)) \in Seq(Tag)
      /\ Len(SubSeq(src, CopyLen + 1, Len(src))) = Len(src) - CopyLen
  BY <1>1, <1>3
<1> QED
  BY <1>1, <1>2, <1>3, <1>5, <1>6 DEF Chunk

(***************************************************************************)
(* The variables keep their types.                                         *)
(***************************************************************************)
THEOREM TypeCorrect == Spec => []TypeOK
<1> USE FragsAssumption, SizesAssumption
<1>1. Init => TypeOK
  <2> SUFFICES ASSUME Init PROVE TypeOK
    OBVIOUS
  <2>1. RingType
    BY EmptyValues DEF Init, RingType
  <2>2. MainType
    BY DEF Init, MainType
  <2>3. TaskType
    BY 0 \in 0 .. 2, -1 \in -1 .. Frags - 1 DEF Init, TaskType
  <2>4. RequestType
    BY EmptyValues DEF Init, RequestType
  <2> QED
    BY <2>1, <2>2, <2>3, <2>4 DEF TypeOK
<1>2. TypeOK /\ [Next]_vars => TypeOK'
  <2> SUFFICES ASSUME TypeOK, [Next]_vars PROVE TypeOK'
    OBVIOUS
  <2> USE DEF TypeOK, RingType, MainType, TaskType, RequestType
  <2>1. CASE OpenStart
    <3>1. RingType' /\ RequestType'
      BY <2>1, EmptyValues DEF OpenStart
    <3>2. MainType' /\ TaskType'
      BY <2>1, 0 \in 0 .. 2, -1 \in -1 .. Frags - 1 DEF OpenStart
    <3> QED
      BY <3>1, <3>2
  <2>2. CASE OpenEnd
    BY <2>2 DEF OpenEnd, taskVars
  <2>3. CASE AskSpace
    <3>1. SamplesFree \in Nat
      BY WritableNat DEF SamplesFree
    <3> QED
      BY <2>3, <3>1 DEF AskSpace, ringVars, taskVars
  <2>4. ASSUME NEW w \in Writes, NEW dowait \in BOOLEAN, PlayStart(w, dowait)
        PROVE  TypeOK'
    <3>1. w \in Seq(Tag) /\ Len(w) <= MaxWrite
      BY DEF Writes
    <3> QED
      BY <2>4, <3>1 DEF PlayStart, ringVars, taskVars
  <2>5. CASE PlayFits
    BY <2>5 DEF PlayFits, ringVars, taskVars
  <2>6. CASE PlayRefused
    BY <2>6 DEF PlayRefused, ringVars, taskVars
  <2>7. CASE PlayRetry
    BY <2>7 DEF PlayRetry, ringVars, taskVars
  <2>8. CASE Copy
    <3>1. /\ CopyLen \in 0 .. Len(src)
          /\ Filled \in Chunk
          /\ Len(SubSeq(src, CopyLen + 1, Len(src))) = Len(src) - CopyLen
          /\ SubSeq(src, CopyLen + 1, Len(src)) \in Seq(Tag)
      BY CopyBounds
    <3>2. NextSlot(write_buffer) \in Slots
      BY DEF NextSlot, Slots
    <3>3. CASE mpc' = "idle" /\ src' = <<>> /\ UNCHANGED ringVars
      BY <2>8, <3>3 DEF Copy, ringVars, taskVars
    <3>4. CASE /\ CopyChunk
               /\ UNCHANGED <<read_buffer, shutting_down, allocated, audio_task>>
      <4>1. [used |-> Len(Filled) = FragSize, data |-> Filled] \in Fragment
        BY <3>1 DEF Fragment
      <4>2. slot' \in [Slots -> Fragment]
        BY <4>1, <3>4 DEF CopyChunk
      <4>3. src' \in Seq(Tag) /\ Len(src') <= MaxWrite
        BY <3>1, <3>4 DEF CopyChunk
      <4>4. write_buffer' \in Slots /\ play' \in BOOLEAN /\ mpc' = "wake"
        BY <3>2, <3>4 DEF CopyChunk
      <4> QED
        BY <2>8, <3>4, <4>2, <4>3, <4>4 DEF Copy, taskVars
    <3> QED
      BY <2>8, <3>3, <3>4 DEF Copy
  <2>9. CASE Wake
    BY <2>9 DEF Wake, ringVars, taskVars, Bits
  <2>10. CASE Pause
    BY <2>10 DEF Pause, mainVars, taskVars
  <2>11. CASE Continue
    BY <2>11 DEF Continue, taskVars
  <2>12. CASE CloseStart
    BY <2>12 DEF CloseStart, ringVars, taskVars
  <2>13. CASE CloseMark
    BY <2>13 DEF CloseMark, taskVars
  <2>14. CASE CloseSignal
    BY <2>14 DEF CloseSignal, ringVars, taskVars, Bits
  <2>15. CASE CloseWait
    BY <2>15 DEF CloseWait, taskVars
  <2>16. CASE CloseFree
    BY <2>16, EmptyValues DEF CloseFree, taskVars
  <2>17. CASE TaskOpen
    BY <2>17 DEF TaskOpen, ringVars, mainVars
  <2>18. CASE TaskOpenFails
    BY <2>18 DEF TaskOpenFails, ringVars, mainVars
  <2>19. CASE TaskCheck
    BY <2>19 DEF TaskCheck, ringVars, mainVars
  <2>20. CASE TaskSend
    <3> DEFINE sent == [st |-> "busy", slot |-> read_buffer,
                        data |-> slot[read_buffer].data,
                        after |-> IF link # 0 /\ req[link].st # "done"
                                    THEN link ELSE 0]
    <3>1. sent \in Request
      BY DEF Request, Fragment
    <3>2. req' = [req EXCEPT ![cur] = sent]
      BY <2>20 DEF TaskSend
    <3>3. RequestType'
      <4> HIDE DEF sent
      <4> QED
        BY <3>1, <3>2
    <3> QED
      BY <2>20, <3>3 DEF TaskSend, ringVars, mainVars
  <2>21. CASE TaskWaitLink
    <3>1. RequestType'
      BY ZenonT(40), <2>21 DEF TaskWaitLink, Aborted, Request
    <3> QED
      BY <2>21, <3>1 DEF TaskWaitLink, ringVars, mainVars
  <2>22. CASE TaskWaitIO
    <3>1. RequestType'
      BY <2>22 DEF TaskWaitIO, Request
    <3> QED
      BY <2>22, <3>1 DEF TaskWaitIO, ringVars, mainVars
  <2>23. CASE TaskWaitIOBlocks \/ TaskWaitPort
    BY ZenonT(40), <2>23 DEF TaskWaitIOBlocks, TaskWaitPort, ringVars, mainVars
  <2>24. CASE TaskAdvance
    <3>1. slot' \in [Slots -> Fragment]
      BY <2>24 DEF TaskAdvance, Fragment
    <3>2. NextSlot(read_buffer) \in Slots /\ read_buffer \in -1 .. Frags - 1
      BY DEF NextSlot, Slots
    <3> QED
      BY <2>24, <3>1, <3>2 DEF TaskAdvance, mainVars
  <2>25. CASE TaskIdle
    BY <2>25 DEF TaskIdle, ringVars, mainVars
  <2>26. CASE TaskDrain
    <3>1. RequestType'
      <4>1. Aborted(link) \in [Requests -> Request]
        BY ZenonT(40) DEF Aborted, Request
      <4> QED
        BY <2>26, <4>1 DEF TaskDrain
    <3> QED
      BY <2>26, <3>1 DEF TaskDrain, ringVars, mainVars
  <2>27. CASE TaskDrainWait
    <3>1. RequestType'
      BY <2>27 DEF TaskDrainWait, Request
    <3> QED
      BY <2>27, <3>1 DEF TaskDrainWait, ringVars, mainVars
  <2>28. CASE TaskCloseDevice
    BY <2>28 DEF TaskCloseDevice, ringVars, mainVars
  <2>29. CASE TaskEnd
    BY <2>29 DEF TaskEnd, ringVars, mainVars
  <2>30. ASSUME NEW r \in Requests, DevicePlayed(r) \/ DeviceAborted(r)
         PROVE  TypeOK'
    <3>1. RequestType'
      <4>1. Replied(r)
        BY <2>30 DEF DevicePlayed, DeviceAborted
      <4>2. ASSUME NEW q \in Requests
            PROVE  (IF q = r THEN [req[r] EXCEPT !.st = "done"]
                    ELSE IF req[q].after = r THEN [req[q] EXCEPT !.after = 0]
                    ELSE req[q]) \in Request
        BY ReplyType
      <4> QED
        BY <4>1, <4>2 DEF Replied
    <3>2. taskSig' \subseteq Bits
      BY <2>30 DEF DevicePlayed, DeviceAborted, Replied, Port, Bits
    <3> QED
      BY <2>30, <3>1, <3>2 DEF DevicePlayed, DeviceAborted, Replied,
                               ringVars, mainVars, taskVars
  <2>31. CASE UNCHANGED vars
    BY <2>31 DEF vars, ringVars, mainVars, taskVars
  <2> QED
    BY <2>1, <2>2, <2>3, <2>4, <2>5, <2>6, <2>7, <2>8, <2>9, <2>10, <2>11,
       <2>12, <2>13, <2>14, <2>15, <2>16, <2>17, <2>18, <2>19, <2>20, <2>21,
       <2>22, <2>23, <2>24, <2>25, <2>26, <2>27, <2>28, <2>29, <2>30, <2>31
       DEF Next, Main, Task, Device
<1> QED
  BY <1>1, <1>2, PTL DEF Spec

----------------------------------------------------------------------------
(***************************************************************************)
(* The strengthening of NoTornPlayback that every step preserves.          *)
(***************************************************************************)

(* How far the audio task's life reaches into the emulator's calls. *)
LifeTime ==
  /\ tpc # "none" => allocated /\ audio_task
  /\ "E" \in mainSig \/ mpc = "free" => tpc = "none"

(* Which requests the device may have, and what they play, by task step. *)
RequestsOut ==
  /\ tpc = "start" => link = 0
  /\ tpc \in {"none", "start", "close_device", "dying"} =>
       \A r \in Requests : ~ AtDevice(r)
  /\ tpc \in {"check", "idle", "send"} =>
       /\ cur \in {1, 2} /\ (link = 0 \/ link = 3 - cur)
       /\ \A r \in Requests : AtDevice(r) => r = link /\ req[r].slot = prev
  /\ tpc \in {"wait_link", "wait_io", "wait_port"} =>
       /\ cur \in {1, 2} /\ link = 3 - cur
       /\ \A r \in Requests :
            AtDevice(r) => req[r].slot = IF r = cur THEN read_buffer ELSE prev
  /\ tpc = "advance" =>
       \A r \in Requests : AtDevice(r) => r = cur /\ req[r].slot = read_buffer
  /\ tpc \in {"drain", "drain_wait"} =>
       \A r \in Requests : AtDevice(r) => r = link

(* The fragment to be sent is complete, the one before it is another one. *)
ReadPosition ==
  /\ tpc = "send" => slot[read_buffer].used
  /\ tpc # "none" /\ prev >= 0 => read_buffer = NextSlot(prev)

PlaybackInv == LifeTime /\ RequestsOut /\ ReadPosition /\ NoTornPlayback

(* With two fragments or more, a fragment is not its own successor. *)
LEMMA NextSlotDiffers ==
  ASSUME NEW i \in Slots
  PROVE  NextSlot(i) \in Slots /\ NextSlot(i) # i
  BY FragsAssumption DEF NextSlot, Slots

LEMMA PlaybackInit == Init => PlaybackInv
  BY DEF Init, PlaybackInv, LifeTime, RequestsOut, ReadPosition, NoTornPlayback,
         AtDevice, IdleRequest

(***************************************************************************)
(* A step that leaves the task, the requests and the ring's fragments      *)
(* alone, and does not announce the task's end, preserves the invariant.   *)
(***************************************************************************)
LEMMA PlaybackFrame ==
  ASSUME PlaybackInv,
         UNCHANGED <<slot, read_buffer, taskVars, req, allocated>>,
         tpc # "none" => audio_task' /\ mpc' # "free",
         "E" \in mainSig' => "E" \in mainSig
  PROVE  PlaybackInv'
<1>1. /\ slot' = slot /\ read_buffer' = read_buffer /\ req' = req
      /\ tpc' = tpc /\ cur' = cur /\ link' = link /\ prev' = prev
      /\ allocated' = allocated
  BY DEF taskVars
<1>2. LifeTime'
  BY <1>1 DEF PlaybackInv, LifeTime
<1>3. RequestsOut'
  BY <1>1 DEF PlaybackInv, RequestsOut, AtDevice
<1>4. ReadPosition'
  BY <1>1 DEF PlaybackInv, ReadPosition, NextSlot
<1>5. NoTornPlayback'
  BY <1>1 DEF PlaybackInv, NoTornPlayback, AtDevice
<1> QED
  BY <1>2, <1>3, <1>4, <1>5 DEF PlaybackInv

(* The emulator's steps preserve the invariant. *)
LEMMA PlaybackMain ==
  ASSUME TypeOK, PlaybackInv, Main
  PROVE  PlaybackInv'
<1>1. CASE OpenStart
  BY <1>1 DEF OpenStart, PlaybackInv, LifeTime, RequestsOut, ReadPosition,
              NoTornPlayback, AtDevice, IdleRequest
<1>2. CASE OpenEnd
  <2>1. "E" \in mainSig => tpc = "none"
    BY DEF PlaybackInv, LifeTime
  <2> QED
    BY <1>2, <2>1, PlaybackFrame DEF OpenEnd, PlaybackInv, LifeTime
<1>3. CASE AskSpace
  BY <1>3, PlaybackFrame DEF AskSpace, ringVars, PlaybackInv, LifeTime
<1>4. CASE \E w \in Writes, dowait \in BOOLEAN : PlayStart(w, dowait)
  BY <1>4, PlaybackFrame DEF PlayStart, ringVars, PlaybackInv, LifeTime
<1>5. CASE PlayFits \/ PlayRefused \/ PlayRetry
  BY <1>5, PlaybackFrame
  DEF PlayFits, PlayRefused, PlayRetry, ringVars, PlaybackInv, LifeTime
<1>6. CASE Copy
  <2>1. CASE mpc' = "idle" /\ UNCHANGED ringVars
    BY <1>6, <2>1, PlaybackFrame DEF Copy, ringVars, PlaybackInv, LifeTime
  <2>2. CASE ~ slot[write_buffer].used /\ CopyChunk
             /\ UNCHANGED <<read_buffer, shutting_down, allocated, audio_task>>
    <3>1. /\ tpc' = tpc /\ cur' = cur /\ link' = link /\ prev' = prev
          /\ req' = req /\ mainSig' = mainSig /\ mpc' = "wake"
      BY <1>6, <2>2 DEF Copy, CopyChunk, taskVars
    <3>2. \A i \in Slots : slot[i].used => slot'[i] = slot[i]
      BY <2>2 DEF CopyChunk, TypeOK, RingType
    <3>3. LifeTime'
      BY <2>2, <3>1 DEF PlaybackInv, LifeTime
    <3>4. RequestsOut'
      BY <2>2, <3>1 DEF PlaybackInv, RequestsOut, AtDevice
    <3>5. ReadPosition'
      BY <2>2, <3>1, <3>2 DEF PlaybackInv, ReadPosition, NextSlot, TypeOK, RingType
    <3>6. NoTornPlayback'
      <4>1. \A r \in Requests : req[r].slot \in Slots
        BY DEF TypeOK, RequestType, Request
      <4> QED
        BY <2>2, <3>1, <3>2, <4>1 DEF PlaybackInv, NoTornPlayback, AtDevice
    <3> QED
      BY <3>3, <3>4, <3>5, <3>6 DEF PlaybackInv
  <2> QED
    BY <1>6, <2>1, <2>2 DEF Copy
<1>7. CASE Wake \/ CloseStart \/ CloseSignal
  BY <1>7, PlaybackFrame
  DEF Wake, CloseStart, CloseSignal, ringVars, PlaybackInv, LifeTime
<1>8. CASE Pause \/ Continue
  BY <1>8, PlaybackFrame DEF Pause, Continue, mainVars, PlaybackInv, LifeTime
<1>9. CASE CloseMark
  <2>1. tpc # "none" => audio_task
    BY DEF PlaybackInv, LifeTime
  <2> QED
    BY <1>9, <2>1, PlaybackFrame DEF CloseMark
<1>10. CASE CloseWait
  <2>1. /\ tpc # "none" => audio_task
        /\ "E" \in mainSig => tpc = "none"
    BY DEF PlaybackInv, LifeTime
  <2> QED
    BY <1>10, <2>1, PlaybackFrame DEF CloseWait
<1>11. CASE CloseFree
  <2>1. tpc = "none" /\ tpc' = "none" /\ req' = req
    BY <1>11 DEF CloseFree, taskVars, PlaybackInv, LifeTime
  <2>2. \A r \in Requests : ~ AtDevice(r)'
    BY <2>1 DEF PlaybackInv, RequestsOut, AtDevice
  <2> QED
    BY <2>1, <2>2 DEF PlaybackInv, LifeTime, RequestsOut, ReadPosition,
                      NoTornPlayback
<1> QED
  BY <1>1, <1>2, <1>3, <1>4, <1>5, <1>6, <1>7, <1>8, <1>9, <1>10, <1>11 DEF Main

(* The audio task's steps preserve the invariant. *)
LEMMA PlaybackTask ==
  ASSUME TypeOK, PlaybackInv, Task
  PROVE  PlaybackInv'
<1>1. CASE TaskOpen
  BY <1>1 DEF TaskOpen, ringVars, mainVars, PlaybackInv, LifeTime, RequestsOut,
              ReadPosition, NoTornPlayback, AtDevice, NextSlot
<1>2. CASE TaskOpenFails \/ TaskCloseDevice \/ TaskIdle
  BY <1>2 DEF TaskOpenFails, TaskCloseDevice, TaskIdle, ringVars, mainVars,
              PlaybackInv, LifeTime, RequestsOut, ReadPosition, NoTornPlayback,
              AtDevice, NextSlot
<1>3. CASE TaskCheck
  BY <1>3 DEF TaskCheck, ringVars, mainVars, PlaybackInv, LifeTime, RequestsOut,
              ReadPosition, NoTornPlayback, AtDevice, NextSlot
<1>4. CASE TaskSend
  <2> DEFINE sent == [st    |-> "busy", slot |-> read_buffer,
                      data  |-> slot[read_buffer].data,
                      after |-> IF link # 0 /\ req[link].st # "done"
                                  THEN link ELSE 0]
  <2>1. /\ req' = [req EXCEPT ![cur] = sent]
        /\ tpc' = IF link = 0 THEN "advance" ELSE "wait_link"
        /\ UNCHANGED <<ringVars, mainVars, exit, cur, link, prev, mainSig>>
    BY <1>4 DEF TaskSend
  <2>2. /\ tpc = "send" /\ cur \in Requests /\ slot[read_buffer].used
        /\ link = 0 \/ link = 3 - cur
        /\ \A r \in Requests : AtDevice(r) => r = link /\ req[r].slot = prev
    BY <1>4 DEF TaskSend, PlaybackInv, RequestsOut, ReadPosition, Requests
  <2>3. req'[cur] = sent /\ \A r \in Requests : r # cur => req'[r] = req[r]
    BY <2>1, <2>2 DEF TypeOK, RequestType
  <2>4. LifeTime'
    BY <1>4, <2>1 DEF TaskSend, ringVars, mainVars, PlaybackInv, LifeTime
  <2>5. RequestsOut'
    BY <2>1, <2>2, <2>3 DEF RequestsOut, AtDevice, Requests, ringVars
  <2>6. ReadPosition'
    BY <2>1, <2>2 DEF PlaybackInv, ReadPosition, NextSlot, ringVars
  <2>7. NoTornPlayback'
    BY <2>1, <2>2, <2>3
    DEF PlaybackInv, NoTornPlayback, AtDevice, LifeTime, ringVars
  <2> QED
    BY <2>4, <2>5, <2>6, <2>7 DEF PlaybackInv
<1>5. CASE TaskWaitLink
  BY <1>5 DEF TaskWaitLink, Aborted, ringVars, mainVars, PlaybackInv, LifeTime,
              RequestsOut, ReadPosition, NoTornPlayback, AtDevice, NextSlot,
              TypeOK, RequestType
<1>6. CASE TaskWaitIO
  <2>1. /\ tpc = "wait_io" /\ tpc' = "advance" /\ req[link].st = "done"
        /\ req' = [req EXCEPT ![link].st = "idle"]
        /\ cur' = IF req[cur].st = "done" THEN 0 ELSE cur
        /\ UNCHANGED <<ringVars, mainVars, exit, link, prev, mainSig>>
    BY <1>6 DEF TaskWaitIO
  <2>2. /\ cur \in Requests /\ link \in Requests /\ link = 3 - cur
        /\ \A r \in Requests :
             AtDevice(r) => req[r].slot = IF r = cur THEN read_buffer ELSE prev
    BY <2>1 DEF PlaybackInv, RequestsOut, Requests
  <2>3. /\ req'[cur] = req[cur] /\ req'[link].st = "idle"
        /\ \A r \in Requests : r = cur \/ r = link
    BY <2>1, <2>2 DEF TypeOK, RequestType, Request, Requests
  <2>4. \A r \in Requests : AtDevice(r)' => r = cur /\ AtDevice(r)
    BY <2>3 DEF AtDevice
  <2>5. LifeTime'
    BY <2>1 DEF PlaybackInv, LifeTime, ringVars, mainVars
  <2>6. RequestsOut'
    <3>1. \A r \in Requests : AtDevice(r)' => cur' = cur
      BY <2>1, <2>4 DEF AtDevice
    <3> QED
      BY <2>1, <2>2, <2>3, <2>4, <3>1 DEF RequestsOut, ringVars
  <2>7. ReadPosition'
    BY <2>1 DEF PlaybackInv, ReadPosition, NextSlot, ringVars
  <2>8. NoTornPlayback'
    BY <2>1, <2>2, <2>3, <2>4 DEF PlaybackInv, NoTornPlayback, ringVars
  <2> QED
    BY <2>5, <2>6, <2>7, <2>8 DEF PlaybackInv
<1>7. CASE TaskWaitIOBlocks \/ TaskWaitPort
  BY <1>7
  DEF TaskWaitIOBlocks, TaskWaitPort, ringVars, mainVars, PlaybackInv, LifeTime,
      RequestsOut, ReadPosition, NoTornPlayback, AtDevice, NextSlot
<1>8. CASE TaskAdvance
  <2>1. /\ tpc = "advance" /\ tpc' = "check" /\ req' = req
        /\ prev' = read_buffer /\ read_buffer' = NextSlot(read_buffer)
        /\ link' = cur /\ cur' = IF cur = 1 THEN 2 ELSE 1
        /\ allocated' = allocated /\ audio_task' = audio_task /\ mpc' = mpc
        /\ mainSig' = mainSig \cup {"D"}
    BY <1>8 DEF TaskAdvance, mainVars
  <2>2. \A r \in Requests : AtDevice(r) => r = cur /\ req[r].slot = read_buffer
    BY <2>1 DEF PlaybackInv, RequestsOut
  <2>3. prev >= 0 => read_buffer = NextSlot(prev) /\ prev \in Slots
    BY <2>1 DEF PlaybackInv, ReadPosition, TypeOK, TaskType, Slots
  <2>4. prev >= 0 => prev # read_buffer
    BY <2>3, NextSlotDiffers
  <2>5. slot'[read_buffer] = slot[read_buffer]
    BY <1>8, <2>4 DEF TaskAdvance, TypeOK, RingType
  <2>6. LifeTime'
    BY <2>1 DEF PlaybackInv, LifeTime
  <2>7. RequestsOut'
    BY <2>1, <2>2 DEF RequestsOut, AtDevice, Requests, TypeOK, TaskType
  <2>8. ReadPosition'
    BY <2>1 DEF ReadPosition, NextSlot
  <2>9. NoTornPlayback'
    BY <2>1, <2>2, <2>5 DEF PlaybackInv, NoTornPlayback, AtDevice
  <2> QED
    BY <2>6, <2>7, <2>8, <2>9 DEF PlaybackInv
<1>9. CASE TaskDrain \/ TaskDrainWait
  <2>1. /\ tpc \in {"drain", "drain_wait"} /\ tpc' \in {"drain_wait", "close_device"}
        /\ UNCHANGED <<ringVars, mainVars, prev, mainSig>>
    BY <1>9 DEF TaskDrain, TaskDrainWait
  <2>2. \A r \in Requests : AtDevice(r) => r = link
    BY <2>1 DEF PlaybackInv, RequestsOut
  <2>3. \A r \in Requests :
          AtDevice(r)' =>
            /\ AtDevice(r) /\ r = link' /\ tpc' = "drain_wait"
            /\ req'[r].slot = req[r].slot /\ req'[r].data = req[r].data
    <3>1. CASE TaskDrain
      BY <3>1, <2>2
      DEF TaskDrain, Aborted, AtDevice, TypeOK, RequestType, Request, Requests
    <3>2. CASE TaskDrainWait
      <4>1. /\ req[link].st = "done" /\ req' = [req EXCEPT ![link].st = "idle"]
        BY <3>2 DEF TaskDrainWait
      <4>2. \A r \in Requests : ~ AtDevice(r)
        BY <4>1, <2>2 DEF AtDevice
      <4> QED
        BY <4>1, <4>2 DEF AtDevice, TypeOK, RequestType, Request
    <3> QED
      BY <1>9, <3>1, <3>2
  <2>4. LifeTime'
    BY <2>1 DEF PlaybackInv, LifeTime, ringVars, mainVars
  <2>5. RequestsOut'
    BY <2>1, <2>3 DEF RequestsOut
  <2>6. ReadPosition'
    BY <2>1 DEF PlaybackInv, ReadPosition, NextSlot, ringVars
  <2>7. NoTornPlayback'
    BY <2>1, <2>3 DEF PlaybackInv, NoTornPlayback, ringVars
  <2> QED
    BY <2>4, <2>5, <2>6, <2>7 DEF PlaybackInv
<1>10. CASE TaskEnd
  BY <1>10 DEF TaskEnd, ringVars, mainVars, PlaybackInv, LifeTime, RequestsOut,
               ReadPosition, NoTornPlayback, AtDevice, NextSlot
<1> QED
  BY <1>1, <1>2, <1>3, <1>4, <1>5, <1>6, <1>7, <1>8, <1>9, <1>10 DEF Task

(* A reply takes requests from the device and touches nothing else. *)
LEMMA PlaybackDevice ==
  ASSUME TypeOK, PlaybackInv, NEW r \in Requests,
         DevicePlayed(r) \/ DeviceAborted(r)
  PROVE  PlaybackInv'
<1>1. Replied(r)
  BY DEF DevicePlayed, DeviceAborted
<1>2. \A q \in Requests :
        /\ req'[q].slot = req[q].slot /\ req'[q].data = req[q].data
        /\ req'[q].st \in {req[q].st, "done"}
  BY <1>1 DEF Replied, TypeOK, RequestType, Request
<1>3. UNCHANGED <<ringVars, mainVars, taskVars, mainSig>>
  BY <1>1 DEF Replied
<1>4. \A q \in Requests : AtDevice(q)' => AtDevice(q)
  BY <1>2 DEF AtDevice
<1>5. LifeTime'
  BY <1>3 DEF PlaybackInv, LifeTime, ringVars, mainVars, taskVars
<1>6. RequestsOut'
  BY <1>2, <1>3, <1>4 DEF PlaybackInv, RequestsOut, ringVars, taskVars
<1>7. ReadPosition'
  BY <1>3 DEF PlaybackInv, ReadPosition, NextSlot, ringVars, taskVars
<1>8. NoTornPlayback'
  BY <1>2, <1>3, <1>4 DEF PlaybackInv, NoTornPlayback, ringVars
<1> QED
  BY <1>5, <1>6, <1>7, <1>8 DEF PlaybackInv

THEOREM PlaybackInvariant == Spec => []PlaybackInv
<1>1. TypeOK /\ PlaybackInv /\ [Next]_vars => PlaybackInv'
  <2> SUFFICES ASSUME TypeOK, PlaybackInv, [Next]_vars PROVE PlaybackInv'
    OBVIOUS
  <2>1. CASE UNCHANGED vars
    BY <2>1, PlaybackFrame
    DEF vars, ringVars, mainVars, PlaybackInv, LifeTime
  <2> QED
    BY <2>1, PlaybackMain, PlaybackTask, PlaybackDevice DEF Next, Device
<1> QED
  BY <1>1, PlaybackInit, TypeCorrect, PTL DEF Spec

(***************************************************************************)
(* While ahi.device owns a request, the fragment it plays from is          *)
(* allocated and unchanged: the write position never runs into it.         *)
(***************************************************************************)
THEOREM PlaybackNeverTorn == Spec => []NoTornPlayback
  BY PlaybackInvariant, PTL DEF PlaybackInv

(***************************************************************************)
(* No request is reused while the device has it, and ahi.device is closed  *)
(* with every request returned.                                            *)
(***************************************************************************)
THEOREM DeviceClosedIdle == Spec => []RequestsReturned
<1>1. PlaybackInv => RequestsReturned
  BY DEF PlaybackInv, RequestsOut, RequestsReturned, Requests
<1> QED
  BY <1>1, PlaybackInvariant, PTL

----------------------------------------------------------------------------
(***************************************************************************)
(* The calls of the emulator and the life of the audio task.               *)
(***************************************************************************)

(* The audio task is in its loop, and was not told to leave it. *)
Looping == {"check", "idle", "send", "wait_link", "wait_io", "wait_port", "advance"}

Untold == tpc \in Looping /\ ~ exit /\ "E" \notin taskSig

(* Where the task is at each point of a call of ahi_open and ahi_close. *)
CallInv ==
  /\ mpc = "idle" =>
       IF allocated THEN audio_task /\ Untold ELSE ~ audio_task /\ tpc = "none"
  /\ mpc \in {"capacity", "copy", "wake", "close_signal"} =>
       allocated /\ audio_task /\ Untold
  /\ mpc = "opening" =>
       /\ allocated /\ audio_task
       /\ \/ Untold
          \/ tpc = "start" /\ mainSig = {} /\ ~ exit /\ "E" \notin taskSig
          \/ tpc = "dying" /\ mainSig = {}
          \/ tpc = "none" /\ "E" \in mainSig
  /\ mpc = "close" => allocated /\ IF audio_task THEN Untold ELSE tpc = "none"
  /\ mpc = "close_wait" => allocated /\ audio_task /\ (tpc = "none" => "E" \in mainSig)
  /\ mpc = "free" => allocated /\ tpc = "none"

(* A step of the emulator's task keeps to its place in the call. *)
LEMMA CallMain ==
  ASSUME TypeOK, LifeTime, CallInv, Main
  PROVE  CallInv'
<1> USE DEF CallInv, Untold, Looping
<1>1. CASE OpenStart
  BY <1>1 DEF OpenStart, TypeOK, MainType
<1>2. CASE OpenEnd
  BY <1>2 DEF OpenEnd, taskVars, TypeOK, MainType, LifeTime
<1>3. CASE AskSpace
  BY <1>3 DEF AskSpace, ringVars, taskVars
<1>4. CASE \E w \in Writes, dowait \in BOOLEAN : PlayStart(w, dowait)
  BY <1>4 DEF PlayStart, ringVars, taskVars
<1>5. CASE PlayFits \/ PlayRefused \/ PlayRetry
  BY <1>5 DEF PlayFits, PlayRefused, PlayRetry, ringVars, taskVars
<1>6. CASE Copy
  BY <1>6 DEF Copy, CopyChunk, ringVars, taskVars
<1>7. CASE Wake \/ CloseStart \/ CloseSignal
  BY <1>7 DEF Wake, CloseStart, CloseSignal, ringVars, taskVars
<1>8. CASE Pause \/ Continue
  BY <1>8 DEF Pause, Continue, mainVars, taskVars
<1>9. CASE CloseMark
  BY <1>9 DEF CloseMark, taskVars
<1>10. CASE CloseWait \/ CloseFree
  BY <1>10 DEF CloseWait, CloseFree, taskVars, LifeTime
<1> QED
  BY <1>1, <1>2, <1>3, <1>4, <1>5, <1>6, <1>7, <1>8, <1>9, <1>10 DEF Main

(* The audio task leaves its loop only when it was told to or failed. *)
LEMMA CallTask ==
  ASSUME CallInv, Task
  PROVE  CallInv'
<1> USE DEF CallInv, Untold, Looping
<1>1. CASE TaskOpen \/ TaskOpenFails \/ TaskCheck \/ TaskSend
  BY <1>1 DEF TaskOpen, TaskOpenFails, TaskCheck, TaskSend, ringVars, mainVars
<1>2. CASE TaskWaitLink \/ TaskIdle
  BY <1>2 DEF TaskWaitLink, TaskIdle, ringVars, mainVars
<1>3. CASE TaskWaitIO \/ TaskWaitIOBlocks \/ TaskWaitPort
  BY <1>3 DEF TaskWaitIO, TaskWaitIOBlocks, TaskWaitPort, ringVars, mainVars
<1>4. CASE TaskAdvance
  BY <1>4 DEF TaskAdvance, mainVars
<1>5. CASE TaskDrain \/ TaskDrainWait \/ TaskCloseDevice \/ TaskEnd
  BY <1>5 DEF TaskDrain, TaskDrainWait, TaskCloseDevice, TaskEnd, ringVars, mainVars
<1> QED
  BY <1>1, <1>2, <1>3, <1>4, <1>5 DEF Task

(* A reply of the device changes nothing of the calls. *)
LEMMA CallDevice ==
  ASSUME CallInv, NEW r \in Requests, DevicePlayed(r) \/ DeviceAborted(r)
  PROVE  CallInv'
<1>1. /\ UNCHANGED <<ringVars, mainVars, taskVars, mainSig>>
      /\ taskSig' = taskSig \cup {Port(r)}
  BY DEF DevicePlayed, DeviceAborted, Replied
<1>2. Port(r) # "E"
  BY DEF Port
<1> QED
  BY <1>1, <1>2 DEF CallInv, Untold, ringVars, mainVars, taskVars

(***************************************************************************)
(* At every point of a call of the emulator the audio task is where the    *)
(* code expects it: looping between ahi_open and ahi_close, gone before    *)
(* the ring is freed.                                                      *)
(***************************************************************************)
THEOREM CallInvariant == Spec => []CallInv
<1>1. Init => CallInv
  BY DEF Init, CallInv
<1>2. TypeOK /\ PlaybackInv /\ CallInv /\ [Next]_vars => CallInv'
  <2> SUFFICES ASSUME TypeOK, PlaybackInv, CallInv, [Next]_vars PROVE CallInv'
    OBVIOUS
  <2>1. CASE UNCHANGED vars
    BY <2>1 DEF vars, ringVars, mainVars, taskVars, CallInv, Untold
  <2> QED
    BY <2>1, CallMain, CallTask, CallDevice DEF Next, Device, PlaybackInv
<1> QED
  BY <1>1, <1>2, PlaybackInvariant, TypeCorrect, PTL DEF Spec

(***************************************************************************)
(* The audio task runs on an allocated ring only, and between calls there  *)
(* is a task exactly when there is a ring.                                 *)
(***************************************************************************)
THEOREM TaskAlwaysHasRing == Spec => []TaskHasRing
<1>1. PlaybackInv /\ CallInv => TaskHasRing
  BY DEF PlaybackInv, LifeTime, CallInv, Untold, Looping, TaskHasRing
<1> QED
  BY <1>1, PlaybackInvariant, CallInvariant, PTL

----------------------------------------------------------------------------
(* While the device has both requests, the later one is chained to the     *)
(* earlier one.                                                            *)
Chained ==
  tpc \in {"wait_link", "wait_io", "wait_port"} /\ AtDevice(cur) /\ AtDevice(link)
    => req[cur].after = link

(* The audio task chains the request it sends to the one before it. *)
LEMMA ChainedTask ==
  ASSUME TypeOK, PlaybackInv, Chained, Task
  PROVE  Chained'
<1>1. CASE TaskSend
  <2>1. /\ tpc = "send" /\ cur' = cur /\ link' = link /\ cur \in Requests
        /\ link # 0 => link \in Requests /\ link # cur
        /\ tpc' = IF link = 0 THEN "advance" ELSE "wait_link"
    BY <1>1 DEF TaskSend, PlaybackInv, RequestsOut, Requests
  <2>2. /\ \A r \in Requests : r # cur => req'[r] = req[r]
        /\ req'[cur].after = IF link # 0 /\ req[link].st # "done" THEN link ELSE 0
    BY <1>1, <2>1 DEF TaskSend, TypeOK, RequestType
  <2> QED
    BY <2>1, <2>2 DEF Chained, AtDevice
<1>2. CASE TaskWaitLink
  <2>1. /\ tpc = "wait_link" /\ UNCHANGED <<cur, link>>
        /\ \A r \in Requests : AtDevice(r)' => AtDevice(r) /\ req'[r].after = req[r].after
    BY <1>2 DEF TaskWaitLink, Aborted, AtDevice, TypeOK, RequestType, Request
  <2>2. cur \in Requests /\ link \in Requests
    BY <2>1 DEF PlaybackInv, RequestsOut, Requests
  <2> QED
    BY <2>1, <2>2 DEF Chained, AtDevice
<1>3. CASE TaskWaitIOBlocks \/ TaskWaitPort
  BY <1>3 DEF TaskWaitIOBlocks, TaskWaitPort, Chained, AtDevice
<1>4. CASE ~ (TaskSend \/ TaskWaitLink \/ TaskWaitIOBlocks \/ TaskWaitPort)
  BY <1>4 DEF Task, TaskOpen, TaskOpenFails, TaskCheck, TaskWaitIO, TaskAdvance, TaskIdle,
              TaskDrain, TaskDrainWait, TaskCloseDevice, TaskEnd, Chained
<1> QED
  BY <1>1, <1>2, <1>3, <1>4

(* The device undoes the chaining with the reply it waits for. *)
LEMMA ChainedDevice ==
  ASSUME TypeOK, PlaybackInv, Chained, NEW r \in Requests,
         DevicePlayed(r) \/ DeviceAborted(r)
  PROVE  Chained'
<1>1. /\ UNCHANGED taskVars
      /\ req' = [q \in Requests |->
           IF q = r THEN [req[r] EXCEPT !.st = "done"]
           ELSE IF req[q].after = r THEN [req[q] EXCEPT !.after = 0] ELSE req[q]]
  BY DEF DevicePlayed, DeviceAborted, Replied
<1>2. \A q \in Requests : AtDevice(q)' => AtDevice(q) /\ q # r
  BY <1>1 DEF AtDevice, TypeOK, RequestType, Request
<1>3. \A q \in Requests : q # r /\ req[q].after # r => req'[q] = req[q]
  BY <1>1
<1>4. tpc \in {"wait_link", "wait_io", "wait_port"} => cur \in Requests /\ link \in Requests
  BY DEF PlaybackInv, RequestsOut, Requests
<1> QED
  BY <1>1, <1>2, <1>3, <1>4 DEF Chained, taskVars

(* The emulator's task has no hand in the chaining. *)
LEMMA ChainedMain ==
  ASSUME Chained, Main PROVE Chained'
<1>1. tpc' = "start" \/ UNCHANGED <<taskVars, req>>
  BY DEF Main, OpenStart, OpenEnd, AskSpace, PlayStart, PlayFits, PlayRefused, PlayRetry,
         Copy, Wake, Pause, Continue, CloseStart, CloseMark, CloseSignal, CloseWait, CloseFree
<1> QED
  BY <1>1 DEF Chained, AtDevice, taskVars

(***************************************************************************)
(* The device never has two requests of which neither is chained to the    *)
(* other: fragments are heard one after the other.                         *)
(***************************************************************************)
THEOREM FragmentsHeardInTurn == Spec => []OneFragmentHeard
<1>1. Init => Chained
  BY DEF Init, Chained
<1>2. TypeOK /\ PlaybackInv /\ Chained /\ [Next]_vars => Chained'
  <2> SUFFICES ASSUME TypeOK, PlaybackInv, Chained, [Next]_vars PROVE Chained'
    OBVIOUS
  <2>1. CASE UNCHANGED vars
    BY <2>1 DEF vars, taskVars, Chained, AtDevice
  <2> QED
    BY <2>1, ChainedMain, ChainedTask, ChainedDevice DEF Next, Device
<1>3. PlaybackInv /\ Chained /\ TypeOK => OneFragmentHeard
  <2> SUFFICES ASSUME PlaybackInv, Chained, TypeOK, NEW r \in Requests, NEW q \in Requests,
                      r # q, AtDevice(r), AtDevice(q)
               PROVE  req[r].after # 0 \/ req[q].after # 0
    BY DEF OneFragmentHeard
  <2>1. tpc \in {"wait_link", "wait_io", "wait_port"}
    BY DEF PlaybackInv, RequestsOut, TypeOK, TaskType
  <2>2. link # 0 /\ link # cur /\ {r, q} = {cur, link}
    BY <2>1 DEF PlaybackInv, RequestsOut, Requests
  <2> QED
    BY <2>1, <2>2 DEF Chained
<1> QED
  BY <1>1, <1>2, <1>3, PlaybackInvariant, TypeCorrect, PTL DEF Spec

----------------------------------------------------------------------------
(***************************************************************************)
(* The ring: which fragments are in use.                                   *)
(***************************************************************************)

(* How many fragments i is ahead of the read position. *)
Off(i) == IF i >= read_buffer THEN i - read_buffer ELSE i - read_buffer + Frags

(***************************************************************************)
(* In use are the queued fragments and the one played last, which is right *)
(* behind them; the write position never gets there.                       *)
(***************************************************************************)
RingInv ==
  allocated =>
    /\ \A i \in Slots : slot[i].used <=> Off(i) < Queued \/ i = prev
    /\ prev >= 0 => Queued < Frags /\ read_buffer = NextSlot(prev)
    /\ tpc = "send" \/ Sent => Queued > 0

(***************************************************************************)
(* The queue is no longer than the ring, and the write position is right   *)
(* behind it.                                                              *)
(***************************************************************************)
LEMMA QueuedBounds ==
  ASSUME TypeOK
  PROVE  /\ Queued \in 0 .. Frags
         /\ Off(write_buffer) = IF Queued = Frags THEN 0 ELSE Queued
         /\ Queued = Frags => write_buffer = read_buffer
         /\ \A i \in Slots : Off(i) \in 0 .. Frags - 1
         /\ \A i \in Slots : Off(i) = 0 <=> i = read_buffer
         /\ \A i, j \in Slots : Off(i) = Off(j) => i = j
         /\ Frags \in Nat /\ Frags >= 2
         /\ read_buffer \in Slots /\ write_buffer \in Slots
BY FragsAssumption DEF TypeOK, RingType, Queued, Off, Slots

(* Off and Ahead undo each other. *)
LEMMA OffAhead ==
  ASSUME TypeOK
  PROVE  /\ \A i \in Slots : Ahead(read_buffer, Off(i)) = i
         /\ \A k \in 0 .. Frags - 1 :
              Ahead(read_buffer, k) \in Slots /\ Off(Ahead(read_buffer, k)) = k
BY FragsAssumption DEF TypeOK, RingType, Ahead, Off, Slots

(* The fragment behind the queue: the write position, while there is room. *)
LEMMA WriteIsFree ==
  ASSUME TypeOK, RingInv, allocated
  PROVE  /\ slot[write_buffer].used <=> Queued = Frags \/ write_buffer = prev
         /\ prev >= 0 => prev \in Slots /\ Off(prev) = Frags - 1 /\ prev # read_buffer
<1>1. prev >= 0 => prev \in Slots /\ Off(prev) = Frags - 1 /\ prev # read_buffer
  BY FragsAssumption DEF TypeOK, RingType, TaskType, RingInv, NextSlot, Off, Slots
<1>2. slot[write_buffer].used <=> Off(write_buffer) < Queued \/ write_buffer = prev
  BY QueuedBounds DEF RingInv
<1> QED
  BY <1>1, <1>2, QueuedBounds

(* A step that neither writes nor advances. *)
LEMMA RingFrame ==
  ASSUME TypeOK, RingInv,
         UNCHANGED <<slot, read_buffer, write_buffer, prev, allocated>>,
         tpc' = "send" \/ Sent' => tpc = "send" \/ Sent \/ slot[read_buffer].used
  PROVE  RingInv'
<1>1. Queued' = Queued /\ \A i \in Slots : Off(i)' = Off(i)
  BY DEF Queued, Off
<1>2. ASSUME allocated, slot[read_buffer].used PROVE Queued > 0
  <2>1. read_buffer \in Slots /\ read_buffer # prev
    BY <1>2, WriteIsFree DEF TypeOK, RingType, Slots
  <2> QED
    BY <1>2, <2>1, QueuedBounds DEF RingInv
<1> QED
  BY <1>1, <1>2 DEF RingInv, NextSlot

(* A fragment that is completed joins the queue. *)
LEMMA CopyQueued ==
  ASSUME TypeOK, RingInv, allocated, ~ slot[write_buffer].used, CopyChunk,
         UNCHANGED <<read_buffer, allocated, taskVars>>
  PROVE  /\ Queued' = IF Len(Filled) = FragSize THEN Queued + 1 ELSE Queued
         /\ Queued < Frags /\ Off(write_buffer) = Queued
         /\ write_buffer # prev /\ (prev >= 0 => Queued + 1 < Frags)
<1> DEFINE full == Len(Filled) = FragSize
<1>1. /\ \A i \in Slots : slot'[i].used = IF i = write_buffer THEN full ELSE slot[i].used
      /\ write_buffer' = IF full THEN NextSlot(write_buffer) ELSE write_buffer
      /\ read_buffer' = read_buffer
  BY DEF CopyChunk, TypeOK, RingType, Fragment
<1>2. /\ Queued # Frags /\ write_buffer # prev
      /\ prev >= 0 => prev \in Slots /\ Off(prev) = Frags - 1
  BY WriteIsFree
<1>3. Queued \in 0 .. Frags - 1 /\ Off(write_buffer) = Queued
  BY <1>2, QueuedBounds
<1>4. prev >= 0 => Queued + 1 < Frags
  BY <1>2, <1>3, QueuedBounds
<1> HIDE DEF full
<1>5. Queued' = IF full THEN Queued + 1 ELSE Queued
  <2>1. CASE ~ full
    BY <1>1, <2>1, QueuedBounds DEF Queued
  <2>2. CASE full
    <3>1. slot[read_buffer].used <=> Queued > 0
      BY <1>3, WriteIsFree, QueuedBounds DEF RingInv
    <3>2. slot'[read_buffer].used
          <=> (IF read_buffer = write_buffer THEN full ELSE slot[read_buffer].used)
      BY <1>1, QueuedBounds
    <3>3. write_buffer' = IF write_buffer + 1 >= Frags THEN 0 ELSE write_buffer + 1
      BY <1>1, <2>2 DEF NextSlot
    <3>4. Queued = IF write_buffer >= read_buffer THEN write_buffer - read_buffer
                   ELSE write_buffer - read_buffer + Frags
      BY <1>3 DEF Off
    <3>5. Queued' = IF write_buffer' > read_buffer THEN write_buffer' - read_buffer
                    ELSE IF write_buffer' = read_buffer /\ ~ slot'[read_buffer].used THEN 0
                    ELSE write_buffer' - read_buffer + Frags
      BY <1>1 DEF Queued
    <3> QED
      BY <2>2, <3>1, <3>2, <3>3, <3>4, <3>5, FragsAssumption DEF TypeOK, RingType, Slots
  <2> QED
    BY <2>1, <2>2
<1> QED
  BY <1>2, <1>3, <1>4, <1>5, FragsAssumption DEF full

(* The copy loop keeps the used flags in step with the queue. *)
LEMMA RingCopy ==
  ASSUME TypeOK, RingInv, Copy
  PROVE  RingInv'
<1>1. CASE UNCHANGED ringVars
  BY <1>1, RingFrame DEF Copy, ringVars, taskVars, Sent
<1>2. CASE /\ allocated /\ ~ slot[write_buffer].used /\ CopyChunk
           /\ UNCHANGED <<read_buffer, allocated, taskVars>>
  <2> DEFINE full == Len(Filled) = FragSize
  <2>1. /\ \A i \in Slots : slot'[i].used = IF i = write_buffer THEN full ELSE slot[i].used
        /\ read_buffer' = read_buffer /\ prev' = prev /\ allocated' = allocated
        /\ tpc' = tpc
    BY <1>2 DEF CopyChunk, TypeOK, RingType, Fragment, taskVars
  <2>2. \A i \in Slots : Off(i)' = Off(i)
    BY <2>1 DEF Off
  <2>3. /\ Queued' = IF full THEN Queued + 1 ELSE Queued
        /\ Queued < Frags /\ Off(write_buffer) = Queued
        /\ write_buffer # prev /\ (prev >= 0 => Queued + 1 < Frags)
    BY <1>2, CopyQueued
  <2> HIDE DEF full
  <2>4. Queued \in 0 .. Frags - 1
    BY <2>3, QueuedBounds
  <2>5. ASSUME NEW i \in Slots PROVE slot'[i].used <=> Off(i) < Queued' \/ i = prev
    <3>1. slot[i].used <=> Off(i) < Queued \/ i = prev
      BY <1>2 DEF RingInv
    <3>2. i = write_buffer <=> Off(i) = Queued
      BY <2>3, QueuedBounds
    <3>3. Off(i) \in Nat
      BY QueuedBounds
    <3> QED
      BY <1>2, <2>1, <2>3, <2>4, <3>1, <3>2, <3>3
  <2>6. NextSlot(prev)' = NextSlot(prev) /\ Sent' = Sent
    BY <2>1 DEF NextSlot, Sent
  <2> QED
    BY <1>2, <2>1, <2>2, <2>3, <2>4, <2>5, <2>6 DEF RingInv
<1> QED
  BY <1>1, <1>2 DEF Copy

(***************************************************************************)
(* Advancing takes one fragment off the queue and frees the one played     *)
(* before.                                                                 *)
(***************************************************************************)
LEMMA RingAdvance ==
  ASSUME TypeOK, RingInv, allocated, TaskAdvance
  PROVE  /\ RingInv'
         /\ Queued > 0 /\ Queued' = Queued - 1 /\ read_buffer # prev
<1>1. /\ prev' = read_buffer /\ read_buffer' = NextSlot(read_buffer)
      /\ write_buffer' = write_buffer /\ allocated' = allocated /\ tpc' = "check"
      /\ \A i \in Slots : slot'[i].used <=> slot[i].used /\ i # prev
  BY DEF TaskAdvance, TypeOK, RingType, TaskType, Fragment, Slots
<1>2. read_buffer # prev
  BY WriteIsFree, QueuedBounds DEF Slots
<1>3. Queued \in 1 .. Frags /\ (prev >= 0 => Queued < Frags)
  BY QueuedBounds DEF RingInv, TaskAdvance, Sent
<1>4. \A i \in Slots : Off(i)' = IF i = read_buffer THEN Frags - 1 ELSE Off(i) - 1
  BY <1>1, FragsAssumption DEF Off, NextSlot, Slots, TypeOK, RingType
<1>5. \A i \in Slots : slot'[i].used <=> Off(i) < Queued /\ i # prev
  BY <1>1 DEF RingInv
<1>6. \A i \in Slots : i = prev => ~ (Off(i) < Queued)
  BY <1>3, WriteIsFree, QueuedBounds DEF Slots
<1>7. \A i \in Slots : slot'[i].used <=> Off(i) < Queued
  BY <1>5, <1>6
<1>8. Queued' = Queued - 1
  <2>1. NextSlot(read_buffer) \in Slots /\ Off(NextSlot(read_buffer)) = 1
    BY FragsAssumption DEF NextSlot, Off, Slots, TypeOK, RingType
  <2>2. slot'[read_buffer'].used <=> 1 < Queued
    BY <1>1, <1>7, <2>1
  <2>3. Queued' = IF write_buffer > read_buffer' THEN write_buffer - read_buffer'
                  ELSE IF write_buffer = read_buffer' /\ ~ slot'[read_buffer'].used THEN 0
                  ELSE write_buffer - read_buffer' + Frags
    BY <1>1 DEF Queued
  <2>4. IF Queued = Frags THEN write_buffer = read_buffer
        ELSE Queued = IF write_buffer >= read_buffer THEN write_buffer - read_buffer
                      ELSE write_buffer - read_buffer + Frags
    BY QueuedBounds DEF Off
  <2>5. read_buffer' = IF read_buffer + 1 >= Frags THEN 0 ELSE read_buffer + 1
    BY <1>1 DEF NextSlot
  <2> QED
    BY <1>3, <2>2, <2>3, <2>4, <2>5, FragsAssumption DEF TypeOK, RingType, Slots
<1>9. \A i \in Slots : slot'[i].used <=> Off(i)' < Queued' \/ i = prev'
  <2> TAKE i \in Slots
  <2>1. Off(i) \in 0 .. Frags - 1 /\ (Off(i) = 0 <=> i = read_buffer)
    BY QueuedBounds
  <2> QED
    BY <1>1, <1>4, <1>3, <1>7, <1>8, <2>1
<1>10. ~ (tpc' = "send" \/ Sent')
  BY <1>1 DEF Sent
<1>11. RingInv'
  BY <1>1, <1>3, <1>8, <1>9, <1>10, QueuedBounds DEF RingInv, NextSlot
<1> QED
  BY <1>2, <1>3, <1>8, <1>11

(* A ring that was just opened has nothing in use. *)
LEMMA RingOpened ==
  ASSUME OpenStart
  PROVE  RingInv'
<1>1. /\ slot' = EmptyRing /\ read_buffer' = 0 /\ write_buffer' = 0 /\ prev' = -1
      /\ tpc' = "start"
  BY DEF OpenStart
<1>2. 0 \in Slots /\ ~ slot'[0].used
  BY <1>1, FragsAssumption DEF Slots, EmptyRing, EmptySlot
<1>3. Queued' = 0
  BY <1>1, <1>2 DEF Queued
<1>4. \A i \in Slots : Off(i)' = i /\ i \in Nat /\ ~ slot'[i].used
  BY <1>1, FragsAssumption DEF Off, EmptyRing, EmptySlot, Slots
<1> QED
  BY <1>1, <1>3, <1>4 DEF RingInv, Sent

(***************************************************************************)
(* In use are exactly the queued fragments and the one played last, at     *)
(* every step of both tasks.                                               *)
(***************************************************************************)
THEOREM RingInvariant == Spec => []RingInv
<1>1. Init => RingInv
  BY DEF Init, RingInv
<1>2. TypeOK /\ PlaybackInv /\ RingInv /\ [Next]_vars => RingInv'
  <2> SUFFICES ASSUME TypeOK, PlaybackInv, RingInv, [Next]_vars PROVE RingInv'
    OBVIOUS
  <2>1. CASE OpenStart
    BY <2>1, RingOpened
  <2>2. CASE Copy
    BY <2>2, RingCopy
  <2>3. CASE CloseFree
    BY <2>3 DEF CloseFree, RingInv
  <2>4. CASE Main /\ ~ (OpenStart \/ Copy \/ CloseFree)
    BY <2>4, RingFrame
    DEF Main, OpenEnd, AskSpace, PlayStart, PlayFits, PlayRefused, PlayRetry, Wake, Pause,
        Continue, CloseStart, CloseMark, CloseSignal, CloseWait, ringVars, taskVars, Sent
  <2>5. CASE TaskAdvance
    <3>1. allocated
      BY <2>5 DEF TaskAdvance, PlaybackInv, LifeTime
    <3> QED
      BY <2>5, <3>1, RingAdvance
  <2>6. CASE Task /\ ~ TaskAdvance
    <3>1. tpc' = "send" \/ Sent' => tpc = "send" \/ Sent \/ slot[read_buffer].used
      BY <2>6
      DEF Task, TaskOpen, TaskOpenFails, TaskCheck, TaskSend, TaskWaitLink, TaskWaitIO,
          TaskWaitIOBlocks, TaskWaitPort, TaskIdle, TaskDrain, TaskDrainWait,
          TaskCloseDevice, TaskEnd, Sent
    <3>2. UNCHANGED <<slot, read_buffer, write_buffer, prev, allocated>>
      BY <2>6
      DEF Task, TaskOpen, TaskOpenFails, TaskCheck, TaskSend, TaskWaitLink, TaskWaitIO,
          TaskWaitIOBlocks, TaskWaitPort, TaskIdle, TaskDrain, TaskDrainWait,
          TaskCloseDevice, TaskEnd, ringVars
    <3> QED
      BY <3>1, <3>2, RingFrame
  <2>7. CASE Device \/ UNCHANGED vars
    BY <2>7, RingFrame
    DEF Device, DevicePlayed, DeviceAborted, Replied, vars, ringVars, taskVars, Sent
  <2> QED
    BY <2>1, <2>2, <2>3, <2>4, <2>5, <2>6, <2>7 DEF Next
<1> QED
  BY <1>1, <1>2, PlaybackInvariant, TypeCorrect, PTL DEF Spec

(***************************************************************************)
(* The used flags say which fragments are in use: the queued ones and the  *)
(* one played last.  So a full ring, whose positions are equal like those  *)
(* of an empty one, is never taken for empty.                              *)
(***************************************************************************)
THEOREM FullIsNotEmpty == Spec => []UsedFlagsTellFullFromEmpty
<1>1. TypeOK /\ RingInv => UsedFlagsTellFullFromEmpty
  <2> SUFFICES ASSUME TypeOK, RingInv, allocated
               PROVE  {i \in Slots : slot[i].used} = QueuedSlots \cup ({prev} \ {-1})
    BY DEF UsedFlagsTellFullFromEmpty
  <2>1. \A i \in Slots : i \in QueuedSlots <=> Off(i) < Queued
    <3> TAKE i \in Slots
    <3>1. ASSUME i \in QueuedSlots PROVE Off(i) < Queued
      <4>1. PICK k \in 0 .. Queued - 1 : i = Ahead(read_buffer, k)
        BY <3>1 DEF QueuedSlots
      <4>2. k \in 0 .. Frags - 1
        BY QueuedBounds
      <4> QED
        BY <4>1, <4>2, OffAhead, QueuedBounds
    <3>2. ASSUME Off(i) < Queued PROVE i \in QueuedSlots
      <4>1. Off(i) \in 0 .. Queued - 1 /\ i = Ahead(read_buffer, Off(i))
        BY <3>2, OffAhead, QueuedBounds
      <4> QED
        BY <4>1 DEF QueuedSlots
    <3> QED
      BY <3>1, <3>2
  <2>2. QueuedSlots \subseteq Slots
    <3> SUFFICES ASSUME NEW k \in 0 .. Queued - 1 PROVE Ahead(read_buffer, k) \in Slots
      BY DEF QueuedSlots
    <3>1. k \in 0 .. Frags - 1
      BY QueuedBounds
    <3> QED
      BY <3>1, OffAhead
  <2>3. prev # -1 => prev \in Slots /\ prev >= 0
    BY DEF TypeOK, TaskType, Slots
  <2>4. -1 \notin Slots
    BY DEF Slots
  <2> QED
    BY <2>1, <2>2, <2>3, <2>4 DEF RingInv
<1> QED
  BY <1>1, RingInvariant, TypeCorrect, PTL

----------------------------------------------------------------------------
(***************************************************************************)
(* The space in the ring.                                                  *)
(***************************************************************************)

(* The fragments that can be written to, by the invariant of the ring.     *)
Room == Frags - Queued - (IF prev >= 0 THEN 1 ELSE 0)

(* The free fragments ahi_writable_bytes_locked counts are all there are. *)
LEMMA FreeRunIsRoom ==
  ASSUME TypeOK, RingInv, allocated
  PROVE  FreeRun = Room /\ Room \in 0 .. Frags
<1>1. /\ Queued \in 0 .. Frags
      /\ prev >= 0 => prev \in Slots /\ Off(prev) = Frags - 1 /\ Queued < Frags
      /\ Frags \in Nat /\ Frags >= 2
  BY QueuedBounds, WriteIsFree DEF RingInv
<1>2. prev \in Int
  BY FragsAssumption DEF TypeOK, TaskType
<1>3. Room \in 0 .. Frags
  BY <1>1 DEF Room
<1>4. \A k \in 0 .. Frags - 1 :
        /\ Ahead(write_buffer, k) \in Slots
        /\ Queued < Frags =>
             Off(Ahead(write_buffer, k)) = IF Queued + k < Frags THEN Queued + k
                                           ELSE Queued + k - Frags
        /\ Queued = Frags => Off(Ahead(write_buffer, k)) = k
  <2> TAKE k \in 0 .. Frags - 1
  <2>1. Off(write_buffer) = IF Queued = Frags THEN 0 ELSE Queued
    BY QueuedBounds
  <2>2. /\ Ahead(write_buffer, k) \in Slots
        /\ Off(Ahead(write_buffer, k)) = IF Off(write_buffer) + k < Frags
                                         THEN Off(write_buffer) + k
                                         ELSE Off(write_buffer) + k - Frags
    BY FragsAssumption DEF TypeOK, RingType, Ahead, Off, Slots
  <2> QED
    BY <1>1, <2>1, <2>2
<1>5. Room \in Stops
  <2>1. CASE Room = Frags
    BY <1>3, <2>1 DEF Stops
  <2>2. CASE Room # Frags
    <3>1. Room \in 0 .. Frags - 1
      BY <1>1, <1>3, <2>2
    <3>2. /\ Ahead(write_buffer, Room) \in Slots
          /\ IF prev >= 0 THEN Off(Ahead(write_buffer, Room)) = Frags - 1
             ELSE Off(Ahead(write_buffer, Room)) = 0 /\ Queued > 0
      BY <1>1, <1>2, <1>4, <2>2, <3>1 DEF Room
    <3>3. prev >= 0 => Ahead(write_buffer, Room) = prev
      BY <1>1, <3>2, QueuedBounds
    <3>4. slot[Ahead(write_buffer, Room)].used
      BY <3>2, <3>3 DEF RingInv
    <3> QED
      BY <1>3, <3>4 DEF Stops
  <2> QED
    BY <2>1, <2>2
<1>6. ASSUME NEW k \in Stops PROVE Room <= k
  <2> SUFFICES ASSUME k < Room PROVE FALSE
    BY <1>1, <1>3 DEF Stops
  <2>1. k \in 0 .. Frags - 1 /\ slot[Ahead(write_buffer, k)].used
    BY <1>1, <1>3 DEF Stops
  <2>2. /\ Ahead(write_buffer, k) \in Slots
        /\ Off(Ahead(write_buffer, k)) = Queued + k
        /\ Queued + k < Frags /\ (prev >= 0 => Queued + k < Frags - 1)
    BY <1>1, <1>2, <1>4, <2>1 DEF Room
  <2>3. Ahead(write_buffer, k) # prev
    BY <1>1, <2>1, <2>2 DEF Slots
  <2> QED
    BY <1>1, <2>1, <2>2, <2>3 DEF RingInv
<1>7. FreeRun \in Stops /\ (\A j \in Stops : FreeRun <= j) /\ FreeRun \in 0 .. Frags
  BY FreeRunSpec
<1> QED
  BY <1>1, <1>3, <1>5, <1>6, <1>7

(* Complete fragments are used or were played, others are the one that is  *)
(* being filled.                                                           *)
WholeInv ==
  \A i \in Slots :
    /\ slot[i].used => Len(slot[i].data) = FragSize
    /\ i # write_buffer => Fill(slot[i]) = 0

(***************************************************************************)
(* What was asked or checked before stays true: the space that was         *)
(* reported, and that the rest of a write fits.                            *)
(***************************************************************************)
SpaceInv ==
  /\ mpc \in {"capacity", "copy"} => src # <<>>
  /\ mpc \notin {"capacity", "copy", "wake"} => src = <<>>
  /\ mpc \notin {"close_signal", "close_wait", "free"} => ~ shutting_down
  /\ mpc \in {"idle", "opening", "capacity"} => space <= Writable
  /\ CapacityCheckSuffices

SpaceByRoom ==
  /\ Writable \in Nat
  /\ Writable = IF ~ allocated \/ shutting_down \/ Room = 0 THEN 0
                ELSE Room * FragSize - Fill(slot[write_buffer])

(***************************************************************************)
(* The space reported is the room in the ring, less what is in the         *)
(* fragment being filled.                                                  *)
(***************************************************************************)
LEMMA WritableIsRoom == TypeOK /\ RingInv => SpaceByRoom
BY FreeRunIsRoom, WritableNat DEF Writable, SpaceByRoom

(* The same of the state after a step. *)
LEMMA WritableIsRoomNext == TypeOK' /\ RingInv' => SpaceByRoom'
BY WritableIsRoom, PTL

(* A fragment that is being filled is not full. *)
LEMMA FillBounds ==
  ASSUME TypeOK
  PROVE  \A i \in Slots : /\ Fill(slot[i]) \in 0 .. FragSize - 1
                          /\ Len(slot[i].data) \in 0 .. FragSize
                          /\ slot[i].data \in Seq(Tag)
BY SizesAssumption DEF TypeOK, RingType, Fragment, Chunk, Fill

(* Every step keeps all fragments but the one being filled whole. *)
LEMMA WholeKept ==
  ASSUME TypeOK, WholeInv, [Next]_vars
  PROVE  WholeInv'
<1>1. CASE slot' = EmptyRing
  BY <1>1 DEF EmptyRing, EmptySlot, WholeInv, Fill
<1>2. CASE UNCHANGED <<slot, write_buffer>>
  BY <1>2 DEF WholeInv, Fill
<1>3. CASE TaskAdvance
  <2>1. /\ write_buffer' = write_buffer
        /\ \A i \in Slots : /\ slot'[i].data = slot[i].data
                            /\ slot'[i].used => slot[i].used
    BY <1>3 DEF TaskAdvance, TypeOK, RingType, TaskType, Fragment, Slots
  <2> QED
    BY <2>1 DEF WholeInv, Fill
<1>4. CASE CopyChunk
  <2>1. /\ \A i \in Slots : i # write_buffer => slot'[i] = slot[i]
        /\ slot'[write_buffer].used <=> Len(Filled) = FragSize
        /\ slot'[write_buffer].data = Filled
        /\ write_buffer' = IF Len(Filled) = FragSize THEN NextSlot(write_buffer)
                           ELSE write_buffer
        /\ write_buffer \in Slots
    BY <1>4 DEF CopyChunk, TypeOK, RingType
  <2> QED
    BY <2>1 DEF WholeInv, Fill
<1>5. slot' = EmptyRing \/ UNCHANGED <<slot, write_buffer>> \/ TaskAdvance \/ CopyChunk
  BY DEF Next, Main, Task, Device, OpenStart, OpenEnd, AskSpace, PlayStart, PlayFits,
         PlayRefused, PlayRetry, Copy, Wake, Pause, Continue, CloseStart, CloseMark,
         CloseSignal, CloseWait, CloseFree, TaskOpen, TaskOpenFails, TaskCheck, TaskSend,
         TaskWaitLink, TaskWaitIO, TaskWaitIOBlocks, TaskWaitPort, TaskIdle, TaskDrain,
         TaskDrainWait, TaskCloseDevice, TaskEnd, DevicePlayed, DeviceAborted, Replied,
         vars, ringVars
<1> QED
  BY <1>1, <1>2, <1>3, <1>4, <1>5

(***************************************************************************)
(* A round of the copy loop: what is left of the write still fits.         *)
(***************************************************************************)
LEMMA CopyFits ==
  ASSUME TypeOK, TypeOK', RingInv, RingInv', WholeInv, SpaceInv, CallInv, Copy
  PROVE  /\ mpc' = "wake" /\ CopyChunk /\ allocated /\ ~ slot[write_buffer].used
         /\ UNCHANGED <<read_buffer, shutting_down, allocated, audio_task, taskVars, req>>
         /\ src' # <<>> => Len(src') <= Writable'
<1>1. /\ mpc = "copy" /\ allocated /\ audio_task /\ ~ shutting_down
      /\ src # <<>> /\ Len(src) <= Writable
  BY DEF Copy, CallInv, SpaceInv, CapacityCheckSuffices, Fits
<1>2. Len(src) \in Nat \ {0}
  BY <1>1 DEF TypeOK, MainType
<1>3. Writable = Room * FragSize - Fill(slot[write_buffer]) /\ Room \in 1 .. Frags
  <2>1. Writable \in Nat /\ Writable # 0
    BY <1>1, <1>2, WritableNat
  <2> QED
    BY <1>1, <2>1, WritableIsRoom, FreeRunIsRoom, QueuedBounds DEF SpaceByRoom
<1>4. ~ slot[write_buffer].used
  <2>1. Queued # Frags /\ (prev >= 0 => Queued < Frags - 1)
    BY <1>3, QueuedBounds DEF Room
  <2>2. write_buffer # prev
    <3>1. prev >= 0 => Off(prev) = Frags - 1
      BY <1>1, WriteIsFree
    <3>2. Off(write_buffer) = Queued /\ write_buffer >= 0
      BY <2>1, QueuedBounds DEF Slots
    <3> QED
      BY <2>1, <3>1, <3>2, QueuedBounds
  <2> QED
    BY <1>1, <2>1, <2>2, WriteIsFree
<1>5. /\ CopyChunk /\ mpc' = "wake"
      /\ UNCHANGED <<read_buffer, shutting_down, allocated, audio_task, taskVars, req>>
  BY <1>1, <1>4 DEF Copy, CopyChunk
<1>6. ASSUME src' # <<>> PROVE Len(src') <= Writable'
  <2>1. /\ Len(Kept) = Fill(slot[write_buffer]) /\ Len(Kept) \in 0 .. FragSize - 1
        /\ FragSize \in Nat \ {0}
    BY CopyBounds, FillBounds, SizesAssumption DEF Kept, Fill, TypeOK, RingType
  <2>2. Len(src') = Len(src) - CopyLen /\ CopyLen \in 0 .. Len(src) /\ Len(src') # 0
    BY <1>5, <1>6, CopyBounds DEF CopyChunk
  <2>3. CopyLen = FragSize - Len(Kept) /\ Len(Filled) = FragSize
    <3>1. CopyLen # Len(src)
      BY <1>2, <2>2
    <3>2. CopyLen = FragSize - Len(Kept)
      BY <3>1 DEF CopyLen
    <3> QED
      BY <2>1, <3>2, CopyBounds
  <2>4. Room' = Room - 1
    <3>1. Queued' = Queued + 1 /\ prev' = prev
      <4>1. Queued' = Queued + 1
        BY <1>1, <1>4, <1>5, <2>3, CopyQueued
      <4> QED
        BY <1>5, <4>1 DEF taskVars
    <3> QED
      BY <3>1, QueuedBounds DEF Room
  <2>5. Len(src') <= (Room - 1) * FragSize
    <3>1. (Room - 1) * FragSize = Room * FragSize - FragSize /\ Room * FragSize \in Int
      BY <1>3, <2>1, QueuedBounds
    <3> QED
      BY SMTT(30), <1>1, <1>2, <1>3, <2>1, <2>2, <2>3, <3>1
  <2>6. Room' # 0
    BY <2>1, <2>2, <2>4, <2>5, <1>2, <1>3, QueuedBounds
  <2>7. write_buffer' \in Slots /\ write_buffer' # write_buffer
    BY <1>5, <2>3, NextSlotDiffers DEF CopyChunk, TypeOK, RingType
  <2>8. Fill(slot'[write_buffer']) = 0
    <3>1. slot'[write_buffer'] = slot[write_buffer']
      BY <1>5, <2>7 DEF CopyChunk, TypeOK, RingType
    <3> QED
      BY <2>7, <3>1 DEF WholeInv, Fill
  <2>9. Writable' = Room' * FragSize - 0
    BY <1>1, <1>5, <2>6, <2>8, WritableIsRoomNext DEF SpaceByRoom
  <2>10. (Room - 1) * FragSize \in Int
    BY <1>3, <2>1, QueuedBounds
  <2> QED
    BY <2>4, <2>5, <2>9, <2>10
<1> QED
  BY <1>1, <1>4, <1>5, <1>6

(* The audio task and the device never take space away. *)
LEMMA WritableGrows ==
  ASSUME TypeOK, TypeOK', RingInv, RingInv', PlaybackInv,
         Task \/ Device \/ UNCHANGED vars
  PROVE  /\ Writable \in Nat /\ Writable' \in Nat /\ Writable <= Writable'
         /\ UNCHANGED <<mainVars, shutting_down>>
<1>1. Writable \in Nat /\ Writable' \in Nat
  BY WritableIsRoom, WritableIsRoomNext DEF SpaceByRoom
<1>2. CASE UNCHANGED <<ringVars, mainVars>>
  <2>1. Writable' = Writable
    BY <1>2 DEF Writable, FreeRun, Stops, Fill, ringVars
  <2> QED
    BY <1>1, <1>2, <2>1 DEF ringVars
<1>3. CASE TaskAdvance
  <2>1. /\ UNCHANGED <<write_buffer, shutting_down, allocated, mainVars>>
        /\ allocated
        /\ \A i \in Slots : slot'[i].data = slot[i].data
        /\ prev' = read_buffer /\ read_buffer \in Slots
    BY <1>3 DEF TaskAdvance, TypeOK, RingType, TaskType, Fragment, Slots, PlaybackInv, LifeTime
  <2>2. Fill(slot'[write_buffer]) = Fill(slot[write_buffer])
    BY <2>1 DEF Fill, TypeOK, RingType
  <2>3. Queued' = Queued - 1 /\ Queued \in 0 .. Frags /\ Frags \in Nat
    BY <1>3, <2>1, RingAdvance, QueuedBounds
  <2>4. Room \in 0 .. Frags /\ (Room' = Room \/ Room' = Room + 1)
    BY <2>1, <2>3, FreeRunIsRoom DEF Room, Slots
  <2>5. CASE Room = 0 \/ shutting_down
    BY <1>1, <2>1, <2>5, WritableIsRoom DEF SpaceByRoom
  <2>6. CASE Room # 0 /\ ~ shutting_down
    <3>1. Writable = Room * FragSize - Fill(slot[write_buffer])
      BY <2>1, <2>6, WritableIsRoom DEF SpaceByRoom
    <3>2. Room' # 0
      BY <2>3, <2>4, <2>6
    <3>3. Writable' = Room' * FragSize - Fill(slot[write_buffer])
      BY <2>1, <2>2, <2>6, <3>2, WritableIsRoomNext DEF SpaceByRoom
    <3>4. (Room + 1) * FragSize = Room * FragSize + FragSize
          /\ Room * FragSize \in Int /\ FragSize \in Nat
      BY <2>3, <2>4, SizesAssumption
    <3>5. Fill(slot[write_buffer]) \in Int
      BY FillBounds, QueuedBounds
    <3>6. Writable <= Writable'
      <4>1. CASE Room' = Room
        <5>1. Writable' = Room * FragSize - Fill(slot[write_buffer])
          BY <3>3, <4>1
        <5> QED
          BY <1>1, <3>1, <5>1
      <4>2. CASE Room' = Room + 1
        <5>1. Writable' = (Room + 1) * FragSize - Fill(slot[write_buffer])
          BY <3>3, <4>2
        <5> QED
          BY <3>1, <3>4, <3>5, <5>1
      <4> QED
        BY <2>4, <4>1, <4>2
    <3> QED
      BY <1>1, <2>1, <3>6
  <2> QED
    BY <1>1, <2>1, <2>5, <2>6
<1>4. TaskAdvance \/ UNCHANGED <<ringVars, mainVars>>
  BY DEF Task, TaskOpen, TaskOpenFails, TaskCheck, TaskSend, TaskWaitLink, TaskWaitIO,
         TaskWaitIOBlocks, TaskWaitPort, TaskIdle, TaskDrain, TaskDrainWait,
         TaskCloseDevice, TaskEnd, Device, DevicePlayed, DeviceAborted, Replied, vars
<1> QED
  BY <1>2, <1>3, <1>4

(* The emulator's own steps keep what it was told of the space. *)
LEMMA SpaceMain ==
  ASSUME TypeOK, TypeOK', RingInv, RingInv', WholeInv, CallInv, SpaceInv, Main
  PROVE  SpaceInv'
<1>0. Writable \in Nat /\ Writable' \in Nat /\ space \in Nat
  BY WritableIsRoom, WritableIsRoomNext DEF SpaceByRoom, TypeOK, MainType
<1>1. UNCHANGED <<slot, write_buffer, allocated, shutting_down>> => Writable' = Writable
  BY DEF Writable, FreeRun, Stops, Fill
<1> USE DEF SpaceInv, CapacityCheckSuffices, Fits
<1>2. CASE OpenStart
  <2>1. space = 0
    BY <1>0, <1>2 DEF OpenStart, Writable
  <2> QED
    BY <1>0, <1>2, <2>1 DEF OpenStart
<1>3. CASE OpenEnd
  BY <1>1, <1>3 DEF OpenEnd
<1>4. CASE AskSpace
  <2>1. space' <= Writable
    BY <1>0, <1>4 DEF AskSpace, SamplesFree
  <2> QED
    BY <1>1, <1>4, <2>1 DEF AskSpace, ringVars
<1>5. CASE \E w \in Writes, dowait \in BOOLEAN : PlayStart(w, dowait)
  <2>1. PICK w \in Writes : src' = w /\ mpc = "idle" /\ mpc' = "capacity"
                            /\ UNCHANGED <<ringVars, space>>
    BY <1>5 DEF PlayStart
  <2>2. w # <<>>
    BY DEF Writes
  <2> QED
    BY <1>1, <2>1, <2>2 DEF ringVars
<1>6. CASE PlayFits \/ PlayRefused \/ PlayRetry
  BY <1>0, <1>1, <1>6 DEF PlayFits, PlayRefused, PlayRetry, ringVars
<1>7. CASE Copy
  <2>1. /\ mpc' = "wake" /\ shutting_down' = shutting_down
        /\ src' # <<>> => Len(src') <= Writable'
    BY <1>7, CopyFits
  <2> QED
    BY <1>7, <2>1 DEF Copy
<1>8. CASE Wake
  BY <1>0, <1>1, <1>8 DEF Wake, ringVars
<1>9. CASE Pause \/ Continue
  BY <1>1, <1>9 DEF Pause, Continue, mainVars
<1>10. CASE CloseStart \/ CloseMark \/ CloseSignal \/ CloseWait
  BY <1>1, <1>10 DEF CloseStart, CloseMark, CloseSignal, CloseWait, ringVars
<1>11. CASE CloseFree
  BY <1>0, <1>11 DEF CloseFree
<1> QED
  BY <1>2, <1>3, <1>4, <1>5, <1>6, <1>7, <1>8, <1>9, <1>10, <1>11 DEF Main

(***************************************************************************)
(* What was asked or checked of the space stays true while the write is    *)
(* going on, whatever the audio task does between the steps.               *)
(***************************************************************************)
THEOREM SpaceInvariant == Spec => [](WholeInv /\ SpaceInv)
<1>1. Init => WholeInv /\ SpaceInv
  <2> SUFFICES ASSUME Init PROVE WholeInv /\ SpaceInv
    OBVIOUS
  <2>1. WholeInv
    BY DEF Init, WholeInv, EmptyRing, EmptySlot, Fill
  <2>2. Writable = 0
    BY DEF Init, Writable
  <2>3. SpaceInv
    BY <2>2 DEF Init, SpaceInv, CapacityCheckSuffices
  <2> QED
    BY <2>1, <2>3
<1>2. /\ TypeOK /\ TypeOK' /\ RingInv /\ RingInv' /\ PlaybackInv /\ CallInv
      /\ WholeInv /\ SpaceInv /\ [Next]_vars
      => WholeInv' /\ SpaceInv'
  <2> SUFFICES ASSUME TypeOK, TypeOK', RingInv, RingInv', PlaybackInv, CallInv,
                      WholeInv, SpaceInv, [Next]_vars
               PROVE  SpaceInv'
    BY WholeKept
  <2>1. CASE Task \/ Device \/ UNCHANGED vars
    <3>1. /\ Writable \in Nat /\ Writable' \in Nat /\ Writable <= Writable'
          /\ UNCHANGED <<mainVars, shutting_down>>
      BY <2>1, WritableGrows
    <3>2. Len(src) \in Nat /\ space \in Nat
      BY DEF TypeOK, MainType
    <3> QED
      BY <3>1, <3>2 DEF SpaceInv, CapacityCheckSuffices, Fits, mainVars
  <2> QED
    BY <2>1, SpaceMain DEF Next
<1> QED
  BY <1>1, <1>2, TypeCorrect, RingInvariant, PlaybackInvariant, CallInvariant, PTL DEF Spec

(***************************************************************************)
(* After the capacity check of ahi_play_samples, the fragments that the    *)
(* rest of the write needs stay free, whatever the audio task does         *)
(* meanwhile: the loop's own check for a used fragment is never met.       *)
(***************************************************************************)
THEOREM WriteNeverCutShort == Spec => []CapacityCheckSuffices
BY SpaceInvariant, PTL DEF SpaceInv

(***************************************************************************)
(* The space that ahi_samples_free reported is there until the next call.  *)
(***************************************************************************)
THEOREM ReportedSpaceStays == Spec => []SpaceKept
<1>1. SpaceInv => SpaceKept
  BY DEF SpaceInv, SpaceKept
<1> QED
  BY <1>1, SpaceInvariant, PTL

-----------------------------------------------------------------------------
(***************************************************************************)
(* The AHI backend implements the stream AudioStream: the refinement, step *)
(* by step, on top of the invariants proved above.                         *)
(***************************************************************************)

(* The request that was sent last, until the read position advances. *)
SentReq == IF link = 0 THEN cur ELSE 3 - link

(* It plays the fragment at the read position. *)
SentInv ==
  Sent => SentReq \in Requests /\ req[SentReq].data = slot[read_buffer].data

(* The audio task sends what is at the read position, and leaves it. *)
LEMMA SentTask ==
  ASSUME TypeOK, PlaybackInv, SentInv, Task
  PROVE  SentInv'
<1>1. CASE TaskSend
  <2>1. /\ cur \in Requests /\ SentReq' = cur
        /\ slot' = slot /\ read_buffer' = read_buffer
    BY <1>1 DEF TaskSend, PlaybackInv, RequestsOut, SentReq, Requests, ringVars
  <2>2. req'[cur].data = slot[read_buffer].data
    BY <1>1, <2>1 DEF TaskSend, TypeOK, RequestType
  <2> QED
    BY <2>1, <2>2 DEF SentInv
<1>2. CASE TaskWaitLink \/ TaskWaitIO \/ TaskWaitIOBlocks \/ TaskWaitPort
  <2>1. Sent /\ SentReq' = SentReq /\ slot' = slot /\ read_buffer' = read_buffer
    BY <1>2 DEF TaskWaitLink, TaskWaitIO, TaskWaitIOBlocks, TaskWaitPort, Sent, SentReq,
                PlaybackInv, RequestsOut, ringVars
  <2>2. \A r \in Requests : req'[r].data = req[r].data
    BY <1>2 DEF TaskWaitLink, TaskWaitIO, TaskWaitIOBlocks, TaskWaitPort, Aborted,
                TypeOK, RequestType, Request
  <2> QED
    BY <2>1, <2>2 DEF SentInv
<1>3. CASE ~ (TaskSend \/ TaskWaitLink \/ TaskWaitIO \/ TaskWaitIOBlocks \/ TaskWaitPort)
  BY <1>3 DEF Task, TaskOpen, TaskOpenFails, TaskCheck, TaskAdvance, TaskIdle, TaskDrain,
              TaskDrainWait, TaskCloseDevice, TaskEnd, SentInv, Sent
<1> QED
  BY <1>1, <1>2, <1>3

(***************************************************************************)
(* The emulator never writes to the fragment at the read position while it *)
(* is being sent.                                                          *)
(***************************************************************************)
LEMMA SentMain ==
  ASSUME TypeOK, PlaybackInv, RingInv, SentInv, Main
  PROVE  SentInv'
<1>1. CASE OpenStart \/ CloseFree
  BY <1>1 DEF OpenStart, CloseFree, SentInv, Sent, PlaybackInv, LifeTime, taskVars
<1>2. CASE Copy
  <2>1. UNCHANGED <<tpc, cur, link, req, read_buffer>>
    BY <1>2 DEF Copy, taskVars, ringVars
  <2>2. ASSUME Sent PROVE slot'[read_buffer] = slot[read_buffer]
    <3>1. slot[read_buffer].used
      BY <2>2, QueuedBounds DEF RingInv, PlaybackInv, LifeTime, Sent
    <3> QED
      BY <1>2, <3>1 DEF Copy, CopyChunk, ringVars, TypeOK, RingType
  <2> QED
    BY <2>1, <2>2 DEF SentInv, SentReq, Sent
<1>3. CASE ~ (OpenStart \/ Copy \/ CloseFree)
  BY <1>3 DEF Main, OpenEnd, AskSpace, PlayStart, PlayFits, PlayRefused, PlayRetry, Wake,
              Pause, Continue, CloseStart, CloseMark, CloseSignal, CloseWait, ringVars,
              taskVars, SentInv, SentReq, Sent
<1> QED
  BY <1>1, <1>2, <1>3

(***************************************************************************)
(* The request sent last plays what the ring holds at the read position,   *)
(* until that position advances.                                           *)
(***************************************************************************)
THEOREM SentInvariant == Spec => []SentInv
<1>1. Init => SentInv
  BY DEF Init, SentInv, Sent
<1>2. TypeOK /\ PlaybackInv /\ RingInv /\ SentInv /\ [Next]_vars => SentInv'
  <2> SUFFICES ASSUME TypeOK, PlaybackInv, RingInv, SentInv, [Next]_vars PROVE SentInv'
    OBVIOUS
  <2>1. CASE UNCHANGED vars
    BY <2>1 DEF vars, taskVars, ringVars, SentInv, SentReq, Sent
  <2>2. ASSUME NEW r \in Requests, DevicePlayed(r) \/ DeviceAborted(r) PROVE SentInv'
    <3>1. UNCHANGED <<ringVars, taskVars>>
      BY <2>2 DEF DevicePlayed, DeviceAborted, Replied
    <3>2. \A q \in Requests : req'[q].data = req[q].data
      BY <2>2 DEF DevicePlayed, DeviceAborted, Replied, TypeOK, RequestType, Request
    <3> QED
      BY <3>1, <3>2 DEF ringVars, taskVars, SentInv, SentReq, Sent
  <2> QED
    BY <2>1, <2>2, SentMain, SentTask DEF Next, Device
<1> QED
  BY <1>1, <1>2, PlaybackInvariant, RingInvariant, TypeCorrect, PTL DEF Spec

(* What the device has, by the state of the ring. *)
OutOfRing ==
  IF ~ allocated THEN <<>>
  ELSE (IF prev >= 0 THEN <<slot[prev].data>> ELSE <<>>)
       \o (IF Sent THEN <<slot[read_buffer].data>> ELSE <<>>)

OutIsOfRing == outBar = OutOfRing

(* What the device has can be read off the ring. *)
LEMMA OutBar == SentInv => OutIsOfRing
BY DEF SentInv, SentReq, outBar, OutOfRing, OutIsOfRing

(* The same of the state after a step. *)
LEMMA OutBarNext == SentInv' => OutIsOfRing'
BY OutBar, PTL

(* The stream does not move when the ring does not. *)
LEMMA StreamFrame ==
  ASSUME SentInv, SentInv', UNCHANGED <<slot, read_buffer, write_buffer, prev, allocated>>,
         Sent' <=> Sent
  PROVE  UNCHANGED <<partialBar, pendingBar, outBar>>
<1>1. partialBar' = partialBar
  BY DEF partialBar, Fill
<1>2. Queued' = Queued
  BY DEF Queued
<1>3. pendingBar' = pendingBar
  BY <1>2 DEF pendingBar, Ahead
<1>4. outBar' = outBar
  BY OutBar, OutBarNext DEF OutIsOfRing, OutOfRing
<1> QED
  BY <1>1, <1>3, <1>4

(* Appending to a sequence of at most one element. *)
LEMMA AppendOne ==
  ASSUME NEW a, NEW b
  PROVE  Append(<<a>>, b) = <<a, b>> /\ Append(<<>>, b) = <<b>>
<1> DEFINE S == {a, b}
<1>1. /\ <<a>> \in Seq(S) /\ <<a, b>> \in Seq(S) /\ <<>> \in Seq(S)
      /\ <<b>> \in Seq(S) /\ b \in S
  OBVIOUS
<1> HIDE DEF S
<1>2. /\ Append(<<a>>, b) \in Seq(S) /\ Len(Append(<<a>>, b)) = 2
      /\ Append(<<a>>, b)[1] = a /\ Append(<<a>>, b)[2] = b
  BY <1>1, AppendProperties
<1>3. /\ Append(<<>>, b) \in Seq(S) /\ Len(Append(<<>>, b)) = 1
      /\ Append(<<>>, b)[1] = b
  BY <1>1, AppendProperties
<1>4. Append(<<a>>, b) = <<a, b>>
  <2>1. Len(<<a, b>>) = 2 /\ <<a, b>>[1] = a /\ <<a, b>>[2] = b
    OBVIOUS
  <2>2. \A i \in 1 .. Len(Append(<<a>>, b)) : Append(<<a>>, b)[i] = <<a, b>>[i]
    BY <1>2, <2>1
  <2> QED
    BY <1>1, <1>2, <2>1, <2>2, SeqEqual
<1>5. Append(<<>>, b) = <<b>>
  <2>1. Len(<<b>>) = 1 /\ <<b>>[1] = b
    OBVIOUS
  <2>2. \A i \in 1 .. Len(Append(<<>>, b)) : Append(<<>>, b)[i] = <<b>>[i]
    BY <1>3, <2>1
  <2> QED
    BY <1>1, <1>3, <2>1, <2>2, SeqEqual
<1> QED
  BY <1>4, <1>5

(* TaskSend hands the next fragment over. *)
LEMMA StreamSend ==
  ASSUME TypeOK, PlaybackInv, RingInv, SentInv, SentInv', TaskSend
  PROVE  Stream!Hand
<1>1. /\ tpc = "send" /\ ~ Sent /\ Sent' /\ allocated
      /\ UNCHANGED <<slot, read_buffer, write_buffer, prev, allocated>>
  BY DEF TaskSend, Sent, ringVars, PlaybackInv, LifeTime
<1>2. Queued \in 1 .. Frags /\ Queued' = Queued
  BY <1>1, QueuedBounds DEF RingInv, Queued
<1>3. pendingBar = [k \in 1 .. Queued |-> slot[Ahead(read_buffer, k - 1)].data]
  <2>1. \A k \in 1 .. Queued : 0 + k - 1 = k - 1
    BY <1>2
  <2>2. Queued - 0 = Queued
    BY <1>2
  <2> QED
    BY <1>1, <2>1, <2>2 DEF pendingBar
<1>4. pendingBar' = [k \in 1 .. Queued - 1 |-> slot[Ahead(read_buffer, k)].data]
  <2>1. \A k \in 1 .. Queued - 1 : 1 + k - 1 = k
    BY <1>2
  <2>2. pendingBar' = [k \in 1 .. Queued - 1 |-> slot[Ahead(read_buffer, 1 + k - 1)].data]
    BY <1>1, <1>2 DEF pendingBar, Ahead
  <2> QED
    BY <2>1, <2>2
<1>5. Ahead(read_buffer, 0) = read_buffer
  BY FragsAssumption DEF Ahead, TypeOK, RingType, Slots
<1>6. Head(pendingBar) = slot[read_buffer].data /\ pendingBar # <<>>
  <2>1. pendingBar[1] = slot[read_buffer].data
    BY <1>2, <1>3, <1>5
  <2>2. pendingBar # <<>>
    BY <1>2, <1>3
  <2> QED
    BY <2>1, <2>2
<1>7. Tail(pendingBar) = pendingBar'
  <2>1. pendingBar \in Seq(Chunk) /\ Len(pendingBar) = Queued /\ pendingBar # <<>>
    <3>1. \A k \in 1 .. Queued : slot[Ahead(read_buffer, k - 1)].data \in Chunk
      BY <1>2, FragsAssumption DEF Ahead, TypeOK, RingType, Slots, Fragment
    <3> QED
      BY <1>2, <1>3, <3>1
  <2>2. /\ Tail(pendingBar) \in Seq(Chunk) /\ Len(Tail(pendingBar)) = Queued - 1
        /\ \A k \in 1 .. Queued - 1 : Tail(pendingBar)[k] = pendingBar[k + 1]
    BY <2>1, HeadTailProperties
  <2>3. \A k \in 1 .. Queued - 1 : pendingBar[k + 1] = slot[Ahead(read_buffer, k)].data
    BY <1>2, <1>3
  <2>4. pendingBar' \in Seq(Chunk) /\ Len(pendingBar') = Queued - 1
    <3>1. \A k \in 1 .. Queued - 1 : slot[Ahead(read_buffer, k)].data \in Chunk
      BY <1>2, FragsAssumption DEF Ahead, TypeOK, RingType, Slots, Fragment
    <3> QED
      BY <1>2, <1>4, <3>1
  <2>5. \A k \in 1 .. Queued - 1 : pendingBar'[k] = slot[Ahead(read_buffer, k)].data
    BY <1>4
  <2>6. \A k \in 1 .. Len(Tail(pendingBar)) : Tail(pendingBar)[k] = pendingBar'[k]
    BY <2>2, <2>3, <2>5
  <2> QED
    BY <2>2, <2>4, <2>6, SeqEqual
<1>8. /\ outBar = IF prev >= 0 THEN <<slot[prev].data>> ELSE <<>>
      /\ outBar' = IF prev >= 0 THEN <<slot[prev].data, slot[read_buffer].data>>
                   ELSE <<slot[read_buffer].data>>
  BY <1>1, OutBar, OutBarNext DEF OutIsOfRing, OutOfRing
<1>9. Len(outBar) < 2 /\ outBar' = Append(outBar, Head(pendingBar))
  <2>1. \A a, b : Append(<<a>>, b) = <<a, b>> /\ Append(<<>>, b) = <<b>>
    BY AppendOne
  <2>2. CASE prev >= 0
    BY <1>6, <1>8, <2>1, <2>2
  <2>3. CASE ~ (prev >= 0)
    BY <1>6, <1>8, <2>1, <2>3
  <2> QED
    BY <2>2, <2>3
<1>10. partialBar' = partialBar
  BY <1>1 DEF partialBar, Fill
<1> QED
  BY <1>6, <1>7, <1>9, <1>10 DEF Stream!Hand

(* TaskAdvance retires the fragment played before, if there is one. *)
LEMMA StreamAdvance ==
  ASSUME TypeOK, PlaybackInv, RingInv, WholeInv, SentInv, SentInv', TaskAdvance
  PROVE  Stream!Retire \/ UNCHANGED <<partialBar, pendingBar, outBar>>
<1>1. /\ Sent /\ ~ Sent' /\ allocated /\ allocated'
      /\ prev' = read_buffer /\ read_buffer' = NextSlot(read_buffer)
      /\ write_buffer' = write_buffer
      /\ \A i \in Slots : /\ slot'[i].data = slot[i].data
                          /\ slot'[i].used <=> slot[i].used /\ i # prev
      /\ read_buffer \in Slots /\ write_buffer \in Slots /\ read_buffer >= 0
  BY DEF TaskAdvance, Sent, PlaybackInv, LifeTime, TypeOK, RingType, TaskType, Fragment, Slots
<1>2. Queued \in 1 .. Frags /\ Queued' = Queued - 1
  BY <1>1, QueuedBounds, RingAdvance
<1>3. pendingBar' = pendingBar
  <2>1. pendingBar = [k \in 1 .. Queued - 1 |-> slot[Ahead(read_buffer, 1 + k - 1)].data]
    BY <1>1 DEF pendingBar
  <2>2. pendingBar' = [k \in 1 .. Queued - 1 - 0 |->
                         slot'[Ahead(NextSlot(read_buffer), 0 + k - 1)].data]
    BY <1>1, <1>2 DEF pendingBar, Ahead
  <2>3. ASSUME NEW k \in 1 .. Queued - 1
        PROVE  slot'[Ahead(NextSlot(read_buffer), 0 + k - 1)].data
                 = slot[Ahead(read_buffer, 1 + k - 1)].data
    <3>1. /\ Ahead(NextSlot(read_buffer), 0 + k - 1) = Ahead(read_buffer, 1 + k - 1)
          /\ Ahead(read_buffer, 1 + k - 1) \in Slots
      BY <1>1, <1>2, FragsAssumption DEF Ahead, NextSlot, Slots
    <3> QED
      BY <1>1, <3>1
  <2>4. Queued - 1 - 0 = Queued - 1
    BY <1>2
  <2> QED
    BY <2>1, <2>2, <2>3, <2>4
<1>4. partialBar' = partialBar
  <2>1. Fill(slot'[write_buffer]) = Fill(slot[write_buffer])
    BY <1>1 DEF Fill
  <2>2. slot[write_buffer].used => Fill(slot[write_buffer]) = 0
    BY <1>1 DEF WholeInv, Fill
  <2> QED
    BY <1>1, <2>1, <2>2 DEF partialBar
<1>5. /\ outBar = IF prev >= 0 THEN <<slot[prev].data, slot[read_buffer].data>>
                  ELSE <<slot[read_buffer].data>>
      /\ outBar' = <<slot[read_buffer].data>>
  <2>1. outBar' = <<slot'[read_buffer].data>>
    BY <1>1, OutBarNext DEF OutIsOfRing, OutOfRing
  <2> QED
    BY <1>1, <2>1, OutBar DEF OutIsOfRing, OutOfRing
<1>6. prev >= 0 => Len(outBar) = 2 /\ outBar' = Tail(outBar)
  BY <1>5
<1> QED
  BY <1>3, <1>4, <1>5, <1>6 DEF Stream!Retire

(* As many fragments are handed over or wait as are not free to write to. *)
LEMMA StreamLength ==
  ASSUME TypeOK, RingInv, SentInv, allocated
  PROVE  /\ Len(outBar) + Len(pendingBar) = Frags - Room
         /\ pendingBar \in Seq(Chunk)
         /\ Len(pendingBar) = Queued - (IF Sent THEN 1 ELSE 0)
<1> DEFINE skip == IF Sent THEN 1 ELSE 0
           last == IF prev >= 0 THEN 1 ELSE 0
<1>1. Queued \in 0 .. Frags /\ (Sent => Queued > 0)
  BY QueuedBounds DEF RingInv
<1>2. skip \in 0 .. 1 /\ Queued - skip \in 0 .. Frags
  BY <1>1, FragsAssumption
<1>3. pendingBar = [k \in 1 .. Queued - skip |-> slot[Ahead(read_buffer, skip + k - 1)].data]
  BY DEF pendingBar
<1> HIDE DEF skip
<1>4. \A k \in 1 .. Queued - skip : slot[Ahead(read_buffer, skip + k - 1)].data \in Chunk
  <2> TAKE k \in 1 .. Queued - skip
  <2>1. skip + k - 1 \in 0 .. Frags - 1
    BY <1>1, <1>2, FragsAssumption
  <2>2. Ahead(read_buffer, skip + k - 1) \in Slots
    BY <2>1, OffAhead
  <2> QED
    BY <2>2 DEF TypeOK, RingType, Fragment
<1>5. pendingBar \in Seq(Chunk) /\ Len(pendingBar) = Queued - skip
  BY <1>2, <1>3, <1>4
<1>6. Len(outBar) = last + skip
  <2>1. outBar = (IF prev >= 0 THEN <<slot[prev].data>> ELSE <<>>)
                 \o (IF Sent THEN <<slot[read_buffer].data>> ELSE <<>>)
    BY OutBar DEF OutIsOfRing, OutOfRing
  <2>2. CASE prev >= 0
    BY <2>1, <2>2 DEF skip
  <2>3. CASE ~ (prev >= 0)
    BY <2>1, <2>3 DEF skip
  <2> QED
    BY <2>2, <2>3
<1>7. last \in 0 .. 1 /\ Room = Frags - Queued - last
  BY DEF Room
<1> HIDE DEF last
<1>8. Len(outBar) + Len(pendingBar) = Frags - Room
  BY <1>1, <1>2, <1>5, <1>6, <1>7, FragsAssumption
<1> QED
  BY <1>5, <1>8 DEF skip

(* What the fragment at the write position holds is what is collected. *)
LEMMA StreamPartial ==
  ASSUME TypeOK, allocated, ~ slot[write_buffer].used
  PROVE  partialBar = Kept
<1>1. slot[write_buffer].data \in Seq(Tag) /\ Len(slot[write_buffer].data) \in 0 .. FragSize
  BY FillBounds DEF TypeOK, RingType
<1>2. Len(slot[write_buffer].data) = 0 => slot[write_buffer].data = <<>>
  BY <1>1
<1> QED
  BY <1>1, <1>2, SizesAssumption DEF partialBar, Kept, Fill

(***************************************************************************)
(* A round of the copy loop puts a chunk on the stream.                    *)
(***************************************************************************)
LEMMA StreamCopy ==
  ASSUME TypeOK, TypeOK', RingInv, RingInv', WholeInv, WholeInv', SpaceInv, CallInv,
         SentInv, SentInv', Copy
  PROVE  \E n \in 1 .. FragSize : \E chunk \in [1 .. n -> Tag] : Stream!Put(chunk)
<1> DEFINE chunk == SubSeq(src, 1, CopyLen)
           full  == Len(Filled) = FragSize
           skip  == IF Sent THEN 1 ELSE 0
<1>1. /\ CopyChunk /\ allocated /\ ~ slot[write_buffer].used
      /\ UNCHANGED <<read_buffer, allocated, taskVars, req>>
  BY CopyFits
<1>2. /\ Queued' = IF full THEN Queued + 1 ELSE Queued
      /\ Queued < Frags /\ Off(write_buffer) = Queued
      /\ write_buffer # prev /\ (prev >= 0 => Queued + 1 < Frags)
      /\ Queued \in 0 .. Frags - 1
  BY <1>1, CopyQueued, QueuedBounds
<1>3. /\ Kept \in Seq(Tag) /\ Len(Kept) \in 0 .. FragSize - 1
      /\ src \in Seq(Tag) /\ src # <<>> /\ FragSize \in Nat \ {0}
  <2>1. src # <<>> /\ src \in Seq(Tag)
    BY DEF SpaceInv, Copy, TypeOK, MainType
  <2> QED
    BY <2>1, CopyBounds, SizesAssumption
<1>4. CopyLen \in 1 .. FragSize /\ CopyLen \in 0 .. Len(src)
  BY <1>3, CopyBounds DEF CopyLen
<1>5. chunk \in [1 .. CopyLen -> Tag] /\ Len(chunk) = CopyLen
  <2>1. chunk \in Seq(Tag) /\ Len(chunk) = CopyLen
    BY <1>3, <1>4
  <2> QED
    BY <2>1, LenProperties
<1>6. Filled = Kept \o chunk /\ Len(Filled) = Len(Kept) + Len(chunk)
      /\ Len(Filled) \in 1 .. FragSize
  BY <1>3, <1>4, <1>5, CopyBounds DEF Filled
<1>7. partialBar = Kept
  BY <1>1, StreamPartial
<1>8. Len(outBar) + Len(pendingBar) < Frags
  <2>1. Room \in 1 .. Frags
    BY <1>2, FragsAssumption DEF Room
  <2> QED
    BY <1>1, <2>1, StreamLength, FragsAssumption
<1>9. /\ slot' = [slot EXCEPT ![write_buffer] = [used |-> full, data |-> Filled]]
      /\ write_buffer' = IF full THEN NextSlot(write_buffer) ELSE write_buffer
      /\ read_buffer' = read_buffer /\ prev' = prev /\ allocated'
      /\ (Sent' <=> Sent) /\ skip' = skip
      /\ write_buffer \in Slots /\ read_buffer \in Slots
  BY <1>1 DEF CopyChunk, taskVars, Sent, TypeOK, RingType
<1> HIDE DEF chunk, full
<1>10. /\ \A i \in Slots : i # write_buffer => slot'[i] = slot[i]
       /\ slot'[write_buffer].used = full /\ slot'[write_buffer].data = Filled
  BY <1>9 DEF TypeOK, RingType
<1>11. partialBar' = IF full THEN <<>> ELSE Filled
  <2>1. CASE full
    <3>1. write_buffer' \in Slots /\ write_buffer' # write_buffer
      BY <1>9, <2>1, NextSlotDiffers
    <3>2. Fill(slot'[write_buffer']) = 0
      BY <1>10, <3>1 DEF WholeInv, Fill
    <3>3. Fill(slot[write_buffer])' = 0
      BY <3>2 DEF Fill
    <3> QED
      BY <1>9, <2>1, <3>3 DEF partialBar
  <2>2. CASE ~ full
    <3>1. write_buffer' = write_buffer /\ ~ slot'[write_buffer'].used
          /\ slot'[write_buffer'].data = Filled
      BY <1>9, <1>10, <2>2
    <3>2. Fill(slot[write_buffer])' # 0
      BY <1>6, <2>2, <3>1 DEF Fill, full
    <3> QED
      BY <1>9, <2>2, <3>1, <3>2 DEF partialBar
  <2> QED
    BY <2>1, <2>2
<1>12. outBar' = outBar
  <2>1. prev >= 0 => slot'[prev].data = slot[prev].data
    BY <1>1, <1>2, <1>10, WriteIsFree
  <2>2. Sent => slot'[read_buffer].data = slot[read_buffer].data
    <3>1. Sent => Queued > 0
      BY <1>1 DEF RingInv
    <3>2. Sent => read_buffer # write_buffer
      BY <1>2, <1>9, <3>1, QueuedBounds
    <3> QED
      BY <1>9, <1>10, <3>2
  <2> QED
    BY <1>1, <1>9, <2>1, <2>2, OutBar, OutBarNext DEF OutIsOfRing, OutOfRing
<1>13. pendingBar' = IF full THEN Append(pendingBar, Filled) ELSE pendingBar
  <2>1. skip \in 0 .. 1 /\ Queued - skip \in 0 .. Frags - 1
    <3>1. Sent => Queued > 0
      BY <1>1 DEF RingInv
    <3> QED
      BY <1>2, <3>1, FragsAssumption
  <2>2. /\ pendingBar = [k \in 1 .. Queued - skip |->
                           slot[Ahead(read_buffer, skip + k - 1)].data]
        /\ pendingBar' = [k \in 1 .. Queued' - skip |->
                           slot'[Ahead(read_buffer, skip + k - 1)].data]
    BY <1>1, <1>9 DEF pendingBar, Ahead
  <2> HIDE DEF skip
  <2>3. ASSUME NEW k \in 1 .. Queued - skip
        PROVE  slot'[Ahead(read_buffer, skip + k - 1)].data
                 = slot[Ahead(read_buffer, skip + k - 1)].data
    <3>1. skip + k - 1 \in 0 .. Frags - 1 /\ skip + k - 1 < Queued
      BY <1>2, <2>1, FragsAssumption
    <3>2. Ahead(read_buffer, skip + k - 1) \in Slots
          /\ Ahead(read_buffer, skip + k - 1) # write_buffer
      BY <1>2, <3>1, OffAhead
    <3> QED
      BY <1>10, <3>2
  <2>4. CASE ~ full
    BY <1>2, <2>2, <2>3, <2>4
  <2>5. CASE full
    <3>1. Queued' - skip = (Queued - skip) + 1
      BY <1>2, <2>1, <2>5
    <3>2. pendingBar \in Seq(Chunk) /\ Len(pendingBar) = Queued - skip
      BY <1>1, StreamLength DEF skip
    <3>3. Filled \in Chunk
      BY CopyBounds
    <3>4. slot'[Ahead(read_buffer, skip + (Queued - skip + 1) - 1)].data = Filled
      <4>1. skip + (Queued - skip + 1) - 1 = Queued
        BY <1>2, <2>1
      <4>2. Ahead(read_buffer, Queued) = write_buffer
        BY <1>2, <1>9, OffAhead
      <4> QED
        BY <1>10, <4>1, <4>2
    <3>5. /\ Append(pendingBar, Filled) \in Seq(Chunk)
          /\ Len(Append(pendingBar, Filled)) = Queued - skip + 1
          /\ \A k \in 1 .. Queued - skip : Append(pendingBar, Filled)[k] = pendingBar[k]
          /\ Append(pendingBar, Filled)[Queued - skip + 1] = Filled
      BY <3>2, <3>3, AppendProperties
    <3>6. pendingBar' = [k \in 1 .. Queued - skip + 1 |->
                           slot'[Ahead(read_buffer, skip + k - 1)].data]
      BY <2>2, <3>1
    <3>7. \A k \in 1 .. Queued - skip + 1 : pendingBar'[k] = Append(pendingBar, Filled)[k]
      <4> TAKE k \in 1 .. Queued - skip + 1
      <4>1. pendingBar'[k] = slot'[Ahead(read_buffer, skip + k - 1)].data
        BY <3>6
      <4>2. CASE k = Queued - skip + 1
        BY <3>4, <3>5, <4>1, <4>2
      <4>3. CASE k \in 1 .. Queued - skip
        BY <2>2, <2>3, <3>5, <4>1, <4>3
      <4>4. k = Queued - skip + 1 \/ k \in 1 .. Queued - skip
        <5>1. Queued - skip \in Nat
          BY <2>1, FragsAssumption
        <5> HIDE DEF Queued
        <5> QED
          BY <5>1
      <4> QED
        BY <4>2, <4>3, <4>4
    <3>8. pendingBar' \in Seq(Chunk) /\ Len(pendingBar') = Queued - skip + 1
      <4>1. \A k \in 1 .. Queued - skip + 1 : pendingBar'[k] \in Chunk
        BY <3>5, <3>7
      <4>2. pendingBar' = [k \in 1 .. Queued - skip + 1 |-> pendingBar'[k]]
        BY <3>6
      <4> QED
        BY <2>1, <4>1, <4>2
    <3>9. pendingBar' = Append(pendingBar, Filled)
      <4>1. \A k \in 1 .. Len(pendingBar') : pendingBar'[k] = Append(pendingBar, Filled)[k]
        BY <3>7, <3>8
      <4> QED
        BY <3>5, <3>8, <4>1, SeqEqual
    <3> QED
      BY <2>5, <3>9
  <2> QED
    BY <2>4, <2>5
<1>14. Stream!Put(chunk)
  <2>1. full <=> Len(partialBar) + Len(chunk) = FragSize
    BY <1>6, <1>7 DEF full
  <2>2. Len(partialBar) + Len(chunk) <= FragSize
    BY <1>6, <1>7
  <2>3. Filled = partialBar \o chunk
    BY <1>6, <1>7
  <2> QED
    BY <1>8, <1>11, <1>12, <1>13, <2>1, <2>2, <2>3 DEF Stream!Put
<1> QED
  BY <1>4, <1>5, <1>14

(* The invariants that the mapping rests on. *)
StreamInv ==
  TypeOK /\ PlaybackInv /\ CallInv /\ RingInv /\ WholeInv /\ SpaceInv /\ SentInv

(***************************************************************************)
(* Every step of the backend is one of the stream or leaves it alone.      *)
(***************************************************************************)
LEMMA StreamStep ==
  ASSUME StreamInv, StreamInv', [Next]_vars
  PROVE  Stream!StreamNext \/ UNCHANGED <<partialBar, pendingBar, outBar>>
<1> USE DEF StreamInv
<1>1. CASE OpenStart
  <2>1. ~ allocated
    BY <1>1 DEF OpenStart
  <2>2. ~ Sent' /\ prev' = -1 /\ allocated'
    BY <1>1 DEF OpenStart, Sent
  <2>3. slot' = EmptyRing /\ read_buffer' = 0 /\ write_buffer' = 0
    BY <1>1 DEF OpenStart
  <2>4. 0 \in Slots /\ EmptyRing[0] = EmptySlot
    BY FragsAssumption DEF EmptyRing, Slots
  <2>5. Queued' = 0
    BY <2>3, <2>4 DEF Queued, EmptySlot
  <2>6. pendingBar' = <<>> /\ pendingBar = <<>>
    <3>1. pendingBar' = [k \in 1 .. 0 - 0 |->
                           slot'[Ahead(read_buffer', 0 + k - 1)].data]
      BY <2>2, <2>5 DEF pendingBar, Ahead
    <3> QED
      BY <2>1, <3>1 DEF pendingBar
  <2>7. outBar' = <<>> /\ outBar = <<>>
    BY <2>1, <2>2 DEF outBar, Sent
  <2>8. partialBar' = <<>> /\ partialBar = <<>>
    <3>1. Fill(slot[write_buffer])' = 0
      BY <2>3, <2>4 DEF Fill, EmptySlot
    <3> QED
      BY <2>1, <3>1 DEF partialBar
  <2> QED
    BY <2>6, <2>7, <2>8
<1>2. CASE Copy
  BY <1>2, StreamCopy DEF Stream!StreamNext
<1>3. CASE CloseFree
  <2>1. ~ allocated'
    BY <1>3 DEF CloseFree
  <2> QED
    BY <2>1 DEF Stream!StreamNext, Stream!Reset, partialBar, pendingBar, outBar
<1>4. CASE Main /\ ~ (OpenStart \/ Copy \/ CloseFree)
  <2>1. UNCHANGED <<slot, read_buffer, write_buffer, prev, allocated, tpc>>
    BY <1>4
    DEF Main, OpenEnd, AskSpace, PlayStart, PlayFits, PlayRefused, PlayRetry, Wake, Pause,
        Continue, CloseStart, CloseMark, CloseSignal, CloseWait, ringVars, taskVars
  <2> QED
    BY <2>1, StreamFrame DEF Sent
<1>5. CASE TaskSend
  BY <1>5, StreamSend DEF Stream!StreamNext
<1>6. CASE TaskAdvance
  BY <1>6, StreamAdvance DEF Stream!StreamNext
<1>7. CASE Task /\ ~ (TaskSend \/ TaskAdvance)
  <2>1. UNCHANGED <<slot, read_buffer, write_buffer, prev, allocated>>
    BY <1>7
    DEF Task, TaskOpen, TaskOpenFails, TaskCheck, TaskWaitLink, TaskWaitIO,
        TaskWaitIOBlocks, TaskWaitPort, TaskIdle, TaskDrain, TaskDrainWait,
        TaskCloseDevice, TaskEnd, ringVars
  <2>2. Sent' <=> Sent
    BY <1>7
    DEF Task, TaskOpen, TaskOpenFails, TaskCheck, TaskWaitLink, TaskWaitIO,
        TaskWaitIOBlocks, TaskWaitPort, TaskIdle, TaskDrain, TaskDrainWait,
        TaskCloseDevice, TaskEnd, Sent
  <2> QED
    BY <2>1, <2>2, StreamFrame
<1>8. CASE Device \/ UNCHANGED vars
  <2>1. UNCHANGED <<slot, read_buffer, write_buffer, prev, allocated, tpc>>
    BY <1>8 DEF Device, DevicePlayed, DeviceAborted, Replied, vars, ringVars, taskVars
  <2> QED
    BY <2>1, StreamFrame DEF Sent
<1> QED
  BY <1>1, <1>2, <1>3, <1>4, <1>5, <1>6, <1>7, <1>8 DEF Next

(***************************************************************************)
(* The backend implements AudioStream: fragments reach ahi.device in the   *)
(* order they were written, each once and unchanged, none is dropped       *)
(* before ahi_close, and a fragment keeps its memory until the one after   *)
(* it was handed over.                                                     *)
(***************************************************************************)
THEOREM BackendImplementsStream == Spec => ImplementsStream
<1>1. Init => Stream!StreamInit
  BY DEF Init, Stream!StreamInit, partialBar, pendingBar, outBar
<1>2. StreamInv /\ StreamInv' /\ [Next]_vars => [Stream!StreamNext]_(Stream!streamVars)
  BY StreamStep DEF Stream!streamVars
<1>3. Spec => []StreamInv
  BY TypeCorrect, PlaybackInvariant, CallInvariant, RingInvariant, SpaceInvariant,
     SentInvariant, PTL DEF StreamInv
<1> QED
  BY <1>1, <1>2, <1>3, PTL DEF Spec, ImplementsStream, Stream!StreamSpec
=============================================================================
