----------------------------- MODULE DriveClock -----------------------------
(***************************************************************************)
(* The clocks of the disk drives: src/src/drive/drivecpu.c, the hooks of   *)
(* src/src/drive/drive.c and the guard of src/src/clkguard.c.              *)
(*                                                                         *)
(* A drive has a CPU and a clock of its own.  The main CPU runs ahead; at  *)
(* an access to the bus, or at the end of a frame, a drive executes what   *)
(* it is behind.  Both clocks count modulo ClockSize, and each has a guard *)
(* that subtracts from it before it wraps around: the main CPU's guard is  *)
(* followed by drivecpu_prevent_clk_overflow for every drive.              *)
(*                                                                         *)
(* due and owed are the time as it really passes: of the main CPU since    *)
(* the drive last executed, and of the drive CPU less what it executed.    *)
(***************************************************************************)
EXTENDS Integers

CONSTANTS
  NumDrives,    \* DRIVE_NUM
  ClockSize,    \* 2^32: the CLOCK of both CPUs
  ClockSubMin,  \* CLKGUARD_SUB_MIN
  SkipAfter,    \* 0xffffff: a drive that is further behind skips cycles ...
  SkipFrom,     \* 934639: ... if its own clock is past this
  Factor, One,  \* sync_factor, and 65536: drive cycles per main cycle
  OpCycles,     \* the cycles of the longest opcode
  FrameCycles,  \* the main cycles of a frame, which is far less than ClockSubMin
  MaxOwed,      \* bound: owed is told apart up to this
  MaxGuards,    \* bound: so many reductions of a drive's own clock are counted
  StartClocks,  \* bound: the main clock when the drives are reset
  Idlings       \* bound: the idling methods, of "no_idle", "trap_idle", "skip_cycles"

Drives == 0 .. NumDrives - 1

(* The guards are as clk_guard_init tests them.  What a drive executes for *)
(* a frame, and what it may be behind within the bounds, is less than half *)
(* a turn of its clock.                                                    *)
ASSUME DriveAssumption ==
  /\ NumDrives \in Nat \ {0} /\ ClockSize \in Nat /\ ClockSubMin \in Nat
  /\ SkipAfter \in Nat /\ SkipFrom \in Nat /\ FrameCycles \in Nat \ {0}
  /\ Factor \in Nat \ {0} /\ One \in Nat \ {0} /\ OpCycles \in Nat \ {0}
  /\ FrameCycles < ClockSubMin /\ ClockSubMin <= SkipAfter /\ 4 * ClockSubMin < ClockSize
  /\ Factor * FrameCycles + One <= One * (ClockSize \div 2)
  /\ StartClocks \subseteq 0 .. ClockSize - 2 - ClockSubMin
  /\ MaxGuards \in Nat /\ MaxGuards * (2 * ClockSubMin + 1) + OpCycles <= ClockSize \div 2
  /\ MaxOwed \in Nat /\ MaxOwed >= MaxGuards * (2 * ClockSubMin + 1) + OpCycles

VARIABLES
  maincpu_clk,
  drive,        \* drive_t and drivecpu_context_t of each drive
  idling,       \* idling_method of each drive
  frame         \* the main cycles since the end of the last frame

driveVars == <<maincpu_clk, drive, idling, frame>>

DriveInit ==
  /\ maincpu_clk \in StartClocks
  /\ idling \in [Drives -> Idlings]
  /\ frame = 0
  /\ drive = [d \in Drives |->
       [enable |-> TRUE, clk |-> 0, stop_clk |-> 0, last_clk |-> maincpu_clk,
        accum |-> 0, due |-> 0, owed |-> 0, guards |-> 0]]

(* clkguard.c: the drives' guards have no clk_base, the main guard's is    *)
(* the length of a frame.                                                  *)
GuardMax == ClockSize - 1 - ClockSubMin
GuardSub == GuardMax - ClockSubMin
MainSub  == (GuardSub \div FrameCycles) * FrameCycles

Guarded(clk) == IF clk < GuardMax THEN clk ELSE clk - GuardSub

Bounded(n) == IF n > MaxOwed THEN MaxOwed ELSE IF n < -MaxOwed THEN -MaxOwed ELSE n

(***************************************************************************)
(* drivecpu_wake_up, with main the clock of the main CPU: the differences  *)
(* of clocks are modulo ClockSize.                                         *)
(***************************************************************************)
Woken(r, main) ==
  IF (main - r.last_clk) % ClockSize > SkipAfter /\ r.clk > SkipFrom
  THEN [r EXCEPT !.last_clk = main, !.due = 0] ELSE r

(***************************************************************************)
(* drivecpu_execute: o is how far the last opcode goes past stop_clk.  The *)
(* comparison of clk and stop_clk is one of signed integers.               *)
(***************************************************************************)
Executed(r0, main, clk_value, o) ==
  LET r      == Woken(r0, main)
      cycles == IF clk_value > r.last_clk THEN clk_value - r.last_clk ELSE 0
      sum    == r.accum + Factor * cycles
      stop   == (r.stop_clk + sum \div One) % ClockSize
      behind == (stop - r.clk) % ClockSize
      runs   == 0 < behind /\ behind <= ClockSize \div 2
  IN  [r EXCEPT !.stop_clk = stop, !.accum = sum % One, !.last_clk = clk_value,
                !.clk = IF runs THEN (stop + o) % ClockSize ELSE @,
                !.due = 0,
                !.owed = Bounded(@ + (r.accum + Factor * r.due) \div One
                                   - (IF runs THEN behind + o ELSE 0))]

(* drive_cpu_execute_all *)
ExecutedAll(ds, main, clk_value, os) ==
  [d \in Drives |-> IF ds[d].enable THEN Executed(ds[d], main, clk_value, os[d]) ELSE ds[d]]

(* Fault: last_clk stays what it was before the main clock was reduced. *)
InSync_unmoved(ds, d, main, sub, os) ==
  IF sub = 0 THEN ds
  ELSE IF ~ ds[d].enable THEN [ds EXCEPT ![d].last_clk = main]
  ELSE IF ds[d].last_clk < sub THEN ExecutedAll(ds, main, main + sub, os) ELSE ds

(***************************************************************************)
(* drivecpu_prevent_clk_overflow of drive d: main has been reduced by sub  *)
(* already.  Then its own guard, whose callback leaves stop_clk alone.     *)
(***************************************************************************)
InSync(ds, d, main, sub, os) ==
  IF sub = 0 THEN ds
  ELSE IF ~ ds[d].enable THEN [ds EXCEPT ![d].last_clk = main]
  ELSE LET es == IF ds[d].last_clk < sub THEN ExecutedAll(ds, main, main + sub, os) ELSE ds
       IN  [es EXCEPT ![d].last_clk = @ - sub]

OwnGuard(ds, d) ==
  [ds EXCEPT ![d].clk = Guarded(@),
             ![d].guards = IF ds[d].clk >= GuardMax /\ @ <= MaxGuards THEN @ + 1 ELSE @]

(* One drive after the other *)
DrivesGuarded(ds, main, sub, os) ==
  LET guarded[n \in 0 .. NumDrives] ==
        IF n = 0 THEN ds ELSE OwnGuard(InSync(guarded[n - 1], n - 1, main, sub, os), n - 1)
  IN  guarded[NumDrives]

(* drive_vsync_hook *)
Hooked(ds, main, os) ==
  [d \in Drives |-> IF ds[d].enable /\ idling[d] # "skip_cycles"
                    THEN Executed(ds[d], main, main, os[d]) ELSE ds[d]]

Overshoots == [Drives -> 0 .. OpCycles - 1]

-----------------------------------------------------------------------------

(* The main CPU runs on. *)
MainCycles ==
  \E n \in 1 .. FrameCycles - frame :
    /\ maincpu_clk' = maincpu_clk + n /\ frame' = frame + n
    /\ drive' = [d \in Drives |->
                  [drive[d] EXCEPT !.due = IF drive[d].enable THEN @ + n ELSE 0]]
    /\ UNCHANGED idling

(* It accesses the bus: all drives catch up, or the one that is concerned. *)
BusAccess ==
  /\ \E os \in Overshoots :
       \/ drive' = ExecutedAll(drive, maincpu_clk, maincpu_clk, os)
       \/ \E d \in Drives :
            /\ drive[d].enable
            /\ drive' = [drive EXCEPT ![d] = Executed(@, maincpu_clk, maincpu_clk, os[d])]
  /\ UNCHANGED <<maincpu_clk, idling, frame>>

(* machine_vsync_hook: the drives, then the guard, then the drives' guards. *)
DriveVsync ==
  /\ frame = FrameCycles /\ frame' = 0
  /\ LET sub == IF maincpu_clk < GuardMax THEN 0 ELSE MainSub
     IN  /\ maincpu_clk' = maincpu_clk - sub
         /\ \E os \in Overshoots :
              drive' = DrivesGuarded(Hooked(drive, maincpu_clk, os), maincpu_clk', sub, os)
  /\ UNCHANGED idling

(* set_drive_true_emulation: off, and on again. *)
SetTrueDrive(on) ==
  /\ \E d \in Drives : drive[d].enable # on
  /\ drive' = [d \in Drives |->
       IF on THEN [drive[d] EXCEPT !.enable = TRUE, !.last_clk = maincpu_clk,
                                   !.stop_clk = drive[d].clk, !.due = 0, !.owed = 0,
                                   !.guards = 0]
       ELSE [drive[d] EXCEPT !.enable = FALSE, !.due = 0]]
  /\ UNCHANGED <<maincpu_clk, idling, frame>>

DriveNext == MainCycles \/ BusAccess \/ DriveVsync \/ \E on \in BOOLEAN : SetTrueDrive(on)

DriveSpec == DriveInit /\ [][DriveNext]_driveVars
-----------------------------------------------------------------------------

(* The clocks are CLOCKs and the rest of a cycle is less than one: nothing *)
(* is subtracted that is not there (drivecpu.c:260, clkguard.c:106).       *)
DriveTypeOK ==
  /\ maincpu_clk \in 0 .. ClockSize - 1
  /\ frame \in 0 .. FrameCycles
  /\ \A d \in Drives :
       /\ drive[d].clk \in 0 .. ClockSize - 1 /\ drive[d].stop_clk \in 0 .. ClockSize - 1
       /\ drive[d].last_clk \in 0 .. ClockSize - 1 /\ drive[d].accum \in 0 .. One - 1

(* A drive has executed what the main CPU has let it, but for the opcode   *)
(* that it is in, however its steps, the bus accesses and the two guards   *)
(* interleave.  Each time its own guard reduces its clock, and not         *)
(* stop_clk, it falls behind by the cycles that are missing to a whole     *)
(* turn of the clock, and no further (drivecpu.c:368, drivecpu.c:404).     *)
KeepsUp(d, late) == drive[d].owed <= late /\ drive[d].owed > - OpCycles

DrivesKeepUp ==
  \A d \in Drives :
    drive[d].enable /\ drive[d].guards <= MaxGuards =>
      KeepsUp(d, drive[d].guards * (ClockSize - GuardSub))

(* "Execute up to the current main CPU clock value" (drivecpu.c:368). *)
AlwaysKeepsUp == \A d \in Drives : drive[d].enable => KeepsUp(d, 0)
=============================================================================
