-------------------------- MODULE MCGuardedClocks --------------------------
(***************************************************************************)
(* Four users of the clock guard for TLC, each by itself: the alarms of a  *)
(* drive, interrupt lines, the clock of a drive, and the event history.    *)
(* They share no state, so a behaviour is one of one part, and the others  *)
(* stay as they were in the beginning.                                     *)
(***************************************************************************)
EXTENDS AlarmContext, InterruptLines, DriveClock, EventHistory, TLC

VARIABLE part

partVars == <<vars, lineVars, driveVars, histVars, part>>

BenchLimits ==
  {[time |-> 5, inputs |-> 2, requests |-> 6], [time |-> 6, inputs |-> 1, requests |-> 5]}

Symmetry == Permutations(Alarm) \cup Permutations(IntSource)

PartsInit ==
  /\ part \in {"alarms", "lines", "drive", "history"}
  /\ Init /\ LinesInit /\ DriveInit /\ HistInit
  /\ part # "alarms" => nextClk = 0
  /\ part # "history" => record.limit.inputs = 2

PartsNext ==
  /\ \/ part = "alarms" /\ Next /\ UNCHANGED <<lineVars, driveVars, histVars>>
     \/ part = "lines" /\ LinesNext /\ UNCHANGED <<vars, driveVars, histVars>>
     \/ part = "drive" /\ DriveNext /\ UNCHANGED <<vars, lineVars, histVars>>
     \/ part = "history" /\ HistNext /\ UNCHANGED <<vars, lineVars, driveVars>>
  /\ UNCHANGED part

PartsSpec == PartsInit /\ [][PartsNext]_partVars
-----------------------------------------------------------------------------

(* The types of the four: a full array of alarms drops the alarm and has   *)
(* no entry behind its end (alarm.h:162), no warp takes a clock below 0    *)
(* (interrupt.c:145, clkguard.c:134), and the list that is recorded ends   *)
(* with what current points to (event.c:321).                              *)
PartsTypeOK == TypeOK /\ LinesTypeOK /\ DriveTypeOK /\ HistTypeOK
=============================================================================
