--------------------------- MODULE MCAlarmContext ---------------------------
(***************************************************************************)
(* AlarmContext for TLC, with a clock of 5 bits: the guard subtracts 15 or *)
(* 17 of the at most 26 the clock reaches.  Three alarms are what it takes *)
(* to remove one, move the last and keep a third as the next.              *)
(***************************************************************************)
EXTENDS AlarmContext, TLC

Symmetry == Permutations(Alarm)
=============================================================================
