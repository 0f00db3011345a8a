------------------------------- MODULE Timers -------------------------------
(***************************************************************************)
(* What alarm.c, clkguard.c and the PROCESS_ALARMS loop of the CPU cores   *)
(* promise together: timers on a clock that never overflows.  A timer that *)
(* is set has a number of cycles left; cycles pass; a timer is called when *)
(* none is left, the most overdue first, and an instruction starts only    *)
(* when no timer is due.  There is no clock value here, so the subtraction *)
(* that keeps the 32-bit clocks from overflowing must be invisible.        *)
(***************************************************************************)
EXTENDS Integers

CONSTANTS
  Timer,    \* the timers
  Ahead,    \* the numbers of cycles a timer can be set ahead
  Cost,     \* the numbers of cycles that pass in a step
  NoCall    \* no callback is running

VARIABLES
  left,     \* for each timer that is set, the cycles left until it is due
  called    \* the callback that runs: its timer and how late it is called

timers == <<left, called>>

Due(t) == t \in DOMAIN left /\ left[t] <= 0

Init == /\ \E t \in Timer, n \in Ahead : left = [u \in {t} |-> n]
        /\ called = NoCall

Set(t, n) ==
  /\ left' = [u \in DOMAIN left \cup {t} |-> IF u = t THEN n ELSE left[u]]
  /\ UNCHANGED called

Unset(t) ==
  /\ left' = [u \in DOMAIN left \ {t} |-> left[u]]
  /\ UNCHANGED called

Pass(n) == left' = [u \in DOMAIN left |-> left[u] - n]

Instruction(n) ==
  /\ called = NoCall
  /\ \A t \in Timer : ~ Due(t)
  /\ Pass(n)
  /\ UNCHANGED called

Steal(n) ==
  /\ called # NoCall
  /\ Pass(n)
  /\ UNCHANGED called

Call(t) ==
  /\ called = NoCall
  /\ Due(t)
  /\ \A u \in DOMAIN left : left[t] <= left[u]
  /\ called' = [timer |-> t, late |-> 0 - left[t]]
  /\ UNCHANGED left

Return ==
  /\ called # NoCall
  /\ called' = NoCall
  /\ UNCHANGED left

Next ==
  \/ \E t \in Timer : Unset(t) \/ Call(t)
  \/ \E t \in Timer, n \in Ahead : Set(t, n)
  \/ \E n \in Cost : Instruction(n) \/ Steal(n)
  \/ Return

TimersSpec == Init /\ [][Next]_timers
=============================================================================
