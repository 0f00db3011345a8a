---------------------------- MODULE AlarmContext ----------------------------
(***************************************************************************)
(* The alarms of a CPU: src/src/alarm.c and alarm.h, the clock guard that  *)
(* keeps the CPU's clock from overflowing (src/src/clkguard.c), and the    *)
(* loop of the CPU cores that dispatches the alarms (6510core.c).          *)
(*                                                                         *)
(* The array pending_alarms is kept as two functions on 0 .. num - 1: the  *)
(* entries behind the last one are never read.  CLOCK is unsigned and has  *)
(* the values 0 .. ClockMax; its sums and differences wrap around.         *)
(*                                                                         *)
(* The users of a context are the chips: what they set is chosen freely,   *)
(* up to Horizon cycles ahead.  The guard is called once per frame.        *)
(***************************************************************************)
EXTENDS Integers

CONSTANTS
  Alarm,        \* the alarms of the context
  NoCall,       \* no callback is running
  MaxPending,   \* ALARM_CONTEXT_MAX_PENDING_ALARMS (256)
  ClockMax,     \* CLOCK_MAX (2^32 - 1)
  SubMin,       \* CLKGUARD_SUB_MIN (1048575)
  ClkMaxValue,  \* guard->clk_max_value (CLOCK_MAX - CLKGUARD_SUB_MIN)
  ClkBase,      \* guard->clk_base, the cycles of a frame, or 0
  Frame,        \* bound: cycles between two calls of the guard
  Horizon,      \* bound: how far ahead an alarm is set
  Late,         \* bound: how late an alarm is called, at most an instruction
                \* and the cycles that callbacks steal from the CPU
  NeverEmpty    \* the context always has an alarm, as a VIC-II's has

ASSUME GuardAssumption ==
  /\ SubMin \in Nat \ {0} /\ ClockMax \in Nat /\ ClkMaxValue \in Nat
  /\ ClkMaxValue >= 3 * SubMin            \* clk_guard_init's test
  /\ ClkMaxValue + SubMin <= ClockMax     \* how every guard is created
ASSUME BaseAssumption == ClkBase \in Nat /\ ClkBase <= SubMin
ASSUME ReachAssumption ==
  /\ Frame \in Nat /\ Horizon \in Nat /\ Late \in Nat
  /\ Frame + Horizon < SubMin /\ Late <= SubMin
ASSUME PendingAssumption == MaxPending \in Nat \ {0}
ASSUME NoCallAssumption ==
  NoCall \notin [timer : Alarm, late : Int] /\ NeverEmpty \in BOOLEAN

VARIABLES
  clk,      \* *guard->clk_ptr: the clock of the CPU
  num,      \* num_pending_alarms
  who,      \* pending_alarms[].alarm
  when,     \* pending_alarms[].clk
  idx,      \* alarm->pending_idx
  nextClk,  \* next_pending_alarm_clk
  nextIdx,  \* next_pending_alarm_idx
  called,   \* the callback that runs, and the offset it was given
  slack     \* cycles left until the guard is called

context == <<num, who, when, idx, nextClk, nextIdx>>
vars    == <<clk, context, called, slack>>

Clock    == 0 .. ClockMax
Index(n) == 0 .. n - 1

Plus(c, n)  == IF c + n > ClockMax THEN c + n - (ClockMax + 1) ELSE c + n
Minus(c, n) == IF c < n THEN c + (ClockMax + 1) - n ELSE c - n

Pending(a) == idx[a] # -1

(***************************************************************************)
(* alarm_context_update_next_pending: the last of the earliest alarms.     *)
(***************************************************************************)
Earliest(n, w) ==
  CHOOSE i \in Index(n) : \A j \in Index(n) : w[i] < w[j] \/ (w[i] = w[j] /\ j <= i)

UpdateNext ==
  /\ nextIdx' = Earliest(num', when')
  /\ nextClk' = when'[Earliest(num', when')]

Init ==
  /\ clk = 0 /\ slack = Frame /\ called = NoCall
  /\ \E a \in Alarm, c \in 0 .. Horizon :
       /\ num = 1 /\ who = [i \in Index(1) |-> a] /\ when = [i \in Index(1) |-> c]
       /\ idx = [b \in Alarm |-> IF b = a THEN 0 ELSE -1]
       /\ nextClk = c /\ nextIdx = 0

(* Fault: the array is taken to be one entry longer than it is. *)
Add_overfull(a, c) ==
  /\ ~ Pending(a) /\ num <= MaxPending
  /\ who'  = [i \in Index(num + 1) |-> IF i = num THEN a ELSE who[i]]
  /\ when' = [i \in Index(num + 1) |-> IF i = num THEN c ELSE when[i]]
  /\ num'  = num + 1
  /\ idx'  = [idx EXCEPT ![a] = num]
  /\ IF c < nextClk THEN nextClk' = c /\ nextIdx' = num
                    ELSE UNCHANGED <<nextClk, nextIdx>>

(***************************************************************************)
(* alarm_set.  An alarm that does not fit is dropped with a log message,   *)
(* which changes nothing.                                                  *)
(***************************************************************************)
Add(a, c) ==
  /\ ~ Pending(a) /\ num < MaxPending
  /\ who'  = [i \in Index(num + 1) |-> IF i = num THEN a ELSE who[i]]
  /\ when' = [i \in Index(num + 1) |-> IF i = num THEN c ELSE when[i]]
  /\ num'  = num + 1
  /\ idx'  = [idx EXCEPT ![a] = num]
  /\ IF c < nextClk THEN nextClk' = c /\ nextIdx' = num
                    ELSE UNCHANGED <<nextClk, nextIdx>>

(* Fault: the next alarm is looked for only when another becomes earlier. *)
Modify_lazy(a, c) ==
  /\ Pending(a)
  /\ when' = [when EXCEPT ![idx[a]] = c]
  /\ UNCHANGED <<num, who, idx>>
  /\ IF nextClk > c THEN UpdateNext ELSE UNCHANGED <<nextClk, nextIdx>>

Modify(a, c) ==
  /\ Pending(a)
  /\ when' = [when EXCEPT ![idx[a]] = c]
  /\ UNCHANGED <<num, who, idx>>
  /\ IF nextClk > c \/ idx[a] = nextIdx THEN UpdateNext
                                        ELSE UNCHANGED <<nextClk, nextIdx>>

(* An alarm is set n cycles ahead. *)
Set(a, n) ==
  /\ Add(a, Plus(clk, n)) \/ Modify(a, Plus(clk, n))
  /\ UNCHANGED <<clk, called, slack>>

(* Fault: the alarm that was moved keeps its old index. *)
RemoveOne_stale(a) ==
  LET i == idx[a] last == num - 1 IN
  /\ num > 1
  /\ num'  = last
  /\ who'  = [j \in Index(last) |-> IF j = i THEN who[last] ELSE who[j]]
  /\ when' = [j \in Index(last) |-> IF j = i THEN when[last] ELSE when[j]]
  /\ idx'  = [idx EXCEPT ![a] = -1]
  /\ IF nextIdx = i THEN UpdateNext
     ELSE /\ nextIdx' = IF nextIdx = last THEN i ELSE nextIdx
          /\ UNCHANGED nextClk

(* alarm_unset, one of several: the last entry takes the place. *)
RemoveOne(a) ==
  LET i == idx[a] last == num - 1 IN
  /\ num > 1
  /\ num'  = last
  /\ who'  = [j \in Index(last) |-> IF j = i THEN who[last] ELSE who[j]]
  /\ when' = [j \in Index(last) |-> IF j = i THEN when[last] ELSE when[j]]
  /\ idx'  = [b \in Alarm |-> IF b = a THEN -1
                              ELSE IF b = who[last] THEN i ELSE idx[b]]
  /\ IF nextIdx = i THEN UpdateNext
     ELSE /\ nextIdx' = IF nextIdx = last THEN i ELSE nextIdx
          /\ UNCHANGED nextClk

(* alarm_unset, the only one. *)
RemoveLast(a) ==
  /\ num = 1 /\ ~ NeverEmpty
  /\ num' = 0 /\ who' = [j \in Index(0) |-> a] /\ when' = [j \in Index(0) |-> 0]
  /\ idx' = [idx EXCEPT ![a] = -1]
  /\ nextClk' = ClockMax /\ nextIdx' = -1

Unset(a) ==
  /\ Pending(a)
  /\ RemoveOne(a) \/ RemoveLast(a)
  /\ UNCHANGED <<clk, called, slack>>

(***************************************************************************)
(* The CPU executes an instruction of n cycles: PROCESS_ALARMS has called  *)
(* every alarm that is due.  A callback may steal n cycles from the CPU;   *)
(* the callback of an alarm sets it again or unsets it, so no alarm stays  *)
(* due for long.                                                           *)
(***************************************************************************)
Advance(n) ==
  /\ n <= slack /\ clk + n <= nextClk + Late
  /\ clk' = Plus(clk, n) /\ slack' = slack - n
  /\ UNCHANGED <<context, called>>

Instruction(n) == called = NoCall /\ clk < nextClk /\ Advance(n)

Steal(n) == called # NoCall /\ Advance(n)

(***************************************************************************)
(* alarm_context_dispatch: the callback gets how late it is called.  When  *)
(* the index is none the code calls through memory that holds no alarm,    *)
(* which the program does not survive: there is no such step.              *)
(***************************************************************************)
Dispatch ==
  /\ called = NoCall /\ clk >= nextClk
  /\ nextIdx \in Index(num)
  /\ called' = [timer |-> who[nextIdx], late |-> Minus(clk, nextClk)]
  /\ UNCHANGED <<clk, context, slack>>

Return ==
  /\ called # NoCall /\ called' = NoCall
  /\ UNCHANGED <<clk, context, slack>>

(* Fault: nothing is left below the clock for alarms that are late. *)
ClockSub_whole == ClkMaxValue

(* clk_guard_clock_sub: a multiple of the base, at least SubMin is left. *)
ClockSub ==
  IF ClkBase = 0 THEN ClkMaxValue - SubMin
  ELSE ((ClkMaxValue - SubMin) \div ClkBase) * ClkBase

(* Fault: the clocks of the alarms are moved, not that of the next one. *)
TimeWarp_partly(n) ==
  /\ when' = [i \in Index(num) |-> Minus(when[i], n)]
  /\ UNCHANGED <<num, who, idx, nextClk, nextIdx>>

(* alarm_context_time_warp, backwards. *)
TimeWarp(n) ==
  /\ when' = [i \in Index(num) |-> Minus(when[i], n)]
  /\ nextClk' = Minus(nextClk, n)
  /\ UNCHANGED <<num, who, idx, nextIdx>>

(* clk_guard_prevent_overflow, once per frame. *)
PreventOverflow ==
  /\ IF clk < ClkMaxValue THEN UNCHANGED <<clk, context>>
     ELSE clk' = Minus(clk, ClockSub) /\ TimeWarp(ClockSub)
  /\ slack' = Frame
  /\ UNCHANGED called

Next ==
  \/ \E a \in Alarm : Unset(a) \/ \E n \in 0 .. Horizon : Set(a, n)
  \/ \E n \in 1 .. Frame : Instruction(n) \/ Steal(n)
  \/ Dispatch \/ Return
  \/ PreventOverflow

Spec == Init /\ [][Next]_vars

-----------------------------------------------------------------------------

TypeOK ==
  /\ clk \in Clock /\ slack \in 0 .. Frame
  /\ num \in 0 .. MaxPending
  /\ who \in [Index(num) -> Alarm] /\ when \in [Index(num) -> Clock]
  /\ idx \in [Alarm -> -1 .. MaxPending - 1]
  /\ nextClk \in Clock /\ nextIdx \in -1 .. MaxPending - 1
  /\ called \in [timer : Alarm, late : Clock] \cup {NoCall}

(***************************************************************************)
(* The array and the alarms agree on who is where: the index an alarm      *)
(* keeps is the entry that holds it.  alarm_unset moves the last entry     *)
(* without looking for it, so one stale index corrupts another alarm.      *)
(***************************************************************************)
IndexesAgree ==
  /\ \A i \in Index(num) : idx[who[i]] = i
  /\ \A a \in Alarm : Pending(a) => idx[a] \in Index(num) /\ who[idx[a]] = a

(***************************************************************************)
(* "Clock tick for the next pending alarm" (alarm.h): the cached tick and  *)
(* index are those of an earliest pending alarm.  The CPU core looks at    *)
(* nothing else, so an alarm missed by the cache is not called in time.    *)
(***************************************************************************)
NextIsEarliest ==
  num > 0 => /\ nextIdx \in Index(num)
             /\ nextClk = when[nextIdx]
             /\ \A i \in Index(num) : nextClk <= when[i]

(***************************************************************************)
(* The guard leaves room: no alarm is further behind the clock than Late   *)
(* or further ahead than Horizon, whatever was subtracted, so the unsigned *)
(* comparison clk >= next_pending_alarm_clk always means "is due".         *)
(***************************************************************************)
DeadlinesNear ==
  \A i \in Index(num) : when[i] - clk \in -Late .. Horizon

(***************************************************************************)
(* Whatever its users do, no alarm is earlier than the cached tick: when a *)
(* context was empty while the guard subtracted, the tick is one at which  *)
(* nothing is due, but it never hides an alarm.                            *)
(***************************************************************************)
NoneMissed == \A i \in Index(num) : nextClk <= when[i]

Cycles == INSTANCE Timers WITH
  Timer <- Alarm, Ahead <- 0 .. Horizon, Cost <- 1 .. Frame,
  left  <- [a \in {b \in Alarm : Pending(b)} |-> when[idx[a]] - clk]

(***************************************************************************)
(* The alarm context and the clock guard implement timers that count real  *)
(* cycles: nothing the guard subtracts is seen by an alarm.                *)
(***************************************************************************)
ImplementsTimers == Cycles!TimersSpec
=============================================================================
