------------------------ MODULE GuardedClocksProofs ------------------------
(***************************************************************************)
(* Proofs about the users of the clock guard: the alarms, for any set of   *)
(* alarms, any size of the array and of the clock, and any guard as the    *)
(* code creates it; the interrupt lines, for any finite set of sources;    *)
(* the clocks of the drives, for any number of drives, any size of the     *)
(* clocks, any factor between them and any length of a frame; and, with    *)
(* HistoryProofs, the four users of MCGuardedClocks side by side.          *)
(***************************************************************************)
EXTENDS MCGuardedClocks, HistoryProofs

-----------------------------------------------------------------------------
(***************************************************************************)
(* The alarms.                                                             *)
(***************************************************************************)
(* A number is rounded down to a multiple by less than the base. *)
LEMMA Multiple ==
  ASSUME NEW m \in Nat, NEW b \in Nat \ {0}
  PROVE  /\ (m \div b) * b \in Nat
         /\ (m \div b) * b <= m
         /\ (m \div b) * b > m - b
<1>1. m \div b \in Nat
  <2>1. m \div b \in Int
    OBVIOUS
  <2>2. m \div b >= 0
    OBVIOUS
  <2> QED
    BY <2>1, <2>2
<1>2. (m \div b) * b <= m
  BY Z3
<1>3. (m \div b) * b > m - b
  OBVIOUS
<1>4. (m \div b) * b \in Nat
  BY <1>1
<1> QED
  BY <1>2, <1>3, <1>4

(***************************************************************************)
(* What the guard subtracts leaves at least SubMin cycles below the clock, *)
(* and takes off more than a frame.                                        *)
(***************************************************************************)
LEMMA ClockSubBounds ==
  ClockSub \in Nat /\ ClockSub >= SubMin /\ ClockSub <= ClkMaxValue - SubMin
<1> DEFINE m == ClkMaxValue - SubMin
           s == (m \div ClkBase) * ClkBase
<1>1. m \in Nat /\ m >= 2 * SubMin /\ SubMin \in Nat
  BY GuardAssumption
<1>2. CASE ClkBase = 0
  BY <1>1, <1>2 DEF ClockSub
<1>3. CASE ClkBase # 0
  <2>1. ClkBase \in Nat \ {0} /\ ClkBase <= SubMin
    BY <1>3, BaseAssumption
  <2>2. s \in Nat /\ s <= m /\ s > m - ClkBase
    <3> HIDE DEF m
    <3> QED
      BY <1>1, <2>1, Multiple
  <2>3. ClockSub = s
    BY <1>3 DEF ClockSub
  <2> HIDE DEF m, s
  <2>4. ClockSub \in Nat /\ ClockSub >= SubMin /\ ClockSub <= m
    BY <1>1, <2>1, <2>2, <2>3
  <2> QED
    BY <2>4 DEF m
<1> QED
  BY <1>2, <1>3

(***************************************************************************)
(* The search of alarm_context_update_next_pending finds an earliest alarm *)
(* whenever one is pending.                                                *)
(***************************************************************************)
LEMMA EarliestFound ==
  ASSUME NEW n \in Nat \ {0}, NEW w, w \in [Index(n) -> Clock]
  PROVE  /\ Earliest(n, w) \in Index(n)
         /\ \A j \in Index(n) : w[Earliest(n, w)] <= w[j]
<1> DEFINE V == {w[i] : i \in Index(n)}
<1>1. /\ V \subseteq 0 .. ClockMax /\ V # {} /\ ClockMax \in Nat
      /\ 0 \in Index(n)
  BY GuardAssumption DEF Clock, Index
<1>2. PICK v \in V : \A u \in V : v <= u
  <2> HIDE DEF V
  <2> QED
    BY <1>1, LeastElement
<1> DEFINE B == {k \in 0 .. n - 1 : w[n - 1 - k] = v}
<1>3. B # {} /\ B \subseteq 0 .. n - 1 /\ n - 1 \in Nat
  <2>1. PICK i \in Index(n) : w[i] = v
    OBVIOUS
  <2>2. n - 1 - i \in 0 .. n - 1 /\ n - 1 - (n - 1 - i) = i
    BY DEF Index
  <2>3. n - 1 - i \in B
    BY <2>1, <2>2
  <2> QED
    BY <2>3
<1>4. PICK k \in B : \A l \in B : k <= l
  <2> HIDE DEF B
  <2> QED
    BY <1>3, LeastElement
<1> DEFINE e == n - 1 - k
<1>5. e \in Index(n) /\ w[e] = v
  BY DEF Index
<1>6. ASSUME NEW j \in Index(n)
      PROVE  w[e] < w[j] \/ (w[e] = w[j] /\ j <= e)
  <2>1. w[j] \in Nat /\ v \in Nat /\ v <= w[j]
    BY <1>1, <1>2 DEF Clock
  <2>2. CASE w[j] = v
    <3>1. n - 1 - j \in B
      BY <2>2 DEF Index
    <3>2. k <= n - 1 - j
      BY <3>1, <1>4
    <3> QED
      BY <3>2, <1>5, <2>2 DEF Index
  <2> QED
    BY <2>1, <2>2, <1>5
<1>7. \E i \in Index(n) : \A j \in Index(n) : w[i] < w[j] \/ (w[i] = w[j] /\ j <= i)
  <2> HIDE DEF e
  <2> QED
    BY <1>5, <1>6
<1>8. /\ Earliest(n, w) \in Index(n)
      /\ \A j \in Index(n) : \/ w[Earliest(n, w)] < w[j]
                             \/ w[Earliest(n, w)] = w[j] /\ j <= Earliest(n, w)
  BY <1>7 DEF Earliest
<1>9. \A j \in Index(n) : w[j] \in Int
  BY GuardAssumption DEF Clock
<1> QED
  BY <1>8, <1>9

(* The clock's sums and differences are clock values. *)
LEMMA ClockOperations ==
  ASSUME NEW c \in Clock, NEW n \in Clock
  PROVE  Plus(c, n) \in Clock /\ Minus(c, n) \in Clock
BY GuardAssumption DEF Clock, Plus, Minus

LEMMA SmallNumbers ==
  /\ Frame \in Clock /\ Horizon \in Clock /\ ClockSub \in Clock
  /\ 0 .. Horizon \subseteq Clock /\ 1 .. Frame \subseteq Clock
  /\ 0 \in Clock /\ ClockMax \in Clock
BY GuardAssumption, ReachAssumption, ClockSubBounds DEF Clock

(* The parts of TypeOK about the context. *)
ContextType ==
  /\ num \in 0 .. MaxPending
  /\ who \in [Index(num) -> Alarm] /\ when \in [Index(num) -> Clock]
  /\ idx \in [Alarm -> -1 .. MaxPending - 1]
  /\ nextClk \in Clock /\ nextIdx \in -1 .. MaxPending - 1

(***************************************************************************)
(* Adding an alarm, modifying one and removing one keep the types and the  *)
(* agreement of indexes and entries.                                       *)
(***************************************************************************)
LEMMA AddIndexes ==
  ASSUME ContextType, IndexesAgree, NEW a \in Alarm, NEW c \in Clock, Add(a, c)
  PROVE  ContextType' /\ IndexesAgree'
<1>1. /\ num \in Nat /\ num < MaxPending /\ num' = num + 1 /\ MaxPending \in Nat
      /\ idx[a] = -1
  BY PendingAssumption DEF ContextType, Add, Pending
<1>2. num' \in 0 .. MaxPending /\ num \in -1 .. MaxPending - 1 /\ num \in Index(num')
  BY <1>1 DEF Index
<1>3. \A i \in Index(num') : i = num \/ i \in Index(num)
  BY <1>1 DEF Index
<1>4. who' \in [Index(num') -> Alarm] /\ when' \in [Index(num') -> Clock]
  BY <1>1, <1>3 DEF ContextType, Add
<1>5. idx' \in [Alarm -> -1 .. MaxPending - 1]
  BY <1>2 DEF ContextType, Add
<1>6. nextClk' \in Clock /\ nextIdx' \in -1 .. MaxPending - 1
  BY <1>2 DEF ContextType, Add
<1>7. \A i \in Index(num) : who'[i] = who[i] /\ i \in Index(num') /\ i # num
  BY <1>1 DEF Add, Index
<1>8. who'[num] = a /\ idx'[a] = num /\ \A b \in Alarm : b # a => idx'[b] = idx[b]
  BY <1>2 DEF Add, ContextType
<1>9. \A i \in Index(num') : idx'[who'[i]] = i
  <2> SUFFICES ASSUME NEW i \in Index(num') PROVE idx'[who'[i]] = i
    OBVIOUS
  <2>1. CASE i = num
    BY <2>1, <1>8
  <2>2. CASE i \in Index(num)
    <3>1. idx[who[i]] = i /\ i # -1 /\ who[i] \in Alarm
      BY <2>2 DEF IndexesAgree, Index, ContextType
    <3> QED
      BY <3>1, <2>2, <1>7, <1>8, <1>1
  <2> QED
    BY <2>1, <2>2, <1>3
<1>10. \A b \in Alarm : idx'[b] # -1 => idx'[b] \in Index(num') /\ who'[idx'[b]] = b
  <2> SUFFICES ASSUME NEW b \in Alarm, idx'[b] # -1
               PROVE  idx'[b] \in Index(num') /\ who'[idx'[b]] = b
    OBVIOUS
  <2>1. CASE b = a
    BY <2>1, <1>2, <1>8
  <2>2. CASE b # a
    <3>1. idx'[b] = idx[b]
      BY <2>2, <1>8
    <3>2. idx[b] \in Index(num) /\ who[idx[b]] = b
      BY <3>1 DEF IndexesAgree, Pending
    <3> QED
      BY <3>1, <3>2, <1>7
  <2> QED
    BY <2>1, <2>2
<1> QED
  BY <1>2, <1>4, <1>5, <1>6, <1>9, <1>10 DEF ContextType, IndexesAgree, Pending

LEMMA ModifyIndexes ==
  ASSUME ContextType, IndexesAgree, NEW a \in Alarm, NEW c \in Clock, Modify(a, c)
  PROVE  ContextType' /\ IndexesAgree'
<1>1. UNCHANGED <<num, who, idx>> /\ idx[a] \in Index(num)
  BY DEF Modify, IndexesAgree, Pending
<1>2. when' \in [Index(num) -> Clock]
  BY <1>1 DEF Modify, ContextType
<1>3. num \in Nat \ {0} /\ num <= MaxPending /\ MaxPending \in Nat
  BY <1>1, PendingAssumption DEF ContextType, Index
<1>4. nextClk' \in Clock /\ nextIdx' \in -1 .. MaxPending - 1
  <2>1. Earliest(num, when') \in Index(num)
    BY <1>2, <1>3, EarliestFound
  <2>2. Index(num) \subseteq -1 .. MaxPending - 1
    BY <1>3 DEF Index
  <2>3. CASE UpdateNext
    BY <2>1, <2>2, <2>3, <1>1, <1>2 DEF UpdateNext
  <2>4. CASE UNCHANGED <<nextClk, nextIdx>>
    BY <2>4 DEF ContextType
  <2> QED
    BY <2>3, <2>4 DEF Modify
<1> QED
  BY <1>1, <1>2, <1>4 DEF ContextType, IndexesAgree, Pending

LEMMA RemoveOneIndexes ==
  ASSUME ContextType, IndexesAgree, NEW a \in Alarm, Pending(a), RemoveOne(a)
  PROVE  ContextType' /\ IndexesAgree'
<1> DEFINE i == idx[a]
           last == num - 1
<1>1. /\ num \in Nat /\ num > 1 /\ num' = last /\ num <= MaxPending
      /\ MaxPending \in Nat /\ last \in Nat \ {0} /\ last \in Index(num)
      /\ i \in Index(num) /\ i \in Nat /\ i <= last /\ who[i] = a
  BY PendingAssumption DEF ContextType, RemoveOne, IndexesAgree, Index
<1>2. /\ who' = [j \in Index(last) |-> IF j = i THEN who[last] ELSE who[j]]
      /\ when' = [j \in Index(last) |-> IF j = i THEN when[last] ELSE when[j]]
      /\ idx' = [b \in Alarm |-> IF b = a THEN -1
                                 ELSE IF b = who[last] THEN i ELSE idx[b]]
  BY DEF RemoveOne
<1>3. Index(last) \subseteq Index(num) /\ \A j \in Index(num) : j = last \/ j \in Index(last)
  BY <1>1 DEF Index
<1>4. who' \in [Index(last) -> Alarm] /\ when' \in [Index(last) -> Clock]
  BY <1>1, <1>2, <1>3 DEF ContextType
<1>5. i \in -1 .. MaxPending - 1 /\ -1 \in -1 .. MaxPending - 1 /\ last \in 0 .. MaxPending
  BY <1>1
<1>6. idx' \in [Alarm -> -1 .. MaxPending - 1]
  BY <1>2, <1>5 DEF ContextType
<1>7. nextClk' \in Clock /\ nextIdx' \in -1 .. MaxPending - 1
  <2>1. Earliest(last, when') \in Index(last)
    BY <1>1, <1>4, EarliestFound
  <2>2. Index(last) \subseteq -1 .. MaxPending - 1
    BY <1>1 DEF Index
  <2>3. CASE UpdateNext
    BY <2>1, <2>2, <2>3, <1>1, <1>4 DEF UpdateNext
  <2>4. CASE /\ nextIdx' = IF nextIdx = last THEN i ELSE nextIdx
             /\ UNCHANGED nextClk
    BY <2>4, <1>5 DEF ContextType
  <2> QED
    BY <2>3, <2>4 DEF RemoveOne
<1>8. \A j \in Index(num) : who[j] \in Alarm /\ idx[who[j]] = j
  BY DEF IndexesAgree, ContextType
<1>9. \A j \in Index(last) : idx'[who'[j]] = j
  <2> SUFFICES ASSUME NEW j \in Index(last) PROVE idx'[who'[j]] = j
    OBVIOUS
  <2>1. j # last
    BY <1>1 DEF Index
  <2>2. CASE j = i
    <3>1. who'[j] = who[last] /\ who[last] # a
      BY <2>1, <2>2, <1>1, <1>2, <1>8
    <3> QED
      BY <3>1, <2>2, <1>1, <1>2, <1>8
  <2>3. CASE j # i
    <3>1. who'[j] = who[j] /\ who[j] # a /\ who[j] # who[last]
      BY <2>1, <2>3, <1>1, <1>2, <1>3, <1>8
    <3> QED
      BY <3>1, <1>2, <1>3, <1>8
  <2> QED
    BY <2>2, <2>3
<1>10. \A b \in Alarm : idx'[b] # -1 => idx'[b] \in Index(last) /\ who'[idx'[b]] = b
  <2> SUFFICES ASSUME NEW b \in Alarm, idx'[b] # -1
               PROVE  idx'[b] \in Index(last) /\ who'[idx'[b]] = b
    OBVIOUS
  <2>1. b # a
    BY <1>2
  <2>2. CASE b = who[last]
    <3>1. i \in Index(last)
      BY <2>1, <2>2, <1>1, <1>3
    <3> QED
      BY <3>1, <2>1, <2>2, <1>2
  <2>3. CASE b # who[last]
    <3>1. idx'[b] = idx[b]
      BY <2>1, <2>3, <1>2
    <3>2. idx[b] \in Index(num) /\ who[idx[b]] = b
      BY <3>1 DEF IndexesAgree, Pending
    <3>3. idx[b] \in Index(last) /\ idx[b] # i
      BY <3>2, <2>1, <2>3, <1>1, <1>3
    <3> QED
      BY <3>1, <3>2, <3>3, <1>2
  <2> QED
    BY <2>2, <2>3
<1> QED
  BY <1>1, <1>4, <1>5, <1>6, <1>7, <1>9, <1>10 DEF ContextType, IndexesAgree, Pending

LEMMA RemoveLastIndexes ==
  ASSUME ContextType, IndexesAgree, NEW a \in Alarm, Pending(a), RemoveLast(a)
  PROVE  ContextType' /\ IndexesAgree'
<1>1. num = 1 /\ num' = 0 /\ Index(0) = {} /\ MaxPending \in Nat
  BY PendingAssumption DEF RemoveLast, Index
<1>2. who' \in [Index(num') -> Alarm] /\ when' \in [Index(num') -> Clock]
  BY <1>1 DEF RemoveLast
<1>3. idx' = [idx EXCEPT ![a] = -1] /\ -1 \in -1 .. MaxPending - 1 /\ 0 \in 0 .. MaxPending
  BY <1>1 DEF RemoveLast
<1>4. idx' \in [Alarm -> -1 .. MaxPending - 1]
  BY <1>3 DEF ContextType
<1>5. nextClk' \in Clock /\ nextIdx' \in -1 .. MaxPending - 1
  BY <1>3, SmallNumbers DEF RemoveLast
<1>6. \A b \in Alarm : idx'[b] = -1
  <2> SUFFICES ASSUME NEW b \in Alarm, b # a PROVE idx[b] = -1
    BY <1>3 DEF ContextType
  <2>1. \A d \in Alarm : idx[d] # -1 => idx[d] = 0 /\ who[idx[d]] = d
    BY <1>1 DEF IndexesAgree, Pending, Index
  <2> QED
    BY <2>1 DEF Pending
<1> QED
  BY <1>1, <1>2, <1>3, <1>4, <1>5, <1>6 DEF ContextType, IndexesAgree, Pending

(* The guard moves clocks and leaves the entries where they are. *)
LEMMA TimeWarpIndexes ==
  ASSUME ContextType, IndexesAgree, NEW n \in Clock, TimeWarp(n)
  PROVE  ContextType' /\ IndexesAgree'
<1>1. UNCHANGED <<num, who, idx, nextIdx>>
  BY DEF TimeWarp
<1>2. when' \in [Index(num) -> Clock] /\ nextClk' \in Clock
  BY ClockOperations DEF TimeWarp, ContextType
<1> QED
  BY <1>1, <1>2 DEF ContextType, IndexesAgree, Pending

(***************************************************************************)
(* The types, and the agreement of the array with the alarms.              *)
(***************************************************************************)
IndexInv == TypeOK /\ IndexesAgree

LEMMA IndexInit == Init => IndexInv
<1> SUFFICES ASSUME Init PROVE IndexInv
  OBVIOUS
<1>1. PICK a \in Alarm, c \in 0 .. Horizon :
        /\ num = 1 /\ who = [i \in Index(1) |-> a] /\ when = [i \in Index(1) |-> c]
        /\ idx = [b \in Alarm |-> IF b = a THEN 0 ELSE -1]
        /\ nextClk = c /\ nextIdx = 0
  BY DEF Init
<1>2. c \in Clock /\ Index(1) = {0}
  BY SmallNumbers DEF Index
<1>3. 0 \in -1 .. MaxPending - 1 /\ -1 \in -1 .. MaxPending - 1 /\ 1 \in 0 .. MaxPending
  BY PendingAssumption
<1>4. clk \in Clock /\ slack \in 0 .. Frame /\ called = NoCall
  BY SmallNumbers, ReachAssumption DEF Init
<1>5. who \in [Index(num) -> Alarm] /\ when \in [Index(num) -> Clock]
  BY <1>1, <1>2
<1>6. idx \in [Alarm -> -1 .. MaxPending - 1]
  BY <1>1, <1>3
<1>7. TypeOK
  BY <1>1, <1>2, <1>3, <1>4, <1>5, <1>6 DEF TypeOK
<1>8. IndexesAgree
  BY <1>1, <1>2 DEF IndexesAgree, Pending
<1> QED
  BY <1>7, <1>8 DEF IndexInv

LEMMA IndexStep == IndexInv /\ [Next]_vars => IndexInv'
<1> SUFFICES ASSUME IndexInv, [Next]_vars PROVE IndexInv'
  OBVIOUS
<1>1. ContextType /\ IndexesAgree
  BY DEF IndexInv, TypeOK, ContextType
<1>2. /\ clk \in Clock /\ slack \in 0 .. Frame
      /\ called \in [timer : Alarm, late : Clock] \cup {NoCall}
  BY DEF IndexInv, TypeOK
<1>3. CASE UNCHANGED vars
  BY <1>3 DEF vars, context, IndexInv, TypeOK, IndexesAgree, Pending
<1>4. ASSUME NEW a \in Alarm, Unset(a) PROVE IndexInv'
  <2>1. ContextType' /\ IndexesAgree'
    BY <1>1, <1>4, RemoveOneIndexes, RemoveLastIndexes DEF Unset
  <2> QED
    BY <2>1, <1>2, <1>4 DEF Unset, IndexInv, TypeOK, ContextType
<1>5. ASSUME NEW a \in Alarm, NEW n \in 0 .. Horizon, Set(a, n) PROVE IndexInv'
  <2>1. Plus(clk, n) \in Clock
    BY <1>2, SmallNumbers, ClockOperations
  <2>2. ContextType' /\ IndexesAgree'
    BY <1>1, <1>5, <2>1, AddIndexes, ModifyIndexes DEF Set
  <2> QED
    BY <2>2, <1>2, <1>5 DEF Set, IndexInv, TypeOK, ContextType
<1>6. ASSUME NEW n \in 1 .. Frame, Advance(n) PROVE IndexInv'
  <2>1. Plus(clk, n) \in Clock
    BY <1>2, SmallNumbers, ClockOperations
  <2>2. slack - n \in 0 .. Frame
    BY <1>2, <1>6, ReachAssumption DEF Advance
  <2> QED
    BY <2>1, <2>2, <1>2, <1>6 DEF Advance, context, IndexInv, TypeOK, IndexesAgree, Pending
<1>7. CASE Dispatch
  <2>1. Minus(clk, nextClk) \in Clock
    BY <1>1, <1>2, ClockOperations DEF ContextType
  <2>2. who[nextIdx] \in Alarm
    BY <1>1, <1>7 DEF Dispatch, ContextType
  <2>3. called' \in [timer : Alarm, late : Clock]
    BY <2>1, <2>2, <1>7 DEF Dispatch
  <2> QED
    BY <2>3, <1>7 DEF Dispatch, context, IndexInv, TypeOK, IndexesAgree, Pending
<1>8. CASE Return
  BY <1>8 DEF Return, context, IndexInv, TypeOK, IndexesAgree, Pending
<1>9. CASE PreventOverflow
  <2>1. slack' \in 0 .. Frame /\ called' = called
    BY <1>9, ReachAssumption DEF PreventOverflow
  <2>2. clk' \in Clock
    BY <1>2, <1>9, SmallNumbers, ClockOperations DEF PreventOverflow
  <2>3. ContextType' /\ IndexesAgree'
    <3>1. CASE UNCHANGED context
      BY <3>1, <1>1 DEF context, ContextType, IndexesAgree, Pending
    <3>2. CASE TimeWarp(ClockSub)
      BY <3>2, <1>1, SmallNumbers, TimeWarpIndexes
    <3> QED
      BY <3>1, <3>2, <1>9 DEF PreventOverflow
  <2> QED
    BY <2>1, <2>2, <2>3, <1>2 DEF IndexInv, TypeOK, ContextType
<1> QED
  BY <1>3, <1>4, <1>5, <1>6, <1>7, <1>8, <1>9 DEF Next, Instruction, Steal

(***************************************************************************)
(* The types, whatever the users of the context do.                        *)
(***************************************************************************)
THEOREM AlarmTypes == Spec => []TypeOK
<1>1. IndexInv => TypeOK
  BY DEF IndexInv
<1> QED
  BY <1>1, IndexInit, IndexStep, PTL DEF Spec

(***************************************************************************)
(* The index an alarm keeps is that of its entry, whatever is set, unset   *)
(* and subtracted: alarm_unset never damages another alarm.                *)
(***************************************************************************)
THEOREM AlarmIndexes == Spec => []IndexesAgree
<1>1. IndexInv => IndexesAgree
  BY DEF IndexInv
<1> QED
  BY <1>1, IndexInit, IndexStep, PTL DEF Spec

(***************************************************************************)
(* The invariant of the clock: it stays a frame around what the guard      *)
(* lets pass, close behind the cached tick, which no alarm is before.      *)
(***************************************************************************)
ClockInv ==
  /\ clk + slack < ClkMaxValue + Frame
  /\ clk <= nextClk + Late
  /\ DeadlinesNear
  /\ NoneMissed

LEMMA ClockInit == Init => ClockInv
<1> SUFFICES ASSUME Init PROVE ClockInv
  OBVIOUS
<1>1. PICK a \in Alarm, c \in 0 .. Horizon :
        num = 1 /\ when = [i \in Index(1) |-> c] /\ nextClk = c
  BY DEF Init
<1>2. clk = 0 /\ slack = Frame /\ Index(1) = {0}
  BY DEF Init, Index
<1>3. 0 < ClkMaxValue /\ Frame \in Nat /\ Horizon \in Nat /\ Late \in Nat /\ ClkMaxValue \in Nat
  BY GuardAssumption, ReachAssumption
<1>4. clk + slack < ClkMaxValue + Frame /\ clk <= nextClk + Late
  BY <1>1, <1>2, <1>3
<1>5. when[0] = c /\ c - 0 \in -Late .. Horizon
  BY <1>1, <1>2, <1>3
<1>6. DeadlinesNear
  BY <1>1, <1>2, <1>5 DEF DeadlinesNear
<1>7. NoneMissed
  BY <1>1, <1>2, <1>3, <1>5 DEF NoneMissed
<1> QED
  BY <1>4, <1>6, <1>7 DEF ClockInv

(* What is set is ahead of the clock, without a wrap-around. *)
LEMMA SetTime ==
  ASSUME TypeOK, ClockInv, NEW n \in 0 .. Horizon
  PROVE  Plus(clk, n) = clk + n /\ clk + n < ClockMax
BY GuardAssumption, ReachAssumption DEF TypeOK, ClockInv, Clock, Plus

(***************************************************************************)
(* When the entries are all near the clock and the next one is searched    *)
(* for, the cached tick is close to the clock and hides no alarm.          *)
(***************************************************************************)
LEMMA UpdateClock ==
  ASSUME TypeOK, TypeOK', UNCHANGED <<clk, slack>>, num' \in Nat \ {0}, DeadlinesNear', UpdateNext
  PROVE  clk' <= nextClk' + Late /\ NoneMissed'
<1>1. when' \in [Index(num') -> Clock] /\ clk' \in Int
  BY GuardAssumption DEF TypeOK, Clock
<1> DEFINE e == Earliest(num', when')
<1>2. e \in Index(num') /\ \A j \in Index(num') : when'[e] <= when'[j]
  BY <1>1, EarliestFound
<1>3. nextClk' = when'[e]
  BY DEF UpdateNext
<1>4. when'[e] - clk' \in -Late .. Horizon /\ when'[e] \in Int
  BY <1>1, <1>2, GuardAssumption DEF DeadlinesNear, Clock
<1>5. clk' <= nextClk' + Late
  BY <1>1, <1>3, <1>4, ReachAssumption
<1> QED
  BY <1>2, <1>3, <1>5 DEF NoneMissed

LEMMA AddClock ==
  ASSUME TypeOK, ClockInv, NEW a \in Alarm, NEW c \in Clock,
         c - clk \in 0 .. Horizon, Add(a, c), UNCHANGED <<clk, slack>>
  PROVE  ClockInv'
<1>1. /\ num \in Nat /\ clk \in Int /\ nextClk \in Int /\ slack \in Int /\ c \in Int
      /\ Late \in Nat /\ Horizon \in Nat /\ when \in [Index(num) -> Clock]
      /\ c >= clk
  BY GuardAssumption, ReachAssumption DEF TypeOK, Clock
<1>2. \A i \in Index(num) : when[i] \in Int
  BY <1>1, GuardAssumption DEF Clock
<1>3. /\ num' = num + 1
      /\ when' = [i \in Index(num') |-> IF i = num THEN c ELSE when[i]]
  BY DEF Add
<1>4. \A i \in Index(num') : when'[i] = c \/ (i \in Index(num) /\ when'[i] = when[i])
  <2>1. ASSUME NEW k \in Nat, NEW i \in Index(k + 1) PROVE i = k \/ (i \in Index(k) /\ i # k)
    BY DEF Index
  <2>2. num \in Nat
    BY <1>1
  <2>3. \A i \in Index(num') : i = num \/ (i \in Index(num) /\ i # num)
    BY <1>3, <2>1, <2>2
  <2> QED
    BY <1>3, <2>3
<1>5. nextClk' \in Int /\ nextClk' <= c /\ nextClk' <= nextClk /\ (nextClk' = c \/ nextClk' = nextClk)
  BY <1>1 DEF Add
<1>6. DeadlinesNear'
  <2>1. c - clk \in -Late .. Horizon
    BY <1>1
  <2> QED
    BY <1>4, <2>1 DEF ClockInv, DeadlinesNear
<1>7. NoneMissed'
  <2> SUFFICES ASSUME NEW i \in Index(num') PROVE nextClk' <= when'[i]
    BY DEF NoneMissed
  <2>1. CASE when'[i] = c
    BY <2>1, <1>5
  <2>2. CASE i \in Index(num) /\ when'[i] = when[i]
    <3>1. nextClk <= when[i]
      BY <2>2 DEF ClockInv, NoneMissed
    <3> QED
      BY <2>2, <3>1, <1>1, <1>2, <1>5
  <2> QED
    BY <2>1, <2>2, <1>4
<1>8. clk' <= nextClk' + Late
  <2>1. clk' = clk /\ clk <= nextClk + Late
    BY DEF ClockInv
  <2>2. clk \in Int /\ nextClk \in Int /\ c \in Int /\ Late \in Nat /\ clk <= c
    BY <1>1
  <2>3. clk <= c + Late
    BY <2>2
  <2> QED
    BY <1>5, <2>1, <2>3
<1>9. clk' + slack' < ClkMaxValue + Frame
  BY DEF ClockInv
<1> QED
  BY <1>6, <1>7, <1>8, <1>9 DEF ClockInv

LEMMA ModifyClock ==
  ASSUME TypeOK, TypeOK', IndexesAgree, ClockInv, NEW a \in Alarm, NEW c \in Clock,
         c - clk \in 0 .. Horizon, Modify(a, c), UNCHANGED <<clk, slack>>
  PROVE  ClockInv'
<1>1. /\ num \in Nat \ {0} /\ clk \in Int /\ nextClk \in Int /\ c \in Int
      /\ Late \in Nat /\ Horizon \in Nat /\ c >= clk /\ num' = num
      /\ idx[a] \in Index(num) /\ when' = [when EXCEPT ![idx[a]] = c]
      /\ when \in [Index(num) -> Clock]
  BY GuardAssumption, ReachAssumption DEF TypeOK, Clock, Modify, IndexesAgree, Pending, Index
<1>2. \A i \in Index(num) : when[i] \in Int /\ (when'[i] = c \/ when'[i] = when[i])
  BY <1>1, GuardAssumption DEF Clock
<1>3. DeadlinesNear'
  <2>1. c - clk \in -Late .. Horizon
    BY <1>1
  <2> QED
    BY <1>1, <1>2, <2>1 DEF ClockInv, DeadlinesNear
<1>4. clk' <= nextClk' + Late /\ NoneMissed'
  <2>1. CASE UpdateNext
    BY <2>1, <1>1, <1>3, UpdateClock
  <2>2. CASE UNCHANGED <<nextClk, nextIdx>> /\ ~ (nextClk > c)
    <3>1. \A i \in Index(num) : nextClk <= when[i]
      BY DEF ClockInv, NoneMissed
    <3>2. NoneMissed'
      BY <2>2, <3>1, <1>1, <1>2 DEF NoneMissed
    <3> QED
      BY <2>2, <3>2 DEF ClockInv
  <2> QED
    BY <2>1, <2>2 DEF Modify
<1> QED
  BY <1>3, <1>4 DEF ClockInv

LEMMA RemoveOneClock ==
  ASSUME TypeOK, TypeOK', IndexesAgree, ClockInv, NEW a \in Alarm, Pending(a),
         RemoveOne(a), UNCHANGED <<clk, slack>>
  PROVE  ClockInv'
<1> DEFINE i == idx[a]
           last == num - 1
<1>1. /\ num \in Nat /\ num' = last /\ last \in Nat \ {0} /\ last \in Index(num)
      /\ i \in Index(num)
      /\ when' = [j \in Index(last) |-> IF j = i THEN when[last] ELSE when[j]]
  BY DEF TypeOK, RemoveOne, IndexesAgree, Index
<1>2. Index(last) \subseteq Index(num)
  BY <1>1 DEF Index
<1>3. \A j \in Index(last) : \E k \in Index(num) : when'[j] = when[k]
  BY <1>1, <1>2
<1>4. DeadlinesNear'
  BY <1>1, <1>3 DEF ClockInv, DeadlinesNear
<1>5. clk' <= nextClk' + Late /\ NoneMissed'
  <2>1. CASE UpdateNext
    BY <2>1, <1>1, <1>4, UpdateClock
  <2>2. CASE UNCHANGED nextClk
    BY <2>2, <1>1, <1>3 DEF ClockInv, NoneMissed
  <2> QED
    BY <2>1, <2>2 DEF RemoveOne
<1> QED
  BY <1>4, <1>5 DEF ClockInv

LEMMA RemoveLastClock ==
  ASSUME TypeOK, ClockInv, NEW a \in Alarm, RemoveLast(a), UNCHANGED <<clk, slack>>
  PROVE  ClockInv'
<1>1. Index(num') = {} /\ nextClk' = ClockMax
  BY DEF RemoveLast, Index
<1>2. clk' <= nextClk' + Late
  BY <1>1, GuardAssumption, ReachAssumption DEF TypeOK, Clock
<1> QED
  BY <1>1, <1>2 DEF ClockInv, DeadlinesNear, NoneMissed

LEMMA AdvanceClock ==
  ASSUME TypeOK, ClockInv, NEW n \in 1 .. Frame, Advance(n)
  PROVE  ClockInv' /\ clk' = clk + n /\ UNCHANGED <<num, when, idx>>
<1>1. /\ clk \in Nat /\ nextClk \in Nat /\ slack \in Nat /\ n \in Nat /\ num \in Nat
      /\ when \in [Index(num) -> Clock]
      /\ n <= slack /\ clk + n <= nextClk + Late /\ slack' = slack - n
      /\ UNCHANGED <<num, who, when, idx, nextClk, nextIdx>>
  BY GuardAssumption, ReachAssumption DEF TypeOK, Clock, Advance, context
<1>2. clk + n <= ClockMax
  BY <1>1, GuardAssumption, ReachAssumption DEF ClockInv
<1>3. clk' = clk + n
  BY <1>1, <1>2, GuardAssumption DEF Advance, Plus
<1>4. clk' + slack' < ClkMaxValue + Frame
  BY <1>1, <1>3 DEF ClockInv
<1>5. NoneMissed'
  BY <1>1 DEF ClockInv, NoneMissed
<1>6. DeadlinesNear'
  <2> SUFFICES ASSUME NEW i \in Index(num) PROVE when[i] - clk' \in -Late .. Horizon
    BY <1>1 DEF DeadlinesNear
  <2>1. when[i] - clk \in -Late .. Horizon /\ nextClk <= when[i]
    BY DEF ClockInv, DeadlinesNear, NoneMissed
  <2>2. when[i] \in Nat
    BY <1>1, GuardAssumption DEF Clock
  <2> QED
    BY <2>1, <2>2, <1>1, <1>3, ReachAssumption
<1> QED
  BY <1>1, <1>3, <1>4, <1>5, <1>6 DEF ClockInv

(***************************************************************************)
(* When the guard subtracts, no clock of an alarm wraps around, and every  *)
(* alarm is as far from the CPU's clock as before.                         *)
(***************************************************************************)
LEMMA OverflowClock ==
  ASSUME TypeOK, ClockInv, PreventOverflow
  PROVE  /\ ClockInv' /\ num' = num /\ UNCHANGED <<who, idx, nextIdx, called>>
         /\ \A i \in Index(num) : when'[i] - clk' = when[i] - clk
         /\ nextClk' - clk' = nextClk - clk
<1>1. /\ clk \in Nat /\ nextClk \in Nat /\ num \in Nat /\ slack \in Nat
      /\ when \in [Index(num) -> Clock] /\ slack' = Frame /\ UNCHANGED called
  BY GuardAssumption, ReachAssumption DEF TypeOK, Clock, PreventOverflow
<1>2. \A i \in Index(num) : when[i] \in Nat
  BY <1>1, GuardAssumption DEF Clock
<1>3. CASE clk < ClkMaxValue
  <2>1. UNCHANGED <<clk, num, who, when, idx, nextClk, nextIdx>>
    BY <1>3 DEF PreventOverflow, context
  <2>2. clk' + slack' < ClkMaxValue + Frame
    BY <2>1, <1>1, <1>3, GuardAssumption, ReachAssumption
  <2>3. ClockInv'
    BY <2>1, <2>2 DEF ClockInv, DeadlinesNear, NoneMissed
  <2> QED
    BY <2>1, <2>3, <1>1
<1>4. CASE clk >= ClkMaxValue
  <2> DEFINE s == ClockSub
  <2>1. /\ s \in Nat /\ s >= SubMin /\ s <= ClkMaxValue - SubMin
        /\ SubMin \in Nat /\ Late \in Nat /\ Late <= SubMin /\ Frame \in Nat
        /\ Frame < SubMin /\ ClkMaxValue \in Nat /\ ClockMax \in Nat /\ Horizon \in Nat
    BY ClockSubBounds, GuardAssumption, ReachAssumption
  <2>2. /\ clk' = Minus(clk, s) /\ nextClk' = Minus(nextClk, s)
        /\ when' = [i \in Index(num) |-> Minus(when[i], s)]
        /\ UNCHANGED <<num, who, idx, nextIdx>>
    BY <1>1, <1>4, GuardAssumption DEF PreventOverflow, TimeWarp
  <2> HIDE DEF s
  <2>3. clk' = clk - s
    BY <2>1, <2>2, <1>1, <1>4 DEF Minus
  <2>4. nextClk' = nextClk - s
    <3>1. nextClk >= s
      BY <2>1, <1>1, <1>4 DEF ClockInv
    <3> QED
      BY <3>1, <2>1, <2>2, <1>1 DEF Minus
  <2>5. ASSUME NEW i \in Index(num)
        PROVE  when'[i] = when[i] - s
    <3>1. when[i] \in Nat /\ when[i] - clk >= 0 - Late
      BY <1>2, <2>1 DEF ClockInv, DeadlinesNear
    <3>2. when[i] >= s
      BY <3>1, <2>1, <1>1, <1>4
    <3> QED
      BY <3>1, <3>2, <2>1, <2>2 DEF Minus
  <2>6. \A i \in Index(num) : when'[i] - clk' = when[i] - clk
    BY <2>3, <2>5, <2>1, <1>1, <1>2
  <2>7. nextClk' - clk' = nextClk - clk
    BY <2>3, <2>4, <2>1, <1>1
  <2>8. clk' + slack' < ClkMaxValue + Frame
    BY <2>3, <2>1, <1>1 DEF ClockInv
  <2>9. clk' <= nextClk' + Late
    BY <2>3, <2>4, <2>1, <1>1 DEF ClockInv
  <2>10. DeadlinesNear'
    BY <2>2, <2>6 DEF ClockInv, DeadlinesNear
  <2>11. NoneMissed'
    BY <2>2, <2>4, <2>5, <2>1, <1>1, <1>2 DEF ClockInv, NoneMissed
  <2> QED
    BY <2>2, <2>6, <2>7, <2>8, <2>9, <2>10, <2>11, <1>1 DEF ClockInv
<1> QED
  BY <1>3, <1>4, <1>1, GuardAssumption

LEMMA ClockStep == IndexInv /\ IndexInv' /\ ClockInv /\ [Next]_vars => ClockInv'
<1> SUFFICES ASSUME IndexInv, IndexInv', ClockInv, [Next]_vars PROVE ClockInv'
  OBVIOUS
<1>1. TypeOK /\ IndexesAgree /\ TypeOK'
  BY DEF IndexInv
<1>2. CASE UNCHANGED vars
  BY <1>2 DEF vars, context, ClockInv, DeadlinesNear, NoneMissed
<1>3. ASSUME NEW a \in Alarm, Unset(a) PROVE ClockInv'
  BY <1>1, <1>3, RemoveOneClock, RemoveLastClock DEF Unset
<1>4. ASSUME NEW a \in Alarm, NEW n \in 0 .. Horizon, Set(a, n) PROVE ClockInv'
  <2> DEFINE c == Plus(clk, n)
  <2>1. c = clk + n
    BY <1>1, SetTime
  <2>2. c \in Clock
    BY <1>1, SmallNumbers, ClockOperations DEF TypeOK
  <2>3. Add(a, c) \/ Modify(a, c)
    BY <1>4 DEF Set
  <2>4. UNCHANGED <<clk, slack>>
    BY <1>4 DEF Set
  <2> HIDE DEF c
  <2>5. c - clk \in 0 .. Horizon
    BY <2>1, <1>1, GuardAssumption, ReachAssumption DEF TypeOK, Clock
  <2> QED
    BY <1>1, <2>2, <2>3, <2>4, <2>5, AddClock, ModifyClock
<1>5. ASSUME NEW n \in 1 .. Frame, Advance(n) PROVE ClockInv'
  BY <1>1, <1>5, AdvanceClock
<1>6. CASE Dispatch \/ Return
  BY <1>6 DEF Dispatch, Return, context, ClockInv, DeadlinesNear, NoneMissed
<1>7. CASE PreventOverflow
  BY <1>1, <1>7, OverflowClock
<1> QED
  BY <1>2, <1>3, <1>4, <1>5, <1>6, <1>7 DEF Next, Instruction, Steal

(***************************************************************************)
(* Every pending alarm stays near the clock: the comparisons of the        *)
(* unsigned clocks are those of the times they stand for.                  *)
(***************************************************************************)
THEOREM AlarmDeadlines == Spec => []DeadlinesNear
<1>1. ClockInv => DeadlinesNear
  BY DEF ClockInv
<1> QED
  BY <1>1, IndexInit, IndexStep, ClockInit, ClockStep, PTL DEF Spec

(***************************************************************************)
(* The cached tick hides no alarm, even where the context was empty while  *)
(* the guard subtracted.                                                   *)
(***************************************************************************)
THEOREM AlarmsNeverHidden == Spec => []NoneMissed
<1>1. ClockInv => NoneMissed
  BY DEF ClockInv
<1> QED
  BY <1>1, IndexInit, IndexStep, ClockInit, ClockStep, PTL DEF Spec

-----------------------------------------------------------------------------
(***************************************************************************)
(* The cache of the next alarm.  NoneMissed says that the cached tick is a *)
(* lower bound; CacheInv adds that it is the tick of an entry.  It needs a *)
(* context that is never empty: without an alarm the guard moves a tick    *)
(* that belongs to nobody.                                                 *)
(***************************************************************************)
CacheInv == num > 0 /\ nextIdx \in Index(num) /\ nextClk = when[nextIdx]

LEMMA CacheInit == Init => CacheInv
<1> SUFFICES ASSUME Init PROVE CacheInv
  OBVIOUS
<1>1. PICK a \in Alarm, c \in 0 .. Horizon :
        num = 1 /\ when = [i \in Index(1) |-> c] /\ nextClk = c /\ nextIdx = 0
  BY DEF Init
<1>2. 0 \in Index(1)
  BY DEF Index
<1> QED
  BY <1>1, <1>2 DEF CacheInv

(* What is searched for is found. *)
LEMMA UpdateCache ==
  ASSUME TypeOK', num' \in Nat \ {0}, UpdateNext
  PROVE  CacheInv'
<1>1. when' \in [Index(num') -> Clock]
  BY DEF TypeOK
<1>2. Earliest(num', when') \in Index(num')
  BY <1>1, EarliestFound
<1> QED
  BY <1>2 DEF CacheInv, UpdateNext

LEMMA AddCache ==
  ASSUME TypeOK, CacheInv, NEW a \in Alarm, NEW c \in Clock, Add(a, c)
  PROVE  CacheInv'
<1>1. num \in Nat /\ nextIdx \in Index(num) /\ nextClk = when[nextIdx]
  BY DEF TypeOK, CacheInv
<1>2. /\ num' = num + 1
      /\ when' = [i \in Index(num + 1) |-> IF i = num THEN c ELSE when[i]]
  BY DEF Add
<1>3. num \in Index(num + 1) /\ nextIdx \in Index(num + 1) /\ nextIdx # num /\ num + 1 > 0
  BY <1>1 DEF Index
<1>4. when'[num] = c /\ when'[nextIdx] = when[nextIdx]
  BY <1>2, <1>3
<1>5. (nextClk' = c /\ nextIdx' = num) \/ UNCHANGED <<nextClk, nextIdx>>
  BY DEF Add
<1> QED
  BY <1>1, <1>2, <1>3, <1>4, <1>5 DEF CacheInv

LEMMA ModifyCache ==
  ASSUME TypeOK, TypeOK', CacheInv, NEW a \in Alarm, NEW c \in Clock, Modify(a, c)
  PROVE  CacheInv'
<1>1. num' = num /\ num \in Nat \ {0} /\ when \in [Index(num) -> Clock]
  BY DEF TypeOK, CacheInv, Modify
<1>2. CASE UpdateNext
  BY <1>1, <1>2, UpdateCache
<1>3. CASE UNCHANGED <<nextClk, nextIdx>> /\ idx[a] # nextIdx
  <2>1. when' = [when EXCEPT ![idx[a]] = c]
    BY DEF Modify
  <2>2. when'[nextIdx] = when[nextIdx]
    BY <1>1, <1>3, <2>1 DEF CacheInv
  <2> QED
    BY <1>1, <1>3, <2>2 DEF CacheInv
<1> QED
  BY <1>2, <1>3 DEF Modify

LEMMA RemoveOneCache ==
  ASSUME TypeOK, TypeOK', IndexesAgree, CacheInv, NEW a \in Alarm, Pending(a), RemoveOne(a)
  PROVE  CacheInv'
<1> DEFINE i == idx[a]
           last == num - 1
<1>1. /\ num' = last /\ last \in Nat \ {0} /\ i \in Index(num)
      /\ when' = [j \in Index(last) |-> IF j = i THEN when[last] ELSE when[j]]
  BY DEF TypeOK, RemoveOne, IndexesAgree, Index
<1>2. CASE UpdateNext
  BY <1>1, <1>2, UpdateCache
<1>3. CASE nextIdx # i /\ UNCHANGED nextClk /\ nextIdx' = IF nextIdx = last THEN i ELSE nextIdx
  <2>1. nextIdx \in Index(num) /\ nextClk = when[nextIdx]
    BY DEF CacheInv
  <2>2. \A j \in Index(num) : j # last => j \in Index(last)
    BY <1>1 DEF Index
  <2>3. nextIdx' \in Index(last) /\ last > 0
    <3> HIDE DEF i, last
    <3>1. last > 0
      BY <1>1
    <3>2. nextIdx' # last /\ nextIdx' \in Index(num)
      BY <1>1, <1>3, <2>1
    <3> QED
      BY <2>2, <3>1, <3>2
  <2>4. when'[nextIdx'] = when[nextIdx]
    <3> HIDE DEF i, last
    <3>1. CASE nextIdx = last
      BY <1>1, <1>3, <2>3, <3>1
    <3>2. CASE nextIdx # last
      BY <1>1, <1>3, <2>3, <3>2
    <3> QED
      BY <3>1, <3>2
  <2> QED
    BY <1>1, <1>3, <2>1, <2>3, <2>4 DEF CacheInv
<1> QED
  BY <1>2, <1>3 DEF RemoveOne

LEMMA OverflowCache ==
  ASSUME TypeOK, TypeOK', ClockInv, CacheInv, PreventOverflow
  PROVE  CacheInv'
<1>1. /\ num' = num /\ nextIdx' = nextIdx /\ nextClk' - clk' = nextClk - clk
      /\ \A i \in Index(num) : when'[i] - clk' = when[i] - clk
  BY OverflowClock
<1>2. nextIdx \in Index(num) /\ num > 0 /\ nextClk = when[nextIdx]
  BY DEF CacheInv
<1>3. /\ when \in [Index(num) -> Clock] /\ when' \in [Index(num') -> Clock]
      /\ clk' \in Clock /\ nextClk' \in Clock
  BY DEF TypeOK
<1>4. /\ when'[nextIdx] \in Nat /\ nextClk' \in Nat /\ clk' \in Nat
  BY <1>1, <1>2, <1>3, GuardAssumption DEF Clock
<1>5. when'[nextIdx] - clk' = nextClk' - clk'
  BY <1>1, <1>2
<1>6. when'[nextIdx] = nextClk'
  BY <1>4, <1>5
<1> QED
  BY <1>1, <1>2, <1>6 DEF CacheInv

LEMMA CacheStep ==
  NeverEmpty /\ IndexInv /\ IndexInv' /\ ClockInv /\ CacheInv /\ [Next]_vars => CacheInv'
<1> SUFFICES ASSUME NeverEmpty, IndexInv, IndexInv', ClockInv, CacheInv, [Next]_vars
             PROVE  CacheInv'
  OBVIOUS
<1>1. TypeOK /\ IndexesAgree /\ TypeOK'
  BY DEF IndexInv
<1>2. CASE UNCHANGED vars
  BY <1>2 DEF vars, context, CacheInv
<1>3. ASSUME NEW a \in Alarm, Unset(a) PROVE CacheInv'
  BY <1>1, <1>3, RemoveOneCache DEF Unset, RemoveLast
<1>4. ASSUME NEW a \in Alarm, NEW n \in 0 .. Horizon, Set(a, n) PROVE CacheInv'
  <2>1. Plus(clk, n) \in Clock
    BY <1>1, SmallNumbers, ClockOperations DEF TypeOK
  <2> QED
    BY <1>1, <1>4, <2>1, AddCache, ModifyCache DEF Set
<1>5. CASE (\E n \in 1 .. Frame : Instruction(n) \/ Steal(n)) \/ Dispatch \/ Return
  BY <1>5 DEF Instruction, Steal, Advance, Dispatch, Return, context, CacheInv
<1>6. CASE PreventOverflow
  BY <1>1, <1>6, OverflowCache
<1> QED
  BY <1>2, <1>3, <1>4, <1>5, <1>6 DEF Next

LEMMA CacheEarliest == IndexInv /\ ClockInv /\ CacheInv => NextIsEarliest
BY DEF ClockInv, CacheInv, NoneMissed, NextIsEarliest

(***************************************************************************)
(* In a context that always has an alarm the cached tick and index are     *)
(* those of an earliest pending alarm: what alarm.h says of them.          *)
(***************************************************************************)
THEOREM AlarmNextIsEarliest == ASSUME NeverEmpty PROVE Spec => []NextIsEarliest
<1>1. Init => CacheInv
  BY CacheInit
<1>2. IndexInv /\ IndexInv' /\ ClockInv /\ CacheInv /\ [Next]_vars => CacheInv'
  BY CacheStep
<1> QED
  BY <1>1, <1>2, IndexInit, IndexStep, ClockInit, ClockStep, CacheEarliest, PTL DEF Spec

-----------------------------------------------------------------------------
(***************************************************************************)
(* The refinement.  Left is what Cycles puts for the variable left of      *)
(* Timers; each action of the context maps to a step of the timers, and a  *)
(* subtraction of the guard to none at all.                                *)
(***************************************************************************)
Waiting == {b \in Alarm : Pending(b)}
Left    == [a \in Waiting |-> when[idx[a]] - clk]

(* Where the entry of a waiting alarm is. *)
LEMMA WaitingEntry ==
  ASSUME TypeOK, IndexesAgree, NEW u \in Waiting
  PROVE  /\ u \in Alarm /\ idx[u] \in Index(num) /\ who[idx[u]] = u /\ idx[u] # -1
         /\ when[idx[u]] \in Int
<1>1. idx[u] \in Index(num) /\ who[idx[u]] = u /\ idx[u] # -1
  BY DEF Waiting, IndexesAgree, Pending
<1>2. when \in [Index(num) -> Clock]
  BY DEF TypeOK
<1> QED
  BY <1>1, <1>2, GuardAssumption DEF Clock, Waiting

LEMMA LeftInit == Init => Cycles!Init
<1> SUFFICES ASSUME Init PROVE Cycles!Init
  OBVIOUS
<1>1. PICK a \in Alarm, c \in 0 .. Horizon :
        /\ when = [i \in Index(1) |-> c]
        /\ idx = [b \in Alarm |-> IF b = a THEN 0 ELSE -1]
  BY DEF Init
<1>2. 0 \in Index(1)
  BY DEF Index
<1>3. Waiting = {a} /\ idx[a] = 0 /\ when[0] = c /\ clk = 0 /\ called = NoCall
  <2>1. ASSUME NEW b \in Alarm PROVE (idx[b] # -1) <=> (b = a)
    <3>1. CASE b = a
      BY <1>1, <3>1
    <3>2. CASE b # a
      BY <1>1, <3>2
    <3> QED
      BY <3>1, <3>2
  <2>2. Waiting = {a}
    BY <2>1 DEF Waiting, Pending
  <2> QED
    BY <1>1, <1>2, <2>2 DEF Init
<1>4. c - 0 = c
  BY ReachAssumption
<1>5. Left = [u \in {a} |-> c]
  BY <1>3, <1>4 DEF Left
<1> QED
  BY <1>3, <1>5 DEF Cycles!Init, Left, Waiting

LEMMA AddLeft ==
  ASSUME TypeOK, IndexesAgree, NEW a \in Alarm, NEW c \in Clock, Add(a, c), UNCHANGED clk
  PROVE  Left' = [u \in Waiting \cup {a} |-> IF u = a THEN c - clk ELSE Left[u]]
<1>1. /\ num \in Nat /\ idx \in [Alarm -> Int]
      /\ idx' = [idx EXCEPT ![a] = num]
      /\ when' = [i \in Index(num + 1) |-> IF i = num THEN c ELSE when[i]]
  BY PendingAssumption DEF TypeOK, Add
<1>2. num \in Index(num + 1) /\ num # -1
  BY <1>1 DEF Index
<1>3. idx'[a] = num /\ \A u \in Alarm : u # a => idx'[u] = idx[u]
  BY <1>1
<1>4. Waiting' = Waiting \cup {a}
  BY <1>2, <1>3 DEF Waiting, Pending
<1>5. when'[idx'[a]] - clk' = c - clk
  BY <1>1, <1>2, <1>3
<1>6. ASSUME NEW u \in Waiting, u # a PROVE when'[idx'[u]] - clk' = Left[u]
  <2>1. u \in Alarm /\ idx[u] \in Index(num)
    BY WaitingEntry
  <2>2. idx[u] \in Index(num + 1) /\ idx[u] # num
    BY <1>1, <2>1 DEF Index
  <2>3. when'[idx'[u]] = when[idx[u]]
    BY <1>1, <1>3, <1>6, <2>1, <2>2
  <2> QED
    BY <2>3 DEF Left
<1> QED
  BY <1>4, <1>5, <1>6 DEF Left

LEMMA ModifyLeft ==
  ASSUME TypeOK, IndexesAgree, NEW a \in Alarm, NEW c \in Clock, Modify(a, c), UNCHANGED clk
  PROVE  Left' = [u \in Waiting \cup {a} |-> IF u = a THEN c - clk ELSE Left[u]]
<1>1. /\ when \in [Index(num) -> Clock] /\ idx' = idx /\ a \in Waiting
      /\ when' = [when EXCEPT ![idx[a]] = c]
  BY DEF TypeOK, Modify, Waiting
<1>2. Waiting' = Waiting \cup {a}
  BY <1>1 DEF Waiting, Pending
<1>3. when'[idx'[a]] - clk' = c - clk
  <2>1. idx[a] \in Index(num)
    BY <1>1, WaitingEntry
  <2>2. when'[idx'[a]] = c
    BY <1>1, <2>1
  <2> QED
    BY <2>2
<1>4. ASSUME NEW u \in Waiting, u # a PROVE when'[idx'[u]] - clk' = Left[u]
  <2>1. /\ idx[u] \in Index(num) /\ who[idx[u]] = u
        /\ idx[a] \in Index(num) /\ who[idx[a]] = a
    BY <1>1, WaitingEntry
  <2>2. idx[u] # idx[a]
    BY <1>4, <2>1
  <2>3. when'[idx'[u]] = when[idx[u]]
    BY <1>1, <2>1, <2>2
  <2> QED
    BY <2>3 DEF Left
<1> QED
  BY <1>2, <1>3, <1>4 DEF Left

LEMMA RemoveOneLeft ==
  ASSUME TypeOK, IndexesAgree, NEW a \in Alarm, Pending(a), RemoveOne(a), UNCHANGED clk
  PROVE  Left' = [u \in Waiting \ {a} |-> Left[u]]
<1> DEFINE i == idx[a]
           last == num - 1
<1>1. /\ num \in Nat /\ last \in Nat \ {0} /\ last \in Index(num) /\ a \in Waiting
      /\ \A j \in Index(num) : j # last => j \in Index(last)
  BY DEF TypeOK, RemoveOne, Index, Waiting
<1>2. /\ when' = [j \in Index(last) |-> IF j = i THEN when[last] ELSE when[j]]
      /\ idx' = [b \in Alarm |-> IF b = a THEN -1 ELSE IF b = who[last] THEN i ELSE idx[b]]
  BY DEF RemoveOne
<1>3. i \in Index(num) /\ who[i] = a /\ i # -1
  BY <1>1, WaitingEntry
<1> HIDE DEF i, last
<1>4. Waiting' = Waiting \ {a}
  <2>1. ASSUME NEW b \in Alarm PROVE (idx'[b] # -1) <=> (b # a /\ Pending(b))
    <3>1. CASE b = a
      BY <1>2, <3>1
    <3>2. CASE b # a /\ b = who[last]
      <4>1. idx[b] = last
        BY <1>1, <3>2 DEF IndexesAgree
      <4>2. last # -1
        BY <1>1
      <4> QED
        BY <1>2, <1>3, <3>2, <4>1, <4>2 DEF Pending
    <3>3. CASE b # a /\ b # who[last]
      BY <1>2, <3>3 DEF Pending
    <3> QED
      BY <3>1, <3>2, <3>3
  <2> QED
    BY <2>1 DEF Waiting, Pending
<1>5. ASSUME NEW u \in Waiting, u # a PROVE when'[idx'[u]] - clk' = Left[u]
  <2>1. u \in Alarm /\ idx[u] \in Index(num) /\ who[idx[u]] = u
    BY WaitingEntry
  <2>2. CASE u = who[last]
    <3>1. idx[u] = last /\ i # last
      BY <1>1, <1>3, <1>5, <2>2 DEF IndexesAgree
    <3>2. i \in Index(last) /\ idx'[u] = i
      BY <1>1, <1>2, <1>3, <1>5, <2>1, <2>2, <3>1
    <3>3. when'[idx'[u]] = when[idx[u]]
      BY <1>2, <3>1, <3>2
    <3> QED
      BY <3>3 DEF Left
  <2>3. CASE u # who[last]
    <3>1. idx[u] # last /\ idx[u] # i
      BY <1>3, <1>5, <2>1, <2>3
    <3>2. idx[u] \in Index(last) /\ idx'[u] = idx[u]
      BY <1>1, <1>2, <1>5, <2>1, <2>3, <3>1
    <3>3. when'[idx'[u]] = when[idx[u]]
      BY <1>2, <3>1, <3>2
    <3> QED
      BY <3>3 DEF Left
  <2> QED
    BY <2>2, <2>3
<1> QED
  BY <1>4, <1>5 DEF Left

LEMMA SetLeft ==
  ASSUME IndexInv, ClockInv, NEW a \in Alarm, NEW n \in 0 .. Horizon, Set(a, n)
  PROVE  Cycles!Set(a, n)
<1> DEFINE c == Plus(clk, n)
<1>1. c = clk + n /\ c \in Clock /\ clk \in Int /\ n \in Int
  <2>1. TypeOK /\ clk \in Clock
    BY DEF IndexInv, TypeOK
  <2>2. c = clk + n
    BY <2>1, SetTime
  <2>3. c \in Clock
    BY <2>1, SmallNumbers, ClockOperations
  <2>4. clk \in Int /\ n \in Int
    BY <2>1, GuardAssumption, ReachAssumption DEF Clock
  <2> QED
    BY <2>2, <2>3, <2>4
<1>2. (Add(a, c) \/ Modify(a, c)) /\ UNCHANGED <<clk, called>>
  BY DEF Set
<1> HIDE DEF c
<1>3. Left' = [u \in Waiting \cup {a} |-> IF u = a THEN c - clk ELSE Left[u]]
  BY <1>1, <1>2, AddLeft, ModifyLeft DEF IndexInv
<1>4. c - clk = n
  BY <1>1
<1>5. DOMAIN Left = Waiting
  BY DEF Left
<1>6. Left' = [u \in DOMAIN Left \cup {a} |-> IF u = a THEN n ELSE Left[u]]
  BY <1>3, <1>4, <1>5
<1> QED
  BY <1>2, <1>6 DEF Cycles!Set, Left, Waiting

LEMMA UnsetLeft ==
  ASSUME NeverEmpty, IndexInv, NEW a \in Alarm, Unset(a)
  PROVE  Cycles!Unset(a)
<1>1. Pending(a) /\ RemoveOne(a) /\ UNCHANGED <<clk, called>>
  BY DEF Unset, RemoveLast
<1>2. Left' = [u \in Waiting \ {a} |-> Left[u]]
  BY <1>1, RemoveOneLeft DEF IndexInv
<1>3. DOMAIN Left = Waiting
  BY DEF Left
<1>4. Left' = [u \in DOMAIN Left \ {a} |-> Left[u]]
  BY <1>2, <1>3
<1> QED
  BY <1>1, <1>4 DEF Cycles!Unset, Left, Waiting

LEMMA PassLeft ==
  ASSUME IndexInv, ClockInv, NEW n \in 1 .. Frame, Advance(n)
  PROVE  Cycles!Pass(n) /\ UNCHANGED called
<1>1. clk' = clk + n /\ UNCHANGED <<when, idx, called>> /\ clk \in Int /\ n \in Int
  BY AdvanceClock, GuardAssumption, ReachAssumption DEF IndexInv, TypeOK, Clock, Advance
<1>2. Waiting' = Waiting
  BY <1>1 DEF Waiting, Pending
<1>3. \A u \in Waiting : when[idx[u]] - clk' = Left[u] - n
  BY <1>1, WaitingEntry DEF IndexInv, Left
<1>4. Left' = [u \in Waiting |-> Left[u] - n]
  BY <1>1, <1>2, <1>3 DEF Left
<1>5. DOMAIN Left = Waiting
  BY DEF Left
<1>6. Left' = [u \in DOMAIN Left |-> Left[u] - n]
  BY <1>4, <1>5
<1> QED
  BY <1>1, <1>6 DEF Cycles!Pass, Left, Waiting

(* No alarm is due when an instruction starts. *)
LEMMA InstructionLeft ==
  ASSUME IndexInv, ClockInv, NEW n \in 1 .. Frame, Instruction(n)
  PROVE  Cycles!Instruction(n)
<1>1. Cycles!Pass(n) /\ UNCHANGED called /\ called = NoCall /\ clk < nextClk
  BY PassLeft DEF Instruction
<1>2. ASSUME NEW t \in Waiting PROVE ~ (Left[t] <= 0)
  <2>1. idx[t] \in Index(num) /\ when[idx[t]] \in Int
    BY WaitingEntry DEF IndexInv
  <2>2. nextClk <= when[idx[t]]
    BY <2>1 DEF ClockInv, NoneMissed
  <2>3. clk \in Int /\ nextClk \in Int
    BY GuardAssumption DEF IndexInv, TypeOK, Clock
  <2> QED
    BY <1>1, <2>1, <2>2, <2>3 DEF Left
<1>3. \A t \in Alarm : ~ (t \in DOMAIN Left /\ Left[t] <= 0)
  BY <1>2 DEF Left
<1> QED
  BY <1>1, <1>3 DEF Cycles!Instruction, Cycles!Due, Left, Waiting

(* The alarm that is dispatched is the most overdue of those due. *)
LEMMA DispatchLeft ==
  ASSUME IndexInv, ClockInv, CacheInv, Dispatch
  PROVE  Cycles!Call(who[nextIdx])
<1> DEFINE t == who[nextIdx]
<1>1. /\ nextIdx \in Index(num) /\ nextClk = when[nextIdx] /\ nextIdx # -1
      /\ clk \in Nat /\ nextClk \in Nat /\ clk >= nextClk /\ num \in Nat
  BY GuardAssumption DEF IndexInv, TypeOK, Clock, CacheInv, Dispatch, Index
<1>2. t \in Alarm /\ idx[t] = nextIdx
  BY <1>1 DEF IndexInv, TypeOK, IndexesAgree
<1> HIDE DEF t
<1>3. t \in Waiting /\ Left[t] = nextClk - clk
  BY <1>1, <1>2 DEF Waiting, Pending, Left
<1>4. t \in DOMAIN Left /\ Left[t] <= 0
  BY <1>1, <1>3 DEF Left
<1>5. ASSUME NEW u \in Waiting PROVE Left[t] <= Left[u]
  <2>1. idx[u] \in Index(num) /\ when[idx[u]] \in Int
    BY WaitingEntry DEF IndexInv
  <2>2. nextClk <= when[idx[u]] /\ Left[u] = when[idx[u]] - clk
    BY <2>1 DEF ClockInv, NoneMissed, Left
  <2> QED
    BY <1>1, <1>3, <2>1, <2>2
<1>6. \A u \in DOMAIN Left : Left[t] <= Left[u]
  BY <1>5 DEF Left
<1>7. Minus(clk, nextClk) = 0 - Left[t]
  BY <1>1, <1>3 DEF Minus
<1>8. called = NoCall /\ called' = [timer |-> t, late |-> 0 - Left[t]] /\ UNCHANGED <<clk, when, idx>>
  BY <1>7 DEF Dispatch, context, t
<1>9. Left' = Left
  BY <1>8 DEF Left, Waiting, Pending
<1> QED
  BY <1>4, <1>6, <1>8, <1>9 DEF Cycles!Call, Cycles!Due, Left, Waiting, t

(* A subtraction of the guard is not seen by the timers. *)
LEMMA OverflowLeft ==
  ASSUME IndexInv, ClockInv, PreventOverflow
  PROVE  UNCHANGED Cycles!timers
<1>1. UNCHANGED <<idx, called>> /\ \A i \in Index(num) : when'[i] - clk' = when[i] - clk
  BY OverflowClock DEF IndexInv
<1>2. Waiting' = Waiting
  BY <1>1 DEF Waiting, Pending
<1>3. \A u \in Waiting : when'[idx'[u]] - clk' = Left[u]
  BY <1>1, WaitingEntry DEF IndexInv, Left
<1>4. Left' = Left
  BY <1>2, <1>3 DEF Left
<1> QED
  BY <1>1, <1>4 DEF Cycles!timers, Left, Waiting

LEMMA TimersStep ==
  NeverEmpty /\ IndexInv /\ ClockInv /\ CacheInv /\ [Next]_vars => [Cycles!Next]_Cycles!timers
<1> SUFFICES ASSUME NeverEmpty, IndexInv, ClockInv, CacheInv, [Next]_vars
             PROVE  [Cycles!Next]_Cycles!timers
  OBVIOUS
<1>1. CASE UNCHANGED vars
  <2>1. UNCHANGED <<clk, when, idx, called>>
    BY <1>1 DEF vars, context
  <2>2. Left' = Left
    BY <2>1 DEF Left, Waiting, Pending
  <2> QED
    BY <2>1, <2>2 DEF Cycles!timers, Left, Waiting
<1>2. ASSUME NEW a \in Alarm, Unset(a) PROVE Cycles!Next
  BY <1>2, UnsetLeft DEF Cycles!Next
<1>3. ASSUME NEW a \in Alarm, NEW n \in 0 .. Horizon, Set(a, n) PROVE Cycles!Next
  BY <1>3, SetLeft DEF Cycles!Next
<1>4. ASSUME NEW n \in 1 .. Frame, Instruction(n) PROVE Cycles!Next
  BY <1>4, InstructionLeft DEF Cycles!Next
<1>5. ASSUME NEW n \in 1 .. Frame, Steal(n) PROVE Cycles!Next
  <2>1. Cycles!Steal(n)
    BY <1>5, PassLeft DEF Steal, Cycles!Steal
  <2> QED
    BY <2>1 DEF Cycles!Next
<1>6. CASE Dispatch
  <2>1. who[nextIdx] \in Alarm
    BY DEF IndexInv, TypeOK, CacheInv
  <2> QED
    BY <1>6, <2>1, DispatchLeft DEF Cycles!Next
<1>7. CASE Return
  <2>1. UNCHANGED <<clk, when, idx>> /\ called # NoCall /\ called' = NoCall
    BY <1>7 DEF Return, context
  <2>2. Left' = Left
    BY <2>1 DEF Left, Waiting, Pending
  <2>3. Cycles!Return
    BY <2>1, <2>2 DEF Cycles!Return, Left, Waiting
  <2> QED
    BY <2>3 DEF Cycles!Next
<1>8. CASE PreventOverflow
  BY <1>8, OverflowLeft
<1> QED
  BY <1>1, <1>2, <1>3, <1>4, <1>5, <1>6, <1>7, <1>8 DEF Next

(***************************************************************************)
(* A context that always has an alarm implements timers that count real    *)
(* cycles on a clock without an end: calls come in the order of what is    *)
(* due, with the right lateness, and no subtraction of the guard is seen.  *)
(***************************************************************************)
THEOREM AlarmTimers == ASSUME NeverEmpty PROVE Spec => ImplementsTimers
<1>1. Init => CacheInv
  BY CacheInit
<1>2. IndexInv /\ IndexInv' /\ ClockInv /\ CacheInv /\ [Next]_vars => CacheInv'
  BY CacheStep
<1>3. IndexInv /\ ClockInv /\ CacheInv /\ [Next]_vars => [Cycles!Next]_Cycles!timers
  BY TimersStep
<1> QED
  BY <1>1, <1>2, <1>3, LeftInit, IndexInit, IndexStep, ClockInit, ClockStep, PTL
     DEF Spec, ImplementsTimers, Cycles!TimersSpec

-----------------------------------------------------------------------------
(***************************************************************************)
(* The clocks of the drives.                                               *)
(***************************************************************************)

Clocks == 0 .. ClockSize - 1

DriveState ==
  [enable : BOOLEAN, clk : Clocks, stop_clk : Clocks, last_clk : Clocks,
   accum : 0 .. One - 1, due : Nat, owed : Int, guards : Nat]

DriveStates == [Drives -> DriveState]

DriveTyped ==
  /\ maincpu_clk \in Clocks /\ frame \in 0 .. FrameCycles
  /\ maincpu_clk - frame < GuardMax
  /\ drive \in DriveStates
  /\ idling \in [Drives -> Idlings]

(* The numbers of the clocks and of their guards. *)
LEMMA ClockNumbers ==
  /\ ClockSize \in Nat /\ ClockSubMin \in Nat /\ FrameCycles \in Nat /\ OpCycles \in Nat \ {0}
  /\ GuardMax = ClockSize - 1 - ClockSubMin /\ GuardSub = ClockSize - 1 - 2 * ClockSubMin
  /\ 0 < FrameCycles /\ FrameCycles < ClockSubMin /\ 4 * ClockSubMin < ClockSize
BY DriveAssumption DEF GuardMax, GuardSub

(* A clock is taken modulo its size. *)
LEMMA ClockWraps ==
  ASSUME NEW x \in Int
  PROVE  /\ x % ClockSize \in Clocks
         /\ x \in Clocks => x % ClockSize = x
         /\ x - ClockSize \in Clocks => x % ClockSize = x - ClockSize
         /\ x + ClockSize \in Clocks => x % ClockSize = x + ClockSize
<1>1. ClockSize \in Nat \ {0}
  BY ClockNumbers
<1>2. \A C \in Nat \ {0} :
        /\ x % C \in 0 .. C - 1
        /\ x \in 0 .. C - 1 => x % C = x
  OBVIOUS
<1>3. \A C \in Nat \ {0} : x \in C .. 2 * C - 1 => x % C = x - C
  OBVIOUS
<1>4. \A C \in Nat \ {0} : x \in - C .. -1 => x % C = x + C
  OBVIOUS
<1>5. /\ x - ClockSize \in Clocks => x \in ClockSize .. 2 * ClockSize - 1
      /\ x + ClockSize \in Clocks => x \in - ClockSize .. -1
  BY <1>1 DEF Clocks
<1> QED
  BY <1>1, <1>2, <1>3, <1>4, <1>5 DEF Clocks

LEMMA WrapsTo ==
  ASSUME NEW x \in Int, NEW y \in Clocks,
         x = y \/ x = y + ClockSize \/ x = y - ClockSize
  PROVE  x % ClockSize = y
<1>1. y \in Int /\ ClockSize \in Int
  BY ClockNumbers DEF Clocks
<1>2. CASE x = y
  BY <1>2, ClockWraps
<1>3. CASE x = y + ClockSize
  <2>1. x - ClockSize = y
    BY <1>1, <1>3
  <2> QED
    BY <2>1, ClockWraps
<1>4. CASE x = y - ClockSize
  <2>1. x + ClockSize = y
    BY <1>1, <1>4
  <2> QED
    BY <2>1, ClockWraps
<1> QED
  BY <1>2, <1>3, <1>4

(* A drive that executes keeps its type. *)
LEMMA ExecutedTyped ==
  ASSUME NEW r0 \in DriveState, NEW main \in Clocks, NEW v \in Clocks,
         NEW o \in 0 .. OpCycles - 1
  PROVE  LET e == Executed(r0, main, v, o) IN
         /\ e \in DriveState /\ e.enable = r0.enable /\ e.last_clk = v
<1> DEFINE r      == Woken(r0, main)
           cycles == IF v > r.last_clk THEN v - r.last_clk ELSE 0
           sum    == r.accum + Factor * cycles
           stop   == (r.stop_clk + sum \div One) % ClockSize
           behind == (stop - r.clk) % ClockSize
           runs   == 0 < behind /\ behind <= ClockSize \div 2
           owed   == Bounded(r.owed + (r.accum + Factor * r.due) \div One
                                    - (IF runs THEN behind + o ELSE 0))
<1>1. r \in DriveState /\ r.enable = r0.enable
  BY DEF Woken, DriveState
<1> HIDE DEF r
<1>2. cycles \in Nat /\ Factor \in Nat /\ One \in Nat \ {0} /\ MaxOwed \in Nat
  BY <1>1, ClockNumbers, DriveAssumption DEF DriveState, Clocks
<1>3. sum \in Nat
  BY <1>1, <1>2 DEF DriveState
<1> HIDE DEF cycles
<1>4. sum \div One \in Nat /\ sum % One \in 0 .. One - 1
  <2> HIDE DEF sum
  <2> QED
    BY <1>2, <1>3, Quotient
<1>5. (r.accum + Factor * r.due) \div One \in Nat
  <2>1. r.accum + Factor * r.due \in Nat
    BY <1>1, <1>2 DEF DriveState
  <2> QED
    BY <2>1, <1>2, Quotient
<1> HIDE DEF sum
<1>6. stop \in Clocks
  BY <1>1, <1>4, ClockWraps DEF DriveState, Clocks
<1> HIDE DEF stop
<1>7. behind \in Clocks
  BY <1>1, <1>6, ClockWraps DEF DriveState, Clocks
<1> HIDE DEF behind
<1>8. owed \in Int
  <2>1. r.owed + (r.accum + Factor * r.due) \div One - (IF runs THEN behind + o ELSE 0) \in Int
    BY <1>1, <1>5, <1>7 DEF DriveState, Clocks
  <2> QED
    BY <1>2, <2>1 DEF Bounded
<1> HIDE DEF owed, runs
<1>9. (stop + o) % ClockSize \in Clocks
  BY <1>6, ClockWraps DEF Clocks
<1>10. Executed(r0, main, v, o) =
         [r EXCEPT !.stop_clk = stop, !.accum = sum % One, !.last_clk = v,
                   !.clk = IF runs THEN (stop + o) % ClockSize ELSE @,
                   !.due = 0, !.owed = owed]
  BY DEF Executed, r, cycles, sum, stop, behind, runs, owed
<1> DEFINE now == IF runs THEN (stop + o) % ClockSize ELSE r.clk
<1>11. now \in Clocks
  BY <1>1, <1>9 DEF DriveState
<1>12. Executed(r0, main, v, o) =
         [r EXCEPT !.stop_clk = stop, !.accum = sum % One, !.last_clk = v,
                   !.clk = now, !.due = 0, !.owed = owed]
  BY <1>1, <1>10 DEF DriveState
<1> HIDE DEF now
<1> DEFINE rest == sum % One
           e == Executed(r0, main, v, o)
<1>13. rest \in 0 .. One - 1
  BY <1>4
<1> HIDE DEF rest
<1>14. e = [r EXCEPT !.stop_clk = stop, !.accum = rest, !.last_clk = v,
                     !.clk = now, !.due = 0, !.owed = owed]
  BY <1>12 DEF rest
<1> HIDE DEF e
<1> QED
  <2>1. e \in DriveState /\ e.enable = r0.enable /\ e.last_clk = v
    BY <1>1, <1>6, <1>8, <1>11, <1>13, <1>14 DEF DriveState
  <2> QED
    BY <2>1 DEF e

(* All drives, or one after its own guard. *)
LEMMA AllTyped ==
  ASSUME NEW ds \in DriveStates, NEW main \in Clocks, NEW v \in Clocks, NEW os \in Overshoots
  PROVE  ExecutedAll(ds, main, v, os) \in DriveStates
<1>1. \A d \in Drives : Executed(ds[d], main, v, os[d]) \in DriveState
  <2> TAKE d \in Drives
  <2>1. ds[d] \in DriveState /\ os[d] \in 0 .. OpCycles - 1
    BY DEF DriveStates, Overshoots
  <2> QED
    BY <2>1, ExecutedTyped
<1> QED
  BY <1>1 DEF ExecutedAll, DriveStates

LEMMA OwnGuardTyped ==
  ASSUME NEW ds \in DriveStates, NEW d \in Drives
  PROVE  OwnGuard(ds, d) \in DriveStates
<1>1. ds[d] \in DriveState
  BY DEF DriveStates
<1>2. Guarded(ds[d].clk) \in Clocks
  BY <1>1, ClockNumbers DEF Guarded, DriveState, Clocks
<1> DEFINE g == IF ds[d].clk >= GuardMax /\ ds[d].guards <= MaxGuards
                THEN ds[d].guards + 1 ELSE ds[d].guards
           r == [ds[d] EXCEPT !.clk = Guarded(@), !.guards = g]
<1>3. g \in Nat
  BY <1>1 DEF DriveState
<1> HIDE DEF g
<1>4. r \in DriveState
  BY <1>1, <1>2, <1>3 DEF DriveState
<1>5. OwnGuard(ds, d) = [ds EXCEPT ![d] = r]
  BY <1>1 DEF OwnGuard, g, DriveState, DriveStates
<1> QED
  BY <1>4, <1>5 DEF DriveStates

LEMMA InSyncTyped ==
  ASSUME NEW ds \in DriveStates, NEW d \in Drives, NEW main \in Clocks,
         NEW sub \in Nat, main + sub \in Clocks, NEW os \in Overshoots
  PROVE  InSync(ds, d, main, sub, os) \in DriveStates
<1> DEFINE es == IF ds[d].last_clk < sub THEN ExecutedAll(ds, main, main + sub, os) ELSE ds
<1>1. es \in DriveStates
  BY AllTyped
<1>2. ds[d].enable => es[d].last_clk - sub \in Clocks
  <2>1. CASE ds[d].last_clk < sub
    <3>1. ds[d] \in DriveState /\ os[d] \in 0 .. OpCycles - 1
      BY DEF DriveStates, Overshoots
    <3>2. ds[d].enable => es[d] = Executed(ds[d], main, main + sub, os[d])
      BY <2>1 DEF ExecutedAll
    <3> HIDE DEF es
    <3>3. ds[d].enable => es[d].last_clk = main + sub
      BY <3>1, <3>2, ExecutedTyped
    <3> QED
      BY <3>3 DEF Clocks
  <2>2. CASE ~ (ds[d].last_clk < sub)
    <3>1. es = ds /\ ds[d] \in DriveState
      BY <2>2 DEF DriveStates
    <3> HIDE DEF es
    <3> QED
      BY <2>2, <3>1, ClockNumbers DEF DriveState, Clocks
  <2> QED
    BY <2>1, <2>2
<1> HIDE DEF es
<1>3. CASE sub = 0
  BY <1>3 DEF InSync
<1>4. CASE sub # 0 /\ ~ ds[d].enable
  <2>1. InSync(ds, d, main, sub, os) = [ds EXCEPT ![d].last_clk = main]
    BY <1>4 DEF InSync
  <2> QED
    BY <2>1 DEF DriveStates, DriveState
<1>5. CASE sub # 0 /\ ds[d].enable
  <2>1. InSync(ds, d, main, sub, os) = [es EXCEPT ![d].last_clk = es[d].last_clk - sub]
    BY <1>5 DEF InSync, es
  <2> QED
    BY <1>1, <1>2, <1>5, <2>1 DEF DriveStates, DriveState
<1> QED
  BY <1>3, <1>4, <1>5

(* What the guard of the main clock does to one drive after the other. *)
Step(ds, n, main, sub, os) == OwnGuard(InSync(ds, n - 1, main, sub, os), n - 1)

LEMMA GuardGoesOn ==
  ASSUME NEW ds \in DriveStates, NEW main \in Clocks,
         NEW sub \in Nat, main + sub \in Clocks, NEW os \in Overshoots
  PROVE  \E f \in [0 .. NumDrives -> DriveStates] :
           /\ f[0] = ds /\ \A n \in 1 .. NumDrives : f[n] = Step(f[n - 1], n, main, sub, os)
           /\ DrivesGuarded(ds, main, sub, os) = f[NumDrives]
<1> DEFINE step == [n \in 1 .. NumDrives |-> [s \in DriveStates |-> Step(s, n, main, sub, os)]]
           body(f) == [n \in 0 .. NumDrives |->
                         IF n = 0 THEN ds ELSE OwnGuard(InSync(f[n - 1], n - 1, main, sub, os), n - 1)]
           g == CHOOSE f : f = body(f)
<1>1. NumDrives \in Nat
  BY DriveAssumption
<1>2. \A n \in 1 .. NumDrives, s \in DriveStates : Step(s, n, main, sub, os) \in DriveStates
  <2> TAKE n \in 1 .. NumDrives, s \in DriveStates
  <2>1. n - 1 \in Drives
    BY <1>1 DEF Drives
  <2> QED
    BY <2>1, InSyncTyped, OwnGuardTyped DEF Step
<1>3. step \in [1 .. NumDrives -> [DriveStates -> DriveStates]]
  BY <1>2
<1>4. PICK f \in [0 .. NumDrives -> DriveStates] :
        Goes(f, NumDrives, ds, step)
  <2> HIDE DEF step
  <2> QED
    BY <1>1, <1>3, Recursion
<1>5. f = body(f)
  <2>1. \A n \in 1 .. NumDrives : step[n][f[n - 1]] = Step(f[n - 1], n, main, sub, os)
    <3> TAKE n \in 1 .. NumDrives
    <3>1. n - 1 \in 0 .. NumDrives
      BY <1>1
    <3>2. f[n - 1] \in DriveStates
      BY <3>1
    <3>3. step[n] = [s \in DriveStates |-> Step(s, n, main, sub, os)]
      OBVIOUS
    <3> QED
      BY <3>2, <3>3
  <2> HIDE DEF step
  <2>2. \A n \in 0 .. NumDrives :
          f[n] = IF n = 0 THEN ds
                 ELSE OwnGuard(InSync(f[n - 1], n - 1, main, sub, os), n - 1)
    <3> TAKE n \in 0 .. NumDrives
    <3>1. CASE n = 0
      BY <1>4, <3>1 DEF Goes
    <3>2. CASE n # 0
      <4>1. n \in 1 .. NumDrives
        BY <1>1, <3>2
      <4>2. f[n] = step[n][f[n - 1]]
        BY <1>4, <4>1 DEF Goes
      <4> QED
        BY <2>1, <3>2, <4>1, <4>2 DEF Step
    <3> QED
      BY <3>1, <3>2
  <2> QED
    BY <2>2
<1>6. g = body(g)
  <2> HIDE DEF body
  <2> QED
    BY <1>5, Zenon
<1>7. DrivesGuarded(ds, main, sub, os) = g[NumDrives]
  BY DEF DrivesGuarded
<1> HIDE DEF g
<1>8. /\ g[0] = ds
      /\ \A n \in 1 .. NumDrives : g[n] = Step(g[n - 1], n, main, sub, os)
  <2> DEFINE then(n) == OwnGuard(InSync(g[n - 1], n - 1, main, sub, os), n - 1)
  <2>1. g = [n \in 0 .. NumDrives |-> IF n = 0 THEN ds ELSE then(n)]
    BY <1>6
  <2> HIDE DEF then
  <2>2. \A n \in 0 .. NumDrives : g[n] = IF n = 0 THEN ds ELSE then(n)
    BY <2>1
  <2>3. g[0] = ds /\ \A n \in 1 .. NumDrives : g[n] = then(n)
    BY <1>1, <2>2
  <2> QED
    BY <2>3 DEF then, Step
<1> DEFINE T == {n \in 0 .. NumDrives : g[n] \in DriveStates}
<1>9. \A n \in 0 .. NumDrives : n \in T
  <2>1. 0 \in T
    BY <1>1, <1>8
  <2>2. \A n \in 0 .. NumDrives - 1 : n \in T => n + 1 \in T
    <3> SUFFICES ASSUME NEW n \in 0 .. NumDrives - 1, n \in T PROVE n + 1 \in T
      OBVIOUS
    <3>1. n + 1 \in 1 .. NumDrives /\ (n + 1) - 1 = n
      BY <1>1
    <3>2. g[n + 1] = Step(g[n], n + 1, main, sub, os)
      BY <1>8, <3>1
    <3> QED
      BY <1>2, <3>1, <3>2
  <2> HIDE DEF T
  <2> QED
    BY <1>1, <2>1, <2>2, UpTo
<1>10. g \in [0 .. NumDrives -> DriveStates]
  <2>1. \A n \in 0 .. NumDrives : g[n] \in DriveStates
    BY <1>9
  <2> QED
    BY <1>6, <2>1
<1> QED
  BY <1>7, <1>8, <1>10

-----------------------------------------------------------------------------
(* What the guard of the main clock subtracts: whole frames, and not more  *)
(* than the clock has.                                                     *)
LEMMA MainSubBounds ==
  MainSub \in Nat /\ MainSub <= GuardSub /\ MainSub > GuardSub - FrameCycles
<1>1. GuardSub \in Nat /\ FrameCycles \in Nat \ {0}
  BY ClockNumbers
<1> DEFINE q == GuardSub \div FrameCycles
           m == q * FrameCycles
<1>2. q \in Nat /\ GuardSub % FrameCycles \in 0 .. FrameCycles - 1
      /\ GuardSub % FrameCycles = GuardSub - m
  BY <1>1, Quotient
<1>3. m \in Nat
  BY <1>1, <1>2
<1>4. MainSub = m
  BY DEF MainSub
<1> HIDE DEF m, q
<1> QED
  BY <1>1, <1>2, <1>3, <1>4

LEMMA HookedTyped ==
  ASSUME NEW ds \in DriveStates, NEW main \in Clocks, NEW os \in Overshoots
  PROVE  Hooked(ds, main, os) \in DriveStates
<1>1. \A d \in Drives : ds[d] \in DriveState /\ Executed(ds[d], main, main, os[d]) \in DriveState
  <2> TAKE d \in Drives
  <2>1. ds[d] \in DriveState /\ os[d] \in 0 .. OpCycles - 1
    BY DEF DriveStates, Overshoots
  <2> QED
    BY <2>1, ExecutedTyped
<1> QED
  BY <1>1 DEF Hooked, DriveStates

LEMMA DriveTypedInit ==
  ASSUME DriveInit PROVE DriveTyped
<1>1. maincpu_clk \in Clocks /\ maincpu_clk < GuardMax
  BY DriveAssumption DEF DriveInit, Clocks, GuardMax
<1>2. 0 \in Clocks /\ 0 \in 0 .. One - 1
  BY DriveAssumption DEF Clocks
<1>3. drive \in DriveStates
  BY <1>1, <1>2 DEF DriveInit, DriveStates, DriveState
<1>4. idling \in [Drives -> Idlings] /\ frame = 0
  BY DEF DriveInit
<1>5. maincpu_clk - frame < GuardMax /\ frame \in 0 .. FrameCycles
  BY <1>1, <1>4, ClockNumbers DEF Clocks
<1> QED
  BY <1>1, <1>3, <1>4, <1>5 DEF DriveTyped

(* The steps of the main CPU and of the drives. *)
LEMMA MainCyclesTyped ==
  ASSUME DriveTyped, MainCycles PROVE DriveTyped'
<1>1. PICK n \in 1 .. FrameCycles - frame :
        /\ maincpu_clk' = maincpu_clk + n /\ frame' = frame + n
        /\ drive' = [d \in Drives |->
                      [drive[d] EXCEPT !.due = IF drive[d].enable THEN @ + n ELSE 0]]
        /\ UNCHANGED idling
  BY DEF MainCycles
<1>2. /\ maincpu_clk' \in Clocks /\ frame' \in 0 .. FrameCycles
      /\ maincpu_clk' - frame' < GuardMax
  BY <1>1, ClockNumbers DEF DriveTyped, Clocks
<1>3. \A d \in Drives :
        [drive[d] EXCEPT !.due = IF drive[d].enable THEN @ + n ELSE 0] \in DriveState
  BY <1>1, ClockNumbers DEF DriveTyped, DriveStates, DriveState
<1>4. drive' \in DriveStates
  BY <1>1, <1>3 DEF DriveStates
<1> QED
  BY <1>1, <1>2, <1>4 DEF DriveTyped

LEMMA BusAccessTyped ==
  ASSUME DriveTyped, BusAccess PROVE DriveTyped'
<1>1. PICK os \in Overshoots :
        \/ drive' = ExecutedAll(drive, maincpu_clk, maincpu_clk, os)
        \/ \E d \in Drives :
             /\ drive[d].enable
             /\ drive' = [drive EXCEPT ![d] = Executed(@, maincpu_clk, maincpu_clk, os[d])]
  BY DEF BusAccess
<1>2. drive' \in DriveStates
  <2>1. CASE drive' = ExecutedAll(drive, maincpu_clk, maincpu_clk, os)
    BY <2>1, AllTyped DEF DriveTyped
  <2>2. ASSUME NEW d \in Drives,
               drive' = [drive EXCEPT ![d] = Executed(@, maincpu_clk, maincpu_clk, os[d])]
        PROVE  drive' \in DriveStates
    <3>1. drive[d] \in DriveState /\ os[d] \in 0 .. OpCycles - 1 /\ maincpu_clk \in Clocks
      BY DEF DriveTyped, DriveStates, Overshoots
    <3>2. Executed(drive[d], maincpu_clk, maincpu_clk, os[d]) \in DriveState
      BY <3>1, ExecutedTyped
    <3> QED
      BY <2>2, <3>2 DEF DriveTyped, DriveStates
  <2> QED
    BY <1>1, <2>1, <2>2
<1> QED
  BY <1>2 DEF BusAccess, DriveTyped

LEMMA DriveVsyncTyped ==
  ASSUME DriveTyped, DriveVsync PROVE DriveTyped'
<1> DEFINE sub == IF maincpu_clk < GuardMax THEN 0 ELSE MainSub
<1>1. /\ frame = FrameCycles /\ frame' = 0 /\ maincpu_clk' = maincpu_clk - sub
      /\ idling' = idling
  BY DEF DriveVsync
<1>2. PICK os \in Overshoots :
        drive' = DrivesGuarded(Hooked(drive, maincpu_clk, os), maincpu_clk', sub, os)
  BY DEF DriveVsync
<1>3. /\ sub \in Nat /\ maincpu_clk' \in Clocks /\ maincpu_clk' + sub \in Clocks
      /\ maincpu_clk' < GuardMax
  BY <1>1, MainSubBounds, ClockNumbers DEF DriveTyped, Clocks
<1> HIDE DEF sub
<1>4. drive' \in DriveStates
  <2> DEFINE hs == Hooked(drive, maincpu_clk, os)
  <2>1. hs \in DriveStates
    BY HookedTyped DEF DriveTyped
  <2> HIDE DEF hs
  <2>2. NumDrives \in 0 .. NumDrives
    BY DriveAssumption
  <2>3. DrivesGuarded(hs, maincpu_clk', sub, os) \in DriveStates
    BY <1>3, <2>1, <2>2, GuardGoesOn
  <2> QED
    BY <1>2, <2>3 DEF hs
<1>5. frame' \in 0 .. FrameCycles /\ maincpu_clk' - frame' < GuardMax
  BY <1>1, <1>3, ClockNumbers DEF Clocks
<1> QED
  BY <1>1, <1>3, <1>4, <1>5 DEF DriveTyped

(* Of the numbers that are set to 0 one is an integer and two are counts:  *)
(* the general form keeps the provers from taking them for one.            *)
LEMMA SetTyped ==
  ASSUME NEW r \in DriveState, NEW main \in Clocks, NEW c \in Clocks,
         NEW u \in Nat, NEW n \in Int, NEW g \in Nat
  PROVE  [r EXCEPT !.enable = TRUE, !.last_clk = main, !.stop_clk = c, !.due = u,
                   !.owed = n, !.guards = g] \in DriveState
BY DEF DriveState

LEMMA SwitchedTyped ==
  ASSUME NEW r \in DriveState, NEW main \in Clocks
  PROVE  /\ [r EXCEPT !.enable = TRUE, !.last_clk = main, !.stop_clk = r.clk, !.due = 0,
                      !.owed = 0, !.guards = 0] \in DriveState
         /\ [r EXCEPT !.enable = FALSE, !.due = 0] \in DriveState
<1>1. [r EXCEPT !.enable = FALSE, !.due = 0] \in DriveState
  BY DEF DriveState
<1>2. r.clk \in Clocks /\ 0 \in Nat /\ 0 \in Int
  BY DEF DriveState
<1>3. [r EXCEPT !.enable = TRUE, !.last_clk = main, !.stop_clk = r.clk, !.due = 0,
                !.owed = 0, !.guards = 0] \in DriveState
  BY <1>2, SetTyped, Zenon
<1> QED
  BY <1>1, <1>3

LEMMA SetTrueDriveTyped ==
  ASSUME DriveTyped, NEW on \in BOOLEAN, SetTrueDrive(on) PROVE DriveTyped'
<1>1. \A d \in Drives : drive[d] \in DriveState /\ maincpu_clk \in Clocks
  BY DEF DriveTyped, DriveStates
<1>2. UNCHANGED <<maincpu_clk, idling, frame>>
  BY DEF SetTrueDrive
<1>3. CASE on = TRUE
  <2>1. drive' = [d \in Drives |->
                   [drive[d] EXCEPT !.enable = TRUE, !.last_clk = maincpu_clk,
                                    !.stop_clk = drive[d].clk, !.due = 0, !.owed = 0, !.guards = 0]]
    BY <1>3 DEF SetTrueDrive
  <2>2. drive' \in DriveStates
    BY <1>1, <2>1, SwitchedTyped DEF DriveStates
  <2> QED
    BY <1>2, <2>2 DEF DriveTyped
<1>4. CASE on = FALSE
  <2>1. drive' = [d \in Drives |-> [drive[d] EXCEPT !.enable = FALSE, !.due = 0]]
    BY <1>4 DEF SetTrueDrive
  <2>2. drive' \in DriveStates
    BY <1>1, <2>1, SwitchedTyped DEF DriveStates
  <2> QED
    BY <1>2, <2>2 DEF DriveTyped
<1> QED
  BY <1>3, <1>4

LEMMA DriveTypedNext ==
  ASSUME DriveTyped, [DriveNext]_driveVars PROVE DriveTyped'
<1>1. CASE UNCHANGED driveVars
  BY <1>1 DEF driveVars, DriveTyped
<1> QED
  BY <1>1, MainCyclesTyped, BusAccessTyped, DriveVsyncTyped, SetTrueDriveTyped DEF DriveNext

LEMMA DriveTypeFollows ==
  ASSUME DriveTyped PROVE DriveTypeOK
BY DEF DriveTyped, DriveTypeOK, DriveStates, DriveState, Clocks

(***************************************************************************)
(* DriveTypeOK, for every idling method: the clocks of the main CPU and of *)
(* the drives stay in the range of a CLOCK, whatever is subtracted from    *)
(* them (drivecpu.c:260, clkguard.c:106).                                  *)
(***************************************************************************)
THEOREM DrivesTyped == DriveSpec => []DriveTypeOK
<1>1. DriveInit => DriveTyped
  BY DriveTypedInit
<1>2. DriveTyped /\ [DriveNext]_driveVars => DriveTyped'
  BY DriveTypedNext
<1>3. DriveTyped => DriveTypeOK
  BY DriveTypeFollows
<1> QED
  BY <1>1, <1>2, <1>3, PTL DEF DriveSpec

-----------------------------------------------------------------------------
(* From here on every drive catches up at the end of a frame.              *)

(* A guard of the drive's own clock leaves it behind by so many cycles.    *)
Missing == 2 * ClockSubMin + 1

(* How far stop_clk is from where it would be without the guards: late is  *)
(* what the drive is behind but for the cycles that the guards have left.  *)
Apart(r, late) == r.stop_clk = r.clk + late \/ r.stop_clk = r.clk + late + ClockSize

(* A drive that is on is in step: it has to execute what the main CPU has  *)
(* executed since last_clk, and stop_clk is ahead of its clock by what it  *)
(* is behind, modulo the size of the clock.                                *)
InStep(r, main, cycles) ==
  r.enable =>
    /\ r.last_clk <= main /\ main - r.last_clk <= cycles /\ r.due = main - r.last_clk
    /\ r.guards <= MaxGuards =>
         /\ r.owed > - OpCycles /\ r.owed <= r.guards * Missing
         /\ Apart(r, r.owed - r.guards * Missing)

DriveInv == DriveTyped /\ \A d \in Drives : InStep(drive[d], maincpu_clk, frame)

(* What the guards leave a drive behind is less than half a turn.          *)
LEMMA MissingBounds ==
  ASSUME NEW g \in Nat, g <= MaxGuards
  PROVE  /\ g * Missing \in Nat
         /\ g * Missing + OpCycles <= ClockSize \div 2
         /\ g * Missing + OpCycles <= MaxOwed
         /\ (g + 1) * Missing = g * Missing + Missing
<1>1. Missing \in Nat /\ MaxGuards \in Nat
  BY DriveAssumption DEF Missing
<1>2. MaxGuards * Missing + OpCycles <= ClockSize \div 2 /\ MaxGuards * Missing + OpCycles <= MaxOwed
  BY DriveAssumption DEF Missing
<1>3. \A a, b, m \in Nat : a <= b => a * m \in Nat /\ b * m \in Nat /\ a * m <= b * m
  OBVIOUS
<1>4. g * Missing \in Nat /\ MaxGuards * Missing \in Nat /\ g * Missing <= MaxGuards * Missing
  BY <1>1, <1>3
<1>5. (g + 1) * Missing = g * Missing + Missing
  BY <1>1
<1> QED
  BY <1>2, <1>4, <1>5, DriveAssumption

(* In half a turn of its clock a drive executes more than a frame.         *)
LEMMA FrameBounds ==
  ASSUME NEW a \in 0 .. One - 1, NEW c \in 0 .. FrameCycles
  PROVE  /\ a + Factor * c \in Nat
         /\ (a + Factor * c) \div One \in Nat
         /\ (a + Factor * c) \div One <= ClockSize \div 2
<1> DEFINE half == ClockSize \div 2
           sum == a + Factor * c
           q == sum \div One
<1>1. /\ Factor \in Nat /\ One \in Nat \ {0} /\ FrameCycles \in Nat /\ half \in Nat
      /\ Factor * FrameCycles + One <= One * half
  BY DriveAssumption
<1> HIDE DEF half
<1>2. \A f, x, y \in Nat : x <= y => f * x \in Nat /\ f * y \in Nat /\ f * x <= f * y
  OBVIOUS
<1>3. c \in Nat /\ c <= FrameCycles
  BY <1>1
<1>4. Factor * c \in Nat /\ Factor * FrameCycles \in Nat /\ Factor * c <= Factor * FrameCycles
  BY <1>1, <1>2, <1>3
<1>5. sum \in Nat /\ sum < One * half
  BY <1>1, <1>4
<1> HIDE DEF sum
<1>6. q \in Nat /\ q * One <= sum
  BY <1>1, <1>5, Quotient
<1> HIDE DEF q
<1>7. q <= half
  <2> SUFFICES ASSUME q >= half PROVE half * One <= q * One
    BY <1>1, <1>5, <1>6
  <2> QED
    BY <1>1, <1>6
<1> QED
  BY <1>5, <1>6, <1>7 DEF q, sum, half

(***************************************************************************)
(* A drive that executes: it runs exactly as far as stop_clk and its last  *)
(* opcode, or it is ahead of stop_clk and does not run at all.             *)
(***************************************************************************)
LEMMA ExecutedInStep ==
  ASSUME NEW r \in DriveState, r.enable, NEW main \in Clocks, NEW cycles \in 0 .. FrameCycles,
         NEW o \in 0 .. OpCycles - 1, InStep(r, main, cycles)
  PROVE  InStep(Executed(r, main, main, o), main, 0)
<1> DEFINE sum    == r.accum + Factor * r.due
           adv    == sum \div One
           stop   == (r.stop_clk + adv) % ClockSize
           behind == (stop - r.clk) % ClockSize
           half   == ClockSize \div 2
           runs   == 0 < behind /\ behind <= half
           owed   == Bounded(r.owed + adv - (IF runs THEN behind + o ELSE 0))
           now    == IF runs THEN (stop + o) % ClockSize ELSE r.clk
           e      == Executed(r, main, main, o)
<1>1. /\ r.last_clk \in Clocks /\ r.last_clk <= main /\ r.due = main - r.last_clk
      /\ r.due \in 0 .. FrameCycles
  <2>1. r.last_clk \in Clocks /\ r.last_clk <= main /\ r.due = main - r.last_clk
        /\ main - r.last_clk <= cycles
    BY DEF InStep, DriveState
  <2> QED
    BY <2>1, ClockNumbers DEF Clocks
<1>2. Woken(r, main) = r
  <2>1. (main - r.last_clk) % ClockSize = main - r.last_clk
    <3> DEFINE x == main - r.last_clk
    <3>1. x \in Clocks /\ x \in Int
      BY <1>1, ClockNumbers DEF Clocks
    <3> HIDE DEF x
    <3>2. x % ClockSize = x
      BY <3>1, ClockWraps
    <3> QED
      BY <3>2 DEF x
  <2>2. ~ (main - r.last_clk > SkipAfter)
    BY <1>1, ClockNumbers, DriveAssumption
  <2> QED
    BY <2>1, <2>2 DEF Woken
<1>3. (IF main > r.last_clk THEN main - r.last_clk ELSE 0) = r.due
  BY <1>1 DEF Clocks
<1>4. e = [r EXCEPT !.stop_clk = stop, !.accum = sum % One, !.last_clk = main,
                    !.clk = now, !.due = 0, !.owed = owed]
  <2>1. e = [r EXCEPT !.stop_clk = stop, !.accum = sum % One, !.last_clk = main,
                      !.clk = IF runs THEN (stop + o) % ClockSize ELSE @,
                      !.due = 0, !.owed = owed]
    BY <1>2, <1>3 DEF Executed
  <2> QED
    BY <2>1
<1>5. adv \in Nat /\ adv <= half /\ half \in Nat /\ half <= ClockSize - half /\ ClockSize - half <= half + 1
  <2>1. r.accum \in 0 .. One - 1
    BY DEF DriveState
  <2>2. adv \in Nat /\ adv <= half
    BY <1>1, <2>1, FrameBounds
  <2> QED
    BY <2>2, ClockNumbers
<1> HIDE DEF sum, adv, half
<1>6. e.last_clk = main /\ e.due = 0 /\ e.guards = r.guards /\ e.owed = owed
      /\ e.stop_clk = stop /\ e.clk = now
  <2> HIDE DEF owed, stop, now
  <2> QED
    BY <1>4 DEF DriveState
<1>7. ASSUME r.guards <= MaxGuards
      PROVE  /\ owed > - OpCycles /\ owed <= r.guards * Missing
             /\ stop = now + (owed - r.guards * Missing)
                  \/ stop = now + (owed - r.guards * Missing) + ClockSize
  <2> DEFINE left == r.guards * Missing
             late == r.owed - left
             then == late + adv
  <2>1. /\ left \in Nat /\ left + OpCycles <= half /\ left + OpCycles <= MaxOwed
        /\ OpCycles \in Nat \ {0} /\ MaxOwed \in Nat /\ ClockSize \in Nat
    BY <1>7, MissingBounds, DriveAssumption DEF DriveState, half
  <2>2. /\ r.owed \in Int /\ r.owed > - OpCycles /\ late <= 0 /\ late \in Int
        /\ r.stop_clk = r.clk + late \/ r.stop_clk = r.clk + late + ClockSize
    BY <1>7, <2>1 DEF InStep, Apart, DriveState
  <2> HIDE DEF left
  <2>3. then \in Int /\ then <= half /\ then > - half /\ then = r.owed - left + adv
    BY <1>5, <2>1, <2>2
  <2> HIDE DEF late
  <2>4. stop \in Clocks /\ (stop = r.stop_clk + adv \/ stop = (r.stop_clk + adv) - ClockSize)
    <3>1. r.stop_clk \in Clocks
      BY DEF DriveState
    <3> DEFINE x == r.stop_clk + adv
    <3>2. x \in Int /\ (x \in Clocks \/ x - ClockSize \in Clocks)
      BY <1>5, <2>1, <3>1 DEF Clocks
    <3> HIDE DEF x
    <3>3. x % ClockSize \in Clocks /\ (x % ClockSize = x \/ x % ClockSize = x - ClockSize)
      BY <3>2, ClockWraps
    <3>4. stop = x % ClockSize
      BY DEF x
    <3> HIDE DEF stop
    <3>5. stop \in Clocks /\ (stop = x \/ stop = x - ClockSize)
      BY <3>3, <3>4
    <3> QED
      BY <3>5 DEF x
  <2> HIDE DEF stop
  <2>5. /\ r.clk \in Clocks
        /\ stop = r.clk + then \/ stop = r.clk + then + ClockSize \/ stop = r.clk + then - ClockSize
    <3>1. r.clk \in Clocks /\ r.stop_clk \in Clocks
      BY DEF DriveState
    <3> QED
      BY <1>5, <2>1, <2>2, <2>4, <3>1 DEF Clocks, then
  <2> HIDE DEF then
  <2>6. behind = IF then >= 0 THEN then ELSE then + ClockSize
    <3> DEFINE x == stop - r.clk
    <3>1. x \in Int /\ x < ClockSize /\ x > - ClockSize
      BY <2>1, <2>4, <2>5 DEF Clocks
    <3>2. x = then \/ x = then + ClockSize \/ x = then - ClockSize
      BY <2>1, <2>3, <2>4, <2>5 DEF Clocks
    <3>3. behind = x % ClockSize
      OBVIOUS
    <3> HIDE DEF x, behind
    <3>4. CASE then >= 0
      <4>1. then \in Clocks /\ (x = then \/ x = then - ClockSize)
        BY <1>5, <2>1, <2>3, <3>1, <3>2, <3>4 DEF Clocks
      <4> QED
        BY <3>1, <3>3, <3>4, <4>1, WrapsTo
    <3>5. CASE then < 0
      <4> DEFINE y == then + ClockSize
      <4>1. y \in Clocks /\ (x = y \/ x = y - ClockSize)
        BY <1>5, <2>1, <2>3, <3>1, <3>2, <3>5 DEF Clocks
      <4>2. behind = y
        <5> HIDE DEF y
        <5> QED
          BY <3>1, <3>3, <4>1, WrapsTo
      <4> QED
        BY <2>3, <3>5, <4>2
    <3> QED
      BY <2>3, <3>4, <3>5
  <2> HIDE DEF behind
  <2>7. runs <=> then > 0
    BY <1>5, <2>1, <2>3, <2>6
  <2> HIDE DEF runs
  <2>8. CASE then > 0
    <3>1. owed = left - o
      <4>1. owed = Bounded(r.owed + adv - (then + o))
        BY <2>6, <2>7, <2>8, <2>3
      <4>2. r.owed + adv - (then + o) = left - o
        BY <1>5, <2>1, <2>2, <2>3
      <4>3. left - o <= MaxOwed /\ left - o >= - MaxOwed
        BY <2>1
      <4> QED
        BY <2>1, <4>1, <4>2, <4>3 DEF Bounded
    <3>2. now = stop + o \/ now = (stop + o) - ClockSize
      <4> DEFINE x == stop + o
      <4>1. x \in Int /\ (x \in Clocks \/ x - ClockSize \in Clocks)
        BY <1>5, <2>1, <2>4 DEF Clocks
      <4>2. now = x % ClockSize
        BY <2>7, <2>8
      <4> HIDE DEF x, now
      <4>3. x % ClockSize = x \/ x % ClockSize = x - ClockSize
        BY <4>1, ClockWraps
      <4>4. now = x \/ now = x - ClockSize
        BY <4>2, <4>3
      <4> QED
        BY <4>4 DEF x
    <3> HIDE DEF owed, now
    <3>3. owed > - OpCycles /\ owed <= left
      BY <2>1, <3>1
    <3>4. stop = now + (owed - left) \/ stop = now + (owed - left) + ClockSize
      BY <2>1, <2>4, <3>1, <3>2 DEF Clocks
    <3> QED
      BY <3>3, <3>4 DEF left
  <2>9. CASE then <= 0
    <3>1. now = r.clk
      BY <2>3, <2>7, <2>9
    <3>2. owed = r.owed + adv
      <4>1. owed = Bounded(r.owed + adv)
        BY <1>5, <2>2, <2>3, <2>7, <2>9
      <4>2. r.owed + adv <= MaxOwed /\ r.owed + adv >= - MaxOwed
        BY <1>5, <2>1, <2>2, <2>3, <2>9
      <4> QED
        BY <1>5, <2>1, <2>2, <4>1, <4>2 DEF Bounded
    <3> HIDE DEF owed, now
    <3>3. owed > - OpCycles /\ owed <= left
      BY <1>5, <2>1, <2>2, <2>3, <2>9, <3>2
    <3>4. stop = now + (owed - left) \/ stop = now + (owed - left) + ClockSize
      BY <1>5, <2>1, <2>2, <2>3, <2>4, <2>5, <2>9, <3>1, <3>2 DEF Clocks
    <3> QED
      BY <3>3, <3>4 DEF left
  <2> QED
    BY <2>3, <2>8, <2>9
<1> HIDE DEF e, owed, stop, now
<1>8. InStep(e, main, 0)
  BY <1>6, <1>7 DEF InStep, Apart, Clocks
<1> QED
  BY <1>8 DEF e

(* The guard of a drive's own clock moves now and leaves stop_clk alone.   *)
LEMMA OwnGuardInStep ==
  ASSUME NEW ds \in DriveStates, NEW d \in Drives, NEW main \in Clocks,
         NEW cycles \in 0 .. FrameCycles, InStep(ds[d], main, cycles)
  PROVE  /\ InStep(OwnGuard(ds, d)[d], main, cycles)
         /\ \A b \in Drives \ {d} : OwnGuard(ds, d)[b] = ds[b]
<1> DEFINE r == ds[d]
           more == r.clk >= GuardMax /\ r.guards <= MaxGuards
           g == IF more THEN r.guards + 1 ELSE r.guards
           c == Guarded(r.clk)
           e == [r EXCEPT !.clk = c, !.guards = g]
<1>1. r \in DriveState /\ InStep(r, main, cycles)
  BY DEF DriveStates
<1>2. OwnGuard(ds, d) = [ds EXCEPT ![d] = e]
  BY <1>1 DEF OwnGuard, DriveState, DriveStates
<1>3. OwnGuard(ds, d)[d] = e /\ \A b \in Drives \ {d} : OwnGuard(ds, d)[b] = ds[b]
  <2> HIDE DEF e
  <2> QED
    BY <1>2 DEF DriveStates
<1> HIDE DEF r
<1>4. /\ r.clk \in Clocks /\ r.stop_clk \in Clocks /\ r.guards \in Nat /\ r.owed \in Int
      /\ MaxGuards \in Nat
  BY <1>1, DriveAssumption DEF DriveState
<1>5. /\ e.clk = c /\ e.guards = g /\ e.stop_clk = r.stop_clk /\ e.last_clk = r.last_clk
      /\ e.due = r.due /\ e.owed = r.owed /\ e.enable = r.enable
  <2> HIDE DEF c, g
  <2> QED
    BY <1>1 DEF DriveState
<1>6. ASSUME r.enable, g <= MaxGuards
      PROVE  /\ r.owed > - OpCycles /\ r.owed <= g * Missing
             /\ \/ r.stop_clk = c + (r.owed - g * Missing)
                \/ r.stop_clk = c + (r.owed - g * Missing) + ClockSize
  <2>1. CASE r.clk < GuardMax
    <3>1. c = r.clk /\ g = r.guards
      BY <1>4, <2>1, ClockNumbers DEF Guarded, Clocks
    <3> QED
      BY <1>1, <1>6, <3>1 DEF InStep, Apart
  <2>2. CASE ~ (r.clk < GuardMax)
    <3> DEFINE left == r.guards * Missing
               late == r.owed - left
    <3>1. r.clk >= GuardMax /\ c = r.clk - GuardSub
      BY <1>4, <2>2, ClockNumbers DEF Guarded, Clocks
    <3>2. r.guards <= MaxGuards /\ g = r.guards + 1
      BY <1>4, <1>6, <3>1
    <3>3. /\ left \in Nat /\ g * Missing = left + Missing
          /\ left + OpCycles <= ClockSize \div 2
      BY <1>4, <3>2, MissingBounds
    <3> HIDE DEF left, c, g
    <3>4. Missing = ClockSize - GuardSub /\ Missing \in Nat
      BY ClockNumbers DEF Missing
    <3>5. /\ r.owed > - OpCycles /\ r.owed <= left
          /\ r.stop_clk = r.clk + late \/ r.stop_clk = r.clk + late + ClockSize
      BY <1>1, <1>6, <3>2 DEF InStep, Apart, left
    <3>6. late \in Int /\ late > - (ClockSize \div 2) - 1
      BY <1>4, <3>3, <3>5, ClockNumbers
    <3>7. r.stop_clk = r.clk + late
      <4>1. CASE r.stop_clk = r.clk + late + ClockSize
        <5>1. r.clk >= ClockSize - ClockSubMin - 1 /\ r.stop_clk <= ClockSize - 1
          BY <1>4, <3>1, ClockNumbers DEF Clocks
        <5>2. late <= ClockSubMin - ClockSize
          BY <1>4, <3>6, <4>1, <5>1, ClockNumbers DEF Clocks
        <5> HIDE DEF late
        <5>3. FALSE
          BY <3>6, <5>2, ClockNumbers
        <5> QED
          BY <5>3
      <4> QED
        BY <3>5, <4>1
    <3>8. r.owed <= g * Missing
      BY <1>4, <3>3, <3>4, <3>5
    <3>9. r.stop_clk = c + (r.owed - (left + Missing)) + ClockSize
      BY <1>4, <3>1, <3>3, <3>4, <3>7, ClockNumbers DEF Clocks
    <3> QED
      BY <3>3, <3>5, <3>8, <3>9
  <2> QED
    BY <2>1, <2>2
<1> HIDE DEF c, g, e
<1>7. InStep(e, main, cycles)
  BY <1>1, <1>5, <1>6 DEF InStep, Apart
<1> QED
  BY <1>3, <1>7

(* A drive that has executed all: the main clock's guard moves last_clk.   *)
LEMMA InSyncInStep ==
  ASSUME NEW ds \in DriveStates, NEW d \in Drives, NEW main \in Clocks,
         NEW sub \in Nat, main + sub \in Clocks, NEW os \in Overshoots,
         InStep(ds[d], main + sub, 0)
  PROVE  /\ InStep(InSync(ds, d, main, sub, os)[d], main, 0)
         /\ \A b \in Drives \ {d} : InSync(ds, d, main, sub, os)[b] = ds[b]
<1>1. ds[d] \in DriveState /\ main \in Int
  BY ClockNumbers DEF DriveStates, Clocks
<1>2. CASE sub = 0
  BY <1>1, <1>2 DEF InSync
<1>3. CASE sub # 0 /\ ~ ds[d].enable
  <2>1. InSync(ds, d, main, sub, os) = [ds EXCEPT ![d].last_clk = main]
    BY <1>3 DEF InSync
  <2> QED
    BY <1>1, <1>3, <2>1 DEF InStep, DriveStates, DriveState
<1>4. CASE sub # 0 /\ ds[d].enable
  <2>1. ds[d].last_clk = main + sub /\ ds[d].due = 0
    BY <1>1, <1>4, ClockNumbers DEF InStep, DriveState, Clocks
  <2>2. ~ (ds[d].last_clk < sub) /\ ds[d].last_clk - sub = main
    BY <1>1, <2>1, ClockNumbers DEF Clocks
  <2> DEFINE e == [ds[d] EXCEPT !.last_clk = main]
  <2>3. InSync(ds, d, main, sub, os) = [ds EXCEPT ![d].last_clk = ds[d].last_clk - sub]
    BY <1>4, <2>2 DEF InSync
  <2>4. InSync(ds, d, main, sub, os) = [ds EXCEPT ![d] = e]
    BY <1>1, <2>2, <2>3 DEF DriveStates, DriveState
  <2>5. InStep(e, main, 0)
    <3>1. /\ e.clk = ds[d].clk /\ e.guards = ds[d].guards /\ e.stop_clk = ds[d].stop_clk
          /\ e.last_clk = main /\ e.due = 0 /\ e.owed = ds[d].owed
      BY <1>1, <2>1 DEF DriveState
    <3> HIDE DEF e
    <3>2. main <= main /\ main - main = 0
      BY <1>1
    <3> QED
      BY <1>4, <3>1, <3>2 DEF InStep, Apart
  <2> HIDE DEF e
  <2> QED
    BY <2>4, <2>5 DEF DriveStates
<1> QED
  BY <1>2, <1>3, <1>4

(* One drive after the other: the drives that have had their turn.         *)
LEMMA GuardedInStep ==
  ASSUME NEW hs \in DriveStates, NEW main \in Clocks,
         NEW sub \in Nat, main + sub \in Clocks, NEW os \in Overshoots,
         \A d \in Drives : InStep(hs[d], main + sub, 0)
  PROVE  \A d \in Drives : InStep(DrivesGuarded(hs, main, sub, os)[d], main, 0)
<1>1. PICK f \in [0 .. NumDrives -> DriveStates] :
        /\ f[0] = hs /\ \A n \in 1 .. NumDrives : f[n] = Step(f[n - 1], n, main, sub, os)
        /\ DrivesGuarded(hs, main, sub, os) = f[NumDrives]
  BY GuardGoesOn
<1>2. NumDrives \in Nat
  BY DriveAssumption
<1> DEFINE T == {n \in 0 .. NumDrives :
                   \A d \in Drives : IF d < n THEN InStep(f[n][d], main, 0) ELSE f[n][d] = hs[d]}
<1>3. 0 \in T
  BY <1>1, <1>2 DEF Drives
<1>4. ASSUME NEW n \in 0 .. NumDrives - 1, n \in T PROVE n + 1 \in T
  <2> DEFINE s == InSync(f[n], n, main, sub, os)
             t == OwnGuard(s, n)
  <2>1. n \in Drives /\ n + 1 \in 1 .. NumDrives /\ (n + 1) - 1 = n /\ n \in 0 .. NumDrives
    BY <1>2 DEF Drives
  <2>2. f[n] \in DriveStates /\ f[n + 1] = t
    BY <1>1, <2>1 DEF Step
  <2>3. f[n][n] = hs[n]
    BY <1>4, <2>1
  <2>4. s \in DriveStates
    BY <2>1, <2>2, InSyncTyped
  <2>5. InStep(s[n], main, 0) /\ \A b \in Drives \ {n} : s[b] = f[n][b]
    BY <2>1, <2>2, <2>3, InSyncInStep
  <2> HIDE DEF s
  <2>6. InStep(t[n], main, 0) /\ \A b \in Drives \ {n} : t[b] = s[b]
    <3>1. 0 \in 0 .. FrameCycles
      BY ClockNumbers
    <3> QED
      BY <2>1, <2>4, <2>5, <3>1, OwnGuardInStep
  <2> HIDE DEF t
  <2>7. \A d \in Drives : IF d < n + 1 THEN InStep(t[d], main, 0) ELSE t[d] = hs[d]
    <3> TAKE d \in Drives
    <3>1. CASE d = n
      BY <2>1, <2>6, <3>1
    <3>2. CASE d # n
      <4>1. t[d] = f[n][d]
        BY <2>5, <2>6, <3>2
      <4>2. d < n + 1 <=> d < n
        BY <1>2, <3>2 DEF Drives
      <4>3. IF d < n THEN InStep(f[n][d], main, 0) ELSE f[n][d] = hs[d]
        BY <1>4
      <4> QED
        BY <4>1, <4>2, <4>3
    <3> QED
      BY <3>1, <3>2
  <2>8. n + 1 \in 0 .. NumDrives
    BY <1>2
  <2> QED
    BY <2>2, <2>7, <2>8
<1>5. NumDrives \in T
  <2> HIDE DEF T
  <2>1. NumDrives \in 0 .. NumDrives
    BY <1>2
  <2> QED
    BY <1>2, <1>3, <1>4, <2>1, UpTo
<1>6. \A d \in Drives : InStep(f[NumDrives][d], main, 0)
  <2>1. \A d \in Drives : d < NumDrives
    BY <1>2 DEF Drives
  <2> QED
    BY <1>5, <2>1
<1> QED
  BY <1>1, <1>6

-----------------------------------------------------------------------------
LEMMA LaterInStep ==
  ASSUME NEW r \in DriveState, NEW main \in Clocks, NEW c \in 0 .. FrameCycles,
         InStep(r, main, 0)
  PROVE  InStep(r, main, c)
<1>1. r.last_clk \in Int /\ main \in Int /\ c \in Nat
  BY ClockNumbers DEF DriveState, Clocks
<1> QED
  BY <1>1 DEF InStep

LEMMA DriveInvInit ==
  ASSUME DriveInit PROVE DriveInv
<1>1. DriveTyped
  BY DriveTypedInit
<1>2. ASSUME NEW d \in Drives PROVE InStep(drive[d], maincpu_clk, frame)
  <2>1. /\ drive[d].clk = 0 /\ drive[d].stop_clk = 0 /\ drive[d].last_clk = maincpu_clk
        /\ drive[d].due = 0 /\ drive[d].owed = 0 /\ drive[d].guards = 0
    BY DEF DriveInit
  <2>2. maincpu_clk \in Int /\ frame = 0 /\ Missing \in Nat /\ OpCycles \in Nat \ {0}
    BY <1>1, ClockNumbers DEF DriveInit, DriveTyped, Clocks, Missing
  <2>3. 0 * Missing = 0
    BY <2>2
  <2> QED
    BY <2>1, <2>2, <2>3 DEF InStep, Apart
<1> QED
  BY <1>1, <1>2 DEF DriveInv

LEMMA MainCyclesInStep ==
  ASSUME DriveInv, MainCycles, NEW d \in Drives
  PROVE  InStep(drive'[d], maincpu_clk', frame')
<1>1. PICK n \in 1 .. FrameCycles - frame :
        /\ maincpu_clk' = maincpu_clk + n /\ frame' = frame + n
        /\ drive' = [b \in Drives |->
                      [drive[b] EXCEPT !.due = IF drive[b].enable THEN @ + n ELSE 0]]
  BY DEF MainCycles
<1>2. /\ drive[d] \in DriveState /\ InStep(drive[d], maincpu_clk, frame)
      /\ maincpu_clk \in Int /\ frame \in Nat /\ n \in Nat
  BY ClockNumbers DEF DriveInv, DriveTyped, DriveStates, Clocks
<1> DEFINE r == drive[d]
           e == drive'[d]
<1>3. e = [r EXCEPT !.due = IF r.enable THEN r.due + n ELSE 0]
  BY <1>1, <1>2 DEF DriveState
<1>4. /\ e.clk = r.clk /\ e.guards = r.guards /\ e.stop_clk = r.stop_clk
      /\ e.last_clk = r.last_clk /\ e.owed = r.owed /\ e.enable = r.enable
      /\ r.enable => e.due = r.due + n
  <2> HIDE DEF r, e
  <2> QED
    BY <1>2, <1>3 DEF DriveState, r
<1>5. r.due \in Nat /\ r.last_clk \in Int
  BY <1>2, ClockNumbers DEF DriveState, Clocks
<1> HIDE DEF r, e
<1>6. InStep(r, maincpu_clk, frame)
  BY <1>2 DEF r
<1>7. r.enable => /\ e.last_clk <= maincpu_clk' /\ maincpu_clk' - e.last_clk <= frame'
                  /\ e.due = maincpu_clk' - e.last_clk
  BY <1>1, <1>2, <1>4, <1>5, <1>6 DEF InStep
<1> QED
  BY <1>4, <1>6, <1>7 DEF InStep, Apart, e

LEMMA BusAccessInStep ==
  ASSUME DriveInv, BusAccess, NEW d \in Drives
  PROVE  InStep(drive'[d], maincpu_clk', frame')
<1>1. PICK os \in Overshoots :
        \/ drive' = ExecutedAll(drive, maincpu_clk, maincpu_clk, os)
        \/ \E b \in Drives :
             /\ drive[b].enable
             /\ drive' = [drive EXCEPT ![b] = Executed(@, maincpu_clk, maincpu_clk, os[b])]
  BY DEF BusAccess
<1> DEFINE e == Executed(drive[d], maincpu_clk, maincpu_clk, os[d])
<1>2. /\ drive \in DriveStates /\ drive[d] \in DriveState
      /\ InStep(drive[d], maincpu_clk, frame) /\ os[d] \in 0 .. OpCycles - 1
      /\ maincpu_clk \in Clocks /\ frame \in 0 .. FrameCycles
  BY DEF DriveInv, DriveTyped, DriveStates, Overshoots
<1>3. drive[d].enable => InStep(e, maincpu_clk, frame)
  <2>1. e \in DriveState
    BY <1>2, ExecutedTyped
  <2>2. drive[d].enable => InStep(e, maincpu_clk, 0)
    BY <1>2, ExecutedInStep
  <2> HIDE DEF e
  <2> QED
    BY <1>2, <2>1, <2>2, LaterInStep
<1>4. drive'[d] = drive[d] \/ (drive[d].enable /\ drive'[d] = e)
  <2>1. CASE drive' = ExecutedAll(drive, maincpu_clk, maincpu_clk, os)
    BY <2>1 DEF ExecutedAll
  <2>2. ASSUME NEW b \in Drives, drive[b].enable,
               drive' = [drive EXCEPT ![b] = Executed(@, maincpu_clk, maincpu_clk, os[b])]
        PROVE  drive'[d] = drive[d] \/ (drive[d].enable /\ drive'[d] = e)
    <3>1. CASE b = d
      BY <1>2, <2>2, <3>1 DEF DriveStates
    <3>2. CASE b # d
      BY <1>2, <2>2, <3>2 DEF DriveStates
    <3> QED
      BY <3>1, <3>2
  <2> QED
    BY <1>1, <2>1, <2>2
<1> HIDE DEF e
<1>5. maincpu_clk' = maincpu_clk /\ frame' = frame
  BY DEF BusAccess
<1> QED
  BY <1>2, <1>3, <1>4, <1>5

LEMMA DriveVsyncInStep ==
  ASSUME "skip_cycles" \notin Idlings, DriveInv, DriveVsync
  PROVE  \A d \in Drives : InStep(drive'[d], maincpu_clk', frame')
<1> DEFINE sub == IF maincpu_clk < GuardMax THEN 0 ELSE MainSub
<1>1. /\ frame' = 0 /\ maincpu_clk' = maincpu_clk - sub
  BY DEF DriveVsync
<1>2. PICK os \in Overshoots :
        drive' = DrivesGuarded(Hooked(drive, maincpu_clk, os), maincpu_clk', sub, os)
  BY DEF DriveVsync
<1>3. /\ sub \in Nat /\ maincpu_clk' \in Clocks /\ maincpu_clk' + sub = maincpu_clk
      /\ maincpu_clk \in Clocks
  BY <1>1, MainSubBounds, ClockNumbers DEF DriveInv, DriveTyped, Clocks
<1> HIDE DEF sub
<1> DEFINE hs == Hooked(drive, maincpu_clk, os)
<1>4. hs \in DriveStates
  BY HookedTyped DEF DriveInv, DriveTyped
<1>5. \A d \in Drives : InStep(hs[d], maincpu_clk' + sub, 0)
  <2> TAKE d \in Drives
  <2>1. /\ drive[d] \in DriveState /\ InStep(drive[d], maincpu_clk, frame)
        /\ os[d] \in 0 .. OpCycles - 1 /\ frame \in 0 .. FrameCycles
    BY DEF DriveInv, DriveTyped, DriveStates, Overshoots
  <2>2. idling[d] # "skip_cycles"
    BY DEF DriveInv, DriveTyped
  <2>3. CASE drive[d].enable
    <3>1. hs[d] = Executed(drive[d], maincpu_clk, maincpu_clk, os[d])
      BY <2>2, <2>3 DEF Hooked
    <3>2. InStep(Executed(drive[d], maincpu_clk, maincpu_clk, os[d]), maincpu_clk, 0)
      BY <1>3, <2>1, <2>3, ExecutedInStep
    <3> HIDE DEF hs
    <3> QED
      BY <1>3, <3>1, <3>2
  <2>4. CASE ~ drive[d].enable
    <3>1. hs[d] = drive[d]
      BY <2>4 DEF Hooked
    <3> QED
      BY <2>4, <3>1 DEF InStep
  <2> QED
    BY <2>3, <2>4
<1> HIDE DEF hs
<1>6. \A d \in Drives : InStep(DrivesGuarded(hs, maincpu_clk', sub, os)[d], maincpu_clk', 0)
  BY <1>3, <1>4, <1>5, GuardedInStep
<1> QED
  BY <1>1, <1>2, <1>6 DEF hs

LEMMA SetTrueDriveInStep ==
  ASSUME DriveInv, NEW on \in BOOLEAN, SetTrueDrive(on), NEW d \in Drives
  PROVE  InStep(drive'[d], maincpu_clk', frame')
<1> DEFINE r == drive[d]
           e == drive'[d]
<1>1. r \in DriveState /\ maincpu_clk \in Int /\ frame \in Nat /\ frame' = frame
      /\ maincpu_clk' = maincpu_clk
  <2>1. UNCHANGED <<maincpu_clk, idling, frame>>
    BY DEF SetTrueDrive
  <2> QED
    BY <2>1, ClockNumbers DEF DriveInv, DriveTyped, DriveStates, Clocks
<1>2. CASE on = TRUE
  <2>1. e = [r EXCEPT !.enable = TRUE, !.last_clk = maincpu_clk, !.stop_clk = r.clk,
                      !.due = 0, !.owed = 0, !.guards = 0]
    BY <1>2 DEF SetTrueDrive
  <2> HIDE DEF r, e
  <2>2. /\ e.clk = r.clk /\ e.stop_clk = r.clk /\ e.last_clk = maincpu_clk
        /\ e.due = 0 /\ e.owed = 0 /\ e.guards = 0 /\ r.clk \in Int
    BY <1>1, <2>1, ClockNumbers DEF DriveState, Clocks
  <2>3. Missing \in Nat /\ OpCycles \in Nat \ {0} /\ 0 * Missing = 0
    <3>1. Missing \in Nat
      BY ClockNumbers DEF Missing
    <3> QED
      BY <3>1, ClockNumbers
  <2> QED
    BY <1>1, <2>2, <2>3 DEF InStep, Apart, e
<1>3. CASE on = FALSE
  <2>1. e = [r EXCEPT !.enable = FALSE, !.due = 0]
    BY <1>3 DEF SetTrueDrive
  <2> HIDE DEF r, e
  <2>2. ~ e.enable
    BY <1>1, <2>1 DEF DriveState
  <2> QED
    BY <2>2 DEF InStep, e
<1> QED
  BY <1>2, <1>3

LEMMA DriveInvNext ==
  ASSUME "skip_cycles" \notin Idlings, DriveInv, [DriveNext]_driveVars
  PROVE  DriveInv'
<1>1. DriveTyped'
  BY DriveTypedNext DEF DriveInv
<1>2. \A d \in Drives : InStep(drive'[d], maincpu_clk', frame')
  <2>1. CASE UNCHANGED driveVars
    BY <2>1 DEF driveVars, DriveInv
  <2> QED
    BY <2>1, MainCyclesInStep, BusAccessInStep, DriveVsyncInStep, SetTrueDriveInStep
       DEF DriveNext
<1> QED
  BY <1>1, <1>2 DEF DriveInv

(***************************************************************************)
(* DrivesKeepUp, where every drive executes at the end of a frame: what it *)
(* has executed is what the main CPU has let it, but for the last opcode   *)
(* and for the cycles that the reductions of its clock leave it behind     *)
(* (drivecpu.c:368, drivecpu.c:404).                                       *)
(***************************************************************************)
THEOREM DrivesInStep ==
  ASSUME "skip_cycles" \notin Idlings
  PROVE  DriveSpec => []DrivesKeepUp
<1>1. DriveInv => DrivesKeepUp
  <2> SUFFICES ASSUME DriveInv, NEW d \in Drives, drive[d].enable,
                      drive[d].guards <= MaxGuards
               PROVE  KeepsUp(d, drive[d].guards * (ClockSize - GuardSub))
    BY DEF DrivesKeepUp
  <2>1. Missing = ClockSize - GuardSub
    BY ClockNumbers DEF Missing
  <2>2. InStep(drive[d], maincpu_clk, frame)
    BY DEF DriveInv
  <2> QED
    BY <2>1, <2>2 DEF InStep, KeepsUp
<1>2. DriveInit => DriveInv
  BY DriveInvInit
<1>3. DriveInv /\ [DriveNext]_driveVars => DriveInv'
  BY DriveInvNext
<1> QED
  BY <1>1, <1>2, <1>3, PTL DEF DriveSpec

-----------------------------------------------------------------------------
(***************************************************************************)
(* The interrupt lines.                                                    *)
(***************************************************************************)
PendKept ==
  "IRQPEND" \in cs.global /\ "IRQ" \notin cs.global => cs.irq_pending_clk < IntClockMax

LinesInv ==
  LinesTypeOK /\ LinesCounted /\ EdgeLatched /\ ClocksTellAges /\ PendKept

Having(P, line) == {j \in IntSource : line \in P[j]}

(* The line of one source changes: the others stay what they are. *)
LEMMA HavingAdds ==
  ASSUME NEW P \in [IntSource -> SUBSET {"IRQ", "NMI"}], NEW i \in IntSource,
         NEW line \in {"IRQ", "NMI"}, line \notin P[i],
         NEW Q, Q = [P EXCEPT ![i] = @ \cup {line}]
  PROVE  /\ Q \in [IntSource -> SUBSET {"IRQ", "NMI"}]
         /\ Cardinality(Having(P, line)) \in Nat
         /\ Cardinality(Having(Q, line)) = Cardinality(Having(P, line)) + 1
         /\ Having(Q, line) # {}
         /\ \A other \in {"IRQ", "NMI"} \ {line} : Having(Q, other) = Having(P, other)
<1>1. IsFiniteSet(Having(P, line))
  BY IntAssumption, FS_Subset DEF IntAssumption, Having
<1>2. Having(Q, line) = Having(P, line) \cup {i} /\ i \notin Having(P, line)
  BY DEF Having
<1>3. /\ Cardinality(Having(P, line)) \in Nat /\ Having(Q, line) # {}
      /\ Cardinality(Having(Q, line)) = Cardinality(Having(P, line)) + 1
  BY <1>1, <1>2, FS_AddElement, FS_CardinalityType
<1>4. \A other \in {"IRQ", "NMI"} \ {line} : Having(Q, other) = Having(P, other)
  BY DEF Having
<1> QED BY <1>3, <1>4

LEMMA HavingRemoves ==
  ASSUME NEW P \in [IntSource -> SUBSET {"IRQ", "NMI"}], NEW i \in IntSource,
         NEW line \in {"IRQ", "NMI"}, line \in P[i],
         NEW Q, Q = [P EXCEPT ![i] = @ \ {line}]
  PROVE  /\ Q \in [IntSource -> SUBSET {"IRQ", "NMI"}]
         /\ Cardinality(Having(P, line)) \in Nat \ {0}
         /\ Cardinality(Having(Q, line)) = Cardinality(Having(P, line)) - 1
         /\ Having(Q, line) = {} <=> Cardinality(Having(P, line)) = 1
         /\ \A other \in {"IRQ", "NMI"} \ {line} : Having(Q, other) = Having(P, other)
<1>1. IsFiniteSet(Having(P, line)) /\ IsFiniteSet(Having(Q, line))
  BY IntAssumption, FS_Subset DEF IntAssumption, Having
<1>2. Having(Q, line) = Having(P, line) \ {i} /\ i \in Having(P, line)
  BY DEF Having
<1>3. /\ Cardinality(Having(Q, line)) = Cardinality(Having(P, line)) - 1
      /\ Cardinality(Having(P, line)) \in Nat /\ Cardinality(Having(Q, line)) \in Nat
  BY <1>1, <1>2, FS_RemoveElement, FS_CardinalityType
<1>4. Having(Q, line) = {} <=> Cardinality(Having(Q, line)) = 0
  BY <1>1, FS_EmptySet
<1>5. \A other \in {"IRQ", "NMI"} \ {line} : Having(Q, other) = Having(P, other)
  BY DEF Having
<1>6. Q \in [IntSource -> SUBSET {"IRQ", "NMI"}]
  OBVIOUS
<1>7. /\ Cardinality(Having(P, line)) \in Nat \ {0}
      /\ Cardinality(Having(Q, line)) = 0 <=> Cardinality(Having(P, line)) = 1
  BY <1>3
<1> QED BY <1>3, <1>4, <1>5, <1>6, <1>7

-----------------------------------------------------------------------------
(* The constants, as the leaves below use them. *)
LEMMA Sizes ==
  /\ IntClockMax \in Nat /\ IntSub \in Nat /\ IntSub > 0 /\ PushCycles \in Nat
  /\ IntGuardMax \in Nat /\ IntGuardMax - IntSub >= 3 /\ 9 < IntClockMax
BY IntAssumption DEF IntAssumption, IntSub, Grace

(* A record with the fields of interrupt_cpu_status_t. *)
Status(pending, nirq, nnmi, global, irq_clk, nmi_clk, irq_pending_clk) ==
  [pending |-> pending, nirq |-> nirq, nnmi |-> nnmi, global |-> global,
   irq_clk |-> irq_clk, nmi_clk |-> nmi_clk, irq_pending_clk |-> irq_pending_clk]

StatusType ==
  [pending : [IntSource -> SUBSET {"IRQ", "NMI"}], nirq : Nat, nnmi : Nat,
   global : SUBSET {"IRQ", "IRQPEND", "NMI"},
   irq_clk : 0 .. IntClockMax, nmi_clk : 0 .. IntClockMax, irq_pending_clk : 0 .. IntClockMax]

CpuType ==
  [clk : 0 .. IntClockMax - Grace - 1, pc : {"opcode", "push", "brk"},
   cycle : 0 .. PushCycles, interrupt : BOOLEAN, last : Kinds]

TruthType == [irq : 0 .. Grace, nmi : 0 .. Grace, off : 0 .. Grace, edge : BOOLEAN]

LEMMA StatusTyped ==
  ASSUME NEW p \in [IntSource -> SUBSET {"IRQ", "NMI"}], NEW n \in Nat, NEW m \in Nat,
         NEW g \in SUBSET {"IRQ", "IRQPEND", "NMI"}, NEW a \in 0 .. IntClockMax,
         NEW b \in 0 .. IntClockMax, NEW c \in 0 .. IntClockMax
  PROVE  Status(p, n, m, g, a, b, c) \in StatusType
BY DEF Status, StatusType

LEMMA LinesStart == LinesInit => LinesInv
<1> SUFFICES ASSUME LinesInit PROVE LinesInv
  OBVIOUS
<1>1. LinesTypeOK
  BY Sizes DEF LinesInit, ResetStatus, ResetTruth, LinesTypeOK, Kinds, Grace
<1>2. LinesCounted
  BY FS_EmptySet DEF LinesInit, ResetStatus, LinesCounted, Active
<1>3. EdgeLatched /\ ClocksTellAges /\ PendKept
  BY Sizes DEF LinesInit, ResetStatus, ResetTruth, EdgeLatched, ClocksTellAges, PendKept, Since, Grace
<1> QED BY <1>1, <1>2, <1>3 DEF LinesInv

(* interrupt_set_irq *)
LEMMA RaiseIrqKeeps ==
  ASSUME LinesInv, NEW i \in IntSource, RaiseIrq(i)
  PROVE  LinesInv'
<1> USE DEF LinesInv
<1>1. cs' = Status(Asserted(i, "IRQ"), cs.nirq + 1, cs.nnmi, cs.global \cup {"IRQ", "IRQPEND"},
                   cpu.clk, cs.nmi_clk, IntClockMax)
  BY DEF LinesTypeOK, RaiseIrq, Status
<1>2. /\ cs'.pending = Asserted(i, "IRQ") /\ cs'.nirq = cs.nirq + 1 /\ cs'.nnmi = cs.nnmi
      /\ cs'.global = cs.global \cup {"IRQ", "IRQPEND"} /\ cs'.irq_clk = cpu.clk
      /\ cs'.nmi_clk = cs.nmi_clk /\ cs'.irq_pending_clk = IntClockMax
  BY <1>1 DEF Status
<1>3. /\ cs'.pending \in [IntSource -> SUBSET {"IRQ", "NMI"}] /\ Active("IRQ")' # {}
      /\ Cardinality(Active("IRQ")') = cs'.nirq /\ Cardinality(Active("NMI")') = cs'.nnmi
  <2>1. cs.pending \in [IntSource -> SUBSET {"IRQ", "NMI"}] /\ "IRQ" \notin cs.pending[i]
    BY DEF LinesTypeOK, RaiseIrq
  <2>2. /\ cs.nirq = Cardinality(Having(cs.pending, "IRQ"))
        /\ cs.nnmi = Cardinality(Having(cs.pending, "NMI"))
        /\ Active("IRQ")' = Having(cs'.pending, "IRQ") /\ Active("NMI")' = Having(cs'.pending, "NMI")
    BY DEF LinesCounted, Active, Having
  <2>3. cs'.pending = [cs.pending EXCEPT ![i] = @ \cup {"IRQ"}]
    BY <1>2 DEF Asserted
  <2> QED BY <1>2, <2>1, <2>2, <2>3, HavingAdds
<1>4. cs' \in StatusType
  <2>1. /\ cs.nirq + 1 \in Nat /\ cs.nnmi \in Nat /\ cs.nmi_clk \in 0 .. IntClockMax
        /\ cpu.clk \in 0 .. IntClockMax /\ IntClockMax \in 0 .. IntClockMax
        /\ cs.global \cup {"IRQ", "IRQPEND"} \in SUBSET {"IRQ", "IRQPEND", "NMI"}
    BY Sizes DEF LinesTypeOK, Grace
  <2> QED BY <1>1, <1>2, <1>3, <2>1, StatusTyped
<1>5. cpu' \in CpuType /\ truth' \in TruthType
  BY DEF RaiseIrq, LinesTypeOK, CpuType, TruthType, Grace
<1>6. LinesCounted'
  BY <1>2, <1>3 DEF LinesTypeOK, LinesCounted
<1>7. EdgeLatched' /\ ClocksTellAges' /\ PendKept'
  BY <1>2, Sizes DEF RaiseIrq, LinesTypeOK, EdgeLatched, ClocksTellAges, PendKept, Since, Grace
<1> QED BY <1>4, <1>5, <1>6, <1>7 DEF LinesTypeOK, StatusType, CpuType, TruthType

LEMMA ClearIrqKeeps ==
  ASSUME LinesInv, NEW i \in IntSource, ClearIrq(i)
  PROVE  LinesInv'
<1> USE DEF LinesInv
<1>1. /\ cs.pending \in [IntSource -> SUBSET {"IRQ", "NMI"}] /\ "IRQ" \in cs.pending[i]
      /\ cs.nirq \in Nat /\ cs.nnmi \in Nat
  BY DEF LinesTypeOK, ClearIrq
<1>2. /\ cs' = Status(Released(i, "IRQ"), cs.nirq - 1, cs.nnmi, cs'.global,
                      cs.irq_clk, cs.nmi_clk, cs'.irq_pending_clk)
      /\ \/ cs.nirq = 1 /\ cs'.global = cs.global \ {"IRQ"} /\ cs'.irq_pending_clk = cpu.clk + Grace
         \/ cs.nirq # 1 /\ cs'.global = cs.global /\ cs'.irq_pending_clk = cs.irq_pending_clk
  <2>1. CASE cs.nirq = 1
    <3>1. cs' = Status(Released(i, "IRQ"), 0, cs.nnmi, cs.global \ {"IRQ"},
                       cs.irq_clk, cs.nmi_clk, cpu.clk + Grace)
      BY ZenonT(40), <2>1 DEF LinesTypeOK, ClearIrq, Status
    <3> QED BY <2>1, <3>1 DEF Status
  <2>2. CASE cs.nirq # 1
    <3>1. cs' = Status(Released(i, "IRQ"), cs.nirq - 1, cs.nnmi, cs.global,
                       cs.irq_clk, cs.nmi_clk, cs.irq_pending_clk)
      BY <2>2 DEF LinesTypeOK, ClearIrq, Status
    <3> QED BY <2>2, <3>1 DEF Status
  <2> QED BY <2>1, <2>2
<1>3. /\ cs'.pending = Released(i, "IRQ") /\ cs'.nirq = cs.nirq - 1 /\ cs'.nnmi = cs.nnmi
      /\ cs'.irq_clk = cs.irq_clk /\ cs'.nmi_clk = cs.nmi_clk
  BY <1>2 DEF Status
<1>4. /\ cs'.pending \in [IntSource -> SUBSET {"IRQ", "NMI"}] /\ cs.nirq # 0
      /\ Cardinality(Active("IRQ")') = cs'.nirq /\ Cardinality(Active("NMI")') = cs'.nnmi
      /\ Active("IRQ")' = {} <=> cs.nirq = 1
  <2>1. /\ cs.nirq = Cardinality(Having(cs.pending, "IRQ"))
        /\ cs.nnmi = Cardinality(Having(cs.pending, "NMI"))
        /\ Active("IRQ")' = Having(cs'.pending, "IRQ") /\ Active("NMI")' = Having(cs'.pending, "NMI")
    BY DEF LinesCounted, Active, Having
  <2>2. cs'.pending = [cs.pending EXCEPT ![i] = @ \ {"IRQ"}]
    BY <1>3 DEF Released
  <2> QED BY <1>1, <1>3, <2>1, <2>2, HavingRemoves
<1>5. cs' \in StatusType
  <2>1. /\ cs.nirq - 1 \in Nat /\ cs.irq_clk \in 0 .. IntClockMax
        /\ cs.nmi_clk \in 0 .. IntClockMax /\ cs'.irq_pending_clk \in 0 .. IntClockMax
        /\ cs'.global \in SUBSET {"IRQ", "IRQPEND", "NMI"}
    BY <1>1, <1>2, <1>4, Sizes DEF LinesTypeOK, Grace
  <2> QED BY <1>1, <1>2, <1>3, <1>4, <2>1, StatusTyped
<1>6. cpu' \in CpuType /\ truth' \in TruthType
  BY DEF ClearIrq, LinesTypeOK, CpuType, TruthType, Grace
<1>7. LinesCounted'
  <2>1. "IRQ" \in cs.global
    BY <1>1 DEF LinesCounted, Active
  <2> QED BY <1>2, <1>4, <2>1 DEF LinesCounted
<1>8. EdgeLatched' /\ PendKept'
  BY <1>2, Sizes DEF ClearIrq, LinesTypeOK, EdgeLatched, PendKept, Grace
<1>9. ClocksTellAges'
  BY <1>2, <1>3, Sizes DEF ClearIrq, LinesTypeOK, ClocksTellAges, Since, Grace
<1> QED BY <1>5, <1>6, <1>7, <1>8, <1>9 DEF LinesTypeOK, StatusType, CpuType, TruthType

(* interrupt_set_nmi *)
LEMMA RaiseNmiKeeps ==
  ASSUME LinesInv, NEW i \in IntSource, RaiseNmi(i)
  PROVE  LinesInv'
<1> USE DEF LinesInv
<1>1. /\ cs.pending \in [IntSource -> SUBSET {"IRQ", "NMI"}] /\ "NMI" \notin cs.pending[i]
      /\ cs.nirq \in Nat /\ cs.nnmi \in Nat
  BY DEF LinesTypeOK, RaiseNmi
<1>2. /\ cs' = Status(Asserted(i, "NMI"), cs.nirq, cs.nnmi + 1, cs'.global,
                      cs.irq_clk, cs'.nmi_clk, cs.irq_pending_clk)
      /\ \/ /\ cs.nnmi = 0 /\ "NMI" \notin cs.global
            /\ cs'.global = cs.global \cup {"NMI"} /\ cs'.nmi_clk = cpu.clk
         \/ /\ cs.nnmi # 0 \/ "NMI" \in cs.global
            /\ cs'.global = cs.global /\ cs'.nmi_clk = cs.nmi_clk
  <2>1. CASE cs.nnmi = 0 /\ "NMI" \notin cs.global
    <3>1. cs' = Status(Asserted(i, "NMI"), cs.nirq, 1, cs.global \cup {"NMI"},
                       cs.irq_clk, cpu.clk, cs.irq_pending_clk)
      BY ZenonT(40), <2>1 DEF LinesTypeOK, RaiseNmi, Status
    <3> QED BY <2>1, <3>1 DEF Status
  <2>2. CASE cs.nnmi # 0 \/ "NMI" \in cs.global
    <3>1. cs' = Status(Asserted(i, "NMI"), cs.nirq, cs.nnmi + 1, cs.global,
                       cs.irq_clk, cs.nmi_clk, cs.irq_pending_clk)
      BY ZenonT(40), <2>2 DEF LinesTypeOK, RaiseNmi, Status
    <3> QED BY <2>2, <3>1 DEF Status
  <2> QED BY <2>1, <2>2
<1>3. /\ cs'.pending = Asserted(i, "NMI") /\ cs'.nirq = cs.nirq /\ cs'.nnmi = cs.nnmi + 1
      /\ cs'.irq_clk = cs.irq_clk /\ cs'.irq_pending_clk = cs.irq_pending_clk
  BY <1>2 DEF Status
<1>4. /\ cs'.pending \in [IntSource -> SUBSET {"IRQ", "NMI"}] /\ Active("IRQ")' = Active("IRQ")
      /\ Cardinality(Active("IRQ")') = cs'.nirq /\ Cardinality(Active("NMI")') = cs'.nnmi
  <2>1. /\ cs.nirq = Cardinality(Having(cs.pending, "IRQ"))
        /\ cs.nnmi = Cardinality(Having(cs.pending, "NMI")) /\ Active("IRQ") = Having(cs.pending, "IRQ")
        /\ Active("IRQ")' = Having(cs'.pending, "IRQ") /\ Active("NMI")' = Having(cs'.pending, "NMI")
    BY DEF LinesCounted, Active, Having
  <2>2. cs'.pending = [cs.pending EXCEPT ![i] = @ \cup {"NMI"}]
    BY <1>3 DEF Asserted
  <2> QED BY <1>1, <1>3, <2>1, <2>2, HavingAdds
<1>5. cs' \in StatusType
  <2>1. /\ cs.nnmi + 1 \in Nat /\ cs.irq_clk \in 0 .. IntClockMax
        /\ cs'.nmi_clk \in 0 .. IntClockMax /\ cs.irq_pending_clk \in 0 .. IntClockMax
        /\ cs'.global \in SUBSET {"IRQ", "IRQPEND", "NMI"}
    BY <1>1, <1>2, Sizes DEF LinesTypeOK, Grace
  <2> QED BY <1>1, <1>2, <1>3, <1>4, <2>1, StatusTyped
<1>6. NewEdge <=> cs.nnmi = 0
  <2>1. IsFiniteSet(Active("NMI"))
    BY IntAssumption, FS_Subset DEF IntAssumption, Active
  <2> QED BY <2>1, FS_EmptySet DEF NewEdge, Active, LinesCounted
<1>7. cpu' \in CpuType /\ truth' \in TruthType
  <2> DEFINE e == truth.edge \/ NewEdge
  <2>1. e \in BOOLEAN
    BY Zenon
  <2>2. truth' \in {[truth EXCEPT !.nmi = 0, !.edge = e], [truth EXCEPT !.edge = e]} /\ cpu' = cpu
    BY Zenon DEF RaiseNmi
  <2> HIDE DEF e
  <2>3. truth \in TruthType /\ cpu' \in CpuType /\ 0 \in 0 .. Grace
    BY <2>2 DEF LinesTypeOK, CpuType, TruthType, Grace
  <2>4. [truth EXCEPT !.nmi = 0, !.edge = e] \in TruthType /\ [truth EXCEPT !.edge = e] \in TruthType
    BY <2>1, <2>3 DEF TruthType
  <2> QED BY <2>2, <2>3, <2>4
<1>8. LinesCounted' /\ PendKept'
  BY <1>2, <1>3, <1>4 DEF LinesCounted, PendKept
<1>9. EdgeLatched' /\ ClocksTellAges'
  <2>1. truth'.edge <=> truth.edge \/ NewEdge
    BY DEF RaiseNmi, LinesTypeOK
  <2>2. /\ cs.nnmi = 0 /\ "NMI" \notin cs.global => truth'.nmi = 0
        /\ cs.nnmi # 0 \/ "NMI" \in cs.global => truth'.nmi = truth.nmi
        /\ truth'.irq = truth.irq /\ truth'.off = truth.off /\ cpu' = cpu
    BY ZenonT(40) DEF RaiseNmi, LinesTypeOK
  <2>3. EdgeLatched'
    BY <1>2, <1>6, <2>1 DEF EdgeLatched
  <2> QED BY <1>2, <1>3, <2>2, <2>3, Sizes DEF ClocksTellAges, Since, LinesTypeOK, Grace
<1> QED BY <1>5, <1>7, <1>8, <1>9 DEF LinesTypeOK, StatusType, CpuType, TruthType

LEMMA ClearNmiKeeps ==
  ASSUME LinesInv, NEW i \in IntSource, ClearNmi(i)
  PROVE  LinesInv'
<1> USE DEF LinesInv
<1>1. /\ cs.pending \in [IntSource -> SUBSET {"IRQ", "NMI"}] /\ "NMI" \in cs.pending[i]
      /\ cs.nirq \in Nat /\ cs.nnmi \in Nat
  BY DEF LinesTypeOK, ClearNmi
<1>2. cs' = Status(Released(i, "NMI"), cs.nirq, cs.nnmi - 1, cs.global,
                   cs.irq_clk, cs.nmi_clk, cs.irq_pending_clk)
  BY DEF LinesTypeOK, ClearNmi, Status
<1>3. /\ cs'.pending = Released(i, "NMI") /\ cs'.nirq = cs.nirq /\ cs'.nnmi = cs.nnmi - 1
      /\ cs'.global = cs.global /\ cs'.irq_clk = cs.irq_clk /\ cs'.nmi_clk = cs.nmi_clk
      /\ cs'.irq_pending_clk = cs.irq_pending_clk
  BY <1>2 DEF Status
<1>4. /\ cs'.pending \in [IntSource -> SUBSET {"IRQ", "NMI"}] /\ cs.nnmi - 1 \in Nat
      /\ Cardinality(Active("IRQ")') = cs'.nirq /\ Cardinality(Active("NMI")') = cs'.nnmi
      /\ Active("IRQ")' = Active("IRQ")
  <2>1. /\ cs.nirq = Cardinality(Having(cs.pending, "IRQ"))
        /\ cs.nnmi = Cardinality(Having(cs.pending, "NMI")) /\ Active("IRQ") = Having(cs.pending, "IRQ")
        /\ Active("IRQ")' = Having(cs'.pending, "IRQ") /\ Active("NMI")' = Having(cs'.pending, "NMI")
    BY DEF LinesCounted, Active, Having
  <2>2. cs'.pending = [cs.pending EXCEPT ![i] = @ \ {"NMI"}]
    BY <1>3 DEF Released
  <2> QED BY <1>1, <1>3, <2>1, <2>2, HavingRemoves
<1>5. cs' \in StatusType
  <2>1. /\ cs.irq_clk \in 0 .. IntClockMax /\ cs.nmi_clk \in 0 .. IntClockMax
        /\ cs.irq_pending_clk \in 0 .. IntClockMax /\ cs.global \in SUBSET {"IRQ", "IRQPEND", "NMI"}
    BY DEF LinesTypeOK
  <2> QED BY <1>1, <1>2, <1>3, <1>4, <2>1, StatusTyped
<1>6. LinesCounted' /\ EdgeLatched' /\ ClocksTellAges' /\ PendKept'
  BY <1>3, <1>4 DEF ClearNmi, LinesCounted, EdgeLatched, ClocksTellAges, PendKept, Since
<1> QED BY <1>5, <1>6 DEF ClearNmi, LinesTypeOK, StatusType

-----------------------------------------------------------------------------
(* A cycle: everything grows older. *)
LEMMA CycleKeeps ==
  ASSUME LinesInv, Cycle
  PROVE  LinesInv'
<1> USE DEF LinesInv
<1>1. /\ cpu'.clk = cpu.clk + 1 /\ cs' = cs /\ cpu.clk \in 0 .. IntClockMax
      /\ truth'.irq = Older(truth.irq) /\ truth'.nmi = Older(truth.nmi)
      /\ truth'.off = Older(truth.off) /\ truth'.edge = truth.edge
  BY Sizes DEF Cycle, LinesTypeOK, Grace
<1>2. cpu' \in CpuType
  <2> DEFINE c == IF cpu.pc = "push" THEN cpu.cycle + 1 ELSE cpu.cycle
             k == cpu.clk + 1
  <2>1. c \in 0 .. PushCycles /\ k \in 0 .. IntClockMax - Grace - 1
    BY Sizes DEF Cycle, LinesTypeOK, Grace
  <2>2. cpu' = [cpu EXCEPT !.clk = k, !.cycle = c]
    BY DEF Cycle
  <2> HIDE DEF c, k
  <2> QED BY <2>1, <2>2 DEF LinesTypeOK, CpuType
<1>3. truth' \in TruthType
  <2>1. /\ Older(truth.irq) \in 0 .. Grace /\ Older(truth.nmi) \in 0 .. Grace
        /\ Older(truth.off) \in 0 .. Grace
    BY DEF LinesTypeOK, Older, Grace
  <2> QED BY <2>1 DEF Cycle, LinesTypeOK, TruthType
<1>4. LinesCounted' /\ EdgeLatched' /\ PendKept'
  BY <1>1 DEF LinesCounted, EdgeLatched, PendKept, Active
<1>5. ClocksTellAges'
  BY <1>1, Sizes DEF LinesTypeOK, ClocksTellAges, Since, Older, Grace
<1> QED BY <1>1, <1>2, <1>3, <1>4, <1>5 DEF LinesTypeOK, CpuType, TruthType

(***************************************************************************)
(* The status t differs from cs in what the CPU keeps pending only, and it *)
(* does not drop an IRQ whose line is active.                              *)
(***************************************************************************)
SameLines(t) ==
  /\ t = Status(cs.pending, cs.nirq, cs.nnmi, t.global, cs.irq_clk, cs.nmi_clk, t.irq_pending_clk)
  /\ t.global \in SUBSET {"IRQ", "IRQPEND", "NMI"}
  /\ t.irq_pending_clk \in {cs.irq_pending_clk, IntClockMax}
  /\ "IRQ" \in t.global <=> "IRQ" \in cs.global

Kept(t) ==
  "IRQPEND" \in t.global /\ "IRQ" \notin t.global => t.irq_pending_clk < IntClockMax

LEMMA SameLinesSelf == ASSUME LinesInv PROVE SameLines(cs) /\ Kept(cs)
<1>1. cs \in StatusType
  BY DEF LinesInv, LinesTypeOK, StatusType
<1>2. cs = Status(cs.pending, cs.nirq, cs.nnmi, cs.global, cs.irq_clk, cs.nmi_clk, cs.irq_pending_clk)
  BY <1>1 DEF StatusType, Status
<1> QED BY <1>1, <1>2 DEF StatusType, SameLines, LinesInv, PendKept, Kept

(* What the CPU makes of a status: the NMI is dropped by AckNmi only. *)
LEMMA AckNmiSettles ==
  ASSUME NEW t, SameLines(t), Kept(t)
  PROVE  SameLines(AckNmi(t)) /\ Kept(AckNmi(t)) /\ "NMI" \notin AckNmi(t).global
<1>1. AckNmi(t) = Status(cs.pending, cs.nirq, cs.nnmi, t.global \ {"NMI"},
                         cs.irq_clk, cs.nmi_clk, t.irq_pending_clk)
  BY DEF AckNmi, SameLines, Status
<1>2. /\ AckNmi(t).global = t.global \ {"NMI"}
      /\ AckNmi(t).irq_pending_clk = t.irq_pending_clk
  BY <1>1 DEF Status
<1> QED BY <1>1, <1>2 DEF SameLines, Kept

LEMMA AckIrqSettles ==
  ASSUME NEW t, SameLines(t)
  PROVE  SameLines(AckIrq(t)) /\ Kept(AckIrq(t)) /\ ("NMI" \in AckIrq(t).global <=> "NMI" \in t.global)
<1>1. AckIrq(t) = Status(cs.pending, cs.nirq, cs.nnmi, t.global \ {"IRQPEND"},
                         cs.irq_clk, cs.nmi_clk, IntClockMax)
  <2> DEFINE g == t.global
             c == t.irq_pending_clk
  <2>1. t = Status(cs.pending, cs.nirq, cs.nnmi, g, cs.irq_clk, cs.nmi_clk, c)
    BY DEF SameLines
  <2> HIDE DEF g, c
  <2>2. t.global = g
    BY <2>1 DEF Status
  <2>3. AckIrq(t) = Status(cs.pending, cs.nirq, cs.nnmi, g \ {"IRQPEND"},
                           cs.irq_clk, cs.nmi_clk, IntClockMax)
    <3> DEFINE h == g \ {"IRQPEND"}
               u == Status(cs.pending, cs.nirq, cs.nnmi, h, cs.irq_clk, cs.nmi_clk, c)
    <3>1. AckIrq(t) = [t EXCEPT !.global = h, !.irq_pending_clk = IntClockMax]
      BY <2>2 DEF AckIrq
    <3> HIDE DEF h
    <3>2. [t EXCEPT !.global = h, !.irq_pending_clk = IntClockMax]
            = [[t EXCEPT !.global = h] EXCEPT !.irq_pending_clk = IntClockMax]
      OBVIOUS
    <3>3. [t EXCEPT !.global = h] = u
      BY <2>1 DEF Status
    <3>4. [u EXCEPT !.irq_pending_clk = IntClockMax]
            = Status(cs.pending, cs.nirq, cs.nnmi, h, cs.irq_clk, cs.nmi_clk, IntClockMax)
      BY DEF Status
    <3> HIDE DEF u
    <3> QED BY <3>1, <3>2, <3>3, <3>4 DEF h
  <2> QED BY <2>2, <2>3
<1>2. AckIrq(t).global = t.global \ {"IRQPEND"} /\ AckIrq(t).irq_pending_clk = IntClockMax
  BY <1>1 DEF Status
<1> QED BY <1>1, <1>2 DEF SameLines, Kept

LEMMA AckIrqGone == ASSUME LinesInv PROVE "IRQPEND" \notin AckIrq(cs).global
BY DEF LinesInv, LinesTypeOK, AckIrq

LEMMA LookedSettles ==
  ASSUME LinesInv
  PROVE  SameLines(Looked) /\ Kept(Looked) /\ ("NMI" \in Looked.global <=> "NMI" \in cs.global)
BY SameLinesSelf, AckIrqSettles DEF Looked

LEMMA ForgottenSettles ==
  ASSUME NEW t, SameLines(t)
  PROVE  /\ SameLines(Forgotten(t)) /\ Kept(Forgotten(t))
         /\ "NMI" \in Forgotten(t).global <=> "NMI" \in t.global
<1>1. CASE "IRQ" \notin t.global
  <2>1. Forgotten(t) = Status(cs.pending, cs.nirq, cs.nnmi, t.global \ {"IRQPEND"},
                              cs.irq_clk, cs.nmi_clk, t.irq_pending_clk)
    BY <1>1 DEF Forgotten, SameLines, Status
  <2>2. /\ Forgotten(t).global = t.global \ {"IRQPEND"}
        /\ Forgotten(t).irq_pending_clk = t.irq_pending_clk
    BY <2>1 DEF Status
  <2> QED BY <2>1, <2>2 DEF SameLines, Kept
<1>2. CASE "IRQ" \in t.global
  BY <1>2 DEF Forgotten, Kept
<1> QED BY <1>1, <1>2

LEMMA SeenSettles ==
  ASSUME NEW t, SameLines(t)
  PROVE  LET u == [t EXCEPT !.global = @ \cup {"IRQPEND"}]
         IN  SameLines(u) /\ ("NMI" \in u.global <=> "NMI" \in t.global)
<1> DEFINE u == [t EXCEPT !.global = @ \cup {"IRQPEND"}]
<1>1. u = Status(cs.pending, cs.nirq, cs.nnmi, t.global \cup {"IRQPEND"},
                 cs.irq_clk, cs.nmi_clk, t.irq_pending_clk)
  BY DEF SameLines, Status
<1>2. u.global = t.global \cup {"IRQPEND"} /\ u.irq_pending_clk = t.irq_pending_clk
  BY <1>1 DEF Status
<1> HIDE DEF u
<1>3. SameLines(u) /\ ("NMI" \in u.global <=> "NMI" \in t.global)
  BY <1>1, <1>2 DEF SameLines
<1> QED BY <1>3 DEF u

(* The CPU acts, and takes no time. *)
LEMMA SettledKeeps ==
  ASSUME LinesInv, SameLines(cs'), Kept(cs'), cpu' \in CpuType, cpu'.clk = cpu.clk,
         truth' \in {truth, [truth EXCEPT !.edge = FALSE]},
         truth'.edge <=> "NMI" \in cs'.global
  PROVE  LinesInv'
<1> USE DEF LinesInv
<1>1. /\ cs'.pending = cs.pending /\ cs'.nirq = cs.nirq /\ cs'.nnmi = cs.nnmi
      /\ cs'.irq_clk = cs.irq_clk /\ cs'.nmi_clk = cs.nmi_clk
  BY DEF SameLines, Status
<1>2. cs' \in StatusType
  <2>1. /\ cs.pending \in [IntSource -> SUBSET {"IRQ", "NMI"}] /\ cs.nirq \in Nat /\ cs.nnmi \in Nat
        /\ cs.irq_clk \in 0 .. IntClockMax /\ cs.nmi_clk \in 0 .. IntClockMax
        /\ cs'.irq_pending_clk \in 0 .. IntClockMax /\ cs'.global \in SUBSET {"IRQ", "IRQPEND", "NMI"}
    BY Sizes DEF LinesTypeOK, SameLines
  <2>2. cs' = Status(cs.pending, cs.nirq, cs.nnmi, cs'.global, cs.irq_clk, cs.nmi_clk,
                     cs'.irq_pending_clk)
    BY DEF SameLines
  <2> QED BY <2>1, <2>2, StatusTyped
<1>3. truth' \in TruthType /\ truth'.irq = truth.irq /\ truth'.nmi = truth.nmi /\ truth'.off = truth.off
  BY DEF LinesTypeOK, TruthType
<1>4. LinesCounted'
  BY <1>1 DEF LinesCounted, Active, SameLines
<1>5. EdgeLatched' /\ PendKept'
  BY DEF EdgeLatched, PendKept, Kept
<1>6. ClocksTellAges'
  BY <1>1, <1>3 DEF ClocksTellAges, Since, SameLines
<1> QED BY <1>2, <1>3, <1>4, <1>5, <1>6 DEF LinesTypeOK, StatusType, CpuType, TruthType

LEMMA TakeInterruptKeeps == ASSUME LinesInv, TakeInterrupt PROVE LinesInv'
<1>1. SameLines(cs') /\ Kept(cs') /\ ("NMI" \in cs'.global <=> "NMI" \in cs.global)
  BY LookedSettles DEF TakeInterrupt
<1>2. cpu' \in CpuType /\ cpu'.clk = cpu.clk
  <2>1. cpu' = [clk |-> cpu.clk, pc |-> "push", cycle |-> 0, interrupt |-> TRUE, last |-> cpu.last]
    BY DEF TakeInterrupt, LinesInv, LinesTypeOK
  <2> QED BY <2>1, Sizes DEF LinesInv, LinesTypeOK, CpuType
<1> QED BY <1>1, <1>2, SettledKeeps DEF TakeInterrupt, LinesInv, EdgeLatched

LEMMA VectorKeeps == ASSUME LinesInv, Vector PROVE LinesInv'
<1>1. cpu' \in CpuType /\ cpu'.clk = cpu.clk
  <2>1. cpu' = [clk |-> cpu.clk, pc |-> "opcode", cycle |-> 0, interrupt |-> cpu.interrupt,
                last |-> "brk"]
    BY DEF Vector, LinesInv, LinesTypeOK
  <2> QED BY <2>1, Sizes DEF LinesInv, LinesTypeOK, CpuType, Kinds
<1>2. CASE cs' = Forgotten(AckNmi(cs)) /\ truth' = [truth EXCEPT !.edge = FALSE]
  <2>1. SameLines(cs') /\ Kept(cs') /\ "NMI" \notin cs'.global
    BY <1>2, SameLinesSelf, AckNmiSettles, ForgottenSettles
  <2>2. truth'.edge = FALSE
    BY <1>2 DEF LinesInv, LinesTypeOK
  <2> QED BY <1>1, <1>2, <2>1, <2>2, SettledKeeps
<1>3. CASE cs' = Forgotten(AckIrq(cs)) /\ truth' = truth
  <2>1. SameLines(cs') /\ Kept(cs') /\ ("NMI" \in cs'.global <=> "NMI" \in cs.global)
    BY <1>3, SameLinesSelf, AckIrqSettles, ForgottenSettles
  <2> QED BY <1>1, <1>3, <2>1, SettledKeeps DEF LinesInv, EdgeLatched
<1> QED BY <1>2, <1>3 DEF Vector

LEMMA BreakKeeps == ASSUME LinesInv, Break PROVE LinesInv'
<1>1. cpu' \in CpuType /\ cpu'.clk = cpu.clk
  BY Sizes DEF Break, LinesInv, LinesTypeOK, CpuType
<1>2. CASE cs' = AckNmi(cs) /\ truth' = [truth EXCEPT !.edge = FALSE]
  <2>1. SameLines(cs') /\ Kept(cs') /\ "NMI" \notin cs'.global
    BY <1>2, SameLinesSelf, AckNmiSettles
  <2>2. truth'.edge = FALSE
    BY <1>2 DEF LinesInv, LinesTypeOK
  <2> QED BY <1>1, <1>2, <2>1, <2>2, SettledKeeps
<1>3. CASE cs' \in {cs, AckIrq(cs)} /\ truth' = truth
  <2>1. SameLines(cs') /\ Kept(cs') /\ ("NMI" \in cs'.global <=> "NMI" \in cs.global)
    BY <1>3, SameLinesSelf, AckIrqSettles
  <2> QED BY <1>1, <1>3, <2>1, SettledKeeps DEF LinesInv, EdgeLatched
<1> QED BY <1>2, <1>3 DEF Break

LEMMA NextOpcodeKeeps ==
  ASSUME LinesInv, NEW kind \in Kinds, NEW i \in BOOLEAN, NextOpcode(kind, i)
  PROVE  LinesInv'
<1>1. cpu' \in CpuType /\ cpu'.clk = cpu.clk
  BY DEF NextOpcode, LinesInv, LinesTypeOK, CpuType
<1>2. SameLines(cs') /\ Kept(cs') /\ ("NMI" \in cs'.global <=> "NMI" \in cs.global)
  BY LookedSettles, SeenSettles, ForgottenSettles DEF NextOpcode
<1> QED BY <1>1, <1>2, SettledKeeps DEF NextOpcode, LinesInv, EdgeLatched

LEMMA ResetCpuKeeps == ASSUME LinesInv, ResetCpu PROVE LinesInv'
<1> USE DEF LinesInv
<1>1. cpu' \in CpuType /\ cpu'.clk = 6
  BY Sizes DEF ResetCpu, LinesTypeOK, CpuType, Grace
<1>2. cs' \in StatusType /\ truth' \in TruthType
  BY Sizes DEF ResetCpu, ResetStatus, ResetTruth, StatusType, TruthType, Grace
<1>3. LinesCounted'
  BY FS_EmptySet DEF ResetCpu, ResetStatus, LinesCounted, Active
<1>4. EdgeLatched' /\ ClocksTellAges' /\ PendKept'
  BY <1>1, Sizes DEF ResetCpu, ResetStatus, ResetTruth, EdgeLatched, ClocksTellAges, PendKept, Since, Grace
<1> QED BY <1>1, <1>2, <1>3, <1>4 DEF LinesTypeOK, StatusType, CpuType, TruthType

-----------------------------------------------------------------------------
(* The guard: what it takes from a clock, or leaves of it, is past anyway. *)
LEMMA WarpLinesKeeps == ASSUME LinesInv, WarpLines PROVE LinesInv'
<1> USE DEF LinesInv
<1>1. /\ cs.irq_clk \in Nat /\ cs.nmi_clk \in Nat /\ cs.irq_pending_clk \in Nat
      /\ cpu.clk \in Nat /\ cpu.clk >= IntGuardMax /\ cpu.clk <= IntClockMax - 4
      /\ cs.irq_clk <= IntClockMax /\ cs.nmi_clk <= IntClockMax /\ cs.irq_pending_clk <= IntClockMax
  BY Sizes DEF WarpLines, LinesTypeOK, Grace
<1>2. \A n \in 0 .. IntClockMax : Warped(n) \in 0 .. IntClockMax /\ Warped(n) <= n
  BY Sizes DEF Warped
<1> DEFINE p == IF cs.irq_pending_clk < IntClockMax THEN Warped(cs.irq_pending_clk)
                ELSE cs.irq_pending_clk
           a == Warped(cs.irq_clk)
           b == Warped(cs.nmi_clk)
<1>3. cs' = Status(cs.pending, cs.nirq, cs.nnmi, cs.global, a, b, p)
  <2>1. cs' = [cs EXCEPT !.irq_clk = a, !.nmi_clk = b, !.irq_pending_clk = p]
    BY DEF WarpLines
  <2>2. a \in 0 .. IntClockMax /\ b \in 0 .. IntClockMax /\ p \in 0 .. IntClockMax
    BY <1>1, <1>2
  <2> HIDE DEF a, b, p
  <2> QED BY <2>1, <2>2 DEF LinesTypeOK, Status
<1>4. /\ cs'.pending = cs.pending /\ cs'.nirq = cs.nirq /\ cs'.nnmi = cs.nnmi /\ cs'.global = cs.global
      /\ cs'.irq_clk = a /\ cs'.nmi_clk = b /\ cs'.irq_pending_clk = p
  BY <1>3 DEF Status
<1>5. cpu' \in CpuType /\ cpu'.clk = cpu.clk - IntSub
  <2>1. cpu.clk - IntSub \in 0 .. IntClockMax - Grace - 1
    BY <1>1, Sizes DEF Grace
  <2> QED BY <2>1 DEF WarpLines, LinesTypeOK, CpuType
<1>6. cs' \in StatusType
  BY <1>1, <1>2, <1>3, StatusTyped DEF LinesTypeOK
<1>7. LinesCounted' /\ EdgeLatched' /\ PendKept'
  <2>1. LinesCounted'
    BY <1>4 DEF LinesCounted, Active
  <2>2. EdgeLatched'
    BY <1>4 DEF WarpLines, EdgeLatched
  <2>3. cs.irq_pending_clk < IntClockMax => p < IntClockMax
    BY <1>1, <1>2, Sizes
  <2>4. PendKept'
    BY <1>4, <2>3 DEF PendKept
  <2> QED BY <2>1, <2>2, <2>4
<1>8. ClocksTellAges'
  <2>1. /\ truth.irq = Since(cs.irq_clk) /\ truth.nmi = Since(cs.nmi_clk)
        /\ truth.irq \in 0 .. 3 /\ truth.nmi \in 0 .. 3 /\ truth.off \in 0 .. 3 /\ truth' = truth
    BY DEF ClocksTellAges, LinesTypeOK, WarpLines, Grace
  <2>2. truth'.irq = Since(cs.irq_clk)' /\ truth'.nmi = Since(cs.nmi_clk)'
    BY <1>1, <1>4, <1>5, <2>1, Sizes DEF Since, Warped, Grace
  <2>3. p # IntClockMax => \/ p - (cpu.clk - IntSub) = 3 - truth.off
                           \/ truth.off = 3 /\ p <= cpu.clk - IntSub
    BY <1>1, <2>1, Sizes DEF ClocksTellAges, Warped, Grace
  <2> QED BY <1>4, <1>5, <2>1, <2>2, <2>3 DEF ClocksTellAges, Grace
<1> QED BY <1>5, <1>6, <1>7, <1>8 DEF WarpLines, LinesTypeOK, StatusType, CpuType, TruthType

LEMMA LinesInvKept == LinesInv /\ [LinesNext]_lineVars => LinesInv'
<1> SUFFICES ASSUME LinesInv, [LinesNext]_lineVars PROVE LinesInv'
  OBVIOUS
<1>1. ASSUME NEW i \in IntSource, RaiseIrq(i) \/ ClearIrq(i) \/ RaiseNmi(i) \/ ClearNmi(i)
      PROVE  LinesInv'
  BY <1>1, RaiseIrqKeeps, ClearIrqKeeps, RaiseNmiKeeps, ClearNmiKeeps
<1>2. ASSUME NEW kind \in Kinds, NEW i \in BOOLEAN, NextOpcode(kind, i)
      PROVE  LinesInv'
  BY <1>2, NextOpcodeKeeps
<1>3. CASE Cycle \/ TakeInterrupt \/ Vector \/ Break \/ ResetCpu \/ WarpLines
  BY <1>3, CycleKeeps, TakeInterruptKeeps, VectorKeeps, BreakKeeps, ResetCpuKeeps, WarpLinesKeeps
<1>4. CASE UNCHANGED lineVars
  BY <1>4 DEF lineVars, LinesInv, LinesTypeOK, LinesCounted, EdgeLatched, ClocksTellAges, PendKept,
              Active, Since
<1> QED BY <1>1, <1>2, <1>3, <1>4 DEF LinesNext

(* The invariants hold for any sources, however the lines are raised and   *)
(* cleared and wherever the guard subtracts.                               *)
THEOREM LinesAreRight == LinesSpec => []LinesInv
<1>1. LinesInit => LinesInv
  BY LinesStart
<1>2. LinesInv /\ [LinesNext]_lineVars => LinesInv'
  BY LinesInvKept
<1> QED BY <1>1, <1>2, PTL DEF LinesSpec

(* LinesTypeOK: no clock of a line leaves its range, nor falls below 0     *)
(* (interrupt_cpu_status_time_warp).                                       *)
THEOREM LinesTyped == LinesSpec => []LinesTypeOK
BY LinesAreRight, PTL DEF LinesInv

(* LinesCounted: counters, mask and lines agree (interrupt_set_irq,        *)
(* interrupt_set_nmi).                                                     *)
THEOREM LinesAreCounted == LinesSpec => []LinesCounted
BY LinesAreRight, PTL DEF LinesInv

(* EdgeLatched: an NMI edge is pending until it is served.                 *)
THEOREM EdgesAreLatched == LinesSpec => []EdgeLatched
BY LinesAreRight, PTL DEF LinesInv

(* ClocksTellAges: the warped clocks tell how old a change is.             *)
THEOREM ClocksTellTheAges == LinesSpec => []ClocksTellAges
BY LinesAreRight, PTL DEF LinesInv

(* InterruptsHaveCause: DO_INTERRUPT begins only for an edge or for a line *)
(* that is active, or was up to two cycles ago, and old enough.            *)
THEOREM EachInterruptHasCause == LinesSpec => InterruptsHaveCause
<1> DEFINE Cause ==
      TakeInterrupt =>
        \/ truth.edge /\ truth.nmi >= INTERRUPT_DELAY
        \/ /\ Active("IRQ") # {} \/ truth.off < Grace
           /\ truth.irq >= INTERRUPT_DELAY
<1>1. LinesInv => [Cause]_lineVars
  <2> SUFFICES ASSUME LinesInv, TakeInterrupt
               PROVE  \/ truth.edge /\ truth.nmi >= 2
                      \/ (Active("IRQ") # {} \/ truth.off < 3) /\ truth.irq >= 2
    BY DEF INTERRUPT_DELAY, Grace
  <2>1. /\ cpu.clk \in Nat /\ cs.irq_clk \in Nat /\ cs.nmi_clk \in Nat /\ cs.irq_pending_clk \in Nat
        /\ truth.irq = Since(cs.irq_clk) /\ truth.nmi = Since(cs.nmi_clk)
        /\ cs.irq_pending_clk <= IntClockMax
    BY Sizes DEF LinesInv, LinesTypeOK, ClocksTellAges, Grace
  <2>2. Delay \in Nat /\ Delay >= 2
    BY DEF Delay, INTERRUPT_DELAY
  <2>3. SameLines(Looked) /\ ("NMI" \in Looked.global <=> "NMI" \in cs.global)
    BY LookedSettles
  <2>4. Looked.nmi_clk = cs.nmi_clk /\ Looked.irq_clk = cs.irq_clk
    BY <2>3 DEF SameLines, Status
  <2>5. CASE NmiDue(Looked)
    <3>1. "NMI" \in cs.global /\ cpu.clk >= cs.nmi_clk + Delay
      BY <2>3, <2>4, <2>5 DEF NmiDue
    <3> QED BY <2>1, <2>2, <3>1 DEF LinesInv, EdgeLatched, Since, Grace
  <2>6. CASE IrqSeen(Looked)
    <3>1. Looked.global \cap {"IRQ", "IRQPEND"} # {} /\ cpu.clk >= cs.irq_clk + Delay
      BY <2>4, <2>6 DEF IrqSeen
    <3>2. truth.irq >= 2
      BY <2>1, <2>2, <3>1 DEF Since, Grace
    <3>3. CASE "IRQ" \in cs.global
      BY <3>2, <3>3 DEF LinesInv, LinesCounted
    <3>4. CASE "IRQ" \notin cs.global
      <4>1. "IRQ" \notin Looked.global /\ "IRQPEND" \in Looked.global
        BY <2>3, <3>1, <3>4 DEF SameLines
      <4>2. "IRQPEND" \in cs.global /\ ~ (cs.irq_pending_clk <= cpu.clk)
        <5>1. "IRQPEND" \notin AckIrq(cs).global
          BY AckIrqGone DEF LinesInv
        <5> QED BY <3>4, <4>1, <5>1 DEF Looked
      <4>3. cs.irq_pending_clk < IntClockMax
        BY <3>4, <4>2 DEF LinesInv, PendKept
      <4>4. truth.off < 3
        BY <2>1, <4>2, <4>3, Sizes DEF LinesInv, LinesTypeOK, ClocksTellAges, Grace
      <4> QED BY <3>2, <4>4
    <3> QED BY <3>3, <3>4
  <2> QED BY <2>5, <2>6 DEF TakeInterrupt
<1>2. LinesSpec => []LinesInv
  BY LinesAreRight
<1> QED BY <1>1, <1>2, PTL DEF LinesSpec, InterruptsHaveCause

-----------------------------------------------------------------------------
(***************************************************************************)
(* The four side by side.                                                  *)
(***************************************************************************)

(***************************************************************************)
(* The types of the four users of the guard: a full array of alarms has no *)
(* entry behind its end (alarm.h:162), no warp takes a clock below 0       *)
(* (interrupt.c:145, clkguard.c:134, drive-overflow.c:39), and the list    *)
(* that is recorded ends with what current points to (event.c:321).        *)
(***************************************************************************)
THEOREM PartsTyped == PartsSpec => []PartsTypeOK
<1> DEFINE Inv == IndexInv /\ LinesInv /\ DriveTyped /\ HistTyped
<1>1. PartsInit => Inv
  BY IndexInit, LinesStart, DriveTypedInit, HistTypedInit DEF PartsInit
<1>2. Inv /\ [PartsNext]_partVars => Inv'
  <2> SUFFICES ASSUME Inv, [PartsNext]_partVars PROVE Inv'
    OBVIOUS
  <2>1. /\ [Next]_vars /\ [LinesNext]_lineVars
        /\ [DriveNext]_driveVars /\ [HistNext]_histVars
    BY DEF PartsNext, partVars
  <2> QED
    BY <2>1, IndexStep, LinesInvKept, DriveTypedNext, HistTypedNext
<1>3. Inv => PartsTypeOK
  <2>1. IndexInv => TypeOK
    BY DEF IndexInv
  <2>2. LinesInv => LinesTypeOK
    BY DEF LinesInv
  <2> QED
    BY <2>1, <2>2, DriveTypeFollows, HistTypeFollows DEF PartsTypeOK
<1> QED
  BY <1>1, <1>2, <1>3, PTL DEF PartsSpec
=============================================================================
