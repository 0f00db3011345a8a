---------------------------- MODULE HistoryProofs ----------------------------
(***************************************************************************)
(* Proofs about EventHistory: the types of its state, for any keys, clocks *)
(* and requests, and what a list of events tells of the machine (its       *)
(* tale), however the list is cut, continued, written to a file without    *)
(* its timestamps and read again with new ones. PlaybackProofs goes on     *)
(* from here.                                                              *)
(***************************************************************************)
EXTENDS EventHistory, LeastNumber, SequenceTheorems

Types == Keys \cup {"reset", "end", "overflow", "timestamp", "initial save", "initial reset"}

Recordable == Types \ {"initial save"}

(* The clock at which an event can be recorded, and the clock of an alarm. *)
Latest == HistGuardMax + HistFrame - 1
HistClocks == 0 .. HistClockMax

Event == [type : Types, clk : 0 .. Latest]

(* Only a recording that has saved its start says so.                      *)
Savable(start) == {e \in Event : e.type = "initial save" => start # NoFile}

Ended(list) == list # <<>> /\ list[Len(list)].type = "end"

HistState ==
  [record_active : BOOLEAN, playback_active : BOOLEAN, list : Seq(Event), current : Nat,
   next_timestamp_clk : HistClocks, alarm : HistClocks \cup {None}, milestone : HistClocks,
   reset_ack : BOOLEAN]

MachState ==
  {m \in [clk : HistClocks, time : Nat, hist : Seq(Nat \X Types), frame : 0 .. HistFrame] :
     m.clk - m.frame < HistGuardMax}

PendState ==
  [pc : {"alarms", "opcode", "reset"}, reset : {"none", "soft", "power"},
   trap : {"none", "save", "load", "reset", "overwrite", "stop", "set milestone",
           "reset milestone", "playback"}]

(* The files can be read: the list of the end file has an end.             *)
Readable(f) ==
  /\ f = [start |-> f.start, end |-> f.end]
  /\ f.start # NoFile => f.start \in MachState /\ f.start.frame < HistFrame
  /\ f.end # NoFile =>
       /\ f.end.mach \in MachState /\ f.end.mach.frame < HistFrame
       /\ f.end.list \in Seq(Savable(f.start))
       /\ \E i \in 1 .. Len(f.end.list) : f.end.list[i].type = "end"

(* current points into the list, which ends with an "end".                 *)
Listed(e) ==
  /\ e.list = <<>> => /\ e.current = 1 /\ e.alarm = None
                      /\ ~ e.record_active /\ ~ e.playback_active /\ ~ e.reset_ack
  /\ e.list # <<>> => Ended(e.list) /\ e.current \in 1 .. Len(e.list)
  /\ e.record_active => e.current = Len(e.list)

EvTyped(e, start) == e \in HistState /\ e.list \in Seq(Savable(start)) /\ Listed(e)

HistTyped ==
  /\ EvTyped(ev, files.start) /\ mach \in MachState /\ pend \in PendState /\ Readable(files)
  /\ pend.pc = "opcode" => mach.frame < HistFrame
  /\ pend.trap \in {"stop", "set milestone"} => ev.list # <<>>
  /\ pend.trap = "playback" => ~ ev.record_active

(* The numbers of the history. *)
LEMMA HistNumbers ==
  /\ Second \in Nat \ {0} /\ HistFrame \in Nat \ {0} /\ HistClockMax \in Nat
  /\ HistGuardMax \in Nat /\ HistSubMin \in Nat
  /\ HistSubMin > HistFrame /\ HistGuardMax - Second > 2 * (HistSubMin + HistFrame - 1)
  /\ HistClockMax >= HistGuardMax + HistSubMin
  /\ HistClockMax >= HistGuardMax + HistFrame + Second - 1
  /\ ResetClk \in 1 .. HistGuardMax - 1 /\ StartClk \in 0 .. HistGuardMax - 1
  /\ Latest = HistGuardMax + HistFrame - 1 /\ Latest \in Nat /\ Latest \in HistClocks
<1>1. /\ Second \in Nat \ {0} /\ HistFrame \in Nat \ {0} /\ HistClockMax \in Nat
      /\ HistGuardMax \in Nat /\ HistSubMin \in Nat
      /\ HistSubMin > HistFrame /\ HistClockMax >= HistGuardMax + HistSubMin
  BY HistAssumption
<1>2. /\ HistGuardMax - Second > 2 * (HistSubMin + HistFrame - 1)
      /\ HistClockMax >= HistGuardMax + HistFrame + Second - 1
      /\ ResetClk \in 1 .. HistSubMin - 1 /\ StartClk \in 0 .. HistGuardMax - 1
  BY HistAssumption
<1>3. ResetClk \in 1 .. HistGuardMax - 1
  BY <1>1, <1>2
<1>4. Latest = HistGuardMax + HistFrame - 1
  BY DEF Latest
<1>5. Latest \in Nat /\ Latest \in HistClocks
  BY <1>1, <1>4 DEF HistClocks
<1> QED
  BY <1>1, <1>2, <1>3, <1>4, <1>5

LEMMA Quotient ==
  ASSUME NEW a \in Nat, NEW b \in Nat \ {0}
  PROVE  a \div b \in Nat /\ a % b \in 0 .. b - 1 /\ a % b = a - (a \div b) * b
<1>1. a \div b \in Int /\ a \div b >= 0
  OBVIOUS
<1>2. a % b \in 0 .. b - 1
  OBVIOUS
<1>3. a % b = a - (a \div b) * b
  BY Z3
<1> QED
  BY <1>1, <1>2, <1>3

LEMMA HistSubBounds ==
  HistSub \in Nat /\ HistSub <= HistGuardMax - HistSubMin
  /\ HistSub > HistGuardMax - HistSubMin - HistFrame
<1> DEFINE a == HistGuardMax - HistSubMin
           q == a \div HistFrame
           m == q * HistFrame
<1>1. a \in Nat /\ HistFrame \in Nat \ {0}
  BY HistNumbers
<1> HIDE DEF a
<1>2. q \in Nat /\ a % HistFrame \in 0 .. HistFrame - 1 /\ a % HistFrame = a - m
  BY <1>1, Quotient
<1>3. m \in Nat
  BY <1>1, <1>2
<1>4. HistSub = m
  BY DEF HistSub, a
<1> HIDE DEF m, q
<1>5. m <= a /\ m > a - HistFrame
  BY <1>1, <1>2, <1>3
<1> QED
  BY <1>3, <1>4, <1>5 DEF a

LEMMA WrappedTyped ==
  ASSUME NEW c \in Int PROVE Wrapped(c) \in HistClocks
<1>1. HistClockMax + 1 \in Nat \ {0}
  BY HistNumbers
<1>2. \A n \in Nat \ {0} : c % n \in 0 .. n - 1
  OBVIOUS
<1>3. c % (HistClockMax + 1) \in 0 .. (HistClockMax + 1) - 1
  BY <1>1, <1>2
<1> QED
  BY <1>3, HistNumbers DEF Wrapped, HistClocks

-----------------------------------------------------------------------------
(* The list of events. *)

LEMMA PutTyped ==
  ASSUME NEW E, NEW list \in Seq(E), NEW current \in 1 .. Len(list) + 1,
         NEW e \in E, NEW s \in E
  PROVE  LET new == SubSeq(list, 1, current - 1) \o <<e, s>> IN
         /\ new \in Seq(E) /\ Len(new) = current + 1 /\ new # <<>>
         /\ new[Len(new)] = s
         /\ \A i \in 1 .. current - 1 : new[i] = list[i]
<1> DEFINE old == SubSeq(list, 1, current - 1)
           two == <<e, s>>
           new == old \o two
<1>1. old \in Seq(E) /\ Len(old) = current - 1 /\ \A i \in 1 .. current - 1 : old[i] = list[i]
  OBVIOUS
<1>2. two \in Seq(E) /\ Len(two) = 2 /\ two[2] = s
  OBVIOUS
<1> HIDE DEF old, two
<1>3. /\ new \in Seq(E) /\ Len(new) = Len(old) + Len(two)
      /\ \A i \in 1 .. Len(old) + Len(two) : new[i] = IF i <= Len(old) THEN old[i] ELSE two[i - Len(old)]
  BY <1>1, <1>2, ConcatProperties
<1> HIDE DEF new
<1>4. Len(new) = current + 1 /\ current \in Nat \ {0}
  BY <1>1, <1>2, <1>3
<1>5. new[current + 1] = s
  <2>1. current + 1 \in 1 .. Len(old) + Len(two) /\ ~ (current + 1 <= Len(old))
        /\ (current + 1) - Len(old) = 2
    BY <1>1, <1>2, <1>4
  <2> QED
    BY <1>2, <1>3, <2>1
<1>6. ASSUME NEW i \in 1 .. current - 1 PROVE new[i] = list[i]
  <2>1. i \in 1 .. Len(old) + Len(two) /\ i <= Len(old)
    BY <1>1, <1>2, <1>4
  <2> QED
    BY <1>1, <1>3, <2>1
<1> QED
  BY <1>3, <1>4, <1>5, <1>6 DEF new, old, two

(* The timestamps of the seconds from first to limit. *)
LEMMA Timestamps ==
  ASSUME NEW first \in Nat, NEW limit \in Nat, NEW sec \in Nat \ {0}, first < limit
  PROVE  LET n == (limit - first + sec - 1) \div sec IN
         /\ n \in Nat \ {0} /\ first + n * sec >= limit /\ first + n * sec < limit + sec
         /\ \A i \in 1 .. n : (i - 1) * sec \in Nat /\ first + (i - 1) * sec < limit
<1> DEFINE a == limit - first + sec - 1
           n == a \div sec
           m == n * sec
<1>1. a \in Nat
  OBVIOUS
<1> HIDE DEF a
<1>2. n \in Nat /\ a % sec \in 0 .. sec - 1 /\ a % sec = a - m
  BY <1>1, Quotient
<1>3. m \in Nat /\ m <= a /\ m > a - sec
  BY <1>1, <1>2
<1>4. m > 0 /\ first + m >= limit /\ first + m < limit + sec
  BY <1>3 DEF a
<1>5. n # 0
  BY <1>4
<1>6. \A j, k, c \in Nat : j <= k => j * c \in Nat /\ k * c \in Nat /\ j * c <= k * c
  OBVIOUS
<1>7. ASSUME NEW i \in 1 .. n PROVE (i - 1) * sec \in Nat /\ first + (i - 1) * sec < limit
  <2> HIDE DEF n
  <2>1. i - 1 \in Nat /\ n - 1 \in Nat /\ i - 1 <= n - 1
    BY <1>2
  <2>2. (n - 1) * sec = n * sec - sec
    BY <1>2
  <2>3. (i - 1) * sec \in Nat /\ (n - 1) * sec \in Nat /\ (i - 1) * sec <= (n - 1) * sec
    BY <1>6, <2>1
  <2> HIDE DEF m
  <2>4. (n - 1) * sec = m - sec
    BY <2>2 DEF m
  <2>5. m <= limit - first + sec - 1
    BY <1>3 DEF a
  <2> QED
    BY <1>3, <2>3, <2>4, <2>5
<1> QED
  BY <1>2, <1>4, <1>5, <1>7 DEF a

(* The events that can stand in a list, and what has been read of it.      *)
Storable(E) == E \subseteq Event /\ \A e \in Event : e.type # "initial save" => e \in E
ReadState(E) == [list : Seq(E), ts : HistClocks \cup {None}, ended : BOOLEAN]

LEMMA StampedTyped ==
  ASSUME NEW E, Storable(E), NEW s \in ReadState(E), NEW e \in E, s.ended => Ended(s.list)
  PROVE  LET t == Stamped(s, e) IN
         /\ t \in ReadState(E)
         /\ t.ts = None => s.ended /\ s.ts = None
         /\ t.ended <=> (s.ended \/ e.type = "end")
         /\ t.ended => Ended(t.list)
<1> DEFINE t == Stamped(s, e)
           limit == IF e.type = "overflow" THEN HistGuardMax ELSE e.clk
           first == IF s.ts = None THEN e.clk ELSE s.ts
           n     == IF limit > first THEN (limit - first + Second - 1) \div Second ELSE 0
           after == first + n * Second
           stamps == [i \in 1 .. n |-> [type |-> "timestamp", clk |-> first + (i - 1) * Second]]
           ts    == CASE e.type = "overflow" -> after - HistSub
                      [] e.type = "reset" -> after - e.clk
                      [] OTHER -> after
<1>1. e \in Event /\ e.clk \in 0 .. Latest /\ e.type \in Types
  BY DEF Storable, Event
<1>2. s.list \in Seq(E) /\ s.ts \in HistClocks \cup {None} /\ s.ended \in BOOLEAN
  BY DEF ReadState
<1>3. CASE s.ended
  BY <1>3 DEF Stamped
<1>4. CASE ~ s.ended /\ e.type = "initial reset"
  <2>1. t = [s EXCEPT !.list = Append(s.list, e), !.ts = 0]
    BY <1>2, <1>4 DEF Stamped, ReadState
  <2>2. Append(s.list, e) \in Seq(E)
    BY <1>2
  <2>3. 0 \in HistClocks /\ 0 # None
    BY HistNumbers DEF HistClocks, None
  <2> DEFINE l == Append(s.list, e)
  <2> HIDE DEF l, t
  <2>4. t \in ReadState(E) /\ t.ts = 0 /\ t.ended = s.ended
    BY <2>1, <2>2, <2>3 DEF ReadState, l
  <2> QED
    BY <1>4, <2>3, <2>4 DEF t
<1>5. CASE ~ s.ended /\ e.type # "initial reset"
  <2>1. t = [list |-> s.list \o stamps \o <<e>>, ts |-> ts, ended |-> e.type = "end"]
    BY <1>5 DEF Stamped
  <2>2. limit \in 0 .. Latest /\ first \in HistClocks /\ limit \in Nat /\ first \in Nat
    <3>1. e.clk \in HistClocks
      BY <1>1, HistNumbers DEF HistClocks
    <3>2. first \in HistClocks
      BY <1>2, <3>1
    <3>3. limit \in 0 .. Latest
      BY <1>1, HistNumbers
    <3> HIDE DEF limit, first
    <3> QED
      BY <3>2, <3>3, HistNumbers DEF HistClocks
  <2> HIDE DEF limit, first
  <2>3. /\ n \in Nat /\ after \in HistClocks /\ after >= limit
        /\ \A i \in 1 .. n : (i - 1) * Second \in Nat /\ first + (i - 1) * Second < limit
    <3>1. CASE limit > first
      <4> DEFINE k == (limit - first + Second - 1) \div Second
      <4>1. /\ k \in Nat \ {0} /\ first + k * Second >= limit /\ first + k * Second < limit + Second
            /\ \A i \in 1 .. k : (i - 1) * Second \in Nat /\ first + (i - 1) * Second < limit
        BY <2>2, <3>1, Timestamps, HistNumbers
      <4>2. n = k
        BY <3>1
      <4> HIDE DEF k, n
      <4>3. first + k * Second \in Nat
        BY <2>2, <4>1, HistNumbers
      <4>4. after = first + k * Second
        BY <4>2
      <4> DEFINE f == first + k * Second
      <4> HIDE DEF after, f
      <4>5. after \in HistClocks /\ after >= limit
        <5>1. f \in Nat /\ f >= limit /\ f < limit + Second /\ after = f
          BY <4>1, <4>3, <4>4 DEF f
        <5> QED
          BY <2>2, <5>1, HistNumbers DEF HistClocks
      <4> QED
        BY <4>1, <4>2, <4>5
    <3>2. CASE ~ (limit > first)
      <4>1. n = 0 /\ 0 * Second = 0
        BY <3>2, HistNumbers
      <4> QED
        BY <2>2, <3>2, <4>1
    <3> QED
      BY <3>1, <3>2
  <2> HIDE DEF n, after
  <2>4. stamps \in Seq(E)
    <3>1. \A i \in 1 .. n : [type |-> "timestamp", clk |-> first + (i - 1) * Second] \in E
      <4> TAKE i \in 1 .. n
      <4> DEFINE c == first + (i - 1) * Second
      <4>1. c \in 0 .. Latest
        BY <2>2, <2>3, HistNumbers
      <4> HIDE DEF c
      <4>2. [type |-> "timestamp", clk |-> c] \in Event
        BY <4>1 DEF Event, Types
      <4>3. [type |-> "timestamp", clk |-> c] \in E
        BY <4>2 DEF Storable
      <4> QED
        BY <4>3 DEF c
    <3> DEFINE g(i) == [type |-> "timestamp", clk |-> first + (i - 1) * Second]
    <3>2. stamps = [i \in 1 .. n |-> g(i)] /\ \A i \in 1 .. n : g(i) \in E
      BY <3>1
    <3> HIDE DEF g, stamps
    <3> QED
      BY <2>3, <3>2
  <2> HIDE DEF stamps
  <2>5. ts \in HistClocks /\ ts # None
    <3>1. CASE e.type = "overflow"
      <4>1. limit = HistGuardMax /\ ts = after - HistSub
        BY <3>1 DEF limit
      <4> HIDE DEF ts
      <4> QED
        BY <2>3, <4>1, HistSubBounds, HistNumbers DEF HistClocks, None
    <3>2. CASE e.type = "reset"
      <4>1. ts = after - e.clk
        BY <3>2
      <4>2. e.clk <= limit
        BY <3>2, <1>1 DEF limit
      <4> HIDE DEF ts
      <4> QED
        BY <4>2, <1>1, <2>2, <2>3, <4>1, HistNumbers DEF HistClocks, None
    <3>3. CASE e.type # "overflow" /\ e.type # "reset"
      <4>1. ts = after
        BY <3>3
      <4> HIDE DEF ts
      <4> QED
        BY <2>3, <4>1, HistNumbers DEF HistClocks, None
    <3> QED
      BY <3>1, <3>2, <3>3
  <2> HIDE DEF ts
  <2> DEFINE l == s.list \o stamps \o <<e>>
  <2>6. l \in Seq(E) /\ l # <<>> /\ l[Len(l)] = e
    <3> DEFINE one == <<e>>
               front == s.list \o stamps
    <3>1. one \in Seq(E) /\ Len(one) = 1 /\ one[1] = e
      OBVIOUS
    <3> HIDE DEF one
    <3>2. front \in Seq(E)
      BY <1>2, <2>4, ConcatProperties
    <3>3. Len(front) \in Nat
      BY <3>2
    <3> HIDE DEF front
    <3> DEFINE w == front \o one
    <3>4. /\ w \in Seq(E) /\ Len(w) = Len(front) + Len(one)
          /\ \A i \in 1 .. Len(front) + Len(one) :
               w[i] = IF i <= Len(front) THEN front[i] ELSE one[i - Len(front)]
      BY <3>1, <3>2, ConcatProperties
    <3>5. w = l
      <4>1. \A a, b, c \in Seq(E) : (a \o b) \o c = a \o (b \o c)
        BY ConcatAssociative
      <4>2. (s.list \o stamps) \o one = s.list \o (stamps \o one)
        BY <1>2, <2>4, <3>1, <4>1
      <4> QED
        BY <4>2 DEF front, one
    <3> HIDE DEF w, l
    <3>6. Len(w) = Len(front) + 1 /\ w[Len(front) + 1] = e
      <4>1. Len(front) + 1 \in 1 .. Len(front) + Len(one) /\ ~ (Len(front) + 1 <= Len(front))
            /\ (Len(front) + 1) - Len(front) = 1
        BY <3>1, <3>3
      <4> QED
        BY <3>1, <3>3, <3>4, <4>1
    <3>7. w # <<>>
      BY <3>3, <3>6
    <3> QED
      BY <3>4, <3>5, <3>6, <3>7
  <2> HIDE DEF l, t
  <2>7. t \in ReadState(E) /\ t.ts = ts /\ t.list = l /\ (t.ended <=> e.type = "end")
    <3>1. t = [list |-> l, ts |-> ts, ended |-> e.type = "end"]
      BY <2>1 DEF l
    <3>2. (e.type = "end") \in BOOLEAN
      OBVIOUS
    <3> DEFINE b == e.type = "end"
    <3> HIDE DEF b
    <3>3. t = [list |-> l, ts |-> ts, ended |-> b]
      BY <3>1 DEF b
    <3>4. t \in ReadState(E) /\ t.ts = ts /\ t.list = l
      BY <2>5, <2>6, <3>2, <3>3 DEF ReadState, b
    <3>5. t.ended <=> b
      BY <3>3
    <3>6. t.ended <=> e.type = "end"
      BY <3>5 DEF b
    <3> QED
      BY <3>4, <3>6
  <2>8. t.ended => Ended(t.list)
    <3> SUFFICES ASSUME t.ended PROVE Ended(t.list)
      OBVIOUS
    <3>1. e.type = "end" /\ t.list = l
      BY <2>7
    <3> QED
      BY <2>6, <3>1 DEF Ended
  <2>9. t.ts # None
    BY <2>5, <2>7
  <2> QED
    BY <1>5, <2>7, <2>8, <2>9 DEF t
<1> QED
  BY <1>3, <1>4, <1>5

(* A list is read event by event.                                          *)
ReadSafe(E) == {s \in ReadState(E) : s.ended => Ended(s.list)}
Unread == [list |-> <<>>, ts |-> None, ended |-> FALSE]

LEMMA ReadGoesOn ==
  ASSUME NEW E, Storable(E), NEW list \in Seq(E)
  PROVE  \E f \in [0 .. Len(list) -> ReadSafe(E)] :
           /\ f[0] = Unread
           /\ \A n \in 1 .. Len(list) : f[n] = Stamped(f[n - 1], list[n])
           /\ ReadModule(list) = f[Len(list)]
<1> DEFINE N == Len(list)
           step == [n \in 1 .. N |-> [s \in ReadSafe(E) |-> Stamped(s, list[n])]]
           body(f) == [n \in 0 .. N |-> IF n = 0 THEN Unread ELSE Stamped(f[n - 1], list[n])]
           g == CHOOSE f : f = body(f)
<1>1. N \in Nat /\ \A n \in 1 .. N : list[n] \in E
  OBVIOUS
<1>2. \A n \in 1 .. N, s \in ReadSafe(E) : Stamped(s, list[n]) \in ReadSafe(E)
  <2> TAKE n \in 1 .. N, s \in ReadSafe(E)
  <2>1. list[n] \in E /\ s \in ReadState(E) /\ (s.ended => Ended(s.list))
    BY <1>1 DEF ReadSafe
  <2> QED
    BY <2>1, StampedTyped DEF ReadSafe
<1>3. Unread \in ReadSafe(E)
  BY DEF Unread, ReadSafe, ReadState
<1>4. step \in [1 .. N -> [ReadSafe(E) -> ReadSafe(E)]]
  BY <1>2
<1>5. ReadModule(list) = g[N]
  BY DEF ReadModule, Unread
<1> HIDE DEF N
<1>6. PICK f \in [0 .. N -> ReadSafe(E)] : Goes(f, N, Unread, step)
  <2> HIDE DEF step
  <2> QED
    BY <1>1, <1>3, <1>4, Recursion
<1>7. f = body(f)
  <2>1. \A n \in 1 .. N : step[n][f[n - 1]] = Stamped(f[n - 1], list[n])
    <3> TAKE n \in 1 .. N
    <3>1. n - 1 \in 0 .. N
      BY <1>1
    <3>2. f[n - 1] \in ReadSafe(E)
      BY <3>1
    <3>3. step[n] = [s \in ReadSafe(E) |-> Stamped(s, list[n])]
      OBVIOUS
    <3> QED
      BY <3>2, <3>3
  <2> HIDE DEF step
  <2>2. \A n \in 0 .. N : f[n] = IF n = 0 THEN Unread ELSE Stamped(f[n - 1], list[n])
    <3> TAKE n \in 0 .. N
    <3>1. CASE n = 0
      BY <1>6, <3>1 DEF Goes
    <3>2. CASE n # 0
      <4>1. n \in 1 .. N
        BY <1>1, <3>2
      <4>2. f[n] = step[n][f[n - 1]]
        BY <1>6, <4>1 DEF Goes
      <4> QED
        BY <2>1, <3>2, <4>1, <4>2
    <3> QED
      BY <3>1, <3>2
  <2> QED
    BY <2>2
<1>8. g = body(g)
  <2> HIDE DEF body
  <2> QED
    BY <1>7, Zenon
<1> HIDE DEF g
<1>9. /\ g[0] = Unread /\ \A n \in 1 .. N : g[n] = Stamped(g[n - 1], list[n])
      /\ g = [n \in 0 .. N |-> g[n]]
  <2> DEFINE then(n) == Stamped(g[n - 1], list[n])
  <2>1. g = [n \in 0 .. N |-> IF n = 0 THEN Unread ELSE then(n)]
    BY <1>8
  <2> HIDE DEF then
  <2>2. \A n \in 0 .. N : g[n] = IF n = 0 THEN Unread ELSE then(n)
    BY <2>1
  <2>3. g[0] = Unread /\ \A n \in 1 .. N : g[n] = then(n)
    BY <1>1, <2>2
  <2>4. g = [n \in 0 .. N |-> g[n]]
    BY <2>1
  <2> QED
    BY <2>3, <2>4 DEF then
<1> DEFINE T == {n \in 0 .. N : g[n] \in ReadSafe(E)}
<1>10. \A n \in 0 .. N : n \in T
  <2>1. 0 \in T
    BY <1>1, <1>3, <1>9
  <2>2. \A n \in 0 .. N - 1 : n \in T => n + 1 \in T
    <3> SUFFICES ASSUME NEW n \in 0 .. N - 1, n \in T PROVE n + 1 \in T
      OBVIOUS
    <3>1. n + 1 \in 1 .. N /\ (n + 1) - 1 = n /\ n + 1 \in 0 .. N
      BY <1>1
    <3>2. g[n + 1] = Stamped(g[n], list[n + 1])
      BY <1>9, <3>1
    <3> QED
      BY <1>2, <3>1, <3>2
  <2> HIDE DEF T
  <2> QED
    BY <1>1, <2>1, <2>2, UpTo
<1>11. g \in [0 .. N -> ReadSafe(E)]
  <2>1. \A n \in 0 .. N : g[n] \in ReadSafe(E)
    BY <1>10
  <2> QED
    BY <1>9, <2>1
<1> QED
  BY <1>5, <1>9, <1>11 DEF N

(* A list that has an end is read up to it. *)
LEMMA ReadTyped ==
  ASSUME NEW E, Storable(E), NEW list \in Seq(E), \E i \in 1 .. Len(list) : list[i].type = "end"
  PROVE  LET s == ReadModule(list) IN
         s \in ReadState(E) /\ Ended(s.list) /\ s.ts \in HistClocks
<1>1. PICK f \in [0 .. Len(list) -> ReadSafe(E)] :
        /\ f[0] = Unread
        /\ \A n \in 1 .. Len(list) : f[n] = Stamped(f[n - 1], list[n])
        /\ ReadModule(list) = f[Len(list)]
  BY ReadGoesOn
<1>2. PICK i \in 1 .. Len(list) : list[i].type = "end"
  OBVIOUS
<1> DEFINE N == Len(list)
           T == {n \in 0 .. N : (n > 0 => f[n].ts # None) /\ (n >= i => f[n].ended)}
<1>3. N \in Nat /\ \A n \in 1 .. N : list[n] \in E
  OBVIOUS
<1>4. 0 \in T
  BY <1>3
<1>5. ASSUME NEW n \in 0 .. N - 1, n \in T PROVE n + 1 \in T
  <2>1. /\ n + 1 \in 1 .. N /\ (n + 1) - 1 = n /\ n + 1 \in 0 .. N /\ n \in 0 .. N
        /\ list[n + 1] \in E
    BY <1>3
  <2>2. f[n + 1] = Stamped(f[n], list[n + 1])
    BY <1>1, <2>1
  <2>3. f[n] \in ReadState(E) /\ (f[n].ended => Ended(f[n].list))
    BY <1>1, <2>1 DEF ReadSafe
  <2>4. /\ f[n + 1].ts = None => f[n].ended /\ f[n].ts = None
        /\ f[n + 1].ended <=> (f[n].ended \/ list[n + 1].type = "end")
    <3> DEFINE s == f[n]
               e == list[n + 1]
    <3>1. /\ Stamped(s, e).ts = None => s.ended /\ s.ts = None
          /\ Stamped(s, e).ended <=> (s.ended \/ e.type = "end")
      <4> HIDE DEF s, e
      <4>1. s \in ReadState(E) /\ e \in E /\ (s.ended => Ended(s.list))
        BY <2>1, <2>3 DEF s, e
      <4> QED
        BY <4>1, StampedTyped
    <3> QED
      BY <2>2, <3>1
  <2>5. f[n + 1].ts # None
    <3>1. CASE n = 0
      <4>1. ~ f[n].ended
        BY <1>1, <3>1 DEF Unread
      <4> QED
        BY <2>4, <4>1
    <3>2. CASE n # 0
      <4>1. f[n].ts # None
        BY <1>5, <3>2, <1>3
      <4> QED
        BY <2>4, <4>1
    <3> QED
      BY <3>1, <3>2
  <2>6. n + 1 >= i => f[n + 1].ended
    <3>1. CASE n + 1 = i
      BY <1>2, <2>4, <3>1
    <3>2. CASE n >= i
      BY <1>5, <2>4, <3>2
    <3> QED
      BY <1>3, <3>1, <3>2
  <2> QED
    BY <2>1, <2>5, <2>6
<1>6. N \in T
  <2> HIDE DEF N, T
  <2>1. \A n \in 0 .. N : n \in T
    BY <1>3, <1>4, <1>5, UpTo
  <2> QED
    BY <1>3, <2>1
<1>7. N > 0 /\ N >= i
  BY <1>2, <1>3
<1>8. f[N].ended /\ f[N].ts # None /\ f[N] \in ReadSafe(E)
  BY <1>1, <1>3, <1>6, <1>7
<1> QED
  BY <1>1, <1>8 DEF ReadSafe, ReadState

(* A list is written event by event, without the timestamps. *)
LEMMA WriteGoesOn ==
  ASSUME NEW E, NEW list \in Seq(E)
  PROVE  \E f \in [0 .. Len(list) -> Seq(E)] :
           /\ f[0] = <<>>
           /\ \A n \in 1 .. Len(list) :
                f[n] = IF list[n].type = "timestamp" THEN f[n - 1] ELSE Append(f[n - 1], list[n])
           /\ WriteModule(list) = f[Len(list)]
<1> DEFINE N == Len(list)
           then(w, n) == IF list[n].type = "timestamp" THEN w ELSE Append(w, list[n])
           step == [n \in 1 .. N |-> [w \in Seq(E) |-> then(w, n)]]
           body(f) == [n \in 0 .. N |-> IF n = 0 THEN <<>>
                                        ELSE IF list[n].type = "timestamp" THEN f[n - 1]
                                        ELSE Append(f[n - 1], list[n])]
           g == CHOOSE f : f = body(f)
<1>1. N \in Nat /\ \A n \in 1 .. N : list[n] \in E
  OBVIOUS
<1>2. \A n \in 1 .. N, w \in Seq(E) : then(w, n) \in Seq(E)
  BY <1>1
<1>3. step \in [1 .. N -> [Seq(E) -> Seq(E)]]
  BY <1>2
<1>4. WriteModule(list) = g[N]
  BY DEF WriteModule
<1> HIDE DEF N
<1>6. PICK f \in [0 .. N -> Seq(E)] : Goes(f, N, <<>>, step)
  <2>1. <<>> \in Seq(E)
    OBVIOUS
  <2> HIDE DEF step
  <2> QED
    BY <1>1, <1>3, <2>1, Recursion
<1>7. f = body(f)
  <2>1. \A n \in 1 .. N : step[n][f[n - 1]] = then(f[n - 1], n)
    <3> TAKE n \in 1 .. N
    <3>1. n - 1 \in 0 .. N
      BY <1>1
    <3>2. f[n - 1] \in Seq(E)
      BY <3>1
    <3> HIDE DEF then
    <3>3. step[n] = [w \in Seq(E) |-> then(w, n)]
      OBVIOUS
    <3> QED
      BY <3>2, <3>3
  <2> HIDE DEF step, then
  <2>2. \A n \in 0 .. N : f[n] = IF n = 0 THEN <<>> ELSE then(f[n - 1], n)
    <3> TAKE n \in 0 .. N
    <3>1. CASE n = 0
      BY <1>6, <3>1 DEF Goes
    <3>2. CASE n # 0
      <4>1. n \in 1 .. N
        BY <1>1, <3>2
      <4>2. f[n] = step[n][f[n - 1]]
        BY <1>6, <4>1 DEF Goes
      <4> QED
        BY <2>1, <3>2, <4>1, <4>2
    <3> QED
      BY <3>1, <3>2
  <2>3. f = [n \in 0 .. N |-> IF n = 0 THEN <<>> ELSE then(f[n - 1], n)]
    BY <2>2
  <2> QED
    BY <2>3 DEF then
<1>8. g = body(g)
  <2> HIDE DEF body
  <2> QED
    BY <1>7, Zenon
<1> HIDE DEF g
<1>9. /\ g[0] = <<>> /\ \A n \in 1 .. N : g[n] = then(g[n - 1], n)
      /\ g = [n \in 0 .. N |-> g[n]]
  <2>1. g = [n \in 0 .. N |-> IF n = 0 THEN <<>> ELSE then(g[n - 1], n)]
    BY <1>8
  <2> HIDE DEF then
  <2>2. \A n \in 0 .. N : g[n] = IF n = 0 THEN <<>> ELSE then(g[n - 1], n)
    BY <2>1
  <2>3. g = [n \in 0 .. N |-> g[n]]
    BY <2>1
  <2> QED
    BY <1>1, <2>2, <2>3
<1> DEFINE T == {n \in 0 .. N : g[n] \in Seq(E)}
<1>10. \A n \in 0 .. N : n \in T
  <2>1. 0 \in T
    <3>1. g[0] = <<>> /\ <<>> \in Seq(E) /\ 0 \in 0 .. N
      BY <1>1, <1>9
    <3> QED
      BY <3>1
  <2>2. \A n \in 0 .. N - 1 : n \in T => n + 1 \in T
    <3> SUFFICES ASSUME NEW n \in 0 .. N - 1, n \in T PROVE n + 1 \in T
      OBVIOUS
    <3>1. n + 1 \in 1 .. N /\ (n + 1) - 1 = n /\ n + 1 \in 0 .. N
      BY <1>1
    <3>2. g[n + 1] = then(g[n], n + 1) /\ g[n] \in Seq(E)
      BY <1>9, <3>1
    <3> HIDE DEF then
    <3> QED
      BY <1>2, <3>1, <3>2
  <2> HIDE DEF T
  <2> QED
    BY <1>1, <2>1, <2>2, UpTo
<1>11. g \in [0 .. N -> Seq(E)]
  <2>1. \A n \in 0 .. N : g[n] \in Seq(E)
    BY <1>10
  <2> QED
    BY <1>9, <2>1
<1> QED
  BY <1>4, <1>9, <1>11 DEF N

LEMMA WriteTyped ==
  ASSUME NEW E, NEW list \in Seq(E), Ended(list)
  PROVE  /\ WriteModule(list) \in Seq(E)
         /\ \E i \in 1 .. Len(WriteModule(list)) : WriteModule(list)[i].type = "end"
<1> DEFINE N == Len(list)
<1>1. N \in 1 .. N /\ N - 1 \in 0 .. N /\ N \in 0 .. N /\ list[N] \in E /\ list[N].type = "end"
  BY DEF Ended
<1>2. PICK f \in [0 .. N -> Seq(E)] :
        /\ f[0] = <<>>
        /\ \A n \in 1 .. N :
             f[n] = IF list[n].type = "timestamp" THEN f[n - 1] ELSE Append(f[n - 1], list[n])
        /\ WriteModule(list) = f[N]
  BY WriteGoesOn
<1>3. f[N] \in Seq(E) /\ f[N - 1] \in Seq(E) /\ f[N] = Append(f[N - 1], list[N])
  BY <1>1, <1>2
<1>4. Len(f[N]) \in 1 .. Len(f[N]) /\ f[N][Len(f[N])] = list[N]
  BY <1>1, <1>3
<1> QED
  BY <1>1, <1>2, <1>3, <1>4

-----------------------------------------------------------------------------
(* The operators on the state of event.c keep its type. *)

LEMMA SavableStorable ==
  ASSUME NEW start
  PROVE  Storable(Savable(start)) /\ \A l \in Seq(Savable(start)) : l \in Seq(Event)
<1>1. Storable(Savable(start)) /\ Savable(start) \subseteq Event
  BY DEF Storable, Savable
<1> QED
  BY <1>1, SeqMonotonic

LEMMA SentinelStorable ==
  ASSUME NEW E, Storable(E) PROVE Sentinel \in E /\ Sentinel.type = "end"
<1>1. Sentinel \in Event /\ Sentinel.type = "end"
  BY HistNumbers DEF Sentinel, Event, Types
<1> QED
  BY <1>1 DEF Storable

(* A clock of the alarm, of the next timestamp, or the flags.              *)
LEMMA AlarmSet ==
  ASSUME NEW start, NEW e, EvTyped(e, start), NEW a \in HistClocks \cup {None},
         e.list = <<>> => a = None
  PROVE  EvTyped([e EXCEPT !.alarm = a], start)
BY DEF EvTyped, HistState, Listed, Ended

LEMMA StampAlarmSet ==
  ASSUME NEW start, NEW e, EvTyped(e, start), NEW t \in HistClocks,
         NEW a \in HistClocks \cup {None}, e.list = <<>> => a = None
  PROVE  EvTyped([e EXCEPT !.next_timestamp_clk = t, !.alarm = a], start)
BY DEF EvTyped, HistState, Listed, Ended

LEMMA NextAlarmSets ==
  ASSUME NEW e \in HistState, e.list # <<>>, e.current \in 1 .. Len(e.list), NEW clk \in HistClocks
  PROVE  \E a \in HistClocks : NextAlarm(e, clk) = [e EXCEPT !.alarm = a]
<1> DEFINE new == e.list[e.current].clk
           a == IF clk > HistSubMin /\ new < clk - HistSubMin THEN Wrapped(new + HistSub) ELSE new
<1>1. e.list[e.current] \in Event
  BY DEF HistState
<1>2. new \in HistClocks /\ new \in Int
  BY <1>1, HistNumbers DEF Event, HistClocks
<1>3. Wrapped(new + HistSub) \in HistClocks
  BY <1>2, HistSubBounds, WrappedTyped
<1>4. a \in HistClocks
  BY <1>2, <1>3
<1>5. NextAlarm(e, clk) = [e EXCEPT !.alarm = a]
  BY DEF NextAlarm
<1> HIDE DEF a
<1> QED
  BY <1>4, <1>5

LEMMA NextAlarmTyped ==
  ASSUME NEW start, NEW e, EvTyped(e, start), e.list # <<>>, NEW clk \in HistClocks
  PROVE  /\ EvTyped(NextAlarm(e, clk), start)
         /\ NextAlarm(e, clk).list = e.list /\ NextAlarm(e, clk).current = e.current
         /\ NextAlarm(e, clk).record_active = e.record_active
         /\ NextAlarm(e, clk).next_timestamp_clk = e.next_timestamp_clk
<1>1. e \in HistState /\ e.current \in 1 .. Len(e.list)
  BY DEF EvTyped, Listed
<1>2. PICK a \in HistClocks : NextAlarm(e, clk) = [e EXCEPT !.alarm = a]
  BY <1>1, NextAlarmSets
<1>3. EvTyped([e EXCEPT !.alarm = a], start)
  BY AlarmSet
<1> QED
  BY <1>1, <1>2, <1>3 DEF HistState

LEMMA RecordedTyped ==
  ASSUME NEW start, NEW e, EvTyped(e, start), NEW kind \in Recordable,
         NEW clk \in 0 .. Latest
  PROVE  LET r == Recorded(e, kind, clk) IN
         /\ EvTyped(r, start) /\ r.record_active = e.record_active
         /\ e.list # <<>> => r.list # <<>>
         /\ r.list = <<>> => r.alarm = None
<1> DEFINE E == Savable(start)
           r == Recorded(e, kind, clk)
<1>1. /\ e \in HistState /\ e.list \in Seq(E) /\ Listed(e)
  BY DEF EvTyped
<1>2. CASE ~ e.record_active
  BY <1>1, <1>2 DEF Recorded, Listed
<1>3. CASE e.record_active
  <2> DEFINE x == [type |-> kind, clk |-> clk]
             l == SubSeq(e.list, 1, e.current - 1) \o <<x, Sentinel>>
             t == IF kind = "reset" THEN Wrapped(e.next_timestamp_clk - clk) ELSE e.next_timestamp_clk
  <2>1. x \in E /\ Sentinel \in E /\ Sentinel.type = "end" /\ Storable(E)
    <3>1. x \in Event /\ x.type # "initial save"
      BY DEF Event, Recordable
    <3> QED
      BY <3>1, SavableStorable, SentinelStorable DEF Storable
  <2>2. t \in HistClocks
    <3>1. e.next_timestamp_clk \in HistClocks
      BY <1>1 DEF HistState
    <3>2. e.next_timestamp_clk - clk \in Int
      <4>1. clk \in Int /\ \A c \in HistClocks : c \in Int
        BY HistNumbers DEF HistClocks
      <4>2. e.next_timestamp_clk \in Int
        BY <3>1, <4>1
      <4> QED
        BY <4>1, <4>2
    <3> QED
      BY <3>1, <3>2, WrappedTyped
  <2>3. e.list # <<>> /\ e.current \in 1 .. Len(e.list) + 1 /\ e.current = Len(e.list)
        /\ e.current \in Nat /\ e.current + 1 \in Nat /\ e.current + 1 \in 1 .. e.current + 1
    <3>1. e.current = Len(e.list) /\ e.list # <<>>
      BY <1>1, <1>3 DEF Listed
    <3>2. Len(e.list) \in Nat /\ Len(e.list) > 0
      BY <1>1, <3>1, EmptySeq
    <3> QED
      BY <3>1, <3>2
  <2>4. l \in Seq(E) /\ Len(l) = e.current + 1 /\ l # <<>> /\ l[Len(l)] = Sentinel
    <3> HIDE DEF x, E
    <3>1. e.list \in Seq(E) /\ e.current \in 1 .. Len(e.list) + 1 /\ x \in E /\ Sentinel \in E
      BY <1>1, <2>1, <2>3
    <3> DEFINE b == e.list
               c == e.current
    <3>2. b \in Seq(E) /\ c \in 1 .. Len(b) + 1
      BY <3>1
    <3>3. l = SubSeq(b, 1, c - 1) \o <<x, Sentinel>>
      OBVIOUS
    <3> HIDE DEF b, c, l
    <3>4. l \in Seq(E) /\ Len(l) = c + 1 /\ l # <<>> /\ l[Len(l)] = Sentinel
      BY <3>1, <3>2, <3>3, PutTyped
    <3> QED
      BY <3>4 DEF c
  <2>5. r = [e EXCEPT !.list = l, !.current = e.current + 1, !.next_timestamp_clk = t]
    <3>1. Put(e.list, e.current, kind, clk) = l
      BY DEF Put
    <3> HIDE DEF l
    <3> QED
      BY <1>1, <1>3, <3>1 DEF Recorded, HistState
  <2>6. l \in Seq(Event)
    BY <2>4, SavableStorable
  <2> HIDE DEF l, t, r, E
  <2>7. /\ r.list = l /\ r.current = e.current + 1 /\ r.record_active
        /\ r.record_active = e.record_active /\ r.playback_active = e.playback_active
        /\ r.reset_ack = e.reset_ack
    BY <1>1, <1>3, <2>5 DEF HistState
  <2>8. r \in HistState
    BY <1>1, <2>2, <2>3, <2>5, <2>6 DEF HistState
  <2>9. Listed(r)
    BY <2>1, <2>3, <2>4, <2>7 DEF Listed, Ended
  <2> QED
    BY <2>4, <2>7, <2>8, <2>9 DEF EvTyped, r, E
<1> QED
  BY <1>2, <1>3

LEMMA StoppedTyped ==
  ASSUME NEW start, NEW e, EvTyped(e, start)
  PROVE  LET p == PlaybackStopped(e) IN
         EvTyped(p, start) /\ p.list = e.list /\ p.record_active = e.record_active
BY DEF EvTyped, HistState, Listed, Ended, PlaybackStopped

(* The events go on to the next one. *)
LEMMA NextTyped ==
  ASSUME NEW start, NEW e, EvTyped(e, start), ~ e.record_active, e.list # <<>>,
         e.list[e.current].type # "end"
  PROVE  LET n == [e EXCEPT !.current = @ + 1] IN
         EvTyped(n, start) /\ n.list = e.list /\ n.record_active = e.record_active
<1> DEFINE n == [e EXCEPT !.current = e.current + 1]
<1>1. e \in HistState /\ e.current \in 1 .. Len(e.list) /\ Ended(e.list) /\ e.list \in Seq(Event)
  BY DEF EvTyped, Listed, HistState
<1>2. e.current # Len(e.list)
  BY <1>1 DEF Ended
<1>3. e.current + 1 \in 1 .. Len(e.list) /\ e.current + 1 \in Nat
  BY <1>1, <1>2
<1>4. /\ n \in HistState /\ n.list = e.list /\ n.current = e.current + 1
      /\ n.record_active = e.record_active
  BY <1>1, <1>3 DEF HistState
<1> HIDE DEF n
<1>5. EvTyped(n, start)
  BY <1>1, <1>3, <1>4 DEF EvTyped, Listed
<1>6. n = [e EXCEPT !.current = @ + 1]
  BY <1>1 DEF n, HistState
<1> QED
  BY <1>4, <1>5, <1>6

LEMMA AckedTyped ==
  ASSUME NEW start, NEW e, EvTyped(e, start), NEW clk \in HistClocks
  PROVE  LET r == ResetAcked(e, clk) IN
         /\ EvTyped(r, start) /\ r.record_active = e.record_active
         /\ e.list # <<>> => r.list # <<>>
<1> DEFINE e0 == [e EXCEPT !.reset_ack = FALSE]
           e1 == IF e.reset_ack THEN NextAlarm(e0, clk) ELSE e
           f1 == [e1 EXCEPT !.current = @ + 1]
           e2 == IF e1.list # <<>> /\ e1.list[e1.current].type = "reset" THEN NextAlarm(f1, clk) ELSE e1
<1>1. CASE e.list = <<>>
  BY <1>1 DEF ResetAcked
<1>2. CASE e.list # <<>>
  <2>1. e \in HistState
    BY DEF EvTyped
  <2>2. EvTyped(e0, start) /\ e0.list = e.list /\ e0.record_active = e.record_active
    BY <1>2 DEF EvTyped, HistState, Listed
  <2> HIDE DEF e0
  <2>3. EvTyped(e1, start) /\ e1.list = e.list /\ e1.record_active = e.record_active
    BY <1>2, <2>2, NextAlarmTyped
  <2> HIDE DEF e1
  <2>4. e1.list[e1.current].type = "reset" =>
          EvTyped(f1, start) /\ f1.list = e.list /\ f1.record_active = e.record_active
    <3> SUFFICES ASSUME e1.list[e1.current].type = "reset"
                 PROVE  EvTyped(f1, start) /\ f1.list = e.list /\ f1.record_active = e.record_active
      OBVIOUS
    <3>1. e1.list[e1.current].type # "end"
      OBVIOUS
    <3>2. ~ e1.record_active
      BY <1>2, <2>3, <3>1 DEF EvTyped, Listed, Ended
    <3> QED
      BY <1>2, <2>3, <3>1, <3>2, NextTyped
  <2> HIDE DEF f1
  <2>5. EvTyped(e2, start) /\ e2.list = e.list /\ e2.record_active = e.record_active
    BY <1>2, <2>3, <2>4, NextAlarmTyped
  <2> HIDE DEF e2
  <2>6. ResetAcked(e, clk) = IF e.record_active THEN [e2 EXCEPT !.alarm = e.next_timestamp_clk] ELSE e2
    BY <1>2 DEF ResetAcked, e2, f1, e1, e0
  <2>7. e.next_timestamp_clk \in HistClocks
    BY <2>1 DEF HistState
  <2> DEFINE e3 == [e2 EXCEPT !.alarm = e.next_timestamp_clk]
  <2>8. EvTyped(e3, start)
    BY <1>2, <2>5, <2>7, AlarmSet
  <2>9. e3.list = e2.list /\ e3.record_active = e2.record_active
    BY <2>5 DEF EvTyped, HistState
  <2> HIDE DEF e3
  <2>10. ResetAcked(e, clk) = IF e.record_active THEN e3 ELSE e2
    BY <2>6 DEF e3
  <2> QED
    BY <1>2, <2>5, <2>8, <2>9, <2>10
<1> QED
  BY <1>1, <1>2

LEMMA ReadToEndTyped ==
  ASSUME NEW start, NEW e, EvTyped(e, start), NEW list \in Seq(Savable(start)),
         \E i \in 1 .. Len(list) : list[i].type = "end"
  PROVE  LET r == ReadToEnd(e, list) IN
         /\ EvTyped(r, start) /\ r.list # <<>> /\ r.current = Len(r.list)
         /\ r.record_active = e.record_active /\ r.milestone = e.milestone
<1> DEFINE E == Savable(start)
           s == ReadModule(list)
           n == Len(s.list)
           l == Append(SubSeq(s.list, 1, n - 1), Sentinel)
           r == [e EXCEPT !.list = l, !.current = n, !.next_timestamp_clk = s.ts]
<1>1. Storable(E) /\ Sentinel \in E /\ Sentinel.type = "end"
  BY SavableStorable, SentinelStorable
<1>2. s \in ReadState(E) /\ Ended(s.list) /\ s.ts \in HistClocks
  BY <1>1, ReadTyped
<1> HIDE DEF s, E
<1>3. s.list \in Seq(E) /\ n \in Nat /\ n > 0
  <2>1. s.list \in Seq(E) /\ s.list # <<>>
    BY <1>2 DEF ReadState, Ended
  <2> QED
    BY <2>1, EmptySeq
<1>4. l \in Seq(E) /\ Len(l) = n /\ l[n] = Sentinel /\ l # <<>>
  <2> DEFINE b == s.list
  <2>1. b \in Seq(E) /\ n = Len(b)
    BY <1>3
  <2> HIDE DEF b, n
  <2> DEFINE f == SubSeq(b, 1, n - 1)
  <2>2. f \in Seq(E) /\ Len(f) = n - 1
    BY <1>3, <2>1
  <2> HIDE DEF f
  <2>3. Append(f, Sentinel) \in Seq(E) /\ Len(Append(f, Sentinel)) = n
        /\ Append(f, Sentinel)[n] = Sentinel /\ Append(f, Sentinel) # <<>>
    BY <1>1, <1>3, <2>2
  <2> QED
    BY <2>3 DEF f, b
<1>5. l \in Seq(Event)
  BY <1>4, SavableStorable DEF E
<1>6. e \in HistState
  BY DEF EvTyped
<1> HIDE DEF l, n
<1>7. /\ r \in HistState /\ r.list = l /\ r.current = n /\ r.record_active = e.record_active
      /\ r.milestone = e.milestone
  BY <1>2, <1>3, <1>5, <1>6 DEF HistState
<1> HIDE DEF r
<1>8. n \in 1 .. Len(l)
  BY <1>3, <1>4
<1>9. EvTyped(r, start)
  BY <1>1, <1>4, <1>7, <1>8 DEF EvTyped, Listed, Ended, E
<1>10. ReadToEnd(e, list) = r
  BY DEF ReadToEnd, r, l, n, s
<1> QED
  BY <1>4, <1>7, <1>9, <1>10

(* A recording begins or goes on: current is at the end of the list.       *)
LEMMA StartedTyped ==
  ASSUME NEW start, NEW e, EvTyped(e, start), e.list # <<>>, e.current = Len(e.list),
         NEW next \in HistClocks
  PROVE  /\ EvTyped(Started(e, next), start)
         /\ Started(e, next).list = e.list
<1> DEFINE x == 0
           s == [e EXCEPT !.record_active = TRUE, !.next_timestamp_clk = next, !.alarm = next,
                          !.milestone = x]
<1>1. e \in HistState /\ x \in HistClocks
  BY HistNumbers DEF EvTyped, HistClocks
<1>2. s = Started(e, next)
  BY DEF Started
<1> HIDE DEF x
<1>3. s \in HistState /\ s.list = e.list /\ s.current = e.current
  BY <1>1 DEF HistState
<1> HIDE DEF s
<1>4. EvTyped(s, start)
  BY <1>3 DEF EvTyped, Listed
<1> QED
  BY <1>2, <1>3, <1>4

LEMMA NewListTyped ==
  ASSUME NEW start, NEW stop, NEW e, EvTyped(e, stop), NEW initial, NEW clk,
         [type |-> initial, clk |-> clk] \in Savable(start)
  PROVE  LET n == NewList(e, initial, clk) IN
         /\ EvTyped(n, start) /\ n.list # <<>> /\ n.current = Len(n.list)
<1> DEFINE x == [type |-> initial, clk |-> clk]
           l == <<x, Sentinel>>
           c == 2
           n == [e EXCEPT !.list = l, !.current = c]
<1>1. x \in Savable(start) /\ Sentinel \in Savable(start) /\ Sentinel.type = "end"
  BY SavableStorable, SentinelStorable
<1> HIDE DEF x
<1>2. l \in Seq(Savable(start)) /\ Len(l) = c /\ l # <<>> /\ l[c] = Sentinel /\ c \in Nat
      /\ c \in 1 .. Len(l)
  BY <1>1
<1>3. l \in Seq(Event)
  BY <1>2, SavableStorable
<1>4. n = NewList(e, initial, clk)
  BY DEF NewList, x
<1> HIDE DEF l, c
<1>5. e \in HistState
  BY DEF EvTyped
<1>6. n \in HistState /\ n.list = l /\ n.current = c
  BY <1>2, <1>3, <1>5 DEF HistState
<1> HIDE DEF n
<1>7. EvTyped(n, start)
  BY <1>1, <1>2, <1>6 DEF EvTyped, Listed, Ended
<1> QED
  BY <1>2, <1>4, <1>6, <1>7

(* A new start file takes no event from the lists. *)
LEMMA SavableGrows ==
  ASSUME NEW start, NEW new, new # NoFile
  PROVE  /\ \A l \in Seq(Savable(start)) : l \in Seq(Savable(new))
         /\ \A e : EvTyped(e, start) => EvTyped(e, new)
<1>1. Savable(start) \subseteq Savable(new)
  BY DEF Savable
<1>2. \A l \in Seq(Savable(start)) : l \in Seq(Savable(new))
  BY <1>1, SeqMonotonic
<1> QED
  BY <1>2 DEF EvTyped

-----------------------------------------------------------------------------
(* The machine. *)

LEMMA MachNumbers ==
  ASSUME NEW m \in MachState
  PROVE  /\ m.clk \in 0 .. Latest /\ m.clk \in HistClocks /\ m.clk \in Nat
         /\ m.frame \in 0 .. HistFrame /\ m.frame \in Nat /\ m.time \in Nat
         /\ m.clk - m.frame < HistGuardMax
<1>1. m.clk \in HistClocks /\ m.frame \in 0 .. HistFrame /\ m.time \in Nat
      /\ m.clk - m.frame < HistGuardMax
  BY DEF MachState
<1> DEFINE c == m.clk
           f == m.frame
<1>2. c \in HistClocks /\ f \in 0 .. HistFrame /\ c - f < HistGuardMax
  BY <1>1
<1> HIDE DEF c, f
<1>3. c \in Nat /\ f \in Nat /\ c \in 0 .. Latest
  BY <1>2, HistNumbers DEF HistClocks
<1> QED
  BY <1>1, <1>3 DEF c, f

LEMMA MachSet ==
  ASSUME NEW m \in MachState, NEW c \in HistClocks, NEW t \in Nat, NEW f \in 0 .. HistFrame,
         c - f < HistGuardMax
  PROVE  /\ [m EXCEPT !.clk = c, !.time = t, !.frame = f] \in MachState
         /\ [m EXCEPT !.clk = c, !.frame = f] \in MachState
         /\ [m EXCEPT !.frame = f, !.clk = c] \in MachState
<1>1. /\ [m EXCEPT !.clk = c, !.time = t, !.frame = f].clk = c
      /\ [m EXCEPT !.clk = c, !.time = t, !.frame = f].frame = f
      /\ [m EXCEPT !.clk = c, !.frame = f].clk = c
      /\ [m EXCEPT !.clk = c, !.frame = f].frame = f
      /\ [m EXCEPT !.frame = f, !.clk = c].clk = c
      /\ [m EXCEPT !.frame = f, !.clk = c].frame = f
  BY DEF MachState
<1> DEFINE S == [clk : HistClocks, time : Nat, hist : Seq(Nat \X Types), frame : 0 .. HistFrame]
<1>2. /\ [m EXCEPT !.clk = c, !.time = t, !.frame = f] \in S
      /\ [m EXCEPT !.clk = c, !.frame = f] \in S
      /\ [m EXCEPT !.frame = f, !.clk = c] \in S
  BY DEF MachState
<1> QED
  BY <1>1, <1>2 DEF MachState

LEMMA HappensTyped ==
  ASSUME mach \in MachState, NEW input \in Types
  PROVE  Happens(input) \in MachState /\ Happens(input).frame = mach.frame
<1> DEFINE h == Append(mach.hist, <<mach.time, input>>)
           m == [mach EXCEPT !.hist = h]
<1>1. mach.hist \in Seq(Nat \X Types) /\ mach.time \in Nat
  BY DEF MachState
<1>2. <<mach.time, input>> \in Nat \X Types
  BY <1>1
<1>3. h \in Seq(Nat \X Types)
  BY <1>1, <1>2
<1>4. m = Happens(input)
  BY DEF Happens
<1> HIDE DEF h
<1>5. m \in MachState /\ m.frame = mach.frame
  BY <1>3 DEF MachState
<1> QED
  BY <1>4, <1>5

LEMMA MachineTyped ==
  ASSUME NEW c \in 0 .. HistGuardMax - 1
  PROVE  Machine(c) \in MachState /\ Machine(c).frame = 0
<1> DEFINE m == Machine(c)
           none == <<>>
<1>1. c \in HistClocks /\ 0 \in 0 .. HistFrame /\ c - 0 < HistGuardMax /\ 0 \in Nat
  BY HistNumbers DEF HistClocks
<1>2. none \in Seq(Nat \X Types)
  OBVIOUS
<1>3. m = [clk |-> c, time |-> 0, hist |-> none, frame |-> 0]
  BY DEF Machine
<1> HIDE DEF m, none
<1>4. m.clk = c /\ m.frame = 0
  BY <1>3
<1>5. m \in [clk : HistClocks, time : Nat, hist : Seq(Nat \X Types), frame : 0 .. HistFrame]
  BY <1>1, <1>2, <1>3
<1> QED
  BY <1>1, <1>4, <1>5 DEF MachState, m

-----------------------------------------------------------------------------
(* The steps. *)

LEMMA HistTypedInit ==
  ASSUME HistInit PROVE HistTyped
<1> DEFINE empty == <<>>
           e == [record_active |-> FALSE, playback_active |-> FALSE, list |-> empty, current |-> 1,
                 next_timestamp_clk |-> 0, alarm |-> None, milestone |-> 0, reset_ack |-> FALSE]
<1>1. ev = e /\ files = [start |-> NoFile, end |-> NoFile] /\ mach = Machine(StartClk)
      /\ pend = [pc |-> "alarms", trap |-> "none", reset |-> "none"]
  BY DEF HistInit
<1>2. empty \in Seq(Event) /\ empty \in Seq(Savable(files.start)) /\ empty = <<>>
  OBVIOUS
<1> HIDE DEF empty
<1>3. EvTyped(ev, files.start)
  <2>1. 0 \in HistClocks /\ None \in HistClocks \cup {None} /\ 1 \in Nat
    BY HistNumbers DEF HistClocks
  <2>2. e \in HistState
    BY <1>2, <2>1 DEF HistState
  <2>3. Listed(e)
    BY <1>2 DEF Listed
  <2> QED
    BY <1>1, <1>2, <2>2, <2>3 DEF EvTyped
<1> HIDE DEF e
<1>4. mach \in MachState
  BY <1>1, MachineTyped, HistNumbers
<1>5. Readable(files)
  BY <1>1 DEF Readable
<1>6. pend \in PendState /\ pend.pc # "opcode" /\ pend.trap = "none"
  BY <1>1 DEF PendState
<1> QED
  BY <1>3, <1>4, <1>5, <1>6 DEF HistTyped

(* Steps that leave the files alone, and the trap or what it needs.        *)
LEMMA PendTyped ==
  ASSUME HistTyped, files' = files, EvTyped(ev', files.start), mach' \in MachState,
         pend' \in PendState, ev'.record_active = ev.record_active,
         pend'.trap = pend.trap,
         pend'.pc = "opcode" => mach'.frame < HistFrame,
         ev.list # <<>> => ev'.list # <<>>
  PROVE  HistTyped'
BY DEF HistTyped, EvTyped, Readable, Listed, Ended, Savable

LEMMA EventAlarmTyped ==
  ASSUME HistTyped, EventAlarm PROVE HistTyped'
<1>1. /\ pend.pc = "alarms" /\ ev.alarm # None /\ files' = files /\ ev \in HistState
      /\ EvTyped(ev, files.start) /\ mach \in MachState /\ pend \in PendState
  BY DEF EventAlarm, AlarmDue, HistTyped, EvTyped
<1>2. ev.list # <<>> /\ ev.current \in 1 .. Len(ev.list)
  BY <1>1 DEF EvTyped, Listed
<1>3. CASE ev.record_active
  <2>1. /\ ev' = [ev EXCEPT !.next_timestamp_clk = Wrapped(ev.next_timestamp_clk + Second),
                            !.alarm = Wrapped(ev.next_timestamp_clk + Second)]
        /\ UNCHANGED <<mach, pend>>
    BY <1>1, <1>3 DEF EventAlarm, HistState
  <2>2. Wrapped(ev.next_timestamp_clk + Second) \in HistClocks
    <3>1. ev.next_timestamp_clk \in HistClocks
      BY <1>1 DEF HistState
    <3>2. ev.next_timestamp_clk + Second \in Int
      BY <3>1, HistNumbers DEF HistClocks
    <3> QED
      BY <3>2, WrappedTyped
  <2> DEFINE w == Wrapped(ev.next_timestamp_clk + Second)
  <2> HIDE DEF w
  <2>3. ev' = [ev EXCEPT !.next_timestamp_clk = w, !.alarm = w] /\ w \in HistClocks
    BY <2>1, <2>2 DEF w
  <2>4. EvTyped(ev', files.start)
    BY <1>1, <1>2, <2>3, StampAlarmSet
  <2>5. ev'.list = ev.list /\ ev'.record_active = ev.record_active
    BY <1>1, <2>3 DEF HistState
  <2> QED
    BY <1>1, <1>2, <2>1, <2>4, <2>5, PendTyped
<1>4. CASE ~ ev.record_active
  <2> DEFINE e == ev.list[ev.current]
             e0 == [ev EXCEPT !.alarm = None]
             e1 == [e0 EXCEPT !.current = @ + 1]
  <2>1. /\ mach' = IF e.type \in Keys \cup {"reset"} THEN Happens(e.type) ELSE mach
        /\ pend' = IF e.type = "reset" THEN [pend EXCEPT !.reset = "soft"] ELSE pend
        /\ ev' = CASE e.type = "end" -> PlaybackStopped(e0)
                   [] e.type = "reset" -> e0
                   [] OTHER -> NextAlarm(e1, mach.clk)
    BY <1>4 DEF EventAlarm
  <2>2. /\ EvTyped(e0, files.start) /\ e0.list = ev.list /\ e0.record_active = ev.record_active
        /\ e0.current = ev.current
    <3>1. EvTyped(e0, files.start)
      BY <1>1, AlarmSet
    <3> QED
      BY <1>1, <3>1 DEF HistState
  <2>3. e.type \in Types
    <3>1. e \in Event
      BY <1>1, <1>2 DEF HistState
    <3> QED
      BY <3>1 DEF Event
  <2> HIDE DEF e0
  <2>4. e.type # "end" => EvTyped(e1, files.start) /\ e1.list = ev.list /\ e1.record_active = ev.record_active
    BY <1>2, <1>4, <2>2, NextTyped
  <2>5. mach.clk \in HistClocks
    BY <1>1, MachNumbers
  <2> HIDE DEF e1, e
  <2>6. EvTyped(ev', files.start) /\ ev'.list = ev.list /\ ev'.record_active = ev.record_active
    <3>1. CASE e.type = "end"
      BY <2>1, <2>2, <3>1, StoppedTyped
    <3>2. CASE e.type = "reset"
      BY <2>1, <2>2, <3>2
    <3>3. CASE e.type # "end" /\ e.type # "reset"
      BY <1>2, <2>1, <2>4, <2>5, <3>3, NextAlarmTyped
    <3> QED
      BY <3>1, <3>2, <3>3
  <2>7. mach' \in MachState /\ mach'.frame = mach.frame
    BY <1>1, <2>1, <2>3, HappensTyped
  <2>8. pend' \in PendState /\ pend'.trap = pend.trap /\ pend'.pc = pend.pc
    BY <1>1, <2>1 DEF PendState
  <2> QED
    BY <1>1, <2>6, <2>7, <2>8, PendTyped
<1> QED
  BY <1>3, <1>4

LEMMA InputTyped ==
  ASSUME HistTyped, NEW key \in Keys, Input(key) PROVE HistTyped'
<1>1. /\ pend.pc = "alarms" /\ mach' = Happens(key) /\ ev' = Recorded(ev, key, mach.clk)
      /\ UNCHANGED <<files, pend, record>>
  BY DEF Input
<1>2. EvTyped(ev, files.start) /\ mach \in MachState /\ pend \in PendState
  BY DEF HistTyped
<1>3. key \in Recordable /\ key \in Types
  BY HistAssumption DEF Recordable, Types
<1>4. mach.clk \in 0 .. Latest
  BY <1>2, MachNumbers
<1>5. mach' \in MachState
  BY <1>1, <1>2, <1>3, HappensTyped
<1>6. /\ EvTyped(ev', files.start) /\ ev'.record_active = ev.record_active
      /\ ev.list # <<>> => ev'.list # <<>>
  BY <1>1, <1>2, <1>3, <1>4, RecordedTyped
<1> QED
  BY <1>1, <1>2, <1>5, <1>6, PendTyped

LEMMA UserResetTyped ==
  ASSUME HistTyped, UserReset PROVE HistTyped'
<1>1. /\ pend.pc = "alarms" /\ mach' = Happens("reset") /\ ev' = Recorded(ev, "reset", mach.clk)
      /\ pend' = [pend EXCEPT !.reset = "soft"]
      /\ UNCHANGED <<files, record>>
  BY DEF UserReset
<1>2. EvTyped(ev, files.start) /\ mach \in MachState /\ pend \in PendState
  BY DEF HistTyped
<1>3. "reset" \in Recordable /\ "reset" \in Types
  BY DEF Recordable, Types
<1>4. mach.clk \in 0 .. Latest
  BY <1>2, MachNumbers
<1>5. mach' \in MachState
  BY <1>1, <1>2, <1>3, HappensTyped
<1>6. /\ EvTyped(ev', files.start) /\ ev'.record_active = ev.record_active
      /\ ev.list # <<>> => ev'.list # <<>>
  BY <1>1, <1>2, <1>3, <1>4, RecordedTyped
<1>7. pend' \in PendState /\ pend'.trap = pend.trap /\ pend'.pc = pend.pc
  BY <1>1, <1>2 DEF PendState
<1> QED
  BY <1>1, <1>2, <1>5, <1>6, <1>7, PendTyped

(* What the guard leaves of a clock is below it again.                     *)
LEMMA GuardedBounds ==
  ASSUME NEW m \in MachState, m.frame = HistFrame
  PROVE  LET sub == GuardedBy(m.clk) IN
         /\ sub \in Nat /\ sub <= m.clk /\ m.clk - sub \in HistClocks
         /\ m.clk - sub \in 0 .. Latest /\ m.clk - sub < HistGuardMax
<1> DEFINE c == m.clk
           sub == GuardedBy(c)
<1>1. c \in Nat /\ c \in 0 .. Latest /\ c - HistFrame < HistGuardMax
  BY MachNumbers
<1> HIDE DEF c
<1>2. sub = IF c < HistGuardMax THEN 0 ELSE HistSub
  BY DEF GuardedBy
<1> HIDE DEF sub
<1>3. /\ sub \in Nat /\ sub <= c /\ c - sub \in HistClocks
      /\ c - sub \in 0 .. Latest /\ c - sub < HistGuardMax
  BY <1>1, <1>2, HistSubBounds, HistNumbers DEF HistClocks
<1> QED
  BY <1>3 DEF sub, c

LEMMA EndFrameTyped ==
  ASSUME HistTyped, EndFrame PROVE HistTyped'
<1> DEFINE sub == GuardedBy(mach.clk)
           clk == mach.clk - sub
           e == IF sub = 0 THEN ev ELSE Recorded(ev, "overflow", clk)
           a == IF e.alarm = None THEN None ELSE IF e.alarm > sub THEN e.alarm - sub ELSE 0
           t == IF e.next_timestamp_clk = 0 THEN 0 ELSE Wrapped(e.next_timestamp_clk - sub)
<1>1. /\ pend.pc = "alarms" /\ mach.frame = HistFrame
      /\ mach' = [mach EXCEPT !.frame = 0, !.clk = clk]
      /\ UNCHANGED <<files, pend, record>>
  BY DEF EndFrame
<1>2. EvTyped(ev, files.start) /\ mach \in MachState /\ pend \in PendState
  BY DEF HistTyped
<1>3. sub \in Nat /\ clk \in HistClocks /\ clk \in 0 .. Latest /\ clk < HistGuardMax
  BY <1>1, <1>2, GuardedBounds
<1>4. "overflow" \in Recordable
  BY DEF Recordable, Types
<1> HIDE DEF sub, clk
<1>5. /\ EvTyped(e, files.start) /\ e.record_active = ev.record_active
      /\ ev.list # <<>> => e.list # <<>>
  BY <1>2, <1>3, <1>4, RecordedTyped
<1>6. ev' = [e EXCEPT !.alarm = a, !.next_timestamp_clk = t]
  <2>1. ev' = [e EXCEPT !.alarm = IF @ = None THEN None ELSE IF @ > sub THEN @ - sub ELSE 0,
                        !.next_timestamp_clk = IF @ = 0 THEN 0 ELSE Wrapped(@ - sub)]
    BY DEF EndFrame, sub, clk
  <2>2. e \in HistState
    BY <1>5 DEF EvTyped
  <2> HIDE DEF e
  <2> QED
    BY <2>1, <2>2 DEF HistState
<1> HIDE DEF e
<1>7. e.next_timestamp_clk \in HistClocks /\ e.alarm \in HistClocks \cup {None} /\ e \in HistState
      /\ (e.list = <<>> => e.alarm = None)
  BY <1>5 DEF EvTyped, HistState, Listed
<1>8. \A c \in HistClocks : c \in Nat
  BY HistNumbers DEF HistClocks
<1>9. a \in HistClocks \cup {None} /\ (e.list = <<>> => a = None)
  <2>1. CASE e.alarm = None
    BY <2>1
  <2>2. CASE e.alarm # None
    <3>1. e.alarm \in HistClocks
      BY <1>7, <2>2
    <3>2. \A c \in HistClocks : (IF c > sub THEN c - sub ELSE 0) \in HistClocks
      BY <1>3, HistNumbers DEF HistClocks
    <3> QED
      BY <1>7, <2>2, <3>1, <3>2
  <2> QED
    BY <2>1, <2>2
<1>10. t \in HistClocks
  <2>1. e.next_timestamp_clk - sub \in Int
    <3>1. \A c \in HistClocks : c - sub \in Int
      BY <1>3, <1>8
    <3> QED
      BY <1>7, <3>1
  <2>2. 0 \in HistClocks
    BY HistNumbers DEF HistClocks
  <2> QED
    BY <2>1, <2>2, WrappedTyped
<1> HIDE DEF a, t
<1>11. EvTyped(ev', files.start)
  <2>1. EvTyped([e EXCEPT !.next_timestamp_clk = t, !.alarm = a], files.start)
    BY <1>5, <1>9, <1>10, StampAlarmSet
  <2>2. ev' = [e EXCEPT !.next_timestamp_clk = t, !.alarm = a]
    BY <1>6, <1>7 DEF HistState
  <2> QED
    BY <2>1, <2>2
<1>12. ev'.list = e.list /\ ev'.record_active = e.record_active
  BY <1>6, <1>7 DEF HistState
<1>13. mach' \in MachState
  <2>1. 0 \in 0 .. HistFrame /\ clk - 0 < HistGuardMax
    BY <1>3, <1>8, HistNumbers
  <2> QED
    BY <1>1, <1>2, <1>3, <2>1, MachSet
<1> QED
  BY <1>1, <1>2, <1>5, <1>11, <1>12, <1>13, PendTyped

LEMMA ResetTyped ==
  ASSUME HistTyped, DoReset PROVE HistTyped'
<1>1. /\ mach' = IF pend.reset = "power" THEN PowerUp
                 ELSE [mach EXCEPT !.clk = ResetClk, !.frame = 0]
      /\ ev' = ResetAcked(ev, ResetClk)
      /\ pend' = [pend EXCEPT !.reset = "none", !.pc = "opcode"]
      /\ UNCHANGED <<files, record>>
  BY DEF DoReset
<1>2. EvTyped(ev, files.start) /\ mach \in MachState /\ pend \in PendState
  BY DEF HistTyped
<1>3. /\ ResetClk \in HistClocks /\ ResetClk \in 0 .. HistGuardMax - 1
      /\ ResetClk - 0 < HistGuardMax /\ 0 \in 0 .. HistFrame /\ 0 < HistFrame
  BY HistNumbers DEF HistClocks
<1>4. PowerUp \in MachState /\ PowerUp.frame = 0
  BY <1>3, MachineTyped DEF PowerUp
<1> DEFINE m == [mach EXCEPT !.clk = ResetClk, !.frame = 0]
<1>5. m \in MachState /\ m.frame = 0
  <2>1. m \in MachState
    BY <1>2, <1>3, MachSet
  <2> QED
    BY <1>2, <2>1 DEF MachState
<1> HIDE DEF m
<1>6. mach' \in MachState /\ mach'.frame = 0
  BY <1>1, <1>4, <1>5 DEF m
<1>7. /\ EvTyped(ev', files.start) /\ ev'.record_active = ev.record_active
      /\ ev.list # <<>> => ev'.list # <<>>
  BY <1>1, <1>2, <1>3, AckedTyped
<1>8. pend' \in PendState /\ pend'.trap = pend.trap
  BY <1>1, <1>2 DEF PendState
<1> QED
  BY <1>1, <1>3, <1>6, <1>7, <1>8, PendTyped

LEMMA OpcodeTyped ==
  ASSUME HistTyped, Opcode PROVE HistTyped'
<1>1. /\ mach' = [mach EXCEPT !.clk = mach.clk + 1, !.time = mach.time + 1, !.frame = mach.frame + 1]
      /\ pend' = [pend EXCEPT !.pc = "alarms"]
      /\ UNCHANGED <<ev, files, record>>
  BY DEF Opcode, HistTyped, MachState
<1>2. EvTyped(ev, files.start) /\ mach \in MachState /\ pend \in PendState
  BY DEF HistTyped
<1>3. mach.frame < HistFrame
  BY DEF Opcode, AlarmsDone, HistTyped
<1> DEFINE c == mach.clk
           f == mach.frame
           t == mach.time
<1>4. c \in Nat /\ f \in Nat /\ t \in Nat /\ c - f < HistGuardMax /\ f < HistFrame
  BY <1>2, <1>3, MachNumbers
<1> HIDE DEF c, f, t
<1>5. /\ c + 1 \in HistClocks /\ t + 1 \in Nat /\ f + 1 \in 0 .. HistFrame
      /\ (c + 1) - (f + 1) < HistGuardMax
  BY <1>4, HistNumbers DEF HistClocks
<1>6. mach' = [mach EXCEPT !.clk = c + 1, !.time = t + 1, !.frame = f + 1]
  BY <1>1 DEF c, f, t
<1>7. mach' \in MachState
  BY <1>2, <1>5, <1>6, MachSet
<1>8. pend' \in PendState /\ pend'.trap = pend.trap /\ pend'.pc = "alarms"
  BY <1>1, <1>2 DEF PendState
<1> QED
  BY <1>1, <1>2, <1>7, <1>8, PendTyped

(* A request of the user leaves a trap, and never one that finds no list.  *)
LEMMA RequestTyped ==
  ASSUME HistTyped,
         NEW trap \in {"none", "save", "load", "reset", "overwrite", "stop", "set milestone",
                       "reset milestone", "playback"},
         NEW e, EvTyped(e, files.start), e.record_active = ev.record_active,
         ev.list # <<>> => e.list # <<>>,
         trap \in {"stop", "set milestone"} => ev.list # <<>>,
         trap = "playback" => ~ ev.record_active,
         Request(trap, e)
  PROVE  HistTyped'
<1>1. /\ pend.pc = "alarms" /\ ev' = e
      /\ pend' = [pend EXCEPT !.trap = IF trap = "none" THEN @ ELSE trap]
      /\ UNCHANGED <<mach, files>>
  BY DEF Request
<1>2. /\ EvTyped(ev, files.start) /\ mach \in MachState /\ pend \in PendState /\ Readable(files)
      /\ pend.trap \in {"stop", "set milestone"} => ev.list # <<>>
      /\ pend.trap = "playback" => ~ ev.record_active
  BY DEF HistTyped
<1>3. /\ pend' \in PendState /\ pend'.pc = "alarms"
      /\ pend'.trap = IF trap = "none" THEN pend.trap ELSE trap
  BY <1>1, <1>2 DEF PendState
<1>4. pend'.trap \in {"stop", "set milestone"} => ev'.list # <<>>
  BY <1>1, <1>2, <1>3
<1>5. pend'.trap = "playback" => ~ ev'.record_active
  BY <1>1, <1>2, <1>3
<1>6. EvTyped(ev', files'.start) /\ mach' \in MachState /\ Readable(files')
  BY <1>1, <1>2
<1> QED
  BY <1>3, <1>4, <1>5, <1>6 DEF HistTyped

LEMMA RequestsTyped ==
  ASSUME HistTyped,
         \/ \E mode \in {"save", "load", "reset", "overwrite"} : RecordStart(mode)
         \/ RecordStop \/ SetMilestone \/ ResetMilestone \/ PlaybackStart \/ PlaybackStop
  PROVE  HistTyped'
<1>1. EvTyped(ev, files.start) /\ mach \in MachState /\ ev \in HistState
      /\ (ev.record_active => ev.list # <<>>)
  BY DEF HistTyped, EvTyped, Listed
<1> DEFINE p == PlaybackStopped(ev)
<1>2. EvTyped(p, files.start) /\ p.list = ev.list /\ p.record_active = ev.record_active
  BY <1>1, StoppedTyped
<1> HIDE DEF p
<1>3. ASSUME NEW mode \in {"save", "load", "reset", "overwrite"}, RecordStart(mode)
      PROVE  HistTyped'
  <2>1. Request(mode, IF mode = "overwrite" THEN p ELSE ev)
    BY <1>3 DEF RecordStart, p
  <2> QED
    BY <1>1, <1>2, <2>1, RequestTyped
<1>4. CASE RecordStop
  <2> DEFINE r == Recorded(ev, "end", mach.clk)
             e == [r EXCEPT !.alarm = None]
  <2>1. Request("stop", e) /\ ev.record_active
    BY <1>4 DEF RecordStop
  <2>2. mach.clk \in 0 .. Latest /\ "end" \in Recordable
    BY <1>1, MachNumbers DEF Recordable, Types
  <2>3. /\ EvTyped(r, files.start) /\ r.record_active = ev.record_active
        /\ ev.list # <<>> => r.list # <<>>
    BY <1>1, <2>2, RecordedTyped
  <2> HIDE DEF r
  <2>4. EvTyped(e, files.start)
    BY <2>3, AlarmSet
  <2>5. e.list = r.list /\ e.record_active = r.record_active
    BY <2>3 DEF EvTyped, HistState
  <2> HIDE DEF e
  <2> QED
    BY <1>1, <2>1, <2>3, <2>4, <2>5, RequestTyped
<1>5. CASE SetMilestone
  BY <1>1, <1>5, RequestTyped DEF SetMilestone
<1>6. CASE ResetMilestone
  BY <1>1, <1>6, RequestTyped DEF ResetMilestone
<1>7. CASE PlaybackStart
  BY <1>1, <1>7, RequestTyped DEF PlaybackStart
<1>8. CASE PlaybackStop
  <2>1. Request("none", p)
    BY <1>8 DEF PlaybackStop, p
  <2> QED
    BY <1>1, <1>2, <2>1, RequestTyped
<1> QED
  BY <1>3, <1>4, <1>5, <1>6, <1>7, <1>8

-----------------------------------------------------------------------------
(* The traps: the machine is at the beginning of an opcode. *)
LEMMA ServedTyped ==
  ASSUME HistTyped, AlarmsDone
  PROVE  /\ mach.frame < HistFrame
         /\ Served \in PendState /\ Served.trap = "none"
         /\ PowerCycled \in PendState /\ PowerCycled.trap = "none" /\ PowerCycled.pc = "reset"
<1>1. pend \in PendState
  BY DEF HistTyped
<1>2. mach.frame < HistFrame
  BY DEF AlarmsDone
<1>3. Served \in PendState /\ Served.trap = "none"
  BY <1>1 DEF Served, PendState
<1>4. PowerCycled \in PendState /\ PowerCycled.trap = "none" /\ PowerCycled.pc = "reset"
  BY <1>1 DEF PowerCycled, PendState
<1> QED
  BY <1>2, <1>3, <1>4

LEMMA AfterTrap ==
  ASSUME pend' = Served \/ pend' = PowerCycled,
         HistTyped, AlarmsDone,
         EvTyped(ev', files'.start), mach' \in MachState, Readable(files'),
         mach'.frame < HistFrame
  PROVE  HistTyped'
BY ServedTyped DEF HistTyped

LEMMA SaveTyped ==
  ASSUME HistTyped, TrapSave PROVE HistTyped'
<1>1. AlarmsDone /\ pend' = Served /\ mach' = mach
  BY DEF TrapSave, Serve
<1>2. /\ EvTyped(ev, files.start) /\ mach \in MachState /\ Readable(files)
      /\ mach.frame < HistFrame
  BY <1>1, ServedTyped DEF HistTyped
<1>3. CASE UNCHANGED <<ev, files, record>>
  BY <1>1, <1>2, <1>3, AfterTrap
<1>4. CASE /\ files' = [files EXCEPT !.start = mach]
           /\ ev' = Started(NewList(ev, "initial save", mach.clk), mach.clk)
  <2>1. mach # NoFile
    <3>1. "clk" \in DOMAIN mach /\ ~ ("clk" \in DOMAIN NoFile)
      BY <1>2 DEF MachState, NoFile
    <3> QED
      BY <3>1
  <2>2. files'.start = mach /\ files'.end = files.end /\ files' = [start |-> mach, end |-> files.end]
    BY <1>2, <1>4 DEF Readable
  <2>3. Readable(files')
    BY <1>2, <2>1, <2>2, SavableGrows DEF Readable
  <2>4. mach.clk \in 0 .. Latest /\ mach.clk \in HistClocks /\ "initial save" \in Types
    BY <1>2, MachNumbers DEF Types
  <2>5. [type |-> "initial save", clk |-> mach.clk] \in Savable(mach)
    BY <2>1, <2>4 DEF Savable, Event
  <2> DEFINE n == NewList(ev, "initial save", mach.clk)
  <2>6. EvTyped(n, mach) /\ n.list # <<>> /\ n.current = Len(n.list)
    <3> DEFINE initial == "initial save"
               clk == mach.clk
    <3>1. [type |-> initial, clk |-> clk] \in Savable(mach) /\ n = NewList(ev, initial, clk)
      BY <2>5
    <3> HIDE DEF initial, clk, n
    <3> QED
      BY <1>2, <3>1, NewListTyped
  <2> HIDE DEF n
  <2>7. EvTyped(Started(n, mach.clk), mach)
    BY <2>4, <2>6, StartedTyped
  <2>8. EvTyped(ev', files'.start)
    BY <1>4, <2>2, <2>7 DEF n
  <2> QED
    BY <1>1, <1>2, <2>3, <2>8, AfterTrap
<1> QED
  BY <1>3, <1>4 DEF TrapSave

(* What is read of the end file. *)
LEMMA EndTyped ==
  ASSUME HistTyped, files.end # NoFile
  PROVE  LET r == ReadToEnd(ev, files.end.list) IN
         /\ files.end.mach \in MachState /\ files.end.mach.frame < HistFrame
         /\ files.end.mach.clk \in HistClocks
         /\ EvTyped(r, files.start) /\ r.list # <<>> /\ r.current = Len(r.list)
         /\ r.record_active = ev.record_active /\ r.milestone = ev.milestone
<1>1. /\ files.end.mach \in MachState /\ files.end.mach.frame < HistFrame
      /\ files.end.list \in Seq(Savable(files.start))
      /\ \E i \in 1 .. Len(files.end.list) : files.end.list[i].type = "end"
      /\ EvTyped(ev, files.start)
  BY DEF HistTyped, Readable
<1>2. files.end.mach.clk \in HistClocks
  BY <1>1, MachNumbers
<1> QED
  BY <1>1, <1>2, ReadToEndTyped

LEMMA LoadTyped ==
  ASSUME HistTyped, TrapLoad PROVE HistTyped'
<1>1. AlarmsDone /\ pend' = Served /\ files' = files
  BY DEF TrapLoad, Serve
<1>2. /\ EvTyped(ev, files.start) /\ mach \in MachState /\ Readable(files)
      /\ mach.frame < HistFrame
  BY <1>1, ServedTyped DEF HistTyped
<1>3. CASE UNCHANGED <<ev, mach, record>>
  BY <1>1, <1>2, <1>3, AfterTrap
<1>4. CASE /\ files.end # NoFile
           /\ mach' = files.end.mach
           /\ ev' = Started(ReadToEnd(ev, files.end.list), files.end.mach.clk)
  <2> DEFINE r == ReadToEnd(ev, files.end.list)
  <2>1. /\ files.end.mach \in MachState /\ files.end.mach.frame < HistFrame
        /\ files.end.mach.clk \in HistClocks
        /\ EvTyped(r, files.start) /\ r.list # <<>> /\ r.current = Len(r.list)
    BY <1>4, EndTyped
  <2> HIDE DEF r
  <2>2. EvTyped(Started(r, files.end.mach.clk), files.start)
    BY <2>1, StartedTyped
  <2> QED
    BY <1>1, <1>2, <1>4, <2>1, <2>2, AfterTrap DEF r
<1> QED
  BY <1>3, <1>4 DEF TrapLoad

LEMMA RecordResetTyped ==
  ASSUME HistTyped, TrapReset PROVE HistTyped'
<1>1. AlarmsDone /\ (pend' = Served \/ pend' = PowerCycled) /\ files' = files /\ mach' = mach
      /\ ev' = Started(NewList(ev, "initial reset", mach.clk), 0)
  BY DEF TrapReset
<1>2. /\ EvTyped(ev, files.start) /\ mach \in MachState /\ Readable(files)
      /\ mach.frame < HistFrame
  BY <1>1, ServedTyped DEF HistTyped
<1>3. mach.clk \in 0 .. Latest /\ 0 \in HistClocks /\ "initial reset" \in Types
  BY <1>2, MachNumbers, HistNumbers DEF Types, HistClocks
<1>4. [type |-> "initial reset", clk |-> mach.clk] \in Savable(files.start)
  BY <1>3 DEF Savable, Event
<1> DEFINE n == NewList(ev, "initial reset", mach.clk)
<1>5. EvTyped(n, files.start) /\ n.list # <<>> /\ n.current = Len(n.list)
  <2> DEFINE initial == "initial reset"
             clk == mach.clk
  <2>1. [type |-> initial, clk |-> clk] \in Savable(files.start) /\ n = NewList(ev, initial, clk)
    BY <1>4
  <2> HIDE DEF initial, clk, n
  <2> QED
    BY <1>2, <2>1, NewListTyped
<1> HIDE DEF n
<1>6. EvTyped(Started(n, 0), files.start)
  BY <1>3, <1>5, StartedTyped
<1> QED
  BY <1>1, <1>2, <1>6, AfterTrap DEF n

LEMMA OverwriteTyped ==
  ASSUME HistTyped, TrapOverwrite PROVE HistTyped'
<1> DEFINE E == Savable(files.start)
           l == Append(SubSeq(ev.list, 1, ev.current - 1), Sentinel)
           e == [ev EXCEPT !.list = l]
<1>1. AlarmsDone /\ pend' = Served /\ files' = files /\ mach' = mach /\ ev' = Started(e, mach.clk)
  BY DEF TrapOverwrite, Serve
<1>2. /\ EvTyped(ev, files.start) /\ mach \in MachState /\ Readable(files)
      /\ mach.frame < HistFrame
  BY <1>1, ServedTyped DEF HistTyped
<1>3. mach.clk \in HistClocks
  BY <1>2, MachNumbers
<1>4. ev \in HistState /\ ev.list \in Seq(E) /\ Sentinel \in E /\ Sentinel.type = "end"
  BY <1>2, SavableStorable, SentinelStorable DEF EvTyped
<1>5. ev.current \in 1 .. Len(ev.list) + 1 /\ ev.current \in Nat
  <2>1. CASE ev.list = <<>>
    BY <1>2, <2>1 DEF EvTyped, Listed
  <2>2. CASE ev.list # <<>>
    <3>1. ev.current \in 1 .. Len(ev.list) /\ Len(ev.list) \in Nat
      BY <1>2, <1>4, <2>2 DEF EvTyped, Listed
    <3> QED
      BY <3>1
  <2> QED
    BY <2>1, <2>2
<1> HIDE DEF E
<1>6. l \in Seq(E) /\ Len(l) = ev.current /\ l # <<>> /\ l[ev.current] = Sentinel
      /\ ev.current \in 1 .. Len(l)
  <2> DEFINE b == ev.list
             c == ev.current
             f == SubSeq(b, 1, c - 1)
  <2>1. b \in Seq(E) /\ c \in 1 .. Len(b) + 1 /\ c \in Nat
    BY <1>4, <1>5
  <2> HIDE DEF b, c
  <2>2. f \in Seq(E) /\ Len(f) = c - 1
    BY <2>1
  <2> HIDE DEF f
  <2>3. Append(f, Sentinel) \in Seq(E) /\ Len(Append(f, Sentinel)) = c
        /\ Append(f, Sentinel)[c] = Sentinel /\ Append(f, Sentinel) # <<>> /\ c \in 1 .. c
    BY <1>4, <2>1, <2>2
  <2> QED
    BY <2>3 DEF f, b, c
<1>7. l \in Seq(Event)
  BY <1>6, SavableStorable DEF E
<1> HIDE DEF l
<1>8. /\ e \in HistState /\ e.list = l /\ e.current = ev.current
  BY <1>4, <1>7 DEF HistState
<1>9. EvTyped(e, files.start)
  BY <1>4, <1>6, <1>8 DEF EvTyped, Listed, Ended, E
<1> HIDE DEF e
<1>10. EvTyped(Started(e, mach.clk), files.start)
  BY <1>3, <1>6, <1>8, <1>9, StartedTyped
<1> QED
  BY <1>1, <1>2, <1>10, AfterTrap

(* The end snapshot can be written as soon as there is a list.             *)
LEMMA WrittenTyped ==
  ASSUME HistTyped, AlarmsDone, ev.list # <<>>, NEW stopped,
         files' = [files EXCEPT !.end = EndFile(stopped)]
  PROVE  files'.start = files.start /\ Readable(files')
<1> DEFINE w == WriteModule(ev.list)
           E == Savable(files.start)
<1>1. /\ EvTyped(ev, files.start) /\ mach \in MachState /\ Readable(files)
      /\ mach.frame < HistFrame
  BY ServedTyped DEF HistTyped
<1>2. ev.list \in Seq(E) /\ Ended(ev.list)
  BY <1>1 DEF EvTyped, Listed
<1> HIDE DEF E
<1>3. w \in Seq(E) /\ \E i \in 1 .. Len(w) : w[i].type = "end"
  BY <1>2, WriteTyped
<1> HIDE DEF w
<1>4. EndFile(stopped).mach = mach /\ EndFile(stopped).list = w
  BY DEF EndFile, w
<1>5. files' = [start |-> files.start, end |-> EndFile(stopped)]
  BY <1>1 DEF Readable
<1> QED
  BY <1>1, <1>3, <1>4, <1>5 DEF Readable, E

LEMMA StopTyped ==
  ASSUME HistTyped, TrapStop PROVE HistTyped'
<1>1. AlarmsDone /\ pend.trap = "stop" /\ pend' = Served /\ mach' = mach
  BY DEF TrapStop, Serve
<1>2. /\ EvTyped(ev, files.start) /\ mach \in MachState /\ Readable(files)
      /\ mach.frame < HistFrame /\ ev.list # <<>>
  BY <1>1, ServedTyped DEF HistTyped
<1>3. CASE UNCHANGED <<files, ev>>
  BY <1>1, <1>2, <1>3, AfterTrap
<1>4. CASE /\ files' = [files EXCEPT !.end = EndFile(TRUE)]
           /\ ev' = [ev EXCEPT !.record_active = FALSE]
  <2>1. files'.start = files.start /\ Readable(files')
    BY <1>1, <1>2, <1>4, WrittenTyped
  <2>2. EvTyped(ev', files.start)
    BY <1>2, <1>4 DEF EvTyped, HistState, Listed
  <2> QED
    BY <1>1, <1>2, <2>1, <2>2, AfterTrap
<1> QED
  BY <1>3, <1>4 DEF TrapStop

LEMMA MilestoneTyped ==
  ASSUME HistTyped, TrapSetMilestone PROVE HistTyped'
<1>1. AlarmsDone /\ pend.trap = "set milestone" /\ pend' = Served /\ mach' = mach
  BY DEF TrapSetMilestone, Serve
<1>2. /\ EvTyped(ev, files.start) /\ mach \in MachState /\ Readable(files)
      /\ mach.frame < HistFrame /\ ev.list # <<>>
  BY <1>1, ServedTyped DEF HistTyped
<1>3. CASE UNCHANGED <<files, ev>>
  BY <1>1, <1>2, <1>3, AfterTrap
<1>4. CASE /\ files' = [files EXCEPT !.end = EndFile(FALSE)]
           /\ ev' = [ev EXCEPT !.milestone = ev.next_timestamp_clk]
  <2>1. files'.start = files.start /\ Readable(files')
    BY <1>1, <1>2, <1>4, WrittenTyped
  <2>2. EvTyped(ev', files.start)
    BY <1>2, <1>4 DEF EvTyped, HistState, Listed
  <2> QED
    BY <1>1, <1>2, <2>1, <2>2, AfterTrap
<1> QED
  BY <1>3, <1>4 DEF TrapSetMilestone

LEMMA ReturnTyped ==
  ASSUME HistTyped, TrapResetMilestone PROVE HistTyped'
<1>1. AlarmsDone /\ pend' = Served /\ files' = files
  BY DEF TrapResetMilestone, Serve
<1>2. /\ EvTyped(ev, files.start) /\ mach \in MachState /\ Readable(files)
      /\ mach.frame < HistFrame
  BY <1>1, ServedTyped DEF HistTyped
<1> DEFINE r == ReadToEnd(ev, files.end.list)
<1>3. CASE ev' = [ev EXCEPT !.record_active = FALSE] /\ UNCHANGED <<mach, record>>
  <2>1. EvTyped(ev', files.start)
    BY <1>2, <1>3 DEF EvTyped, HistState, Listed
  <2> QED
    BY <1>1, <1>2, <1>3, <2>1, AfterTrap
<1>4. CASE /\ files.end # NoFile
           /\ mach' = files.end.mach
           /\ ev' = IF r.milestone > 0
                    THEN [r EXCEPT !.alarm = r.milestone, !.next_timestamp_clk = r.milestone]
                    ELSE r
  <2>1. /\ files.end.mach \in MachState /\ files.end.mach.frame < HistFrame
        /\ EvTyped(r, files.start) /\ r.list # <<>>
    BY <1>4, EndTyped
  <2> HIDE DEF r
  <2>2. r.milestone \in HistClocks /\ r \in HistState
    BY <2>1 DEF EvTyped, HistState
  <2> DEFINE m == r.milestone
             a == [r EXCEPT !.alarm = m, !.next_timestamp_clk = m]
             b == [r EXCEPT !.next_timestamp_clk = m, !.alarm = m]
  <2>3. a = b
    BY <2>2 DEF HistState
  <2>4. m \in HistClocks
    BY <2>2
  <2>5. ev' = r \/ ev' = a
    BY <1>4
  <2> HIDE DEF m, a
  <2>6. EvTyped(a, files.start)
    BY <2>1, <2>3, <2>4, StampAlarmSet
  <2>7. EvTyped(ev', files.start)
    BY <2>1, <2>5, <2>6
  <2> QED
    BY <1>1, <1>2, <1>4, <2>1, <2>7, AfterTrap
<1> QED
  BY <1>3, <1>4 DEF TrapResetMilestone

(* The end file is read for a playback.                                    *)
LEMMA PlayedTyped ==
  ASSUME HistTyped, files.end # NoFile, ~ ev.record_active,
         NEW s, s = ReadModule(files.end.list)
  PROVE  LET e  == [ev EXCEPT !.list = s.list, !.next_timestamp_clk = s.ts, !.current = 1]
             e2 == [e EXCEPT !.current = 2, !.playback_active = TRUE]
         IN  /\ EvTyped(e, files.start) /\ e.list = s.list
             /\ s.list[1].type = "initial save" => files.start # NoFile
             /\ s.list[1].type # "end" =>
                  EvTyped(e2, files.start) /\ e2.list = s.list /\ e2.list # <<>>
<1> DEFINE E == Savable(files.start)
           one == 1
           two == 2
           e  == [ev EXCEPT !.list = s.list, !.next_timestamp_clk = s.ts, !.current = one]
           e2 == [e EXCEPT !.current = two, !.playback_active = TRUE]
<1>1. /\ files.end.list \in Seq(E) /\ Storable(E)
      /\ \E i \in 1 .. Len(files.end.list) : files.end.list[i].type = "end"
      /\ EvTyped(ev, files.start) /\ ev \in HistState
  BY SavableStorable DEF HistTyped, Readable, EvTyped
<1> HIDE DEF E
<1>2. s \in ReadState(E) /\ Ended(s.list) /\ s.ts \in HistClocks
  BY <1>1, ReadTyped
<1>3. s.list \in Seq(E) /\ Len(s.list) \in Nat /\ Len(s.list) > 0 /\ s.list # <<>>
  <2>1. s.list \in Seq(E) /\ s.list # <<>>
    BY <1>2 DEF ReadState, Ended
  <2> QED
    BY <2>1, EmptySeq
<1>4. s.list[1] \in E
  BY <1>3, ElementOfSeq
<1>5. s.list[1].type = "initial save" => files.start # NoFile
  BY <1>4 DEF E, Savable
<1>6. s.list \in Seq(Event)
  BY <1>3, SavableStorable DEF E
<1>7. one \in Nat /\ two \in Nat /\ one \in 1 .. Len(s.list)
  BY <1>3
<1>8. s.list[1].type # "end" => two \in 1 .. Len(s.list)
  BY <1>2, <1>3 DEF Ended
<1> HIDE DEF one, two
<1>9. /\ e \in HistState /\ e.list = s.list /\ e.current = one /\ ~ e.record_active
  BY <1>1, <1>2, <1>6, <1>7 DEF HistState
<1> HIDE DEF e
<1>10. EvTyped(e, files.start)
  BY <1>2, <1>3, <1>7, <1>9 DEF EvTyped, Listed, E
<1>11. /\ e2 \in HistState /\ e2.list = s.list /\ e2.current = two /\ ~ e2.record_active
  BY <1>7, <1>9 DEF HistState
<1> HIDE DEF e2
<1>12. s.list[1].type # "end" => EvTyped(e2, files.start)
  BY <1>2, <1>3, <1>8, <1>11 DEF EvTyped, Listed, E
<1> QED
  BY <1>3, <1>5, <1>9, <1>10, <1>11, <1>12 DEF e, e2, one, two

LEMMA PlaybackTyped ==
  ASSUME HistTyped, TrapPlayback PROVE HistTyped'
<1> DEFINE s  == ReadModule(IF files.end = NoFile THEN <<>> ELSE files.end.list)
           e  == [ev EXCEPT !.list = s.list, !.next_timestamp_clk = s.ts, !.current = 1]
           e2 == [e EXCEPT !.current = 2, !.playback_active = TRUE]
<1>1. AlarmsDone /\ pend.trap = "playback" /\ files' = files
  BY DEF TrapPlayback
<1>2. /\ EvTyped(ev, files.start) /\ mach \in MachState /\ Readable(files)
      /\ mach.frame < HistFrame /\ ~ ev.record_active
  BY <1>1, ServedTyped DEF HistTyped
<1>3. \/ UNCHANGED <<ev, mach>> /\ pend' = Served
      \/ /\ files.end # NoFile
         /\ e.list[1].type = "initial save"
         /\ pend' = Served
         /\ \/ mach' = mach /\ ev' = e
            \/ mach' = files.start /\ ev' = NextAlarm(e2, files.start.clk)
      \/ /\ files.end # NoFile
         /\ e.list[1].type = "initial reset"
         /\ mach' = mach
         /\ ev' = [e2 EXCEPT !.reset_ack = TRUE]
         /\ pend' = PowerCycled
  BY DEF TrapPlayback
<1>4. CASE UNCHANGED <<ev, mach>> /\ pend' = Served
  BY <1>1, <1>2, <1>4, AfterTrap
<1>5. ASSUME files.end # NoFile
      PROVE  /\ EvTyped(e, files.start) /\ e.list = s.list
             /\ s.list[1].type = "initial save" => files.start # NoFile
             /\ s.list[1].type # "end" =>
                  EvTyped(e2, files.start) /\ e2.list = s.list /\ e2.list # <<>>
  <2>1. s = ReadModule(files.end.list)
    BY <1>5
  <2> HIDE DEF s
  <2> QED
    BY <1>2, <1>5, <2>1, PlayedTyped
<1> HIDE DEF s, e, e2
<1>6. CASE /\ files.end # NoFile
           /\ e.list[1].type = "initial save"
           /\ pend' = Served
           /\ mach' = mach /\ ev' = e
  BY <1>1, <1>2, <1>5, <1>6, AfterTrap
<1>7. CASE /\ files.end # NoFile
           /\ e.list[1].type = "initial save"
           /\ pend' = Served
           /\ mach' = files.start /\ ev' = NextAlarm(e2, files.start.clk)
  <2>1. files.start # NoFile /\ EvTyped(e2, files.start) /\ e2.list # <<>>
    BY <1>5, <1>7
  <2>2. files.start \in MachState /\ files.start.frame < HistFrame
    BY <1>2, <2>1 DEF Readable
  <2>3. files.start.clk \in HistClocks
    BY <2>2, MachNumbers
  <2>4. EvTyped(ev', files.start)
    BY <1>7, <2>1, <2>3, NextAlarmTyped
  <2> QED
    BY <1>1, <1>2, <1>7, <2>2, <2>4, AfterTrap
<1>8. CASE /\ files.end # NoFile
           /\ e.list[1].type = "initial reset"
           /\ mach' = mach
           /\ ev' = [e2 EXCEPT !.reset_ack = TRUE]
           /\ pend' = PowerCycled
  <2>1. EvTyped(e2, files.start) /\ e2.list # <<>>
    BY <1>5, <1>8
  <2>2. EvTyped(ev', files.start)
    BY <1>8, <2>1 DEF EvTyped, HistState, Listed
  <2> QED
    BY <1>1, <1>2, <1>8, <2>2, AfterTrap
<1> QED
  BY <1>3, <1>4, <1>6, <1>7, <1>8

(* Every step keeps the type. *)
LEMMA HistTypedNext ==
  ASSUME HistTyped, [HistNext]_histVars PROVE HistTyped'
<1>1. CASE UNCHANGED histVars
  BY <1>1 DEF histVars, HistTyped, EvTyped, Readable, Listed, Ended, Savable
<1>2. CASE \/ \E mode \in {"save", "load", "reset", "overwrite"} : RecordStart(mode)
           \/ RecordStop \/ SetMilestone \/ ResetMilestone \/ PlaybackStart \/ PlaybackStop
  BY <1>2, RequestsTyped
<1>3. CASE EventAlarm
  BY <1>3, EventAlarmTyped
<1>4. CASE UserReset
  BY <1>4, UserResetTyped
<1>5. CASE EndFrame
  BY <1>5, EndFrameTyped
<1>6. CASE \E key \in Keys : Input(key)
  BY <1>6, InputTyped
<1>7. CASE TrapSave
  BY <1>7, SaveTyped
<1>8. CASE TrapLoad
  BY <1>8, LoadTyped
<1>9. CASE TrapReset
  BY <1>9, RecordResetTyped
<1>10. CASE TrapOverwrite
  BY <1>10, OverwriteTyped
<1>11. CASE TrapStop
  BY <1>11, StopTyped
<1>12. CASE TrapSetMilestone
  BY <1>12, MilestoneTyped
<1>13. CASE TrapResetMilestone
  BY <1>13, ReturnTyped
<1>14. CASE TrapPlayback
  BY <1>14, PlaybackTyped
<1>15. CASE DoReset
  BY <1>15, ResetTyped
<1>16. CASE Opcode
  BY <1>16, OpcodeTyped
<1> QED
  BY <1>1, <1>2, <1>3, <1>4, <1>5, <1>6, <1>7, <1>8, <1>9, <1>10, <1>11, <1>12, <1>13, <1>14,
     <1>15, <1>16 DEF HistNext

LEMMA HistTypeFollows ==
  ASSUME HistTyped PROVE HistTypeOK
<1>1. EvTyped(ev, files.start) /\ mach \in MachState /\ ev \in HistState
  BY DEF HistTyped, EvTyped
<1>2. mach.clk \in 0 .. HistClockMax
  BY <1>1, MachNumbers DEF HistClocks
<1>3. ev.alarm # None => ev.alarm \in 0 .. HistClockMax
  BY <1>1 DEF HistState, HistClocks
<1>4. ev.current \in 1 .. Len(ev.list) + 1
  <2>1. Len(ev.list) \in Nat /\ (ev.list = <<>> => ev.current = 1)
        /\ (ev.list # <<>> => ev.current \in 1 .. Len(ev.list))
    BY <1>1 DEF EvTyped, Listed
  <2> QED
    BY <2>1
<1>5. ev.record_active => ev.current = Len(ev.list) /\ ev.list[ev.current].type = "end"
  BY <1>1 DEF EvTyped, Listed, Ended
<1> QED
  BY <1>2, <1>3, <1>4, <1>5 DEF HistTypeOK

(***************************************************************************)
(* While events are recorded current is the sentinel at the end of the     *)
(* list, and the clocks of the machine and of the event alarm stay below   *)
(* CLOCK_MAX (event.c:304, event.c:420).                                   *)
(***************************************************************************)
THEOREM HistoryTyped == HistSpec => []HistTypeOK
<1>1. HistInit => HistTyped
  BY HistTypedInit
<1>2. HistTyped /\ [HistNext]_histVars => HistTyped'
  BY HistTypedNext
<1>3. HistTyped => HistTypeOK
  BY HistTypeFollows
<1> QED
  BY <1>1, <1>2, <1>3, PTL DEF HistSpec

(***************************************************************************)
(* The tale of a machine.                                                  *)
(*                                                                         *)
(* A list of events tells what became of a machine since it was as base:   *)
(* with each event goes a moment, at which it took effect.  From there on, *)
(* until the next event, the clock is ahead of the time by off, the frames *)
(* are counted from from, and the inputs so far are hist; no event can     *)
(* follow before next.                                                     *)
(***************************************************************************)
Shows(q, t) == t + q.off
FrameAt(q, t) == (t - q.from) % HistFrame

(* The clock at the end of the last frame, which the guard has looked at.  *)
Turned(q, t) == Shows(q, t) - FrameAt(q, t)

MomentState == [at : Nat, next : Nat, off : Int, from : Nat, hist : Seq(Nat \X Types)]

Moment ==
  {q \in MomentState :
     /\ q.from <= q.at /\ q.next \in {q.at, q.at + 1}
     /\ q.next = q.at + 1 => q.from = q.at
     /\ Shows(q, q.at) \in Nat /\ Turned(q, q.at) < HistGuardMax
     /\ \A i \in 1 .. Len(q.hist) : q.hist[i][1] <= q.at}

(* The clock at which an event is to be played. *)
DueAt(e) == e.clk + (IF e.type = "overflow" THEN HistSub ELSE 0)

Reported(e) == e.type \in Keys \cup {"reset"}
Starts == {"initial save", "initial reset"}

(* The moment r of the event e comes after the moment q. *)
Follows(e, q, r) ==
  /\ e.type \notin Starts
  /\ r.at >= q.next
  /\ Shows(q, r.at) >= DueAt(e)
  /\ Shows(q, r.at) > DueAt(e) => e.type = "timestamp" /\ r.at = q.next
  /\ r.next = IF e.type = "reset" THEN r.at + 1 ELSE r.at
  /\ r.off = IF e.type = "overflow" THEN q.off - HistSub
             ELSE IF e.type = "reset" THEN ResetClk - r.at ELSE q.off
  /\ r.from = IF e.type = "reset" THEN r.at ELSE q.from
  /\ r.hist = IF Reported(e) THEN Append(q.hist, <<r.at, e.type>>) ELSE q.hist
  /\ e.type = "overflow" =>
       FrameAt(q, r.at) = 0 /\ Shows(q, r.at) >= HistGuardMax
       /\ Shows(q, r.at) < HistGuardMax + HistFrame
  /\ e.type # "overflow" => Turned(q, r.at) < HistGuardMax

Beginning(base) ==
  [at |-> base.time, next |-> base.time + 1, off |-> base.clk - base.time,
   from |-> base.time, hist |-> base.hist]

(* A machine at which a recording can begin, and its first event.          *)
Remembers(m) == \A i \in 1 .. Len(m.hist) : m.hist[i][1] <= m.time

Base == {m \in MachState : m.frame = 0 /\ Remembers(m)}

Begins(e, base) ==
  /\ base \in Base
  /\ \/ e.type = "initial save" /\ e.clk = base.clk
     \/ e.type = "initial reset" /\ base = PowerUp

Tale(base, list, G) ==
  /\ list \in Seq(Event) /\ G \in Seq(Moment) /\ Len(G) = Len(list) /\ Len(list) >= 1
  /\ Begins(list[1], base) /\ G[1] = Beginning(base)
  /\ \A i \in 1 .. Len(list) - 1 : list[i].type # "end" /\ Follows(list[i + 1], G[i], G[i + 1])

-----------------------------------------------------------------------------
(* Frames. *)

LEMMA MoreNumbers ==
  /\ HistFrame \in Nat \ {0, 1} /\ ResetClk \in 1 .. HistSubMin - 1
  /\ HistSub > Second + HistSubMin + HistFrame - 1 /\ HistSub \in Nat /\ HistSub < HistGuardMax
  /\ HistSub <= HistGuardMax - HistSubMin /\ HistSub > HistGuardMax - HistSubMin - HistFrame
<1>1. HistFrame \in Nat \ {0, 1} /\ ResetClk \in 1 .. HistSubMin - 1
  BY HistAssumption
<1> QED
  BY <1>1, HistNumbers, HistSubBounds

LEMMA ModStep ==
  ASSUME NEW a \in Nat, NEW h \in Nat \ {0, 1}
  PROVE  /\ (a + 1) % h = IF (a % h) + 1 = h THEN 0 ELSE (a % h) + 1
         /\ a % h \in 0 .. h - 1 /\ 0 % h = 0 /\ 1 % h = 1
<1> DEFINE x == a \div h
           y == (a + 1) \div h
           m == x * h
           n == y * h
<1>1. /\ x \in Nat /\ a % h \in 0 .. h - 1 /\ a % h = a - m
      /\ y \in Nat /\ (a + 1) % h \in 0 .. h - 1 /\ (a + 1) % h = (a + 1) - n
  <2>1. x \in Nat /\ a % h \in 0 .. h - 1 /\ a % h = a - m
    BY Quotient
  <2>2. a + 1 \in Nat
    OBVIOUS
  <2>3. y \in Nat /\ (a + 1) % h \in 0 .. h - 1 /\ (a + 1) % h = (a + 1) - n
    BY <2>2, Quotient
  <2> QED
    BY <2>1, <2>3
<1>2. m \in Nat /\ n \in Nat
  BY <1>1
<1>3. y = x \/ y = x + 1
  <2>1. ASSUME y < x PROVE FALSE
    <3>1. n + h <= m
      BY <1>1, <2>1
    <3> QED
      BY <1>1, <1>2, <3>1
  <2>2. ASSUME y > x + 1 PROVE FALSE
    <3>1. m + h + h <= n
      BY <1>1, <2>2
    <3> QED
      BY <1>1, <1>2, <3>1
  <2> QED
    BY <1>1, <2>1, <2>2
<1>4. n = m \/ n = m + h
  BY <1>1, <1>3
<1>5. (a + 1) % h = IF (a % h) + 1 = h THEN 0 ELSE (a % h) + 1
  BY <1>1, <1>2, <1>4
<1>6. 0 % h = 0 /\ 1 % h = 1
  OBVIOUS
<1> QED
  BY <1>1, <1>5, <1>6

LEMMA ModGrows ==
  ASSUME NEW a \in Nat, NEW b \in Nat, a <= b, NEW h \in Nat \ {0, 1}
  PROVE  a - (a % h) <= b - (b % h)
<1> DEFINE x == a \div h
           y == b \div h
           m == x * h
           n == y * h
<1>1. /\ x \in Nat /\ a % h \in 0 .. h - 1 /\ a % h = a - m
      /\ y \in Nat /\ b % h \in 0 .. h - 1 /\ b % h = b - n
  BY Quotient
<1>2. m \in Nat /\ n \in Nat
  BY <1>1
<1>3. ASSUME y < x PROVE FALSE
  <2>1. n + h <= m
    BY <1>1, <1>3
  <2> QED
    BY <1>1, <1>2, <2>1
<1>4. m <= n
  BY <1>1, <1>3
<1> QED
  BY <1>1, <1>2, <1>4

LEMMA FrameGoesOn ==
  ASSUME NEW q \in Moment, NEW t \in Nat, t >= q.from
  PROVE  /\ FrameAt(q, t) \in 0 .. HistFrame - 1
         /\ FrameAt(q, t + 1) = IF FrameAt(q, t) + 1 = HistFrame THEN 0 ELSE FrameAt(q, t) + 1
         /\ FrameAt(q, q.from) = 0 /\ FrameAt(q, q.from + 1) = 1
<1> DEFINE a == t - q.from
<1>1. q.from \in Nat /\ a \in Nat /\ (t + 1) - q.from = a + 1 /\ q.from - q.from = 0
      /\ (q.from + 1) - q.from = 1
  BY DEF Moment, MomentState
<1> HIDE DEF a
<1>2. /\ (a + 1) % HistFrame = IF (a % HistFrame) + 1 = HistFrame THEN 0 ELSE (a % HistFrame) + 1
      /\ a % HistFrame \in 0 .. HistFrame - 1 /\ 0 % HistFrame = 0 /\ 1 % HistFrame = 1
  BY <1>1, ModStep, MoreNumbers
<1>3. /\ FrameAt(q, t) = a % HistFrame /\ FrameAt(q, t + 1) = (a + 1) % HistFrame
      /\ FrameAt(q, q.from) = 0 % HistFrame /\ FrameAt(q, q.from + 1) = 1 % HistFrame
  BY <1>1 DEF FrameAt, a
<1> QED
  BY <1>2, <1>3

LEMMA TurnsGrow ==
  ASSUME NEW q \in Moment, NEW t \in Nat, NEW u \in Nat, q.from <= t, t <= u
  PROVE  /\ Turned(q, t) \in Int /\ Turned(q, u) \in Int
         /\ Turned(q, t) <= Turned(q, u)
         /\ t < u /\ FrameAt(q, u) = 0 => Turned(q, t) <= Shows(q, u) - HistFrame
<1>1. q.from \in Nat /\ q.off \in Int /\ t - q.from \in Nat /\ u - q.from \in Nat
  BY DEF Moment, MomentState
<1>2. FrameAt(q, t) \in 0 .. HistFrame - 1 /\ FrameAt(q, u) \in 0 .. HistFrame - 1
  <2>1. u >= q.from
    BY <1>1
  <2> QED
    BY <2>1, FrameGoesOn
<1>3. (t - q.from) - FrameAt(q, t) <= (u - q.from) - FrameAt(q, u)
  BY <1>1, ModGrows, MoreNumbers DEF FrameAt
<1>4. ASSUME t < u, FrameAt(q, u) = 0 PROVE Turned(q, t) <= Shows(q, u) - HistFrame
  <2>1. u - 1 \in Nat /\ u - 1 >= q.from /\ (u - 1) + 1 = u /\ (u - 1) - q.from \in Nat
        /\ t - q.from <= (u - 1) - q.from
    BY <1>1, <1>4
  <2> DEFINE v == u - 1
  <2> HIDE DEF v
  <2>2. FrameAt(q, v) \in 0 .. HistFrame - 1 /\ FrameAt(q, v + 1) = IF FrameAt(q, v) + 1 = HistFrame THEN 0 ELSE FrameAt(q, v) + 1
    BY <2>1, FrameGoesOn DEF v
  <2>3. FrameAt(q, v) = HistFrame - 1
    BY <1>4, <2>1, <2>2, MoreNumbers DEF v
  <2>4. (t - q.from) - FrameAt(q, t) <= (v - q.from) - FrameAt(q, v)
    BY <1>1, <2>1, ModGrows, MoreNumbers DEF FrameAt, v
  <2> QED
    BY <1>1, <1>2, <2>1, <2>3, <2>4, MoreNumbers DEF Turned, Shows, v
<1> QED
  BY <1>1, <1>2, <1>3, <1>4 DEF Turned, Shows

LEMMA EventParts ==
  ASSUME NEW e \in Event
  PROVE  e.type \in Types /\ e.clk \in Nat /\ e.clk <= Latest /\ DueAt(e) \in Nat
<1>1. e.type \in Types /\ e.clk \in 0 .. Latest
  BY DEF Event
<1> QED
  BY <1>1, HistNumbers, MoreNumbers DEF DueAt

LEMMA MomentParts ==
  ASSUME NEW q \in Moment
  PROVE  /\ q.at \in Nat /\ q.next \in Nat /\ q.off \in Int /\ q.from \in Nat
         /\ q.hist \in Seq(Nat \X Types) /\ q.from <= q.at
         /\ q.next \in {q.at, q.at + 1} /\ q.next >= q.at
BY DEF Moment, MomentState

(* Keys are not one of the other types. *)
LEMMA KeyTypes ==
  ASSUME NEW key \in Keys
  PROVE  key \notin {"end", "reset", "overflow", "timestamp", "initial save", "initial reset"}
BY HistAssumption

LEMMA FollowsTyped ==
  ASSUME NEW q \in Moment, NEW e \in Event, NEW r \in MomentState, Follows(e, q, r)
  PROVE  r \in Moment /\ r.at >= q.at /\ r.next >= q.next
<1>1. /\ q.at \in Nat /\ q.next \in Nat /\ q.off \in Int /\ q.from \in Nat
      /\ q.hist \in Seq(Nat \X Types) /\ q.from <= q.at /\ q.next >= q.at
  BY MomentParts
<1>2. r.at \in Nat /\ r.next \in Nat /\ r.off \in Int /\ r.from \in Nat /\ r.hist \in Seq(Nat \X Types)
  BY DEF MomentState
<1>3. DueAt(e) \in Nat
  BY EventParts
<1>4. r.at >= q.next /\ r.at >= q.at /\ r.at >= q.from /\ Shows(q, r.at) \in Nat
      /\ r.next = IF e.type = "reset" THEN r.at + 1 ELSE r.at
  <2>1. /\ r.at >= q.next /\ Shows(q, r.at) >= DueAt(e)
        /\ r.next = IF e.type = "reset" THEN r.at + 1 ELSE r.at
    BY DEF Follows
  <2>2. Shows(q, r.at) \in Int
    BY <1>1, <1>2 DEF Shows
  <2>3. Shows(q, r.at) \in Nat
    BY <1>3, <2>1, <2>2
  <2>4. q.at \in Nat /\ q.next \in Nat /\ q.from \in Nat /\ q.from <= q.at /\ q.next >= q.at
    BY <1>1
  <2>5. r.at >= q.at /\ r.at >= q.from
    BY <1>2, <2>1, <2>4
  <2> QED
    BY <2>1, <2>3, <2>5
<1>5. r.from <= r.at /\ r.next \in {r.at, r.at + 1} /\ (r.next = r.at + 1 => r.from = r.at)
      /\ r.next >= q.next
  <2>1. r.from = IF e.type = "reset" THEN r.at ELSE q.from
    BY DEF Follows
  <2> QED
    BY <1>1, <1>2, <1>4, <2>1
<1>6. Shows(r, r.at) \in Nat /\ Turned(r, r.at) < HistGuardMax
  <2>1. CASE e.type = "overflow"
    <3>1. r.off = q.off - HistSub /\ r.from = q.from /\ FrameAt(q, r.at) = 0
          /\ Shows(q, r.at) >= HistGuardMax /\ Shows(q, r.at) < HistGuardMax + HistFrame
      BY <2>1 DEF Follows
    <3>2. FrameAt(r, r.at) = 0 /\ Shows(r, r.at) = Shows(q, r.at) - HistSub
      BY <1>1, <1>2, <3>1, MoreNumbers DEF FrameAt, Shows
    <3> QED
      BY <1>4, <3>1, <3>2, MoreNumbers, HistNumbers DEF Turned
  <2>2. CASE e.type = "reset"
    <3>1. r.off = ResetClk - r.at /\ r.from = r.at
      BY <2>2 DEF Follows
    <3>2. Shows(r, r.at) = ResetClk /\ (r.at - r.from) = 0
      BY <1>2, <3>1, MoreNumbers DEF Shows
    <3>3. FrameAt(r, r.at) = 0
      BY <3>2, ModStep, MoreNumbers DEF FrameAt
    <3> QED
      BY <3>2, <3>3, MoreNumbers, HistNumbers DEF Turned
  <2>3. CASE e.type # "overflow" /\ e.type # "reset"
    <3>1. r.off = q.off /\ r.from = q.from /\ Turned(q, r.at) < HistGuardMax
      BY <2>3 DEF Follows
    <3> QED
      BY <1>4, <3>1 DEF Turned, Shows, FrameAt
  <2> QED
    BY <2>1, <2>2, <2>3
<1>7. \A i \in 1 .. Len(r.hist) : r.hist[i][1] <= r.at
  <2>1. \A i \in 1 .. Len(q.hist) : q.hist[i][1] \in Nat /\ q.hist[i][1] <= r.at
    <3> TAKE i \in 1 .. Len(q.hist)
    <3>1. q.hist[i] \in Nat \X Types
      BY <1>1
    <3> DEFINE b == q.hist[i][1]
    <3>2. b \in Nat
      BY <3>1
    <3>3. b <= q.at
      BY DEF Moment
    <3> HIDE DEF b
    <3>4. b \in Nat /\ b <= r.at
      BY <1>1, <1>2, <1>4, <3>2, <3>3
    <3> QED
      BY <3>4 DEF b
  <2>2. CASE Reported(e)
    <3>1. r.hist = Append(q.hist, <<r.at, e.type>>)
      BY <2>2 DEF Follows
    <3> DEFINE x == <<r.at, e.type>>
    <3>2. x[1] = r.at
      OBVIOUS
    <3> HIDE DEF x
    <3>3. \A i \in 1 .. Len(q.hist) + 1 :
             r.hist[i] = IF i = Len(q.hist) + 1 THEN x ELSE q.hist[i]
      <4>1. r.hist = Append(q.hist, x)
        BY <3>1 DEF x
      <4> QED
        BY <1>1, <4>1
    <3>4. Len(r.hist) = Len(q.hist) + 1 /\ Len(q.hist) \in Nat
      BY <1>1, <3>1
    <3> TAKE i \in 1 .. Len(r.hist)
    <3>5. CASE i = Len(q.hist) + 1
      <4>1. r.hist[i] = x
        BY <3>3, <3>4, <3>5
      <4>2. r.at <= r.at
        BY <1>2
      <4> QED
        BY <3>2, <4>1, <4>2
    <3>6. CASE i \in 1 .. Len(q.hist)
      BY <2>1, <3>3, <3>4, <3>6
    <3> QED
      BY <3>4, <3>5, <3>6
  <2>3. CASE ~ Reported(e)
    <3>1. r.hist = q.hist
      BY <2>3 DEF Follows
    <3> QED
      BY <2>1, <3>1
  <2> QED
    BY <2>2, <2>3
<1> QED
  BY <1>4, <1>5, <1>6, <1>7 DEF Moment

(* The parts of a tale. *)
LEMMA TaleParts ==
  ASSUME NEW base, NEW list, NEW G, Tale(base, list, G)
  PROVE  /\ list \in Seq(Event) /\ G \in Seq(Moment) /\ Len(G) = Len(list)
         /\ Len(list) \in Nat /\ Len(list) >= 1
         /\ \A i \in 1 .. Len(list) : list[i] \in Event /\ G[i] \in Moment
         /\ list[1].type \in Starts
<1>1. /\ list \in Seq(Event) /\ G \in Seq(Moment) /\ Len(G) = Len(list) /\ Len(list) >= 1
  BY DEF Tale
<1>2. \A i \in 1 .. Len(list) : list[i] \in Event /\ G[i] \in Moment
  BY <1>1
<1>3. list[1].type \in Starts
  BY DEF Tale, Begins, Starts
<1> QED
  BY <1>1, <1>2, <1>3

LEMMA TaleGrows ==
  ASSUME NEW base, NEW list, NEW G, Tale(base, list, G), list[Len(list)].type # "end",
         NEW e \in Event, NEW r \in MomentState, Follows(e, G[Len(list)], r)
  PROVE  /\ Tale(base, Append(list, e), Append(G, r)) /\ r \in Moment
         /\ Append(list, e)[Len(list) + 1] = e /\ Append(G, r)[Len(list) + 1] = r
         /\ Len(Append(list, e)) = Len(list) + 1
         /\ r.at >= G[Len(list)].at
<1> DEFINE n == Len(list)
           P == Append(list, e)
           H == Append(G, r)
<1>1. /\ list \in Seq(Event) /\ G \in Seq(Moment) /\ Len(G) = n /\ n \in Nat /\ n >= 1
      /\ G[n] \in Moment
  BY TaleParts
<1>2. r \in Moment /\ r.at >= G[n].at
  BY <1>1, FollowsTyped
<1>3. /\ P \in Seq(Event) /\ Len(P) = n + 1 /\ P[n + 1] = e /\ \A i \in 1 .. n : P[i] = list[i]
      /\ H \in Seq(Moment) /\ Len(H) = n + 1 /\ H[n + 1] = r /\ \A i \in 1 .. n : H[i] = G[i]
  BY <1>1, <1>2
<1> HIDE DEF P, H
<1>4. Begins(P[1], base) /\ H[1] = Beginning(base)
  <2>1. P[1] = list[1] /\ H[1] = G[1]
    BY <1>1, <1>3
  <2> QED
    BY <2>1 DEF Tale
<1>5. \A i \in 1 .. Len(P) - 1 : P[i].type # "end" /\ Follows(P[i + 1], H[i], H[i + 1])
  <2> TAKE i \in 1 .. Len(P) - 1
  <2>1. CASE i = n
    <3>1. P[i] = list[n] /\ P[i + 1] = e /\ H[i] = G[n] /\ H[i + 1] = r
      BY <1>1, <1>3, <2>1
    <3> QED
      BY <3>1
  <2>2. CASE i \in 1 .. n - 1
    <3>1. i \in 1 .. n /\ i + 1 \in 1 .. n
      BY <1>1, <2>2
    <3>2. P[i] = list[i] /\ P[i + 1] = list[i + 1] /\ H[i] = G[i] /\ H[i + 1] = G[i + 1]
      BY <1>3, <3>1
    <3>3. list[i].type # "end" /\ Follows(list[i + 1], G[i], G[i + 1])
      BY <2>2 DEF Tale
    <3> QED
      BY <3>2, <3>3
  <2> QED
    BY <1>1, <1>3, <2>1, <2>2
<1>6. Tale(base, P, H)
  BY <1>1, <1>3, <1>4, <1>5 DEF Tale
<1> QED
  BY <1>2, <1>3, <1>6 DEF P, H

LEMMA TalePrefix ==
  ASSUME NEW base, NEW list, NEW G, Tale(base, list, G), NEW m \in 1 .. Len(list)
  PROVE  /\ Tale(base, SubSeq(list, 1, m), SubSeq(G, 1, m))
         /\ Len(SubSeq(list, 1, m)) = m
         /\ \A i \in 1 .. m : SubSeq(list, 1, m)[i] = list[i] /\ SubSeq(G, 1, m)[i] = G[i]
<1> DEFINE n == Len(list)
           P == SubSeq(list, 1, m)
           H == SubSeq(G, 1, m)
<1>1. /\ list \in Seq(Event) /\ G \in Seq(Moment) /\ Len(G) = n /\ n \in Nat /\ m \in 1 .. n
  BY TaleParts
<1>2. /\ P \in Seq(Event) /\ Len(P) = m /\ \A i \in 1 .. m : P[i] = list[i]
      /\ H \in Seq(Moment) /\ Len(H) = m /\ \A i \in 1 .. m : H[i] = G[i]
  <2> HIDE DEF n
  <2>1. m \in Nat /\ m >= 1 /\ m <= n
    BY <1>1
  <2>2. \A i \in 1 .. m : i \in 1 .. n
    BY <1>1
  <2>3. \A i \in 1 .. m : list[i] \in Event /\ G[i] \in Moment
    BY <1>1, <2>2
  <2>4. P \in Seq(Event) /\ Len(P) = m /\ \A i \in 1 .. m : P[i] = list[i]
    BY <1>1, <2>1, <2>3 DEF n
  <2>5. H \in Seq(Moment) /\ Len(H) = m /\ \A i \in 1 .. m : H[i] = G[i]
    BY <1>1, <2>1, <2>3 DEF n
  <2> QED
    BY <2>4, <2>5
<1> HIDE DEF P, H
<1>3. Begins(P[1], base) /\ H[1] = Beginning(base)
  <2>1. P[1] = list[1] /\ H[1] = G[1]
    BY <1>1, <1>2
  <2> QED
    BY <2>1 DEF Tale
<1>4. \A i \in 1 .. Len(P) - 1 : P[i].type # "end" /\ Follows(P[i + 1], H[i], H[i + 1])
  <2> TAKE i \in 1 .. Len(P) - 1
  <2>1. i \in 1 .. m /\ i + 1 \in 1 .. m /\ i \in 1 .. n - 1
    BY <1>1, <1>2
  <2>2. P[i] = list[i] /\ P[i + 1] = list[i + 1] /\ H[i] = G[i] /\ H[i + 1] = G[i + 1]
    BY <1>2, <2>1
  <2>3. list[i].type # "end" /\ Follows(list[i + 1], G[i], G[i + 1])
    BY <2>1 DEF Tale
  <2> QED
    BY <2>2, <2>3
<1>5. Tale(base, P, H)
  BY <1>1, <1>2, <1>3, <1>4 DEF Tale
<1> QED
  BY <1>2, <1>5 DEF P, H

(* What follows a moment comes later, and tells what it tells, and more.   *)
Later(q, s, r) ==
  /\ r.at >= q.at
  /\ Len(q.hist) <= Len(r.hist)
  /\ \A i \in 1 .. Len(q.hist) : r.hist[i] = q.hist[i]
  /\ \A i \in 1 .. Len(r.hist) : i > Len(q.hist) => r.hist[i][1] >= s.at

LEMMA LaterGoesOn ==
  ASSUME NEW q \in Moment, NEW s \in Moment, NEW r \in Moment, NEW u \in Moment, NEW e \in Event,
         Later(q, s, r), r.at >= s.at \/ (r = q /\ u = s), Follows(e, r, u)
  PROVE  Later(q, s, u) /\ u.at >= s.at
<1>1. /\ q.at \in Nat /\ r.at \in Nat /\ u.at \in Nat /\ s.at \in Nat
      /\ q.hist \in Seq(Nat \X Types) /\ r.hist \in Seq(Nat \X Types)
  BY MomentParts
<1>2. u.at >= r.at /\ u.at >= s.at
  <2>1. u \in MomentState
    BY DEF Moment
  <2>2. u.at >= r.at
    BY <2>1, FollowsTyped
  <2> QED
    BY <1>1, <2>2
<1>3. CASE Reported(e)
  <2> DEFINE x == <<u.at, e.type>>
  <2>1. u.hist = Append(r.hist, x) /\ x[1] = u.at
    BY <1>3 DEF Follows
  <2> HIDE DEF x
  <2>2. Len(u.hist) = Len(r.hist) + 1 /\ Len(r.hist) \in Nat /\ Len(q.hist) \in Nat
        /\ \A i \in 1 .. Len(r.hist) + 1 : u.hist[i] = IF i = Len(r.hist) + 1 THEN x ELSE r.hist[i]
    BY <1>1, <2>1
  <2>3. \A i \in 1 .. Len(q.hist) : u.hist[i] = q.hist[i]
    <3> TAKE i \in 1 .. Len(q.hist)
    <3>1. i \in 1 .. Len(r.hist)
      BY <2>2 DEF Later
    <3>2. u.hist[i] = r.hist[i]
      BY <2>2, <3>1
    <3> QED
      BY <3>2 DEF Later
  <2>4. \A i \in 1 .. Len(u.hist) : i > Len(q.hist) => u.hist[i][1] >= s.at
    <3> TAKE i \in 1 .. Len(u.hist)
    <3>1. CASE i = Len(r.hist) + 1
      <4>1. u.hist[i] = x
        BY <2>2, <3>1
      <4> QED
        BY <1>2, <2>1, <4>1
    <3>2. CASE i \in 1 .. Len(r.hist)
      <4>1. u.hist[i] = r.hist[i]
        BY <2>2, <3>2
      <4> QED
        BY <3>2, <4>1 DEF Later
    <3> QED
      BY <2>2, <3>1, <3>2
  <2> QED
    BY <1>1, <1>2, <2>2, <2>3, <2>4 DEF Later
<1>4. CASE ~ Reported(e)
  <2>1. u.hist = r.hist
    BY <1>4 DEF Follows
  <2> QED
    BY <1>1, <1>2, <2>1 DEF Later
<1> QED
  BY <1>3, <1>4

LEMMA TaleTells ==
  ASSUME NEW base, NEW list, NEW G, Tale(base, list, G), NEW k \in 1 .. Len(list) - 1
  PROVE  \A j \in k + 1 .. Len(list) : Later(G[k], G[k + 1], G[j]) /\ G[j].at >= G[k + 1].at
<1> DEFINE n == Len(list)
           M == n - (k + 1)
           S == {m \in 0 .. M : Later(G[k], G[k + 1], G[k + 1 + m]) /\ G[k + 1 + m].at >= G[k + 1].at}
<1>1. /\ n \in Nat /\ n >= 1 /\ k \in 1 .. n - 1
      /\ \A i \in 1 .. n : list[i] \in Event /\ G[i] \in Moment
      /\ \A i \in 1 .. n - 1 : Follows(list[i + 1], G[i], G[i + 1])
  BY TaleParts DEF Tale
<1> HIDE DEF n
<1>2. M \in Nat
  BY <1>1
<1>3. G[k] \in Moment /\ G[k + 1] \in Moment /\ list[k + 1] \in Event
      /\ Follows(list[k + 1], G[k], G[k + 1])
  BY <1>1
<1>4. 0 \in S
  <2>1. Later(G[k], G[k + 1], G[k])
    <3> DEFINE q == G[k]
    <3>1. q.at \in Nat /\ Len(q.hist) \in Nat
      <4>1. q.hist \in Seq(Nat \X Types) /\ q.at \in Nat
        BY <1>3, MomentParts
      <4> QED
        BY <4>1
    <3> QED
      BY <3>1 DEF Later
  <2>2. Later(G[k], G[k + 1], G[k + 1]) /\ G[k + 1].at >= G[k + 1].at
    <3> DEFINE q == G[k]
               s == G[k + 1]
               e == list[k + 1]
    <3>1. q \in Moment /\ s \in Moment /\ e \in Event /\ Follows(e, q, s) /\ Later(q, s, q)
      BY <1>3, <2>1
    <3> HIDE DEF q, s, e
    <3>2. Later(q, s, s) /\ s.at >= s.at
      BY <3>1, LaterGoesOn
    <3> QED
      BY <3>2 DEF q, s
  <2>3. k + 1 + 0 = k + 1
    BY <1>1
  <2> QED
    BY <1>2, <2>2, <2>3
<1>5. ASSUME NEW m \in 0 .. M - 1, m \in S PROVE m + 1 \in S
  <2> DEFINE q == G[k]
             s == G[k + 1]
             r == G[k + 1 + m]
             u == G[k + 1 + (m + 1)]
             e == list[k + 1 + (m + 1)]
  <2>1. k + 1 + m \in 1 .. n - 1 /\ (k + 1 + m) + 1 = k + 1 + (m + 1) /\ k + 1 + m \in 1 .. n
        /\ k + 1 + (m + 1) \in 1 .. n /\ m + 1 \in 0 .. M
    BY <1>1, <1>2
  <2>2. q \in Moment /\ s \in Moment /\ r \in Moment /\ u \in Moment /\ e \in Event
    BY <1>1, <1>3, <2>1
  <2>3. Follows(e, r, u)
    BY <1>1, <2>1
  <2>4. Later(q, s, r) /\ r.at >= s.at
    BY <1>5
  <2> HIDE DEF q, s, r, u, e
  <2>5. Later(q, s, u) /\ u.at >= s.at
    BY <2>2, <2>3, <2>4, LaterGoesOn
  <2> QED
    BY <2>1, <2>5 DEF q, s, u
<1>6. \A m \in 0 .. M : m \in S
  <2> HIDE DEF S, M
  <2> QED
    BY <1>2, <1>4, <1>5, UpTo
<1> SUFFICES ASSUME NEW j \in k + 1 .. n PROVE Later(G[k], G[k + 1], G[j]) /\ G[j].at >= G[k + 1].at
  BY DEF n
<1>7. j - (k + 1) \in 0 .. M /\ k + 1 + (j - (k + 1)) = j
  BY <1>1
<1>8. j - (k + 1) \in S
  BY <1>6, <1>7
<1> QED
  BY <1>7, <1>8

(* A moment after which the same can follow, and what came since does not  *)
(* matter: the timestamps.                                                 *)
Before(q, p) ==
  q.off = p.off /\ q.from = p.from /\ q.hist = p.hist /\ q.at <= p.at /\ q.next <= p.next

LEMMA BeforeFollows ==
  ASSUME NEW q \in Moment, NEW p \in Moment, Before(q, p), NEW e \in Event,
         e.type # "timestamp", NEW r \in Moment, Follows(e, p, r)
  PROVE  Follows(e, q, r)
<1>1. /\ q.at \in Nat /\ q.next \in Nat /\ p.at \in Nat /\ p.next \in Nat /\ r.at \in Nat
  BY MomentParts
<1>2. /\ q.off = p.off /\ q.from = p.from /\ q.hist = p.hist /\ q.next <= p.next
  BY DEF Before
<1>3. r.at >= q.next
  BY <1>1, <1>2 DEF Follows
<1>4. Shows(q, r.at) = Shows(p, r.at) /\ FrameAt(q, r.at) = FrameAt(p, r.at)
      /\ Turned(q, r.at) = Turned(p, r.at)
  BY <1>2 DEF Shows, FrameAt, Turned
<1> QED
  BY <1>2, <1>3, <1>4 DEF Follows

LEMMA TimestampBefore ==
  ASSUME NEW q \in Moment, NEW p \in Moment, Before(q, p), NEW e \in Event,
         e.type = "timestamp", NEW r \in Moment, Follows(e, p, r)
  PROVE  Before(q, r)
<1>1. /\ q.at \in Nat /\ q.next \in Nat /\ p.at \in Nat /\ p.next \in Nat /\ p.at <= p.next
      /\ r.at \in Nat /\ r.next \in Nat
  BY MomentParts
<1>2. ~ Reported(e)
  BY KeyTypes DEF Reported
<1>3. r.off = p.off /\ r.from = p.from /\ r.hist = p.hist /\ r.at >= p.next /\ r.next = r.at
  BY <1>2 DEF Follows
<1> QED
  BY <1>1, <1>3 DEF Before

LEMMA SentinelTyped == Sentinel \in Event /\ Sentinel.type = "end" /\ Sentinel.clk = 0
BY HistNumbers DEF Sentinel, Event, Types

(* The list without the timestamps tells the same tale.                    *)
Wrote(base, P, G, W, Q) ==
  /\ WriteModule(Append(P, Sentinel)) = Append(W, Sentinel)
  /\ Tale(base, W, Q)
  /\ \A i \in 1 .. Len(W) : W[i].type # "timestamp"
  /\ Before(Q[Len(W)], G[Len(P)])
  /\ W[Len(W)].type = "end" <=> P[Len(P)].type = "end"
  /\ P[Len(P)].type # "timestamp" => Q[Len(W)].at = G[Len(P)].at

LEMMA WrittenTale ==
  ASSUME NEW base, NEW P, NEW G, Tale(base, P, G)
  PROVE  \E W \in Seq(Event), Q \in Seq(Moment) : Wrote(base, P, G, W, Q)
<1> DEFINE N == Len(P)
           list == Append(P, Sentinel)
           Good(w, n) ==
             \E Q \in Seq(Moment) :
               /\ Tale(base, w, Q)
               /\ \A i \in 1 .. Len(w) : w[i].type # "timestamp"
               /\ Before(Q[Len(w)], G[n])
               /\ w[Len(w)].type = "end" <=> P[n].type = "end"
               /\ P[n].type # "timestamp" => Q[Len(w)].at = G[n].at
<1>1. /\ P \in Seq(Event) /\ G \in Seq(Moment) /\ Len(G) = N /\ N \in Nat /\ N >= 1
      /\ \A i \in 1 .. N : P[i] \in Event /\ G[i] \in Moment
      /\ P[1].type \in Starts
  BY TaleParts
<1>2. /\ list \in Seq(Event) /\ Len(list) = N + 1 /\ list[N + 1] = Sentinel
      /\ \A i \in 1 .. N : list[i] = P[i]
  BY <1>1, SentinelTyped
<1> HIDE DEF list
<1>3. PICK f \in [0 .. Len(list) -> Seq(Event)] :
        /\ f[0] = <<>>
        /\ \A n \in 1 .. Len(list) :
             f[n] = IF list[n].type = "timestamp" THEN f[n - 1] ELSE Append(f[n - 1], list[n])
        /\ WriteModule(list) = f[Len(list)]
  BY <1>2, WriteGoesOn
<1> HIDE DEF N
<1> DEFINE T == {m \in 0 .. N - 1 : Good(f[m + 1], m + 1)}
<1>4. 0 \in T
  <2>1. f[1] = <<P[1]>>
    <3>1. 1 \in 1 .. Len(list) /\ 1 - 1 = 0 /\ 1 \in 1 .. N
      BY <1>1, <1>2
    <3>3. list[1] = P[1] /\ P[1].type # "timestamp"
      BY <1>1, <1>2, <3>1 DEF Starts
    <3>2. f[1] = Append(<<>>, P[1])
      BY <1>3, <3>1, <3>3
    <3> QED
      BY <3>2
  <2>2. P[1] \in Event /\ G[1] \in Moment /\ P[1].type # "timestamp" /\ P[1].type # "end"
    <3>1. 1 \in 1 .. N
      BY <1>1
    <3>2. P[1].type # "timestamp" /\ P[1].type # "end"
      BY <1>1 DEF Starts
    <3> QED
      BY <1>1, <3>1, <3>2
  <2>3. Before(G[1], G[1])
    BY <2>2, MomentParts DEF Before
  <2>4. Good(<<P[1]>>, 1)
    <3> DEFINE w == <<P[1]>>
               Q == <<G[1]>>
    <3>1. w \in Seq(Event) /\ Q \in Seq(Moment) /\ Len(w) = 1 /\ Len(Q) = 1 /\ w[1] = P[1] /\ Q[1] = G[1]
      BY <2>2
    <3> HIDE DEF w, Q
    <3>5. Tale(base, w, Q)
      BY <3>1 DEF Tale
    <3>2. \A i \in 1 .. Len(w) : w[i].type # "timestamp"
      BY <2>2, <3>1
    <3>3. /\ Before(Q[Len(w)], G[1])
          /\ w[Len(w)].type = "end" <=> P[1].type = "end"
          /\ Q[Len(w)].at = G[1].at
      BY <2>3, <3>1
    <3>4. Good(w, 1)
      BY <3>1, <3>2, <3>3, <3>5
    <3> QED
      BY <3>4 DEF w
  <2> HIDE DEF Good
  <2>5. 0 + 1 = 1 /\ 0 \in 0 .. N - 1
    BY <1>1
  <2> QED
    BY <2>1, <2>4, <2>5
<1>5. ASSUME NEW m \in 0 .. N - 1 - 1, m \in T PROVE m + 1 \in T
  <2> DEFINE n == m + 1
  <2>1. /\ n \in 1 .. N - 1 /\ n + 1 \in 1 .. N /\ n + 1 \in 1 .. Len(list) /\ (n + 1) - 1 = n
        /\ m + 1 \in 0 .. N - 1 /\ n \in 1 .. N /\ n \in 0 .. Len(list) /\ N \in Nat
    BY <1>1, <1>2
  <2>2. Good(f[n], n)
    BY <1>5
  <2> SUFFICES Good(f[n + 1], n + 1)
    BY <2>1
  <2> HIDE DEF n, T
  <2>3. PICK Q \in Seq(Moment) :
          /\ Tale(base, f[n], Q)
          /\ \A i \in 1 .. Len(f[n]) : f[n][i].type # "timestamp"
          /\ Before(Q[Len(f[n])], G[n])
          /\ f[n][Len(f[n])].type = "end" <=> P[n].type = "end"
    BY <2>2
  <2> DEFINE w == f[n]
             e == P[n + 1]
             q == Q[Len(w)]
             p == G[n]
             r == G[n + 1]
  <2>4. /\ f[n + 1] = IF e.type = "timestamp" THEN w ELSE Append(w, e)
        /\ e \in Event /\ p \in Moment /\ r \in Moment
        /\ P[n].type # "end" /\ Follows(e, p, r)
    <3>1. list[n + 1] = P[n + 1]
      BY <1>2, <2>1
    <3>2. f[n + 1] = IF list[n + 1].type = "timestamp" THEN f[n] ELSE Append(f[n], list[n + 1])
      BY <1>3, <2>1
    <3>3. P[n].type # "end" /\ Follows(e, p, r)
      BY <2>1 DEF Tale, N
    <3> QED
      BY <1>1, <2>1, <3>1, <3>2, <3>3
  <2>5. Tale(base, w, Q) /\ Before(q, p) /\ w[Len(w)].type # "end" /\ q \in Moment
    <3>1. Len(w) \in 1 .. Len(w) /\ Q[Len(w)] \in Moment
      <4>1. Tale(base, f[n], Q)
        BY <2>3
      <4> HIDE DEF w
      <4>2. Len(f[n]) \in 1 .. Len(f[n]) /\ Q[Len(f[n])] \in Moment
        BY <4>1, TaleParts
      <4> QED
        BY <4>2 DEF w
    <3> QED
      BY <2>3, <2>4, <3>1
  <2>6. CASE e.type = "timestamp"
    <3>1. Before(q, r)
      <4> HIDE DEF q, p, r, e
      <4> QED
        BY <2>4, <2>5, <2>6, TimestampBefore
    <3>2. f[n + 1] = f[n] /\ P[n + 1].type # "end"
      BY <2>4, <2>6
    <3>3. Good(f[n], n + 1)
      BY <2>3, <2>4, <2>6, <3>1, <3>2
    <3> QED
      BY <3>2, <3>3
  <2>7. CASE e.type # "timestamp"
    <3> HIDE DEF q, p, r, e, w
    <3>1. Follows(e, q, r) /\ r \in MomentState
      BY <2>4, <2>5, <2>7, BeforeFollows DEF Moment
    <3> DEFINE v == Append(w, e)
               R == Append(Q, r)
    <3>2. /\ Tale(base, v, R) /\ v[Len(w) + 1] = e /\ R[Len(w) + 1] = r /\ Len(v) = Len(w) + 1
      <4>1. Follows(e, Q[Len(w)], r)
        BY <3>1 DEF q
      <4>2. e \in Event /\ Tale(base, w, Q) /\ w[Len(w)].type # "end" /\ r \in MomentState
        BY <2>4, <2>5, <3>1
      <4>3. Len(Q) = Len(w) /\ Len(w) \in Nat /\ w \in Seq(Event)
        BY <4>2, TaleParts
      <4> QED
        BY <4>1, <4>2, <4>3, TaleGrows
    <3>3. \A i \in 1 .. Len(v) : v[i].type # "timestamp"
      <4>1. w \in Seq(Event) /\ Len(w) \in Nat
        BY <2>5, TaleParts
      <4>2. \A i \in 1 .. Len(w) : v[i] = w[i] /\ w[i].type # "timestamp"
        BY <2>3, <4>1 DEF w
      <4> HIDE DEF v
      <4>3. v[Len(w) + 1].type # "timestamp" /\ Len(v) = Len(w) + 1
        BY <2>7, <3>2
      <4> TAKE i \in 1 .. Len(v)
      <4>4. i = Len(w) + 1 \/ i \in 1 .. Len(w)
        BY <4>1, <4>3
      <4>5. CASE i = Len(w) + 1
        BY <4>3, <4>5
      <4>6. CASE i \in 1 .. Len(w)
        BY <4>2, <4>6
      <4> QED
        BY <4>4, <4>5, <4>6
    <3> HIDE DEF v, R
    <3>4. R \in Seq(Moment)
      BY <3>2, TaleParts
    <3>5. Before(R[Len(v)], r) /\ R[Len(v)].at = r.at
      <4>1. Before(r, r)
        BY <2>4, MomentParts DEF Before
      <4> QED
        BY <3>2, <4>1
    <3>6. v[Len(v)].type = "end" <=> e.type = "end"
      BY <3>2
    <3>7. Good(v, n + 1)
      BY <3>2, <3>3, <3>4, <3>5, <3>6 DEF r, e
    <3> QED
      BY <2>4, <2>7, <3>7 DEF v
  <2> QED
    BY <2>6, <2>7
<1>6. N - 1 \in T
  <2> HIDE DEF T, Good
  <2>2. N - 1 \in Nat
    BY <1>1
  <2>1. \A m \in 0 .. N - 1 : m \in T
    BY <2>2, <1>4, <1>5, UpTo
  <2> QED
    BY <2>2, <2>1
<1>7. PICK Q \in Seq(Moment) :
        /\ Tale(base, f[N], Q)
        /\ \A i \in 1 .. Len(f[N]) : f[N][i].type # "timestamp"
        /\ Before(Q[Len(f[N])], G[N])
        /\ f[N][Len(f[N])].type = "end" <=> P[N].type = "end"
        /\ P[N].type # "timestamp" => Q[Len(f[N])].at = G[N].at
  <2>1. (N - 1) + 1 = N
    BY <1>1
  <2>2. Good(f[N], N)
    BY <1>6, <2>1
  <2> QED
    BY <2>2
<1>8. WriteModule(list) = Append(f[N], Sentinel) /\ f[N] \in Seq(Event)
  <2>1. N + 1 \in 1 .. Len(list) /\ (N + 1) - 1 = N /\ N \in 0 .. Len(list)
    BY <1>1, <1>2
  <2> QED
    BY <1>2, <1>3, <2>1, SentinelTyped
<1>9. Wrote(base, P, G, f[N], Q)
  BY <1>7, <1>8 DEF N, list, Wrote
<1> QED
  BY <1>7, <1>8, <1>9

(* With the timestamps no event is far from the one before it.             *)
Near(e, q) ==
  LET c == Shows(q, q.at)
  IN  /\ DueAt(e) <= c + Second + HistFrame - 1
      /\ DueAt(e) <= c + Second \/ e.type = "overflow"
      /\ DueAt(e) >= c - HistFrame + 1 \/ c <= HistSubMin

Dense(list, G) == \A i \in 1 .. Len(list) - 1 : Near(list[i + 1], G[i])

(* The next timestamp while the list is read. *)
NextStamp(ts, q) ==
  LET c == Shows(q, q.at)
  IN  /\ ts \in Nat /\ ts <= c + Second - 1
      /\ ts >= c \/ (q.next = q.at /\ ts >= c - HistFrame + 1) \/ c = ResetClk

Stamp(g) == [type |-> "timestamp", clk |-> g]

StampMoment(q, g) ==
  LET t == IF g - q.off > q.next THEN g - q.off ELSE q.next
  IN  [at |-> t, next |-> t, off |-> q.off, from |-> q.from, hist |-> q.hist]

NextTs(after, e) ==
  IF e.type = "overflow" THEN after - HistSub ELSE IF e.type = "reset" THEN after - e.clk ELSE after

(* The clock up to which there are timestamps before the event e.          *)
Limit(e) == IF e.type = "overflow" THEN HistGuardMax ELSE e.clk

LEMMA LimitDue ==
  ASSUME NEW e \in Event
  PROVE  /\ Limit(e) \in Nat /\ Limit(e) <= Latest
         /\ e.type # "overflow" => DueAt(e) = Limit(e)
<1>1. e.clk \in Nat /\ e.clk <= Latest
  BY EventParts
<1> QED
  BY <1>1, HistNumbers, MoreNumbers DEF Limit, DueAt

(* An event that is not a timestamp comes exactly at its clock.            *)
LEMMA Exactly ==
  ASSUME NEW q \in Moment, NEW e \in Event, NEW r \in Moment, Follows(e, q, r), e.type # "timestamp"
  PROVE  /\ Shows(q, r.at) = DueAt(e)
         /\ DueAt(e) >= Limit(e) /\ DueAt(e) <= Limit(e) + HistFrame - 1
         /\ DueAt(e) \in Nat
<1>1. DueAt(e) \in Nat /\ Limit(e) \in Nat
  BY EventParts, LimitDue
<1>2. Shows(q, r.at) \in Int
  BY MomentParts DEF Shows
<1>3. Shows(q, r.at) = DueAt(e)
  BY <1>1, <1>2 DEF Follows
<1>4. CASE e.type = "overflow"
  <2>1. Shows(q, r.at) >= HistGuardMax /\ Shows(q, r.at) < HistGuardMax + HistFrame
        /\ Limit(e) = HistGuardMax
    BY <1>4 DEF Follows, Limit
  <2> QED
    BY <1>1, <1>3, <2>1, MoreNumbers, HistNumbers
<1>5. CASE e.type # "overflow"
  <2>1. DueAt(e) = Limit(e)
    BY <1>5, LimitDue
  <2> QED
    BY <1>1, <1>3, <2>1, MoreNumbers
<1> QED
  BY <1>4, <1>5

LEMMA StampMomentTyped ==
  ASSUME NEW q \in Moment, NEW e \in Event, NEW r \in Moment, Follows(e, q, r), e.type # "timestamp",
         NEW g \in Nat, g < Limit(e)
  PROVE  LET x == StampMoment(q, g) IN
         /\ x \in Moment /\ x.at <= r.at /\ x.at >= q.next /\ x.next = x.at
         /\ x.off = q.off /\ x.from = q.from /\ x.hist = q.hist
         /\ Turned(q, x.at) < HistGuardMax /\ Shows(q, x.at) >= g
         /\ Shows(q, x.at) > g => x.at = q.next
         /\ Stamp(g) \in Event
<1> DEFINE t == IF g - q.off > q.next THEN g - q.off ELSE q.next
           x == StampMoment(q, g)
<1>1. /\ q.at \in Nat /\ q.next \in Nat /\ q.off \in Int /\ q.from \in Nat
      /\ q.hist \in Seq(Nat \X Types) /\ q.from <= q.at
      /\ q.next \in {q.at, q.at + 1} /\ q.next >= q.at /\ r.at \in Nat
  BY MomentParts
<1>2. /\ Shows(q, r.at) = DueAt(e)
      /\ DueAt(e) >= Limit(e) /\ DueAt(e) <= Limit(e) + HistFrame - 1
      /\ DueAt(e) \in Nat /\ Limit(e) \in Nat /\ Limit(e) <= Latest
  BY Exactly, LimitDue
<1>3. r.at >= q.next
  BY DEF Follows
<1>4. /\ t \in Nat /\ t >= q.next /\ t <= r.at /\ t >= q.at /\ t >= q.from
      /\ Shows(q, t) >= g /\ (Shows(q, t) > g => t = q.next)
      /\ t = q.next \/ Shows(q, t) = g
  <2>1. r.at + q.off >= g
    BY <1>1, <1>2 DEF Shows
  <2>2. CASE g - q.off > q.next
    <3>1. t = g - q.off
      BY <2>2
    <3> HIDE DEF t
    <3>2. /\ q.at \in Nat /\ q.next \in Nat /\ q.off \in Int /\ q.from \in Nat /\ q.from <= q.at
          /\ q.next >= q.at /\ r.at \in Nat
      BY <1>1
    <3>3. t \in Int /\ t > q.next /\ t + q.off = g
      BY <2>2, <3>1, <3>2
    <3>4. t \in Nat /\ t >= q.next /\ t <= r.at /\ t >= q.at /\ t >= q.from
      BY <2>1, <3>2, <3>3
    <3> QED
      BY <3>3, <3>4 DEF Shows
  <2>3. CASE ~ (g - q.off > q.next)
    <3>1. t = q.next
      BY <2>3
    <3> HIDE DEF t
    <3> QED
      BY <1>1, <1>3, <2>3, <3>1 DEF Shows
  <2> QED
    BY <2>2, <2>3
<1>5. /\ x.at = t /\ x.next = t /\ x.off = q.off /\ x.from = q.from /\ x.hist = q.hist
      /\ x \in MomentState
  BY <1>1, <1>4 DEF StampMoment, MomentState
<1> HIDE DEF x
<1>6. Turned(q, t) < HistGuardMax
  <2> HIDE DEF t
  <2>1. CASE e.type # "overflow"
    <3>1. Turned(q, r.at) < HistGuardMax
      BY <2>1 DEF Follows
    <3>2. Turned(q, t) <= Turned(q, r.at) /\ Turned(q, t) \in Int /\ Turned(q, r.at) \in Int
      BY <1>1, <1>4, TurnsGrow
    <3> QED
      BY <3>1, <3>2, HistNumbers
  <2>2. CASE Shows(q, t) = g /\ e.type = "overflow"
    <3>1. FrameAt(q, t) \in 0 .. HistFrame - 1
      BY <1>4, FrameGoesOn
    <3>2. Limit(e) = HistGuardMax
      BY <2>2 DEF Limit
    <3> QED
      BY <2>2, <3>1, <3>2, HistNumbers DEF Turned
  <2>3. CASE t = q.at
    BY <2>3 DEF Moment
  <2>4. CASE t = q.at + 1 /\ t = q.next
    <3>1. q.from = q.at
      BY <1>1, <2>4 DEF Moment
    <3>2. FrameAt(q, t) = 1 /\ FrameAt(q, q.at) = 0
      BY <1>1, <2>4, <3>1, FrameGoesOn
    <3>3. Turned(q, q.at) < HistGuardMax
      BY DEF Moment
    <3> QED
      BY <1>1, <2>4, <3>2, <3>3, HistNumbers DEF Turned, Shows
  <2> QED
    BY <1>1, <1>2, <1>4, <2>1, <2>2, <2>3, <2>4 DEF Shows
<1>7. x \in Moment
  <2>1. Shows(x, x.at) = Shows(q, t) /\ Turned(x, x.at) = Turned(q, t)
    BY <1>5 DEF Shows, Turned, FrameAt
  <2>2. Shows(q, t) \in Nat
    BY <1>1, <1>4 DEF Shows
  <2>3. \A i \in 1 .. Len(x.hist) : x.hist[i][1] <= x.at
    <3> TAKE i \in 1 .. Len(x.hist)
    <3> DEFINE b == q.hist[i][1]
    <3>1. q.hist[i] \in Nat \X Types /\ i \in 1 .. Len(q.hist)
      BY <1>1, <1>5
    <3>2. b \in Nat /\ b <= q.at
      BY <3>1 DEF Moment
    <3> HIDE DEF b
    <3>3. b <= t
      BY <1>1, <1>4, <3>2
    <3> QED
      BY <1>5, <3>3 DEF b
  <2> HIDE DEF t
  <2>4. x.from <= x.at /\ x.next \in {x.at, x.at + 1} /\ x.next # x.at + 1
    BY <1>1, <1>4, <1>5
  <2>5. Shows(x, x.at) \in Nat /\ Turned(x, x.at) < HistGuardMax
    BY <1>6, <2>1, <2>2
  <2> QED
    BY <1>5, <2>3, <2>4, <2>5 DEF Moment
<1>8. Stamp(g) \in Event
  <2>1. g \in 0 .. Latest
    BY <1>2, HistNumbers
  <2> QED
    BY <2>1 DEF Stamp, Event, Types
<1> HIDE DEF t
<1> QED
  BY <1>4, <1>5, <1>6, <1>7, <1>8 DEF x

LEMMA StampParts ==
  ASSUME NEW g
  PROVE  /\ Stamp(g).type = "timestamp" /\ Stamp(g).clk = g /\ ~ Reported(Stamp(g))
         /\ Stamp(g).type \notin Starts /\ (g \in Nat => DueAt(Stamp(g)) = g)
<1>1. Stamp(g).type = "timestamp" /\ Stamp(g).clk = g
  BY DEF Stamp
<1>2. ~ Reported(Stamp(g)) /\ Stamp(g).type \notin Starts
  BY <1>1, KeyTypes DEF Reported, Starts
<1>3. g \in Nat => DueAt(Stamp(g)) = g
  BY <1>1 DEF DueAt
<1> QED
  BY <1>1, <1>2, <1>3

(* A timestamp follows the event before it, or another timestamp.          *)
LEMMA StampFollows ==
  ASSUME NEW q \in Moment, NEW e \in Event, NEW r \in Moment, Follows(e, q, r), e.type # "timestamp",
         NEW g \in Nat, g < Limit(e)
  PROVE  Follows(Stamp(g), q, StampMoment(q, g))
<1> DEFINE x == StampMoment(q, g)
           s == Stamp(g)
<1>1. /\ x.at >= q.next /\ x.next = x.at
      /\ x.off = q.off /\ x.from = q.from /\ x.hist = q.hist
      /\ Turned(q, x.at) < HistGuardMax /\ Shows(q, x.at) >= g
      /\ Shows(q, x.at) > g => x.at = q.next
  BY StampMomentTyped
<1>2. s.type = "timestamp" /\ DueAt(s) = g /\ ~ Reported(s) /\ s.type \notin Starts
  BY StampParts
<1> HIDE DEF x, s
<1>3. Follows(s, q, x)
  BY <1>1, <1>2 DEF Follows
<1> QED
  BY <1>3 DEF x, s

LEMMA StampFollowsStamp ==
  ASSUME NEW q \in Moment, NEW e \in Event, NEW r \in Moment, Follows(e, q, r), e.type # "timestamp",
         NEW g \in Nat, NEW h \in Nat, g < h, h < Limit(e)
  PROVE  Follows(Stamp(h), StampMoment(q, g), StampMoment(q, h))
<1> DEFINE x == StampMoment(q, g)
           y == StampMoment(q, h)
           s == Stamp(h)
<1>0. Limit(e) \in Nat
  BY LimitDue
<1>1. /\ x \in Moment /\ x.at >= q.next /\ x.next = x.at
      /\ x.off = q.off /\ x.from = q.from /\ x.hist = q.hist
      /\ Shows(q, x.at) >= g
      /\ Shows(q, x.at) > g => x.at = q.next
  BY <1>0, StampMomentTyped
<1>2. /\ y \in Moment /\ y.at >= q.next /\ y.next = y.at
      /\ y.off = q.off /\ y.from = q.from /\ y.hist = q.hist
      /\ Turned(q, y.at) < HistGuardMax /\ Shows(q, y.at) >= h
      /\ Shows(q, y.at) > h => y.at = q.next
  BY StampMomentTyped
<1>3. s.type = "timestamp" /\ DueAt(s) = h /\ ~ Reported(s) /\ s.type \notin Starts
  BY StampParts
<1> HIDE DEF x, y, s
<1>4. x.at \in Nat /\ y.at \in Nat /\ q.next \in Nat /\ q.off \in Int
  BY <1>1, <1>2, MomentParts
<1>5. y.at >= x.at /\ (Shows(q, y.at) > h => y.at = x.at)
  BY <1>1, <1>2, <1>4 DEF Shows
<1>6. Shows(x, y.at) = Shows(q, y.at) /\ Turned(x, y.at) = Turned(q, y.at)
  BY <1>1 DEF Shows, Turned, FrameAt
<1>7. Follows(s, x, y)
  BY <1>1, <1>2, <1>3, <1>5, <1>6 DEF Follows
<1> QED
  BY <1>7 DEF x, y, s

LEMMA EventFollowsStamp ==
  ASSUME NEW q \in Moment, NEW e \in Event, NEW r \in Moment, Follows(e, q, r), e.type # "timestamp",
         NEW g \in Nat, g < Limit(e)
  PROVE  Follows(e, StampMoment(q, g), r)
<1> DEFINE x == StampMoment(q, g)
<1>1. /\ x \in Moment /\ x.at <= r.at /\ x.next = x.at
      /\ x.off = q.off /\ x.from = q.from /\ x.hist = q.hist
  BY StampMomentTyped
<1> HIDE DEF x
<1>2. Shows(x, r.at) = Shows(q, r.at) /\ Turned(x, r.at) = Turned(q, r.at)
      /\ FrameAt(x, r.at) = FrameAt(q, r.at)
  BY <1>1 DEF Shows, Turned, FrameAt
<1>3. r.at >= x.next /\ (Shows(x, r.at) > DueAt(e) => FALSE)
  <2>1. x.at \in Nat /\ r.at \in Nat
    BY <1>1, MomentParts
  <2>2. Shows(q, r.at) = DueAt(e) /\ DueAt(e) \in Nat
    BY Exactly
  <2> QED
    BY <1>1, <1>2, <2>1, <2>2
<1>4. Follows(e, x, r)
  BY <1>1, <1>2, <1>3 DEF Follows
<1> QED
  BY <1>4 DEF x

(* How near they are. *)
LEMMA StampNear ==
  ASSUME NEW q \in Moment, NEW ts, NextStamp(ts, q)
  PROVE  Near(Stamp(ts), q)
<1> DEFINE c == Shows(q, q.at)
<1>1. c \in Int
  BY MomentParts DEF Shows
<1>2. /\ ts \in Nat /\ ts <= c + Second - 1
      /\ ts >= c \/ ts >= c - HistFrame + 1 \/ c = ResetClk
  BY DEF NextStamp
<1>3. DueAt(Stamp(ts)) = ts
  BY <1>2, StampParts
<1> HIDE DEF c
<1>4. /\ ts <= c + Second + HistFrame - 1 /\ ts <= c + Second
      /\ ts >= c - HistFrame + 1 \/ c <= HistSubMin
  BY <1>1, <1>2, MoreNumbers, HistNumbers
<1> QED
  BY <1>3, <1>4 DEF Near, c

LEMMA StampNearStamp ==
  ASSUME NEW q \in Moment, NEW e \in Event, NEW r \in Moment, Follows(e, q, r), e.type # "timestamp",
         NEW ts, NextStamp(ts, q), NEW g \in Nat, g >= ts, NEW h \in Nat, h = g + Second, g < Limit(e)
  PROVE  Near(Stamp(h), StampMoment(q, g))
<1> DEFINE c == Shows(q, q.at)
           x == StampMoment(q, g)
           y == Shows(x, x.at)
<1>1. c \in Int
  BY MomentParts DEF Shows
<1>2. /\ ts \in Nat
      /\ ts >= c \/ (q.next = q.at /\ ts >= c - HistFrame + 1) \/ c = ResetClk
  BY DEF NextStamp
<1>3. DueAt(Stamp(h)) = h
  BY StampParts
<1>4. /\ x \in Moment /\ x.at >= q.next /\ x.off = q.off
      /\ Shows(q, x.at) >= g
      /\ Shows(q, x.at) > g => x.at = q.next
  BY StampMomentTyped
<1> HIDE DEF x
<1>5. x.at \in Nat /\ q.at \in Nat /\ q.off \in Int /\ q.next \in {q.at, q.at + 1}
  BY <1>4, MomentParts
<1>6. /\ y \in Int /\ y >= g /\ (y > g => y = c \/ (y = c + 1 /\ q.next # q.at))
  BY <1>4, <1>5 DEF Shows
<1> HIDE DEF c, y
<1>7. /\ h <= y + Second + HistFrame - 1 /\ h <= y + Second
      /\ h >= y - HistFrame + 1 \/ y <= HistSubMin
  BY <1>1, <1>2, <1>6, MoreNumbers, HistNumbers
<1> QED
  BY <1>3, <1>7 DEF Near, y, x

LEMMA EventNear ==
  ASSUME NEW q \in Moment, NEW e \in Event, NEW r \in Moment, Follows(e, q, r), e.type # "timestamp",
         NEW ts, NextStamp(ts, q), ts >= Limit(e)
  PROVE  Near(e, q)
<1> DEFINE c == Shows(q, q.at)
<1>1. c \in Int /\ Shows(q, r.at) >= c
  <2>1. r.at \in Nat /\ q.at \in Nat /\ q.off \in Int /\ r.at >= q.at
    <3>1. r.at >= q.next
      BY DEF Follows
    <3> QED
      BY <3>1, MomentParts
  <2> QED
    BY <2>1 DEF Shows
<1>2. /\ ts \in Nat /\ ts <= c + Second - 1
  BY DEF NextStamp
<1>3. /\ Shows(q, r.at) = DueAt(e) /\ DueAt(e) <= Limit(e) + HistFrame - 1
      /\ DueAt(e) \in Nat /\ Limit(e) \in Nat /\ (e.type # "overflow" => DueAt(e) = Limit(e))
  BY Exactly, LimitDue
<1> HIDE DEF c
<1>4. /\ DueAt(e) <= c + Second + HistFrame - 1
      /\ e.type # "overflow" => DueAt(e) <= c + Second
      /\ DueAt(e) >= c - HistFrame + 1
  BY <1>1, <1>2, <1>3, MoreNumbers, HistNumbers
<1> QED
  BY <1>4 DEF Near, c

LEMMA EventNearStamp ==
  ASSUME NEW q \in Moment, NEW e \in Event, NEW r \in Moment, Follows(e, q, r), e.type # "timestamp",
         NEW g \in Nat, g < Limit(e), g + Second >= Limit(e)
  PROVE  Near(e, StampMoment(q, g))
<1> DEFINE x == StampMoment(q, g)
           y == Shows(x, x.at)
<1>1. /\ x \in Moment /\ x.at <= r.at /\ x.off = q.off /\ Shows(q, x.at) >= g
  BY StampMomentTyped
<1> HIDE DEF x
<1>2. x.at \in Nat /\ q.off \in Int /\ r.at \in Nat
  BY <1>1, MomentParts
<1>3. y \in Int /\ y >= g /\ Shows(q, r.at) >= y
  BY <1>1, <1>2 DEF Shows
<1>4. /\ Shows(q, r.at) = DueAt(e) /\ DueAt(e) <= Limit(e) + HistFrame - 1
      /\ DueAt(e) \in Nat /\ Limit(e) \in Nat /\ (e.type # "overflow" => DueAt(e) = Limit(e))
  BY Exactly, LimitDue
<1> HIDE DEF y
<1>5. /\ DueAt(e) <= y + Second + HistFrame - 1
      /\ e.type # "overflow" => DueAt(e) <= y + Second
      /\ DueAt(e) >= y - HistFrame + 1
  BY <1>3, <1>4, MoreNumbers, HistNumbers
<1> QED
  BY <1>5 DEF Near, y, x

(* The next timestamp behind an event.                                     *)
LEMMA StampGoesOn ==
  ASSUME NEW q \in Moment, NEW e \in Event, NEW r \in Moment, Follows(e, q, r), e.type # "timestamp",
         NEW ts, NextStamp(ts, q), NEW after \in Nat, after >= Limit(e),
         after = ts \/ after < Limit(e) + Second
  PROVE  NextStamp(NextTs(after, e), r)
<1> DEFINE c == Shows(q, q.at)
           y == Shows(r, r.at)
           d == DueAt(e)
<1>1. r.at \in Nat /\ q.at \in Nat /\ q.off \in Int /\ r.at >= q.at
  <2>1. r.at >= q.next
    BY DEF Follows
  <2> QED
    BY <2>1, MomentParts
<1>2. c \in Int /\ Shows(q, r.at) >= c
  BY <1>1 DEF Shows
<1>3. ts \in Nat /\ ts <= c + Second - 1
  BY DEF NextStamp
<1>4. /\ Shows(q, r.at) = d /\ d <= Limit(e) + HistFrame - 1 /\ d >= Limit(e)
      /\ d \in Nat /\ Limit(e) \in Nat
  BY Exactly, LimitDue
<1>5. after <= d + Second - 1
  <2> HIDE DEF c, d
  <2> QED
    BY <1>2, <1>3, <1>4, HistNumbers
<1>6. CASE e.type = "overflow"
  <2>1. y = d - HistSub /\ r.next = r.at /\ Limit(e) = HistGuardMax
    <3>1. r.off = q.off - HistSub /\ r.next = r.at /\ Limit(e) = HistGuardMax
      BY <1>6 DEF Follows, Limit
    <3> QED
      BY <1>1, <1>4, <3>1, MoreNumbers DEF Shows
  <2> DEFINE ts1 == after - HistSub
  <2> HIDE DEF d, y
  <2>2. /\ ts1 \in Nat /\ ts1 <= y + Second - 1 /\ ts1 >= y - HistFrame + 1
    BY <1>4, <1>5, <2>1, MoreNumbers, HistNumbers
  <2>3. NextStamp(ts1, r)
    BY <2>1, <2>2 DEF NextStamp, y
  <2> QED
    BY <1>6, <2>3 DEF NextTs
<1>7. CASE e.type = "reset"
  <2>1. y = ResetClk /\ d = e.clk /\ Limit(e) = e.clk
    <3>1. r.off = ResetClk - r.at /\ Limit(e) = e.clk
      BY <1>7 DEF Follows, Limit
    <3>2. d = e.clk
      <4>1. e.clk \in Nat
        BY EventParts
      <4> QED
        BY <1>7, <4>1 DEF DueAt
    <3> QED
      BY <1>1, <3>1, <3>2, MoreNumbers DEF Shows
  <2> DEFINE ts1 == after - e.clk
  <2>2. e.clk \in Nat
    BY EventParts
  <2> HIDE DEF d, y
  <2>3. ts1 \in Nat /\ ts1 <= y + Second - 1
    BY <1>4, <1>5, <2>1, <2>2, MoreNumbers, HistNumbers
  <2>4. NextStamp(ts1, r)
    BY <2>1, <2>3 DEF NextStamp, y
  <2> QED
    BY <1>7, <2>4 DEF NextTs
<1>8. CASE ~ (e.type = "overflow") /\ ~ (e.type = "reset")
  <2>1. y = d /\ Limit(e) = d
    <3>1. r.off = q.off
      BY <1>8 DEF Follows
    <3>2. Limit(e) = d
      BY <1>8, LimitDue
    <3> QED
      BY <1>4, <3>1, <3>2 DEF Shows
  <2> HIDE DEF d, y
  <2>2. after <= y + Second - 1 /\ after >= y
    BY <1>4, <1>5, <2>1
  <2>3. NextStamp(after, r)
    BY <2>2 DEF NextStamp, y
  <2>4. NextTs(after, e) = after
    BY <1>8 DEF NextTs
  <2> QED
    BY <2>3, <2>4
<1> QED
  BY <1>6, <1>7, <1>8

(* A list, some more and one more. *)
Join(l, m, e) == l \o m \o <<e>>
Spliced(P, l, n, m, e) ==
  /\ Len(P) = Len(l) + n + 1
  /\ \A i \in 1 .. Len(l) : P[i] = l[i]
  /\ \A i \in 1 .. n : P[Len(l) + i] = m[i]
  /\ P[Len(l) + n + 1] = e

LEMMA Joined ==
  ASSUME NEW S, NEW l \in Seq(S), NEW n \in Nat, NEW m \in [1 .. n -> S], NEW e \in S
  PROVE  Join(l, m, e) \in Seq(S) /\ Spliced(Join(l, m, e), l, n, m, e)
<1>1. m \in Seq(S) /\ Len(m) = n
  <2>1. m \in Seq(S)
    BY SeqDef
  <2>2. DOMAIN m = 1 .. n
    OBVIOUS
  <2> QED
    BY <2>1, <2>2, LenProperties
<1> DEFINE k == l \o m
<1>2. k \in Seq(S) /\ Len(k) = Len(l) + n
      /\ (\A i \in 1 .. Len(l) : k[i] = l[i]) /\ \A i \in 1 .. n : k[Len(l) + i] = m[i]
  <2>1. k \in Seq(S) /\ Len(k) = Len(l) + n
    BY <1>1, ConcatProperties
  <2>2. \A i \in 1 .. Len(l) + Len(m) : k[i] = IF i <= Len(l) THEN l[i] ELSE m[i - Len(l)]
    BY <1>1, ConcatProperties
  <2>3. Len(l) \in Nat
    OBVIOUS
  <2> HIDE DEF k
  <2>4. \A i \in 1 .. Len(l) : k[i] = l[i]
    BY <1>1, <2>2, <2>3
  <2>5. ASSUME NEW i \in 1 .. n PROVE k[Len(l) + i] = m[i]
    <3>1. Len(l) + i \in 1 .. Len(l) + Len(m) /\ ~ (Len(l) + i <= Len(l)) /\ (Len(l) + i) - Len(l) = i
      BY <1>1, <2>3
    <3> QED
      BY <2>2, <3>1
  <2> QED
    BY <2>1, <2>4, <2>5
<1> HIDE DEF k
<1> DEFINE P == k \o <<e>>
<1>3. Len(l) \in Nat /\ Len(k) \in Nat
  BY <1>2
<1>4. P \in Seq(S) /\ Len(P) = Len(k) + 1 /\ P[Len(k) + 1] = e /\ \A i \in 1 .. Len(k) : P[i] = k[i]
  BY <1>2
<1>7. P = Join(l, m, e)
  BY DEF k, Join
<1> HIDE DEF P
<1>5. /\ \A i \in 1 .. Len(l) : P[i] = l[i]
      /\ \A i \in 1 .. n : P[Len(l) + i] = m[i]
  <2>1. ASSUME NEW i \in 1 .. Len(l) PROVE P[i] = l[i]
    <3>1. i \in 1 .. Len(k)
      BY <1>2, <1>3
    <3> QED
      BY <1>2, <1>4, <3>1
  <2>2. ASSUME NEW i \in 1 .. n PROVE P[Len(l) + i] = m[i]
    <3>1. Len(l) + i \in 1 .. Len(k)
      BY <1>2, <1>3
    <3> QED
      BY <1>2, <1>4, <3>1
  <2> QED
    BY <2>1, <2>2
<1>6. Len(P) = Len(l) + n + 1 /\ P[Len(l) + n + 1] = e
  BY <1>2, <1>3, <1>4
<1> QED
  BY <1>4, <1>5, <1>6, <1>7 DEF Spliced

(* How many timestamps there are, and at which clocks.                     *)
Seconds(first, limit) == IF limit > first THEN (limit - first + Second - 1) \div Second ELSE 0
Nth(first, i) == first + (i - 1) * Second

(* The timestamps before the event e, and the clock behind them.            *)
StampsOf(ts, e) == [i \in 1 .. Seconds(ts, Limit(e)) |-> Stamp(Nth(ts, i))]
After(ts, e) == ts + Seconds(ts, Limit(e)) * Second

(* The n stamps from first on are in front of limit, and no other is. *)
Counted(first, limit, n) ==
  /\ n \in Nat /\ (n = 0 => first >= limit)
  /\ LET after == first + n * Second
     IN  /\ after \in Nat /\ after >= limit /\ (after = first \/ after < limit + Second)
         /\ Nth(first, n + 1) = after
  /\ Nth(first, 1) = first
  /\ \A i \in 1 .. n : Nth(first, i) \in Nat /\ Nth(first, i) >= first /\ Nth(first, i) < limit
  /\ \A i \in 1 .. n : Nth(first, i + 1) = Nth(first, i) + Second

LEMMA StampCount ==
  ASSUME NEW first \in Nat, NEW limit \in Nat
  PROVE  Counted(first, limit, Seconds(first, limit))
<1> DEFINE n == Seconds(first, limit)
           after == first + n * Second
<1>0. Second \in Nat \ {0}
  BY HistNumbers
<1>1. /\ n \in Nat /\ (n = 0 => first >= limit)
      /\ after \in Nat /\ after >= limit /\ (after = first \/ after < limit + Second)
      /\ \A i \in 1 .. n : (i - 1) * Second \in Nat /\ first + (i - 1) * Second < limit
  <2>1. CASE limit > first
    <3>1. n = (limit - first + Second - 1) \div Second
      BY <2>1 DEF Seconds
    <3>2. /\ n \in Nat \ {0} /\ first + n * Second >= limit /\ first + n * Second < limit + Second
          /\ \A i \in 1 .. n : (i - 1) * Second \in Nat /\ first + (i - 1) * Second < limit
      BY <1>0, <2>1, <3>1, Timestamps
    <3> HIDE DEF n
    <3>3. n * Second \in Nat
      BY <1>0, <3>2
    <3> QED
      BY <3>2, <3>3
  <2>2. CASE ~ (limit > first)
    <3>1. n = 0
      BY <2>2 DEF Seconds
    <3> HIDE DEF n
    <3>2. n * Second = 0
      BY <1>0, <3>1
    <3> QED
      BY <2>2, <3>1, <3>2
  <2> QED
    BY <2>1, <2>2
<1> HIDE DEF n
<1>2. Nth(first, 1) = first
  BY <1>0 DEF Nth
<1>3. \A i \in 1 .. n : Nth(first, i) \in Nat /\ Nth(first, i) >= first /\ Nth(first, i) < limit
  <2> TAKE i \in 1 .. n
  <2> DEFINE m == (i - 1) * Second
  <2>1. m \in Nat /\ first + m < limit
    BY <1>1
  <2> HIDE DEF m
  <2>2. Nth(first, i) = first + m
    BY DEF Nth, m
  <2> QED
    BY <2>1, <2>2
<1>4. \A i \in 1 .. n : Nth(first, i + 1) = Nth(first, i) + Second
  <2> TAKE i \in 1 .. n
  <2>1. i \in Nat /\ ((i + 1) - 1) * Second = (i - 1) * Second + Second
    BY <1>0, <1>1
  <2> DEFINE m == (i - 1) * Second
  <2>2. m \in Nat
    BY <1>1
  <2> HIDE DEF m
  <2>3. Nth(first, i + 1) = first + (m + Second) /\ Nth(first, i) = first + m
    BY <2>1 DEF Nth, m
  <2> QED
    BY <1>0, <2>2, <2>3
<1>5. Nth(first, n + 1) = after
  <2>1. (n + 1) - 1 = n
    BY <1>1
  <2> QED
    BY <2>1 DEF Nth
<1> QED
  <2>1. Counted(first, limit, n)
    BY <1>1, <1>2, <1>3, <1>4, <1>5 DEF Counted
  <2> QED
    BY <2>1 DEF n

(* The list after one more event, with the timestamps before it.           *)
LEMMA MoreTold ==
  ASSUME NEW base, NEW l, NEW H, Tale(base, l, H), Dense(l, H), l[Len(l)].type # "end",
         NEW e \in Event, e.type # "timestamp", NEW r \in Moment, Follows(e, H[Len(l)], r),
         NEW ts, NextStamp(ts, H[Len(l)])
  PROVE  LET P == Join(l, StampsOf(ts, e), e)
         IN  /\ \E R \in Seq(Moment) :
                  Tale(base, P, R) /\ Dense(P, R) /\ R[Len(P)] = r
             /\ P[Len(P)] = e /\ P[1] = l[1]
             /\ ts < Limit(e) => P[Len(l) + 1].type = "timestamp"
             /\ P \in Seq(Event) /\ Len(P) > Len(l)
<1> DEFINE n == Seconds(ts, Limit(e))
           g(i) == Nth(ts, i)
           q == H[Len(l)]
           L == Len(l)
           stamps == [i \in 1 .. n |-> Stamp(g(i))]
           marks == [i \in 1 .. n |-> StampMoment(q, g(i))]
           P == Join(l, stamps, e)
           R == H \o marks \o <<r>>
<1>1. /\ l \in Seq(Event) /\ H \in Seq(Moment) /\ Len(H) = L /\ L \in Nat /\ L >= 1
      /\ q \in Moment
  BY TaleParts
<1>2. ts \in Nat /\ Limit(e) \in Nat
  BY LimitDue DEF NextStamp
<1> DEFINE lim == Limit(e)
<1>3. /\ n \in Nat /\ (n = 0 => ts >= lim)
      /\ g(1) = ts
      /\ \A i \in 1 .. n : g(i) \in Nat /\ g(i) >= ts /\ g(i) < lim
      /\ \A i \in 1 .. n : g(i + 1) = g(i) + Second
      /\ g(n + 1) >= lim
  <2>1. Counted(ts, lim, n)
    BY <1>2, StampCount
  <2> HIDE DEF n, lim
  <2> QED
    BY <2>1 DEF Counted
<1> HIDE DEF n, g, lim
<1>4. Follows(e, q, r) /\ NextStamp(ts, q)
  OBVIOUS
<1> HIDE DEF q
<1>5. \A i \in 1 .. n : Stamp(g(i)) \in Event /\ StampMoment(q, g(i)) \in Moment
  <2> TAKE i \in 1 .. n
  <2>1. g(i) \in Nat /\ g(i) < Limit(e)
    BY <1>3 DEF lim
  <2> QED
    BY <1>1, <1>4, <2>1, StampMomentTyped
<1>6. stamps \in [1 .. n -> Event] /\ marks \in [1 .. n -> Moment]
  BY <1>5
<1>7. /\ P \in Seq(Event) /\ Len(P) = L + n + 1
      /\ \A i \in 1 .. L : P[i] = l[i]
      /\ \A i \in 1 .. n : P[L + i] = stamps[i]
      /\ P[L + n + 1] = e
  <2> HIDE DEF stamps
  <2>1. P = Join(l, stamps, e)
    OBVIOUS
  <2> HIDE DEF P
  <2>2. P \in Seq(Event) /\ Spliced(P, l, n, stamps, e)
    BY <1>1, <1>3, <1>6, <2>1, Joined
  <2> QED
    BY <2>2 DEF Spliced, L
<1>8. /\ R \in Seq(Moment) /\ Len(R) = L + n + 1
      /\ \A i \in 1 .. L : R[i] = H[i]
      /\ \A i \in 1 .. n : R[L + i] = marks[i]
      /\ R[L + n + 1] = r
  <2> HIDE DEF marks
  <2>1. R = Join(H, marks, r)
    BY DEF Join
  <2> HIDE DEF R
  <2>2. R \in Seq(Moment) /\ Spliced(R, H, n, marks, r)
    BY <1>1, <1>3, <1>6, <2>1, Joined
  <2> HIDE DEF L
  <2> QED
    BY <1>1, <2>2 DEF Spliced
<1> HIDE DEF P, R, L
<1>9. \A i \in 1 .. n : P[L + i] = Stamp(g(i)) /\ R[L + i] = StampMoment(q, g(i))
  BY <1>7, <1>8
<1> HIDE DEF stamps, marks
<1>10. P[L] = l[L] /\ R[L] = q /\ L \in 1 .. L
  <2>1. L \in 1 .. L
    BY <1>1
  <2> QED
    BY <1>7, <1>8, <2>1 DEF q, L
<1>11. ASSUME NEW i \in 1 .. Len(P) - 1
       PROVE  P[i].type # "end" /\ Follows(P[i + 1], R[i], R[i + 1]) /\ Near(P[i + 1], R[i])
  <2>1. CASE i \in 1 .. L - 1
    <3>1. i \in 1 .. L /\ i + 1 \in 1 .. L
      BY <1>1, <2>1
    <3>2. P[i] = l[i] /\ P[i + 1] = l[i + 1] /\ R[i] = H[i] /\ R[i + 1] = H[i + 1]
      BY <1>7, <1>8, <3>1
    <3>3. l[i].type # "end" /\ Follows(l[i + 1], H[i], H[i + 1]) /\ Near(l[i + 1], H[i])
      BY <2>1 DEF Tale, Dense, L
    <3> QED
      BY <3>2, <3>3
  <2>2. CASE i = L /\ n = 0
    <3>1. P[i + 1] = e /\ R[i + 1] = r /\ P[i] = l[L] /\ R[i] = q
      BY <1>1, <1>7, <1>8, <1>10, <2>2
    <3>2. Near(e, q)
      BY <1>1, <1>3, <1>4, <2>2, EventNear DEF lim
    <3> QED
      BY <1>4, <3>1, <3>2 DEF L
  <2>3. CASE i = L /\ n # 0
    <3>1. 1 \in 1 .. n
      BY <1>3, <2>3
    <3>2. P[i + 1] = Stamp(ts) /\ R[i + 1] = StampMoment(q, ts) /\ P[i] = l[L] /\ R[i] = q
      BY <1>3, <1>9, <1>10, <2>3, <3>1
    <3>3. ts < Limit(e)
      BY <1>3, <3>1 DEF lim
    <3>4. Near(Stamp(ts), q) /\ Follows(Stamp(ts), q, StampMoment(q, ts))
      BY <1>1, <1>2, <1>4, <3>3, StampNear, StampFollows
    <3> QED
      BY <3>2, <3>4 DEF L
  <2>4. CASE i \in L + 1 .. L + n - 1
    <3> DEFINE j == i - L
    <3>1. j \in 1 .. n /\ j + 1 \in 1 .. n /\ L + j = i /\ L + (j + 1) = i + 1
      BY <1>1, <1>3, <2>4
    <3> HIDE DEF j
    <3>2. /\ P[i] = Stamp(g(j)) /\ R[i] = StampMoment(q, g(j))
          /\ P[i + 1] = Stamp(g(j + 1)) /\ R[i + 1] = StampMoment(q, g(j + 1))
      BY <1>9, <3>1
    <3>3. /\ g(j) \in Nat /\ g(j) >= ts /\ g(j) < Limit(e) /\ g(j + 1) = g(j) + Second
          /\ g(j + 1) \in Nat /\ g(j + 1) < Limit(e) /\ g(j) < g(j + 1)
      BY <1>3, <3>1, HistNumbers DEF lim
    <3> DEFINE a == g(j)
               b == g(j + 1)
    <3> HIDE DEF a, b
    <3>4. /\ a \in Nat /\ a >= ts /\ a < Limit(e) /\ b = a + Second
          /\ b \in Nat /\ b < Limit(e) /\ a < b
      BY <3>3 DEF a, b
    <3>5. Follows(Stamp(b), StampMoment(q, a), StampMoment(q, b))
      BY <1>1, <1>4, <3>4, StampFollowsStamp
    <3>6. Near(Stamp(b), StampMoment(q, a))
      BY <1>1, <1>4, <3>4, StampNearStamp
    <3>7. Stamp(a).type # "end"
      BY StampParts
    <3> QED
      BY <3>2, <3>5, <3>6, <3>7 DEF a, b
  <2>5. CASE i = L + n /\ n # 0
    <3>1. n \in 1 .. n /\ i + 1 = L + n + 1
      BY <1>1, <1>3, <2>5
    <3>2. P[i] = Stamp(g(n)) /\ R[i] = StampMoment(q, g(n)) /\ P[i + 1] = e /\ R[i + 1] = r
      BY <1>7, <1>8, <1>9, <2>5, <3>1
    <3> DEFINE a == g(n)
    <3>3. a \in Nat /\ a < Limit(e) /\ a + Second >= Limit(e)
      BY <1>3, <3>1 DEF lim
    <3> HIDE DEF a
    <3>4. Follows(e, StampMoment(q, a), r)
      BY <1>1, <1>4, <3>3, EventFollowsStamp
    <3>5. Near(e, StampMoment(q, a))
      BY <1>1, <1>4, <3>3, EventNearStamp
    <3>6. Stamp(a).type # "end"
      BY StampParts
    <3> QED
      BY <3>2, <3>4, <3>5, <3>6 DEF a
  <2> QED
    BY <1>1, <1>3, <1>7, <2>1, <2>2, <2>3, <2>4, <2>5
<1>12. Begins(P[1], base) /\ R[1] = Beginning(base) /\ P[1] = l[1]
  <2>1. 1 \in 1 .. L
    BY <1>1
  <2>2. P[1] = l[1] /\ R[1] = H[1]
    BY <1>7, <1>8, <2>1
  <2> QED
    BY <2>2 DEF Tale
<1>13. Tale(base, P, R)
  <2>1. Len(R) = Len(P) /\ Len(P) >= 1
    BY <1>1, <1>3, <1>7, <1>8
  <2> QED
    BY <1>7, <1>8, <1>11, <1>12, <2>1 DEF Tale
<1>14. Dense(P, R)
  BY <1>11 DEF Dense
<1>15. R[Len(P)] = r /\ P[Len(P)] = e
  BY <1>7, <1>8
<1>16. \E S \in Seq(Moment) : Tale(base, P, S) /\ Dense(P, S) /\ S[Len(P)] = r
  BY <1>8, <1>13, <1>14, <1>15
<1>17. ts < Limit(e) => P[L + 1].type = "timestamp"
  <2> SUFFICES ASSUME ts < lim PROVE P[L + 1].type = "timestamp"
    BY DEF lim
  <2>1. 1 \in 1 .. n
    BY <1>2, <1>3 DEF lim
  <2>2. P[L + 1] = Stamp(ts)
    BY <1>3, <1>9, <2>1
  <2> QED
    BY <2>2, StampParts
<1>18. P \in Seq(Event) /\ Len(P) > L
  BY <1>1, <1>3, <1>7
<1> QED
  BY <1>12, <1>15, <1>16, <1>17, <1>18 DEF P, stamps, n, g, L, StampsOf

(* How a list of events is read: its first event, the others, its end.     *)
LEMMA NoStamps ==
  ASSUME NEW S, NEW l \in Seq(S), NEW m \in [1 .. 0 -> S], NEW e \in S
  PROVE  Join(l, m, e) = Append(l, e)
<1> DEFINE P == Join(l, m, e)
           A == Append(l, e)
<1>1. P \in Seq(S) /\ Spliced(P, l, 0, m, e)
  BY Joined
<1>2. A \in Seq(S) /\ Len(A) = Len(l) + 1 /\ A[Len(l) + 1] = e /\ \A i \in 1 .. Len(l) : A[i] = l[i]
  OBVIOUS
<1>3. Len(l) \in Nat
  OBVIOUS
<1> HIDE DEF P, A
<1>4. Len(P) = Len(A) /\ \A i \in 1 .. Len(P) : P[i] = A[i]
  <2>1. Len(P) = Len(l) + 1 /\ P[Len(l) + 1] = e /\ \A i \in 1 .. Len(l) : P[i] = l[i]
    BY <1>1, <1>3 DEF Spliced
  <2>2. ASSUME NEW i \in 1 .. Len(P) PROVE P[i] = A[i]
    <3>1. i = Len(l) + 1 \/ i \in 1 .. Len(l)
      BY <1>3, <2>1
    <3> QED
      BY <1>2, <2>1, <3>1
  <2> QED
    BY <1>2, <2>1, <2>2
<1>5. P = A
  BY <1>1, <1>2, <1>4, SeqEqual
<1> QED
  BY <1>5 DEF P, A

LEMMA StampsTyped ==
  ASSUME NEW ts \in Nat, NEW e \in Event
  PROVE  Seconds(ts, Limit(e)) \in Nat /\ StampsOf(ts, e) \in [1 .. Seconds(ts, Limit(e)) -> Event]
<1> DEFINE n == Seconds(ts, Limit(e))
           lim == Limit(e)
<1>1. Limit(e) \in Nat /\ Limit(e) <= Latest
  BY LimitDue
<1>2. n \in Nat /\ \A i \in 1 .. n : Nth(ts, i) \in Nat /\ Nth(ts, i) < lim
  <2>1. Counted(ts, lim, n)
    BY <1>1, StampCount
  <2> HIDE DEF n, lim
  <2> QED
    BY <2>1 DEF Counted
<1> HIDE DEF lim
<1>3. \A c \in Nat : c < lim => c \in 0 .. Latest
  BY <1>1, HistNumbers DEF lim
<1>4. \A c \in 0 .. Latest : Stamp(c) \in Event
  BY DEF Stamp, Event, Types
<1>5. \A i \in 1 .. n : Stamp(Nth(ts, i)) \in Event
  BY <1>2, <1>3, <1>4
<1> HIDE DEF n
<1>6. StampsOf(ts, e) = [i \in 1 .. n |-> Stamp(Nth(ts, i))]
  BY DEF StampsOf, n
<1> QED
  BY <1>2, <1>5, <1>6 DEF n

LEMMA StampedNext ==
  ASSUME NEW s \in ReadState(Event), ~ s.ended, s.ts # None, NEW e \in Event, e.type # "initial reset"
  PROVE  /\ Stamped(s, e).list = Join(s.list, StampsOf(s.ts, e), e)
         /\ Stamped(s, e).ts = NextTs(After(s.ts, e), e)
         /\ Stamped(s, e).ended <=> e.type = "end"
<1> DEFINE n == Seconds(s.ts, Limit(e))
           after == s.ts + n * Second
           l == s.list \o [i \in 1 .. n |-> [type |-> "timestamp", clk |-> s.ts + (i - 1) * Second]] \o <<e>>
           c == CASE e.type = "overflow" -> after - HistSub
                  [] e.type = "reset" -> after - e.clk
                  [] OTHER -> after
<1>1. Stamped(s, e) = [list |-> l, ts |-> c, ended |-> e.type = "end"]
  BY DEF Stamped, Seconds, Limit
<1>2. l = Join(s.list, StampsOf(s.ts, e), e)
  BY DEF Join, Stamp, Nth, StampsOf
<1> HIDE DEF l, n
<1>3. c = NextTs(After(s.ts, e), e)
  BY DEF NextTs, After, n
<1> HIDE DEF c
<1> DEFINE b == e.type = "end"
           t == Stamped(s, e)
<1>4. t = [list |-> l, ts |-> c, ended |-> b]
  BY <1>1 DEF b
<1> HIDE DEF t, b
<1>5. t.list = l /\ t.ts = c /\ (t.ended <=> b)
  BY <1>4
<1> QED
  BY <1>2, <1>3, <1>5 DEF t, b

LEMMA StampedFirst ==
  ASSUME NEW base, NEW e \in Event, Begins(e, base)
  PROVE  LET t == Stamped(Unread, e) IN
         /\ t.list = <<e>> /\ ~ t.ended
         /\ NextStamp(t.ts, Beginning(base))
         /\ e.type = "initial reset" => t.ts = 0
<1> DEFINE t == Stamped(Unread, e)
           q == Beginning(base)
           c == Shows(q, q.at)
<1>1. e.clk \in Nat /\ e.type \in Starts /\ base \in Base
  BY EventParts DEF Begins, Starts
<1>2. base.clk \in Nat /\ base.time \in Nat
  BY <1>1, MachNumbers DEF Base
<1>3. c = base.clk
  BY <1>2 DEF Beginning, Shows
<1> HIDE DEF c
<1>4. CASE e.type = "initial reset"
  <2> DEFINE none == <<>>
             one == Append(none, e)
             u == [list |-> none, ts |-> None, ended |-> FALSE]
  <2>1. t = [u EXCEPT !.list = Append(@, e), !.ts = 0] /\ ~ u.ended
    BY <1>4 DEF Stamped, Unread
  <2>6. u.list = none
    OBVIOUS
  <2> HIDE DEF none
  <2>7. t = [u EXCEPT !.list = one, !.ts = 0]
    BY <2>1, <2>6
  <2> HIDE DEF one
  <2>8. t.list = one /\ t.ts = 0 /\ ~ t.ended
    BY <2>7
  <2>2. t.list = <<e>> /\ t.ts = 0 /\ ~ t.ended
    BY <2>8 DEF one, none
  <2>3. c = ResetClk
    <3>1. e.type # "initial save"
      BY <1>4
    <3>2. base = PowerUp
      BY <3>1 DEF Begins
    <3>3. PowerUp.clk = ResetClk
      BY DEF PowerUp, Machine
    <3> QED
      BY <1>3, <3>2, <3>3
  <2>4. 0 <= c + Second - 1
    BY <2>3, HistNumbers
  <2>5. NextStamp(0, q)
    BY <2>3, <2>4 DEF NextStamp, c
  <2> QED
    BY <2>2, <2>5
<1>5. CASE e.type = "initial save"
  <2> DEFINE m == [i \in 1 .. 0 |-> [type |-> "timestamp", clk |-> e.clk + (i - 1) * Second]]
             none == <<>>
  <2>1. e.clk + 0 * Second = e.clk
    BY <1>1, HistNumbers
  <2> DEFINE d == e.clk
  <2>8. /\ e.type # "initial reset" /\ e.type # "overflow" /\ e.type # "reset" /\ e.type # "end"
    BY <1>5
  <2>11. d \in Nat
    BY <1>1
  <2>10. Unread.list = none /\ Unread.ts = None /\ ~ Unread.ended
    BY DEF Unread
  <2>9. d = e.clk /\ d + 0 * Second = d
    BY <2>1
  <2> HIDE DEF d
  <2>12. ~ (d > d)
    BY <2>11
  <2>2. t = [list |-> none \o m \o <<e>>, ts |-> e.clk, ended |-> FALSE]
    BY <2>8, <2>9, <2>10, <2>12 DEF Stamped
  <2>3. none \o m \o <<e>> = <<e>>
    <3>1. m \in [1 .. 0 -> Event] /\ none \in Seq(Event)
      OBVIOUS
    <3>3. Append(none, e) = <<e>> /\ Join(none, m, e) = none \o m \o <<e>>
      BY DEF Join
    <3> HIDE DEF m, none
    <3>2. Join(none, m, e) = Append(none, e)
      BY <3>1, NoStamps
    <3> QED
      BY <3>2, <3>3
  <2> HIDE DEF m, none
  <2>4. t.list = <<e>> /\ t.ts = e.clk /\ ~ t.ended
    BY <2>2, <2>3
  <2>5. e.clk = c
    BY <1>3, <1>5 DEF Begins
  <2>6. e.clk <= c + Second - 1 /\ e.clk >= c
    BY <1>1, <2>5, HistNumbers
  <2>7. NextStamp(e.clk, q)
    BY <1>1, <2>6 DEF NextStamp, c
  <2> QED
    BY <1>5, <2>4, <2>7
<1> QED
  BY <1>1, <1>4, <1>5 DEF Starts

LEMMA StampedSentinel ==
  ASSUME NEW s \in ReadState(Event), s.ts # None, ~ s.ended
  PROVE  Stamped(s, Sentinel).list = Append(s.list, Sentinel)
<1>1. Sentinel \in Event /\ Sentinel.type = "end" /\ Sentinel.clk = 0
  BY SentinelTyped
<1>2. Stamped(s, Sentinel).list = Join(s.list, StampsOf(s.ts, Sentinel), Sentinel)
  <2> DEFINE e == Sentinel
  <2>1. e \in Event /\ e.type # "initial reset"
    BY <1>1
  <2> HIDE DEF e
  <2>2. Stamped(s, e).list = Join(s.list, StampsOf(s.ts, e), e)
    BY <2>1, StampedNext
  <2> QED
    BY <2>2 DEF e
<1>3. s.ts \in Nat /\ s.list \in Seq(Event)
  BY HistNumbers DEF ReadState, HistClocks
<1>4. Seconds(s.ts, Limit(Sentinel)) = 0
  BY <1>1, <1>3 DEF Seconds, Limit
<1>5. StampsOf(s.ts, Sentinel) \in [1 .. 0 -> Event]
  BY <1>1, <1>3, <1>4, StampsTyped
<1> QED
  BY <1>1, <1>2, <1>3, <1>5, NoStamps

ResetFirst(l) == l[1].type = "initial reset"
StampSecond(l) == l[2].type = "timestamp"

(* What has been read of the events W, whose moments are Q: a dense tale.  *)
Restored(base, s, e, q) ==
  LET l == s.list IN
  \E H \in Seq(Moment) :
    /\ Tale(base, l, H) /\ Dense(l, H) /\ H[Len(l)] = q
    /\ NextStamp(s.ts, q)
    /\ s.ended <=> e.type = "end"
    /\ l[Len(l)].type = "end" <=> e.type = "end"
    /\ ResetFirst(l) /\ Len(l) = 1 => s.ts = 0
    /\ ResetFirst(l) /\ Len(l) > 1 => StampSecond(l)

LEMMA OneOrMore == \A k \in Nat : k >= 1 => k = 1 \/ k > 1
OBVIOUS

LEMMA TwoOf == \A k \in Nat : k > 1 => 2 \in 1 .. k
OBVIOUS

LEMMA FirstRestored ==
  ASSUME NEW base, NEW e \in Event, Begins(e, base), Beginning(base) \in Moment
  PROVE  LET t == Stamped(Unread, e) IN Restored(base, t, e, Beginning(base)) /\ t.list[1] = e
<1> DEFINE t == Stamped(Unread, e)
           l == <<e>>
           q == Beginning(base)
           H == <<q>>
<1>1. t.list = l /\ ~ t.ended /\ NextStamp(t.ts, q) /\ (e.type = "initial reset" => t.ts = 0)
  BY StampedFirst
<1>2. l \in Seq(Event) /\ Len(l) = 1 /\ l[1] = e /\ H \in Seq(Moment) /\ Len(H) = 1 /\ H[1] = q
  OBVIOUS
<1> HIDE DEF l, H, t, q
<1>3. Tale(base, l, H)
  BY <1>2 DEF Tale, q
<1>4. Dense(l, H)
  BY <1>2 DEF Dense
<1>8. e.type # "end"
  BY DEF Begins
<1>5. ~ (Len(l) > 1)
  BY <1>2
<1>7. l[Len(l)].type # "end" /\ H[Len(l)] = q /\ (ResetFirst(l) => t.ts = 0)
  BY <1>1, <1>2, <1>8 DEF ResetFirst
<1>6. Restored(base, t, e, q)
  BY <1>1, <1>2, <1>3, <1>4, <1>5, <1>7, <1>8 DEF Restored
<1> QED
  BY <1>1, <1>2, <1>6 DEF t, q

(* The first event after a reset comes later than the reset. *)
LEMMA AfterStart ==
  ASSUME NEW e \in Event, NEW r \in Moment, e.type # "timestamp", Follows(e, Beginning(PowerUp), r),
         Beginning(PowerUp) \in Moment
  PROVE  Limit(e) > 0
<1> DEFINE q == Beginning(PowerUp)
<1>1. q.next = 1 /\ q.off = ResetClk
  <2>1. PowerUp.time = 0 /\ PowerUp.clk = ResetClk
    BY DEF PowerUp, Machine
  <2> QED
    BY <2>1, HistNumbers DEF Beginning
<1>2. r.at >= q.next /\ r.at \in Nat
  BY MomentParts DEF Follows
<1>3. Shows(q, r.at) = DueAt(e) /\ DueAt(e) \in Nat
  BY Exactly
<1>4. DueAt(e) > 0
  BY <1>1, <1>2, <1>3, HistNumbers DEF Shows
<1>5. CASE e.type = "overflow"
  BY <1>5, HistNumbers DEF Limit
<1>6. CASE e.type # "overflow"
  BY <1>4, <1>6, LimitDue
<1> QED
  BY <1>5, <1>6

LEMMA NextRestored ==
  ASSUME NEW base, NEW s \in ReadState(Event), NEW d, NEW q \in Moment, Restored(base, s, d, q),
         d.type # "end", NEW e \in Event, e.type # "timestamp", NEW r \in Moment, Follows(e, q, r)
  PROVE  Restored(base, Stamped(s, e), e, r) /\ Stamped(s, e).list[1] = s.list[1]
<1> DEFINE l == s.list
           ts == s.ts
           t == Stamped(s, e)
           P == Join(l, StampsOf(ts, e), e)
<1>1. PICK H \in Seq(Moment) :
        /\ Tale(base, l, H) /\ Dense(l, H) /\ H[Len(l)] = q
        /\ NextStamp(ts, q)
        /\ ~ s.ended
        /\ l[Len(l)].type # "end"
        /\ ResetFirst(l) /\ Len(l) = 1 => ts = 0
        /\ ResetFirst(l) /\ Len(l) > 1 => StampSecond(l)
  BY DEF Restored
<1>2. ts \in Nat /\ ts # None /\ e.type \notin Starts
  <2>1. ts \in Nat
    BY <1>1 DEF NextStamp
  <2> HIDE DEF ts
  <2> QED
    BY <2>1 DEF None, Follows
<1>3. /\ t.list = P
      /\ t.ts = NextTs(After(ts, e), e)
      /\ t.ended <=> e.type = "end"
  <2>1. e.type # "initial reset" /\ ~ s.ended
    BY <1>1, <1>2 DEF Starts
  <2> QED
    BY <1>2, <2>1, StampedNext
<1> HIDE DEF t, P
<1>4. NextStamp(t.ts, r)
  <2> DEFINE after == After(ts, e)
  <2>1. Limit(e) \in Nat
    BY LimitDue
  <2>2. after \in Nat /\ after >= Limit(e) /\ (after = ts \/ after < Limit(e) + Second)
    <3>1. Counted(ts, Limit(e), Seconds(ts, Limit(e)))
      BY <1>2, <2>1, StampCount
    <3> QED
      BY <3>1 DEF After, Counted
  <2> HIDE DEF after, ts
  <2>4. NextStamp(NextTs(after, e), r)
    BY <1>1, <2>2, StampGoesOn
  <2> QED
    BY <1>3, <2>4 DEF after
<1> HIDE DEF ts, l
<1>5. /\ \E R \in Seq(Moment) : Tale(base, P, R) /\ Dense(P, R) /\ R[Len(P)] = r
      /\ P[Len(P)] = e /\ P[1] = l[1]
      /\ ts < Limit(e) => P[Len(l) + 1].type = "timestamp"
      /\ P \in Seq(Event) /\ Len(P) > Len(l)
  <2>1. Follows(e, H[Len(l)], r) /\ NextStamp(ts, H[Len(l)])
    BY <1>1
  <2> QED
    BY <1>1, <2>1, MoreTold DEF P
<1>6. l \in Seq(Event) /\ Len(l) \in Nat /\ Len(l) >= 1 /\ Len(P) \in Nat
  BY <1>1, <1>5, TaleParts
<1>7. ResetFirst(l) => StampSecond(P)
  <2> SUFFICES ASSUME ResetFirst(l) PROVE StampSecond(P)
    OBVIOUS
  <2>1. CASE Len(l) = 1
    <3>1. ts = 0 /\ q = Beginning(base) /\ base = PowerUp
      <4>1. l[1].type # "initial save" /\ Begins(l[1], base) /\ H[1] = Beginning(base)
        BY <1>1 DEF Tale, ResetFirst
      <4> QED
        BY <1>1, <2>1, <4>1 DEF Begins
    <3>2. Limit(e) > 0 /\ Limit(e) \in Nat
      BY <3>1, AfterStart, LimitDue
    <3>3. P[1 + 1].type = "timestamp"
      BY <1>5, <2>1, <3>1, <3>2
    <3>4. 1 + 1 = 2
      OBVIOUS
    <3> QED
      BY <3>3, <3>4, Zenon DEF StampSecond
  <2>2. CASE Len(l) > 1
    <3>1. P[2] = l[2]
      <4>1. Spliced(P, l, Seconds(ts, Limit(e)), StampsOf(ts, e), e)
        BY <1>2, <1>6, StampsTyped, Joined DEF P
      <4>2. 2 \in 1 .. Len(l)
        BY <1>6, <2>2, TwoOf
      <4> QED
        BY <4>1, <4>2 DEF Spliced
    <3>2. StampSecond(l)
      BY <1>1, <2>2
    <3> QED
      BY <3>1, <3>2 DEF StampSecond
  <2>3. Len(l) = 1 \/ Len(l) > 1
    BY <1>6, OneOrMore
  <2> QED
    BY <2>1, <2>2, <2>3, Zenon
<1>9. Restored(base, t, e, r)
  <2>1. PICK R \in Seq(Moment) : Tale(base, P, R) /\ Dense(P, R) /\ R[Len(P)] = r
    BY <1>5
  <2>2. t.list = P /\ (t.ended <=> e.type = "end") /\ (P[Len(P)].type = "end" <=> e.type = "end")
    BY <1>3, <1>5
  <2>3. Len(P) # 1
    BY <1>5, <1>6
  <2>4. ResetFirst(P) => StampSecond(P)
    BY <1>5, <1>7 DEF ResetFirst
  <2> QED
    BY <1>4, <2>1, <2>2, <2>3, <2>4 DEF Restored
<1> QED
  BY <1>3, <1>5, <1>9 DEF t, l

LEMMA ReadTale ==
  ASSUME NEW base, NEW W, NEW Q, Tale(base, W, Q), \A i \in 1 .. Len(W) : W[i].type # "timestamp"
  PROVE  \E V \in Seq(Event), H \in Seq(Moment) :
           /\ Tale(base, V, H) /\ Dense(V, H) /\ H[Len(V)] = Q[Len(W)]
           /\ V[Len(V)].type = "end" <=> W[Len(W)].type = "end"
           /\ V[1] = W[1]
           /\ ResetFirst(V) /\ Len(V) > 1 => StampSecond(V)
           /\ ReadModule(Append(W, Sentinel)).list =
                IF V[Len(V)].type = "end" THEN V ELSE Append(V, Sentinel)
<1> DEFINE N == Len(W)
           list == Append(W, Sentinel)
<1>1. /\ W \in Seq(Event) /\ Q \in Seq(Moment) /\ Len(Q) = N /\ N \in Nat /\ N >= 1
      /\ \A i \in 1 .. N : W[i] \in Event /\ Q[i] \in Moment
  BY TaleParts
<1>2. /\ list \in Seq(Event) /\ Len(list) = N + 1 /\ list[N + 1] = Sentinel
      /\ \A i \in 1 .. N : list[i] = W[i]
  BY <1>1, SentinelTyped
<1> HIDE DEF list
<1>3. PICK f \in [0 .. Len(list) -> ReadSafe(Event)] :
        /\ f[0] = Unread
        /\ \A n \in 1 .. Len(list) : f[n] = Stamped(f[n - 1], list[n])
        /\ ReadModule(list) = f[Len(list)]
  <2>1. Storable(Event)
    BY DEF Storable
  <2> QED
    BY <1>2, <2>1, ReadGoesOn
<1> HIDE DEF N
<1> DEFINE Good(n) == Restored(base, f[n], W[n], Q[n]) /\ f[n].list[1] = W[1]
           T == {m \in 0 .. N - 1 : Good(m + 1)}
<1>4. 0 \in T
  <2>1. 1 \in 1 .. N /\ 1 \in 1 .. Len(list) /\ 1 - 1 = 0 /\ 0 + 1 = 1 /\ 0 \in 0 .. N - 1
    BY <1>1, <1>2
  <2>2. f[1] = Stamped(Unread, W[1])
    <3>1. f[1] = Stamped(f[0], list[1])
      BY <1>3, <2>1
    <3> QED
      BY <1>2, <1>3, <2>1, <3>1
  <2>3. Begins(W[1], base) /\ Q[1] = Beginning(base)
    BY DEF Tale
  <2>4. Good(1)
    <3> DEFINE e == W[1]
    <3>1. e \in Event /\ Beginning(base) \in Moment /\ Begins(e, base)
      BY <1>1, <2>1, <2>3
    <3> HIDE DEF e
    <3>2. Restored(base, Stamped(Unread, e), e, Beginning(base)) /\ Stamped(Unread, e).list[1] = e
      BY <3>1, FirstRestored
    <3> QED
      BY <2>2, <2>3, <3>2 DEF e
  <2> HIDE DEF Good
  <2> QED
    BY <2>1, <2>4
<1>5. ASSUME NEW m \in 0 .. N - 1 - 1, m \in T PROVE m + 1 \in T
  <2> DEFINE n == m + 1
  <2>1. /\ n \in 1 .. N - 1 /\ n + 1 \in 1 .. N /\ n + 1 \in 1 .. Len(list) /\ (n + 1) - 1 = n
        /\ m + 1 \in 0 .. N - 1 /\ n \in 1 .. N /\ n \in 0 .. Len(list)
    BY <1>1, <1>2
  <2>2. Good(n)
    BY <1>5
  <2> SUFFICES Good(n + 1)
    BY <2>1
  <2> HIDE DEF n, T
  <2>3. f[n + 1] = Stamped(f[n], W[n + 1])
    <3>1. f[n + 1] = Stamped(f[n], list[n + 1])
      BY <1>3, <2>1
    <3> QED
      BY <1>2, <2>1, <3>1
  <2>4. /\ W[n].type # "end" /\ Follows(W[n + 1], Q[n], Q[n + 1])
        /\ W[n + 1] \in Event /\ W[n + 1].type # "timestamp" /\ Q[n] \in Moment /\ Q[n + 1] \in Moment
    <3>1. n \in 1 .. Len(W) - 1 /\ n + 1 \in 1 .. Len(W)
      BY <2>1 DEF N
    <3>2. W[n].type # "end" /\ Follows(W[n + 1], Q[n], Q[n + 1]) /\ W[n + 1].type # "timestamp"
      BY <3>1 DEF Tale
    <3> QED
      BY <1>1, <2>1, <3>2
  <2>5. f[n] \in ReadState(Event)
    BY <1>3, <2>1 DEF ReadSafe
  <2> DEFINE s == f[n]
             d == W[n]
             e == W[n + 1]
             q == Q[n]
             r == Q[n + 1]
  <2>6. /\ s \in ReadState(Event) /\ q \in Moment /\ Restored(base, s, d, q) /\ d.type # "end"
        /\ e \in Event /\ e.type # "timestamp" /\ r \in Moment /\ Follows(e, q, r)
        /\ f[n + 1] = Stamped(s, e) /\ s.list[1] = W[1]
    BY <2>2, <2>3, <2>4, <2>5
  <2> HIDE DEF s, d, e, q, r
  <2>7. Restored(base, Stamped(s, e), e, r) /\ Stamped(s, e).list[1] = s.list[1]
    BY <2>6, NextRestored
  <2> QED
    BY <2>6, <2>7 DEF e, r
<1>6. Good(N)
  <2> HIDE DEF T, Good
  <2>1. N - 1 \in Nat /\ (N - 1) + 1 = N
    BY <1>1
  <2>2. \A m \in 0 .. N - 1 : m \in T
    BY <1>4, <1>5, <2>1, UpTo
  <2>3. N - 1 \in T
    BY <2>1, <2>2
  <2> QED
    BY <2>1, <2>3 DEF T
<1> DEFINE s == f[N]
           V == s.list
<1>7. PICK H \in Seq(Moment) :
        /\ Tale(base, V, H) /\ Dense(V, H) /\ H[Len(V)] = Q[N]
        /\ NextStamp(s.ts, Q[N])
        /\ s.ended <=> W[N].type = "end"
        /\ V[Len(V)].type = "end" <=> W[N].type = "end"
        /\ ResetFirst(V) /\ Len(V) > 1 => StampSecond(V)
  BY <1>6 DEF Restored
<1>8. /\ ReadModule(list) = Stamped(s, Sentinel) /\ s \in ReadState(Event)
  <2>1. N + 1 \in 1 .. Len(list) /\ (N + 1) - 1 = N /\ N \in 0 .. Len(list)
    BY <1>1, <1>2
  <2> QED
    BY <1>2, <1>3, <2>1 DEF ReadSafe
<1>9. s.ts # None
  BY <1>7 DEF NextStamp, None
<1>10. V[1] = W[1]
  BY <1>6
<1> HIDE DEF s
<1>11. Stamped(s, Sentinel).list = IF V[Len(V)].type = "end" THEN V ELSE Append(V, Sentinel)
  <2>1. CASE s.ended
    <3>1. Stamped(s, Sentinel) = s
      BY <2>1 DEF Stamped
    <3>2. V[Len(V)].type = "end"
      BY <1>7, <2>1
    <3> QED
      BY <3>1, <3>2
  <2>2. CASE ~ s.ended
    <3>1. Stamped(s, Sentinel).list = Append(s.list, Sentinel)
      BY <1>8, <1>9, <2>2, StampedSentinel
    <3>2. ~ (V[Len(V)].type = "end")
      BY <1>7, <2>2
    <3> QED
      BY <3>1, <3>2
  <2> QED
    BY <2>1, <2>2
<1>12. V \in Seq(Event)
  BY <1>7, TaleParts
<1> HIDE DEF V
<1> QED
  BY <1>7, <1>8, <1>10, <1>11, <1>12 DEF list, N
=============================================================================
