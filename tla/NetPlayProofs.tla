---------------------------- MODULE NetPlayProofs ----------------------------
(***************************************************************************)
(* Theorems about network play: for any inputs, delays and bounds, and in  *)
(* any number of sessions, readers find what they wait for, the sync test  *)
(* passes, and the two processes implement LockStep.                       *)
(*                                                                         *)
(* The invariant says what a member of a session is, a function of what    *)
(* both have said (Member), that the wire carries the rest of it in order  *)
(* (Carries), and where the two are while they connect.                    *)
(***************************************************************************)
EXTENDS NetPlay, SequenceTheorems, TLAPS

-----------------------------------------------------------------------------
(***************************************************************************)
(* What is on the wire between two peers of a session.                     *)
(***************************************************************************)

(* num[i] is the number of the last list of log among the first i messages. *)
Numbered(num, log, ms) ==
  \A i \in 1 .. Len(ms) :
    \/ ms[i].kind = "mark" /\ num[i] = num[i - 1]
    \/ ms[i].kind = "frame" /\ num[i] = num[i - 1] + 1 /\ ms[i].list = log[num[i]]

(***************************************************************************)
(* The messages ms carry, in order and with marks in between, the lists of *)
(* log from after the c-th to the t-th.                                    *)
(***************************************************************************)
Talk(log, ms, c, t) ==
  \E num \in [0 .. Len(ms) -> 0 .. t] :
    num[0] = c /\ num[Len(ms)] = t /\ Numbered(num, log, ms)

(* On the wire is all that was said, unless the connection is gone. *)
Carries(log, ms, c, connected) ==
  \E t \in 0 .. Len(log) : Talk(log, ms, c, t) /\ (connected => t = Len(log))

(* An empty wire carries nothing. *)
LEMMA TalkNone ==
  ASSUME NEW log, NEW c \in Nat PROVE Talk(log, <<>>, c, c)
<1> DEFINE num == [i \in {0} |-> c]
<1>1. Len(<<>>) = 0 /\ 0 .. 0 = {0} /\ 1 .. 0 = {}
  OBVIOUS
<1>2. num \in [0 .. 0 -> 0 .. c] /\ num[0] = c
  BY <1>1
<1> HIDE DEF num
<1> QED
  BY <1>1, <1>2 DEF Talk, Numbered

(* A mark does not count. *)
LEMMA TalkMark ==
  ASSUME NEW log, NEW M, NEW ms \in Seq(M), NEW c \in Nat, NEW t \in Nat,
         NEW m \in M, m.kind = "mark", Talk(log, ms, c, t)
  PROVE  Talk(log, Append(ms, m), c, t)
<1>1. PICK num \in [0 .. Len(ms) -> 0 .. t] :
        num[0] = c /\ num[Len(ms)] = t /\ Numbered(num, log, ms)
  BY DEF Talk
<1> DEFINE ext == [i \in 0 .. Len(ms) + 1 |-> IF i <= Len(ms) THEN num[i] ELSE t]
           all == Append(ms, m)
<1>2. /\ Len(all) = Len(ms) + 1 /\ Len(ms) \in Nat
      /\ \A i \in 1 .. Len(ms) : all[i] = ms[i]
      /\ all[Len(ms) + 1] = m
  BY AppendProperties
<1>3. ext \in [0 .. Len(all) -> 0 .. t]
  BY <1>2
<1>4. ext[0] = c /\ ext[Len(all)] = t
  BY <1>1, <1>2
<1> HIDE DEF all
<1>5. ASSUME NEW i \in 1 .. Len(all)
      PROVE  \/ all[i].kind = "mark" /\ ext[i] = ext[i - 1]
             \/ all[i].kind = "frame" /\ ext[i] = ext[i - 1] + 1 /\ all[i].list = log[ext[i]]
  <2>1. CASE i \in 1 .. Len(ms)
    <3>1. ext[i] = num[i] /\ ext[i - 1] = num[i - 1] /\ all[i] = ms[i]
      BY <1>2, <2>1
    <3> HIDE DEF ext
    <3> QED
      BY <1>1, <2>1, <3>1 DEF Numbered
  <2>2. CASE i = Len(ms) + 1
    <3>1. ext[i] = t /\ ext[i - 1] = num[Len(ms)] /\ all[i] = m
      BY <1>2, <2>2
    <3> HIDE DEF ext
    <3> QED
      BY <1>1, <3>1
  <2> QED
    BY <1>2, <2>1, <2>2
<1> HIDE DEF ext
<1>6. Talk(log, all, c, t)
  BY <1>3, <1>4, <1>5 DEF Talk, Numbered
<1> QED
  BY <1>6 DEF all

(* The next list. *)
LEMMA TalkFrame ==
  ASSUME NEW log, NEW M, NEW ms \in Seq(M), NEW c \in Nat, NEW t \in Nat,
         NEW m \in M, m.kind = "frame", m.list = log[t + 1], Talk(log, ms, c, t)
  PROVE  Talk(log, Append(ms, m), c, t + 1)
<1>1. PICK num \in [0 .. Len(ms) -> 0 .. t] :
        num[0] = c /\ num[Len(ms)] = t /\ Numbered(num, log, ms)
  BY DEF Talk
<1> DEFINE ext == [i \in 0 .. Len(ms) + 1 |-> IF i <= Len(ms) THEN num[i] ELSE t + 1]
           all == Append(ms, m)
<1>2. /\ Len(all) = Len(ms) + 1 /\ Len(ms) \in Nat
      /\ \A i \in 1 .. Len(ms) : all[i] = ms[i]
      /\ all[Len(ms) + 1] = m
  BY AppendProperties
<1>3. ext \in [0 .. Len(all) -> 0 .. t + 1]
  BY <1>2
<1>4. ext[0] = c /\ ext[Len(all)] = t + 1
  BY <1>1, <1>2
<1> HIDE DEF all
<1>5. ASSUME NEW i \in 1 .. Len(all)
      PROVE  \/ all[i].kind = "mark" /\ ext[i] = ext[i - 1]
             \/ all[i].kind = "frame" /\ ext[i] = ext[i - 1] + 1 /\ all[i].list = log[ext[i]]
  <2>1. CASE i \in 1 .. Len(ms)
    <3>1. ext[i] = num[i] /\ ext[i - 1] = num[i - 1] /\ all[i] = ms[i]
      BY <1>2, <2>1
    <3> HIDE DEF ext
    <3> QED
      BY <1>1, <2>1, <3>1 DEF Numbered
  <2>2. CASE i = Len(ms) + 1
    <3>1. ext[i] = t + 1 /\ ext[i - 1] = num[Len(ms)] /\ all[i] = m
      BY <1>2, <2>2
    <3> HIDE DEF ext
    <3> QED
      BY <1>1, <3>1
  <2> QED
    BY <1>2, <2>1, <2>2
<1> HIDE DEF ext
<1>6. Talk(log, all, c, t + 1)
  BY <1>3, <1>4, <1>5 DEF Talk, Numbered
<1> QED
  BY <1>6 DEF all

(* The head of the wire is a mark, or the list after the c-th. *)
LEMMA TalkHead ==
  ASSUME NEW log, NEW M, NEW ms \in Seq(M), NEW c \in Nat, NEW t \in Nat,
         ms # <<>>, Talk(log, ms, c, t)
  PROVE  \/ Head(ms).kind = "mark" /\ Talk(log, Tail(ms), c, t)
         \/ /\ Head(ms).kind = "frame" /\ c + 1 <= t
            /\ Head(ms).list = log[c + 1] /\ Talk(log, Tail(ms), c + 1, t)
<1>1. PICK num \in [0 .. Len(ms) -> 0 .. t] :
        num[0] = c /\ num[Len(ms)] = t /\ Numbered(num, log, ms)
  BY DEF Talk
<1> DEFINE cut  == [i \in 0 .. Len(ms) - 1 |-> num[i + 1]]
           rest == Tail(ms)
<1>2. /\ rest \in Seq(M) /\ Len(rest) = Len(ms) - 1 /\ Len(ms) \in Nat \ {0}
      /\ \A i \in 1 .. Len(rest) : rest[i] = ms[i + 1]
      /\ Head(ms) = ms[1]
  BY HeadTailProperties, EmptySeq
<1> HIDE DEF rest
<1>3. cut \in [0 .. Len(rest) -> 0 .. t] /\ cut[Len(rest)] = t /\ cut[0] = num[1]
  BY <1>1, <1>2
<1>4. ASSUME NEW i \in 1 .. Len(rest)
      PROVE  \/ rest[i].kind = "mark" /\ cut[i] = cut[i - 1]
             \/ rest[i].kind = "frame" /\ cut[i] = cut[i - 1] + 1 /\ rest[i].list = log[cut[i]]
  <2>1. /\ cut[i] = num[i + 1] /\ cut[i - 1] = num[i] /\ rest[i] = ms[i + 1]
        /\ i + 1 \in 1 .. Len(ms) /\ (i + 1) - 1 = i
    BY <1>2
  <2> HIDE DEF cut
  <2> QED
    BY <1>1, <2>1 DEF Numbered
<1> HIDE DEF cut
<1>5. Talk(log, rest, num[1], t)
  BY <1>3, <1>4 DEF Talk, Numbered
<1>6. \/ ms[1].kind = "mark" /\ num[1] = c
      \/ ms[1].kind = "frame" /\ num[1] = c + 1 /\ ms[1].list = log[num[1]]
  <2>1. 1 \in 1 .. Len(ms) /\ 1 - 1 = 0
    BY <1>2
  <2> QED
    BY <1>1, <2>1 DEF Numbered
<1>7. num[1] <= t
  BY <1>1, <1>2
<1> QED
  BY <1>2, <1>5, <1>6, <1>7 DEF rest

(* What is carried is a matter of the lists up to the last one. *)
LEMMA TalkOf ==
  ASSUME NEW log, NEW log2, NEW ms, NEW c \in Nat, NEW t \in Nat, Talk(log, ms, c, t),
         Len(ms) \in Nat, \A j \in 1 .. t : log2[j] = log[j]
  PROVE  Talk(log2, ms, c, t)
<1>1. PICK num \in [0 .. Len(ms) -> 0 .. t] :
        num[0] = c /\ num[Len(ms)] = t /\ Numbered(num, log, ms)
  BY DEF Talk
<1>2. \A i \in 1 .. Len(ms) : num[i] \in 0 .. t /\ num[i - 1] \in 0 .. t
  BY <1>1
<1>3. \A i \in 1 .. Len(ms) : num[i] = num[i - 1] + 1 => log2[num[i]] = log[num[i]]
  BY <1>2
<1>4. Numbered(num, log2, ms)
  BY <1>1, <1>3 DEF Numbered
<1> QED
  BY <1>1, <1>4 DEF Talk

(* What is carried is carried with a mark behind it, ... *)
LEMMA CarryMark ==
  ASSUME NEW log, Len(log) \in Nat, NEW M, NEW ms \in Seq(M), NEW c \in Nat, NEW k,
         NEW m \in M, m.kind = "mark", Carries(log, ms, c, k)
  PROVE  Carries(log, Append(ms, m), c, k)
BY TalkMark DEF Carries

(* ... with the list that was said last, ... *)
LEMMA CarryFrame ==
  ASSUME NEW log, Len(log) \in Nat, NEW M, NEW ms \in Seq(M), NEW c \in Nat, NEW k,
         NEW log2, Len(log2) = Len(log) + 1, \A j \in 1 .. Len(log) : log2[j] = log[j],
         NEW m \in M, m.kind = "frame", m.list = log2[Len(log) + 1],
         Carries(log, ms, c, TRUE)
  PROVE  Carries(log2, Append(ms, m), c, k)
<1>1. Talk(log, ms, c, Len(log))
  BY DEF Carries
<1>2. Talk(log2, ms, c, Len(log)) /\ Len(ms) \in Nat
  BY <1>1, TalkOf, LenProperties
<1>3. Talk(log2, Append(ms, m), c, Len(log) + 1)
  BY <1>2, TalkFrame
<1> QED
  BY <1>3 DEF Carries

(* ... and when more was said that is lost. *)
LEMMA CarryLog ==
  ASSUME NEW log, Len(log) \in Nat, NEW M, NEW ms \in Seq(M), NEW c \in Nat, NEW k,
         NEW log2, Len(log2) \in Nat, Len(log) <= Len(log2),
         \A j \in 1 .. Len(log) : log2[j] = log[j],
         NEW k2, k2 => k /\ Len(log2) = Len(log),
         Carries(log, ms, c, k)
  PROVE  Carries(log2, ms, c, k2)
<1>1. PICK t \in 0 .. Len(log) : Talk(log, ms, c, t) /\ (k => t = Len(log))
  BY DEF Carries
<1>2. Len(ms) \in Nat /\ t \in Nat /\ \A j \in 1 .. t : log2[j] = log[j]
  BY <1>1, LenProperties
<1>3. Talk(log2, ms, c, t)
  BY <1>1, <1>2, TalkOf
<1>4. t \in 0 .. Len(log2) /\ (k2 => t = Len(log2))
  BY <1>1
<1> QED
  BY <1>3, <1>4 DEF Carries

(* What is read first is a mark, or the list after the c-th. *)
LEMMA CarryHead ==
  ASSUME NEW log, Len(log) \in Nat, NEW M, NEW ms \in Seq(M), NEW c \in Nat, NEW k,
         ms # <<>>, Carries(log, ms, c, k)
  PROVE  \/ Head(ms).kind = "mark" /\ Carries(log, Tail(ms), c, k)
         \/ /\ Head(ms).kind = "frame" /\ c + 1 <= Len(log)
            /\ Head(ms).list = log[c + 1] /\ Carries(log, Tail(ms), c + 1, k)
<1>1. PICK t \in 0 .. Len(log) : Talk(log, ms, c, t) /\ (k => t = Len(log))
  BY DEF Carries
<1>2. \/ Head(ms).kind = "mark" /\ Talk(log, Tail(ms), c, t)
      \/ /\ Head(ms).kind = "frame" /\ c + 1 <= t
         /\ Head(ms).list = log[c + 1] /\ Talk(log, Tail(ms), c + 1, t)
  <2>1. t \in Nat /\ Talk(log, ms, c, t)
    BY <1>1
  <2> QED
    BY <2>1, TalkHead
<1> QED
  BY <1>1, <1>2 DEF Carries

(* Nothing is carried when all was read, or when the rest is lost. *)
LEMMA CarryNone ==
  ASSUME NEW log, Len(log) \in Nat, NEW c \in 0 .. Len(log), NEW k, k => c = Len(log)
  PROVE  Carries(log, <<>>, c, k)
BY TalkNone DEF Carries

-----------------------------------------------------------------------------
(***************************************************************************)
(* What a session has executed, and what its peers have said.              *)
(***************************************************************************)

(* The machine after n frames of a session in which sd was said.           *)
Executed(sd, d, n) ==
  [i \in 1 .. n |-> IF i < d THEN <<>>
                    ELSE <<sd["server"][i - d + 1], sd["client"][i - d + 1]>>]

(* The frames that q has ended: its machine before it, and its list.       *)
Log(sd, d, q) ==
  [j \in 1 .. Len(sd[q]) |-> [sync |-> Executed(sd, d, j - 1), inputs |-> sd[q][j]]]

SaidType == [Peers -> Seq(Seq(Input))]

(* Both have said what is executed in the first n frames. *)
HeardUpTo(sd, d, n) == \A q \in Peers : n - d + 1 <= Len(sd[q])

(* Neither is more than the delay ahead. *)
Balanced(sd, d) == \A p \in Peers : Len(sd[p]) <= Len(sd[Other(p)]) + d

Says(sd, p, list) == [sd EXCEPT ![p] = Append(@, list)]

(* There are two peers. *)
LEMMA OtherPeer ==
  \A p \in Peers : Other(p) \in Peers /\ Other(p) # p /\ Other(Other(p)) = p
                   /\ \A q \in Peers : q = p \/ q = Other(p)
BY DEF Peers, Other

(* Saying a list puts it behind those that its peer has said. *)
LEMMA SaysMore ==
  ASSUME NEW sd \in SaidType, NEW p \in Peers, NEW list \in Seq(Input)
  PROVE  /\ Says(sd, p, list) \in SaidType
         /\ Len(Says(sd, p, list)[p]) = Len(sd[p]) + 1
         /\ Says(sd, p, list)[p][Len(sd[p]) + 1] = list
         /\ \A q \in Peers : /\ Len(sd[q]) \in Nat
                             /\ Len(Says(sd, p, list)[q]) >= Len(sd[q])
                             /\ \A j \in 1 .. Len(sd[q]) :
                                  Says(sd, p, list)[q][j] = sd[q][j]
                             /\ q # p => Says(sd, p, list)[q] = sd[q]
<1>1. \A q \in Peers : Says(sd, p, list)[q] = IF q = p THEN Append(sd[p], list) ELSE sd[q]
  BY DEF Says, SaidType
<1>2. \A q \in Peers : sd[q] \in Seq(Seq(Input)) /\ Len(sd[q]) \in Nat
  BY DEF SaidType
<1>3. /\ Append(sd[p], list) \in Seq(Seq(Input))
      /\ Len(Append(sd[p], list)) = Len(sd[p]) + 1
      /\ \A j \in 1 .. Len(sd[p]) : Append(sd[p], list)[j] = sd[p][j]
      /\ Append(sd[p], list)[Len(sd[p]) + 1] = list
  BY <1>2, AppendProperties
<1>4. Says(sd, p, list) \in SaidType
  BY <1>1, <1>2, <1>3 DEF Says, SaidType
<1>5. ASSUME NEW q \in Peers
      PROVE  /\ Len(sd[q]) \in Nat
             /\ Len(Says(sd, p, list)[q]) >= Len(sd[q])
             /\ \A j \in 1 .. Len(sd[q]) : Says(sd, p, list)[q][j] = sd[q][j]
             /\ q # p => Says(sd, p, list)[q] = sd[q]
  <2>1. CASE q = p
    <3>1. Says(sd, p, list)[p] = Append(sd[p], list) /\ Len(sd[p]) \in Nat
      BY <1>1, <1>2
    <3>2. Len(Says(sd, p, list)[p]) >= Len(sd[p])
      BY <1>3, <3>1
    <3>3. \A j \in 1 .. Len(sd[p]) : Says(sd, p, list)[p][j] = sd[p][j]
      BY <1>3, <3>1
    <3> QED
      BY <2>1, <3>1, <3>2, <3>3
  <2>2. CASE q # p
    BY <1>1, <1>2, <2>2
  <2> QED
    BY <2>1, <2>2
<1>6. Says(sd, p, list)[p] = Append(sd[p], list)
  BY <1>1
<1> QED
  BY <1>3, <1>4, <1>5, <1>6

(* What was executed stays so when more is said. *)
LEMMA ExecutedStays ==
  ASSUME NEW sd \in SaidType, NEW p \in Peers, NEW list \in Seq(Input),
         NEW d \in Nat, NEW n \in Int, HeardUpTo(sd, d, n)
  PROVE  Executed(Says(sd, p, list), d, n) = Executed(sd, d, n)
<1> DEFINE sd2 == Says(sd, p, list)
<1>1. "server" \in Peers /\ "client" \in Peers
  BY DEF Peers
<1>2. ASSUME NEW i \in 1 .. n, ~ (i < d), NEW q \in Peers
      PROVE  sd2[q][i - d + 1] = sd[q][i - d + 1]
  <2>1. i - d + 1 \in 1 .. Len(sd[q])
    BY <1>2, SaysMore DEF HeardUpTo
  <2> QED
    BY <2>1, SaysMore
<1> HIDE DEF sd2
<1>3. Executed(sd2, d, n) = Executed(sd, d, n)
  BY <1>1, <1>2 DEF Executed
<1> QED
  BY <1>3 DEF sd2

(* So do the frames that were ended. *)
LEMMA LogStays ==
  ASSUME NEW sd \in SaidType, NEW p \in Peers, NEW list \in Seq(Input),
         NEW d \in Nat \ {0}, NEW q \in Peers, Balanced(sd, d)
  PROVE  LET log == Log(sd, d, q)  log2 == Log(Says(sd, p, list), d, q) IN
         /\ Len(log) = Len(sd[q]) /\ Len(log) \in Nat
         /\ Len(log2) = Len(Says(sd, p, list)[q]) /\ Len(log2) \in Nat
         /\ \A j \in 1 .. Len(log) : log2[j] = log[j]
<1> DEFINE sd2 == Says(sd, p, list)
<1>0. /\ sd2 \in SaidType
      /\ \A r \in Peers : /\ Len(sd[r]) \in Nat /\ Len(sd2[r]) >= Len(sd[r])
                          /\ \A j \in 1 .. Len(sd[r]) : sd2[r][j] = sd[r][j]
  BY SaysMore
<1>1. /\ Len(sd[q]) \in Nat /\ Len(sd2[q]) \in Nat /\ Len(sd2[q]) >= Len(sd[q])
      /\ \A j \in 1 .. Len(sd[q]) : sd2[q][j] = sd[q][j]
  BY SMTT(30), <1>0 DEF SaidType
<1>2. ASSUME NEW j \in 1 .. Len(sd[q]) PROVE Executed(sd2, d, j - 1) = Executed(sd, d, j - 1)
  <2>1. \A r \in Peers : Len(sd[r]) \in Nat /\ Len(sd[q]) <= Len(sd[r]) + d
    <3> TAKE r \in Peers
    <3>1. r = q \/ r = Other(q)
      BY OtherPeer
    <3>2. Len(sd[q]) <= Len(sd[Other(q)]) + d
      BY DEF Balanced
    <3>3. Len(sd[r]) \in Nat
      BY <1>0
    <3> QED
      BY <1>1, <3>1, <3>2, <3>3
  <2>2. HeardUpTo(sd, d, j - 1) /\ j - 1 \in Int
    BY <1>1, <2>1 DEF HeardUpTo
  <2> QED
    BY <2>2, ExecutedStays
<1> HIDE DEF sd2
<1>3. Len(Log(sd, d, q)) = Len(sd[q]) /\ Len(Log(sd2, d, q)) = Len(sd2[q])
  BY <1>1 DEF Log
<1>4. \A j \in 1 .. Len(sd[q]) : Log(sd2, d, q)[j] = Log(sd, d, q)[j]
  BY <1>1, <1>2 DEF Log
<1> QED
  BY <1>1, <1>3, <1>4 DEF sd2

(* The next frame executes the next lists. *)
LEMMA ExecutedNext ==
  ASSUME NEW sd, NEW d \in Nat, NEW n \in Nat
  PROVE  /\ Len(Executed(sd, d, n)) = n
         /\ Executed(sd, d, n + 1)
              = Append(Executed(sd, d, n),
                       IF n + 1 < d THEN <<>>
                       ELSE <<sd["server"][n - d + 2], sd["client"][n - d + 2]>>)
<1> DEFINE f(i) == IF i < d THEN <<>>
                   ELSE <<sd["server"][i - d + 1], sd["client"][i - d + 1]>>
           U == {f(i) : i \in 1 .. n + 1}
<1>1. Executed(sd, d, n) = [i \in 1 .. n |-> f(i)]
      /\ Executed(sd, d, n + 1) = [i \in 1 .. n + 1 |-> f(i)]
  BY DEF Executed
<1>2. f(n + 1) = IF n + 1 < d THEN <<>>
                 ELSE <<sd["server"][n - d + 2], sd["client"][n - d + 2]>>
  BY n + 1 - d + 1 = n - d + 2
<1>3. \A i \in 1 .. n + 1 : f(i) \in U
  OBVIOUS
<1> HIDE DEF f, U
<1>4. Executed(sd, d, n) \in Seq(U) /\ Len(Executed(sd, d, n)) = n
  BY <1>1, <1>3
<1>5. Executed(sd, d, n + 1) \in Seq(U) /\ Len(Executed(sd, d, n + 1)) = n + 1
  BY <1>1, <1>3
<1>6. f(n + 1) \in U
  BY <1>3
<1> DEFINE e == Append(Executed(sd, d, n), f(n + 1))
<1>7. /\ e \in Seq(U) /\ Len(e) = n + 1 /\ e[n + 1] = f(n + 1)
      /\ \A i \in 1 .. n : e[i] = Executed(sd, d, n)[i]
  BY <1>4, <1>6, AppendProperties
<1> HIDE DEF e
<1>8. \A i \in 1 .. Len(e) : e[i] = Executed(sd, d, n + 1)[i]
  BY <1>1, <1>7
<1>9. e = Executed(sd, d, n + 1)
  BY <1>5, <1>7, <1>8, SeqEqual
<1> QED
  BY <1>2, <1>4, <1>9 DEF e

-----------------------------------------------------------------------------
(***************************************************************************)
(* The state of a process.                                                 *)
(***************************************************************************)

ListType == [sync : Seq(Seq(Seq(Input))), inputs : Seq(Input)]
Rings    == UNION {[0 .. d - 1 -> ListType] : d \in Deltas \cup {0}}

PeerType ==
  [mode      : {"idle", "server", "server_connected", "client"},
   pc        : {"run", "snapshot", "settings", "pong", "get_snapshot", "get_settings",
                "get_ping", "get_delta", "read", "down", "aborted", "crashed"},
   sock      : {"none", "open", "closed"},
   listen    : {"none", "open", "closed"},
   delta     : Deltas \cup {0},
   ring      : Rings,
   current   : Nat, toPlay : Nat, full : BOOLEAN, suspended : BOOLEAN,
   machine   : Seq(Seq(Seq(Input))),
   given     : Nat, marks : Nat,
   joined    : BOOLEAN]

(* The index after c in a ring of d lists. *)
After(d, c) == IF c + 1 = d THEN 0 ELSE c + 1

(* The ring and its indices fit together. *)
Intact(r) ==
  /\ r \in PeerType
  /\ r.ring \in [0 .. r.delta - 1 -> ListType]
  /\ \A i \in 0 .. r.delta - 1 : Len(r.ring[i].inputs) <= r.given
  /\ r.delta # 0 => r.current < r.delta
  /\ r.delta # 0 /\ (r.full \/ r.current # 0) => r.toPlay = After(r.delta, r.current)
  /\ r.delta = 0 => ~ r.full
  /\ r.pc = "read" => r.full

(* The modulo of the code steps through a ring. *)
LEMMA ModStep ==
  ASSUME NEW d \in Nat \ {0}, NEW c \in 0 .. d - 1
  PROVE  (c + 1) % d = After(d, c) /\ After(d, c) \in 0 .. d - 1
<1>1. CASE c + 1 = d
  <2>1. d % d = 0
    OBVIOUS
  <2> QED
    BY <1>1, <2>1 DEF After
<1>2. CASE c + 1 # d
  <2>1. c + 1 \in 0 .. d - 1
    BY <1>2
  <2>2. (c + 1) % d = c + 1
    BY <2>1
  <2> QED
    BY <1>2, <2>1, <2>2 DEF After
<1> QED
  BY <1>1, <1>2

(* An empty list of events, as a list. *)
LEMMA NoListType == NoList \in ListType /\ Len(NoList.inputs) = 0 /\ NoList.sync = <<>>
BY DEF NoList, ListType

(* A ring, as a ring of some delay. *)
LEMMA RingIn ==
  ASSUME NEW d \in Deltas \cup {0}, NEW f \in [0 .. d - 1 -> ListType]
  PROVE  f \in Rings
BY DEF Rings

(* A machine that has executed nothing, as a machine. *)
LEMMA NoMachine == <<>> \in Seq(Seq(Seq(Input)))
OBVIOUS

(* A delay is at least two frames. *)
LEMMA DeltaNat == \A d \in Deltas : d \in Nat /\ d >= 2
BY DeltaAssumption

(* A process that starts is intact. *)
LEMMA ProcessIntact == Intact(Process)
<1>1. Process.ring \in [0 .. 0 - 1 -> ListType]
  BY DEF Process
<1>2. Process.ring \in Rings
  BY <1>1, RingIn
<1>3. Process \in PeerType
  BY <1>2 DEF Process, PeerType
<1> QED
  BY <1>1, <1>3 DEF Process, Intact

(* A process that is gone. *)
LEMMA GoneIntact ==
  ASSUME NEW r, Intact(r), NEW how \in {"down", "aborted", "crashed"}
  PROVE  /\ Intact(Gone(r, how))
         /\ Gone(r, how).mode = "idle" /\ Gone(r, how).pc = how
         /\ Gone(r, how).sock = "none" /\ Gone(r, how).listen = "none"
         /\ Gone(r, how).joined = FALSE /\ Gone(r, how).given = 0
         /\ Gone(r, how).delta = r.delta
<1> DEFINE g == Gone(r, how)
           ring == [i \in DOMAIN r.ring |-> NoList]
<1>1. ring \in [0 .. r.delta - 1 -> ListType] /\ r.delta \in Deltas \cup {0}
      /\ \A i \in 0 .. r.delta - 1 : Len(ring[i].inputs) = 0
  BY NoListType DEF Intact, PeerType
<1>2. ring \in Rings
  BY <1>1, RingIn
<1>3. g = [Process EXCEPT !.pc = how, !.delta = r.delta, !.ring = ring]
  BY DEF Gone
<1> HIDE DEF ring, g
<1>4. g \in PeerType
  BY <1>1, <1>2, <1>3, ProcessIntact DEF Intact, PeerType
<1>5. /\ g.mode = "idle" /\ g.pc = how /\ g.sock = "none" /\ g.listen = "none"
      /\ g.delta = r.delta /\ g.ring = ring /\ g.current = 0 /\ g.full = FALSE
      /\ g.given = 0 /\ g.joined = FALSE
  BY <1>3 DEF Process
<1>6. Intact(g)
  BY <1>1, <1>4, <1>5, DeltaNat DEF Intact
<1> QED
  BY <1>5, <1>6 DEF g

(* A process that hung up, or died of it. *)
LEMMA DisconnectedIntact ==
  ASSUME NEW r, Intact(r)
  PROVE  /\ Intact(Disconnected(r))
         /\ Disconnected(r).mode \in {"idle", "server"}
         /\ Disconnected(r).mode = "server"
              => r.mode = "server_connected" /\ Disconnected(r).listen = r.listen
         /\ Disconnected(r).pc \in {r.pc, "aborted"}
         /\ ~ Stale(r) => Disconnected(r).pc = r.pc
         /\ Disconnected(r).sock # "open"
         /\ Disconnected(r).joined = FALSE
         /\ Disconnected(r).delta = r.delta
         /\ Disconnected(r).given <= r.given
<1>1. CASE Stale(r)
  <2>1. r.given >= 0
    BY DEF Intact, PeerType
  <2> QED
    BY <1>1, <2>1, GoneIntact DEF Disconnected
<1>2. CASE ~ Stale(r)
  <2> DEFINE g == Disconnected(r)
             s == Shut(r.sock)
             l == Shut(r.listen)
  <2>1. r \in PeerType
    BY DEF Intact
  <2>2. /\ s \in {"none", "open", "closed"} /\ s # "open"
        /\ l \in {"none", "open", "closed"} /\ l # "open"
    BY <2>1 DEF Shut, PeerType
  <2>3. \/ r.mode = "server_connected"
           /\ g = [r EXCEPT !.sock = s, !.joined = FALSE, !.mode = "server"]
        \/ r.mode # "server_connected"
           /\ g = [r EXCEPT !.sock = s, !.joined = FALSE, !.mode = "idle", !.listen = l]
    BY <1>2, <2>1 DEF Disconnected, PeerType
  <2> HIDE DEF g, s, l
  <2>4. /\ g \in PeerType
        /\ g.mode = (IF r.mode = "server_connected" THEN "server" ELSE "idle")
        /\ g.pc = r.pc /\ g.sock = s /\ g.joined = FALSE
        /\ g.listen = (IF r.mode = "server_connected" THEN r.listen ELSE l)
        /\ g.delta = r.delta /\ g.given = r.given /\ g.ring = r.ring
        /\ g.current = r.current /\ g.toPlay = r.toPlay /\ g.full = r.full
    <3>1. CASE r.mode = "server_connected"
      <4>1. g = [r EXCEPT !.sock = s, !.joined = FALSE, !.mode = "server"]
        BY <2>3, <3>1
      <4>2. g \in PeerType
        BY <2>1, <2>2, <4>1 DEF PeerType
      <4> QED
        BY <2>1, <3>1, <4>1, <4>2 DEF PeerType
    <3>2. CASE r.mode # "server_connected"
      <4>1. g = [r EXCEPT !.sock = s, !.joined = FALSE, !.mode = "idle", !.listen = l]
        BY <2>3, <3>2
      <4>2. g \in PeerType
        BY <2>1, <2>2, <4>1 DEF PeerType
      <4> QED
        BY <2>1, <3>2, <4>1, <4>2 DEF PeerType
    <3> QED
      BY <3>1, <3>2
  <2>5. Intact(g)
    BY <2>4 DEF Intact
  <2>6. r.given \in Nat
    BY <2>1 DEF PeerType
  <2> QED
    BY <2>2, <2>4, <2>5, <2>6 DEF g
<1> QED
  BY <1>1, <1>2

(* A process with new lists. *)
LEMMA WithListsIntact ==
  ASSUME NEW r, Intact(r), NEW d \in Deltas
  PROVE  LET w == WithLists(r, d) IN
         /\ Intact(w)
         /\ w.mode = r.mode /\ w.pc = "run" /\ w.sock = r.sock /\ w.listen = r.listen
         /\ w.delta = d /\ w.current = 0 /\ w.full = FALSE /\ w.machine = <<>>
         /\ w.given = 0 /\ w.joined = TRUE
         /\ \A i \in 0 .. d - 1 : w.ring[i] = NoList
<1> DEFINE w == WithLists(r, d)
           ring == [i \in 0 .. d - 1 |-> NoList]
<1>1. ring \in [0 .. d - 1 -> ListType] /\ \A i \in 0 .. d - 1 : ring[i] = NoList
  BY NoListType
<1>2. ring \in Rings
  BY <1>1, RingIn
<1> HIDE DEF ring
<1>3. r \in PeerType
  BY DEF Intact
<1>4. w = [r EXCEPT !.delta = d, !.ring = ring,
            !.current = 0, !.full = FALSE, !.machine = <<>>, !.given = 0, !.marks = 0,
            !.joined = TRUE, !.pc = "run"]
  BY DEF WithLists, ring
<1> DEFINE none == <<>>
<1> HIDE DEF w
<1>0. none \in Seq(Seq(Seq(Input))) /\ none = <<>>
  BY NoMachine
<1>9. w = [r EXCEPT !.delta = d, !.ring = ring,
            !.current = 0, !.full = FALSE, !.machine = none, !.given = 0, !.marks = 0,
            !.joined = TRUE, !.pc = "run"]
  BY <1>4
<1> HIDE DEF none
<1>5. /\ w \in PeerType
      /\ w.mode = r.mode /\ w.pc = "run" /\ w.sock = r.sock /\ w.listen = r.listen
      /\ w.delta = d /\ w.current = 0 /\ w.full = FALSE /\ w.machine = none
      /\ w.given = 0 /\ w.joined = TRUE /\ w.ring = ring
  BY <1>0, <1>2, <1>3, <1>9 DEF PeerType
<1>6. Intact(w)
  BY <1>1, <1>5, DeltaNat, NoListType DEF Intact
<1> QED
  BY <1>0, <1>1, <1>5, <1>6 DEF w

(* A process with its next frame prepared. *)
LEMMA PreparedIntact ==
  ASSUME NEW r, Intact(r), r.delta # 0, NEW played \in Seq(Seq(Input))
  PROVE  LET w == Prepared(r, played)
             c == After(r.delta, r.current) IN
         /\ Intact(w)
         /\ w.mode = r.mode /\ w.pc = "run" /\ w.sock = r.sock /\ w.listen = r.listen
         /\ w.delta = r.delta /\ w.full = r.full /\ w.given = r.given /\ w.joined = r.joined
         /\ w.machine = Append(r.machine, played) /\ w.current = c
         /\ w.ring[c].sync = Append(r.machine, played) /\ w.ring[c].inputs = <<>>
         /\ \A i \in 0 .. r.delta - 1 : i # c => w.ring[i] = r.ring[i]
<1> DEFINE w == Prepared(r, played)
           c == After(r.delta, r.current)
           p == After(r.delta, c)
           m == Append(r.machine, played)
           list == [NoList EXCEPT !.sync = m]
           ring == [r.ring EXCEPT ![c] = list]
<1>1. /\ r \in PeerType /\ r.delta \in Deltas /\ r.delta \in Nat \ {0}
      /\ r.current \in 0 .. r.delta - 1 /\ r.given \in Nat
      /\ r.ring \in [0 .. r.delta - 1 -> ListType]
  BY DeltaNat DEF Intact, PeerType
<1>2. /\ (r.current + 1) % r.delta = c /\ c \in 0 .. r.delta - 1
      /\ (c + 1) % r.delta = p /\ p \in 0 .. r.delta - 1
  BY <1>1, ModStep
<1>3. m \in Seq(Seq(Seq(Input)))
  BY <1>1, AppendProperties DEF PeerType
<1>4. w = [r EXCEPT !.current = c, !.toPlay = p, !.machine = m, !.ring[c] = list, !.pc = "run"]
  BY <1>1, <1>2 DEF Prepared
<1> HIDE DEF c, m, p, w
<1>5. list \in ListType /\ list.sync = m /\ list.inputs = <<>> /\ Len(list.inputs) = 0
  BY <1>3, NoListType DEF ListType, NoList
<1>6. w = [r EXCEPT !.current = c, !.toPlay = p, !.machine = m, !.ring = ring, !.pc = "run"]
  BY <1>1, <1>4 DEF PeerType
<1> HIDE DEF list
<1>7. /\ ring \in [0 .. r.delta - 1 -> ListType]
      /\ ring[c] = list /\ \A i \in 0 .. r.delta - 1 : i # c => ring[i] = r.ring[i]
  BY <1>1, <1>2, <1>5
<1>8. ring \in Rings
  BY <1>1, <1>7, RingIn
<1> HIDE DEF ring
<1>9. /\ w \in PeerType
      /\ w.mode = r.mode /\ w.pc = "run" /\ w.sock = r.sock /\ w.listen = r.listen
      /\ w.delta = r.delta /\ w.full = r.full /\ w.given = r.given /\ w.joined = r.joined
      /\ w.machine = m /\ w.current = c /\ w.toPlay = p
      /\ w.ring = ring
  <2>1. r \in PeerType /\ c \in Nat /\ p \in Nat
    BY <1>1, <1>2
  <2>2. w \in PeerType
    BY <2>1, <1>3, <1>6, <1>8 DEF PeerType
  <2>3. /\ w.mode = r.mode /\ w.pc = "run" /\ w.sock = r.sock /\ w.listen = r.listen
        /\ w.delta = r.delta /\ w.full = r.full /\ w.given = r.given
        /\ w.joined = r.joined
        /\ w.machine = m /\ w.current = c /\ w.toPlay = p
        /\ w.ring = ring
    BY <2>1, <1>6 DEF PeerType
  <2> QED
    BY <2>2, <2>3
<1>10. ASSUME NEW i \in 0 .. r.delta - 1 PROVE Len(ring[i].inputs) <= r.given
  <2>1. CASE i = c
    BY <1>1, <1>5, <1>7, <2>1
  <2>2. CASE i # c
    BY <1>7, <2>2 DEF Intact
  <2> QED
    BY <2>1, <2>2
<1>11. c < r.delta
  BY <1>1, <1>2
<1>12. Intact(w)
  <2>1. w.ring \in [0 .. w.delta - 1 -> ListType]
    BY <1>7, <1>9
  <2>2. \A i \in 0 .. w.delta - 1 : Len(w.ring[i].inputs) <= w.given
    BY <1>9, <1>10
  <2>3. w.current < w.delta /\ w.delta # 0 /\ w.pc # "read"
    BY <1>9, <1>11
  <2>4. w.toPlay = After(w.delta, w.current)
    BY <1>9 DEF p
  <2> QED
    BY <1>9, <2>1, <2>2, <2>3, <2>4 DEF Intact
<1> QED
  BY <1>5, <1>7, <1>9, <1>12 DEF w, m, c

-----------------------------------------------------------------------------
(***************************************************************************)
(* The lists of a member of a session.                                     *)
(***************************************************************************)

(* The lists of the other peer that are executed after n frames. *)
Taken(d, n) == IF n < d - 1 THEN 0 ELSE n - d + 1

(* The frame whose list is at x, when the list of frame n + 1 is at c. *)
FrameAt(d, n, c, x) == n + 1 - c + x - (IF x <= c THEN 0 ELSE d)

(* The lists of r are what p had executed, and what it said then; in the   *)
(* current frame it may not have said all of it.                           *)
Listed(p, r, sd, d, n) ==
  \A x \in 0 .. d - 1 : FrameAt(d, n, r.current, x) > 0 =>
    /\ r.ring[x].sync = Executed(sd, d, FrameAt(d, n, r.current, x) - 1)
    /\ x # r.current => r.ring[x].inputs = sd[p][FrameAt(d, n, r.current, x)]

(* After n frames, the ring is full but for the first ones. *)
Recorded(p, r, sd, d, n) ==
  /\ r.machine = Executed(sd, d, n)
  /\ n < d => r.current = n
  /\ r.full => n >= d - 1
  /\ n >= d => r.full
  /\ Listed(p, r, sd, d, n)

(* The current list is that of the next frame, the others are older. *)
LEMMA FrameBound ==
  ASSUME NEW d \in Nat, NEW n \in Nat, NEW c \in 0 .. d - 1, NEW x \in 0 .. d - 1
  PROVE  /\ FrameAt(d, n, c, x) \in Int /\ FrameAt(d, n, c, x) <= n + 1
         /\ x # c => FrameAt(d, n, c, x) <= n
         /\ x = c => FrameAt(d, n, c, x) = n + 1
BY DEF FrameAt

(* The lists of the other slots stay where they are. *)
LEMMA FrameStays ==
  ASSUME NEW d \in Nat, NEW n \in Nat, NEW c \in 0 .. d - 1, NEW x \in 0 .. d - 1,
         x # After(d, c)
  PROVE  FrameAt(d, n + 1, After(d, c), x) = FrameAt(d, n, c, x)
BY DEF FrameAt, After

(* The list that is played is that of d - 1 frames ago. *)
LEMMA FramePlayed ==
  ASSUME NEW d \in Nat, d >= 2, NEW n \in Nat, NEW c \in 0 .. d - 1
  PROVE  /\ FrameAt(d, n, c, After(d, c)) = n - d + 2
         /\ After(d, c) # c /\ After(d, c) \in 0 .. d - 1
BY DEF FrameAt, After

(* What is recorded stays so when a list is said, by q. *)
LEMMA ListedSays ==
  ASSUME NEW p \in Peers, NEW q \in Peers, NEW sd \in SaidType, NEW list \in Seq(Input),
         NEW d \in Nat, NEW n \in Nat, NEW r, r.current \in 0 .. d - 1,
         HeardUpTo(sd, d, n), Len(sd[p]) >= n, Listed(p, r, sd, d, n)
  PROVE  Listed(p, r, Says(sd, q, list), d, n)
<1> DEFINE sd2 == Says(sd, q, list)
           c == r.current
<1> SUFFICES ASSUME NEW x \in 0 .. d - 1, FrameAt(d, n, c, x) > 0
             PROVE  /\ r.ring[x].sync = Executed(sd2, d, FrameAt(d, n, c, x) - 1)
                    /\ x # c => r.ring[x].inputs = sd2[p][FrameAt(d, n, c, x)]
  BY DEF Listed
<1> DEFINE j == FrameAt(d, n, c, x)
<1>0. j > 0
  OBVIOUS
<1>2. r.ring[x].sync = Executed(sd, d, j - 1) /\ (x # c => r.ring[x].inputs = sd[p][j])
  BY DEF Listed
<1>a. c \in 0 .. d - 1
  OBVIOUS
<1> HIDE DEF c
<1>b. j \in Int /\ j <= n + 1 /\ (x # c => j <= n)
  BY <1>a, FrameBound
<1> HIDE DEF j
<1>1. j \in Nat /\ j >= 1 /\ j <= n + 1 /\ (x # c => j <= n)
  BY <1>0, <1>b
<1>3. \A o \in Peers : Len(sd[o]) \in Nat
  BY DEF SaidType
<1>4. HeardUpTo(sd, d, j - 1) /\ j - 1 \in Int
  BY <1>1, <1>3 DEF HeardUpTo
<1>5. Executed(sd2, d, j - 1) = Executed(sd, d, j - 1)
  BY <1>4, ExecutedStays
<1>6. ASSUME x # c PROVE sd2[p][j] = sd[p][j]
  <2>1. j \in 1 .. Len(sd[p])
    BY <1>1, <1>3, <1>6
  <2> QED
    BY <2>1, SaysMore
<1> QED
  BY <1>2, <1>5, <1>6 DEF j

(* ... and so does what the machine has executed. *)
LEMMA RecordedSays ==
  ASSUME NEW p \in Peers, NEW q \in Peers, NEW sd \in SaidType, NEW list \in Seq(Input),
         NEW d \in Nat, NEW n \in Nat, NEW r, r.current \in 0 .. d - 1,
         HeardUpTo(sd, d, n), Len(sd[p]) >= n, Recorded(p, r, sd, d, n)
  PROVE  Recorded(p, r, Says(sd, q, list), d, n)
<1>1. Listed(p, r, Says(sd, q, list), d, n)
  BY ListedSays DEF Recorded
<1>2. Executed(Says(sd, q, list), d, n) = Executed(sd, d, n)
  BY ExecutedStays
<1> QED
  BY <1>1, <1>2 DEF Recorded

(* The next frame, with w for r. *)
LEMMA RecordedNext ==
  ASSUME NEW p \in Peers, NEW sd, NEW d \in Nat, d >= 2, NEW n \in Nat, NEW r, NEW w,
         r.current \in 0 .. d - 1, Recorded(p, r, sd, d, n), n >= d - 1 => r.full,
         r.ring[r.current].inputs = sd[p][n + 1],
         w.machine = Executed(sd, d, n + 1), w.current = After(d, r.current),
         w.full = r.full, w.ring[w.current].sync = w.machine,
         \A i \in 0 .. d - 1 : i # w.current => w.ring[i] = r.ring[i]
  PROVE  Recorded(p, w, sd, d, n + 1)
<1> DEFINE c == r.current
<1>0. c \in 0 .. d - 1 /\ c = r.current
  OBVIOUS
<1> HIDE DEF c
<1>1. ASSUME NEW x \in 0 .. d - 1, FrameAt(d, n + 1, w.current, x) > 0
      PROVE  /\ w.ring[x].sync = Executed(sd, d, FrameAt(d, n + 1, w.current, x) - 1)
             /\ x # w.current
                  => w.ring[x].inputs = sd[p][FrameAt(d, n + 1, w.current, x)]
  <2>1. CASE x = w.current
    <3>1. FrameAt(d, n + 1, w.current, x) - 1 = n + 1
      <4>1. w.current \in 0 .. d - 1
        BY <2>1
      <4> QED
        BY <2>1, <4>1, FrameBound
    <3> QED
      BY <2>1, <3>1
  <2>2. CASE x # w.current
    <3>1. FrameAt(d, n + 1, w.current, x) = FrameAt(d, n, c, x)
      BY <1>0, <2>2, FrameStays
    <3>2. w.ring[x] = r.ring[x]
      BY <2>2
    <3>3. /\ r.ring[x].sync = Executed(sd, d, FrameAt(d, n, c, x) - 1)
          /\ x # c => r.ring[x].inputs = sd[p][FrameAt(d, n, c, x)]
      BY <1>0, <1>1, <3>1 DEF Recorded, Listed
    <3>4. x = c => FrameAt(d, n, c, x) = n + 1
      BY <1>0, FrameBound
    <3> QED
      BY <1>0, <3>1, <3>2, <3>3, <3>4
  <2> QED
    BY <2>1, <2>2
<1>2. Listed(p, w, sd, d, n + 1)
  BY <1>1 DEF Listed
<1>3. n + 1 < d => w.current = n + 1
  BY <1>0 DEF Recorded, After
<1>4. (w.full => n + 1 >= d - 1) /\ (n + 1 >= d => w.full)
  BY DEF Recorded
<1> QED
  BY <1>2, <1>3, <1>4 DEF Recorded

Role(p) == IF p = "server" THEN "server_connected" ELSE "client"

(***************************************************************************)
(* A member of a session of delay d: r is the process p, w what is on the  *)
(* wire to it, f what it sees of the other end.                            *)
(***************************************************************************)
Member(p, r, sd, d, w, f, lk) ==
  LET n == Len(r.machine) IN
  /\ r.mode = Role(p) /\ r.sock = "open" /\ r.pc \in {"run", "read"}
  /\ r.delta = d /\ d # 0
  /\ Recorded(p, r, sd, d, n)
  /\ r.pc = "read" => Len(sd[p]) = n + 1 /\ r.ring[r.current].inputs = sd[p][n + 1]
  /\ r.pc = "run" => \/ Len(sd[p]) = n
                     \/ Len(sd[p]) = n + 1 /\ f = "reset" /\ w = <<>>
  /\ n - d + 1 <= Len(sd[Other(p)])
  /\ Carries(Log(sd, d, Other(p)), w, Taken(d, n), lk)

(* The types of the parts of a process that has lists. *)
LEMMA IntactTypes ==
  ASSUME NEW r, Intact(r), r.delta # 0
  PROVE  /\ r.delta \in Deltas /\ r.delta \in Nat /\ r.delta >= 2
         /\ r.current \in 0 .. r.delta - 1 /\ r.given \in Nat /\ r.full \in BOOLEAN
         /\ r.machine \in Seq(Seq(Seq(Input))) /\ Len(r.machine) \in Nat
         /\ \A i \in 0 .. r.delta - 1 : /\ r.ring[i] \in ListType
                                        /\ r.ring[i].inputs \in Seq(Input)
                                        /\ Len(r.ring[i].inputs) \in Nat
                                        /\ Len(r.ring[i].inputs) <= r.given
<1>1. r \in PeerType /\ r.ring \in [0 .. r.delta - 1 -> ListType]
  BY DEF Intact
<1>2. r.delta \in Deltas /\ r.delta \in Nat /\ r.delta >= 2
  BY <1>1, DeltaNat DEF PeerType
<1>3. r.current \in Nat /\ r.current < r.delta
  BY <1>1 DEF PeerType, Intact
<1>4. \A i \in 0 .. r.delta - 1 : r.ring[i] \in ListType /\ Len(r.ring[i].inputs) <= r.given
  BY <1>1 DEF Intact
<1>5. \A l \in ListType : l.inputs \in Seq(Input) /\ Len(l.inputs) \in Nat
  BY DEF ListType
<1>6. r.given \in Nat /\ r.full \in BOOLEAN /\ r.machine \in Seq(Seq(Seq(Input)))
  BY <1>1 DEF PeerType
<1> QED
  BY <1>2, <1>3, <1>4, <1>5, <1>6

(* What was said is a sequence of lists. *)
LEMMA SaidTypes ==
  ASSUME NEW sd \in SaidType
  PROVE  \A q \in Peers : Len(sd[q]) \in Nat /\ sd[q] \in Seq(Seq(Input))
BY DEF SaidType

(* The log of a peer. *)
LEMMA LogType ==
  ASSUME NEW sd \in SaidType, NEW q \in Peers, NEW d
  PROVE  /\ Len(Log(sd, d, q)) = Len(sd[q]) /\ Len(Log(sd, d, q)) \in Nat
         /\ \A j \in 1 .. Len(sd[q]) :
              Log(sd, d, q)[j] = [sync |-> Executed(sd, d, j - 1), inputs |-> sd[q][j]]
BY SaidTypes DEF Log

(* The number of lists that were taken is a number. *)
LEMMA TakenNat ==
  ASSUME NEW d \in Nat, NEW n \in Nat
  PROVE  Taken(d, n) \in Nat
BY DEF Taken

(* Members of the same state, and a connection that may be gone. *)
LEMMA MemberSame ==
  ASSUME NEW p \in Peers, NEW r, Intact(r), NEW r2, NEW sd \in SaidType, NEW d, NEW w,
         NEW f, NEW f2, NEW lk, NEW lk2, Member(p, r, sd, d, w, f, lk),
         r2.mode = r.mode, r2.sock = r.sock, r2.pc = r.pc, r2.delta = r.delta,
         r2.machine = r.machine, r2.full = r.full, r2.current = r.current,
         \A x \in 0 .. d - 1 : /\ r2.ring[x].sync = r.ring[x].sync
                               /\ x # r.current \/ r.pc = "read"
                                    => r2.ring[x].inputs = r.ring[x].inputs,
         f = "reset" => f2 = "reset", lk2 => lk
  PROVE  Member(p, r2, sd, d, w, f2, lk2)
<1> DEFINE n == Len(r.machine)
<1>1. /\ Recorded(p, r, sd, d, n)
      /\ r.current \in 0 .. d - 1 /\ r.delta = d
      /\ Carries(Log(sd, d, Other(p)), w, Taken(d, n), lk)
  BY IntactTypes DEF Member
<1>2. Listed(p, r2, sd, d, n)
  BY <1>1 DEF Recorded, Listed
<1>3. Recorded(p, r2, sd, d, n)
  BY <1>1, <1>2 DEF Recorded
<1>4. Carries(Log(sd, d, Other(p)), w, Taken(d, n), lk2)
  BY <1>1 DEF Carries
<1>5. r.pc = "read" => r2.ring[r2.current].inputs = r.ring[r.current].inputs
  BY <1>1
<1> QED
  BY <1>3, <1>4, <1>5 DEF Member

(* A member with new lists. *)
LEMMA MemberFresh ==
  ASSUME NEW p \in Peers, NEW r, Intact(r), r.mode = Role(p), r.sock = "open",
         NEW d \in Deltas, NEW sd \in SaidType, Len(sd[p]) = 0, NEW w, NEW f, NEW lk,
         Carries(Log(sd, d, Other(p)), w, 0, lk)
  PROVE  Member(p, WithLists(r, d), sd, d, w, f, lk)
<1> DEFINE v == WithLists(r, d)
<1>1. /\ v.mode = r.mode /\ v.pc = "run" /\ v.sock = r.sock
      /\ v.delta = d /\ v.current = 0 /\ v.full = FALSE /\ v.machine = <<>>
      /\ \A i \in 0 .. d - 1 : v.ring[i] = NoList
  BY ZenonT(40), WithListsIntact
<1>2. Len(v.machine) = 0 /\ d \in Nat /\ d >= 2
  BY <1>1, DeltaNat
<1>3. Executed(sd, d, 0) = <<>>
  BY DEF Executed
<1> HIDE DEF v
<1>4. ASSUME NEW x \in 0 .. d - 1, FrameAt(d, 0, v.current, x) > 0
      PROVE  x = v.current /\ v.ring[x].sync = Executed(sd, d, FrameAt(d, 0, v.current, x) - 1)
  <2>1. x = 0 /\ FrameAt(d, 0, v.current, x) = 1
    BY <1>1, <1>2, <1>4 DEF FrameAt
  <2>2. v.ring[x].sync = <<>>
    BY <1>1, NoListType
  <2> QED
    BY <1>1, <1>3, <2>1, <2>2
<1>5. Listed(p, v, sd, d, 0)
  BY <1>4 DEF Listed
<1>6. Recorded(p, v, sd, d, 0)
  BY <1>1, <1>2, <1>3, <1>5 DEF Recorded
<1>7. Taken(d, 0) = 0 /\ 0 - d + 1 <= Len(sd[Other(p)])
  BY <1>2, OtherPeer, SaidTypes DEF Taken
<1>8. Member(p, v, sd, d, w, f, lk)
  BY <1>1, <1>2, <1>6, <1>7 DEF Member
<1> QED
  BY <1>8 DEF v

(* How far a member is, by what was said: never more than the delay ahead. *)
LEMMA MemberHeard ==
  ASSUME NEW p \in Peers, NEW r, Intact(r), NEW sd \in SaidType, NEW d, NEW w, NEW f,
         NEW lk, Member(p, r, sd, d, w, f, lk)
  PROVE  LET n == Len(r.machine) IN
         /\ d \in Nat /\ d >= 2 /\ n \in Nat /\ r.delta = d /\ r.current \in 0 .. d - 1
         /\ HeardUpTo(sd, d, n)
         /\ Len(sd[p]) >= n /\ Len(sd[p]) <= Len(sd[Other(p)]) + d
         /\ n >= d - 1 => r.full \/ r.current = d - 1
         /\ r.full => n >= d - 1
         /\ r.current = d - 1 => n >= d - 1
         /\ r.full \in BOOLEAN
<1> DEFINE n == Len(r.machine)
<1>1. /\ d \in Nat /\ d >= 2 /\ n \in Nat /\ r.delta = d /\ r.current \in 0 .. d - 1
      /\ r.full \in BOOLEAN
  BY IntactTypes DEF Member
<1>2. \A q \in Peers : Len(sd[q]) \in Nat
  BY SaidTypes
<1>3. /\ Len(sd[p]) = n \/ Len(sd[p]) = n + 1
      /\ n - d + 1 <= Len(sd[Other(p)])
      /\ n < d => r.current = n
      /\ r.full => n >= d - 1
      /\ n >= d => r.full
  BY DEF Member, Recorded
<1> HIDE DEF n
<1>4. Other(p) \in Peers /\ \A q \in Peers : q = p \/ q = Other(p)
  BY OtherPeer
<1>5. HeardUpTo(sd, d, n)
  BY <1>1, <1>2, <1>3, <1>4 DEF HeardUpTo
<1>6. Len(sd[p]) >= n /\ Len(sd[p]) <= Len(sd[Other(p)]) + d
  BY <1>1, <1>2, <1>3, <1>4
<1>7. /\ n >= d - 1 => r.full \/ r.current = d - 1
      /\ r.current = d - 1 => n >= d - 1
  BY <1>1, <1>3
<1> QED
  BY <1>1, <1>3, <1>5, <1>6, <1>7 DEF n

(* The other peer says a list, which gets to a member that is linked. *)
LEMMA MemberHears ==
  ASSUME NEW p \in Peers, NEW r, Intact(r), NEW sd \in SaidType, NEW d,
         NEW w \in Seq(Message), NEW f, NEW lk \in BOOLEAN, Member(p, r, sd, d, w, f, lk),
         NEW list \in Seq(Input),
         Balanced(sd, d), Balanced(Says(sd, Other(p), list), d), lk => f # "reset",
         NEW m \in Message, m.kind = "frame",
         m.list = [sync |-> Executed(sd, d, Len(sd[Other(p)])), inputs |-> list]
  PROVE  Member(p, r, Says(sd, Other(p), list), d, IF lk THEN Append(w, m) ELSE w, f, lk)
<1> DEFINE q == Other(p)
           n == Len(r.machine)
           sd2 == Says(sd, q, list)
           log == Log(sd, d, q)
           log2 == Log(sd2, d, q)
           w2 == IF lk THEN Append(w, m) ELSE w
<1>1. /\ d \in Nat \ {0} /\ n \in Nat /\ r.current \in 0 .. d - 1
      /\ HeardUpTo(sd, d, n) /\ Len(sd[p]) >= n
  BY MemberHeard
<1>2. q \in Peers /\ q # p
  BY OtherPeer
<1>3. /\ sd2 \in SaidType /\ Len(sd2[q]) = Len(sd[q]) + 1 /\ Len(sd[q]) \in Nat
      /\ sd2[p] = sd[p] /\ sd2[q][Len(sd[q]) + 1] = list
  BY <1>2, SaysMore
<1>4. Recorded(p, r, sd2, d, n)
  BY <1>1, <1>2, RecordedSays DEF Member
<1>5. /\ Len(log) = Len(sd[q]) /\ Len(log) \in Nat
      /\ Len(log2) = Len(sd2[q]) /\ Len(log2) \in Nat
      /\ \A j \in 1 .. Len(log) : log2[j] = log[j]
  BY SMTT(30), <1>1, <1>2, LogStays
<1>6. log2[Len(log) + 1] = m.list
  <2>1. Len(log) + 1 \in 1 .. Len(sd2[q])
    BY <1>3, <1>5
  <2>2. log2[Len(log) + 1] = [sync |-> Executed(sd2, d, Len(sd[q])), inputs |-> list]
    <3>1. log2[Len(log) + 1]
            = [sync |-> Executed(sd2, d, Len(log) + 1 - 1), inputs |-> sd2[q][Len(log) + 1]]
      BY <1>2, <1>3, <2>1, LogType
    <3>2. Len(log) + 1 - 1 = Len(sd[q])
      BY <1>3, <1>5
    <3> HIDE DEF log, log2
    <3> QED
      BY <1>3, <1>5, <3>1, <3>2
  <2>3. HeardUpTo(sd, d, Len(sd[q]))
    <3>1. Len(sd2[q]) <= Len(sd2[p]) + d
      BY <1>2, OtherPeer DEF Balanced
    <3>2. Len(sd[q]) - d + 1 <= Len(sd[p]) /\ Len(sd[q]) - d + 1 <= Len(sd[q])
      BY <1>1, <1>3, <3>1, SaidTypes
    <3> QED
      BY <3>2, OtherPeer DEF HeardUpTo
  <2> QED
    BY <1>1, <1>2, <1>3, <2>2, <2>3, ExecutedStays
<1> HIDE DEF log, log2
<1>7. Carries(log, w, Taken(d, n), lk) /\ Taken(d, n) \in Nat
  BY <1>1, TakenNat DEF Member, log
<1>8. Carries(log2, w2, Taken(d, n), lk)
  <2>1. CASE lk
    <3>1. Carries(log, w, Taken(d, n), TRUE)
      BY <1>7, <2>1 DEF Carries
    <3>2. Carries(log2, Append(w, m), Taken(d, n), lk)
      BY <1>3, <1>5, <1>6, <1>7, <3>1, CarryFrame
    <3> QED
      BY <2>1, <3>2
  <2>2. CASE ~ lk
    <3>1. Carries(log2, w, Taken(d, n), lk)
      BY <1>3, <1>5, <1>7, <2>2, CarryLog
    <3> QED
      BY <2>2, <3>1
  <2> QED
    BY <2>1, <2>2
<1>9. n - d + 1 <= Len(sd2[q])
  BY SMTT(30), <1>1, <1>2, <1>3 DEF HeardUpTo
<1>10. w = <<>> /\ f = "reset" => w2 = <<>>
  OBVIOUS
<1> HIDE DEF sd2, w2
<1>11. Member(p, r, sd2, d, w2, f, lk)
  <2>1. /\ r.mode = Role(p) /\ r.sock = "open" /\ r.pc \in {"run", "read"}
        /\ r.delta = d /\ d # 0
        /\ r.pc = "read" => Len(sd2[p]) = n + 1 /\ r.ring[r.current].inputs = sd2[p][n + 1]
        /\ r.pc = "run" => \/ Len(sd2[p]) = n
                           \/ Len(sd2[p]) = n + 1 /\ f = "reset" /\ w2 = <<>>
    BY <1>3, <1>10 DEF Member
  <2> QED
    BY <1>4, <1>8, <1>9, <2>1 DEF Member, log2
<1> QED
  BY <1>11 DEF sd2, w2

(* A list of the ring has no other fields. *)
LEMMA ListIs ==
  ASSUME NEW l \in ListType PROVE l = [sync |-> l.sync, inputs |-> l.inputs]
BY DEF ListType

(* The list of the current frame. *)
LEMMA MemberFrame ==
  ASSUME NEW p \in Peers, NEW r, Intact(r), NEW sd \in SaidType, NEW d, NEW w, NEW f,
         NEW lk, Member(p, r, sd, d, w, f, lk)
  PROVE  LET list == r.ring[r.current].inputs IN
         /\ list \in Seq(Input)
         /\ r.ring[r.current] = [sync |-> Executed(sd, d, Len(r.machine)), inputs |-> list]
<1> DEFINE n == Len(r.machine)
           c == r.current
<1>1. /\ d \in Nat /\ n \in Nat /\ r.delta = d /\ c \in 0 .. d - 1
  BY MemberHeard
<1>2. Listed(p, r, sd, d, n)
  BY DEF Member, Recorded
<1>3. r.delta # 0
  BY DEF Member
<1>4. r.ring[c] \in ListType /\ r.ring[c].inputs \in Seq(Input)
  BY <1>1, <1>3, IntactTypes
<1>5. r.ring[c].sync = Executed(sd, d, FrameAt(d, n, c, c) - 1) \/ ~ (FrameAt(d, n, c, c) > 0)
  BY <1>1, <1>2 DEF Listed
<1> HIDE DEF n, c
<1>6. FrameAt(d, n, c, c) = n + 1
  BY <1>1, FrameBound
<1>7. r.ring[c].sync = Executed(sd, d, n)
  BY <1>1, <1>5, <1>6
<1>8. r.ring[c] = [sync |-> Executed(sd, d, n), inputs |-> r.ring[c].inputs]
  BY <1>4, <1>7, ListIs
<1> QED
  BY <1>4, <1>8 DEF n, c

(* A member that goes on to receive. *)
LEMMA ReceivingIntact ==
  ASSUME NEW r, Intact(r), r.delta # 0, r.pc = "run"
  PROVE  LET v == Receiving(r)
             c == After(r.delta, r.current) IN
         /\ Intact(v)
         /\ v.mode = r.mode /\ v.sock = r.sock /\ v.listen = r.listen
         /\ v.delta = r.delta /\ v.given = r.given /\ v.joined = r.joined
         /\ \/ /\ r.full \/ r.current = r.delta - 1
               /\ v.full /\ v.pc = "read" /\ v.machine = r.machine
               /\ v.current = r.current /\ v.ring = r.ring
            \/ /\ ~ (r.full \/ r.current = r.delta - 1)
               /\ ~ v.full /\ v.pc = "run" /\ v.machine = Append(r.machine, <<>>)
               /\ v.current = c /\ v.ring[c].sync = v.machine /\ v.ring[c].inputs = <<>>
               /\ \A i \in 0 .. r.delta - 1 : i # c => v.ring[i] = r.ring[i]
<1> DEFINE full == r.full \/ r.current = r.delta - 1
           s == [r EXCEPT !.suspended = FALSE, !.full = full]
<1>1. /\ r \in PeerType /\ r.delta \in Nat /\ r.delta >= 2 /\ r.current \in 0 .. r.delta - 1
      /\ r.full \in BOOLEAN
  BY IntactTypes DEF Intact
<1>2. full \in BOOLEAN /\ Receiving(r) = IF full THEN [s EXCEPT !.pc = "read"]
                                                 ELSE Prepared(s, <<>>)
  BY DEF Receiving
<1> HIDE DEF full
<1>3. /\ s \in PeerType
      /\ s.mode = r.mode /\ s.pc = r.pc /\ s.sock = r.sock /\ s.listen = r.listen
      /\ s.delta = r.delta /\ s.ring = r.ring /\ s.current = r.current
      /\ s.toPlay = r.toPlay /\ s.full = full /\ s.machine = r.machine
      /\ s.given = r.given /\ s.joined = r.joined
  BY <1>1, <1>2 DEF PeerType
<1>4. full => r.full \/ r.current # 0
  BY <1>1 DEF full
<1> HIDE DEF s
<1>5. Intact(s)
  BY <1>3, <1>4 DEF Intact
<1>6. CASE full
  <2> DEFINE v == Receiving(r)
  <2>1. v = [s EXCEPT !.pc = "read"]
    BY <1>2, <1>6
  <2> HIDE DEF v
  <2>2. /\ v \in PeerType
        /\ v.mode = s.mode /\ v.pc = "read" /\ v.sock = s.sock /\ v.listen = s.listen
        /\ v.delta = s.delta /\ v.ring = s.ring /\ v.current = s.current
        /\ v.toPlay = s.toPlay /\ v.full = s.full /\ v.machine = s.machine
        /\ v.given = s.given /\ v.joined = s.joined
    BY <1>3, <2>1 DEF PeerType
  <2>3. Intact(v)
    BY <1>3, <1>5, <1>6, <2>2 DEF Intact
  <2> QED
    BY <1>3, <1>6, <2>2, <2>3 DEF v, full
<1>7. CASE ~ full
  <2> DEFINE none == <<>>
             v == Prepared(s, none)
             c == After(s.delta, s.current)
  <2>1. none \in Seq(Seq(Input)) /\ s.delta # 0
    BY <1>3
  <2> HIDE DEF none
  <2>2. /\ Intact(v)
        /\ v.mode = s.mode /\ v.pc = "run" /\ v.sock = s.sock /\ v.listen = s.listen
        /\ v.delta = s.delta /\ v.full = s.full /\ v.given = s.given
        /\ v.joined = s.joined
        /\ v.machine = Append(s.machine, none) /\ v.current = c
        /\ v.ring[c].sync = Append(s.machine, none) /\ v.ring[c].inputs = <<>>
        /\ \A i \in 0 .. s.delta - 1 : i # c => v.ring[i] = s.ring[i]
    BY <1>5, <2>1, PreparedIntact
  <2>3. v = Receiving(r) /\ c = After(r.delta, r.current)
    BY <1>2, <1>3, <1>7 DEF none
  <2> HIDE DEF c, v
  <2>4. v.machine = Append(r.machine, <<>>)
    BY <1>3, <2>2 DEF none
  <2> QED
    BY <1>3, <1>7, <2>2, <2>3, <2>4 DEF full
<1> QED
  BY <1>6, <1>7

(* A member ends its frame, and says its list. *)
LEMMA MemberSays ==
  ASSUME NEW p \in Peers, NEW r, Intact(r), r.pc = "run", NEW sd \in SaidType, NEW d,
         NEW w \in Seq(Message), NEW f, f # "reset", NEW f2, NEW lk \in BOOLEAN,
         Member(p, r, sd, d, w, f, lk), Balanced(sd, d)
  PROVE  LET list == r.ring[r.current].inputs
             sd2  == Says(sd, p, list) IN
         /\ Len(sd[p]) = Len(r.machine)
         /\ Balanced(sd2, d)
         /\ Member(p, Receiving(r), sd2, d, w, f2, lk)
<1> DEFINE n == Len(r.machine)
           c == r.current
           list == r.ring[c].inputs
           sd2 == Says(sd, p, list)
           q == Other(p)
           v == Receiving(r)
<1>1. /\ d \in Nat /\ d >= 2 /\ n \in Nat /\ r.delta = d /\ c \in 0 .. d - 1
      /\ HeardUpTo(sd, d, n) /\ Len(sd[p]) >= n
      /\ (n >= d - 1 <=> r.full \/ c = d - 1)
      /\ r.full \in BOOLEAN
  BY MemberHeard
<1>2. list \in Seq(Input)
  BY MemberFrame
<1>3. q \in Peers /\ q # p /\ Other(q) = p /\ \A o \in Peers : o = p \/ o = q
  BY OtherPeer
<1>4. Len(sd[p]) = n /\ Recorded(p, r, sd, d, n) /\ n - d + 1 <= Len(sd[q])
      /\ Carries(Log(sd, d, q), w, Taken(d, n), lk)
  BY DEF Member
<1> HIDE DEF n, list, v
<1>5. /\ sd2 \in SaidType /\ Len(sd2[p]) = n + 1 /\ sd2[p][n + 1] = list
      /\ sd2[q] = sd[q] /\ Len(sd[q]) \in Nat
  BY SMTT(30), <1>2, <1>3, <1>4, SaysMore
<1>6. Len(sd[q]) <= Len(sd[p]) + d
  BY <1>3 DEF Balanced
<1>7. Recorded(p, r, sd2, d, n)
  BY <1>1, <1>2, <1>4, RecordedSays
<1>8. Carries(Log(sd2, d, q), w, Taken(d, n), lk)
  <2>1. /\ Len(Log(sd, d, q)) \in Nat /\ Len(Log(sd2, d, q)) = Len(Log(sd, d, q))
        /\ \A j \in 1 .. Len(Log(sd, d, q)) : Log(sd2, d, q)[j] = Log(sd, d, q)[j]
    BY SMTT(30), <1>1, <1>2, <1>3, <1>5, LogStays
  <2> DEFINE log == Log(sd, d, q)
             log2 == Log(sd2, d, q)
  <2>2. /\ Len(log) \in Nat /\ Len(log2) \in Nat /\ Len(log) <= Len(log2)
        /\ Len(log2) = Len(log) /\ \A j \in 1 .. Len(log) : log2[j] = log[j]
    BY <2>1
  <2>3. Carries(log, w, Taken(d, n), lk) /\ Taken(d, n) \in Nat
    BY <1>1, <1>4, TakenNat
  <2> HIDE DEF log, log2
  <2>4. Carries(log2, w, Taken(d, n), lk)
    BY <2>2, <2>3, CarryLog
  <2> QED
    BY <2>4 DEF log2
<1> HIDE DEF sd2
<1>9. Balanced(sd2, d)
  <2>1. Len(sd2[p]) <= Len(sd2[q]) + d
    BY <1>1, <1>4, <1>5
  <2>2. Len(sd2[q]) <= Len(sd2[p]) + d
    BY <1>1, <1>4, <1>5, <1>6
  <2> QED
    BY <1>3, <2>1, <2>2 DEF Balanced
<1>10. Member(p, v, sd2, d, w, f2, lk)
  <2>0. r.delta # 0
    BY <1>1
  <2>1. CASE r.full \/ c = d - 1
    <3>1. /\ v.mode = r.mode /\ v.sock = r.sock /\ v.delta = d
          /\ v.full /\ v.pc = "read" /\ v.machine = r.machine
          /\ v.current = c /\ v.ring = r.ring
      BY <1>1, <2>0, <2>1, ReceivingIntact DEF v
    <3>2. Recorded(p, v, sd2, d, n)
      BY <1>1, <1>7, <2>1, <3>1 DEF Recorded, Listed
    <3>3. v.ring[v.current].inputs = sd2[p][n + 1]
      BY <1>5, <3>1 DEF list
    <3> QED
      BY <1>1, <1>4, <1>5, <1>8, <3>1, <3>2, <3>3 DEF Member, n
  <2>2. CASE ~ (r.full \/ c = d - 1)
    <3>1. /\ v.mode = r.mode /\ v.sock = r.sock /\ v.delta = d
          /\ ~ v.full /\ v.pc = "run" /\ v.machine = Append(r.machine, <<>>)
          /\ v.current = After(d, c) /\ v.ring[v.current].sync = v.machine
          /\ \A i \in 0 .. d - 1 : i # v.current => v.ring[i] = r.ring[i]
      BY <1>1, <2>0, <2>2, ReceivingIntact DEF v
    <3>2. Executed(sd2, d, n + 1) = Append(r.machine, <<>>) /\ Len(Executed(sd2, d, n + 1)) = n + 1
      <4>1. n + 1 < d
        BY <1>1, <2>2
      <4>2. /\ Len(Executed(sd2, d, n)) = n /\ Len(Executed(sd2, d, n + 1)) = n + 1
            /\ Executed(sd2, d, n + 1) = Append(Executed(sd2, d, n), <<>>)
        <5> DEFINE x == IF n + 1 < d THEN <<>>
                        ELSE <<sd2["server"][n - d + 2], sd2["client"][n - d + 2]>>
        <5>1. x = <<>>
          BY <4>1
        <5>2. /\ Len(Executed(sd2, d, n)) = n /\ Len(Executed(sd2, d, n + 1)) = n + 1
              /\ Executed(sd2, d, n + 1) = Append(Executed(sd2, d, n), x)
          <6>1. d \in Nat /\ n \in Nat /\ n + 1 \in Nat
            BY <1>1
          <6> QED
            BY <6>1, ExecutedNext
        <5> HIDE DEF x
        <5> QED
          BY <5>1, <5>2
      <4>3. r.machine = Executed(sd2, d, n)
        BY <1>7 DEF Recorded
      <4> QED
        BY <4>2, <4>3
    <3>3. v.full = r.full
      BY <2>2, <3>1, <2>0, ReceivingIntact, IntactTypes DEF v
    <3>4. Recorded(p, v, sd2, d, n + 1)
      <4>1. r.ring[r.current].inputs = sd2[p][n + 1] /\ (n >= d - 1 => r.full)
        BY <1>1, <1>5, <2>2 DEF list
      <4>2. v.machine = Executed(sd2, d, n + 1) /\ r.current \in 0 .. d - 1
        BY <1>1, <3>1, <3>2
      <4> QED
        BY <1>1, <1>7, <3>1, <3>3, <4>1, <4>2, RecordedNext
    <3>5. Len(v.machine) = n + 1
      BY <3>1, <3>2
    <3>6. Taken(d, n + 1) = Taken(d, n)
      BY <1>1, <2>2 DEF Taken
    <3>7. n + 1 - d + 1 <= Len(sd2[q])
      BY <1>1, <1>5, <2>2
    <3> QED
      BY <1>1, <1>5, <1>8, <3>1, <3>4, <3>5, <3>6, <3>7 DEF Member
  <2> QED
    BY <2>1, <2>2
<1> QED
  BY <1>4, <1>9, <1>10 DEF sd2, list, v, n

(* A frame of the delay executes nothing, ... *)
LEMMA ExecutedNothing ==
  ASSUME NEW sd, NEW d \in Nat, NEW n \in Nat, n + 1 < d
  PROVE  /\ Len(Executed(sd, d, n)) = n /\ Len(Executed(sd, d, n + 1)) = n + 1
         /\ Executed(sd, d, n + 1) = Append(Executed(sd, d, n), <<>>)
<1> DEFINE x == IF n + 1 < d THEN <<>>
                ELSE <<sd["server"][n - d + 2], sd["client"][n - d + 2]>>
<1>1. x = <<>>
  OBVIOUS
<1>2. /\ Len(Executed(sd, d, n)) = n /\ Len(Executed(sd, d, n + 1)) = n + 1
      /\ Executed(sd, d, n + 1) = Append(Executed(sd, d, n), x)
  <2>1. n + 1 \in Nat
    OBVIOUS
  <2> QED
    BY <2>1, ExecutedNext
<1> HIDE DEF x
<1> QED
  BY <1>1, <1>2

(* ... and another one what is due. *)
LEMMA ExecutedDue ==
  ASSUME NEW sd, NEW d \in Nat, NEW n \in Nat, n + 1 >= d
  PROVE  LET due == <<sd["server"][n - d + 2], sd["client"][n - d + 2]>> IN
         /\ Len(Executed(sd, d, n)) = n /\ Len(Executed(sd, d, n + 1)) = n + 1
         /\ Executed(sd, d, n + 1) = Append(Executed(sd, d, n), due)
<1> DEFINE due == <<sd["server"][n - d + 2], sd["client"][n - d + 2]>>
           x == IF n + 1 < d THEN <<>>
                ELSE <<sd["server"][n - d + 2], sd["client"][n - d + 2]>>
<1>1. x = due
  OBVIOUS
<1>2. /\ Len(Executed(sd, d, n)) = n /\ Len(Executed(sd, d, n + 1)) = n + 1
      /\ Executed(sd, d, n + 1) = Append(Executed(sd, d, n), x)
  <2>1. n + 1 \in Nat
    OBVIOUS
  <2> QED
    BY <2>1, ExecutedNext
<1> HIDE DEF x, due
<1>3. Executed(sd, d, n + 1) = Append(Executed(sd, d, n), due)
  BY <1>1, <1>2
<1> QED
  BY <1>2, <1>3 DEF due

(* A mark gets to a member, ... *)
LEMMA MemberMarked ==
  ASSUME NEW p \in Peers, NEW r, NEW sd \in SaidType, NEW d, NEW w \in Seq(Message),
         NEW f, f # "reset", NEW lk \in BOOLEAN, Member(p, r, sd, d, w, f, lk), Intact(r),
         NEW m \in Message, m.kind = "mark"
  PROVE  Member(p, r, sd, d, Append(w, m), f, lk)
<1> DEFINE n == Len(r.machine)
           log == Log(sd, d, Other(p))
<1>1. Carries(log, w, Taken(d, n), lk)
  BY DEF Member
<1>2. Taken(d, n) \in Nat /\ Len(log) \in Nat
  BY MemberHeard, TakenNat, OtherPeer, LogType
<1> HIDE DEF log
<1>3. Carries(log, Append(w, m), Taken(d, n), lk)
  BY <1>1, <1>2, CarryMark
<1> QED
  BY <1>3 DEF Member, log

(* ... and a member reads it. *)
LEMMA MemberReads ==
  ASSUME NEW p \in Peers, NEW r, Intact(r), r.pc = "read", NEW sd \in SaidType, NEW d,
         NEW w \in Seq(Message), w # <<>>, NEW f, NEW lk \in BOOLEAN,
         Member(p, r, sd, d, w, f, lk)
  PROVE  LET t == Taken(d, Len(r.machine))
             q == Other(p) IN
         \/ /\ Head(w).kind = "mark"
            /\ Member(p, r, sd, d, Tail(w), f, lk)
         \/ /\ Head(w).kind = "frame" /\ t + 1 <= Len(sd[q])
            /\ Head(w).list = [sync |-> Executed(sd, d, t), inputs |-> sd[q][t + 1]]
            /\ Carries(Log(sd, d, q), Tail(w), t + 1, lk)
<1> DEFINE n == Len(r.machine)
           q == Other(p)
           t == Taken(d, n)
           log == Log(sd, d, q)
<1>1. Carries(log, w, t, lk)
  BY DEF Member
<1>2. /\ t \in Nat /\ Len(log) = Len(sd[q]) /\ Len(log) \in Nat
      /\ \A j \in 1 .. Len(sd[q]) :
           log[j] = [sync |-> Executed(sd, d, j - 1), inputs |-> sd[q][j]]
  <2>1. d \in Nat /\ n \in Nat /\ q \in Peers
    BY MemberHeard, OtherPeer
  <2>2. t \in Nat
    BY <2>1, TakenNat
  <2> HIDE DEF n, q, t
  <2>3. \A o \in Peers :
          /\ Len(Log(sd, d, o)) = Len(sd[o]) /\ Len(Log(sd, d, o)) \in Nat
          /\ \A j \in 1 .. Len(sd[o]) :
               Log(sd, d, o)[j] = [sync |-> Executed(sd, d, j - 1), inputs |-> sd[o][j]]
    BY LogType
  <2> QED
    BY <2>1, <2>2, <2>3
<1>3. \A v : Carries(log, v, t, lk) => (r.pc = "read" => Member(p, r, sd, d, v, f, lk))
  BY DEF Member
<1> HIDE DEF log, t
<1>4. \/ Head(w).kind = "mark" /\ Carries(log, Tail(w), t, lk)
      \/ /\ Head(w).kind = "frame" /\ t + 1 <= Len(log)
         /\ Head(w).list = log[t + 1] /\ Carries(log, Tail(w), t + 1, lk)
  BY <1>1, <1>2, CarryHead
<1>5. t + 1 <= Len(log) => log[t + 1] = [sync |-> Executed(sd, d, t), inputs |-> sd[q][t + 1]]
  BY <1>2
<1> QED
  BY <1>2, <1>3, <1>4, <1>5 DEF log, t

(* What is behind a length cannot be read: the frame is not ended. *)
LEMMA MemberFails ==
  ASSUME NEW p \in Peers, NEW r, Intact(r), r.pc = "read", NEW sd \in SaidType, NEW d,
         NEW w, NEW lk, Member(p, r, sd, d, w, "reset", lk), NEW r2,
         r2.mode = r.mode, r2.sock = r.sock, r2.pc = "run", r2.delta = r.delta,
         r2.machine = r.machine, r2.full = r.full, r2.current = r.current,
         r2.ring = r.ring
  PROVE  Member(p, r2, sd, d, <<>>, "reset", FALSE)
<1> DEFINE n == Len(r.machine)
           q == Other(p)
           log == Log(sd, d, q)
<1>1. /\ Recorded(p, r, sd, d, n) /\ Len(sd[p]) = n + 1 /\ n - d + 1 <= Len(sd[q])
      /\ d \in Nat /\ n \in Nat
  BY MemberHeard DEF Member
<1>2. Recorded(p, r2, sd, d, n)
  BY <1>1 DEF Recorded, Listed
<1>3. Len(log) = Len(sd[q]) /\ Len(log) \in Nat
  BY OtherPeer, LogType
<1>4. Taken(d, n) \in 0 .. Len(log)
  BY <1>1, <1>3 DEF Taken
<1> HIDE DEF log
<1>5. Carries(log, <<>>, Taken(d, n), FALSE)
  <2> DEFINE k == FALSE
  <2>1. k => Taken(d, n) = Len(log)
    OBVIOUS
  <2> HIDE DEF k
  <2>2. Carries(log, <<>>, Taken(d, n), k)
    BY <1>3, <1>4, <2>1, CarryNone
  <2> QED
    BY <2>2 DEF k
<1> QED
  BY <1>1, <1>2, <1>5 DEF Member, log

(* The list that a member plays of its own. *)
LEMMA MemberPlays ==
  ASSUME NEW p \in Peers, NEW r, Intact(r), r.pc = "read", NEW sd \in SaidType, NEW d,
         NEW w, NEW f, NEW lk, Member(p, r, sd, d, w, f, lk)
  PROVE  LET n == Len(r.machine) IN
         /\ n >= d - 1 /\ Taken(d, n) = n - d + 1 /\ r.full
         /\ r.toPlay \in 0 .. d - 1 /\ r.ring[r.toPlay] \in ListType
         /\ r.ring[r.toPlay].sync = Executed(sd, d, Taken(d, n))
         /\ r.ring[r.toPlay].inputs = sd[p][Taken(d, n) + 1]
<1> DEFINE n == Len(r.machine)
           c == r.current
           a == After(d, c)
<1>1. /\ d \in Nat /\ d >= 2 /\ n \in Nat /\ r.delta = d /\ c \in 0 .. d - 1
  BY MemberHeard
<1>2. r.full /\ r.toPlay = a
  BY <1>1 DEF Intact
<1>3. n >= d - 1 /\ Listed(p, r, sd, d, n)
  BY <1>2 DEF Member, Recorded
<1>4. /\ r.ring[a].sync = Executed(sd, d, FrameAt(d, n, c, a) - 1) \/ ~ (FrameAt(d, n, c, a) > 0)
                                                               \/ a \notin 0 .. d - 1
      /\ r.ring[a].inputs = sd[p][FrameAt(d, n, c, a)] \/ ~ (FrameAt(d, n, c, a) > 0)
                                                 \/ a \notin 0 .. d - 1 \/ a = c
  BY <1>3 DEF Listed
<1>5. a \in 0 .. d - 1 => r.ring[a] \in ListType
  <2>1. r.delta # 0
    BY <1>1
  <2>2. \A i \in 0 .. r.delta - 1 : r.ring[i] \in ListType
    BY <2>1, IntactTypes
  <2> QED
    BY <1>1, <2>2
<1> HIDE DEF n, c, a
<1>6. FrameAt(d, n, c, a) = n - d + 2 /\ a # c /\ a \in 0 .. d - 1
  BY <1>1, FramePlayed DEF a
<1>7. Taken(d, n) = n - d + 1 /\ n - d + 2 > 0 /\ n - d + 2 - 1 = n - d + 1
      /\ n - d + 2 = n - d + 1 + 1
  BY <1>1, <1>3 DEF Taken
<1>8. r.ring[a].sync = Executed(sd, d, n - d + 1) /\ r.ring[a].inputs = sd[p][n - d + 1 + 1]
  <2>1. FrameAt(d, n, c, a) - 1 = n - d + 1 /\ FrameAt(d, n, c, a) = n - d + 1 + 1
    BY <1>1, <1>6
  <2>2. FrameAt(d, n, c, a) > 0 /\ a \in 0 .. d - 1 /\ a # c
    BY <1>1, <1>6, <1>7
  <2> QED
    BY <1>4, <2>1, <2>2
<1> QED
  BY <1>2, <1>3, <1>5, <1>6, <1>7, <1>8 DEF n

(* The frame is executed: what the two had said in it, in the order of the *)
(* server and the client.                                                  *)
LEMMA MemberExecutes ==
  ASSUME NEW p \in Peers, NEW r, Intact(r), r.pc = "read", NEW sd \in SaidType, NEW d,
         NEW w \in Seq(Message), w # <<>>, Head(w).kind = "frame", NEW f,
         NEW lk \in BOOLEAN, Member(p, r, sd, d, w, f, lk)
  PROVE  LET n == Len(r.machine)
             mine == r.ring[r.toPlay]
             theirs == Head(w).list
             lists == IF r.mode = "server_connected" THEN <<mine.inputs, theirs.inputs>>
                                                     ELSE <<theirs.inputs, mine.inputs>>
         IN  /\ theirs.sync = mine.sync
             /\ Len(sd[p]) = n + 1 /\ n + 1 >= d /\ n + 1 - d + 1 <= Len(sd[Other(p)])
             /\ lists = <<sd["server"][n - d + 2], sd["client"][n - d + 2]>>
             /\ lists \in Seq(Seq(Input))
             /\ Intact(Prepared(r, lists)) /\ Prepared(r, lists).given = r.given
             /\ Prepared(r, lists).joined = r.joined
             /\ Prepared(r, lists).machine = Append(r.machine, lists)
             /\ Member(p, Prepared(r, lists), sd, d, Tail(w), f, lk)
<1> DEFINE n == Len(r.machine)
           t == Taken(d, n)
           q == Other(p)
           mine == r.ring[r.toPlay]
           theirs == Head(w).list
           lists == IF r.mode = "server_connected" THEN <<mine.inputs, theirs.inputs>>
                                                   ELSE <<theirs.inputs, mine.inputs>>
           due == <<sd["server"][n - d + 2], sd["client"][n - d + 2]>>
           v == Prepared(r, lists)
<1>1. /\ d \in Nat /\ d >= 2 /\ n \in Nat /\ r.delta = d /\ r.current \in 0 .. d - 1
  BY MemberHeard
<1>2. /\ n >= d - 1 /\ t = n - d + 1 /\ r.full
      /\ mine.sync = Executed(sd, d, t) /\ mine.inputs = sd[p][t + 1]
  BY MemberPlays
<1>3. /\ t + 1 <= Len(sd[q])
      /\ theirs = [sync |-> Executed(sd, d, t), inputs |-> sd[q][t + 1]]
      /\ Carries(Log(sd, d, q), Tail(w), t + 1, lk)
  BY MemberReads
<1>4. /\ r.mode = Role(p) /\ r.sock = "open" /\ Recorded(p, r, sd, d, n)
      /\ Len(sd[p]) = n + 1 /\ r.ring[r.current].inputs = sd[p][n + 1]
  BY DEF Member
<1> HIDE DEF n, t
<1>5. t + 1 = n - d + 2 /\ t + 1 = n + 1 - d + 1 /\ t + 1 \in Nat /\ t + 1 >= 1
  BY <1>1, <1>2
<1>6. lists = due
  <2>1. (p = "server" /\ q = "client") \/ (p = "client" /\ q = "server")
    BY DEF Peers, Other
  <2>2. mine.inputs = sd[p][n - d + 2] /\ theirs.inputs = sd[q][n - d + 2]
    BY <1>2, <1>3, <1>5
  <2> HIDE DEF mine, theirs
  <2> QED
    BY <1>4, <2>1, <2>2 DEF Role
<1>7. lists \in Seq(Seq(Input))
  <2>1. \A o \in Peers : sd[o][n - d + 2] \in Seq(Input)
    <3> TAKE o \in Peers
    <3>1. sd[o] \in Seq(Seq(Input)) /\ Len(sd[o]) \in Nat /\ Len(sd[p]) \in Nat /\ Len(sd[q]) \in Nat
      BY SaidTypes, OtherPeer
    <3>2. n - d + 2 \in 1 .. Len(sd[o])
      <4>1. o = p \/ o = q
        BY OtherPeer
      <4> QED
        BY <1>1, <1>3, <1>4, <1>5, <3>1, <4>1
    <3> QED
      BY <3>1, <3>2
  <2>2. due \in Seq(Seq(Input))
    BY <2>1 DEF Peers
  <2> QED
    BY <1>6, <2>2
<1> HIDE DEF lists, v, mine, theirs
<1>8. /\ Intact(v)
      /\ v.mode = r.mode /\ v.pc = "run" /\ v.sock = r.sock
      /\ v.delta = d /\ v.full = r.full /\ v.given = r.given /\ v.joined = r.joined
      /\ v.machine = Append(r.machine, lists) /\ v.current = After(d, r.current)
      /\ v.ring[v.current].sync = v.machine
      /\ \A i \in 0 .. d - 1 : i # v.current => v.ring[i] = r.ring[i]
  <2> DEFINE c == After(r.delta, r.current)
  <2>1. r.delta # 0
    BY <1>1
  <2>2. /\ Intact(v)
        /\ v.mode = r.mode /\ v.pc = "run" /\ v.sock = r.sock
        /\ v.delta = r.delta /\ v.full = r.full /\ v.given = r.given
        /\ v.joined = r.joined
        /\ v.machine = Append(r.machine, lists) /\ v.current = c
        /\ v.ring[c].sync = Append(r.machine, lists)
        /\ \A i \in 0 .. r.delta - 1 : i # c => v.ring[i] = r.ring[i]
    BY <1>7, <2>1, PreparedIntact DEF v
  <2>3. c = After(d, r.current)
    BY <1>1
  <2> HIDE DEF c
  <2> QED
    BY <1>1, <2>2, <2>3
<1>9. Append(r.machine, lists) = Executed(sd, d, n + 1) /\ Len(Executed(sd, d, n + 1)) = n + 1
  <2>1. n + 1 >= d
    BY <1>1, <1>2
  <2>2. Executed(sd, d, n + 1) = Append(Executed(sd, d, n), due)
        /\ Len(Executed(sd, d, n + 1)) = n + 1
    BY <1>1, <2>1, ExecutedDue
  <2> HIDE DEF due
  <2> QED
    BY <1>4, <1>6, <2>2 DEF Recorded
<1>10. Recorded(p, v, sd, d, n + 1) /\ Len(v.machine) = n + 1
  <2>1. v.machine = Executed(sd, d, n + 1)
    BY <1>8, <1>9
  <2> QED
    BY <1>1, <1>2, <1>4, <1>8, <1>9, <2>1, RecordedNext
<1>11. Taken(d, n + 1) = t + 1
  BY <1>1, <1>2 DEF Taken
<1>12. Member(p, v, sd, d, Tail(w), f, lk)
  BY <1>1, <1>3, <1>4, <1>5, <1>8, <1>10, <1>11 DEF Member
<1>13. n + 1 >= d /\ n + 1 - d + 1 <= Len(sd[q]) /\ theirs.sync = mine.sync
  BY SMTT(30), <1>1, <1>2, <1>3, <1>5 DEF theirs
<1> QED
  BY <1>4, <1>6, <1>7, <1>8, <1>12, <1>13 DEF v, lists, mine, theirs, n

-----------------------------------------------------------------------------
(***************************************************************************)
(* The invariant.                                                          *)
(***************************************************************************)

D == peer["server"].delta

NetType ==
  /\ peer \in [Peers -> PeerType] /\ \A p \in Peers : Intact(peer[p])
  /\ wire \in [Peers -> Seq(Message)]
  /\ far \in [Peers -> {"open", "closed", "reset"}]
  /\ linked \in BOOLEAN /\ pending \in BOOLEAN /\ said \in SaidType
  /\ peer["server"].given + peer["client"].given <= MaxInputs
  /\ Balanced(said, D)

(* A connection has two ends, or its client waits for the server. *)
LineInv ==
  /\ linked => ~ pending /\ \A p \in Peers : peer[p].sock = "open" /\ far[p] = "open"
  /\ pending => /\ peer["client"].pc = "get_snapshot" /\ wire["client"] = <<>>
                /\ far["client"] = "open"

Serving    == {"snapshot", "settings", "pong"}
Connecting == {"get_snapshot", "get_settings", "get_ping", "get_delta"}

(* A server that connects a client finds nothing on its wire but the       *)
(* answer that it waits for, and the client does not wait for the delay.   *)
ServerInv ==
  LET s == peer["server"]  c == peer["client"] IN
  /\ s.mode \in {"idle", "server", "server_connected"} /\ s.pc \notin Connecting
  /\ s.mode # "idle" => s.listen = "open"
  /\ s.mode = "idle" => s.sock # "open"
  /\ s.mode = "server" /\ s.sock = "open" => wire["server"] = <<>>
  /\ s.pc \in Serving =>
       /\ s.sock = "open" /\ ~ s.joined /\ ~ c.joined
       /\ c.pc = "get_delta" => wire["client"] = <<>>
  /\ s.pc = "snapshot" => s.mode = "server"
  /\ s.pc \in {"settings", "pong"} => s.mode = "server_connected"
  /\ s.pc = "settings" => wire["server"] = <<>>
  /\ s.pc = "pong" => wire["server"] = <<>> \/ wire["server"] = <<[kind |-> "pong"]>>

(* On the wire to a client that connects is a part of the handshake; only  *)
(* behind the delay there are frames.                                      *)
Settings == <<[kind |-> "settings"], [kind |-> "ping"]>>

ClientInv ==
  LET c == peer["client"]  w == wire["client"] IN
  /\ c.mode \in {"idle", "client"} /\ c.pc \notin Serving
  /\ c.pc \in Connecting => c.sock = "open" /\ ~ c.joined
  /\ c.pc \in {"get_snapshot", "get_settings"} => c.mode = "idle"
  /\ c.pc \in {"get_ping", "get_delta"} => c.mode = "client"
  /\ c.pc = "get_snapshot" => \/ w = <<>> \/ w = <<[kind |-> "snapshot"]>>
                              \/ w = <<[kind |-> "snapshot"]>> \o Settings
  /\ c.pc = "get_settings" => w = <<>> \/ w = Settings
  /\ c.pc = "get_ping" => w = <<[kind |-> "ping"]>>
  /\ c.pc = "get_delta" /\ w # <<>> =>
       /\ Head(w) = [kind |-> "delta", delta |-> D] /\ D # 0
       /\ said["client"] = <<>>
       /\ Carries(Log(said, D, "server"), Tail(w), 0, linked)

(* Where the two ends of a connection are. *)
LinkedInv ==
  LET s == peer["server"]  c == peer["client"] IN
  linked =>
    \/ s.mode = "server" /\ c.pc = "get_snapshot" /\ wire["client"] = <<>>
    \/ /\ s.pc = "settings"
       /\ \/ c.pc = "get_snapshot" /\ wire["client"] = <<[kind |-> "snapshot"]>>
          \/ c.pc = "get_settings" /\ wire["client"] = <<>>
    \/ /\ s.pc = "pong"
       /\ IF c.pc = "get_delta"
          THEN wire["client"] = <<>> /\ wire["server"] = <<[kind |-> "pong"]>>
          ELSE wire["server"] = <<>>
    \/ s.joined /\ (c.joined \/ (c.pc = "get_delta" /\ wire["client"] # <<>>))

(* A process that is connected without the lists of the session knows that *)
(* its connection is gone.                                                 *)
LoneInv(p) ==
  /\ Connected(p) => peer[p].sock = "open"
  /\ Connected(p) /\ peer[p].pc \in {"run", "read"} /\ ~ peer[p].joined => far[p] = "reset"
  /\ At(p, "read") => peer[p].joined \/ peer[p].sock # "open"

JoinedInv(p) ==
  peer[p].joined => Member(p, peer[p], said, D, wire[p], far[p], linked)

NetInv ==
  /\ NetType /\ LineInv /\ ServerInv /\ ClientInv /\ LinkedInv
  /\ \A p \in Peers : LoneInv(p) /\ JoinedInv(p)

(* What is sent is a message. *)
LEMMA MessageTypes ==
  /\ \A k \in {"mark", "snapshot", "settings", "ping", "pong"} : [kind |-> k] \in Message
  /\ \A d \in Deltas : [kind |-> "delta", delta |-> d] \in Message
  /\ \A l \in ListType : [kind |-> "frame", list |-> l] \in Message
BY DEF Message, ListType

(* Where a member is. *)
LEMMA MemberIs ==
  ASSUME NEW p, NEW r, NEW sd, NEW d, NEW w, NEW f, NEW lk, Member(p, r, sd, d, w, f, lk)
  PROVE  r.mode = Role(p) /\ r.sock = "open" /\ r.pc \in {"run", "read"}
BY DEF Member

(* The invariant holds before any session. *)
LEMMA InitNet == Init => NetInv
<1> SUFFICES ASSUME Init PROVE NetInv
  OBVIOUS
<1>1. \A p \in Peers : peer[p] = Process /\ wire[p] = <<>> /\ far[p] = "closed" /\ said[p] = <<>>
  BY DEF Init
<1>2. "server" \in Peers /\ "client" \in Peers
  BY DEF Peers
<1>3. /\ Process.mode = "idle" /\ Process.pc = "run" /\ Process.sock = "none"
      /\ Process.delta = 0 /\ Process.given = 0 /\ Process.joined = FALSE
  BY DEF Process
<1>4. Process \in PeerType /\ Intact(Process)
  BY ProcessIntact DEF Intact
<1>5. NetType
  <2>1. peer \in [Peers -> PeerType] /\ \A p \in Peers : Intact(peer[p])
    BY <1>1, <1>4 DEF Init
  <2>2. /\ wire \in [Peers -> Seq(Message)]
        /\ far \in [Peers -> {"open", "closed", "reset"}]
        /\ said \in SaidType
    BY DEF Init, SaidType
  <2>3. peer["server"].given + peer["client"].given <= MaxInputs
    BY <1>1, <1>2, <1>3, BoundsAssumption
  <2>4. Balanced(said, D)
    BY <1>1, <1>2, <1>3, OtherPeer DEF Balanced, D
  <2> QED
    BY <2>1, <2>2, <2>3, <2>4 DEF Init, NetType
<1>6. LineInv /\ LinkedInv
  BY <1>1, <1>2, <1>3 DEF Init, LineInv, LinkedInv
<1>7. ServerInv
  BY <1>1, <1>2, <1>3 DEF ServerInv, Serving, Connecting
<1>8. ClientInv
  BY <1>1, <1>2, <1>3 DEF ClientInv, Serving, Connecting
<1>9. \A p \in Peers : LoneInv(p) /\ JoinedInv(p)
  BY <1>1, <1>3 DEF LoneInv, JoinedInv, Connected, At
<1> QED
  BY <1>5, <1>6, <1>7, <1>8, <1>9 DEF NetInv

-----------------------------------------------------------------------------
(* A process leaves, and its sockets are closed. *)
HungUp(p) ==
  /\ wire' = (IF peer[p].sock = "open" THEN [wire EXCEPT ![p] = <<>>] ELSE wire)
  /\ far' \in [Peers -> {"open", "closed", "reset"}]
  /\ \A q \in Peers : far[q] = "reset" => far'[q] = "reset"
  /\ linked' = FALSE /\ pending' \in BOOLEAN
  /\ pending' => pending /\ p = "server" /\ far'["client"] = far["client"]

(* A process that leaves takes nothing from the other but the connection. *)
LEMMA Leaving ==
  ASSUME NetInv, NEW p \in Peers, HungUp(p),
         peer' = [peer EXCEPT ![p] = peer'[p]], UNCHANGED said,
         Intact(peer'[p]), ~ peer'[p].joined, peer'[p].sock # "open",
         peer'[p].mode = "idle"
           \/ (p = "server" /\ peer'[p].mode = "server" /\ peer'[p].listen = "open"),
         peer'[p].delta = peer[p].delta, peer'[p].given <= peer[p].given,
         peer'[p].pc \notin Serving, peer'[p].pc \notin Connecting
  PROVE  NetInv'
<1> DEFINE q == Other(p)
<1>1. /\ q \in Peers /\ q # p /\ \A o \in Peers : o = p \/ o = q
      /\ "server" \in Peers /\ "client" \in Peers
      /\ (p = "server" /\ q = "client") \/ (p = "client" /\ q = "server")
  BY OtherPeer DEF Peers, Other
<1>2. NetType /\ LineInv /\ ServerInv /\ ClientInv /\ LinkedInv
      /\ \A o \in Peers : LoneInv(o) /\ JoinedInv(o)
  BY DEF NetInv
<1>3. /\ peer'[q] = peer[q] /\ wire'[q] = wire[q] /\ D' = D
      /\ wire'[p] = <<>> \/ wire'[p] = wire[p]
      /\ said' = said
  BY <1>1, <1>2 DEF NetType, HungUp, D
<1> HIDE DEF q
<1>4. NetType'
  <2>1. peer' \in [Peers -> PeerType] /\ \A o \in Peers : Intact(peer'[o])
    BY ZenonT(40), <1>1, <1>2, <1>3 DEF NetType, Intact
  <2>2. wire' \in [Peers -> Seq(Message)]
    BY <1>2 DEF NetType, HungUp
  <2>3. peer'["server"].given + peer'["client"].given <= MaxInputs
    <3>1. \A o \in Peers : peer[o].given \in Nat /\ peer'[o].given \in Nat
      BY <1>2, <2>1 DEF NetType, PeerType
    <3>2. peer["server"].given + peer["client"].given <= MaxInputs
      BY <1>2 DEF NetType
    <3> QED
      BY SMTT(30), <1>1, <1>3, <3>1, <3>2, BoundsAssumption
  <2> QED
    BY <1>2, <1>3, <2>1, <2>2, <2>3 DEF NetType, HungUp
<1>5. LineInv'
  BY <1>1, <1>2, <1>3 DEF LineInv, HungUp
<1>6. LinkedInv'
  BY DEF LinkedInv, HungUp
<1>7. ServerInv'
  BY <1>1, <1>2, <1>3 DEF ServerInv, Serving, Connecting
<1>8. ClientInv'
  <2>1. CASE p = "client"
    BY <1>1, <2>1 DEF ClientInv, Serving, Connecting
  <2>2. CASE p = "server"
    <3>1. peer'["client"] = peer["client"] /\ wire'["client"] = wire["client"]
      BY <1>1, <1>3, <2>2
    <3>2. \A log, w : Carries(log, w, 0, linked) => Carries(log, w, 0, FALSE)
      BY DEF Carries
    <3> QED
      BY ZenonT(40), <1>2, <1>3, <3>1, <3>2 DEF ClientInv, HungUp
  <2> QED
    BY <1>1, <2>1, <2>2
<1>9. \A o \in Peers : LoneInv(o)'
  BY <1>1, <1>2, <1>3 DEF LoneInv, Connected, At, HungUp
<1>10. \A o \in Peers : JoinedInv(o)'
  <2> SUFFICES ASSUME NEW o \in Peers, peer'[o].joined PROVE JoinedInv(o)'
    BY DEF JoinedInv
  <2>1. o = q
    BY <1>1
  <2>2. Member(q, peer[q], said, D, wire[q], far[q], linked) /\ Intact(peer[q])
    BY <1>1, <1>2, <1>3, <2>1 DEF JoinedInv, NetType
  <2> DEFINE lk == linked'
             f == far'[q]
  <2>3. (far[q] = "reset" => f = "reset") /\ (lk => linked) /\ said \in SaidType
    BY <1>1, <1>2 DEF HungUp, NetType
  <2> HIDE DEF lk, f
  <2>4. Member(q, peer[q], said, D, wire[q], f, lk)
    BY <1>1, <2>2, <2>3, MemberSame
  <2> QED
    BY <1>3, <2>1, <2>4 DEF JoinedInv, lk, f
<1> QED
  BY <1>4, <1>5, <1>6, <1>7, <1>8, <1>9, <1>10 DEF NetInv

(* Whatever p closes, it hangs up. *)
LEMMA ClosingHangs ==
  ASSUME NetInv, NEW p \in Peers,
         \/ HangsUp(p)
         \/ Closing(p, peer[p].sock = "open", peer[p].listen = "open")
         \/ p = "client" /\ peer[p].sock = "open" /\ Closing(p, TRUE, FALSE)
  PROVE  HungUp(p)
<1> DEFINE q == Other(p)
<1>1. q \in Peers /\ q # p
  BY OtherPeer
<1>2. /\ far \in [Peers -> {"open", "closed", "reset"}] /\ pending \in BOOLEAN
      /\ linked \in BOOLEAN
      /\ linked => peer[p].sock = "open" /\ ~ pending
      /\ pending /\ p = "client" => peer[p].sock = "open"
  BY DEF NetInv, NetType, LineInv, ClientInv, Connecting
<1>3. PICK shuts \in BOOLEAN :
        /\ wire' = IF peer[p].sock = "open" THEN [wire EXCEPT ![p] = <<>>] ELSE wire
        /\ far' = [far EXCEPT ![q] =
             IF (shuts /\ pending) \/ (peer[p].sock = "open" /\ linked /\ wire[p] # <<>>)
             THEN "reset"
             ELSE IF peer[p].sock = "open" /\ linked /\ @ = "open" THEN "closed" ELSE @]
        /\ linked' = (linked /\ ~ (peer[p].sock = "open"))
        /\ pending' = (pending /\ ~ shuts /\ ~ (peer[p].sock = "open" /\ p = "client"))
  <2>1. CASE HangsUp(p)
    <3> DEFINE shuts == peer[p].listen = "open"
                          /\ (Stale(peer[p]) \/ peer[p].mode # "server_connected")
    <3>1. shuts \in BOOLEAN
      OBVIOUS
    <3> QED
      BY <2>1, <3>1 DEF HangsUp, Closing
  <2>2. CASE Closing(p, peer[p].sock = "open", peer[p].listen = "open")
    <3> DEFINE shuts == peer[p].listen = "open"
    <3>1. shuts \in BOOLEAN
      OBVIOUS
    <3> QED
      BY <2>2, <3>1 DEF Closing
  <2>3. CASE p = "client" /\ peer[p].sock = "open" /\ Closing(p, TRUE, FALSE)
    BY <2>3 DEF Closing
  <2> QED
    BY <2>1, <2>2, <2>3
<1>4. far' \in [Peers -> {"open", "closed", "reset"}]
      /\ \A o \in Peers : far[o] = "reset" => far'[o] = "reset"
  BY <1>1, <1>2, <1>3
<1>5. linked' = FALSE /\ pending' \in BOOLEAN
  BY <1>2, <1>3
<1>6. pending' => pending /\ p = "server" /\ far'["client"] = far["client"]
  <2>1. pending' => pending /\ ~ shuts /\ ~ linked /\ p # "client"
    BY <1>2, <1>3
  <2>2. pending' => far' = [far EXCEPT ![q] = far[q]]
    BY <1>3, <2>1
  <2> QED
    BY <1>1, <1>2, <2>1, <2>2 DEF Peers
<1> QED
  BY <1>3, <1>4, <1>5, <1>6 DEF HungUp

(* The process p, and its successor. *)
LEMMA PeerFacts ==
  ASSUME NetInv, NEW p \in Peers
  PROVE  /\ peer[p] \in PeerType /\ Intact(peer[p])
         /\ peer[p].delta = 0 \/ peer[p].delta \in Deltas
         /\ peer[p].pc = "run" \/ peer[p].pc = "read" =>
              peer[p].pc \notin Serving /\ peer[p].pc \notin Connecting
BY DEF NetInv, NetType, PeerType, Serving, Connecting

(* What a process is when it has hung up. *)
LEMMA DisconnectedLeft ==
  ASSUME NetInv, NEW p \in Peers
  PROVE  LET r == Disconnected(peer[p]) IN
         /\ Intact(r) /\ ~ r.joined /\ r.sock # "open"
         /\ r.mode = "idle" \/ (p = "server" /\ r.mode = "server" /\ r.listen = "open")
         /\ r.delta = peer[p].delta /\ r.given <= peer[p].given
         /\ r.pc = peer[p].pc \/ r.pc = "aborted"
         /\ ~ Stale(peer[p]) => r.pc = peer[p].pc
<1> DEFINE r == Disconnected(peer[p])
<1>1. /\ Intact(r) /\ r.mode \in {"idle", "server"}
      /\ r.mode = "server" => peer[p].mode = "server_connected" /\ r.listen = peer[p].listen
      /\ r.pc \in {peer[p].pc, "aborted"} /\ (~ Stale(peer[p]) => r.pc = peer[p].pc)
      /\ r.sock # "open" /\ r.joined = FALSE
      /\ r.delta = peer[p].delta /\ r.given <= peer[p].given
  BY PeerFacts, DisconnectedIntact
<1>2. peer[p].mode = "server_connected" => p = "server" /\ peer[p].listen = "open"
  BY DEF NetInv, ServerInv, ClientInv, Peers
<1> HIDE DEF r
<1> QED
  BY <1>1, <1>2 DEF r

(* A process that ends leaves. *)
LEMMA GoneLeft ==
  ASSUME NetInv, NEW p \in Peers, NEW how \in {"down", "aborted", "crashed"}, Ends(p, how),
         UNCHANGED said
  PROVE  NetInv'
<1> DEFINE r == Gone(peer[p], how)
<1>1. /\ Intact(r) /\ r.mode = "idle" /\ r.pc = how /\ r.sock = "none"
      /\ r.joined = FALSE /\ r.given = 0 /\ r.delta = peer[p].delta
  BY ZenonT(40), PeerFacts, GoneIntact
<1>2. HungUp(p)
  BY ClosingHangs DEF Ends
<1>3. peer' = [peer EXCEPT ![p] = r]
  BY DEF Ends
<1> HIDE DEF r
<1>4. peer'[p] = r /\ peer' = [peer EXCEPT ![p] = peer'[p]]
  BY <1>3 DEF NetInv, NetType
<1>5. 0 <= peer[p].given
  BY PeerFacts DEF PeerType
<1>6. how \notin Serving /\ how \notin Connecting
  BY DEF Serving, Connecting
<1> QED
  BY <1>1, <1>2, <1>4, <1>5, <1>6, Leaving

(* A user disconnects. *)
LEMMA UserDisconnectsNet ==
  ASSUME NetInv, NEW p \in Peers, UserDisconnects(p) PROVE NetInv'
<1> DEFINE r == Disconnected(peer[p])
<1>1. HungUp(p)
  BY ClosingHangs DEF UserDisconnects
<1>2. peer' = [peer EXCEPT ![p] = r] /\ peer[p].pc = "run" /\ said' = said
  BY DEF UserDisconnects, At, Quiet
<1>3. /\ Intact(r) /\ ~ r.joined /\ r.sock # "open"
      /\ r.mode = "idle" \/ (p = "server" /\ r.mode = "server" /\ r.listen = "open")
      /\ r.delta = peer[p].delta /\ r.given <= peer[p].given
      /\ r.pc = peer[p].pc \/ r.pc = "aborted"
  BY DisconnectedLeft
<1> HIDE DEF r
<1>4. peer'[p] = r /\ peer' = [peer EXCEPT ![p] = peer'[p]]
  BY <1>2 DEF NetInv, NetType
<1>5. r.pc \notin Serving /\ r.pc \notin Connecting
  BY <1>2, <1>3 DEF Serving, Connecting
<1> QED
  BY <1>1, <1>2, <1>3, <1>4, <1>5, Leaving

(* A process is quit or killed. *)
LEMMA QuitNet ==
  ASSUME NetInv, NEW p \in Peers, Quit(p) PROVE NetInv'
<1>1. Ends(p, "down") /\ UNCHANGED said
  BY DEF Quit, Quiet
<1> QED
  BY <1>1, GoneLeft

(* The length of a list cannot be read. *)
LEMMA ReadFailsNet ==
  ASSUME NetInv, NEW p \in Peers, ReadFails(p) PROVE NetInv'
<1> DEFINE r == Disconnected(peer[p])
           s == IF r.pc = "aborted" THEN r ELSE [r EXCEPT !.pc = "run"]
<1>1. HungUp(p)
  BY ClosingHangs DEF ReadFails
<1>2. peer' = [peer EXCEPT ![p] = s] /\ peer[p].pc = "read" /\ said' = said
  BY DEF ReadFails, At, Quiet
<1>3. /\ Intact(r) /\ ~ r.joined /\ r.sock # "open"
      /\ r.mode = "idle" \/ (p = "server" /\ r.mode = "server" /\ r.listen = "open")
      /\ r.delta = peer[p].delta /\ r.given <= peer[p].given
      /\ r.pc = peer[p].pc \/ r.pc = "aborted"
  BY DisconnectedLeft
<1> HIDE DEF r
<1>4. r \in PeerType
  BY <1>3 DEF Intact
<1>5. /\ s \in PeerType /\ s.pc \in {"run", "aborted"}
      /\ s.mode = r.mode /\ s.sock = r.sock /\ s.listen = r.listen
      /\ s.delta = r.delta /\ s.ring = r.ring /\ s.current = r.current
      /\ s.toPlay = r.toPlay /\ s.full = r.full /\ s.machine = r.machine
      /\ s.given = r.given /\ s.joined = r.joined
  <2>1. CASE r.pc = "aborted"
    BY <1>4, <2>1 DEF PeerType
  <2>2. CASE r.pc # "aborted"
    <3>1. s = [r EXCEPT !.pc = "run"]
      BY <2>2
    <3> HIDE DEF s
    <3> QED
      BY <1>4, <3>1 DEF PeerType
  <2> QED
    BY <2>1, <2>2
<1> HIDE DEF s
<1>6. Intact(s)
  BY <1>3, <1>5 DEF Intact
<1>7. peer'[p] = s /\ peer' = [peer EXCEPT ![p] = peer'[p]]
  BY <1>2 DEF NetInv, NetType
<1>8. s.pc \notin Serving /\ s.pc \notin Connecting
  BY <1>5 DEF Serving, Connecting
<1> QED
  BY <1>1, <1>2, <1>3, <1>5, <1>6, <1>7, <1>8, Leaving

(* At both ends of the connection of a member is a member, or a client     *)
(* that is about to be one.                                                *)
LEMMA LinkedMembers ==
  ASSUME NetInv, linked, NEW p \in Peers, peer[p].joined
  PROVE  /\ peer["server"].joined
         /\ \/ peer["client"].joined
            \/ peer["client"].pc = "get_delta" /\ wire["client"] # <<>>
<1>1. p = "server" \/ p = "client"
  BY DEF Peers
<1>2. peer["client"].joined => peer["client"].pc \in {"run", "read"}
  BY MemberIs DEF NetInv, JoinedInv, Peers
<1>3. peer["server"].joined => peer["server"].mode = "server_connected"
  BY MemberIs DEF NetInv, JoinedInv, Peers, Role
<1>4. /\ peer["server"].pc \in Serving => ~ peer["server"].joined /\ ~ peer["client"].joined
      /\ LinkedInv
  BY DEF NetInv, ServerInv
<1> QED
  BY <1>1, <1>2, <1>3, <1>4 DEF LinkedInv, Serving

(* A message m is sent by p. *)
LEMMA SendFacts ==
  ASSUME NetInv, NEW p \in Peers, NEW m \in Message, Send(p, <<m>>)
  PROVE  LET q == Other(p) IN
         /\ wire' \in [Peers -> Seq(Message)] /\ far' \in [Peers -> {"open", "closed", "reset"}]
         /\ wire'[p] = wire[p]
         /\ linked => wire'[q] = Append(wire[q], m)
         /\ ~ linked => wire'[q] = wire[q]
         /\ far'[q] = far[q] /\ (far'[p] = far[p] \/ far'[p] = "reset")
         /\ far[p] = "open" => far'[p] = "open"
         /\ far[p] = "reset" => far'[p] = "reset"
         /\ linked' = linked /\ pending' = pending
<1> DEFINE q == Other(p)
<1>1. q \in Peers /\ q # p
  BY OtherPeer
<1>2. /\ wire \in [Peers -> Seq(Message)] /\ far \in [Peers -> {"open", "closed", "reset"}]
      /\ linked => far[p] = "open"
  BY DEF NetInv, NetType, LineInv
<1>3. /\ wire' = IF far[p] = "open" /\ linked
                THEN [wire EXCEPT ![q] = wire[q] \o <<m>>] ELSE wire
      /\ far' = [far EXCEPT ![p] = IF far[p] = "closed" THEN "reset" ELSE far[p]]
      /\ linked' = linked /\ pending' = pending
  BY DEF Send, Sending
<1>4. wire[q] \o <<m>> = Append(wire[q], m) /\ Append(wire[q], m) \in Seq(Message)
  BY <1>1, <1>2, AppendIsConcat, AppendProperties
<1> QED
  BY <1>1, <1>2, <1>3, <1>4

(* The lists on the wire to a client that waits for the delay. *)
LEMMA DeltaCarries ==
  ASSUME NEW w \in Seq(Message), w # <<>>, NEW m
  PROVE  /\ Tail(w) \in Seq(Message)
         /\ m \in Message => /\ Append(w, m) # <<>> /\ Head(Append(w, m)) = Head(w)
                             /\ Tail(Append(w, m)) = Append(Tail(w), m)
<1>1. Tail(w) \in Seq(Message) /\ Len(Tail(w)) = Len(w) - 1 /\ Len(w) \in Nat \ {0}
      /\ \A i \in 1 .. Len(w) - 1 : Tail(w)[i] = w[i + 1]
      /\ Head(w) = w[1]
  BY HeadTailProperties, EmptySeq
<1>2. ASSUME m \in Message
      PROVE  /\ Append(w, m) # <<>> /\ Head(Append(w, m)) = Head(w)
             /\ Tail(Append(w, m)) = Append(Tail(w), m)
  <2> DEFINE a == Append(w, m)
             b == Append(Tail(w), m)
  <2>1. /\ a \in Seq(Message) /\ Len(a) = Len(w) + 1 /\ a # <<>>
        /\ \A i \in 1 .. Len(w) : a[i] = w[i]
        /\ a[Len(w) + 1] = m
    BY <1>2, AppendProperties
  <2>2. /\ b \in Seq(Message) /\ Len(b) = Len(w)
        /\ \A i \in 1 .. Len(w) - 1 : b[i] = w[i + 1]
        /\ b[Len(w)] = m
    BY <1>1, <1>2, AppendProperties
  <2> HIDE DEF a, b
  <2>3. /\ Tail(a) \in Seq(Message) /\ Len(Tail(a)) = Len(a) - 1 /\ Head(a) = a[1]
        /\ \A i \in 1 .. Len(a) - 1 : Tail(a)[i] = a[i + 1]
    BY <2>1, HeadTailProperties
  <2>4. \A i \in 1 .. Len(b) : Tail(a)[i] = b[i]
    BY <1>1, <2>1, <2>2, <2>3
  <2>5. Tail(a) = b
    BY <1>1, <2>1, <2>2, <2>3, <2>4, SeqEqual
  <2> QED
    BY <1>1, <2>1, <2>3, <2>5 DEF a, b
<1> QED
  BY <1>1, <1>2

(* A server and a client that connect are not members. *)
LEMMA NotMember ==
  ASSUME NetInv, NEW p \in Peers,
         peer[p].mode # Role(p) \/ peer[p].sock # "open" \/ peer[p].pc \notin {"run", "read"}
  PROVE  ~ peer[p].joined
BY MemberIs DEF NetInv, JoinedInv

(* A server starts to wait. *)
LEMMA StartServerNet ==
  ASSUME NetInv, StartServer PROVE NetInv'
<1> DEFINE s == peer["server"]
           t == peer'["server"]
<1>1. "server" \in Peers /\ "client" \in Peers /\ "client" # "server"
      /\ \A p \in Peers : p = "server" \/ p = "client"
  BY DEF Peers
<1>2. NetType /\ LineInv /\ ServerInv /\ ClientInv /\ LinkedInv
      /\ \A o \in Peers : LoneInv(o) /\ JoinedInv(o)
  BY DEF NetInv
<1>3. /\ peer' = [peer EXCEPT !["server"].listen = "open", !["server"].mode = "server"]
      /\ s.pc = "run" /\ s.mode = "idle"
      /\ wire' = wire /\ far' = far /\ linked' = linked /\ pending' = pending /\ said' = said
  BY DEF StartServer, At, Quiet, network
<1>4. s \in PeerType /\ Intact(s)
  BY <1>1, <1>2 DEF NetType
<1>5. /\ t \in PeerType /\ peer'["client"] = peer["client"] /\ peer' \in [Peers -> PeerType]
      /\ t.mode = "server" /\ t.listen = "open" /\ t.pc = "run" /\ t.sock = s.sock
      /\ t.delta = s.delta /\ t.ring = s.ring /\ t.current = s.current
      /\ t.toPlay = s.toPlay /\ t.full = s.full /\ t.machine = s.machine
      /\ t.given = s.given /\ t.joined = s.joined
  <2>1. peer \in [Peers -> PeerType]
    BY <1>2 DEF NetType
  <2>2. t = [s EXCEPT !.listen = "open", !.mode = "server"] /\ peer' = [peer EXCEPT !["server"] = t]
    BY <1>1, <1>3, <2>1
  <2> HIDE DEF s, t
  <2>3. /\ t \in PeerType
        /\ t.mode = "server" /\ t.listen = "open" /\ t.pc = s.pc /\ t.sock = s.sock
        /\ t.delta = s.delta /\ t.ring = s.ring /\ t.current = s.current
        /\ t.toPlay = s.toPlay /\ t.full = s.full /\ t.machine = s.machine
        /\ t.given = s.given /\ t.joined = s.joined
    BY <1>4, <2>2 DEF PeerType
  <2> QED
    BY <1>1, <1>3, <2>1, <2>2, <2>3 DEF s, t
<1>6. ~ s.joined
  BY <1>1, <1>3, NotMember DEF Role
<1>7. s.sock # "open"
  BY <1>2, <1>3 DEF ServerInv
<1>8. ~ linked
  BY <1>1, <1>2, <1>7 DEF LineInv
<1> HIDE DEF s, t
<1>9. D' = D
  BY <1>5 DEF D, s, t
<1>10. Intact(t)
  BY <1>4, <1>5 DEF Intact
<1>11. NetType'
  BY <1>1, <1>2, <1>3, <1>5, <1>9, <1>10 DEF NetType, s, t
<1>12. LineInv' /\ LinkedInv'
  BY <1>2, <1>3, <1>5, <1>8 DEF LineInv, LinkedInv
<1>13. ServerInv'
  BY <1>2, <1>3, <1>5, <1>6, <1>7 DEF ServerInv, Serving, Connecting, s, t
<1>14. ClientInv'
  BY <1>2, <1>3, <1>5, <1>9 DEF ClientInv
<1>15. \A o \in Peers : LoneInv(o)'
  BY <1>1, <1>2, <1>3, <1>5 DEF LoneInv, Connected, At, t
<1>16. \A o \in Peers : JoinedInv(o)'
  BY <1>1, <1>2, <1>3, <1>5, <1>6, <1>9 DEF JoinedInv, t
<1> QED
  BY <1>11, <1>12, <1>13, <1>14, <1>15, <1>16 DEF NetInv

(* The line breaks. *)
LEMMA LineBreaksNet ==
  ASSUME NetInv, LineBreaks PROVE NetInv'
<1>2. NetType /\ LineInv /\ ServerInv /\ ClientInv /\ LinkedInv
      /\ \A o \in Peers : LoneInv(o) /\ JoinedInv(o)
  BY DEF NetInv
<1>3. /\ far' = [p \in Peers |-> "reset"] /\ linked' = FALSE /\ linked
      /\ peer' = peer /\ wire' = wire /\ pending' = pending /\ said' = said
  BY DEF LineBreaks
<1>4. ~ pending
  BY <1>2, <1>3 DEF LineInv
<1>5. NetType' /\ LineInv' /\ LinkedInv' /\ D' = D
  BY <1>2, <1>3, <1>4 DEF NetType, LineInv, LinkedInv, D
<1>6. ServerInv'
  BY <1>2, <1>3 DEF ServerInv
<1>7. ClientInv'
  <2>1. \A log, w : Carries(log, w, 0, linked) => Carries(log, w, 0, FALSE)
    BY DEF Carries
  <2> QED
    BY <1>2, <1>3, <1>5, <2>1 DEF ClientInv
<1>8. \A o \in Peers : LoneInv(o)'
  BY <1>2, <1>3 DEF LoneInv, Connected, At
<1>9. ASSUME NEW o \in Peers, peer[o].joined
      PROVE  Member(o, peer[o], said, D, wire[o], far'[o], linked')
  <2> DEFINE lk == linked'
             f == far'[o]
  <2>1. /\ Member(o, peer[o], said, D, wire[o], far[o], linked) /\ Intact(peer[o])
        /\ said \in SaidType
    BY <1>2, <1>9 DEF JoinedInv, NetType
  <2>2. f = "reset" /\ (lk => linked)
    BY <1>3
  <2> HIDE DEF lk, f
  <2>3. Member(o, peer[o], said, D, wire[o], f, lk)
    BY <2>1, <2>2, MemberSame
  <2> QED
    BY <2>3 DEF lk, f
<1>10. \A o \in Peers : JoinedInv(o)'
  BY <1>3, <1>5, <1>9 DEF JoinedInv
<1> QED
  BY <1>5, <1>6, <1>7, <1>8, <1>10 DEF NetInv

(* A process whose lists stay as they are. *)
Keeps(t, r) ==
  /\ t \in PeerType
  /\ t.listen = r.listen /\ t.delta = r.delta /\ t.ring = r.ring /\ t.current = r.current
  /\ t.toPlay = r.toPlay /\ t.full = r.full /\ t.machine = r.machine
  /\ t.given = r.given /\ t.joined = r.joined

(* ... and is intact as before. *)
LEMMA KeepsIntact ==
  ASSUME NEW r, NEW t, Intact(r), Keeps(t, r), t.pc = "read" => r.full
  PROVE  Intact(t)
BY DEF Intact, Keeps

(* A process that goes on elsewhere, with nothing else changed. *)
LEMMA GotoFacts ==
  ASSUME NetInv, NEW p \in Peers, NEW k, peer' = [peer EXCEPT ![p].pc = k],
         k \in {"run", "snapshot", "settings", "pong", "get_snapshot", "get_settings",
                "get_ping", "get_delta"}
  PROVE  /\ peer' \in [Peers -> PeerType] /\ peer'[Other(p)] = peer[Other(p)]
         /\ Keeps(peer'[p], peer[p]) /\ Intact(peer'[p])
         /\ peer'[p].pc = k /\ peer'[p].mode = peer[p].mode /\ peer'[p].sock = peer[p].sock
<1> DEFINE r == peer[p]
           t == peer'[p]
<1>1. peer \in [Peers -> PeerType] /\ r \in PeerType /\ Intact(r)
  BY DEF NetInv, NetType
<1>2. t = [r EXCEPT !.pc = k] /\ peer' = [peer EXCEPT ![p] = t]
      /\ peer'[Other(p)] = peer[Other(p)]
  BY <1>1, OtherPeer
<1> HIDE DEF r, t
<1>3. Keeps(t, r) /\ t.pc = k /\ t.mode = r.mode /\ t.sock = r.sock
  BY <1>1, <1>2 DEF PeerType, Keeps
<1>4. Intact(t)
  BY <1>1, <1>3, KeepsIntact
<1>5. peer' \in [Peers -> PeerType]
  BY <1>1, <1>2, <1>3 DEF Keeps
<1> QED
  BY <1>2, <1>3, <1>4, <1>5 DEF r, t

(* The types, when only a process that keeps its lists has changed. *)
LEMMA KeepsType ==
  ASSUME NetInv, NEW p \in Peers, peer' \in [Peers -> PeerType],
         peer'[Other(p)] = peer[Other(p)], Keeps(peer'[p], peer[p]), Intact(peer'[p]),
         wire' \in [Peers -> Seq(Message)], far' \in [Peers -> {"open", "closed", "reset"}],
         linked' \in BOOLEAN, pending' \in BOOLEAN, said' = said
  PROVE  NetType' /\ D' = D
<1>1. \A o \in Peers : o = p \/ o = Other(p)
  BY OtherPeer
<1>2. /\ \A o \in Peers : Intact(peer[o])
      /\ said \in SaidType /\ Balanced(said, D)
      /\ peer["server"].given + peer["client"].given <= MaxInputs
  BY DEF NetInv, NetType
<1>3. \A o \in Peers : /\ Intact(peer'[o]) /\ peer'[o].delta = peer[o].delta
                       /\ peer'[o].given = peer[o].given
  BY <1>1, <1>2 DEF Keeps
<1>4. "server" \in Peers /\ "client" \in Peers
  BY DEF Peers
<1>5. D' = D
  BY <1>3, <1>4 DEF D
<1> QED
  BY <1>2, <1>3, <1>4, <1>5 DEF NetType

(* The peers are the server and the client. *)
LEMMA ServerClient ==
  /\ "server" \in Peers /\ "client" \in Peers /\ "client" # "server"
  /\ Other("server") = "client" /\ Other("client") = "server"
  /\ \A p \in Peers : p = "server" \/ p = "client"
BY DEF Peers, Other

(* A client connects, or finds no server. *)
LEMMA ConnectClientNet ==
  ASSUME NetInv, ConnectClient PROVE NetInv'
<1> DEFINE s == peer["server"]
           c == peer["client"]
           t == peer'["client"]
<1>2. NetType /\ LineInv /\ ServerInv /\ ClientInv /\ LinkedInv
      /\ \A o \in Peers : LoneInv(o) /\ JoinedInv(o)
  BY DEF NetInv
<1>3. /\ c.pc = "run" /\ c.mode = "idle" /\ said' = said
      /\ \/ /\ peer' = [peer EXCEPT !["client"].sock = "open",
                                    !["client"].pc = "get_snapshot"]
            /\ far' = [far EXCEPT !["client"] = "open"]
            /\ wire' = [wire EXCEPT !["client"] = <<>>]
            /\ linked' = FALSE /\ pending' = TRUE
         \/ /\ s.listen # "open"
            /\ peer' = [peer EXCEPT !["client"].sock = "none"]
            /\ wire' = wire /\ far' = far /\ linked' = linked /\ pending' = pending
  BY DEF ConnectClient, At, Quiet, network
<1>4. c \in PeerType /\ Intact(c) /\ peer \in [Peers -> PeerType]
  BY <1>2, ServerClient DEF NetType
<1>5. ~ c.joined
  BY <1>3, ServerClient, NotMember DEF Role
<1>7. CASE peer' = [peer EXCEPT !["client"].sock = "open", !["client"].pc = "get_snapshot"]
           /\ far' = [far EXCEPT !["client"] = "open"]
           /\ wire' = [wire EXCEPT !["client"] = <<>>]
           /\ linked' = FALSE /\ pending' = TRUE
  <2>1. /\ peer' \in [Peers -> PeerType] /\ peer'["server"] = s
        /\ Keeps(t, c) /\ Intact(t) /\ t.mode = "idle" /\ t.sock = "open"
        /\ t.pc = "get_snapshot"
    <3>1. t = [c EXCEPT !.sock = "open", !.pc = "get_snapshot"]
          /\ peer' = [peer EXCEPT !["client"] = t] /\ peer'["server"] = s
      BY <1>4, <1>7, ServerClient
    <3> HIDE DEF c, t, s
    <3>2. Keeps(t, c) /\ t.mode = "idle" /\ t.sock = "open" /\ t.pc = "get_snapshot"
      BY <1>3, <1>4, <3>1 DEF PeerType, Keeps
    <3>3. Intact(t)
      BY <1>4, <3>2, KeepsIntact
    <3> QED
      BY <1>4, <3>1, <3>2, <3>3 DEF Keeps
  <2>2. /\ wire' \in [Peers -> Seq(Message)] /\ far' \in [Peers -> {"open", "closed", "reset"}]
        /\ wire'["client"] = <<>> /\ wire'["server"] = wire["server"]
        /\ far'["client"] = "open" /\ far'["server"] = far["server"]
    BY <1>2, <1>7, ServerClient DEF NetType
  <2>3. ~ t.joined
    BY <1>5, <2>1 DEF Keeps
  <2> HIDE DEF s, c, t
  <2>4. NetType' /\ D' = D
    <3>1. linked' \in BOOLEAN /\ pending' \in BOOLEAN
      BY <1>7
    <3> QED
      BY <1>3, <2>1, <2>2, <3>1, ServerClient, KeepsType DEF s, c, t
  <2>5. LineInv' /\ LinkedInv'
    BY <1>7, <2>1, <2>2 DEF LineInv, LinkedInv, t
  <2>6. ServerInv'
    BY <1>2, <1>3, <2>1, <2>2, <2>3 DEF ServerInv, s, t
  <2>7. ClientInv'
    BY <1>7, <2>1, <2>2, <2>3 DEF ClientInv, t, Serving, Connecting
  <2>8. \A o \in Peers : LoneInv(o)'
    BY <1>2, <2>1, <2>2, ServerClient DEF LoneInv, Connected, At, s, t
  <2>9. Member("server", s, said, D, wire["server"], far["server"], linked)
          => Member("server", s, said, D, wire["server"], far["server"], FALSE)
    <3> DEFINE k == FALSE
    <3>1. Intact(s) /\ said \in SaidType /\ "server" \in Peers /\ (k => linked)
      BY <1>2, ServerClient DEF NetType, s
    <3> HIDE DEF k
    <3>2. Member("server", s, said, D, wire["server"], far["server"], linked)
            => Member("server", s, said, D, wire["server"], far["server"], k)
      BY <3>1, MemberSame
    <3> QED
      BY <3>2 DEF k
  <2>10. \A o \in Peers : JoinedInv(o)'
    BY ZenonT(40), <1>2, <1>3, <1>7, <2>1, <2>2, <2>3, <2>4, <2>9, ServerClient DEF JoinedInv, s, t
  <2> QED
    BY <2>4, <2>5, <2>6, <2>7, <2>8, <2>10 DEF NetInv
<1>8. CASE s.listen # "open" /\ peer' = [peer EXCEPT !["client"].sock = "none"]
           /\ wire' = wire /\ far' = far /\ linked' = linked /\ pending' = pending
  <2>1. /\ peer' \in [Peers -> PeerType] /\ peer'["server"] = s
        /\ Keeps(t, c) /\ Intact(t) /\ t.mode = "idle" /\ t.sock = "none" /\ t.pc = "run"
    <3>1. t = [c EXCEPT !.sock = "none"] /\ peer' = [peer EXCEPT !["client"] = t]
          /\ peer'["server"] = s
      BY <1>4, <1>8, ServerClient
    <3> HIDE DEF c, t, s
    <3>2. Keeps(t, c) /\ t.mode = "idle" /\ t.sock = "none" /\ t.pc = "run"
      BY <1>3, <1>4, <3>1 DEF PeerType, Keeps
    <3>3. Intact(t)
      BY <1>4, <3>2, KeepsIntact
    <3> QED
      BY <1>4, <3>1, <3>2, <3>3 DEF Keeps
  <2>2. ~ t.joined
    BY <1>5, <2>1 DEF Keeps
  <2>3. ~ pending /\ ~ linked
    BY <1>2, <1>3, <1>5, <1>8 DEF LineInv, LinkedInv, ServerInv
  <2> HIDE DEF s, c, t
  <2>4. NetType' /\ D' = D
    BY <1>2, <1>3, <1>8, <2>1, ServerClient, KeepsType DEF NetType, s, c, t
  <2>5. LineInv' /\ LinkedInv'
    BY <1>8, <2>3 DEF LineInv, LinkedInv
  <2>6. ServerInv'
    BY <1>2, <1>3, <1>8, <2>1, <2>2 DEF ServerInv, s, t
  <2>7. ClientInv'
    BY <2>1, <2>2 DEF ClientInv, t, Serving, Connecting
  <2>8. \A o \in Peers : LoneInv(o)'
    BY <1>2, <1>8, <2>1, ServerClient DEF LoneInv, Connected, At, s, t
  <2>10. \A o \in Peers : JoinedInv(o)'
    BY <1>2, <1>3, <1>8, <2>1, <2>2, <2>4, ServerClient DEF JoinedInv, s, t
  <2> QED
    BY <2>4, <2>5, <2>6, <2>7, <2>8, <2>10 DEF NetInv
<1> QED
  BY <1>3, <1>7, <1>8

(* A process that is a member stays one, its connection may be gone. *)
LEMMA JoinedKeeps ==
  ASSUME NetInv, NEW o \in Peers, peer'[o] = peer[o], wire'[o] = wire[o],
         far[o] = "reset" => far'[o] = "reset", linked' => linked, said' = said, D' = D
  PROVE  JoinedInv(o)'
<1> SUFFICES ASSUME peer[o].joined
             PROVE  Member(o, peer[o], said, D, wire[o], far'[o], linked')
  BY DEF JoinedInv
<1> DEFINE lk == linked'
           f == far'[o]
<1>1. /\ Member(o, peer[o], said, D, wire[o], far[o], linked) /\ Intact(peer[o])
      /\ said \in SaidType
  BY DEF NetInv, JoinedInv, NetType
<1>2. (far[o] = "reset" => f = "reset") /\ (lk => linked)
  OBVIOUS
<1> HIDE DEF lk, f
<1>3. Member(o, peer[o], said, D, wire[o], f, lk)
  BY <1>1, <1>2, MemberSame
<1> QED
  BY <1>3 DEF lk, f

(* The server accepts the client that waits. *)
LEMMA AcceptNet ==
  ASSUME NetInv, Accept PROVE NetInv'
<1> DEFINE s == peer["server"]
           c == peer["client"]
           t == peer'["server"]
<1>2. NetType /\ LineInv /\ ServerInv /\ ClientInv /\ LinkedInv
      /\ \A o \in Peers : LoneInv(o) /\ JoinedInv(o)
  BY DEF NetInv
<1>3. /\ s.pc = "run" /\ s.mode = "server" /\ pending /\ said' = said
      /\ peer' = [peer EXCEPT !["server"].sock = "open", !["server"].pc = "snapshot"]
      /\ far' = [far EXCEPT !["server"] = "open"]
      /\ wire' = [wire EXCEPT !["server"] = <<>>]
      /\ linked' = TRUE /\ pending' = FALSE
  BY DEF Accept, At
<1>4. s \in PeerType /\ Intact(s) /\ peer \in [Peers -> PeerType]
  BY <1>2, ServerClient DEF NetType
<1>5. ~ s.joined /\ c.pc = "get_snapshot" /\ wire["client"] = <<>> /\ far["client"] = "open"
      /\ ~ c.joined /\ c.sock = "open" /\ s.listen = "open"
  BY <1>2, <1>3, ServerClient, NotMember DEF Role, LineInv, ClientInv, Connecting, ServerInv
<1>6. /\ peer' \in [Peers -> PeerType] /\ peer'["client"] = c
      /\ Keeps(t, s) /\ Intact(t) /\ t.mode = "server" /\ t.sock = "open"
      /\ t.pc = "snapshot"
  <3>1. t = [s EXCEPT !.sock = "open", !.pc = "snapshot"]
        /\ peer' = [peer EXCEPT !["server"] = t] /\ peer'["client"] = c
    BY <1>3, <1>4, ServerClient
  <3> HIDE DEF c, t, s
  <3>2. Keeps(t, s) /\ t.mode = "server" /\ t.sock = "open" /\ t.pc = "snapshot"
    BY <1>3, <1>4, <3>1 DEF PeerType, Keeps
  <3>3. Intact(t)
    BY <1>4, <3>2, KeepsIntact
  <3> QED
    BY <1>4, <3>1, <3>2, <3>3 DEF Keeps
<1>7. /\ wire' \in [Peers -> Seq(Message)] /\ far' \in [Peers -> {"open", "closed", "reset"}]
      /\ wire'["server"] = <<>> /\ wire'["client"] = wire["client"]
      /\ far'["server"] = "open" /\ far'["client"] = far["client"]
  BY <1>2, <1>3, ServerClient DEF NetType
<1>8. ~ t.joined /\ t.listen = "open"
  BY <1>5, <1>6 DEF Keeps
<1> HIDE DEF s, c, t
<1>9. NetType' /\ D' = D
  <3>1. linked' \in BOOLEAN /\ pending' \in BOOLEAN
    BY <1>3
  <3> QED
    BY <1>3, <1>6, <1>7, <3>1, ServerClient, KeepsType DEF s, c, t
<1>10. LineInv'
  BY <1>3, <1>5, <1>6, <1>7, ServerClient DEF LineInv, t, c
<1>11. LinkedInv'
  BY <1>5, <1>6, <1>7 DEF LinkedInv, t, c
<1>12. ServerInv'
  BY <1>5, <1>6, <1>7, <1>8 DEF ServerInv, t, c, Serving, Connecting
<1>13. ClientInv'
  BY <1>2, <1>5, <1>6, <1>7 DEF ClientInv, c
<1>14. \A o \in Peers : LoneInv(o)'
  BY <1>2, <1>6, <1>7, ServerClient DEF LoneInv, Connected, At, t, c
<1>15. \A o \in Peers : JoinedInv(o)'
  BY <1>5, <1>6, <1>8, ServerClient DEF JoinedInv, t, c
<1> QED
  BY <1>9, <1>10, <1>11, <1>12, <1>13, <1>14, <1>15 DEF NetInv

(* The snapshot cannot be made. *)
LEMMA SnapshotFailsNet ==
  ASSUME NetInv, SnapshotFails PROVE NetInv'
<1> DEFINE s == peer["server"]
           c == peer["client"]
           t == peer'["server"]
<1>2. NetType /\ LineInv /\ ServerInv /\ ClientInv /\ LinkedInv
      /\ \A o \in Peers : LoneInv(o) /\ JoinedInv(o)
  BY DEF NetInv
<1>3. /\ s.pc = "snapshot" /\ peer' = [peer EXCEPT !["server"].pc = "run"]
      /\ wire' = wire /\ far' = far /\ linked' = linked /\ pending' = pending /\ said' = said
  BY DEF SnapshotFails, At, Goto, Quiet, network
<1>5. s.mode = "server" /\ ~ s.joined /\ s.sock = "open"
  BY <1>2, <1>3 DEF ServerInv, Serving
<1>6. /\ peer' \in [Peers -> PeerType] /\ peer'["client"] = c
      /\ Keeps(t, s) /\ Intact(t) /\ t.mode = "server" /\ t.sock = "open" /\ t.pc = "run"
  BY <1>3, <1>5, ServerClient, GotoFacts
<1>8. ~ t.joined /\ t.listen = s.listen
  BY <1>5, <1>6 DEF Keeps
<1> HIDE DEF s, c, t
<1>9. NetType' /\ D' = D
  BY <1>2, <1>3, <1>6, ServerClient, KeepsType DEF NetType, s, c, t
<1>10. LineInv'
  BY <1>2, <1>3, <1>5, <1>6, ServerClient DEF LineInv, s, t, c
<1>11. LinkedInv'
  BY <1>2, <1>3, <1>5, <1>6 DEF LinkedInv, s, t, c
<1>12. ServerInv'
  BY <1>2, <1>3, <1>5, <1>6, <1>8 DEF ServerInv, s, t, c, Serving, Connecting
<1>13. ClientInv'
  BY <1>2, <1>3, <1>6, <1>9 DEF ClientInv, c
<1>14. \A o \in Peers : LoneInv(o)'
  BY <1>2, <1>3, <1>6, ServerClient DEF LoneInv, Connected, At, t, c
<1>15. \A o \in Peers : JoinedInv(o)'
  BY <1>3, <1>6, <1>8, <1>9, ServerClient, JoinedKeeps DEF JoinedInv, t, c
<1> QED
  BY <1>9, <1>10, <1>11, <1>12, <1>13, <1>14, <1>15 DEF NetInv

(* The test of the delay fails. *)
LEMMA PongFailsNet ==
  ASSUME NetInv, PongFails PROVE NetInv'
<1> DEFINE s == peer["server"]
           c == peer["client"]
           t == peer'["server"]
<1>2. NetType /\ LineInv /\ ServerInv /\ ClientInv /\ LinkedInv
      /\ \A o \in Peers : LoneInv(o) /\ JoinedInv(o)
  BY DEF NetInv
<1>3. /\ s.pc = "pong" /\ peer' = [peer EXCEPT !["server"].pc = "run"]
      /\ s.sock # "open" \/ far["server"] = "reset"
      /\ wire' = [wire EXCEPT !["server"] = <<>>]
      /\ far' = far /\ linked' = linked /\ pending' = pending /\ said' = said
  BY DEF PongFails, At, Goto, Quiet, Drop, RecvError
<1>5. s.mode = "server_connected" /\ ~ s.joined /\ s.sock = "open" /\ far["server"] = "reset"
  BY <1>2, <1>3 DEF ServerInv, Serving
<1>6. /\ peer' \in [Peers -> PeerType] /\ peer'["client"] = c
      /\ Keeps(t, s) /\ Intact(t) /\ t.mode = s.mode /\ t.sock = "open" /\ t.pc = "run"
  BY <1>3, <1>5, ServerClient, GotoFacts
<1>7. /\ wire' \in [Peers -> Seq(Message)] /\ wire'["server"] = <<>>
      /\ wire'["client"] = wire["client"]
  BY <1>2, <1>3, ServerClient DEF NetType
<1>8. ~ t.joined /\ t.listen = s.listen /\ ~ linked
  BY <1>2, <1>5, <1>6, ServerClient DEF Keeps, LineInv
<1> HIDE DEF s, c, t
<1>9. NetType' /\ D' = D
  BY <1>2, <1>3, <1>6, <1>7, ServerClient, KeepsType DEF NetType, s, c, t
<1>10. LineInv' /\ LinkedInv'
  BY <1>2, <1>3, <1>6, <1>7, <1>8 DEF LineInv, LinkedInv, c
<1>12. ServerInv'
  BY <1>2, <1>3, <1>5, <1>6, <1>7, <1>8 DEF ServerInv, s, t, c, Serving, Connecting
<1>13. ClientInv'
  BY <1>2, <1>3, <1>6, <1>7, <1>9 DEF ClientInv, c
<1>14. \A o \in Peers : LoneInv(o)'
  BY <1>2, <1>3, <1>5, <1>6, ServerClient DEF LoneInv, Connected, At, t, c
<1>15. \A o \in Peers : JoinedInv(o)'
  BY <1>3, <1>6, <1>7, <1>8, <1>9, ServerClient, JoinedKeeps DEF JoinedInv, t, c
<1> QED
  BY <1>9, <1>10, <1>12, <1>13, <1>14, <1>15 DEF NetInv

(* What the server sends to a client that connects. *)
LEMMA ServerSends ==
  ASSUME NetInv, NEW ms \in Seq(Message), NEW w \in [Peers -> Seq(Message)],
         Sending("server", ms, w)
  PROVE  /\ wire' \in [Peers -> Seq(Message)] /\ far' \in [Peers -> {"open", "closed", "reset"}]
         /\ wire'["server"] = w["server"]
         /\ linked => wire'["client"] = w["client"] \o ms
         /\ ~ linked => wire'["client"] = w["client"]
         /\ far'["client"] = far["client"]
         /\ far["server"] = "open" => far'["server"] = "open"
         /\ far["server"] = "reset" => far'["server"] = "reset"
         /\ linked' = linked /\ pending' = pending
<1>1. /\ far \in [Peers -> {"open", "closed", "reset"}]
      /\ linked => far["server"] = "open"
  BY ServerClient DEF NetInv, NetType, LineInv
<1>2. /\ wire' = IF far["server"] = "open" /\ linked THEN [w EXCEPT !["client"] = w["client"] \o ms] ELSE w
      /\ far' = [far EXCEPT !["server"] = IF far["server"] = "closed" THEN "reset" ELSE far["server"]]
      /\ linked' = linked /\ pending' = pending
  BY ServerClient DEF Sending
<1>3. w["client"] \o ms \in Seq(Message)
  BY ServerClient
<1> QED
  BY <1>1, <1>2, <1>3, ServerClient

(* An empty wire in front of what is sent. *)
LEMMA ConcatNone == \A s \in Seq(Message) : <<>> \o s = s
OBVIOUS

(* The messages of the handshake are messages. *)
LEMMA HandshakeType ==
  /\ <<[kind |-> "snapshot"]>> \in Seq(Message) /\ Settings \in Seq(Message)
  /\ <<[kind |-> "pong"]>> \in Seq(Message) /\ <<[kind |-> "ping"]>> \in Seq(Message)
  /\ \A d \in Deltas : <<[kind |-> "delta", delta |-> d]>> \in Seq(Message)
<1>1. \A m \in Message : <<m>> \in Seq(Message)
  OBVIOUS
<1>2. \A m \in Message : \A n \in Message : <<m, n>> \in Seq(Message)
  OBVIOUS
<1> QED
  BY <1>1, <1>2, MessageTypes DEF Settings

(* The server sends the snapshot. *)
LEMMA SendSnapshotNet ==
  ASSUME NetInv, SendSnapshot PROVE NetInv'
<1> DEFINE s == peer["server"]
           c == peer["client"]
           t == peer'["server"]
<1>2. NetType /\ LineInv /\ ServerInv /\ ClientInv /\ LinkedInv
      /\ \A o \in Peers : LoneInv(o) /\ JoinedInv(o)
  BY DEF NetInv
<1>3. /\ s.pc = "snapshot" /\ said' = said /\ far["server"] # "reset"
      /\ peer' = [peer EXCEPT !["server"].mode = "server_connected", !["server"].pc = "settings"]
      /\ Sending("server", <<[kind |-> "snapshot"]>>, wire)
  BY DEF SendSnapshot, At, CanSend, Quiet, Send
<1>4. s \in PeerType /\ Intact(s) /\ peer \in [Peers -> PeerType]
  BY <1>2, ServerClient DEF NetType
<1>5. s.mode = "server" /\ ~ s.joined /\ s.sock = "open" /\ ~ c.joined /\ s.listen = "open"
      /\ (c.pc = "get_delta" => wire["client"] = <<>>) /\ wire["server"] = <<>>
  BY <1>2, <1>3 DEF ServerInv, Serving
<1>6. /\ peer' \in [Peers -> PeerType] /\ peer'["client"] = c
      /\ Keeps(t, s) /\ Intact(t) /\ t.mode = "server_connected" /\ t.sock = "open"
      /\ t.pc = "settings"
  <3>1. t = [s EXCEPT !.mode = "server_connected", !.pc = "settings"]
        /\ peer' = [peer EXCEPT !["server"] = t] /\ peer'["client"] = c
    BY <1>3, <1>4, ServerClient
  <3> HIDE DEF c, t, s
  <3>2. Keeps(t, s) /\ t.mode = "server_connected" /\ t.sock = "open" /\ t.pc = "settings"
    BY <1>4, <1>5, <3>1 DEF PeerType, Keeps
  <3>3. Intact(t)
    BY <1>4, <3>2, KeepsIntact
  <3> QED
    BY <1>4, <3>1, <3>2, <3>3 DEF Keeps
<1> DEFINE ms == <<[kind |-> "snapshot"]>>
<1>7. /\ wire' \in [Peers -> Seq(Message)] /\ far' \in [Peers -> {"open", "closed", "reset"}]
      /\ wire'["server"] = wire["server"]
      /\ linked => wire'["client"] = wire["client"] \o ms
      /\ ~ linked => wire'["client"] = wire["client"]
      /\ far'["client"] = far["client"]
      /\ far["server"] = "open" => far'["server"] = "open"
      /\ linked' = linked /\ pending' = pending
  <2>1. wire \in [Peers -> Seq(Message)]
    BY <1>2 DEF NetType
  <2>2. ms \in Seq(Message) /\ Sending("server", ms, wire)
    BY <1>3, HandshakeType
  <2> HIDE DEF ms
  <2> QED
    BY <2>1, <2>2, ServerSends
<1>8. ~ t.joined /\ t.listen = "open"
  BY <1>5, <1>6 DEF Keeps
<1>16. <<>> \o ms = ms /\ ms # <<>>
  BY HandshakeType
<1> HIDE DEF s, c, t, ms
<1>9. NetType' /\ D' = D
  BY ZenonT(40), <1>2, <1>3, <1>6, <1>7, ServerClient, KeepsType DEF NetType, s, c, t
<1>17. linked => c.pc = "get_snapshot" /\ wire["client"] = <<>> /\ wire'["client"] = ms
  BY <1>2, <1>3, <1>5, <1>7, <1>16, ServerClient DEF LinkedInv, s, c
<1>10. LineInv'
  <2>1. linked' => ~ pending' /\ \A p \in Peers : peer'[p].sock = "open" /\ far'[p] = "open"
    BY SMTT(30), <1>2, <1>6, <1>7, ServerClient DEF LineInv, t, c
  <2>2. pending' => ~ linked /\ wire'["client"] = wire["client"]
    BY <1>2, <1>7 DEF LineInv
  <2> QED
    BY <1>2, <1>6, <1>7, <2>1, <2>2 DEF LineInv, c
<1>11. LinkedInv'
  BY <1>6, <1>7, <1>17 DEF LinkedInv, t, c, ms
<1>12. ServerInv'
  BY <1>5, <1>6, <1>7, <1>8, <1>17, ServerClient DEF ServerInv, t, c, Serving, Connecting
<1>13. ClientInv'
  BY <1>2, <1>3, <1>6, <1>7, <1>9, <1>17, ServerClient DEF ClientInv, c, ms
<1>14. \A o \in Peers : LoneInv(o)'
  BY SMTT(30), <1>2, <1>6, <1>7, ServerClient DEF LoneInv, Connected, At, t, c
<1>15. \A o \in Peers : JoinedInv(o)'
  BY <1>5, <1>6, <1>8, ServerClient DEF JoinedInv, t, c
<1> QED
  BY <1>9, <1>10, <1>11, <1>12, <1>13, <1>14, <1>15 DEF NetInv

(* The server sends the settings and the first packet, or goes on without. *)
LEMMA SendSettingsNet ==
  ASSUME NetInv, SendSettings PROVE NetInv'
<1> DEFINE s == peer["server"]
           c == peer["client"]
           t == peer'["server"]
           ms == Settings
<1>2. NetType /\ LineInv /\ ServerInv /\ ClientInv /\ LinkedInv
      /\ \A o \in Peers : LoneInv(o) /\ JoinedInv(o)
  BY DEF NetInv
<1>3. s.pc = "settings" /\ said' = said
  BY DEF SendSettings, At, Quiet
<1>5. /\ s.mode = "server_connected" /\ ~ s.joined /\ s.sock = "open" /\ ~ c.joined
      /\ s.listen = "open" /\ wire["server"] = <<>>
      /\ c.pc = "get_delta" => wire["client"] = <<>>
  BY <1>2, <1>3 DEF ServerInv, Serving
<1>6. \/ /\ Sending("server", ms, wire)
         /\ peer' = [peer EXCEPT !["server"].pc = "pong"]
      \/ /\ far["server"] = "reset" /\ peer' = [peer EXCEPT !["server"].pc = "run"]
         /\ wire' = wire /\ far' = far /\ linked' = linked /\ pending' = pending
  BY <1>5 DEF SendSettings, CanSend, Send, Goto, network, Settings
<1>7. CASE Sending("server", ms, wire) /\ peer' = [peer EXCEPT !["server"].pc = "pong"]
  <2>1. /\ peer' \in [Peers -> PeerType] /\ peer'["client"] = c
        /\ Keeps(t, s) /\ Intact(t) /\ t.mode = "server_connected" /\ t.sock = "open"
        /\ t.pc = "pong"
    BY <1>5, <1>7, ServerClient, GotoFacts
  <2>2. /\ wire' \in [Peers -> Seq(Message)] /\ far' \in [Peers -> {"open", "closed", "reset"}]
        /\ wire'["server"] = wire["server"]
        /\ linked => wire'["client"] = wire["client"] \o ms
        /\ ~ linked => wire'["client"] = wire["client"]
        /\ far'["client"] = far["client"]
        /\ far["server"] = "open" => far'["server"] = "open"
        /\ linked' = linked /\ pending' = pending
    <3>1. wire \in [Peers -> Seq(Message)]
      BY <1>2 DEF NetType
    <3>2. ms \in Seq(Message)
      BY HandshakeType
    <3> HIDE DEF ms
    <3> QED
      BY <1>7, <3>1, <3>2, ServerSends
  <2>3. ~ t.joined /\ t.listen = "open"
    BY <1>5, <2>1 DEF Keeps
  <2>4. <<>> \o ms = ms
    <3>1. ms \in Seq(Message)
      BY HandshakeType
    <3> QED
      BY <3>1, ConcatNone
  <2> HIDE DEF s, c, t, ms
  <2>5. NetType' /\ D' = D
    BY <1>2, <1>3, <2>1, <2>2, ServerClient, KeepsType DEF NetType, s, c, t
  <2>6. linked => \/ c.pc = "get_snapshot" /\ wire'["client"] = <<[kind |-> "snapshot"]>> \o ms
                  \/ c.pc = "get_settings" /\ wire'["client"] = ms
    <3>1. linked => \/ c.pc = "get_snapshot" /\ wire["client"] = <<[kind |-> "snapshot"]>>
                    \/ c.pc = "get_settings" /\ wire["client"] = <<>>
      BY <1>2, <1>3, <1>5 DEF LinkedInv, s, c
    <3> QED
      BY <2>2, <2>4, <3>1
  <2>7. LineInv'
    <3>1. linked' => ~ pending' /\ \A p \in Peers : peer'[p].sock = "open" /\ far'[p] = "open"
      BY SMTT(30), <1>2, <2>1, <2>2, ServerClient DEF LineInv, t, c
    <3>2. pending' => ~ linked /\ wire'["client"] = wire["client"]
      BY <1>2, <2>2 DEF LineInv
    <3> QED
      BY <1>2, <2>1, <2>2, <3>1, <3>2 DEF LineInv, c
  <2>8. LinkedInv'
    BY <1>5, <2>1, <2>2, <2>6 DEF LinkedInv, t, c
  <2>9. ServerInv'
    BY <1>5, <2>1, <2>2, <2>3, <2>6, ServerClient DEF ServerInv, t, c, Serving, Connecting
  <2>10. ClientInv'
    <3>1. CASE linked
      BY <1>2, <1>3, <2>1, <2>2, <2>5, <2>6, <3>1, ServerClient DEF ClientInv, c, ms
    <3>2. CASE ~ linked
      BY <1>2, <1>3, <2>1, <2>2, <2>5, <3>2, ServerClient DEF ClientInv, c
    <3> QED
      BY <3>1, <3>2
  <2>11. \A o \in Peers : LoneInv(o)'
    BY SMTT(30), <1>2, <2>1, <2>2, ServerClient DEF LoneInv, Connected, At, t, c
  <2>12. \A o \in Peers : JoinedInv(o)'
    BY <1>5, <2>1, <2>3, ServerClient DEF JoinedInv, t, c
  <2> QED
    BY <2>5, <2>7, <2>8, <2>9, <2>10, <2>11, <2>12 DEF NetInv
<1>8. CASE far["server"] = "reset" /\ peer' = [peer EXCEPT !["server"].pc = "run"]
           /\ wire' = wire /\ far' = far /\ linked' = linked /\ pending' = pending
  <2>1. /\ peer' \in [Peers -> PeerType] /\ peer'["client"] = c
        /\ Keeps(t, s) /\ Intact(t) /\ t.mode = s.mode /\ t.sock = "open" /\ t.pc = "run"
    BY <1>5, <1>8, ServerClient, GotoFacts
  <2>3. ~ t.joined /\ t.listen = s.listen /\ ~ linked
    BY <1>2, <1>5, <1>8, <2>1, ServerClient DEF Keeps, LineInv
  <2> HIDE DEF s, c, t
  <2>5. NetType' /\ D' = D
    BY <1>2, <1>3, <1>8, <2>1, ServerClient, KeepsType DEF NetType, s, c, t
  <2>7. LineInv' /\ LinkedInv'
    BY <1>2, <1>8, <2>1, <2>3 DEF LineInv, LinkedInv, c
  <2>9. ServerInv'
    BY <1>5, <1>8, <2>1, <2>3 DEF ServerInv, s, t, c, Serving, Connecting
  <2>10. ClientInv'
    BY <1>2, <1>3, <1>8, <2>1, <2>5 DEF ClientInv, c
  <2>11. \A o \in Peers : LoneInv(o)'
    BY <1>2, <1>8, <2>1, ServerClient DEF LoneInv, Connected, At, t, c
  <2>12. \A o \in Peers : JoinedInv(o)'
    BY <1>5, <2>1, <2>3, ServerClient DEF JoinedInv, t, c
  <2> QED
    BY <2>5, <2>7, <2>9, <2>10, <2>11, <2>12 DEF NetInv
<1> QED
  BY <1>6, <1>7, <1>8

(* What is left of a wire with one message on it. *)
LEMMA TailOne == \A m \in Message : Tail(<<m>>) = <<>> /\ Head(<<m>>) = m /\ <<m>> # <<>>
OBVIOUS

(* A message is taken from the wire. *)
LEMMA RestFacts ==
  ASSUME NetInv, NEW p \in Peers, wire[p] # <<>>
  PROVE  /\ Rest(p) \in [Peers -> Seq(Message)] /\ Rest(p)[p] = Tail(wire[p])
         /\ Rest(p)[Other(p)] = wire[Other(p)]
         /\ Tail(wire[p]) \in Seq(Message) /\ Head(wire[p]) \in Message
<1>1. wire \in [Peers -> Seq(Message)] /\ wire[p] \in Seq(Message)
  BY DEF NetInv, NetType
<1>2. Tail(wire[p]) \in Seq(Message) /\ Head(wire[p]) \in Message
  BY <1>1, HeadTailProperties
<1> QED
  BY <1>1, <1>2, OtherPeer DEF Rest

(* The server has measured the delay: a session of the delay d begins. *)
LEMMA RecvPongNet ==
  ASSUME NetInv, NEW d \in Deltas, RecvPong(d) PROVE NetInv'
<1> DEFINE s == peer["server"]
           c == peer["client"]
           t == peer'["server"]
           m == [kind |-> "delta", delta |-> d]
           ms == <<m>>
<1>2. NetType /\ LineInv /\ ServerInv /\ ClientInv /\ LinkedInv
      /\ \A o \in Peers : LoneInv(o) /\ JoinedInv(o)
  BY DEF NetInv
<1>3. /\ s.pc = "pong" /\ wire["server"] # <<>>
      /\ Sending("server", ms, Rest("server"))
      /\ peer' = [peer EXCEPT !["server"] = WithLists(s, d)]
      /\ said' = [p \in Peers |-> <<>>]
  BY DEF RecvPong, At, Arrived
<1>4. s \in PeerType /\ Intact(s) /\ peer \in [Peers -> PeerType]
  BY <1>2, ServerClient DEF NetType
<1>5. /\ s.mode = "server_connected" /\ ~ s.joined /\ s.sock = "open" /\ ~ c.joined
      /\ s.listen = "open" /\ wire["server"] = <<[kind |-> "pong"]>>
      /\ c.pc = "get_delta" => wire["client"] = <<>>
  BY <1>2, <1>3 DEF ServerInv, Serving
<1> HIDE DEF s
<1>6. /\ Intact(t) /\ t \in PeerType
      /\ t.mode = "server_connected" /\ t.pc = "run" /\ t.sock = "open" /\ t.listen = "open"
      /\ t.delta = d /\ t.given = 0 /\ t.joined = TRUE
      /\ t = WithLists(s, d) /\ peer'["client"] = c /\ peer' \in [Peers -> PeerType]
  <2> DEFINE w == WithLists(s, d)
  <2>0. Intact(s) /\ s.sock = "open" /\ s.mode = "server_connected"
    BY <1>4, <1>5
  <2>1. /\ Intact(w)
        /\ w.mode = s.mode /\ w.pc = "run" /\ w.sock = s.sock /\ w.listen = s.listen
        /\ w.delta = d /\ w.current = 0 /\ w.full = FALSE /\ w.machine = <<>>
        /\ w.given = 0 /\ w.joined = TRUE
        /\ \A i \in 0 .. d - 1 : w.ring[i] = NoList
    BY <2>0, WithListsIntact
  <2> HIDE DEF w
  <2>2. t = w /\ peer'["client"] = c
    BY <1>3, <1>4, ServerClient DEF w, s
  <2>3. w \in PeerType
    BY <2>1 DEF Intact
  <2> HIDE DEF t, s, c
  <2>4. peer' \in [Peers -> PeerType]
    BY <1>3, <1>4, <2>3 DEF w, s
  <2> QED
    BY <1>5, <2>1, <2>2, <2>3, <2>4 DEF w
<1> USE DEF s
<1>7. /\ wire' \in [Peers -> Seq(Message)] /\ far' \in [Peers -> {"open", "closed", "reset"}]
      /\ wire'["server"] = <<>>
      /\ linked => wire'["client"] = wire["client"] \o ms
      /\ ~ linked => wire'["client"] = wire["client"]
      /\ far'["client"] = far["client"]
      /\ far["server"] = "open" => far'["server"] = "open"
      /\ linked' = linked /\ pending' = pending
  <2> DEFINE w == Rest("server")
  <2>1. /\ w \in [Peers -> Seq(Message)] /\ w["server"] = Tail(wire["server"])
        /\ w["client"] = wire["client"]
    BY <1>3, ServerClient, RestFacts
  <2>2. Tail(wire["server"]) = <<>>
    BY <1>5, MessageTypes, TailOne
  <2>3. ms \in Seq(Message)
    BY HandshakeType
  <2> HIDE DEF w, ms
  <2>4. Sending("server", ms, w)
    BY <1>3 DEF w
  <2> QED
    BY <2>1, <2>2, <2>3, <2>4, ServerSends
<1>8. m \in Message /\ ms \in Seq(Message)
  BY MessageTypes, HandshakeType
<1>9. <<>> \o ms = ms /\ Tail(ms) = <<>> /\ Head(ms) = m /\ ms # <<>>
  BY <1>8, ConcatNone, TailOne
<1>10. said' \in SaidType /\ said'["server"] = <<>> /\ said'["client"] = <<>>
       /\ \A p \in Peers : Len(said'[p]) = 0
  BY <1>3, ServerClient DEF SaidType
<1>11. d \in Nat /\ d # 0
  BY DeltaNat
<1> HIDE DEF s, c, t, ms, m
<1>12. D' = d
  BY <1>6 DEF D, t
<1>13. linked => c.pc = "get_delta" /\ wire'["client"] = ms
  <2>1. wire["server"] # <<>>
    BY <1>3
  <2>2. linked => c.pc = "get_delta" /\ wire["client"] = <<>>
    BY <1>2, <1>3, <1>5, <2>1 DEF LinkedInv, s, c
  <2> QED
    BY <1>7, <1>9, <2>2
<1>14. NetType'
  <2>1. \A o \in Peers : Intact(peer'[o])
    BY <1>2, <1>6, ServerClient DEF NetType, s, c, t
  <2>2. peer'["server"].given + peer'["client"].given <= MaxInputs
    <3>1. /\ s.given \in Nat /\ c.given \in Nat /\ s.given + c.given <= MaxInputs
          /\ peer'["server"].given = 0 /\ peer'["client"].given = c.given
      BY <1>2, <1>6, ServerClient DEF NetType, PeerType, s, c, t
    <3> QED
      BY <3>1, BoundsAssumption
  <2>3. Balanced(said', D')
    BY <1>10, <1>11, <1>12, OtherPeer DEF Balanced
  <2>4. linked' \in BOOLEAN /\ pending' \in BOOLEAN
    BY <1>2, <1>7 DEF NetType
  <2> QED
    BY <1>6, <1>7, <1>10, <2>1, <2>2, <2>3, <2>4 DEF NetType
<1>15. LineInv'
  <2>0. peer'["server"].sock = "open" /\ peer'["client"].sock = peer["client"].sock
    BY <1>6 DEF t, c
  <2>1. linked' => ~ pending' /\ \A p \in Peers : peer'[p].sock = "open" /\ far'[p] = "open"
    BY <1>2, <1>7, <2>0, ServerClient DEF LineInv
  <2>2. pending' => ~ linked /\ wire'["client"] = wire["client"]
    BY <1>2, <1>7 DEF LineInv
  <2> QED
    BY <1>2, <1>6, <1>7, <2>1, <2>2 DEF LineInv, c
<1>16. LinkedInv'
  BY <1>6, <1>7, <1>9, <1>13 DEF LinkedInv, t, c
<1>17. ServerInv'
  BY <1>6, <1>7 DEF ServerInv, t, Serving, Connecting
<1>18. Carries(Log(said', d, "server"), <<>>, 0, linked')
  <2> DEFINE lk == linked'
             log == Log(said', d, "server")
  <2>1. Len(log) = 0
    BY <1>10, ServerClient, LogType
  <2> HIDE DEF lk, log
  <2>2. Carries(log, <<>>, 0, lk)
    BY <2>1, CarryNone
  <2> QED
    BY <2>2 DEF lk, log
<1>19. ClientInv'
  <2>1. CASE linked
    <3>1. Connecting = {"get_snapshot", "get_settings", "get_ping", "get_delta"}
          /\ Serving = {"snapshot", "settings", "pong"}
      BY DEF Connecting, Serving
    <3> QED
      BY ZenonT(40), <1>2, <1>6, <1>7, <1>9, <1>10, <1>11, <1>12, <1>13, <1>18, <2>1, <3>1
      DEF ClientInv, c, m
  <2>2. CASE ~ linked
    BY <1>2, <1>5, <1>6, <1>7, <2>2 DEF ClientInv, c
  <2> QED
    BY <2>1, <2>2
<1>20. \A o \in Peers : LoneInv(o)'
  BY SMTT(30), <1>2, <1>6, <1>7, ServerClient DEF LoneInv, Connected, At, t, c
<1>21. Member("server", t, said', d, <<>>, far'["server"], linked')
  <2> DEFINE lk == linked'
             f == far'["server"]
             sd == said'
             none == <<>>
             p == "server"
  <2>1. /\ sd \in SaidType /\ Len(sd[p]) = 0 /\ p \in Peers /\ s.mode = Role(p)
    BY <1>5, <1>10, ServerClient DEF Role
  <2>2. Carries(Log(sd, d, Other(p)), none, 0, lk)
    <3>1. Len(Log(sd, d, Other(p))) = 0
      BY <1>10, <2>1, OtherPeer, LogType
    <3> DEFINE log == Log(sd, d, Other(p))
    <3> HIDE DEF log, lk
    <3>2. Carries(log, none, 0, lk)
      BY <3>1, CarryNone DEF log
    <3> QED
      BY <3>2 DEF log
  <2> HIDE DEF lk, f, sd, none, p
  <2>3. Member(p, WithLists(s, d), sd, d, none, f, lk)
    BY <1>4, <1>5, <2>1, <2>2, MemberFresh
  <2> QED
    BY <1>6, <2>3 DEF lk, f, sd, none, p
<1>22. \A o \in Peers : JoinedInv(o)'
  BY <1>5, <1>6, <1>7, <1>12, <1>21, ServerClient DEF JoinedInv, t, c
<1> QED
  BY <1>14, <1>15, <1>16, <1>17, <1>19, <1>20, <1>22 DEF NetInv

(* What is left of the handshake when its first message is read. *)
LEMMA HandshakeTail ==
  /\ Tail(<<[kind |-> "snapshot"]>>) = <<>>
  /\ Tail(<<[kind |-> "snapshot"]>> \o Settings) = Settings
  /\ Tail(Settings) = <<[kind |-> "ping"]>> /\ Tail(<<[kind |-> "ping"]>>) = <<>>
<1>1. \A a, b \in Message : /\ Tail(<<a>>) = <<>> /\ Tail(<<a, b>>) = <<b>>
                             /\ <<a>> \in Seq(Message) /\ <<a, b>> \in Seq(Message)
                             /\ Len(<<a>>) = 1 /\ <<a>>[1] = a
  OBVIOUS
<1>2. \A a \in Message : \A s \in Seq(Message) : Tail(<<a>> \o s) = s
  <2> SUFFICES ASSUME NEW a \in Message, NEW s \in Seq(Message) PROVE Tail(<<a>> \o s) = s
    OBVIOUS
  <2> DEFINE o == <<a>>
             w == o \o s
  <2>1. o \in Seq(Message) /\ Len(o) = 1
    BY <1>1
  <2> HIDE DEF o
  <2>2. /\ w \in Seq(Message) /\ Len(w) = 1 + Len(s) /\ Len(s) \in Nat
        /\ \A i \in 1 .. Len(s) : w[i + 1] = s[i]
    <3>1. /\ w \in Seq(Message) /\ Len(w) = 1 + Len(s) /\ Len(s) \in Nat
          /\ \A i \in 1 .. 1 + Len(s) : w[i] = IF i <= 1 THEN o[i] ELSE s[i - 1]
      <4>1. /\ o \o s \in Seq(Message) /\ Len(o \o s) = Len(o) + Len(s)
            /\ \A i \in 1 .. Len(o) + Len(s) :
                 (o \o s)[i] = IF i <= Len(o) THEN o[i] ELSE s[i - Len(o)]
        BY <2>1, ConcatProperties
      <4>2. Len(s) \in Nat
        BY LenProperties
      <4> QED
        BY <2>1, <4>1, <4>2
    <3> HIDE DEF w
    <3>2. \A i \in 1 .. Len(s) : i + 1 \in 1 .. 1 + Len(s) /\ ~ (i + 1 <= 1) /\ (i + 1) - 1 = i
      BY <3>1
    <3> QED
      BY <3>1, <3>2
  <2> HIDE DEF w
  <2>3. w # <<>>
    BY <2>2
  <2>4. /\ Tail(w) \in Seq(Message) /\ Len(Tail(w)) = Len(w) - 1
        /\ \A i \in 1 .. Len(Tail(w)) : Tail(w)[i] = w[i + 1]
    BY <2>2, <2>3, HeadTailProperties
  <2>5. Tail(w) = s
    BY <2>2, <2>4, SeqEqual
  <2> QED
    BY <2>5 DEF w, o
<1> DEFINE a == [kind |-> "snapshot"]
           b == [kind |-> "settings"]
           c == [kind |-> "ping"]
<1>3. a \in Message /\ b \in Message /\ c \in Message
  BY MessageTypes
<1> HIDE DEF a, b, c
<1>4. /\ Tail(<<a>>) = <<>> /\ Tail(<<a>> \o <<b, c>>) = <<b, c>>
      /\ Tail(<<b, c>>) = <<c>> /\ Tail(<<c>>) = <<>>
  BY ZenonT(40), <1>1, <1>2, <1>3
<1> QED
  BY <1>4 DEF Settings, a, b, c

(* An error ends what the client is in. *)
LEMMA ClientFails ==
  ASSUME NetInv, peer["client"].pc \in Connecting, RecvError("client"), Drop("client"),
         Goto("client", "run"), said' = said
  PROVE  NetInv'
<1> DEFINE s == peer["server"]
           c == peer["client"]
           t == peer'["client"]
<1>2. NetType /\ LineInv /\ ServerInv /\ ClientInv /\ LinkedInv
      /\ \A o \in Peers : LoneInv(o) /\ JoinedInv(o)
  BY DEF NetInv
<1>3. /\ c.pc \in Connecting /\ peer' = [peer EXCEPT !["client"].pc = "run"]
      /\ wire' = [wire EXCEPT !["client"] = <<>>]
      /\ far' = far /\ linked' = linked /\ pending' = pending
  BY DEF Drop, Goto
<1>5. c.sock = "open" /\ ~ c.joined /\ far["client"] = "reset" /\ ~ linked /\ ~ pending
  BY <1>2, <1>3, ServerClient DEF ClientInv, LineInv, RecvError
<1>6. /\ peer' \in [Peers -> PeerType] /\ peer'["server"] = s
      /\ Keeps(t, c) /\ Intact(t) /\ t.mode = c.mode /\ t.sock = "open" /\ t.pc = "run"
  BY <1>3, <1>5, ServerClient, GotoFacts
<1>7. /\ wire' \in [Peers -> Seq(Message)] /\ wire'["client"] = <<>>
      /\ wire'["server"] = wire["server"]
  BY <1>2, <1>3, ServerClient DEF NetType
<1>8. ~ t.joined
  BY <1>5, <1>6 DEF Keeps
<1> HIDE DEF s, c, t
<1>9. NetType' /\ D' = D
  BY <1>2, <1>3, <1>6, <1>7, ServerClient, KeepsType DEF NetType, s, c, t
<1>10. LineInv' /\ LinkedInv'
  BY <1>3, <1>5 DEF LineInv, LinkedInv
<1>12. ServerInv'
  BY <1>2, <1>6, <1>7, <1>8 DEF ServerInv, s, t, c
<1>13. ClientInv'
  BY <1>2, <1>6, <1>7 DEF ClientInv, c, t, Serving, Connecting
<1>14. \A o \in Peers : LoneInv(o)'
  BY <1>2, <1>3, <1>5, <1>6, ServerClient DEF LoneInv, Connected, At, t, s
<1>15. \A o \in Peers : JoinedInv(o)'
  BY <1>3, <1>6, <1>7, <1>8, <1>9, ServerClient, JoinedKeeps DEF JoinedInv, t, s
<1> QED
  BY <1>9, <1>10, <1>12, <1>13, <1>14, <1>15 DEF NetInv

(* The client reads the snapshot, or closes its socket. *)
LEMMA GetSnapshotNet ==
  ASSUME NetInv, GetSnapshot PROVE NetInv'
<1> DEFINE s == peer["server"]
           c == peer["client"]
           t == peer'["client"]
<1>2. NetType /\ LineInv /\ ServerInv /\ ClientInv /\ LinkedInv
      /\ \A o \in Peers : LoneInv(o) /\ JoinedInv(o)
  BY DEF NetInv
<1>3. c.pc = "get_snapshot" /\ said' = said
  BY DEF GetSnapshot, At, Quiet
<1>4. c \in PeerType /\ Intact(c) /\ peer \in [Peers -> PeerType]
  BY <1>2, ServerClient DEF NetType
<1>5. c.sock = "open" /\ ~ c.joined /\ c.mode = "idle"
  BY <1>2, <1>3 DEF ClientInv, Connecting
<1>6. \/ /\ wire["client"] # <<>> /\ wire' = Rest("client")
         /\ far' = far /\ linked' = linked /\ pending' = pending
         /\ peer' = [peer EXCEPT !["client"].pc = "get_settings"]
      \/ /\ Closing("client", TRUE, FALSE)
         /\ peer' = [peer EXCEPT !["client"].sock = "closed", !["client"].pc = "run"]
  BY DEF GetSnapshot, Arrived, Take, Goto
<1>7. CASE /\ wire["client"] # <<>> /\ wire' = Rest("client")
           /\ far' = far /\ linked' = linked /\ pending' = pending
           /\ peer' = [peer EXCEPT !["client"].pc = "get_settings"]
  <2>1. /\ peer' \in [Peers -> PeerType] /\ peer'["server"] = s
        /\ Keeps(t, c) /\ Intact(t) /\ t.mode = "idle" /\ t.sock = "open"
        /\ t.pc = "get_settings"
    BY <1>5, <1>7, ServerClient, GotoFacts
  <2>2. /\ wire' \in [Peers -> Seq(Message)] /\ wire'["client"] = Tail(wire["client"])
        /\ wire'["server"] = wire["server"]
    BY <1>7, ServerClient, RestFacts
  <2>3. \/ wire["client"] = <<[kind |-> "snapshot"]>> /\ wire'["client"] = <<>>
        \/ wire["client"] # <<[kind |-> "snapshot"]>> /\ wire'["client"] = Settings
    BY <1>2, <1>3, <1>7, <2>2, HandshakeTail DEF ClientInv
  <2>4. ~ t.joined
    BY <1>5, <2>1 DEF Keeps
  <2>5. ~ pending
    BY <1>2, <1>7 DEF LineInv
  <2> HIDE DEF s, c, t
  <2>6. NetType' /\ D' = D
    BY <1>2, <1>3, <1>7, <2>1, <2>2, ServerClient, KeepsType DEF NetType, s, c, t
  <2>7. LineInv'
    BY <1>2, <1>7, <2>1, <2>5, ServerClient DEF LineInv, s, t
  <2>8. LinkedInv'
    <3>1. linked => \/ s.pc = "settings" /\ wire["client"] = <<[kind |-> "snapshot"]>>
                    \/ s.pc = "pong" /\ wire["server"] = <<>>
      BY <1>2, <1>3, <1>5, <1>7 DEF LinkedInv, s, c
    <3> QED
      BY <1>7, <2>1, <2>2, <2>3, <3>1 DEF LinkedInv, s, t
  <2>9. ServerInv'
    BY <1>2, <2>1, <2>2, <2>4 DEF ServerInv, s, t, c
  <2>10. ClientInv'
    BY <1>2, <2>1, <2>2, <2>3, <2>4 DEF ClientInv, c, t, Serving, Connecting
  <2>11. \A o \in Peers : LoneInv(o)'
    BY <1>2, <1>7, <2>1, ServerClient DEF LoneInv, Connected, At, t, s
  <2>12. \A o \in Peers : JoinedInv(o)'
    BY <1>3, <1>7, <2>1, <2>2, <2>4, <2>6, ServerClient, JoinedKeeps DEF JoinedInv, t, s
  <2> QED
    BY <2>6, <2>7, <2>8, <2>9, <2>10, <2>11, <2>12 DEF NetInv
<1>8. CASE /\ Closing("client", TRUE, FALSE)
           /\ peer' = [peer EXCEPT !["client"].sock = "closed", !["client"].pc = "run"]
  <2>1. HungUp("client")
    BY <1>5, <1>8, ServerClient, ClosingHangs
  <2>2. t = [c EXCEPT !.sock = "closed", !.pc = "run"] /\ peer' = [peer EXCEPT !["client"] = t]
    BY <1>4, <1>8, ServerClient
  <2> HIDE DEF c, t, s
  <2>3. Keeps(t, c) /\ t.mode = "idle" /\ t.sock = "closed" /\ t.pc = "run"
    BY <1>4, <1>5, <2>2 DEF PeerType, Keeps
  <2>4. Intact(t)
    BY <1>4, <2>3, KeepsIntact
  <2>5. ~ t.joined /\ t.delta = c.delta /\ t.given = c.given /\ c.given \in Nat
    BY <1>4, <1>5, <2>3 DEF Keeps, PeerType
  <2>6. t.given <= c.given /\ t.pc \notin Serving /\ t.pc \notin Connecting
    BY <2>3, <2>5 DEF Serving, Connecting
  <2> QED
    BY <1>3, <2>1, <2>2, <2>3, <2>4, <2>5, <2>6, ServerClient, Leaving DEF c, t
<1> QED
  BY <1>6, <1>7, <1>8

(* The client reads the settings, and gets the snapshot to run or not. *)
LEMMA GetSettingsNet ==
  ASSUME NetInv, GetSettings PROVE NetInv'
<1> DEFINE s == peer["server"]
           c == peer["client"]
           t == peer'["client"]
<1>2. NetType /\ LineInv /\ ServerInv /\ ClientInv /\ LinkedInv
      /\ \A o \in Peers : LoneInv(o) /\ JoinedInv(o)
  BY DEF NetInv
<1>3. c.pc = "get_settings" /\ said' = said
  BY DEF GetSettings, At, Quiet
<1>4. c \in PeerType /\ Intact(c) /\ peer \in [Peers -> PeerType]
  BY <1>2, ServerClient DEF NetType
<1>5. c.sock = "open" /\ ~ c.joined /\ c.mode = "idle"
  BY <1>2, <1>3 DEF ClientInv, Connecting
<1>6. \/ /\ wire["client"] # <<>> /\ wire' = Rest("client")
         /\ far' = far /\ linked' = linked /\ pending' = pending
         /\ \/ peer' = [peer EXCEPT !["client"].mode = "client", !["client"].pc = "get_ping"]
            \/ peer' = [peer EXCEPT !["client"].pc = "run"]
      \/ RecvError("client") /\ Drop("client") /\ Goto("client", "run")
  BY DEF GetSettings, Arrived, Take, Goto
<1>7. CASE /\ wire["client"] # <<>> /\ wire' = Rest("client")
           /\ far' = far /\ linked' = linked /\ pending' = pending
           /\ \/ peer' = [peer EXCEPT !["client"].mode = "client", !["client"].pc = "get_ping"]
              \/ peer' = [peer EXCEPT !["client"].pc = "run"]
  <2>1. /\ peer' \in [Peers -> PeerType] /\ peer'["server"] = s
        /\ Keeps(t, c) /\ Intact(t) /\ t.sock = "open"
        /\ \/ t.mode = "client" /\ t.pc = "get_ping"
           \/ t.mode = "idle" /\ t.pc = "run"
    <3>1. CASE peer' = [peer EXCEPT !["client"].mode = "client", !["client"].pc = "get_ping"]
      <4>1. t = [c EXCEPT !.mode = "client", !.pc = "get_ping"]
            /\ peer' = [peer EXCEPT !["client"] = t] /\ peer'["server"] = s
        BY <1>4, <3>1, ServerClient
      <4> HIDE DEF c, t, s
      <4>2. Keeps(t, c) /\ t.mode = "client" /\ t.sock = "open" /\ t.pc = "get_ping"
        BY <1>4, <1>5, <4>1 DEF PeerType, Keeps
      <4>3. Intact(t)
        BY <1>4, <4>2, KeepsIntact
      <4> QED
        BY <1>4, <4>1, <4>2, <4>3 DEF Keeps
    <3>2. CASE peer' = [peer EXCEPT !["client"].pc = "run"]
      BY <1>5, <3>2, ServerClient, GotoFacts
    <3> QED
      BY <1>7, <3>1, <3>2
  <2>2. /\ wire' \in [Peers -> Seq(Message)] /\ wire'["client"] = Tail(wire["client"])
        /\ wire'["server"] = wire["server"]
    BY <1>7, ServerClient, RestFacts
  <2>3. wire'["client"] = <<[kind |-> "ping"]>>
    BY <1>2, <1>3, <1>7, <2>2, HandshakeTail DEF ClientInv
  <2>4. ~ t.joined
    BY <1>5, <2>1 DEF Keeps
  <2>5. ~ pending
    BY <1>2, <1>3 DEF LineInv
  <2> HIDE DEF s, c, t
  <2>6. NetType' /\ D' = D
    BY <1>2, <1>3, <1>7, <2>1, <2>2, ServerClient, KeepsType DEF NetType, s, c, t
  <2>7. LineInv'
    BY <1>2, <1>7, <2>1, <2>5, ServerClient DEF LineInv, s, t
  <2>8. LinkedInv'
    <3>1. linked => s.pc = "pong" /\ wire["server"] = <<>>
      BY <1>2, <1>3, <1>5, <1>7 DEF LinkedInv, s, c
    <3> QED
      BY <1>7, <2>1, <2>2, <3>1 DEF LinkedInv, s, t
  <2>9. ServerInv'
    BY <1>2, <2>1, <2>2, <2>4 DEF ServerInv, s, t, c
  <2>10. ClientInv'
    BY <1>2, <2>1, <2>3, <2>4 DEF ClientInv, t, Serving, Connecting
  <2>11. \A o \in Peers : LoneInv(o)'
    BY <1>2, <1>7, <2>1, ServerClient DEF LoneInv, Connected, At, t, s
  <2>12. \A o \in Peers : JoinedInv(o)'
    BY <1>3, <1>7, <2>1, <2>2, <2>4, <2>6, ServerClient, JoinedKeeps DEF JoinedInv, t, s
  <2> QED
    BY <2>6, <2>7, <2>8, <2>9, <2>10, <2>11, <2>12 DEF NetInv
<1>8. CASE RecvError("client") /\ Drop("client") /\ Goto("client", "run")
  BY <1>3, <1>8, ClientFails DEF Connecting
<1> QED
  BY <1>6, <1>7, <1>8

(* What the client sends. *)
LEMMA ClientSends ==
  ASSUME NetInv, NEW ms \in Seq(Message), NEW w \in [Peers -> Seq(Message)],
         Sending("client", ms, w)
  PROVE  /\ wire' \in [Peers -> Seq(Message)] /\ far' \in [Peers -> {"open", "closed", "reset"}]
         /\ wire'["client"] = w["client"]
         /\ linked => wire'["server"] = w["server"] \o ms
         /\ ~ linked => wire'["server"] = w["server"]
         /\ far'["server"] = far["server"]
         /\ far["client"] = "open" => far'["client"] = "open"
         /\ linked' = linked /\ pending' = pending
<1>1. /\ far \in [Peers -> {"open", "closed", "reset"}]
      /\ linked => far["client"] = "open"
  BY ServerClient DEF NetInv, NetType, LineInv
<1>2. /\ wire' = IF far["client"] = "open" /\ linked THEN [w EXCEPT !["server"] = w["server"] \o ms] ELSE w
      /\ far' = [far EXCEPT !["client"] = IF far["client"] = "closed" THEN "reset" ELSE far["client"]]
      /\ linked' = linked /\ pending' = pending
  BY ServerClient DEF Sending
<1>3. w["server"] \o ms \in Seq(Message)
  BY ServerClient
<1> QED
  BY <1>1, <1>2, <1>3, ServerClient

(* The client sends the packet back. *)
LEMMA GetPingNet ==
  ASSUME NetInv, GetPing PROVE NetInv'
<1> DEFINE s == peer["server"]
           c == peer["client"]
           t == peer'["client"]
           ms == <<[kind |-> "pong"]>>
<1>2. NetType /\ LineInv /\ ServerInv /\ ClientInv /\ LinkedInv
      /\ \A o \in Peers : LoneInv(o) /\ JoinedInv(o)
  BY DEF NetInv
<1>3. c.pc = "get_ping" /\ said' = said
  BY DEF GetPing, At, Quiet
<1>5. /\ c.sock = "open" /\ ~ c.joined /\ c.mode = "client"
      /\ wire["client"] = <<[kind |-> "ping"]>>
  BY <1>2, <1>3 DEF ClientInv, Connecting
<1>6. \/ /\ wire["client"] # <<>> /\ Sending("client", ms, Rest("client"))
         /\ peer' = [peer EXCEPT !["client"].pc = "get_delta"]
      \/ RecvError("client") /\ Drop("client") /\ Goto("client", "run")
  BY DEF GetPing, Arrived, Goto
<1>7. CASE /\ wire["client"] # <<>> /\ Sending("client", ms, Rest("client"))
           /\ peer' = [peer EXCEPT !["client"].pc = "get_delta"]
  <2>1. /\ peer' \in [Peers -> PeerType] /\ peer'["server"] = s
        /\ Keeps(t, c) /\ Intact(t) /\ t.sock = "open"
        /\ t.mode = "client" /\ t.pc = "get_delta"
    BY <1>5, <1>7, ServerClient, GotoFacts
  <2>2. /\ wire' \in [Peers -> Seq(Message)] /\ far' \in [Peers -> {"open", "closed", "reset"}]
        /\ wire'["client"] = <<>>
        /\ linked => wire'["server"] = wire["server"] \o ms
        /\ ~ linked => wire'["server"] = wire["server"]
        /\ far'["server"] = far["server"]
        /\ far["client"] = "open" => far'["client"] = "open"
        /\ linked' = linked /\ pending' = pending
    <3> DEFINE w == Rest("client")
    <3>1. /\ w \in [Peers -> Seq(Message)] /\ w["client"] = Tail(wire["client"])
          /\ w["server"] = wire["server"]
      BY <1>7, ServerClient, RestFacts
    <3>2. Tail(wire["client"]) = <<>>
      BY <1>5, HandshakeTail
    <3>3. ms \in Seq(Message)
      BY HandshakeType
    <3> HIDE DEF w, ms
    <3>4. Sending("client", ms, w)
      BY <1>7 DEF w
    <3> QED
      BY <3>1, <3>2, <3>3, <3>4, ClientSends
  <2>3. <<>> \o ms = ms
    <3>1. ms \in Seq(Message)
      BY HandshakeType
    <3> QED
      BY <3>1, ConcatNone
  <2>4. ~ t.joined
    BY <1>5, <2>1 DEF Keeps
  <2>5. ~ pending
    BY <1>2, <1>3 DEF LineInv
  <2> HIDE DEF s, c, t, ms
  <2>6. NetType' /\ D' = D
    BY <1>2, <1>3, <2>1, <2>2, ServerClient, KeepsType DEF NetType, s, c, t
  <2>7. linked => /\ s.pc = "pong" /\ s.mode = "server_connected" /\ ~ s.joined
                  /\ wire'["server"] = ms
    <3>1. linked => s.pc = "pong" /\ wire["server"] = <<>>
      BY <1>2, <1>3, <1>5 DEF LinkedInv, s, c
    <3>2. linked => s.mode = "server_connected" /\ ~ s.joined
      BY <1>2, <3>1 DEF ServerInv, Serving, s
    <3> QED
      BY <2>2, <2>3, <3>1, <3>2
  <2>8. LineInv'
    <3>1. linked' => ~ pending' /\ \A p \in Peers : peer'[p].sock = "open" /\ far'[p] = "open"
      <4>1. peer'["client"].sock = "open" /\ peer'["server"].sock = peer["server"].sock
        BY <2>1 DEF t, s
      <4>2. /\ far'["server"] = far["server"] /\ linked' = linked /\ pending' = pending
            /\ far["client"] = "open" => far'["client"] = "open"
        BY <2>2
      <4>3. linked => /\ ~ pending /\ peer["server"].sock = "open"
                      /\ far["client"] = "open" /\ far["server"] = "open"
        BY <1>2, ServerClient DEF LineInv
      <4> QED
        BY <4>1, <4>2, <4>3, ServerClient
    <3> QED
      BY <2>2, <2>5, <3>1 DEF LineInv
  <2>9. LinkedInv'
    BY <2>1, <2>2, <2>7 DEF LinkedInv, s, t, ms
  <2>10. ServerInv'
    <3>1. CASE linked
      BY <1>2, <2>1, <2>2, <2>4, <2>7, <3>1 DEF ServerInv, s, t, c, ms, Serving, Connecting
    <3>2. CASE ~ linked
      BY <1>2, <2>1, <2>2, <2>4, <3>2 DEF ServerInv, s, t, c
    <3> QED
      BY <3>1, <3>2
  <2>11. ClientInv'
    BY <1>2, <2>1, <2>2, <2>4 DEF ClientInv, t, Serving, Connecting
  <2>12. \A o \in Peers : LoneInv(o)'
    BY SMTT(30), <1>2, <2>1, <2>2, ServerClient DEF LoneInv, Connected, At, t, s
  <2>13. JoinedInv("server")'
    <3>1. CASE linked
      BY <2>1, <2>7, <3>1 DEF JoinedInv, s
    <3>2. CASE ~ linked
      BY <1>3, <2>1, <2>2, <2>6, <3>2, ServerClient, JoinedKeeps DEF s
    <3> QED
      BY <3>1, <3>2
  <2>14. \A o \in Peers : JoinedInv(o)'
    BY <2>4, <2>13, ServerClient DEF JoinedInv, t
  <2> QED
    BY <2>6, <2>8, <2>9, <2>10, <2>11, <2>12, <2>14 DEF NetInv
<1>8. CASE RecvError("client") /\ Drop("client") /\ Goto("client", "run")
  BY <1>3, <1>8, ClientFails DEF Connecting
<1> QED
  BY <1>6, <1>7, <1>8

(* The types, when the client has new lists. *)
LEMMA ClientListsType ==
  ASSUME NetInv, peer' \in [Peers -> PeerType], peer'["server"] = peer["server"],
         Intact(peer'["client"]), peer'["client"].given = 0,
         wire' \in [Peers -> Seq(Message)], far' = far, linked' = linked, pending' = pending,
         said' = said
  PROVE  NetType' /\ D' = D
<1>1. NetType
  BY DEF NetInv
<1>2. \A o \in Peers : Intact(peer'[o])
  BY <1>1, ServerClient DEF NetType
<1>3. peer'["server"].given + peer'["client"].given <= MaxInputs
  <2>1. /\ peer["server"].given \in Nat /\ peer["client"].given \in Nat
        /\ peer["server"].given + peer["client"].given <= MaxInputs
    BY <1>1, ServerClient DEF NetType, PeerType
  <2> QED
    BY <2>1, BoundsAssumption
<1>4. D' = D
  BY DEF D
<1> QED
  BY <1>1, <1>2, <1>3, <1>4 DEF NetType

(* The client reads the delay, and is a member; or goes on without. *)
LEMMA GetDeltaNet ==
  ASSUME NetInv, GetDelta PROVE NetInv'
<1> DEFINE s == peer["server"]
           c == peer["client"]
           t == peer'["client"]
           w == wire["client"]
<1>2. NetType /\ LineInv /\ ServerInv /\ ClientInv /\ LinkedInv
      /\ \A o \in Peers : LoneInv(o) /\ JoinedInv(o)
  BY DEF NetInv
<1>3. c.pc = "get_delta" /\ said' = said
  BY DEF GetDelta, At, Quiet
<1>4. c \in PeerType /\ Intact(c) /\ peer \in [Peers -> PeerType]
  BY <1>2, ServerClient DEF NetType
<1>5. c.sock = "open" /\ ~ c.joined /\ c.mode = "client"
  BY <1>2, <1>3 DEF ClientInv, Connecting
<1>10. ~ pending
  BY <1>2, <1>3 DEF LineInv
<1>6. \/ /\ w # <<>> /\ wire' = Rest("client")
         /\ far' = far /\ linked' = linked /\ pending' = pending
         /\ peer' = [peer EXCEPT !["client"] = WithLists(c, Head(w).delta)]
      \/ /\ RecvError("client") /\ Drop("client")
         /\ \E d \in Deltas :
              peer' = [peer EXCEPT !["client"] = [WithLists(c, d) EXCEPT !.joined = FALSE]]
      \/ Ends("client", "crashed")
  BY DEF GetDelta, Arrived, Take
<1>7. CASE /\ w # <<>> /\ wire' = Rest("client")
           /\ far' = far /\ linked' = linked /\ pending' = pending
           /\ peer' = [peer EXCEPT !["client"] = WithLists(c, Head(w).delta)]
  <2>1. /\ Head(w).delta = D /\ D # 0 /\ said["client"] = <<>>
        /\ Carries(Log(said, D, "server"), Tail(w), 0, linked)
    <3>1. /\ Head(w) = [kind |-> "delta", delta |-> D] /\ D # 0 /\ said["client"] = <<>>
          /\ Carries(Log(said, D, "server"), Tail(w), 0, linked)
      BY <1>2, <1>3, <1>7 DEF ClientInv
    <3> QED
      BY <3>1
  <2>2. D \in Deltas
    BY <2>1, PeerFacts, ServerClient DEF D
  <2> DEFINE d == D
             v == WithLists(c, d)
  <2>3. /\ Intact(v) /\ v.mode = "client" /\ v.pc = "run" /\ v.sock = "open"
        /\ v.listen = c.listen /\ v.delta = d /\ v.given = 0 /\ v.joined = TRUE
    <3> HIDE DEF c, d
    <3>1. Intact(c) /\ c.sock = "open" /\ c.mode = "client" /\ d \in Deltas
      BY <1>4, <1>5, <2>2 DEF d
    <3>2. /\ Intact(v)
          /\ v.mode = c.mode /\ v.pc = "run" /\ v.sock = c.sock /\ v.listen = c.listen
          /\ v.delta = d /\ v.current = 0 /\ v.full = FALSE /\ v.machine = <<>>
          /\ v.given = 0 /\ v.joined = TRUE
          /\ \A i \in 0 .. d - 1 : v.ring[i] = NoList
      BY <3>1, WithListsIntact
    <3> QED
      BY <3>1, <3>2
  <2>4. Member("client", v, said, d, Tail(w), far["client"], linked)
    <3> DEFINE lk == linked
               f == far["client"]
               x == Tail(w)
               p == "client"
    <3>1. /\ p \in Peers /\ c.mode = Role(p) /\ c.sock = "open" /\ d \in Deltas
          /\ said \in SaidType /\ Len(said[p]) = 0
          /\ Carries(Log(said, d, Other(p)), x, 0, lk)
      BY <1>2, <1>5, <2>1, <2>2, ServerClient DEF Role, NetType
    <3> HIDE DEF lk, f, x, p, d, c
    <3>2. Member(p, WithLists(c, d), said, d, x, f, lk)
      BY <1>4, <3>1, MemberFresh
    <3> QED
      BY <3>2 DEF lk, f, x, p
  <2>5. peer' = [peer EXCEPT !["client"] = v]
    BY <1>7, <2>1
  <2> HIDE DEF v, d
  <2>6. v \in PeerType
    BY <2>3 DEF Intact
  <2>7. t = v /\ peer'["server"] = s /\ peer' \in [Peers -> PeerType]
    BY <1>4, <2>5, <2>6, ServerClient
  <2>8. /\ wire' \in [Peers -> Seq(Message)] /\ wire'["client"] = Tail(w)
        /\ wire'["server"] = wire["server"]
    BY <1>7, ServerClient, RestFacts
  <2> HIDE DEF s, c, t, w
  <2>9. NetType' /\ D' = D
    BY <1>3, <1>7, <2>3, <2>7, <2>8, ClientListsType DEF s, t
  <2>10. LineInv'
    BY <1>2, <1>7, <1>10, <2>3, <2>7, ServerClient DEF LineInv, s, t
  <2>11. LinkedInv'
    <3>1. linked => s.joined
      BY <1>2, <1>3, <1>5, <1>7 DEF LinkedInv, s, c, w
    <3> QED
      BY <1>7, <2>3, <2>7, <3>1 DEF LinkedInv, s, t
  <2>12. ServerInv'
    <3>1. s.pc \notin Serving
      BY <1>2, <1>3, <1>7 DEF ServerInv, s, c, w
    <3> QED
      BY <1>2, <2>3, <2>7, <2>8, <3>1 DEF ServerInv, Serving, s, t, c
  <2>13. ClientInv'
    BY <2>3, <2>7 DEF ClientInv, t, Serving, Connecting
  <2>14. \A o \in Peers : LoneInv(o)'
    BY <1>2, <1>7, <2>3, <2>7, ServerClient DEF LoneInv, Connected, At, t, s
  <2>15. JoinedInv("client")'
    BY <1>3, <1>7, <2>4, <2>7, <2>8, <2>9 DEF JoinedInv, t, d
  <2>16. \A o \in Peers : JoinedInv(o)'
    BY <1>3, <1>7, <2>7, <2>8, <2>9, <2>15, ServerClient, JoinedKeeps DEF s
  <2> QED
    BY <2>9, <2>10, <2>11, <2>12, <2>13, <2>14, <2>16 DEF NetInv
<1>8. CASE /\ RecvError("client") /\ Drop("client")
           /\ \E d \in Deltas :
                peer' = [peer EXCEPT !["client"] = [WithLists(c, d) EXCEPT !.joined = FALSE]]
  <2>1. PICK d \in Deltas :
          peer' = [peer EXCEPT !["client"] = [WithLists(c, d) EXCEPT !.joined = FALSE]]
    BY <1>8
  <2> DEFINE v == WithLists(c, d)
             u == [v EXCEPT !.joined = FALSE]
  <2>2. Intact(v) /\ v.mode = "client" /\ v.pc = "run" /\ v.sock = "open" /\ v.given = 0
    <3> HIDE DEF c
    <3>1. Intact(c) /\ c.sock = "open" /\ c.mode = "client"
      BY <1>4, <1>5
    <3>2. /\ Intact(v)
          /\ v.mode = c.mode /\ v.pc = "run" /\ v.sock = c.sock /\ v.listen = c.listen
          /\ v.delta = d /\ v.current = 0 /\ v.full = FALSE /\ v.machine = <<>>
          /\ v.given = 0 /\ v.joined = TRUE
          /\ \A i \in 0 .. d - 1 : v.ring[i] = NoList
      BY <3>1, WithListsIntact
    <3> QED
      BY <3>1, <3>2
  <2> HIDE DEF v
  <2>3. v \in PeerType
    BY <2>2 DEF Intact
  <2>4. /\ u \in PeerType
        /\ u.mode = v.mode /\ u.pc = v.pc /\ u.sock = v.sock /\ u.listen = v.listen
        /\ u.delta = v.delta /\ u.ring = v.ring /\ u.current = v.current
        /\ u.toPlay = v.toPlay /\ u.full = v.full /\ u.given = v.given /\ ~ u.joined
    BY <2>3 DEF PeerType
  <2>5. peer' = [peer EXCEPT !["client"] = u]
    BY <2>1 DEF v
  <2> HIDE DEF u
  <2>6. Intact(u)
    BY <2>2, <2>4 DEF Intact
  <2>7. t = u /\ peer'["server"] = s /\ peer' \in [Peers -> PeerType]
    BY <1>4, <2>4, <2>5, ServerClient
  <2>8. /\ wire' = [wire EXCEPT !["client"] = <<>>] /\ far["client"] = "reset"
        /\ far' = far /\ linked' = linked /\ pending' = pending
    BY <1>5, <1>8 DEF RecvError, Drop
  <2>9. /\ wire' \in [Peers -> Seq(Message)] /\ wire'["client"] = <<>>
        /\ wire'["server"] = wire["server"]
    BY <1>2, <2>8, ServerClient DEF NetType
  <2>10. ~ linked
    BY <1>2, <2>8, ServerClient DEF LineInv
  <2> HIDE DEF s, c, t, w
  <2>11. NetType' /\ D' = D
    BY <1>3, <2>2, <2>4, <2>6, <2>7, <2>8, <2>9, ClientListsType DEF s, t
  <2>12. LineInv' /\ LinkedInv'
    BY <1>10, <2>8, <2>10 DEF LineInv, LinkedInv
  <2>13. ServerInv'
    BY <1>2, <2>2, <2>4, <2>7, <2>9 DEF ServerInv, s, t, c
  <2>14. ClientInv'
    BY <2>2, <2>4, <2>7 DEF ClientInv, t, Serving, Connecting
  <2>15. \A o \in Peers : LoneInv(o)'
    BY <1>2, <2>2, <2>4, <2>7, <2>8, ServerClient DEF LoneInv, Connected, At, t, s
  <2>16. \A o \in Peers : JoinedInv(o)'
    BY <1>3, <2>4, <2>7, <2>8, <2>9, <2>11, ServerClient, JoinedKeeps DEF JoinedInv, t, s
  <2> QED
    BY <2>11, <2>12, <2>13, <2>14, <2>15, <2>16 DEF NetInv
<1>9. CASE Ends("client", "crashed")
  BY <1>3, <1>9, ServerClient, GoneLeft
<1> QED
  BY <1>6, <1>7, <1>8, <1>9

(* A process at work: it may read what is on its wire, as a member.        *)
AtWork(p, t) ==
  /\ Intact(t) /\ t.pc \in {"run", "read"} /\ peer[p].pc \in {"run", "read"}
  /\ t.mode = peer[p].mode /\ t.sock = peer[p].sock /\ t.listen = peer[p].listen
  /\ t.delta = peer[p].delta /\ t.joined = peer[p].joined

(* The parts of a process that is at work. *)
LEMMA WorkFacts ==
  ASSUME NetInv, NEW p \in Peers, NEW t, AtWork(p, t), peer' = [peer EXCEPT ![p] = t]
  PROVE  /\ peer' \in [Peers -> PeerType] /\ peer'[p] = t /\ peer'[Other(p)] = peer[Other(p)]
         /\ \A o \in Peers : /\ Intact(peer'[o])
                             /\ peer'[o].mode = peer[o].mode /\ peer'[o].sock = peer[o].sock
                             /\ peer'[o].listen = peer[o].listen
                             /\ peer'[o].delta = peer[o].delta
                             /\ peer'[o].joined = peer[o].joined
                             /\ \A k \in Serving \cup Connecting :
                                  peer'[o].pc = k <=> peer[o].pc = k
         /\ D' = D
<1>1. /\ peer \in [Peers -> PeerType] /\ \A o \in Peers : Intact(peer[o])
      /\ t \in PeerType
  BY DEF NetInv, NetType, AtWork, Intact
<1>2. /\ peer' \in [Peers -> PeerType] /\ peer'[p] = t
      /\ \A o \in Peers : o # p => peer'[o] = peer[o]
  BY <1>1
<1>3. ASSUME NEW o \in Peers
      PROVE  /\ Intact(peer'[o])
             /\ peer'[o].mode = peer[o].mode /\ peer'[o].sock = peer[o].sock
             /\ peer'[o].listen = peer[o].listen
             /\ peer'[o].delta = peer[o].delta
             /\ peer'[o].joined = peer[o].joined
             /\ \A k \in Serving \cup Connecting : peer'[o].pc = k <=> peer[o].pc = k
  <2>1. CASE o # p
    BY <1>1, <1>2, <2>1
  <2>2. CASE o = p
    BY <1>2, <2>2 DEF AtWork, Serving, Connecting
  <2> QED
    BY <2>1, <2>2
<1>4. D' = D
  BY <1>3, ServerClient DEF D
<1> QED
  BY <1>2, <1>3, <1>4, OtherPeer

(* A process at work that sends nothing. *)
LEMMA PeerStep ==
  ASSUME NetInv, NEW p \in Peers, NEW t, AtWork(p, t), peer' = [peer EXCEPT ![p] = t],
         peer'["server"].given + peer'["client"].given <= MaxInputs,
         wire' \in [Peers -> Seq(Message)], wire'[Other(p)] = wire[Other(p)],
         far' = far, linked' = linked, pending' = pending, said' = said,
         peer[p].joined \/ (wire'[p] = wire[p] /\ t.pc = peer[p].pc),
         t.joined => Member(p, t, said, D, wire'[p], far[p], linked)
  PROVE  NetInv'
<1> DEFINE s == peer["server"]
           c == peer["client"]
           s2 == peer'["server"]
           c2 == peer'["client"]
           q == Other(p)
<1>2. NetType /\ LineInv /\ ServerInv /\ ClientInv /\ LinkedInv
      /\ \A o \in Peers : LoneInv(o) /\ JoinedInv(o)
  BY DEF NetInv
<1>3. /\ peer' \in [Peers -> PeerType] /\ peer'[p] = t /\ peer'[q] = peer[q]
      /\ \A o \in Peers : /\ Intact(peer'[o])
                          /\ peer'[o].mode = peer[o].mode /\ peer'[o].sock = peer[o].sock
                          /\ peer'[o].listen = peer[o].listen
                          /\ peer'[o].delta = peer[o].delta
                          /\ peer'[o].joined = peer[o].joined
                          /\ \A k \in Serving \cup Connecting :
                               peer'[o].pc = k <=> peer[o].pc = k
      /\ D' = D
  BY WorkFacts
<1>4. /\ p \in Peers /\ q \in Peers /\ q # p /\ \A o \in Peers : o = p \/ o = q
      /\ (p = "server" /\ q = "client") \/ (p = "client" /\ q = "server")
  BY OtherPeer DEF Peers, Other
<1>5. /\ peer[p].pc \in {"run", "read"} /\ t.pc \in {"run", "read"}
      /\ peer[p].joined => peer[p].mode = Role(p) /\ peer[p].sock = "open"
  BY <1>2, MemberIs DEF AtWork, JoinedInv
<1>6. \A o \in Peers : wire'[o] = wire[o] \/ (o = p /\ peer[o].joined)
  BY <1>4
<1>7. /\ s2.mode = s.mode /\ s2.sock = s.sock /\ s2.listen = s.listen /\ s2.joined = s.joined
      /\ c2.mode = c.mode /\ c2.sock = c.sock /\ c2.listen = c.listen /\ c2.joined = c.joined
      /\ \A k \in Serving \cup Connecting : (s2.pc = k <=> s.pc = k) /\ (c2.pc = k <=> c.pc = k)
  BY <1>3, ServerClient
<1>8. /\ s.joined => /\ s.mode = "server_connected" /\ s.sock = "open" /\ s.pc \notin Serving
      /\ c.joined => c.mode = "client" /\ c.sock = "open" /\ c.pc \notin Connecting
  <2>1. \A o \in Peers : peer[o].joined =>
          peer[o].mode = Role(o) /\ peer[o].sock = "open" /\ peer[o].pc \in {"run", "read"}
    BY <1>2, MemberIs DEF JoinedInv
  <2>2. Role("server") = "server_connected" /\ Role("client") = "client"
    BY DEF Role
  <2> QED
    BY <2>1, <2>2, ServerClient DEF Serving, Connecting
<1>9. /\ wire'["server"] = wire["server"] \/ s.joined
      /\ wire'["client"] = wire["client"] \/ c.joined
  BY <1>6, ServerClient
<1> HIDE DEF s, c, s2, c2, q
<1>10. NetType'
  BY <1>2, <1>3 DEF NetType
<1>11. LineInv'
  <2>1. pending => c2.pc = "get_snapshot" /\ wire'["client"] = <<>> /\ far'["client"] = "open"
    BY <1>2, <1>7, <1>8, <1>9 DEF LineInv, c, Connecting
  <2>2. linked => ~ pending /\ \A o \in Peers : peer'[o].sock = "open" /\ far'[o] = "open"
    BY <1>2, <1>3 DEF LineInv
  <2> QED
    BY <2>1, <2>2 DEF LineInv, c2
<1>12. LinkedInv'
  <2>1. CASE linked /\ (s.joined \/ c.joined)
    <3>1. s.joined /\ (c.joined \/ (c.pc = "get_delta" /\ wire["client"] # <<>>))
      BY <2>1, ServerClient, LinkedMembers DEF s, c
    <3>2. c.pc = "get_delta" => c2.pc = "get_delta"
      BY <1>7 DEF Connecting
    <3> QED
      BY <1>7, <1>9, <2>1, <3>1, <3>2 DEF LinkedInv, s2, c2
  <2>2. CASE ~ s.joined /\ ~ c.joined
    BY <1>2, <1>7, <1>9, <2>2 DEF LinkedInv, s, c, s2, c2, Serving, Connecting
  <2>3. CASE ~ linked
    BY <2>3 DEF LinkedInv
  <2> QED
    BY <2>1, <2>2, <2>3
<1>13. ServerInv'
  BY <1>2, <1>7, <1>8, <1>9 DEF ServerInv, s, c, s2, c2, Serving, Connecting
<1>14. ClientInv'
  <2>1. CASE c.joined
    BY <1>2, <1>7, <1>8, <2>1 DEF ClientInv, c, c2, Serving, Connecting
  <2>2. CASE ~ c.joined
    BY <1>2, <1>3, <1>7, <1>9, <2>2 DEF ClientInv, c, c2, Serving, Connecting
  <2> QED
    BY <2>1, <2>2
<1>15. \A o \in Peers : LoneInv(o)'
  <2> SUFFICES ASSUME NEW o \in Peers PROVE LoneInv(o)'
    OBVIOUS
  <2>1. CASE o = q
    BY <1>2, <1>3, <1>4, <2>1 DEF LoneInv, Connected, At
  <2>2. CASE o = p
    BY <1>2, <1>3, <1>5, <2>2 DEF LoneInv, Connected, At
  <2> QED
    BY <1>4, <2>1, <2>2
<1>16. JoinedInv(q)'
  BY <1>3, <1>4, JoinedKeeps DEF q
<1>17. JoinedInv(p)'
  BY <1>3 DEF JoinedInv
<1> QED
  BY <1>4, <1>10, <1>11, <1>12, <1>13, <1>14, <1>15, <1>16, <1>17 DEF NetInv

(* The inputs of a session, when p has those of t. *)
LEMMA GivenBound ==
  ASSUME NetInv, NEW p \in Peers, NEW t, AtWork(p, t), peer' = [peer EXCEPT ![p] = t],
         \/ t.given = peer[p].given
         \/ /\ t.given = peer[p].given + 1
            /\ peer["server"].given + peer["client"].given < MaxInputs
  PROVE  peer'["server"].given + peer'["client"].given <= MaxInputs
<1>1. /\ \A o \in Peers : peer[o].given \in Nat
      /\ peer["server"].given + peer["client"].given <= MaxInputs
  BY DEF NetInv, NetType, PeerType
<1>2. peer'[p] = t /\ peer'[Other(p)] = peer[Other(p)]
  BY WorkFacts
<1>3. (p = "server" /\ Other(p) = "client") \/ (p = "client" /\ Other(p) = "server")
  BY ServerClient
<1> QED
  BY <1>1, <1>2, <1>3, ServerClient, BoundsAssumption

(* The user gives an input. *)
LEMMA RecordNet ==
  ASSUME NetInv, NEW p \in Peers, NEW e \in Input, Record(p, e) PROVE NetInv'
<1> DEFINE r == peer[p]
           c == r.current
           list == Append(r.ring[c].inputs, e)
           slot == [r.ring[c] EXCEPT !.inputs = list]
           ring == [r.ring EXCEPT ![c] = slot]
           g == r.given + 1
           t == [r EXCEPT !.ring = ring, !.given = g]
<1>1. /\ r.pc = "run" /\ r.delta # 0
      /\ peer["server"].given + peer["client"].given < MaxInputs
      /\ peer' = [peer EXCEPT ![p] = t]
      /\ wire' = wire /\ far' = far /\ linked' = linked /\ pending' = pending /\ said' = said
  BY DEF Record, At, network, Quiet
<1>2. /\ NetType /\ r \in PeerType /\ Intact(r)
      /\ JoinedInv(p)
  BY DEF NetInv, NetType
<1>3. /\ r.delta \in Nat /\ c \in 0 .. r.delta - 1 /\ r.given \in Nat /\ r.delta \in Deltas
      /\ \A i \in 0 .. r.delta - 1 : /\ r.ring[i] \in ListType
                                     /\ r.ring[i].inputs \in Seq(Input)
                                     /\ Len(r.ring[i].inputs) \in Nat
                                     /\ Len(r.ring[i].inputs) <= r.given
  BY <1>1, <1>2, IntactTypes
<1>4. r.ring \in [0 .. r.delta - 1 -> ListType]
  BY <1>2 DEF Intact
<1>5. list \in Seq(Input) /\ Len(list) = Len(r.ring[c].inputs) + 1
  BY <1>3, AppendProperties
<1> HIDE DEF r, c, list
<1>6. slot \in ListType /\ slot.inputs = list /\ slot.sync = r.ring[c].sync
  BY <1>3, <1>5 DEF ListType
<1> HIDE DEF slot
<1>7. /\ ring \in [0 .. r.delta - 1 -> ListType]
      /\ ring[c] = slot /\ \A i \in 0 .. r.delta - 1 : i # c => ring[i] = r.ring[i]
  BY <1>3, <1>4, <1>6
<1> HIDE DEF ring
<1>8. ring \in Rings /\ g \in Nat
  BY <1>3, <1>7, RingIn
<1> HIDE DEF g
<1>9. /\ t \in PeerType
      /\ t.mode = r.mode /\ t.pc = r.pc /\ t.sock = r.sock /\ t.listen = r.listen
      /\ t.delta = r.delta /\ t.ring = ring /\ t.current = r.current
      /\ t.toPlay = r.toPlay /\ t.full = r.full /\ t.machine = r.machine
      /\ t.given = g /\ t.joined = r.joined
  BY <1>2, <1>8 DEF PeerType
<1> HIDE DEF t
<1>10. Intact(t)
  <2>1. ASSUME NEW i \in 0 .. r.delta - 1 PROVE Len(ring[i].inputs) <= g
    <3>1. CASE i = c
      <4>1. Len(ring[i].inputs) = Len(r.ring[c].inputs) + 1
        BY <1>5, <1>6, <1>7, <3>1
      <4>2. /\ Len(r.ring[c].inputs) \in Nat /\ Len(r.ring[c].inputs) <= r.given
            /\ r.given \in Nat
        BY <1>3
      <4> QED
        BY <4>1, <4>2 DEF g
    <3>2. CASE i # c
      <4>1. ring[i] = r.ring[i]
        BY <1>7, <3>2
      <4>2. Len(ring[i].inputs) <= r.given /\ Len(ring[i].inputs) \in Nat
        BY <1>3, <4>1
      <4> QED
        BY <1>3, <4>2 DEF g
    <3> QED
      BY <3>1, <3>2
  <2> QED
    BY <1>2, <1>7, <1>9, <2>1 DEF Intact
<1>11. AtWork(p, t)
  BY <1>1, <1>9, <1>10 DEF AtWork, r
<1>12. peer'["server"].given + peer'["client"].given <= MaxInputs
  BY <1>1, <1>9, <1>11, GivenBound DEF r, g
<1>13. ASSUME t.joined
       PROVE  Member(p, t, said, D, wire'[p], far[p], linked)
  <2> DEFINE lk == linked
             f == far[p]
             w == wire[p]
             d == D
  <2>1. Member(p, r, said, d, w, f, lk) /\ said \in SaidType
    BY <1>2, <1>9, <1>13 DEF JoinedInv, NetType, r
  <2>2. d = r.delta
    BY <2>1 DEF Member
  <2>3. \A x \in 0 .. d - 1 : /\ t.ring[x].sync = r.ring[x].sync
                              /\ x # r.current => t.ring[x].inputs = r.ring[x].inputs
    BY <1>6, <1>7, <1>9, <2>2 DEF c
  <2> HIDE DEF lk, f, w, d
  <2>4. Member(p, t, said, d, w, f, lk)
    <3>1. r.pc # "read" /\ (f = "reset" => f = "reset") /\ (lk => lk)
      BY <1>1 DEF r
    <3> QED
      BY <1>2, <1>9, <2>1, <2>3, <3>1, MemberSame
  <2> QED
    BY <1>1, <2>4 DEF lk, f, w, d
<1>14. wire' \in [Peers -> Seq(Message)]
  BY <1>1, <1>2 DEF NetType
<1>15. peer' = [peer EXCEPT ![p] = t] /\ t.pc = peer[p].pc
  BY <1>1, <1>9 DEF t, r
<1> QED
  BY <1>1, <1>11, <1>12, <1>13, <1>14, <1>15, PeerStep

(* What a process at work finds when it reads. *)
LEMMA ReadsJoined ==
  ASSUME NetInv, NEW p \in Peers, peer[p].pc = "read", peer[p].sock = "open"
  PROVE  /\ peer[p].joined /\ Intact(peer[p]) /\ said \in SaidType /\ linked \in BOOLEAN
         /\ Member(p, peer[p], said, D, wire[p], far[p], linked) /\ wire[p] \in Seq(Message)
BY DEF NetInv, LoneInv, JoinedInv, At, NetType

(* A suspension of the other peer is read. *)
LEMMA ReadMarkNet ==
  ASSUME NetInv, NEW p \in Peers, ReadMark(p) PROVE NetInv'
<1> DEFINE r == peer[p]
           t == [r EXCEPT !.suspended = TRUE]
<1>1. /\ r.pc = "read" /\ r.sock = "open" /\ wire[p] # <<>> /\ Head(wire[p]).kind = "mark"
      /\ wire' = Rest(p) /\ peer' = [peer EXCEPT ![p] = t]
      /\ far' = far /\ linked' = linked /\ pending' = pending /\ said' = said
  BY DEF ReadMark, At, Arrived, Take, Quiet
<1>2. /\ r.joined /\ Intact(r) /\ said \in SaidType /\ linked \in BOOLEAN
      /\ Member(p, r, said, D, wire[p], far[p], linked) /\ wire[p] \in Seq(Message)
  BY <1>1, ReadsJoined
<1>3. /\ wire' \in [Peers -> Seq(Message)] /\ wire'[p] = Tail(wire[p])
      /\ wire'[Other(p)] = wire[Other(p)]
  BY <1>1, RestFacts
<1>4. r \in PeerType
  BY <1>2 DEF Intact
<1> HIDE DEF r
<1>5. /\ t \in PeerType
      /\ t.mode = r.mode /\ t.pc = r.pc /\ t.sock = r.sock /\ t.listen = r.listen
      /\ t.delta = r.delta /\ t.ring = r.ring /\ t.current = r.current
      /\ t.toPlay = r.toPlay /\ t.full = r.full /\ t.machine = r.machine
      /\ t.given = r.given /\ t.joined = r.joined
  BY <1>4 DEF PeerType
<1>6. peer' = [peer EXCEPT ![p] = t]
  BY <1>1
<1> HIDE DEF t
<1>7. Intact(t)
  BY <1>2, <1>5 DEF Intact
<1>8. AtWork(p, t)
  BY <1>1, <1>5, <1>7 DEF AtWork, r
<1>9. peer'["server"].given + peer'["client"].given <= MaxInputs
  BY <1>5, <1>6, <1>8, GivenBound DEF r
<1>10. Member(p, t, said, D, wire'[p], far[p], linked)
  <2> DEFINE lk == linked
             f == far[p]
             w == wire[p]
             v == Tail(wire[p])
             d == D
  <2>1. Member(p, r, said, d, w, f, lk) /\ lk \in BOOLEAN /\ w \in Seq(Message) /\ w # <<>>
        /\ Head(w).kind = "mark"
    BY <1>1, <1>2
  <2> HIDE DEF lk, f, w, d
  <2>2. Member(p, r, said, d, Tail(w), f, lk)
    BY ZenonT(40), <1>1, <1>2, <2>1, MemberReads DEF r
  <2>3. Member(p, r, said, d, v, f, lk) /\ (lk => lk) /\ (f = "reset" => f = "reset")
    BY <2>2 DEF w
  <2> HIDE DEF v
  <2>4. Member(p, t, said, d, v, f, lk)
    BY <1>2, <1>5, <2>3, MemberSame
  <2> QED
    BY <1>3, <2>4 DEF lk, f, v, d
<1> QED
  BY <1>1, <1>2, <1>3, <1>6, <1>8, <1>9, <1>10, PeerStep DEF r

(* The connection is gone behind a length. *)
LEMMA BodyFailsNet ==
  ASSUME NetInv, NEW p \in Peers, BodyFails(p) PROVE NetInv'
<1> DEFINE r == peer[p]
           t == [r EXCEPT !.pc = "run"]
<1>1. /\ r.pc = "read" /\ r.sock = "open" /\ far[p] = "reset"
      /\ wire' = [wire EXCEPT ![p] = <<>>] /\ peer' = [peer EXCEPT ![p] = t]
      /\ far' = far /\ linked' = linked /\ pending' = pending /\ said' = said
  BY DEF BodyFails, At, Arrived, Drop, Goto, Quiet
<1>2. /\ r.joined /\ Intact(r) /\ said \in SaidType /\ linked \in BOOLEAN
      /\ Member(p, r, said, D, wire[p], far[p], linked)
  BY <1>1, ReadsJoined
<1>3. ~ linked
  BY <1>1 DEF NetInv, LineInv
<1>4. r \in PeerType /\ wire \in [Peers -> Seq(Message)]
  BY <1>2 DEF Intact, NetInv, NetType
<1>5. /\ wire' \in [Peers -> Seq(Message)] /\ wire'[p] = <<>>
      /\ wire'[Other(p)] = wire[Other(p)]
  BY <1>1, <1>4, OtherPeer
<1> HIDE DEF r
<1>6. /\ t \in PeerType
      /\ t.mode = r.mode /\ t.pc = "run" /\ t.sock = r.sock /\ t.listen = r.listen
      /\ t.delta = r.delta /\ t.ring = r.ring /\ t.current = r.current
      /\ t.toPlay = r.toPlay /\ t.full = r.full /\ t.machine = r.machine
      /\ t.given = r.given /\ t.joined = r.joined
  BY <1>4 DEF PeerType
<1>7. peer' = [peer EXCEPT ![p] = t]
  BY <1>1
<1> HIDE DEF t
<1>8. Intact(t)
  BY <1>2, <1>6 DEF Intact
<1>9. AtWork(p, t)
  BY <1>1, <1>6, <1>8 DEF AtWork, r
<1>10. peer'["server"].given + peer'["client"].given <= MaxInputs
  BY <1>6, <1>7, <1>9, GivenBound DEF r
<1>11. Member(p, t, said, D, wire'[p], far[p], linked)
  <2> DEFINE lk == linked
             w == wire[p]
             d == D
  <2>1. Member(p, r, said, d, w, "reset", lk) /\ r.pc = "read"
    BY <1>1, <1>2 DEF r
  <2> HIDE DEF lk, w, d
  <2>2. Member(p, t, said, d, <<>>, "reset", FALSE)
    BY <1>2, <1>6, <2>1, MemberFails
  <2>3. linked = FALSE
    BY <1>2, <1>3
  <2> QED
    BY <1>1, <1>5, <2>2, <2>3 DEF d
<1> QED
  BY <1>1, <1>2, <1>5, <1>7, <1>9, <1>10, <1>11, PeerStep DEF r

(* The list of the other peer is read, and the frame is executed. *)
LEMMA ReadFrameNet ==
  ASSUME NetInv, NEW p \in Peers, ReadFrame(p)
  PROVE  /\ NetInv' /\ Remote(p).sync = Local(p).sync
<1> DEFINE r == peer[p]
           lists == Lists(p)
           t == Prepared(r, lists)
           lk == linked
           f == far[p]
           w == wire[p]
           d == D
           n == Len(r.machine)
<1>1. /\ r.pc = "read" /\ r.sock = "open" /\ w # <<>> /\ Head(w).kind = "frame"
      /\ said' = said
  BY DEF ReadFrame, At, Arrived, Quiet
<1>2. /\ r.joined /\ Intact(r) /\ said \in SaidType /\ lk \in BOOLEAN
      /\ Member(p, r, said, d, w, f, lk) /\ w \in Seq(Message)
  BY <1>1, ReadsJoined
<1>3. /\ Head(w).list.sync = r.ring[r.toPlay].sync /\ lists \in Seq(Seq(Input))
      /\ Intact(t) /\ t.given = r.given /\ t.joined = r.joined
      /\ Member(p, t, said, d, Tail(w), f, lk)
  <2> DEFINE mine == r.ring[r.toPlay]
             theirs == Head(w).list
             played == IF r.mode = "server_connected" THEN <<mine.inputs, theirs.inputs>>
                                                      ELSE <<theirs.inputs, mine.inputs>>
  <2>1. lists = played
    BY DEF Lists, Local, Remote
  <2> HIDE DEF lk, f, d, r, w
  <2>2. r.pc = "read"
    BY <1>1
  <2>3. /\ theirs.sync = mine.sync
        /\ Len(said[p]) = n + 1 /\ n + 1 >= d /\ n + 1 - d + 1 <= Len(said[Other(p)])
        /\ played = <<said["server"][n - d + 2], said["client"][n - d + 2]>>
        /\ played \in Seq(Seq(Input))
        /\ Intact(Prepared(r, played)) /\ Prepared(r, played).given = r.given
        /\ Prepared(r, played).joined = r.joined
        /\ Prepared(r, played).machine = Append(r.machine, played)
        /\ Member(p, Prepared(r, played), said, d, Tail(w), f, lk)
    BY <1>1, <1>2, <2>2, MemberExecutes
  <2> QED
    BY <2>1, <2>3
<1>4. Remote(p).sync = Local(p).sync
  BY <1>3 DEF Remote, Local
<1>5. /\ wire' = Rest(p) /\ peer' = [peer EXCEPT ![p] = t]
      /\ far' = far /\ linked' = linked /\ pending' = pending
  BY <1>4 DEF ReadFrame, Take
<1>6. /\ wire' \in [Peers -> Seq(Message)] /\ wire'[p] = Tail(w)
      /\ wire'[Other(p)] = wire[Other(p)]
  BY <1>1, <1>5, RestFacts
<1>7. /\ t.pc = "run" /\ t.mode = r.mode /\ t.sock = r.sock /\ t.listen = r.listen
      /\ t.delta = r.delta
  <2>1. r.delta # 0
    BY <1>2 DEF Member
  <2> DEFINE cc == After(r.delta, r.current)
  <2> HIDE DEF r, lists
  <2>2. /\ Intact(t)
        /\ t.mode = r.mode /\ t.pc = "run" /\ t.sock = r.sock /\ t.listen = r.listen
        /\ t.delta = r.delta /\ t.full = r.full /\ t.given = r.given /\ t.joined = r.joined
        /\ t.machine = Append(r.machine, lists) /\ t.current = cc
        /\ t.ring[cc].sync = Append(r.machine, lists) /\ t.ring[cc].inputs = <<>>
        /\ \A i \in 0 .. r.delta - 1 : i # cc => t.ring[i] = r.ring[i]
    BY <1>2, <1>3, <2>1, PreparedIntact
  <2> QED
    BY <2>2
<1> HIDE DEF r, t, w
<1>8. AtWork(p, t)
  BY <1>1, <1>3, <1>7 DEF AtWork, r
<1>9. peer'["server"].given + peer'["client"].given <= MaxInputs
  BY <1>3, <1>5, <1>8, GivenBound DEF r
<1>10. NetInv'
  BY <1>1, <1>2, <1>3, <1>5, <1>6, <1>8, <1>9, PeerStep DEF r
<1> QED
  BY <1>4, <1>10

(* A member sends a message m, and may have said a list with it.           *)
LEMMA PeerSends ==
  ASSUME NetInv, NEW p \in Peers, NEW t, AtWork(p, t), peer' = [peer EXCEPT ![p] = t],
         peer'["server"].given + peer'["client"].given <= MaxInputs,
         NEW m \in Message, Send(p, <<m>>), peer[p].joined,
         said' \in SaidType, Balanced(said', D),
         Member(p, t, said', D, wire[p], far'[p], linked),
         peer[Other(p)].joined =>
           Member(Other(p), peer[Other(p)], said', D, wire'[Other(p)], far[Other(p)], linked),
         p = "server" /\ peer["client"].pc = "get_delta" /\ wire["client"] # <<>> =>
           /\ said'["client"] = <<>>
           /\ Carries(Log(said', D, "server"), Tail(wire'["client"]), 0, linked)
  PROVE  NetInv'
<1> DEFINE s == peer["server"]
           c == peer["client"]
           s2 == peer'["server"]
           c2 == peer'["client"]
           q == Other(p)
<1>2. NetType /\ LineInv /\ ServerInv /\ ClientInv /\ LinkedInv
      /\ \A o \in Peers : LoneInv(o) /\ JoinedInv(o)
  BY DEF NetInv
<1>3. /\ peer' \in [Peers -> PeerType] /\ peer'[p] = t /\ peer'[q] = peer[q]
      /\ \A o \in Peers : /\ Intact(peer'[o])
                          /\ peer'[o].mode = peer[o].mode /\ peer'[o].sock = peer[o].sock
                          /\ peer'[o].listen = peer[o].listen
                          /\ peer'[o].delta = peer[o].delta
                          /\ peer'[o].joined = peer[o].joined
                          /\ \A k \in Serving \cup Connecting :
                               peer'[o].pc = k <=> peer[o].pc = k
      /\ D' = D
  BY WorkFacts
<1>4. /\ p \in Peers /\ q \in Peers /\ q # p /\ \A o \in Peers : o = p \/ o = q
      /\ (p = "server" /\ q = "client") \/ (p = "client" /\ q = "server")
  BY OtherPeer DEF Peers, Other
<1>5. /\ wire' \in [Peers -> Seq(Message)] /\ far' \in [Peers -> {"open", "closed", "reset"}]
      /\ wire'[p] = wire[p]
      /\ linked => wire'[q] = Append(wire[q], m)
      /\ ~ linked => wire'[q] = wire[q]
      /\ far'[q] = far[q] /\ (far'[p] = far[p] \/ far'[p] = "reset")
      /\ far[p] = "open" => far'[p] = "open"
      /\ far[p] = "reset" => far'[p] = "reset"
      /\ linked' = linked /\ pending' = pending
  BY SendFacts
<1>6. \A o \in Peers : peer[o].joined =>
        peer[o].mode = Role(o) /\ peer[o].sock = "open" /\ peer[o].pc \in {"run", "read"}
  BY <1>2, MemberIs DEF JoinedInv
<1>7. /\ s2.mode = s.mode /\ s2.sock = s.sock /\ s2.listen = s.listen /\ s2.joined = s.joined
      /\ c2.mode = c.mode /\ c2.sock = c.sock /\ c2.listen = c.listen /\ c2.joined = c.joined
      /\ \A k \in Serving \cup Connecting : (s2.pc = k <=> s.pc = k) /\ (c2.pc = k <=> c.pc = k)
  BY <1>3, ServerClient
<1>8. /\ s.joined => /\ s.mode = "server_connected" /\ s.sock = "open" /\ s.pc \notin Serving
      /\ c.joined => c.mode = "client" /\ c.sock = "open" /\ c.pc \notin Connecting
  <2>1. Role("server") = "server_connected" /\ Role("client") = "client"
    BY DEF Role
  <2> QED
    BY <1>6, <2>1, ServerClient DEF Serving, Connecting
<1>9. linked => s.joined /\ (c.joined \/ (c.pc = "get_delta" /\ wire["client"] # <<>>))
  BY ServerClient, LinkedMembers
<1>10. p = "client" => ~ pending
  BY <1>2, <1>8 DEF LineInv, Connecting
<1> HIDE DEF s, c, s2, c2, q
<1>11. NetType'
  BY <1>2, <1>3, <1>5 DEF NetType
<1>12. LineInv'
  <2>1. pending => wire'["client"] = wire["client"] /\ far'["client"] = far["client"]
    BY <1>2, <1>4, <1>5, <1>10 DEF LineInv
  <2>2. pending => c2.pc = "get_snapshot" /\ wire'["client"] = <<>> /\ far'["client"] = "open"
    BY <1>2, <1>7, <2>1 DEF LineInv, c, Connecting
  <2>3. linked => ~ pending /\ \A o \in Peers : peer'[o].sock = "open" /\ far'[o] = "open"
    BY <1>2, <1>3, <1>4, <1>5 DEF LineInv
  <2> QED
    BY <1>5, <2>2, <2>3 DEF LineInv, c2
<1>13. c.pc = "get_delta" /\ linked =>
         /\ wire'["client"] # <<>> /\ wire["client"] # <<>>
         /\ Head(wire'["client"]) = Head(wire["client"])
  <2> SUFFICES ASSUME c.pc = "get_delta", linked
               PROVE  /\ wire'["client"] # <<>> /\ wire["client"] # <<>>
                      /\ Head(wire'["client"]) = Head(wire["client"])
    OBVIOUS
  <2>1. wire["client"] # <<>> /\ wire["client"] \in Seq(Message)
    BY <1>2, <1>8, <1>9, ServerClient DEF NetType, Connecting
  <2>2. CASE p = "client"
    BY <1>5, <2>1, <2>2
  <2>3. CASE p = "server"
    <3>1. wire'["client"] = Append(wire["client"], m)
      BY <1>4, <1>5, <2>3
    <3> QED
      BY <2>1, <3>1, DeltaCarries
  <2> QED
    BY <1>4, <2>2, <2>3
<1>14. LinkedInv'
  <2>1. c.pc = "get_delta" => c2.pc = "get_delta"
    BY <1>7 DEF Connecting
  <2> QED
    BY <1>5, <1>7, <1>9, <1>13, <2>1 DEF LinkedInv, s2, c2
<1>15. ServerInv'
  <2>1. wire'["server"] = wire["server"] \/ s.joined
    BY <1>4, <1>5, <1>9
  <2>2. wire'["client"] = wire["client"] \/ s.joined
    BY <1>4, <1>5, <1>9
  <2>3. CASE s.joined
    BY <1>2, <1>7, <1>8, <2>3 DEF ServerInv, s, c, s2, c2, Serving, Connecting
  <2>4. CASE ~ s.joined
    BY <1>2, <1>7, <2>1, <2>2, <2>4 DEF ServerInv, s, c, s2, c2, Serving, Connecting
  <2> QED
    BY <2>3, <2>4
<1>16. ClientInv'
  <2>1. CASE c.joined
    BY <1>2, <1>7, <1>8, <2>1 DEF ClientInv, c, c2, Serving, Connecting
  <2>2. CASE ~ c.joined
    <3>1. p = "server" /\ q = "client"
      BY <1>4, <2>2 DEF c
    <3>2. CASE c.pc = "get_delta"
      <4>1. ASSUME wire'["client"] # <<>>
            PROVE  /\ Head(wire'["client"]) = [kind |-> "delta", delta |-> D] /\ D # 0
                   /\ said'["client"] = <<>>
                   /\ Carries(Log(said', D, "server"), Tail(wire'["client"]), 0, linked)
        <5>1. wire["client"] # <<>> /\ Head(wire'["client"]) = Head(wire["client"])
          BY <1>5, <1>13, <3>1, <3>2, <4>1
        <5>2. Head(wire["client"]) = [kind |-> "delta", delta |-> D] /\ D # 0
          BY <1>2, <3>2, <5>1 DEF ClientInv, c
        <5> QED
          BY <3>1, <3>2, <5>1, <5>2 DEF c
      <4>2. c2.pc = "get_delta"
        BY <1>7, <3>2 DEF Connecting
      <4>3. /\ c2.mode = "client" /\ c2.sock = "open" /\ ~ c2.joined
        BY <1>2, <1>7, <3>2 DEF ClientInv, c, Connecting
      <4> QED
        BY <1>3, <1>5, <4>1, <4>2, <4>3 DEF ClientInv, c2, Serving, Connecting
    <3>3. CASE c.pc # "get_delta"
      <4>1. ~ linked
        BY <1>9, <2>2, <3>3
      <4>2. wire'["client"] = wire["client"]
        BY <1>5, <3>1, <4>1
      <4> QED
        BY <1>2, <1>7, <2>2, <3>3, <4>2 DEF ClientInv, c, c2, Serving, Connecting
    <3> QED
      BY <3>2, <3>3
  <2> QED
    BY <2>1, <2>2
<1>17. \A o \in Peers : LoneInv(o)'
  <2> SUFFICES ASSUME NEW o \in Peers PROVE LoneInv(o)'
    OBVIOUS
  <2>1. CASE o = q
    BY <1>2, <1>3, <1>4, <1>5, <2>1 DEF LoneInv, Connected, At
  <2>2. CASE o = p
    <3>1. peer'[p].joined /\ peer'[p].sock = "open"
      BY <1>3, <1>6
    <3> QED
      BY <2>2, <3>1 DEF LoneInv, Connected, At
  <2> QED
    BY <1>4, <2>1, <2>2
<1>18. JoinedInv(q)'
  BY <1>3, <1>5 DEF JoinedInv, q
<1>19. JoinedInv(p)'
  BY <1>3, <1>5 DEF JoinedInv
<1> QED
  BY <1>4, <1>11, <1>12, <1>14, <1>15, <1>16, <1>17, <1>18, <1>19 DEF NetInv

(* A process at work that is connected, and that its socket lets send.     *)
LEMMA SenderJoined ==
  ASSUME NetInv, NEW p \in Peers, peer[p].pc = "run", Connected(p), far[p] # "reset"
  PROVE  /\ peer[p].joined /\ Intact(peer[p]) /\ said \in SaidType /\ linked \in BOOLEAN
         /\ Member(p, peer[p], said, D, wire[p], far[p], linked) /\ wire[p] \in Seq(Message)
         /\ Balanced(said, D)
BY DEF NetInv, LoneInv, JoinedInv, At, NetType

(* The user suspends the emulation, and the other peer is told. *)
LEMMA SuspendNet ==
  ASSUME NetInv, NEW p \in Peers, Suspend(p) PROVE NetInv'
<1> DEFINE r == peer[p]
           g == r.marks + 1
           t == [r EXCEPT !.suspended = TRUE, !.marks = g]
           q == Other(p)
           m == [kind |-> "mark"]
<1>1. /\ r.pc = "run" /\ Connected(p) /\ peer' = [peer EXCEPT ![p] = t] /\ said' = said
      /\ \/ far[p] # "reset" /\ Send(p, <<m>>)
         \/ wire' = wire /\ far' = far /\ linked' = linked /\ pending' = pending
  BY DEF Suspend, At, CanSend, network, Quiet
<1>2. Intact(r) /\ r \in PeerType /\ wire \in [Peers -> Seq(Message)] /\ JoinedInv(p)
  BY DEF NetInv, NetType
<1>3. g \in Nat
  BY <1>2 DEF PeerType
<1>4. /\ q \in Peers
      /\ (p = "server" /\ q = "client") \/ (p = "client" /\ q = "server")
  BY OtherPeer DEF Peers, Other
<1>5. m \in Message /\ m.kind = "mark"
  BY MessageTypes
<1> HIDE DEF g, r, q, m
<1>6. /\ t \in PeerType
      /\ t.mode = r.mode /\ t.pc = r.pc /\ t.sock = r.sock /\ t.listen = r.listen
      /\ t.delta = r.delta /\ t.ring = r.ring /\ t.current = r.current
      /\ t.toPlay = r.toPlay /\ t.full = r.full /\ t.machine = r.machine
      /\ t.given = r.given /\ t.joined = r.joined
  BY <1>2, <1>3 DEF PeerType
<1> HIDE DEF t
<1>7. Intact(t)
  BY <1>2, <1>6 DEF Intact
<1>8. AtWork(p, t)
  BY <1>1, <1>6, <1>7 DEF AtWork, r
<1>9. peer'["server"].given + peer'["client"].given <= MaxInputs
  BY <1>1, <1>6, <1>8, GivenBound DEF r
<1>10. ASSUME NEW f2, far[p] = "reset" => f2 = "reset", r.joined
       PROVE  Member(p, t, said, D, wire[p], f2, linked)
  <2> DEFINE lk == linked
             f == far[p]
             w == wire[p]
             d == D
  <2>1. Member(p, r, said, d, w, f, lk) /\ said \in SaidType
    BY <1>2, <1>10 DEF JoinedInv, r, NetInv, NetType
  <2>2. /\ (lk => lk) /\ (f = "reset" => f2 = "reset")
        /\ \A x \in 0 .. d - 1 : /\ t.ring[x].sync = r.ring[x].sync
                                 /\ t.ring[x].inputs = r.ring[x].inputs
    BY <1>6, <1>10
  <2> HIDE DEF lk, f, w, d
  <2>3. Member(p, t, said, d, w, f2, lk)
    <3>1. /\ t.mode = r.mode /\ t.sock = r.sock /\ t.pc = r.pc /\ t.delta = r.delta
          /\ t.machine = r.machine /\ t.full = r.full /\ t.current = r.current
      BY <1>6
    <3>2. Intact(r)
      BY <1>2
    <3> QED
      BY <2>1, <2>2, <3>1, <3>2, MemberSame
  <2> QED
    BY <2>3 DEF lk, w, d
<1>11. CASE wire' = wire /\ far' = far /\ linked' = linked /\ pending' = pending
  <2>1. t.joined => Member(p, t, said, D, wire'[p], far[p], linked)
    BY <1>6, <1>10, <1>11
  <2> QED
    BY <1>1, <1>2, <1>6, <1>8, <1>9, <1>11, <2>1, PeerStep DEF r
<1>12. CASE far[p] # "reset" /\ Send(p, <<m>>)
  <2>1. /\ r.joined /\ said \in SaidType /\ linked \in BOOLEAN /\ Balanced(said, D)
    BY <1>1, <1>12, SenderJoined DEF r
  <2>2. /\ linked => wire'[q] = Append(wire[q], m)
        /\ ~ linked => wire'[q] = wire[q]
        /\ far[p] = "reset" => far'[p] = "reset"
    BY <1>5, <1>12, SendFacts DEF q
  <2>3. Member(p, t, said, D, wire[p], far'[p], linked)
    BY <1>10, <2>1, <2>2
  <2>4. ASSUME peer[q].joined
        PROVE  Member(q, peer[q], said, D, wire'[q], far[q], linked)
    <3> DEFINE lk == linked
               f == far[q]
               w == wire[q]
               d == D
               v == peer[q]
    <3>1. /\ Member(q, v, said, d, w, f, lk) /\ Intact(v) /\ w \in Seq(Message) /\ lk \in BOOLEAN
          /\ said \in SaidType
      <4>1. q \in Peers
        BY <1>4
      <4>2. JoinedInv(q) /\ Intact(peer[q])
        BY <4>1 DEF NetInv, NetType
      <4>3. Member(q, v, said, d, w, f, lk)
        BY <2>4, <4>2 DEF JoinedInv
      <4> QED
        BY <1>2, <2>1, <4>1, <4>2, <4>3
    <3>2. CASE linked
      <4>0. LineInv /\ q \in Peers
        BY <1>4 DEF NetInv
      <4>1. f # "reset"
        BY <3>2, <4>0 DEF LineInv
      <4> HIDE DEF lk, f, w, d, v
      <4>2. Member(q, v, said, d, Append(w, m), f, lk)
        BY <1>5, <3>1, <4>0, <4>1, MemberMarked
      <4>3. wire'[q] = Append(w, m)
        BY <2>2, <3>2 DEF w
      <4> QED
        BY <4>2, <4>3 DEF lk, f, d, v
    <3>3. CASE ~ linked
      <4>1. wire'[q] = w
        BY <2>2, <3>3
      <4> QED
        BY <3>1, <4>1
    <3> QED
      BY <3>2, <3>3
  <2>5. ASSUME p = "server", peer["client"].pc = "get_delta", wire["client"] # <<>>
        PROVE  /\ said["client"] = <<>>
               /\ Carries(Log(said, D, "server"), Tail(wire'["client"]), 0, linked)
    <3> DEFINE lk == linked
               w == wire["client"]
               log == Log(said, D, "server")
    <3>1. said["client"] = <<>> /\ Carries(log, Tail(w), 0, lk) /\ w \in Seq(Message)
      BY <1>2, <2>5, ServerClient DEF NetInv, ClientInv
    <3>2. Len(log) \in Nat
      BY <2>1, ServerClient, LogType
    <3>3. /\ lk => wire'["client"] = Append(w, m)
          /\ ~ lk => wire'["client"] = w
      BY <1>4, <2>2, <2>5
    <3>4. w # <<>>
      BY <2>5
    <3> HIDE DEF lk, w, log
    <3>5. Tail(w) \in Seq(Message) /\ Tail(Append(w, m)) = Append(Tail(w), m)
      BY <1>5, <3>1, <3>4, DeltaCarries
    <3>6. Carries(log, Append(Tail(w), m), 0, lk)
      BY <1>5, <3>1, <3>2, <3>5, CarryMark
    <3>7. Carries(log, Tail(wire'["client"]), 0, lk)
      <4>1. CASE lk
        BY <3>3, <3>5, <3>6, <4>1
      <4>2. CASE ~ lk
        BY <3>1, <3>3, <4>2
      <4> QED
        BY <4>1, <4>2
    <3> QED
      BY <3>1, <3>7 DEF lk, log
  <2>6. said' \in SaidType /\ Balanced(said', D) /\ Member(p, t, said', D, wire[p], far'[p], linked)
    BY <1>1, <2>1, <2>3
  <2>7. peer[Other(p)].joined =>
          Member(Other(p), peer[Other(p)], said', D, wire'[Other(p)], far[Other(p)], linked)
    BY <1>1, <2>4 DEF q
  <2>8. p = "server" /\ peer["client"].pc = "get_delta" /\ wire["client"] # <<>> =>
           /\ said'["client"] = <<>>
           /\ Carries(Log(said', D, "server"), Tail(wire'["client"]), 0, linked)
    BY <1>1, <2>5
  <2> QED
    BY <1>1, <1>5, <1>8, <1>9, <1>12, <2>1, <2>6, <2>7, <2>8, PeerSends DEF r
<1> QED
  BY <1>1, <1>11, <1>12

(* A member ends its frame: what it says is said to the other one, too.    *)
LEMMA SaysNet ==
  ASSUME NetInv, NEW p \in Peers, peer[p].pc = "run", Connected(p), far[p] # "reset",
         Send(p, <<[kind |-> "frame", list |-> Frame(p)]>>),
         said' = [said EXCEPT ![p] = Append(@, Frame(p).inputs)],
         peer' = [peer EXCEPT ![p] = Receiving(@)]
  PROVE  NetInv'
<1> DEFINE r == peer[p]
           t == Receiving(r)
           q == Other(p)
           n == Len(r.machine)
           slot == r.ring[r.current]
           list == slot.inputs
           m == [kind |-> "frame", list |-> slot]
           sd == said
           sd2 == Says(said, p, list)
           d == D
           lk == linked
<1>1. /\ r.joined /\ Intact(r) /\ sd \in SaidType /\ lk \in BOOLEAN
      /\ Member(p, r, sd, d, wire[p], far[p], lk) /\ wire[p] \in Seq(Message)
      /\ Balanced(sd, d)
  BY SenderJoined
<1>2. said' = sd2 /\ Send(p, <<m>>) /\ peer' = [peer EXCEPT ![p] = t]
  BY DEF Frame, Says
<1>3. q \in Peers /\ Other(q) = p
  BY OtherPeer
<1>4. (p = "server" /\ q = "client") \/ (p = "client" /\ q = "server")
  BY DEF Peers, Other
<1> HIDE DEF r, d, lk, sd
<1>5. /\ list \in Seq(Input)
      /\ slot = [sync |-> Executed(sd, d, n), inputs |-> list]
  <2> DEFINE w == wire[p]
             f == far[p]
  <2>1. Member(p, r, sd, d, w, f, lk)
    BY <1>1
  <2> HIDE DEF w, f
  <2> QED
    BY <1>1, <2>1, MemberFrame
<1>6. r.delta # 0 /\ slot \in ListType
  <2>1. r.delta # 0
    BY <1>1 DEF Member
  <2> QED
    BY <1>1, <2>1, IntactTypes
<1>7. /\ Len(sd[p]) = n /\ Balanced(Says(sd, p, list), d)
      /\ Member(p, t, Says(sd, p, list), d, wire[p], far'[p], lk)
  <2> DEFINE w == wire[p]
             f == far[p]
             f2 == far'[p]
  <2>1. Member(p, r, sd, d, w, f, lk) /\ f # "reset" /\ r.pc = "run" /\ w \in Seq(Message)
    BY <1>1 DEF r
  <2> HIDE DEF w, f, f2
  <2>2. /\ Len(sd[p]) = Len(r.machine)
        /\ Balanced(Says(sd, p, list), d)
        /\ Member(p, Receiving(r), Says(sd, p, list), d, w, f2, lk)
    BY <1>1, <2>1, MemberSays
  <2> QED
    BY <2>2 DEF w, f2
<1>8. m \in Message /\ m.kind = "frame" /\ m.list = slot
  BY <1>6, MessageTypes
<1> HIDE DEF t, slot, list, m, n
<1>9. /\ Intact(t) /\ t.mode = r.mode /\ t.sock = r.sock /\ t.listen = r.listen
      /\ t.delta = r.delta /\ t.given = r.given /\ t.joined = r.joined
      /\ t.pc \in {"run", "read"}
  <2> DEFINE c == After(r.delta, r.current)
             v == Receiving(r)
  <2>1. r.pc = "run"
    BY DEF r
  <2>2. /\ Intact(v)
        /\ v.mode = r.mode /\ v.sock = r.sock /\ v.listen = r.listen
        /\ v.delta = r.delta /\ v.given = r.given /\ v.joined = r.joined
        /\ \/ /\ r.full \/ r.current = r.delta - 1
              /\ v.full /\ v.pc = "read" /\ v.machine = r.machine
              /\ v.current = r.current /\ v.ring = r.ring
           \/ /\ ~ (r.full \/ r.current = r.delta - 1)
              /\ ~ v.full /\ v.pc = "run" /\ v.machine = Append(r.machine, <<>>)
              /\ v.current = c /\ v.ring[c].sync = v.machine /\ v.ring[c].inputs = <<>>
              /\ \A i \in 0 .. r.delta - 1 : i # c => v.ring[i] = r.ring[i]
    BY <1>1, <1>6, <2>1, ReceivingIntact
  <2> HIDE DEF v, c
  <2>3. /\ Intact(v) /\ v.mode = r.mode /\ v.sock = r.sock /\ v.listen = r.listen
        /\ v.delta = r.delta /\ v.given = r.given /\ v.joined = r.joined
        /\ v.pc \in {"run", "read"}
    BY <2>2
  <2> QED
    BY <2>3 DEF v, t
<1>10. AtWork(p, t)
  BY <1>9 DEF AtWork, r
<1>11. peer'["server"].given + peer'["client"].given <= MaxInputs
  BY <1>2, <1>9, <1>10, GivenBound DEF r
<1>12. said' \in SaidType /\ Balanced(said', D) /\ Member(p, t, said', D, wire[p], far'[p], linked)
  <2>1. Says(sd, p, list) \in SaidType
    BY <1>1, <1>5, SaysMore
  <2> QED
    BY <1>2, <1>7, <2>1 DEF sd, d, lk
<1>13. /\ linked => wire'[q] = Append(wire[q], m)
       /\ ~ linked => wire'[q] = wire[q]
  BY <1>2, <1>8, SendFacts
<1>14. m.list = [sync |-> Executed(sd, d, Len(sd[p])), inputs |-> list]
  BY <1>5, <1>7, <1>8
<1>15. ASSUME peer[q].joined
       PROVE  Member(q, peer[q], said', D, wire'[q], far[q], linked)
  <2> DEFINE f == far[q]
             w == wire[q]
             v == peer[q]
  <2>1. JoinedInv(q) /\ Intact(v) /\ w \in Seq(Message) /\ LineInv
    BY <1>3 DEF NetInv, NetType
  <2>2. Member(q, v, sd, d, w, f, lk)
    BY <1>15, <2>1 DEF JoinedInv, sd, d, lk
  <2>3. lk => f # "reset"
    BY <1>3, <2>1 DEF LineInv, lk
  <2> HIDE DEF f, w, v, q
  <2>4. Other(q) = p /\ q \in Peers
    BY <1>3
  <2>5. Member(q, v, Says(sd, Other(q), list), d, IF lk THEN Append(w, m) ELSE w, f, lk)
    <3>1. Balanced(Says(sd, Other(q), list), d)
      BY <1>7, <2>4
    <3>2. m.list = [sync |-> Executed(sd, d, Len(sd[Other(q)])), inputs |-> list]
      BY <1>14, <2>4
    <3> QED
      BY <1>1, <1>5, <1>8, <2>1, <2>2, <2>3, <2>4, <3>1, <3>2, MemberHears
  <2>6. wire'[q] = IF lk THEN Append(w, m) ELSE w
    BY <1>1, <1>13 DEF lk, w
  <2> QED
    BY <1>2, <2>4, <2>5, <2>6 DEF f, v, sd, d, lk
<1>16. ASSUME p = "server", peer["client"].pc = "get_delta", wire["client"] # <<>>
       PROVE  /\ said'["client"] = <<>>
              /\ Carries(Log(said', D, "server"), Tail(wire'["client"]), 0, linked)
  <2> DEFINE w == wire["client"]
             log == Log(sd, d, p)
             log2 == Log(Says(sd, p, list), d, p)
  <2>1. said["client"] = <<>> /\ Carries(log, Tail(w), 0, lk) /\ w \in Seq(Message)
    BY <1>16, ServerClient DEF NetInv, NetType, ClientInv, sd, d, lk
  <2>2. d \in Nat /\ d # 0 /\ n \in Nat /\ HeardUpTo(sd, d, n)
    <3> DEFINE x == wire[p]
               f == far[p]
    <3>1. Member(p, r, sd, d, x, f, lk)
      BY <1>1
    <3> HIDE DEF x, f
    <3>2. /\ d \in Nat /\ d >= 2 /\ Len(r.machine) \in Nat /\ HeardUpTo(sd, d, Len(r.machine))
      BY <1>1, <3>1, MemberHeard
    <3> QED
      BY <3>2 DEF n
  <2>3. /\ Len(log) = Len(sd[p]) /\ Len(log) \in Nat
        /\ Len(log2) = Len(Says(sd, p, list)[p]) /\ Len(log2) \in Nat
        /\ \A j \in 1 .. Len(log) : log2[j] = log[j]
    BY <1>1, <1>5, <2>2, LogStays
  <2>4. /\ Len(Says(sd, p, list)[p]) = Len(sd[p]) + 1
        /\ Says(sd, p, list)[p][Len(sd[p]) + 1] = list
        /\ Says(sd, p, list) \in SaidType
        /\ Says(sd, p, list)["client"] = sd["client"]
    BY <1>1, <1>5, <1>16, SaysMore, ServerClient
  <2>5. m.list = log2[Len(log) + 1] /\ Len(log2) = Len(log) + 1
    <3>1. Executed(Says(sd, p, list), d, n) = Executed(sd, d, n)
      BY <1>1, <1>5, <2>2, ExecutedStays
    <3>2. log2[Len(sd[p]) + 1] = [sync |-> Executed(Says(sd, p, list), d, Len(sd[p]) + 1 - 1),
                                  inputs |-> Says(sd, p, list)[p][Len(sd[p]) + 1]]
      <4>1. Len(sd[p]) + 1 \in 1 .. Len(Says(sd, p, list)[p])
        BY <2>3, <2>4
      <4> QED
        BY <2>4, <4>1, LogType
    <3>3. Len(sd[p]) + 1 - 1 = n
      BY <1>7, <2>2
    <3> QED
      BY <1>7, <1>14, <2>3, <2>4, <3>1, <3>2, <3>3
  <2> HIDE DEF log, log2, w
  <2>6. /\ lk => wire'["client"] = Append(w, m)
        /\ ~ lk => wire'["client"] = w
    BY <1>4, <1>13, <1>16 DEF lk, w
  <2>7. w # <<>>
    BY <1>16 DEF w
  <2>8. Tail(w) \in Seq(Message) /\ Tail(Append(w, m)) = Append(Tail(w), m)
    BY <1>8, <2>1, <2>7, DeltaCarries
  <2>9. Carries(log2, Tail(wire'["client"]), 0, lk)
    <3>1. CASE lk
      <4>1. Carries(log, Tail(w), 0, TRUE)
        BY <1>1, <2>1, <3>1
      <4>2. Carries(log2, Append(Tail(w), m), 0, lk)
        BY <1>8, <2>3, <2>5, <2>8, <4>1, CarryFrame
      <4> QED
        BY <2>6, <2>8, <3>1, <4>2
    <3>2. CASE ~ lk
      <4>1. lk => lk /\ Len(log2) = Len(log)
        BY <3>2
      <4>2. Len(log) <= Len(log2)
        BY <2>3, <2>5
      <4>3. Carries(log2, Tail(w), 0, lk)
        BY <2>1, <2>3, <2>8, <4>1, <4>2, CarryLog
      <4> QED
        BY <2>6, <3>2, <4>3
    <3> QED
      BY <1>1, <3>1, <3>2
  <2> QED
    BY <1>2, <1>16, <2>1, <2>4, <2>9 DEF log2, sd, d, lk
<1> QED
  BY <1>1, <1>2, <1>8, <1>10, <1>11, <1>12, <1>15, <1>16, PeerSends DEF r, q

(* The hook: the frame is said, or the connection is gone. *)
LEMMA HookSendNet ==
  ASSUME NetInv, NEW p \in Peers, HookSend(p) PROVE NetInv'
<1> DEFINE r == peer[p]
           x == Disconnected(r)
           t == IF Stale(r) THEN x ELSE Receiving(x)
<1>1. r.pc = "run" /\ Connected(p)
  BY DEF HookSend, At
<1>2. CASE r.delta = 0
  <2>1. Ends(p, "crashed") /\ UNCHANGED said
    BY <1>2 DEF HookSend
  <2> QED
    BY <2>1, GoneLeft
<1>3. CASE r.delta # 0 /\ CanSend(p)
  BY <1>1, <1>3, SaysNet DEF HookSend, CanSend
<1>4. CASE r.delta # 0 /\ ~ CanSend(p)
  <2>1. HangsUp(p) /\ said' = said /\ peer' = [peer EXCEPT ![p] = t]
    BY <1>4 DEF HookSend
  <2>2. HungUp(p)
    BY <2>1, ClosingHangs
  <2>3. /\ Intact(x) /\ ~ x.joined /\ x.sock # "open"
        /\ x.mode = "idle" \/ (p = "server" /\ x.mode = "server" /\ x.listen = "open")
        /\ x.delta = r.delta /\ x.given <= r.given
        /\ x.pc = r.pc \/ x.pc = "aborted"
        /\ ~ Stale(r) => x.pc = r.pc
    BY DisconnectedLeft
  <2> HIDE DEF x
  <2>4. CASE Stale(r)
    <3>1. t = x
      BY <2>4
    <3> HIDE DEF t
    <3>2. peer'[p] = x /\ peer' = [peer EXCEPT ![p] = peer'[p]]
      BY <2>1, <3>1 DEF NetInv, NetType
    <3>3. x.pc \notin Serving /\ x.pc \notin Connecting
      BY <1>1, <2>3 DEF Serving, Connecting
    <3> QED
      BY <2>1, <2>2, <2>3, <3>2, <3>3, Leaving
  <2>5. CASE ~ Stale(r)
    <3> DEFINE v == Receiving(x)
               c == After(x.delta, x.current)
    <3>1. t = v /\ x.pc = "run" /\ x.delta # 0
      BY <1>1, <1>4, <2>3, <2>5
    <3> HIDE DEF t, r
    <3>2. /\ Intact(v)
          /\ v.mode = x.mode /\ v.sock = x.sock /\ v.listen = x.listen
          /\ v.delta = x.delta /\ v.given = x.given /\ v.joined = x.joined
          /\ \/ /\ x.full \/ x.current = x.delta - 1
                /\ v.full /\ v.pc = "read" /\ v.machine = x.machine
                /\ v.current = x.current /\ v.ring = x.ring
             \/ /\ ~ (x.full \/ x.current = x.delta - 1)
                /\ ~ v.full /\ v.pc = "run" /\ v.machine = Append(x.machine, <<>>)
                /\ v.current = c /\ v.ring[c].sync = v.machine /\ v.ring[c].inputs = <<>>
                /\ \A i \in 0 .. x.delta - 1 : i # c => v.ring[i] = x.ring[i]
      BY <2>3, <3>1, ReceivingIntact
    <3> HIDE DEF v, c
    <3>3. peer'[p] = v /\ peer' = [peer EXCEPT ![p] = peer'[p]]
      BY <2>1, <3>1 DEF NetInv, NetType
    <3>4. v.pc \in {"run", "read"}
      BY <3>2
    <3>5. v.pc \notin Serving /\ v.pc \notin Connecting
      BY <3>4 DEF Serving, Connecting
    <3>6. /\ Intact(v) /\ ~ v.joined /\ v.sock # "open"
          /\ v.mode = "idle" \/ (p = "server" /\ v.mode = "server" /\ v.listen = "open")
          /\ v.delta = peer[p].delta /\ v.given <= peer[p].given
      BY <2>3, <3>2 DEF r
    <3> QED
      BY <2>1, <2>2, <3>3, <3>5, <3>6, Leaving
  <2> QED
    BY <2>4, <2>5
<1> QED
  BY <1>2, <1>3, <1>4

-----------------------------------------------------------------------------
(***************************************************************************)
(* The invariant is one, and what follows from it.                         *)
(***************************************************************************)
LEMMA NetStutter ==
  ASSUME NetInv, UNCHANGED vars PROVE NetInv'
<1>1. /\ peer' = peer /\ wire' = wire /\ far' = far /\ linked' = linked
      /\ pending' = pending /\ said' = said
  BY DEF vars, network
<1>2. NetType' /\ LineInv' /\ ServerInv' /\ LinkedInv' /\ D' = D
  BY <1>1 DEF NetInv, NetType, LineInv, ServerInv, LinkedInv, D
<1>3. ClientInv'
  BY <1>1, <1>2 DEF NetInv, ClientInv
<1>4. \A p \in Peers : LoneInv(p)' /\ JoinedInv(p)'
  BY <1>1, <1>2 DEF NetInv, LoneInv, JoinedInv, Connected, At
<1> QED
  BY <1>2, <1>3, <1>4 DEF NetInv

(* Every step keeps the invariant. *)
LEMMA NetNext == NetInv /\ [Next]_vars => NetInv'
<1> SUFFICES ASSUME NetInv, [Next]_vars PROVE NetInv'
  OBVIOUS
<1>1. CASE User
  BY <1>1, StartServerNet, ConnectClientNet, LineBreaksNet, UserDisconnectsNet, QuitNet,
     SuspendNet, RecordNet DEF User
<1>2. CASE Serve
  BY <1>2, AcceptNet, SnapshotFailsNet, SendSnapshotNet, SendSettingsNet, RecvPongNet,
     PongFailsNet DEF Serve
<1>3. CASE Connect
  BY <1>3, GetSnapshotNet, GetSettingsNet, GetPingNet, GetDeltaNet DEF Connect
<1>4. CASE \E p \in Peers : Hook(p)
  BY <1>4, HookSendNet, ReadMarkNet, ReadFailsNet, BodyFailsNet, ReadFrameNet DEF Hook
<1>5. CASE UNCHANGED vars
  BY <1>5, NetStutter
<1> QED
  BY <1>1, <1>2, <1>3, <1>4, <1>5 DEF Next

(***************************************************************************)
(* In any number of sessions: what the peers have and what is on the wire  *)
(* between them fit together.                                              *)
(***************************************************************************)
THEOREM NetInvariant == Spec => []NetInv
<1>1. Init => NetInv
  BY InitNet
<1>2. NetInv /\ [Next]_vars => NetInv'
  BY NetNext
<1> QED
  BY <1>1, <1>2, PTL DEF Spec

(* The types, from the invariant. *)
LEMMA NetTypes == NetInv => TypeOK
<1> SUFFICES ASSUME NetInv PROVE TypeOK
  OBVIOUS
<1>1. NetType
  BY DEF NetInv
<1>2. ASSUME NEW p \in Peers
      PROVE  /\ peer[p].mode \in {"idle", "server", "server_connected", "client"}
             /\ peer[p].pc \in {"run", "snapshot", "settings", "pong", "get_snapshot",
                                "get_settings", "get_ping",
                                "get_delta", "read", "down", "aborted", "crashed"}
             /\ peer[p].sock \in {"none", "open", "closed"}
             /\ peer[p].listen \in {"none", "open", "closed"}
             /\ peer[p].delta \in Deltas \cup {0}
             /\ DOMAIN peer[p].ring = 0 .. peer[p].delta - 1
             /\ peer[p].delta # 0 => peer[p].current \in DOMAIN peer[p].ring
             /\ peer[p].full => peer[p].toPlay \in DOMAIN peer[p].ring
             /\ wire[p] \in Seq(Message)
             /\ far[p] \in {"open", "closed", "reset"}
  <2> DEFINE r == peer[p]
  <2>1. r \in PeerType /\ Intact(r)
    BY PeerFacts
  <2>2. wire[p] \in Seq(Message) /\ far[p] \in {"open", "closed", "reset"}
    BY <1>1 DEF NetType
  <2> HIDE DEF r
  <2>3. /\ r.mode \in {"idle", "server", "server_connected", "client"}
        /\ r.pc \in {"run", "snapshot", "settings", "pong", "get_snapshot",
                     "get_settings", "get_ping",
                     "get_delta", "read", "down", "aborted", "crashed"}
        /\ r.sock \in {"none", "open", "closed"} /\ r.listen \in {"none", "open", "closed"}
        /\ r.delta \in Deltas \cup {0}
    BY <2>1 DEF PeerType
  <2>4. DOMAIN r.ring = 0 .. r.delta - 1
    BY <2>1 DEF Intact
  <2>5. r.delta # 0 => r.delta \in Nat \ {0} /\ r.current \in 0 .. r.delta - 1
    BY <2>1, IntactTypes
  <2>6. r.full => r.toPlay \in 0 .. r.delta - 1
    <3>1. r.full => r.delta # 0 /\ r.toPlay = After(r.delta, r.current)
      BY <2>1 DEF Intact
    <3> QED
      BY <2>5, <3>1, ModStep
  <2> QED
    BY <2>2, <2>3, <2>4, <2>5, <2>6 DEF r
<1> QED
  BY <1>1, <1>2 DEF TypeOK, NetType, SaidType

(* What a member that reads finds. *)
LEMMA ReadsKind ==
  ASSUME NetInv, NEW p \in Peers, peer[p].pc = "read", peer[p].sock = "open", wire[p] # <<>>
  PROVE  Head(wire[p]).kind \in {"mark", "frame"}
<1> DEFINE r == peer[p]
           lk == linked
           f == far[p]
           w == wire[p]
           d == D
<1>1. /\ r.joined /\ Intact(r) /\ said \in SaidType /\ lk \in BOOLEAN
      /\ Member(p, r, said, d, w, f, lk) /\ w \in Seq(Message) /\ w # <<>> /\ r.pc = "read"
  BY ReadsJoined
<1> HIDE DEF r, lk, f, w, d
<1>2. Head(w).kind = "mark" \/ Head(w).kind = "frame"
  BY <1>1, MemberReads
<1> QED
  BY <1>2 DEF w

(* A reader finds what it waits for, by where the two are. *)
LEMMA NetParses == NetInv => StreamParses
<1> SUFFICES ASSUME NetInv, NEW p \in Peers, peer[p].pc \in DOMAIN Awaited, wire[p] # <<>>,
                    peer[p].sock = "open"
             PROVE  Head(wire[p]).kind \in Awaited[peer[p].pc]
  BY DEF StreamParses
<1> DEFINE k == peer[p].pc
<1>0. ServerInv /\ ClientInv
  BY DEF NetInv
<1>1. /\ DOMAIN Awaited = {"get_snapshot", "get_settings", "get_ping", "get_delta", "pong", "read"}
      /\ Awaited["get_snapshot"] = {"snapshot"} /\ Awaited["get_settings"] = {"settings"}
      /\ Awaited["get_ping"] = {"ping"} /\ Awaited["get_delta"] = {"delta"}
      /\ Awaited["pong"] = {"pong"} /\ Awaited["read"] = {"mark", "frame"}
  BY DEF Awaited
<1>2. CASE k = "read"
  BY <1>1, <1>2, ReadsKind
<1>3. CASE k = "pong"
  <2>1. p = "server"
    BY <1>0, <1>3, ServerClient DEF ClientInv, Serving
  <2>2. wire["server"] = <<[kind |-> "pong"]>>
    BY <1>0, <1>3, <2>1 DEF ServerInv
  <2> QED
    BY <1>1, <1>3, <2>1, <2>2
<1>4. CASE k \in Connecting
  <2>1. p = "client"
    BY <1>0, <1>4, ServerClient DEF ServerInv
  <2> DEFINE w == wire["client"]
  <2>2. CASE k = "get_snapshot"
    <3>1. w = <<[kind |-> "snapshot"]>> \/ w = <<[kind |-> "snapshot"]>> \o Settings
      BY <1>0, <2>1, <2>2 DEF ClientInv
    <3>2. /\ Head(<<[kind |-> "snapshot"]>>) = [kind |-> "snapshot"]
          /\ Head(<<[kind |-> "snapshot"]>> \o Settings) = [kind |-> "snapshot"]
      BY DEF Settings
    <3>3. Head(w).kind = "snapshot"
      BY <3>1, <3>2
    <3> QED
      BY <1>1, <2>1, <2>2, <3>3
  <2>3. CASE k = "get_settings"
    <3>1. w = Settings
      BY <1>0, <2>1, <2>3 DEF ClientInv
    <3>2. Head(Settings) = [kind |-> "settings"]
      BY DEF Settings
    <3>3. Head(w).kind = "settings"
      BY <3>1, <3>2
    <3> QED
      BY <1>1, <2>1, <2>3, <3>3
  <2>4. CASE k = "get_ping"
    <3>1. w = <<[kind |-> "ping"]>>
      BY <1>0, <2>1, <2>4 DEF ClientInv
    <3> QED
      BY <1>1, <2>1, <2>4, <3>1
  <2>5. CASE k = "get_delta"
    <3>1. Head(w) = [kind |-> "delta", delta |-> D]
      BY <1>0, <2>1, <2>5 DEF ClientInv
    <3> QED
      BY <1>1, <2>1, <2>5, <3>1
  <2> QED
    BY <1>4, <2>2, <2>3, <2>4, <2>5 DEF Connecting
<1> QED
  BY <1>1, <1>2, <1>3, <1>4 DEF Connecting

(* The frame that a member can execute. *)
LEMMA ReadsFrame ==
  ASSUME NetInv, NEW p \in Peers, At(p, "read"), Arrived(p, "frame")
  PROVE  LET n == Len(peer[p].machine) IN
         /\ Remote(p).sync = Local(p).sync
         /\ n \in Nat /\ D \in Nat /\ Len(said[p]) = n + 1 /\ n + 1 >= D
         /\ n + 1 - D + 1 <= Len(said[Other(p)])
         /\ Lists(p) = <<said["server"][n - D + 2], said["client"][n - D + 2]>>
<1> DEFINE r == peer[p]
           lists == Lists(p)
           lk == linked
           f == far[p]
           w == wire[p]
           d == D
           n == Len(r.machine)
           mine == r.ring[r.toPlay]
           theirs == Head(w).list
           played == IF r.mode = "server_connected" THEN <<mine.inputs, theirs.inputs>>
                                                    ELSE <<theirs.inputs, mine.inputs>>
<1>1. /\ r.pc = "read" /\ r.sock = "open" /\ w # <<>> /\ Head(w).kind = "frame"
  BY DEF At, Arrived
<1>2. /\ r.joined /\ Intact(r) /\ said \in SaidType /\ lk \in BOOLEAN
      /\ Member(p, r, said, d, w, f, lk) /\ w \in Seq(Message)
  BY <1>1, ReadsJoined
<1>3. lists = played /\ Remote(p) = theirs /\ Local(p) = mine
  BY DEF Lists, Local, Remote
<1> HIDE DEF lk, f, d, r, w
<1>4. /\ theirs.sync = mine.sync
      /\ Len(said[p]) = n + 1 /\ n + 1 >= d /\ n + 1 - d + 1 <= Len(said[Other(p)])
      /\ played = <<said["server"][n - d + 2], said["client"][n - d + 2]>>
      /\ played \in Seq(Seq(Input))
      /\ Intact(Prepared(r, played)) /\ Prepared(r, played).given = r.given
      /\ Prepared(r, played).joined = r.joined
      /\ Prepared(r, played).machine = Append(r.machine, played)
      /\ Member(p, Prepared(r, played), said, d, Tail(w), f, lk)
  BY <1>1, <1>2, MemberExecutes
<1>5. n \in Nat /\ d \in Nat
  <2>1. /\ d \in Nat /\ d >= 2 /\ Len(r.machine) \in Nat
    BY <1>2, MemberHeard
  <2> QED
    BY <2>1
<1> HIDE DEF mine, theirs, played, lists
<1>6. /\ Remote(p).sync = Local(p).sync
      /\ n \in Nat /\ d \in Nat /\ Len(said[p]) = n + 1 /\ n + 1 >= d
      /\ n + 1 - d + 1 <= Len(said[Other(p)])
      /\ lists = <<said["server"][n - d + 2], said["client"][n - d + 2]>>
  BY <1>3, <1>4, <1>5
<1> QED
  BY <1>6 DEF r, d, lists

(* The sync test compares the lists of one frame. *)
LEMMA NetSync == NetInv => SyncTestPasses
<1> SUFFICES ASSUME NetInv, NEW p \in Peers, At(p, "read") /\ Arrived(p, "frame")
             PROVE  Remote(p).sync = Local(p).sync
  BY DEF SyncTestPasses
<1> QED
  BY ReadsFrame

(***************************************************************************)
(* For any inputs, delays and number of sessions: the variables keep their *)
(* types, and the indices of a ring stay in it.                            *)
(***************************************************************************)
THEOREM NetTypeCorrect == Spec => []TypeOK
BY NetInvariant, NetTypes, PTL

(***************************************************************************)
(* ... and whoever reads finds what it is waiting for: the suspensions     *)
(* that are sent in between never get into the handshake.                  *)
(***************************************************************************)
THEOREM StreamAlwaysParses == Spec => []StreamParses
BY NetInvariant, NetParses, PTL

(***************************************************************************)
(* ... and the sync test of two peers of a session never fails.            *)
(***************************************************************************)
THEOREM SyncTestAlwaysPasses == Spec => []SyncTestPasses
BY NetInvariant, NetSync, PTL

-----------------------------------------------------------------------------
(***************************************************************************)
(* The refinement: what LockStep sees of the two processes.                *)
(***************************************************************************)
Members  == {p \in Peers : peer[p].joined}
Machines == [p \in Peers |-> IF peer[p].joined THEN peer[p].machine ELSE <<>>]

Unseen == Members' = Members /\ Machines' = Machines /\ said' = said /\ D' = D

(* The steps of LockStep, in these terms: a member leaves, ... *)
LEMMA DueLeave ==
  ASSUME NEW p \in Peers, p \in Members, Members' = Members \ {p},
         Machines' = [Machines EXCEPT ![p] = <<>>], said' = said, D' = D
  PROVE  Due!Leave(p)
BY DEF Due!Leave, Members, Machines, D

(* A peer joins, ... *)
LEMMA DueJoin ==
  ASSUME NEW p \in Peers, p \notin Members, D # 0, said[p] = <<>>, Machines[p] = <<>>,
         Members' = Members \cup {p}, Machines' = Machines, said' = said, D' = D
  PROVE  Due!Join(p)
BY DEF Due!Join, Members, Machines, D

(* ... or begins a session, ... *)
LEMMA DueBegin ==
  ASSUME NEW p \in Peers, NEW d \in Deltas, Members = {}, Members' = {p}, D' = d,
         said' = [q \in Peers |-> <<>>], Machines' = [q \in Peers |-> <<>>]
  PROVE  Due!Begin(p, d)
BY DEF Due!Begin, Members, Machines, D

(* ... says a list, ... *)
LEMMA DueSay ==
  ASSUME NEW p \in Peers, p \in Members, NEW list, Len(Machines[p]) = Len(said[p]) + 1 - 1,
         said' = [said EXCEPT ![p] = Append(said[p], list)],
         Machines' = IF Len(said[p]) + 1 < D
                     THEN [Machines EXCEPT ![p] = Append(Machines[p], <<>>)] ELSE Machines,
         Members' = Members, D' = D
  PROVE  Due!Say(p, list)
BY DEF Due!Say, Members, Machines, D

(* ... or executes the lists that are due. *)
LEMMA DueExecute ==
  ASSUME NEW p \in Peers, p \in Members, NEW n, n = Len(Machines[p]) + 1,
         Len(said[p]) = n, n >= D, \A q \in Peers : Len(said[q]) > n - D,
         NEW due, due = Due!Due(n),
         Machines' = [Machines EXCEPT ![p] = Append(Machines[p], due)],
         Members' = Members, said' = said, D' = D
  PROVE  Due!Execute(p)
<1> DEFINE m == Len(Machines[p]) + 1
           mac == Machines
           mac2 == Machines'
           mem == Members
           mem2 == Members'
           d == D
           d2 == D'
<1>1. Due!Execute(p) <=>
        /\ /\ p \in mem /\ Len(said[p]) = m /\ m >= d
           /\ \A q \in Peers : Len(said[q]) > m - d
        /\ mac2 = [mac EXCEPT ![p] = Append(mac[p], Due!Due(m))]
        /\ mem2 = mem /\ said' = said /\ d2 = d
  BY DEF Due!Execute, Members, Machines, D
<1>2. m = n /\ d2 = d /\ mem2 = mem /\ mac2 = [mac EXCEPT ![p] = Append(mac[p], Due!Due(n))]
      /\ p \in mem
  OBVIOUS
<1>3. n >= d /\ \A q \in Peers : Len(said[q]) > n - d
  OBVIOUS
<1> HIDE DEF m, mac, mac2, mem, mem2, d, d2
<1> QED
  BY <1>1, <1>2, <1>3

(* The lists that can be said. *)
EventLists == UNION {[1 .. n -> Input] : n \in 0 .. MaxInputs}

(* A step of LockStep, or none that it sees. *)
Implemented ==
  \/ Unseen
  \/ \E p \in Peers :
       \/ \E d \in Deltas : Due!Begin(p, d)
       \/ Due!Join(p) \/ Due!Execute(p) \/ Due!Leave(p)
       \/ \E list \in EventLists : Due!Say(p, list)

(* That is a step of LockStep or a stutter. *)
LEMMA ImplementedNext == Implemented => [Due!Next]_(Due!vars)
BY DEF Implemented, EventLists, Due!Next, Due!vars, Unseen, Members, Machines, D

(* Nothing that LockStep sees has changed. *)
LEMMA Same ==
  ASSUME \A p \in Peers : /\ peer'[p].joined <=> peer[p].joined
                          /\ peer[p].joined => peer'[p].machine = peer[p].machine,
         peer'["server"].delta = peer["server"].delta, said' = said
  PROVE  Unseen
<1>1. Members' = Members
  BY DEF Members
<1>2. Machines' = Machines
  BY DEF Machines
<1> QED
  BY <1>1, <1>2 DEF Unseen, D

(* ... when a process goes on with the same machine. *)
LEMMA Changed ==
  ASSUME NetInv, NEW p \in Peers, NEW r, peer' = [peer EXCEPT ![p] = r], said' = said,
         r.joined = peer[p].joined, r.machine = peer[p].machine,
         p = "server" => r.delta = peer[p].delta
  PROVE  Unseen
<1>1. \A q \in Peers : peer'[q] = IF q = p THEN r ELSE peer[q]
  BY DEF NetInv, NetType
<1>2. \A q \in Peers : /\ peer'[q].joined <=> peer[q].joined
                       /\ peer'[q].machine = peer[q].machine
                       /\ q = "server" => peer'[q].delta = peer[q].delta
  BY <1>1
<1> QED
  BY <1>2, Same, ServerClient

(* p has left, if it was a member. *)
LEMMA Left ==
  ASSUME NetInv, NEW p \in Peers, NEW r, peer' = [peer EXCEPT ![p] = r], ~ r.joined,
         p = "server" => r.delta = peer[p].delta, said' = said
  PROVE  Implemented
<1>1. \A q \in Peers : peer'[q] = IF q = p THEN r ELSE peer[q]
  BY DEF NetInv, NetType
<1>2. peer'["server"].delta = peer["server"].delta
  BY <1>1, ServerClient
<1>3. CASE ~ peer[p].joined
  BY <1>1, <1>2, <1>3, Same DEF Implemented
<1>4. CASE peer[p].joined
  <2>1. p \in Members /\ Members' = Members \ {p}
    BY <1>1, <1>4 DEF Members
  <2>2. Machines' = [Machines EXCEPT ![p] = <<>>]
    <3>1. \A q \in Peers : Machines'[q] = IF q = p THEN <<>> ELSE Machines[q]
      BY <1>1 DEF Machines
    <3> QED
      BY <3>1 DEF Machines
  <2>3. D' = D
    BY <1>2 DEF D
  <2> QED
    BY <2>1, <2>2, <2>3, DueLeave DEF Implemented
<1> QED
  BY <1>3, <1>4

(* A process ends, ... *)
LEMMA EndsDue ==
  ASSUME NetInv, NEW p \in Peers, NEW how \in {"down", "aborted", "crashed"}, Ends(p, how),
         said' = said
  PROVE  Implemented
<1> DEFINE r == Gone(peer[p], how)
<1>1. ~ r.joined /\ r.delta = peer[p].delta
  BY ZenonT(40), PeerFacts, GoneIntact
<1>2. peer' = [peer EXCEPT ![p] = r]
  BY DEF Ends
<1> HIDE DEF r
<1> QED
  BY <1>1, <1>2, Left

(* ... or hangs up. *)
LEMMA DisconnectsDue ==
  ASSUME NetInv, NEW p \in Peers, UserDisconnects(p) \/ ReadFails(p)
  PROVE  Implemented
<1> DEFINE r == Disconnected(peer[p])
           s == IF r.pc = "aborted" THEN r ELSE [r EXCEPT !.pc = "run"]
<1>1. ~ r.joined /\ r.delta = peer[p].delta /\ r \in PeerType
  BY DisconnectedLeft DEF Intact
<1>2. CASE UserDisconnects(p)
  <2>1. peer' = [peer EXCEPT ![p] = r] /\ said' = said
    BY <1>2 DEF UserDisconnects, Quiet
  <2> HIDE DEF r
  <2> QED
    BY <1>1, <2>1, Left
<1>3. CASE ReadFails(p)
  <2>1. peer' = [peer EXCEPT ![p] = s] /\ said' = said
    BY <1>3 DEF ReadFails, Quiet
  <2> HIDE DEF r
  <2>2. s.joined = r.joined /\ s.delta = r.delta
    BY <1>1 DEF PeerType
  <2> HIDE DEF s
  <2> QED
    BY <1>1, <2>1, <2>2, Left
<1> QED
  BY <1>2, <1>3

(* The steps that LockStep does not see. *)
LEMMA UsersUnseen ==
  ASSUME NetInv,
         StartServer \/ ConnectClient \/ LineBreaks
           \/ \E p \in Peers : Suspend(p) \/ \E e \in Input : Record(p, e)
  PROVE  Unseen
<1>0. peer \in [Peers -> PeerType] /\ "server" \in Peers /\ "client" \in Peers
  BY DEF NetInv, NetType, Peers
<1> DEFINE s == peer["server"]
           c == peer["client"]
<1>1. CASE StartServer
  <2> DEFINE t == [s EXCEPT !.listen = "open", !.mode = "server"]
  <2>1. peer' = [peer EXCEPT !["server"] = t] /\ said' = said
    BY <1>1 DEF StartServer, Quiet
  <2>2. t.joined = s.joined /\ t.machine = s.machine /\ t.delta = s.delta
    BY <1>0 DEF PeerType
  <2> QED
    BY <1>0, <2>1, <2>2, Changed
<1>2. CASE ConnectClient
  <2> DEFINE t == IF s.listen = "open" THEN [c EXCEPT !.sock = "open", !.pc = "get_snapshot"]
                                       ELSE [c EXCEPT !.sock = "none"]
  <2>1. peer' = [peer EXCEPT !["client"] = t] /\ said' = said
    BY <1>2 DEF ConnectClient, Quiet
  <2>2. t.joined = c.joined /\ t.machine = c.machine /\ t.delta = c.delta
    BY <1>0 DEF PeerType
  <2> QED
    BY <1>0, <2>1, <2>2, Changed
<1>3. CASE LineBreaks
  BY <1>0, <1>3, Same DEF LineBreaks
<1>4. ASSUME NEW p \in Peers, Suspend(p) PROVE Unseen
  <2> DEFINE t == [peer[p] EXCEPT !.suspended = TRUE, !.marks = @ + 1]
  <2>1. peer' = [peer EXCEPT ![p] = t] /\ said' = said
    BY <1>4 DEF Suspend, Quiet
  <2>2. t.joined = peer[p].joined /\ t.machine = peer[p].machine /\ t.delta = peer[p].delta
    BY <1>0 DEF PeerType
  <2> QED
    BY <1>0, <2>1, <2>2, Changed
<1>5. ASSUME NEW p \in Peers, NEW e \in Input, Record(p, e) PROVE Unseen
  <2> DEFINE t == [peer[p] EXCEPT !.ring[peer[p].current].inputs = Append(@, e),
                                  !.given = @ + 1]
  <2>1. peer' = [peer EXCEPT ![p] = t] /\ said' = said
    BY ZenonT(40), <1>5 DEF Record, Quiet
  <2>2. t.joined = peer[p].joined /\ t.machine = peer[p].machine /\ t.delta = peer[p].delta
    BY <1>0 DEF PeerType
  <2> QED
    BY <1>0, <2>1, <2>2, Changed
<1> QED
  BY <1>1, <1>2, <1>3, <1>4, <1>5

(* ... or goes on elsewhere. *)
LEMMA GotoUnseen ==
  ASSUME NetInv, NEW p \in Peers, NEW k, peer' = [peer EXCEPT ![p].pc = k], said' = said
  PROVE  Unseen
<1> DEFINE t == [peer[p] EXCEPT !.pc = k]
<1>1. peer[p] \in PeerType
  BY DEF NetInv, NetType
<1>2. peer' = [peer EXCEPT ![p] = t]
  OBVIOUS
<1>3. t.joined = peer[p].joined /\ t.machine = peer[p].machine /\ t.delta = peer[p].delta
  BY <1>1 DEF PeerType
<1> QED
  BY <1>2, <1>3, Changed

(* The delay of a session is at least two frames. *)
LEMMA SaysDelay ==
  ASSUME NetInv, NEW p \in Peers, peer[p].pc = "read", peer[p].sock = "open"
  PROVE  D >= 2
<1> DEFINE r == peer[p]
           lk == linked
           f == far[p]
           w == wire[p]
           d == D
<1>1. Intact(r) /\ said \in SaidType /\ Member(p, r, said, d, w, f, lk)
  BY ReadsJoined
<1> HIDE DEF r, lk, f, w, d
<1>2. d >= 2
  BY <1>1, MemberHeard
<1> QED
  BY <1>2 DEF d

(* What else LockStep does not see: the handshake, ... *)
LEMMA ServeUnseen ==
  ASSUME NetInv, Accept \/ SnapshotFails \/ SendSnapshot \/ SendSettings \/ PongFails
  PROVE  Unseen
<1> DEFINE s == peer["server"]
<1>0. s \in PeerType /\ "server" \in Peers
  BY DEF NetInv, NetType, Peers
<1>1. CASE Accept
  <2> DEFINE t == [s EXCEPT !.sock = "open", !.pc = "snapshot"]
  <2>1. peer' = [peer EXCEPT !["server"] = t] /\ said' = said
    BY <1>1 DEF Accept
  <2>2. t.joined = s.joined /\ t.machine = s.machine /\ t.delta = s.delta
    BY <1>0 DEF PeerType
  <2> QED
    BY <1>0, <2>1, <2>2, Changed
<1>2. CASE SendSnapshot
  <2> DEFINE t == [s EXCEPT !.mode = "server_connected", !.pc = "settings"]
  <2>1. peer' = [peer EXCEPT !["server"] = t] /\ said' = said
    BY <1>2 DEF SendSnapshot, Quiet
  <2>2. t.joined = s.joined /\ t.machine = s.machine /\ t.delta = s.delta
    BY <1>0 DEF PeerType
  <2> QED
    BY <1>0, <2>1, <2>2, Changed
<1>3. CASE SnapshotFails \/ SendSettings \/ PongFails
  <2>1. PICK k \in {"run", "pong"} : peer' = [peer EXCEPT !["server"].pc = k] /\ said' = said
    BY <1>3 DEF SnapshotFails, SendSettings, PongFails, Goto, Quiet
  <2> QED
    BY <1>0, <2>1, GotoUnseen
<1> QED
  BY <1>1, <1>2, <1>3

(* ... at both ends, ... *)
LEMMA ConnectUnseen ==
  ASSUME NetInv, GetSnapshot \/ GetSettings \/ GetPing
  PROVE  Unseen
<1> DEFINE c == peer["client"]
<1>0. c \in PeerType /\ "client" \in Peers /\ "client" # "server"
  BY DEF NetInv, NetType, Peers
<1>1. CASE peer' = [peer EXCEPT !["client"].sock = "closed", !["client"].pc = "run"]
           /\ said' = said
  <2> DEFINE t == [c EXCEPT !.sock = "closed", !.pc = "run"]
  <2>1. peer' = [peer EXCEPT !["client"] = t]
    BY <1>1
  <2>2. t.joined = c.joined /\ t.machine = c.machine
    BY <1>0 DEF PeerType
  <2> QED
    BY <1>0, <1>1, <2>1, <2>2, Changed
<1>2. CASE peer' = [peer EXCEPT !["client"].mode = "client", !["client"].pc = "get_ping"]
           /\ said' = said
  <2> DEFINE t == [c EXCEPT !.mode = "client", !.pc = "get_ping"]
  <2>1. peer' = [peer EXCEPT !["client"] = t]
    BY <1>2
  <2>2. t.joined = c.joined /\ t.machine = c.machine
    BY <1>0 DEF PeerType
  <2> QED
    BY <1>0, <1>2, <2>1, <2>2, Changed
<1>3. ASSUME NEW k, Goto("client", k), said' = said PROVE Unseen
  BY <1>0, <1>3, GotoUnseen DEF Goto
<1>4. CASE GetSnapshot
  BY <1>1, <1>3, <1>4 DEF GetSnapshot, Quiet
<1>5. CASE GetSettings
  BY <1>2, <1>3, <1>5 DEF GetSettings, Quiet
<1>6. CASE GetPing
  BY <1>3, <1>6 DEF GetPing, Quiet
<1> QED
  BY <1>4, <1>5, <1>6

(* ... and the marks and errors on the stream. *)
LEMMA ReadUnseen ==
  ASSUME NetInv, NEW p \in Peers, ReadMark(p) \/ BodyFails(p)
  PROVE  Unseen
<1>0. peer[p] \in PeerType
  BY DEF NetInv, NetType
<1>1. CASE ReadMark(p)
  <2> DEFINE t == [peer[p] EXCEPT !.suspended = TRUE]
  <2>1. peer' = [peer EXCEPT ![p] = t] /\ said' = said
    BY <1>1 DEF ReadMark, Quiet
  <2>2. t.joined = peer[p].joined /\ t.machine = peer[p].machine /\ t.delta = peer[p].delta
    BY <1>0 DEF PeerType
  <2> QED
    BY <1>0, <2>1, <2>2, Changed
<1>2. CASE BodyFails(p)
  BY <1>2, GotoUnseen DEF BodyFails, Goto, Quiet
<1> QED
  BY <1>1, <1>2

-----------------------------------------------------------------------------
(* The server begins a session when it knows the delay. *)
LEMMA PongDue ==
  ASSUME NetInv, NEW d \in Deltas, RecvPong(d)
  PROVE  Due!Begin("server", d)
<1> DEFINE u == peer["server"]
           t == WithLists(u, d)
<1>0. Intact(u) /\ u.sock = "open" /\ u.mode = "server_connected"
  BY PeerFacts, ServerClient DEF RecvPong, At, NetInv, ServerInv, Serving
<1> HIDE DEF u
<1>1. /\ Intact(t)
      /\ t.mode = u.mode /\ t.pc = "run" /\ t.sock = u.sock /\ t.listen = u.listen
      /\ t.delta = d /\ t.current = 0 /\ t.full = FALSE /\ t.machine = <<>>
      /\ t.given = 0 /\ t.joined = TRUE
      /\ \A i \in 0 .. d - 1 : t.ring[i] = NoList
  BY <1>0, WithListsIntact
<1> USE DEF u
<1>2. peer' = [peer EXCEPT !["server"] = t] /\ said' = [q \in Peers |-> <<>>]
  BY DEF RecvPong
<1>3. ~ peer["server"].joined /\ ~ peer["client"].joined
  BY DEF RecvPong, At, NetInv, ServerInv, Serving
<1> HIDE DEF t
<1>4. peer'["server"] = t /\ peer'["client"] = peer["client"]
  BY <1>2, ServerClient DEF NetInv, NetType
<1>5. Members = {} /\ Members' = {"server"} /\ D' = d
  BY <1>1, <1>3, <1>4, ServerClient DEF Members, D, Peers
<1>6. Machines' = [q \in Peers |-> <<>>]
  BY <1>1, <1>3, <1>4, ServerClient DEF Machines
<1> QED
  BY <1>2, <1>5, <1>6, ServerClient, DueBegin

(* The client joins it when it is told, or goes on without. *)
LEMMA DeltaDue ==
  ASSUME NetInv, GetDelta
  PROVE  Implemented
<1> DEFINE c == peer["client"]
<1>0. "client" \in Peers /\ "client" # "server" /\ Intact(c)
  BY ServerClient, PeerFacts
<1>1. c.pc = "get_delta" /\ c.sock = "open" /\ c.mode = "client" /\ ~ c.joined /\ said' = said
  BY DEF GetDelta, At, Quiet, NetInv, ClientInv, Connecting
<1>2. CASE Arrived("client", "delta")
           /\ peer' = [peer EXCEPT !["client"] = WithLists(@, Head(wire["client"]).delta)]
  <2> DEFINE e == Head(wire["client"]).delta
             t == WithLists(c, e)
  <2>1. e = D /\ D \in Deltas /\ D # 0 /\ said["client"] = <<>>
    <3>1. wire["client"] # <<>>
      BY <1>2 DEF Arrived
    <3>2. /\ Head(wire["client"]) = [kind |-> "delta", delta |-> D] /\ D # 0
          /\ said["client"] = <<>>
      BY <1>1, <3>1 DEF NetInv, ClientInv
    <3>3. D = 0 \/ D \in Deltas
      BY PeerFacts, ServerClient DEF D
    <3> QED
      BY <3>2, <3>3
  <2>2. peer' = [peer EXCEPT !["client"] = t]
    BY <1>2
  <2> HIDE DEF e
  <2>3. t.joined = TRUE /\ t.machine = <<>>
    <3>1. e \in Deltas
      BY <2>1
    <3> HIDE DEF c
    <3>2. /\ Intact(t)
          /\ t.mode = c.mode /\ t.pc = "run" /\ t.sock = c.sock /\ t.listen = c.listen
          /\ t.delta = e /\ t.current = 0 /\ t.full = FALSE /\ t.machine = <<>>
          /\ t.given = 0 /\ t.joined = TRUE
          /\ \A i \in 0 .. e - 1 : t.ring[i] = NoList
      BY <1>0, <1>1, <3>1, WithListsIntact
    <3> QED
      BY <3>2
  <2> HIDE DEF t
  <2>4. peer'["client"] = t /\ peer'["server"] = peer["server"]
    BY <1>0, <2>2 DEF NetInv, NetType
  <2>5. "client" \notin Members /\ Members' = Members \cup {"client"} /\ D' = D
    BY <1>1, <2>3, <2>4, ServerClient DEF Members, D
  <2>6. Machines["client"] = <<>> /\ Machines' = Machines
    BY <1>1, <2>3, <2>4, ServerClient DEF Machines
  <2>7. Due!Join("client")
    BY <1>0, <1>1, <2>1, <2>5, <2>6, DueJoin
  <2> QED
    BY <1>0, <2>7 DEF Implemented
<1>3. ASSUME NEW d \in Deltas,
             peer' = [peer EXCEPT !["client"] = [WithLists(@, d) EXCEPT !.joined = FALSE]]
      PROVE  Implemented
  <2> DEFINE t == WithLists(c, d)
             v == [t EXCEPT !.joined = FALSE]
  <2>1. t \in PeerType
    BY <1>0, WithListsIntact DEF Intact
  <2>2. peer' = [peer EXCEPT !["client"] = v]
    BY <1>3
  <2> HIDE DEF t
  <2>3. ~ v.joined
    BY <2>1 DEF PeerType
  <2> HIDE DEF v
  <2> QED
    BY <1>0, <1>1, <2>2, <2>3, Left
<1>4. CASE Ends("client", "crashed")
  BY <1>0, <1>1, <1>4, EndsDue
<1> QED
  BY <1>2, <1>3, <1>4 DEF GetDelta

-----------------------------------------------------------------------------
(* A member ends a frame with its list. *)
LEMMA SaysDue ==
  ASSUME NetInv, NEW p \in Peers, HookSend(p), CanSend(p), peer[p].delta # 0
  PROVE  Implemented
<1> DEFINE r == peer[p]
           v == Receiving(r)
           n == Len(r.machine)
           list == r.ring[r.current].inputs
           f == far[p]
           w == wire[p]
           lk == linked
           d == D
<1>1. /\ r.pc = "run" /\ Connected(p) /\ f # "reset"
      /\ said' = [said EXCEPT ![p] = Append(said[p], list)]
      /\ peer' = [peer EXCEPT ![p] = v]
  BY DEF HookSend, At, CanSend, Frame
<1>2. /\ r.joined /\ Intact(r) /\ said \in SaidType
      /\ Member(p, r, said, d, w, f, lk)
  BY <1>1, SenderJoined
<1>3. r.given <= MaxInputs
  <2>1. /\ \A o \in Peers : peer[o].given \in Nat
        /\ peer["server"].given + peer["client"].given <= MaxInputs
    BY DEF NetInv, NetType, PeerType
  <2> QED
    BY <2>1, ServerClient, BoundsAssumption
<1> HIDE DEF f, w, lk, d, r
<1>4. /\ d \in Nat /\ d >= 2 /\ n \in Nat /\ r.delta = d /\ r.current \in 0 .. d - 1
      /\ n >= d - 1 => r.full \/ r.current = d - 1
      /\ r.full => n >= d - 1
      /\ r.current = d - 1 => n >= d - 1
  BY <1>2, MemberHeard
<1>5. Len(said[p]) = n
  BY <1>1, <1>2 DEF Member
<1>6. list \in EventLists
  <2>1. /\ list \in Seq(Input) /\ Len(list) \in Nat /\ Len(list) <= r.given /\ r.given \in Nat
    <3>1. r.delta # 0 /\ r.current \in 0 .. r.delta - 1
      BY <1>4
    <3> QED
      BY <1>2, <3>1, IntactTypes
  <2> HIDE DEF list
  <2>2. list \in [1 .. Len(list) -> Input] /\ Len(list) \in 0 .. MaxInputs
    BY <1>3, <2>1, BoundsAssumption
  <2> QED
    BY <2>2 DEF EventLists
<1>7. /\ v.delta = r.delta /\ v.joined = r.joined
      /\ v.machine = IF n + 1 < d THEN Append(r.machine, <<>>) ELSE r.machine
  <2>1. r.delta # 0
    BY <1>4
  <2> DEFINE c == After(r.delta, r.current)
  <2>2. /\ Intact(v)
        /\ v.mode = r.mode /\ v.sock = r.sock /\ v.listen = r.listen
        /\ v.delta = r.delta /\ v.given = r.given /\ v.joined = r.joined
        /\ \/ /\ r.full \/ r.current = r.delta - 1
              /\ v.full /\ v.pc = "read" /\ v.machine = r.machine
              /\ v.current = r.current /\ v.ring = r.ring
           \/ /\ ~ (r.full \/ r.current = r.delta - 1)
              /\ ~ v.full /\ v.pc = "run" /\ v.machine = Append(r.machine, <<>>)
              /\ v.current = c /\ v.ring[c].sync = v.machine /\ v.ring[c].inputs = <<>>
              /\ \A i \in 0 .. r.delta - 1 : i # c => v.ring[i] = r.ring[i]
    BY <1>1, <1>2, <2>1, ReceivingIntact
  <2> HIDE DEF v, c
  <2>3. (r.full \/ r.current = r.delta - 1) <=> ~ (n + 1 < d)
    BY <1>4
  <2> HIDE DEF n
  <2> QED
    BY <2>2, <2>3
<1> HIDE DEF v, list
<1>8. \A q \in Peers : peer'[q] = IF q = p THEN v ELSE peer[q]
  BY <1>1 DEF NetInv, NetType
<1>9. p \in Members /\ Members' = Members
  BY <1>2, <1>7, <1>8 DEF Members, r
<1>10. D' = D /\ d = D
  BY <1>7, <1>8, ServerClient DEF D, d, r
<1>11. Machines[p] = r.machine
  BY <1>2 DEF Machines, r
<1>12. Machines' = IF n + 1 < d THEN [Machines EXCEPT ![p] = Append(Machines[p], <<>>)]
                                ELSE Machines
  <2> DEFINE none == <<>>
             m == IF n + 1 < d THEN Append(r.machine, none) ELSE r.machine
  <2>1. v.machine = m
    BY <1>7
  <2> HIDE DEF m
  <2>2. \A q \in Peers : Machines'[q] = IF q = p THEN m ELSE Machines[q]
    BY <1>2, <1>7, <1>8, <2>1 DEF Machines, r
  <2>3. Machines' = [Machines EXCEPT ![p] = m]
    BY <2>2 DEF Machines
  <2>4. CASE n + 1 < d
    <3>1. m = Append(Machines[p], none)
      BY <1>11, <2>4 DEF m
    <3> QED
      BY <2>3, <2>4, <3>1
  <2>5. CASE ~ (n + 1 < d)
    <3>1. m = Machines[p]
      BY <1>11, <2>5 DEF m
    <3>2. Machines' = Machines
      BY <2>3, <3>1 DEF Machines
    <3> QED
      BY <2>5, <3>2
  <2> QED
    BY <2>4, <2>5
<1> HIDE DEF n
<1>13. PICK l \in EventLists : l = list
  BY <1>6
<1>14. Due!Say(p, l)
  <2>1. Len(Machines[p]) = Len(said[p]) + 1 - 1 /\ Len(said[p]) + 1 = n + 1
    BY <1>4, <1>5, <1>11 DEF n
  <2>2. Machines' = IF Len(said[p]) + 1 < D
                    THEN [Machines EXCEPT ![p] = Append(Machines[p], <<>>)] ELSE Machines
    BY <1>10, <1>12, <2>1
  <2>3. said' = [said EXCEPT ![p] = Append(said[p], l)]
    BY <1>1, <1>13
  <2> QED
    BY <1>9, <1>10, <2>1, <2>2, <2>3, DueSay
<1> QED
  BY <1>14 DEF Implemented

(* The hook, also when it hangs up or crashes. *)
LEMMA HookSendDue ==
  ASSUME NetInv, NEW p \in Peers, HookSend(p)
  PROVE  Implemented
<1> DEFINE r == peer[p]
           x == Disconnected(r)
           t == IF Stale(r) THEN x ELSE Receiving(x)
<1>1. r.pc = "run" /\ Connected(p)
  BY DEF HookSend, At
<1>2. CASE r.delta = 0
  <2>1. Ends(p, "crashed") /\ said' = said
    BY <1>2 DEF HookSend
  <2> QED
    BY <2>1, EndsDue
<1>3. CASE r.delta # 0 /\ CanSend(p)
  BY <1>3, SaysDue
<1>4. CASE r.delta # 0 /\ ~ CanSend(p)
  <2>1. said' = said /\ peer' = [peer EXCEPT ![p] = t]
    BY <1>4 DEF HookSend
  <2>2. /\ Intact(x) /\ ~ x.joined /\ x.delta = r.delta /\ (~ Stale(r) => x.pc = r.pc)
    BY DisconnectedLeft
  <2> HIDE DEF x
  <2>3. ~ t.joined /\ t.delta = r.delta
    <3>1. CASE Stale(r)
      BY <2>2, <3>1
    <3>2. CASE ~ Stale(r)
      <4>1. x.pc = "run" /\ x.delta # 0
        BY <1>1, <1>4, <2>2, <3>2
      <4>2. Receiving(x).joined = x.joined /\ Receiving(x).delta = x.delta
        BY <2>2, <4>1, ReceivingIntact
      <4> QED
        BY <2>2, <3>2, <4>2
    <3> QED
      BY <3>1, <3>2
  <2> HIDE DEF t
  <2> QED
    BY <2>1, <2>3, Left
<1> QED
  BY <1>2, <1>3, <1>4

(* A member executes the lists of a frame. *)
LEMMA ReadFrameDue ==
  ASSUME NetInv, NEW p \in Peers, ReadFrame(p)
  PROVE  Implemented
<1> DEFINE r == peer[p]
           lists == Lists(p)
           t == Prepared(r, lists)
           n == Len(r.machine) + 1
<1>1. /\ At(p, "read") /\ Arrived(p, "frame") /\ r.pc = "read" /\ r.sock = "open"
      /\ said' = said
  BY DEF ReadFrame, At, Arrived, Quiet
<1>2. r.joined /\ Intact(r) /\ said \in SaidType
  BY <1>1, ReadsJoined
<1>3. /\ Remote(p).sync = Local(p).sync
      /\ n \in Nat /\ D \in Nat /\ Len(said[p]) = n /\ n >= D
      /\ n - D + 1 <= Len(said[Other(p)])
      /\ lists = <<said["server"][n - D + 1], said["client"][n - D + 1]>>
  <2> DEFINE m == Len(r.machine)
  <2>1. /\ Remote(p).sync = Local(p).sync
        /\ m \in Nat /\ D \in Nat /\ Len(said[p]) = m + 1 /\ m + 1 >= D
        /\ m + 1 - D + 1 <= Len(said[Other(p)])
        /\ lists = <<said["server"][m - D + 2], said["client"][m - D + 2]>>
    BY <1>1, ReadsFrame
  <2> HIDE DEF m, lists
  <2>2. n = m + 1
    BY DEF m
  <2> HIDE DEF n
  <2>3. n - D + 1 = m - D + 2 /\ n \in Nat
    BY <2>1, <2>2
  <2> QED
    BY <2>1, <2>2, <2>3
<1>4. peer' = [peer EXCEPT ![p] = t]
  BY <1>3 DEF ReadFrame
<1>5. /\ lists \in Seq(Seq(Input))
      /\ t.joined = r.joined /\ t.machine = Append(r.machine, lists) /\ t.delta = r.delta
  <2>1. lists \in Seq(Seq(Input))
    <3>1. \A q \in Peers : said[q][n - D + 1] \in Seq(Input)
      <4> TAKE q \in Peers
      <4>1. said[q] \in Seq(Seq(Input)) /\ Len(said[q]) \in Nat
        BY <1>2, SaidTypes
      <4>2. q = p \/ q = Other(p)
        BY OtherPeer
      <4> HIDE DEF n
      <4>3. n - D + 1 \in 1 .. Len(said[q])
        <5>1. CASE q = p
          <6>1. D >= 2
            BY <1>1, <1>2, SaysDelay
          <6> QED
            BY <1>3, <4>1, <5>1, <6>1
        <5>2. CASE q = Other(p)
          BY <1>3, <4>1, <5>2
        <5> QED
          BY <4>2, <5>1, <5>2
      <4> QED
        BY <4>1, <4>3
    <3> DEFINE a == said["server"][n - D + 1]
               b == said["client"][n - D + 1]
    <3>2. a \in Seq(Input) /\ b \in Seq(Input) /\ lists = <<a, b>>
      BY <1>3, <3>1, ServerClient
    <3> HIDE DEF a, b, lists
    <3> QED
      BY <3>2
  <2>2. r.delta # 0
    <3>1. Member(p, r, said, D, wire[p], far[p], linked)
      BY <1>1, ReadsJoined
    <3> QED
      BY <3>1 DEF Member
  <2> HIDE DEF lists, r
  <2>3. t.joined = r.joined /\ t.machine = Append(r.machine, lists) /\ t.delta = r.delta
    BY <1>2, <2>1, <2>2, PreparedIntact
  <2> QED
    BY <2>1, <2>3
<1> HIDE DEF t, lists
<1>6. \A q \in Peers : peer'[q] = IF q = p THEN t ELSE peer[q]
  BY <1>4 DEF NetInv, NetType
<1>7. p \in Members /\ Members' = Members
  BY <1>2, <1>5, <1>6 DEF Members
<1>8. D' = D
  BY <1>5, <1>6, ServerClient DEF D
<1>9. Machines[p] = r.machine
  BY <1>2 DEF Machines
<1>10. Machines' = [Machines EXCEPT ![p] = Append(Machines[p], lists)]
  <2> DEFINE m == Append(r.machine, lists)
  <2>1. t.machine = m
    BY <1>5
  <2> HIDE DEF m
  <2>2. \A q \in Peers : Machines'[q] = IF q = p THEN m ELSE Machines[q]
    BY <1>2, <1>5, <1>6, <2>1 DEF Machines
  <2>3. Machines' = [Machines EXCEPT ![p] = m]
    BY <2>2 DEF Machines
  <2> QED
    BY <1>9, <2>3 DEF m
<1>11. lists = Due!Due(n)
  <2> HIDE DEF n
  <2>1. Due!Due(n) = [i \in 1 .. 2 |-> said[<<"server", "client">>[i]][n - D + 1]]
    BY DEF Due!Due, D
  <2>2. [i \in 1 .. 2 |-> said[<<"server", "client">>[i]][n - D + 1]]
          = <<said["server"][n - D + 1], said["client"][n - D + 1]>>
    OBVIOUS
  <2> QED
    BY <1>3, <2>1, <2>2
<1>12. \A q \in Peers : Len(said[q]) > n - D
  <2> TAKE q \in Peers
  <2>1. q = p \/ q = Other(p)
    BY OtherPeer
  <2>2. Len(said[q]) \in Nat
    BY <1>2, SaidTypes
  <2>3. D >= 2
    BY <1>1, <1>2, SaysDelay
  <2> HIDE DEF n
  <2>4. Len(said[Other(p)]) \in Nat
    BY <1>2, SaidTypes, OtherPeer
  <2> QED
    BY <1>3, <2>1, <2>2, <2>3, <2>4
<1>13. n = Len(Machines[p]) + 1
  BY <1>9
<1> HIDE DEF n
<1>14. Due!Execute(p)
  BY <1>1, <1>3, <1>7, <1>8, <1>10, <1>11, <1>12, <1>13, DueExecute
<1> QED
  BY <1>14 DEF Implemented

-----------------------------------------------------------------------------
(* Every step is one of LockStep, or one that it does not see. *)
LEMMA NetImplements ==
  ASSUME NetInv, [Next]_vars PROVE Implemented
<1>1. CASE User
  BY <1>1, UsersUnseen, DisconnectsDue, EndsDue DEF User, Quit, Quiet, Implemented
<1>2. CASE Serve
  <2>1. ASSUME NEW d \in Deltas, RecvPong(d) PROVE Implemented
    BY <2>1, PongDue, ServerClient DEF Implemented
  <2> QED
    BY <1>2, <2>1, ServeUnseen DEF Serve, Implemented
<1>3. CASE Connect
  BY <1>3, ConnectUnseen, DeltaDue DEF Connect, Implemented
<1>4. CASE \E p \in Peers : Hook(p)
  BY <1>4, HookSendDue, ReadUnseen, DisconnectsDue, ReadFrameDue DEF Hook, Implemented
<1>5. CASE UNCHANGED vars
  <2>1. peer' = peer /\ said' = said
    BY <1>5 DEF vars
  <2> QED
    BY <2>1, Same DEF Implemented
<1> QED
  BY <1>1, <1>2, <1>3, <1>4, <1>5 DEF Next

(***************************************************************************)
(* Network play implements LockStep, over any number of sessions: in each  *)
(* frame the peers execute the same lists, those of delay - 1 frames ago.  *)
(***************************************************************************)
THEOREM PlaysInLockStep == Spec => ImplementsLockStep
<1>1. Init => Due!Init
  <2> SUFFICES ASSUME Init PROVE Due!Init
    OBVIOUS
  <2>1. \A p \in Peers : peer[p] = Process
    BY DEF Init
  <2>2. Process.joined = FALSE /\ Process.delta = 0
    BY DEF Process
  <2>3. Members = {} /\ Machines = [p \in Peers |-> <<>>] /\ D = 0
    BY <2>1, <2>2, ServerClient DEF Members, Machines, D
  <2>4. said = [p \in Peers |-> <<>>]
    BY DEF Init
  <2> QED
    BY <2>3, <2>4 DEF Due!Init, Members, Machines, D
<1>2. NetInv /\ [Next]_vars => [Due!Next]_(Due!vars)
  BY NetImplements, ImplementedNext
<1> QED
  BY <1>1, <1>2, NetInvariant, PTL DEF Spec, ImplementsLockStep, Due!LockStepSpec

(***************************************************************************)
(* In every frame that both peers of a session have executed, they have    *)
(* executed the same.                                                      *)
(***************************************************************************)
FramesAgree ==
  \A p, q \in Peers : peer[p].joined /\ peer[q].joined =>
    \A n \in DOMAIN peer[p].machine \cap DOMAIN peer[q].machine :
      peer[p].machine[n] = peer[q].machine[n]

(* A machine is a function of what was said. *)
LEMMA NetAgrees == NetInv => FramesAgree
<1> SUFFICES ASSUME NetInv, NEW p \in Peers, NEW q \in Peers, peer[p].joined, peer[q].joined,
                    NEW i \in DOMAIN peer[p].machine \cap DOMAIN peer[q].machine
             PROVE  peer[p].machine[i] = peer[q].machine[i]
  BY DEF FramesAgree
<1> DEFINE due(j) == IF j < D THEN <<>>
                     ELSE <<said["server"][j - D + 1], said["client"][j - D + 1]>>
<1>1. ASSUME NEW o \in Peers, peer[o].joined
      PROVE  peer[o].machine = [j \in 1 .. Len(peer[o].machine) |-> due(j)]
  <2>1. peer[o].machine = Executed(said, D, Len(peer[o].machine))
    BY <1>1 DEF NetInv, JoinedInv, Member, Recorded
  <2> QED
    BY <2>1 DEF Executed
<1> HIDE DEF due
<1>2. ASSUME NEW o \in Peers, peer[o].joined, i \in DOMAIN peer[o].machine
      PROVE  peer[o].machine[i] = due(i)
  <2> DEFINE m == peer[o].machine
             k == Len(m)
  <2>1. m = [j \in 1 .. k |-> due(j)]
    BY <1>1, <1>2
  <2>2. i \in DOMAIN m
    BY <1>2
  <2> HIDE DEF m, k
  <2>3. m[i] = due(i)
    BY <2>1, <2>2
  <2> QED
    BY <2>3 DEF m
<1> QED
  BY <1>2

(***************************************************************************)
(* The machines of a session do not diverge, whatever the inputs and the   *)
(* delay, in any number of sessions.                                       *)
(***************************************************************************)
THEOREM PeersAgree == Spec => []FramesAgree
BY NetInvariant, NetAgrees, PTL
=============================================================================
