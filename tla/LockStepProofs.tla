--------------------------- MODULE LockStepProofs ---------------------------
(***************************************************************************)
(* Theorems about LockStep: for any peers, events and delays, the machines *)
(* of a session never differ in a frame that both have executed.           *)
(***************************************************************************)
EXTENDS LockStep, TLAPS

(***************************************************************************)
(* A machine is a function of what was said: frame n holds the lists of    *)
(* frame n - delay + 1, which are never taken back in the session.         *)
(***************************************************************************)
Heard(n) == \A q \in Peer : Len(said[q]) > n - delay

Follows(p) ==
  \A n \in 1 .. Len(machine[p]) :
    /\ n >= delay => Heard(n)
    /\ machine[p][n] = IF n < delay THEN <<>> ELSE Due(n)

LockStepInv ==
  /\ TypeOK
  /\ members # {} => delay # 0
  /\ \A p \in Peer : Follows(p)

(* What was due stays due when more is said. *)
LEMMA DueStays ==
  ASSUME Parameters, TypeOK, delay # 0,
         NEW p \in Peer, NEW list \in Events,
         said' = [said EXCEPT ![p] = Append(@, list)], UNCHANGED delay,
         NEW n \in Nat, n >= delay, Heard(n)
  PROVE  Heard(n)' /\ Due(n)' = Due(n)
<1>1. /\ delay \in Nat \ {0} /\ Order \in Seq(Peer)
      /\ \A q \in Peer : said[q] \in Seq(Events)
  BY DEF Parameters, TypeOK
<1>2. \A q \in Peer : Len(said'[q]) >= Len(said[q])
  BY <1>1 DEF TypeOK
<1>3. \A q \in Peer : said'[q][n - delay + 1] = said[q][n - delay + 1]
  <2> TAKE q \in Peer
  <2>1. n - delay + 1 \in 1 .. Len(said[q])
    BY <1>1 DEF Heard
  <2> QED
    BY <2>1, <1>1 DEF TypeOK
<1>4. \A i \in 1 .. Len(Order) : Order[i] \in Peer
  BY <1>1
<1>5. Heard(n)'
  BY <1>1, <1>2 DEF Heard
<1>6. Due(n)' = Due(n)
  BY <1>3, <1>4 DEF Due
<1> QED
  BY <1>5, <1>6

(* What is due is a list of lists of events. *)
LEMMA DueType ==
  ASSUME Parameters, TypeOK, delay # 0, NEW n \in Nat, n >= delay, Heard(n)
  PROVE  Due(n) \in Seq(Events)
<1>1. /\ delay \in Nat \ {0} /\ Order \in Seq(Peer)
      /\ \A q \in Peer : said[q] \in Seq(Events)
  BY DEF Parameters, TypeOK
<1>2. \A i \in 1 .. Len(Order) : said[Order[i]][n - delay + 1] \in Events
  <2> TAKE i \in 1 .. Len(Order)
  <2>1. Order[i] \in Peer
    BY <1>1
  <2>2. n - delay + 1 \in 1 .. Len(said[Order[i]])
    BY <1>1, <2>1 DEF Heard
  <2> QED
    BY <1>1, <2>1, <2>2
<1>3. Len(Order) \in Nat
  BY <1>1
<1>4. Due(n) \in [1 .. Len(Order) -> Events]
  BY <1>2 DEF Due
<1> QED
  BY <1>3, <1>4

LEMMA LockStepInit == Parameters /\ Init => LockStepInv
BY DEF Init, LockStepInv, TypeOK, Follows

LEMMA BeginKeeps ==
  ASSUME Parameters, LockStepInv, NEW p \in Peer, NEW d \in Delays, Begin(p, d)
  PROVE  LockStepInv'
BY DEF LockStepInv, TypeOK, Begin, Follows, Parameters

LEMMA JoinKeeps ==
  ASSUME LockStepInv, NEW p \in Peer, Join(p)
  PROVE  LockStepInv'
<1>1. TypeOK'
  BY DEF LockStepInv, TypeOK, Join
<1>2. \A q \in Peer : Follows(q)'
  BY DEF LockStepInv, Join, Follows, Heard, Due
<1> QED
  BY <1>1, <1>2 DEF LockStepInv, Join

LEMMA SayKeeps ==
  ASSUME Parameters, LockStepInv, NEW p \in Peer, NEW list \in Events, Say(p, list)
  PROVE  LockStepInv'
<1> DEFINE k == Len(said[p]) + 1
<1>1. /\ TypeOK /\ delay \in Nat \ {0} /\ delay' = delay /\ members' = members
      /\ said' = [said EXCEPT ![p] = Append(@, list)]
      /\ Len(machine[p]) = k - 1
      /\ machine' = IF k < delay THEN [machine EXCEPT ![p] = Append(@, <<>>)] ELSE machine
  BY DEF LockStepInv, TypeOK, Say, Parameters
<1>2. TypeOK'
  BY <1>1 DEF TypeOK
<1>3. ASSUME NEW q \in Peer PROVE Follows(q)'
  <2>1. Follows(q) /\ machine[q] \in Seq(Seq(Events))
    BY DEF LockStepInv, TypeOK
  <2>2. SUFFICES ASSUME NEW n \in 1 .. Len(machine'[q])
                 PROVE  /\ n >= delay => Heard(n)'
                        /\ machine'[q][n] = IF n < delay THEN <<>> ELSE Due(n)'
    BY <1>1 DEF Follows
  <2>3. CASE n \in 1 .. Len(machine[q])
    <3>1. machine'[q][n] = machine[q][n]
      BY <1>1, <2>1, <2>3 DEF TypeOK
    <3>2. n >= delay => Heard(n)' /\ Due(n)' = Due(n)
      <4> SUFFICES ASSUME n >= delay PROVE Heard(n)' /\ Due(n)' = Due(n)
        OBVIOUS
      <4>1. Heard(n) /\ n \in Nat
        BY <2>1, <2>3 DEF Follows
      <4>2. TypeOK /\ delay # 0 /\ UNCHANGED delay
            /\ said' = [said EXCEPT ![p] = Append(@, list)]
        BY <1>1
      <4> QED
        BY <4>1, <4>2, DueStays
    <3>3. /\ n >= delay => Heard(n)
          /\ machine[q][n] = IF n < delay THEN <<>> ELSE Due(n)
      BY <2>1, <2>3 DEF Follows
    <3>4. n \in Nat /\ delay \in Nat
      BY <1>1, <2>1, <2>3
    <3> HIDE DEF k
    <3> QED
      BY <3>1, <3>2, <3>3, <3>4
  <2>4. CASE n \notin 1 .. Len(machine[q])
    <3>1. q = p /\ k < delay /\ machine'[p] = Append(machine[p], <<>>)
      BY <1>1, <2>4 DEF TypeOK
    <3>2. n = k
      BY <1>1, <2>1, <2>4, <3>1 DEF TypeOK
    <3> QED
      BY <1>1, <2>1, <3>1, <3>2 DEF TypeOK
  <2> QED
    BY <2>3, <2>4
<1> QED
  BY <1>1, <1>2, <1>3 DEF LockStepInv

LEMMA ExecuteKeeps ==
  ASSUME Parameters, LockStepInv, NEW p \in Peer, Execute(p)
  PROVE  LockStepInv'
<1> DEFINE k == Len(machine[p]) + 1
<1>1. /\ TypeOK /\ delay \in Nat \ {0} /\ UNCHANGED <<members, said, delay>>
      /\ k \in Nat /\ k >= delay /\ Heard(k)
      /\ machine' = [machine EXCEPT ![p] = Append(@, Due(k))]
  BY DEF LockStepInv, TypeOK, Execute, Parameters, Heard
<1>2. TypeOK'
  BY <1>1, DueType DEF TypeOK
<1>3. \A n : Heard(n)' = Heard(n) /\ Due(n)' = Due(n)
  BY <1>1 DEF Heard, Due
<1>4. ASSUME NEW q \in Peer PROVE Follows(q)'
  <2>1. Follows(q) /\ machine[q] \in Seq(Seq(Events))
    BY DEF LockStepInv, TypeOK
  <2>2. SUFFICES ASSUME NEW n \in 1 .. Len(machine'[q])
                 PROVE  /\ n >= delay => Heard(n)
                        /\ machine'[q][n] = IF n < delay THEN <<>> ELSE Due(n)
    BY <1>1, <1>3 DEF Follows
  <2>3. CASE n \in 1 .. Len(machine[q])
    <3>1. machine'[q][n] = machine[q][n]
      BY <1>1, <2>1, <2>3 DEF TypeOK
    <3> QED
      BY <2>1, <2>3, <3>1 DEF Follows
  <2>4. CASE n \notin 1 .. Len(machine[q])
    <3>1. q = p /\ machine'[p] = Append(machine[p], Due(k))
      BY <1>1, <2>4 DEF TypeOK
    <3>2. n = k
      BY <1>1, <2>1, <2>4, <3>1
    <3> QED
      BY <1>1, <2>1, <3>1, <3>2
  <2> QED
    BY <2>3, <2>4
<1> QED
  BY <1>1, <1>2, <1>4 DEF LockStepInv

LEMMA LeaveKeeps ==
  ASSUME LockStepInv, NEW p \in Peer, Leave(p)
  PROVE  LockStepInv'
<1>1. TypeOK'
  BY DEF LockStepInv, TypeOK, Leave
<1>2. ASSUME NEW q \in Peer PROVE Follows(q)'
  <2>1. machine'[q] = machine[q] \/ machine'[q] = <<>>
    BY DEF LockStepInv, TypeOK, Leave
  <2> QED
    BY <2>1 DEF LockStepInv, Leave, Follows, Heard, Due
<1> QED
  BY <1>1, <1>2 DEF LockStepInv, Leave

LEMMA LockStepNext == Parameters /\ LockStepInv /\ [Next]_vars => LockStepInv'
<1> SUFFICES ASSUME Parameters, LockStepInv, [Next]_vars PROVE LockStepInv'
  OBVIOUS
<1>1. CASE Next
  BY <1>1, BeginKeeps, JoinKeeps, SayKeeps, ExecuteKeeps, LeaveKeeps DEF Next
<1>2. CASE UNCHANGED vars
  BY <1>2 DEF vars, LockStepInv, TypeOK, Follows, Heard, Due
<1> QED
  BY <1>1, <1>2

LEMMA InvAgrees == LockStepInv => SameFrames
<1> SUFFICES ASSUME LockStepInv, NEW p \in Peer, NEW q \in Peer,
                    NEW n \in DOMAIN machine[p] \cap DOMAIN machine[q]
             PROVE  machine[p][n] = machine[q][n]
  BY DEF SameFrames
<1>1. n \in 1 .. Len(machine[p]) /\ n \in 1 .. Len(machine[q])
  BY DEF LockStepInv, TypeOK
<1> QED
  BY <1>1 DEF LockStepInv, Follows

(***************************************************************************)
(* For any peers and delays: LockStep's variables keep their types, and    *)
(* the machines of its members agree in every frame both have executed.    *)
(***************************************************************************)
THEOREM MachinesAgree ==
  ASSUME Parameters PROVE LockStepSpec => [](TypeOK /\ SameFrames)
<1>1. Init => LockStepInv
  BY LockStepInit
<1>2. LockStepInv /\ [Next]_vars => LockStepInv'
  BY LockStepNext
<1>3. LockStepInv => TypeOK /\ SameFrames
  BY InvAgrees DEF LockStepInv
<1> QED
  BY <1>1, <1>2, <1>3, PTL DEF LockStepSpec
=============================================================================
