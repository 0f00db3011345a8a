------------------------------ MODULE LockStep ------------------------------
(***************************************************************************)
(* What network play promises (src/src/network.c): machines that start     *)
(* from one snapshot execute the same events in the same frame.            *)
(*                                                                         *)
(* In each of its frames a member says a list of events.  The lists that   *)
(* were said in a frame are executed delay - 1 frames later, in the order  *)
(* of the peers and by every member; the frames before that execute        *)
(* nothing.                                                                *)
(***************************************************************************)
EXTENDS Naturals, Sequences

CONSTANTS
  Peer,     \* the peers
  Order,    \* the sequence of them in which their lists are executed
  Events,   \* the lists of events that are said
  Delays    \* the delays a session can have

Parameters == Order \in Seq(Peer) /\ Delays \subseteq Nat \ {0}

VARIABLES
  members,  \* the peers that are in the session
  said,     \* the lists each has said since it began
  machine,  \* what each member has executed, frame by frame
  delay

vars == <<members, said, machine, delay>>

Init ==
  /\ members = {} /\ delay = 0
  /\ said = [p \in Peer |-> <<>>] /\ machine = [p \in Peer |-> <<>>]

(* What is executed in frame n, the first one being the one of the delay. *)
Due(n) == [i \in 1 .. Len(Order) |-> said[Order[i]][n - delay + 1]]

Begin(p, d) ==
  /\ members = {}
  /\ members' = {p} /\ delay' = d
  /\ said' = [q \in Peer |-> <<>>] /\ machine' = [q \in Peer |-> <<>>]

(* A peer that joins was not in this session before. *)
Join(p) ==
  /\ p \notin members /\ delay # 0 /\ said[p] = <<>> /\ machine[p] = <<>>
  /\ members' = members \cup {p}
  /\ UNCHANGED <<said, machine, delay>>

(* A frame ends with its list; in the first ones there is nothing else.   *)
Say(p, list) ==
  LET n == Len(said[p]) + 1 IN
  /\ p \in members /\ Len(machine[p]) = n - 1
  /\ said' = [said EXCEPT ![p] = Append(@, list)]
  /\ machine' = IF n < delay THEN [machine EXCEPT ![p] = Append(@, <<>>)] ELSE machine
  /\ UNCHANGED <<members, delay>>

Execute(p) ==
  LET n == Len(machine[p]) + 1 IN
  /\ p \in members /\ Len(said[p]) = n
  /\ n >= delay /\ \A q \in Peer : Len(said[q]) > n - delay
  /\ machine' = [machine EXCEPT ![p] = Append(@, Due(n))]
  /\ UNCHANGED <<members, said, delay>>

(* A machine that is no longer in the session is on its own. *)
Leave(p) ==
  /\ p \in members
  /\ members' = members \ {p}
  /\ machine' = [machine EXCEPT ![p] = <<>>]
  /\ UNCHANGED <<said, delay>>

Next ==
  \E p \in Peer :
    \/ \E d \in Delays : Begin(p, d)
    \/ Join(p) \/ Execute(p) \/ Leave(p)
    \/ \E list \in Events : Say(p, list)

LockStepSpec == Init /\ [][Next]_vars

-----------------------------------------------------------------------------

TypeOK ==
  /\ members \subseteq Peer /\ delay \in Delays \cup {0}
  /\ said \in [Peer -> Seq(Events)]
  /\ machine \in [Peer -> Seq(Seq(Events))]

(***************************************************************************)
(* In every frame that two members have both executed, they have executed  *)
(* the same: a machine is never more than behind the other.                *)
(***************************************************************************)
SameFrames ==
  \A p, q \in Peer : \A n \in DOMAIN machine[p] \cap DOMAIN machine[q] :
    machine[p][n] = machine[q][n]
=============================================================================
