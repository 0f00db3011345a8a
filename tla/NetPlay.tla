------------------------------ MODULE NetPlay ------------------------------
(***************************************************************************)
(* Network play: src/src/network.c, on the sockets of src/src/socket.c.    *)
(*                                                                         *)
(* Two processes, a server and a client.  Each is one thread; its pc is    *)
(* where it is in network_hook, in a trap, or in network_connect_client.   *)
(* The network is TCP: an ordered stream per direction, which ends or is   *)
(* reset.  A length and the data behind it are one message.                *)
(*                                                                         *)
(* A machine is the sequence of what it has executed since the snapshot,   *)
(* one element per frame, which is all its state depends on: two machines  *)
(* with the same sequence have the same registers.                         *)
(***************************************************************************)
EXTENDS Integers, Sequences

CONSTANTS
  Input,        \* the events of the users
  Control,      \* network_control: the inputs each peer may give
  Deltas,       \* the values of frame_delta (5 and more)
  MaxFrames,    \* bound: frames of a session
  MaxInputs,    \* bound: inputs in a session
  MaxMarks,     \* bound: suspensions in a session
  MaxSessions,  \* bound: sessions
  BreakIn       \* bound: the session in which the line may break, once

ASSUME DeltaAssumption == Deltas \subseteq Nat \ {0, 1}
ASSUME BoundsAssumption == MaxInputs \in Nat

Peers == {"server", "client"}
Other(p) == IF p = "server" THEN "client" ELSE "server"

ASSUME ControlAssumption == Control \in [Peers -> SUBSET Input]

VARIABLES
  peer,      \* the state of each process
  wire,      \* the messages on their way to each
  far,       \* what each sees of the other end of its connection
  linked,    \* the sockets of the two are the ends of one connection
  pending,   \* the client waits in the backlog of the listening socket
  said,      \* history: the lists each has sent in the session
  sessions,  \* bound: sessions so far
  broken     \* bound: the line has broken

network == <<wire, far, linked, pending>>
vars    == <<peer, network, said, sessions, broken>>

NoList == [sync |-> <<>>, inputs |-> <<>>]

Process ==
  [mode |-> "idle", pc |-> "run",
   sock |-> "none",        \* network_socket: none (NULL), open or closed
   listen |-> "none",      \* listen_socket
   delta |-> 0,            \* frame_delta; 0: frame_event_list is NULL
   ring |-> <<>>,          \* frame_event_list
   current |-> 0, toPlay |-> 0, full |-> FALSE, suspended |-> FALSE,
   machine |-> <<>>,
   given |-> 0, marks |-> 0,   \* bound: inputs and suspensions so far
   joined |-> FALSE]       \* history: it has the lists of this session

Init ==
  /\ peer = [p \in Peers |-> Process]
  /\ wire = [p \in Peers |-> <<>>] /\ far = [p \in Peers |-> "closed"]
  /\ linked = FALSE /\ pending = FALSE
  /\ said = [p \in Peers |-> <<>>] /\ sessions = 0 /\ broken = FALSE

Connected(p) == peer[p].mode \in {"server_connected", "client"}

-----------------------------------------------------------------------------
(* The sockets. *)

(***************************************************************************)
(* What happens to the network when p closes its socket (hangs) or the     *)
(* listening one (shuts).  TCP resets a connection that is closed with     *)
(* data unread; a connection in the backlog goes with the listening socket.*)
(***************************************************************************)
Closing(p, hangs, shuts) ==
  /\ wire' = IF hangs THEN [wire EXCEPT ![p] = <<>>] ELSE wire
  /\ far' = [far EXCEPT ![Other(p)] =
       IF (shuts /\ pending) \/ (hangs /\ linked /\ wire[p] # <<>>) THEN "reset"
       ELSE IF hangs /\ linked /\ @ = "open" THEN "closed" ELSE @]
  /\ linked' = (linked /\ ~ hangs)
  /\ pending' = (pending /\ ~ shuts /\ ~ (hangs /\ p = "client"))

Shut(s) == IF s = "open" THEN "closed" ELSE s

Gone(r, how) ==
  [Process EXCEPT !.pc = how, !.delta = r.delta,
                  !.ring = [i \in DOMAIN r.ring |-> NoList]]

(* The process ends, and the system closes its sockets. *)
Ends(p, how) ==
  /\ Closing(p, peer[p].sock = "open", peer[p].listen = "open")
  /\ peer' = [peer EXCEPT ![p] = Gone(@, how)]

(***************************************************************************)
(* network_disconnect: the listening socket is kept only by a server that  *)
(* was connected.  vice_network_socket_close asserts that a socket that it *)
(* is given is open.                                                       *)
(***************************************************************************)
Stale(r) == r.sock = "closed" \/ (r.mode # "server_connected" /\ r.listen = "closed")

Disconnected(r) ==
  IF Stale(r) THEN Gone(r, "aborted")
  ELSE IF r.mode = "server_connected"
  THEN [r EXCEPT !.sock = Shut(@), !.joined = FALSE, !.mode = "server"]
  ELSE [r EXCEPT !.sock = Shut(@), !.joined = FALSE, !.mode = "idle",
                 !.listen = Shut(@)]

HangsUp(p) ==
  LET r == peer[p] IN
  Closing(p, r.sock = "open",
          r.listen = "open" /\ (Stale(r) \/ r.mode # "server_connected"))

(* A send reports an error only when the connection is known to be reset.  *)
(* Sending to an end that is closed makes it reset the connection.         *)
CanSend(p) == peer[p].sock = "open" /\ far[p] # "reset"

Sending(p, ms, w) ==
  /\ wire' = IF far[p] = "open" /\ linked
             THEN [w EXCEPT ![Other(p)] = @ \o ms] ELSE w
  /\ far' = [far EXCEPT ![p] = IF @ = "closed" THEN "reset" ELSE @]
  /\ UNCHANGED <<linked, pending>>

Send(p, ms) == Sending(p, ms, wire)

(* A receive: of a message, or of an error, which ends the stream.  At the *)
(* end of a stream that was closed and not reset, network_recv_buffer      *)
(* receives 0 bytes again and again: there is no step.                     *)
Arrived(p, kind) ==
  peer[p].sock = "open" /\ wire[p] # <<>> /\ Head(wire[p]).kind = kind

Rest(p) == [wire EXCEPT ![p] = Tail(@)]

Take(p) == wire' = Rest(p) /\ UNCHANGED <<far, linked, pending>>

RecvError(p) == peer[p].sock # "open" \/ far[p] = "reset"

Drop(p) ==
  /\ wire' = [wire EXCEPT ![p] = <<>>]
  /\ UNCHANGED <<far, linked, pending>>

At(p, pc)   == peer[p].pc = pc
Goto(p, pc) == peer' = [peer EXCEPT ![p].pc = pc]
Quiet       == UNCHANGED <<said, sessions, broken>>

-----------------------------------------------------------------------------
(* The users. *)

(* network_start_server *)
StartServer ==
  /\ At("server", "run") /\ peer["server"].mode = "idle"
  /\ peer' = [peer EXCEPT !["server"].listen = "open", !["server"].mode = "server"]
  /\ UNCHANGED network /\ Quiet

(* network_connect_client, to where it waits for the snapshot. *)
ConnectClient ==
  /\ At("client", "run") /\ peer["client"].mode = "idle"
  /\ sessions < MaxSessions
  /\ IF peer["server"].listen = "open"
     THEN /\ peer' = [peer EXCEPT !["client"].sock = "open",
                                  !["client"].pc = "get_snapshot"]
          /\ far' = [far EXCEPT !["client"] = "open"]
          /\ wire' = [wire EXCEPT !["client"] = <<>>]
          /\ linked' = FALSE /\ pending' = TRUE
     ELSE peer' = [peer EXCEPT !["client"].sock = "none"] /\ UNCHANGED network
  /\ Quiet

UserDisconnects(p) ==
  /\ At(p, "run")
  /\ HangsUp(p) /\ peer' = [peer EXCEPT ![p] = Disconnected(@)]
  /\ Quiet

(* The process is quit or killed. *)
Quit(p) ==
  /\ peer[p].pc \notin {"down", "aborted", "crashed"}
  /\ Ends(p, "down") /\ Quiet

(* network_event_record of an event of the user *)
Record(p, e) ==
  /\ At(p, "run") /\ Connected(p) /\ peer[p].delta # 0
  /\ e \in Control[p]
  /\ peer["server"].given + peer["client"].given < MaxInputs
  /\ peer' = [peer EXCEPT ![p].ring[peer[p].current].inputs = Append(@, e),
                          ![p].given = @ + 1]
  /\ UNCHANGED network /\ Quiet

(* network_suspend, from a window or a message of the emulator *)
Suspend(p) ==
  /\ At(p, "run") /\ Connected(p) /\ ~ peer[p].suspended
  /\ peer["server"].marks + peer["client"].marks < MaxMarks
  /\ IF CanSend(p) THEN Send(p, <<[kind |-> "mark"]>>) ELSE UNCHANGED network
  /\ peer' = [peer EXCEPT ![p].suspended = TRUE, ![p].marks = @ + 1]
  /\ Quiet

LineBreaks ==
  /\ sessions = BreakIn /\ ~ broken /\ linked
  /\ far' = [p \in Peers |-> "reset"]
  /\ linked' = FALSE /\ broken' = TRUE
  /\ UNCHANGED <<peer, wire, pending, said, sessions>>

User ==
  \/ StartServer \/ ConnectClient \/ LineBreaks
  \/ \E p \in Peers :
       UserDisconnects(p) \/ Quit(p) \/ Suspend(p) \/ \E e \in Input : Record(p, e)

-----------------------------------------------------------------------------
(* Connecting: network_server_connect_trap and network_test_delay. *)

(* network_hook of a server that waits *)
Accept ==
  /\ At("server", "run") /\ peer["server"].mode = "server" /\ pending
  /\ peer' = [peer EXCEPT !["server"].sock = "open", !["server"].pc = "snapshot"]
  /\ far' = [far EXCEPT !["server"] = "open"]
  /\ wire' = [wire EXCEPT !["server"] = <<>>]
  /\ linked' = TRUE /\ pending' = FALSE
  /\ sessions' = sessions + 1
  /\ UNCHANGED <<said, broken>>

(* The snapshot cannot be made or sent: the trap returns. *)
SnapshotFails == At("server", "snapshot") /\ Goto("server", "run")
                 /\ UNCHANGED network /\ Quiet

(* Fault: the emulation is suspended when the mode is already set. *)
SendSnapshot_suspends ==
  /\ At("server", "snapshot") /\ CanSend("server")
  /\ Send("server", <<[kind |-> "mark"], [kind |-> "snapshot"]>>)
  /\ peer' = [peer EXCEPT !["server"].mode = "server_connected",
                          !["server"].pc = "settings"]
  /\ Quiet

SendSnapshot ==
  /\ At("server", "snapshot") /\ CanSend("server")
  /\ Send("server", <<[kind |-> "snapshot"]>>)
  /\ peer' = [peer EXCEPT !["server"].mode = "server_connected",
                          !["server"].pc = "settings"]
  /\ Quiet

(* The settings, for which an error is ignored, and the first packet; one  *)
(* packet stands for the 50 that are sent and come back.                   *)
SendSettings ==
  /\ At("server", "settings")
  /\ IF CanSend("server")
     THEN /\ Send("server", <<[kind |-> "settings"], [kind |-> "ping"]>>)
          /\ Goto("server", "pong")
     ELSE UNCHANGED network /\ Goto("server", "run")
  /\ Quiet

(* network_init_frame_event_list, and the trap that it triggers *)
WithLists(r, d) ==
  [r EXCEPT !.delta = d, !.ring = [i \in 0 .. d - 1 |-> NoList],
            !.current = 0, !.full = FALSE, !.machine = <<>>, !.given = 0, !.marks = 0,
            !.joined = TRUE, !.pc = "run"]

RecvPong(d) ==
  /\ At("server", "pong") /\ Arrived("server", "pong")
  /\ Sending("server", <<[kind |-> "delta", delta |-> d]>>, Rest("server"))
  /\ peer' = [peer EXCEPT !["server"] = WithLists(@, d)]
  /\ said' = [p \in Peers |-> <<>>]
  /\ UNCHANGED <<sessions, broken>>

(* An error in the test of the delay: the mode stays, the lists are old.  *)
PongFails ==
  /\ At("server", "pong") /\ RecvError("server")
  /\ Drop("server") /\ Goto("server", "run") /\ Quiet

Serve ==
  \/ Accept \/ SnapshotFails \/ SendSnapshot \/ SendSettings
  \/ \E d \in Deltas : RecvPong(d)
  \/ PongFails

-----------------------------------------------------------------------------
(* Connecting: network_connect_client and network_client_connect_trap. *)

GetSnapshot ==
  /\ At("client", "get_snapshot")
  /\ \/ Arrived("client", "snapshot") /\ Take("client") /\ Goto("client", "get_settings")
     \/ /\ RecvError("client") /\ Closing("client", TRUE, FALSE)
        /\ peer' = [peer EXCEPT !["client"].sock = "closed", !["client"].pc = "run"]
  /\ Quiet

(* The trap: the settings, then the snapshot, which may be unreadable. *)
GetSettings ==
  /\ At("client", "get_settings")
  /\ \/ Arrived("client", "settings") /\ Take("client")
        /\ peer' = [peer EXCEPT !["client"].mode = "client", !["client"].pc = "get_ping"]
     \/ Arrived("client", "settings") /\ Take("client") /\ Goto("client", "run")
     \/ RecvError("client") /\ Drop("client") /\ Goto("client", "run")
  /\ Quiet

GetPing ==
  /\ At("client", "get_ping")
  /\ \/ /\ Arrived("client", "ping") /\ CanSend("client")
        /\ Sending("client", <<[kind |-> "pong"]>>, Rest("client"))
        /\ Goto("client", "get_delta")
     \/ RecvError("client") /\ Drop("client") /\ Goto("client", "run")
  /\ Quiet

(* The result is not looked at: without a byte the delay is any, and the   *)
(* process does not survive a delay of none.                               *)
GetDelta ==
  /\ At("client", "get_delta")
  /\ \/ /\ Arrived("client", "delta") /\ Take("client")
        /\ peer' = [peer EXCEPT !["client"] = WithLists(@, Head(wire["client"]).delta)]
     \/ /\ RecvError("client") /\ Drop("client")
        /\ \E d \in Deltas :
             peer' = [peer EXCEPT !["client"] = [WithLists(@, d) EXCEPT !.joined = FALSE]]
     \/ RecvError("client") /\ Ends("client", "crashed")
  /\ Quiet

Connect == GetSnapshot \/ GetSettings \/ GetPing \/ GetDelta

-----------------------------------------------------------------------------
(* A frame: network_hook of a peer that is connected. *)

Frame(p) == peer[p].ring[peer[p].current]

(* Fault: the list after the next is played. *)
Prepared_late(r, played) ==
  LET c == (r.current + 1) % r.delta
      m == Append(r.machine, played)
  IN  [r EXCEPT !.current = c, !.toPlay = (c + 2) % r.delta,
                !.machine = m, !.ring[c] = [NoList EXCEPT !.sync = m], !.pc = "run"]

(* Fault: the ring does not wrap around. *)
Prepared_unwrapped(r, played) ==
  LET c == r.current + 1
      m == Append(r.machine, played)
  IN  [r EXCEPT !.current = c, !.toPlay = (c + 1) % r.delta,
                !.machine = m, !.ring[c] = [NoList EXCEPT !.sync = m], !.pc = "run"]

(***************************************************************************)
(* The frame ends: network_prepare_next_frame, and the trap that records   *)
(* the state of the machine at the head of the new list.                   *)
(***************************************************************************)
Prepared(r, played) ==
  LET c == (r.current + 1) % r.delta
      m == Append(r.machine, played)
  IN  [r EXCEPT !.current = c, !.toPlay = (c + 1) % r.delta,
                !.machine = m, !.ring[c] = [NoList EXCEPT !.sync = m], !.pc = "run"]

(* network_hook_connected_receive, to its loop *)
Receiving(r) ==
  LET full == r.full \/ r.current = r.delta - 1
      s == [r EXCEPT !.suspended = FALSE, !.full = full]
  IN  IF full THEN [s EXCEPT !.pc = "read"] ELSE Prepared(s, <<>>)

(***************************************************************************)
(* network_hook_connected_send; network_hook goes on to receive whether or *)
(* not it disconnected.                                                    *)
(***************************************************************************)
HookSend(p) ==
  /\ At(p, "run") /\ Connected(p) /\ (CanSend(p) => Len(said[p]) < MaxFrames)
  /\ UNCHANGED <<sessions, broken>>
  /\ IF peer[p].delta = 0 THEN Ends(p, "crashed") /\ UNCHANGED said
     ELSE IF CanSend(p)
     THEN /\ Send(p, <<[kind |-> "frame", list |-> Frame(p)]>>)
          /\ said' = [said EXCEPT ![p] = Append(@, Frame(p).inputs)]
          /\ peer' = [peer EXCEPT ![p] = Receiving(@)]
     ELSE /\ HangsUp(p) /\ UNCHANGED said
          /\ peer' = [peer EXCEPT ![p] = IF Stale(@) THEN Disconnected(@)
                                         ELSE Receiving(Disconnected(@))]

ReadMark(p) ==
  /\ At(p, "read") /\ Arrived(p, "mark") /\ Take(p)
  /\ peer' = [peer EXCEPT ![p].suspended = TRUE]
  /\ Quiet

(* Fault: an error is taken for the end of the stream. *)
ReadFails_not(p) ==
  /\ At(p, "read") /\ RecvError(p)
  /\ UNCHANGED <<peer, network>> /\ Quiet

(* The length cannot be read: disconnect, and the frame is not ended ... *)
ReadFails(p) ==
  /\ At(p, "read") /\ RecvError(p)
  /\ HangsUp(p)
  /\ LET r == Disconnected(peer[p]) IN
     peer' = [peer EXCEPT ![p] = IF r.pc = "aborted" THEN r ELSE [r EXCEPT !.pc = "run"]]
  /\ Quiet

(* ... the data behind it cannot be read: the frame is not ended either. *)
BodyFails(p) ==
  /\ At(p, "read") /\ Arrived(p, "frame") /\ far[p] = "reset"
  /\ Drop(p) /\ Goto(p, "run") /\ Quiet

(* The lists of a frame: first the server's, then the client's. *)
Remote(p) == Head(wire[p]).list
Local(p)  == peer[p].ring[peer[p].toPlay]

(* Fault: each peer plays its own list first. *)
Lists_own_first(p) == <<Local(p).inputs, Remote(p).inputs>>

Lists(p) ==
  IF peer[p].mode = "server_connected" THEN <<Local(p).inputs, Remote(p).inputs>>
                                       ELSE <<Remote(p).inputs, Local(p).inputs>>

(* The sync test, and the lists are played in any case. *)
ReadFrame(p) ==
  /\ At(p, "read") /\ Arrived(p, "frame")
  /\ IF Remote(p).sync = Local(p).sync
     THEN Take(p) /\ peer' = [peer EXCEPT ![p] = Prepared(@, Lists(p))]
     ELSE HangsUp(p) /\ peer' = [peer EXCEPT ![p] = Prepared(Disconnected(@), Lists(p))]
  /\ Quiet

Hook(p) ==
  HookSend(p) \/ ReadMark(p) \/ ReadFails(p) \/ BodyFails(p) \/ ReadFrame(p)

Step(p) == Hook(p) \/ (p = "server" /\ Serve) \/ (p = "client" /\ Connect)

Next == User \/ Serve \/ Connect \/ \E p \in Peers : Hook(p)

(* Each process goes on with what it is in, as its system runs it. *)
Spec == Init /\ [][Next]_vars /\ \A p \in Peers : WF_vars(Step(p))

-----------------------------------------------------------------------------

Message ==
  [kind : {"mark", "snapshot", "settings", "ping", "pong"}]
    \cup [kind : {"delta"}, delta : Deltas]
    \cup [kind : {"frame"}, list : [sync : Seq(Seq(Seq(Input))), inputs : Seq(Input)]]

TypeOK ==
  /\ \A p \in Peers :
       /\ peer[p].mode \in {"idle", "server", "server_connected", "client"}
       /\ peer[p].pc \in {"run", "snapshot", "settings", "pong", "get_snapshot",
                          "get_settings", "get_ping",
                          "get_delta", "read", "down", "aborted", "crashed"}
       /\ peer[p].sock \in {"none", "open", "closed"}
       /\ peer[p].listen \in {"none", "open", "closed"}
       /\ peer[p].delta \in Deltas \cup {0}
       /\ DOMAIN peer[p].ring = 0 .. peer[p].delta - 1
       /\ peer[p].delta # 0 => peer[p].current \in DOMAIN peer[p].ring
       /\ peer[p].full => peer[p].toPlay \in DOMAIN peer[p].ring
       /\ wire[p] \in Seq(Message)
       /\ far[p] \in {"open", "closed", "reset"}
  /\ linked \in BOOLEAN /\ pending \in BOOLEAN
  /\ said \in [Peers -> Seq(Seq(Input))]

Due == INSTANCE LockStep WITH
  Peer <- Peers, Order <- <<"server", "client">>, Delays <- Deltas,
  Events  <- UNION {[1 .. n -> Input] : n \in 0 .. MaxInputs},
  members <- {p \in Peers : peer[p].joined},
  machine <- [p \in Peers |-> IF peer[p].joined THEN peer[p].machine ELSE <<>>],
  delay   <- peer["server"].delta

(***************************************************************************)
(* Both machines execute the same lists in the same frames: network.c      *)
(* implements LockStep, over any number of sessions.                       *)
(***************************************************************************)
ImplementsLockStep == Due!LockStepSpec

(***************************************************************************)
(* "shouldn't happen": the sync test of two peers of a session never fails *)
(* (network.c:878).  The two lists it compares are of the same frame.      *)
(***************************************************************************)
SyncTestPasses ==
  \A p \in Peers : At(p, "read") /\ Arrived(p, "frame") => Remote(p).sync = Local(p).sync

(***************************************************************************)
(* A stream without types: whoever reads finds what it is waiting for, as  *)
(* the suspensions that are sent in between never get into the handshake.  *)
(***************************************************************************)
Awaited ==
  [get_snapshot |-> {"snapshot"}, get_settings |-> {"settings"}, get_ping |-> {"ping"},
   get_delta |-> {"delta"}, pong |-> {"pong"}, read |-> {"mark", "frame"}]

StreamParses ==
  \A p \in Peers :
    peer[p].pc \in DOMAIN Awaited /\ wire[p] # <<>> /\ peer[p].sock = "open"
      => Head(wire[p]).kind \in Awaited[peer[p].pc]

(***************************************************************************)
(* A peer of a session never waits for ever: the two do not wait for each  *)
(* other, and the end of the other process is noticed, although            *)
(* network_recv_buffer takes the regular end of a stream for a reason to   *)
(* go on.  The ring makes the difference: as lists of the one are on their *)
(* way when it waits, the end of the other is a reset.                     *)
(***************************************************************************)
FramesGoOn ==
  \A p \in Peers : peer[p].joined /\ At(p, "read") ~> ~ At(p, "read")

(***************************************************************************)
(* "assert(sockfd->used == 1)" (socket.c:924): when the other peer leaves, *)
(* the hook closes its sockets once.                                       *)
(***************************************************************************)
HookClosesOnce ==
  [][\A p \in Peers : Hook(p) => peer'[p].pc # "aborted"]_vars
=============================================================================
