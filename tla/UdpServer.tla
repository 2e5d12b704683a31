----------------------------- MODULE UdpServer -----------------------------
(***************************************************************************)
(* The UDP message handler: how the server's mirror of one wifi box (its   *)
(* rooms' setpoints and weekly programs) follows the device, through       *)
(* UdpServer.handleMsg and, in proxy mode, ProxyUdpServer.handleMsg and    *)
(* handleCloudMsg.                                                         *)
(*                                                                         *)
(* The device, the cloud and the network are external.  What the device    *)
(* does is what the handler expects of it: it reports its rooms every 40   *)
(* seconds, uploads a day's program when it changes, reports sync loss     *)
(* until the server has echoed the program it uploaded, applies SET and    *)
(* PROGRAM requests and answers them, and answers GET_PROG with every day  *)
(* of the room.  A value is named after the field and how often the device *)
(* has changed it, so a later value has a larger number.                   *)
(*                                                                         *)
(* Any datagram may be lost, or overtaken by the next.  Waiting for an     *)
(* answer and the fake boost are the subject of ControlPlane and FakeBoost.*)
(* Time passes in no unit: the second the loop sleeps after an exception,  *)
(* and before each GET_PROG, is a step boundary.                           *)
(***************************************************************************)
EXTENDS Integers, Sequences, FiniteSets, SequencesExt

CONSTANTS
  Rooms,       \* thermostats of the box
  Days,        \* days of the week, 7 in the code
  Addrs,       \* addresses the box may have
  Home,        \* the one it starts with
  Cloud,       \* cloud_addr
  Knocks,      \* knocks that make the next datagram the cloud's, 3 in the code
  CloudKinds,  \* messages the cloud sends: a subset of {"ack", "PING", "PROGRAM"}
  Proxy,       \* is the server a ProxyUdpServer
  MaxInFlight, \* bound: datagrams under way when the device reports
  MaxEvents,   \* bound: changes, requests, losses, overtakings, failures, restarts, moves
  Nil          \* Python's None, and the absence of a dict entry

ASSUME UdpServerAssumption ==
  /\ IsFiniteSet(Days)
  /\ Home \in Addrs /\ Cloud \notin Addrs
  /\ Knocks \in Nat \ {0}
  /\ CloudKinds \subseteq {"ack", "PING", "PROGRAM"}
  /\ Proxy \in BOOLEAN
  /\ MaxInFlight \in Nat \ {0} /\ MaxEvents \in Nat
  /\ Nil \notin Nat /\ Nil \notin Addrs

Fields == {"maxsetp", "minsetp"}
Slots  == Rooms \X Days

VARIABLES
  home,     \* device: its address
  set,      \* device: room -> field -> its value
  prog,     \* device: <<room, day>> -> the program
  unacked,  \* device: edited days the server has not echoed
  peers,    \* Status["peers"] that hold the device, in insertion order
  addr,     \* deviceStatus["addr"]
  rooms,    \* the mirror: room -> field -> value or Nil
  days,     \* the mirror: <<room, day>> -> roomStatus["days"][day], or Nil
  rooms_to_get_prog, \* rooms the STATUS handler has still to fetch
  reply_to, \* the addr of that STATUS
  knocks,   \* ProxyUdpServer.knocks
  uplink,   \* datagrams on their way to the server
  downlink, \* datagrams on their way to the device
  cloud,    \* cloud: the uploads replicated to it
  events,   \* changes, requests, losses, overtakings ... so far
  unheard,  \* history: programs whose only announcement, the answer to a
            \* PROGRAM request, the server did not store
  by_cloud, \* history: days the mirror holds as the cloud last sent them
  overtaken \* history: what was told by a datagram that a later one, which tells
            \* something newer of the same, overtook on the way: <<subject, number>>

device == <<home, set, prog, unacked>>
mirror == <<peers, addr, rooms, days>>
thread == <<rooms_to_get_prog, reply_to, knocks>>
net    == <<uplink, downlink>>
other  == <<cloud, unheard, by_cloud, overtaken>>
vars   == <<device, mirror, thread, net, events, other>>

Init ==
  /\ home = Home
  /\ set = [r \in Rooms |-> [f \in Fields |-> <<f, 0>>]]
  /\ prog = [s \in Slots |-> 0]
  /\ unacked = {}
  /\ peers = <<>> /\ addr = Nil
  /\ rooms = [r \in Rooms |-> [f \in Fields |-> Nil]]
  /\ days = [s \in Slots |-> Nil]
  /\ rooms_to_get_prog = {} /\ reply_to = Nil /\ knocks = 0
  /\ uplink = <<>> /\ downlink = <<>> /\ cloud = {}
  /\ events = 0 /\ unheard = {} /\ by_cloud = {} /\ overtaken = {}

\* Everything but the regular reports happens MaxEvents times in all.
Event == events < MaxEvents /\ events' = events + 1

\* A datagram sent to a is lost unless the device has that address.
SendTo(a, ms) == downlink' = IF a = home THEN downlink \o ms ELSE downlink

-----------------------------------------------------------------------------
(* The device.                                                             *)

Up(ms) == uplink' = uplink \o ms

\* The periodic STATUS.
SendStatus ==
  /\ Len(uplink) + Len(downlink) < MaxInFlight
  /\ Up(<<[src |-> home, kind |-> "STATUS", set |-> set, synclost |-> unacked # {}]>>)
  /\ UNCHANGED <<device, mirror, thread, downlink, events, other>>

\* PING, or an answer the handler only signals.
SendOther ==
  /\ Event
  /\ Len(uplink) < MaxInFlight
  /\ Up(<<[src |-> home, kind |-> "PING"]>>)
  /\ UNCHANGED <<device, mirror, thread, downlink, other>>

SetMsg(r, f, response) ==
  [src |-> home, kind |-> "SET", room |-> r, field |-> f, val |-> set'[r][f],
   response |-> response]

ProgramMsg(s, p, response) ==
  [src |-> home, kind |-> "PROGRAM", slot |-> s, val |-> p, response |-> response]

ApplySet(r, f) == set' = [set EXCEPT ![r][f] = <<f, @[2] + 1>>]
ApplyProgram(s) == prog' = [prog EXCEPT ![s] = @ + 1]

\* The user turns a setpoint at the thermostat; the device may report the SET.
TurnSetpoint(r, f) ==
  /\ Event
  /\ ApplySet(r, f)
  /\ \/ Up(<<SetMsg(r, f, FALSE)>>)
     \/ UNCHANGED uplink
  /\ UNCHANGED <<home, prog, unacked, mirror, thread, downlink, other>>

\* The user edits a day at the thermostat.
EditProgram(s) ==
  /\ Event
  /\ ApplyProgram(s)
  /\ unacked' = unacked \cup {s}
  /\ Up(<<ProgramMsg(s, prog'[s], FALSE)>>)
  /\ UNCHANGED <<home, set, mirror, thread, downlink, other>>

\* The device gets a new address; what was sent to the old one is lost.
Move ==
  /\ Event
  /\ home' \in Addrs \ {home}
  /\ downlink' = <<>>
  /\ UNCHANGED <<set, prog, unacked, mirror, thread, uplink, other>>

Programs(r) == SetToSeq({r} \X Days)

\* The device handles the next datagram.
DeviceReceive ==
  /\ downlink # <<>>
  /\ downlink' = Tail(downlink)
  /\ LET m == Head(downlink) IN
     \/ /\ m.kind = "SET"
        /\ ApplySet(m.room, m.field)
        /\ Up(<<SetMsg(m.room, m.field, TRUE)>>)
        /\ UNCHANGED <<prog, unacked>>
     \/ /\ m.kind = "PROGRAM"
        /\ ApplyProgram(m.slot)
        /\ Up(<<ProgramMsg(m.slot, prog'[m.slot], TRUE)>>)
        /\ UNCHANGED <<set, unacked>>
     \/ /\ m.kind = "PROGRAM_ECHO"
        /\ unacked' = IF m.val = prog[m.slot] THEN unacked \ {m.slot} ELSE unacked
        /\ UNCHANGED <<set, prog, uplink>>
     \/ /\ m.kind = "GET_PROG"
        /\ Up([i \in DOMAIN Programs(m.room) |->
                 ProgramMsg(Programs(m.room)[i], prog[Programs(m.room)[i]], FALSE)])
        /\ UNCHANGED <<set, prog, unacked>>
     \/ /\ m.kind = "FORWARD"                       \* not what the cloud sent
        /\ UNCHANGED <<set, prog, unacked, uplink>>
  /\ UNCHANGED <<home, mirror, thread, events, other>>

-----------------------------------------------------------------------------
(* REST handlers: PUT of a parameter or a day.  The mirror is left to the  *)
(* device's answer.                                                        *)

\* Mutant: the handler writes the mirror without waiting for the device.
PutSetting_Eager(r, f) ==
  /\ Event /\ addr # Nil
  /\ SendTo(addr, <<[kind |-> "SET", room |-> r, field |-> f]>>)
  /\ rooms' = IF rooms[r][f] = Nil THEN rooms
              ELSE [rooms EXCEPT ![r][f] = <<f, @[2] + 1>>]
  /\ UNCHANGED <<device, peers, addr, days, thread, uplink, other>>

PutSetting(r, f) ==
  /\ Event /\ addr # Nil
  /\ SendTo(addr, <<[kind |-> "SET", room |-> r, field |-> f]>>)
  /\ UNCHANGED <<device, mirror, thread, uplink, other>>

PutProgram(s) ==
  /\ Event /\ addr # Nil
  /\ SendTo(addr, <<[kind |-> "PROGRAM", slot |-> s]>>)
  /\ UNCHANGED <<device, mirror, thread, uplink, other>>

-----------------------------------------------------------------------------
(* UdpServer.handleMsg, by the message's type.                             *)

\* The handler is not still busy with an earlier STATUS, and m is next.
Receiving(m) == rooms_to_get_prog = {} /\ uplink # <<>> /\ m = Head(uplink)

\* To be handled as the cloud's: from its address, or after the knocks.
FromCloud(m) == Proxy /\ (m.src = Cloud \/ knocks >= Knocks)

Local(m) == Receiving(m) /\ m.kind # "KNOCK" /\ ~FromCloud(m) /\ uplink' = Tail(uplink)

\* Mutant: a peer is entered at every datagram.
SeenAt_Again(a) ==
  /\ peers' = IF Len(peers) < 3 THEN Append(peers, a) ELSE peers
  /\ addr' = a

\* _extracted_from_handleMsg_27: the peer has the device, and its address is a.
SeenAt(a) ==
  /\ peers' = IF Contains(peers, a) THEN peers ELSE Append(peers, a)
  /\ addr' = a

\* A ProxyUdpServer sends the cloud what the device sent, before it handles it.
Replicate(m) == cloud' = IF Proxy THEN cloud \cup {<<m.slot, m.val>>} ELSE cloud

\* What STATUS m stores for a room; minsetp is given maxsetp's value.
StatusOf(m, r) == [maxsetp |-> m.set[r].maxsetp, minsetp |-> m.set[r].maxsetp]

Complete(r) == \A d \in Days : days[<<r, d>>] # Nil      \* len(days) = 7

\* Mutant: a sync loss the device reports is not looked at.
HandleStatus_IgnoresLoss(m) ==
  /\ Local(m) /\ m.kind = "STATUS"
  /\ SeenAt(m.src)
  /\ rooms' = [r \in Rooms |-> StatusOf(m, r)]
  /\ rooms_to_get_prog' = {r \in Rooms : ~Complete(r)}
  /\ reply_to' = m.src
  /\ UNCHANGED <<device, days, knocks, downlink, events, other>>

\* Mutant: a room that is known is not refreshed.
HandleStatus_Once(m) ==
  /\ Local(m) /\ m.kind = "STATUS"
  /\ SeenAt(m.src)
  /\ rooms' = [r \in Rooms |-> IF rooms[r].maxsetp = Nil THEN StatusOf(m, r) ELSE rooms[r]]
  /\ rooms_to_get_prog' = {r \in Rooms : ~Complete(r) \/ m.synclost}
  /\ reply_to' = m.src
  /\ UNCHANGED <<device, days, knocks, downlink, events, other>>

\* Every room is mirrored; those whose programs are not all known, or all of
\* them after a sync loss, are to be fetched.  The device does nothing with the
\* STATUS it is answered, which is left out, as the answer to PING is.
HandleStatus(m) ==
  /\ Local(m) /\ m.kind = "STATUS"
  /\ SeenAt(m.src)
  /\ rooms' = [r \in Rooms |-> StatusOf(m, r)]
  /\ rooms_to_get_prog' = {r \in Rooms : ~Complete(r) \/ m.synclost}
  /\ reply_to' = m.src
  /\ UNCHANGED <<device, days, knocks, downlink, events, other>>

\* The database raises at one of the rooms: the others are not mirrored and
\* nothing is fetched.
HandleStatusFails(m) ==
  /\ Local(m) /\ m.kind = "STATUS" /\ Event
  /\ SeenAt(m.src)
  /\ \E done \in SUBSET Rooms \ {{}} :
       rooms' = [r \in Rooms |-> IF r \in done THEN StatusOf(m, r) ELSE rooms[r]]
  /\ UNCHANGED <<device, days, thread, downlink, other>>

\* The next room's GET_PROG, a second after the last.
FetchProgram(r) ==
  /\ r \in rooms_to_get_prog
  /\ rooms_to_get_prog' = rooms_to_get_prog \ {r}
  /\ SendTo(reply_to, <<[kind |-> "GET_PROG", room |-> r]>>)
  /\ UNCHANGED <<device, mirror, reply_to, knocks, uplink, events, other>>

\* A send raises: the rooms that are left are forgotten.
FetchFails ==
  /\ Event
  /\ rooms_to_get_prog # {} /\ rooms_to_get_prog' = {}
  /\ UNCHANGED <<device, mirror, reply_to, knocks, net, other>>

\* Mutant: an upload is echoed but not stored.
HandleProgram_EchoOnly(m) ==
  /\ Local(m) /\ m.kind = "PROGRAM"
  /\ SeenAt(m.src)
  /\ days' = IF days[m.slot] = Nil THEN [days EXCEPT ![m.slot] = m.val] ELSE days
  /\ SendTo(m.src, IF m.response THEN <<>>
                   ELSE <<[kind |-> "PROGRAM_ECHO", slot |-> m.slot, val |-> m.val]>>)
  /\ Replicate(m)
  /\ by_cloud' = by_cloud \ {m.slot}
  /\ UNCHANGED <<device, rooms, thread, events, unheard, overtaken>>

\* The day is stored, and echoed to a device that uploads it.
HandleProgram(m) ==
  /\ Local(m) /\ m.kind = "PROGRAM"
  /\ SeenAt(m.src)
  /\ days' = [days EXCEPT ![m.slot] = m.val]
  /\ SendTo(m.src, IF m.response THEN <<>>
                   ELSE <<[kind |-> "PROGRAM_ECHO", slot |-> m.slot, val |-> m.val]>>)
  /\ Replicate(m)
  /\ by_cloud' = by_cloud \ {m.slot}
  /\ UNCHANGED <<device, rooms, thread, events, unheard, overtaken>>

\* The value is mirrored.  A device that initiated the SET is answered, which it
\* does nothing with.
HandleSet(m) ==
  /\ Local(m) /\ m.kind = "SET"
  /\ SeenAt(m.src)
  /\ rooms' = [rooms EXCEPT ![m.room][m.field] = m.val]
  /\ UNCHANGED <<device, days, thread, downlink, events, other>>

\* PING, PROG_END and the answers that are only signalled.
HandleOther(m) ==
  /\ Local(m) /\ m.kind = "PING"
  /\ SeenAt(m.src)
  /\ UNCHANGED <<device, rooms, days, thread, downlink, events, other>>

-----------------------------------------------------------------------------
(* ProxyUdpServer.                                                         *)

\* A one-byte datagram, from anywhere; a UdpServer cannot unpack it.
HandleKnock(m) ==
  /\ Receiving(m) /\ m.kind = "KNOCK"
  /\ uplink' = Tail(uplink)
  /\ knocks' = IF Proxy /\ knocks < Knocks THEN knocks + 1 ELSE knocks
  /\ UNCHANGED <<device, mirror, rooms_to_get_prog, reply_to, downlink, events, other>>

\* The program an answer m announces, if it is one.
Announced(m) ==
  IF m.kind = "PROGRAM" /\ m.src # Cloud /\ m.response THEN {<<m.slot, m.val>>} ELSE {}

\* Replicating the device's datagram to the cloud raises: it is not handled.
ReplicateFails(m) ==
  /\ Local(m) /\ Proxy /\ Event
  /\ unheard' = unheard \cup Announced(m)
  /\ UNCHANGED <<device, mirror, thread, downlink, cloud, by_cloud, overtaken>>

\* getPeerFromDeviceId: the first address the device was ever seen at.
FirstPeer == IF peers = <<>> THEN Nil ELSE peers[1]

\* handleCloudMsg.  PING is answered; anything else is forwarded, and a PROGRAM
\* stored first.  What is forwarded is typed DEVICE_TIME whatever it was.
HandleCloudMsg(m) ==
  /\ Receiving(m) /\ m.kind # "KNOCK" /\ FromCloud(m)
  /\ uplink' = Tail(uplink)
  /\ knocks' = 0
  /\ \/ /\ m.kind = "PROGRAM"
        /\ days' = [days EXCEPT ![m.slot] = m.val]
        /\ by_cloud' = by_cloud \cup {m.slot}
     \/ m.kind # "PROGRAM" /\ UNCHANGED <<days, by_cloud>>
  /\ SendTo(FirstPeer, IF m.kind = "PING" THEN <<>> ELSE <<[kind |-> "FORWARD"]>>)
  /\ UNCHANGED <<device, peers, addr, rooms, rooms_to_get_prog, reply_to, events, cloud,
                 unheard, overtaken>>

-----------------------------------------------------------------------------
(* The cloud, the network, and the add-on's restart.                       *)

\* The cloud echoes uploads too, in its own time, and has messages of its own.
CloudSend(k) ==
  /\ Proxy /\ Event
  /\ IF k = "PROGRAM"
     THEN \E u \in cloud : Up(<<[src |-> Cloud, kind |-> k, slot |-> u[1], val |-> u[2]]>>)
     ELSE Up(<<[src |-> Cloud, kind |-> k]>>)
  /\ UNCHANGED <<device, mirror, thread, downlink, other>>

Knock ==
  /\ Event
  /\ Up(<<[src |-> Nil, kind |-> "KNOCK"]>>)
  /\ UNCHANGED <<device, mirror, thread, downlink, other>>

LoseUplink(i) ==
  /\ Event
  /\ uplink' = RemoveAt(uplink, i)
  /\ unheard' = unheard \cup Announced(uplink[i])
  /\ UNCHANGED <<device, mirror, thread, downlink, cloud, by_cloud, overtaken>>

LoseDownlink(i) ==
  /\ Event
  /\ downlink' = RemoveAt(downlink, i)
  /\ UNCHANGED <<device, mirror, thread, uplink, other>>

\* The subjects a datagram may tell of: the program of a day, a room's upper setpoint.
Day(s)      == <<"program", s>>
Setpoint(r) == <<"setpoint", r>>
Topics == ({"program"} \X Slots) \cup ({"setpoint"} \X Rooms)

\* The values that datagram m of the device tells of k: one or none.
Told(m, k) ==
  IF k[1] = "program"
  THEN IF m.kind = "PROGRAM" /\ m.src # Cloud /\ m.slot = k[2] THEN {m.val} ELSE {}
  ELSE IF m.kind = "STATUS" THEN {m.set[k[2]].maxsetp[2]}
       ELSE IF m.kind = "SET" /\ m.room = k[2] /\ m.field = "maxsetp" THEN {m.val[2]} ELSE {}

\* q with its i-th element behind the next.
Swapped(q, i) == [q EXCEPT ![i] = q[i + 1], ![i + 1] = q[i]]

\* A datagram arrives before the one that was sent before it; the handler looks
\* at no sequence number (udpserver.py:776 has it as a todo).
OvertakeUplink(i) ==
  /\ Event
  /\ i + 1 \in DOMAIN uplink
  /\ uplink' = Swapped(uplink, i)
  /\ overtaken' = overtaken \cup
       UNION {{k} \X {v \in Told(uplink[i], k) : \E w \in Told(uplink[i + 1], k) : v < w}
              : k \in Topics}
  /\ UNCHANGED <<device, mirror, thread, downlink, cloud, unheard, by_cloud>>

OvertakeDownlink(i) ==
  /\ Event
  /\ i + 1 \in DOMAIN downlink
  /\ downlink' = Swapped(downlink, i)
  /\ UNCHANGED <<device, mirror, thread, uplink, other>>

\* Status is a module variable: a restart forgets it, and the socket's queue.
Restart ==
  /\ Event
  /\ peers' = <<>> /\ addr' = Nil
  /\ rooms' = [r \in Rooms |-> [f \in Fields |-> Nil]]
  /\ days' = [s \in Slots |-> Nil]
  /\ rooms_to_get_prog' = {} /\ reply_to' = Nil /\ knocks' = 0
  /\ uplink' = <<>> /\ by_cloud' = {}
  /\ UNCHANGED <<device, downlink, cloud, unheard, overtaken>>

-----------------------------------------------------------------------------
HandleMsg(m) ==
  \/ HandleStatus(m) \/ HandleStatusFails(m)
  \/ HandleProgram(m) \/ HandleSet(m) \/ HandleOther(m)
  \/ HandleKnock(m) \/ ReplicateFails(m) \/ HandleCloudMsg(m)

Serve == \E m \in ToSet(uplink) : HandleMsg(m)
Fetch == FetchFails \/ \E r \in Rooms : FetchProgram(r)

Next ==
  \/ Serve \/ Fetch
  \/ SendStatus \/ SendOther \/ Move \/ DeviceReceive
  \/ \E r \in Rooms, f \in Fields : TurnSetpoint(r, f) \/ PutSetting(r, f)
  \/ \E s \in Slots : EditProgram(s) \/ PutProgram(s)
  \/ \E k \in CloudKinds : CloudSend(k)
  \/ Knock \/ Restart
  \/ \E i \in DOMAIN uplink : LoseUplink(i) \/ OvertakeUplink(i)
  \/ \E i \in DOMAIN downlink : LoseDownlink(i) \/ OvertakeDownlink(i)

\* The device reports for ever, and the loop handles what it has received.
Fairness ==
  /\ WF_vars(SendStatus) /\ WF_vars(DeviceReceive)
  /\ WF_vars(Serve) /\ WF_vars(Fetch)

Spec == Init /\ [][Next]_vars /\ Fairness

-----------------------------------------------------------------------------
Values == Fields \X Nat

TypeOK ==
  /\ home \in Addrs
  /\ set \in [Rooms -> [Fields -> Values]]
  /\ prog \in [Slots -> Nat]
  /\ unacked \subseteq Slots
  /\ ToSet(peers) \subseteq Addrs /\ IsInjective(peers)
  /\ addr \in Addrs \cup {Nil}
  /\ rooms \in [Rooms -> [Fields -> Values \cup {Nil}]]
  /\ days \in [Slots -> Nat \cup {Nil}]
  /\ rooms_to_get_prog \subseteq Rooms
  /\ reply_to \in Addrs \cup {Nil}
  /\ knocks \in 0..Knocks
  /\ events \in 0..MaxEvents
  /\ unheard \subseteq Slots \X Nat
  /\ by_cloud \subseteq Slots
  /\ overtaken \subseteq Topics \X Nat

\* A setpoint the API has shown is replaced by an older one, and a program too,
\* only by a datagram that a newer one overtook on its way (a STATUS sent before
\* the answer to a PUT and arriving after it): nothing the server itself does, in
\* whatever order PUTs, answers, reports, failures and restarts come, takes the
\* mirror back.  (minsetp is not what the device says: see HandleStatus.  A day
\* the cloud has sent is its word, which may be late, not the device's.)
Forward(old, new) == old = Nil \/ new = Nil \/ old <= new
Newer(old, new) == old = Nil \/ new = Nil \/ old[2] <= new[2]
NeverBackwards ==
  [][/\ \A r \in Rooms : \/ Newer(rooms[r].maxsetp, rooms'[r].maxsetp)
                         \/ <<Setpoint(r), rooms'[r].maxsetp[2]>> \in overtaken
     /\ \A s \in Slots \ by_cloud' : \/ Forward(days[s], days'[s])
                                     \/ <<Day(s), days'[s]>> \in overtaken]_vars

\* What the device no longer reports as lost the server has: once an edit has
\* been echoed and nothing about the day is under way, the mirror holds the
\* device's program or (after a restart) none; or an earlier edit, if its upload
\* was overtaken by the later one's and stored after it.
EchoMeansStored ==
  \A s \in Slots :
    \/ s \in unacked \cup by_cloud \/ <<s, prog[s]>> \in unheard
    \/ \E m \in ToSet(uplink) : m.kind = "PROGRAM" /\ m.slot = s
    \/ days[s] \in {Nil, prog[s]} \/ <<Day(s), days[s]>> \in overtaken

\* When the changes, losses and restarts stop, the mirror comes to show the
\* setpoints the device has, and stays so (README: for up to 40s it may not);
\* what an overtaken report or answer put back is repaired as well.
SettingsSettle == <>[](\A r \in Rooms : rooms[r].maxsetp = set[r].maxsetp)

\* ... and the programs, all seven days of every room, those excepted of which
\* the answer to a PUT was lost, an upload was overtaken or the cloud sent its
\* own: of these the device reports no loss.
ProgramsSettle ==
  <>[](\A s \in Slots : \/ days[s] = prog[s] \/ <<Day(s), days[s]>> \in overtaken
                        \/ s \in by_cloud \/ <<s, prog[s]>> \in unheard)
=============================================================================
