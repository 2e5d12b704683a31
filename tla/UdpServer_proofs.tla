------------------------- MODULE UdpServer_proofs -------------------------
(***************************************************************************)
(* Proofs about UdpServer, for any rooms, days, addresses and bounds, with *)
(* and without the proxy.                                                  *)
(***************************************************************************)
EXTENDS UdpServer, FiniteSetTheorems, SequenceTheorems, TLAPS

\* The datagrams that may be on their way to the server ...
FromDevice ==
       [src : Addrs, kind : {"STATUS"}, set : [Rooms -> [Fields -> Values]], synclost : BOOLEAN]
  \cup [src : Addrs, kind : {"PING"}]
  \cup [src : Addrs, kind : {"SET"}, room : Rooms, field : Fields, val : Values,
        response : BOOLEAN]
  \cup [src : Addrs, kind : {"PROGRAM"}, slot : Slots, val : Nat, response : BOOLEAN]
FromElsewhere ==
       [src : {Cloud}, kind : {"PROGRAM"}, slot : Slots, val : Nat]
  \cup [src : {Cloud}, kind : {"ack", "PING"}]
  \cup [src : {Nil}, kind : {"KNOCK"}]
ToServer == FromDevice \cup FromElsewhere

\* ... and to the device.
ToDevice ==
       [kind : {"SET"}, room : Rooms, field : Fields]
  \cup [kind : {"PROGRAM"}, slot : Slots]
  \cup [kind : {"PROGRAM_ECHO"}, slot : Slots, val : Nat]
  \cup [kind : {"GET_PROG"}, room : Rooms]
  \cup [kind : {"FORWARD"}]

\* The ranges of the variables.
Types ==
  /\ home \in Addrs /\ set \in [Rooms -> [Fields -> Values]] /\ prog \in [Slots -> Nat]
  /\ unacked \subseteq Slots
  /\ peers \in Seq(Addrs) /\ IsInjective(peers) /\ addr \in Addrs \cup {Nil}
  /\ rooms \in [Rooms -> [Fields -> Values \cup {Nil}]] /\ days \in [Slots -> Nat \cup {Nil}]
  /\ rooms_to_get_prog \subseteq Rooms /\ reply_to \in Addrs \cup {Nil} /\ knocks \in 0 .. Knocks
  /\ uplink \in Seq(ToServer) /\ downlink \in Seq(ToDevice)
  /\ cloud \subseteq Slots \X Nat /\ unheard \subseteq Slots \X Nat /\ by_cloud \subseteq Slots
  /\ overtaken \subseteq Topics \X Nat
  /\ events \in 0 .. MaxEvents

\* What a datagram to the server carries, by its kind.
LEMMA UpParts ==
  ASSUME NEW m \in ToServer
  PROVE  /\ m.kind \in {"STATUS", "PING", "SET", "PROGRAM", "ack", "KNOCK"}
         /\ m.kind = "STATUS" => m.src \in Addrs /\ m.set \in [Rooms -> [Fields -> Values]]
         /\ m.kind = "SET" => /\ m.src \in Addrs /\ m.room \in Rooms /\ m.field \in Fields
                              /\ m.val \in Values
         /\ m.kind = "PROGRAM" => m.slot \in Slots /\ m.val \in Nat
         /\ m.kind # "KNOCK" => m.src \in Addrs \cup {Cloud}
         /\ m.kind # "KNOCK" /\ m.src # Cloud => m \in FromDevice
<1>1. CASE m \in FromDevice
  BY <1>1, UdpServerAssumption DEF FromDevice
<1>2. CASE m \in FromElsewhere
  BY <1>2 DEF FromElsewhere
<1> QED
  BY <1>1, <1>2 DEF ToServer

\* What a datagram to the device carries, by its kind.
LEMMA DownParts ==
  ASSUME NEW m \in ToDevice
  PROVE  /\ m.kind = "SET" => m.room \in Rooms /\ m.field \in Fields
         /\ m.kind = "PROGRAM" => m.slot \in Slots
         /\ m.kind = "PROGRAM_ECHO" => m.slot \in Slots /\ m.val \in Nat
         /\ m.kind = "GET_PROG" => m.room \in Rooms
BY DEF ToDevice

\* SetToSeq lists a finite set.
LEMMA Listed ==
  ASSUME NEW S, IsFiniteSet(S)
  PROVE  SetToSeq(S) \in Seq(S)
<1> DEFINE n == Cardinality(S)
<1>1. n \in Nat /\ ExistsBijection(1..n, S)
  BY FS_CardinalityType
<1>2. \E f \in [1..n -> S] : IsInjective(f)
  BY <1>1 DEF ExistsBijection, Bijection, Injection
<1>3. SetToSeq(S) \in [1..n -> S]
  BY <1>2 DEF SetToSeq
<1> QED
  BY <1>1, <1>3

\* new is old without its i-th element.
Without(new, old, i) ==
  /\ Len(old) = Len(new) + 1
  /\ \A j \in 1 .. Len(new) : new[j] = IF j < i THEN old[j] ELSE old[j + 1]

LEMMA Removed ==
  ASSUME NEW S, NEW q \in Seq(S), NEW i \in DOMAIN q
  PROVE  RemoveAt(q, i) \in Seq(S) /\ Without(RemoveAt(q, i), q, i)
<1> DEFINE a == SubSeq(q, 1, i - 1)
           b == SubSeq(q, i + 1, Len(q))
<1>1. Len(q) \in Nat /\ DOMAIN q = 1 .. Len(q) /\ i \in 1 .. Len(q)
  OBVIOUS
<1>2. a \in Seq(S) /\ Len(a) = i - 1 /\ \A j \in 1 .. (i - 1) : a[j] = q[j]
  BY <1>1
<1>3. /\ b \in Seq(S) /\ Len(b) = Len(q) - i
      /\ \A j \in 1 .. (Len(q) - i) : b[j] = q[i + j]
  BY <1>1
<1> HIDE DEF a, b
<1>4. /\ a \o b \in Seq(S) /\ Len(a \o b) = Len(a) + Len(b)
      /\ \A j \in 1 .. (Len(a) + Len(b)) :
           (a \o b)[j] = IF j <= Len(a) THEN a[j] ELSE b[j - Len(a)]
  BY <1>2, <1>3, ConcatProperties
<1>5. ASSUME NEW j \in 1 .. (Len(q) - 1)
      PROVE  (a \o b)[j] = IF j < i THEN q[j] ELSE q[j + 1]
  <2>1. CASE j < i
    BY <2>1, <1>1, <1>2, <1>3, <1>4
  <2>2. CASE j >= i
    <3>1. j - (i - 1) \in 1 .. (Len(q) - i) /\ i + (j - (i - 1)) = j + 1
      BY <2>2, <1>1
    <3>2. (a \o b)[j] = b[j - (i - 1)]
      BY <2>2, <1>1, <1>2, <1>3, <1>4
    <3>3. b[j - (i - 1)] = q[i + (j - (i - 1))]
      BY <3>1, <1>3
    <3> QED
      BY <2>2, <3>1, <3>2, <3>3, <1>1
  <2>3. j < i \/ j >= i
    BY <1>1
  <2> QED
    BY <2>1, <2>2, <2>3
<1>6. RemoveAt(q, i) = a \o b
  BY DEF RemoveAt, a, b
<1>7. Len(a \o b) = Len(q) - 1
  BY <1>1, <1>2, <1>3, <1>4
<1> DEFINE r == RemoveAt(q, i)
<1>8. r = a \o b
  BY <1>6
<1> HIDE DEF r
<1>9. r \in Seq(S) /\ Len(r) = Len(q) - 1
  BY <1>4, <1>7, <1>8
<1>10. \A j \in 1 .. (Len(q) - 1) : r[j] = IF j < i THEN q[j] ELSE q[j + 1]
  BY <1>5, <1>8
<1>11. Without(r, q, i)
  BY <1>1, <1>9, <1>10 DEF Without
<1> QED
  BY <1>9, <1>11 DEF r

LEMMA HeadRemoved ==
  ASSUME NEW S, NEW q \in Seq(S), q # <<>>
  PROVE  /\ Tail(q) \in Seq(S) /\ Without(Tail(q), q, 1)
         /\ 1 \in DOMAIN q /\ Head(q) = q[1] /\ Head(q) \in S
BY DEF Without

\* Two neighbours change places; everything else stays where it was.
LEMMA SwappedKeeps ==
  ASSUME NEW S, NEW q \in Seq(S), NEW i \in DOMAIN q, i + 1 \in DOMAIN q
  PROVE  /\ Swapped(q, i) \in Seq(S) /\ DOMAIN Swapped(q, i) = DOMAIN q
         /\ Swapped(q, i)[i] = q[i + 1] /\ Swapped(q, i)[i + 1] = q[i]
         /\ \A j \in DOMAIN q \ {i, i + 1} : Swapped(q, i)[j] = q[j]
<1>1. Len(q) \in Nat /\ DOMAIN q = 1 .. Len(q) /\ i \in Nat /\ i + 1 # i
      /\ q \in [1 .. Len(q) -> S]
  OBVIOUS
<1>2. Swapped(q, i) \in [1 .. Len(q) -> S]
  BY <1>1 DEF Swapped
<1>3. Swapped(q, i)[i] = q[i + 1] /\ Swapped(q, i)[i + 1] = q[i]
  BY <1>1 DEF Swapped
<1>4. \A j \in DOMAIN q \ {i, i + 1} : Swapped(q, i)[j] = q[j]
  BY <1>1 DEF Swapped
<1> QED
  BY <1>1, <1>2, <1>3, <1>4

\* A datagram of the device's, built from what it is and has.
LEMMA Reports ==
  ASSUME Types
  PROVE  /\ [src |-> home, kind |-> "STATUS", set |-> set, synclost |-> unacked # {}] \in ToServer
         /\ [src |-> home, kind |-> "PING"] \in ToServer
         /\ \A s \in Slots, v \in Nat, b \in BOOLEAN : ProgramMsg(s, v, b) \in ToServer
         /\ set' \in [Rooms -> [Fields -> Values]] =>
              \A r \in Rooms, f \in Fields, b \in BOOLEAN : SetMsg(r, f, b) \in ToServer
BY DEF Types, ToServer, FromDevice, ProgramMsg, SetMsg

\* The device's answer to GET_PROG: one upload per day of the room.
Uploads(r) == [i \in DOMAIN Programs(r) |->
                 ProgramMsg(Programs(r)[i], prog[Programs(r)[i]], FALSE)]

LEMMA UploadsListed ==
  ASSUME Types, NEW r \in Rooms
  PROVE  /\ Uploads(r) \in Seq(ToServer)
         /\ \A i \in DOMAIN Uploads(r) :
              \E s \in Slots : Uploads(r)[i] = ProgramMsg(s, prog[s], FALSE)
<1> DEFINE p == Programs(r)
<1>1. IsFiniteSet({r} \X Days)
  BY FS_Singleton, FS_Product, UdpServerAssumption
<1>2. p \in Seq({r} \X Days)
  BY <1>1, Listed DEF Programs
<1>3. {r} \X Days \subseteq Slots
  BY DEF Slots
<1> HIDE DEF p
<1>4. Len(p) \in Nat /\ DOMAIN p = 1 .. Len(p) /\ \A i \in 1 .. Len(p) : p[i] \in Slots
  BY <1>2, <1>3
<1> DEFINE u == [i \in DOMAIN p |-> ProgramMsg(p[i], prog[p[i]], FALSE)]
<1>5. \A i \in 1 .. Len(p) : u[i] = ProgramMsg(p[i], prog[p[i]], FALSE) /\ u[i] \in ToServer
  BY <1>4, Reports DEF Types
<1>6. u \in Seq(ToServer) /\ DOMAIN u = 1 .. Len(p)
  <2>1. DOMAIN u = 1 .. Len(p)
    BY <1>4
  <2>2. u = [i \in 1 .. Len(p) |-> u[i]]
    BY <2>1
  <2> HIDE DEF u
  <2>3. u \in [1 .. Len(p) -> ToServer]
    BY <1>5, <2>2
  <2> QED
    BY <1>4, <2>3
<1>7. Uploads(r) = u
  BY DEF Uploads, p, u
<1>8. \A i \in DOMAIN u : \E s \in Slots : u[i] = ProgramMsg(s, prog[s], FALSE)
  BY <1>4, <1>5, <1>6
<1> QED
  BY <1>6, <1>7, <1>8

\* A datagram that is sent arrives at the end of the queue, or not at all.
LEMMA Arrives ==
  ASSUME Types, NEW a, NEW ms \in Seq(ToDevice), SendTo(a, ms)
  PROVE  /\ downlink' \in Seq(ToDevice)
         /\ \A i \in DOMAIN downlink' : \/ \E j \in DOMAIN downlink : downlink'[i] = downlink[j]
                                        \/ \E j \in DOMAIN ms : downlink'[i] = ms[j]
<1>1. CASE downlink' = downlink
  BY <1>1 DEF Types
<1>2. CASE downlink' = downlink \o ms
  <2>1. downlink \in Seq(ToDevice)
    BY DEF Types
  <2>2. /\ downlink' \in Seq(ToDevice) /\ Len(downlink') = Len(downlink) + Len(ms)
        /\ \A i \in 1 .. (Len(downlink) + Len(ms)) :
             downlink'[i] = IF i <= Len(downlink) THEN downlink[i] ELSE ms[i - Len(downlink)]
    BY <1>2, <2>1, ConcatProperties
  <2>3. /\ Len(downlink) \in Nat /\ Len(ms) \in Nat /\ DOMAIN downlink = 1 .. Len(downlink)
        /\ DOMAIN ms = 1 .. Len(ms) /\ DOMAIN downlink' = 1 .. (Len(downlink) + Len(ms))
    BY <2>1, <2>2
  <2>4. ASSUME NEW i \in DOMAIN downlink'
        PROVE  \/ \E j \in DOMAIN downlink : downlink'[i] = downlink[j]
               \/ \E j \in DOMAIN ms : downlink'[i] = ms[j]
    <3>1. CASE i <= Len(downlink)
      BY <2>2, <2>3, <3>1
    <3>2. CASE ~(i <= Len(downlink))
      <4>1. downlink'[i] = ms[i - Len(downlink)] /\ i - Len(downlink) \in DOMAIN ms
        BY <2>2, <2>3, <3>2
      <4> QED
        BY <4>1
    <3> QED
      BY <3>1, <3>2
  <2> QED
    BY <2>2, <2>4
<1> QED
  BY <1>1, <1>2 DEF SendTo

\* Setpoints, and the turn of one.
LEMMA Settings ==
  ASSUME Types
  PROVE  /\ \A r \in Rooms, f \in Fields : set[r][f] \in Values /\ set[r][f][2] \in Nat
         /\ \A r \in Rooms, f \in Fields :
              ApplySet(r, f) => /\ set' \in [Rooms -> [Fields -> Values]]
                                /\ set'[r][f] = <<f, set[r][f][2] + 1>>
                                /\ \A q \in Rooms, g \in Fields :
                                     q # r \/ g # f => set'[q][g] = set[q][g]
         /\ \A s \in Slots : ApplyProgram(s) => /\ prog' \in [Slots -> Nat]
                                                /\ prog'[s] = prog[s] + 1
                                                /\ \A u \in Slots \ {s} : prog'[u] = prog[u]
<1>1. ASSUME NEW r \in Rooms, NEW f \in Fields
      PROVE  set[r][f] \in Values /\ set[r][f][2] \in Nat /\ f \in Fields
  BY DEF Types, Values
<1>2. ASSUME NEW r \in Rooms, NEW f \in Fields, ApplySet(r, f)
      PROVE  /\ set' \in [Rooms -> [Fields -> Values]]
             /\ set'[r][f] = <<f, set[r][f][2] + 1>>
             /\ \A q \in Rooms, g \in Fields : q # r \/ g # f => set'[q][g] = set[q][g]
  <2> DEFINE x == <<f, set[r][f][2] + 1>>
  <2>1. x \in Values
    BY <1>1 DEF Values
  <2>2. set' = [set EXCEPT ![r] = [set[r] EXCEPT ![f] = x]]
    BY <1>2 DEF ApplySet, Types
  <2> HIDE DEF x
  <2>3. set[r] \in [Fields -> Values] /\ [set[r] EXCEPT ![f] = x] \in [Fields -> Values]
    BY <2>1 DEF Types
  <2>4. set' \in [Rooms -> [Fields -> Values]]
    BY <2>2, <2>3 DEF Types
  <2>5. set'[r] = [set[r] EXCEPT ![f] = x] /\ \A q \in Rooms : q # r => set'[q] = set[q]
    BY <2>2 DEF Types
  <2>6. set'[r][f] = x /\ \A g \in Fields : g # f => set'[r][g] = set[r][g]
    BY <2>3, <2>5
  <2> QED
    BY <2>4, <2>5, <2>6 DEF x
<1>3. ASSUME NEW s \in Slots, ApplyProgram(s)
      PROVE  /\ prog' \in [Slots -> Nat] /\ prog'[s] = prog[s] + 1
             /\ \A u \in Slots \ {s} : prog'[u] = prog[u]
  BY <1>3 DEF ApplyProgram, Types
<1> QED
  BY <1>1, <1>2, <1>3

\* A peer is entered once.
LEMMA Seen ==
  ASSUME Types, NEW a \in Addrs, SeenAt(a)
  PROVE  peers' \in Seq(Addrs) /\ IsInjective(peers') /\ addr' \in Addrs
<1>1. CASE Contains(peers, a)
  BY <1>1 DEF SeenAt, Types, IsInjective
<1>2. CASE ~Contains(peers, a)
  <2>1. peers' = Append(peers, a) /\ \A i \in 1 .. Len(peers) : peers[i] # a
    BY <1>2 DEF SeenAt, Contains
  <2>2. Len(peers) \in Nat /\ DOMAIN peers = 1 .. Len(peers) /\ peers \in Seq(Addrs)
    BY DEF Types
  <2>3. /\ peers' \in Seq(Addrs) /\ DOMAIN peers' = 1 .. (Len(peers) + 1)
        /\ peers'[Len(peers) + 1] = a /\ \A i \in 1 .. Len(peers) : peers'[i] = peers[i]
    BY <2>1, <2>2
  <2>4. ASSUME NEW i \in DOMAIN peers', NEW j \in DOMAIN peers', peers'[i] = peers'[j]
        PROVE  i = j
    <3>1. CASE i \in 1 .. Len(peers) /\ j \in 1 .. Len(peers)
      BY <2>2, <2>3, <2>4, <3>1 DEF Types, IsInjective
    <3>2. CASE i = Len(peers) + 1 \/ j = Len(peers) + 1
      BY <2>1, <2>2, <2>3, <2>4, <3>2
    <3> QED
      BY <2>2, <2>3, <3>1, <3>2
  <2> QED
    BY <2>3, <2>4 DEF IsInjective, SeenAt
<1> QED
  BY <1>1, <1>2

\* The head of the queue, by who sent it.
LEMMA FirstInQueue ==
  ASSUME Types, NEW m, Receiving(m)
  PROVE  /\ m \in ToServer /\ m = uplink[1] /\ 1 \in DOMAIN uplink
         /\ Tail(uplink) \in Seq(ToServer) /\ Without(Tail(uplink), uplink, 1)
         /\ rooms_to_get_prog = {}
BY HeadRemoved DEF Types, Receiving

\* What a STATUS stores.
LEMMA Stored ==
  ASSUME Types, NEW m \in ToServer, m.kind = "STATUS", NEW r \in Rooms
  PROVE  StatusOf(m, r) \in [Fields -> Values] /\ StatusOf(m, r).maxsetp = m.set[r].maxsetp
<1>1. m.set[r] \in [Fields -> Values] /\ m.set[r].maxsetp \in Values
  BY UpParts DEF Fields
<1> QED
  BY <1>1 DEF StatusOf, Fields
\* A message that is handled as the device's is the device's.
LEMMA TypesInit == Init => Types
BY UdpServerAssumption DEF Init, Types, Values, Fields, IsInjective

\* Room by room, a step of the handler stores setpoints.
LEMMA TypesServed ==
  ASSUME Types, NEW m \in ToSet(uplink), HandleMsg(m),
         \A i \in DOMAIN uplink : uplink[i].kind # "KNOCK" /\ uplink[i].src = Cloud => Proxy
  PROVE  Types'
<1> USE UdpServerAssumption
<1>1. Receiving(m)
  BY DEF HandleMsg, HandleStatus, HandleStatusFails, HandleProgram, HandleSet, HandleOther,
         HandleKnock, ReplicateFails, HandleCloudMsg, Local
<1>2. /\ m \in ToServer /\ m = uplink[1] /\ 1 \in DOMAIN uplink
      /\ Tail(uplink) \in Seq(ToServer)
  BY <1>1, FirstInQueue
<1>3. Local(m) => m.src \in Addrs /\ m \in FromDevice
  BY <1>2, UpParts DEF Local, FromCloud
<1>4. events \in Nat /\ (Event => events' \in 0 .. MaxEvents)
  BY DEF Event, Types
<1>5. CASE HandleStatus(m)
  <2>1. rooms' \in [Rooms -> [Fields -> Values \cup {Nil}]]
    BY <1>2, <1>5, Stored DEF HandleStatus
  <2> QED
    BY <1>2, <1>3, <1>5, <2>1, Seen DEF HandleStatus, Local, Types, device, other
<1>6. CASE HandleStatusFails(m)
  <2>1. rooms' \in [Rooms -> [Fields -> Values \cup {Nil}]]
    <3>1. PICK done \in SUBSET Rooms :
            rooms' = [r \in Rooms |-> IF r \in done THEN StatusOf(m, r) ELSE rooms[r]]
      BY <1>6 DEF HandleStatusFails
    <3>2. m.kind = "STATUS"
      BY <1>6 DEF HandleStatusFails
    <3> QED
      BY <1>2, <3>1, <3>2, Stored DEF Types
  <2> QED
    BY <1>2, <1>3, <1>4, <1>6, <2>1, Seen
       DEF HandleStatusFails, Local, Types, device, thread, other
<1>7. CASE HandleProgram(m)
  <2> DEFINE ms == IF m.response THEN <<>>
                   ELSE <<[kind |-> "PROGRAM_ECHO", slot |-> m.slot, val |-> m.val]>>
  <2>1. m.slot \in Slots /\ m.val \in Nat
    BY <1>2, <1>7, UpParts DEF HandleProgram
  <2>2. ms \in Seq(ToDevice)
    BY <2>1 DEF ToDevice
  <2>3. SendTo(m.src, ms)
    BY <1>7 DEF HandleProgram
  <2> HIDE DEF ms
  <2>4. downlink' \in Seq(ToDevice)
    BY <2>2, <2>3, Arrives
  <2>5. cloud' \subseteq Slots \X Nat
    BY <1>7, <2>1 DEF HandleProgram, Replicate, Types
  <2>6. days' \in [Slots -> Nat \cup {Nil}] /\ by_cloud' \subseteq Slots
    BY <1>7, <2>1 DEF HandleProgram, Types
  <2> QED
    BY <1>2, <1>3, <1>7, <2>4, <2>5, <2>6, Seen DEF HandleProgram, Local, Types, device, thread
<1>8. CASE HandleSet(m)
  <2>1. m.room \in Rooms /\ m.field \in Fields /\ m.val \in Values
    BY <1>2, <1>8, UpParts DEF HandleSet
  <2>2. rooms' \in [Rooms -> [Fields -> Values \cup {Nil}]]
    BY <1>8, <2>1 DEF HandleSet, Types
  <2> QED
    BY <1>2, <1>3, <1>8, <2>2, Seen DEF HandleSet, Local, Types, device, thread, other
<1>9. CASE HandleOther(m)
  BY <1>2, <1>3, <1>9, Seen DEF HandleOther, Local, Types, device, thread, other
<1>10. CASE HandleKnock(m)
  BY <1>2, <1>10 DEF HandleKnock, Types, device, mirror, other
<1>11. CASE ReplicateFails(m)
  <2>1. Announced(m) \subseteq Slots \X Nat
    BY <1>2, UpParts DEF Announced
  <2> QED
    BY <1>2, <1>4, <1>11, <2>1 DEF ReplicateFails, Local, Types, device, mirror, thread
<1>12. CASE HandleCloudMsg(m)
  <2> DEFINE ms == IF m.kind = "PING" THEN <<>> ELSE <<[kind |-> "FORWARD"]>>
  <2>1. days' \in [Slots -> Nat \cup {Nil}] /\ by_cloud' \subseteq Slots
    <3>1. CASE UNCHANGED <<days, by_cloud>>
      BY <3>1 DEF Types
    <3>2. CASE /\ m.kind = "PROGRAM" /\ days' = [days EXCEPT ![m.slot] = m.val]
               /\ by_cloud' = by_cloud \cup {m.slot}
      BY <1>2, <3>2, UpParts DEF Types
    <3> QED
      BY <1>12, <3>1, <3>2 DEF HandleCloudMsg
  <2>2. ms \in Seq(ToDevice)
    <3>1. <<>> \in Seq(ToDevice) /\ <<[kind |-> "FORWARD"]>> \in Seq(ToDevice)
      BY DEF ToDevice
    <3> QED
      BY <3>1
  <2>3. SendTo(FirstPeer, ms)
    BY <1>12 DEF HandleCloudMsg
  <2> HIDE DEF ms
  <2>4. downlink' \in Seq(ToDevice)
    BY <2>2, <2>3, Arrives
  <2> QED
    BY <1>2, <1>12, <2>1, <2>4 DEF HandleCloudMsg, Types, device
<1> QED
  BY <1>5, <1>6, <1>7, <1>8, <1>9, <1>10, <1>11, <1>12 DEF HandleMsg

\* The device's steps.
LEMMA TypesDevice ==
  ASSUME Types, DeviceReceive
  PROVE  Types'
<1> DEFINE m == Head(downlink)
<1>1. m \in ToDevice /\ Tail(downlink) \in Seq(ToDevice) /\ uplink \in Seq(ToServer)
  BY HeadRemoved DEF DeviceReceive, Types
<1> HIDE DEF m
<1>2. /\ downlink' = Tail(downlink) /\ UNCHANGED <<home, mirror, thread, events, other>>
      /\ \/ /\ m.kind = "SET"
            /\ ApplySet(m.room, m.field)
            /\ Up(<<SetMsg(m.room, m.field, TRUE)>>)
            /\ UNCHANGED <<prog, unacked>>
         \/ /\ m.kind = "PROGRAM"
            /\ ApplyProgram(m.slot)
            /\ Up(<<ProgramMsg(m.slot, prog'[m.slot], TRUE)>>)
            /\ UNCHANGED <<set, unacked>>
         \/ /\ unacked' \in {unacked, unacked \ {m.slot}}
            /\ UNCHANGED <<set, prog, uplink>>
         \/ /\ m.kind = "GET_PROG"
            /\ Up(Uploads(m.room))
            /\ UNCHANGED <<set, prog, unacked>>
  BY DEF DeviceReceive, m, Uploads
<1>3. /\ set' \in [Rooms -> [Fields -> Values]] /\ prog' \in [Slots -> Nat]
      /\ unacked' \subseteq Slots
  BY <1>1, <1>2, DownParts, Settings DEF Types
<1>4. uplink' \in Seq(ToServer)
  <2>0. ASSUME NEW x \in ToServer, Up(<<x>>) PROVE uplink' \in Seq(ToServer)
    BY <1>1, <2>0 DEF Up
  <2>1. CASE m.kind = "SET" /\ Up(<<SetMsg(m.room, m.field, TRUE)>>)
    <3>1. SetMsg(m.room, m.field, TRUE) \in ToServer
      BY <1>1, <1>3, <2>1, DownParts, Reports
    <3> QED
      BY <2>0, <2>1, <3>1
  <2>2. CASE /\ m.kind = "PROGRAM" /\ Up(<<ProgramMsg(m.slot, prog'[m.slot], TRUE)>>)
    <3>1. ProgramMsg(m.slot, prog'[m.slot], TRUE) \in ToServer
      BY <1>1, <1>3, <2>2, DownParts, Reports
    <3> QED
      BY <2>0, <2>2, <3>1
  <2>3. CASE m.kind = "GET_PROG" /\ Up(Uploads(m.room))
    <3>1. Uploads(m.room) \in Seq(ToServer)
      BY <1>1, <2>3, DownParts, UploadsListed
    <3> QED
      BY <1>1, <2>3, <3>1, ConcatProperties DEF Up
  <2> QED
    BY <1>1, <1>2, <2>1, <2>2, <2>3
<1> QED
  BY <1>1, <1>2, <1>3, <1>4 DEF Types, mirror, thread, other

LEMMA TypesOthers ==
  ASSUME Types,
         \/ Fetch \/ SendStatus \/ SendOther \/ Move
         \/ \E r \in Rooms, f \in Fields : TurnSetpoint(r, f) \/ PutSetting(r, f)
         \/ \E s \in Slots : EditProgram(s) \/ PutProgram(s)
         \/ \E k \in CloudKinds : CloudSend(k)
         \/ Knock \/ Restart
         \/ \E i \in DOMAIN uplink : LoseUplink(i)
         \/ \E i \in DOMAIN downlink : LoseDownlink(i)
  PROVE  Types'
<1> USE UdpServerAssumption
<1>1. Event => events' \in 0 .. MaxEvents
  BY DEF Event, Types
<1>2. ASSUME NEW x \in ToServer, Up(<<x>>) PROVE uplink' \in Seq(ToServer)
  BY <1>2 DEF Up, Types
<1>3. CASE FetchFails
  BY <1>1, <1>3 DEF FetchFails, Types, device, mirror, net, other
<1>4. ASSUME NEW r \in Rooms, FetchProgram(r) PROVE Types'
  <2>1. <<[kind |-> "GET_PROG", room |-> r]>> \in Seq(ToDevice)
    BY DEF ToDevice
  <2>2. downlink' \in Seq(ToDevice)
    BY <1>4, <2>1, Arrives DEF FetchProgram
  <2> QED
    BY <1>4, <2>2 DEF FetchProgram, Types, device, mirror, other
<1>5. CASE SendStatus
  BY <1>2, <1>5, Reports DEF SendStatus, Types, device, mirror, thread, other
<1>6. CASE SendOther
  BY <1>1, <1>2, <1>6, Reports DEF SendOther, Types, device, mirror, thread, other
<1>7. CASE Move
  BY <1>1, <1>7 DEF Move, Types, mirror, thread, other
<1>8. ASSUME NEW r \in Rooms, NEW f \in Fields, TurnSetpoint(r, f) PROVE Types'
  <2>1. set' \in [Rooms -> [Fields -> Values]]
    BY <1>8, Settings DEF TurnSetpoint
  <2>2. SetMsg(r, f, FALSE) \in ToServer
    BY <2>1, Reports
  <2>3. uplink' \in Seq(ToServer)
    BY <1>2, <1>8, <2>2 DEF TurnSetpoint, Types
  <2> QED
    BY <1>1, <1>8, <2>1, <2>3 DEF TurnSetpoint, Types, mirror, thread, other
<1>9. ASSUME NEW r \in Rooms, NEW f \in Fields, PutSetting(r, f) PROVE Types'
  <2>1. <<[kind |-> "SET", room |-> r, field |-> f]>> \in Seq(ToDevice)
    BY DEF ToDevice
  <2>2. downlink' \in Seq(ToDevice)
    BY <1>9, <2>1, Arrives DEF PutSetting
  <2> QED
    BY <1>1, <1>9, <2>2 DEF PutSetting, Types, device, mirror, thread, other
<1>10. ASSUME NEW s \in Slots, EditProgram(s) PROVE Types'
  <2>1. prog' \in [Slots -> Nat]
    BY <1>10, Settings DEF EditProgram
  <2>2. ProgramMsg(s, prog'[s], FALSE) \in ToServer
    BY <2>1, Reports
  <2>3. uplink' \in Seq(ToServer)
    BY <1>2, <1>10, <2>2 DEF EditProgram
  <2> QED
    BY <1>1, <1>10, <2>1, <2>3 DEF EditProgram, Types, mirror, thread, other
<1>11. ASSUME NEW s \in Slots, PutProgram(s) PROVE Types'
  <2>1. <<[kind |-> "PROGRAM", slot |-> s]>> \in Seq(ToDevice)
    BY DEF ToDevice
  <2>2. downlink' \in Seq(ToDevice)
    BY <1>11, <2>1, Arrives DEF PutProgram
  <2> QED
    BY <1>1, <1>11, <2>2 DEF PutProgram, Types, device, mirror, thread, other
<1>12. ASSUME NEW k \in CloudKinds, CloudSend(k) PROVE Types'
  <2>1. uplink' \in Seq(ToServer)
    <3>1. CASE k = "PROGRAM"
      <4>1. PICK u \in cloud : Up(<<[src |-> Cloud, kind |-> k, slot |-> u[1], val |-> u[2]]>>)
        BY <1>12, <3>1 DEF CloudSend
      <4>2. u[1] \in Slots /\ u[2] \in Nat
        BY DEF Types
      <4> QED
        BY <1>2, <3>1, <4>1, <4>2 DEF ToServer, FromElsewhere
    <3>2. CASE k # "PROGRAM"
      <4>1. Up(<<[src |-> Cloud, kind |-> k]>>) /\ k \in {"ack", "PING"}
        BY <1>12, <3>2 DEF CloudSend
      <4> QED
        BY <1>2, <4>1 DEF ToServer, FromElsewhere
    <3> QED
      BY <3>1, <3>2
  <2> QED
    BY <1>1, <1>12, <2>1 DEF CloudSend, Types, device, mirror, thread, other
<1>13. CASE Knock
  <2>1. [src |-> Nil, kind |-> "KNOCK"] \in ToServer
    BY DEF ToServer, FromElsewhere
  <2> QED
    BY <1>1, <1>2, <1>13, <2>1 DEF Knock, Types, device, mirror, thread, other
<1>14. CASE Restart
  BY <1>1, <1>14 DEF Restart, Types, device, IsInjective
<1>15. ASSUME NEW i \in DOMAIN uplink, LoseUplink(i) PROVE Types'
  <2>1. uplink' \in Seq(ToServer) /\ uplink[i] \in ToServer
    BY <1>15, Removed DEF LoseUplink, Types
  <2>2. Announced(uplink[i]) \subseteq Slots \X Nat
    BY <2>1, UpParts DEF Announced
  <2> QED
    BY <1>1, <1>15, <2>1, <2>2 DEF LoseUplink, Types, device, mirror, thread
<1>16. ASSUME NEW i \in DOMAIN downlink, LoseDownlink(i) PROVE Types'
  <2>1. downlink' \in Seq(ToDevice)
    BY <1>16, Removed DEF LoseDownlink, Types
  <2> QED
    BY <1>1, <1>16, <2>1 DEF LoseDownlink, Types, device, mirror, thread, other
<1> QED
  BY <1>3, <1>4, <1>5, <1>6, <1>7, <1>8, <1>9, <1>10, <1>11, <1>12, <1>13, <1>14, <1>15, <1>16
     DEF Fetch
-----------------------------------------------------------------------------
(* What the handler is told, in which order.                               *)

\* The value the device has now.
Present(k) == IF k[1] = "program" THEN prog[k[2]] ELSE set[k[2]].maxsetp[2]

\* The values that the mirror holds, or that the cloud may send.
Held(k) ==
  IF k[1] = "program"
  THEN ({days[k[2]]} \ {Nil}) \cup {c[2] : c \in {d \in cloud : d[1] = k[2]}}
  ELSE IF rooms[k[2]].maxsetp = Nil THEN {} ELSE {rooms[k[2]].maxsetp[2]}

\* Of these, what no later datagram with something newer has overtaken.
Late(k) == {v \in Nat : <<k, v>> \in overtaken}
Timely(m, k) == Told(m, k) \ Late(k)

\* What is held of k is no later than what is under way, and what is under way comes in
\* the order the device had it, but for what was overtaken; what the device has is the
\* latest.
InOrder(k) ==
  /\ \A v \in Held(k) : /\ v <= Present(k)
                        /\ \A i \in DOMAIN uplink : \A w \in Timely(uplink[i], k) : v <= w
  /\ \A i \in DOMAIN uplink : \A v \in Told(uplink[i], k) :
       /\ v <= Present(k)
       /\ \A j \in DOMAIN uplink : \A w \in Timely(uplink[j], k) : i < j => v <= w

\* The cloud only speaks to a proxy, and sends the programs replicated to it.
CloudEchoes ==
  \A i \in DOMAIN uplink : uplink[i].kind # "KNOCK" /\ uplink[i].src = Cloud =>
    /\ Proxy
    /\ uplink[i].kind = "PROGRAM" => <<uplink[i].slot, uplink[i].val>> \in cloud

LEMMA TopicKinds ==
  /\ \A s \in Slots : Day(s) \in Topics /\ Day(s)[1] = "program" /\ Day(s)[2] = s
  /\ \A r \in Rooms : Setpoint(r) \in Topics /\ Setpoint(r)[1] = "setpoint" /\ Setpoint(r)[2] = r
  /\ \A k \in Topics : \/ k[1] = "program" /\ k[2] \in Slots /\ k = Day(k[2])
                       \/ k[1] = "setpoint" /\ k[2] \in Rooms /\ k = Setpoint(k[2])
BY DEF Day, Setpoint, Topics

\* What is told, held and had are numbers.
LEMMA Numbers ==
  ASSUME Types, NEW k \in Topics
  PROVE  /\ \A m \in ToServer : Told(m, k) \subseteq Nat
         /\ Held(k) \subseteq Nat /\ Present(k) \in Nat
<1>1. ASSUME NEW m \in ToServer PROVE Told(m, k) \subseteq Nat
  <2>1. CASE k[1] = "program"
    BY <2>1, UpParts DEF Told
  <2>2. CASE k[1] # "program" /\ m.kind = "STATUS"
    <3>1. k[2] \in Rooms /\ "maxsetp" \in Fields
      BY <2>2, TopicKinds DEF Fields
    <3>2. m.set[k[2]].maxsetp \in Values
      BY <2>2, <3>1, UpParts
    <3> QED
      BY <2>2, <3>2 DEF Told, Values
  <2>3. CASE k[1] # "program" /\ m.kind # "STATUS"
    BY <2>3, UpParts DEF Told, Values
  <2> QED
    BY <2>1, <2>2, <2>3
<1>2. CASE k[1] = "program"
  <2>1. k[2] \in Slots
    BY <1>2, TopicKinds
  <2>2. days[k[2]] \in Nat \cup {Nil} /\ prog[k[2]] \in Nat /\ \A c \in cloud : c[2] \in Nat
    BY <2>1 DEF Types
  <2> QED
    BY <1>1, <1>2, <2>2 DEF Held, Present
<1>3. CASE k[1] # "program"
  <2>1. k[2] \in Rooms /\ "maxsetp" \in Fields
    BY <1>3, TopicKinds DEF Fields
  <2>2. set[k[2]].maxsetp \in Values /\ rooms[k[2]].maxsetp \in Values \cup {Nil}
    BY <2>1 DEF Types
  <2> QED
    BY <1>1, <1>3, <2>2 DEF Held, Present, Values
<1> QED
  BY <1>1, <1>2, <1>3

LEMMA TypesPassed ==
  ASSUME Types, \/ \E i \in DOMAIN uplink : OvertakeUplink(i)
                \/ \E i \in DOMAIN downlink : OvertakeDownlink(i)
  PROVE  Types'
<1>1. Event => events' \in 0 .. MaxEvents
  BY UdpServerAssumption DEF Event, Types
<1>2. ASSUME NEW i \in DOMAIN uplink, OvertakeUplink(i) PROVE Types'
  <2>1. uplink' \in Seq(ToServer)
    BY <1>2, SwappedKeeps DEF OvertakeUplink, Types
  <2>2. uplink[i] \in ToServer
    BY DEF Types
  <2>3. \A k \in Topics : Told(uplink[i], k) \subseteq Nat
    BY <2>2, Numbers
  <2>4. overtaken' \subseteq Topics \X Nat
    BY <1>2, <2>3 DEF OvertakeUplink, Types
  <2> QED
    BY <1>1, <1>2, <2>1, <2>4 DEF OvertakeUplink, Types, device, mirror, thread
<1>3. ASSUME NEW i \in DOMAIN downlink, OvertakeDownlink(i) PROVE Types'
  <2>1. downlink' \in Seq(ToDevice)
    BY <1>3, SwappedKeeps DEF OvertakeDownlink, Types
  <2> QED
    BY <1>1, <1>3, <2>1 DEF OvertakeDownlink, Types, device, mirror, thread, other
<1> QED
  BY <1>2, <1>3

LEMMA NumberNext ==
  ASSUME Types', NEW k \in Topics
  PROVE  Present(k)' \in Nat
<1>1. CASE k[1] = "program"
  BY <1>1, TopicKinds DEF Present, Types
<1>2. CASE k[1] # "program"
  <2>1. k[2] \in Rooms /\ "maxsetp" \in Fields
    BY <1>2, TopicKinds DEF Fields
  <2>2. set'[k[2]].maxsetp \in Values
    BY <2>1 DEF Types
  <2> QED
    BY <1>2, <2>2 DEF Present, Values
<1> QED
  BY <1>1, <1>2

\* The order is kept when a datagram leaves the queue, if what is held then was held
\* before, or the datagram was the first and told it.
LEMMA OrderLeaves ==
  ASSUME Types, Types', NEW k \in Topics, InOrder(k),
         NEW i \in DOMAIN uplink, Without(uplink', uplink, i),
         Present(k)' = Present(k), overtaken' = overtaken,
         \/ Held(k)' \subseteq Held(k)
         \/ i = 1 /\ Held(k)' \subseteq Held(k) \cup Told(uplink[1], k)
  PROVE  InOrder(k)'
<1>1. /\ Len(uplink) \in Nat /\ DOMAIN uplink = 1 .. Len(uplink) /\ i \in 1 .. Len(uplink)
      /\ DOMAIN uplink' = 1 .. (Len(uplink) - 1)
      /\ \A j \in 1 .. Len(uplink) : uplink[j] \in ToServer
  BY DEF Types, Without
<1> DEFINE at(j) == IF j < i THEN j ELSE j + 1
<1>2. \A j \in DOMAIN uplink' : /\ at(j) \in DOMAIN uplink /\ uplink'[j] = uplink[at(j)]
                                /\ i = 1 => at(j) > 1
  BY <1>1 DEF Without
<1>3. \A j, l \in DOMAIN uplink' : j < l => at(j) < at(l)
  BY <1>1
<1> HIDE DEF at
<1>4. /\ \A j \in DOMAIN uplink : Told(uplink[j], k) \subseteq Nat
      /\ Held(k) \subseteq Nat /\ Present(k) \in Nat
  BY <1>1, Numbers
<1>5. ASSUME NEW v \in Held(k)'
      PROVE  /\ v <= Present(k)'
             /\ \A j \in DOMAIN uplink' : \A w \in Timely(uplink'[j], k) : v <= w
  <2>1. CASE v \in Held(k)
    BY <1>2, <2>1 DEF InOrder
  <2>2. CASE i = 1 /\ v \in Told(uplink[1], k)
    BY <1>1, <1>2, <2>2 DEF InOrder
  <2> QED
    BY <1>5, <2>1, <2>2
<1>6. ASSUME NEW j \in DOMAIN uplink', NEW v \in Told(uplink'[j], k)
      PROVE  /\ v <= Present(k)'
             /\ \A l \in DOMAIN uplink' : \A w \in Timely(uplink'[l], k) : j < l => v <= w
  BY <1>2, <1>3 DEF InOrder
<1>7. \A m : Timely(m, k)' = Timely(m, k) /\ Told(m, k)' = Told(m, k)
  BY DEF Timely, Late, Told
<1> QED
  BY <1>5, <1>6, <1>7 DEF InOrder, Timely, Late, Told

\* It is kept when the device sends what it then has.
LEMMA OrderSends ==
  ASSUME Types, Types', NEW k \in Topics, InOrder(k),
         NEW ms \in Seq(ToServer), uplink' = uplink \o ms,
         \A i \in DOMAIN ms : Told(ms[i], k) \subseteq {Present(k)'},
         Held(k)' \subseteq Held(k), Present(k) <= Present(k)', overtaken' = overtaken
  PROVE  InOrder(k)'
<1>1. uplink \in Seq(ToServer)
  BY DEF Types
<1>2. /\ Len(uplink) \in Nat /\ DOMAIN uplink = 1 .. Len(uplink) /\ Len(ms) \in Nat
      /\ DOMAIN ms = 1 .. Len(ms) /\ DOMAIN uplink' = 1 .. (Len(uplink) + Len(ms))
  BY <1>1, ConcatProperties
<1>3. \A j \in DOMAIN uplink' : \/ j \in DOMAIN uplink /\ uplink'[j] = uplink[j]
                                \/ /\ j \notin DOMAIN uplink
                                   /\ Told(uplink'[j], k) \subseteq {Present(k)'}
  <2> TAKE j \in DOMAIN uplink'
  <2>1. CASE j <= Len(uplink)
    BY <1>1, <1>2, <2>1, ConcatProperties
  <2>2. CASE ~(j <= Len(uplink))
    <3>1. uplink'[j] = ms[j - Len(uplink)] /\ j - Len(uplink) \in DOMAIN ms
      BY <1>1, <1>2, <2>2, ConcatProperties
    <3> QED
      BY <1>2, <2>2, <3>1
  <2> QED
    BY <2>1, <2>2
<1>4. /\ \A j \in DOMAIN uplink : Told(uplink[j], k) \subseteq Nat
      /\ Held(k) \subseteq Nat /\ Present(k) \in Nat /\ Present(k)' \in Nat
  BY <1>1, <1>2, Numbers, NumberNext
<1>5. ASSUME NEW v \in Held(k)'
      PROVE  /\ v <= Present(k)'
             /\ \A j \in DOMAIN uplink' : \A w \in Timely(uplink'[j], k) : v <= w
  <2>1. v <= Present(k)'
    BY <1>4, <1>5 DEF InOrder
  <2>2. ASSUME NEW j \in DOMAIN uplink', NEW w \in Timely(uplink'[j], k)
        PROVE  v <= w
    BY <1>3, <1>5, <2>1, <2>2 DEF InOrder, Timely
  <2> QED
    BY <2>1, <2>2
<1>6. ASSUME NEW j \in DOMAIN uplink', NEW v \in Told(uplink'[j], k)
      PROVE  v <= Present(k)' /\ v \in Nat
  BY <1>3, <1>4 DEF InOrder
<1>7. ASSUME NEW j \in DOMAIN uplink', NEW v \in Told(uplink'[j], k),
             NEW l \in DOMAIN uplink', NEW w \in Timely(uplink'[l], k), j < l
      PROVE  v <= w
  <2>1. CASE l \in DOMAIN uplink /\ uplink'[l] = uplink[l]
    <3>1. j \in DOMAIN uplink /\ uplink'[j] = uplink[j]
      BY <1>2, <1>3, <1>7, <2>1
    <3> QED
      BY <1>7, <2>1, <3>1 DEF InOrder
  <2>2. CASE Told(uplink'[l], k) \subseteq {Present(k)'}
    BY <1>6, <1>7, <2>2 DEF Timely
  <2> QED
    BY <1>3, <2>1, <2>2
<1>8. \A m : Timely(m, k)' = Timely(m, k) /\ Told(m, k)' = Told(m, k)
  BY DEF Timely, Late, Told
<1> QED
  BY <1>5, <1>6, <1>7, <1>8 DEF InOrder

\* It is kept when the queue is emptied, or nothing changes.
LEMMA OrderStays ==
  ASSUME Types, NEW k \in Topics, InOrder(k),
         uplink' \in {uplink, <<>>}, Present(k)' = Present(k), Held(k)' \subseteq Held(k),
         overtaken' = overtaken
  PROVE  InOrder(k)'
<1>1. CASE uplink' = uplink
  BY <1>1 DEF InOrder, Told, Timely, Late
<1>2. CASE uplink' = <<>>
  BY <1>2 DEF InOrder
<1> QED
  BY <1>1, <1>2

\* What was told by a datagram overtaken by the next is noted, if that one tells something
\* newer: the order of the rest is kept.
LEMMA OrderSwapped ==
  ASSUME Types, NEW k \in Topics, InOrder(k), NEW i \in DOMAIN uplink, OvertakeUplink(i),
         Present(k)' = Present(k), Held(k)' = Held(k)
  PROVE  InOrder(k)'
<1>1. /\ uplink \in Seq(ToServer) /\ i + 1 \in DOMAIN uplink /\ uplink' = Swapped(uplink, i)
      /\ i \in Nat /\ DOMAIN uplink \subseteq Nat
  BY DEF OvertakeUplink, Types
<1>2. /\ DOMAIN uplink' = DOMAIN uplink /\ uplink'[i] = uplink[i + 1]
      /\ uplink'[i + 1] = uplink[i]
      /\ \A j \in DOMAIN uplink \ {i, i + 1} : uplink'[j] = uplink[j]
  BY <1>1, SwappedKeeps
<1>3. \A v \in Told(uplink[i], k), w \in Told(uplink[i + 1], k) :
        v < w => <<k, v>> \in overtaken'
  BY DEF OvertakeUplink
<1>4. overtaken \subseteq overtaken'
  BY DEF OvertakeUplink
<1> DEFINE At(j) == Told(uplink[j], k)
           Now(j) == {v \in At(j) : <<k, v>> \notin overtaken'}
<1>5. /\ \A j \in DOMAIN uplink : At(j) \subseteq Nat
      /\ Held(k) \subseteq Nat /\ Present(k) \in Nat
  BY <1>1, Numbers
<1>6. \A j \in DOMAIN uplink : Now(j) \subseteq Timely(uplink[j], k)
  BY <1>4, <1>5 DEF Timely, Late
<1>7. \A v \in At(i + 1), w \in Now(i) : v <= w
  BY <1>1, <1>3, <1>5
<1>8. \A j, l \in DOMAIN uplink : j < l => \A v \in At(j), w \in Now(l) : v <= w
  BY <1>6 DEF InOrder
<1>9. \A j \in DOMAIN uplink : /\ \A v \in At(j) : v <= Present(k)
                               /\ \A v \in Held(k), w \in Now(j) : v <= w
  BY <1>6 DEF InOrder
<1> DEFINE from(j) == IF j = i THEN i + 1 ELSE IF j = i + 1 THEN i ELSE j
<1>10. \A j \in DOMAIN uplink' : from(j) \in DOMAIN uplink /\ uplink'[j] = uplink[from(j)]
  BY <1>1, <1>2
<1>11. \A j, l \in DOMAIN uplink' :
         j < l => from(j) < from(l) \/ (from(j) = i + 1 /\ from(l) = i)
  BY <1>1, <1>2
<1> HIDE DEF from
<1>12. /\ \A v \in Held(k) : v <= Present(k)
       /\ \A v \in Held(k) : \A j \in DOMAIN uplink' : \A w \in Now(from(j)) : v <= w
  BY <1>9, <1>10 DEF InOrder
<1> HIDE DEF At, Now
<1>13. \A j, l \in DOMAIN uplink' : j < l => \A v \in At(from(j)), w \in Now(from(l)) : v <= w
  BY <1>7, <1>8, <1>10, <1>11
<1>14. \A j \in DOMAIN uplink' : /\ Told(uplink'[j], k) = At(from(j))
                                 /\ Told(uplink'[j], k) \ Late(k)' = Now(from(j))
  <2> TAKE j \in DOMAIN uplink'
  <2>1. Told(uplink'[j], k) = At(from(j)) /\ At(from(j)) \subseteq Nat
    BY <1>5, <1>10 DEF At
  <2>2. Late(k)' = {v \in Nat : <<k, v>> \in overtaken'}
    BY DEF Late
  <2> QED
    BY <2>1, <2>2, <1>10 DEF Now, At
<1>15. \A m : Told(m, k)' = Told(m, k) /\ Timely(m, k)' = Told(m, k) \ Late(k)'
  BY DEF Told, Timely
<1> QED
  BY <1>9, <1>10, <1>12, <1>13, <1>14, <1>15 DEF InOrder, At

\* Everything the device sends of a subject is what it then has.
LEMMA ToldNow ==
  ASSUME Types, Types', NEW k \in Topics
  PROVE  /\ Told([src |-> home, kind |-> "STATUS", set |-> set, synclost |-> unacked # {}], k)
              \subseteq {Present(k)}
         /\ \A s \in Slots, b \in BOOLEAN :
              /\ Told(ProgramMsg(s, prog[s], b), k) \subseteq {Present(k)}
              /\ Told(ProgramMsg(s, prog'[s], b), k) \subseteq {Present(k)'}
         /\ \A r \in Rooms, f \in Fields, b \in BOOLEAN :
              Told(SetMsg(r, f, b), k) \subseteq {Present(k)'}
         /\ \A m \in FromElsewhere : Told(m, k) = {}
         /\ Told([src |-> home, kind |-> "PING"], k) = {}
<1>1. Told([src |-> home, kind |-> "STATUS", set |-> set, synclost |-> unacked # {}], k)
        \subseteq {Present(k)}
  BY DEF Told, Present
<1>2. ASSUME NEW s \in Slots, NEW b \in BOOLEAN
      PROVE  /\ Told(ProgramMsg(s, prog[s], b), k) \subseteq {Present(k)}
             /\ Told(ProgramMsg(s, prog'[s], b), k) \subseteq {Present(k)'}
  BY DEF Told, Present, ProgramMsg
<1>3. ASSUME NEW r \in Rooms, NEW f \in Fields, NEW b \in BOOLEAN
      PROVE  Told(SetMsg(r, f, b), k) \subseteq {Present(k)'}
  BY DEF Told, Present, SetMsg
<1>4. ASSUME NEW m \in FromElsewhere PROVE Told(m, k) = {}
  BY DEF Told, FromElsewhere
<1>5. Told([src |-> home, kind |-> "PING"], k) = {}
  BY DEF Told
<1> QED
  BY <1>1, <1>2, <1>3, <1>4, <1>5

\* What a datagram of a kind tells.
LEMMA ToldOf ==
  ASSUME NEW m \in ToServer
  PROVE  /\ \A s \in Slots : Told(m, Day(s)) =
              IF m.kind = "PROGRAM" /\ m.src # Cloud /\ m.slot = s THEN {m.val} ELSE {}
         /\ \A r \in Rooms : m.kind = "STATUS" => Told(m, Setpoint(r)) = {m.set[r].maxsetp[2]}
         /\ \A r \in Rooms : m.kind = "SET" /\ m.room = r /\ m.field = "maxsetp" =>
              Told(m, Setpoint(r)) = {m.val[2]}
BY DEF Told, Day, Setpoint

\* The mirror's setpoints after a step of the handler.
RoomsFollow(m) ==
  \A r \in Rooms : \/ rooms'[r].maxsetp = rooms[r].maxsetp
                   \/ rooms'[r].maxsetp[2] \in Told(m, Setpoint(r))

\* The mirror's programs: a day is as it was, as m tells it, or as the cloud sends it.
DaysFollow(m) ==
  \A s \in Slots : \/ days'[s] = days[s]
                   \/ days'[s] \in Told(m, Day(s))
                   \/ s \in by_cloud' /\ <<s, days'[s]>> \in cloud

\* A program that m tells is stored, unless the step fails: then an answer is unheard.
Noted(m) ==
  \A s \in Slots :
    \/ s \in by_cloud'
    \/ days'[s] \in Told(m, Day(s))
    \/ /\ days'[s] = days[s] /\ s \notin by_cloud
       /\ \A v \in Told(m, Day(s)) : m.response => <<s, v>> \in unheard'

\* What is replicated is what m tells.
Replicated(m) == \A c \in cloud' : c \in cloud \/ c[2] \in Told(m, Day(c[1]))

\* What is echoed is what m tells and what was stored.
Echoed(m) ==
  \A i \in DOMAIN downlink' :
    \/ \E j \in DOMAIN downlink : downlink'[i] = downlink[j]
    \/ LET e == downlink'[i]
       IN  e.kind = "PROGRAM_ECHO" => e.val \in Told(m, Day(e.slot)) /\ days'[e.slot] = e.val

\* What every step of the handler does.
LEMMA Served ==
  ASSUME Types, CloudEchoes, NEW m \in ToSet(uplink), HandleMsg(m)
  PROVE  /\ m \in ToServer /\ m = uplink[1] /\ 1 \in DOMAIN uplink
         /\ uplink' = Tail(uplink) /\ Without(uplink', uplink, 1)
         /\ UNCHANGED device /\ cloud \subseteq cloud' /\ unheard \subseteq unheard'
         /\ overtaken' = overtaken
         /\ RoomsFollow(m) /\ DaysFollow(m) /\ Noted(m) /\ Replicated(m) /\ Echoed(m)
<1>1. Receiving(m)
  BY DEF HandleMsg, HandleStatus, HandleStatusFails, HandleProgram, HandleSet, HandleOther,
         HandleKnock, ReplicateFails, HandleCloudMsg, Local
<1>2. /\ m \in ToServer /\ m = uplink[1] /\ 1 \in DOMAIN uplink
      /\ Without(Tail(uplink), uplink, 1)
  BY <1>1, FirstInQueue
<1>3. m.kind # "KNOCK" /\ m.src = Cloud =>
        Proxy /\ (m.kind = "PROGRAM" => <<m.slot, m.val>> \in cloud)
  BY <1>2 DEF CloudEchoes
<1>4. m.kind # "PROGRAM" => \A s \in Slots : Told(m, Day(s)) = {}
  BY <1>2, ToldOf
<1>0. overtaken' = overtaken
  BY DEF HandleMsg, HandleStatus, HandleStatusFails, HandleProgram, HandleSet, HandleOther,
         HandleKnock, ReplicateFails, HandleCloudMsg, other
<1>5. ASSUME UNCHANGED <<device, days, cloud, unheard, by_cloud, downlink>>, m.kind # "PROGRAM"
      PROVE  /\ UNCHANGED device /\ cloud \subseteq cloud' /\ unheard \subseteq unheard'
             /\ DaysFollow(m) /\ Noted(m) /\ Replicated(m) /\ Echoed(m)
  BY <1>4, <1>5 DEF DaysFollow, Noted, Replicated, Echoed
<1>6. CASE HandleStatus(m)
  <2>1. m.kind = "STATUS" /\ \A r \in Rooms : rooms'[r].maxsetp = m.set[r].maxsetp
    BY <1>2, <1>6, Stored DEF HandleStatus
  <2>2. RoomsFollow(m)
    BY <1>2, <2>1, ToldOf DEF RoomsFollow
  <2>3. UNCHANGED <<device, days, cloud, unheard, by_cloud, downlink>> /\ uplink' = Tail(uplink)
    BY <1>6 DEF HandleStatus, Local, other
  <2> QED
    BY <1>0, <1>2, <1>5, <2>1, <2>2, <2>3
<1>7. CASE HandleStatusFails(m)
  <2>1. m.kind = "STATUS"
    BY <1>7 DEF HandleStatusFails
  <2>2. \A r \in Rooms : rooms'[r].maxsetp \in {rooms[r].maxsetp, m.set[r].maxsetp}
    BY <1>2, <1>7, <2>1, Stored DEF HandleStatusFails
  <2>3. RoomsFollow(m)
    BY <1>2, <2>1, <2>2, ToldOf DEF RoomsFollow
  <2>4. UNCHANGED <<device, days, cloud, unheard, by_cloud, downlink>> /\ uplink' = Tail(uplink)
    BY <1>7 DEF HandleStatusFails, Local, other
  <2> QED
    BY <1>0, <1>2, <1>5, <2>1, <2>3, <2>4
<1>8. CASE HandleProgram(m)
  <2>1. /\ m.kind = "PROGRAM" /\ m.slot \in Slots /\ m.val \in Nat /\ m.src # Cloud
        /\ uplink' = Tail(uplink) /\ UNCHANGED <<device, rooms, unheard>>
    BY <1>2, <1>3, <1>8, UpParts DEF HandleProgram, Local, FromCloud
  <2>2. Told(m, Day(m.slot)) = {m.val} /\ \A s \in Slots \ {m.slot} : Told(m, Day(s)) = {}
    BY <1>2, <2>1, ToldOf
  <2>3. /\ days' \in [Slots -> Nat \cup {Nil}] /\ days'[m.slot] = m.val
        /\ \A s \in Slots \ {m.slot} : days'[s] = days[s]
        /\ by_cloud' = by_cloud \ {m.slot}
    BY <1>8, <2>1 DEF HandleProgram, Types
  <2>4. cloud \subseteq cloud' /\ Replicated(m)
    <3>1. cloud' = cloud \/ cloud' = cloud \cup {<<m.slot, m.val>>}
      BY <1>8 DEF HandleProgram, Replicate
    <3>2. \A c \in {<<m.slot, m.val>>} : c[1] = m.slot /\ c[2] = m.val
      OBVIOUS
    <3>3. m.val \in Told(m, Day(m.slot))
      BY <2>2
    <3> QED
      BY <3>1, <3>2, <3>3 DEF Replicated
  <2>5. RoomsFollow(m) /\ DaysFollow(m) /\ Noted(m)
    BY <2>1, <2>2, <2>3 DEF RoomsFollow, DaysFollow, Noted
  <2>6. Echoed(m)
    <3> DEFINE e == [kind |-> "PROGRAM_ECHO", slot |-> m.slot, val |-> m.val]
               ms == IF m.response THEN <<>> ELSE <<e>>
    <3>1. e \in ToDevice
      BY <2>1 DEF ToDevice
    <3>2. e.kind = "PROGRAM_ECHO" /\ e.slot = m.slot /\ e.val = m.val
      OBVIOUS
    <3> HIDE DEF e
    <3>3. ms \in Seq(ToDevice) /\ \A i \in DOMAIN ms : ms[i] = e
      BY <3>1
    <3>4. SendTo(m.src, ms)
      BY <1>8 DEF HandleProgram, e
    <3> HIDE DEF ms
    <3>5. \A i \in DOMAIN downlink' : \/ \E j \in DOMAIN downlink : downlink'[i] = downlink[j]
                                      \/ downlink'[i] = e
      BY <3>3, <3>4, Arrives
    <3> QED
      BY <2>2, <2>3, <3>2, <3>5 DEF Echoed
  <2> QED
    BY <1>0, <1>2, <2>1, <2>4, <2>5, <2>6
<1>9. CASE HandleSet(m)
  <2>1. m.kind = "SET" /\ m.room \in Rooms /\ m.field \in Fields /\ m.val \in Values
    BY <1>2, <1>9, UpParts DEF HandleSet
  <2>2. \A r \in Rooms : \/ rooms'[r].maxsetp = rooms[r].maxsetp
                         \/ rooms'[r].maxsetp = m.val /\ m.room = r /\ m.field = "maxsetp"
    <3>1. rooms' = [rooms EXCEPT ![m.room] = [rooms[m.room] EXCEPT ![m.field] = m.val]]
      BY <1>9, <2>1 DEF HandleSet, Types
    <3>2. rooms[m.room] \in [Fields -> Values \cup {Nil}] /\ "maxsetp" \in Fields
      BY <2>1 DEF Types, Fields
    <3> QED
      BY <2>1, <3>1, <3>2 DEF Types
  <2>3. RoomsFollow(m)
    BY <1>2, <2>1, <2>2, ToldOf DEF RoomsFollow
  <2>4. UNCHANGED <<device, days, cloud, unheard, by_cloud, downlink>> /\ uplink' = Tail(uplink)
    BY <1>9 DEF HandleSet, Local, other
  <2> QED
    BY <1>0, <1>2, <1>5, <2>1, <2>3, <2>4
<1>10. CASE HandleOther(m)
  <2>1. /\ UNCHANGED <<device, rooms, days, cloud, unheard, by_cloud, downlink>>
        /\ uplink' = Tail(uplink) /\ m.kind = "PING"
    BY <1>10 DEF HandleOther, Local, other
  <2> QED
    BY <1>0, <1>2, <1>5, <2>1 DEF RoomsFollow
<1>11. CASE HandleKnock(m)
  <2>1. /\ UNCHANGED <<device, rooms, days, cloud, unheard, by_cloud, downlink>>
        /\ uplink' = Tail(uplink) /\ m.kind = "KNOCK"
    BY <1>11 DEF HandleKnock, mirror, other
  <2> QED
    BY <1>0, <1>2, <1>5, <2>1 DEF RoomsFollow
<1>12. CASE ReplicateFails(m)
  <2>1. /\ UNCHANGED <<device, rooms, days, cloud, by_cloud, downlink>>
        /\ uplink' = Tail(uplink) /\ unheard' = unheard \cup Announced(m)
    BY <1>12 DEF ReplicateFails, Local, mirror
  <2>2. \A s \in Slots : \A v \in Told(m, Day(s)) : m.response => <<s, v>> \in unheard'
    BY <1>2, <2>1, ToldOf DEF Announced
  <2> QED
    BY <1>0, <1>2, <2>1, <2>2 DEF RoomsFollow, DaysFollow, Noted, Replicated, Echoed
<1>13. CASE HandleCloudMsg(m)
  <2>1. /\ UNCHANGED <<device, rooms, cloud, unheard>> /\ uplink' = Tail(uplink)
        /\ m.kind # "KNOCK"
    BY <1>13 DEF HandleCloudMsg
  <2>2. \/ m.kind # "PROGRAM" /\ UNCHANGED <<days, by_cloud>>
        \/ /\ m.kind = "PROGRAM" /\ m.slot \in Slots /\ m.val \in Nat
           /\ days'[m.slot] = m.val /\ \A s \in Slots \ {m.slot} : days'[s] = days[s]
           /\ by_cloud' = by_cloud \cup {m.slot}
    BY <1>2, <1>13, UpParts DEF HandleCloudMsg, Types
  <2>3. RoomsFollow(m) /\ Replicated(m)
    BY <2>1 DEF RoomsFollow, Replicated
  <2>4. DaysFollow(m)
    BY <1>2, <1>3, <2>1, <2>2, ToldOf DEF DaysFollow
  <2>5. Noted(m)
    BY <1>2, <2>1, <2>2, ToldOf DEF Noted
  <2>6. Echoed(m)
    <3> DEFINE e == [kind |-> "FORWARD"]
               ms == IF m.kind = "PING" THEN <<>> ELSE <<e>>
    <3>1. e \in ToDevice
      BY DEF ToDevice
    <3>2. e.kind # "PROGRAM_ECHO"
      OBVIOUS
    <3> HIDE DEF e
    <3>3. ms \in Seq(ToDevice) /\ \A i \in DOMAIN ms : ms[i] = e
      BY <3>1
    <3>4. SendTo(FirstPeer, ms)
      BY <1>13 DEF HandleCloudMsg, e
    <3> HIDE DEF ms
    <3>5. \A i \in DOMAIN downlink' : \/ \E j \in DOMAIN downlink : downlink'[i] = downlink[j]
                                      \/ downlink'[i] = e
      BY <3>3, <3>4, Arrives
    <3> QED
      BY <3>2, <3>5 DEF Echoed
  <2> QED
    BY <1>0, <1>2, <2>1, <2>3, <2>4, <2>5, <2>6
<1> QED
  BY <1>6, <1>7, <1>8, <1>9, <1>10, <1>11, <1>12, <1>13 DEF HandleMsg
-----------------------------------------------------------------------------
(* What the device's echo and the mirror say of a program.                 *)

\* Nothing older than the program the device has is under way, and the mirror holds that
\* program, none, or what the cloud sent; but for what was overtaken.
Right(s) == {prog[s]} \cup Late(Day(s))
Known(s) ==
  /\ \A i \in DOMAIN uplink : Told(uplink[i], Day(s)) \subseteq Right(s)
  /\ days[s] \in {Nil} \cup Right(s) \/ s \in by_cloud

\* An echo under way to the device is of a program it had; if it still has it, it is known.
EchoedKnown ==
  \A i \in DOMAIN downlink : downlink[i].kind = "PROGRAM_ECHO" =>
    /\ downlink[i].val <= prog[downlink[i].slot]
    /\ downlink[i].val = prog[downlink[i].slot] => Known(downlink[i].slot)

\* The answer to a PUT that announces the program the device has is under way.
Answer(m, s) == m.kind = "PROGRAM" /\ m.src # Cloud /\ m.response /\ m.slot = s
Answering(s) == \E i \in DOMAIN uplink : Answer(uplink[i], s) /\ uplink[i].val = prog[s]

\* No program is left without what would bring it to the mirror.
Accounted(s) == s \in unacked \/ <<s, prog[s]>> \in unheard \/ Answering(s) \/ Known(s)

IInv ==
  /\ Types
  /\ \A k \in Topics : InOrder(k)
  /\ CloudEchoes /\ EchoedKnown
  /\ \A s \in Slots : Accounted(s)

\* What is sent to the server is what the device has after the step, or the cloud's.
Fresh(ms) ==
  /\ \A k \in Topics : \A i \in DOMAIN ms : Told(ms[i], k) \subseteq {Present(k)'}
  /\ \A i \in DOMAIN ms : ms[i].kind # "KNOCK" /\ ms[i].src = Cloud =>
       Proxy /\ (ms[i].kind = "PROGRAM" => <<ms[i].slot, ms[i].val>> \in cloud)

\* A program the device changes is uploaded until it is echoed, or announced by an answer.
Announcing ==
  \A s \in Slots :
    \/ prog'[s] = prog[s]
    \/ prog'[s] = prog[s] + 1 /\ (s \in unacked' \/ Answering(s)')

\* A program is no longer reported as lost once it has been echoed.
Acking ==
  \A s \in unacked :
    \/ s \in unacked'
    \/ \E i \in DOMAIN downlink : /\ downlink[i].kind = "PROGRAM_ECHO"
                                  /\ downlink[i].slot = s /\ downlink[i].val = prog[s]

Sent ==
  /\ \E ms \in Seq(ToServer) : uplink' = uplink \o ms /\ Fresh(ms)
  /\ \A k \in Topics : Present(k) <= Present(k)'
  /\ UNCHANGED <<rooms, days, cloud, unheard, by_cloud, overtaken>>
  /\ \A i \in DOMAIN downlink' : \E j \in DOMAIN downlink : downlink'[i] = downlink[j]
  /\ Announcing /\ Acking

\* A queue that gets x last.
LEMMA SentLast ==
  ASSUME Types, NEW x \in ToServer, Up(<<x>>)
  PROVE  /\ <<x>> \in Seq(ToServer) /\ uplink' = uplink \o <<x>>
         /\ \A i \in DOMAIN <<x>> : <<x>>[i] = x
         /\ \E i \in DOMAIN uplink' : uplink'[i] = x
<1>1. /\ uplink \in Seq(ToServer) /\ <<x>> \in Seq(ToServer) /\ uplink' = uplink \o <<x>>
      /\ Len(<<x>>) = 1
  BY DEF Types, Up
<1>2. Len(uplink') = Len(uplink) + 1 /\ uplink'[Len(uplink) + 1] = x /\ uplink' \in Seq(ToServer)
  BY <1>1
<1> QED
  BY <1>1, <1>2

LEMMA NotSent ==
  ASSUME Types, UNCHANGED uplink
  PROVE  <<>> \in Seq(ToServer) /\ uplink' = uplink \o <<>> /\ DOMAIN <<>> = {}
BY ConcatEmptySeq DEF Types

\* A subject's value only grows, when the device turns a setpoint or changes a program.
LEMMA Later ==
  ASSUME Types, Types', NEW k \in Topics,
         \/ UNCHANGED <<set, prog>>
         \/ UNCHANGED prog /\ \E r \in Rooms, f \in Fields : ApplySet(r, f)
         \/ UNCHANGED set /\ \E s \in Slots : ApplyProgram(s)
  PROVE  Present(k) <= Present(k)'
<1>1. Present(k) \in Nat /\ Present(k)' \in Nat
  BY Numbers, NumberNext
<1>2. CASE UNCHANGED <<set, prog>>
  BY <1>1, <1>2 DEF Present
<1>3. ASSUME UNCHANGED prog, NEW r \in Rooms, NEW f \in Fields, ApplySet(r, f)
      PROVE  Present(k) <= Present(k)'
  <2>1. CASE k[1] = "program"
    BY <1>1, <1>3, <2>1 DEF Present
  <2>2. CASE k[1] # "program"
    <3>1. k[2] \in Rooms /\ "maxsetp" \in Fields
      BY <2>2, TopicKinds DEF Fields
    <3>2. \/ set'[k[2]].maxsetp = set[k[2]].maxsetp
          \/ set'[k[2]].maxsetp[2] = set[k[2]].maxsetp[2] + 1
      BY <1>3, <3>1, Settings
    <3> QED
      BY <1>1, <2>2, <3>2 DEF Present
  <2> QED
    BY <2>1, <2>2
<1>4. ASSUME UNCHANGED set, NEW s \in Slots, ApplyProgram(s)
      PROVE  Present(k) <= Present(k)'
  <2>1. CASE k[1] = "program"
    <3>1. k[2] \in Slots
      BY <2>1, TopicKinds
    <3>2. prog'[k[2]] = prog[k[2]] \/ prog'[k[2]] = prog[k[2]] + 1
      BY <1>4, <3>1, Settings
    <3> QED
      BY <1>1, <2>1, <3>2 DEF Present
  <2>2. CASE k[1] # "program"
    BY <1>1, <1>4, <2>2 DEF Present
  <2> QED
    BY <2>1, <2>2
<1> QED
  BY <1>2, <1>3, <1>4

LEMMA SentOne ==
  ASSUME Types, NEW x \in ToServer, Up(<<x>>),
         \A k \in Topics : Told(x, k) \subseteq {Present(k)'},
         x.kind # "KNOCK" /\ x.src = Cloud =>
           Proxy /\ (x.kind = "PROGRAM" => <<x.slot, x.val>> \in cloud)
  PROVE  \E ms \in Seq(ToServer) : uplink' = uplink \o ms /\ Fresh(ms)
<1> DEFINE ms == <<x>>
<1>1. ms \in Seq(ToServer) /\ uplink' = uplink \o ms /\ \A i \in DOMAIN ms : ms[i] = x
  BY SentLast
<1> HIDE DEF ms
<1>2. Fresh(ms)
  BY <1>1 DEF Fresh
<1> QED
  BY <1>1, <1>2

\* The device's handling of a request or an echo.
LEMMA Received ==
  ASSUME Types, Types', DeviceReceive
  PROVE  Sent
<1>0. PICK m : m = Head(downlink)
  OBVIOUS
<1>1. /\ m \in ToDevice /\ 1 \in DOMAIN downlink /\ m = downlink[1]
      /\ Without(Tail(downlink), downlink, 1) /\ Tail(downlink) \in Seq(ToDevice)
      /\ downlink \in Seq(ToDevice)
  BY <1>0, HeadRemoved DEF DeviceReceive, Types
<1>2. home # Cloud
  BY UdpServerAssumption DEF Types
<1>3. downlink' = Tail(downlink) /\ UNCHANGED <<rooms, days, cloud, unheard, by_cloud, overtaken>>
  BY DEF DeviceReceive, mirror, other
<1>4. \A i \in DOMAIN downlink' : \E j \in DOMAIN downlink : downlink'[i] = downlink[j]
  <2> TAKE i \in DOMAIN downlink'
  <2>1. i + 1 \in DOMAIN downlink /\ downlink'[i] = downlink[i + 1]
    BY <1>1, <1>3 DEF Without
  <2> QED
    BY <2>1
<1>5. CASE /\ m.kind = "SET" /\ ApplySet(m.room, m.field)
           /\ Up(<<SetMsg(m.room, m.field, TRUE)>>) /\ UNCHANGED <<prog, unacked>>
  <2> DEFINE x == SetMsg(m.room, m.field, TRUE)
  <2>1. m.room \in Rooms /\ m.field \in Fields
    BY <1>1, <1>5, DownParts
  <2>2. x \in ToServer /\ x.src # Cloud /\ \A k \in Topics : Told(x, k) \subseteq {Present(k)'}
    <3>1. x \in ToServer
      BY <2>1, Reports DEF Types
    <3>2. x.src = home
      BY DEF SetMsg
    <3> QED
      BY <1>2, <2>1, <3>1, <3>2, ToldNow
  <2> HIDE DEF x
  <2>3. Up(<<x>>)
    BY <1>5 DEF x
  <2>4. \E ms \in Seq(ToServer) : uplink' = uplink \o ms /\ Fresh(ms)
    BY <2>2, <2>3, SentOne
  <2>5. \A k \in Topics : Present(k) <= Present(k)'
    BY <1>5, <2>1, Later
  <2> QED
    BY <1>3, <1>4, <1>5, <2>4, <2>5 DEF Sent, Announcing, Acking
<1>6. CASE /\ m.kind = "PROGRAM" /\ ApplyProgram(m.slot)
           /\ Up(<<ProgramMsg(m.slot, prog'[m.slot], TRUE)>>) /\ UNCHANGED <<set, unacked>>
  <2> DEFINE x == ProgramMsg(m.slot, prog'[m.slot], TRUE)
  <2>1. m.slot \in Slots
    BY <1>1, <1>6, DownParts
  <2>2. x \in ToServer /\ \A k \in Topics : Told(x, k) \subseteq {Present(k)'}
    BY <2>1, Reports, ToldNow DEF Types
  <2>3. x.src # Cloud /\ Answer(x, m.slot) /\ x.val = prog'[m.slot]
    BY <1>2 DEF ProgramMsg, Answer
  <2> HIDE DEF x
  <2>4. Up(<<x>>)
    BY <1>6 DEF x
  <2>5. \E ms \in Seq(ToServer) : uplink' = uplink \o ms /\ Fresh(ms)
    BY <2>2, <2>3, <2>4, SentOne
  <2>6. \A k \in Topics : Present(k) <= Present(k)'
    BY <1>6, <2>1, Later
  <2>7. Answering(m.slot)'
    <3>1. PICK i \in DOMAIN uplink' : uplink'[i] = x
      BY <2>2, <2>4, SentLast
    <3> QED
      BY <2>3, <3>1 DEF Answering, Answer
  <2>8. Announcing
    BY <1>6, <2>1, <2>7, Settings DEF Announcing
  <2> QED
    BY <1>3, <1>4, <1>6, <2>5, <2>6, <2>8 DEF Sent, Acking
<1>7. CASE /\ m.kind = "PROGRAM_ECHO"
           /\ unacked' = IF m.val = prog[m.slot] THEN unacked \ {m.slot} ELSE unacked
           /\ UNCHANGED <<set, prog, uplink>>
  <2>1. \E ms \in Seq(ToServer) : uplink' = uplink \o ms /\ Fresh(ms)
    BY <1>7, NotSent DEF Fresh
  <2>2. \A k \in Topics : Present(k) <= Present(k)'
    BY <1>7, Later
  <2>3. Announcing
    BY <1>7 DEF Announcing
  <2>4. Acking
    BY <1>1, <1>7 DEF Acking
  <2> QED
    BY <1>3, <1>4, <2>1, <2>2, <2>3, <2>4 DEF Sent
<1>8. CASE /\ m.kind = "GET_PROG" /\ Up(Uploads(m.room)) /\ UNCHANGED <<set, prog, unacked>>
  <2> DEFINE u == Uploads(m.room)
  <2>1. m.room \in Rooms
    BY <1>1, <1>8, DownParts
  <2>2. /\ u \in Seq(ToServer)
        /\ \A i \in DOMAIN u : \E s \in Slots : u[i] = ProgramMsg(s, prog[s], FALSE)
    BY <2>1, UploadsListed
  <2>3. uplink' = uplink \o u
    BY <1>8 DEF Up
  <2> HIDE DEF u
  <2>4. \A k \in Topics : Present(k)' = Present(k)
    BY <1>8 DEF Present
  <2>5. \A s \in Slots : ProgramMsg(s, prog[s], FALSE).src # Cloud
    BY <1>2 DEF ProgramMsg
  <2>6. \A k \in Topics, s \in Slots :
          Told(ProgramMsg(s, prog[s], FALSE), k) \subseteq {Present(k)}
    BY ToldNow
  <2>7. Fresh(u)
    BY <2>2, <2>4, <2>5, <2>6 DEF Fresh
  <2>8. \A k \in Topics : Present(k) <= Present(k)'
    BY <1>8, Later
  <2> QED
    BY <1>3, <1>4, <1>8, <2>2, <2>3, <2>7, <2>8 DEF Sent, Announcing, Acking
<1>9. CASE UNCHANGED <<set, prog, unacked, uplink>>
  <2>1. \E ms \in Seq(ToServer) : uplink' = uplink \o ms /\ Fresh(ms)
    BY <1>9, NotSent DEF Fresh
  <2>2. \A k \in Topics : Present(k) <= Present(k)'
    BY <1>9, Later
  <2> QED
    BY <1>3, <1>4, <1>9, <2>1, <2>2 DEF Sent, Announcing, Acking
<1> QED
  BY <1>0, <1>5, <1>6, <1>7, <1>8, <1>9 DEF DeviceReceive, Uploads
\* The other steps that send to the server.
LEMMA SentOthers ==
  ASSUME Types, Types',
         \/ SendStatus \/ SendOther \/ Knock
         \/ \E r \in Rooms, f \in Fields : TurnSetpoint(r, f)
         \/ \E s \in Slots : EditProgram(s)
         \/ \E k \in CloudKinds : CloudSend(k)
  PROVE  Sent
<1>1. home # Cloud
  BY UdpServerAssumption DEF Types
<1>2. ASSUME UNCHANGED <<rooms, days, cloud, unheard, by_cloud, overtaken, downlink>>,
             UNCHANGED <<set, prog, unacked>>,
             NEW x \in ToServer, Up(<<x>>),
             \A k \in Topics : Told(x, k) \subseteq {Present(k)},
             x.kind # "KNOCK" /\ x.src = Cloud =>
               Proxy /\ (x.kind = "PROGRAM" => <<x.slot, x.val>> \in cloud)
      PROVE  Sent
  <2>1. \A k \in Topics : Present(k)' = Present(k)
    BY <1>2 DEF Present
  <2>2. \E ms \in Seq(ToServer) : uplink' = uplink \o ms /\ Fresh(ms)
    BY <1>2, <2>1, SentOne
  <2>3. \A k \in Topics : Present(k) <= Present(k)'
    BY <1>2, Later
  <2> QED
    BY <1>2, <2>2, <2>3 DEF Sent, Announcing, Acking
<1>3. CASE SendStatus
  <2>1. PICK x : x = [src |-> home, kind |-> "STATUS", set |-> set, synclost |-> unacked # {}]
    OBVIOUS
  <2>2. x \in ToServer /\ x.src = home /\ \A k \in Topics : Told(x, k) \subseteq {Present(k)}
    BY <2>1, Reports, ToldNow
  <2>3. /\ UNCHANGED <<rooms, days, cloud, unheard, by_cloud, overtaken, downlink>>
        /\ UNCHANGED <<set, prog, unacked>> /\ Up(<<x>>)
    BY <1>3, <2>1 DEF SendStatus, device, mirror, other
  <2> QED
    BY <1>1, <1>2, <2>2, <2>3
<1>4. CASE SendOther
  <2>1. PICK x : x = [src |-> home, kind |-> "PING"]
    OBVIOUS
  <2>2. x \in ToServer /\ x.src = home /\ \A k \in Topics : Told(x, k) \subseteq {Present(k)}
    BY <2>1, Reports, ToldNow
  <2>3. /\ UNCHANGED <<rooms, days, cloud, unheard, by_cloud, overtaken, downlink>>
        /\ UNCHANGED <<set, prog, unacked>> /\ Up(<<x>>)
    BY <1>4, <2>1 DEF SendOther, device, mirror, other
  <2> QED
    BY <1>1, <1>2, <2>2, <2>3
<1>5. CASE Knock
  <2>1. PICK x : x = [src |-> Nil, kind |-> "KNOCK"]
    OBVIOUS
  <2>2. x \in FromElsewhere /\ x \in ToServer /\ x.kind = "KNOCK"
    BY <2>1 DEF FromElsewhere, ToServer
  <2>3. /\ UNCHANGED <<rooms, days, cloud, unheard, by_cloud, overtaken, downlink>>
        /\ UNCHANGED <<set, prog, unacked>> /\ Up(<<x>>)
    BY <1>5, <2>1 DEF Knock, device, mirror, other
  <2> QED
    BY <1>2, <2>2, <2>3, ToldNow
<1>6. ASSUME NEW k \in CloudKinds, CloudSend(k) PROVE Sent
  <2>1. /\ UNCHANGED <<rooms, days, cloud, unheard, by_cloud, overtaken, downlink>>
        /\ UNCHANGED <<set, prog, unacked>> /\ Proxy
    BY <1>6 DEF CloudSend, device, mirror, other
  <2>2. CASE k = "PROGRAM"
    <3>1. PICK u \in cloud : Up(<<[src |-> Cloud, kind |-> k, slot |-> u[1], val |-> u[2]]>>)
      BY <1>6, <2>2 DEF CloudSend
    <3>2. u[1] \in Slots /\ u[2] \in Nat /\ u = <<u[1], u[2]>>
      BY DEF Types
    <3>3. PICK x : x = [src |-> Cloud, kind |-> k, slot |-> u[1], val |-> u[2]]
      OBVIOUS
    <3>4. x \in FromElsewhere /\ x \in ToServer /\ x.slot = u[1] /\ x.val = u[2]
      BY <2>2, <3>2, <3>3 DEF FromElsewhere, ToServer
    <3> QED
      BY <1>2, <2>1, <3>1, <3>2, <3>3, <3>4, ToldNow
  <2>3. CASE k # "PROGRAM"
    <3>1. PICK x : x = [src |-> Cloud, kind |-> k]
      OBVIOUS
    <3>2. Up(<<x>>) /\ k \in {"ack", "PING"}
      BY <1>6, <2>3, <3>1, UdpServerAssumption DEF CloudSend
    <3>3. x \in FromElsewhere /\ x \in ToServer /\ x.kind # "PROGRAM"
      BY <2>3, <3>1, <3>2 DEF FromElsewhere, ToServer
    <3> QED
      BY <1>2, <2>1, <3>2, <3>3, ToldNow
  <2> QED
    BY <2>2, <2>3
<1>7. ASSUME NEW r \in Rooms, NEW f \in Fields, TurnSetpoint(r, f) PROVE Sent
  <2>1. /\ UNCHANGED <<rooms, days, cloud, unheard, by_cloud, overtaken, downlink, prog, unacked>>
        /\ ApplySet(r, f)
    BY <1>7 DEF TurnSetpoint, mirror, other
  <2>2. \E ms \in Seq(ToServer) : uplink' = uplink \o ms /\ Fresh(ms)
    <3>1. CASE UNCHANGED uplink
      BY <3>1, NotSent DEF Fresh
    <3>2. CASE Up(<<SetMsg(r, f, FALSE)>>)
      <4>1. PICK x : x = SetMsg(r, f, FALSE)
        OBVIOUS
      <4>2. x \in ToServer /\ x.src = home /\ \A k \in Topics : Told(x, k) \subseteq {Present(k)'}
        <5>1. x \in ToServer
          BY <4>1, Reports DEF Types
        <5>2. x.src = home
          BY <4>1 DEF SetMsg
        <5> QED
          BY <4>1, <5>1, <5>2, ToldNow
      <4> QED
        BY <1>1, <3>2, <4>1, <4>2, SentOne
    <3> QED
      BY <1>7, <3>1, <3>2 DEF TurnSetpoint
  <2>3. \A k \in Topics : Present(k) <= Present(k)'
    BY <2>1, Later
  <2> QED
    BY <2>1, <2>2, <2>3 DEF Sent, Announcing, Acking
<1>8. ASSUME NEW s \in Slots, EditProgram(s) PROVE Sent
  <2>1. /\ UNCHANGED <<rooms, days, cloud, unheard, by_cloud, overtaken, downlink, set>>
        /\ ApplyProgram(s) /\ unacked' = unacked \cup {s}
    BY <1>8 DEF EditProgram, mirror, other
  <2>2. PICK x : x = ProgramMsg(s, prog'[s], FALSE)
    OBVIOUS
  <2>3. x \in ToServer /\ x.src = home /\ \A k \in Topics : Told(x, k) \subseteq {Present(k)'}
    <3>1. x \in ToServer /\ \A k \in Topics : Told(x, k) \subseteq {Present(k)'}
      BY <2>2, Reports, ToldNow DEF Types
    <3>2. x.src = home
      BY <2>2 DEF ProgramMsg
    <3> QED
      BY <3>1, <3>2
  <2>4. Up(<<x>>)
    BY <1>8, <2>2 DEF EditProgram
  <2>5. \E ms \in Seq(ToServer) : uplink' = uplink \o ms /\ Fresh(ms)
    BY <1>1, <2>3, <2>4, SentOne
  <2>6. \A k \in Topics : Present(k) <= Present(k)'
    BY <2>1, Later
  <2>7. Announcing
    BY <2>1, Settings DEF Announcing
  <2> QED
    BY <2>1, <2>5, <2>6, <2>7 DEF Sent, Acking
<1> QED
  BY <1>3, <1>4, <1>5, <1>6, <1>7, <1>8

-----------------------------------------------------------------------------
(* The invariant.                                                          *)

\* A datagram that leaves the queue, handled or lost, leaves the rest accounted for.
LEMMA AccountLeaves ==
  ASSUME Types, Types', NEW s \in Slots, InOrder(Day(s)), Accounted(s),
         NEW i \in DOMAIN uplink, Without(uplink', uplink, i),
         UNCHANGED device, unheard \subseteq unheard', overtaken' = overtaken,
         \/ i = 1 /\ s \in by_cloud'
         \/ i = 1 /\ days'[s] \in Told(uplink[1], Day(s))
         \/ /\ days'[s] = days[s]
            /\ s \in by_cloud => s \in by_cloud'
            /\ \A v \in Told(uplink[i], Day(s)) : uplink[i].response => <<s, v>> \in unheard'
  PROVE  /\ Accounted(s)'
         /\ Known(s) => Known(s)'
         /\ i = 1 /\ days'[s] = prog[s] /\ prog[s] \in Told(uplink[1], Day(s)) => Known(s)'
<1> DEFINE k == Day(s)
<1>1. /\ Len(uplink) \in Nat /\ DOMAIN uplink = 1 .. Len(uplink) /\ i \in 1 .. Len(uplink)
      /\ DOMAIN uplink' = 1 .. (Len(uplink) - 1)
      /\ \A j \in 1 .. Len(uplink) : uplink[j] \in ToServer
      /\ prog' = prog /\ unacked' = unacked /\ prog[s] \in Nat
      /\ k \in Topics /\ Present(k) = prog[s]
  BY TopicKinds DEF Types, Without, device, Present
<1>2. \A j \in DOMAIN uplink' : \E l \in DOMAIN uplink :
        uplink'[j] = uplink[l] /\ l # i /\ (i = 1 => l > 1)
  <2> TAKE j \in DOMAIN uplink'
  <2>1. CASE j < i
    BY <1>1, <2>1 DEF Without
  <2>2. CASE j >= i
    <3>1. /\ j + 1 \in DOMAIN uplink /\ uplink'[j] = uplink[j + 1]
          /\ j + 1 # i /\ (i = 1 => j + 1 > 1)
      BY <1>1, <2>2 DEF Without
    <3> QED
      BY <3>1
  <2> QED
    BY <1>1, <2>1, <2>2
<1>3. \A l \in DOMAIN uplink : l # i => \E j \in DOMAIN uplink' : uplink'[j] = uplink[l]
  <2> TAKE l \in DOMAIN uplink
  <2>1. CASE l < i
    BY <1>1, <2>1 DEF Without
  <2>2. CASE l > i
    <3>1. l - 1 \in DOMAIN uplink' /\ uplink'[l - 1] = uplink[l]
      BY <1>1, <2>2 DEF Without
    <3> QED
      BY <3>1
  <2> QED
    BY <1>1, <2>1, <2>2
<1> HIDE DEF k
<1>4. \A j \in DOMAIN uplink : \A v \in Told(uplink[j], k) : v \in Nat /\ v <= prog[s]
  BY <1>1, Numbers DEF InOrder, k
\* What comes after the present program is the present program.
<1>5. ASSUME i = 1, prog[s] \in Told(uplink[1], k), NEW j \in DOMAIN uplink'
      PROVE  Told(uplink'[j], k) \subseteq Right(s)
  <2>1. PICK l \in DOMAIN uplink : uplink'[j] = uplink[l] /\ l > 1
    BY <1>2, <1>5
  <2>2. ASSUME NEW w \in Told(uplink[l], k), w \notin Late(k) PROVE w = prog[s]
    <3>1. prog[s] <= w
      BY <1>1, <1>5, <2>1, <2>2 DEF InOrder, Timely, k
    <3> QED
      BY <1>1, <1>4, <2>2, <3>1
  <2> QED
    BY <2>1, <2>2 DEF Right, k
<1>6. Known(s)' <=> /\ \A j \in DOMAIN uplink' : Told(uplink'[j], k) \subseteq Right(s)
                    /\ days'[s] \in {Nil} \cup Right(s) \/ s \in by_cloud'
  <2>1. Right(s)' = Right(s) /\ \A m : Told(m, Day(s))' = Told(m, Day(s))
    BY <1>1 DEF Right, Late, Told, Day
  <2> QED
    BY <2>1 DEF Known, k
<1>7. ASSUME Known(s) PROVE Known(s)'
  <2>1. \A j \in DOMAIN uplink' : Told(uplink'[j], k) \subseteq Right(s)
    BY <1>2, <1>7 DEF Known, k
  <2>2. days'[s] \in {Nil} \cup Right(s) \/ s \in by_cloud'
    <3>1. days[s] \in {Nil} \cup Right(s) \/ s \in by_cloud
      BY <1>7 DEF Known
    <3>2. Told(uplink[i], Day(s)) \subseteq Right(s)
      BY <1>7 DEF Known
    <3> QED
      BY <3>1, <3>2
  <2> QED
    BY <1>6, <2>1, <2>2
<1>8. ASSUME i = 1, days'[s] = prog[s] \/ s \in by_cloud', prog[s] \in Told(uplink[1], k)
      PROVE  Known(s)'
  BY <1>5, <1>6, <1>8 DEF Right
<1>9. ASSUME Answering(s) PROVE Accounted(s)'
  <2>1. PICK l \in DOMAIN uplink : Answer(uplink[l], s) /\ uplink[l].val = prog[s]
    BY <1>9 DEF Answering
  <2>2. CASE l # i
    BY <1>1, <1>3, <2>1, <2>2 DEF Accounted, Answering, Answer
  <2>3. CASE l = i
    <3>1. Told(uplink[i], k) = {prog[s]} /\ uplink[i].response
      BY <1>1, <2>1, <2>3, ToldOf DEF Answer, k
    <3>2. Known(s)' \/ <<s, prog[s]>> \in unheard'
      BY <1>8, <3>1 DEF k
    <3> QED
      BY <1>1, <3>2 DEF Accounted
  <2> QED
    BY <2>2, <2>3
<1>10. Accounted(s)'
  BY <1>1, <1>7, <1>9 DEF Accounted
<1> QED
  BY <1>7, <1>8, <1>10 DEF k
\* Two queues joined.
LEMMA Joined ==
  ASSUME Types, NEW ms \in Seq(ToServer), uplink' = uplink \o ms
  PROVE  /\ \A j \in DOMAIN uplink' : \/ \E l \in DOMAIN uplink : uplink'[j] = uplink[l]
                                      \/ \E l \in DOMAIN ms : uplink'[j] = ms[l]
         /\ \A l \in DOMAIN uplink : l \in DOMAIN uplink' /\ uplink'[l] = uplink[l]
<1>1. uplink \in Seq(ToServer)
  BY DEF Types
<1>2. /\ Len(uplink) \in Nat /\ DOMAIN uplink = 1 .. Len(uplink) /\ Len(ms) \in Nat
      /\ DOMAIN ms = 1 .. Len(ms) /\ DOMAIN uplink' = 1 .. (Len(uplink) + Len(ms))
  BY <1>1, ConcatProperties
<1>3. ASSUME NEW j \in DOMAIN uplink'
      PROVE  \/ \E l \in DOMAIN uplink : uplink'[j] = uplink[l]
             \/ \E l \in DOMAIN ms : uplink'[j] = ms[l]
  <2>1. CASE j <= Len(uplink)
    BY <1>1, <1>2, <2>1, ConcatProperties
  <2>2. CASE ~(j <= Len(uplink))
    <3>1. uplink'[j] = ms[j - Len(uplink)] /\ j - Len(uplink) \in DOMAIN ms
      BY <1>1, <1>2, <2>2, ConcatProperties
    <3> QED
      BY <3>1
  <2> QED
    BY <2>1, <2>2
<1>4. \A l \in DOMAIN uplink : l \in DOMAIN uplink' /\ uplink'[l] = uplink[l]
  BY <1>1, <1>2, ConcatProperties
<1> QED
  BY <1>3, <1>4

\* The echoes that are left, and those just sent, are still right.
LEMMA EchoesStay ==
  ASSUME Types, EchoedKnown,
         \A s \in Slots : /\ prog'[s] = prog[s] \/ prog'[s] = prog[s] + 1
                          /\ (prog'[s] = prog[s] /\ Known(s)) => Known(s)',
         \A i \in DOMAIN downlink' : \A e : e = downlink'[i] /\ e.kind = "PROGRAM_ECHO" =>
           \/ \E j \in DOMAIN downlink : e = downlink[j]
           \/ e.val <= prog'[e.slot] /\ (e.val = prog'[e.slot] => Known(e.slot)')
  PROVE  EchoedKnown'
<1>1. ASSUME NEW i \in DOMAIN downlink', NEW e, e = downlink'[i], e.kind = "PROGRAM_ECHO",
             NEW j \in DOMAIN downlink, e = downlink[j]
      PROVE  e.val <= prog'[e.slot] /\ (e.val = prog'[e.slot] => Known(e.slot)')
  <2>1. e \in ToDevice
    BY <1>1 DEF Types
  <2>2. e.slot \in Slots /\ e.val \in Nat /\ prog[e.slot] \in Nat
    BY <1>1, <2>1, DownParts DEF Types
  <2>3. e.val <= prog[e.slot] /\ (e.val = prog[e.slot] => Known(e.slot))
    BY <1>1 DEF EchoedKnown
  <2> QED
    BY <2>2, <2>3
<1>2. ASSUME NEW i \in DOMAIN downlink', NEW e, e = downlink'[i], e.kind = "PROGRAM_ECHO"
      PROVE  e.val <= prog'[e.slot] /\ (e.val = prog'[e.slot] => Known(e.slot)')
  BY <1>1, <1>2
<1> DEFINE RightNow(s) == {prog'[s]} \cup {v \in Nat : <<Day(s), v>> \in overtaken'}
<1>3. ASSUME NEW i \in DOMAIN downlink', downlink'[i].kind = "PROGRAM_ECHO"
      PROVE  /\ downlink'[i].val <= prog'[downlink'[i].slot]
             /\ downlink'[i].val = prog'[downlink'[i].slot] =>
                  /\ \A j \in DOMAIN uplink' :
                       Told(uplink'[j], Day(downlink'[i].slot))
                         \subseteq RightNow(downlink'[i].slot)
                  /\ \/ days'[downlink'[i].slot] \in {Nil} \cup RightNow(downlink'[i].slot)
                     \/ downlink'[i].slot \in by_cloud'
  BY <1>2, <1>3 DEF Known, Right, Late, Told, Day
<1> QED
  BY <1>3 DEF EchoedKnown, Known, Right, Late, Told, Day

\* The step kinds.
Gone == \E i \in DOMAIN uplink : LoseUplink(i)
Passed == \E i \in DOMAIN uplink : OvertakeUplink(i)

Quiet ==
  /\ UNCHANGED <<set, prog, unacked, uplink, rooms, days, cloud, unheard, by_cloud, overtaken>>
  /\ \A i \in DOMAIN downlink' : \/ \E j \in DOMAIN downlink : downlink'[i] = downlink[j]
                                 \/ downlink'[i].kind # "PROGRAM_ECHO"

LEMMA QuietSteps ==
  ASSUME Types, Types',
         \/ Fetch \/ Move \/ UNCHANGED vars
         \/ \E r \in Rooms, f \in Fields : PutSetting(r, f)
         \/ \E s \in Slots : PutProgram(s)
         \/ \E i \in DOMAIN downlink : LoseDownlink(i) \/ OvertakeDownlink(i)
  PROVE  Quiet
<1>1. ASSUME NEW a, NEW x \in ToDevice, SendTo(a, <<x>>), x.kind # "PROGRAM_ECHO"
      PROVE  \A i \in DOMAIN downlink' : \/ \E j \in DOMAIN downlink : downlink'[i] = downlink[j]
                                         \/ downlink'[i].kind # "PROGRAM_ECHO"
  <2> DEFINE ms == <<x>>
  <2>1. ms \in Seq(ToDevice) /\ SendTo(a, ms) /\ \A j \in DOMAIN ms : ms[j] = x
    BY <1>1
  <2> HIDE DEF ms
  <2> QED
    BY <1>1, <2>1, Arrives
<1>2. CASE FetchFails
  BY <1>2 DEF FetchFails, Quiet, device, mirror, net, other
<1>3. ASSUME NEW r \in Rooms, FetchProgram(r) PROVE Quiet
  <2>1. PICK x : x = [kind |-> "GET_PROG", room |-> r]
    OBVIOUS
  <2>2. x \in ToDevice /\ x.kind # "PROGRAM_ECHO" /\ SendTo(reply_to, <<x>>)
    BY <1>3, <2>1 DEF FetchProgram, ToDevice
  <2> QED
    BY <1>1, <1>3, <2>2 DEF FetchProgram, Quiet, device, mirror, other
<1>4. CASE Move
  BY <1>4 DEF Move, Quiet, mirror, other
<1>5. CASE UNCHANGED vars
  BY <1>5 DEF vars, Quiet, device, mirror, net, other
<1>6. ASSUME NEW r \in Rooms, NEW f \in Fields, PutSetting(r, f) PROVE Quiet
  <2>1. PICK x : x = [kind |-> "SET", room |-> r, field |-> f]
    OBVIOUS
  <2>2. x \in ToDevice /\ x.kind # "PROGRAM_ECHO" /\ SendTo(addr, <<x>>)
    BY <1>6, <2>1 DEF PutSetting, ToDevice
  <2> QED
    BY <1>1, <1>6, <2>2 DEF PutSetting, Quiet, device, mirror, other
<1>7. ASSUME NEW s \in Slots, PutProgram(s) PROVE Quiet
  <2>1. PICK x : x = [kind |-> "PROGRAM", slot |-> s]
    OBVIOUS
  <2>2. x \in ToDevice /\ x.kind # "PROGRAM_ECHO" /\ SendTo(addr, <<x>>)
    BY <1>7, <2>1 DEF PutProgram, ToDevice
  <2> QED
    BY <1>1, <1>7, <2>2 DEF PutProgram, Quiet, device, mirror, other
<1>8. ASSUME NEW i \in DOMAIN downlink, LoseDownlink(i) PROVE Quiet
  <2>1. /\ Without(downlink', downlink, i)
        /\ downlink' \in Seq(ToDevice) /\ downlink \in Seq(ToDevice)
    BY <1>8, Removed DEF LoseDownlink, Types
  <2>2. ASSUME NEW j \in DOMAIN downlink'
        PROVE  \E l \in DOMAIN downlink : downlink'[j] = downlink[l]
    <3>1. j \in DOMAIN downlink /\ j + 1 \in DOMAIN downlink
      BY <2>1 DEF Without
    <3>2. downlink'[j] = downlink[j] \/ downlink'[j] = downlink[j + 1]
      BY <2>1 DEF Without
    <3> QED
      BY <3>1, <3>2
  <2> QED
    BY <1>8, <2>2 DEF LoseDownlink, Quiet, device, mirror, other
<1>9. ASSUME NEW i \in DOMAIN downlink, OvertakeDownlink(i) PROVE Quiet
  <2>1. /\ i + 1 \in DOMAIN downlink /\ downlink \in Seq(ToDevice)
        /\ downlink' = Swapped(downlink, i)
    BY <1>9 DEF OvertakeDownlink, Types
  <2>2. \A j \in DOMAIN downlink' : \E l \in DOMAIN downlink : downlink'[j] = downlink[l]
    BY <2>1, SwappedKeeps
  <2> QED
    BY <1>9, <2>2 DEF OvertakeDownlink, Quiet, device, mirror, other
<1> QED
  BY <1>2, <1>3, <1>4, <1>5, <1>6, <1>7, <1>8, <1>9 DEF Fetch

LEMMA StepKinds ==
  ASSUME Types, Types', [Next]_vars
  PROVE  (\E m \in ToSet(uplink) : HandleMsg(m)) \/ Sent \/ Quiet \/ Restart \/ Gone \/ Passed
<1>1. CASE Serve
  BY <1>1 DEF Serve
<1>2. CASE \/ SendStatus \/ SendOther \/ Knock
           \/ \E r \in Rooms, f \in Fields : TurnSetpoint(r, f)
           \/ \E s \in Slots : EditProgram(s)
           \/ \E k \in CloudKinds : CloudSend(k)
  BY <1>2, SentOthers
<1>3. CASE DeviceReceive
  BY <1>3, Received
<1>4. CASE \/ Fetch \/ Move \/ UNCHANGED vars
           \/ \E r \in Rooms, f \in Fields : PutSetting(r, f)
           \/ \E s \in Slots : PutProgram(s)
           \/ \E i \in DOMAIN downlink : LoseDownlink(i) \/ OvertakeDownlink(i)
  BY <1>4, QuietSteps
<1> QED
  BY <1>1, <1>2, <1>3, <1>4 DEF Next, Gone, Passed
\* A step that only adds to the queue to the server, or leaves it.
LEMMA KnownGrows ==
  ASSUME Types, Types', NEW s \in Slots, Sent, Known(s), prog'[s] = prog[s]
  PROVE  Known(s)'
<1>1. PICK ms \in Seq(ToServer) : uplink' = uplink \o ms /\ Fresh(ms)
  BY DEF Sent
<1>2. /\ UNCHANGED <<days, by_cloud>>
      /\ Day(s) \in Topics /\ Present(Day(s))' = prog[s] /\ Right(s)' = Right(s)
  BY TopicKinds DEF Sent, Present, Right, Late
<1>3. \A j \in DOMAIN uplink' : Told(uplink'[j], Day(s)) \subseteq Right(s)
  BY <1>1, <1>2, Joined DEF Fresh, Known, Right
<1>4. \A m : Told(m, Day(s))' = Told(m, Day(s))
  BY DEF Told, Day
<1> QED
  BY <1>2, <1>3, <1>4 DEF Known

LEMMA AccountSent ==
  ASSUME Types, Types', NEW s \in Slots, Sent, EchoedKnown, Accounted(s)
  PROVE  Accounted(s)'
<1>1. PICK ms \in Seq(ToServer) : uplink' = uplink \o ms /\ Fresh(ms)
  BY DEF Sent
<1>2. unheard' = unheard /\ Announcing /\ Acking
  BY DEF Sent
<1>3. CASE prog'[s] = prog[s]
  <2>1. CASE s \in unacked
    <3>1. CASE s \in unacked'
      BY <3>1 DEF Accounted
    <3>2. CASE s \notin unacked'
      <4>1. Known(s)
        BY <1>2, <2>1, <3>2 DEF Acking, EchoedKnown
      <4> QED
        BY <1>3, <4>1, KnownGrows DEF Accounted
    <3> QED
      BY <3>1, <3>2
  <2>2. CASE <<s, prog[s]>> \in unheard
    BY <1>2, <1>3, <2>2 DEF Accounted
  <2>3. CASE Answering(s)
    <3>1. PICK l \in DOMAIN uplink : Answer(uplink[l], s) /\ uplink[l].val = prog[s]
      BY <2>3 DEF Answering
    <3>2. l \in DOMAIN uplink' /\ uplink'[l] = uplink[l]
      BY <1>1, Joined
    <3> QED
      BY <1>3, <3>1, <3>2 DEF Accounted, Answering, Answer
  <2>4. CASE Known(s)
    BY <1>3, <2>4, KnownGrows DEF Accounted
  <2> QED
    BY <2>1, <2>2, <2>3, <2>4 DEF Accounted
<1>4. CASE prog'[s] # prog[s]
  BY <1>2, <1>4 DEF Announcing, Accounted
<1> QED
  BY <1>3, <1>4

\* What is held of a subject after a step of the handler.
LEMMA HeldServed ==
  ASSUME Types, Types', NEW k \in Topics, NEW m,
         RoomsFollow(m), DaysFollow(m), Replicated(m)
  PROVE  Held(k)' \subseteq Held(k) \cup Told(m, k)
<1>1. CASE k[1] = "program"
  <2>1. PICK s \in Slots : k = Day(s) /\ k[2] = s
    BY <1>1, TopicKinds
  <2>2. Held(k) = ({days[s]} \ {Nil}) \cup {c[2] : c \in {d \in cloud : d[1] = s}}
    BY <1>1, <2>1 DEF Held
  <2>3. Held(k)' = ({days'[s]} \ {Nil}) \cup {c[2] : c \in {d \in cloud' : d[1] = s}}
    BY <1>1, <2>1 DEF Held
  <2>4. ASSUME NEW v, v = days'[s], v # Nil
        PROVE  v \in Held(k) \cup Told(m, k)
    <3>1. CASE <<s, v>> \in cloud
      <4>1. <<s, v>>[1] = s /\ <<s, v>>[2] = v
        OBVIOUS
      <4> QED
        BY <2>2, <3>1, <4>1
    <3> QED
      BY <2>1, <2>2, <2>4, <3>1 DEF DaysFollow
  <2>5. ASSUME NEW c \in cloud', c[1] = s
        PROVE  c[2] \in Held(k) \cup Told(m, k)
    BY <2>1, <2>2, <2>5 DEF Replicated
  <2> QED
    BY <2>3, <2>4, <2>5
<1>2. CASE k[1] # "program"
  <2>1. PICK r \in Rooms : k = Setpoint(r) /\ k[2] = r
    BY <1>2, TopicKinds
  <2> QED
    BY <1>2, <2>1 DEF Held, RoomsFollow
<1> QED
  BY <1>1, <1>2

\* Without a change of its values the order of a subject depends on the queue alone.
LEMMA HeldStays ==
  ASSUME NEW k
  PROVE  /\ UNCHANGED <<rooms, days, cloud>> => Held(k)' = Held(k)
         /\ UNCHANGED <<set, prog>> => Present(k)' = Present(k)
BY DEF Held, Present

LEMMA OrderKept ==
  ASSUME Types, Types', CloudEchoes, [Next]_vars, NEW k \in Topics, InOrder(k)
  PROVE  InOrder(k)'
<1>1. ASSUME NEW m \in ToSet(uplink), HandleMsg(m) PROVE InOrder(k)'
  <2>1. /\ m = uplink[1] /\ 1 \in DOMAIN uplink /\ Without(uplink', uplink, 1)
        /\ UNCHANGED <<device, overtaken>> /\ RoomsFollow(m) /\ DaysFollow(m) /\ Replicated(m)
    BY <1>1, Served
  <2>2. Held(k)' \subseteq Held(k) \cup Told(uplink[1], k)
    BY <2>1, HeldServed
  <2>3. Present(k)' = Present(k)
    BY <2>1, HeldStays DEF device
  <2> QED
    BY <2>1, <2>2, <2>3, OrderLeaves
<1>2. CASE Sent
  <2>1. PICK ms \in Seq(ToServer) : uplink' = uplink \o ms /\ Fresh(ms)
    BY <1>2 DEF Sent
  <2> QED
    BY <1>2, <2>1, HeldStays, OrderSends DEF Sent, Fresh
<1>3. CASE Quiet
  BY <1>3, HeldStays, OrderStays DEF Quiet
<1>4. CASE Restart
  <2>1. Held(k)' \subseteq Held(k)
    <3>1. /\ \A s \in Slots : days'[s] = Nil
          /\ \A r \in Rooms : rooms'[r].maxsetp = Nil
          /\ UNCHANGED cloud
      BY <1>4 DEF Restart, Fields
    <3> QED
      BY <3>1, TopicKinds DEF Held
  <2> QED
    BY <1>4, <2>1, HeldStays, OrderStays DEF Restart, device
<1>5. CASE Gone
  <2>1. PICK i \in DOMAIN uplink : LoseUplink(i)
    BY <1>5 DEF Gone
  <2>2. Without(uplink', uplink, i) /\ UNCHANGED <<set, prog, rooms, days, cloud, overtaken>>
    BY <2>1, Removed DEF LoseUplink, Types, device, mirror
  <2> QED
    BY <2>2, HeldStays, OrderLeaves
<1>6. CASE Passed
  <2>1. PICK i \in DOMAIN uplink : OvertakeUplink(i)
    BY <1>6 DEF Passed
  <2>2. UNCHANGED <<set, prog, rooms, days, cloud>>
    BY <2>1 DEF OvertakeUplink, device, mirror
  <2> QED
    BY <2>1, <2>2, HeldStays, OrderSwapped
<1> QED
  BY <1>1, <1>2, <1>3, <1>4, <1>5, <1>6, StepKinds

\* The queue after one datagram has passed another.
LEMMA Permuted ==
  ASSUME Types, NEW i \in DOMAIN uplink, OvertakeUplink(i)
  PROVE  /\ \A j \in DOMAIN uplink' : \E l \in DOMAIN uplink : uplink'[j] = uplink[l]
         /\ \A l \in DOMAIN uplink : \E j \in DOMAIN uplink' : uplink'[j] = uplink[l]
<1>1. /\ uplink \in Seq(ToServer) /\ i + 1 \in DOMAIN uplink /\ uplink' = Swapped(uplink, i)
  BY DEF OvertakeUplink, Types
<1> QED
  BY <1>1, SwappedKeeps

LEMMA CloudEchoesKept ==
  ASSUME Types, Types', CloudEchoes, [Next]_vars
  PROVE  CloudEchoes'
<1>1. ASSUME NEW i \in DOMAIN uplink, Without(uplink', uplink, i), cloud \subseteq cloud'
      PROVE  CloudEchoes'
  <2>1. ASSUME NEW j \in DOMAIN uplink'
        PROVE  \E l \in DOMAIN uplink : uplink'[j] = uplink[l]
    <3>1. j \in DOMAIN uplink /\ j + 1 \in DOMAIN uplink
      BY <1>1 DEF Types, Without
    <3>2. DOMAIN uplink' = 1 .. Len(uplink')
      BY DEF Types
    <3>3. uplink'[j] = IF j < i THEN uplink[j] ELSE uplink[j + 1]
      BY <1>1, <3>2 DEF Without
    <3> QED
      BY <3>1, <3>3
  <2> QED
    BY <1>1, <2>1 DEF CloudEchoes
<1>2. ASSUME NEW m \in ToSet(uplink), HandleMsg(m) PROVE CloudEchoes'
  BY <1>1, <1>2, Served
<1>3. CASE Sent
  <2>1. PICK ms \in Seq(ToServer) : uplink' = uplink \o ms /\ Fresh(ms)
    BY <1>3 DEF Sent
  <2> QED
    BY <1>3, <2>1, Joined DEF Sent, Fresh, CloudEchoes
<1>4. CASE Quiet
  BY <1>4 DEF Quiet, CloudEchoes
<1>5. CASE Restart
  BY <1>5 DEF Restart, CloudEchoes
<1>6. CASE Gone
  BY <1>1, <1>6, Removed DEF Gone, LoseUplink, Types
<1>7. CASE Passed
  BY <1>7, Permuted DEF Passed, OvertakeUplink, CloudEchoes
<1> QED
  BY <1>2, <1>3, <1>4, <1>5, <1>6, <1>7, StepKinds

\* What the echoes say, and that every program is accounted for.
LEMMA KnownKept ==
  ASSUME Types, Types', CloudEchoes, EchoedKnown, [Next]_vars,
         \A k \in Topics : InOrder(k),
         \A s \in Slots : Accounted(s)
  PROVE  EchoedKnown' /\ \A s \in Slots : Accounted(s)'
<1>1. ASSUME NEW m \in ToSet(uplink), HandleMsg(m)
      PROVE  EchoedKnown' /\ \A s \in Slots : Accounted(s)'
  <2>1. /\ m \in ToServer /\ m = uplink[1] /\ 1 \in DOMAIN uplink /\ Without(uplink', uplink, 1)
        /\ UNCHANGED <<device, overtaken>> /\ unheard \subseteq unheard'
        /\ DaysFollow(m) /\ Noted(m) /\ Echoed(m)
    BY <1>1, Served
  <2>2. ASSUME NEW s \in Slots
        PROVE  /\ Accounted(s)'
               /\ Known(s) => Known(s)'
               /\ days'[s] = prog[s] /\ prog[s] \in Told(m, Day(s)) => Known(s)'
    <3>1. InOrder(Day(s))
      BY TopicKinds
    <3>2. \/ s \in by_cloud'
          \/ days'[s] \in Told(uplink[1], Day(s))
          \/ /\ days'[s] = days[s]
             /\ s \in by_cloud => s \in by_cloud'
             /\ \A v \in Told(uplink[1], Day(s)) : uplink[1].response => <<s, v>> \in unheard'
      BY <2>1 DEF Noted
    <3> QED
      BY <2>1, <3>1, <3>2, AccountLeaves
  <2>3. prog' = prog
    BY <2>1 DEF device
  <2>4. ASSUME NEW i \in DOMAIN downlink', NEW e, e = downlink'[i], e.kind = "PROGRAM_ECHO"
        PROVE  \/ \E j \in DOMAIN downlink : e = downlink[j]
               \/ e.val <= prog'[e.slot] /\ (e.val = prog'[e.slot] => Known(e.slot)')
    <3>1. e \in ToDevice
      BY <2>4 DEF Types
    <3>2. e.slot \in Slots
      BY <2>4, <3>1, DownParts
    <3>3. CASE e.val \in Told(m, Day(e.slot)) /\ days'[e.slot] = e.val
      <4>1. e.val <= prog[e.slot]
        BY <2>1, <3>2, <3>3, TopicKinds DEF InOrder, Present
      <4> QED
        BY <2>2, <2>3, <3>2, <3>3, <4>1
    <3> QED
      BY <2>1, <2>4, <3>3 DEF Echoed
  <2>5. EchoedKnown'
    BY <2>2, <2>3, <2>4, EchoesStay
  <2> QED
    BY <2>2, <2>5
<1>2. CASE Sent
  <2>1. \A s \in Slots : Accounted(s)'
    BY <1>2, AccountSent
  <2>2. \A s \in Slots : /\ prog'[s] = prog[s] \/ prog'[s] = prog[s] + 1
                         /\ (prog'[s] = prog[s] /\ Known(s)) => Known(s)'
    BY <1>2, KnownGrows DEF Sent, Announcing
  <2>3. EchoedKnown'
    BY <1>2, <2>2, EchoesStay DEF Sent
  <2> QED
    BY <2>1, <2>3
<1>3. CASE Quiet
  <2>1. \A s \in Slots : Known(s)' = Known(s)
    BY <1>3 DEF Quiet, Known, Right, Late, Told, Day
  <2>2. \A s \in Slots : Accounted(s)'
    BY <1>3, <2>1 DEF Quiet, Accounted, Answering, Answer
  <2>3. EchoedKnown'
    BY <1>3, <2>1, EchoesStay DEF Quiet
  <2> QED
    BY <2>2, <2>3
<1>4. CASE Restart
  <2>1. \A s \in Slots : Known(s)'
    BY <1>4 DEF Restart, Known
  <2>2. \A s \in Slots : Accounted(s)'
    BY <2>1 DEF Accounted
  <2>3. prog' = prog /\ downlink' = downlink
    BY <1>4 DEF Restart, device
  <2>4. EchoedKnown'
    BY <2>1, <2>3, EchoesStay
  <2> QED
    BY <2>2, <2>4
<1>5. CASE Gone
  <2>1. PICK i \in DOMAIN uplink : LoseUplink(i)
    BY <1>5 DEF Gone
  <2>2. /\ Without(uplink', uplink, i) /\ uplink[i] \in ToServer
        /\ UNCHANGED <<device, days, by_cloud, overtaken, downlink>>
        /\ unheard' = unheard \cup Announced(uplink[i])
    BY <2>1, Removed DEF LoseUplink, Types, mirror
  <2>3. ASSUME NEW s \in Slots PROVE Accounted(s)' /\ (Known(s) => Known(s)')
    <3>1. InOrder(Day(s))
      BY TopicKinds
    <3>2. \A v \in Told(uplink[i], Day(s)) : uplink[i].response => <<s, v>> \in unheard'
      BY <2>2, ToldOf DEF Announced
    <3> QED
      BY <2>2, <3>1, <3>2, AccountLeaves
  <2>4. EchoedKnown'
    BY <2>2, <2>3, EchoesStay DEF device
  <2> QED
    BY <2>3, <2>4
<1>6. CASE Passed
  <2>1. PICK i \in DOMAIN uplink : OvertakeUplink(i)
    BY <1>6 DEF Passed
  <2>2. /\ UNCHANGED <<device, days, by_cloud, unheard, downlink>>
        /\ overtaken \subseteq overtaken'
    BY <2>1 DEF OvertakeUplink, mirror
  <2>3. ASSUME NEW s \in Slots, Known(s) PROVE Known(s)'
    <3>1. Right(s) \subseteq Right(s)'
      BY <2>2 DEF Right, Late, device
    <3>2. \A m : Told(m, Day(s))' = Told(m, Day(s))
      BY DEF Told, Day
    <3>3. \A j \in DOMAIN uplink' : Told(uplink'[j], Day(s)) \subseteq Right(s)
      BY <2>1, <2>3, Permuted DEF Known
    <3> QED
      BY <2>2, <2>3, <3>1, <3>2, <3>3 DEF Known
  <2>4. ASSUME NEW s \in Slots PROVE Accounted(s)'
    BY <2>1, <2>2, <2>3, Permuted DEF Accounted, Answering, Answer, device
  <2>5. EchoedKnown'
    BY <2>2, <2>3, EchoesStay DEF device
  <2> QED
    BY <2>4, <2>5
<1> QED
  BY <1>1, <1>2, <1>3, <1>4, <1>5, <1>6, StepKinds

LEMMA TypesNext ==
  ASSUME Types, CloudEchoes, [Next]_vars
  PROVE  Types'
<1>1. CASE Serve
  BY <1>1, TypesServed DEF Serve, CloudEchoes
<1>2. CASE DeviceReceive
  BY <1>2, TypesDevice
<1>3. CASE UNCHANGED vars
  BY <1>3 DEF vars, device, mirror, thread, net, other, Types
<1>4. CASE \/ \E i \in DOMAIN uplink : OvertakeUplink(i)
           \/ \E i \in DOMAIN downlink : OvertakeDownlink(i)
  BY <1>4, TypesPassed
<1> QED
  BY <1>1, <1>2, <1>3, <1>4, TypesOthers DEF Next

LEMMA InvInit == Init => IInv
<1> SUFFICES ASSUME Init PROVE IInv
  OBVIOUS
<1>1. Types
  BY TypesInit
<1>2. uplink = <<>> /\ downlink = <<>> /\ cloud = {} /\ \A s \in Slots : days[s] = Nil
  BY DEF Init
<1>3. \A k \in Topics : Held(k) = {}
  <2>1. \A r \in Rooms : rooms[r].maxsetp = Nil
    BY DEF Init, Fields
  <2> QED
    BY <1>2, <2>1, TopicKinds DEF Held
<1>4. \A k \in Topics : InOrder(k)
  BY <1>2, <1>3 DEF InOrder
<1>5. CloudEchoes /\ EchoedKnown /\ \A s \in Slots : Accounted(s)
  BY <1>2 DEF CloudEchoes, EchoedKnown, Accounted, Known
<1> QED
  BY <1>1, <1>4, <1>5 DEF IInv

LEMMA InvNext == IInv /\ [Next]_vars => IInv'
<1> SUFFICES ASSUME IInv, [Next]_vars PROVE IInv'
  OBVIOUS
<1>1. Types'
  BY TypesNext DEF IInv
<1>2. ASSUME NEW k \in Topics PROVE InOrder(k)'
  BY <1>1, OrderKept DEF IInv
<1>3. CloudEchoes'
  BY <1>1, CloudEchoesKept DEF IInv
<1>4. EchoedKnown' /\ \A s \in Slots : Accounted(s)'
  BY <1>1, KnownKept DEF IInv
<1> QED
  BY <1>1, <1>2, <1>3, <1>4 DEF IInv

LEMMA InvAlways == Spec => []IInv
BY InvInit, InvNext, PTL DEF Spec

\* The mirror, the handler's thread and the datagrams have the shapes the handlers expect,
\* and a peer is entered once.
THEOREM TypeCorrect == Spec => []TypeOK
<1>1. IInv => TypeOK
  <2>1. Types => ToSet(peers) \subseteq Addrs
    BY DEF Types, ToSet
  <2> QED
    BY <2>1 DEF IInv, Types, TypeOK
<1> QED
  BY <1>1, InvAlways, PTL

\* Once the device's edit has been echoed and nothing about the day is under way, the
\* mirror holds the device's program or none, whatever was lost, moved or restarted.
THEOREM EchoMeansStoredAlways == Spec => []EchoMeansStored
<1>1. IInv => EchoMeansStored
  <2> SUFFICES ASSUME IInv, NEW s \in Slots, s \notin unacked \cup by_cloud,
                      <<s, prog[s]>> \notin unheard,
                      ~\E m \in ToSet(uplink) : m.kind = "PROGRAM" /\ m.slot = s
               PROVE  days[s] \in {Nil, prog[s]} \/ <<Day(s), days[s]>> \in overtaken
    BY DEF EchoMeansStored
  <2>1. ~Answering(s)
    BY DEF Answering, Answer, ToSet
  <2> QED
    BY <2>1 DEF IInv, Accounted, Known, Right, Late
<1> QED
  BY <1>1, InvAlways, PTL

\* Of the steps of the handler, only those replace what the mirror shows that were told
\* something no older, or something overtaken.
LEMMA BackwardsStep ==
  IInv /\ [Next]_vars =>
    /\ \A r \in Rooms : \/ Newer(rooms[r].maxsetp, rooms'[r].maxsetp)
                        \/ <<Setpoint(r), rooms'[r].maxsetp[2]>> \in overtaken
    /\ \A s \in Slots \ by_cloud' : \/ Forward(days[s], days'[s])
                                    \/ <<Day(s), days'[s]>> \in overtaken
<1> DEFINE A == /\ \A r \in Rooms : \/ Newer(rooms[r].maxsetp, rooms'[r].maxsetp)
                                    \/ <<Setpoint(r), rooms'[r].maxsetp[2]>> \in overtaken
                /\ \A s \in Slots \ by_cloud' : \/ Forward(days[s], days'[s])
                                                \/ <<Day(s), days'[s]>> \in overtaken
<1> SUFFICES ASSUME IInv, [Next]_vars PROVE A
  OBVIOUS
<1>1. Types /\ Types' /\ CloudEchoes
  BY InvNext DEF IInv
<1>2. /\ \A r \in Rooms : rooms[r].maxsetp \in Values \cup {Nil}
      /\ \A s \in Slots : days[s] \in Nat \cup {Nil}
  BY <1>1 DEF Types, Fields
<1>3. ASSUME UNCHANGED <<rooms, days>> PROVE A
  BY <1>2, <1>3 DEF Forward, Newer, Values
<1>4. ASSUME NEW m \in ToSet(uplink), HandleMsg(m) PROVE A
  <2>1. m \in ToServer /\ m = uplink[1] /\ 1 \in DOMAIN uplink /\ RoomsFollow(m) /\ DaysFollow(m)
    BY <1>1, <1>4, Served
  <2>2. \A k \in Topics : Told(m, k) \subseteq Nat
    BY <1>1, <2>1, Numbers
  <2>3. ASSUME NEW r \in Rooms, rooms[r].maxsetp # Nil,
               <<Setpoint(r), rooms'[r].maxsetp[2]>> \notin overtaken
        PROVE  rooms[r].maxsetp[2] <= rooms'[r].maxsetp[2]
    <3>1. InOrder(Setpoint(r)) /\ Held(Setpoint(r)) = {rooms[r].maxsetp[2]}
      BY <2>3, TopicKinds DEF IInv, Held
    <3>2. rooms[r].maxsetp[2] \in Nat
      BY <1>2, <2>3 DEF Values
    <3>3. \A w \in Told(m, Setpoint(r)) :
            rooms[r].maxsetp[2] <= w \/ <<Setpoint(r), w>> \in overtaken
      BY <2>1, <3>1 DEF InOrder, Timely, Late
    <3> QED
      BY <2>1, <2>3, <3>2, <3>3 DEF RoomsFollow
  <2>4. ASSUME NEW s \in Slots \ by_cloud', days[s] # Nil,
               <<Day(s), days'[s]>> \notin overtaken
        PROVE  days[s] <= days'[s]
    <3>1. InOrder(Day(s)) /\ days[s] \in Held(Day(s))
      BY <2>4, TopicKinds DEF IInv, Held
    <3>2. days[s] \in Nat
      BY <1>2, <2>4
    <3>3. \A w \in Told(m, Day(s)) : days[s] <= w \/ <<Day(s), w>> \in overtaken
      BY <2>1, <3>1 DEF InOrder, Timely, Late
    <3>4. days'[s] = days[s] \/ days'[s] \in Told(m, Day(s))
      BY <2>1, <2>4 DEF DaysFollow
    <3> QED
      BY <2>4, <3>2, <3>3, <3>4
  <2> QED
    BY <2>3, <2>4 DEF Forward, Newer
<1>5. CASE Restart
  BY <1>5 DEF Restart, Forward, Newer, Fields
<1>6. Sent \/ Quiet \/ Gone \/ Passed => UNCHANGED <<rooms, days>>
  BY DEF Sent, Quiet, Gone, LoseUplink, Passed, OvertakeUplink, mirror
<1> QED
  BY <1>1, <1>3, <1>4, <1>5, <1>6, StepKinds

\* No PUT, answer, STATUS, upload, failure or restart replaces what the API has shown by
\* something older, in whatever order the datagrams come, unless a datagram is stored
\* that a newer one has overtaken.
THEOREM NeverBackwardsAlways == Spec => NeverBackwards
<1>1. IInv /\ [Next]_vars =>
        [/\ \A r \in Rooms : \/ Newer(rooms[r].maxsetp, rooms'[r].maxsetp)
                             \/ <<Setpoint(r), rooms'[r].maxsetp[2]>> \in overtaken
         /\ \A s \in Slots \ by_cloud' : \/ Forward(days[s], days'[s])
                                         \/ <<Day(s), days'[s]>> \in overtaken]_vars
  BY BackwardsStep
<1> QED
  BY <1>1, InvAlways, PTL DEF Spec, NeverBackwards
=============================================================================
