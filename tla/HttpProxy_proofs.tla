-------------------------- MODULE HttpProxy_proofs --------------------------
(***************************************************************************)
(* Proofs about HttpProxy, for any threads, URLs, table, bounds and faults.*)
(*                                                                         *)
(* While a single connection object is stored, its state "sent" is a lock: *)
(* between a request and its answer no other request is taken (Single).    *)
(***************************************************************************)
EXTENDS HttpProxy, SequenceTheorems, WellFoundedInduction, TLAPS

Labels == {"idle", "lookup", "resolve", "choose", "connect",
           "request", "response", "wait", "read", "app"}
Conn == [state : {"idle", "sent"}, sock : Nat, unread : Threads \cup {Nil}]

\* What the threads share.
Shared ==
  /\ conns \in Seq(Conn)
  /\ socks \in Seq(Threads \cup {Nil})
  /\ \A i \in 1..Len(conns) : conns[i].sock <= Len(socks)

\* What each keeps.
Own ==
  /\ up \in BOOLEAN /\ flips \in 0..MaxFlips
  /\ pc \in [Threads -> Labels]
  /\ url \in [Threads -> Urls \cup {Nil}]
  /\ rule \in [Threads -> BEHAVIOUR]
  /\ using \in [Threads -> Nat \X Nat]
  /\ got \in [Threads -> Threads \cup {Nil}]
  /\ served \in 0..MaxReqs
  /\ answer \in [Threads -> {"none", "local", "remote", "error"}]

\* A thread finds what it uses.
Found ==
  \A t \in Threads :
    /\ \/ pc[t] \in {"connect", "request", "response"}
       \/ pc[t] = "choose" /\ rule[t] # "ONLY_LOCAL"
       => Len(conns) > 0
    /\ pc[t] \in {"wait", "read"} =>
         using[t][1] \in 1..Len(conns) /\ using[t][2] \in 1..Len(socks)

Types == Shared /\ Own /\ Found

-----------------------------------------------------------------------------
\* Every URL has a behaviour.
LEMMA Behaviours == \A u : check_behaviour(u) \in BEHAVIOUR
<1> SUFFICES ASSUME NEW u PROVE check_behaviour(u) \in BEHAVIOUR
  OBVIOUS
<1> DEFINE hits == {i \in DOMAIN Table : u \in Table[i].matches}
<1>1. CASE hits = {}
  BY <1>1 DEF check_behaviour, BEHAVIOUR
<1>2. CASE hits # {}
  <2>1. hits \subseteq Nat
    BY HttpProxyAssumption
  <2>2. \E x \in hits : \A y \in hits : ~ (<<y, x>> \in OpToRel(<, Nat))
    <3> HIDE DEF hits
    <3> QED
      BY <1>2, <2>1, NatLessThanWellFounded, WFMin
  <2>3. \E x \in hits : \A y \in hits : x <= y
    <3>1. PICK x \in hits : \A y \in hits : ~ (<<y, x>> \in OpToRel(<, Nat))
      BY <2>2
    <3>2. ASSUME NEW y \in hits PROVE x <= y
      <4>1. x \in Nat /\ y \in Nat
        BY <2>1, <3>1
      <4>2. ~(y < x)
        BY <3>1, <3>2, <4>1 DEF OpToRel
      <4> QED
        BY <4>1, <4>2
    <3> QED
      BY <3>1, <3>2
  <2>4. (CHOOSE i \in hits : \A j \in hits : i <= j) \in hits
    BY <2>3
  <2> QED
    BY <1>2, <2>4, HttpProxyAssumption DEF check_behaviour
<1> QED
  BY <1>1, <1>2

\* A connection is replaced by one with other fields.
LEMMA PutConn ==
  ASSUME conns \in Seq(Conn), NEW c \in 1..Len(conns), NEW e \in Conn,
         conns' = [conns EXCEPT ![c] = e]
  PROVE  /\ conns' \in Seq(Conn) /\ Len(conns') = Len(conns)
         /\ \A i \in 1..Len(conns) : conns'[i] = IF i = c THEN e ELSE conns[i]
  BY ExceptSeq

\* One more connection.
LEMMA AppendConn ==
  ASSUME conns \in Seq(Conn), NEW e \in Conn, conns' = Append(conns, e)
  PROVE  /\ conns' \in Seq(Conn) /\ Len(conns') = Len(conns) + 1
         /\ \A i \in 1..Len(conns') : conns'[i] = IF i = Len(conns) + 1 THEN e ELSE conns[i]
  BY AppendProperties

\* One more socket.
LEMMA AppendSock ==
  ASSUME socks \in Seq(Threads \cup {Nil}), NEW e \in Threads \cup {Nil}, socks' = Append(socks, e)
  PROVE  /\ socks' \in Seq(Threads \cup {Nil}) /\ Len(socks') = Len(socks) + 1
         /\ \A i \in 1..Len(socks') : socks'[i] = IF i = Len(socks) + 1 THEN e ELSE socks[i]
  BY AppendProperties

\* A request is sent or answered on a socket.
LEMMA PutSock ==
  ASSUME socks \in Seq(Threads \cup {Nil}), NEW s \in 1..Len(socks), NEW e \in Threads \cup {Nil},
         socks' = [socks EXCEPT ![s] = e]
  PROVE  /\ socks' \in Seq(Threads \cup {Nil}) /\ Len(socks') = Len(socks)
         /\ \A i \in 1..Len(socks) : socks'[i] = IF i = s THEN e ELSE socks[i]
  BY ExceptSeq

\* What the properties need of the type invariant.
LEMMA TypesOK == Types => TypeOK
<1> SUFFICES ASSUME Types PROVE TypeOK
  OBVIOUS
<1> DEFINE N == [state : {"idle", "sent"}, sock : 0..Len(socks), unread : Threads \cup {Nil}]
<1>1. Len(socks) \in Nat /\ Len(conns) \in Nat /\ DOMAIN conns = 1..Len(conns)
      /\ DOMAIN socks = 1..Len(socks) /\ \A i \in 1..Len(conns) : conns[i] \in Conn
  BY LenProperties, ElementOfSeq DEF Types, Shared
<1>2. \A i \in 1..Len(conns) : conns[i] \in N
  BY <1>1 DEF Types, Shared, Conn
<1>3. conns \in Seq(N)
  <2>1. conns = [i \in 1..Len(conns) |-> conns[i]]
    BY <1>1, LenProperties DEF Types, Shared
  <2>2. conns \in [1..Len(conns) -> N]
    BY <1>2, <2>1
  <2>3. \E n \in Nat : conns \in [1..n -> N]
    BY <1>1, <2>2
  <2> HIDE DEF N
  <2> QED
    BY <2>3, SeqDef
<1>4. \A t \in Threads : pc[t] \in {"wait", "read"} => using[t] \in (DOMAIN conns) \X (DOMAIN socks)
  BY <1>1 DEF Types, Own, Found
<1>5. \A t \in Threads : pc[t] \in {"connect", "request", "response"} => Len(conns) > 0
  BY DEF Types, Found
<1> QED
  BY <1>3, <1>4, <1>5 DEF Types, Shared, Own, TypeOK, Labels, current

-----------------------------------------------------------------------------
(* What the calls do to the connections and sockets.                       *)

\* The last connection is one, for a thread that uses it.
LEMMA Current ==
  ASSUME Types
  PROVE  /\ Len(conns) \in Nat /\ Len(socks) \in Nat /\ current = Len(conns)
         /\ \A i \in 1..Len(conns) : conns[i] \in Conn /\ conns[i].sock \in 0..Len(socks)
         /\ Len(conns) > 0 => current \in 1..Len(conns) /\ conn = conns[current]
<1>1. Len(conns) \in Nat /\ Len(socks) \in Nat
  BY LenProperties DEF Types, Shared
<1>2. \A i \in 1..Len(conns) : conns[i] \in Conn
  BY ElementOfSeq DEF Types, Shared
<1> QED
  BY <1>1, <1>2 DEF Types, Shared, Conn, current, conn

\* A connection is stored when there is DNS.
LEMMA ResolveEffect ==
  ASSUME Types, NEW t \in Threads, Resolve(t)
  PROVE  /\ Shared' /\ socks' = socks
         /\ Len(conns') = IF up THEN Len(conns) + 1 ELSE Len(conns)
<1>1. CASE ~up
  BY <1>1, Current DEF Resolve, Types, Shared
<1>2. CASE up
  <2>1. conns' = Append(conns, Idle) /\ socks' = socks
    BY <1>2 DEF Resolve
  <2>2. Idle \in Conn /\ Idle.sock = 0
    BY DEF Idle, Conn
  <2>3. /\ conns' \in Seq(Conn) /\ Len(conns') = Len(conns) + 1
        /\ \A i \in 1..Len(conns') : conns'[i] = IF i = Len(conns) + 1 THEN Idle ELSE conns[i]
    BY <2>1, <2>2, AppendConn DEF Types, Shared
  <2>4. \A i \in 1..Len(conns') : conns'[i].sock <= Len(socks')
    BY <2>1, <2>2, <2>3, Current
  <2> QED
    BY <1>2, <2>1, <2>3, <2>4 DEF Types, Shared
<1> QED
  BY <1>1, <1>2 DEF Types, Own

\* The stored connection gets a new socket, on which nothing is asked.
LEMMA ConnectEffect ==
  ASSUME Types, NEW t \in Threads, Connect(t), up
  PROVE  /\ Shared' /\ Len(conns') = Len(conns) /\ Len(socks') = Len(socks) + 1
         /\ \A i \in 1..Len(socks) : socks'[i] = socks[i]
         /\ socks'[Len(socks) + 1] = Nil
         /\ \A i \in 1..Len(conns) :
              conns'[i].state = conns[i].state /\ conns'[i].unread = conns[i].unread
         /\ conns'[current].sock = Len(socks) + 1
<1>1. Len(conns) > 0 /\ current \in 1..Len(conns) /\ conn = conns[current]
  BY Current DEF Connect, Types, Found
<1> DEFINE k == [conn EXCEPT !.sock = Len(socks')]
<1>2. socks' = Append(socks, Nil) /\ conns' = [conns EXCEPT ![current] = k]
  BY DEF Connect
<1>3. /\ socks' \in Seq(Threads \cup {Nil}) /\ Len(socks') = Len(socks) + 1
      /\ \A i \in 1..Len(socks') : socks'[i] = IF i = Len(socks) + 1 THEN Nil ELSE socks[i]
  BY <1>2, AppendSock DEF Types, Shared
<1>4. k \in Conn /\ k.sock = Len(socks') /\ k.state = conn.state /\ k.unread = conn.unread
  BY <1>1, <1>3, Current DEF Conn
<1> HIDE DEF k
<1>5. /\ conns' \in Seq(Conn) /\ Len(conns') = Len(conns)
      /\ \A i \in 1..Len(conns) : conns'[i] = IF i = current THEN k ELSE conns[i]
  BY <1>1, <1>2, <1>4, PutConn DEF Types, Shared
<1>6. \A i \in 1..Len(conns') : conns'[i].sock <= Len(socks')
  BY <1>3, <1>4, <1>5, Current
<1>7. Shared'
  BY <1>3, <1>5, <1>6 DEF Shared
<1> QED
  BY <1>1, <1>3, <1>4, <1>5, <1>7, Current

\* The connection r once a request was sent on the socket n.
Sent(r, n) == [r EXCEPT !.state = "sent", !.sock = n]

\* Such a connection is one, with what it held unread.
LEMMA SentConn ==
  ASSUME NEW r \in Conn, NEW n \in Nat
  PROVE  /\ Sent(r, n) \in Conn
         /\ Sent(r, n).sock = n /\ Sent(r, n).state = "sent" /\ Sent(r, n).unread = r.unread
  BY DEF Conn, Sent

\* A request is outstanding on the connection's socket.
LEMMA SendEffect ==
  ASSUME Types, NEW t \in Threads, pc[t] = "request", SendRequest(t)
  PROVE  /\ Shared' /\ Len(conns') = Len(conns) /\ Len(socks') >= Len(socks)
         /\ current \in 1..Len(conns)
         /\ conns'[current].state = "sent" /\ conns'[current].unread = conn.unread
         /\ conns'[current].sock \in 1..Len(socks') /\ socks'[conns'[current].sock] = t
<1>1. Len(conns) > 0 /\ current \in 1..Len(conns) /\ conn = conns[current] /\ conn \in Conn
      /\ conn.sock \in 0..Len(socks) /\ Len(socks) \in Nat
  BY Current DEF Types, Found
<1> DEFINE s == IF conn.sock = 0 THEN Len(socks) + 1 ELSE conn.sock
           k == Sent(conn, s)
<1>2. s \in 1..(Len(socks) + 1)
  BY <1>1
<1>3. /\ conns' = [conns EXCEPT ![current] = k]
      /\ socks' = IF s > Len(socks) THEN Append(socks, t) ELSE [socks EXCEPT ![s] = t]
  BY DEF SendRequest, Sent
<1>4. /\ socks' \in Seq(Threads \cup {Nil}) /\ Len(socks') >= Len(socks)
      /\ s \in 1..Len(socks') /\ socks'[s] = t
  <2>1. CASE s > Len(socks)
    <3>1. s = Len(socks) + 1 /\ socks' = Append(socks, t)
      BY <1>1, <1>2, <1>3, <2>1
    <3> HIDE DEF s
    <3> QED
      BY <1>1, <3>1, AppendSock DEF Types, Shared
  <2>2. CASE ~(s > Len(socks))
    <3>1. s \in 1..Len(socks) /\ socks' = [socks EXCEPT ![s] = t]
      BY <1>1, <1>2, <1>3, <2>2
    <3> HIDE DEF s
    <3> QED
      BY <1>1, <3>1, PutSock DEF Types, Shared
  <2> QED
    BY <2>1, <2>2
<1>5. k \in Conn /\ k.sock = s /\ k.state = "sent" /\ k.unread = conn.unread
  <2>1. s \in Nat
    BY <1>1, <1>2
  <2> HIDE DEF s
  <2> QED
    BY <1>1, <2>1, SentConn
<1> HIDE DEF k, s
<1>6. /\ conns' \in Seq(Conn) /\ Len(conns') = Len(conns)
      /\ \A i \in 1..Len(conns) : conns'[i] = IF i = current THEN k ELSE conns[i]
  BY <1>1, <1>3, <1>5, PutConn DEF Types, Shared
<1>7. \A i \in 1..Len(conns') : conns'[i].sock <= Len(socks')
  <2>1. Len(socks') \in Nat
    BY <1>4, LenProperties
  <2> QED
    BY <1>1, <1>4, <1>5, <1>6, <2>1, Current
<1>8. Shared'
  BY <1>4, <1>6, <1>7 DEF Shared
<1> QED
  BY <1>1, <1>4, <1>5, <1>6, <1>8

\* A request that is refused, or whose send fails.
LEMMA RefuseEffect ==
  ASSUME Types, NEW t \in Threads, pc[t] = "request",
         conns' = conns \/ conns' = [conns EXCEPT ![current] = [conn EXCEPT !.state = "sent"]],
         socks' = socks
  PROVE  /\ Shared' /\ Len(conns') = Len(conns)
         /\ \A i \in 1..Len(conns) :
              /\ conns'[i].sock = conns[i].sock /\ conns'[i].unread = conns[i].unread
              /\ conns'[i].state = conns[i].state \/ conns'[i].state = "sent"
<1>1. Len(conns) > 0 /\ current \in 1..Len(conns) /\ conn = conns[current] /\ conn \in Conn
  BY Current DEF Types, Found
<1> DEFINE k == [conn EXCEPT !.state = "sent"]
<1>2. k \in Conn /\ k.sock = conn.sock /\ k.state = "sent" /\ k.unread = conn.unread
  BY <1>1 DEF Conn
<1>3. CASE conns' = conns
  BY <1>3 DEF Types, Shared
<1>4. CASE conns' = [conns EXCEPT ![current] = k]
  <2> HIDE DEF k
  <2>1. /\ conns' \in Seq(Conn) /\ Len(conns') = Len(conns)
        /\ \A i \in 1..Len(conns) : conns'[i] = IF i = current THEN k ELSE conns[i]
    BY <1>1, <1>2, <1>4, PutConn DEF Types, Shared
  <2> QED
    BY <1>1, <1>2, <2>1, Current DEF Types, Shared
<1> QED
  BY <1>3, <1>4

\* A closed connection is idle and holds nothing.
LEMMA CloseEffect ==
  ASSUME Types, NEW t \in Threads, NEW c \in 1..Len(conns), NEW g, Close(c, g),
         socks' \in Seq(Threads \cup {Nil}), Len(socks') = Len(socks)
  PROVE  /\ Shared' /\ Len(conns') = Len(conns)
         /\ conns'[c].state = "idle" /\ conns'[c].unread = Nil
<1>1. Idle \in Conn /\ Idle.sock = 0 /\ Idle.state = "idle" /\ Idle.unread = Nil
  BY DEF Idle, Conn
<1>2. /\ conns' \in Seq(Conn) /\ Len(conns') = Len(conns)
      /\ \A i \in 1..Len(conns) : conns'[i] = IF i = c THEN Idle ELSE conns[i]
  BY <1>1, PutConn DEF Close, Types, Shared
<1>3. \A i \in 1..Len(conns') : conns'[i].sock <= Len(socks')
  BY <1>1, <1>2, Current
<1> QED
  BY <1>1, <1>2, <1>3 DEF Shared

\* The reader gets what was outstanding on its socket; nobody loses an answer
\* unless the connection held one.
LEMMA ResponseEffect ==
  ASSUME Types, NEW t \in Threads, Response(t)
  PROVE  /\ Shared' /\ Len(conns') = Len(conns) /\ Len(socks') = Len(socks)
         /\ using[t][1] \in 1..Len(conns) /\ using[t][2] \in 1..Len(socks)
         /\ socks[using[t][2]] \in Threads
         /\ got' \in [Threads -> Threads \cup {Nil}]
         /\ \A i \in 1..Len(socks) : socks'[i] \in {socks[i], Nil}
         /\ conns[using[t][1]].unread = Nil =>
              got' = [got EXCEPT ![t] = socks[using[t][2]]]
<1> DEFINE c == using[t][1]
           s == using[t][2]
           g == [got EXCEPT ![t] = socks[s]]
<1>1. c \in 1..Len(conns) /\ s \in 1..Len(socks) /\ socks[s] # Nil
  BY DEF Response, Types, Found
<1>2. socks[s] \in Threads
  BY <1>1, ElementOfSeq DEF Types, Shared
<1>3. /\ socks' \in Seq(Threads \cup {Nil}) /\ Len(socks') = Len(socks)
      /\ \A i \in 1..Len(socks) : socks'[i] = IF i = s THEN Nil ELSE socks[i]
  <2>1. socks' = [socks EXCEPT ![s] = Nil]
    BY DEF Response
  <2> HIDE DEF s
  <2> QED
    BY <1>1, <2>1, PutSock DEF Types, Shared
<1>4. g \in [Threads -> Threads \cup {Nil}]
  BY <1>2 DEF Types, Own
<1>5. CASE conns' = [conns EXCEPT ![c] = [conns[c] EXCEPT !.state = "idle", !.unread = t]] /\ got' = g
  <2> DEFINE k == [conns[c] EXCEPT !.state = "idle", !.unread = t]
  <2>1. conns[c] \in Conn
    BY <1>1, Current
  <2>2. k \in Conn /\ k.sock = conns[c].sock
    BY <2>1 DEF Conn
  <2> HIDE DEF k
  <2>3. /\ conns' \in Seq(Conn) /\ Len(conns') = Len(conns)
        /\ \A i \in 1..Len(conns) : conns'[i] = IF i = c THEN k ELSE conns[i]
    BY <1>1, <1>5, <2>2, PutConn DEF Types, Shared, k
  <2>4. \A i \in 1..Len(conns') : conns'[i].sock <= Len(socks')
    BY <1>3, <2>2, <2>3, Current
  <2>5. Shared'
    BY <1>3, <2>3, <2>4 DEF Shared
  <2> QED
    BY <1>1, <1>2, <1>3, <1>4, <1>5, <2>3, <2>5
<1>6. CASE Close(c, g)
  <2>1. Shared' /\ Len(conns') = Len(conns)
    BY <1>1, <1>3, <1>6, CloseEffect
  <2>2. got' = [u \in Threads |-> IF conns[c].unread = u THEN Nil ELSE g[u]]
    BY <1>6 DEF Close
  <2>3. got' \in [Threads -> Threads \cup {Nil}]
    BY <1>4, <2>2
  <2>4. conns[c].unread = Nil => got' = g
    BY <1>4, <2>2, HttpProxyAssumption
  <2> QED
    BY <1>1, <1>2, <1>3, <2>1, <2>3, <2>4
<1> QED
  BY <1>5, <1>6 DEF Response

\* Nobody loses an answer unless the connection held one.
LEMMA ResetEffect ==
  ASSUME Types, NEW t \in Threads, Reset(t)
  PROVE  /\ Shared' /\ Len(conns') = Len(conns) /\ socks' = socks
         /\ using[t][1] \in 1..Len(conns)
         /\ got' \in [Threads -> Threads \cup {Nil}]
         /\ conns[using[t][1]].unread = Nil => got' = got
<1>1. using[t][1] \in 1..Len(conns) /\ socks' = socks /\ Close(using[t][1], got)
  BY DEF Reset, Types, Found
<1>2. Shared' /\ Len(conns') = Len(conns)
  BY <1>1, CloseEffect DEF Types, Shared
<1>3. got' = [u \in Threads |-> IF conns[using[t][1]].unread = u THEN Nil ELSE got[u]]
  BY <1>1 DEF Close
<1> QED
  BY <1>1, <1>2, <1>3, HttpProxyAssumption DEF Types, Own

\* Only what the connection holds unread can change.
LEMMA ReadEffect ==
  ASSUME Types, NEW t \in Threads, ReadBody(t)
  PROVE  /\ Shared' /\ Len(conns') = Len(conns) /\ socks' = socks
         /\ \A i \in 1..Len(conns) :
              /\ conns'[i].state = conns[i].state /\ conns'[i].sock = conns[i].sock
              /\ conns'[i].unread \in {conns[i].unread, Nil}
<1> DEFINE c == using[t][1]
           k == [conns[c] EXCEPT !.unread = Nil]
<1>1. c \in 1..Len(conns) /\ conns[c] \in Conn /\ socks' = socks
  BY Current DEF ReadBody, Types, Found
<1>2. k \in Conn /\ k.sock = conns[c].sock /\ k.state = conns[c].state /\ k.unread = Nil
  BY <1>1 DEF Conn
<1>3. conns' = conns \/ conns' = [conns EXCEPT ![c] = k]
  BY DEF ReadBody
<1> HIDE DEF k, c
<1>4. CASE conns' = conns
  BY <1>1, <1>4 DEF Types, Shared
<1>5. CASE conns' = [conns EXCEPT ![c] = k]
  <2>1. /\ conns' \in Seq(Conn) /\ Len(conns') = Len(conns)
        /\ \A i \in 1..Len(conns) : conns'[i] = IF i = c THEN k ELSE conns[i]
    BY <1>1, <1>2, <1>5, PutConn DEF Types, Shared
  <2> QED
    BY <1>1, <1>2, <2>1, Current DEF Types, Shared
<1> QED
  BY <1>3, <1>4, <1>5

-----------------------------------------------------------------------------
(* Every thread finds what it uses.                                        *)

\* A step of one thread that loses no connection and no socket.
LEMMA FoundNext ==
  ASSUME Types, Own', NEW t \in Threads,
         Len(conns) \in Nat, Len(socks) \in Nat, Len(conns') \in Nat, Len(socks') \in Nat,
         Len(conns') >= Len(conns), Len(socks') >= Len(socks),
         \A u \in Threads \ {t} : pc'[u] = pc[u] /\ using'[u] = using[u] /\ rule'[u] = rule[u],
         \/ pc'[t] \in {"connect", "request", "response"}
         \/ pc'[t] = "choose" /\ rule'[t] # "ONLY_LOCAL"
         => Len(conns') > 0,
         pc'[t] \in {"wait", "read"} =>
           using'[t][1] \in 1..Len(conns') /\ using'[t][2] \in 1..Len(socks')
  PROVE  Found'
<1> SUFFICES ASSUME NEW u \in Threads
             PROVE  /\ \/ pc'[u] \in {"connect", "request", "response"}
                       \/ pc'[u] = "choose" /\ rule'[u] # "ONLY_LOCAL"
                       => Len(conns') > 0
                    /\ pc'[u] \in {"wait", "read"} =>
                         using'[u][1] \in 1..Len(conns') /\ using'[u][2] \in 1..Len(socks')
  BY DEF Found
<1>1. CASE u = t
  BY <1>1
<1>2. CASE u # t
  BY <1>2 DEF Types, Found
<1> QED
  BY <1>1, <1>2

\* The type invariant holds at the start.
LEMMA TypesInit == Init => Types
<1> SUFFICES ASSUME Init PROVE Types
  OBVIOUS
<1>1. Shared
  BY DEF Init, Shared
<1>2. Own
  BY HttpProxyAssumption DEF Init, Own, Labels, BEHAVIOUR
<1>3. Found
  BY DEF Init, Found
<1> QED
  BY <1>1, <1>2, <1>3 DEF Types

\* Nothing shared changes.
LEMMA SharedSame ==
  ASSUME Types, UNCHANGED <<conns, socks>>
  PROVE  /\ Shared' /\ Len(conns) \in Nat /\ Len(socks) \in Nat
         /\ Len(conns') = Len(conns) /\ Len(socks') = Len(socks)
<1>1. Len(conns) \in Nat /\ Len(socks) \in Nat
  BY Current
<1> QED
  BY <1>1 DEF Types, Shared

\* How many connections and sockets there are after a step.
LEMMA SharedLens ==
  ASSUME Shared'
  PROVE  Len(conns') \in Nat /\ Len(socks') \in Nat
  BY LenProperties DEF Shared

\* Every step preserves the type invariant.
LEMMA TypesNext == Types /\ [Next]_vars => Types'
<1> SUFFICES ASSUME Types, [Next]_vars PROVE Types'
  OBVIOUS
<1> USE DEF Goto, End, env
<1>1. Len(conns) \in Nat /\ Len(socks) \in Nat /\ current = Len(conns)
  BY Current
<1>2. ASSUME NEW t \in Threads, NEW u \in Urls, Begin(t, u) PROVE Types'
  <2>1. Shared' /\ Len(conns') = Len(conns) /\ Len(socks') = Len(socks)
    BY <1>2, SharedSame DEF Begin
  <2>2. Own'
    BY <1>2, Behaviours, HttpProxyAssumption DEF Begin, Types, Own, Labels
  <2>3. Found'
    BY <1>1, <1>2, <2>1, <2>2, FoundNext DEF Begin, Types, Own
  <2> QED
    BY <2>1, <2>2, <2>3 DEF Types
<1>3. ASSUME NEW t \in Threads, LookUp(t) PROVE Types'
  <2>1. Shared' /\ Len(conns') = Len(conns) /\ Len(socks') = Len(socks)
    BY <1>3, SharedSame DEF LookUp
  <2>2. Own'
    BY <1>3 DEF LookUp, Types, Own, Labels
  <2>3. Found'
    BY <1>1, <1>3, <2>1, <2>2, FoundNext DEF LookUp, Types, Own
  <2> QED
    BY <2>1, <2>2, <2>3 DEF Types
<1>4. ASSUME NEW t \in Threads, Resolve(t) PROVE Types'
  <2>1. Shared' /\ Len(conns') >= Len(conns) /\ Len(socks') = Len(socks)
    BY <1>1, <1>4, ResolveEffect
  <2>2. Own'
    BY <1>4 DEF Resolve, Types, Own, Labels, BEHAVIOUR
  <2>3. Len(conns') \in Nat /\ Len(socks') \in Nat
    BY <2>1, SharedLens
  <2>4. \/ pc'[t] = "idle"
        \/ pc'[t] = "choose" /\ (rule'[t] = "ONLY_LOCAL" \/ Len(conns') > 0)
    <3>1. CASE up
      <4>1. Len(conns') = Len(conns) + 1
        BY <1>4, <3>1, ResolveEffect
      <4>2. pc'[t] = "choose"
        BY <1>4, <3>1 DEF Resolve, Types, Own
      <4> QED
        BY <1>1, <4>1, <4>2
    <3>2. CASE ~up
      BY <1>4, <3>2 DEF Resolve, Types, Own
    <3> QED
      BY <3>1, <3>2
  <2>5. \A v \in Threads \ {t} : pc'[v] = pc[v] /\ using'[v] = using[v] /\ rule'[v] = rule[v]
    BY <1>4 DEF Resolve, Types, Own
  <2>6. Found'
    BY <1>1, <2>1, <2>2, <2>3, <2>4, <2>5, FoundNext
  <2> QED
    BY <2>1, <2>2, <2>6 DEF Types
<1>5. ASSUME NEW t \in Threads, Choose(t) PROVE Types'
  <2>1. Shared' /\ Len(conns') = Len(conns) /\ Len(socks') = Len(socks)
    BY <1>5, SharedSame DEF Choose
  <2>2. Own'
    BY <1>5 DEF Choose, Types, Own, Labels, BEHAVIOUR
  <2>3. \/ pc'[t] = "app"
        \/ pc'[t] = "connect" /\ rule[t] # "ONLY_LOCAL"
    <3>1. CASE rule[t] = "ONLY_LOCAL"
      BY <1>5, <3>1 DEF Choose, Types, Own
    <3>2. CASE rule[t] # "ONLY_LOCAL"
      <4>1. \E l \in {"app", "connect"} : pc' = [pc EXCEPT ![t] = l]
        BY <1>5 DEF Choose
      <4> QED
        BY <3>2, <4>1 DEF Types, Own
    <3> QED
      BY <3>1, <3>2
  <2>4. rule[t] # "ONLY_LOCAL" => Len(conns) > 0
    BY <1>5 DEF Choose, Types, Found
  <2>5. \A v \in Threads \ {t} : pc'[v] = pc[v] /\ using'[v] = using[v] /\ rule'[v] = rule[v]
    BY <1>5 DEF Choose, Types, Own
  <2>6. Found'
    BY <1>1, <2>1, <2>2, <2>3, <2>4, <2>5, FoundNext
  <2> QED
    BY <2>1, <2>2, <2>6 DEF Types
<1>6. ASSUME NEW t \in Threads, Connect(t) PROVE Types'
  <2>1. Shared' /\ Len(conns') = Len(conns) /\ Len(socks') >= Len(socks)
    <3>1. CASE up
      BY <1>1, <1>6, <3>1, ConnectEffect
    <3>2. CASE ~up
      BY <1>6, <3>2, SharedSame DEF Connect
    <3> QED
      BY <3>1, <3>2 DEF Types, Own
  <2>2. Own'
    BY <1>6 DEF Connect, Types, Own, Labels
  <2>3. Len(conns') \in Nat /\ Len(socks') \in Nat
    BY <2>1, SharedLens
  <2>4. pc'[t] \in {"request", "idle"} /\ Len(conns) > 0
    BY <1>6 DEF Connect, Types, Own, Found
  <2>5. \A v \in Threads \ {t} : pc'[v] = pc[v] /\ using'[v] = using[v] /\ rule'[v] = rule[v]
    BY <1>6 DEF Connect, Types, Own
  <2>6. Found'
    BY <1>1, <2>1, <2>2, <2>3, <2>4, <2>5, FoundNext
  <2> QED
    BY <2>1, <2>2, <2>6 DEF Types
<1>7. ASSUME NEW t \in Threads, Request(t) PROVE Types'
  <2>1. pc[t] = "request" /\ Len(conns) > 0
    BY <1>7 DEF Request, Types, Found
  <2>2. Shared' /\ Len(conns') = Len(conns) /\ Len(socks') >= Len(socks)
    <3>1. CASE SendRequest(t)
      BY <2>1, <3>1, SendEffect
    <3>2. CASE ~SendRequest(t)
      <4>1. socks' = socks /\ (\/ conns' = conns
                               \/ conns' = [conns EXCEPT ![current] = [conn EXCEPT !.state = "sent"]])
        BY <1>7, <3>2 DEF Request
      <4> QED
        BY <1>1, <2>1, <4>1, RefuseEffect
    <3> QED
      BY <3>1, <3>2
  <2>3. Own'
    BY <1>7 DEF Request, SendRequest, Types, Own, Labels
  <2>4. Len(conns') \in Nat /\ Len(socks') \in Nat
    BY <2>2, SharedLens
  <2>5. pc'[t] \in {"response", "idle"}
    BY <1>7 DEF Request, SendRequest, Types, Own
  <2>6. \A v \in Threads \ {t} : pc'[v] = pc[v] /\ using'[v] = using[v] /\ rule'[v] = rule[v]
    BY <1>7 DEF Request, SendRequest, Types, Own
  <2>7. Found'
    BY <1>1, <2>1, <2>2, <2>3, <2>4, <2>5, <2>6, FoundNext
  <2> QED
    BY <2>2, <2>3, <2>7 DEF Types
<1>8. ASSUME NEW t \in Threads, GetResponse(t) PROVE Types'
  <2>1. Shared' /\ Len(conns') = Len(conns) /\ Len(socks') = Len(socks)
    BY <1>8, SharedSame DEF GetResponse
  <2>2. current \in 1..Len(conns) /\ conn.sock \in 0..Len(socks) /\ conn.sock \in Nat
    BY <1>1, <1>8, Current DEF GetResponse, Types, Found
  <2>3. Own'
    <3>1. using' \in [Threads -> Nat \X Nat]
      <4>1. current \in Nat
        BY <1>1
      <4>2. using' = using \/ using' = [using EXCEPT ![t] = <<current, conn.sock>>]
        BY <1>8 DEF GetResponse
      <4> QED
        BY <2>2, <4>1, <4>2 DEF Types, Own
    <3> QED
      BY <1>8, <3>1 DEF GetResponse, Types, Own, Labels
  <2>4. \/ pc'[t] = "idle"
        \/ using'[t] = <<current, conn.sock>> /\ conn.sock \in 1..Len(socks) /\ pc'[t] = "wait"
    BY <1>1, <1>8, <2>2 DEF GetResponse, Types, Own
  <2>5. \A v \in Threads \ {t} : pc'[v] = pc[v] /\ using'[v] = using[v] /\ rule'[v] = rule[v]
    BY <1>8 DEF GetResponse, Types, Own
  <2>6. Found'
    BY <1>1, <2>1, <2>2, <2>3, <2>4, <2>5, FoundNext
  <2> QED
    BY <2>1, <2>3, <2>6 DEF Types
<1>9. ASSUME NEW t \in Threads, Response(t) PROVE Types'
  <2>1. /\ Shared' /\ Len(conns') = Len(conns) /\ Len(socks') = Len(socks)
        /\ using[t][1] \in 1..Len(conns) /\ using[t][2] \in 1..Len(socks)
        /\ got' \in [Threads -> Threads \cup {Nil}]
    BY <1>9, ResponseEffect
  <2>2. Own'
    BY <1>9, <2>1 DEF Response, Types, Own, Labels
  <2>3. \A v \in Threads : using'[v] = using[v] /\ rule'[v] = rule[v] /\ (v # t => pc'[v] = pc[v])
    BY <1>9 DEF Response, Types, Own
  <2>4. Found'
    BY <1>1, <2>1, <2>2, <2>3, FoundNext
  <2> QED
    BY <2>1, <2>2, <2>4 DEF Types
<1>10. ASSUME NEW t \in Threads, Reset(t) PROVE Types'
  <2>1. /\ Shared' /\ Len(conns') = Len(conns) /\ socks' = socks
        /\ using[t][1] \in 1..Len(conns)
        /\ got' \in [Threads -> Threads \cup {Nil}]
    BY <1>10, ResetEffect
  <2>2. Own'
    BY <1>10, <2>1 DEF Reset, Types, Own, Labels
  <2>3. pc'[t] = "idle" /\ \A v \in Threads : using'[v] = using[v] /\ rule'[v] = rule[v] /\ (v # t => pc'[v] = pc[v])
    BY <1>10 DEF Reset, Types, Own
  <2>4. Found'
    BY <1>1, <2>1, <2>2, <2>3, FoundNext
  <2> QED
    BY <2>1, <2>2, <2>4 DEF Types
<1>11. ASSUME NEW t \in Threads, TimeOut(t) PROVE Types'
  <2>1. Shared' /\ Len(conns') = Len(conns) /\ Len(socks') = Len(socks)
    BY <1>11, SharedSame DEF TimeOut
  <2>2. Own'
    BY <1>11 DEF TimeOut, Types, Own, Labels
  <2>3. Found'
    BY <1>1, <1>11, <2>1, <2>2, FoundNext DEF TimeOut, Types, Own
  <2> QED
    BY <2>1, <2>2, <2>3 DEF Types
<1>12. ASSUME NEW t \in Threads, ReadBody(t) PROVE Types'
  <2>1. Shared' /\ Len(conns') = Len(conns) /\ socks' = socks
    BY <1>12, ReadEffect
  <2>2. Own'
    BY <1>12 DEF ReadBody, Types, Own, Labels
  <2>3. pc'[t] \in {"app", "idle"} /\ \A v \in Threads : using'[v] = using[v] /\ rule'[v] = rule[v] /\ (v # t => pc'[v] = pc[v])
    BY <1>12 DEF ReadBody, Types, Own
  <2>4. Found'
    BY <1>1, <2>1, <2>2, <2>3, FoundNext
  <2> QED
    BY <2>1, <2>2, <2>4 DEF Types
<1>13. ASSUME NEW t \in Threads, App(t) PROVE Types'
  <2>1. Shared' /\ Len(conns') = Len(conns) /\ Len(socks') = Len(socks)
    BY <1>13, SharedSame DEF App
  <2>2. Own'
    BY <1>13 DEF App, Types, Own, Labels
  <2>3. pc'[t] = "idle" /\ \A v \in Threads : using'[v] = using[v] /\ rule'[v] = rule[v] /\ (v # t => pc'[v] = pc[v])
    BY <1>13 DEF App, Types, Own
  <2>4. Found'
    BY <1>1, <2>1, <2>2, <2>3, FoundNext
  <2> QED
    BY <2>1, <2>2, <2>4 DEF Types
<1>14. CASE Flip
  <2>1. Shared'
    BY <1>14, SharedSame DEF Flip
  <2>2. Own'
    BY <1>14, HttpProxyAssumption DEF Flip, Types, Own
  <2>3. Found'
    BY <1>14 DEF Flip, Types, Found
  <2> QED
    BY <2>1, <2>2, <2>3 DEF Types
<1>15. CASE UNCHANGED vars
  <2>1. Shared'
    BY <1>15, SharedSame DEF vars
  <2> QED
    BY <1>15, <2>1 DEF vars, Types, Own, Found
<1> QED
  BY <1>2, <1>3, <1>4, <1>5, <1>6, <1>7, <1>8, <1>9, <1>10, <1>11, <1>12, <1>13, <1>14, <1>15
  DEF Next, Runs, Waits

-----------------------------------------------------------------------------
(* Who answers.                                                            *)

\* The behaviour of u once REMOTE_IF_MISSING is settled.
Settled(u) ==
  IF check_behaviour(u) # "REMOTE_IF_MISSING" THEN check_behaviour(u)
  ELSE IF u \in Served THEN "LOCAL_FIRST" ELSE "ONLY_REMOTE"

\* What the rule of t is at each point, and whether t has asked the cloud.
Rule(t) ==
  /\ pc[t] # "idle" => url[t] \in Urls
  /\ using[t] # <<0, 0>> => check_behaviour(url[t]) # "ONLY_LOCAL"
  /\ pc[t] \in {"lookup", "resolve", "choose", "connect", "request", "response"} =>
       using[t] = <<0, 0>>
  /\ pc[t] \in {"lookup", "resolve"} =>
       rule[t] = check_behaviour(url[t]) /\ rule[t] # "ONLY_LOCAL"
  /\ pc[t] = "choose" => rule[t] \in {check_behaviour(url[t]), "ONLY_LOCAL"}
  /\ pc[t] \in {"connect", "request", "response", "wait", "read"} =>
       rule[t] = Settled(url[t]) /\ rule[t] # "ONLY_LOCAL"
  /\ pc[t] = "app" =>
       \/ rule[t] = "ONLY_LOCAL" /\ using[t] = <<0, 0>>
       \/ rule[t] = Settled(url[t]) /\ rule[t] # "ONLY_LOCAL"
  /\ Answered(t, "local") /\ url[t] \notin Served => using[t] = <<0, 0>>
  /\ Answered(t, "remote") /\ url[t] \in Served =>
       check_behaviour(url[t]) = "REMOTE_FIRST"

Right == \A t \in Threads : Rule(t)

\* What RightSide says follows from the rules.
LEMMA RightOK == Right => RightSide
  BY DEF Right, Rule, RightSide

\* No thread has asked for anything at the start.
LEMMA RightInit == Init => Right
  BY DEF Init, Right, Rule, Answered

\* What a thread does does not touch the others' rules.
LEMMA RightOthers ==
  ASSUME Right, NEW t \in Threads, Rule(t)',
         \A u \in Threads \ {t} : /\ pc'[u] = pc[u] /\ url'[u] = url[u] /\ rule'[u] = rule[u]
                                  /\ using'[u] = using[u] /\ answer'[u] = answer[u]
  PROVE  Right'
<1> SUFFICES ASSUME NEW u \in Threads PROVE Rule(u)'
  BY DEF Right
<1>1. CASE u = t
  BY <1>1
<1>2. CASE u # t
  BY <1>2 DEF Right, Rule, Answered
<1> QED
  BY <1>1, <1>2

\* Every step follows the rules: a REMOTE_IF_MISSING is settled by Choose, a
\* request without DNS becomes local, and App answers by what was settled.
LEMMA RightNext == TableFits /\ Types /\ Right /\ [Next]_vars => Right'
<1> SUFFICES ASSUME TableFits, Types, Right, [Next]_vars PROVE Right'
  OBVIOUS
<1> USE DEF Goto, End, env
<1>1. ASSUME NEW t \in Threads, NEW u \in Urls, Begin(t, u) PROVE Right'
  <2>1. Rule(t)'
    BY <1>1 DEF Begin, Types, Own, Rule, Answered
  <2> QED
    BY <1>1, <2>1, RightOthers DEF Begin, Types, Own
<1>2. ASSUME NEW t \in Threads, LookUp(t) PROVE Right'
  <2>1. Rule(t)'
    BY <1>2 DEF LookUp, Types, Own, Right, Rule, Answered
  <2> QED
    BY <1>2, <2>1, RightOthers DEF LookUp, Types, Own
<1>3. ASSUME NEW t \in Threads, Resolve(t) PROVE Right'
  <2>1. Rule(t)'
    BY <1>3 DEF Resolve, Types, Own, Right, Rule, Answered
  <2> QED
    BY <1>3, <2>1, RightOthers DEF Resolve, Types, Own
<1>4. ASSUME NEW t \in Threads, Choose(t) PROVE Right'
  <2>1. Rule(t)'
    BY <1>4 DEF Choose, Types, Own, Right, Rule, Answered, Settled
  <2> QED
    BY <1>4, <2>1, RightOthers DEF Choose, Types, Own
<1>5. ASSUME NEW t \in Threads, Connect(t) PROVE Right'
  <2>1. Rule(t)'
    BY <1>5 DEF Connect, Types, Own, Right, Rule, Answered
  <2> QED
    BY <1>5, <2>1, RightOthers DEF Connect, Types, Own
<1>6. ASSUME NEW t \in Threads, Request(t) PROVE Right'
  <2>1. Rule(t)'
    BY <1>6 DEF Request, SendRequest, Types, Own, Right, Rule, Answered
  <2> QED
    BY <1>6, <2>1, RightOthers DEF Request, SendRequest, Types, Own
<1>7. ASSUME NEW t \in Threads, GetResponse(t) PROVE Right'
  <2>1. check_behaviour(url[t]) # "ONLY_LOCAL"
    BY <1>7 DEF GetResponse, Right, Rule, Settled
  <2>2. Rule(t)'
    BY <1>7, <2>1 DEF GetResponse, Types, Own, Right, Rule, Answered
  <2> QED
    BY <1>7, <2>2, RightOthers DEF GetResponse, Types, Own
<1>8. ASSUME NEW t \in Threads, Response(t) PROVE Right'
  <2>1. Rule(t)'
    BY <1>8 DEF Response, Types, Own, Right, Rule, Answered
  <2> QED
    BY <1>8, <2>1, RightOthers DEF Response, Types, Own
<1>9. ASSUME NEW t \in Threads, Reset(t) PROVE Right'
  <2>1. Rule(t)'
    BY <1>9 DEF Reset, Types, Own, Right, Rule, Answered
  <2> QED
    BY <1>9, <2>1, RightOthers DEF Reset, Types, Own
<1>10. ASSUME NEW t \in Threads, TimeOut(t) PROVE Right'
  <2>1. Rule(t)'
    BY <1>10 DEF TimeOut, Types, Own, Right, Rule, Answered
  <2> QED
    BY <1>10, <2>1, RightOthers DEF TimeOut, Types, Own
<1>11. ASSUME NEW t \in Threads, ReadBody(t) PROVE Right'
  <2>1. Rule(t)'
    BY <1>11 DEF ReadBody, Types, Own, Right, Rule, Answered
  <2> QED
    BY <1>11, <2>1, RightOthers DEF ReadBody, Types, Own
<1>12. ASSUME NEW t \in Threads, App(t) PROVE Right'
  <2>1. /\ url[t] \in Urls /\ rule[t] \in BEHAVIOUR
        /\ \/ rule[t] = "ONLY_LOCAL" /\ using[t] = <<0, 0>>
           \/ rule[t] = Settled(url[t]) /\ rule[t] # "ONLY_LOCAL"
    BY <1>12 DEF App, Types, Own, Right, Rule
  <2>2. rule[t] \in {"REMOTE_FIRST", "ONLY_REMOTE"} /\ url[t] \in Served =>
          check_behaviour(url[t]) = "REMOTE_FIRST"
    BY <2>1 DEF TableFits, Settled
  <2>3. rule[t] \notin {"REMOTE_FIRST", "ONLY_REMOTE"} /\ url[t] \notin Served =>
          using[t] = <<0, 0>>
    BY <2>1 DEF TableFits, Settled, BEHAVIOUR
  <2>4. Rule(t)'
    BY <1>12, <2>1, <2>2, <2>3 DEF App, Types, Own, Right, Rule, Answered
  <2> QED
    BY <1>12, <2>4, RightOthers DEF App, Types, Own
<1>13. CASE Flip
  BY <1>13 DEF Flip, Right, Rule, Answered
<1>14. CASE UNCHANGED vars
  BY <1>14 DEF vars, Right, Rule, Answered
<1> QED
  BY <1>1, <1>2, <1>3, <1>4, <1>5, <1>6, <1>7, <1>8, <1>9, <1>10, <1>11, <1>12, <1>13, <1>14
  DEF Next, Runs, Waits

-----------------------------------------------------------------------------
(* Whose answer.                                                           *)

\* A thread between its request and the answer has the connection for itself,
\* and the only request outstanding where it will read is its own.
Alone(t) ==
  /\ pc[t] \in {"response", "wait"} =>
       /\ conns[1].state = "sent"
       /\ \A u \in Threads : pc[u] \in {"response", "wait"} => u = t
  /\ pc[t] = "response" => conns[1].sock = 0 \/ socks[conns[1].sock] \in {Nil, t}
  /\ pc[t] = "wait" => conns[1].unread = Nil /\ socks[using[t][2]] \in {Nil, t}
  /\ pc[t] = "read" => got[t] = t
  /\ pc[t] = "app" /\ rule[t] \in {"REMOTE_FIRST", "ONLY_REMOTE"} => got[t] = t
  /\ Answered(t, "remote") => got[t] = t

Single == Len(conns) <= 1 => \A t \in Threads : Alone(t)

\* A thread that is answered was alone with the connection.
LEMMA SingleOK == Types /\ Single => OwnAnswer
  BY Current DEF Single, Alone, OwnAnswer

\* No thread has anything outstanding at the start.
LEMMA SingleInit == Init => Single
  BY DEF Init, Single, Alone, Answered

\* A step that leaves the connections, the sockets and the other threads alone.
LEMMA SingleQuiet ==
  ASSUME Types, Single, NEW t \in Threads, UNCHANGED <<conns, socks>>,
         \A u \in Threads \ {t} :
           /\ pc'[u] = pc[u] /\ rule'[u] = rule[u] /\ using'[u] = using[u]
           /\ got'[u] = got[u] /\ answer'[u] = answer[u],
         pc'[t] \in {"response", "wait"} => pc[t] \in {"response", "wait"},
         Len(conns) <= 1 =>
           /\ pc'[t] = "response" => conns[1].sock = 0 \/ socks[conns[1].sock] \in {Nil, t}
           /\ pc'[t] = "wait" => conns[1].unread = Nil /\ socks[using'[t][2]] \in {Nil, t}
           /\ pc'[t] = "read" => got'[t] = t
           /\ pc'[t] = "app" /\ rule'[t] \in {"REMOTE_FIRST", "ONLY_REMOTE"} => got'[t] = t
           /\ pc'[t] = "idle" /\ answer'[t] = "remote" => got'[t] = t
  PROVE  Single'
<1> SUFFICES ASSUME Len(conns) <= 1, NEW u \in Threads PROVE Alone(u)'
  BY DEF Single
<1>1. \A v \in Threads : pc'[v] \in {"response", "wait"} => pc[v] \in {"response", "wait"}
  OBVIOUS
<1>2. pc'[u] \in {"response", "wait"} =>
        /\ conns'[1].state = "sent"
        /\ \A v \in Threads : pc'[v] \in {"response", "wait"} => v = u
  BY <1>1 DEF Single, Alone
<1>3. CASE u = t
  BY <1>2, <1>3 DEF Alone, Answered
<1>4. CASE u # t
  BY <1>2, <1>4 DEF Single, Alone, Answered
<1> QED
  BY <1>3, <1>4

\* A step after which t has nothing outstanding and no other thread has either
\* (it was t's turn, or nobody's).
LEMMA SingleFree ==
  ASSUME Single, NEW t \in Threads, Len(conns') = Len(conns),
         \A u \in Threads \ {t} :
           /\ pc'[u] = pc[u] /\ rule'[u] = rule[u] /\ got'[u] = got[u] /\ answer'[u] = answer[u],
         \A u \in Threads \ {t} : pc[u] \notin {"response", "wait"},
         pc'[t] = "response" \/ pc'[t] \notin {"response", "wait"},
         pc'[t] = "response" =>
           conns'[1].state = "sent" /\ (conns'[1].sock = 0 \/ socks'[conns'[1].sock] \in {Nil, t}),
         pc'[t] = "read" => got'[t] = t,
         pc'[t] = "app" /\ rule'[t] \in {"REMOTE_FIRST", "ONLY_REMOTE"} => got'[t] = t,
         pc'[t] = "idle" => answer'[t] # "remote",
         Len(conns) <= 1
  PROVE  Single'
<1> SUFFICES ASSUME NEW u \in Threads PROVE Alone(u)'
  BY DEF Single
<1>1. CASE u = t
  BY <1>1 DEF Alone, Answered
<1>2. CASE u # t
  BY <1>2 DEF Single, Alone, Answered
<1> QED
  BY <1>1, <1>2

\* Every step keeps the connection to one thread: Request demands that it be
\* idle, and it is not idle again before the answer.
LEMMA SingleNext == Types /\ Single /\ [Next]_vars => Single'
<1> SUFFICES ASSUME Types, Single, [Next]_vars PROVE Single'
  OBVIOUS
<1> USE DEF Goto, End, env
<1>1. Len(conns) \in Nat /\ Len(socks) \in Nat /\ current = Len(conns)
  BY Current
<1>2. ASSUME NEW t \in Threads, NEW u \in Urls, Begin(t, u) PROVE Single'
  BY <1>2, SingleQuiet DEF Begin, Types, Own
<1>3. ASSUME NEW t \in Threads, LookUp(t) PROVE Single'
  <2>1. pc'[t] \in {"resolve", "choose"}
    BY <1>3 DEF LookUp, Types, Own
  <2> QED
    BY <1>3, <2>1, SingleQuiet DEF LookUp, Types, Own
<1>4. ASSUME NEW t \in Threads, Resolve(t) PROVE Single'
  <2>1. CASE ~up
    <3>1. UNCHANGED <<conns, socks>> /\ (pc'[t] = "choose" \/ (pc'[t] = "idle" /\ answer'[t] = "error"))
      BY <1>4, <2>1 DEF Resolve, Types, Own
    <3> QED
      BY <1>4, <3>1, SingleQuiet DEF Resolve, Types, Own
  <2>2. CASE up
    <3>1. Len(conns') = Len(conns) + 1
      BY <1>4, <2>2, ResolveEffect
    <3>2. Len(conns') <= 1 => Len(conns) = 0
      BY <1>1, <3>1
    <3>3. \A u \in Threads : pc'[u] = "choose" \/ pc'[u] = pc[u]
      BY <1>4, <2>2 DEF Resolve, Types, Own
    <3>4. Len(conns) = 0 => \A u \in Threads : pc[u] \notin {"response", "wait", "read"}
      BY DEF Types, Found
    <3>5. \A u \in Threads : pc'[u] = pc[u] => rule'[u] = rule[u]
      BY <1>4, <2>2 DEF Resolve, Types, Own
    <3>6. got' = got /\ answer' = answer
      BY <1>4, <2>2 DEF Resolve
    <3> QED
      BY <1>1, <3>2, <3>3, <3>4, <3>5, <3>6 DEF Single, Alone, Answered
  <2> QED
    BY <2>1, <2>2
<1>5. ASSUME NEW t \in Threads, Choose(t) PROVE Single'
  <2>1. pc'[t] = "connect" \/ (pc'[t] = "app" /\ rule'[t] = "ONLY_LOCAL")
    BY <1>5 DEF Choose, Types, Own, BEHAVIOUR
  <2> QED
    BY <1>5, <2>1, SingleQuiet DEF Choose, Types, Own
<1>6. ASSUME NEW t \in Threads, Connect(t) PROVE Single'
  <2>1. CASE ~up
    <3>1. UNCHANGED <<conns, socks>> /\ pc'[t] = "idle" /\ answer'[t] = "error"
      BY <1>6, <2>1 DEF Connect, Types, Own
    <3> QED
      BY <1>6, <3>1, SingleQuiet DEF Connect, Types, Own
  <2>2. CASE up
    <3> SUFFICES ASSUME Len(conns) <= 1, NEW u \in Threads PROVE Alone(u)'
      BY <1>6, <2>2, ConnectEffect DEF Single
    <3>1. Len(conns) = 1 /\ current = 1
      BY <1>1, <1>6 DEF Connect, Types, Found
    <3>2. /\ Len(socks') = Len(socks) + 1
          /\ \A i \in 1..Len(socks) : socks'[i] = socks[i]
          /\ socks'[Len(socks) + 1] = Nil
          /\ conns'[1].state = conns[1].state /\ conns'[1].unread = conns[1].unread
          /\ conns'[1].sock = Len(socks) + 1
      BY <1>6, <2>2, <3>1, ConnectEffect
    <3>3. /\ pc' = [pc EXCEPT ![t] = "request"]
          /\ UNCHANGED <<rule, using, got, answer>>
      BY <1>6, <2>2 DEF Connect
    <3>4. pc[u] = "wait" => using[u][2] \in 1..Len(socks)
      BY DEF Types, Found
    <3>5. pc[t] = "connect" /\ \A v \in Threads : pc'[v] = IF v = t THEN "request" ELSE pc[v]
      BY <1>6, <3>3 DEF Connect, Types, Own
    <3> HIDE DEF Goto, End, env
    <3> QED
      BY <3>2, <3>3, <3>4, <3>5 DEF Single, Alone, Answered
  <2> QED
    BY <2>1, <2>2 DEF Types, Own
<1>7. ASSUME NEW t \in Threads, Request(t) PROVE Single'
  <2>1. CASE SendRequest(t) /\ conn.state = "idle"
    <3>1. /\ Len(conns') = Len(conns) /\ current \in 1..Len(conns)
          /\ conns'[current].state = "sent"
          /\ conns'[current].sock \in 1..Len(socks') /\ socks'[conns'[current].sock] = t
      BY <1>7, <2>1, SendEffect DEF Request
    <3> SUFFICES ASSUME Len(conns) <= 1 PROVE Single'
      BY <3>1 DEF Single
    <3>2. current = 1 /\ conns[1].state = "idle"
      BY <1>1, <2>1, <3>1, Current
    <3>3. \A u \in Threads : pc[u] \notin {"response", "wait"}
      BY <3>2 DEF Single, Alone
    <3>4. pc' = [pc EXCEPT ![t] = "response"] /\ UNCHANGED <<rule, got, answer>>
      BY <1>7, <2>1 DEF Request, SendRequest
    <3> QED
      BY <3>1, <3>2, <3>3, <3>4, SingleFree DEF Types, Own
  <2>2. CASE ~(SendRequest(t) /\ conn.state = "idle")
    <3>1. /\ socks' = socks
          /\ \/ conns' = conns
             \/ conns' = [conns EXCEPT ![current] = [conn EXCEPT !.state = "sent"]]
          /\ pc' = [pc EXCEPT ![t] = "idle"] /\ answer' = [answer EXCEPT ![t] = "error"]
          /\ UNCHANGED <<rule, using, got>>
          /\ pc[t] = "request"
      BY <1>7, <2>2 DEF Request
    <3> SUFFICES ASSUME Len(conns) <= 1, NEW u \in Threads PROVE Alone(u)'
      BY <3>1, RefuseEffect DEF Single
    <3>2. Len(conns) = 1
      BY <1>1, <3>1 DEF Types, Found
    <3>3. /\ conns'[1].sock = conns[1].sock /\ conns'[1].unread = conns[1].unread
          /\ conns'[1].state = conns[1].state \/ conns'[1].state = "sent"
      BY <3>1, <3>2, RefuseEffect
    <3>4. \A v \in Threads : /\ pc'[v] = IF v = t THEN "idle" ELSE pc[v]
                             /\ answer'[v] = IF v = t THEN "error" ELSE answer[v]
      BY <3>1 DEF Types, Own
    <3> QED
      BY <3>1, <3>3, <3>4 DEF Single, Alone, Answered
  <2> QED
    BY <2>1, <2>2
<1>8. ASSUME NEW t \in Threads, GetResponse(t) PROVE Single'
  <2>1. CASE conn.state # "sent" \/ conn.unread # Nil \/ conn.sock = 0
    <3>1. pc'[t] = "idle" /\ answer'[t] = "error"
      BY <1>8, <2>1 DEF GetResponse, Types, Own
    <3> QED
      BY <1>8, <3>1, SingleQuiet DEF GetResponse, Types, Own
  <2>2. CASE ~(conn.state # "sent" \/ conn.unread # Nil \/ conn.sock = 0)
    <3>1. pc'[t] = "wait" /\ pc[t] = "response" /\ using'[t][2] = conn.sock
      BY <1>8, <2>2 DEF GetResponse, Types, Own
    <3>2. Len(conns) <= 1 => conn = conns[1]
      BY <1>1, <3>1, Current DEF Types, Found
    <3>3. Len(conns) <= 1 => conns[1].unread = Nil /\ socks[using'[t][2]] \in {Nil, t}
      BY <2>2, <3>1, <3>2 DEF Single, Alone
    <3> QED
      BY <1>8, <3>1, <3>3, SingleQuiet DEF GetResponse, Types, Own
  <2> QED
    BY <2>1, <2>2
<1>9. ASSUME NEW t \in Threads, Response(t) PROVE Single'
  <2> SUFFICES ASSUME Len(conns) <= 1 PROVE Single'
    BY <1>9, ResponseEffect DEF Single
  <2>1. pc[t] = "wait" /\ using[t][1] = 1 /\ Len(conns') = Len(conns)
    <3>1. using[t][1] \in 1..Len(conns) /\ Len(conns') = Len(conns)
      BY <1>9, ResponseEffect
    <3>2. pc[t] = "wait"
      BY <1>9 DEF Response
    <3> QED
      BY <1>1, <3>1, <3>2
  <2>2. conns[1].unread = Nil /\ socks[using[t][2]] = t
    BY <1>9, <2>1, ResponseEffect, HttpProxyAssumption DEF Single, Alone
  <2>3. got' = [got EXCEPT ![t] = t]
    BY <1>9, <2>1, <2>2, ResponseEffect
  <2>4. \A u \in Threads \ {t} : pc[u] \notin {"response", "wait"}
    BY <2>1 DEF Single, Alone
  <2>5. pc' = [pc EXCEPT ![t] = "read"] /\ UNCHANGED <<rule, answer>>
    BY <1>9 DEF Response
  <2> QED
    BY <2>1, <2>3, <2>4, <2>5, SingleFree DEF Types, Own
<1>10. ASSUME NEW t \in Threads, Reset(t) PROVE Single'
  <2> SUFFICES ASSUME Len(conns) <= 1 PROVE Single'
    BY <1>10, ResetEffect DEF Single
  <2>1. pc[t] = "wait" /\ using[t][1] = 1 /\ Len(conns') = Len(conns)
    <3>1. using[t][1] \in 1..Len(conns) /\ Len(conns') = Len(conns)
      BY <1>10, ResetEffect
    <3>2. pc[t] = "wait"
      BY <1>10 DEF Reset
    <3> QED
      BY <1>1, <3>1, <3>2
  <2>2. got' = got
    BY <1>10, <2>1, ResetEffect DEF Single, Alone
  <2>3. \A u \in Threads \ {t} : pc[u] \notin {"response", "wait"}
    BY <2>1 DEF Single, Alone
  <2>4. /\ pc' = [pc EXCEPT ![t] = "idle"] /\ answer' = [answer EXCEPT ![t] = "error"]
        /\ rule' = rule
    BY <1>10 DEF Reset
  <2> QED
    BY <2>1, <2>2, <2>3, <2>4, SingleFree DEF Types, Own
<1>11. ASSUME NEW t \in Threads, TimeOut(t) PROVE Single'
  BY <1>11, SingleQuiet DEF TimeOut, Types, Own
<1>12. ASSUME NEW t \in Threads, ReadBody(t) PROVE Single'
  <2> SUFFICES ASSUME Len(conns) <= 1, NEW u \in Threads PROVE Alone(u)'
    BY <1>12, ReadEffect DEF Single
  <2>1. Len(conns) = 1 /\ pc[t] = "read"
    BY <1>1, <1>12 DEF ReadBody, Types, Found
  <2>2. /\ socks' = socks /\ conns'[1].state = conns[1].state
        /\ conns'[1].sock = conns[1].sock /\ conns'[1].unread \in {conns[1].unread, Nil}
    BY <1>12, <2>1, ReadEffect
  <2>3. UNCHANGED <<rule, using, got>>
    BY <1>12 DEF ReadBody
  <2>4. \/ pc' = [pc EXCEPT ![t] = "app"] /\ answer' = answer
        \/ pc' = [pc EXCEPT ![t] = "idle"] /\ answer' = [answer EXCEPT ![t] = "error"]
    BY <1>12 DEF ReadBody
  <2>5. CASE pc' = [pc EXCEPT ![t] = "app"] /\ answer' = answer
    <3>1. \A v \in Threads : pc'[v] = IF v = t THEN "app" ELSE pc[v]
      BY <2>5 DEF Types, Own
    <3> QED
      BY <2>1, <2>2, <2>3, <2>5, <3>1 DEF Single, Alone, Answered
  <2>6. CASE pc' = [pc EXCEPT ![t] = "idle"] /\ answer' = [answer EXCEPT ![t] = "error"]
    <3>1. \A v \in Threads : /\ pc'[v] = IF v = t THEN "idle" ELSE pc[v]
                             /\ answer'[v] = IF v = t THEN "error" ELSE answer[v]
      BY <2>6 DEF Types, Own
    <3> HIDE DEF Goto, End, env
    <3> QED
      BY <2>1, <2>2, <2>3, <3>1 DEF Single, Alone, Answered
  <2> QED
    BY <2>4, <2>5, <2>6
<1>13. ASSUME NEW t \in Threads, App(t) PROVE Single'
  <2>1. pc[t] = "app" /\ pc'[t] = "idle"
        /\ (answer'[t] = "remote" => rule[t] \in {"REMOTE_FIRST", "ONLY_REMOTE"})
    BY <1>13 DEF App, Types, Own
  <2>2. Len(conns) <= 1 /\ answer'[t] = "remote" => got[t] = t
    BY <2>1 DEF Single, Alone
  <2> QED
    BY <1>13, <2>1, <2>2, SingleQuiet DEF App, Types, Own
<1>14. CASE Flip
  BY <1>14 DEF Flip, Single, Alone, Answered
<1>15. CASE UNCHANGED vars
  BY <1>15 DEF vars, Single, Alone, Answered
<1> QED
  BY <1>2, <1>3, <1>4, <1>5, <1>6, <1>7, <1>8, <1>9, <1>10, <1>11, <1>12, <1>13, <1>14, <1>15
  DEF Next, Runs, Waits

-----------------------------------------------------------------------------
(* The theorems.                                                           *)

\* The type invariant holds always.
LEMMA TypesAlways == Spec => []Types
<1>1. Types /\ [Next]_vars => Types'
  BY TypesNext
<1> QED
  BY <1>1, TypesInit, PTL DEF Spec

\* Every variable keeps its type, a thread that talks to the cloud finds a
\* connection stored, and what it reads from exists.
THEOREM TypeCorrect == Spec => []TypeOK
  BY TypesAlways, TypesOK, PTL

\* A request answered from the cloud gets the cloud's answer to that very request,
\* however many threads share the connection, while only one was ever stored.
THEOREM OwnAnswerAlways == Spec => []OwnAnswer
<1>1. Types /\ Single /\ [Next]_vars => Single'
  BY SingleNext
<1>2. Types /\ Single => OwnAnswer
  BY SingleOK
<1> QED
  BY <1>1, <1>2, TypesAlways, SingleInit, PTL DEF Spec

\* Who answers is what the table says, where it says one thing about a URL, for a
\* table that prefers the local app only for what it serves and sends away only
\* what it does not.
THEOREM RightSideAlways == ASSUME TableFits PROVE Spec => []RightSide
<1>1. Types /\ Right /\ [Next]_vars => Right'
  BY RightNext
<1> QED
  BY <1>1, TypesAlways, RightInit, RightOK, PTL DEF Spec
=============================================================================
