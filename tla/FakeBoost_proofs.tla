-------------------------- MODULE FakeBoost_proofs --------------------------
(***************************************************************************)
(* Proofs about FakeBoost, for any number of REST and timer threads and    *)
(* calls, any rise, and a network that loses and reorders.                 *)
(***************************************************************************)
EXTENDS FakeBoost, TLAPS

Status    == [kind : {"status"}, room : Rooms]
Datagrams == Requests \cup Status

\* TypeOK; and the bound on calls: a thread past its checks has counted one.
TInv ==
  /\ TypeOK
  /\ \A t \in Threads : pc[t] = "check" => call[t] < MaxCalls
  /\ \A t \in Threads : pc[t] \notin {"idle", "check"} => call[t] > 0

\* The surroundings of a behaviour.
LEMMA WorldType ==
  TypeOK => /\ world.callers \subseteq Rest
            /\ world.puts \subseteq {0, 1}
            /\ world.calls \in 0..MaxCalls
  BY FakeBoostAssumption DEF TypeOK, Surroundings

\* Removing a datagram from the uplink leaves some of those that were there.
LEMMA WithoutType ==
  ASSUME NEW S, uplink \in Seq(S), NEW i \in 1..Len(uplink)
  PROVE  /\ Without(i) \in Seq(S)
         /\ Len(Without(i)) = Len(uplink) - 1
         /\ \A j \in 1..Len(Without(i)) :
              \E k \in 1..Len(uplink) : Without(i)[j] = uplink[k]
<1> DEFINE n == Len(uplink) - 1
<1>1. n \in Nat
  BY SMT
<1>2. Without(i) \in [1..n -> S]
  BY SMT DEF Without
<1>3. Without(i) \in Seq(S) /\ Len(Without(i)) = n
  BY <1>1, <1>2, SMT
<1>4. ASSUME NEW j \in 1..n
      PROVE  \E k \in 1..Len(uplink) : Without(i)[j] = uplink[k]
  <2>1. Without(i)[j] = IF j < i THEN uplink[j] ELSE uplink[j + 1]
    BY SMT DEF Without
  <2>2. j \in 1..Len(uplink) /\ j + 1 \in 1..Len(uplink)
    BY SMT
  <2> QED
    BY <2>1, <2>2
<1> QED
  BY <1>3, <1>4

\* A datagram that is appended is the only new one.
LEMMA AppendType ==
  ASSUME NEW S, uplink \in Seq(S), NEW m \in S
  PROVE  /\ Append(uplink, m) \in Seq(S)
         /\ \A j \in 1..Len(Append(uplink, m)) :
              Append(uplink, m)[j] = m
              \/ \E k \in 1..Len(uplink) : Append(uplink, m)[j] = uplink[k]
  BY SMT

\* A request is of its type, and of the caller's current call.
LEMMA RequestType ==
  ASSUME NEW t \in Threads, call[t] \in 1..MaxCalls
  PROVE  /\ \A v \in Nat : Request(t, "t3", v) \in Requests
         /\ \A m \in Modes : Request(t, "mode", m) \in Requests
         /\ Txn(t) \in Txns
  BY DEF Request, Requests, Txn, Txns

\* A SET stores a T3 or a mode.
LEMMA UpdatedType ==
  ASSUME NEW r \in Rooms, NEW m \in Requests
  PROVE  Updated(r, m) \in Rooms
  BY DEF Updated, Rooms, Requests

\* Datagrams by their kind.
LEMMA DatagramType ==
  ASSUME NEW m \in Datagrams
  PROVE  /\ m.kind = "set" => m \in Requests /\ m.txn[1] \in Threads
         /\ m.kind = "status" => m \in Status /\ m.room \in Rooms
  BY DEF Datagrams, Requests, Status, Txns

\* The initial state is well typed.
LEMMA TypeInit == Init => TInv
<1> SUFFICES ASSUME Init PROVE TInv
  OBVIOUS
<1>1. dev \in Rooms /\ room \in Rooms /\ crossed \in BOOLEAN
  BY FakeBoostAssumption DEF Init, Rooms, Modes
<1>2. uplink \in Seq(Requests \cup [kind : {"status"}, room : Rooms])
  BY DEF Init
<1> QED
  BY <1>1, <1>2, FakeBoostAssumption, SMT DEF Init, TInv, TypeOK, Threads, Txns

\* Every step keeps the types.
LEMMA TypeNext ==
  TInv /\ [Next]_vars => TInv'
<1> SUFFICES ASSUME TInv, [Next]_vars
             PROVE  TInv'
  OBVIOUS
<1>a. /\ world' = world
      /\ world.callers \subseteq Rest /\ world.puts \subseteq {0, 1}
      /\ world.calls \in 0..MaxCalls
  BY WorldType DEF Next, Recorded, vars, TInv
<1>b. crossed' \in BOOLEAN
  BY DEF Next, Recorded, vars, TInv, TypeOK
<1> USE <1>a, <1>b, FakeBoostAssumption
<1> USE DEF TInv, Threads, mirror, net, Return
<1>0. uplink \in Seq(Datagrams)
  BY DEF TypeOK, Datagrams, Status
<1>1. ASSUME NEW t \in Rest, NEW v \in {0, 1}, Put(t, v)
      PROVE  TInv'
  BY <1>1, SMTT(30) DEF Put, TypeOK
<1>2. ASSUME NEW t \in Threads, Check(t)
      PROVE  TInv'
  <2>1. \/ /\ pc' = [pc EXCEPT ![t] = "read"]
           /\ call' = [call EXCEPT ![t] = @ + 1]
           /\ outcome' = outcome
        \/ /\ pc' = [pc EXCEPT ![t] = "idle"]
           /\ outcome' = [outcome EXCEPT ![t] = 0]
           /\ call' = call
    BY <1>2 DEF Check
  <2>2. UNCHANGED <<room, timer, pending, dev, want, new_t3, answered,
                    downlink, uplink, applied>> /\ pc[t] = "check"
    BY <1>2 DEF Check
  <2>3. CASE /\ pc' = [pc EXCEPT ![t] = "read"]
             /\ call' = [call EXCEPT ![t] = @ + 1]
             /\ outcome' = outcome
    BY <2>2, <2>3, SMTT(30) DEF TypeOK
  <2>4. CASE /\ pc' = [pc EXCEPT ![t] = "idle"]
             /\ outcome' = [outcome EXCEPT ![t] = 0]
             /\ call' = call
    BY <2>2, <2>4, SMTT(30) DEF TypeOK
  <2> QED
    BY <2>1, <2>3, <2>4
<1>3. ASSUME NEW t \in Threads, SendT3(t)
      PROVE  TInv'
  <2> DEFINE v == IF want[t] = 1 THEN room.t3 + Rise ELSE room.t3 - Rise
  <2>1. v \in Int /\ call[t] \in 1..MaxCalls
    BY <1>3 DEF SendT3, TypeOK, Rooms
  <2>2. /\ new_t3' = [new_t3 EXCEPT ![t] = v]
        /\ pc[t] = "read"
        /\ UNCHANGED <<room, timer, pending, dev, want, answered, call, uplink,
                       applied>>
    BY <1>3 DEF SendT3
  <2>3. CASE v < 0
    <3>1. /\ pc' = [pc EXCEPT ![t] = "idle"]
          /\ outcome' = [outcome EXCEPT ![t] = Error]
          /\ downlink' = downlink
      BY <1>3, <2>3 DEF SendT3
    <3> QED
      BY <2>1, <2>2, <3>1 DEF TypeOK
  <2>4. CASE ~(v < 0)
    <3>1. /\ pc' = [pc EXCEPT ![t] = "wait_t3"]
          /\ outcome' = outcome
          /\ downlink' = downlink \cup {Request(t, "t3", v)}
      BY <1>3, <2>4 DEF SendT3
    <3>2. Request(t, "t3", v) \in Requests
      BY <2>1, <2>4, RequestType
    <3> QED
      BY <2>1, <2>2, <3>1, <3>2 DEF TypeOK
  <2> QED
    BY <2>3, <2>4
<1>4. ASSUME NEW t \in Threads, SendMode(t)
      PROVE  TInv'
  <2> DEFINE m == IF want[t] = 1 THEN "PARTY" ELSE "AUTO"
  <2>1. call[t] \in 1..MaxCalls /\ m \in Modes
    BY <1>4 DEF SendMode, TypeOK, Modes
  <2>2. Request(t, "mode", m) \in Requests
    BY <2>1, RequestType
  <2> QED
    BY <1>4, <2>2, SMTT(30) DEF SendMode, TypeOK
<1>5. ASSUME NEW t \in Threads, Finish(t)
      PROVE  TInv'
  BY <1>5, SMTT(30) DEF Finish, TypeOK
<1>6. ASSUME NEW t \in Threads, GiveUp(t)
      PROVE  TInv'
  BY <1>6, SMTT(30) DEF GiveUp, TypeOK
<1>7. ASSUME NEW i \in Deliverable, ReceiveSet(i)
      PROVE  TInv'
  <2>1. i \in 1..Len(uplink)
    BY <1>7 DEF Deliverable
  <2>2. uplink' \in Seq(Datagrams)
    BY <1>0, <1>7, <2>1, WithoutType DEF ReceiveSet
  <2>3. uplink[i] \in Requests /\ uplink[i].txn[1] \in Threads
    BY <1>0, <1>7, <2>1, DatagramType DEF ReceiveSet
  <2>4. room' \in Rooms
    BY <1>7, <2>3, UpdatedType DEF ReceiveSet, TypeOK
  <2>5. answered' \subseteq Threads
    BY <1>7, <2>3 DEF ReceiveSet, TypeOK
  <2> QED
    BY <1>7, <2>2, <2>4, <2>5, SMTT(30)
    DEF ReceiveSet, TypeOK, Datagrams, Status
<1>8. ASSUME NEW i \in Deliverable, ReceiveStatus(i)
      PROVE  TInv'
  <2>1. i \in 1..Len(uplink)
    BY <1>8 DEF Deliverable
  <2>2. uplink' \in Seq(Datagrams)
    BY <1>0, <1>8, <2>1, WithoutType DEF ReceiveStatus
  <2>3. uplink[i].room \in Rooms
    BY <1>0, <1>8, <2>1, DatagramType DEF ReceiveStatus
  <2>4. room' \in Rooms /\ pending' \in Rooms
    BY <1>8, <2>3 DEF ReceiveStatus, Rooms, TypeOK
  <2> QED
    BY <1>8, <2>2, <2>4, SMTT(30)
    DEF ReceiveStatus, TypeOK, local, Datagrams, Status
<1>9. ASSUME StatusMode
      PROVE  TInv'
  <2>1. pending \in Rooms /\ room' \in Rooms /\ pending' = Nil
    BY <1>9 DEF StatusMode, TypeOK, Rooms
  <2>2. UNCHANGED <<dev, new_t3, answered, call, downlink, uplink, applied>>
    BY <1>9 DEF StatusMode
  <2>3. timer' \in {"absent", "off", "running", "expired"}
    BY <1>9 DEF StatusMode, TypeOK
  <2>4. CASE UNCHANGED <<pc, want, outcome>>
    BY <2>1, <2>2, <2>3, <2>4 DEF TypeOK
  <2>5. ASSUME NEW t \in Timers, pc[t] = "idle", call[t] < world.calls,
               pc' = [pc EXCEPT ![t] = "check"],
               want' = [want EXCEPT ![t] = 0],
               outcome' = [outcome EXCEPT ![t] = Nil]
        PROVE  TInv'
    BY <2>1, <2>2, <2>3, <2>5 DEF TypeOK
  <2> QED
    BY <1>9, <2>4, <2>5 DEF StatusMode
<1>10. ASSUME Expire
      PROVE  TInv'
  BY <1>10, SMTT(30) DEF Expire, local, TypeOK
<1>11. ASSUME NEW m \in downlink, DeviceApplies(m)
      PROVE  TInv'
  <2>1. m \in Requests /\ m \in Datagrams
    BY <1>11 DEF TypeOK, Datagrams
  <2>4. applied' \subseteq Txns \X {"t3", "mode"}
    BY <1>11, <2>1 DEF DeviceApplies, TypeOK, Requests
  <2>2. uplink' \in Seq(Datagrams)
    BY <1>0, <1>11, <2>1, AppendType DEF DeviceApplies
  <2>3. dev' \in Rooms
    BY <1>11, <2>1, UpdatedType DEF DeviceApplies, TypeOK
  <2> QED
    BY <1>11, <2>1, <2>2, <2>3, <2>4, SMTT(30)
    DEF DeviceApplies, local, TypeOK, Datagrams, Status
<1>12. ASSUME DeviceReports
      PROVE  TInv'
  <2>1. [kind |-> "status", room |-> dev] \in Datagrams
    BY DEF Datagrams, Status, TypeOK
  <2>2. uplink' \in Seq(Datagrams)
    BY <1>0, <1>12, <2>1, AppendType DEF DeviceReports
  <2> QED
    BY <1>12, <2>2, SMTT(30) DEF DeviceReports, local, TypeOK, Datagrams, Status
<1>13. ASSUME Panel
      PROVE  TInv'
  <2>1. dev' \in Rooms
    <3>1. dev \in Rooms
      BY DEF TypeOK
    <3>2. ASSUME NEW m \in Modes PROVE [dev EXCEPT !.mode = m] \in Rooms
      BY <3>1 DEF Rooms
    <3>3. ASSUME NEW b \in BOOLEAN
          PROVE  /\ [dev EXCEPT !.busy = b] \in Rooms
                 /\ [dev EXCEPT !.warm = b] \in Rooms
      BY <3>1 DEF Rooms
    <3>4. /\ PanelModes \subseteq Modes
          /\ PanelBusy \subseteq BOOLEAN /\ PanelWarm \subseteq BOOLEAN
      BY DEF Modes
    <3> QED
      BY <1>13, <3>2, <3>3, <3>4 DEF Panel
  <2> QED
    BY <1>13, <2>1, SMTT(30) DEF Panel, local, TypeOK
<1>14. ASSUME Lose
      PROVE  TInv'
  <2>1. uplink' \in Seq(Datagrams)
    BY <1>0, <1>14, WithoutType DEF Lose
  <2>2. downlink' \subseteq Requests
    BY <1>14 DEF Lose, TypeOK
  <2> QED
    BY <1>14, <2>1, <2>2, SMTT(30) DEF Lose, local, TypeOK, Datagrams, Status
<1>15. ASSUME UNCHANGED vars
      PROVE  TInv'
  BY <1>15, SMTT(30) DEF vars, TypeOK
<1>16. ASSUME StatusFails
      PROVE  TInv'
  <2>1. pending \in Rooms /\ room' \in Rooms /\ pending' = Nil
    BY <1>16 DEF StatusFails, TypeOK, Rooms
  <2> QED
    BY <1>16, <2>1, SMTT(30) DEF StatusFails, local, TypeOK
<1> QED
  BY <1>1, <1>2, <1>3, <1>4, <1>5, <1>6, <1>7, <1>8, <1>9, <1>10, <1>11,
     <1>12, <1>13, <1>14, <1>15, <1>16
  DEF Next, Step, ThreadStep, Receive

\* The variables keep their types; the mirrored T3 is never negative, because a
\* negative one cannot be packed and so is never echoed.
THEOREM TypeCorrect == Spec => []TypeOK
<1>1. Init => TInv
  BY TypeInit
<1>2. TInv /\ [Next]_vars => TInv'
  BY TypeNext
<1>3. TInv => TypeOK
  BY DEF TInv
<1> QED
  BY <1>1, <1>2, <1>3, PTL DEF Spec

-----------------------------------------------------------------------------
(* What the device has applied.                                            *)

\* The device answers only what it has applied.
EchoesApplied ==
  \A i \in 1..Len(uplink) : uplink[i].kind = "set" => <<uplink[i].txn, uplink[i].field>> \in applied

\* The requests of the current call of t have been applied.
T3Applied(t)   == <<Txn(t), "t3">> \in applied
ModeApplied(t) == <<Txn(t), "mode">> \in applied

\* A thread that has its answer waits for it, and its request was applied.
AnswersApplied ==
  \A t \in answered :
    /\ pc[t] \in {"wait_t3", "wait_mode"}
    /\ pc[t] = "wait_t3" => T3Applied(t)
    /\ pc[t] = "wait_mode" => ModeApplied(t)

\* The mode is sent only once the new T3 is confirmed.
ModeAfterT3 ==
  \A t \in Threads : pc[t] = "wait_mode" => T3Applied(t)

\* OkMeansBoosted for every thread.
OkDone ==
  \A t \in Threads : pc[t] = "idle" /\ outcome[t] = 1 =>
     want[t] = 1 /\ T3Applied(t) /\ ModeApplied(t)

IInv == TInv /\ EchoesApplied /\ AnswersApplied /\ ModeAfterT3 /\ OkDone

\* The device records a request as it answers it.
LEMMA EchoesAppliedNext ==
  TInv /\ EchoesApplied /\ [Next]_vars => EchoesApplied'
<1> SUFFICES ASSUME TInv, EchoesApplied, [Next]_vars
             PROVE  EchoesApplied'
  OBVIOUS
<1>a. /\ world' = world
      /\ world.callers \subseteq Rest /\ world.puts \subseteq {0, 1}
      /\ world.calls \in 0..MaxCalls
  BY WorldType DEF Next, Recorded, vars, TInv
<1> USE FakeBoostAssumption
<1> USE DEF TInv, TypeOK, Threads, Txn, mirror, net, Return
<1>1. ASSUME NEW t \in Rest, NEW v \in {0, 1}, Put(t, v)
      PROVE  EchoesApplied'
  <2>1. uplink' = uplink /\ applied' = applied
    BY <1>1 DEF Put
  <2> QED
    BY <2>1 DEF EchoesApplied
<1>2. ASSUME NEW t \in Threads, Check(t)
      PROVE  EchoesApplied'
  BY <1>2, SMTT(30) DEF Check, EchoesApplied
<1>3. ASSUME NEW t \in Threads, SendT3(t)
      PROVE  EchoesApplied'
  BY <1>3, SMTT(30) DEF SendT3, EchoesApplied
<1>4. ASSUME NEW t \in Threads, SendMode(t)
      PROVE  EchoesApplied'
  BY <1>4, SMTT(30) DEF SendMode, EchoesApplied
<1>5. ASSUME NEW t \in Threads, Finish(t)
      PROVE  EchoesApplied'
  BY <1>5, SMTT(30) DEF Finish, EchoesApplied
<1>6. ASSUME NEW t \in Threads, GiveUp(t)
      PROVE  EchoesApplied'
  BY <1>6, SMTT(30) DEF GiveUp, EchoesApplied
<1>7. ASSUME NEW i \in Deliverable, ReceiveSet(i)
      PROVE  EchoesApplied'
  <2>0. uplink \in Seq(Datagrams)
    BY DEF Datagrams, Status
  <2>1. i \in 1..Len(uplink)
    BY <1>7 DEF Deliverable
  <2>2. \A j \in 1..Len(uplink') : \E k \in 1..Len(uplink) : uplink'[j] = uplink[k]
    <3>1. uplink' = Without(i)
      BY <1>7 DEF ReceiveSet
    <3>2. \A j \in 1..Len(Without(i)) : \E k \in 1..Len(uplink) : Without(i)[j] = uplink[k]
      BY <2>0, <2>1, WithoutType
    <3> QED
      BY <3>1, <3>2
  <2>3. applied' = applied
    BY <1>7 DEF ReceiveSet
  <2> QED
    BY <2>2, <2>3 DEF EchoesApplied
<1>8. ASSUME NEW i \in Deliverable, ReceiveStatus(i)
      PROVE  EchoesApplied'
  <2>0. uplink \in Seq(Datagrams)
    BY DEF Datagrams, Status
  <2>1. i \in 1..Len(uplink)
    BY <1>8 DEF Deliverable
  <2>2. \A j \in 1..Len(uplink') : \E k \in 1..Len(uplink) : uplink'[j] = uplink[k]
    <3>1. uplink' = Without(i)
      BY <1>8 DEF ReceiveStatus
    <3>2. \A j \in 1..Len(Without(i)) : \E k \in 1..Len(uplink) : Without(i)[j] = uplink[k]
      BY <2>0, <2>1, WithoutType
    <3> QED
      BY <3>1, <3>2
  <2>3. applied' = applied
    BY <1>8 DEF ReceiveStatus
  <2> QED
    BY <2>2, <2>3 DEF EchoesApplied
<1>9. ASSUME StatusMode
      PROVE  EchoesApplied'
  <2>1. UNCHANGED <<dev, new_t3, answered, call, downlink, uplink, applied>>
    BY <1>9 DEF StatusMode
  <2>2. CASE UNCHANGED <<pc, want, outcome>>
    BY <2>1, <2>2 DEF EchoesApplied
  <2>3. ASSUME NEW t \in Timers, pc[t] = "idle", call[t] < world.calls,
               pc' = [pc EXCEPT ![t] = "check"],
               want' = [want EXCEPT ![t] = 0],
               outcome' = [outcome EXCEPT ![t] = Nil]
        PROVE  EchoesApplied'
    BY <2>1, <2>3, SMTT(30) DEF EchoesApplied
  <2> QED
    BY <1>9, <2>2, <2>3 DEF StatusMode
<1>10. ASSUME Expire
      PROVE  EchoesApplied'
  BY <1>10, SMTT(30) DEF Expire, local, EchoesApplied
<1>11. ASSUME NEW m \in downlink, DeviceApplies(m)
      PROVE  EchoesApplied'
  BY <1>11, SMTT(30) DEF DeviceApplies, local, EchoesApplied
<1>12. ASSUME DeviceReports
      PROVE  EchoesApplied'
  BY <1>12, SMTT(30) DEF DeviceReports, local, EchoesApplied
<1>13. ASSUME Panel
      PROVE  EchoesApplied'
  BY <1>13, SMTT(30) DEF Panel, local, EchoesApplied
<1>14. ASSUME Lose
      PROVE  EchoesApplied'
  <2>0. uplink \in Seq(Datagrams)
    BY DEF Datagrams, Status
  <2>1. applied' = applied
    BY <1>14 DEF Lose
  <2>2. CASE UNCHANGED uplink
    BY <2>1, <2>2 DEF EchoesApplied
  <2>3. ASSUME NEW i \in 1..Len(uplink), uplink' = Without(i)
        PROVE  EchoesApplied'
    <3>1. \A j \in 1..Len(uplink') : \E k \in 1..Len(uplink) : uplink'[j] = uplink[k]
      <4>1. \A j \in 1..Len(Without(i)) : \E k \in 1..Len(uplink) : Without(i)[j] = uplink[k]
        BY <2>0, WithoutType
      <4> QED
        BY <2>3, <4>1
    <3> QED
      BY <2>1, <3>1 DEF EchoesApplied
  <2> QED
    BY <1>14, <2>2, <2>3 DEF Lose
<1>15. ASSUME UNCHANGED vars
      PROVE  EchoesApplied'
  BY <1>15, SMTT(30) DEF vars, EchoesApplied
<1>16. ASSUME StatusFails
      PROVE  EchoesApplied'
  BY <1>16, SMTT(30) DEF StatusFails, local, EchoesApplied
<1> QED
  BY <1>1, <1>2, <1>3, <1>4, <1>5, <1>6, <1>7, <1>8, <1>9, <1>10, <1>11,
     <1>12, <1>13, <1>14, <1>15, <1>16, <1>a
  DEF Next, Step, ThreadStep, Receive

\* A thread is woken by the answer to its own request.
LEMMA AnswersAppliedNext ==
  TInv /\ EchoesApplied /\ AnswersApplied /\ [Next]_vars => AnswersApplied'
<1> SUFFICES ASSUME TInv, EchoesApplied, AnswersApplied, [Next]_vars
             PROVE  AnswersApplied'
  OBVIOUS
<1>a. /\ world' = world
      /\ world.callers \subseteq Rest /\ world.puts \subseteq {0, 1}
      /\ world.calls \in 0..MaxCalls
  BY WorldType DEF Next, Recorded, vars, TInv
<1> USE FakeBoostAssumption
<1> USE DEF TInv, TypeOK, Threads, Txn, mirror, net, Return
<1>1. ASSUME NEW t \in Rest, NEW v \in {0, 1}, Put(t, v)
      PROVE  AnswersApplied'
  <2>1. \A u \in answered : u # t /\ u \in Threads
    BY <1>1 DEF Put, AnswersApplied
  <2>2. \A u \in answered : call'[u] = call[u] /\ pc'[u] = pc[u]
    BY <1>1, <2>1 DEF Put
  <2>3. answered' = answered /\ applied' = applied
    BY <1>1 DEF Put
  <2> QED
    BY <2>2, <2>3 DEF AnswersApplied, T3Applied, ModeApplied
<1>2. ASSUME NEW t \in Threads, Check(t)
      PROVE  AnswersApplied'
  <2>1. \A u \in answered : u # t /\ u \in Threads
    BY <1>2 DEF Check, AnswersApplied
  <2>2. \A u \in answered : call'[u] = call[u] /\ pc'[u] = pc[u]
    BY <1>2, <2>1 DEF Check
  <2>3. answered' = answered /\ applied' = applied
    BY <1>2 DEF Check
  <2> QED
    BY <2>2, <2>3 DEF AnswersApplied, T3Applied, ModeApplied
<1>3. ASSUME NEW t \in Threads, SendT3(t)
      PROVE  AnswersApplied'
  <2>1. \A u \in answered : u # t /\ u \in Threads
    BY <1>3 DEF SendT3, AnswersApplied
  <2>2. \A u \in answered : call'[u] = call[u] /\ pc'[u] = pc[u]
    BY <1>3, <2>1 DEF SendT3
  <2>3. answered' = answered /\ applied' = applied
    BY <1>3 DEF SendT3
  <2> QED
    BY <2>2, <2>3 DEF AnswersApplied, T3Applied, ModeApplied
<1>4. ASSUME NEW t \in Threads, SendMode(t)
      PROVE  AnswersApplied'
  BY <1>4, SMTT(30) DEF SendMode, AnswersApplied, EchoesApplied, T3Applied, ModeApplied
<1>5. ASSUME NEW t \in Threads, Finish(t)
      PROVE  AnswersApplied'
  BY <1>5, SMTT(30) DEF Finish, AnswersApplied, EchoesApplied, T3Applied, ModeApplied
<1>6. ASSUME NEW t \in Threads, GiveUp(t)
      PROVE  AnswersApplied'
  BY <1>6, SMTT(30) DEF GiveUp, AnswersApplied, EchoesApplied, T3Applied, ModeApplied
<1>7. ASSUME NEW i \in Deliverable, ReceiveSet(i)
      PROVE  AnswersApplied'
  <2>0. uplink \in Seq(Datagrams)
    BY DEF Datagrams, Status
  <2>1. i \in 1..Len(uplink)
    BY <1>7 DEF Deliverable
  <2> DEFINE m == uplink[i]
             w == m.txn[1]
  <2>2. m \in Requests /\ <<m.txn, m.field>> \in applied
    BY <1>7, <2>0, <2>1, DatagramType DEF ReceiveSet, EchoesApplied
  <2>3. m.field \in {"t3", "mode"}
    BY <2>2 DEF Requests
  <2>4. UNCHANGED <<pc, call, applied>>
    BY <1>7 DEF ReceiveSet
  <2>5. ASSUME NEW u \in answered', u \notin answered
        PROVE  /\ u = w /\ Txn(u) = m.txn
               /\ pc[u] = IF m.field = "t3" THEN "wait_t3" ELSE "wait_mode"
    BY <1>7, <2>5 DEF ReceiveSet
  <2>6. ASSUME NEW u \in answered', u \notin answered
        PROVE  /\ pc[u] \in {"wait_t3", "wait_mode"}
               /\ pc[u] = "wait_t3" => T3Applied(u)
               /\ pc[u] = "wait_mode" => ModeApplied(u)
    BY <2>2, <2>3, <2>5, <2>6 DEF T3Applied, ModeApplied
  <2> QED
    BY <2>4, <2>6 DEF AnswersApplied, T3Applied, ModeApplied
<1>8. ASSUME NEW i \in Deliverable, ReceiveStatus(i)
      PROVE  AnswersApplied'
  BY <1>8, SMTT(30) DEF ReceiveStatus, local, AnswersApplied, EchoesApplied, T3Applied, ModeApplied
<1>9. ASSUME StatusMode
      PROVE  AnswersApplied'
  <2>1. UNCHANGED <<dev, new_t3, answered, call, downlink, uplink, applied>>
    BY <1>9 DEF StatusMode
  <2>2. \A u \in answered : call'[u] = call[u] /\ pc'[u] = pc[u]
    <3>1. CASE UNCHANGED <<pc, want, outcome>>
      BY <2>1, <3>1
    <3>2. ASSUME NEW t \in Timers, pc[t] = "idle",
                 pc' = [pc EXCEPT ![t] = "check"]
          PROVE  \A u \in answered : call'[u] = call[u] /\ pc'[u] = pc[u]
      BY <2>1, <3>2 DEF AnswersApplied
    <3> QED
      BY <1>9, <3>1, <3>2 DEF StatusMode
  <2> QED
    BY <2>1, <2>2 DEF AnswersApplied, T3Applied, ModeApplied
<1>10. ASSUME Expire
      PROVE  AnswersApplied'
  BY <1>10, SMTT(30) DEF Expire, local, AnswersApplied, EchoesApplied, T3Applied, ModeApplied
<1>11. ASSUME NEW m \in downlink, DeviceApplies(m)
      PROVE  AnswersApplied'
  BY <1>11, SMTT(30) DEF DeviceApplies, local, AnswersApplied, EchoesApplied, T3Applied, ModeApplied
<1>12. ASSUME DeviceReports
      PROVE  AnswersApplied'
  BY <1>12, SMTT(30) DEF DeviceReports, local, AnswersApplied, EchoesApplied, T3Applied, ModeApplied
<1>13. ASSUME Panel
      PROVE  AnswersApplied'
  BY <1>13, SMTT(30) DEF Panel, local, AnswersApplied, EchoesApplied, T3Applied, ModeApplied
<1>14. ASSUME Lose
      PROVE  AnswersApplied'
  BY <1>14, SMTT(30) DEF Lose, local, AnswersApplied, EchoesApplied, T3Applied, ModeApplied
<1>15. ASSUME UNCHANGED vars
      PROVE  AnswersApplied'
  BY <1>15, SMTT(30) DEF vars, AnswersApplied, EchoesApplied, T3Applied, ModeApplied
<1>16. ASSUME StatusFails
      PROVE  AnswersApplied'
  BY <1>16, SMTT(30) DEF StatusFails, local, AnswersApplied, T3Applied, ModeApplied
<1> QED
  BY <1>1, <1>2, <1>3, <1>4, <1>5, <1>6, <1>7, <1>8, <1>9, <1>10, <1>11,
     <1>12, <1>13, <1>14, <1>15, <1>16, <1>a
  DEF Next, Step, ThreadStep, Receive

\* SendMode needs the answer to SET_T3.
LEMMA ModeAfterT3Next ==
  TInv /\ AnswersApplied /\ ModeAfterT3 /\ [Next]_vars => ModeAfterT3'
<1> SUFFICES ASSUME TInv, AnswersApplied, ModeAfterT3, [Next]_vars
             PROVE  ModeAfterT3'
  OBVIOUS
<1>a. /\ world' = world
      /\ world.callers \subseteq Rest /\ world.puts \subseteq {0, 1}
      /\ world.calls \in 0..MaxCalls
  BY WorldType DEF Next, Recorded, vars, TInv
<1> USE FakeBoostAssumption
<1> USE DEF TInv, TypeOK, Threads, Txn, mirror, net, Return
<1>1. ASSUME NEW t \in Rest, NEW v \in {0, 1}, Put(t, v)
      PROVE  ModeAfterT3'
  BY <1>1, SMTT(30) DEF Put, ModeAfterT3, AnswersApplied, T3Applied, ModeApplied
<1>2. ASSUME NEW t \in Threads, Check(t)
      PROVE  ModeAfterT3'
  BY <1>2, SMTT(30) DEF Check, ModeAfterT3, AnswersApplied, T3Applied, ModeApplied
<1>3. ASSUME NEW t \in Threads, SendT3(t)
      PROVE  ModeAfterT3'
  BY <1>3, SMTT(30) DEF SendT3, ModeAfterT3, AnswersApplied, T3Applied, ModeApplied
<1>4. ASSUME NEW t \in Threads, SendMode(t)
      PROVE  ModeAfterT3'
  <2>1. T3Applied(t)
    BY <1>4 DEF SendMode, AnswersApplied
  <2>2. /\ \A u \in Threads : u # t => pc'[u] = pc[u]
        /\ UNCHANGED <<call, applied>>
    BY <1>4 DEF SendMode
  <2> QED
    BY <2>1, <2>2 DEF ModeAfterT3, T3Applied
<1>5. ASSUME NEW t \in Threads, Finish(t)
      PROVE  ModeAfterT3'
  BY <1>5, SMTT(30) DEF Finish, ModeAfterT3, AnswersApplied, T3Applied, ModeApplied
<1>6. ASSUME NEW t \in Threads, GiveUp(t)
      PROVE  ModeAfterT3'
  BY <1>6, SMTT(30) DEF GiveUp, ModeAfterT3, AnswersApplied, T3Applied, ModeApplied
<1>7. ASSUME NEW i \in Deliverable, ReceiveSet(i)
      PROVE  ModeAfterT3'
  BY <1>7, SMTT(30) DEF ReceiveSet, ModeAfterT3, AnswersApplied, T3Applied, ModeApplied
<1>8. ASSUME NEW i \in Deliverable, ReceiveStatus(i)
      PROVE  ModeAfterT3'
  BY <1>8, SMTT(30) DEF ReceiveStatus, local, ModeAfterT3, AnswersApplied, T3Applied, ModeApplied
<1>9. ASSUME StatusMode
      PROVE  ModeAfterT3'
  <2>1. UNCHANGED <<dev, new_t3, answered, call, downlink, uplink, applied>>
    BY <1>9 DEF StatusMode
  <2>2. CASE UNCHANGED <<pc, want, outcome>>
    BY <2>1, <2>2 DEF ModeAfterT3, AnswersApplied, T3Applied, ModeApplied
  <2>3. ASSUME NEW t \in Timers, pc[t] = "idle", call[t] < world.calls,
               pc' = [pc EXCEPT ![t] = "check"],
               want' = [want EXCEPT ![t] = 0],
               outcome' = [outcome EXCEPT ![t] = Nil]
        PROVE  ModeAfterT3'
    BY <2>1, <2>3, SMTT(30) DEF ModeAfterT3, AnswersApplied, T3Applied, ModeApplied
  <2> QED
    BY <1>9, <2>2, <2>3 DEF StatusMode
<1>10. ASSUME Expire
      PROVE  ModeAfterT3'
  BY <1>10, SMTT(30) DEF Expire, local, ModeAfterT3, AnswersApplied, T3Applied, ModeApplied
<1>11. ASSUME NEW m \in downlink, DeviceApplies(m)
      PROVE  ModeAfterT3'
  BY <1>11, SMTT(30) DEF DeviceApplies, local, ModeAfterT3, AnswersApplied, T3Applied, ModeApplied
<1>12. ASSUME DeviceReports
      PROVE  ModeAfterT3'
  BY <1>12, SMTT(30) DEF DeviceReports, local, ModeAfterT3, AnswersApplied, T3Applied, ModeApplied
<1>13. ASSUME Panel
      PROVE  ModeAfterT3'
  BY <1>13, SMTT(30) DEF Panel, local, ModeAfterT3, AnswersApplied, T3Applied, ModeApplied
<1>14. ASSUME Lose
      PROVE  ModeAfterT3'
  BY <1>14, SMTT(30) DEF Lose, local, ModeAfterT3, AnswersApplied, T3Applied, ModeApplied
<1>15. ASSUME UNCHANGED vars
      PROVE  ModeAfterT3'
  BY <1>15, SMTT(30) DEF vars, ModeAfterT3, AnswersApplied, T3Applied, ModeApplied
<1>16. ASSUME StatusFails
      PROVE  ModeAfterT3'
  BY <1>16, SMTT(30) DEF StatusFails, local, ModeAfterT3, AnswersApplied, T3Applied, ModeApplied
<1> QED
  BY <1>1, <1>2, <1>3, <1>4, <1>5, <1>6, <1>7, <1>8, <1>9, <1>10, <1>11,
     <1>12, <1>13, <1>14, <1>15, <1>16, <1>a
  DEF Next, Step, ThreadStep, Receive

\* Only Finish returns 1.
LEMMA OkDoneNext ==
  TInv /\ AnswersApplied /\ ModeAfterT3 /\ OkDone /\ [Next]_vars => OkDone'
<1> SUFFICES ASSUME TInv, AnswersApplied, ModeAfterT3, OkDone, [Next]_vars
             PROVE  OkDone'
  OBVIOUS
<1>a. /\ world' = world
      /\ world.callers \subseteq Rest /\ world.puts \subseteq {0, 1}
      /\ world.calls \in 0..MaxCalls
  BY WorldType DEF Next, Recorded, vars, TInv
<1> USE FakeBoostAssumption
<1> USE DEF TInv, TypeOK, Threads, Txn, mirror, net, Return
<1>1. ASSUME NEW t \in Rest, NEW v \in {0, 1}, Put(t, v)
      PROVE  OkDone'
  BY <1>1, SMTT(30) DEF Put, OkDone, ModeAfterT3, AnswersApplied, T3Applied, ModeApplied
<1>2. ASSUME NEW t \in Threads, Check(t)
      PROVE  OkDone'
  <2>1. \A u \in Threads : u # t =>
          pc'[u] = pc[u] /\ outcome'[u] = outcome[u] /\ call'[u] = call[u]
    BY <1>2 DEF Check
  <2>2. pc'[t] = "read" \/ outcome'[t] = 0
    BY <1>2 DEF Check
  <2>3. want' = want /\ applied' = applied
    BY <1>2 DEF Check
  <2>4. ~(pc'[t] = "idle" /\ outcome'[t] = 1)
    BY <1>2, <2>2 DEF Check
  <2>5. ASSUME NEW u \in Threads, pc'[u] = "idle" /\ outcome'[u] = 1
        PROVE  want'[u] = 1 /\ T3Applied(u)' /\ ModeApplied(u)'
    <3>1. u # t
      BY <2>4, <2>5
    <3>2. want[u] = 1 /\ T3Applied(u) /\ ModeApplied(u)
      BY <2>1, <2>5, <3>1 DEF OkDone
    <3> QED
      BY <2>1, <2>3, <3>1, <3>2 DEF T3Applied, ModeApplied
  <2> QED
    BY <2>5 DEF OkDone
<1>3. ASSUME NEW t \in Threads, SendT3(t)
      PROVE  OkDone'
  BY <1>3, SMTT(30) DEF SendT3, OkDone, ModeAfterT3, AnswersApplied, T3Applied, ModeApplied
<1>4. ASSUME NEW t \in Threads, SendMode(t)
      PROVE  OkDone'
  BY <1>4, SMTT(30) DEF SendMode, OkDone, ModeAfterT3, AnswersApplied, T3Applied, ModeApplied
<1>5. ASSUME NEW t \in Threads, Finish(t)
      PROVE  OkDone'
  BY <1>5, SMTT(30) DEF Finish, OkDone, ModeAfterT3, AnswersApplied, T3Applied, ModeApplied
<1>6. ASSUME NEW t \in Threads, GiveUp(t)
      PROVE  OkDone'
  BY <1>6, SMTT(30) DEF GiveUp, OkDone, ModeAfterT3, AnswersApplied, T3Applied, ModeApplied
<1>7. ASSUME NEW i \in Deliverable, ReceiveSet(i)
      PROVE  OkDone'
  BY <1>7, SMTT(30) DEF ReceiveSet, OkDone, ModeAfterT3, AnswersApplied, T3Applied, ModeApplied
<1>8. ASSUME NEW i \in Deliverable, ReceiveStatus(i)
      PROVE  OkDone'
  BY <1>8, SMTT(30) DEF ReceiveStatus, local, OkDone, ModeAfterT3, AnswersApplied, T3Applied, ModeApplied
<1>9. ASSUME StatusMode
      PROVE  OkDone'
  <2>1. UNCHANGED <<dev, new_t3, answered, call, downlink, uplink, applied>>
    BY <1>9 DEF StatusMode
  <2>2. CASE UNCHANGED <<pc, want, outcome>>
    BY <2>1, <2>2 DEF OkDone, ModeAfterT3, AnswersApplied, T3Applied, ModeApplied
  <2>3. ASSUME NEW t \in Timers, pc[t] = "idle", call[t] < world.calls,
               pc' = [pc EXCEPT ![t] = "check"],
               want' = [want EXCEPT ![t] = 0],
               outcome' = [outcome EXCEPT ![t] = Nil]
        PROVE  OkDone'
    BY <2>1, <2>3, SMTT(30) DEF OkDone, ModeAfterT3, AnswersApplied, T3Applied, ModeApplied
  <2> QED
    BY <1>9, <2>2, <2>3 DEF StatusMode
<1>10. ASSUME Expire
      PROVE  OkDone'
  BY <1>10, SMTT(30) DEF Expire, local, OkDone, ModeAfterT3, AnswersApplied, T3Applied, ModeApplied
<1>11. ASSUME NEW m \in downlink, DeviceApplies(m)
      PROVE  OkDone'
  BY <1>11, SMTT(30) DEF DeviceApplies, local, OkDone, ModeAfterT3, AnswersApplied, T3Applied, ModeApplied
<1>12. ASSUME DeviceReports
      PROVE  OkDone'
  BY <1>12, SMTT(30) DEF DeviceReports, local, OkDone, ModeAfterT3, AnswersApplied, T3Applied, ModeApplied
<1>13. ASSUME Panel
      PROVE  OkDone'
  BY <1>13, SMTT(30) DEF Panel, local, OkDone, ModeAfterT3, AnswersApplied, T3Applied, ModeApplied
<1>14. ASSUME Lose
      PROVE  OkDone'
  BY <1>14, SMTT(30) DEF Lose, local, OkDone, ModeAfterT3, AnswersApplied, T3Applied, ModeApplied
<1>15. ASSUME UNCHANGED vars
      PROVE  OkDone'
  BY <1>15, SMTT(30) DEF vars, OkDone, ModeAfterT3, AnswersApplied, T3Applied, ModeApplied
<1>16. ASSUME StatusFails
      PROVE  OkDone'
  BY <1>16, SMTT(30) DEF StatusFails, local, OkDone, ModeAfterT3, AnswersApplied, T3Applied, ModeApplied
<1> QED
  BY <1>1, <1>2, <1>3, <1>4, <1>5, <1>6, <1>7, <1>8, <1>9, <1>10, <1>11,
     <1>12, <1>13, <1>14, <1>15, <1>16, <1>a
  DEF Next, Step, ThreadStep, Receive

-----------------------------------------------------------------------------
(* The theorems.                                                           *)

\* The initial state satisfies the inductive invariant.
LEMMA InvInit == Init => IInv
<1> SUFFICES ASSUME Init PROVE IInv
  OBVIOUS
<1>1. TInv
  BY TypeInit
<1>2. \A t \in Threads : pc[t] = "idle" /\ outcome[t] = Nil
  BY DEF Init
<1>3. answered = {} /\ Len(uplink) = 0
  BY DEF Init
<1>4. Nil # 1
  BY FakeBoostAssumption
<1>5. EchoesApplied /\ AnswersApplied
  BY <1>3 DEF EchoesApplied, AnswersApplied
<1>6. ModeAfterT3 /\ OkDone
  BY <1>2, <1>4 DEF ModeAfterT3, OkDone
<1> QED
  BY <1>1, <1>5, <1>6 DEF IInv

\* Every step keeps it.
LEMMA InvNext == IInv /\ [Next]_vars => IInv'
  BY TypeNext, EchoesAppliedNext, AnswersAppliedNext, ModeAfterT3Next, OkDoneNext
  DEF IInv

\* OK means boosted: a PUT of 1 returns 1 only if the device has applied the
\* raised T3 and then PARTY, for any number of concurrent callers and timers.
THEOREM OkMeansBoostedAlways == Spec => []OkMeansBoosted
<1>1. Init => IInv
  BY InvInit
<1>2. IInv /\ [Next]_vars => IInv'
  BY InvNext
<1>3. IInv => OkMeansBoosted
  BY DEF IInv, OkDone, OkMeansBoosted, Did, Threads, T3Applied, ModeApplied
<1> QED
  BY <1>1, <1>2, <1>3, PTL DEF Spec

\* The timer starts and stops only in the step Finish, by a call both of whose
\* requests the device has applied.
LEMMA TimerStep ==
  IInv /\ [Next]_vars => 
    (/\ ~Boosting /\ Boosting' => \E t \in Threads : want[t] = 1 /\ Did(t)
     /\ Boosting /\ ~Boosting' => \E t \in Threads : want[t] = 0 /\ Did(t))
<1> SUFFICES ASSUME IInv, [Next]_vars
    PROVE  /\ ~Boosting /\ Boosting' => \E t \in Threads : want[t] = 1 /\ Did(t)
           /\ Boosting /\ ~Boosting' => \E t \in Threads : want[t] = 0 /\ Did(t)
  OBVIOUS
<1>1. CASE timer' = timer
  BY <1>1 DEF Boosting
<1>2. CASE StatusMode
  BY <1>2 DEF StatusMode, Boosting
<1>3. CASE Expire
  BY <1>3 DEF Expire, Boosting
<1>4. ASSUME NEW t \in Threads, Finish(t)
      PROVE  /\ ~Boosting /\ Boosting' => \E u \in Threads : want[u] = 1 /\ Did(u)
             /\ Boosting /\ ~Boosting' => \E u \in Threads : want[u] = 0 /\ Did(u)
  <2>1. T3Applied(t) /\ ModeApplied(t)
    BY <1>4 DEF Finish, IInv, AnswersApplied, ModeAfterT3
  <2>2. Did(t)
    BY <2>1 DEF Did, T3Applied, ModeApplied
  <2>3. want[t] = 1 \/ want[t] = 0
    BY DEF IInv, TInv, TypeOK
  <2>4. timer' = IF want[t] = 1 THEN "running" ELSE "off"
    BY <1>4 DEF Finish
  <2> QED
    BY <2>2, <2>3, <2>4 DEF Boosting
<1>5. timer' = timer \/ StatusMode \/ Expire \/ \E t \in Threads : Finish(t)
  BY DEF Next, Step, vars, ThreadStep, Receive, mirror, Put, Check, SendT3, SendMode,
         GiveUp, ReceiveSet, ReceiveStatus, StatusFails, DeviceApplies, DeviceReports,
         Panel, Lose
<1> QED
  BY <1>1, <1>2, <1>3, <1>4, <1>5

\* The timer follows the device, not the wish of the caller.
THEOREM TimerFollowsDeviceAlways == Spec => TimerFollowsDevice
<1>1. Init => IInv
  BY InvInit
<1>2. IInv /\ [Next]_vars => IInv'
  BY InvNext
<1>3. IInv /\ [Next]_vars =>
        [/\ ~Boosting /\ Boosting' => \E t \in Threads : want[t] = 1 /\ Did(t)
         /\ Boosting /\ ~Boosting' => \E t \in Threads : want[t] = 0 /\ Did(t)]_vars
  BY TimerStep
<1> QED
  BY <1>1, <1>2, <1>3, PTL DEF Spec, TimerFollowsDevice

-----------------------------------------------------------------------------
(* The timer as a lock.                                                    *)

\* A call that boosts holds the timer off, one that un-boosts holds it on, and
\* there is one of each at most.
Lock ==
  /\ \A t, u \in Threads : Working(t) /\ Working(u) /\ want[t] = want[u] => t = u
  /\ \A t \in Threads : Working(t) => IF want[t] = 1 THEN timer = "off" ELSE Boosting

\* What most steps do: nobody gets past the check, nobody turns the timer.
Held ==
  /\ \A t \in Threads : Working(t)' => Working(t) /\ want'[t] = want[t]
  /\ Boosting' = Boosting
  /\ timer = "off" => timer' = "off"

LEMMA HeldSteps ==
  ASSUME TypeOK,
         \/ \E t \in Threads : \/ SendT3(t) \/ SendMode(t) \/ GiveUp(t)
                               \/ \E v \in {0, 1} : Put(t, v)
         \/ Receive \/ StatusMode \/ StatusFails \/ Expire \/ DeviceReports
         \/ Panel \/ Lose \/ (\E m \in downlink : DeviceApplies(m))
         \/ UNCHANGED vars
  PROVE  Held
<1>1. ASSUME NEW t \in Threads, \E v \in {0, 1} : Put(t, v)
      PROVE  Held
  <2>1. /\ pc[t] = "idle" /\ pc' = [pc EXCEPT ![t] = "check"]
        /\ \E v \in {0, 1} : want' = [want EXCEPT ![t] = v]
        /\ timer' = timer
    BY <1>1 DEF Put, mirror
  <2> QED
    BY <2>1 DEF Held, Working, Boosting, TypeOK
<1>2. ASSUME NEW t \in Threads, SendT3(t) \/ SendMode(t) \/ GiveUp(t)
      PROVE  Held
  <2>1. /\ Working(t)
        /\ \E p \in {"wait_t3", "wait_mode", "idle"} : pc' = [pc EXCEPT ![t] = p]
        /\ UNCHANGED <<want, timer>>
    BY <1>2 DEF SendT3, SendMode, GiveUp, Return, mirror, Working
  <2> QED
    BY <2>1 DEF Held, Working, Boosting, TypeOK
<1>3. CASE StatusMode
  <2>1. /\ Boosting' = Boosting
        /\ timer = "off" => timer' = "off"
    BY <1>3 DEF StatusMode, Boosting
  <2>2. \/ UNCHANGED <<pc, want>>
        \/ \E u \in Timers : /\ pc[u] = "idle" /\ pc' = [pc EXCEPT ![u] = "check"]
                             /\ want' = [want EXCEPT ![u] = 0]
    BY <1>3 DEF StatusMode
  <2>3. \A u \in Threads : Working(u)' => Working(u) /\ want'[u] = want[u]
    BY <2>2 DEF Working, TypeOK
  <2> QED
    BY <2>1, <2>3 DEF Held
<1>4. CASE Expire
  BY <1>4 DEF Expire, Held, Boosting, Working, local
<1>5. CASE \/ Receive \/ StatusFails \/ DeviceReports \/ Panel \/ Lose
           \/ (\E m \in downlink : DeviceApplies(m)) \/ UNCHANGED vars
  <2>1. UNCHANGED <<pc, want, timer>>
    BY <1>5 DEF Receive, ReceiveSet, ReceiveStatus, StatusFails, DeviceReports, Panel,
                Lose, DeviceApplies, mirror, local, vars
  <2> QED
    BY <2>1 DEF Held, Boosting, Working
<1> QED
  BY <1>1, <1>2, <1>3, <1>4, <1>5

\* Nobody else turns the timer on or off meanwhile.
LEMMA LockNext ==
  ASSUME TInv, Lock, [Next]_vars, ~crossed'
  PROVE  Lock'
<1> USE DEF TInv
<1>0. /\ world.callers \subseteq Rest /\ world.puts \subseteq {0, 1}
  BY WorldType
<1>1. ASSUME NEW t \in Threads, NEW u \in Threads,
             Working(t)', Working(u)', want'[t] = want'[u]
      PROVE  t = u
  <2>1. CASE Next
    BY <1>1, <2>1 DEF Next, Recorded, Doubled
  <2>2. CASE UNCHANGED vars
    BY <1>1, <2>2 DEF vars, Working, Lock
  <2> QED
    BY <2>1, <2>2
<1>2. ASSUME NEW t \in Threads, Working(t)'
      PROVE  IF want'[t] = 1 THEN timer' = "off" ELSE Boosting'
  <2>1. CASE Held
    BY <1>2, <2>1 DEF Held, Lock
  <2>2. ASSUME NEW u \in Threads, Check(u)
        PROVE  IF want'[t] = 1 THEN timer' = "off" ELSE Boosting'
    <3>1. /\ pc[u] = "check"
          /\ UNCHANGED <<want, timer>>
          /\ IF Allowed(u) THEN pc' = [pc EXCEPT ![u] = "read"]
                           ELSE pc' = [pc EXCEPT ![u] = "idle"]
      BY <2>2 DEF Check, Return, mirror
    <3>2. CASE Working(t)
      BY <3>1, <3>2 DEF Lock, Boosting
    <3>3. CASE ~Working(t)
      <4>1. t = u /\ Allowed(u)
        BY <1>2, <3>1, <3>3 DEF Working, TypeOK
      <4> QED
        BY <3>1, <4>1 DEF Allowed, Boosting
    <3> QED
      BY <3>2, <3>3
  <2>3. ASSUME NEW u \in Threads, Finish(u)
        PROVE  FALSE
    <3>1. /\ Working(u) /\ pc' = [pc EXCEPT ![u] = "idle"] /\ UNCHANGED want
      BY <2>3 DEF Finish, Return, Working
    <3>2. t # u /\ Working(t)
      BY <1>2, <3>1 DEF Working, TypeOK
    <3>3. want[t] # want[u] /\ want[t] \in {0, 1} /\ want[u] \in {0, 1}
      BY <3>1, <3>2 DEF Lock, TypeOK
    <3> QED
      BY <3>1, <3>2, <3>3 DEF Lock, Boosting
  <2> QED
    BY <1>0, <2>1, <2>2, <2>3, HeldSteps DEF Next, Step, ThreadStep, Threads
<1> QED
  BY <1>1, <1>2 DEF Lock

\* Nobody is past its check while another is.
LEMMA Alone ==
  ASSUME TypeOK, Lock, NEW t \in Threads, NEW u \in Threads, Working(t), Working(u)
  PROVE  t = u
<1>1. want[t] \in {0, 1} /\ want[u] \in {0, 1}
  BY DEF TypeOK
<1> QED
  BY <1>1 DEF Lock, Boosting

\* A boost is never started while another is being undone, nor the other way
\* round: the timer's guards exclude it, whoever calls and whatever the network
\* does, as long as no two calls for the same value have been past their checks.
THEOREM BoostExcludesUnboostAlways ==
  Spec => []BoostExcludesUnboost
<1>1. Init => TInv /\ (~crossed => Lock)
  BY TypeInit DEF Init, Lock, Working
<1>2. TInv /\ (~crossed => Lock) /\ [Next]_vars => TInv' /\ (~crossed => Lock)'
  <2>1. [Next]_vars /\ ~crossed' => ~crossed
    BY DEF Next, Recorded, vars
  <2> QED
    BY <2>1, TypeNext, LockNext
<1>3. TInv /\ (~crossed => Lock) => BoostExcludesUnboost
  BY Alone DEF TInv, BoostExcludesUnboost
<1> QED
  BY <1>1, <1>2, <1>3, PTL DEF Spec

-----------------------------------------------------------------------------
(* The books of T3: what it is before and after the call under way.        *)

Before == Base + (IF Boosting THEN Rise ELSE 0)
After  == Base + (IF Boosting THEN 0 ELSE Rise)

IsSet(m)   == m.kind = "set"
IsT3(m)    == m.kind = "set" /\ m.field = "t3"
Waiting(t) == pc[t] \in {"wait_t3", "wait_mode"}

\* The request m is the one its thread waits for, and its T3 is the right one.
Asked(m) ==
  LET t == m.txn[1] IN
  /\ t \notin answered
  /\ m.txn = Txn(t)
  /\ pc[t] = IF m.field = "t3" THEN "wait_t3" ELSE "wait_mode"
  /\ m.field = "t3" => m.val = After

AllAsked ==
  /\ \A m \in downlink : Asked(m)
  /\ \A i \in 1..Len(uplink) : IsSet(uplink[i]) => Asked(uplink[i])

\* At most one request is under way, in one direction.
OneRequest ==
  /\ \A m, n \in downlink : m = n
  /\ \A i, j \in 1..Len(uplink) : IsSet(uplink[i]) /\ IsSet(uplink[j]) => i = j
  /\ downlink # {} => \A i \in 1..Len(uplink) : ~IsSet(uplink[i])

\* The device has applied the T3 of the call under way; its echo is under way.
EchoAfter(i) == \E j \in 1..Len(uplink) : j > i /\ IsT3(uplink[j])
Moved ==
  \/ EchoAfter(0)
  \/ \E t \in Threads : pc[t] = "wait_mode" \/ (pc[t] = "wait_t3" /\ t \in answered)
DeviceT3 == dev.t3 = IF Moved THEN After ELSE Before

\* The mirror and every STATUS have the T3 of their place in the queue.
MirrorT3 ==
  /\ room.t3 = IF EchoAfter(0) THEN Before ELSE dev.t3
  /\ \A i \in 1..Len(uplink) : ~IsSet(uplink[i]) =>
       uplink[i].room.t3 = IF EchoAfter(i) THEN Before ELSE dev.t3

Books == AllAsked /\ OneRequest /\ DeviceT3 /\ MirrorT3

\* A thread that waits has its answer, or holds the only request.
LEMMA AskedWaits ==
  ASSUME TypeOK, NEW m \in Requests, Asked(m)
  PROVE  m.txn[1] \in Threads /\ Waiting(m.txn[1]) /\ Working(m.txn[1])
  BY DEF Requests, Txns, Asked, Waiting, Working

\* With nobody waiting for an answer, nothing is under way.
LEMMA NothingAsked ==
  ASSUME TypeOK, AllAsked, \A t \in Threads : Waiting(t) => t \in answered
  PROVE  /\ downlink = {}
         /\ \A i \in 1..Len(uplink) : ~IsSet(uplink[i])
         /\ \A i : ~EchoAfter(i)
<1>1. \A m \in downlink : FALSE
  BY AskedWaits DEF AllAsked, TypeOK, Asked
<1>2. ASSUME NEW i \in 1..Len(uplink), IsSet(uplink[i])
      PROVE  FALSE
  <2>1. uplink[i] \in Requests
    BY <1>2, DatagramType DEF TypeOK, Datagrams, Status, IsSet
  <2> QED
    BY <1>2, <2>1, AskedWaits DEF AllAsked, Asked
<1> QED
  BY <1>1, <1>2 DEF EchoAfter, IsT3, IsSet

\* T3 as the timer says is T3 after the call that has turned it.
LEMMA Levels ==
  /\ Before \in Nat /\ After \in Nat
  /\ Boosting' = Boosting => Before' = Before /\ After' = After
  /\ Boosting' = ~Boosting => Before' = After /\ After' = Before
  BY FakeBoostAssumption DEF Before, After, Boosting

\* Steps that leave the requests, T3 and the waiting threads alone.
Aside ==
  /\ UNCHANGED <<answered, downlink, uplink>>
  /\ room'.t3 = room.t3 /\ dev'.t3 = dev.t3
  /\ Boosting' = Boosting
  /\ \A t \in Threads : Waiting(t) \/ Waiting(t)' =>
       pc'[t] = pc[t] /\ call'[t] = call[t]

LEMMA AsideKeeps ==
  ASSUME TypeOK, AllAsked, OneRequest, DeviceT3, MirrorT3, Aside
  PROVE  Books'
<1>1. Before' = Before /\ After' = After
  BY Levels DEF Aside
<1>2. \A i : EchoAfter(i)' = EchoAfter(i)
  BY DEF Aside, EchoAfter, IsT3
<1>3. Moved' = Moved
  BY <1>2, SMTT(30) DEF Moved, Aside, Waiting
<1>4. ASSUME NEW m \in Requests, Asked(m)
      PROVE  Asked(m)'
  <2>1. Waiting(m.txn[1]) /\ m.txn[1] \in Threads
    BY <1>4, AskedWaits
  <2>2. pc'[m.txn[1]] = pc[m.txn[1]] /\ call'[m.txn[1]] = call[m.txn[1]]
    BY <2>1 DEF Aside
  <2> QED
    BY <1>1, <1>4, <2>2 DEF Asked, Aside, Txn
<1>5. AllAsked'
  <2>1. \A i \in 1..Len(uplink) : IsSet(uplink[i]) => uplink[i] \in Requests
    BY DatagramType DEF TypeOK, Datagrams, Status, IsSet
  <2>2. downlink \subseteq Requests
    BY DEF TypeOK
  <2> QED
    BY <1>4, <2>1, <2>2 DEF AllAsked, Aside, IsSet
<1>6. OneRequest'
  BY DEF OneRequest, Aside, IsSet
<1>7. DeviceT3'
  BY <1>1, <1>3 DEF DeviceT3, Aside
<1>8. MirrorT3'
  BY <1>1, <1>2 DEF MirrorT3, Aside, IsSet
<1> QED
  BY <1>5, <1>6, <1>7, <1>8 DEF Books

\* These steps do.
LEMMA AsideSteps ==
  ASSUME TypeOK,
         \/ \E t \in Threads : Check(t) \/ \E v \in {0, 1} : Put(t, v)
         \/ StatusMode \/ StatusFails \/ Expire \/ Panel \/ UNCHANGED vars
  PROVE  Aside
<1>1. ASSUME NEW t \in Threads, NEW v \in {0, 1}, Put(t, v)
      PROVE  Aside
  BY <1>1, SMTT(30) DEF Put, Aside, Waiting, mirror, net, Boosting, TypeOK
<1>2. ASSUME NEW t \in Threads, Check(t)
      PROVE  Aside
  <2>1. pc[t] = "check" /\ \E p \in {"read", "idle"} : pc' = [pc EXCEPT ![t] = p]
    BY <1>2 DEF Check, Return
  <2>2. \A u \in Threads \ {t} : call'[u] = call[u]
    BY <1>2 DEF Check, TypeOK
  <2>3. UNCHANGED <<answered, downlink, uplink, room, dev, timer>>
    BY <1>2 DEF Check, mirror, net
  <2> QED
    BY <2>1, <2>2, <2>3 DEF Aside, Waiting, Boosting, TypeOK
<1>3. CASE StatusMode
  <2>1. UNCHANGED <<answered, downlink, uplink, dev, call>>
    BY <1>3 DEF StatusMode, net
  <2>2. Boosting' = Boosting
    BY <1>3 DEF StatusMode, Boosting
  <2>3. room'.t3 = room.t3
    BY <1>3 DEF StatusMode, TypeOK, Rooms
  <2>4. pc' = pc \/ \E u \in Timers : pc[u] = "idle" /\ pc' = [pc EXCEPT ![u] = "check"]
    BY <1>3 DEF StatusMode
  <2>5. \A u \in Threads : Waiting(u) \/ Waiting(u)' => pc'[u] = pc[u]
    BY <2>4 DEF Waiting, TypeOK
  <2> QED
    BY <2>1, <2>2, <2>3, <2>5 DEF Aside
<1>4. CASE Expire
  BY <1>4 DEF Expire, Aside, Boosting, local, net
<1>5. CASE Panel
  <2>1. dev'.t3 = dev.t3
    BY <1>5 DEF Panel, TypeOK, Rooms
  <2> QED
    BY <1>5, <2>1 DEF Panel, Aside, Boosting, mirror, local, net
<1>6. CASE UNCHANGED vars
  BY <1>6 DEF vars, Aside, Boosting
<1>7. CASE StatusFails
  <2>1. room'.t3 = room.t3
    BY <1>7 DEF StatusFails, TypeOK, Rooms
  <2> QED
    BY <1>7, <2>1 DEF StatusFails, Aside, Boosting, local, net
<1> QED
  BY <1>1, <1>2, <1>3, <1>4, <1>5, <1>6, <1>7

\* The way of a call: T3 is requested with the value it is to have after it.
LEMMA SendT3Keeps ==
  ASSUME TypeOK, AnswersApplied, Lock, Books,
         NEW t \in Threads, SendT3(t)
  PROVE  Books'
<1> DEFINE v == IF want[t] = 1 THEN room.t3 + Rise ELSE room.t3 - Rise
<1>1. pc[t] = "read" /\ Working(t)
  BY DEF SendT3, Working
<1>2. \A u \in Threads : ~Waiting(u)
  BY <1>1, Alone DEF Waiting, Working
<1>3. answered = {}
  BY <1>2 DEF AnswersApplied, TypeOK, Waiting
<1>4. /\ downlink = {}
      /\ \A i \in 1..Len(uplink) : ~IsSet(uplink[i])
      /\ \A i : ~EchoAfter(i)
  BY <1>2, NothingAsked DEF Books
<1>5. ~Moved /\ dev.t3 = Before /\ room.t3 = Before
  BY <1>2, <1>4 DEF Moved, Waiting, Books, DeviceT3, MirrorT3
<1>6. v = After /\ After \in Nat
  <2>1. want[t] = 1 \/ want[t] = 0
    BY DEF TypeOK
  <2>2. want[t] = 1 => ~Boosting
    BY <1>1 DEF Lock, Boosting
  <2>3. want[t] = 0 => Boosting
    BY <1>1 DEF Lock
  <2> QED
    BY <1>5, <2>1, <2>2, <2>3, Levels, FakeBoostAssumption DEF Before, After
<1>a. PICK m : m = Request(t, "t3", After)
  OBVIOUS
<1>b. m.txn = Txn(t) /\ m.txn[1] = t /\ m.field = "t3" /\ m.val = After
  BY <1>a DEF Request, Txn
<1>7. /\ downlink' = {m}
      /\ pc' = [pc EXCEPT ![t] = "wait_t3"]
      /\ UNCHANGED <<room, timer, dev, answered, call, uplink>>
  BY <1>4, <1>6, <1>a DEF SendT3, mirror
<1>8. Before' = Before /\ After' = After
  BY <1>7, Levels DEF Boosting
<1>9. \A i : ~EchoAfter(i)'
  BY <1>4, <1>7 DEF EchoAfter, IsT3
<1>10. ~Moved'
  BY <1>2, <1>3, <1>7, <1>9, SMTT(30) DEF Moved, Waiting, TypeOK
<1>11. Asked(m)'
  BY <1>3, <1>7, <1>8, <1>b DEF Asked, Txn, TypeOK
<1>12. AllAsked'
  BY <1>4, <1>7, <1>8, <1>11 DEF AllAsked, IsSet
<1>13. OneRequest'
  BY <1>4, <1>7 DEF OneRequest, IsSet
<1> QED
  BY <1>4, <1>5, <1>7, <1>8, <1>9, <1>10, <1>12, <1>13
  DEF Books, DeviceT3, MirrorT3, IsSet

\* The mode is requested with T3 at its new value, at the device and here.
LEMMA SendModeKeeps ==
  ASSUME TypeOK, AnswersApplied, Lock, Books,
         NEW t \in Threads, SendMode(t)
  PROVE  Books'
<1>1. pc[t] = "wait_t3" /\ t \in answered /\ Working(t)
  BY DEF SendMode, Working
<1>2. \A u \in Threads : Waiting(u) => u = t
  BY <1>1, Alone DEF Waiting, Working
<1>4. /\ downlink = {}
      /\ \A i \in 1..Len(uplink) : ~IsSet(uplink[i])
      /\ \A i : ~EchoAfter(i)
  BY <1>1, <1>2, NothingAsked DEF Books
<1>5. PICK m : m = Request(t, "mode", IF want[t] = 1 THEN "PARTY" ELSE "AUTO")
  OBVIOUS
<1>6. m.txn = Txn(t) /\ m.txn[1] = t /\ m.field = "mode"
  BY <1>5 DEF Request, Txn
<1>7. /\ downlink' = {m}
      /\ pc' = [pc EXCEPT ![t] = "wait_mode"]
      /\ answered' = answered \ {t}
      /\ UNCHANGED <<room, timer, dev, call, uplink>>
  BY <1>4, <1>5 DEF SendMode, mirror
<1>8. Before' = Before /\ After' = After
  BY <1>7, Levels DEF Boosting
<1>9. \A i : ~EchoAfter(i)'
  BY <1>4, <1>7 DEF EchoAfter, IsT3
<1>10. Moved /\ Moved'
  <2>1. pc'[t] = "wait_mode"
    BY <1>7 DEF TypeOK
  <2> QED
    BY <1>1, <2>1 DEF Moved
<1>11. Asked(m)'
  BY <1>6, <1>7 DEF Asked, Txn, TypeOK
<1>12. AllAsked'
  BY <1>4, <1>7, <1>11 DEF AllAsked, IsSet
<1>13. OneRequest'
  BY <1>4, <1>7 DEF OneRequest, IsSet
<1> QED
  BY <1>4, <1>7, <1>8, <1>9, <1>10, <1>12, <1>13
  DEF Books, DeviceT3, MirrorT3, IsSet

\* Confirmed, the timer is turned, and what T3 is after the call is what the
\* timer now says it is.
LEMMA FinishKeeps ==
  ASSUME TypeOK, AnswersApplied, Lock, Books,
         NEW t \in Threads, Finish(t)
  PROVE  Books'
<1>1. pc[t] = "wait_mode" /\ t \in answered /\ Working(t)
  BY DEF Finish, Working
<1>2. \A u \in Threads : Waiting(u) => u = t
  BY <1>1, Alone DEF Waiting, Working
<1>4. /\ downlink = {}
      /\ \A i \in 1..Len(uplink) : ~IsSet(uplink[i])
      /\ \A i : ~EchoAfter(i)
  BY <1>1, <1>2, NothingAsked DEF Books
<1>5. Moved /\ dev.t3 = After /\ room.t3 = After
  BY <1>1, <1>4 DEF Moved, Books, DeviceT3, MirrorT3
<1>6. /\ timer' = IF want[t] = 1 THEN "running" ELSE "off"
      /\ pc' = [pc EXCEPT ![t] = "idle"]
      /\ UNCHANGED <<room, dev, downlink, uplink>>
  BY DEF Finish, Return, net
<1>7. Boosting' = ~Boosting
  <2>1. want[t] = 1 \/ want[t] = 0
    BY DEF TypeOK
  <2>2. want[t] = 1 => timer = "off"
    BY <1>1 DEF Lock, Boosting
  <2>3. want[t] = 0 => Boosting
    BY <1>1 DEF Lock
  <2> QED
    BY <1>6, <2>1, <2>2, <2>3 DEF Boosting
<1>8. Before' = After /\ After' = Before
  BY <1>7, Levels
<1>9. \A i : ~EchoAfter(i)'
  BY <1>4, <1>6 DEF EchoAfter, IsT3
<1>10. ~Moved'
  <2>1. \A u \in Threads : pc'[u] \notin {"wait_t3", "wait_mode"}
    BY <1>2, <1>6 DEF Waiting, TypeOK
  <2> QED
    BY <1>9, <2>1 DEF Moved
<1>12. AllAsked' /\ OneRequest'
  BY <1>4, <1>6 DEF AllAsked, OneRequest, IsSet
<1> QED
  BY <1>4, <1>5, <1>6, <1>8, <1>9, <1>10, <1>12
  DEF Books, DeviceT3, MirrorT3, IsSet

\* The device applies T3: from here on it is what it is after the call; what
\* it reported before is still under way.
LEMMA AppliesKeeps ==
  ASSUME TypeOK, Lock, Books,
         NEW m \in downlink, DeviceApplies(m)
  PROVE  Books'
<1>0. /\ m \in Requests /\ m.kind = "set"
      /\ m.field = "t3" \/ m.field = "mode"
      /\ uplink \in Seq(Datagrams) /\ m \in Datagrams
  BY DEF TypeOK, Requests, Datagrams, Status
<1>1. /\ Asked(m)
      /\ \A n \in downlink : n = m
      /\ \A i \in 1..Len(uplink) : ~IsSet(uplink[i])
      /\ \A i : ~EchoAfter(i)
  BY DEF Books, AllAsked, OneRequest, EchoAfter, IsT3, IsSet
<1>2. PICK t \in Threads : t = m.txn[1] /\ t \notin answered /\ Waiting(t)
  BY <1>0, <1>1, AskedWaits DEF Asked
<1>3. \A u \in Threads : Waiting(u) => u = t
  BY <1>2, Alone DEF Waiting, Working
<1>4. /\ uplink' = Append(uplink, m)
      /\ downlink' = {}
      /\ dev' = Updated(dev, m)
      /\ UNCHANGED <<room, timer, pc, answered, call>>
  BY <1>1 DEF DeviceApplies, mirror, local
<1>5. Before' = Before /\ After' = After
  BY <1>4, Levels DEF Boosting
<1>6. /\ Len(uplink') = Len(uplink) + 1 /\ Len(uplink) \in Nat
      /\ uplink'[Len(uplink')] = m
      /\ \A i \in 1..Len(uplink) : uplink'[i] = uplink[i]
  BY <1>0, <1>4
<1>7. \A i \in 1..Len(uplink') : IsSet(uplink'[i]) => i = Len(uplink')
  BY <1>1, <1>6 DEF IsSet
<1>8. Asked(m)'
  BY <1>1, <1>4, <1>5 DEF Asked, Txn
<1>9. AllAsked'
  BY <1>4, <1>6, <1>7, <1>8 DEF AllAsked, IsSet
<1>10. OneRequest'
  BY <1>4, <1>7 DEF OneRequest, IsSet
<1>11. CASE m.field = "t3"
  <2>1. m.val = After /\ pc[t] = "wait_t3"
    BY <1>1, <1>2, <1>11 DEF Asked
  <2>2. ~Moved
    BY <1>1, <1>2, <1>3, <2>1 DEF Moved, Waiting
  <2>3. /\ dev.t3 = Before /\ room.t3 = Before
        /\ \A i \in 1..Len(uplink) : uplink[i].room.t3 = Before
    BY <1>1, <2>2 DEF Books, DeviceT3, MirrorT3
  <2>4. dev'.t3 = After
    BY <1>4, <1>11, <2>1 DEF Updated, TypeOK, Rooms
  <2>5. \A i \in 0..Len(uplink) : EchoAfter(i)'
    BY <1>0, <1>6, <1>11 DEF EchoAfter, IsT3
  <2>6. DeviceT3'
    BY <1>5, <1>6, <2>4, <2>5 DEF DeviceT3, Moved
  <2>7. MirrorT3'
    BY <1>0, <1>4, <1>5, <1>6, <2>3, <2>5 DEF MirrorT3, IsSet
  <2> QED
    BY <1>9, <1>10, <2>6, <2>7 DEF Books
<1>12. CASE m.field = "mode"
  <2>1. pc[t] = "wait_mode"
    BY <1>1, <1>2, <1>12 DEF Asked
  <2>2. Moved /\ Moved'
    BY <1>4, <2>1 DEF Moved
  <2>3. dev'.t3 = dev.t3
    BY <1>4, <1>12 DEF Updated, TypeOK, Rooms
  <2>4. \A i : ~EchoAfter(i)'
    BY <1>1, <1>6, <1>7, <1>12 DEF EchoAfter, IsT3, IsSet
  <2>5. DeviceT3'
    BY <1>5, <2>2, <2>3 DEF Books, DeviceT3
  <2>6. MirrorT3'
    BY <1>0, <1>1, <1>4, <1>6, <2>3, <2>4 DEF Books, MirrorT3, IsSet
  <2> QED
    BY <1>9, <1>10, <2>5, <2>6 DEF Books
<1> QED
  BY <1>0, <1>11, <1>12

\* A STATUS reports the device as it is, after all that is under way.
LEMMA ReportsKeeps ==
  ASSUME TypeOK, Books, DeviceReports
  PROVE  Books'
<1>1. PICK s : s = [kind |-> "status", room |-> dev]
  OBVIOUS
<1>2. s.kind = "status" /\ s.room = dev /\ uplink \in Seq(Datagrams)
  BY <1>1 DEF TypeOK, Datagrams, Status
<1>3. /\ uplink' = Append(uplink, s)
      /\ UNCHANGED <<room, timer, dev, pc, answered, call, downlink>>
  BY <1>1 DEF DeviceReports, mirror, local
<1>4. Before' = Before /\ After' = After
  BY <1>3, Levels DEF Boosting
<1>5. /\ Len(uplink') = Len(uplink) + 1 /\ Len(uplink) \in Nat
      /\ uplink'[Len(uplink')] = s
      /\ \A i \in 1..Len(uplink) : uplink'[i] = uplink[i]
  BY <1>2, <1>3
<1>6. \A i \in 1..Len(uplink') :
        IsSet(uplink'[i]) => i \in 1..Len(uplink) /\ IsSet(uplink[i])
  BY <1>2, <1>5 DEF IsSet
<1>7. \A i : EchoAfter(i)' = EchoAfter(i)
  <2>1. \A j \in 1..Len(uplink') :
          IsT3(uplink'[j]) => j \in 1..Len(uplink) /\ IsT3(uplink[j])
    BY <1>2, <1>5 DEF IsT3
  <2>2. \A j \in 1..Len(uplink) :
          IsT3(uplink[j]) => j \in 1..Len(uplink') /\ IsT3(uplink'[j])
    BY <1>5 DEF IsT3
  <2> QED
    BY <2>1, <2>2 DEF EchoAfter, IsT3
<1>8. Moved' = Moved
  BY <1>3, <1>7 DEF Moved
<1>9. AllAsked'
  BY <1>3, <1>4, <1>5, <1>6 DEF Books, AllAsked, Asked, Txn, IsSet
<1>10. OneRequest'
  BY <1>3, <1>5, <1>6 DEF Books, OneRequest, IsSet
<1>11. DeviceT3'
  BY <1>3, <1>4, <1>8 DEF Books, DeviceT3
<1>12. ~EchoAfter(Len(uplink'))
  BY <1>5 DEF EchoAfter
<1>13. MirrorT3'
  BY <1>2, <1>3, <1>4, <1>5, <1>7, <1>12 DEF Books, MirrorT3, IsSet
<1> QED
  BY <1>9, <1>10, <1>11, <1>13 DEF Books

\* Datagrams arrive from the head of the queue.
LEMMA HeadTaken ==
  ASSUME TypeOK, world.ordered, NEW i \in Deliverable, uplink' = Without(i)
  PROVE  /\ i = 1 /\ Len(uplink) \in Nat /\ 1 \in 1..Len(uplink)
         /\ Len(uplink') = Len(uplink) - 1
         /\ \A j \in 1..Len(uplink') :
              j + 1 \in 1..Len(uplink) /\ uplink'[j] = uplink[j + 1]
         /\ \A j \in 1..Len(uplink) :
              j # 1 => j - 1 \in 1..Len(uplink') /\ uplink'[j - 1] = uplink[j]
<1>1. i = 1 /\ i \in 1..Len(uplink)
  BY DEF Deliverable
<1>2. uplink \in Seq(Datagrams)
  BY DEF TypeOK, Datagrams, Status
<1>3. Len(uplink') = Len(uplink) - 1
  BY <1>1, <1>2, WithoutType
<1>4. \A j \in 1..Len(uplink') : uplink'[j] = uplink[j + 1]
  BY <1>1, <1>2, <1>3 DEF Without
<1> QED
  BY <1>1, <1>2, <1>3, <1>4

\* What is left in the queue has the same requests behind it.
LEMMA HeadEchoes ==
  ASSUME TypeOK, world.ordered, NEW i \in Deliverable, uplink' = Without(i),
         NEW k \in Nat
  PROVE  EchoAfter(k)' <=> EchoAfter(k + 1)
<1>1. /\ \A j \in 1..Len(uplink') :
           j + 1 \in 1..Len(uplink) /\ uplink'[j] = uplink[j + 1]
      /\ \A j \in 1..Len(uplink) :
           j # 1 => j - 1 \in 1..Len(uplink') /\ uplink'[j - 1] = uplink[j]
  BY HeadTaken
<1>2. ASSUME NEW j \in 1..Len(uplink'), j > k, IsT3(uplink'[j])
      PROVE  EchoAfter(k + 1)
  BY <1>1, <1>2 DEF EchoAfter
<1>3. ASSUME NEW j \in 1..Len(uplink), j > k + 1, IsT3(uplink[j])
      PROVE  EchoAfter(k)'
  <2>1. j - 1 \in 1..Len(uplink') /\ uplink'[j - 1] = uplink[j] /\ j - 1 > k
    BY <1>1, <1>3
  <2> QED
    BY <1>3, <2>1 DEF EchoAfter, IsT3
<1> QED
  BY <1>2, <1>3 DEF EchoAfter, IsT3

\* A STATUS brings the mirror to its place in the queue.
LEMMA StatusKeeps ==
  ASSUME TypeOK, Books, world.ordered, NEW i \in Deliverable, ReceiveStatus(i)
  PROVE  Books'
<1>1. /\ uplink' = Without(i)
      /\ uplink[i].kind = "status"
      /\ room' = [room EXCEPT !.t3 = uplink[i].room.t3, !.warm = uplink[i].room.warm]
      /\ UNCHANGED <<timer, dev, pc, answered, call, downlink>>
  BY DEF ReceiveStatus, local
<1>2. /\ i = 1 /\ Len(uplink) \in Nat /\ 1 \in 1..Len(uplink)
      /\ Len(uplink') = Len(uplink) - 1
      /\ \A j \in 1..Len(uplink') :
           j + 1 \in 1..Len(uplink) /\ uplink'[j] = uplink[j + 1]
  BY <1>1, HeadTaken
<1>3. \A k \in Nat : EchoAfter(k)' <=> EchoAfter(k + 1)
  BY <1>1, HeadEchoes
<1>4. Before' = Before /\ After' = After
  BY <1>1, Levels DEF Boosting
<1>5. EchoAfter(0) <=> EchoAfter(1)
  BY <1>1, <1>2 DEF EchoAfter, IsT3
<1>6. Moved' <=> Moved
  BY <1>1, <1>3, <1>5 DEF Moved
<1>7. AllAsked'
  BY <1>1, <1>2, <1>4 DEF Books, AllAsked, Asked, Txn, IsSet
<1>8. OneRequest'
  <2>1. ASSUME NEW j \in 1..Len(uplink'), NEW k \in 1..Len(uplink'),
               IsSet(uplink'[j]), IsSet(uplink'[k])
        PROVE  j = k
    <3>1. /\ j + 1 \in 1..Len(uplink) /\ IsSet(uplink[j + 1])
          /\ k + 1 \in 1..Len(uplink) /\ IsSet(uplink[k + 1])
      BY <1>2, <2>1 DEF IsSet
    <3>2. j + 1 = k + 1
      BY <3>1 DEF Books, OneRequest
    <3> QED
      BY <3>2
  <2> QED
    BY <1>1, <1>2, <2>1 DEF Books, OneRequest, IsSet
<1>9. DeviceT3'
  BY <1>1, <1>4, <1>6 DEF Books, DeviceT3
<1>10. room'.t3 = uplink[1].room.t3
  BY <1>1, <1>2 DEF TypeOK, Rooms
<1>11. room'.t3 = IF EchoAfter(1) THEN Before ELSE dev.t3
  BY <1>1, <1>2, <1>10 DEF Books, MirrorT3, IsSet
<1>12. MirrorT3'
  <2>1. ASSUME NEW j \in 1..Len(uplink'), ~IsSet(uplink'[j])
        PROVE  uplink'[j].room.t3 = IF EchoAfter(j)' THEN Before ELSE dev.t3
    <3>1. /\ j \in Nat /\ j + 1 \in 1..Len(uplink)
          /\ uplink'[j] = uplink[j + 1] /\ ~IsSet(uplink[j + 1])
      BY <1>2, <2>1 DEF IsSet
    <3>2. uplink[j + 1].room.t3 = IF EchoAfter(j + 1) THEN Before ELSE dev.t3
      BY <3>1 DEF Books, MirrorT3
    <3>3. EchoAfter(j)' <=> EchoAfter(j + 1)
      BY <1>3, <3>1
    <3> QED
      BY <3>1, <3>2, <3>3
  <2>2. EchoAfter(0)' <=> EchoAfter(1)
    BY <1>3
  <2> QED
    BY <1>1, <1>4, <1>11, <2>1, <2>2 DEF MirrorT3, IsSet
<1> QED
  BY <1>7, <1>8, <1>9, <1>12 DEF Books

\* The echo of a request brings the mirror up to the device, and its caller,
\* that still waits for it, its answer.
LEMMA EchoKeeps ==
  ASSUME TypeOK, Lock, Books, world.ordered,
         NEW i \in Deliverable, ReceiveSet(i)
  PROVE  Books'
<1>1. PICK m : m = uplink[i]
  OBVIOUS
<1>2. /\ uplink' = Without(i) /\ m.kind = "set"
      /\ room' = Updated(room, m)
      /\ UNCHANGED <<timer, dev, pc, call, downlink>>
  BY <1>1 DEF ReceiveSet
<1>3. /\ i = 1 /\ Len(uplink) \in Nat /\ 1 \in 1..Len(uplink)
      /\ Len(uplink') = Len(uplink) - 1
      /\ \A j \in 1..Len(uplink') :
           j + 1 \in 1..Len(uplink) /\ uplink'[j] = uplink[j + 1]
  BY <1>2, HeadTaken
<1>4. m \in Requests /\ (m.field = "t3" \/ m.field = "mode")
  BY <1>1, <1>2, <1>3, DatagramType DEF TypeOK, Datagrams, Status, Requests
<1>5. Asked(m)
  BY <1>1, <1>2, <1>3 DEF Books, AllAsked, IsSet
<1>6. PICK t \in Threads : t = m.txn[1] /\ t \notin answered /\ Waiting(t)
  BY <1>4, <1>5, AskedWaits DEF Asked
<1>7. answered' = answered \cup {t}
  <2>1. Txn(t) = m.txn
    BY <1>5, <1>6 DEF Asked
  <2>2. pc[t] = IF m.field = "t3" THEN "wait_t3" ELSE "wait_mode"
    BY <1>5, <1>6 DEF Asked
  <2> QED
    BY <1>1, <1>6, <2>1, <2>2 DEF ReceiveSet
<1>8. /\ downlink = {}
      /\ \A j \in 1..Len(uplink) : IsSet(uplink[j]) => j = 1
  BY <1>1, <1>2, <1>3 DEF Books, OneRequest, IsSet
<1>9. \A j \in 1..Len(uplink') : ~IsSet(uplink'[j])
  BY <1>3, <1>8 DEF IsSet
<1>10. /\ \A k \in Nat : ~EchoAfter(k)' /\ ~EchoAfter(k + 1)
  BY <1>8, <1>9 DEF EchoAfter, IsT3, IsSet
<1>11. Before' = Before /\ After' = After
  BY <1>2, Levels DEF Boosting
<1>12. AllAsked' /\ OneRequest'
  BY <1>2, <1>8, <1>9 DEF AllAsked, OneRequest, IsSet
<1>13. Moved /\ Moved'
  <2>1. CASE m.field = "t3"
    <3>1. EchoAfter(0)
      BY <1>1, <1>2, <1>3, <2>1 DEF EchoAfter, IsT3
    <3>2. pc'[t] = "wait_t3" /\ t \in answered'
      BY <1>2, <1>5, <1>6, <1>7, <2>1 DEF Asked
    <3> QED
      BY <3>1, <3>2 DEF Moved
  <2>2. CASE m.field = "mode"
    <3>1. pc[t] = "wait_mode" /\ pc'[t] = "wait_mode"
      BY <1>2, <1>5, <1>6, <2>2 DEF Asked
    <3> QED
      BY <3>1 DEF Moved
  <2> QED
    BY <1>4, <2>1, <2>2
<1>14. dev.t3 = After /\ DeviceT3'
  BY <1>2, <1>11, <1>13 DEF Books, DeviceT3
<1>15. room'.t3 = dev.t3
  <2>1. CASE m.field = "t3"
    <3>1. m.val = After
      BY <1>5, <2>1 DEF Asked
    <3> QED
      BY <1>2, <1>14, <2>1, <3>1 DEF Updated, TypeOK, Rooms
  <2>2. CASE m.field = "mode"
    <3>1. ~EchoAfter(0)
      BY <1>1, <1>3, <1>8, <2>2 DEF EchoAfter, IsT3, IsSet
    <3>2. room.t3 = dev.t3
      BY <3>1 DEF Books, MirrorT3
    <3> QED
      BY <1>2, <2>2, <3>2 DEF Updated, TypeOK, Rooms
  <2> QED
    BY <1>4, <2>1, <2>2
<1>16. MirrorT3'
  <2>1. ASSUME NEW j \in 1..Len(uplink')
        PROVE  uplink'[j].room.t3 = dev.t3
    <3>1. j + 1 \in 1..Len(uplink) /\ uplink'[j] = uplink[j + 1]
      BY <1>3
    <3>2. ~IsSet(uplink[j + 1])
      BY <1>9, <3>1 DEF IsSet
    <3>3. j \in Nat /\ ~EchoAfter(j + 1)
      BY <1>10
    <3> QED
      BY <3>1, <3>2, <3>3 DEF Books, MirrorT3
  <2>2. \A j \in 1..Len(uplink') : ~EchoAfter(j)'
    BY <1>10
  <2> QED
    BY <1>2, <1>10, <1>15, <2>1, <2>2 DEF MirrorT3
<1> QED
  BY <1>12, <1>14, <1>16 DEF Books

-----------------------------------------------------------------------------

\* Every step keeps the books; GiveUp and Lose are no steps of a calm network.
LEMMA BooksNext ==
  Undisturbed /\ IInv /\ Lock /\ Books /\ [Next]_vars => Books'
<1> SUFFICES ASSUME Undisturbed, IInv, Lock, Books, [Next]_vars
             PROVE  Books'
  OBVIOUS
<1> USE DEF IInv, TInv
<1>0. /\ world.callers \subseteq Rest /\ world.puts \subseteq {0, 1}
      /\ world.timely /\ world.ordered
  BY WorldType DEF Undisturbed
<1>1. ASSUME NEW t \in world.callers, NEW v \in world.puts, Put(t, v)
      PROVE  Books'
  BY <1>0, <1>1, AsideSteps, AsideKeeps DEF Books, Threads
<1>2. ASSUME NEW t \in Threads, ThreadStep(t)
      PROVE  Books'
  <2>1. CASE Check(t)
    BY <2>1, AsideSteps, AsideKeeps DEF Books
  <2>2. CASE SendT3(t)
    BY <1>0, <2>2, SendT3Keeps
  <2>3. CASE SendMode(t)
    BY <1>0, <2>3, SendModeKeeps
  <2>4. CASE Finish(t)
    BY <1>0, <2>4, FinishKeeps
  <2>5. ~GiveUp(t)
    BY <1>0 DEF GiveUp
  <2> QED
    BY <1>2, <2>1, <2>2, <2>3, <2>4, <2>5 DEF ThreadStep
<1>3. CASE Receive
  BY <1>0, <1>3, StatusKeeps, EchoKeeps DEF Receive
<1>4. ASSUME NEW m \in downlink, DeviceApplies(m)
      PROVE  Books'
  BY <1>0, <1>4, AppliesKeeps
<1>5. CASE DeviceReports
  BY <1>5, ReportsKeeps
<1>6. ~Lose
  BY <1>0 DEF Lose
<1>7. CASE StatusMode \/ StatusFails \/ Expire \/ Panel \/ UNCHANGED vars
  <2>1. Aside
    BY <1>7, AsideSteps
  <2> QED
    BY <2>1, AsideKeeps DEF Books
<1> QED
  BY <1>1, <1>2, <1>3, <1>4, <1>5, <1>6, <1>7 DEF Next, Step

\* At the start nothing is under way and T3 is what the user set.
LEMMA BooksInit == Init => Books
<1> SUFFICES ASSUME Init PROVE Books
  OBVIOUS
<1>1. downlink = {} /\ Len(uplink) = 0 /\ ~Boosting /\ dev.t3 = Base /\ room.t3 = Base
  BY DEF Init, Boosting
<1>2. \A t \in Threads : pc[t] = "idle"
  BY DEF Init
<1>3. ~Moved /\ \A i : ~EchoAfter(i)
  BY <1>1, <1>2 DEF Moved, EchoAfter
<1>4. Before = Base
  BY <1>1, FakeBoostAssumption DEF Before
<1> QED
  BY <1>1, <1>3, <1>4 DEF Books, AllAsked, OneRequest, DeviceT3, MirrorT3

\* Once disturbed, always disturbed.
LEMMA StillUndisturbed ==
  ASSUME [Next]_vars, Undisturbed'
  PROVE  Undisturbed /\ ~crossed'
<1>1. world' = world
  BY DEF Next, Recorded, vars
<1>2. ~crossed'
  BY DEF Undisturbed
<1>3. ~crossed
  BY <1>2 DEF Next, Recorded, vars
<1> QED
  BY <1>1, <1>2, <1>3 DEF Undisturbed

\* What holds at all times.
LEMMA BooksKept ==
  IInv /\ (Undisturbed => Lock /\ Books) /\ [Next]_vars
    => IInv' /\ (Undisturbed => Lock /\ Books)'
<1> SUFFICES ASSUME IInv, Undisturbed => Lock /\ Books, [Next]_vars
             PROVE  IInv' /\ (Undisturbed => Lock /\ Books)'
  OBVIOUS
<1>2. IInv'
  BY InvNext
<1>3. ASSUME Undisturbed'
      PROVE  Lock' /\ Books'
  BY <1>3, StillUndisturbed, LockNext, BooksNext DEF IInv
<1> QED
  BY <1>2, <1>3

\* A boost is undone exactly once, whatever the user does at the thermostat
\* meanwhile: undisturbed, T3 is between calls what the user set, plus the rise
\* while the timer is on.
THEOREM BalancedAlways == Spec => []Balanced
<1>1. Init => IInv /\ Lock /\ Books
  BY InvInit, BooksInit DEF Init, Lock, Working
<1>2. IInv /\ (Undisturbed => Lock /\ Books) => Balanced
  <2> SUFFICES ASSUME TypeOK, Undisturbed, Books, Quiet
               PROVE  dev.t3 = Before
    BY DEF IInv, TInv, Balanced, Before
  <2>1. \A t \in Threads : ~Waiting(t)
    BY DEF Quiet, Waiting
  <2>2. ~Moved
    BY <2>1, NothingAsked DEF Moved, Waiting, Books
  <2> QED
    BY <2>2 DEF Books, DeviceT3
<1> QED
  BY <1>1, <1>2, BooksKept, PTL DEF Spec

-----------------------------------------------------------------------------
(* FakeBoost implements BoostSwitch.                                       *)

\* Steps that leave T3, the timer and the calls past their check as they are
\* leave the switch as it is.
Unmoved ==
  /\ dev'.t3 = dev.t3
  /\ Boosting' = Boosting
  /\ \A t \in Threads : Working(t)' = Working(t)

LEMMA UnmovedStutters ==
  ASSUME Unmoved
  PROVE  UNCHANGED Switch!vars
<1>1. Turning' = Turning
  BY DEF Turning, Unmoved
<1> QED
  BY <1>1 DEF Switch!vars, SwitchState, Unmoved

\* All steps but four kinds are such.
LEMMA UnmovedSteps ==
  ASSUME TypeOK,
         \/ \E t \in Threads : SendMode(t) \/ \E v \in {0, 1} : Put(t, v)
         \/ Receive \/ StatusMode \/ StatusFails \/ Expire \/ DeviceReports \/ Panel
         \/ UNCHANGED vars
  PROVE  Unmoved
<1>1. ASSUME NEW t \in Threads, NEW v \in {0, 1}, Put(t, v)
      PROVE  Unmoved
  <2>1. pc[t] = "idle" /\ pc' = [pc EXCEPT ![t] = "check"]
    BY <1>1 DEF Put
  <2>2. UNCHANGED <<dev, timer>>
    BY <1>1 DEF Put, mirror
  <2> QED
    BY <2>1, <2>2 DEF Unmoved, Working, Boosting, TypeOK
<1>2. ASSUME NEW t \in Threads, SendMode(t)
      PROVE  Unmoved
  <2>1. pc[t] = "wait_t3" /\ pc' = [pc EXCEPT ![t] = "wait_mode"]
    BY <1>2 DEF SendMode
  <2>2. UNCHANGED <<dev, timer>>
    BY <1>2 DEF SendMode, mirror
  <2> QED
    BY <2>1, <2>2 DEF Unmoved, Working, Boosting, TypeOK
<1>3. CASE Receive
  <2>1. UNCHANGED <<dev, timer, pc>>
    BY <1>3 DEF Receive, ReceiveSet, ReceiveStatus, local
  <2> QED
    BY <2>1 DEF Unmoved, Working, Boosting
<1>4. CASE StatusMode
  <2>1. UNCHANGED dev /\ Boosting' = Boosting
    BY <1>4 DEF StatusMode, Boosting
  <2>2. pc' = pc \/ \E u \in Timers : pc[u] = "idle" /\ pc' = [pc EXCEPT ![u] = "check"]
    BY <1>4 DEF StatusMode
  <2>3. \A u \in Threads : Working(u)' = Working(u)
    BY <2>2 DEF Working, TypeOK
  <2> QED
    BY <2>1, <2>3 DEF Unmoved
<1>5. CASE Expire
  BY <1>5 DEF Expire, Unmoved, Boosting, Working, local
<1>6. CASE DeviceReports
  BY <1>6 DEF DeviceReports, Unmoved, Boosting, Working, mirror, local
<1>7. CASE Panel
  <2>1. dev'.t3 = dev.t3
    BY <1>7 DEF Panel, TypeOK, Rooms
  <2> QED
    BY <1>7, <2>1 DEF Panel, Unmoved, Boosting, Working, mirror, local
<1>8. CASE UNCHANGED vars
  BY <1>8 DEF vars, Unmoved, Boosting, Working
<1>9. CASE StatusFails
  BY <1>9 DEF StatusFails, Unmoved, Boosting, Working, local
<1> QED
  BY <1>1, <1>2, <1>3, <1>4, <1>5, <1>6, <1>7, <1>8, <1>9

\* A call that gets past its check finds nobody else there: it begins to turn
\* the switch.
LEMMA CheckBegins ==
  ASSUME TypeOK, Lock, Lock', NEW t \in Threads, Check(t)
  PROVE  Switch!Begin \/ UNCHANGED Switch!vars
<1>1. /\ pc[t] = "check"
      /\ UNCHANGED <<dev, timer>>
      /\ Boosting' = Boosting
  BY DEF Check, mirror, Boosting
<1>2. CASE Allowed(t)
  <2>1. pc' = [pc EXCEPT ![t] = "read"]
    BY <1>2 DEF Check
  <2>2. Turning'
    <3>1. Working(t)'
      BY <2>1 DEF Working, TypeOK
    <3> QED
      BY <3>1 DEF Turning
  <2>3. ASSUME NEW u \in Threads, Working(u)
        PROVE  FALSE
    <3>1. want[t] = 1 => ~Boosting
      BY <1>2 DEF Allowed, Boosting
    <3>2. want[t] = 0 => Boosting
      BY <1>2 DEF Allowed
    <3>3. u # t /\ Working(u)' /\ want' = want
      BY <1>1, <2>1, <2>3 DEF Working, TypeOK, Check
    <3>4. want[u] # want[t]
      <4>1. Working(t)'
        BY <2>1 DEF Working, TypeOK
      <4> QED
        BY <3>3, <4>1 DEF Lock
    <3>5. want[u] \in {0, 1} /\ want[t] \in {0, 1}
      BY DEF TypeOK
    <3> QED
      BY <2>3, <3>1, <3>2, <3>4, <3>5 DEF Lock, Boosting
  <2>4. ~Turning
    BY <2>3 DEF Turning
  <2>5. CASE Boosting
    <3>1. SwitchState = "on" /\ SwitchState' = "ending"
      BY <1>1, <2>2, <2>4, <2>5 DEF SwitchState
    <3> QED
      BY <1>1, <3>1 DEF Switch!Begin
  <2>6. CASE ~Boosting
    <3>1. SwitchState = "off" /\ SwitchState' = "starting"
      BY <1>1, <2>2, <2>4, <2>6 DEF SwitchState
    <3> QED
      BY <1>1, <3>1 DEF Switch!Begin
  <2> QED
    BY <2>5, <2>6
<1>3. CASE ~Allowed(t)
  <2>1. pc' = [pc EXCEPT ![t] = "idle"]
    BY <1>3 DEF Check, Return
  <2>2. Unmoved
    BY <1>1, <2>1 DEF Unmoved, Working, TypeOK
  <2> QED
    BY <2>2, UnmovedStutters
<1> QED
  BY <1>2, <1>3

\* The T3 asked for can always be sent: it is not below what the user set.
LEMMA SendT3Stutters ==
  ASSUME TypeOK, AnswersApplied, Lock, Books,
         NEW t \in Threads, SendT3(t)
  PROVE  UNCHANGED Switch!vars
<1> DEFINE v == IF want[t] = 1 THEN room.t3 + Rise ELSE room.t3 - Rise
<1>1. pc[t] = "read" /\ Working(t)
  BY DEF SendT3, Working
<1>2. \A u \in Threads : ~Waiting(u)
  BY <1>1, Alone DEF Waiting, Working
<1>3. \A i : ~EchoAfter(i)
  BY <1>2, NothingAsked DEF Books
<1>4. room.t3 = Before
  BY <1>2, <1>3 DEF Moved, Waiting, Books, DeviceT3, MirrorT3
<1>5. v = After /\ After \in Nat
  <2>1. want[t] = 1 \/ want[t] = 0
    BY DEF TypeOK
  <2>2. want[t] = 1 => ~Boosting
    BY <1>1 DEF Lock, Boosting
  <2>3. want[t] = 0 => Boosting
    BY <1>1 DEF Lock
  <2> QED
    BY <1>4, <2>1, <2>2, <2>3, Levels, FakeBoostAssumption DEF Before, After
<1>6. pc' = [pc EXCEPT ![t] = "wait_t3"] /\ UNCHANGED <<dev, timer>>
  BY <1>5 DEF SendT3, mirror
<1>7. Unmoved
  BY <1>1, <1>6 DEF Unmoved, Working, Boosting, TypeOK
<1> QED
  BY <1>7, UnmovedStutters

\* When the device takes over a T3, its T3 is still that of before the call.
LEMMA AppliesMoves ==
  ASSUME TypeOK, Lock, Books,
         NEW m \in downlink, DeviceApplies(m)
  PROVE  Switch!Raise \/ Switch!Lower \/ UNCHANGED Switch!vars
<1>0. m \in Requests /\ (m.field = "t3" \/ m.field = "mode")
  BY DEF TypeOK, Requests
<1>1. Asked(m) /\ \A i : ~EchoAfter(i)
  BY DEF Books, AllAsked, OneRequest, EchoAfter, IsT3, IsSet
<1>2. PICK t \in Threads : t = m.txn[1] /\ t \notin answered /\ Waiting(t)
  BY <1>0, <1>1, AskedWaits DEF Asked
<1>3. dev' = Updated(dev, m) /\ UNCHANGED <<timer, pc>>
  BY DEF DeviceApplies, mirror, local
<1>4. Turning /\ Turning' /\ Boosting' = Boosting
  BY <1>2, <1>3 DEF Turning, Working, Waiting, Boosting
<1>5. CASE m.field = "t3"
  <2>1. m.val = After /\ pc[t] = "wait_t3"
    BY <1>1, <1>2, <1>5 DEF Asked
  <2>2. ~Moved
    <3>1. \A u \in Threads : Waiting(u) => u = t
      BY <1>2, Alone DEF Waiting, Working
    <3> QED
      BY <1>1, <1>2, <2>1, <3>1 DEF Moved, Waiting
  <2>3. dev.t3 = Before
    BY <2>2 DEF Books, DeviceT3
  <2>4. dev'.t3 = After
    BY <1>3, <1>5, <2>1 DEF Updated, TypeOK, Rooms
  <2>5. SwitchState' = SwitchState
    BY <1>4 DEF SwitchState
  <2>6. CASE Boosting
    <3>1. SwitchState = "ending" /\ dev.t3 = Base + Rise /\ dev'.t3 = Base
      BY <1>4, <2>3, <2>4, <2>6, FakeBoostAssumption DEF SwitchState, Before, After
    <3> QED
      BY <2>5, <3>1 DEF Switch!Lower
  <2>7. CASE ~Boosting
    <3>1. SwitchState = "starting" /\ dev.t3 = Base /\ dev'.t3 = Base + Rise
      BY <1>4, <2>3, <2>4, <2>7, FakeBoostAssumption DEF SwitchState, Before, After
    <3> QED
      BY <2>5, <3>1 DEF Switch!Raise
  <2> QED
    BY <2>6, <2>7
<1>6. CASE m.field = "mode"
  <2>1. dev'.t3 = dev.t3
    BY <1>3, <1>6 DEF Updated, TypeOK, Rooms
  <2>2. Unmoved
    BY <1>3, <2>1 DEF Unmoved, Working, Boosting
  <2> QED
    BY <2>2, UnmovedStutters
<1> QED
  BY <1>0, <1>5, <1>6

\* The timer is turned when T3 is what it is after the call.
LEMMA FinishEnds ==
  ASSUME TypeOK, Lock, Books,
         NEW t \in Threads, Finish(t)
  PROVE  Switch!End
<1>1. pc[t] = "wait_mode" /\ Working(t) /\ Turning
  BY DEF Finish, Working, Turning
<1>2. dev.t3 = After
  BY <1>1 DEF Moved, Books, DeviceT3
<1>3. /\ timer' = IF want[t] = 1 THEN "running" ELSE "off"
      /\ pc' = [pc EXCEPT ![t] = "idle"]
      /\ UNCHANGED dev
  BY DEF Finish, Return
<1>4. ~Turning'
  <2>1. \A u \in Threads : Working(u) => u = t
    BY <1>1, Alone
  <2>2. \A u \in Threads : ~Working(u)'
    BY <1>3, <2>1 DEF Working, TypeOK
  <2> QED
    BY <2>2 DEF Turning
<1>5. Boosting' = ~Boosting
  <2>1. want[t] = 1 \/ want[t] = 0
    BY DEF TypeOK
  <2>2. want[t] = 1 => ~Boosting
    BY <1>1 DEF Lock, Boosting
  <2>3. want[t] = 0 => Boosting
    BY <1>1 DEF Lock
  <2> QED
    BY <1>3, <2>1, <2>2, <2>3 DEF Boosting
<1>6. CASE Boosting
  <2>1. SwitchState = "ending" /\ dev.t3 = Base
    BY <1>1, <1>2, <1>6, FakeBoostAssumption DEF SwitchState, After
  <2>2. SwitchState' = "off"
    BY <1>4, <1>5, <1>6 DEF SwitchState, Boosting
  <2> QED
    BY <1>3, <2>1, <2>2 DEF Switch!End
<1>7. CASE ~Boosting
  <2>1. SwitchState = "starting" /\ dev.t3 = Base + Rise
    BY <1>1, <1>2, <1>7 DEF SwitchState, After
  <2>2. SwitchState' = "on"
    BY <1>4, <1>5, <1>7 DEF SwitchState, Boosting
  <2> QED
    BY <1>3, <2>1, <2>2 DEF Switch!End
<1> QED
  BY <1>6, <1>7

LEMMA SwitchStep ==
  ASSUME IInv, Undisturbed, Lock, Lock', Books, [Next]_vars
  PROVE  [Switch!Next]_(Switch!vars)
<1> USE DEF IInv, TInv
<1>0. /\ world.callers \subseteq Rest /\ world.puts \subseteq {0, 1}
      /\ world.timely
  BY WorldType DEF Undisturbed
<1>1. ASSUME NEW t \in world.callers, NEW v \in world.puts, Put(t, v)
      PROVE  UNCHANGED Switch!vars
  BY <1>0, <1>1, UnmovedSteps, UnmovedStutters DEF Threads
<1>2. ASSUME NEW t \in Threads, ThreadStep(t)
      PROVE  Switch!Begin \/ Switch!End \/ UNCHANGED Switch!vars
  <2>1. CASE Check(t)
    BY <2>1, CheckBegins
  <2>2. CASE SendT3(t)
    BY <2>2, SendT3Stutters
  <2>3. CASE SendMode(t)
    BY <2>3, UnmovedSteps, UnmovedStutters
  <2>4. CASE Finish(t)
    BY <2>4, FinishEnds
  <2>5. ~GiveUp(t)
    BY <1>0 DEF GiveUp
  <2> QED
    BY <1>2, <2>1, <2>2, <2>3, <2>4, <2>5 DEF ThreadStep
<1>3. ASSUME NEW m \in downlink, DeviceApplies(m)
      PROVE  Switch!Raise \/ Switch!Lower \/ UNCHANGED Switch!vars
  BY <1>3, AppliesMoves
<1>4. ~Lose
  BY <1>0 DEF Lose
<1>5. CASE \/ Receive \/ StatusMode \/ StatusFails \/ Expire \/ DeviceReports
           \/ Panel \/ UNCHANGED vars
  <2>1. Unmoved
    BY <1>5, UnmovedSteps
  <2> QED
    BY <2>1, UnmovedStutters
<1> QED
  BY <1>1, <1>2, <1>3, <1>4, <1>5 DEF Next, Step, Switch!Next

\* As long as it is undisturbed the fake boost is a switch: T3 is raised once when
\* it is turned on and lowered once when it is turned off, and it is not turned on
\* again before it is off.
THEOREM BoostIsSwitch == Spec => ImplementsBoostSwitch
<1>1. Init => IInv /\ Lock /\ Books
  BY InvInit, BooksInit DEF Init, Lock, Working
<1>2. IInv /\ (Undisturbed => Lock /\ Books) /\ [Next]_vars
        => [Undisturbed' => [Switch!Next]_(Switch!vars)]_vars
  <2> SUFFICES ASSUME IInv, Undisturbed => Lock /\ Books, [Next]_vars, Undisturbed'
               PROVE  [Switch!Next]_(Switch!vars)
    OBVIOUS
  <2>1. Undisturbed /\ ~crossed'
    BY StillUndisturbed
  <2>2. Lock'
    BY <2>1, LockNext DEF IInv
  <2> QED
    BY <2>1, <2>2, SwitchStep
<1>3. Init => Switch!Init
  <2>1. Init => SwitchState = "off" /\ dev.t3 = Base
    BY DEF Init, SwitchState, Turning, Working, Boosting
  <2> QED
    BY <2>1 DEF Switch!Init
<1> QED
  BY <1>1, <1>2, <1>3, BooksKept, PTL DEF Spec, ImplementsBoostSwitch
=============================================================================
