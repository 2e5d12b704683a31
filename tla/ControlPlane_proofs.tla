------------------------ MODULE ControlPlane_proofs ------------------------
(***************************************************************************)
(* Proofs about ControlPlane, for every set of clients, every MAX_CSEQ and *)
(* every number of calls.                                                  *)
(***************************************************************************)
EXTENDS ControlPlane, TLAPS

\* TypeOK with what the dict accesses need: a thread that is inside a call has
\* begun one, holds a number where it uses it as a key to insert at, and holds
\* an entry while it waits.
TInv ==
  /\ TypeOK
  /\ results[Unused] = Nil
  /\ \A t \in Threads : pc[t] \in Steps \ {"idle"} => call[t] > 0
  /\ \A t \in Clients : call[t] > 0 => ask[t] \in Values
  /\ \A t \in Threads : pc[t] \in {"bump", "pop", "insert"} => seq[t] \in CSeqs
  /\ \A t \in Threads : pc[t] \in {"wait", "delete"} => ref[t] \in Txns
  /\ pc[Udp] # "insert"

\* The empty dict and idle threads are well typed.
LEMMA TInvInit == Init => TInv
  BY ControlPlaneAssumption, SMT
  DEF Init, TInv, TypeOK, Threads, Keys, CSeqs, Unused, Txns, Answers, Values, Steps, Messages

\* Every step keeps the types and the facts the dict accesses need.
LEMMA TInvNext == TInv /\ [Next]_vars => TInv'
<1> SUFFICES ASSUME TInv, [Next]_vars PROVE TInv'
  OBVIOUS
<1> USE ControlPlaneAssumption
<1> USE DEF TInv, TypeOK, Threads, Keys, CSeqs, Unused, Txns, Txn, Answers,
            Values, Steps, Messages, obj, dict, net, hist, Return
<1>1. ASSUME NEW t \in Clients, NEW v \in Values, BeginCall(t, v) PROVE TInv'
  BY <1>1, SMTT(30) DEF BeginCall, DrawCSeq
<1>2. ASSUME NEW t \in Clients, NEW v \in Programs, BeginProgram(t, v) PROVE TInv'
  BY <1>2, SMTT(30) DEF BeginProgram
<1>3. ASSUME BeginUnwaited PROVE TInv'
  BY <1>3, SMTT(30) DEF BeginUnwaited, DrawCSeq
<1>4. ASSUME NEW t \in Threads, BumpCSeq(t) PROVE TInv'
  BY <1>4, SMTT(30) DEF BumpCSeq
<1>5. ASSUME NEW t \in Threads, PopDangling(t) PROVE TInv'
  <2>1. /\ results' \in [Keys -> Txns \cup {Nil}]
        /\ results'[Unused] = Nil
    BY <1>5 DEF PopDangling
  <2>2. failed' \subseteq CSeqs
    BY <1>5 DEF PopDangling
  <2>3. /\ pc' = [pc EXCEPT ![t] = pc'[t]]
        /\ pc'[t] = "send" \/ (t \in Clients /\ pc'[t] = "insert")
        /\ pc[t] = "pop"
    BY <1>5 DEF PopDangling
  <2>4. UNCHANGED <<cseq, ev, val, key, seq, ref, call, ask, outcome, sig,
                    downlink, uplink, applied, drawn, redrawn>>
    BY <1>5 DEF PopDangling
  <2> QED
    BY <2>1, <2>2, <2>3, <2>4
<1>6. ASSUME NEW t \in Threads, InsertEntry(t) PROVE TInv'
  <2>1. t \in Clients /\ Txn(t) \in Txns
    BY <1>6 DEF InsertEntry
  <2> QED
    BY <1>6, <2>1, SMTT(30) DEF InsertEntry
<1>7. ASSUME NEW t \in Threads, Send(t) PROVE TInv'
  BY <1>7, SMTT(30) DEF Send, Request
<1>8. ASSUME NEW t \in Threads, SendRaises(t) PROVE TInv'
  <2>1. /\ pc' \in [Threads -> Steps \cup {"store", "set", "sleep"}]
        /\ outcome' \in [Clients -> Answers \cup {Error}]
        /\ pc' = [pc EXCEPT ![t] = pc'[t]]
        /\ pc'[t] \in {"idle", "sleep"}
        /\ t \in Clients => pc'[t] = "idle"
    <3>1. CASE t = Udp
      BY <1>8, <3>1 DEF SendRaises
    <3>2. CASE t \in Clients
      BY <1>8, <3>2, SMTT(30) DEF SendRaises
    <3> QED
      BY <3>1, <3>2
  <2>2. failed' \subseteq CSeqs
    BY <1>8 DEF SendRaises
  <2>3. UNCHANGED <<cseq, results, ev, val, key, seq, ref, call, ask, sig,
                    downlink, uplink, applied, drawn, redrawn>>
    BY <1>8 DEF SendRaises
  <2> QED
    BY <1>8, <2>1, <2>2, <2>3, SMTT(30)
<1>9. ASSUME NEW t \in Threads, CheckEntry(t) PROVE TInv'
  BY <1>9, SMTT(30) DEF CheckEntry
<1>10. ASSUME NEW t \in Threads, CaptureEntry(t) PROVE TInv'
  BY <1>10, SMTT(30) DEF CaptureEntry
<1>11. ASSUME NEW t \in Threads, WaitSignalled(t) \/ WaitTimesOut(t) PROVE TInv'
  <2>1. pc[t] = "wait" /\ pc' = [pc EXCEPT ![t] = "delete"]
    BY <1>11 DEF WaitSignalled, WaitTimesOut
  <2>2. UNCHANGED <<cseq, results, ev, val, key, seq, ref, call, ask, outcome,
                    sig, downlink, uplink, applied, drawn, redrawn, failed>>
    BY <1>11 DEF WaitSignalled, WaitTimesOut
  <2>3. TypeOK'
    BY <2>1, <2>2
  <2> QED
    BY <2>1, <2>2, <2>3
<1>12. ASSUME NEW t \in Threads, DeleteEntry(t) PROVE TInv'
  <2>1. /\ results' \in [Keys -> Txns \cup {Nil}]
        /\ results'[Unused] = Nil
    BY <1>12 DEF DeleteEntry
  <2>2. PICK v \in Answers \cup {Error} : Return(t, v)
    BY <1>12 DEF DeleteEntry
  <2>3. /\ pc' \in [Threads -> Steps \cup {"store", "set", "sleep"}]
        /\ outcome' \in [Clients -> Answers \cup {Error}]
        /\ pc' = [pc EXCEPT ![t] = pc'[t]]
        /\ pc'[t] \in {"idle", "sleep"}
        /\ t \in Clients => pc'[t] = "idle"
    <3>1. CASE t = Udp
      BY <2>2, <3>1
    <3>2. CASE t \in Clients
      BY <2>2, <3>2, SMTT(30)
    <3> QED
      BY <3>1, <3>2
  <2> QED
    BY <1>12, <2>1, <2>3, SMTT(30) DEF DeleteEntry
<1>13. ASSUME NEW m \in uplink, ReceiveResponse(m) PROVE TInv'
  BY <1>13, SMTT(30) DEF ReceiveResponse
<1>14. ASSUME StoreValue PROVE TInv'
  <2>1. /\ pc' = [pc EXCEPT ![Udp] = pc'[Udp]]
        /\ pc'[Udp] \in {"sleep", "set"}
    BY <1>14 DEF StoreValue
  <2>0. val' \in [Txns -> Answers]
    <3>1. CASE results[sig.cseq] = Nil
      BY <1>14, <3>1 DEF StoreValue
    <3>2. CASE results[sig.cseq] # Nil
      <4>1. results[sig.cseq] \in Txns /\ sig.val \in Answers
        BY <3>2
      <4> QED
        BY <1>14, <3>2, <4>1 DEF StoreValue
    <3> QED
      BY <3>1, <3>2
  <2>2. UNCHANGED <<cseq, results, ev, key, seq, ref, call, ask, outcome, sig,
                    downlink, uplink, applied, drawn, redrawn, failed>>
    BY <1>14 DEF StoreValue
  <2> QED
    BY <2>0, <2>1, <2>2
<1>15. ASSUME SetEvent PROVE TInv'
  BY <1>15, SMTT(30) DEF SetEvent
<1>16. ASSUME Wake PROVE TInv'
  BY <1>16, SMTT(30) DEF Wake
<1>17. ASSUME NEW m \in downlink, DeviceHandles(m) PROVE TInv'
  BY <1>17, SMTT(30) DEF DeviceHandles, local
<1>18. ASSUME UNCHANGED vars PROVE TInv'
  BY <1>18, SMTT(30) DEF vars
<1> QED
  BY <1>1, <1>2, <1>3, <1>4, <1>5, <1>6, <1>7, <1>8, <1>9, <1>10, <1>11,
     <1>12, <1>13, <1>14, <1>15, <1>16, <1>17, <1>18
  DEF Next, UdpStep, ThreadStep

-----------------------------------------------------------------------------
(* The strengthening, in named parts.                                      *)

Before(t) == pc[t] \in {"bump", "pop", "insert"}
Waiting(t) == pc[t] \in {"wait", "delete"}
Begun(t) == call[t] > 0 /\ seq[t] \in CSeqs

\* A number in the hands of two threads has been drawn twice.
Numbers ==
  /\ \A t \in Threads : Begun(t) => seq[t] \in drawn
  /\ \A t, u \in Threads :
       t # u /\ Begun(t) /\ Begun(u) /\ seq[t] = seq[u] => seq[t] \in redrawn

\* What is on the wire: responses answer requests, requests carry drawn numbers.
Wire ==
  /\ uplink \subseteq downlink
  /\ \A m \in downlink : m.cseq \in CSeqs => m.cseq \in drawn
  /\ \A m \in uplink : m.txn \in applied
  /\ pc[Udp] \in {"store", "set"} => sig \in uplink /\ sig.cseq \in CSeqs

\* A number drawn once is carried only by the request of its owner.
OwnDatagrams ==
  \A t \in Clients : call[t] > 0 /\ Exclusive(t) =>
    \A m \in downlink : m.cseq = seq[t] => m.val = ask[t] /\ m.txn = Txn(t)

\* The entries referenced anywhere have been inserted by their call.
Born(x) == \/ x[2] < call[x[1]]
           \/ x[2] = call[x[1]] /\ ~Before(x[1])

NoEarlyReference ==
  /\ \A k \in Keys : results[k] # Nil => Born(results[k])
  /\ \A u \in Threads : Waiting(u) => Born(ref[u])

\* An entry sits at the key it was inserted under, and a waiter holds an entry
\* of its own number.
KeysAgree ==
  /\ \A k \in Keys : results[k] # Nil => key[results[k]] = k
  /\ \A u \in Threads : Waiting(u) => key[ref[u]] = seq[u]

\* A value in an entry came in a response with the entry's number.
ValuesComeFromTheWire ==
  \A e \in Txns : val[e] # Nil =>
    \E m \in uplink : m.cseq = key[e] /\ m.val = val[e]

\* The entry and the waiter of a call that has its number to itself.
OwnEntry ==
  \A t \in Clients : call[t] > 0 /\ Exclusive(t) =>
    /\ Waiting(t) => ref[t] = Txn(t)
    /\ ~Before(t) => /\ key[Txn(t)] = seq[t]
                     /\ val[Txn(t)] \in {Nil, ask[t]}
                     /\ val[Txn(t)] = ask[t] => Txn(t) \in applied
    /\ pc[t] = "idle" => \/ outcome[t] = Error
                         \/ outcome[t] = val[Txn(t)] /\ results[seq[t]] = Nil

-----------------------------------------------------------------------------
(* Effects two actions share.                                              *)

\* Event.wait comes back: the caller goes on to delete, nothing else changes.
LEMMA WaitEffect ==
  ASSUME NEW t \in Threads, WaitSignalled(t) \/ WaitTimesOut(t)
  PROVE  /\ pc[t] = "wait"
         /\ pc' = [pc EXCEPT ![t] = "delete"]
         /\ UNCHANGED <<cseq, results, ev, val, key, seq, ref, call, ask,
                        outcome, sig, downlink, uplink, applied, drawn,
                        redrawn, failed>>
  BY DEF WaitSignalled, WaitTimesOut, dict, obj, net, hist

\* A return idles the thread (or makes the UDP loop sleep) and sets the outcome
\* of a client.
LEMMA ReturnEffect ==
  ASSUME TypeOK, NEW t \in Threads, NEW v, Return(t, v)
  PROVE  /\ pc' = [pc EXCEPT ![t] = pc'[t]]
         /\ pc'[t] \in {"idle", "sleep"}
         /\ t \in Clients => /\ pc'[t] = "idle"
                             /\ outcome' = [outcome EXCEPT ![t] = v]
         /\ t = Udp => outcome' = outcome
<1>1. CASE t = Udp
  BY <1>1, ControlPlaneAssumption DEF Return, TypeOK, Threads
<1>2. CASE t \in Clients
  BY <1>2, ControlPlaneAssumption DEF Return, TypeOK, Threads
<1> QED
  BY <1>1, <1>2 DEF Threads

-----------------------------------------------------------------------------
(* Each part is preserved by every step.                                   *)

\* The key a thread leaves behind is free when it returns, or remembered in
\* failed (SendRaises).
LEMMA NoLeakNext ==
  TInv /\ NoLeak /\ [Next]_vars => NoLeak'
<1> SUFFICES ASSUME TInv, NoLeak, [Next]_vars
             PROVE  NoLeak'
  OBVIOUS
<1> USE ControlPlaneAssumption
<1> USE DEF TInv, TypeOK, Threads, Keys, CSeqs, Unused, Txns, Txn,
            Answers, Values, Steps, Messages, obj, dict, net, hist,
            Return, NoLeak, Open
<1>1. ASSUME NEW t \in Clients, NEW v \in Values, BeginCall(t, v)
      PROVE  NoLeak'
  BY <1>1, SMTT(30) DEF BeginCall, DrawCSeq
<1>2. ASSUME NEW t \in Clients, NEW v \in Programs, BeginProgram(t, v)
      PROVE  NoLeak'
  BY <1>2, SMTT(30) DEF BeginProgram
<1>3. ASSUME BeginUnwaited
      PROVE  NoLeak'
  BY <1>3, SMTT(30) DEF BeginUnwaited, DrawCSeq
<1>4. ASSUME NEW t \in Threads, BumpCSeq(t)
      PROVE  NoLeak'
  BY <1>4, SMTT(30) DEF BumpCSeq
<1>5. ASSUME NEW t \in Threads, PopDangling(t)
      PROVE  NoLeak'
  BY <1>5, SMTT(30) DEF PopDangling
<1>6. ASSUME NEW t \in Threads, InsertEntry(t)
      PROVE  NoLeak'
  BY <1>6, SMTT(30) DEF InsertEntry
<1>7. ASSUME NEW t \in Threads, Send(t)
      PROVE  NoLeak'
  BY <1>7, SMTT(30) DEF Send, Request
<1>8. ASSUME NEW t \in Threads, SendRaises(t)
      PROVE  NoLeak'
  BY <1>8, SMTT(30) DEF SendRaises
<1>9. ASSUME NEW t \in Threads, CheckEntry(t)
      PROVE  NoLeak'
  BY <1>9, SMTT(30) DEF CheckEntry
<1>10. ASSUME NEW t \in Threads, CaptureEntry(t)
      PROVE  NoLeak'
  BY <1>10, SMTT(30) DEF CaptureEntry
<1>11. ASSUME NEW t \in Threads, WaitSignalled(t) \/ WaitTimesOut(t)
      PROVE  NoLeak'
  <2>1. /\ pc[t] = "wait"
        /\ pc' = [pc EXCEPT ![t] = "delete"]
        /\ UNCHANGED <<cseq, results, ev, val, key, seq, ref, call, ask,
                       outcome, sig, downlink, uplink, applied, drawn,
                       redrawn, failed>>
    BY <1>11, WaitEffect
  <2>2. \A u \in Clients : Open(u) => Open(u)' /\ seq'[u] = seq[u]
    BY <2>1
  <2> QED
    BY <2>1, <2>2
<1>12. ASSUME NEW t \in Threads, DeleteEntry(t)
      PROVE  NoLeak'
  BY <1>12, SMTT(30) DEF DeleteEntry
<1>13. ASSUME NEW m \in uplink, ReceiveResponse(m)
      PROVE  NoLeak'
  BY <1>13, SMTT(30) DEF ReceiveResponse
<1>14. ASSUME StoreValue
      PROVE  NoLeak'
  BY <1>14, SMTT(30) DEF StoreValue
<1>15. ASSUME SetEvent
      PROVE  NoLeak'
  BY <1>15, SMTT(30) DEF SetEvent
<1>16. ASSUME Wake
      PROVE  NoLeak'
  BY <1>16, SMTT(30) DEF Wake
<1>17. ASSUME NEW m \in downlink, DeviceHandles(m)
      PROVE  NoLeak'
  BY <1>17, SMTT(30) DEF DeviceHandles, local
<1>18. ASSUME UNCHANGED vars
      PROVE  NoLeak'
  BY <1>18, SMTT(30) DEF vars
<1> QED
  BY <1>1, <1>2, <1>3, <1>4, <1>5, <1>6, <1>7, <1>8, <1>9, <1>10, <1>11,
     <1>12, <1>13, <1>14, <1>15, <1>16, <1>17, <1>18
  DEF Next, UdpStep, ThreadStep

\* Drawing a number somebody holds puts it in redrawn.
LEMMA NumbersNext ==
  TInv /\ Numbers /\ [Next]_vars => Numbers'
<1> SUFFICES ASSUME TInv, Numbers, [Next]_vars
             PROVE  Numbers'
  OBVIOUS
<1> USE ControlPlaneAssumption
<1> USE DEF TInv, TypeOK, Threads, Keys, CSeqs, Unused, Txns, Txn,
            Answers, Values, Steps, Messages, obj, dict, net, hist,
            Return, Numbers, Begun
<1>1. ASSUME NEW t \in Clients, NEW v \in Values, BeginCall(t, v)
      PROVE  Numbers'
  BY <1>1, SMTT(30) DEF BeginCall, DrawCSeq
<1>2. ASSUME NEW t \in Clients, NEW v \in Programs, BeginProgram(t, v)
      PROVE  Numbers'
  BY <1>2, SMTT(30) DEF BeginProgram
<1>3. ASSUME BeginUnwaited
      PROVE  Numbers'
  BY <1>3, SMTT(30) DEF BeginUnwaited, DrawCSeq
<1>4. ASSUME NEW t \in Threads, BumpCSeq(t)
      PROVE  Numbers'
  BY <1>4, SMTT(30) DEF BumpCSeq
<1>5. ASSUME NEW t \in Threads, PopDangling(t)
      PROVE  Numbers'
  BY <1>5, SMTT(30) DEF PopDangling
<1>6. ASSUME NEW t \in Threads, InsertEntry(t)
      PROVE  Numbers'
  BY <1>6, SMTT(30) DEF InsertEntry
<1>7. ASSUME NEW t \in Threads, Send(t)
      PROVE  Numbers'
  BY <1>7, SMTT(30) DEF Send, Request
<1>8. ASSUME NEW t \in Threads, SendRaises(t)
      PROVE  Numbers'
  BY <1>8, SMTT(30) DEF SendRaises
<1>9. ASSUME NEW t \in Threads, CheckEntry(t)
      PROVE  Numbers'
  BY <1>9, SMTT(30) DEF CheckEntry
<1>10. ASSUME NEW t \in Threads, CaptureEntry(t)
      PROVE  Numbers'
  BY <1>10, SMTT(30) DEF CaptureEntry
<1>11. ASSUME NEW t \in Threads, WaitSignalled(t) \/ WaitTimesOut(t)
      PROVE  Numbers'
  <2>1. /\ pc[t] = "wait"
        /\ pc' = [pc EXCEPT ![t] = "delete"]
        /\ UNCHANGED <<cseq, results, ev, val, key, seq, ref, call, ask,
                       outcome, sig, downlink, uplink, applied, drawn,
                       redrawn, failed>>
    BY <1>11, WaitEffect
  <2> QED
    BY <2>1
<1>12. ASSUME NEW t \in Threads, DeleteEntry(t)
      PROVE  Numbers'
  BY <1>12, SMTT(30) DEF DeleteEntry
<1>13. ASSUME NEW m \in uplink, ReceiveResponse(m)
      PROVE  Numbers'
  BY <1>13, SMTT(30) DEF ReceiveResponse
<1>14. ASSUME StoreValue
      PROVE  Numbers'
  BY <1>14, SMTT(30) DEF StoreValue
<1>15. ASSUME SetEvent
      PROVE  Numbers'
  BY <1>15, SMTT(30) DEF SetEvent
<1>16. ASSUME Wake
      PROVE  Numbers'
  BY <1>16, SMTT(30) DEF Wake
<1>17. ASSUME NEW m \in downlink, DeviceHandles(m)
      PROVE  Numbers'
  BY <1>17, SMTT(30) DEF DeviceHandles, local
<1>18. ASSUME UNCHANGED vars
      PROVE  Numbers'
  BY <1>18, SMTT(30) DEF vars
<1> QED
  BY <1>1, <1>2, <1>3, <1>4, <1>5, <1>6, <1>7, <1>8, <1>9, <1>10, <1>11,
     <1>12, <1>13, <1>14, <1>15, <1>16, <1>17, <1>18
  DEF Next, UdpStep, ThreadStep

\* Only its owner touches the key of a number drawn once.
LEMMA RegisteredNext ==
  TInv /\ Numbers /\ OpenCallIsRegistered /\ [Next]_vars => OpenCallIsRegistered'
<1> SUFFICES ASSUME TInv, Numbers, OpenCallIsRegistered, [Next]_vars
             PROVE  OpenCallIsRegistered'
  OBVIOUS
<1> USE ControlPlaneAssumption
<1> USE DEF TInv, TypeOK, Threads, Keys, CSeqs, Unused, Txns, Txn,
            Answers, Values, Steps, Messages, obj, dict, net, hist,
            Return, Exclusive, Open
<1>1. ASSUME NEW t \in Clients, NEW v \in Values, BeginCall(t, v)
      PROVE  OpenCallIsRegistered'
  BY <1>1, SMTT(30) DEF BeginCall, DrawCSeq, OpenCallIsRegistered, Numbers, Begun
<1>2. ASSUME NEW t \in Clients, NEW v \in Programs, BeginProgram(t, v)
      PROVE  OpenCallIsRegistered'
  BY <1>2, SMTT(30) DEF BeginProgram, OpenCallIsRegistered, Numbers, Begun
<1>3. ASSUME BeginUnwaited
      PROVE  OpenCallIsRegistered'
  BY <1>3, SMTT(30) DEF BeginUnwaited, DrawCSeq, OpenCallIsRegistered, Numbers, Begun
<1>4. ASSUME NEW t \in Threads, BumpCSeq(t)
      PROVE  OpenCallIsRegistered'
  BY <1>4, SMTT(30) DEF BumpCSeq, OpenCallIsRegistered, Numbers, Begun
<1>5. ASSUME NEW t \in Threads, PopDangling(t)
      PROVE  OpenCallIsRegistered'
  <2>1. \A u \in Clients : Open(u)' => Open(u) /\ u # t
    BY <1>5 DEF PopDangling
  <2>2. \A u \in Clients : Open(u) /\ Exclusive(u) => seq[u] # seq[t]
    <3>1. t \in Clients => call[t] > 0 BY <1>5 DEF PopDangling
    <3> QED
      BY <1>5, <3>1 DEF PopDangling, Numbers, Begun, OpenCallIsRegistered
  <2> QED
    BY <1>5, <2>1, <2>2 DEF PopDangling, OpenCallIsRegistered
<1>6. ASSUME NEW t \in Threads, InsertEntry(t)
      PROVE  OpenCallIsRegistered'
  BY <1>6, SMTT(30) DEF InsertEntry, OpenCallIsRegistered, Numbers, Begun
<1>7. ASSUME NEW t \in Threads, Send(t)
      PROVE  OpenCallIsRegistered'
  BY <1>7, SMTT(30) DEF Send, Request, OpenCallIsRegistered, Numbers, Begun
<1>8. ASSUME NEW t \in Threads, SendRaises(t)
      PROVE  OpenCallIsRegistered'
  BY <1>8, SMTT(30) DEF SendRaises, OpenCallIsRegistered, Numbers, Begun
<1>9. ASSUME NEW t \in Threads, CheckEntry(t)
      PROVE  OpenCallIsRegistered'
  BY <1>9, SMTT(30) DEF CheckEntry, OpenCallIsRegistered, Numbers, Begun
<1>10. ASSUME NEW t \in Threads, CaptureEntry(t)
      PROVE  OpenCallIsRegistered'
  BY <1>10, SMTT(30) DEF CaptureEntry, OpenCallIsRegistered, Numbers, Begun
<1>11. ASSUME NEW t \in Threads, WaitSignalled(t) \/ WaitTimesOut(t)
      PROVE  OpenCallIsRegistered'
  <2>1. /\ pc[t] = "wait"
        /\ pc' = [pc EXCEPT ![t] = "delete"]
        /\ UNCHANGED <<cseq, results, ev, val, key, seq, ref, call, ask,
                       outcome, sig, downlink, uplink, applied, drawn,
                       redrawn, failed>>
    BY <1>11, WaitEffect
  <2> QED
    BY <2>1 DEF OpenCallIsRegistered, Numbers, Begun
<1>12. ASSUME NEW t \in Threads, DeleteEntry(t)
      PROVE  OpenCallIsRegistered'
  BY <1>12 DEF DeleteEntry, OpenCallIsRegistered, Numbers, Begun
<1>13. ASSUME NEW m \in uplink, ReceiveResponse(m)
      PROVE  OpenCallIsRegistered'
  BY <1>13, SMTT(30) DEF ReceiveResponse, OpenCallIsRegistered, Numbers, Begun
<1>14. ASSUME StoreValue
      PROVE  OpenCallIsRegistered'
  BY <1>14, SMTT(30) DEF StoreValue, OpenCallIsRegistered, Numbers, Begun
<1>15. ASSUME SetEvent
      PROVE  OpenCallIsRegistered'
  BY <1>15, SMTT(30) DEF SetEvent, OpenCallIsRegistered, Numbers, Begun
<1>16. ASSUME Wake
      PROVE  OpenCallIsRegistered'
  BY <1>16, SMTT(30) DEF Wake, OpenCallIsRegistered, Numbers, Begun
<1>17. ASSUME NEW m \in downlink, DeviceHandles(m)
      PROVE  OpenCallIsRegistered'
  BY <1>17, SMTT(30) DEF DeviceHandles, local, OpenCallIsRegistered, Numbers, Begun
<1>18. ASSUME UNCHANGED vars
      PROVE  OpenCallIsRegistered'
  BY <1>18, SMTT(30) DEF vars, OpenCallIsRegistered, Numbers, Begun
<1> QED
  BY <1>1, <1>2, <1>3, <1>4, <1>5, <1>6, <1>7, <1>8, <1>9, <1>10, <1>11,
     <1>12, <1>13, <1>14, <1>15, <1>16, <1>17, <1>18
  DEF Next, UdpStep, ThreadStep

\* Datagrams carry numbers already drawn; responses are echoes of requests.
LEMMA WireNext ==
  TInv /\ Numbers /\ Wire /\ [Next]_vars => Wire'
<1> SUFFICES ASSUME TInv, Numbers, Wire, [Next]_vars
             PROVE  Wire'
  OBVIOUS
<1> USE ControlPlaneAssumption
<1> USE DEF TInv, TypeOK, Threads, Keys, CSeqs, Unused, Txns, Txn,
            Answers, Values, Steps, Messages, obj, dict, net, hist,
            Return, Numbers, Begun, Wire
<1>1. ASSUME NEW t \in Clients, NEW v \in Values, BeginCall(t, v)
      PROVE  Wire'
  BY <1>1, SMTT(30) DEF BeginCall, DrawCSeq
<1>2. ASSUME NEW t \in Clients, NEW v \in Programs, BeginProgram(t, v)
      PROVE  Wire'
  BY <1>2, SMTT(30) DEF BeginProgram
<1>3. ASSUME BeginUnwaited
      PROVE  Wire'
  BY <1>3, SMTT(30) DEF BeginUnwaited, DrawCSeq
<1>4. ASSUME NEW t \in Threads, BumpCSeq(t)
      PROVE  Wire'
  BY <1>4, SMTT(30) DEF BumpCSeq
<1>5. ASSUME NEW t \in Threads, PopDangling(t)
      PROVE  Wire'
  BY <1>5, SMTT(30) DEF PopDangling
<1>6. ASSUME NEW t \in Threads, InsertEntry(t)
      PROVE  Wire'
  BY <1>6, SMTT(30) DEF InsertEntry
<1>7. ASSUME NEW t \in Threads, Send(t)
      PROVE  Wire'
  <2>1. call[t] > 0
    BY <1>7 DEF Send
  <2> QED
    BY <1>7, <2>1 DEF Send, Request
<1>8. ASSUME NEW t \in Threads, SendRaises(t)
      PROVE  Wire'
  BY <1>8, SMTT(30) DEF SendRaises
<1>9. ASSUME NEW t \in Threads, CheckEntry(t)
      PROVE  Wire'
  BY <1>9, SMTT(30) DEF CheckEntry
<1>10. ASSUME NEW t \in Threads, CaptureEntry(t)
      PROVE  Wire'
  BY <1>10, SMTT(30) DEF CaptureEntry
<1>11. ASSUME NEW t \in Threads, WaitSignalled(t) \/ WaitTimesOut(t)
      PROVE  Wire'
  <2>1. /\ pc[t] = "wait"
        /\ pc' = [pc EXCEPT ![t] = "delete"]
        /\ UNCHANGED <<cseq, results, ev, val, key, seq, ref, call, ask,
                       outcome, sig, downlink, uplink, applied, drawn,
                       redrawn, failed>>
    BY <1>11, WaitEffect
  <2> QED
    BY <2>1
<1>12. ASSUME NEW t \in Threads, DeleteEntry(t)
      PROVE  Wire'
  BY <1>12, SMTT(30) DEF DeleteEntry
<1>13. ASSUME NEW m \in uplink, ReceiveResponse(m)
      PROVE  Wire'
  BY <1>13, SMTT(30) DEF ReceiveResponse
<1>14. ASSUME StoreValue
      PROVE  Wire'
  BY <1>14, SMTT(30) DEF StoreValue
<1>15. ASSUME SetEvent
      PROVE  Wire'
  BY <1>15, SMTT(30) DEF SetEvent
<1>16. ASSUME Wake
      PROVE  Wire'
  BY <1>16, SMTT(30) DEF Wake
<1>17. ASSUME NEW m \in downlink, DeviceHandles(m)
      PROVE  Wire'
  BY <1>17, SMTT(30) DEF DeviceHandles, local
<1>18. ASSUME UNCHANGED vars
      PROVE  Wire'
  BY <1>18, SMTT(30) DEF vars
<1> QED
  BY <1>1, <1>2, <1>3, <1>4, <1>5, <1>6, <1>7, <1>8, <1>9, <1>10, <1>11,
     <1>12, <1>13, <1>14, <1>15, <1>16, <1>17, <1>18
  DEF Next, UdpStep, ThreadStep

\* A number drawn for the first time is on no datagram yet.
LEMMA OwnDatagramsNext ==
  TInv /\ Numbers /\ Wire /\ OwnDatagrams /\ [Next]_vars => OwnDatagrams'
<1> SUFFICES ASSUME TInv, Numbers, Wire, OwnDatagrams, [Next]_vars
             PROVE  OwnDatagrams'
  OBVIOUS
<1> USE ControlPlaneAssumption
<1> USE DEF TInv, TypeOK, Threads, Keys, CSeqs, Unused, Txns, Txn,
            Answers, Values, Steps, Messages, obj, dict, net, hist,
            Return, Numbers, Begun, Wire, OwnDatagrams, Exclusive
<1>1. ASSUME NEW t \in Clients, NEW v \in Values, BeginCall(t, v)
      PROVE  OwnDatagrams'
  BY <1>1, SMTT(30) DEF BeginCall, DrawCSeq
<1>2. ASSUME NEW t \in Clients, NEW v \in Programs, BeginProgram(t, v)
      PROVE  OwnDatagrams'
  BY <1>2, SMTT(30) DEF BeginProgram
<1>3. ASSUME BeginUnwaited
      PROVE  OwnDatagrams'
  BY <1>3, SMTT(30) DEF BeginUnwaited, DrawCSeq
<1>4. ASSUME NEW t \in Threads, BumpCSeq(t)
      PROVE  OwnDatagrams'
  BY <1>4, SMTT(30) DEF BumpCSeq
<1>5. ASSUME NEW t \in Threads, PopDangling(t)
      PROVE  OwnDatagrams'
  BY <1>5, SMTT(30) DEF PopDangling
<1>6. ASSUME NEW t \in Threads, InsertEntry(t)
      PROVE  OwnDatagrams'
  BY <1>6, SMTT(30) DEF InsertEntry
<1>7. ASSUME NEW t \in Threads, Send(t)
      PROVE  OwnDatagrams'
  BY <1>7, SMTT(30) DEF Send, Request
<1>8. ASSUME NEW t \in Threads, SendRaises(t)
      PROVE  OwnDatagrams'
  BY <1>8, SMTT(30) DEF SendRaises
<1>9. ASSUME NEW t \in Threads, CheckEntry(t)
      PROVE  OwnDatagrams'
  BY <1>9, SMTT(30) DEF CheckEntry
<1>10. ASSUME NEW t \in Threads, CaptureEntry(t)
      PROVE  OwnDatagrams'
  BY <1>10, SMTT(30) DEF CaptureEntry
<1>11. ASSUME NEW t \in Threads, WaitSignalled(t) \/ WaitTimesOut(t)
      PROVE  OwnDatagrams'
  <2>1. /\ pc[t] = "wait"
        /\ pc' = [pc EXCEPT ![t] = "delete"]
        /\ UNCHANGED <<cseq, results, ev, val, key, seq, ref, call, ask,
                       outcome, sig, downlink, uplink, applied, drawn,
                       redrawn, failed>>
    BY <1>11, WaitEffect
  <2> QED
    BY <2>1
<1>12. ASSUME NEW t \in Threads, DeleteEntry(t)
      PROVE  OwnDatagrams'
  BY <1>12, SMTT(30) DEF DeleteEntry
<1>13. ASSUME NEW m \in uplink, ReceiveResponse(m)
      PROVE  OwnDatagrams'
  BY <1>13, SMTT(30) DEF ReceiveResponse
<1>14. ASSUME StoreValue
      PROVE  OwnDatagrams'
  BY <1>14, SMTT(30) DEF StoreValue
<1>15. ASSUME SetEvent
      PROVE  OwnDatagrams'
  BY <1>15, SMTT(30) DEF SetEvent
<1>16. ASSUME Wake
      PROVE  OwnDatagrams'
  BY <1>16, SMTT(30) DEF Wake
<1>17. ASSUME NEW m \in downlink, DeviceHandles(m)
      PROVE  OwnDatagrams'
  BY <1>17, SMTT(30) DEF DeviceHandles, local
<1>18. ASSUME UNCHANGED vars
      PROVE  OwnDatagrams'
  BY <1>18, SMTT(30) DEF vars
<1> QED
  BY <1>1, <1>2, <1>3, <1>4, <1>5, <1>6, <1>7, <1>8, <1>9, <1>10, <1>11,
     <1>12, <1>13, <1>14, <1>15, <1>16, <1>17, <1>18
  DEF Next, UdpStep, ThreadStep

\* Nobody can hold or store an entry before its call inserts it.
LEMMA NoEarlyReferenceNext ==
  TInv /\ NoEarlyReference /\ [Next]_vars => NoEarlyReference'
<1> SUFFICES ASSUME TInv, NoEarlyReference, [Next]_vars
             PROVE  NoEarlyReference'
  OBVIOUS
<1> USE ControlPlaneAssumption
<1> USE DEF TInv, TypeOK, Threads, Keys, CSeqs, Unused, Txns, Txn,
            Answers, Values, Steps, Messages, obj, dict, net, hist,
            Return, Return
<1>1. ASSUME NEW t \in Clients, NEW v \in Values, BeginCall(t, v)
      PROVE  NoEarlyReference'
  BY <1>1, SMTT(30) DEF BeginCall, DrawCSeq, NoEarlyReference, Born, Before, Waiting
<1>2. ASSUME NEW t \in Clients, NEW v \in Programs, BeginProgram(t, v)
      PROVE  NoEarlyReference'
  BY <1>2, SMTT(30) DEF BeginProgram, NoEarlyReference, Born, Before, Waiting
<1>3. ASSUME BeginUnwaited
      PROVE  NoEarlyReference'
  BY <1>3, SMTT(30) DEF BeginUnwaited, DrawCSeq, NoEarlyReference, Born, Before, Waiting
<1>4. ASSUME NEW t \in Threads, BumpCSeq(t)
      PROVE  NoEarlyReference'
  BY <1>4, SMTT(30) DEF BumpCSeq, NoEarlyReference, Born, Before, Waiting
<1>5. ASSUME NEW t \in Threads, PopDangling(t)
      PROVE  NoEarlyReference'
  <2>1. \A x \in Txns : Born(x) => Born(x)'
    BY <1>5 DEF PopDangling, Born, Before
  <2>2. \A k \in Keys : results'[k] \in {results[k], Nil}
    BY <1>5 DEF PopDangling
  <2>3. \A u \in Threads : Waiting(u)' => Waiting(u) /\ ref'[u] = ref[u]
    BY <1>5 DEF PopDangling, Waiting
  <2> QED
    BY <2>1, <2>2, <2>3 DEF NoEarlyReference, Waiting
<1>6. ASSUME NEW t \in Threads, InsertEntry(t)
      PROVE  NoEarlyReference'
  BY <1>6, SMTT(30) DEF InsertEntry, NoEarlyReference, Born, Before, Waiting
<1>7. ASSUME NEW t \in Threads, Send(t)
      PROVE  NoEarlyReference'
  BY <1>7, SMTT(30) DEF Send, Request, NoEarlyReference, Born, Before, Waiting
<1>8. ASSUME NEW t \in Threads, SendRaises(t)
      PROVE  NoEarlyReference'
  <2>1. \A x \in Txns : Born(x) => Born(x)'
    BY <1>8 DEF SendRaises, Born, Before
  <2>2. \A k \in Keys : results'[k] \in {results[k], Nil}
    BY <1>8 DEF SendRaises
  <2>3. \A u \in Threads : Waiting(u)' => Waiting(u) /\ ref'[u] = ref[u]
    BY <1>8 DEF SendRaises, Waiting
  <2> QED
    BY <2>1, <2>2, <2>3 DEF NoEarlyReference, Waiting
<1>9. ASSUME NEW t \in Threads, CheckEntry(t)
      PROVE  NoEarlyReference'
  <2>1. \A x \in Txns : Born(x) => Born(x)'
    BY <1>9 DEF CheckEntry, Born, Before
  <2>2. \A k \in Keys : results'[k] \in {results[k], Nil}
    BY <1>9 DEF CheckEntry
  <2>3. \A u \in Threads : Waiting(u)' => Waiting(u) /\ ref'[u] = ref[u]
    BY <1>9 DEF CheckEntry, Waiting
  <2> QED
    BY <2>1, <2>2, <2>3 DEF NoEarlyReference, Waiting
<1>10. ASSUME NEW t \in Threads, CaptureEntry(t)
      PROVE  NoEarlyReference'
  <2>1. \A x \in Txns : Born(x) => Born(x)'
    BY <1>10 DEF CaptureEntry, Born, Before
  <2>2. results' = results
    BY <1>10 DEF CaptureEntry
  <2>3. \A u \in Threads \ {t} : Waiting(u)' => Waiting(u) /\ ref'[u] = ref[u]
    BY <1>10 DEF CaptureEntry, Waiting
  <2>4. Waiting(t)' => ref'[t] = results[seq[t]] /\ results[seq[t]] # Nil
    BY <1>10 DEF CaptureEntry, Waiting
  <2>5. \A u \in Threads : Waiting(u)' => Born(ref[u])'
    <3>1. \A u \in Threads \ {t} : Waiting(u)' => Born(ref[u])'
      BY <2>1, <2>3 DEF NoEarlyReference, Waiting, Born
    <3>2. Waiting(t)' => Born(ref[t])'
      <4>1. SUFFICES ASSUME Waiting(t)' PROVE Born(ref[t])'
        OBVIOUS
      <4>2. ref'[t] = results[seq[t]] /\ results[seq[t]] # Nil
        BY <2>4, <4>1
      <4>3. results[seq[t]] \in Txns /\ Born(results[seq[t]])
        BY <4>2 DEF NoEarlyReference
      <4> QED
        BY <2>1, <4>2, <4>3 DEF Born
    <3> QED
      BY <3>1, <3>2
  <2> QED
    BY <2>1, <2>2, <2>5 DEF NoEarlyReference, Born
<1>11. ASSUME NEW t \in Threads, WaitSignalled(t) \/ WaitTimesOut(t)
      PROVE  NoEarlyReference'
  <2>1. /\ pc[t] = "wait"
        /\ pc' = [pc EXCEPT ![t] = "delete"]
        /\ UNCHANGED <<cseq, results, ev, val, key, seq, ref, call, ask,
                       outcome, sig, downlink, uplink, applied, drawn,
                       redrawn, failed>>
    BY <1>11, WaitEffect
  <2>2. \A x \in Txns : Born(x) => Born(x)'
    BY <2>1 DEF Born, Before
  <2>3. \A u \in Threads : Waiting(u)' => Waiting(u)
    BY <2>1 DEF Waiting
  <2> QED
    BY <2>1, <2>2, <2>3 DEF NoEarlyReference, Waiting
<1>12. ASSUME NEW t \in Threads, DeleteEntry(t)
      PROVE  NoEarlyReference'
  <2>1. \A x \in Txns : Born(x) => Born(x)'
    BY <1>12 DEF DeleteEntry, Born, Before
  <2>2. \A k \in Keys : results'[k] \in {results[k], Nil}
    BY <1>12 DEF DeleteEntry
  <2>3. \A u \in Threads : Waiting(u)' => Waiting(u) /\ ref'[u] = ref[u]
    BY <1>12 DEF DeleteEntry, Waiting
  <2> QED
    BY <2>1, <2>2, <2>3 DEF NoEarlyReference, Waiting
<1>13. ASSUME NEW m \in uplink, ReceiveResponse(m)
      PROVE  NoEarlyReference'
  BY <1>13, SMTT(30) DEF ReceiveResponse, NoEarlyReference, Born, Before, Waiting
<1>14. ASSUME StoreValue
      PROVE  NoEarlyReference'
  BY <1>14, SMTT(30) DEF StoreValue, NoEarlyReference, Born, Before, Waiting
<1>15. ASSUME SetEvent
      PROVE  NoEarlyReference'
  BY <1>15, SMTT(30) DEF SetEvent, NoEarlyReference, Born, Before, Waiting
<1>16. ASSUME Wake
      PROVE  NoEarlyReference'
  BY <1>16, SMTT(30) DEF Wake, NoEarlyReference, Born, Before, Waiting
<1>17. ASSUME NEW m \in downlink, DeviceHandles(m)
      PROVE  NoEarlyReference'
  BY <1>17, SMTT(30) DEF DeviceHandles, local, NoEarlyReference, Born, Before, Waiting
<1>18. ASSUME UNCHANGED vars
      PROVE  NoEarlyReference'
  BY <1>18, SMTT(30) DEF vars, NoEarlyReference, Born, Before, Waiting
<1> QED
  BY <1>1, <1>2, <1>3, <1>4, <1>5, <1>6, <1>7, <1>8, <1>9, <1>10, <1>11,
     <1>12, <1>13, <1>14, <1>15, <1>16, <1>17, <1>18
  DEF Next, UdpStep, ThreadStep

\* InsertEntry re-keys only an entry that is referenced nowhere.
LEMMA KeysAgreeNext ==
  TInv /\ NoEarlyReference /\ KeysAgree /\ [Next]_vars => KeysAgree'
<1> SUFFICES ASSUME TInv, NoEarlyReference, KeysAgree, [Next]_vars
             PROVE  KeysAgree'
  OBVIOUS
<1> USE ControlPlaneAssumption
<1> USE DEF TInv, TypeOK, Threads, Keys, CSeqs, Unused, Txns, Txn,
            Answers, Values, Steps, Messages, obj, dict, net, hist,
            Return, NoEarlyReference, Born, Before, Waiting, KeysAgree
<1>1. ASSUME NEW t \in Clients, NEW v \in Values, BeginCall(t, v)
      PROVE  KeysAgree'
  BY <1>1, SMTT(30) DEF BeginCall, DrawCSeq
<1>2. ASSUME NEW t \in Clients, NEW v \in Programs, BeginProgram(t, v)
      PROVE  KeysAgree'
  BY <1>2, SMTT(30) DEF BeginProgram
<1>3. ASSUME BeginUnwaited
      PROVE  KeysAgree'
  BY <1>3, SMTT(30) DEF BeginUnwaited, DrawCSeq
<1>4. ASSUME NEW t \in Threads, BumpCSeq(t)
      PROVE  KeysAgree'
  BY <1>4, SMTT(30) DEF BumpCSeq
<1>5. ASSUME NEW t \in Threads, PopDangling(t)
      PROVE  KeysAgree'
  BY <1>5, SMTT(30) DEF PopDangling
<1>6. ASSUME NEW t \in Threads, InsertEntry(t)
      PROVE  KeysAgree'
  BY <1>6, SMTT(30) DEF InsertEntry
<1>7. ASSUME NEW t \in Threads, Send(t)
      PROVE  KeysAgree'
  BY <1>7, SMTT(30) DEF Send, Request
<1>8. ASSUME NEW t \in Threads, SendRaises(t)
      PROVE  KeysAgree'
  BY <1>8, SMTT(30) DEF SendRaises
<1>9. ASSUME NEW t \in Threads, CheckEntry(t)
      PROVE  KeysAgree'
  BY <1>9, SMTT(30) DEF CheckEntry
<1>10. ASSUME NEW t \in Threads, CaptureEntry(t)
      PROVE  KeysAgree'
  BY <1>10, SMTT(30) DEF CaptureEntry
<1>11. ASSUME NEW t \in Threads, WaitSignalled(t) \/ WaitTimesOut(t)
      PROVE  KeysAgree'
  <2>1. /\ pc[t] = "wait"
        /\ pc' = [pc EXCEPT ![t] = "delete"]
        /\ UNCHANGED <<cseq, results, ev, val, key, seq, ref, call, ask,
                       outcome, sig, downlink, uplink, applied, drawn,
                       redrawn, failed>>
    BY <1>11, WaitEffect
  <2>2. \A u \in Threads : Waiting(u)' => Waiting(u)
    BY <2>1
  <2> QED
    BY <2>1, <2>2
<1>12. ASSUME NEW t \in Threads, DeleteEntry(t)
      PROVE  KeysAgree'
  BY <1>12, SMTT(30) DEF DeleteEntry
<1>13. ASSUME NEW m \in uplink, ReceiveResponse(m)
      PROVE  KeysAgree'
  BY <1>13, SMTT(30) DEF ReceiveResponse
<1>14. ASSUME StoreValue
      PROVE  KeysAgree'
  BY <1>14, SMTT(30) DEF StoreValue
<1>15. ASSUME SetEvent
      PROVE  KeysAgree'
  BY <1>15, SMTT(30) DEF SetEvent
<1>16. ASSUME Wake
      PROVE  KeysAgree'
  BY <1>16, SMTT(30) DEF Wake
<1>17. ASSUME NEW m \in downlink, DeviceHandles(m)
      PROVE  KeysAgree'
  BY <1>17, SMTT(30) DEF DeviceHandles, local
<1>18. ASSUME UNCHANGED vars
      PROVE  KeysAgree'
  BY <1>18, SMTT(30) DEF vars
<1> QED
  BY <1>1, <1>2, <1>3, <1>4, <1>5, <1>6, <1>7, <1>8, <1>9, <1>10, <1>11,
     <1>12, <1>13, <1>14, <1>15, <1>16, <1>17, <1>18
  DEF Next, UdpStep, ThreadStep

\* StoreValue writes the value of a received response under its own number.
LEMMA ValuesNext ==
  TInv /\ Wire /\ KeysAgree /\ ValuesComeFromTheWire /\ [Next]_vars => ValuesComeFromTheWire'
<1> SUFFICES ASSUME TInv, Wire, KeysAgree, ValuesComeFromTheWire, [Next]_vars
             PROVE  ValuesComeFromTheWire'
  OBVIOUS
<1> USE ControlPlaneAssumption
<1> USE DEF TInv, TypeOK, Threads, Keys, CSeqs, Unused, Txns, Txn,
            Answers, Values, Steps, Messages, obj, dict, net, hist,
            Return, Wire, KeysAgree, ValuesComeFromTheWire
<1>1. ASSUME NEW t \in Clients, NEW v \in Values, BeginCall(t, v)
      PROVE  ValuesComeFromTheWire'
  BY <1>1, SMTT(30) DEF BeginCall, DrawCSeq
<1>2. ASSUME NEW t \in Clients, NEW v \in Programs, BeginProgram(t, v)
      PROVE  ValuesComeFromTheWire'
  BY <1>2, SMTT(30) DEF BeginProgram
<1>3. ASSUME BeginUnwaited
      PROVE  ValuesComeFromTheWire'
  BY <1>3, SMTT(30) DEF BeginUnwaited, DrawCSeq
<1>4. ASSUME NEW t \in Threads, BumpCSeq(t)
      PROVE  ValuesComeFromTheWire'
  BY <1>4, SMTT(30) DEF BumpCSeq
<1>5. ASSUME NEW t \in Threads, PopDangling(t)
      PROVE  ValuesComeFromTheWire'
  BY <1>5, SMTT(30) DEF PopDangling
<1>6. ASSUME NEW t \in Threads, InsertEntry(t)
      PROVE  ValuesComeFromTheWire'
  BY <1>6, SMTT(30) DEF InsertEntry
<1>7. ASSUME NEW t \in Threads, Send(t)
      PROVE  ValuesComeFromTheWire'
  BY <1>7, SMTT(30) DEF Send, Request
<1>8. ASSUME NEW t \in Threads, SendRaises(t)
      PROVE  ValuesComeFromTheWire'
  BY <1>8, SMTT(30) DEF SendRaises
<1>9. ASSUME NEW t \in Threads, CheckEntry(t)
      PROVE  ValuesComeFromTheWire'
  BY <1>9, SMTT(30) DEF CheckEntry
<1>10. ASSUME NEW t \in Threads, CaptureEntry(t)
      PROVE  ValuesComeFromTheWire'
  BY <1>10, SMTT(30) DEF CaptureEntry
<1>11. ASSUME NEW t \in Threads, WaitSignalled(t) \/ WaitTimesOut(t)
      PROVE  ValuesComeFromTheWire'
  <2>1. /\ pc[t] = "wait"
        /\ pc' = [pc EXCEPT ![t] = "delete"]
        /\ UNCHANGED <<cseq, results, ev, val, key, seq, ref, call, ask,
                       outcome, sig, downlink, uplink, applied, drawn,
                       redrawn, failed>>
    BY <1>11, WaitEffect
  <2> QED
    BY <2>1
<1>12. ASSUME NEW t \in Threads, DeleteEntry(t)
      PROVE  ValuesComeFromTheWire'
  BY <1>12, SMTT(30) DEF DeleteEntry
<1>13. ASSUME NEW m \in uplink, ReceiveResponse(m)
      PROVE  ValuesComeFromTheWire'
  BY <1>13, SMTT(30) DEF ReceiveResponse
<1>14. ASSUME StoreValue
      PROVE  ValuesComeFromTheWire'
  BY <1>14, SMTT(30) DEF StoreValue
<1>15. ASSUME SetEvent
      PROVE  ValuesComeFromTheWire'
  BY <1>15, SMTT(30) DEF SetEvent
<1>16. ASSUME Wake
      PROVE  ValuesComeFromTheWire'
  BY <1>16, SMTT(30) DEF Wake
<1>17. ASSUME NEW m \in downlink, DeviceHandles(m)
      PROVE  ValuesComeFromTheWire'
  BY <1>17, SMTT(30) DEF DeviceHandles, local
<1>18. ASSUME UNCHANGED vars
      PROVE  ValuesComeFromTheWire'
  BY <1>18, SMTT(30) DEF vars
<1> QED
  BY <1>1, <1>2, <1>3, <1>4, <1>5, <1>6, <1>7, <1>8, <1>9, <1>10, <1>11,
     <1>12, <1>13, <1>14, <1>15, <1>16, <1>17, <1>18
  DEF Next, UdpStep, ThreadStep

\* The entry of a call with its own number is stored, signalled and deleted
\* for that call alone.
LEMMA OwnEntryNext ==
  TInv /\ Numbers /\ Wire /\ OwnDatagrams /\ OpenCallIsRegistered /\ NoEarlyReference /\ KeysAgree /\ OwnEntry /\ [Next]_vars => OwnEntry'
<1> SUFFICES ASSUME TInv, Numbers, Wire, OwnDatagrams, OpenCallIsRegistered, NoEarlyReference, KeysAgree, OwnEntry, [Next]_vars
             PROVE  OwnEntry'
  OBVIOUS
<1> USE ControlPlaneAssumption
<1> USE DEF TInv, TypeOK, Threads, Keys, CSeqs, Unused, Txns, Txn,
            Answers, Values, Steps, Messages, obj, dict, net, hist,
            Return, Exclusive
<1>1. ASSUME NEW t \in Clients, NEW v \in Values, BeginCall(t, v)
      PROVE  OwnEntry'
  BY <1>1, SMTT(30) DEF BeginCall, DrawCSeq, OwnEntry, Numbers, Begun, Before, Waiting, OpenCallIsRegistered, Open
<1>2. ASSUME NEW t \in Clients, NEW v \in Programs, BeginProgram(t, v)
      PROVE  OwnEntry'
  BY <1>2, SMTT(30) DEF BeginProgram, OwnEntry, Numbers, Begun, Before, Waiting, OpenCallIsRegistered, Open
<1>3. ASSUME BeginUnwaited
      PROVE  OwnEntry'
  BY <1>3, SMTT(30) DEF BeginUnwaited, DrawCSeq, OwnEntry, Numbers, Begun, Before, Waiting, OpenCallIsRegistered, Open
<1>4. ASSUME NEW t \in Threads, BumpCSeq(t)
      PROVE  OwnEntry'
  BY <1>4, SMTT(30) DEF BumpCSeq, OwnEntry, Numbers, Begun, Before, Waiting, OpenCallIsRegistered, Open
<1>5. ASSUME NEW t \in Threads, PopDangling(t)
      PROVE  OwnEntry'
  BY <1>5, SMTT(30) DEF PopDangling, OwnEntry, Numbers, Begun, Before, Waiting, OpenCallIsRegistered, Open
<1>6. ASSUME NEW t \in Threads, InsertEntry(t)
      PROVE  OwnEntry'
  BY <1>6, SMTT(30) DEF InsertEntry, OwnEntry, Numbers, Begun, Before, Waiting, OpenCallIsRegistered, Open
<1>7. ASSUME NEW t \in Threads, Send(t)
      PROVE  OwnEntry'
  BY <1>7, SMTT(30) DEF Send, Request, OwnEntry, Numbers, Begun, Before, Waiting, OpenCallIsRegistered, Open
<1>8. ASSUME NEW t \in Threads, SendRaises(t)
      PROVE  OwnEntry'
  BY <1>8, SMTT(30) DEF SendRaises, OwnEntry, Numbers, Begun, Before, Waiting, OpenCallIsRegistered, Open
<1>9. ASSUME NEW t \in Threads, CheckEntry(t)
      PROVE  OwnEntry'
  BY <1>9, SMTT(30) DEF CheckEntry, OwnEntry, Numbers, Begun, Before, Waiting, OpenCallIsRegistered, Open
<1>10. ASSUME NEW t \in Threads, CaptureEntry(t)
      PROVE  OwnEntry'
  BY <1>10, SMTT(30) DEF CaptureEntry, OwnEntry, Numbers, Begun, Before, Waiting, OpenCallIsRegistered, Open
<1>11. ASSUME NEW t \in Threads, WaitSignalled(t) \/ WaitTimesOut(t)
      PROVE  OwnEntry'
  <2>1. /\ pc[t] = "wait"
        /\ pc' = [pc EXCEPT ![t] = "delete"]
        /\ UNCHANGED <<cseq, results, ev, val, key, seq, ref, call, ask,
                       outcome, sig, downlink, uplink, applied, drawn,
                       redrawn, failed>>
    BY <1>11, WaitEffect
  <2>2. \A u \in Clients : /\ pc'[u] = "idle" => pc[u] = "idle"
                           /\ Waiting(u)' => Waiting(u)
                           /\ Before(u)' = Before(u)
    BY <2>1 DEF Before, Waiting
  <2> QED
    BY <2>1, <2>2 DEF OwnEntry
<1>12. ASSUME NEW t \in Threads, DeleteEntry(t)
      PROVE  OwnEntry'
  <2>1. UNCHANGED <<key, val, ref, call, ask, seq, redrawn, applied>>
    BY <1>12 DEF DeleteEntry
  <2>2. pc' = [pc EXCEPT ![t] = pc'[t]] /\ pc'[t] \in {"idle", "sleep"}
    BY <1>12, ReturnEffect DEF DeleteEntry
  <2>3. \A u \in Clients \ {t} :
          call[u] > 0 /\ Exclusive(u) /\ pc[u] = "idle" /\ results[seq[u]] = Nil
            => results'[seq[u]] = Nil
    BY <1>12 DEF DeleteEntry
  <2>4. \A u \in Clients \ {t} : outcome'[u] = outcome[u]
    BY <1>12 DEF DeleteEntry
  <2>5. ASSUME t \in Clients, call[t] > 0, Exclusive(t)
        PROVE  outcome'[t] = val[Txn(t)] /\ results'[seq[t]] = Nil
    <3>1. results[seq[t]] = Txn(t) /\ results[seq[t]] # Nil
      BY <1>12, <2>5 DEF DeleteEntry, OpenCallIsRegistered, Open
    <3>2. ref[t] = Txn(t)
      BY <1>12, <2>5 DEF DeleteEntry, OwnEntry, Waiting
    <3> QED
      BY <1>12, <2>5, <3>1, <3>2 DEF DeleteEntry
  <2>6. pc[t] = "delete"
    BY <1>12 DEF DeleteEntry
  <2>7. ASSUME NEW u \in Clients \ {t}, (call[u] > 0 /\ Exclusive(u))'
        PROVE  /\ Waiting(u) => ref[u] = Txn(u)
               /\ ~Before(u) => /\ key[Txn(u)] = seq[u]
                                /\ val[Txn(u)] \in {Nil, ask[u]}
                                /\ val[Txn(u)] = ask[u] => Txn(u) \in applied
               /\ pc'[u] = pc[u]
               /\ pc[u] = "idle" => \/ outcome'[u] = Error
                                    \/ outcome'[u] = val[Txn(u)] /\ results'[seq[u]] = Nil
    BY <2>1, <2>2, <2>3, <2>4, <2>7 DEF OwnEntry
  <2>8. ASSUME t \in Clients, (call[t] > 0 /\ Exclusive(t))'
        PROVE  /\ key[Txn(t)] = seq[t]
               /\ val[Txn(t)] \in {Nil, ask[t]}
               /\ val[Txn(t)] = ask[t] => Txn(t) \in applied
               /\ pc'[t] \in {"idle", "sleep"}
               /\ outcome'[t] = val[Txn(t)] /\ results'[seq[t]] = Nil
    BY <2>1, <2>2, <2>5, <2>6, <2>8 DEF OwnEntry, Before
  <2> QED
    BY <2>1, <2>7, <2>8 DEF OwnEntry, Before, Waiting
<1>13. ASSUME NEW m \in uplink, ReceiveResponse(m)
      PROVE  OwnEntry'
  BY <1>13, SMTT(30) DEF ReceiveResponse, OwnEntry, Numbers, Begun, Before, Waiting, OpenCallIsRegistered, Open
<1>14. ASSUME StoreValue
      PROVE  OwnEntry'
  <2>1. CASE results[sig.cseq] = Nil
    BY <1>14, <2>1 DEF StoreValue, OwnEntry, Before, Waiting
  <2>2. CASE results[sig.cseq] # Nil
    <3>1. \A u \in Clients :
            call[u] > 0 /\ Exclusive(u) /\ ~Before(u) /\ results[sig.cseq] = Txn(u)
              => /\ sig.cseq = seq[u]
                 /\ sig.val = ask[u]
                 /\ Txn(u) \in applied
      <4>1. SUFFICES ASSUME NEW u \in Clients, call[u] > 0, Exclusive(u),
                            ~Before(u), results[sig.cseq] = Txn(u)
                     PROVE  /\ sig.cseq = seq[u]
                            /\ sig.val = ask[u]
                            /\ Txn(u) \in applied
        OBVIOUS
      <4>2. sig.cseq = seq[u]
        <5>1. key[results[sig.cseq]] = sig.cseq
          BY <2>2 DEF KeysAgree
        <5>2. key[Txn(u)] = seq[u]
          BY <4>1 DEF OwnEntry
        <5> QED
          BY <4>1, <5>1, <5>2
      <4>3. sig \in uplink
        BY <1>14 DEF StoreValue, Wire
      <4>4. sig.val = ask[u] /\ sig.txn = Txn(u)
        BY <4>1, <4>2, <4>3 DEF Wire, OwnDatagrams
      <4> QED
        BY <4>2, <4>3, <4>4 DEF Wire
    <3>2. /\ val' = [val EXCEPT ![results[sig.cseq]] = sig.val]
          /\ results[sig.cseq] \in Txns
      BY <1>14, <2>2 DEF StoreValue
    <3>3. /\ UNCHANGED <<key, ref, call, ask, seq, redrawn, applied, outcome,
                         results>>
          /\ pc' = [pc EXCEPT ![Udp] = "set"]
      BY <1>14, <2>2 DEF StoreValue
    <3>4. \A u \in Clients : call[u] > 0 => Txn(u) \in Txns
      OBVIOUS
    <3> QED
      BY <2>2, <3>1, <3>2, <3>3, <3>4 DEF OwnEntry, Before, Waiting
  <2> QED
    BY <2>1, <2>2
<1>15. ASSUME SetEvent
      PROVE  OwnEntry'
  BY <1>15, SMTT(30) DEF SetEvent, OwnEntry, Numbers, Begun, Before, Waiting, OpenCallIsRegistered, Open
<1>16. ASSUME Wake
      PROVE  OwnEntry'
  BY <1>16, SMTT(30) DEF Wake, OwnEntry, Numbers, Begun, Before, Waiting, OpenCallIsRegistered, Open
<1>17. ASSUME NEW m \in downlink, DeviceHandles(m)
      PROVE  OwnEntry'
  BY <1>17, SMTT(30) DEF DeviceHandles, local, OwnEntry, Numbers, Begun, Before, Waiting, OpenCallIsRegistered, Open
<1>18. ASSUME UNCHANGED vars
      PROVE  OwnEntry'
  BY <1>18, SMTT(30) DEF vars, OwnEntry, Numbers, Begun, Before, Waiting, OpenCallIsRegistered, Open
<1> QED
  BY <1>1, <1>2, <1>3, <1>4, <1>5, <1>6, <1>7, <1>8, <1>9, <1>10, <1>11,
     <1>12, <1>13, <1>14, <1>15, <1>16, <1>17, <1>18
  DEF Next, UdpStep, ThreadStep

\* DeleteEntry returns the value of an entry of the caller's number.
LEMMA AnswersNext ==
  TInv /\ KeysAgree /\ ValuesComeFromTheWire /\ AnswerCarriesNumber /\ [Next]_vars => AnswerCarriesNumber'
<1> SUFFICES ASSUME TInv, KeysAgree, ValuesComeFromTheWire, AnswerCarriesNumber, [Next]_vars
             PROVE  AnswerCarriesNumber'
  OBVIOUS
<1> USE ControlPlaneAssumption
<1> USE DEF TInv, TypeOK, Threads, Keys, CSeqs, Unused, Txns, Txn,
            Answers, Values, Steps, Messages, obj, dict, net, hist,
            Return, AnswerCarriesNumber, Finished
<1>1. ASSUME NEW t \in Clients, NEW v \in Values, BeginCall(t, v)
      PROVE  AnswerCarriesNumber'
  BY <1>1, SMTT(30) DEF BeginCall, DrawCSeq
<1>2. ASSUME NEW t \in Clients, NEW v \in Programs, BeginProgram(t, v)
      PROVE  AnswerCarriesNumber'
  BY <1>2, SMTT(30) DEF BeginProgram
<1>3. ASSUME BeginUnwaited
      PROVE  AnswerCarriesNumber'
  BY <1>3, SMTT(30) DEF BeginUnwaited, DrawCSeq
<1>4. ASSUME NEW t \in Threads, BumpCSeq(t)
      PROVE  AnswerCarriesNumber'
  BY <1>4, SMTT(30) DEF BumpCSeq
<1>5. ASSUME NEW t \in Threads, PopDangling(t)
      PROVE  AnswerCarriesNumber'
  BY <1>5, SMTT(30) DEF PopDangling
<1>6. ASSUME NEW t \in Threads, InsertEntry(t)
      PROVE  AnswerCarriesNumber'
  BY <1>6, SMTT(30) DEF InsertEntry
<1>7. ASSUME NEW t \in Threads, Send(t)
      PROVE  AnswerCarriesNumber'
  BY <1>7, SMTT(30) DEF Send, Request
<1>8. ASSUME NEW t \in Threads, SendRaises(t)
      PROVE  AnswerCarriesNumber'
  BY <1>8, SMTT(30) DEF SendRaises
<1>9. ASSUME NEW t \in Threads, CheckEntry(t)
      PROVE  AnswerCarriesNumber'
  BY <1>9, SMTT(30) DEF CheckEntry
<1>10. ASSUME NEW t \in Threads, CaptureEntry(t)
      PROVE  AnswerCarriesNumber'
  BY <1>10, SMTT(30) DEF CaptureEntry
<1>11. ASSUME NEW t \in Threads, WaitSignalled(t) \/ WaitTimesOut(t)
      PROVE  AnswerCarriesNumber'
  <2>1. /\ pc[t] = "wait"
        /\ pc' = [pc EXCEPT ![t] = "delete"]
        /\ UNCHANGED <<cseq, results, ev, val, key, seq, ref, call, ask,
                       outcome, sig, downlink, uplink, applied, drawn,
                       redrawn, failed>>
    BY <1>11, WaitEffect
  <2> QED
    BY <2>1
<1>12. ASSUME NEW t \in Threads, DeleteEntry(t)
      PROVE  AnswerCarriesNumber'
  <2>1. PICK v : /\ Return(t, v)
                 /\ v \notin {Nil, Error} =>
                      \E m \in uplink : m.cseq = seq[t] /\ m.val = v
    <3>1. val[ref[t]] # Nil =>
            \E m \in uplink : m.cseq = seq[t] /\ m.val = val[ref[t]]
      BY <1>12 DEF DeleteEntry, KeysAgree, Waiting, ValuesComeFromTheWire
    <3> QED
      BY <1>12, <3>1 DEF DeleteEntry
  <2>2. UNCHANGED <<seq, call, uplink>>
    BY <1>12 DEF DeleteEntry
  <2>3. CASE t = Udp
    BY <2>1, <2>2, <2>3
  <2>4. CASE t \in Clients
    BY <2>1, <2>2, <2>4
  <2> QED
    BY <2>3, <2>4
<1>13. ASSUME NEW m \in uplink, ReceiveResponse(m)
      PROVE  AnswerCarriesNumber'
  BY <1>13, SMTT(30) DEF ReceiveResponse
<1>14. ASSUME StoreValue
      PROVE  AnswerCarriesNumber'
  BY <1>14, SMTT(30) DEF StoreValue
<1>15. ASSUME SetEvent
      PROVE  AnswerCarriesNumber'
  BY <1>15, SMTT(30) DEF SetEvent
<1>16. ASSUME Wake
      PROVE  AnswerCarriesNumber'
  BY <1>16, SMTT(30) DEF Wake
<1>17. ASSUME NEW m \in downlink, DeviceHandles(m)
      PROVE  AnswerCarriesNumber'
  BY <1>17, SMTT(30) DEF DeviceHandles, local
<1>18. ASSUME UNCHANGED vars
      PROVE  AnswerCarriesNumber'
  BY <1>18, SMTT(30) DEF vars
<1> QED
  BY <1>1, <1>2, <1>3, <1>4, <1>5, <1>6, <1>7, <1>8, <1>9, <1>10, <1>11,
     <1>12, <1>13, <1>14, <1>15, <1>16, <1>17, <1>18
  DEF Next, UdpStep, ThreadStep

-----------------------------------------------------------------------------
(* The theorems.                                                           *)

\* The inductive invariant.
IInv ==
  /\ TInv /\ NoLeak /\ Numbers /\ OpenCallIsRegistered
  /\ Wire /\ OwnDatagrams /\ NoEarlyReference /\ KeysAgree
  /\ ValuesComeFromTheWire /\ OwnEntry /\ AnswerCarriesNumber

\* The initial state satisfies every part.
LEMMA IInvInit == Init => IInv
<1> SUFFICES ASSUME Init PROVE IInv
  OBVIOUS
<1>1. TInv
  BY TInvInit
<1>2. NoLeak /\ OpenCallIsRegistered
  BY ControlPlaneAssumption
  DEF Init, NoLeak, OpenCallIsRegistered, Open, Threads, Keys
<1>3. Numbers /\ OwnDatagrams /\ OwnEntry
  BY ControlPlaneAssumption
  DEF Init, Numbers, Begun, OwnDatagrams, OwnEntry, Threads
<1>4. Wire
  BY ControlPlaneAssumption DEF Init, Wire, Threads
<1>5. NoEarlyReference /\ KeysAgree
  BY ControlPlaneAssumption
  DEF Init, NoEarlyReference, KeysAgree, Waiting, Threads, Keys
<1>6. ValuesComeFromTheWire /\ AnswerCarriesNumber
  BY DEF Init, ValuesComeFromTheWire, AnswerCarriesNumber, Finished, Threads
<1> QED
  BY <1>1, <1>2, <1>3, <1>4, <1>5, <1>6 DEF IInv

\* Every step preserves the conjunction of the parts.
LEMMA IInvNext == IInv /\ [Next]_vars => IInv'
  BY TInvNext, NoLeakNext, NumbersNext, RegisteredNext, WireNext,
     OwnDatagramsNext, NoEarlyReferenceNext, KeysAgreeNext, ValuesNext,
     OwnEntryNext, AnswersNext, Zenon
  DEF IInv

\* The inductive invariant holds in every reachable state.
LEMMA IInvAlways == Spec => []IInv
  BY IInvInit, IInvNext, PTL DEF Spec

\* Every variable keeps its type; in particular the counter stays in 0..MAX_CSEQ
\* and never reaches UNUSED_CSEQ, whichever threads race in NextCSeq.
THEOREM TypeCorrect == Spec => []TypeOK
  BY IInvAlways, PTL DEF IInv, TInv

\* No entry of device["results"] outlives its call, for any number of threads.
THEOREM NoLeakAlways == Spec => []NoLeak
  BY IInvAlways, PTL DEF IInv

\* A call with a number of its own is registered for as long as it may be
\* answered.
THEOREM RegisteredAlways == Spec => []OpenCallIsRegistered
  BY IInvAlways, PTL DEF IInv

\* Such a call returns what was signalled to it, even after its timeout.
THEOREM SignalledAlways == Spec => []SignalledIsReturned
<1>1. IInv => SignalledIsReturned
  BY DEF IInv, OwnEntry, SignalledIsReturned, Finished
<1> QED
  BY <1>1, IInvAlways, PTL

\* Whatever the races, a value returned came in a response with its number.
THEOREM AnswerCarriesNumberAlways == Spec => []AnswerCarriesNumber
  BY IInvAlways, PTL DEF IInv

-----------------------------------------------------------------------------
(* ControlPlane implements ControlCall.                                    *)

\* A request is on the network from its Send on, and only then; an entry is
\* captured only by a thread whose number can have one.
Dispatched ==
  /\ \A m \in downlink : m.txn # NoTxn =>
       \/ m.txn[2] < call[m.txn[1]]
       \/ (m.txn[2] = call[m.txn[1]] /\ ~Before(m.txn[1]) /\ pc[m.txn[1]] # "send")
  /\ \A t \in Clients : pc[t] \in {"check", "capture", "wait", "delete"} =>
       \E m \in downlink : m.txn = Txn(t)
  /\ \A t \in Threads : pc[t] \in {"capture", "wait", "delete"} => seq[t] \in CSeqs

\* A request belongs to a client, or to nobody.
LEMMA RequestOf ==
  ASSUME TypeOK, NEW m \in downlink, m.txn # NoTxn
  PROVE  m.txn \in Txns /\ m.txn[1] \in Clients /\ m.txn[1] \in Threads
  BY DEF TypeOK, Messages, Txns, Threads

\* Every step keeps it.
LEMMA DispatchedNext ==
  TInv /\ Dispatched /\ [Next]_vars => Dispatched'
<1> SUFFICES ASSUME TInv, Dispatched, [Next]_vars
             PROVE  Dispatched'
  OBVIOUS
<1> USE ControlPlaneAssumption
<1> DEFINE Past(s) == s \in {"check", "capture", "wait", "delete"}
           Held(s) == s \in {"capture", "wait", "delete"}
           Early(s) == s \in {"bump", "pop", "insert", "send"}
<1>1. ASSUME NEW t \in Threads,
             \A u \in Threads \ {t} :
               pc'[u] = pc[u] /\ call'[u] = call[u] /\ seq'[u] = seq[u],
             downlink' = downlink,
             \/ /\ call'[t] = call[t] + 1 /\ Early(pc'[t])
             \/ /\ call'[t] = call[t] /\ seq'[t] = seq[t]
                /\ Early(pc'[t]) => Early(pc[t])
                /\ Past(pc'[t]) => Past(pc[t])
                /\ Held(pc'[t]) => Held(pc[t]) \/ seq[t] \in CSeqs
      PROVE  Dispatched'
  <2>1. \A m \in downlink : m.txn # NoTxn => m.txn \in Txns /\ m.txn[1] \in Threads
    BY RequestOf DEF TInv
  <2>2. \A u \in Threads : call[u] \in Nat
    BY DEF TInv, TypeOK
  <2>3. ASSUME NEW m \in downlink, m.txn # NoTxn
        PROVE  \/ m.txn[2] < call'[m.txn[1]]
               \/ (m.txn[2] = call'[m.txn[1]] /\ ~Early(pc'[m.txn[1]]))
    <3>1. m.txn[1] \in Threads /\ m.txn[2] \in Nat
      BY <2>1, <2>3 DEF Txns
    <3>2. \/ m.txn[2] < call[m.txn[1]]
          \/ (m.txn[2] = call[m.txn[1]] /\ ~Early(pc[m.txn[1]]))
      BY <2>3 DEF Dispatched, Before
    <3>3. CASE m.txn[1] = t
      BY <1>1, <2>2, <3>1, <3>2, <3>3
    <3>4. CASE m.txn[1] # t
      BY <1>1, <3>1, <3>2, <3>4
    <3> QED
      BY <3>3, <3>4
  <2>4. ASSUME NEW u \in Clients, Past(pc'[u])
        PROVE  \E m \in downlink : m.txn = Txn(u)'
    <3>1. Past(pc[u]) /\ call'[u] = call[u]
      BY <1>1, <2>4 DEF Threads
    <3> QED
      BY <3>1 DEF Dispatched, Txn
  <2>5. ASSUME NEW u \in Threads, Held(pc'[u])
        PROVE  seq'[u] \in CSeqs
    BY <1>1, <2>5 DEF Dispatched
  <2> QED
    BY <1>1, <2>3, <2>4, <2>5 DEF Dispatched, Before
<1>2. ASSUME UNCHANGED <<pc, call, seq, downlink>>
      PROVE  Dispatched'
  BY <1>2 DEF Dispatched, Before, Txn
<1> USE DEF TInv, TypeOK, Threads, Steps, obj, dict, net, hist
<1>3. ASSUME NEW t \in Clients,
             \/ \E v \in Values : BeginCall(t, v)
             \/ \E v \in Programs : BeginProgram(t, v)
      PROVE  Dispatched'
  BY <1>1, <1>3 DEF BeginCall, BeginProgram, DrawCSeq
<1>4. ASSUME BeginUnwaited
      PROVE  Dispatched'
  BY <1>1, <1>4 DEF BeginUnwaited, DrawCSeq
<1>5. ASSUME NEW t \in Threads, BumpCSeq(t) \/ PopDangling(t) \/ InsertEntry(t)
      PROVE  Dispatched'
  <2>1. /\ pc[t] \in {"bump", "pop", "insert"}
        /\ \E p \in {"pop", "insert", "send"} : pc' = [pc EXCEPT ![t] = p]
        /\ UNCHANGED <<call, seq, downlink>>
    BY <1>5 DEF BumpCSeq, PopDangling, InsertEntry
  <2> QED
    BY <1>1, <2>1
<1>6. ASSUME NEW t \in Threads, Send(t)
      PROVE  Dispatched'
  <2>1. PICK q : q = Request(t)
    OBVIOUS
  <2>2. /\ pc[t] = "send" /\ pc' = [pc EXCEPT ![t] = "check"]
        /\ downlink' = downlink \cup {q}
        /\ UNCHANGED <<call, seq>>
    BY <1>6, <2>1 DEF Send
  <2>3. q.txn = IF t = Udp THEN NoTxn ELSE Txn(t)
    BY <2>1 DEF Request
  <2>4. ASSUME NEW m \in downlink', m.txn # NoTxn
        PROVE  \/ m.txn[2] < call'[m.txn[1]]
               \/ (m.txn[2] = call'[m.txn[1]] /\ ~Early(pc'[m.txn[1]]))
    <3>1. CASE m = q
      <4>1. m.txn[1] = t /\ m.txn[2] = call[t]
        BY <2>3, <2>4, <3>1 DEF Txn
      <4> QED
        BY <2>2, <4>1
    <3>2. CASE m \in downlink
      <4>1. \/ m.txn[2] < call[m.txn[1]]
            \/ (m.txn[2] = call[m.txn[1]] /\ ~Early(pc[m.txn[1]]))
        BY <2>4, <3>2 DEF Dispatched, Before
      <4> QED
        BY <2>2, <4>1
    <3> QED
      BY <2>2, <3>1, <3>2
  <2>5. ASSUME NEW u \in Clients, Past(pc'[u])
        PROVE  \E m \in downlink' : m.txn = Txn(u)'
    <3>1. CASE u = t
      BY <2>2, <2>3, <3>1 DEF Txn
    <3>2. CASE u # t
      <4>1. \E m \in downlink : m.txn = Txn(u)
        BY <2>2, <2>5, <3>2 DEF Dispatched
      <4> QED
        BY <2>2, <4>1 DEF Txn
    <3> QED
      BY <3>1, <3>2
  <2>6. ASSUME NEW u \in Threads, Held(pc'[u])
        PROVE  seq'[u] \in CSeqs
    BY <2>2, <2>6 DEF Dispatched
  <2> QED
    BY <2>4, <2>5, <2>6 DEF Dispatched, Before
<1>7. ASSUME NEW t \in Threads, SendRaises(t)
      PROVE  Dispatched'
  <2>1. /\ \E p \in {"idle", "sleep"} : pc' = [pc EXCEPT ![t] = p]
        /\ UNCHANGED <<call, seq, downlink>>
    BY <1>7 DEF SendRaises, Return
  <2> QED
    BY <1>1, <2>1
<1>8. ASSUME NEW t \in Threads,
             \/ CheckEntry(t) \/ CaptureEntry(t)
             \/ WaitSignalled(t) \/ WaitTimesOut(t) \/ DeleteEntry(t)
      PROVE  Dispatched'
  <2>1. /\ Past(pc[t]) /\ UNCHANGED <<call, seq, downlink>>
        /\ Held(pc[t]) \/ (pc[t] = "check" /\ CheckEntry(t))
    BY <1>8 DEF CheckEntry, CaptureEntry, WaitSignalled, WaitTimesOut, DeleteEntry
  <2>2. \E p \in {"capture", "wait", "delete", "idle", "sleep"} :
          pc' = [pc EXCEPT ![t] = p]
    BY <1>8 DEF CheckEntry, CaptureEntry, WaitSignalled, WaitTimesOut, DeleteEntry,
                Return
  <2>3. CheckEntry(t) /\ Held(pc'[t]) => seq[t] \in CSeqs
    <3>1. CheckEntry(t) /\ Held(pc'[t]) => results[seq[t]] # Nil
      BY DEF CheckEntry, Return
    <3> QED
      BY <3>1 DEF Keys
  <2> QED
    BY <1>1, <2>1, <2>2, <2>3
<1>9. ASSUME StoreValue \/ SetEvent \/ Wake \/ \E m \in uplink : ReceiveResponse(m)
      PROVE  Dispatched'
  <2>1. /\ \E p \in {"store", "set", "sleep", "idle"} : pc' = [pc EXCEPT ![Udp] = p]
        /\ UNCHANGED <<call, seq, downlink>>
    BY <1>9 DEF StoreValue, SetEvent, Wake, ReceiveResponse
  <2> QED
    BY <1>1, <2>1
<1>10. ASSUME NEW m \in downlink, DeviceHandles(m)
      PROVE  Dispatched'
  BY <1>2, <1>10 DEF DeviceHandles, local
<1>11. ASSUME UNCHANGED vars
      PROVE  Dispatched'
  BY <1>2, <1>11 DEF vars
<1> QED
  BY <1>3, <1>4, <1>5, <1>6, <1>7, <1>8, <1>9, <1>10, <1>11
  DEF Next, UdpStep, ThreadStep

\* A client whose call has raised sent nothing.
Unsent ==
  \A t \in Clients : Finished(t) /\ Exclusive(t) /\ outcome[t] = Error =>
    \A m \in downlink : m.txn # Txn(t)

\* What a step does to a client that does not take it.
Aloof(t) ==
  /\ pc'[t] = pc[t] /\ call'[t] = call[t] /\ seq'[t] = seq[t]
  /\ outcome'[t] = outcome[t]
  /\ redrawn \subseteq redrawn'
  /\ call[t] > 0 => \A m \in downlink' : m \in downlink \/ m.txn # Txn(t)

LEMMA AloofStep ==
  ASSUME TInv, NEW t \in Clients, [Next]_vars
  PROVE  \/ Aloof(t)
         \/ \E v \in Values : BeginCall(t, v)
         \/ \E v \in Programs : BeginProgram(t, v)
         \/ ThreadStep(t)
<1> USE ControlPlaneAssumption
<1> USE DEF TInv, TypeOK, Threads, obj, dict, net, hist, Aloof
<1>1. ASSUME NEW u \in Threads \ {t}, NEW p, pc' = [pc EXCEPT ![u] = p],
             \A w \in Clients \ {u} : /\ call'[w] = call[w] /\ seq'[w] = seq[w]
                                     /\ outcome'[w] = outcome[w],
             redrawn \subseteq redrawn', downlink' = downlink
      PROVE  Aloof(t)
  BY <1>1
<1>2. ASSUME NEW u \in Clients \ {t},
             \/ \E v \in Values : BeginCall(u, v)
             \/ \E v \in Programs : BeginProgram(u, v)
      PROVE  Aloof(t)
  <2>1. /\ \E p \in {"bump", "send"} : pc' = [pc EXCEPT ![u] = p]
        /\ \E k : seq' = [seq EXCEPT ![u] = k]
        /\ call' = [call EXCEPT ![u] = @ + 1]
        /\ outcome' = [outcome EXCEPT ![u] = Nil]
        /\ redrawn \subseteq redrawn' /\ downlink' = downlink
    BY <1>2 DEF BeginCall, BeginProgram, DrawCSeq
  <2> QED
    BY <1>1, <2>1
<1>3. CASE BeginUnwaited
  <2>1. /\ pc' = [pc EXCEPT ![Udp] = "bump"]
        /\ seq' = [seq EXCEPT ![Udp] = cseq]
        /\ call' = [call EXCEPT ![Udp] = @ + 1]
        /\ outcome' = outcome /\ redrawn \subseteq redrawn' /\ downlink' = downlink
    BY <1>3 DEF BeginUnwaited, DrawCSeq
  <2> QED
    BY <1>1, <2>1
<1>4. ASSUME NEW u \in Threads \ {t},
             \/ BumpCSeq(u) \/ PopDangling(u) \/ InsertEntry(u)
             \/ WaitSignalled(u) \/ WaitTimesOut(u)
      PROVE  Aloof(t)
  <2>1. /\ \E p : pc' = [pc EXCEPT ![u] = p]
        /\ UNCHANGED <<call, seq, outcome, redrawn, downlink>>
    BY <1>4 DEF BumpCSeq, PopDangling, InsertEntry, WaitSignalled, WaitTimesOut
  <2> QED
    BY <1>1, <2>1
<1>5. ASSUME NEW u \in Threads \ {t},
             \/ SendRaises(u) \/ CheckEntry(u) \/ CaptureEntry(u) \/ DeleteEntry(u)
      PROVE  Aloof(t)
  <2>1. /\ \E p : pc' = [pc EXCEPT ![u] = p]
        /\ outcome' = outcome \/ \E v : outcome' = [outcome EXCEPT ![u] = v]
        /\ UNCHANGED <<call, seq, redrawn, downlink>>
    BY <1>5 DEF SendRaises, CheckEntry, CaptureEntry, DeleteEntry, Return
  <2>2. \A w \in Clients \ {u} : outcome'[w] = outcome[w]
    BY <2>1
  <2> QED
    BY <1>1, <2>1, <2>2
<1>6. ASSUME NEW u \in Threads \ {t}, Send(u)
      PROVE  Aloof(t)
  <2>1. PICK q : q = Request(u)
    OBVIOUS
  <2>2. /\ pc' = [pc EXCEPT ![u] = "check"]
        /\ downlink' = downlink \cup {q}
        /\ UNCHANGED <<call, seq, outcome, redrawn>>
    BY <1>6, <2>1 DEF Send
  <2>3. call[t] > 0 => q.txn # Txn(t)
    <3>1. CASE u = Udp
      <4>1. q.txn = NoTxn
        BY <2>1, <3>1 DEF Request
      <4>2. call[t] > 0 => Txn(t) \in Txns
        BY DEF Txn, Txns
      <4> QED
        BY <4>1, <4>2 DEF Txns
    <3>2. CASE u # Udp
      <4>1. q.txn = <<u, call[u]>>
        BY <2>1, <3>2 DEF Request, Txn
      <4> QED
        BY <4>1 DEF Txn
    <3> QED
      BY <3>1, <3>2
  <2> QED
    BY <2>2, <2>3
<1>7. CASE StoreValue \/ SetEvent \/ Wake \/ \E m \in uplink : ReceiveResponse(m)
  <2>1. /\ \E p : pc' = [pc EXCEPT ![Udp] = p]
        /\ UNCHANGED <<call, seq, outcome, redrawn, downlink>>
    BY <1>7 DEF StoreValue, SetEvent, Wake, ReceiveResponse
  <2> QED
    BY <1>1, <2>1
<1>8. CASE UNCHANGED vars \/ \E m \in downlink : DeviceHandles(m)
  BY <1>8 DEF vars, DeviceHandles, local
<1> QED
  BY <1>2, <1>3, <1>4, <1>5, <1>6, <1>7, <1>8 DEF Next, UdpStep, ThreadStep

\* A send that raises has sent nothing; WaitCSeq finds the entry of a call that
\* has its number to itself, and does not raise.
LEMMA UnsentNext ==
  IInv /\ Dispatched /\ Unsent /\ [Next]_vars => Unsent'
<1> SUFFICES ASSUME IInv, Dispatched, Unsent, [Next]_vars,
                    NEW t \in Clients, (Finished(t) /\ Exclusive(t) /\ outcome[t] = Error)',
                    NEW m \in downlink'
             PROVE  m.txn # Txn(t)'
  BY DEF Unsent
<1> USE ControlPlaneAssumption
<1> USE DEF IInv, TInv
<1>0. t \in Threads /\ t # Udp /\ pc'[t] = "idle"
  BY DEF Threads, Finished
<1>1. CASE Aloof(t)
  <2>1. Finished(t) /\ Exclusive(t) /\ outcome[t] = Error /\ Txn(t)' = Txn(t)
    BY <1>1 DEF Aloof, Finished, Exclusive, Txn
  <2>2. call[t] > 0
    BY <2>1 DEF Finished
  <2>3. m \in downlink \/ m.txn # Txn(t)
    BY <1>1, <2>2 DEF Aloof
  <2> QED
    BY <2>1, <2>3 DEF Unsent
<1>2. ~\E v \in Values : BeginCall(t, v)
  BY <1>0 DEF BeginCall, DrawCSeq, TypeOK
<1>3. ~\E v \in Programs : BeginProgram(t, v)
  BY <1>0, Zenon DEF BeginProgram, TypeOK
<1>4. ~(\/ BumpCSeq(t) \/ PopDangling(t) \/ InsertEntry(t) \/ Send(t)
        \/ WaitSignalled(t) \/ WaitTimesOut(t))
  <2>1. ~(\E p \in {"pop", "insert", "send", "check", "delete"} : pc' = [pc EXCEPT ![t] = p])
    BY <1>0 DEF TypeOK
  <2> QED
    BY <1>0, <2>1 DEF BumpCSeq, PopDangling, InsertEntry, Send, WaitSignalled, WaitTimesOut
<1>5. CASE SendRaises(t)
  <2>1. pc[t] = "send" /\ downlink' = downlink /\ call' = call
    BY <1>5 DEF SendRaises, net
  <2>2. ASSUME m.txn = Txn(t)
        PROVE  FALSE
    <3>1. call[t] \in 1..MaxCalls
      BY <1>0, <2>1 DEF TypeOK, Steps
    <3>2. m.txn # NoTxn /\ m.txn[1] = t /\ m.txn[2] = call[t]
      BY <2>2, <3>1 DEF Txn
    <3> QED
      BY <2>1, <3>1, <3>2 DEF Dispatched
  <2> QED
    BY <2>1, <2>2 DEF Txn
<1>6. CASE CheckEntry(t) \/ CaptureEntry(t) \/ DeleteEntry(t)
  <2>1. UNCHANGED <<seq, call, redrawn>>
    BY <1>6 DEF CheckEntry, CaptureEntry, DeleteEntry, hist
  <2>2. pc[t] \in {"check", "capture", "delete"} /\ Exclusive(t)
    BY <1>6, <2>1 DEF CheckEntry, CaptureEntry, DeleteEntry, Exclusive
  <2>3. results[seq[t]] = Txn(t)
    BY <2>2 DEF OpenCallIsRegistered, Open
  <2>4. Txn(t) # Nil
    <3>1. call[t] \in 1..MaxCalls
      BY <1>0, <2>2 DEF TypeOK, Steps
    <3> QED
      BY <3>1 DEF Txn
  <2>5. ~CheckEntry(t) /\ ~CaptureEntry(t)
    <3>1. CheckEntry(t) => pc' = [pc EXCEPT ![t] = "capture"]
      BY <2>3, <2>4 DEF CheckEntry
    <3>2. CaptureEntry(t) => pc' = [pc EXCEPT ![t] = "wait"]
      BY <2>3, <2>4 DEF CaptureEntry
    <3> QED
      BY <1>0, <3>1, <3>2 DEF TypeOK
  <2>6. DeleteEntry(t) => outcome' = [outcome EXCEPT ![t] = val[ref[t]]]
    BY <1>0, <2>3, <2>4 DEF DeleteEntry, Return
  <2>7. DeleteEntry(t) => ref[t] \in Txns
    BY <1>0 DEF DeleteEntry
  <2>8. Error \notin Answers
    BY DEF Answers, Values
  <2>9. ref[t] \in Txns => val[ref[t]] \in Answers
    BY DEF TypeOK
  <2> QED
    BY <1>6, <2>5, <2>6, <2>7, <2>8, <2>9 DEF TypeOK
<1> QED
  BY <1>1, <1>2, <1>3, <1>4, <1>5, <1>6, AloofStep DEF ThreadStep

\* A call whose number was drawn once ends with its own value, applied by the
\* device, or with None; if it raises, nothing was sent.
THEOREM ExclusiveAnswerAlways == Spec => []ExclusiveAnswer
<1>1. Init => Dispatched /\ Unsent
  BY DEF Init, Dispatched, Unsent, Threads
<1>2. IInv /\ Unsent => ExclusiveAnswer
  <2> SUFFICES ASSUME IInv, Unsent, NEW t \in Clients, Finished(t), Exclusive(t)
               PROVE  /\ outcome[t] \in {ask[t], Nil, Error}
                      /\ outcome[t] = ask[t] => Txn(t) \in applied
                      /\ outcome[t] = Error => \A m \in downlink : m.txn # Txn(t)
    BY DEF ExclusiveAnswer
  <2>1. ask[t] \notin {Nil, Error}
    BY ControlPlaneAssumption DEF IInv, TInv, Finished, Values
  <2> QED
    BY <2>1, ControlPlaneAssumption DEF IInv, OwnEntry, Finished, Before, Unsent
<1>3. IInv => TInv
  BY DEF IInv
<1> QED
  BY <1>1, <1>2, <1>3, IInvAlways, DispatchedNext, UnsentNext, PTL DEF Spec

\* The state of ControlCall as the mapping sees it.
Busy == [t \in Clients |-> pc[t] # "idle"]
Nth  == [t \in Clients |-> call[t]]
Sent == {m.txn : m \in downlink} \ {NoTxn}
Done == applied \ {NoTxn}

\* Steps the caller does not see.
LEMMA Unseen ==
  ASSUME Busy' = Busy, Nth' = Nth, Sent' = Sent, Done' = Done, UNCHANGED <<ask, outcome>>
  PROVE  UNCHANGED Call!vars
  BY DEF Busy, Nth, Sent, Done, Call!vars

\* A thread goes on inside its call.
LEMMA GoesOn ==
  ASSUME TypeOK, NEW t \in Threads,
         \/ t = Udp
         \/ (pc[t] # "idle" /\ pc'[t] # "idle"),
         pc' = [pc EXCEPT ![t] = pc'[t]],
         \A u \in Clients : call'[u] = call[u],
         UNCHANGED <<ask, outcome, downlink, applied>>
  PROVE  UNCHANGED Call!vars
<1>1. \A u \in Clients : pc'[u] # "idle" <=> pc[u] # "idle"
  BY ControlPlaneAssumption DEF TypeOK, Threads
<1>2. Busy' = Busy
  BY <1>1 DEF Busy
<1>3. Nth' = Nth /\ Sent' = Sent /\ Done' = Done
  BY DEF Nth, Sent, Done
<1> QED
  BY <1>2, <1>3, Unseen

\* A client's call ends with v.
LEMMA Ends ==
  ASSUME TypeOK, NEW t \in Clients, NEW v, pc[t] # "idle", Return(t, v),
         UNCHANGED <<call, ask, downlink, applied>>
  PROVE  Call!End(t, v)
<1>1. /\ pc' = [pc EXCEPT ![t] = "idle"]
      /\ outcome' = [outcome EXCEPT ![t] = v]
  BY ControlPlaneAssumption DEF Return
<1>2. Busy[t] /\ Busy' = [Busy EXCEPT ![t] = FALSE]
  BY <1>1, Zenon DEF Busy, TypeOK, Threads
<1>3. Nth' = Nth /\ Sent' = Sent /\ Done' = Done
  BY DEF Nth, Sent, Done
<1> QED
  BY <1>1, <1>2, <1>3 DEF Call!End, Busy, Nth, Sent, Done

\* A call that has been sent may give up.
LEMMA GivesUp ==
  ASSUME TInv, Dispatched, NEW t \in Clients,
         pc[t] \in {"check", "capture", "wait", "delete"}, Call!End(t, Nil)
  PROVE  Call!GaveUp(t)
<1>1. PICK m \in downlink : m.txn = Txn(t)
  BY DEF Dispatched
<1>2. Txn(t) # NoTxn
  <2>1. call[t] \in 1..MaxCalls
    BY DEF TInv, TypeOK, Steps, Threads
  <2>2. Txn(t) \in Txns
    BY <2>1 DEF Txns, Txn
  <2> QED
    BY <2>2, ControlPlaneAssumption DEF Txns
<1> QED
  BY <1>1, <1>2 DEF Call!GaveUp, Nth, Sent, Txn

\* A call that returns from WaitCSeq: its own entry is there, and holds Nil or
\* the value it asked for, which the device then has applied.
LEMMA Returns ==
  ASSUME IInv, Dispatched, Undisturbed, NEW t \in Clients, DeleteEntry(t)
  PROVE  Call!GaveUp(t) \/ Call!Confirmed(t)
<1>1. pc[t] = "delete" /\ t \in Threads /\ call[t] > 0
  BY DEF DeleteEntry, IInv, TInv, Threads, Steps
<1>2. Exclusive(t)
  BY <1>1 DEF Dispatched, Undisturbed, Exclusive
<1>3. results[seq[t]] = Txn(t) /\ ref[t] = Txn(t)
  BY <1>1, <1>2 DEF IInv, OpenCallIsRegistered, Open, OwnEntry, Waiting
<1>4. /\ val[Txn(t)] \in {Nil, ask[t]}
      /\ val[Txn(t)] = ask[t] => Txn(t) \in applied
  BY <1>1, <1>2 DEF IInv, OwnEntry, Before
<1>5. Txn(t) \in Txns /\ Txn(t) # Nil /\ Txn(t) # NoTxn
  <2>1. call[t] \in 1..MaxCalls
    BY <1>1 DEF IInv, TInv, TypeOK
  <2> QED
    BY <2>1, ControlPlaneAssumption DEF Txn, Txns
<1>6. PICK v : v = val[Txn(t)]
  OBVIOUS
<1>7. Return(t, v) /\ UNCHANGED <<call, ask, downlink, applied>>
  BY <1>3, <1>5, <1>6 DEF DeleteEntry, net
<1>8. Call!End(t, v)
  BY <1>1, <1>7, Ends DEF IInv, TInv
<1>9. CASE v = Nil
  BY <1>1, <1>8, <1>9, GivesUp DEF IInv
<1>10. CASE v = ask[t]
  <2>1. Call!End(t, ask[t])
    BY <1>8, <1>10 DEF Call!End
  <2>2. Txn(t) \in Done
    BY <1>4, <1>5, <1>6, <1>10 DEF Done
  <2> QED
    BY <2>1, <2>2 DEF Call!Confirmed, Nth, Done, Txn
<1> QED
  BY <1>4, <1>6, <1>9, <1>10

\* A client begins a call.
LEMMA Begins ==
  ASSUME TypeOK, NEW t \in Clients, NEW v, pc[t] = "idle", call[t] < MaxCalls,
         pc' = [pc EXCEPT ![t] = pc'[t]], pc'[t] # "idle",
         call' = [call EXCEPT ![t] = @ + 1],
         ask' = [ask EXCEPT ![t] = v], outcome' = [outcome EXCEPT ![t] = Nil],
         UNCHANGED <<downlink, applied>>
  PROVE  Call!Begin(t, v)
<1>1. ~Busy[t] /\ Busy' = [Busy EXCEPT ![t] = TRUE]
  BY Zenon DEF Busy, TypeOK, Threads
<1>2. Nth[t] < MaxCalls /\ Nth' = [Nth EXCEPT ![t] = @ + 1]
  BY DEF Nth, TypeOK, Threads
<1>3. Sent' = Sent /\ Done' = Done
  BY DEF Sent, Done
<1> QED
  BY <1>1, <1>2, <1>3 DEF Call!Begin, Busy, Nth, Sent, Done

\* A client's request leaves.
LEMMA Leaves ==
  ASSUME TInv, NEW t \in Clients, Send(t)
  PROVE  Call!Send(t)
<1>1. PICK q : q = Request(t)
  OBVIOUS
<1>2. /\ pc[t] = "send" /\ pc' = [pc EXCEPT ![t] = "check"]
      /\ ask[t] \in Encodable
      /\ downlink' = downlink \cup {q}
      /\ UNCHANGED <<call, ask, outcome, applied>>
  BY <1>1 DEF Send, net
<1>3. q.txn = Txn(t)
  BY <1>1, ControlPlaneAssumption DEF Request
<1>4. Txn(t) # NoTxn
  <2>1. call[t] \in 1..MaxCalls
    BY <1>2 DEF TInv, TypeOK, Threads, Steps
  <2> QED
    BY <2>1, ControlPlaneAssumption DEF Txn
<1>5. Sent' = Sent \cup {Txn(t)}
  BY <1>2, <1>3, <1>4 DEF Sent
<1>6. Busy[t] /\ Busy' = Busy
  BY <1>2, Zenon DEF Busy, TInv, TypeOK, Threads
<1>7. Nth' = Nth /\ Done' = Done /\ Txn(t) = <<t, Nth[t]>>
  BY <1>2 DEF Nth, Done, Txn
<1> QED
  BY <1>2, <1>5, <1>6, <1>7 DEF Call!Send, Busy, Nth, Sent, Done

\* A send that raises: its request has not left.
LEMMA Raises ==
  ASSUME TInv, Dispatched, NEW t \in Clients, SendRaises(t)
  PROVE  Call!Raised(t)
<1>1. /\ pc[t] = "send" /\ Return(t, Error)
      /\ UNCHANGED <<call, ask, downlink, applied>>
  BY DEF SendRaises, net
<1>2. Call!End(t, Error)
  BY <1>1, Ends DEF TInv
<1>3. Txn(t) \notin Sent
  <2> SUFFICES ASSUME NEW m \in downlink, m.txn = Txn(t), m.txn # NoTxn
               PROVE  FALSE
    BY DEF Sent
  <2>1. m.txn[1] = t /\ m.txn[2] = call[t] /\ call[t] \in Nat
    BY DEF Txn, TInv, TypeOK
  <2> QED
    BY <1>1, <2>1 DEF Dispatched
<1> QED
  BY <1>1, <1>2, <1>3 DEF Call!Raised, Nth, Sent, Txn

\* While no call under way shares its number, every step is one of ControlCall
\* or one the caller does not see.
LEMMA CallStep ==
  ASSUME IInv, Dispatched, Undisturbed, [Next]_vars
  PROVE  Call!Next \/ UNCHANGED Call!vars
<1> USE ControlPlaneAssumption
<1> USE DEF IInv, TInv
<1>1. ASSUME NEW t \in Clients, NEW v \in Values, BeginCall(t, v)
      PROVE  Call!Begin(t, v)
  <2>1. /\ pc[t] = "idle" /\ call[t] < MaxCalls
        /\ pc' = [pc EXCEPT ![t] = "bump"]
        /\ call' = [call EXCEPT ![t] = @ + 1]
        /\ ask' = [ask EXCEPT ![t] = v] /\ outcome' = [outcome EXCEPT ![t] = Nil]
        /\ UNCHANGED <<downlink, applied>>
    BY <1>1 DEF BeginCall, DrawCSeq, net
  <2> QED
    BY <2>1, Begins DEF TypeOK, Threads
<1>2. ASSUME NEW t \in Clients, NEW v \in Programs, BeginProgram(t, v)
      PROVE  Call!Begin(t, v) /\ v \in Values
  <2>1. /\ pc[t] = "idle" /\ call[t] < MaxCalls
        /\ pc' = [pc EXCEPT ![t] = "send"]
        /\ call' = [call EXCEPT ![t] = @ + 1]
        /\ ask' = [ask EXCEPT ![t] = v] /\ outcome' = [outcome EXCEPT ![t] = Nil]
        /\ UNCHANGED <<downlink, applied>>
    BY <1>2 DEF BeginProgram, net
  <2> QED
    BY <2>1, Begins DEF TypeOK, Threads, Values
<1>3. ASSUME BeginUnwaited
      PROVE  UNCHANGED Call!vars
  <2>1. /\ pc' = [pc EXCEPT ![Udp] = "bump"] /\ call' = [call EXCEPT ![Udp] = @ + 1]
        /\ UNCHANGED <<ask, outcome, downlink, applied>>
    BY <1>3 DEF BeginUnwaited, DrawCSeq, net
  <2> QED
    BY <2>1, GoesOn DEF TypeOK, Threads
<1>4. ASSUME NEW t \in Threads, BumpCSeq(t) \/ PopDangling(t) \/ InsertEntry(t)
      PROVE  UNCHANGED Call!vars
  <2>1. /\ pc[t] \in {"bump", "pop", "insert"}
        /\ \E p \in {"pop", "insert", "send"} : pc' = [pc EXCEPT ![t] = p]
        /\ UNCHANGED <<call, ask, outcome, downlink, applied>>
    BY <1>4 DEF BumpCSeq, PopDangling, InsertEntry, net
  <2>2. pc[t] # "idle" /\ pc'[t] # "idle" /\ pc' = [pc EXCEPT ![t] = pc'[t]]
    BY <2>1 DEF TypeOK
  <2> QED
    BY <2>1, <2>2, GoesOn
<1>5. ASSUME Send(Udp)
      PROVE  UNCHANGED Call!vars
  <2>1. PICK q : q = Request(Udp)
    OBVIOUS
  <2>2. /\ pc' = [pc EXCEPT ![Udp] = "check"] /\ downlink' = downlink \cup {q}
        /\ UNCHANGED <<call, ask, outcome, applied>>
    BY <1>5, <2>1 DEF Send, net
  <2>3. q.txn = NoTxn
    BY <2>1 DEF Request
  <2>4. Sent' = Sent
    BY <2>2, <2>3 DEF Sent
  <2>5. Busy' = Busy
    BY <2>2 DEF Busy, TypeOK, Threads
  <2>6. Nth' = Nth /\ Done' = Done
    BY <2>2 DEF Nth, Done
  <2> QED
    BY <2>2, <2>4, <2>5, <2>6, Unseen
<1>6. ASSUME NEW t \in Clients, CheckEntry(t)
      PROVE  UNCHANGED Call!vars \/ Call!GaveUp(t)
  <2>1. CASE results[seq[t]] # Nil
    <3>1. /\ pc[t] = "check" /\ pc' = [pc EXCEPT ![t] = "capture"]
          /\ UNCHANGED <<call, ask, outcome, downlink, applied>>
      BY <1>6, <2>1 DEF CheckEntry, net
    <3> QED
      BY <3>1, GoesOn DEF TypeOK, Threads
  <2>2. CASE results[seq[t]] = Nil
    <3>1. /\ pc[t] = "check" /\ Return(t, Nil)
          /\ UNCHANGED <<call, ask, downlink, applied>>
      BY <1>6, <2>2 DEF CheckEntry, net
    <3> QED
      BY <3>1, Ends, GivesUp
  <2> QED
    BY <2>1, <2>2
<1>7. ASSUME NEW t \in Clients, CaptureEntry(t)
      PROVE  UNCHANGED Call!vars
  <2>1. pc[t] = "capture" /\ Exclusive(t) /\ t \in Threads
    BY <1>7 DEF CaptureEntry, Dispatched, Undisturbed, Exclusive, Threads
  <2>2. results[seq[t]] = Txn(t)
    BY <2>1 DEF OpenCallIsRegistered, Open
  <2>3. Txn(t) # Nil
    <3>1. call[t] \in 1..MaxCalls
      BY <2>1 DEF TypeOK, Steps
    <3> QED
      BY <3>1 DEF Txn
  <2>4. /\ pc' = [pc EXCEPT ![t] = "wait"]
        /\ UNCHANGED <<call, ask, outcome, downlink, applied>>
    BY <1>7, <2>2, <2>3 DEF CaptureEntry, net
  <2> QED
    BY <2>1, <2>4, GoesOn DEF TypeOK
<1>8. ASSUME NEW t \in Threads, WaitSignalled(t) \/ WaitTimesOut(t)
      PROVE  UNCHANGED Call!vars
  <2>1. /\ pc[t] = "wait" /\ pc' = [pc EXCEPT ![t] = "delete"]
        /\ UNCHANGED <<call, ask, outcome, downlink, applied>>
    BY <1>8, WaitEffect
  <2> QED
    BY <2>1, GoesOn DEF TypeOK
<1>9. ASSUME \/ CheckEntry(Udp) \/ CaptureEntry(Udp) \/ DeleteEntry(Udp) \/ SendRaises(Udp)
             \/ StoreValue \/ SetEvent \/ Wake \/ \E m \in uplink : ReceiveResponse(m)
      PROVE  UNCHANGED Call!vars
  <2>1. /\ \E p : pc' = [pc EXCEPT ![Udp] = p]
        /\ UNCHANGED <<call, ask, outcome, downlink, applied>>
    BY <1>9 DEF CheckEntry, CaptureEntry, DeleteEntry, SendRaises, StoreValue, SetEvent,
                Wake, ReceiveResponse, Return, net
  <2> QED
    BY <2>1, GoesOn DEF TypeOK, Threads
<1>10. ASSUME NEW m \in downlink, DeviceHandles(m)
       PROVE  UNCHANGED Call!vars \/ \E x \in Call!Txns : Call!Apply(x)
  <2>1. /\ applied' = applied \cup {m.txn}
        /\ UNCHANGED <<pc, call, ask, outcome, downlink>>
    BY <1>10 DEF DeviceHandles, local
  <2>2. Busy' = Busy /\ Nth' = Nth /\ Sent' = Sent
    BY <2>1 DEF Busy, Nth, Sent
  <2>3. CASE m.txn = NoTxn
    <3>1. Done' = Done
      BY <2>1, <2>3 DEF Done
    <3> QED
      BY <2>1, <2>2, <3>1, Unseen
  <2>4. CASE m.txn # NoTxn
    <3>1. m.txn \in Sent /\ m.txn \in Call!Txns
      BY <2>4, RequestOf DEF Sent, Txns, Call!Txns
    <3>2. Done' = Done \cup {m.txn}
      BY <2>1, <2>4 DEF Done
    <3>3. Call!Apply(m.txn)
      BY <2>1, <2>2, <3>1, <3>2 DEF Call!Apply, Busy, Nth, Sent, Done
    <3> QED
      BY <3>1, <3>3
  <2> QED
    BY <2>3, <2>4
<1>11. ASSUME UNCHANGED vars
       PROVE  UNCHANGED Call!vars
  BY <1>11, Unseen DEF vars, Busy, Nth, Sent, Done
<1>12. Call!Values = Values
  BY DEF Call!Values, Values
<1>13. ASSUME NEW t \in Clients, ThreadStep(t)
       PROVE  Call!Next \/ UNCHANGED Call!vars
  <2>1. t \in Threads
    BY DEF Threads
  <2> QED
    BY <1>4, <1>6, <1>7, <1>8, <1>13, <2>1, Leaves, Raises, Returns
    DEF ThreadStep, Call!Next
<1>14. ASSUME UdpStep
       PROVE  UNCHANGED Call!vars
  <2>1. Udp \in Threads
    BY DEF Threads
  <2> QED
    BY <1>4, <1>5, <1>8, <1>9, <1>14, <2>1 DEF UdpStep, ThreadStep
<1> QED
  BY <1>1, <1>2, <1>3, <1>9, <1>10, <1>11, <1>12, <1>13, <1>14 DEF Next, Call!Next

\* The empty dict maps to no call begun.
LEMMA CallInit == Init => Call!Init
<1> SUFFICES ASSUME Init PROVE Call!Init
  OBVIOUS
<1>1. Busy = [t \in Clients |-> FALSE] /\ Nth = [t \in Clients |-> 0]
  BY DEF Init, Busy, Nth, Threads
<1>2. Sent = {} /\ Done = {}
  BY DEF Init, Sent, Done
<1> QED
  BY <1>1, <1>2 DEF Init, Call!Init, Busy, Nth, Sent, Done

\* Callers are told the truth: as long as no call under way shares its number
\* with another, however many threads send, responses come late, twice, out of
\* order or never and the counter wraps, a call ends with its value only if the
\* device has applied it, gives up only after its request was sent, and raises
\* only if it was not.
THEOREM CallsKeepPromise == Spec /\ []Undisturbed => Call!Safety
<1>1. Init => Dispatched
  BY DEF Init, Dispatched, Threads
<1>2. IInv => TInv
  BY DEF IInv
<1>3. IInv /\ Dispatched /\ Undisturbed /\ [Next]_vars => [Call!Next]_(Call!vars)
  BY CallStep
<1> QED
  BY IInvAlways, CallInit, DispatchedNext, <1>1, <1>2, <1>3, PTL DEF Spec, Call!Safety

-----------------------------------------------------------------------------
(* One caller alone, before the counter wraps.                             *)

\* The counter is above every number handed out, or all calls have been made.
Serial(c) ==
  /\ redrawn = {}
  /\ pc[Udp] \notin {"bump", "pop", "insert"}
  /\ IF pc[c] = "bump"
     THEN seq[c] = cseq /\ cseq < call[c] /\ drawn \subseteq 0..cseq
     ELSE call[c] = MaxCSeq + 1 \/ (cseq <= call[c] /\ drawn \subseteq 0..cseq - 1)

\* Nobody else draws a number.
LEMMA SerialNext ==
  ASSUME NEW c, Clients = {c}, MaxUnwaited = 0, MaxCalls <= MaxCSeq + 1,
         TInv, Serial(c), [Next]_vars
  PROVE  Serial(c)'
<1> USE ControlPlaneAssumption
<1> USE DEF TInv
<1>0. /\ c # Udp /\ c \in Clients /\ c \in Threads /\ Udp \in Threads
      /\ call[c] \in 0..MaxCalls /\ cseq \in 0..MaxCSeq
      /\ call[Udp] \in Nat
  BY DEF TypeOK, Threads, CSeqs
<1>1. ASSUME NEW v \in Values, BeginCall(c, v)
      PROVE  Serial(c)'
  <2>1. /\ pc[c] = "idle" /\ call[c] < MaxCalls
        /\ call' = [call EXCEPT ![c] = @ + 1]
        /\ seq' = [seq EXCEPT ![c] = cseq]
        /\ pc' = [pc EXCEPT ![c] = "bump"]
        /\ redrawn' = redrawn \cup (drawn \cap {cseq})
        /\ drawn' = drawn \cup {cseq}
        /\ cseq' = cseq
    BY <1>0, <1>1 DEF BeginCall, DrawCSeq, dict
  <2>2. cseq <= call[c] /\ drawn \subseteq 0..cseq - 1
    BY <1>0, <2>1 DEF Serial
  <2>3. redrawn' = {}
    BY <1>0, <2>1, <2>2 DEF Serial
  <2>4. seq'[c] = cseq' /\ cseq' < call'[c] /\ drawn' \subseteq 0..cseq'
    BY <1>0, <2>1, <2>2 DEF TypeOK
  <2>5. pc'[c] = "bump" /\ pc'[Udp] = pc[Udp]
    BY <1>0, <2>1 DEF TypeOK
  <2> QED
    BY <2>3, <2>4, <2>5 DEF Serial
<1>2. ASSUME NEW v \in Programs, BeginProgram(c, v)
      PROVE  Serial(c)'
  <2>1. /\ pc[c] = "idle" /\ call[c] < MaxCalls
        /\ call' = [call EXCEPT ![c] = @ + 1]
        /\ pc' = [pc EXCEPT ![c] = "send"]
        /\ UNCHANGED <<cseq, drawn, redrawn>>
    BY <1>0, <1>2 DEF BeginProgram, dict, hist
  <2>2. cseq <= call[c] /\ drawn \subseteq 0..cseq - 1
    BY <1>0, <2>1 DEF Serial
  <2>3. call'[c] = call[c] + 1 /\ pc'[c] = "send" /\ pc'[Udp] = pc[Udp]
    BY <1>0, <2>1 DEF TypeOK
  <2> QED
    BY <1>0, <2>1, <2>2, <2>3 DEF Serial
<1>3. ~BeginUnwaited
  BY <1>0 DEF BeginUnwaited, DrawCSeq
<1>4. ASSUME BumpCSeq(c)
      PROVE  Serial(c)'
  <2>1. /\ pc[c] = "bump" /\ pc' = [pc EXCEPT ![c] = "pop"]
        /\ cseq' = IF seq[c] + 1 > MaxCSeq THEN 0 ELSE seq[c] + 1
        /\ UNCHANGED <<call, drawn, redrawn>>
    BY <1>4 DEF BumpCSeq, hist
  <2>2. seq[c] = cseq /\ cseq < call[c] /\ drawn \subseteq 0..cseq
    BY <2>1 DEF Serial
  <2>3. pc'[c] = "pop" /\ pc'[Udp] = pc[Udp]
    BY <1>0, <2>1 DEF TypeOK
  <2>4. call[c] = MaxCSeq + 1 \/ (cseq' = cseq + 1 /\ cseq + 1 <= call[c])
    BY <1>0, <2>1, <2>2
  <2>5. cseq' = cseq + 1 => drawn \subseteq 0..cseq' - 1
    BY <1>0, <2>2
  <2> QED
    BY <2>1, <2>3, <2>4, <2>5 DEF Serial
<1>5. ASSUME UNCHANGED <<cseq, call, seq, drawn, redrawn>>,
             NEW t \in Threads, NEW p, pc' = [pc EXCEPT ![t] = p],
             p \notin {"bump", "pop", "insert"} \/ (t = c /\ p # "bump"),
             t = c => pc[c] # "bump"
      PROVE  Serial(c)'
  <2>1. (pc'[c] = "bump") <=> (pc[c] = "bump")
    BY <1>0, <1>5 DEF TypeOK
  <2>2. pc'[Udp] \notin {"bump", "pop", "insert"}
    BY <1>0, <1>5 DEF Serial, TypeOK
  <2> QED
    BY <1>5, <2>1, <2>2 DEF Serial
<1>6. ASSUME NEW t \in Threads, PopDangling(t) \/ InsertEntry(t) \/ BumpCSeq(t)
      PROVE  t = c
  BY <1>6 DEF PopDangling, InsertEntry, BumpCSeq, Serial, Threads
<1>7. ASSUME PopDangling(c) \/ InsertEntry(c)
      PROVE  Serial(c)'
  <2>1. /\ pc[c] # "bump" /\ \E p \in {"insert", "send"} : pc' = [pc EXCEPT ![c] = p]
        /\ UNCHANGED <<cseq, call, seq, drawn, redrawn>>
    BY <1>7 DEF PopDangling, InsertEntry, hist
  <2> QED
    BY <1>0, <1>5, <2>1
<1>8. ASSUME NEW t \in Threads,
             \/ Send(t) \/ CheckEntry(t) \/ CaptureEntry(t) \/ WaitSignalled(t)
             \/ WaitTimesOut(t) \/ DeleteEntry(t) \/ SendRaises(t)
      PROVE  Serial(c)'
  <2>1. /\ pc[t] # "bump"
        /\ \E p \in {"check", "capture", "wait", "delete", "idle", "sleep"} :
             pc' = [pc EXCEPT ![t] = p]
        /\ UNCHANGED <<cseq, call, seq, drawn, redrawn>>
    BY <1>8 DEF Send, CheckEntry, CaptureEntry, WaitSignalled, WaitTimesOut,
                DeleteEntry, SendRaises, Return, dict, hist
  <2> QED
    BY <1>5, <2>1
<1>9. ASSUME StoreValue \/ SetEvent \/ Wake \/ \E m \in uplink : ReceiveResponse(m)
      PROVE  Serial(c)'
  <2>1. /\ \E p \in {"store", "set", "sleep", "idle"} : pc' = [pc EXCEPT ![Udp] = p]
        /\ UNCHANGED <<cseq, call, seq, drawn, redrawn>>
    BY <1>9 DEF StoreValue, SetEvent, Wake, ReceiveResponse, dict, hist
  <2> QED
    BY <1>0, <1>5, <2>1
<1>10. ASSUME UNCHANGED vars \/ \E m \in downlink : DeviceHandles(m)
       PROVE  Serial(c)'
  <2>1. UNCHANGED <<pc, cseq, call, seq, drawn, redrawn>>
    BY <1>10 DEF vars, DeviceHandles, dict, local, hist
  <2> QED
    BY <2>1 DEF Serial
<1>11. ASSUME NEW t \in Threads, ThreadStep(t)
       PROVE  Serial(c)'
  BY <1>4, <1>6, <1>7, <1>8, <1>11 DEF ThreadStep
<1> QED
  BY <1>0, <1>1, <1>2, <1>3, <1>9, <1>10, <1>11 DEF Next, UdpStep

\* The surroundings of the run cp_serial, for every MAX_CSEQ and number of calls
\* up to the first wrap: a single caller is told the truth.
THEOREM SingleCallKeepsPromise ==
  ASSUME NEW c, Clients = {c}, MaxUnwaited = 0, MaxCalls <= MaxCSeq + 1
  PROVE  Spec => Call!Safety
<1>1. Init => Serial(c)
  BY ControlPlaneAssumption DEF Init, Serial, Threads
<1>2. TInv /\ Serial(c) /\ [Next]_vars => Serial(c)'
  BY SerialNext
<1>3. IInv => TInv
  BY DEF IInv
<1>4. Serial(c) => Undisturbed
  BY DEF Serial, Undisturbed
<1> QED
  BY IInvAlways, CallsKeepPromise, <1>1, <1>2, <1>3, <1>4, PTL DEF Spec
=============================================================================
