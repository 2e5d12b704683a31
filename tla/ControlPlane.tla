---------------------------- MODULE ControlPlane ----------------------------
(***************************************************************************)
(* Control-plane transactions of the BeSIM UDP server: how a request sent  *)
(* to the thermostat gateway is numbered (NextCSeq), how the thread that   *)
(* sent it waits for the answer (WaitCSeq) and how the UDP thread hands    *)
(* the answer over (SignalCSeq).                                           *)
(*                                                                         *)
(* The threads share device["cseq"] and device["results"] without a lock,  *)
(* so every access to either is a step of its own.  A REST handler or a    *)
(* fake-boost thread is a member of Clients; Udp is the UdpServer thread,  *)
(* which receives every datagram and also sends with wait=0.  One device   *)
(* (one wifi box) is modelled; devices share nothing.                      *)
(*                                                                         *)
(* The network is UDP: a datagram once sent stays in downlink / uplink, so *)
(* it may be delivered late, again, out of order, or never.                *)
(***************************************************************************)
EXTENDS Integers

CONSTANTS
  Clients,    \* threads that call send_*(..., wait=1)
  Udp,        \* the UdpServer thread
  MaxCSeq,    \* MAX_CSEQ, the last number before the counter wraps
  MaxCalls,   \* bound: calls one client makes
  MaxUnwaited,\* bound: sends of the UDP thread
  Encodable,  \* values that fit the field of the message
  Oversized,  \* values struct.pack refuses
  Programs,   \* values a day's program is set to
  NoTxn,      \* marks a message no client asked for
  Nil,        \* Python's None, and the absence of a dict entry
  Error,      \* the call ended with an exception
  ProgValue   \* the constant a GET_PROG response signals

ASSUME ControlPlaneAssumption ==
  /\ Udp \notin Clients
  /\ MaxCSeq \in Nat
  /\ MaxCalls \in Nat
  /\ MaxUnwaited \in Nat
  /\ NoTxn \notin Clients \X (1..MaxCalls)
  /\ Nil \notin Clients \X (1..MaxCalls)
  /\ Encodable \cap Oversized = {}
  /\ Programs \subseteq Encodable \cup Oversized
  /\ {Nil, Error, ProgValue} \cap (Encodable \cup Oversized) = {}
  /\ Nil # Error /\ ProgValue # Nil /\ ProgValue # Error

Threads == Clients \cup {Udp}
Txns    == Clients \X (1..MaxCalls)     \* one per call of a client
Values  == Encodable \cup Oversized
CSeqs   == 0..MaxCSeq
Unused  == MaxCSeq + 2                  \* UNUSED_CSEQ: 0xFF beside 0xFD
Keys    == CSeqs \cup {Unused}

VARIABLES
  cseq,       \* device["cseq"]
  results,    \* device["results"]: key -> the entry stored there, or Nil
  ev,         \* the entries whose Event is set; an entry is named after the
              \* call that made it
  val,        \* entry -> its "val"
  key,        \* history: entry -> the dict key it was inserted under
  pc,         \* where each thread is
  seq,        \* the local cseq of each thread's send_* call
  ref,        \* the entry object WaitCSeq holds in its local `results`
  call,       \* thread -> calls begun so far
  ask,        \* client -> value the current or last call asks for
  outcome,    \* client -> what its last call returned
  sig,        \* the response the UDP thread is signalling
  downlink,   \* datagrams sent to the device
  uplink,     \* responses sent by the device
  applied,    \* history: the calls whose value the device has applied
  drawn,      \* history: numbers NextCSeq has handed out
  redrawn,    \* history: numbers handed out more than once
  failed      \* history: keys left behind by a send that raised

net   == <<downlink, uplink, applied>>
local == <<pc, seq, ref, call, ask, outcome, sig>>
obj   == <<ev, val, key>>
dict  == <<cseq, results, obj>>
hist  == <<drawn, redrawn, failed>>
vars  == <<cseq, results, ev, val, key, pc, seq, ref, call, ask, outcome, sig,
           downlink, uplink, applied, drawn, redrawn, failed>>

Txn(t) == <<t, call[t]>>

Init ==
  /\ cseq = 0
  /\ results = [k \in Keys |-> Nil]
  /\ ev = {}
  /\ val = [x \in Txns |-> Nil]
  /\ key = [x \in Txns |-> Nil]
  /\ pc = [t \in Threads |-> "idle"]
  /\ seq = [t \in Threads |-> 0]
  /\ ref = [t \in Threads |-> Nil]
  /\ call = [t \in Threads |-> 0]
  /\ ask = [t \in Clients |-> Nil]
  /\ outcome = [t \in Clients |-> Nil]
  /\ sig = [cseq |-> 0, val |-> Nil, txn |-> NoTxn]
  /\ downlink = {} /\ uplink = {} /\ applied = {}
  /\ drawn = {} /\ redrawn = {} /\ failed = {}

-----------------------------------------------------------------------------
(* NextCSeq: read the counter, write it back, drop what is at the number,  *)
(* and store a fresh entry there when the caller waits.                    *)

\* current_cseq = device["cseq"], by a thread that starts a send.
DrawCSeq(t) ==
  /\ pc[t] = "idle"
  /\ call[t] < IF t = Udp THEN MaxUnwaited ELSE MaxCalls
  /\ call' = [call EXCEPT ![t] = @ + 1]
  /\ seq' = [seq EXCEPT ![t] = cseq]
  /\ pc' = [pc EXCEPT ![t] = "bump"]
  /\ redrawn' = redrawn \cup (drawn \cap {cseq})
  /\ drawn' = drawn \cup {cseq}

\* A REST or fake-boost thread calls send_SET / send_OUTSIDE_TEMP /
\* send_DEVICE_TIME / send_REFRESH with wait=1.
BeginCall(t, v) ==
  /\ DrawCSeq(t)
  /\ ask' = [ask EXCEPT ![t] = v]
  /\ outcome' = [outcome EXCEPT ![t] = Nil]
  /\ UNCHANGED <<dict, net, ref, sig, failed>>

\* Day.put calls send_PROGRAM, which never calls NextCSeq.
BeginProgram(t, v) ==
  /\ call[t] < MaxCalls
  /\ pc[t] = "idle"
  /\ pc' = [pc EXCEPT ![t] = "send"]
  /\ seq' = [seq EXCEPT ![t] = Unused]
  /\ call' = [call EXCEPT ![t] = @ + 1]
  /\ ask' = [ask EXCEPT ![t] = v]
  /\ outcome' = [outcome EXCEPT ![t] = Nil]
  /\ UNCHANGED <<dict, net, ref, sig, hist>>

\* The UDP thread, inside handleMsg, answers a SET or SWVERSION the device
\* initiated or asks for a program (GET_PROG) after a STATUS: wait=0.
BeginUnwaited ==
  /\ DrawCSeq(Udp)
  /\ UNCHANGED <<dict, net, ref, ask, outcome, sig, failed>>

\* Mutant: wraps one number late, at UNUSED_CSEQ's neighbour.
BumpCSeq_LateWrap(t) ==
  /\ pc[t] = "bump"
  /\ cseq' = IF seq[t] > MaxCSeq THEN 0 ELSE seq[t] + 1
  /\ pc' = [pc EXCEPT ![t] = "pop"]
  /\ UNCHANGED <<results, obj, seq, ref, call, ask, outcome, sig, net, hist>>

\* cseq = current_cseq + 1, wrapping to 0 above MAX_CSEQ.
BumpCSeq(t) ==
  /\ pc[t] = "bump"
  /\ cseq' = IF seq[t] + 1 > MaxCSeq THEN 0 ELSE seq[t] + 1
  /\ pc' = [pc EXCEPT ![t] = "pop"]
  /\ UNCHANGED <<results, obj, seq, ref, call, ask, outcome, sig, net, hist>>

\* Mutant: the test of `wait` inverted, no waiting caller registers.
PopDangling_Unregistered(t) ==
  /\ pc[t] = "pop"
  /\ results' = [results EXCEPT ![seq[t]] = Nil]
  /\ failed' = failed \ {seq[t]}
  /\ pc' = [pc EXCEPT ![t] = "send"]
  /\ UNCHANGED <<cseq, obj, seq, ref, call, ask, outcome, sig, net,
                 drawn, redrawn>>

\* device["results"].pop(current_cseq, None)
PopDangling(t) ==
  /\ pc[t] = "pop"
  /\ results' = [results EXCEPT ![seq[t]] = Nil]
  /\ failed' = failed \ {seq[t]}
  /\ pc' = [pc EXCEPT ![t] = IF t = Udp THEN "send" ELSE "insert"]
  /\ UNCHANGED <<cseq, obj, seq, ref, call, ask, outcome, sig, net,
                 drawn, redrawn>>

\* device["results"][current_cseq] = {"wait": .., "ev": Event(), "val": None}
InsertEntry(t) ==
  /\ pc[t] = "insert"
  /\ ev' = ev \ {Txn(t)}
  /\ val' = [val EXCEPT ![Txn(t)] = Nil]
  /\ key' = [key EXCEPT ![Txn(t)] = seq[t]]
  /\ results' = [results EXCEPT ![seq[t]] = Txn(t)]
  /\ pc' = [pc EXCEPT ![t] = "send"]
  /\ UNCHANGED <<cseq, seq, ref, call, ask, outcome, sig, net, hist>>

-----------------------------------------------------------------------------
(* The send: pack the message, hand it to the socket.                      *)

\* How a call of thread t ends: a client's result is v; the UDP thread drops
\* the result, and an exception makes its loop sleep for a second.
Return(t, v) ==
  IF t = Udp
  THEN /\ pc' = [pc EXCEPT ![t] = IF v = Error THEN "sleep" ELSE "idle"]
       /\ UNCHANGED outcome
  ELSE /\ pc' = [pc EXCEPT ![t] = "idle"]
       /\ outcome' = [outcome EXCEPT ![t] = v]

Request(t) ==
  IF t = Udp THEN [cseq |-> seq[t], val |-> ProgValue, txn |-> NoTxn]
             ELSE [cseq |-> seq[t], val |-> ask[t], txn |-> Txn(t)]

\* The datagram leaves; the entry is already registered.
Send(t) ==
  /\ pc[t] = "send"
  /\ t \in Clients => ask[t] \in Encodable
  /\ downlink' = downlink \cup {Request(t)}
  /\ pc' = [pc EXCEPT ![t] = "check"]
  /\ UNCHANGED <<dict, seq, ref, call, ask, outcome, sig, uplink, applied, hist>>

\* struct.pack raises for a value that does not fit, and the socket (or the
\* datalog) for any datagram: the exception leaves send_* after NextCSeq stored
\* a client's entry, and nobody removes it.
SendRaises(t) ==
  /\ pc[t] = "send"
  /\ failed' = failed \cup (IF t = Udp THEN {} ELSE {seq[t]} \cap CSeqs)
  /\ Return(t, Error)
  /\ UNCHANGED <<dict, seq, ref, call, ask, sig, net, drawn, redrawn>>

-----------------------------------------------------------------------------
(* WaitCSeq, which every send_* with a cseq ends in, whatever its wait.    *)

\* if cseq in device["results"] -- otherwise the function returns None.
CheckEntry(t) ==
  /\ pc[t] = "check"
  /\ IF results[seq[t]] # Nil
     THEN /\ pc' = [pc EXCEPT ![t] = "capture"]
          /\ UNCHANGED outcome
     ELSE Return(t, Nil)
  /\ UNCHANGED <<dict, seq, ref, call, ask, sig, net, hist>>

\* results = device["results"][cseq], a KeyError if it went meanwhile.
CaptureEntry(t) ==
  /\ pc[t] = "capture"
  /\ IF results[seq[t]] # Nil
     THEN /\ ref' = [ref EXCEPT ![t] = results[seq[t]]]
          /\ pc' = [pc EXCEPT ![t] = "wait"]
          /\ UNCHANGED outcome
     ELSE /\ Return(t, Error)
          /\ UNCHANGED ref
  /\ UNCHANGED <<dict, seq, call, ask, sig, net, hist>>

\* results["ev"].wait(1) comes back because the event is set ...
WaitSignalled(t) ==
  /\ pc[t] = "wait"
  /\ ref[t] \in ev
  /\ pc' = [pc EXCEPT ![t] = "delete"]
  /\ UNCHANGED <<dict, seq, ref, call, ask, outcome, sig, net, hist>>

\* Mutant: Event.wait() without a timeout.
WaitTimesOut_Never(t) == FALSE /\ UNCHANGED vars

\* ... or because its second has passed.
WaitTimesOut(t) ==
  /\ pc[t] = "wait"
  /\ ref[t] \notin ev
  /\ pc' = [pc EXCEPT ![t] = "delete"]
  /\ UNCHANGED <<dict, seq, ref, call, ask, outcome, sig, net, hist>>

\* Mutants: the entry is removed only when it was signalled; a timeout counts
\* as success; the event, not the entry's value, decides what is returned.
DeleteEntry_KeepOnTimeout(t) ==
  /\ pc[t] = "delete"
  /\ results' = IF ref[t] \in ev THEN [results EXCEPT ![seq[t]] = Nil]
                                 ELSE results
  /\ Return(t, IF results[seq[t]] = Nil THEN Error ELSE val[ref[t]])
  /\ UNCHANGED <<cseq, obj, seq, ref, call, ask, sig, net, hist>>

DeleteEntry_Optimistic(t) ==
  /\ pc[t] = "delete"
  /\ results' = [results EXCEPT ![seq[t]] = Nil]
  /\ Return(t, IF t = Udp THEN Nil ELSE ask[t])
  /\ UNCHANGED <<cseq, obj, seq, ref, call, ask, sig, net, hist>>

DeleteEntry_ByEvent(t) ==
  /\ pc[t] = "delete"
  /\ results' = [results EXCEPT ![seq[t]] = Nil]
  /\ Return(t, IF results[seq[t]] = Nil THEN Error
               ELSE IF ref[t] \in ev THEN val[ref[t]] ELSE Nil)
  /\ UNCHANGED <<cseq, obj, seq, ref, call, ask, sig, net, hist>>

\* del device["results"][cseq]; return results["val"].  The key is deleted
\* whoever's entry is there; the value is that of the entry captured.  Nothing
\* is called between the two, so no other thread runs there.
DeleteEntry(t) ==
  /\ pc[t] = "delete"
  /\ results' = [results EXCEPT ![seq[t]] = Nil]
  /\ Return(t, IF results[seq[t]] = Nil THEN Error ELSE val[ref[t]])
  /\ UNCHANGED <<cseq, obj, seq, ref, call, ask, sig, net, hist>>

-----------------------------------------------------------------------------
(* SignalCSeq, run by the UDP thread for each response it receives.  A     *)
(* response whose number has no entry, and every PROGRAM response, changes *)
(* nothing here.                                                           *)

\* Mutant: signals the last number handed out, not the one in the response.
ReceiveResponse_LastNumber(m) ==
  LET last == (cseq + MaxCSeq) % (MaxCSeq + 1) IN
  /\ pc[Udp] = "idle"
  /\ results[last] # Nil
  /\ sig' = [m EXCEPT !.cseq = last]
  /\ pc' = [pc EXCEPT ![Udp] = "store"]
  /\ UNCHANGED <<dict, seq, ref, call, ask, outcome, net, hist>>

\* if cseq in device["results"]
ReceiveResponse(m) ==
  /\ pc[Udp] = "idle"
  /\ m.cseq # Unused
  /\ results[m.cseq] # Nil
  /\ sig' = m
  /\ pc' = [pc EXCEPT ![Udp] = "store"]
  /\ UNCHANGED <<dict, seq, ref, call, ask, outcome, net, hist>>

\* device["results"][cseq]["val"] = val: a second lookup of the key.  Nothing is
\* called between the lookup and the assignment, so the interpreter (3.12 or
\* later, as the f-strings of this file ask for) changes threads before or after.
StoreValue ==
  /\ pc[Udp] = "store"
  /\ IF results[sig.cseq] = Nil
     THEN /\ pc' = [pc EXCEPT ![Udp] = "sleep"]
          /\ UNCHANGED val
     ELSE /\ val' = [val EXCEPT ![results[sig.cseq]] = sig.val]
          /\ pc' = [pc EXCEPT ![Udp] = "set"]
  /\ UNCHANGED <<cseq, results, ev, key, seq, ref, call, ask, outcome, sig,
                 net, hist>>

\* device["results"][cseq]["ev"].set(): a third lookup.
SetEvent ==
  /\ pc[Udp] = "set"
  /\ IF results[sig.cseq] = Nil
     THEN /\ pc' = [pc EXCEPT ![Udp] = "sleep"]
          /\ UNCHANGED ev
     ELSE /\ ev' = ev \cup {results[sig.cseq]}
          /\ pc' = [pc EXCEPT ![Udp] = "idle"]
  /\ UNCHANGED <<cseq, results, val, key, seq, ref, call, ask, outcome, sig,
                 net, hist>>

\* time.sleep(1) in the receive loop is over.
Wake ==
  /\ pc[Udp] = "sleep"
  /\ pc' = [pc EXCEPT ![Udp] = "idle"]
  /\ UNCHANGED <<dict, seq, ref, call, ask, outcome, sig, net, hist>>

-----------------------------------------------------------------------------
(* The gateway, as the server uses it: it applies a request and echoes the *)
(* request's number and value.                                             *)

DeviceHandles(m) ==
  /\ m \in downlink
  /\ applied' = applied \cup {m.txn}
  /\ uplink' = uplink \cup {m}
  /\ UNCHANGED <<dict, local, downlink, hist>>

-----------------------------------------------------------------------------

ThreadStep(t) ==
  \/ BumpCSeq(t) \/ PopDangling(t) \/ InsertEntry(t)
  \/ Send(t) \/ SendRaises(t) \/ CheckEntry(t) \/ CaptureEntry(t)
  \/ WaitSignalled(t) \/ WaitTimesOut(t) \/ DeleteEntry(t)

UdpStep == ThreadStep(Udp) \/ StoreValue \/ SetEvent \/ Wake

Next ==
  \/ \E t \in Clients : \/ \E v \in Values : BeginCall(t, v)
                        \/ \E v \in Programs : BeginProgram(t, v)
                        \/ ThreadStep(t)
  \/ BeginUnwaited
  \/ UdpStep
  \/ \E m \in uplink : ReceiveResponse(m)
  \/ \E m \in downlink : DeviceHandles(m)

\* A running thread is scheduled again, and Event.wait and time.sleep come
\* back after their second.  Nothing is assumed of the network.
Fairness == (\A t \in Clients : WF_vars(ThreadStep(t))) /\ WF_vars(UdpStep)

Spec == Init /\ [][Next]_vars /\ Fairness

-----------------------------------------------------------------------------
(* Properties.                                                             *)

Steps    == {"idle", "bump", "pop", "insert", "send", "check", "capture",
             "wait", "delete"}
Answers  == Values \cup {ProgValue, Nil}
Messages == [cseq : Keys, val : Values \cup {ProgValue},
             txn : Txns \cup {NoTxn}]

\* Where each variable ranges; the counter never reaches UNUSED_CSEQ.
TypeOK ==
  /\ cseq \in CSeqs
  /\ results \in [Keys -> Txns \cup {Nil}]
  /\ ev \subseteq Txns
  /\ val \in [Txns -> Answers]
  /\ key \in [Txns -> Keys \cup {Nil}]
  /\ pc \in [Threads -> Steps \cup {"store", "set", "sleep"}]
  /\ \A t \in Clients : pc[t] \in Steps
  /\ seq \in [Threads -> Keys]
  /\ ref \in [Threads -> Txns \cup {Nil}]
  /\ call \in [Threads -> Nat]
  /\ \A t \in Clients : call[t] \in 0..MaxCalls
  /\ ask \in [Clients -> Values \cup {Nil}]
  /\ outcome \in [Clients -> Answers \cup {Error}]
  /\ sig \in [cseq : Keys, val : Answers, txn : Txns \cup {NoTxn}]
  /\ downlink \subseteq Messages
  /\ uplink \subseteq Messages
  /\ applied \subseteq Txns \cup {NoTxn}
  /\ drawn \subseteq CSeqs
  /\ redrawn \subseteq CSeqs
  /\ failed \subseteq CSeqs

\* The call of client t holds a number: it is between InsertEntry and its end.
Open(t) == pc[t] \in {"send", "check", "capture", "wait", "delete"}

\* Client t's number was handed out by NextCSeq to nobody else.
Exclusive(t) == seq[t] \in CSeqs \ redrawn

Finished(t) == pc[t] = "idle" /\ call[t] > 0

\* No entry outlives its call: whatever the threads do to each other's
\* entries, results holds one only while a client with that number is inside
\* send_*, or after a send that raised (which the next NextCSeq drops).
NoLeak ==
  \A k \in Keys : results[k] # Nil =>
     \/ \E t \in Clients : seq[t] = k /\ Open(t)
     \/ k \in failed

\* A value a call returns was sent by the device in a response that carried
\* the number of that call.
AnswerCarriesNumber ==
  \A t \in Clients : Finished(t) /\ outcome[t] \notin {Nil, Error} =>
     \E m \in uplink : m.cseq = seq[t] /\ m.val = outcome[t]

\* A call that has its number to itself is registered from before its request
\* can be on the network until it deletes the entry: a response that comes
\* before WaitCSeq is reached is not lost.
OpenCallIsRegistered ==
  \A t \in Clients : Open(t) /\ Exclusive(t) => results[seq[t]] = Txn(t)

\* A call that had its number to itself ends with the value it asked for, and
\* then the device has applied it, or with None after the timeout; if it raises,
\* nothing was sent, so the device has not applied the value and will not.
ExclusiveAnswer ==
  \A t \in Clients : Finished(t) /\ Exclusive(t) =>
     /\ outcome[t] \in {ask[t], Nil, Error}
     /\ outcome[t] = ask[t] => Txn(t) \in applied
     /\ outcome[t] = Error => \A m \in downlink : m.txn # Txn(t)

\* A call that had its number to itself and was signalled before it deleted
\* its entry returns the value signalled, even if its timeout fired first.
SignalledIsReturned ==
  \A t \in Clients : Finished(t) /\ Exclusive(t) =>
     outcome[t] \in {val[Txn(t)], Error}

\* Every call returns, and the UDP thread always comes back to its socket,
\* also after it blocked in WaitCSeq or slept after an exception.
CallReturns == \A t \in Clients : pc[t] # "idle" ~> pc[t] = "idle"
UdpReturns  == pc[Udp] # "idle" ~> pc[Udp] = "idle"

\* What the code's comments say.
\* "'val' : <result of requested operation>": a value handed to a caller as
\* the one it asked for is the result of its own operation.
OkMeansApplied ==
  \A t \in Clients : Finished(t) /\ outcome[t] = ask[t] => Txn(t) \in applied

-----------------------------------------------------------------------------
(* ControlPlane implements ControlCall as long as no call under way shares *)
(* its number: the mapping forgets the threads' program counters, the      *)
(* dict, the datagrams and what the UDP thread sends for itself.           *)

Call == INSTANCE ControlCall WITH
  pending <- [t \in Clients |-> pc[t] # "idle"],
  call    <- [t \in Clients |-> call[t]],
  sent    <- {m.txn : m \in downlink} \ {NoTxn},
  applied <- applied \ {NoTxn}

Undisturbed == \A t \in Clients : pc[t] # "idle" => seq[t] \notin redrawn

\* Every behaviour of the threads is one the callers were promised, fairness
\* included.
ImplementsControlCall == Call!Spec
=============================================================================
