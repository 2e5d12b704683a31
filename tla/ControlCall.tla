----------------------------- MODULE ControlCall -----------------------------
(***************************************************************************)
(* What a control-plane call promises its caller (restapi.py and           *)
(* send_FAKE_BOOST rely on it): the call ends with the value it asked for  *)
(* only if the device has applied that value; it may give up with None,    *)
(* and then the device may have applied the value, may apply it later or   *)
(* never; if it raises, the value is never applied.                        *)
(***************************************************************************)
EXTENDS Integers

CONSTANTS Clients, MaxCalls, Encodable, Oversized, Nil, Error

Txns   == Clients \X (1..MaxCalls)
Values == Encodable \cup Oversized

VARIABLES
  pending,    \* client -> is a call of it under way
  call,       \* client -> calls begun so far
  ask,        \* client -> value the current or last call asks for
  outcome,    \* client -> what its last call returned
  sent,       \* calls whose request may reach the device
  applied     \* calls whose value the device has applied

vars == <<pending, call, ask, outcome, sent, applied>>

Init ==
  /\ pending = [t \in Clients |-> FALSE]
  /\ call = [t \in Clients |-> 0]
  /\ ask = [t \in Clients |-> Nil]
  /\ outcome = [t \in Clients |-> Nil]
  /\ sent = {}
  /\ applied = {}

Begin(t, v) ==
  /\ ~pending[t]
  /\ call[t] < MaxCalls
  /\ pending' = [pending EXCEPT ![t] = TRUE]
  /\ call' = [call EXCEPT ![t] = @ + 1]
  /\ ask' = [ask EXCEPT ![t] = v]
  /\ outcome' = [outcome EXCEPT ![t] = Nil]
  /\ UNCHANGED <<sent, applied>>

Send(t) ==
  /\ pending[t]
  /\ ask[t] \in Encodable
  /\ sent' = sent \cup {<<t, call[t]>>}
  /\ UNCHANGED <<pending, call, ask, outcome, applied>>

\* The device applies a request it has received, in its own time.
Apply(x) ==
  /\ x \in sent
  /\ applied' = applied \cup {x}
  /\ UNCHANGED <<pending, call, ask, outcome, sent>>

End(t, v) ==
  /\ pending[t]
  /\ pending' = [pending EXCEPT ![t] = FALSE]
  /\ outcome' = [outcome EXCEPT ![t] = v]
  /\ UNCHANGED <<call, ask, sent, applied>>

Confirmed(t) == <<t, call[t]>> \in applied /\ End(t, ask[t])
GaveUp(t)    == <<t, call[t]>> \in sent /\ End(t, Nil)
Raised(t)    == <<t, call[t]>> \notin sent /\ End(t, Error)

Next ==
  \/ \E t \in Clients : \/ \E v \in Values : Begin(t, v)
                        \/ Send(t)
                        \/ Confirmed(t) \/ GaveUp(t) \/ Raised(t)
  \/ \E x \in Txns : Apply(x)

\* What a caller is told is true.
Safety == Init /\ [][Next]_vars

\* And a call that has begun ends.
Spec == /\ Safety
        /\ \A t \in Clients : WF_vars(Send(t) \/ Confirmed(t) \/ GaveUp(t) \/ Raised(t))
=============================================================================
