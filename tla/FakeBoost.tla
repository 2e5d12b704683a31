----------------------------- MODULE FakeBoost -----------------------------
(***************************************************************************)
(* The fake boost of one room.  The thermostat cannot be boosted remotely, *)
(* so send_FAKE_BOOST raises T3 and switches to PARTY, starts a timer, and *)
(* on the way back lowers T3 and returns to AUTO.  It decides from the     *)
(* server's mirror of the room (getRoomStatus), which STATUS messages and  *)
(* SET responses refresh.  A REST handler runs it for PUT fakeboost; a     *)
(* STATUS that finds the timer expired starts a thread of its own for it.  *)
(*                                                                         *)
(* A send_SET is a request in downlink, applied by the device and echoed   *)
(* in uplink.  Every call is taken to have its sequence number to itself   *)
(* (module ControlPlane is about those that have not).                     *)
(***************************************************************************)
EXTENDS Integers, Sequences

CONSTANTS
  Rest,       \* REST handler threads
  Timers,     \* threads a STATUS may start: bounds those alive at once
  MaxCalls,   \* bound: calls of send_FAKE_BOOST one thread gets past the checks
  Rise,       \* FAKEBOOST_TEMPERATURE_RISE
  Base,       \* T3 as the user set it
  PanelModes, \* modes the user picks at the thermostat itself
  PanelBusy,  \* settings of boost / advance the user picks there
  PanelWarm,  \* may settemp fall below T1
  Worlds,     \* the surroundings a behaviour may start in, see Surroundings
  Nil,        \* Python's None
  Error       \* the call ended with an exception

\* callers: the REST threads in use; puts: the values they PUT; calls: how many
\* each thread gets past the checks; timely: every datagram arrives and is
\* answered within the second; ordered: uplink datagrams arrive in the order
\* they were sent; faults: the database may raise; panel: the user is at the
\* thermostat.
Surroundings ==
  [callers : SUBSET Rest, puts : SUBSET {0, 1}, calls : 0..MaxCalls,
   timely : BOOLEAN, ordered : BOOLEAN, faults : BOOLEAN, panel : BOOLEAN]

ASSUME FakeBoostAssumption ==
  /\ Rest \cap Timers = {}
  /\ MaxCalls \in Nat
  /\ Rise \in Nat \ {0}
  /\ Base \in Nat
  /\ PanelModes \subseteq {"AUTO", "MANUAL", "PARTY"}
  /\ PanelBusy \subseteq BOOLEAN /\ PanelWarm \subseteq BOOLEAN
  /\ Worlds \subseteq Surroundings
  /\ Nil \notin Int /\ Error \notin Int /\ Nil # Error

Threads == Rest \cup Timers
Modes   == {"AUTO", "MANUAL", "PARTY"}

VARIABLES
  room,     \* the mirror, roomStatus: t3, mode, busy (boost or advance is
            \* not 0) and warm (settemp >= t1)
  timer,    \* roomStatus["fakeboost"]: absent, 0, in the future or past
  dev,      \* the same of the thermostat itself
  pc,       \* where each thread is in send_FAKE_BOOST
  want,     \* thread -> the value asked of it, 0 or 1
  new_t3,   \* thread -> its local new_t3
  answered, \* threads whose request has been answered (SignalCSeq)
  call,     \* thread -> calls of send_FAKE_BOOST past their checks so far
  outcome,  \* thread -> what its last call returned
  pending,  \* the STATUS of which only settemp and t3 are stored yet
  downlink, \* SET requests on their way to the device
  uplink,   \* datagrams on their way to the server
  world,    \* the surroundings, chosen at the start
  applied,  \* history: <<call, field>> of the SETs the device has applied
  crossed   \* history: two calls for the same value were past their checks at
            \* the same time

mirror  == <<room, timer, pending>>
local   == <<pc, want, new_t3, answered, call, outcome>>
net     == <<downlink, uplink>>
vars    == <<room, timer, dev, pc, want, new_t3, answered, call, outcome,
             pending, downlink, uplink, world, applied, crossed>>

Boosting == timer \in {"running", "expired"}     \* fakeboost != 0

Init ==
  /\ world \in Worlds
  /\ dev = [t3 |-> Base, mode |-> "AUTO", busy |-> FALSE, warm |-> TRUE]
  /\ room = dev
  /\ timer = "absent"
  /\ pc = [t \in Threads |-> "idle"]
  /\ want = [t \in Threads |-> 0]
  /\ new_t3 = [t \in Threads |-> 0]
  /\ answered = {}
  /\ call = [t \in Threads |-> 0]
  /\ outcome = [t \in Threads |-> Nil]
  /\ pending = Nil
  /\ downlink = {} /\ uplink = <<>> /\ applied = {} /\ crossed = FALSE

-----------------------------------------------------------------------------
(* send_FAKE_BOOST.                                                        *)

Return(t, v) ==
  /\ pc' = [pc EXCEPT ![t] = "idle"]
  /\ outcome' = [outcome EXCEPT ![t] = v]

\* PUT /devices/<d>/rooms/<r>/fakeboost
Put(t, v) ==
  /\ pc[t] = "idle"
  /\ call[t] < world.calls
  /\ want' = [want EXCEPT ![t] = v]
  /\ pc' = [pc EXCEPT ![t] = "check"]
  /\ outcome' = [outcome EXCEPT ![t] = Nil]
  /\ UNCHANGED <<mirror, dev, new_t3, answered, call, net, applied>>

\* Mutant: a boost may be started while one is on.
Allowed_Twice(t) ==
  /\ room.warm
  /\ \/ want[t] = 0 /\ Boosting /\ room.mode = "PARTY"
     \/ want[t] = 1 /\ timer # "absent" /\ room.mode = "AUTO" /\ ~room.busy

\* May this call go ahead?
Allowed(t) ==
  /\ room.warm
  /\ \/ want[t] = 0 /\ Boosting /\ room.mode = "PARTY"
     \/ want[t] = 1 /\ timer = "off" /\ room.mode = "AUTO" /\ ~room.busy

\* A call that may not go ahead returns 0, whichever value was asked.
Check(t) ==
  /\ pc[t] = "check"
  /\ IF Allowed(t)
     THEN /\ pc' = [pc EXCEPT ![t] = "read"]
          /\ call' = [call EXCEPT ![t] = @ + 1]
          /\ UNCHANGED outcome
     ELSE Return(t, 0) /\ UNCHANGED call
  /\ UNCHANGED <<mirror, dev, want, new_t3, answered, net, applied>>

Txn(t) == <<t, call[t]>>
Request(t, f, v) == [kind |-> "set", txn |-> Txn(t), field |-> f, val |-> v]

\* Room state r after the SET m, at the device and in the mirror alike.
Updated(r, m) == IF m.field = "t3" THEN [r EXCEPT !.t3 = m.val]
                                   ELSE [r EXCEPT !.mode = m.val]

\* Mutants: the sign is forgotten; a negative T3 is sent.
SendT3_AlwaysUp(t) ==
  LET v == room.t3 + Rise IN
  /\ pc[t] = "read"
  /\ new_t3' = [new_t3 EXCEPT ![t] = v]
  /\ downlink' = downlink \cup {Request(t, "t3", v)}
  /\ pc' = [pc EXCEPT ![t] = "wait_t3"]
  /\ UNCHANGED <<mirror, dev, want, answered, call, outcome, uplink, applied>>

SendT3_Negative(t) ==
  LET v == IF want[t] = 1 THEN room.t3 + Rise ELSE room.t3 - Rise IN
  /\ pc[t] = "read"
  /\ new_t3' = [new_t3 EXCEPT ![t] = v]
  /\ downlink' = downlink \cup {Request(t, "t3", v)}
  /\ pc' = [pc EXCEPT ![t] = "wait_t3"]
  /\ UNCHANGED <<mirror, dev, want, answered, call, outcome, uplink, applied>>

\* new_t3 = roomStatus["t3"] +- RISE; send_SET(SET_T3, new_t3), an exception
\* when struct.pack("<H") is given a negative number.
SendT3(t) ==
  LET v == IF want[t] = 1 THEN room.t3 + Rise ELSE room.t3 - Rise IN
  /\ pc[t] = "read"
  /\ new_t3' = [new_t3 EXCEPT ![t] = v]
  /\ IF v < 0
     THEN Return(t, Error) /\ UNCHANGED downlink
     ELSE /\ downlink' = downlink \cup {Request(t, "t3", v)}
          /\ pc' = [pc EXCEPT ![t] = "wait_t3"]
          /\ UNCHANGED outcome
  /\ UNCHANGED <<mirror, dev, want, answered, call, uplink, applied>>

\* Mutant: the mode is sent without waiting for T3 to be confirmed.
SendMode_Unconfirmed(t) ==
  LET m == IF want[t] = 1 THEN "PARTY" ELSE "AUTO" IN
  /\ pc[t] = "wait_t3"
  /\ answered' = answered \ {t}
  /\ downlink' = downlink \cup {Request(t, "mode", m)}
  /\ pc' = [pc EXCEPT ![t] = "wait_mode"]
  /\ UNCHANGED <<mirror, dev, want, new_t3, call, outcome, uplink, applied>>

\* if rc == new_t3: send_SET(SET_MODE, AUTO or PARTY)
SendMode(t) ==
  LET m == IF want[t] = 1 THEN "PARTY" ELSE "AUTO" IN
  /\ pc[t] = "wait_t3"
  /\ t \in answered
  /\ answered' = answered \ {t}
  /\ downlink' = downlink \cup {Request(t, "mode", m)}
  /\ pc' = [pc EXCEPT ![t] = "wait_mode"]
  /\ UNCHANGED <<mirror, dev, want, new_t3, call, outcome, uplink, applied>>

\* Mutant: the timer of a boost that has ended is not cleared.
Finish_KeepsTimer(t) ==
  /\ pc[t] = "wait_mode"
  /\ t \in answered
  /\ answered' = answered \ {t}
  /\ timer' = IF want[t] = 1 THEN "running" ELSE timer
  /\ Return(t, want[t])
  /\ UNCHANGED <<room, pending, dev, want, new_t3, call, net, applied>>

\* The mode is confirmed: start or stop the timer.
Finish(t) ==
  /\ pc[t] = "wait_mode"
  /\ t \in answered
  /\ answered' = answered \ {t}
  /\ timer' = IF want[t] = 1 THEN "running" ELSE "off"
  /\ Return(t, want[t])
  /\ UNCHANGED <<room, pending, dev, want, new_t3, call, net, applied>>

\* Mutant: the boost is taken to have started or ended all the same.
GiveUp_TimerAnyway(t) ==
  /\ pc[t] \in {"wait_t3", "wait_mode"}
  /\ t \notin answered
  /\ ~world.timely
  /\ timer' = IF want[t] = 1 THEN "running" ELSE "off"
  /\ Return(t, want[t])
  /\ UNCHANGED <<room, pending, dev, want, new_t3, answered, call, net, applied>>

\* No answer within the second: T3 stays where it is now.  Only a lost answer
\* to the last AUTO is passed on as None; all else is 0.
GiveUp(t) ==
  /\ pc[t] \in {"wait_t3", "wait_mode"}
  /\ t \notin answered
  /\ ~world.timely
  /\ Return(t, IF pc[t] = "wait_mode" /\ want[t] = 0 THEN Nil ELSE 0)
  /\ UNCHANGED <<mirror, dev, want, new_t3, answered, call, net, applied>>

-----------------------------------------------------------------------------
(* The UDP thread.                                                         *)

Deliverable == IF world.ordered THEN 1..Len(uplink) \cap {1} ELSE 1..Len(uplink)
Without(i)  == [j \in 1..Len(uplink) - 1 |->
                  IF j < i THEN uplink[j] ELSE uplink[j + 1]]

\* A SET response: refresh the mirror, wake the caller if it still waits for
\* this very request.
ReceiveSet(i) ==
  LET m == uplink[i]
      t == m.txn[1]
      waits == /\ Txn(t) = m.txn
               /\ pc[t] = IF m.field = "t3" THEN "wait_t3" ELSE "wait_mode"
  IN
  /\ pending = Nil
  /\ m.kind = "set"
  /\ uplink' = Without(i)
  /\ room' = Updated(room, m)
  /\ answered' = IF waits THEN answered \cup {t} ELSE answered
  /\ UNCHANGED <<timer, pending, dev, pc, want, new_t3, call, outcome,
                 downlink, applied>>

\* A STATUS: settemp and t3 are stored first ...
ReceiveStatus(i) ==
  LET m == uplink[i] IN
  /\ pending = Nil
  /\ m.kind = "status"
  /\ uplink' = Without(i)
  /\ room' = [room EXCEPT !.t3 = m.room.t3, !.warm = m.room.warm]
  /\ pending' = m.room
  /\ UNCHANGED <<timer, dev, local, downlink, applied>>

\* ... then mode, advance and boost; then the timer is looked at: created at the first
\* STATUS, and once it has expired each STATUS starts a thread.
StatusMode ==
  LET free == {t \in Timers : pc[t] = "idle" /\ call[t] < world.calls} IN
  /\ pending # Nil
  /\ room' = [room EXCEPT !.mode = pending.mode, !.busy = pending.busy]
  /\ pending' = Nil
  /\ timer' = IF timer = "absent" THEN "off" ELSE timer
  /\ IF timer = "expired" /\ free # {}
     THEN \E t \in free :
            /\ pc' = [pc EXCEPT ![t] = "check"]
            /\ want' = [want EXCEPT ![t] = 0]
            /\ outcome' = [outcome EXCEPT ![t] = Nil]
     ELSE UNCHANGED <<pc, want, outcome>>
  /\ UNCHANGED <<dev, new_t3, answered, call, net, applied>>

\* The log of the temperature raises, before the timer is looked at.
StatusFails ==
  /\ world.faults
  /\ pending # Nil
  /\ room' = [room EXCEPT !.mode = pending.mode, !.busy = pending.busy]
  /\ pending' = Nil
  /\ UNCHANGED <<timer, dev, local, net, applied>>

\* FAKEBOOST_DURATION seconds have gone by.
Expire ==
  /\ timer = "running"
  /\ timer' = "expired"
  /\ UNCHANGED <<room, pending, dev, local, net, applied>>

-----------------------------------------------------------------------------
(* The thermostat and the network.                                         *)

DeviceApplies(m) ==
  /\ m \in downlink
  /\ downlink' = downlink \ {m}
  /\ dev' = Updated(dev, m)
  /\ applied' = applied \cup {<<m.txn, m.field>>}
  /\ uplink' = Append(uplink, m)
  /\ UNCHANGED <<mirror, local>>

\* The periodic STATUS; bound: one under way at a time.
DeviceReports ==
  /\ \A i \in 1..Len(uplink) : uplink[i].kind # "status"
  /\ uplink' = Append(uplink, [kind |-> "status", room |-> dev])
  /\ UNCHANGED <<mirror, dev, local, downlink, applied>>

\* The user picks a mode, starts or ends a real boost or an advance, or the
\* set temperature crosses T1.
Panel ==
  /\ world.panel
  /\ \/ \E m \in PanelModes : dev' = [dev EXCEPT !.mode = m]
     \/ \E b \in PanelBusy : dev' = [dev EXCEPT !.busy = b]
     \/ \E w \in PanelWarm : dev' = [dev EXCEPT !.warm = w]
  /\ UNCHANGED <<mirror, local, net, applied>>

Lose ==
  /\ ~world.timely
  /\ \/ \E m \in downlink : downlink' = downlink \ {m} /\ UNCHANGED uplink
     \/ \E i \in 1..Len(uplink) : uplink' = Without(i) /\ UNCHANGED downlink
  /\ UNCHANGED <<mirror, dev, local, applied>>

-----------------------------------------------------------------------------

ThreadStep(t) == Check(t) \/ SendT3(t) \/ SendMode(t) \/ Finish(t) \/ GiveUp(t)

Receive == \E i \in Deliverable : ReceiveSet(i) \/ ReceiveStatus(i)

Step ==
  \/ \E t \in world.callers, v \in world.puts : Put(t, v)
  \/ \E t \in Threads : ThreadStep(t)
  \/ Receive \/ StatusMode \/ StatusFails \/ Expire
  \/ \E m \in downlink : DeviceApplies(m)
  \/ DeviceReports
  \/ Panel
  \/ Lose

\* Past its check a call sends and waits, until it returns.
Working(t) == pc[t] \in {"read", "wait_t3", "wait_mode"}
Doubled    == \E t, u \in Threads : /\ t # u /\ Working(t) /\ Working(u)
                                   /\ want[t] = want[u]

Recorded == UNCHANGED world /\ crossed' = (crossed \/ Doubled')

Next == Step /\ Recorded

\* Threads run, time passes, the device answers and reports every 40 seconds.
Fairness ==
  /\ \A t \in Threads : WF_vars(ThreadStep(t) /\ Recorded)
  /\ WF_vars((Receive \/ StatusMode \/ StatusFails) /\ Recorded)
  /\ WF_vars(Expire /\ Recorded)
  /\ WF_vars((\E m \in downlink : DeviceApplies(m)) /\ Recorded)
  /\ WF_vars(DeviceReports /\ Recorded)

Spec == Init /\ [][Next]_vars /\ Fairness

-----------------------------------------------------------------------------
(* Properties.                                                             *)

Txns     == Threads \X (1..MaxCalls)
Requests ==
  [kind : {"set"}, txn : Txns, field : {"t3"}, val : Nat] \cup
  [kind : {"set"}, txn : Txns, field : {"mode"}, val : Modes]
Rooms    == [t3 : Nat, mode : Modes, busy : BOOLEAN, warm : BOOLEAN]

\* Where each variable ranges; the mirror's T3 is never negative.
TypeOK ==
  /\ world \in Worlds
  /\ room \in Rooms
  /\ timer \in {"absent", "off", "running", "expired"}
  /\ dev \in Rooms
  /\ pc \in [Threads -> {"idle", "check", "read", "wait_t3", "wait_mode"}]
  /\ want \in [Threads -> {0, 1}]
  /\ new_t3 \in [Threads -> Int]
  /\ answered \subseteq Threads
  /\ call \in [Threads -> 0..MaxCalls]
  /\ outcome \in [Threads -> {Nil, Error, 0, 1}]
  /\ pending \in Rooms \cup {Nil}
  /\ downlink \subseteq Requests
  /\ uplink \in Seq(Requests \cup [kind : {"status"}, room : Rooms])
  /\ applied \subseteq Txns \X {"t3", "mode"}
  /\ crossed \in BOOLEAN

\* Nothing is under way that could still change T3 or the timer.
Quiet == /\ \A t \in Threads : pc[t] = "idle"
         /\ downlink = {}

\* No answer is late, no STATUS is overtaken, and no two calls for the same
\* value have been past their checks together.
Undisturbed == world.timely /\ world.ordered /\ ~crossed

\* A boost is undone exactly once: undisturbed, T3 is between calls what the
\* user set, plus the rise while the timer is on.
Balanced ==
  Undisturbed /\ Quiet => dev.t3 = Base + (IF Boosting THEN Rise ELSE 0)

\* The timer doubles as a lock: whoever calls, and whatever the network does, a
\* call that starts a boost and one that ends it are never past their checks
\* together, as long as no two calls for the same value have been.
BoostExcludesUnboost ==
  ~crossed =>
    \A t, u \in Threads : Working(t) /\ Working(u) => want[t] = want[u]

\* The timer starts only when the device has applied both steps of one call
\* for value 1, and stops only when it has applied both of one for value 0.
Did(t) == {<<Txn(t), "t3">>, <<Txn(t), "mode">>} \subseteq applied
TimerFollowsDevice ==
  [][/\ ~Boosting /\ Boosting' => \E t \in Threads : want[t] = 1 /\ Did(t)
     /\ Boosting /\ ~Boosting' => \E t \in Threads : want[t] = 0 /\ Did(t)]_vars

\* A PUT of 1 that is answered OK has raised T3 and changed the mode.
OkMeansBoosted ==
  \A t \in Rest : pc[t] = "idle" /\ outcome[t] = 1 => want[t] = 1 /\ Did(t)

\* A boost that is started comes to an end, if no answer is late, the database
\* does not fail, the user leaves the thermostat in PARTY, or puts it back
\* there, and the set temperature is not below T1.
BoostEnds ==
  <>[](world.timely /\ ~world.faults /\ room.mode = "PARTY" /\ room.warm)
    => (Boosting ~> ~Boosting)

-----------------------------------------------------------------------------
(* FakeBoost implements BoostSwitch as long as it is undisturbed, whoever  *)
(* calls and whatever the user does with mode, boost and set temperature.  *)
(* The mapping forgets the threads, the mirror and the datagrams.          *)

Turning == \E t \in Threads : Working(t)

SwitchState ==
  IF Turning THEN IF Boosting THEN "ending" ELSE "starting"
             ELSE IF Boosting THEN "on" ELSE "off"

Switch == INSTANCE BoostSwitch WITH state <- SwitchState, t3 <- dev.t3

\* T3 is raised once while the switch is turned on, lowered once while it is
\* turned off, and the timer is turned only after that.
ImplementsBoostSwitch ==
  Switch!Init /\ [][Undisturbed' => [Switch!Next]_(Switch!vars)]_vars
=============================================================================
