---------------------------- MODULE BoostSwitch ----------------------------
(***************************************************************************)
(* What the fake boost promises the user of a room: a switch.  Turned on,  *)
(* it raises T3 once; turned off, it lowers T3 once by as much; and it is  *)
(* not turned on again before it is off.                                   *)
(***************************************************************************)
EXTENDS Integers

CONSTANTS Rise, Base

VARIABLES
  state,      \* "off", "starting", "on", "ending"
  t3          \* T3 of the thermostat

vars == <<state, t3>>

Init == state = "off" /\ t3 = Base

\* A call passes the checks ...
Begin ==
  /\ \/ state = "off" /\ state' = "starting"
     \/ state = "on" /\ state' = "ending"
  /\ UNCHANGED t3

\* ... the device takes over the T3 it asks for ...
Raise == state = "starting" /\ t3 = Base        /\ t3' = Base + Rise /\ UNCHANGED state
Lower == state = "ending"   /\ t3 = Base + Rise /\ t3' = Base        /\ UNCHANGED state

\* ... and the call turns the timer when it has done what it was asked.
End ==
  /\ \/ state = "starting" /\ t3 = Base + Rise /\ state' = "on"
     \/ state = "ending" /\ t3 = Base /\ state' = "off"
  /\ UNCHANGED t3

Next == Begin \/ Raise \/ Lower \/ End

Spec == Init /\ [][Next]_vars
=============================================================================
