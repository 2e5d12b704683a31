---------------------------- MODULE MCFakeBoost ----------------------------
(* Small instances of FakeBoost for TLC. *)
EXTENDS FakeBoost, TLC
CONSTANTS r1, r2, tm1, tm2

\* A caller that starts boosts, a network that answers in time, and the user at
\* the thermostat.
Calm ==
  [callers |-> {r1}, puts |-> {1}, calls |-> 2,
   timely |-> TRUE, ordered |-> TRUE, faults |-> FALSE, panel |-> TRUE]

\* Two callers that start and end boosts on that network; the database fails.
Busy ==
  [callers |-> {r1, r2}, puts |-> {0, 1}, calls |-> 1,
   timely |-> TRUE, ordered |-> TRUE, faults |-> TRUE, panel |-> FALSE]

\* The same callers; datagrams are lost, late, reordered and
\* the database fails.
Lossy ==
  [callers |-> {r1, r2}, puts |-> {0, 1}, calls |-> 1,
   timely |-> FALSE, ordered |-> FALSE, faults |-> TRUE, panel |-> FALSE]

Surrounded == {Calm, Busy, Lossy}
=============================================================================
