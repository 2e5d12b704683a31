---------------------------- MODULE MCSambanas2 ----------------------------
(* Small instances of Sambanas2 for TLC. *)
EXTENDS Sambanas2, TLC

S(channel, deprecated, faults, asks, others) ==
  [channel |-> channel, deprecated |-> deprecated, faults |-> faults, asks |-> asks,
   others |-> others]

\* An option of an older release, and a Supervisor whose POSTs may fail; nothing to
\* do but for init-smbd; ...
Faulty == S("release", {"enable_smart"}, TRUE, "stopped", FALSE)
Renewing == S("develop", {}, FALSE, "never", FALSE)

\* ... an owner who asks at any time, and services that fill the cache; two options
\* of an older release.
Busy == S("release", {}, FALSE, "always", TRUE)
TwoKeys == S("none", {"enable_smart", "hdd_idle_second"}, FALSE, "stopped", FALSE)

Rough == {Faulty, Renewing, Busy, TwoKeys}
SmbdToo == {Faulty, Renewing}
HostToo == {Renewing}

\* A configuration with an option of an older release, and a Supervisor that answers.
OldOption == {S("none", {"enable_smart"}, FALSE, "stopped", FALSE)}
=============================================================================
