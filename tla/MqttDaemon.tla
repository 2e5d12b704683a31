----------------------------- MODULE MqttDaemon -----------------------------
(***************************************************************************)
(* The MQTT side of the sambanas add-on with mqtt_nexgen_entities set:     *)
(* mqtt_daemon.py, whose asyncio tasks publish the sensors, the hd-idle    *)
(* service, which feeds it through a named pipe, and the s6 scripts that   *)
(* start both and halt the add-on when one of them crashes.                *)
(*                                                                         *)
(* The event loop is one thread with a first-in first-out queue of ready   *)
(* handles.  A handle is a step of a task, or the callbacks of a task that *)
(* is done: TaskGroup._on_task_done and then doneCallback.  A task runs    *)
(* until it awaits; publish_idle_states has no await, so while it opens or *)
(* reads the pipe the loop itself is blocked.                              *)
(***************************************************************************)
EXTENDS Naturals, Sequences, SequencesExt, FiniteSets

CONSTANTS
  Disks,         \* the disks, each with SMART and one mounted partition
  Nas,           \* the owner of the sensors fed by smbstatus
  IdleOptions,   \* values hdd_idle_seconds may have: FALSE (unset or 0), TRUE
  MaxLines,      \* lines the pipe holds
  MaxStarts      \* starts of mqtt-handler within one life of the add-on

ASSUME Assumptions ==
  /\ IdleOptions \subseteq BOOLEAN /\ IdleOptions # {}
  /\ MaxLines \in Nat /\ MaxStarts \in Nat \ {0}
  /\ Nas \notin Disks

VARIABLES
  addon,       \* "up", "stopping" (stopped by the user, or halted), "down"
  hd,          \* hd-idle | tee: "off" (not configured), "boot" (before mkfifo),
               \*   "opening" (tee waits for a reader), "writing", "dead"
  disk,        \* power state of each disk as hd-idle knows it
  lines,       \* lines of hd-idle not yet read: <<disk, status>>
  starts,      \* starts of mqtt-handler since the add-on started
  daemon,      \* "down", "loop", "raised" (ended by an exception)
  follow,      \* the daemon was given -i /tmp/hdidle.events
  at,          \* what the loop's thread does: "run", "open", "readline"
  ready,       \* queue of handles <<kind, task>>
  task,        \* "ready", "sleeping", "reading", "done", or "none"
  cancelled,   \* tasks that get CancelledError at their next step
  raised,      \* tasks that ended with an exception
  power,       \* devicePowerStatus
  announced,   \* sensors whose configuration this daemon has written
  config,      \* sensors whose configuration the broker retains
  shown        \* state of each POWER sensor at the broker

service == <<addon, starts>>
pipe == <<hd, disk, lines>>
loop == <<daemon, follow, at, ready, task, cancelled, raised>>
broker == <<announced, config, shown>>
vars == <<service, pipe, loop, power, broker>>

Status == {"spinup", "spindown"}
AllTasks == {"idle", "states", "device", "iostat", "samba"}

\* The sensors a task publishes: power_* from hd-idle, usage_* of a partition,
\* smart_*, iostat_*, and the users and connections of smbstatus.
SensorsOf(t) == {t} \X (IF t = "samba" THEN {Nas} ELSE Disks)

\* The tasks of a daemon, in the order run() creates them.
Tasks == IF follow THEN AllTasks ELSE AllTasks \ {"idle"}
CreationOrder(f) ==
  IF f THEN <<"idle", "states", "device", "iostat", "samba">>
       ELSE <<"states", "device", "iostat", "samba">>

\* sensorList
Sensors == UNION {SensorsOf(t) : t \in Tasks}

(* -------------------------------- broker ------------------------------- *)

\* set_state and update_state of ha_mqtt_discoverable: the configuration is
\* published, retained, before the first state and never again.
Publish(S) ==
  /\ announced' = announced \union S
  /\ config' = config \union (S \ announced)

(* ------------------------------- services ------------------------------ *)

Init ==
  /\ addon = "down" /\ starts = 0
  /\ hd = "off" /\ lines = <<>> /\ disk = [d \in Disks |-> "spinup"]
  /\ daemon = "down" /\ follow = FALSE /\ at = "run" /\ ready = <<>>
  /\ task = [t \in AllTasks |-> "none"] /\ cancelled = {} /\ raised = {}
  /\ power = [d \in Disks |-> "unknown"]
  /\ announced = {} /\ config = {} /\ shown = [d \in Disks |-> "unknown"]

\* The process of the daemon is gone, and its memory with it.
ProcessGone ==
  /\ daemon' = "down" /\ follow' = FALSE /\ at' = "run" /\ ready' = <<>>
  /\ task' = [t \in AllTasks |-> "none"] /\ cancelled' = {} /\ raised' = {}
  /\ power' = [d \in Disks |-> "unknown"] /\ announced' = {}

\* The add-on starts, with options the user may have changed meanwhile.  /tmp is
\* new, and hd-idle takes every disk to be spinning.
BootAddon(option) ==
  /\ addon = "down"
  /\ addon' = "up" /\ starts' = 0
  /\ hd' = (IF option THEN "boot" ELSE "off")
  /\ disk' = [d \in Disks |-> "spinup"] /\ lines' = <<>>
  /\ UNCHANGED <<loop, power, broker>>

\* hd-idle/run: the named pipe exists, hd-idle runs and tee opens the pipe, which
\* waits for a reader.
MakePipe ==
  /\ hd = "boot"
  /\ hd' = "opening"
  /\ UNCHANGED <<service, disk, lines, loop, power, broker>>

\* mqtt-handler/run and the daemon up to run(): -i is given when the pipe exists at
\* this moment.  s6 only orders the starts of the services, so it may not.
StartDaemon ==
  /\ addon = "up" /\ daemon = "down" /\ starts < MaxStarts
  /\ starts' = starts + 1
  /\ LET f == hd \in {"opening", "writing"}
         created == CreationOrder(f)
     IN  /\ daemon' = "loop" /\ follow' = f
         /\ ready' = [i \in DOMAIN created |-> <<"step", created[i]>>]
         /\ task' = [t \in AllTasks |-> IF t \in ToSet(created) THEN "ready" ELSE "none"]
  /\ UNCHANGED <<addon, pipe, at, cancelled, raised, power, broker>>

\* The user stops the add-on.
StopAddon ==
  /\ addon = "up"
  /\ addon' = "stopping"
  /\ UNCHANGED <<starts, pipe, loop, power, broker>>

\* SIGTERM of a stopping add-on, or a kill by the kernel.  The handlers of run()
\* are only installed once the TaskGroup has ended, so the process just ends; the
\* part of the pipe that readline had buffered is lost.  mqtt-handler/finish
\* cleans nothing up for these entities, and s6 restarts the service of an add-on
\* that is up.
KillDaemon ==
  /\ daemon = "loop"
  /\ ProcessGone
  /\ \E n \in 0 .. (IF at = "readline" THEN Len(lines) ELSE 0) :
       lines' = SubSeq(lines, n + 1, Len(lines))
  /\ UNCHANGED <<service, hd, disk, config, shown>>

\* Every service has ended.
AddonDown ==
  /\ addon = "stopping" /\ daemon # "loop"
  /\ addon' = "down" /\ hd' = "off" /\ lines' = <<>>
  /\ ProcessGone
  /\ UNCHANGED <<starts, disk, config, shown>>

(* -------------------------------- hd-idle ------------------------------ *)

\* hd-idle stops a disk, or sees one that was accessed again, and logs it; tee
\* copies the line into the pipe.  The image's tee ignores SIGPIPE: without a reader
\* the line is lost.
LogPower(d) ==
  /\ hd \in {"opening", "writing"}
  /\ LET status == IF disk[d] = "spinup" THEN "spindown" ELSE "spinup" IN
       /\ disk' = [disk EXCEPT ![d] = status]
       /\ IF hd = "opening" \/ at = "readline"
          THEN Len(lines) < MaxLines /\ lines' = Append(lines, <<d, status>>)
          ELSE UNCHANGED lines
  /\ UNCHANGED <<service, hd, loop, power, broker>>

\* hd-idle dies: tee comes to its end, run ends with an error and hd-idle/finish halts
\* the add-on.  While tee waits for a reader this shows only once there is one.
HdIdleDies ==
  /\ hd = "writing"
  /\ hd' = "dead" /\ addon' = "stopping"
  /\ UNCHANGED <<starts, disk, lines, loop, power, broker>>

(* ------------------------------ event loop ----------------------------- *)

Running == daemon = "loop" /\ at = "run" /\ ready # <<>>
Steps(t) == Running /\ Head(ready) = <<"step", t>>

\* The task is done; its callbacks join the queue.
Ends(t) ==
  /\ task' = [task EXCEPT ![t] = "done"]
  /\ ready' = Append(Tail(ready), <<"done", t>>)

\* What a task publishes in one cycle: SMART data only of the disks not known to be
\* spun down, everything else always.
Due(t) == {s \in SensorsOf(t) : t = "device" => power[s[2]] # "spindown"}

\* Mutant: a cycle that does not await: the while loop keeps the thread.
Cycle_NoAwait(t) ==
  /\ t # "idle" /\ Steps(t) /\ t \notin cancelled
  /\ Publish(Due(t))
  /\ UNCHANGED <<service, pipe, loop, power, shown>>

\* publish_states, publish_device_states, publish_iostate_states and
\* publish_samba_states: one turn of the while loop, up to its asyncio.sleep.
Cycle(t) ==
  /\ t # "idle" /\ Steps(t) /\ t \notin cancelled
  /\ Publish(Due(t))
  /\ task' = [task EXCEPT ![t] = "sleeping"]
  /\ ready' = Tail(ready)
  /\ UNCHANGED <<service, pipe, daemon, follow, at, cancelled, raised, power, shown>>

\* The partition is no longer mounted, the device is gone, a disk has no counters:
\* the exception ends the task in the middle of its cycle.
CycleRaises(t) ==
  /\ t \in {"states", "device", "iostat"} /\ Steps(t) /\ t \notin cancelled
  /\ Due(t) # {} /\ \E S \in SUBSET Due(t) : Publish(S)
  /\ Ends(t) /\ raised' = raised \union {t}
  /\ UNCHANGED <<service, pipe, daemon, follow, at, cancelled, power, shown>>

\* CancelledError is thrown into the task, which does not catch it.
EndsCancelled(t) ==
  /\ Steps(t) /\ t \in cancelled
  /\ Ends(t)
  /\ UNCHANGED <<service, pipe, daemon, follow, at, cancelled, raised, power, broker>>

\* A timer of asyncio.sleep expires.  The loop looks at its timers when it runs.
Wake(t) ==
  /\ daemon = "loop" /\ at = "run" /\ task[t] = "sleeping"
  /\ task' = [task EXCEPT ![t] = "ready"]
  /\ ready' = Append(ready, <<"step", t>>)
  /\ UNCHANGED <<service, pipe, daemon, follow, at, cancelled, raised, power, broker>>

\* publish_idle_states opens the pipe, which waits for a writer ...
OpenPipe ==
  /\ Steps("idle") /\ "idle" \notin cancelled
  /\ at' = "open" /\ ready' = Tail(ready)
  /\ task' = [task EXCEPT !["idle"] = "reading"]
  /\ UNCHANGED <<service, pipe, daemon, follow, cancelled, raised, power, broker>>

PipeOpened ==
  /\ daemon = "loop" /\ at = "open" /\ hd \in {"opening", "writing"}
  /\ at' = "readline" /\ hd' = "writing"
  /\ UNCHANGED <<service, disk, lines, daemon, follow, ready, task, cancelled, raised,
                 power, broker>>

\* Mutant: the status is kept with its newline.
ReadLine_Unstripped ==
  /\ daemon = "loop" /\ at = "readline" /\ lines # <<>>
  /\ LET d == Head(lines)[1] IN
       /\ power' = [power EXCEPT ![d] = "spindown\n"]
       /\ Publish({<<"idle", d>>})
       /\ shown' = [shown EXCEPT ![d] = "on"]
  /\ lines' = Tail(lines)
  /\ UNCHANGED <<service, hd, disk, loop>>

\* Mutant: the sensor is published before the status is recorded.
ReadLine_PublishFirst ==
  /\ daemon = "loop" /\ at = "readline" /\ lines # <<>>
  /\ LET d == Head(lines)[1] IN
       /\ shown' = [shown EXCEPT ![d] = IF power[d] # "spindown" THEN "on" ELSE "off"]
       /\ power' = [power EXCEPT ![d] = Head(lines)[2]]
       /\ Publish({<<"idle", d>>})
  /\ lines' = Tail(lines)
  /\ UNCHANGED <<service, hd, disk, loop>>

\* ... and for every line records the status, publishes the POWER sensor of that
\* disk, and reads again.
ReadLine ==
  /\ daemon = "loop" /\ at = "readline" /\ lines # <<>>
  /\ LET d == Head(lines)[1] IN
       /\ power' = [power EXCEPT ![d] = Head(lines)[2]]
       /\ Publish({<<"idle", d>>})
       /\ shown' = [shown EXCEPT ![d] = IF power'[d] # "spindown" THEN "on" ELSE "off"]
  /\ lines' = Tail(lines)
  /\ UNCHANGED <<service, hd, disk, loop>>

\* "Pipe Broken": the task ends, as if it had done its work.
PipeBroken ==
  /\ daemon = "loop" /\ at = "readline" /\ lines = <<>> /\ hd = "dead"
  /\ at' = "run"
  /\ task' = [task EXCEPT !["idle"] = "done"]
  /\ ready' = Append(ready, <<"done", "idle">>)
  /\ UNCHANGED <<service, pipe, daemon, follow, cancelled, raised, power, broker>>

\* A line that is no status of a disk: the exception ends the task and closes the pipe;
\* what readline had buffered is lost.
IdleRaises ==
  /\ daemon = "loop" /\ at = "readline"
  /\ at' = "run"
  /\ \E n \in 0 .. Len(lines) : lines' = SubSeq(lines, n + 1, Len(lines))
  /\ task' = [task EXCEPT !["idle"] = "done"]
  /\ ready' = Append(ready, <<"done", "idle">>)
  /\ raised' = raised \union {"idle"}
  /\ UNCHANGED <<service, hd, disk, daemon, follow, cancelled, power, broker>>

Alive == {t \in Tasks : task[t] # "done"}

\* TaskGroup: the first task that raised cancels the others, in any order.  A sleeping
\* task is woken for it, one that is ready gets it at its next step.
Abort(t) ==
  \E woken \in SetToSeqs({u \in Alive : task[u] = "sleeping"}) :
    /\ cancelled' = cancelled \union Alive
    /\ task' = [u \in AllTasks |-> IF u \in ToSet(woken) THEN "ready" ELSE task[u]]
    /\ ready' = Tail(ready) \o [i \in DOMAIN woken |-> <<"step", woken[i]>>]

\* Mutant: the callback deletes the sensors of the task that has ended, and only when it raised.
TaskDone_OwnSensors(t) ==
  /\ Running /\ Head(ready) = <<"done", t>>
  /\ IF t \in raised /\ cancelled = {}
     THEN Abort(t)
     ELSE ready' = Tail(ready) /\ UNCHANGED <<task, cancelled>>
  /\ config' = config \ (IF t \in raised THEN SensorsOf(t) ELSE {})
  /\ UNCHANGED <<service, pipe, daemon, follow, at, raised, power, announced, shown>>

\* Mutant: plain tasks instead of a TaskGroup: nobody cancels the others.
TaskDone_NoGroup(t) ==
  /\ Running /\ Head(ready) = <<"done", t>>
  /\ ready' = Tail(ready) /\ UNCHANGED <<task, cancelled>>
  /\ config' = config \ Sensors
  /\ UNCHANGED <<service, pipe, daemon, follow, at, raised, power, announced, shown>>

\* The callbacks of a task that is done.  doneCallback deletes every sensor, whatever
\* task has ended and however.
TaskDone(t) ==
  /\ Running /\ Head(ready) = <<"done", t>>
  /\ IF t \in raised /\ cancelled = {}
     THEN Abort(t)
     ELSE ready' = Tail(ready) /\ UNCHANGED <<task, cancelled>>
  /\ config' = config \ Sensors
  /\ UNCHANGED <<service, pipe, daemon, follow, at, raised, power, announced, shown>>

\* All tasks are done: the TaskGroup raises, asyncio.run ends with it, the process exits
\* with 1 and mqtt-handler/finish halts the add-on.
LoopRaises ==
  /\ daemon = "loop" /\ at = "run" /\ Alive = {} /\ ready = <<>>
  /\ daemon' = "raised" /\ addon' = "stopping"
  /\ UNCHANGED <<starts, pipe, follow, at, ready, task, cancelled, raised, power,
                 broker>>

LoopStep ==
  \/ \E t \in AllTasks : Cycle(t) \/ EndsCancelled(t) \/ TaskDone(t)
  \/ OpenPipe \/ PipeOpened \/ ReadLine \/ PipeBroken \/ LoopRaises

Next ==
  \/ \E option \in IdleOptions : BootAddon(option)
  \/ MakePipe \/ StartDaemon \/ StopAddon \/ KillDaemon \/ AddonDown
  \/ \E d \in Disks : LogPower(d)
  \/ HdIdleDies \/ IdleRaises
  \/ \E t \in AllTasks : Wake(t) \/ CycleRaises(t)
  \/ LoopStep

\* The daemon's thread and its timers go on, hd-idle gets to open its pipe.  Nothing is
\* assumed of the disks, the user or failures.
Spec ==
  /\ Init /\ [][Next]_vars
  /\ WF_vars(LoopStep)
  /\ WF_vars(MakePipe)
  /\ \A t \in AllTasks : WF_vars(Wake(t))

-----------------------------------------------------------------------------
(* Properties *)

\* Types of every variable; a task has at most one handle in the queue, and has one
\* exactly when it is ready or has just ended.
TypeOK ==
  /\ addon \in {"up", "stopping", "down"} /\ starts \in 0 .. MaxStarts
  /\ hd \in {"off", "boot", "opening", "writing", "dead"}
  /\ disk \in [Disks -> Status]
  /\ lines \in BoundedSeq(Disks \X Status, MaxLines)
  /\ daemon \in {"down", "loop", "raised"} /\ follow \in BOOLEAN
  /\ at \in {"run", "open", "readline"}
  /\ \A i \in DOMAIN ready : ready[i] \in {"step", "done"} \X AllTasks
  /\ \A i, j \in DOMAIN ready : ready[i][2] = ready[j][2] => i = j
  /\ task \in [AllTasks -> {"none", "ready", "sleeping", "reading", "done"}]
  /\ daemon = "loop" =>
       \A t \in Tasks : (<<"step", t>> \in ToSet(ready)) <=> (task[t] = "ready")
  /\ cancelled \subseteq AllTasks /\ raised \subseteq AllTasks
  /\ power \in [Disks -> Status \union {"unknown"}]
  /\ announced \subseteq Sensors /\ config \subseteq AllTasks \X (Disks \union {Nas})
  /\ shown \in [Disks -> {"unknown", "on", "off"}]

\* When the daemon dies of an exception, whichever task raised it and whatever the other
\* tasks were doing, the broker retains none of its sensors.
CrashLeavesNothing == daemon = "raised" => config \intersect Sensors = {}

\* Without hd-idle, once a sensor has been deleted no task publishes anything any more:
\* those still there only wait for their CancelledError.
DeletedIsOver ==
  daemon = "loop" /\ ~follow /\ announced \ config # {} => Alive \subseteq cancelled

\* While nothing restarts, a daemon that has read all lines shows each disk it has heard
\* of in the state hd-idle last gave it, and the others are spinning.
PowerShown ==
  at = "readline" /\ hd = "writing" /\ lines = <<>> /\ starts = 1 =>
    \A d \in Disks : IF <<"idle", d>> \in announced
                     THEN shown[d] = (IF disk[d] = "spindown" THEN "off" ELSE "on")
                     ELSE disk[d] = "spinup"

\* Without hd-idle every task comes round for ever, until the daemon ends or one has raised.
SensorsKeepComing ==
  LET Over == daemon # "loop" \/ follow \/ raised # {} IN
  \A t \in AllTasks \ {"idle"} :
    []<>(Over \/ task[t] = "sleeping") /\ []<>(Over \/ task[t] # "sleeping")

\* A running daemon sends the disk statistics, unless it ends or a task has raised.
DiskDataIsSent ==
  \A d \in Disks :
    daemon = "loop" ~> (<<"iostat", d>> \in announced \/ daemon # "loop" \/ raised # {})

=============================================================================
