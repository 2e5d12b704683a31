------------------------- MODULE MqttDaemon_proofs -------------------------
(***************************************************************************)
(* Proofs about MqttDaemon, for any disks, options, pipe and number of     *)
(* starts.                                                                 *)
(***************************************************************************)
EXTENDS MqttDaemon, FiniteSetTheorems, TLAPS

Handles == {"step", "done"} \X AllTasks

\* A queue of handles, at most one of each task.
Queue(q) ==
  /\ q \in Seq(Handles)
  /\ \A i, j \in DOMAIN q : q[i][2] = q[j][2] => i = j

\* The ranges of the variables.
Types ==
  /\ addon \in {"up", "stopping", "down"} /\ starts \in 0 .. MaxStarts
  /\ hd \in {"off", "boot", "opening", "writing", "dead"}
  /\ disk \in [Disks -> Status]
  /\ lines \in Seq(Disks \X Status) /\ Len(lines) <= MaxLines
  /\ daemon \in {"down", "loop", "raised"} /\ follow \in BOOLEAN
  /\ at \in {"run", "open", "readline"}
  /\ task \in [AllTasks -> {"none", "ready", "sleeping", "reading", "done"}]
  /\ cancelled \subseteq AllTasks /\ raised \subseteq AllTasks
  /\ power \in [Disks -> Status \union {"unknown"}]
  /\ announced \subseteq Sensors /\ config \subseteq AllTasks \X (Disks \union {Nas})
  /\ shown \in [Disks -> {"unknown", "on", "off"}]

\* A task has a step in the queue exactly when it is ready, and its callbacks only when
\* it is done; the loop's thread is held by a task that reads the pipe.
Handled ==
  /\ Queue(ready)
  /\ \A t \in AllTasks : /\ <<"step", t>> \in ToSet(ready) <=> task[t] = "ready"
                         /\ <<"done", t>> \in ToSet(ready) => task[t] = "done"
                         /\ task[t] = "reading" <=> t = "idle" /\ at # "run"

\* A daemon that is down has no state, and the processes of an add-on that is.
Stages ==
  /\ daemon = "down" => /\ follow = FALSE /\ at = "run" /\ ready = <<>>
                        /\ cancelled = {} /\ raised = {} /\ announced = {}
  /\ \A t \in AllTasks : task[t] = "none" <=> daemon = "down" \/ t \notin Tasks
  /\ addon = "down" \/ starts = 0 => daemon = "down"
  /\ daemon = "raised" => Alive = {} /\ ready = <<>>

\* Once the callbacks of all tasks have run the sensors are gone.
LastDeletes == daemon # "down" /\ Alive = {} /\ ready = <<>> => config \cap Sensors = {}

\* The group is cancelled as a whole.  Without hd-idle no task ends but by an exception
\* or its cancellation, and sensors are deleted only after that.
Group ==
  /\ cancelled # {} => Alive \subseteq cancelled
  /\ ~follow => \A t \in Tasks : task[t] = "done" => t \in raised \cup cancelled
  /\ ~follow /\ announced \ config # {} => Alive \subseteq cancelled

\* What is on its way from hd-idle to the broker about d ends with d's present state.
Tracks(d) ==
  \/ \E i \in DOMAIN lines : /\ lines[i] = <<d, disk[d]>>
                             /\ \A j \in DOMAIN lines : j > i => lines[j][1] # d
  \/ /\ \A i \in DOMAIN lines : lines[i][1] # d
     /\ IF <<"idle", d>> \in announced
        THEN shown[d] = (IF disk[d] = "spindown" THEN "off" ELSE "on")
        ELSE disk[d] = "spinup"

\* The pipe is opened for writing by the first daemon that opens it for reading, which
\* does so once.
Opened ==
  /\ at = "readline" => hd \in {"writing", "dead"}
  /\ hd = "writing" => /\ starts # 0
                       /\ starts = 1 /\ daemon = "loop" => at = "readline" \/ task["idle"] = "done"

\* It does for the first daemon until it has stopped reading.
Following ==
  /\ hd \in {"boot", "opening"} \/ (hd = "writing" /\ at = "readline")
  /\ starts = 0 \/ (starts = 1 /\ daemon = "loop")
  => \A d \in Disks : Tracks(d)

IInv == Types /\ Handled /\ Stages /\ LastDeletes /\ Group /\ Opened /\ Following

-----------------------------------------------------------------------------
(* Queues.                                                                 *)

\* A handle is a kind and a task.
LEMMA HandleParts ==
  /\ \A h \in Handles : h = <<h[1], h[2]>> /\ h[1] \in {"step", "done"} /\ h[2] \in AllTasks
  /\ \A k \in {"step", "done"}, t \in AllTasks : <<k, t>> \in Handles
  BY DEF Handles

\* The queue without its first handle holds the handles of the other tasks.
LEMMA TailOfQueue ==
  ASSUME NEW q, Queue(q), q # <<>>
  PROVE  /\ Queue(Tail(q)) /\ Head(q) \in Handles /\ Head(q) \in ToSet(q)
         /\ \A h \in Handles : h \in ToSet(Tail(q)) <=> h \in ToSet(q) /\ h[2] # Head(q)[2]
<1>1. /\ q \in Seq(Handles) /\ Len(q) \in Nat /\ Len(q) > 0 /\ DOMAIN q = 1..Len(q)
      /\ Head(q) = q[1] /\ q[1] \in Handles
      /\ \A i, j \in 1..Len(q) : q[i][2] = q[j][2] => i = j
  BY DEF Queue
<1>2. /\ Tail(q) \in Seq(Handles) /\ Len(Tail(q)) = Len(q) - 1
      /\ DOMAIN Tail(q) = 1..(Len(q) - 1)
      /\ \A i \in 1..(Len(q) - 1) : Tail(q)[i] = q[i + 1]
  BY <1>1
<1>3. Queue(Tail(q))
  BY <1>1, <1>2 DEF Queue
<1>4. ASSUME NEW h \in Handles
      PROVE  h \in ToSet(Tail(q)) <=> h \in ToSet(q) /\ h[2] # Head(q)[2]
  <2>1. ASSUME NEW i \in 1..(Len(q) - 1), Tail(q)[i] = h
        PROVE  i + 1 \in 1..Len(q) /\ q[i + 1] = h /\ h[2] # q[1][2]
    BY <1>1, <1>2, <2>1
  <2>2. ASSUME NEW i \in 1..Len(q), q[i] = h, h[2] # q[1][2]
        PROVE  i - 1 \in 1..(Len(q) - 1) /\ Tail(q)[i - 1] = h
    BY <1>1, <1>2, <2>2
  <2>3. h \in ToSet(Tail(q)) <=> \E i \in 1..(Len(q) - 1) : Tail(q)[i] = h
    BY <1>2 DEF ToSet
  <2>4. h \in ToSet(q) <=> \E i \in 1..Len(q) : q[i] = h
    BY <1>1 DEF ToSet
  <2> QED
    BY <1>1, <2>1, <2>2, <2>3, <2>4
<1>5. Head(q) \in ToSet(q)
  BY <1>1 DEF ToSet
<1> QED
  BY <1>1, <1>3, <1>4, <1>5

\* A handle of a task that has none is added at the end.
LEMMA AppendToQueue ==
  ASSUME NEW q, Queue(q), NEW h \in Handles, \A g \in Handles : g \in ToSet(q) => g[2] # h[2]
  PROVE  /\ Queue(Append(q, h)) /\ Append(q, h) # <<>>
         /\ \A g \in Handles : g \in ToSet(Append(q, h)) <=> g \in ToSet(q) \/ g = h
<1>1. /\ q \in Seq(Handles) /\ Len(q) \in Nat /\ DOMAIN q = 1..Len(q)
      /\ \A i \in 1..Len(q) : q[i] \in Handles /\ q[i] \in ToSet(q)
  BY DEF Queue, ToSet
<1>2. /\ Append(q, h) \in Seq(Handles) /\ DOMAIN Append(q, h) = 1..(Len(q) + 1)
      /\ Append(q, h)[Len(q) + 1] = h
      /\ \A i \in 1..Len(q) : Append(q, h)[i] = q[i]
  BY <1>1
<1>3. Queue(Append(q, h))
  BY <1>1, <1>2 DEF Queue
<1>4. Append(q, h) # <<>>
  BY <1>1
<1>5. \A g \in Handles : g \in ToSet(Append(q, h)) <=> g \in ToSet(q) \/ g = h
  BY <1>1, <1>2 DEF ToSet
<1> QED
  BY <1>3, <1>4, <1>5

\* A sequence of SetToSeqs lists a finite set, each element once.
LEMMA Listed ==
  ASSUME NEW S, IsFiniteSet(S), NEW s \in SetToSeqs(S)
  PROVE  /\ s \in Seq(S) /\ ToSet(s) = S
         /\ \A i, j \in DOMAIN s : s[i] = s[j] => i = j
<1> DEFINE n == Cardinality(S)
<1>1. n \in Nat
  BY FS_CardinalityType
<1>2. s \in [1..n -> S] /\ \A i, j \in 1..n : i # j => s[i] # s[j]
  BY DEF SetToSeqs
<1>3. s \in Injection(1..n, S)
  BY <1>2 DEF Injection, IsInjective
<1>4. Cardinality(1..n) = n
  BY <1>1, FS_Interval, SMT
<1>5. s \in Surjection(1..n, S)
  BY <1>3, <1>4, FS_Injection
<1>6. s \in Seq(S) /\ DOMAIN s = 1..n
  BY <1>1, <1>2
<1> HIDE DEF n
<1>7. ToSet(s) = S
  BY <1>2, <1>5, <1>6 DEF Surjection, ToSet
<1> QED
  BY <1>2, <1>6, <1>7

\* Steps of tasks that have no handle are added at the end.
LEMMA StepsAdded ==
  ASSUME NEW q, Queue(q), NEW s \in Seq(AllTasks),
         \A i, j \in DOMAIN s : s[i] = s[j] => i = j,
         \A g \in Handles : g \in ToSet(q) => g[2] \notin ToSet(s)
  PROVE  LET r == q \o [i \in DOMAIN s |-> <<"step", s[i]>>]
         IN  /\ Queue(r)
             /\ \A g \in Handles :
                  g \in ToSet(r) <=> g \in ToSet(q) \/ (g[1] = "step" /\ g[2] \in ToSet(s))
<1> DEFINE a == [i \in DOMAIN s |-> <<"step", s[i]>>]
           r == q \o a
<1>1. /\ q \in Seq(Handles) /\ Len(q) \in Nat /\ DOMAIN q = 1..Len(q)
      /\ \A i \in 1..Len(q) : q[i] \in Handles /\ q[i] \in ToSet(q)
      /\ \A i, j \in 1..Len(q) : q[i][2] = q[j][2] => i = j
  BY DEF Queue, ToSet
<1>2. /\ Len(s) \in Nat /\ DOMAIN s = 1..Len(s)
      /\ \A i \in 1..Len(s) : s[i] \in AllTasks /\ s[i] \in ToSet(s)
  BY DEF ToSet
<1>3. \A i \in 1..Len(s) : a[i] = <<"step", s[i]>> /\ a[i] \in Handles
  BY <1>2, HandleParts
<1>4. a \in Seq(Handles) /\ Len(a) = Len(s)
  BY <1>2, <1>3
<1>5. /\ r \in Seq(Handles) /\ Len(r) = Len(q) + Len(s) /\ DOMAIN r = 1..(Len(q) + Len(s))
      /\ \A i \in 1..Len(q) : r[i] = q[i]
      /\ \A i \in 1..Len(s) : r[Len(q) + i] = a[i]
      /\ \A i \in 1..(Len(q) + Len(s)) :
           i > Len(q) => r[i] = a[i - Len(q)] /\ i - Len(q) \in 1..Len(s)
  BY <1>1, <1>2, <1>4
<1>6. ASSUME NEW i \in 1..Len(q), NEW j \in 1..Len(s)
      PROVE  q[i][2] # a[j][2]
  BY <1>1, <1>2, <1>3
<1>7. \A i, j \in 1..Len(s) : a[i][2] = a[j][2] => i = j
  BY <1>2, <1>3
<1> HIDE DEF a
<1>8. Queue(r)
  <2> SUFFICES ASSUME NEW i \in 1..(Len(q) + Len(s)), NEW j \in 1..(Len(q) + Len(s)),
                      r[i][2] = r[j][2]
               PROVE  i = j
    BY <1>5 DEF Queue
  <2>1. CASE i <= Len(q) /\ j <= Len(q)
    BY <1>1, <1>2, <1>5, <2>1
  <2>2. CASE i <= Len(q) /\ j > Len(q)
    <3>1. i \in 1..Len(q) /\ j - Len(q) \in 1..Len(s) /\ r[i] = q[i] /\ r[j] = a[j - Len(q)]
      BY <1>1, <1>2, <1>5, <2>2
    <3> QED
      BY <1>6, <3>1
  <2>3. CASE i > Len(q) /\ j <= Len(q)
    <3>1. j \in 1..Len(q) /\ i - Len(q) \in 1..Len(s) /\ r[j] = q[j] /\ r[i] = a[i - Len(q)]
      BY <1>1, <1>2, <1>5, <2>3
    <3> QED
      BY <1>6, <3>1
  <2>4. CASE i > Len(q) /\ j > Len(q)
    <3>1. /\ i - Len(q) \in 1..Len(s) /\ j - Len(q) \in 1..Len(s)
          /\ r[i] = a[i - Len(q)] /\ r[j] = a[j - Len(q)]
      BY <1>5, <2>4
    <3>2. i - Len(q) = j - Len(q)
      BY <1>7, <3>1
    <3> QED
      BY <1>1, <3>2
  <2> QED
    BY <1>1, <1>2, <2>1, <2>2, <2>3, <2>4
<1>9. ASSUME NEW g \in Handles
      PROVE  g \in ToSet(r) <=> g \in ToSet(q) \/ (g[1] = "step" /\ g[2] \in ToSet(s))
  <2>1. g \in ToSet(r) <=> \E i \in 1..(Len(q) + Len(s)) : r[i] = g
    BY <1>5 DEF ToSet
  <2>2. g \in ToSet(q) <=> \E i \in 1..Len(q) : q[i] = g
    BY <1>1 DEF ToSet
  <2>3. g[2] \in ToSet(s) <=> \E i \in 1..Len(s) : s[i] = g[2]
    BY <1>2 DEF ToSet
  <2>4. ASSUME NEW i \in 1..Len(s), s[i] = g[2], g[1] = "step"
        PROVE  Len(q) + i \in 1..(Len(q) + Len(s)) /\ r[Len(q) + i] = g
    <3>1. a[i] = g
      BY <1>3, <2>4, HandleParts
    <3> QED
      BY <1>1, <1>2, <1>5, <3>1
  <2>5. ASSUME NEW i \in 1..(Len(q) + Len(s)), r[i] = g, i > Len(q)
        PROVE  i - Len(q) \in 1..Len(s) /\ s[i - Len(q)] = g[2] /\ g[1] = "step"
    BY <1>3, <1>5, <2>5
  <2>6. ASSUME NEW i \in 1..Len(q) PROVE i \in 1..(Len(q) + Len(s)) /\ r[i] = q[i]
    BY <1>1, <1>2, <1>5
  <2>7. ASSUME NEW i \in 1..(Len(q) + Len(s)), ~(i > Len(q)) PROVE i \in 1..Len(q)
    BY <1>1, <1>2, <2>7
  <2> QED
    BY <2>1, <2>2, <2>3, <2>4, <2>5, <2>6, <2>7
<1> QED
  BY <1>8, <1>9 DEF a

-----------------------------------------------------------------------------
(* Helpers of the steps.                                                   *)

\* What is left of the pipe's lines, and what a line adds.
LEMMA LinesType ==
  ASSUME Types
  PROVE  /\ \A n \in 0 .. Len(lines) :
              LET l == SubSeq(lines, n + 1, Len(lines))
              IN  l \in Seq(Disks \X Status) /\ Len(l) <= MaxLines
         /\ <<>> \in Seq(Disks \X Status) /\ Len(<<>>) <= MaxLines
<1>1. lines \in Seq(Disks \X Status) /\ Len(lines) \in Nat /\ Len(lines) <= MaxLines
  BY DEF Types
<1>2. ASSUME NEW n \in 0 .. Len(lines)
      PROVE  /\ SubSeq(lines, n + 1, Len(lines)) \in Seq(Disks \X Status)
             /\ Len(SubSeq(lines, n + 1, Len(lines))) <= MaxLines
  BY <1>1, <1>2, Assumptions
<1> QED
  BY <1>2, Assumptions

\* A task's sensors are of the daemon's; none but idle's are power sensors.
LEMMA SensorTypes ==
  ASSUME NEW t \in AllTasks
  PROVE  /\ Due(t) \subseteq SensorsOf(t)
         /\ SensorsOf(t) \subseteq {t} \X (Disks \union {Nas})
         /\ t \in Tasks => SensorsOf(t) \subseteq Sensors
  BY DEF Due, SensorsOf, Sensors

\* Publishing makes no sensor one that was deleted.
LEMMA Published ==
  ASSUME Types, NEW t \in Tasks, NEW S \in SUBSET SensorsOf(t), Publish(S), follow' = follow
  PROVE  /\ announced' \subseteq Sensors' /\ config' \subseteq AllTasks \X (Disks \union {Nas})
         /\ announced' \ config' \subseteq announced \ config
         /\ t # "idle" => \A d \in Disks :
              <<"idle", d>> \in announced' <=> <<"idle", d>> \in announced
<1>1. t \in AllTasks /\ Tasks' = Tasks
  BY DEF Tasks
<1>2. Sensors' = Sensors
  BY <1>1 DEF Sensors
<1>3. S \subseteq {t} \X (Disks \union {Nas}) /\ S \subseteq Sensors
  BY <1>1, SensorTypes
<1> QED
  BY <1>1, <1>2, <1>3 DEF Types, Publish

\* A handle is taken off the queue.
LEMMA Dequeued ==
  ASSUME Handled, Running, NEW t \in AllTasks, NEW k \in {"step", "done"}, Head(ready) = <<k, t>>
  PROVE  /\ Queue(Tail(ready)) /\ <<k, t>> \in ToSet(ready)
         /\ \A l \in {"step", "done"}, u \in AllTasks :
              <<l, u>> \in ToSet(Tail(ready)) <=> <<l, u>> \in ToSet(ready) /\ u # t
<1>1. Queue(ready) /\ ready # <<>> /\ Head(ready)[2] = t
  BY DEF Handled, Running
<1>2. /\ Queue(Tail(ready)) /\ <<k, t>> \in ToSet(ready)
      /\ \A h \in Handles : h \in ToSet(Tail(ready)) <=> h \in ToSet(ready) /\ h[2] # t
  BY <1>1, TailOfQueue
<1> QED
  BY <1>2, HandleParts

\* A handle is put at the end of a queue.
LEMMA Enqueued ==
  ASSUME NEW q, Queue(q), NEW t \in AllTasks, NEW k \in {"step", "done"},
         <<"step", t>> \notin ToSet(q), <<"done", t>> \notin ToSet(q)
  PROVE  /\ Queue(Append(q, <<k, t>>)) /\ Append(q, <<k, t>>) # <<>>
         /\ \A l \in {"step", "done"}, u \in AllTasks :
              <<l, u>> \in ToSet(Append(q, <<k, t>>)) <=> <<l, u>> \in ToSet(q) \/ (l = k /\ u = t)
<1>1. <<k, t>> \in Handles /\ <<k, t>>[2] = t
  BY HandleParts
<1>2. \A g \in Handles : g \in ToSet(q) => g[2] # <<k, t>>[2]
  BY <1>1, HandleParts
<1>3. /\ Queue(Append(q, <<k, t>>)) /\ Append(q, <<k, t>>) # <<>>
      /\ \A g \in Handles : g \in ToSet(Append(q, <<k, t>>)) <=> g \in ToSet(q) \/ g = <<k, t>>
  BY <1>1, <1>2, AppendToQueue
<1> QED
  BY <1>3, HandleParts

\* An empty queue.
LEMMA NothingQueued == Queue(<<>>) /\ ToSet(<<>>) = {}
  BY DEF Queue, ToSet

\* The tasks are few.
LEMMA TasksFinite == \A S : S \subseteq AllTasks => IsFiniteSet(S)
<1> DEFINE A == {"idle"} \cup {"states"}
           B == A \cup {"device"}
           C == B \cup {"iostat"}
           D == C \cup {"samba"}
<1>1. IsFiniteSet(A)
  BY FS_Singleton, FS_AddElement
<1>2. IsFiniteSet(B)
  BY <1>1, FS_AddElement
<1>3. IsFiniteSet(C)
  BY <1>2, FS_AddElement
<1>4. IsFiniteSet(D)
  BY <1>3, FS_AddElement
<1>5. AllTasks = D
  BY DEF AllTasks
<1> QED
  BY <1>4, <1>5, FS_Subset

-----------------------------------------------------------------------------
(* The queue, step by step.                                                *)

\* A task ends: its step goes, its callbacks come.
LEMMA EndsHandled ==
  ASSUME Types, Handled, NEW t \in AllTasks, Steps(t), Ends(t), UNCHANGED at
  PROVE  Handled' /\ task[t] = "ready" /\ ready' # <<>>
<1> DEFINE q == Tail(ready)
<1>1. /\ Queue(q) /\ <<"step", t>> \in ToSet(ready)
      /\ \A l \in {"step", "done"}, u \in AllTasks :
           <<l, u>> \in ToSet(q) <=> <<l, u>> \in ToSet(ready) /\ u # t
  BY Dequeued DEF Steps
<1>2. ready' = Append(q, <<"done", t>>)
  BY DEF Ends
<1> HIDE DEF q
<1>3. /\ Queue(ready') /\ ready' # <<>>
      /\ \A l \in {"step", "done"}, u \in AllTasks :
           <<l, u>> \in ToSet(ready') <=> <<l, u>> \in ToSet(q) \/ (l = "done" /\ u = t)
  BY <1>1, <1>2, Enqueued
<1>4. task[t] = "ready" /\ at = "run"
  BY <1>1 DEF Handled, Steps, Running
<1>5. \A u \in AllTasks : task'[u] = IF u = t THEN "done" ELSE task[u]
  BY DEF Types, Ends
<1> QED
  BY <1>1, <1>3, <1>4, <1>5 DEF Handled

\* A cycle: its step goes, and the task sleeps.
LEMMA CycleHandled ==
  ASSUME Types, Handled, NEW t \in AllTasks, Cycle(t)
  PROVE  Handled' /\ task[t] = "ready"
<1>1. /\ Queue(Tail(ready)) /\ <<"step", t>> \in ToSet(ready)
      /\ \A l \in {"step", "done"}, u \in AllTasks :
           <<l, u>> \in ToSet(Tail(ready)) <=> <<l, u>> \in ToSet(ready) /\ u # t
  BY Dequeued DEF Steps, Cycle
<1>2. task[t] = "ready" /\ at = "run" /\ at' = at /\ ready' = Tail(ready)
  BY <1>1 DEF Handled, Steps, Running, Cycle
<1>3. \A u \in AllTasks : task'[u] = IF u = t THEN "sleeping" ELSE task[u]
  BY DEF Types, Cycle
<1> QED
  BY <1>1, <1>2, <1>3 DEF Handled

\* The pipe is opened: the task holds the thread.
LEMMA OpenPipeHandled ==
  ASSUME Types, Handled, OpenPipe
  PROVE  Handled' /\ task["idle"] = "ready"
<1>0. "idle" \in AllTasks
  BY DEF AllTasks
<1>1. /\ Queue(Tail(ready)) /\ <<"step", "idle">> \in ToSet(ready)
      /\ \A l \in {"step", "done"}, u \in AllTasks :
           <<l, u>> \in ToSet(Tail(ready)) <=> <<l, u>> \in ToSet(ready) /\ u # "idle"
  BY <1>0, Dequeued DEF Steps, OpenPipe
<1>2. task["idle"] = "ready" /\ at' = "open" /\ ready' = Tail(ready) /\ at = "run"
  BY <1>0, <1>1 DEF Handled, OpenPipe, Steps, Running
<1>3. \A u \in AllTasks : task'[u] = IF u = "idle" THEN "reading" ELSE task[u]
  BY DEF Types, OpenPipe
<1> QED
  BY <1>0, <1>1, <1>2, <1>3 DEF Handled

\* A sleeping task is woken.
LEMMA WakeHandled ==
  ASSUME Types, Handled, NEW t \in AllTasks, Wake(t)
  PROVE  Handled' /\ ready' # <<>>
<1>1. /\ Queue(ready) /\ <<"step", t>> \notin ToSet(ready) /\ <<"done", t>> \notin ToSet(ready)
  BY DEF Handled, Wake
<1>2. /\ Queue(ready') /\ ready' # <<>>
      /\ \A l \in {"step", "done"}, u \in AllTasks :
           <<l, u>> \in ToSet(ready') <=> <<l, u>> \in ToSet(ready) \/ (l = "step" /\ u = t)
  BY <1>1, Enqueued DEF Wake
<1>3. \A u \in AllTasks : task'[u] = IF u = t THEN "ready" ELSE task[u]
  BY DEF Types, Wake
<1>4. at = "run" /\ at' = "run" /\ task[t] = "sleeping"
  BY DEF Wake
<1> QED
  BY <1>1, <1>2, <1>3, <1>4 DEF Handled

\* The task that read the pipe ends, and its thread is the loop's again.
LEMMA PipeBrokenHandled ==
  ASSUME Types, Handled, PipeBroken \/ IdleRaises
  PROVE  Handled' /\ task["idle"] = "reading" /\ ready' # <<>>
<1>0. "idle" \in AllTasks /\ task["idle"] = "reading"
  BY DEF AllTasks, Handled, PipeBroken, IdleRaises
<1>1. /\ Queue(ready) /\ <<"step", "idle">> \notin ToSet(ready)
      /\ <<"done", "idle">> \notin ToSet(ready)
  BY <1>0 DEF Handled
<1>2. /\ Queue(ready') /\ ready' # <<>>
      /\ \A l \in {"step", "done"}, u \in AllTasks :
           <<l, u>> \in ToSet(ready') <=> <<l, u>> \in ToSet(ready) \/ (l = "done" /\ u = "idle")
  <2>1. ready' = Append(ready, <<"done", "idle">>)
    BY DEF PipeBroken, IdleRaises
  <2> QED
    BY <1>0, <1>1, <2>1, Enqueued
<1>3. \A u \in AllTasks : task'[u] = IF u = "idle" THEN "done" ELSE task[u]
  BY DEF Types, PipeBroken, IdleRaises
<1> QED
  BY <1>0, <1>1, <1>2, <1>3 DEF Handled, PipeBroken, IdleRaises

\* The callbacks of a task: it has ended, and those they wake have a step each.
LEMMA TaskDoneHandled ==
  ASSUME Types, Handled, NEW t \in AllTasks, TaskDone(t)
  PROVE  /\ Handled' /\ task[t] = "done"
         /\ \A u \in AllTasks : task'[u] = task[u] \/ (task[u] = "sleeping" /\ task'[u] = "ready")
         /\ task' \in [AllTasks -> {"none", "ready", "sleeping", "reading", "done"}]
<1>1. /\ Queue(Tail(ready)) /\ <<"done", t>> \in ToSet(ready)
      /\ \A l \in {"step", "done"}, u \in AllTasks :
           <<l, u>> \in ToSet(Tail(ready)) <=> <<l, u>> \in ToSet(ready) /\ u # t
  BY Dequeued DEF TaskDone
<1>2. task[t] = "done" /\ at' = at
  BY <1>1 DEF Handled, TaskDone
<1>3. CASE ready' = Tail(ready) /\ UNCHANGED <<task, cancelled>>
  BY <1>1, <1>2, <1>3 DEF Handled, Types
<1>4. CASE Abort(t)
  <2> DEFINE S == {u \in Alive : task[u] = "sleeping"}
  <2>0. PICK s \in SetToSeqs(S) :
          /\ ready' = Tail(ready) \o [i \in DOMAIN s |-> <<"step", s[i]>>]
          /\ task' = [u \in AllTasks |-> IF u \in ToSet(s) THEN "ready" ELSE task[u]]
    BY <1>4 DEF Abort
  <2>1. S \subseteq AllTasks
    BY DEF Alive, Tasks
  <2>2. s \in Seq(S) /\ ToSet(s) = S /\ \A i, j \in DOMAIN s : s[i] = s[j] => i = j
    BY <2>1, Listed, TasksFinite
  <2>3. /\ ready' = Tail(ready) \o [i \in DOMAIN s |-> <<"step", s[i]>>]
        /\ task' = [u \in AllTasks |-> IF u \in S THEN "ready" ELSE task[u]]
    BY <2>0, <2>2
  <2>4. s \in Seq(AllTasks)
    BY <2>1, <2>2
  <2>5. \A g \in Handles : g \in ToSet(Tail(ready)) => g[2] \notin ToSet(s)
    <3> SUFFICES ASSUME NEW l \in {"step", "done"}, NEW u \in S
                 PROVE  <<l, u>> \notin ToSet(Tail(ready))
      BY <2>2, HandleParts
    <3>1. u \in AllTasks /\ task[u] = "sleeping"
      BY <2>1
    <3> QED
      BY <1>1, <3>1 DEF Handled
  <2>6. /\ Queue(ready')
        /\ \A g \in Handles : g \in ToSet(ready') <=>
             g \in ToSet(Tail(ready)) \/ (g[1] = "step" /\ g[2] \in ToSet(s))
    BY <1>1, <2>2, <2>3, <2>4, <2>5, StepsAdded
  <2>7. \A l \in {"step", "done"}, u \in AllTasks :
          <<l, u>> \in ToSet(ready') <=>
            (<<l, u>> \in ToSet(ready) /\ u # t) \/ (l = "step" /\ u \in S)
    BY <1>1, <2>2, <2>6, HandleParts
  <2> QED
    BY <1>1, <1>2, <2>3, <2>6, <2>7 DEF Handled, Types
<1> QED
  BY <1>2, <1>3, <1>4 DEF TaskDone

\* run() creates each task once.
LEMMA Created ==
  ASSUME NEW f \in BOOLEAN
  PROVE  /\ CreationOrder(f) \in Seq(AllTasks)
         /\ ToSet(CreationOrder(f)) = IF f THEN AllTasks ELSE AllTasks \ {"idle"}
         /\ \A i, j \in DOMAIN CreationOrder(f) :
              CreationOrder(f)[i] = CreationOrder(f)[j] => i = j
<1>1. CASE f
  <2> DEFINE c == <<"idle", "states", "device", "iostat", "samba">>
  <2>1. CreationOrder(f) = c
    BY <1>1 DEF CreationOrder
  <2>2. c \in Seq(AllTasks) /\ DOMAIN c = 1..5
    BY DEF AllTasks
  <2>3. \A i \in 1..5 : i \in {1, 2, 3, 4, 5}
    OBVIOUS
  <2>4. c[1] = "idle" /\ c[2] = "states" /\ c[3] = "device" /\ c[4] = "iostat" /\ c[5] = "samba"
    OBVIOUS
  <2> HIDE DEF c
  <2>5. \A i, j \in 1..5 : c[i] = c[j] => i = j
    BY <2>3, <2>4
  <2>6. ToSet(c) = AllTasks
    BY <2>2, <2>3, <2>4 DEF AllTasks, ToSet
  <2> QED
    BY <1>1, <2>1, <2>2, <2>5, <2>6
<1>2. CASE ~f
  <2> DEFINE c == <<"states", "device", "iostat", "samba">>
  <2>1. CreationOrder(f) = c
    BY <1>2 DEF CreationOrder
  <2>2. c \in Seq(AllTasks) /\ DOMAIN c = 1..4
    BY DEF AllTasks
  <2>3. \A i \in 1..4 : i \in {1, 2, 3, 4}
    OBVIOUS
  <2>4. c[1] = "states" /\ c[2] = "device" /\ c[3] = "iostat" /\ c[4] = "samba"
    OBVIOUS
  <2> HIDE DEF c
  <2>5. \A i, j \in 1..4 : c[i] = c[j] => i = j
    BY <2>3, <2>4
  <2>6. ToSet(c) = AllTasks \ {"idle"}
    BY <2>2, <2>3, <2>4 DEF AllTasks, ToSet
  <2> QED
    BY <1>2, <2>1, <2>2, <2>5, <2>6
<1> QED
  BY <1>1, <1>2

\* A new daemon: every task it has is ready.
LEMMA StartHandled ==
  ASSUME Types, Handled, Stages, StartDaemon
  PROVE  /\ Handled' /\ ready' # <<>> /\ follow' \in BOOLEAN
         /\ \A t \in AllTasks : task'[t] = IF t \in Tasks' THEN "ready" ELSE "none"
         /\ task' \in [AllTasks -> {"none", "ready", "sleeping", "reading", "done"}]
<1> DEFINE f == hd \in {"opening", "writing"}
           s == CreationOrder(f)
<1>1. /\ follow' = f
      /\ ready' = [i \in DOMAIN s |-> <<"step", s[i]>>]
      /\ task' = [t \in AllTasks |-> IF t \in ToSet(s) THEN "ready" ELSE "none"]
  BY DEF StartDaemon
<1>2. f \in BOOLEAN
  OBVIOUS
<1>3. Tasks' = IF f THEN AllTasks ELSE AllTasks \ {"idle"}
  BY <1>1 DEF Tasks
<1> HIDE DEF f
<1>4. /\ s \in Seq(AllTasks) /\ ToSet(s) = Tasks'
      /\ \A i, j \in DOMAIN s : s[i] = s[j] => i = j
  BY <1>2, <1>3, Created
<1>5. "states" \in ToSet(s)
  BY <1>3, <1>4 DEF AllTasks
<1> HIDE DEF s
<1>6. /\ Queue(<<>> \o ready')
      /\ \A g \in Handles : g \in ToSet(<<>> \o ready') <=>
           g \in ToSet(<<>>) \/ (g[1] = "step" /\ g[2] \in ToSet(s))
  BY <1>1, <1>4, StepsAdded, NothingQueued
<1>7. <<>> \o ready' = ready'
  <2>1. \A i \in 1..Len(s) : s[i] \in AllTasks
    BY <1>4
  <2>2. ready' \in Seq(Handles)
    BY <1>1, <1>4, <2>1, HandleParts
  <2> QED
    BY <2>2
<1>8. \A l \in {"step", "done"}, u \in AllTasks :
        <<l, u>> \in ToSet(ready') <=> l = "step" /\ u \in Tasks'
  BY <1>4, <1>6, <1>7, HandleParts, NothingQueued
<1>9. ready' # <<>>
  BY <1>5, <1>4, <1>8, NothingQueued DEF AllTasks
<1>10. at = "run" /\ at' = "run"
  BY DEF StartDaemon, Stages
<1>11. \A t \in AllTasks : task'[t] = IF t \in Tasks' THEN "ready" ELSE "none"
  BY <1>1, <1>4
<1>12. Handled'
  BY <1>6, <1>7, <1>8, <1>10, <1>11 DEF Handled
<1> QED
  BY <1>1, <1>2, <1>9, <1>11, <1>12

\* The process is gone.
LEMMA GoneHandled ==
  ASSUME ProcessGone
  PROVE  Handled'
  BY NothingQueued DEF ProcessGone, Handled

\* Every step keeps the queue.
LEMMA HandledNext ==
  ASSUME Types, Handled, Stages, [Next]_vars
  PROVE  Handled'
<1>1. CASE UNCHANGED <<ready, task, at>>
  BY <1>1 DEF Handled
<1>2. ASSUME \/ UNCHANGED vars \/ MakePipe \/ StopAddon \/ HdIdleDies \/ ReadLine \/ LoopRaises
             \/ \E option \in IdleOptions : BootAddon(option)
             \/ \E d \in Disks : LogPower(d)
      PROVE  UNCHANGED <<ready, task, at>>
  BY <1>2 DEF vars, loop, MakePipe, StopAddon, HdIdleDies, ReadLine, LoopRaises, BootAddon,
              LogPower
<1>3. CASE PipeOpened
  BY <1>3 DEF PipeOpened, Handled
<1>4. CASE KillDaemon \/ AddonDown
  BY <1>4, GoneHandled DEF KillDaemon, AddonDown
<1>5. ASSUME NEW t \in AllTasks, EndsCancelled(t) \/ CycleRaises(t) PROVE Handled'
  BY <1>5, EndsHandled DEF EndsCancelled, CycleRaises
<1> QED
  BY <1>1, <1>2, <1>3, <1>4, <1>5, StartHandled, CycleHandled, OpenPipeHandled, WakeHandled,
     PipeBrokenHandled, TaskDoneHandled DEF Next, LoopStep

-----------------------------------------------------------------------------
(* Types, the group and the sensors, step by step.                         *)

\* What happens outside the daemon leaves its group alone.
LEMMA GroupAlone ==
  ASSUME Stages, LastDeletes, Group, UNCHANGED <<loop, broker>>,
         addon' = "down" \/ starts' = 0 => daemon = "down"
  PROVE  Stages' /\ LastDeletes' /\ Group'
<1>1. Tasks' = Tasks /\ Alive' = Alive /\ Sensors' = Sensors
  BY DEF Tasks, Alive, Sensors, loop
<1>2. Stages'
  BY <1>1 DEF Stages, loop, broker
<1>3. LastDeletes' /\ Group'
  BY <1>1 DEF LastDeletes, Group, loop, broker
<1> QED
  BY <1>2, <1>3

\* A daemon that is gone has nothing.
LEMMA GroupGone ==
  ASSUME ProcessGone
  PROVE  Stages' /\ LastDeletes' /\ Group'
<1>1. /\ daemon' = "down" /\ follow' = FALSE /\ at' = "run" /\ ready' = <<>>
      /\ cancelled' = {} /\ raised' = {} /\ announced' = {}
      /\ \A t \in AllTasks : task'[t] = "none"
  BY DEF ProcessGone
<1>2. Tasks' \subseteq AllTasks
  BY DEF Tasks
<1> QED
  BY <1>1, <1>2 DEF Stages, LastDeletes, Group

\* A new one has every task ready.
LEMMA GroupStarts ==
  ASSUME Types, Handled, Stages, StartDaemon
  PROVE  Types' /\ Stages' /\ LastDeletes' /\ Group'
<1>1. /\ ready' # <<>> /\ follow' \in BOOLEAN
      /\ \A t \in AllTasks : task'[t] = IF t \in Tasks' THEN "ready" ELSE "none"
      /\ task' \in [AllTasks -> {"none", "ready", "sleeping", "reading", "done"}]
  BY StartHandled
<1>2. /\ daemon' = "loop" /\ addon' = "up" /\ at' = at /\ cancelled' = {} /\ raised' = {}
      /\ announced' = {} /\ starts' = starts + 1 /\ starts < MaxStarts
      /\ UNCHANGED <<pipe, power, config, shown>>
  BY DEF StartDaemon, Stages, broker
<1>3. starts' \in 0 .. MaxStarts /\ starts' # 0
  BY <1>2, Assumptions DEF Types
<1>4. Tasks' \subseteq AllTasks
  BY DEF Tasks
<1>5. Types'
  BY <1>1, <1>2, <1>3 DEF Types, pipe
<1>6. Stages'
  BY <1>1, <1>2, <1>3, <1>4 DEF Stages
<1>7. LastDeletes' /\ Group'
  BY <1>1, <1>2, <1>4 DEF LastDeletes, Group
<1> QED
  BY <1>5, <1>6, <1>7

\* A step of the loop in which no task comes to life again and none ends without an
\* exception or a cancellation.
LEMMA GroupGoesOn ==
  ASSUME Stages, LastDeletes, Group, daemon = "loop",
         UNCHANGED <<daemon, follow, addon, starts, cancelled>>, raised \subseteq raised',
         \A u \in AllTasks : /\ task'[u] = "none" <=> task[u] = "none"
                             /\ task[u] = "done" => task'[u] = "done"
                             /\ task'[u] = "done" /\ ~follow =>
                                  task[u] = "done" \/ u \in raised' \cup cancelled,
         announced' \ config' \subseteq announced \ config,
         ready' # <<>> \/ \E u \in Tasks : task'[u] # "done"
  PROVE  Stages' /\ LastDeletes' /\ Group'
<1>1. Tasks' = Tasks /\ Tasks \subseteq AllTasks
  BY DEF Tasks
<1>2. Alive' \subseteq Alive
  BY <1>1 DEF Alive
<1>3. Stages'
  BY <1>1 DEF Stages
<1>4. LastDeletes'
  BY <1>1 DEF LastDeletes, Alive
<1>5. Group'
  BY <1>1, <1>2 DEF Group
<1> QED
  BY <1>3, <1>4, <1>5

\* A turn of a task's loop, or one that an exception ends.
LEMMA CycleKeeps ==
  ASSUME Types, Handled, Stages, LastDeletes, Group, NEW t \in AllTasks, Cycle(t) \/ CycleRaises(t)
  PROVE  /\ Types' /\ Stages' /\ LastDeletes' /\ Group'
         /\ \A d \in Disks : <<"idle", d>> \in announced' <=> <<"idle", d>> \in announced
<1>1. daemon = "loop" /\ task[t] = "ready"
  BY CycleHandled, EndsHandled DEF Cycle, CycleRaises, Steps, Running
<1>2. t \in Tasks /\ t # "idle"
  BY <1>1 DEF Stages, Cycle, CycleRaises
<1>3. \E S \in SUBSET SensorsOf(t) : Publish(S)
  BY SensorTypes DEF Cycle, CycleRaises
<1>4. follow' = follow
  BY DEF Cycle, CycleRaises
<1>5. /\ announced' \subseteq Sensors' /\ config' \subseteq AllTasks \X (Disks \union {Nas})
      /\ announced' \ config' \subseteq announced \ config
      /\ \A d \in Disks : <<"idle", d>> \in announced' <=> <<"idle", d>> \in announced
  BY <1>2, <1>3, <1>4, Published
<1>6. CASE Cycle(t)
  <2>1. /\ task' = [task EXCEPT ![t] = "sleeping"]
        /\ UNCHANGED <<service, pipe, daemon, follow, at, cancelled, raised, power, shown>>
    BY <1>6 DEF Cycle
  <2>2. Types'
    BY <1>5, <2>1 DEF Types, service, pipe
  <2>3. \A u \in AllTasks : task'[u] = IF u = t THEN "sleeping" ELSE task[u]
    BY <2>1 DEF Types
  <2>4. Stages' /\ LastDeletes' /\ Group'
    BY <1>1, <1>2, <1>5, <2>1, <2>3, GroupGoesOn DEF service
  <2> QED
    BY <1>5, <2>2, <2>4
<1>7. CASE CycleRaises(t)
  <2>1. /\ task' = [task EXCEPT ![t] = "done"] /\ raised' = raised \union {t}
        /\ UNCHANGED <<service, pipe, daemon, follow, at, cancelled, power, shown>>
    BY <1>7 DEF CycleRaises, Ends
  <2>2. Types'
    BY <1>5, <2>1 DEF Types, service, pipe
  <2>3. \A u \in AllTasks : task'[u] = IF u = t THEN "done" ELSE task[u]
    BY <2>1 DEF Types
  <2>4. ready' # <<>>
    BY <1>7, EndsHandled DEF CycleRaises
  <2>5. Stages' /\ LastDeletes' /\ Group'
    BY <1>1, <1>2, <1>5, <2>1, <2>3, <2>4, GroupGoesOn DEF service
  <2> QED
    BY <1>5, <2>2, <2>5
<1> QED
  BY <1>6, <1>7

\* A task is cancelled, woken, or opens the pipe, or it has read its end.
LEMMA TaskKeeps ==
  ASSUME Types, Handled, Stages, LastDeletes, Group, NEW t \in AllTasks,
         \/ EndsCancelled(t) \/ Wake(t)
         \/ t = "idle" /\ (OpenPipe \/ PipeBroken)
  PROVE  Types' /\ Stages' /\ LastDeletes' /\ Group' /\ announced' = announced
<1>1. /\ daemon = "loop"
      /\ UNCHANGED <<service, pipe, daemon, follow, cancelled, raised, power, broker>>
      /\ at' \in {"run", "open", "readline"}
  BY DEF EndsCancelled, Wake, OpenPipe, PipeBroken, Steps, Running, Types
<1>2. /\ task[t] \in {"ready", "sleeping", "reading"}
      /\ ready' # <<>> \/ task'[t] # "done"
      /\ \E s \in {"done", "ready", "reading"} :
           /\ task' = [task EXCEPT ![t] = s]
           /\ s = "done" => t \in cancelled \/ t = "idle"
  <2>1. CASE EndsCancelled(t)
    BY <2>1, EndsHandled DEF EndsCancelled, Ends
  <2>2. CASE Wake(t)
    BY <2>2, WakeHandled DEF Wake
  <2>3. CASE t = "idle" /\ OpenPipe
    <3>1. task["idle"] = "ready" /\ task' = [task EXCEPT !["idle"] = "reading"]
      BY <2>3, OpenPipeHandled DEF OpenPipe
    <3>2. task'["idle"] = "reading"
      BY <2>3, <3>1 DEF Types
    <3> QED
      BY <2>3, <3>1, <3>2
  <2>4. CASE t = "idle" /\ PipeBroken
    BY <2>4, PipeBrokenHandled DEF PipeBroken
  <2> QED
    BY <2>1, <2>2, <2>3, <2>4
<1>3. t \in Tasks
  BY <1>1, <1>2 DEF Stages
<1>4. t = "idle" => follow
  BY <1>3 DEF Tasks
<1>5. Sensors' = Sensors
  BY <1>1 DEF Sensors, Tasks
<1>6. Types'
  BY <1>1, <1>2, <1>5 DEF Types, service, pipe, broker
<1>7. PICK s \in {"done", "ready", "reading"} :
        /\ \A u \in AllTasks : task'[u] = IF u = t THEN s ELSE task[u]
        /\ s = "done" => t \in cancelled \/ t = "idle"
  BY <1>2 DEF Types
<1>8. Stages' /\ LastDeletes' /\ Group'
  BY <1>1, <1>2, <1>3, <1>4, <1>7, GroupGoesOn DEF service, broker
<1> QED
  BY <1>1, <1>6, <1>8 DEF broker

\* The pipe opens, or a line comes.
LEMMA ReadKeeps ==
  ASSUME Types, Handled, Stages, LastDeletes, Group, PipeOpened \/ ReadLine
  PROVE  Types' /\ Stages' /\ LastDeletes' /\ Group'
<1>1. /\ daemon = "loop" /\ at # "run"
      /\ UNCHANGED <<service, disk, daemon, follow, ready, task, cancelled, raised>>
  BY DEF PipeOpened, ReadLine, loop
<1>2. "idle" \in AllTasks /\ task["idle"] = "reading"
  BY <1>1 DEF AllTasks, Handled
<1>3. "idle" \in Tasks
  BY <1>1, <1>2 DEF Stages
<1>4. Sensors' = Sensors
  BY <1>1 DEF Sensors, Tasks
<1>5. CASE PipeOpened
  <2>1. Types'
    BY <1>1, <1>4, <1>5 DEF Types, PipeOpened, service, broker
  <2>2. Stages' /\ LastDeletes' /\ Group'
    BY <1>1, <1>2, <1>3, <1>5, GroupGoesOn DEF PipeOpened, service, broker
  <2> QED
    BY <2>1, <2>2
<1>6. CASE ReadLine
  <2> DEFINE d == Head(lines)[1]
  <2>1. /\ lines \in Seq(Disks \X Status) /\ Len(lines) \in Nat /\ lines # <<>>
        /\ Len(lines) <= MaxLines
    BY <1>6 DEF Types, ReadLine
  <2>2. Head(lines) \in Disks \X Status /\ Tail(lines) \in Seq(Disks \X Status)
    BY <2>1
  <2>3. Len(Tail(lines)) <= MaxLines
    BY <2>1, Assumptions
  <2>4. d \in Disks /\ Head(lines)[2] \in Status
    BY <2>2
  <2>5. /\ power' = [power EXCEPT ![d] = Head(lines)[2]] /\ Publish({<<"idle", d>>})
        /\ shown' = [shown EXCEPT ![d] = IF power'[d] # "spindown" THEN "on" ELSE "off"]
        /\ lines' = Tail(lines) /\ hd' = hd /\ at' = at
    BY <1>6 DEF ReadLine, loop
  <2> HIDE DEF d
  <2>6. {<<"idle", d>>} \subseteq SensorsOf("idle")
    BY <2>4 DEF SensorsOf
  <2>7. /\ announced' \subseteq Sensors' /\ config' \subseteq AllTasks \X (Disks \union {Nas})
        /\ announced' \ config' \subseteq announced \ config
    BY <1>1, <1>3, <2>5, <2>6, Published
  <2>8. power' \in [Disks -> Status \union {"unknown"}]
    BY <2>4, <2>5 DEF Types
  <2>9. shown' \in [Disks -> {"unknown", "on", "off"}]
    BY <2>4, <2>5 DEF Types
  <2>10. Types'
    BY <1>1, <2>2, <2>3, <2>5, <2>7, <2>8, <2>9 DEF Types, service
  <2>11. Stages' /\ LastDeletes' /\ Group'
    BY <1>1, <1>2, <1>3, <2>7, GroupGoesOn DEF service
  <2> QED
    BY <2>10, <2>11
<1> QED
  BY <1>5, <1>6

\* The reader of the pipe raises.
LEMMA IdleRaisesKeeps ==
  ASSUME Types, Handled, Stages, LastDeletes, Group, IdleRaises
  PROVE  Types' /\ Stages' /\ LastDeletes' /\ Group'
<1>1. /\ daemon = "loop" /\ at' = "run" /\ raised' = raised \cup {"idle"}
      /\ task' = [task EXCEPT !["idle"] = "done"]
      /\ UNCHANGED <<service, hd, disk, daemon, follow, cancelled, power, broker>>
  BY DEF IdleRaises
<1>2. "idle" \in AllTasks /\ task["idle"] = "reading" /\ ready' # <<>>
  BY PipeBrokenHandled DEF AllTasks
<1>3. lines' \in Seq(Disks \X Status) /\ Len(lines') <= MaxLines
  BY LinesType DEF IdleRaises
<1>4. Sensors' = Sensors
  BY <1>1 DEF Sensors, Tasks
<1>5. Types'
  BY <1>1, <1>2, <1>3, <1>4 DEF Types, service, broker
<1>6. \A u \in AllTasks : task'[u] = IF u = "idle" THEN "done" ELSE task[u]
  BY <1>1 DEF Types
<1>7. Stages' /\ LastDeletes' /\ Group'
  BY <1>1, <1>2, <1>6, GroupGoesOn DEF service, broker
<1> QED
  BY <1>5, <1>7

\* The callbacks delete the sensors, and cancel the group when it is the first exception.
LEMMA TaskDoneKeeps ==
  ASSUME Types, Handled, Stages, LastDeletes, Group, NEW t \in AllTasks, TaskDone(t)
  PROVE  Types' /\ Stages' /\ LastDeletes' /\ Group' /\ announced' = announced
<1>1. /\ task[t] = "done"
      /\ \A u \in AllTasks : task'[u] = task[u] \/ (task[u] = "sleeping" /\ task'[u] = "ready")
      /\ task' \in [AllTasks -> {"none", "ready", "sleeping", "reading", "done"}]
  BY TaskDoneHandled
<1>2. /\ daemon = "loop" /\ config' = config \ Sensors
      /\ UNCHANGED <<service, pipe, daemon, follow, at, raised, power, announced, shown>>
  BY DEF TaskDone, Running
<1>3. /\ Tasks' = Tasks /\ Tasks \subseteq AllTasks /\ Sensors' = Sensors
      /\ Alive' = Alive /\ Alive \subseteq AllTasks
  <2>1. Tasks' = Tasks /\ Tasks \subseteq AllTasks
    BY <1>2 DEF Tasks
  <2> QED
    BY <1>1, <2>1 DEF Sensors, Alive
<1>4. t \in Tasks
  BY <1>1, <1>2 DEF Stages
<1>5. \/ cancelled' = cancelled /\ ~(t \in raised /\ cancelled = {})
      \/ cancelled' = cancelled \cup Alive /\ t \in raised /\ cancelled = {}
  BY DEF TaskDone, Abort
<1>6. Types'
  BY <1>1, <1>2, <1>3, <1>5 DEF Types, service, pipe
<1>7. Stages'
  BY <1>1, <1>2, <1>3 DEF Stages, service
<1>8. LastDeletes'
  BY <1>2, <1>3 DEF LastDeletes
<1>9. Group'
  <2>1. cancelled' # {} => Alive' \subseteq cancelled'
    BY <1>3, <1>5 DEF Group
  <2>2. ~follow => t \in raised \cup cancelled
    BY <1>1, <1>4 DEF Group
  <2>3. ~follow => Alive' \subseteq cancelled'
    BY <1>3, <1>5, <2>1, <2>2
  <2>4. ~follow' => \A u \in Tasks' : task'[u] = "done" => u \in raised' \cup cancelled'
    BY <1>1, <1>2, <1>3, <1>5 DEF Group
  <2> QED
    BY <1>2, <2>1, <2>3, <2>4 DEF Group
<1> QED
  BY <1>2, <1>6, <1>7, <1>8, <1>9

\* The group's exception ends the daemon.
LEMMA RaisesKeeps ==
  ASSUME Types, Handled, Stages, LastDeletes, Group, LoopRaises
  PROVE  Types' /\ Stages' /\ LastDeletes' /\ Group'
<1>1. /\ daemon = "loop" /\ daemon' = "raised" /\ Alive = {} /\ ready = <<>>
      /\ addon' = "stopping"
      /\ UNCHANGED <<starts, pipe, follow, at, ready, task, cancelled, raised, power, broker>>
  BY DEF LoopRaises
<1>2. Tasks' = Tasks /\ Alive' = Alive /\ Sensors' = Sensors
  BY <1>1 DEF Tasks, Alive, Sensors
<1>3. Types'
  BY <1>1, <1>2 DEF Types, pipe, broker
<1>4. Stages'
  BY <1>1, <1>2 DEF Stages
<1>5. LastDeletes' /\ Group'
  BY <1>1, <1>2 DEF LastDeletes, Group, broker
<1> QED
  BY <1>3, <1>4, <1>5

-----------------------------------------------------------------------------
(* What hd-idle says, step by step.                                        *)

\* A step that touches neither hd-idle's side nor the POWER sensors.
LEMMA StillFollowing ==
  ASSUME Following,
         UNCHANGED <<hd, starts, disk, lines, shown, daemon>>,
         at' = "readline" => at = "readline",
         \A d \in Disks : <<"idle", d>> \in announced' <=> <<"idle", d>> \in announced
  PROVE  Following'
<1>1. ASSUME NEW d \in Disks, Tracks(d) PROVE Tracks(d)'
  <2>1. <<"idle", d>> \in announced' <=> <<"idle", d>> \in announced
    OBVIOUS
  <2>2. lines' = lines /\ shown' = shown /\ disk' = disk
    OBVIOUS
  <2>3. ASSUME \E i \in DOMAIN lines : /\ lines[i] = <<d, disk[d]>>
                                       /\ \A j \in DOMAIN lines : j > i => lines[j][1] # d
        PROVE  Tracks(d)'
    BY <2>2, <2>3 DEF Tracks
  <2>4. ASSUME \A i \in DOMAIN lines : lines[i][1] # d,
               IF <<"idle", d>> \in announced
               THEN shown[d] = (IF disk[d] = "spindown" THEN "off" ELSE "on")
               ELSE disk[d] = "spinup"
        PROVE  Tracks(d)'
    BY <2>1, <2>2, <2>4 DEF Tracks
  <2> QED
    BY <1>1, <2>3, <2>4 DEF Tracks
<1> QED
  BY <1>1 DEF Following

\* A line that is read.
LEMMA ReadFollows ==
  ASSUME Types, Following, ReadLine
  PROVE  Following'
<1> DEFINE d == Head(lines)[1]
           s == Head(lines)[2]
<1>1. /\ lines \in Seq(Disks \X Status) /\ lines # <<>> /\ Len(lines) \in Nat /\ Len(lines) > 0
      /\ DOMAIN lines = 1..Len(lines) /\ lines[1] = <<d, s>> /\ d \in Disks /\ s \in Status
  <2>1. lines \in Seq(Disks \X Status) /\ lines # <<>>
    BY DEF Types, ReadLine
  <2> QED
    BY <2>1
<1>2. /\ lines' = Tail(lines) /\ UNCHANGED <<hd, starts, disk, daemon, at>>
      /\ power' = [power EXCEPT ![d] = s] /\ announced' = announced \cup {<<"idle", d>>}
      /\ shown' = [shown EXCEPT ![d] = IF power'[d] # "spindown" THEN "on" ELSE "off"]
  BY DEF ReadLine, Publish, service, loop
<1>3. /\ DOMAIN lines' = 1..(Len(lines) - 1)
      /\ \A i \in 1..(Len(lines) - 1) : lines'[i] = lines[i + 1]
  BY <1>1, <1>2
<1> HIDE DEF d, s
<1>4. /\ \A j \in DOMAIN lines' : j \in Nat /\ j + 1 \in DOMAIN lines /\ lines'[j] = lines[j + 1]
      /\ \A i \in DOMAIN lines : i \in Nat /\ (i # 1 => i - 1 \in DOMAIN lines')
  BY <1>1, <1>3
<1>5. power'[d] = s
  BY <1>1, <1>2 DEF Types
<1>6. /\ shown'[d] = IF s = "spindown" THEN "off" ELSE "on"
      /\ \A e \in Disks : e # d => shown'[e] = shown[e]
  BY <1>1, <1>2, <1>5 DEF Types
<1>7. ASSUME NEW e \in Disks, Tracks(e) PROVE Tracks(e)'
  <2>1. ASSUME NEW i \in DOMAIN lines, i # 1, lines[i] = <<e, disk[e]>>,
               \A j \in DOMAIN lines : j > i => lines[j][1] # e
        PROVE  Tracks(e)'
    <3>1. i - 1 \in DOMAIN lines' /\ lines'[i - 1] = <<e, disk[e]>>
      BY <1>1, <1>3, <2>1
    <3>2. ASSUME NEW j \in DOMAIN lines', j > i - 1 PROVE lines'[j][1] # e
      <4>1. j + 1 \in DOMAIN lines /\ j + 1 > i /\ lines'[j] = lines[j + 1]
        BY <1>4, <2>1, <3>2
      <4> QED
        BY <2>1, <4>1
    <3> QED
      BY <1>2, <3>1, <3>2 DEF Tracks
  <2>2. ASSUME lines[1] = <<e, disk[e]>>, \A j \in DOMAIN lines : j > 1 => lines[j][1] # e
        PROVE  Tracks(e)'
    <3>1. e = d /\ disk[e] = s
      BY <1>1, <2>2
    <3>2. ASSUME NEW j \in DOMAIN lines' PROVE lines'[j][1] # e
      <4>1. j + 1 \in DOMAIN lines /\ j + 1 > 1 /\ lines'[j] = lines[j + 1]
        BY <1>1, <1>3
      <4> QED
        BY <2>2, <4>1
    <3>3. <<"idle", e>> \in announced'
      BY <1>2, <3>1
    <3> QED
      BY <1>2, <1>6, <3>1, <3>2, <3>3 DEF Tracks
  <2>3. ASSUME \A j \in DOMAIN lines : lines[j][1] # e,
               IF <<"idle", e>> \in announced
               THEN shown[e] = (IF disk[e] = "spindown" THEN "off" ELSE "on")
               ELSE disk[e] = "spinup"
        PROVE  Tracks(e)'
    <3>1. e # d
      BY <1>1, <2>3
    <3>2. \A j \in DOMAIN lines' : lines'[j][1] # e
      BY <1>4, <2>3
    <3>3. shown'[e] = shown[e] /\ disk'[e] = disk[e]
      BY <1>2, <1>6, <3>1
    <3>4. <<"idle", e>> \in announced' <=> <<"idle", e>> \in announced
      BY <1>2, <3>1
    <3> QED
      BY <2>3, <3>2, <3>3, <3>4 DEF Tracks
  <2> QED
    BY <1>1, <1>7, <2>1, <2>2, <2>3 DEF Tracks
<1> QED
  BY <1>2, <1>7 DEF Following

\* hd-idle says that a disk has another state.
LEMMA LogFollows ==
  ASSUME Types, Following, NEW d \in Disks, LogPower(d)
  PROVE  Types' /\ Following'
<1> DEFINE s == IF disk[d] = "spinup" THEN "spindown" ELSE "spinup"
<1>1. /\ hd \in {"opening", "writing"} /\ hd' = hd
      /\ disk' = [disk EXCEPT ![d] = s] /\ s \in Status
      /\ \/ Len(lines) < MaxLines /\ lines' = Append(lines, <<d, s>>)
         \/ lines' = lines /\ hd = "writing" /\ at # "readline"
      /\ UNCHANGED <<service, loop, power, broker>>
  BY DEF LogPower, Status
<1> HIDE DEF s
<1>2. /\ lines \in Seq(Disks \X Status) /\ Len(lines) \in Nat /\ DOMAIN lines = 1..Len(lines)
      /\ Len(lines) <= MaxLines
  BY DEF Types
<1>3. /\ disk' \in [Disks -> Status] /\ disk'[d] = s
      /\ \A e \in Disks : e # d => disk'[e] = disk[e]
  BY <1>1 DEF Types
<1>4. Sensors' = Sensors
  BY <1>1 DEF Sensors, Tasks, loop
<1>5. CASE lines' = lines /\ hd = "writing" /\ at # "readline"
  <2>1. Types'
    BY <1>1, <1>3, <1>4, <1>5 DEF Types, service, loop, broker
  <2>2. Following'
    BY <1>1, <1>5 DEF Following, loop
  <2> QED
    BY <2>1, <2>2
<1>6. CASE Len(lines) < MaxLines /\ lines' = Append(lines, <<d, s>>)
  <2>0. <<d, s>> \in Disks \X Status
    BY <1>1
  <2>1. /\ lines' \in Seq(Disks \X Status) /\ Len(lines') = Len(lines) + 1
        /\ DOMAIN lines' = 1..(Len(lines) + 1) /\ lines'[Len(lines) + 1] = <<d, s>>
        /\ \A i \in 1..Len(lines) : lines'[i] = lines[i]
    BY <1>2, <1>6, <2>0
  <2>2. Len(lines') <= MaxLines
    BY <1>2, <1>6, <2>1, Assumptions
  <2>3. Types'
    BY <1>1, <1>3, <1>4, <2>1, <2>2 DEF Types, service, loop, broker
  <2>4. Tracks(d)'
    <3>1. Len(lines) + 1 \in DOMAIN lines' /\ lines'[Len(lines) + 1] = <<d, disk'[d]>>
      BY <1>2, <1>3, <2>1
    <3>2. \A j \in DOMAIN lines' : ~(j > Len(lines) + 1)
      BY <1>2, <2>1
    <3> QED
      BY <3>1, <3>2 DEF Tracks
  <2>5. ASSUME NEW e \in Disks, e # d, Tracks(e) PROVE Tracks(e)'
    <3>1. \A j \in DOMAIN lines' :
            (j \in DOMAIN lines /\ lines'[j] = lines[j]) \/ lines'[j][1] # e
      BY <1>2, <2>1, <2>5
    <3>2. \A j \in DOMAIN lines : j \in DOMAIN lines' /\ lines'[j] = lines[j]
      BY <1>2, <2>1
    <3>3. disk'[e] = disk[e] /\ announced' = announced /\ shown' = shown
      BY <1>1, <1>3, <2>5 DEF broker
    <3>4. ASSUME NEW i \in DOMAIN lines, lines[i] = <<e, disk[e]>>,
                 \A j \in DOMAIN lines : j > i => lines[j][1] # e
          PROVE  Tracks(e)'
      BY <3>1, <3>2, <3>3, <3>4 DEF Tracks
    <3>5. ASSUME \A i \in DOMAIN lines : lines[i][1] # e
          PROVE  \A i \in DOMAIN lines' : lines'[i][1] # e
      BY <3>1, <3>5
    <3> QED
      BY <2>5, <3>3, <3>4, <3>5 DEF Tracks
  <2>6. Following'
    BY <1>1, <2>4, <2>5 DEF Following, service, loop
  <2> QED
    BY <2>3, <2>6
<1> QED
  BY <1>1, <1>5, <1>6

-----------------------------------------------------------------------------
\* The pipe is opened once by a daemon.
LEMMA OpenedNext ==
  ASSUME Types, Handled, Stages, Opened, [Next]_vars
  PROVE  Opened'
<1>0. "idle" \in AllTasks
  BY DEF AllTasks
<1>1. CASE UNCHANGED <<hd, starts, daemon, at, task>>
  BY <1>1 DEF Opened
<1>2. ASSUME \/ UNCHANGED vars \/ StopAddon \/ ReadLine \/ \E d \in Disks : LogPower(d)
      PROVE  UNCHANGED <<hd, starts, daemon, at, task>>
  BY <1>2 DEF vars, service, pipe, loop, StopAddon, ReadLine, LogPower
<1>3. ASSUME \/ \E option \in IdleOptions : BootAddon(option)
             \/ MakePipe \/ AddonDown \/ HdIdleDies \/ PipeBroken
      PROVE  hd' # "writing" /\ (at' = "readline" => hd' = "dead")
  <2>1. ASSUME NEW option \in IdleOptions, BootAddon(option)
        PROVE  hd' # "writing" /\ at' # "readline"
    BY <2>1 DEF BootAddon, Stages, loop
  <2> QED
    BY <1>3, <2>1 DEF MakePipe, AddonDown, ProcessGone, HdIdleDies, PipeBroken, pipe, loop, Opened
<1>4. CASE StartDaemon
  BY <1>4 DEF StartDaemon, Stages, pipe, Opened, Types
<1>5. CASE KillDaemon \/ LoopRaises
  BY <1>5 DEF KillDaemon, LoopRaises, ProcessGone, service, pipe, Opened
<1>6. ASSUME UNCHANGED <<hd, starts, daemon, at>>, task["idle"] = "done" => task'["idle"] = "done"
      PROVE  Opened'
  BY <1>6 DEF Opened
<1>7. ASSUME NEW t \in AllTasks, Cycle(t) \/ CycleRaises(t) \/ EndsCancelled(t) \/ Wake(t)
      PROVE  Opened'
  <2>1. task[t] # "done"
    BY <1>7, CycleHandled, EndsHandled DEF CycleRaises, EndsCancelled, Wake
  <2>2. \A u \in AllTasks : u # t => task'[u] = task[u]
    BY <1>7 DEF Cycle, CycleRaises, EndsCancelled, Wake, Ends, Types
  <2>3. UNCHANGED <<hd, starts, daemon, at>>
    BY <1>7 DEF Cycle, CycleRaises, EndsCancelled, Wake, service, pipe
  <2> QED
    BY <1>0, <1>6, <2>1, <2>2, <2>3
<1>8. CASE OpenPipe
  <2>1. task["idle"] = "ready" /\ at = "run" /\ at' = "open" /\ UNCHANGED <<hd, starts, daemon>>
    BY <1>8, OpenPipeHandled DEF OpenPipe, Steps, Running, service, pipe
  <2> QED
    BY <2>1 DEF Opened
<1>9. CASE PipeOpened
  BY <1>9 DEF PipeOpened, Stages, Opened, service
<1>10. CASE IdleRaises
  <2>1. task'["idle"] = "done" /\ at' = "run" /\ UNCHANGED <<hd, starts, daemon>>
    BY <1>0, <1>10 DEF IdleRaises, Types, service
  <2> QED
    BY <2>1 DEF Opened
<1>11. ASSUME NEW t \in AllTasks, TaskDone(t) PROVE Opened'
  <2>1. UNCHANGED <<hd, starts, daemon, at>>
    BY <1>11 DEF TaskDone, service, pipe
  <2>2. task["idle"] = "done" => task'["idle"] = "done"
    BY <1>0, <1>11, TaskDoneHandled
  <2> QED
    BY <1>6, <2>1, <2>2
<1>12. hd' # "writing" /\ (at' = "readline" => hd' = "dead") => Opened'
  BY DEF Opened
<1> QED
  BY <1>1, <1>2, <1>3, <1>4, <1>5, <1>7, <1>8, <1>9, <1>10, <1>11, <1>12 DEF Next, LoopStep

-----------------------------------------------------------------------------
\* The invariant holds of an add-on that has never run ...
LEMMA IInvInit == Init => IInv
<1> SUFFICES ASSUME Init PROVE IInv
  OBVIOUS
<1>1. <<>> \in Seq(Disks \X Status) /\ Len(<<>>) <= MaxLines /\ 0 \in 0 .. MaxStarts
  BY Assumptions
<1>2. Types
  BY <1>1 DEF Init, Types, Status
<1>3. Handled
  BY NothingQueued DEF Init, Handled
<1>4. Stages /\ LastDeletes /\ Opened /\ Following
  BY DEF Init, Stages, LastDeletes, Opened, Following
<1>5. Group
  <2>1. Tasks \subseteq AllTasks
    BY DEF Tasks
  <2> QED
    BY <2>1 DEF Init, Group
<1> QED
  BY <1>2, <1>3, <1>4, <1>5 DEF IInv

\* ... and every step keeps it.
LEMMA IInvNext == IInv /\ [Next]_vars => IInv'
<1> SUFFICES ASSUME Types, Handled, Stages, LastDeletes, Group, Opened, Following, [Next]_vars
             PROVE  Types' /\ Stages' /\ LastDeletes' /\ Group' /\ Following'
  BY HandledNext, OpenedNext DEF IInv
<1>1. ASSUME NEW option \in IdleOptions, BootAddon(option)
      PROVE  Types' /\ Stages' /\ LastDeletes' /\ Group' /\ Following'
  <2>1. /\ daemon = "down" /\ daemon' = daemon /\ announced' = {}
        /\ disk' = [d \in Disks |-> "spinup"] /\ lines' = <<>>
        /\ addon' = "up" /\ starts' = 0 /\ hd' \in {"boot", "off"}
        /\ UNCHANGED <<loop, power, broker>>
    BY <1>1 DEF BootAddon, Stages, loop, broker
  <2>2. Sensors' = Sensors /\ 0 \in 0 .. MaxStarts /\ "spinup" \in Status
    BY <2>1, Assumptions DEF Sensors, Tasks, loop, Status
  <2>3. Types'
    BY <2>1, <2>2, LinesType DEF Types, loop, broker
  <2>4. Stages' /\ LastDeletes' /\ Group'
    BY <2>1, GroupAlone
  <2>5. Following'
    BY <2>1 DEF Following, Tracks
  <2> QED
    BY <2>3, <2>4, <2>5
<1>2. CASE MakePipe \/ StopAddon \/ UNCHANGED vars
  <2>1. /\ UNCHANGED <<loop, power, broker, starts, disk, lines>>
        /\ addon' = addon \/ addon' = "stopping"
        /\ hd' = hd \/ (hd = "boot" /\ hd' = "opening")
    BY <1>2 DEF MakePipe, StopAddon, vars, service, pipe
  <2>2. Sensors' = Sensors
    BY <2>1 DEF Sensors, Tasks, loop
  <2>3. Types'
    BY <2>1, <2>2 DEF Types, loop, broker
  <2>4. Stages' /\ LastDeletes' /\ Group'
    BY <2>1, GroupAlone DEF Stages
  <2>5. daemon' = daemon /\ at' = at /\ announced' = announced /\ shown' = shown
    BY <2>1 DEF loop, broker
  <2>6. \A d \in Disks : Tracks(d)' <=> Tracks(d)
    BY <2>1, <2>5 DEF Tracks
  <2>7. Following'
    BY <2>1, <2>5, <2>6 DEF Following
  <2> QED
    BY <2>3, <2>4, <2>7
<1>3. CASE StartDaemon
  <2>1. /\ hd' = hd /\ disk' = disk /\ lines' = lines /\ daemon = "down" /\ announced' = announced
        /\ shown' = shown /\ starts' = starts + 1 /\ starts \in Nat /\ at' = "run"
    BY <1>3 DEF StartDaemon, Stages, pipe, broker, Types
  <2>2. \A d \in Disks : Tracks(d)' <=> Tracks(d)
    BY <2>1 DEF Tracks
  <2>3. Following'
    BY <2>1, <2>2 DEF Following
  <2> QED
    BY <1>3, <2>3, GroupStarts
<1>4. CASE KillDaemon
  <2>1. /\ ProcessGone /\ daemon = "loop" /\ starts # 0
        /\ UNCHANGED <<service, hd, disk, config, shown>>
    BY <1>4 DEF KillDaemon, Stages
  <2>2. lines' \in Seq(Disks \X Status) /\ Len(lines') <= MaxLines
    <3>1. PICK n \in 0 .. (IF at = "readline" THEN Len(lines) ELSE 0) :
            lines' = SubSeq(lines, n + 1, Len(lines))
      BY <1>4 DEF KillDaemon
    <3>2. n \in 0 .. Len(lines)
      BY <3>1 DEF Types
    <3> QED
      BY <3>1, <3>2, LinesType
  <2>3. Types'
    BY <2>1, <2>2 DEF Types, ProcessGone, service
  <2>4. Following'
    BY <2>1 DEF Following, ProcessGone, service
  <2> QED
    BY <2>1, <2>3, <2>4, GroupGone
<1>5. CASE AddonDown
  <2>1. Types'
    BY <1>5, LinesType DEF AddonDown, ProcessGone, Types
  <2>2. Following'
    BY <1>5 DEF AddonDown, Following
  <2> QED
    BY <1>5, <2>1, <2>2, GroupGone DEF AddonDown
<1>6. ASSUME NEW d \in Disks, LogPower(d)
      PROVE  Types' /\ Stages' /\ LastDeletes' /\ Group' /\ Following'
  <2>1. UNCHANGED <<loop, broker, starts>> /\ addon' = addon
    BY <1>6 DEF LogPower, service
  <2>2. Stages' /\ LastDeletes' /\ Group'
    BY <2>1, GroupAlone DEF Stages
  <2> QED
    BY <1>6, <2>2, LogFollows
<1>7. CASE HdIdleDies
  <2>1. /\ UNCHANGED <<loop, power, broker, starts, disk>> /\ addon' = "stopping" /\ hd' = "dead"
        /\ lines' = lines
    BY <1>7 DEF HdIdleDies
  <2>2. Sensors' = Sensors
    BY <2>1 DEF Sensors, Tasks, loop
  <2>3. Types'
    BY <2>1, <2>2, LinesType DEF Types, loop, broker
  <2>4. Stages' /\ LastDeletes' /\ Group'
    BY <2>1, GroupAlone DEF Stages
  <2>5. Following'
    BY <2>1 DEF Following
  <2> QED
    BY <2>3, <2>4, <2>5
<1>8. ASSUME NEW t \in AllTasks, Cycle(t) \/ CycleRaises(t)
      PROVE  Types' /\ Stages' /\ LastDeletes' /\ Group' /\ Following'
  <2>1. UNCHANGED <<hd, starts, disk, lines, shown, daemon, at>>
    BY <1>8 DEF Cycle, CycleRaises, service, pipe
  <2> QED
    BY <1>8, <2>1, CycleKeeps, StillFollowing
<1>9. ASSUME NEW t \in AllTasks,
             \/ EndsCancelled(t) \/ Wake(t)
             \/ t = "idle" /\ (OpenPipe \/ PipeBroken)
      PROVE  Types' /\ Stages' /\ LastDeletes' /\ Group' /\ Following'
  <2>1. UNCHANGED <<hd, starts, disk, lines, shown, daemon>> /\ (at' = "readline" => at = "readline")
    BY <1>9 DEF EndsCancelled, Wake, OpenPipe, PipeBroken, service, pipe, broker
  <2> QED
    BY <1>9, <2>1, TaskKeeps, StillFollowing
<1>10. CASE PipeOpened
  <2>1. /\ hd \in {"opening", "writing"} /\ at = "open"
        /\ UNCHANGED <<starts, disk, lines, daemon, announced, shown>>
    BY <1>10 DEF PipeOpened, service, broker
  <2>2. \A d \in Disks : Tracks(d)' <=> Tracks(d)
    BY <2>1 DEF Tracks
  <2>3. task["idle"] = "reading"
    BY <2>1 DEF Handled, AllTasks
  <2>4. hd = "writing" => ~(starts = 0 \/ (starts = 1 /\ daemon = "loop"))
    BY <2>1, <2>3 DEF Opened
  <2>5. Following'
    BY <2>1, <2>2, <2>4 DEF Following
  <2> QED
    BY <1>10, <2>5, ReadKeeps
<1>11. ASSUME NEW t \in AllTasks, TaskDone(t)
       PROVE  Types' /\ Stages' /\ LastDeletes' /\ Group' /\ Following'
  <2>1. UNCHANGED <<hd, starts, disk, lines, shown, daemon, at>>
    BY <1>11 DEF TaskDone, service, pipe
  <2> QED
    BY <1>11, <2>1, TaskDoneKeeps, StillFollowing
<1>12. CASE LoopRaises
  <2>1. Following'
    BY <1>12 DEF LoopRaises, Following, Stages, pipe
  <2> QED
    BY <1>12, <2>1, RaisesKeeps
<1>13. "idle" \in AllTasks
  BY DEF AllTasks
<1>14. CASE OpenPipe \/ PipeBroken
  BY <1>9, <1>13, <1>14
<1>15. CASE ReadLine
  BY <1>15, ReadKeeps, ReadFollows
<1>16. CASE IdleRaises
  <2>1. hd' = hd /\ at' = "run" /\ daemon = "loop" /\ daemon' = daemon /\ starts' = starts
    BY <1>16 DEF IdleRaises, service
  <2>2. Following'
    BY <1>16, <2>1 DEF Following, Opened, IdleRaises
  <2> QED
    BY <1>16, <2>2, IdleRaisesKeeps
<1> QED
  BY <1>1, <1>2, <1>3, <1>4, <1>5, <1>6, <1>7, <1>8, <1>9, <1>10, <1>11, <1>12, <1>14, <1>15,
     <1>16
  DEF Next, LoopStep

\* The invariant holds in every reachable state.
LEMMA IInvAlways == Spec => []IInv
  BY IInvInit, IInvNext, PTL DEF Spec

-----------------------------------------------------------------------------
\* A sequence within its bound.
LEMMA Bounded ==
  ASSUME NEW S, NEW n \in Nat, NEW s \in Seq(S), Len(s) <= n
  PROVE  s \in BoundedSeq(S, n)
<1>1. Len(s) \in 0 .. n /\ s \in [1..Len(s) -> S]
  OBVIOUS
<1> QED
  BY <1>1 DEF BoundedSeq, SeqOf

\* Types: the queue holds a handle for each task that is ready or has just ended and
\* no other, and only sensors of the daemon's tasks are announced.
THEOREM TypeCorrect == Spec => []TypeOK
<1>1. IInv => TypeOK
  <2> SUFFICES ASSUME IInv PROVE TypeOK
    OBVIOUS
  <2> USE DEF IInv
  <2>1. lines \in BoundedSeq(Disks \X Status, MaxLines)
    BY Bounded, Assumptions DEF Types
  <2>2. \A i \in DOMAIN ready : ready[i] \in {"step", "done"} \X AllTasks
    BY DEF Handled, Queue, Handles
  <2>3. \A i, j \in DOMAIN ready : ready[i][2] = ready[j][2] => i = j
    BY DEF Handled, Queue
  <2>4. \A t \in Tasks : (<<"step", t>> \in ToSet(ready)) <=> (task[t] = "ready")
    BY DEF Handled, Tasks
  <2> QED
    BY <2>1, <2>2, <2>3, <2>4 DEF Types, TypeOK
<1> QED
  BY <1>1, IInvAlways, PTL

\* However the tasks of a dying daemon interleave, and with any number of disks, the
\* broker retains none of its sensors once it is dead.
THEOREM CrashLeavesNothingAlways == Spec => []CrashLeavesNothing
<1>1. IInv => CrashLeavesNothing
  BY DEF IInv, Stages, LastDeletes, CrashLeavesNothing
<1> QED
  BY <1>1, IInvAlways, PTL

\* Without hd-idle nobody publishes again what has been deleted: whoever is still there
\* has been cancelled.
THEOREM DeletedIsOverAlways == Spec => []DeletedIsOver
<1>1. IInv => DeletedIsOver
  BY DEF IInv, Group, DeletedIsOver
<1> QED
  BY <1>1, IInvAlways, PTL

\* However lines, opens and reads interleave and however many lines the pipe holds, a
\* first daemon that has read all lines shows each disk as hd-idle last said.
THEOREM PowerShownAlways == Spec => []PowerShown
<1>1. IInv => PowerShown
  <2> SUFFICES ASSUME IInv, at = "readline", hd = "writing", lines = <<>>, starts = 1,
                      NEW d \in Disks
               PROVE  IF <<"idle", d>> \in announced
                      THEN shown[d] = (IF disk[d] = "spindown" THEN "off" ELSE "on")
                      ELSE disk[d] = "spinup"
    BY DEF PowerShown
  <2>1. daemon = "loop"
    <3>1. "idle" \in AllTasks /\ task["idle"] = "reading"
      BY DEF AllTasks, IInv, Handled
    <3> QED
      BY <3>1 DEF IInv, Stages, Alive, Types
  <2>2. Tracks(d)
    BY <2>1 DEF IInv, Following
  <2> QED
    BY <2>2 DEF Tracks
<1> QED
  BY <1>1, IInvAlways, PTL
=============================================================================
