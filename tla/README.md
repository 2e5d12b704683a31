# TLA+ models of the add-ons

TLA+ modules, TLC configurations and TLAPS proofs for the code of this
repository that keeps state across threads, messages and restarts: the BeSIM
server (`src/besim`), the MQTT side of the samba NAS add-on (`src/sambanas`)
and the start-up services of its successor (`src/sambanas2`). Paths below are
relative to the repository; `BeSIM/` stands for `besim/rootfs/opt/BeSIM/`.

To check a module: `tlc -config ControlPlaneRace.cfg MCControlPlane`; to check
the proofs: `tlapm ControlPlane_proofs.tla`. `PROJECT.json` lists, for every
definition that models code, the lines it models, and for every property a
mutation of the code's model that breaks it.

## 1. Inventory

The repository is a set of Home Assistant add-ons. Most of it is start scripts,
container builds and configuration; three hold program logic of their own.

### 1.1 BeSIM

A local server for Riello/Besmart WiFi thermostats. The WiFi box believes it
speaks to the vendor's cloud.

| Part | State | Operations | Talks to |
|---|---|---|---|
| Control plane: `NextCSeq`, `WaitCSeq`, `SignalCSeq` and the `send_*` methods (`BeSIM/udpserver.py`) | `device["cseq"]`, `device["results"]`: number -> `{wait, ev, val}` | draw a number and register, send, wait a second, signal | REST threads and the UDP thread share both dicts without a lock; the box over UDP |
| Fake boost: `send_FAKE_BOOST` and the timer in the STATUS handler | `roomStatus["fakeboost"]`, the room's mirror | two requests (T3, mode), timer | REST threads, a thread started by STATUS, the box |
| UDP message handler: `UdpServer.handleMsg` | `Status["devices"]`, `Status["peers"]` (`BeSIM/status.py`): the mirror of the box's rooms and weekly programs | STATUS, PROGRAM, SET, PING, GET_PROG ... | box, REST (reads the mirror), database |
| UDP proxy: `ProxyUdpServer` | `knocks`, the cloud's address | replicate, forward, store the cloud's programs | box, cloud |
| HTTP proxy: `ProxyMiddleware` | `http_connection`, one `HTTPConnection` per host shared by all threads | choose local or cloud, ask, answer | WSGI server, cloud, local app |
| REST API (`BeSIM/restapi.py`) | the weather's `TTLCache`, one lock | GET from the mirror or the database, PUT through the control plane, ask the weather service | browser, weather service, database |
| Codec (`Frame`, `Wrapper`) | none | encode and decode with CRC and escaping | handler |
| Database (`BeSIM/database*.py`) | SQLite file with a version, a connection per call | create the schema, log, query a range | handler, REST, the request log |
| GUI (`besim/gui`), services | none | poll and render; start scripts | REST |

Hard behaviours: every REST request is a thread of its own; a number is drawn
in three unlocked steps; an answer is handed over in three lookups of a dict
that others delete from; datagrams are lost, late, duplicated or reordered; the
counter wraps after 254 numbers; a boost is two requests, either of which may
be lost; the mirror is written from answers, from periodic reports and from the
cloud's messages; a proxied request shares a stateful connection object; the
weather is asked for outside the cache's lock; a history's total and its rows
are two queries; local time skips an hour and repeats one; the schema is created
statement by statement.

What makes it right: an answer reaches the call it belongs to and no entry is
left behind; OK means done; a boost is undone exactly once; the mirror never
goes back to an older value and ends up equal to the box; a request is answered
with its own answer, and by the right side; the weather does not go back in
time; a history shows what was there before it was asked for; what is served
has its tables.

### 1.2 Samba NAS (`src/sambanas`)

| Part | State | Operations |
|---|---|---|
| MQTT daemon (`usr/local/bin/mqtt_daemon.py`) | `sensorList`, `devicePowerStatus`, five asyncio tasks, what the broker retains | publish cycles, follow hd-idle through a named pipe, delete all sensors when a task ends |
| `hd-idle`, `mqtt-handler` services | the pipe, the processes | start, die, halt the add-on, restart |
| `mqtt-disk-handler`, the shell loop of `mqtt-handler` | an adaptive delay | publish |
| `init-automount`, `cifs-supervisor-mount` | mounts, the record of them, the supervisor's mounts | mount, record, unmount; delete, post, retry |
| Samba configuration, wsdd, avahi | none | generate text, start |

Hard behaviours: one thread serves all tasks and one of them blocks; a task
that fails cancels the others, and every ended task's callback deletes all
sensors; two services and a pipe between them start, die and halt the add-on in
any order.

What makes it right: a daemon that crashes leaves no sensor at the broker;
nothing is published after the deletion; the power state shown is the disk's;
every kind of sensor keeps coming.

### 1.3 Samba NAS 2 (`src/sambanas2`)

One-shot services in shell that s6 orders by their dependencies and otherwise
runs side by side. If one fails the container stops
(`S6_BEHAVIOUR_IF_STAGE2_FAILS=2`).

| Service | State | Operations |
|---|---|---|
| `clean-config` | the options, kept by the Supervisor | drop options of older releases |
| `factory-reset` | `*.db3`, `/data/extra_modules`, `/data/upgrade`, two options | remove, ask for the next clean-up, reset itself |
| `check-srat-update` | `/data/upgrade`, `/config/upgrade`, `/usr/local/bin` | clean, install the newest SRAT, download |
| `init-smbd` | CA key and certificate, server key and certificate in `/ssl/sambanas` | check, renew |
| `modprobe`, `init-nfsd` | `/data/extra_modules`, the kernel | download, load |
| `srat`, `smbd`, `nmbd`, `wsddn`, `socat` | the SRAT binary's own | start |

Hard behaviours: a kill or a failing command between two steps, where only
files and options remember how far the last start came; services that each read
all options, change one, and post all of them back; what bashio reads for one
service, kept in `/tmp/.bashio`, is read by the others until some service posts.

What makes it right: what the owner asked to have removed is gone before SRAT
starts, once and not again; smbd gets a certificate that belongs to its key,
its CA and its host.

### 1.4 The rest

`RPiMySensor`, `plex*` and the workflows configure external images or build
them and keep no state.

## 2. Plan

Done, in order of importance:

1. `ControlPlane`, refined against the abstract `ControlCall`; its proofs, the
   refinement's safety included.
2. `FakeBoost`, which uses the control plane's calls, refined against the
   abstract `BoostSwitch`; its proofs, the refinement included.
3. `HttpProxy`; its proofs.
4. `UdpServer`, handler and proxy in one module; its proofs.
5. `MqttDaemon`, daemon and services in one module; its proofs.
6. `History`: the database, the weather's cache and the requests that use both;
   its proofs.
7. `FactoryReset` and `Certificates`, and `Sambanas2`, the add-on that runs
   them; their proofs, those of the add-on from those of its parts.

Every safety property that a passing run checks is now also proved (section 5).

Left:

8. The mirror as a register that trails the device, and that `UdpServer`
   implements its safety part (`InOrder` is the mapping's invariant).
9. The kernel modules of `modprobe`, once their removal works as written
   (section 6).

## 3. The modules

### 3.1 ControlPlane, ControlCall

`ControlPlane` models every access to `device["cseq"]` and `device["results"]`
as a step of its own, since nothing protects them. A client is a REST handler
or a fake-boost thread; `Udp` is the server's thread, which receives and also
sends. One box: boxes share nothing.

| Code (`BeSIM/udpserver.py`) | Model |
|---|---|
| `NextCSeq` reads the counter / writes it / pops / stores the entry | `DrawCSeq` (in `BeginCall`, `BeginUnwaited`) / `BumpCSeq` / `PopDangling` / `InsertEntry` |
| pack and `sendto`; `struct.error`, or an `OSError` of the socket or the data log | `Send`; `SendRaises` |
| `WaitCSeq`: `in`, lookup, `wait(1)`, `del` and return | `CheckEntry`, `CaptureEntry`, `WaitSignalled` or `WaitTimesOut`, `DeleteEntry` |
| `SignalCSeq`: `in`, `["val"] =`, `["ev"].set()` | `ReceiveResponse`, `StoreValue`, `SetEvent` |
| exception in the receive loop, `sleep(1)` | `pc[Udp] = "sleep"`, `Wake` |
| `send_PROGRAM` under `UNUSED_CSEQ` | `BeginProgram` |
| the box | `DeviceHandles` (external) |

An entry is named after the call that made it, because a thread keeps a
reference to the entry while the dict may hold another. A datagram once sent
stays in a set, so it is delivered late, again, out of order or never. Steps of
the interpreter between which nothing is called are one action (the lookup and
the assignment in `SignalCSeq`, the `del` and the return in `WaitCSeq`): the
image's Python, 3.12 or later as the quotes in the f-strings of
`udpserver.py:476` require, changes threads at calls and backward jumps only.
`drawn`, `redrawn`, `failed`, `key` and `applied` are history.

`ControlCall` is what a caller relies on: it gets its own value only if the box
has applied it, or None, or an exception, and then nothing was sent.
`ControlPlane` ends with the mapping from one to the other (`Call`): the program
counters, the dict, the datagrams and the UDP thread's own sends are forgotten.

### 3.2 FakeBoost, BoostSwitch

`send_FAKE_BOOST` line by line for REST threads and for threads a STATUS
starts (`Check`, `SendT3`, `SendMode`, `Finish`, `GiveUp`), the two halves of a
STATUS (`ReceiveStatus`: settemp and T3; `StatusMode`: mode, boost, advance and
the timer; `StatusFails`: the temperature log raises before the timer), the SET
answers, and the thermostat with its user. A call has its sequence number to
itself and a datagram arrives at most once: `ControlPlane` is about the rest. A
behaviour starts in one of `Worlds`: who calls, for what and how often, whether
answers come in time and in order, whether the database fails, and whether a
user is at the thermostat; `Panel*` says what that user does. A user who changes
T3 itself during a boost is not modelled: `Balanced` would have no meaning. T3 is
counted in rises, temperatures are compared only with T1 (`warm`); the boost's
`FAKEBOOST_DURATION` (1800 s) is over whenever `Expire` says so.

`BoostSwitch` is what the user of a room is promised: a switch that is off,
starting, on or ending, that raises T3 once on its way up, lowers it once by as much
on its way down, and is not turned again before it has arrived. `FakeBoost` ends
with the mapping (`Switch`): the switch moves while a call is past its checks,
up when the timer is off and down when it is on. The code keeps the promise while
`Undisturbed`: answers in time, datagrams in order, and no two calls for the same
value past their checks together (`crossed`, a history variable, records that
there were). The last condition is needed: a PUT of 0 and the thread of a STATUS,
or two PUTs, may both pass the check before either turns the timer. Nothing else
is assumed of the callers, who may PUT 0 and 1 as they like.

### 3.3 UdpServer

`UdpServer.handleMsg` by message type (`HandleStatus`, `HandleStatusFails`,
`HandleProgram`, `HandleSet`, `HandleOther`), the fetch of programs that ends a
STATUS (`FetchProgram`, one step per room: the code sleeps a second before
each), PUTs of a setting or a day, and `ProxyUdpServer` (`HandleKnock`,
`HandleCloudMsg`, replication). A value is the field's name and the number of
times the device has changed it, so that older and newer can be told apart.

* `minsetp` is given `maxsetp`'s value by a STATUS (`udpserver.py:834`); the
  model does that, and the properties speak of `maxsetp`.
* An exception keeps what the handler did before it. The temperature log may
  raise at any room (`HandleStatusFails`), the copy to the cloud may raise
  before the datagram is handled (`ReplicateFails`), a GET_PROG may raise and
  the rest of the rooms are forgotten (`FetchFails`).
* What the device does is external, and read off what the handler expects: it
  reports sync loss until an edited day was echoed, answers SET and PROGRAM,
  answers GET_PROG with every day. Answers the device does nothing with (to
  STATUS, PING, SET) are left out, and messages that keep no state the
  properties look at are one action (`HandleOther`).
* A cloud message that is forwarded is typed DEVICE_TIME whatever it was, and
  goes to the first address the device was ever seen at (`FirstPeer`).
* The cloud may echo an upload late, after the day has changed again, and the
  code stores what it says (`proxyUdpServer.py:136`). `by_cloud` is the set of
  days whose value is the cloud's last word; the properties leave them out until
  the device's own program is stored again.
* Any datagram, either way, may be lost or overtaken by the next one: the code
  stores a message whatever its sequence number is (`udpserver.py:776`).
  `overtaken`, a history variable, is what a datagram says at the moment a later
  one of the same setting or day overtakes it. Duplicates are left to
  `ControlPlane`; time is a step boundary.

### 3.4 HttpProxy

`ProxyMiddleware.__call__` per thread: `check_behaviour` (first entry in order
of insertion), the lookup of the connection, `Resolve`, `Choose`
(REMOTE_IF_MISSING), `Connect`, `Request`, `GetResponse`, `Response` /
`Reset` / `TimeOut`, `ReadBody`, `App`. `http.client` is external: its states
(idle, sent, an unread answer), `auto_open`, and `connect()` which replaces the
socket whatever the state. Under `Faults` a send, the read of the body (which
leaves the response unread, or closes it), the local application and the log of
an unknown call may raise; `Weather` is the set of URLs whose local answer may
ask the weather service. The application that runs the middleware (`app.py`) is
not in the repository; it is taken to serve each request on a thread, as WSGI
servers do. One cloud host is modelled, and the shortcut for requests to the box
itself (135-155), the data log and the trace are not.

### 3.5 MqttDaemon

`mqtt_daemon.py` as the event loop runs it: one thread, a first-in first-out
queue of handles, a task runs until it awaits. `Cycle(t)` is a turn of one of
the four `publish_*_states` loops, `CycleRaises` an exception in it,
`OpenPipe`, `PipeOpened`, `ReadLine`, `PipeBroken` are `publish_idle_states`,
which never awaits, `TaskDone` is `TaskGroup._on_task_done` followed by
`doneCallback`, `LoopRaises` the end of `asyncio.run`. Around it `BootAddon`,
`MakePipe` (`hd-idle/run`), `StartDaemon` (`mqtt-handler/run`, which gives `-i`
only if the pipe exists at that moment), `KillDaemon`, `HdIdleDies`,
`StopAddon`, `AddonDown` with the `finish` scripts. `asyncio` and
`ha_mqtt_discoverable` are external: a sensor's configuration is published,
retained, before its first state and never again. Each disk has SMART data
and one mounted partition. A task that raises cancels the others in any order
(`Abort`), and `publish_idle_states` raises at a line it cannot parse
(`IdleRaises`). In `hd-idle | tee` opening the pipe waits for the other end, and
as the image's BusyBox tee ignores SIGPIPE a line written without a reader is
lost. `HdIdleDies` ends both and then the add-on; a tee that still waits for a
reader hides it, and a kill of tee alone is not modelled.

### 3.6 History

`check_migrations` and `create_tables` statement by statement
(`CheckMigrations`, `CreateTable`, `SetUserVersion`), and the requests, each in
a thread: `Begin` / `Lookup` / `ServiceReads` and `FetchAnswers`, or
`FetchRaises` / `LogOutsideTemperature` / `Store` are `getWeather` under
`@cached`, whose lock is held in `Lookup` and in `Store` but not between; the
reading is made by the service, dated when it is about to be logged, and stored
later still; `Select` is a query of a range;
`Count` and `Data` are the two queries of `get_calls_group`; `BeginLog` and
`LogRow` are the logs of a temperature, an unknown datagram or an unknown call,
with the timestamp taken before the insert; `StampTrace` and `LogTraces` are the
`timing` decorator's row; `Raises` is "database is locked" in any statement, in
`timing`'s own too, where it takes the place of the answer (`SendError`). A
statement of `run_sql` is one transaction. `Crash` keeps the file only.

Time is counted in ticks, half an hour each when `TTL` is 2 (the cache's hour).
Rows are compared by local time as text, so `Wall` maps a tick to what the clock
shows: from `Spring` to `Fold` it is summer time and the clock `Shift` ticks
ahead. A range's begin is 14 days ago at today's offset (`database.py:223`),
which after `Spring` is too late for the rows from before (`SkippedAway`).
`traffic` is the mix of
requests of one behaviour, so that one run can follow several mixes without
their product.

### 3.7 FactoryReset, Certificates, Sambanas2

`FactoryReset` has one action per step of the scripts that touches a file or
uses the options, and `at` is where each script is. Reading an option is three
steps of bashio (external; `call` is where it is): `Hit` finds the entry in the
cache, or `Get` asks the Supervisor and `Keep` puts the answer into the cache,
whatever has been posted in between. Setting one (`bashio::addon.option`) is such
a read, a POST of all options with one changed, and `Flush`, which empties the
cache. There are two entries: `options`, which `addon.options` and the add-on's
information share, and `config`.

| Script | Model |
|---|---|
| `clean-config/run`: reads the options (13), drops each key it found (15-18) | `CleanConfigReads`, then per key a read, `CleanConfigPosts` and `Flush` |
| `factory-reset/run` | `TestFactoryReset`, `RemoveDatabase`, `RemoveExtraModules`, `RemoveUpgrade`, `SetCleanUpgradeDir`, `ResetFactoryReset` |
| `check-srat-update/run` | `ReadVersion`, `HaveVersion`, `TestCleanUpgradeDir`, `CleanUpgradeDir`, `ResetCleanUpgradeDir`, `UpgradeLocal`, `UpgradeOnline`, `UpgradeFinal` |
| services after these that only read | `OtherReads` |
| SRAT's database, modprobe's downloads | `Write` |

A behaviour has one `setting` of the bound `Settings`: the update channel, the
deprecated keys the options hold, whether a POST may fail (`faults`; only where
the script goes on with a warning), when the owner asks for something (`asks`:
never, while the add-on is stopped, always), and whether the other services read
too. The container's own binaries come back with each start and its cache is
empty; `/data` and `/config` stay. Versions are numbers. `stale` notes at each
`Start` what the options then ask to have removed; `asked` that the owner has
asked for a factory reset since, `beside` that factory-reset posted while
`clean-config` was not over, or that its POST failed.

`Certificates` is `init-smbd`: `ReadName` takes the host's name once
factory-reset is done, `Check` is its decision, then one action per `openssl`
call that writes a file. A call that fails or is killed leaves its file as it
was or torn. Keys and host names are numbers in the order they came. `Rename`,
`RemoveCert` and `Expire` are what happens around it.

`Sambanas2` runs both in one container: a start, and a stop, are both at once,
and `init-smbd` waits for `factory-reset`. It adds no state, and two bounds:
`Smbd`, the settings under which `init-smbd` is looked at, and `Eventful`, those
under which the host and the certificates change meanwhile.

## 4. The runs

Every bound appears in a guard and is a CONSTANT: `MaxCalls`, `MaxUnwaited`,
`MaxEvents`, `MaxInFlight`, `MaxReqs`, `MaxFlips`, `MaxLines`, `MaxStarts`,
`MaxTime`, `MaxKeys`, `Starts`, `Settings`, `Smbd`, `Eventful`. Deadlock is
checked in the `fb_`, `ud_`, `mq_` and `hist` runs, whose devices report, whose
services restart and whose requests come for ever, and not in the `cp_`, `hp_` and `s2_` runs: there every behaviour
ends once the bounded calls or starts are made.

| Run | Instance | Shows |
|---|---|---|
| `cp_race` | 2 clients, one call each (a value that fits, one that does not, a program), one send of the UDP thread, numbers 0..1 | Three sends over two numbers: the counter wraps while calls are open and all three races on `NextCSeq` and `WaitCSeq` occur. No entry leaks, answers carry the number, a call with a number of its own is right, every call returns, the UDP thread comes back to its socket |
| `cp_serial` | 1 client, 3 calls, numbers 0..2 | Implements `ControlCall`, liveness included, as long as a number is not used twice; late and duplicate answers to earlier calls occur |
| `cp_crossed` | 2 clients, one value, numbers 0..2 | **Violated**: `OkMeansApplied` |
| `fb_balance` | Calm: 1 caller that boosts twice, 1 timer thread, the user changes mode, boost, set temperature; timely, ordered network. Busy: 2 callers that PUT 0 and 1, 1 timer thread, one call each, a failing database; the same network. Lossy: as Busy, with loss and reordering | A boost and an un-boost never overlap unless two calls for the same value did; OK and the timer follow what the device applied. Calm and Busy: undisturbed, a boost is a switch (`ImplementsBoostSwitch`) and is undone exactly once (`Balanced`). Calm: it ends |
| `ud_mirror` | 1 room, 2 days, 2 addresses, 3 events of any kind (edit, PUT, loss, overtaking, failure, knock, cloud message, restart, move), reports for ever | Only a datagram that was overtaken takes the mirror back, an echoed day is stored, settings settle whatever was overtaken, programs but for an upload that was |
| `hist` | 2 threads; weather and its history, or traced call histories, or datagrams logged and read; 4 ticks, kills, locked statements, a slow service, one tick of summer time | What is served has its tables, the weather goes forward, histories show what was there but for the hour a change of the clock hides, totals are reached, only the fetch hangs |
| `hp_shared` | 2 threads, 3 requests of 3 kinds of URL, one change of the Internet connection, failing sockets, application and database | The answer is one's own, the right side answers, a thread hangs only on the cloud or the weather service |
| `hp_wedged` | 2 threads, 2 requests, nothing fails | **Violated**: `Usable` |
| `mq_serve` | 1 disk, with and without hd-idle, 2 starts of the daemon per life of the add-on, any number of lives | A crash, also at a line hd-idle garbled, leaves nothing; deleted is over; the power shown is the disk's; sensors keep coming |
| `mq_starved` | 1 disk with hd-idle, 1 start | **Violated**: `DiskDataIsSent` |
| `s2_boot` | 3 starts, 2 host names, 5 keys. Faulty: an old option and POSTs that fail. Renewing: the host and the certificates change. Busy: an owner who asks at any time, and other services that fill the cache. TwoKeys: two old options | What was to be removed is, before SRAT starts, whatever the services post over one another; the option resets itself and stays reset when its service posted alone; smbd's certificate fits |
| `s2_reset` | 2 starts, one option of an older release, a Supervisor that answers | **Violated**: `ResetsItself` |

Why the bounds suffice:

* Control plane. The races are between two sends with the same number, a send
  and the signal of an earlier answer, and a send and the pop of a later one.
  Two clients and the UDP thread over two numbers reach all of them; a third
  client repeats one of the roles. The proofs hold for any number.
* Fake boost. What matters is one call that starts and one that ends a boost,
  in either order and overlapping, and a second attempt after each; on a network
  that loses, two callers and the timer meet in every order with one call each.
  The proofs hold for any number of calls.
* Mirror. Rooms share only the handler; two days are needed for a week that is
  partly known. Three events reach the longest scenario the properties are
  about: an edit, a loss and a restart, an edit, an upload and its late echo, or
  two edits and an overtaking. A STATUS that is handled for some of several rooms
  is not reached with one; the proofs hold for any number.
* HTTP. Two threads reach every overlap on one object; a third request comes
  after both and meets what they left.
* MQTT. A second disk repeats the first; a second start meets what the first
  left at the broker and in the pipe. With `MaxLines = 1` one line waits while
  the next is read or lost; the proofs hold for any number.
* History. `TTL = 2`, `Window = 1` and 4 ticks (`MaxTime = 3`), of which the
  second is summer time, let a result expire and be replaced, a row leave the
  window, and the clock be put forward and back with rows on both sides. Two
  threads reach every overlap of two look-ups, or of a query and a log. `Prompt`
  lets a reading be on its way, and wait for the database, for less than `TTL`,
  an hour: the driver gives up after 5 s, and an answer that is sent takes no
  hour. The proofs hold for any values.
* Samba NAS 2. Three starts reach a start that is cut short, one that is cut
  short again while it repairs, and one that ends; two names and five keys are
  what three starts can use up to a renewal of everything. The four settings each
  have one thing that makes the others hard; their product would add states and no
  new kind of interference, as a posted copy depends on the cache and the options
  alone. The proofs hold for any number, and for every setting.

### Fairness

* A thread that can take a step takes one: weak fairness of each client's
  steps, of the UDP thread, of each request's thread, of the event loop. They
  are operating-system threads, and `Event.wait(1)`, `time.sleep(1)` and
  `asyncio.sleep` come back.
* `ControlPlane` and `MqttDaemon` assume nothing of the network, the device,
  the user or failures.
* `FakeBoost` and `UdpServer` assume in addition that the device handles what
  reaches it and reports for ever, every 40 seconds; this is what the code
  itself relies on to notice anything. `UdpServer`'s losses and overtakings are
  bounded, so its reports get through in the end.
* `HttpProxy` assumes that a thread runs; the resolver and `connect()` give up by
  themselves. A socket need never be answered, reset or closed, nor a body come
  to its end (`HTTPConnection` is made without a timeout), nor the weather service
  answer.
* `History` assumes that a thread runs. The weather service owes no answer
  (`requests.get` has no timeout), nor the network the one it sent, nor is a
  statement owed success.
* `MqttDaemon` assumes that `hd-idle/run`, once started, makes its pipe.

### What the violated runs show

* `cp_crossed`. Two threads read the counter before either writes it
  (`udpserver.py:247-251`), share a number, and the answer to one is returned
  to the other: its PUT says OK for a value the box never received.
* `hp_wedged`. Two requests overlap on the stored connection; the second gets
  ResponseNotReady and leaves it in state "sent"; nothing ever replaces it.
* `mq_starved`. With `hdd_idle_seconds` set, the task that follows hd-idle
  keeps the event loop: no usage, SMART, I/O or Samba sensor is sent.
* `s2_reset`. `clean-config` has read the options, to drop one, when
  `factory-reset` resets `factory_reset`; it posts back what it read
  (`clean-config/run:18`). The next start wipes everything again, though
  `sambanas2/DOCS.md:228` says the option resets itself. It happens without any
  old option too, which is why `ResetsItselfAlone` excepts it: if the answer to
  `clean-config/run:13` is put into the cache after factory-reset's last flush,
  `check-srat-update/run:140` takes it from there and posts it back.

## 5. What is proved

Theorems are for every value of the constants that satisfies the named
assumption; TLC evaluates each assumption in a run. TLC checks the properties
on an instance; the invariants here say why they hold on every other.

`ControlPlane_proofs`, from `ControlPlaneAssumption` alone (constants are
disjoint where the code's are; any number of clients, numbers and calls):

* `TypeCorrect`: types; in particular the counter stays below `UNUSED_CSEQ`
  whatever the interleaving.
* `NoLeakAlways`, `RegisteredAlways`, `ExclusiveAnswerAlways`,
  `SignalledAlways`, `AnswerCarriesNumberAlways`: the safety properties of
  `cp_race`.

None of the properties is inductive. `IInv` adds, in the order the argument
needs them: numbers that were drawn are recorded (`Numbers`); a datagram's
number and value are those of the call it names (`Wire`), and a call whose
number is its own is the only one on the wire with it (`OwnDatagrams`); an
entry is referred to by its own call or by one that shares the number
(`NoEarlyReference`, `KeysAgree`, `OwnEntry`); a value in an entry came in a
response with the entry's number (`ValuesComeFromTheWire`). A call that has its
number to itself then finds its own entry in the dict at each of its lookups,
and the value there is its own or None.

* `CallsKeepPromise`: `ControlPlane` implements the safety of `ControlCall`, step
  by step, while `Undisturbed`: no call under way has a number that was handed out
  twice. With a shared number it does not (`cp_crossed`). Besides `IInv` the
  proof needs `Dispatched`: a call's request is on the network from its `Send`
  on and not before, so a call that gives up has been sent and one that raises
  has not.
* `SingleCallKeepsPromise`: one caller is undisturbed until the counter wraps
  (`Serial`), so the same holds for the surroundings of `cp_serial` without a
  hypothesis on numbers.

`FakeBoost_proofs`, from `FakeBoostAssumption`, for any number of threads and
any network:

* `TypeCorrect`, `OkMeansBoostedAlways`, and `TimerFollowsDeviceAlways` (an
  action property). The invariant says that an answer under way, or noted in
  `answered`, stands for a request the device has applied, and that a call
  waiting for the mode has had its T3 applied; so a call that ends OK, or that
  moves the timer, has done both.
* `BoostExcludesUnboostAlways`, for any callers and any network, as long as no two
  calls for the same value have been past their checks together. The timer then
  acts as a lock (`Lock`): while a boost is being started it is off, while one is
  being undone it is on, and there is one call of each kind at most.
* `BalancedAlways`, when `Undisturbed`; any number of callers and calls, and
  whatever the user does to mode, boost and set temperature. The lock leaves one
  call at a time (`Alone`). The
  invariant `Books` keeps account of T3: `Before` is what the timer says it is,
  `After` what the call under way makes of it. A request under way is that of
  the waiting call, for `After`, and the only one (`AllAsked`, `OneRequest`);
  the device has `After` from when it applies it (`DeviceT3`); the mirror and each
  STATUS in the queue have the T3 of their place in it, `Before` ahead of the echo
  and the device's behind it (`MirrorT3`), so the next call reads the right T3
  even if the device reported during this one. `Finish` turns the timer, and
  with it `After` into `Before`. Order matters: TLC finds `Balanced` violated if
  a STATUS may be overtaken, since one from before the boost then makes its end
  start from the old T3.
* `BoostIsSwitch`: under the same conditions every step of `FakeBoost` is a step
  of `BoostSwitch` or leaves it alone. Four actions need an argument. A `Check`
  that lets a call through finds nobody else past it (the lock), so it begins a
  turn; `SendT3` cannot raise, as T3 is never below the user's (`Books`); the device
  applies T3 while it still is what it was before the call; and `Finish` finds it at
  what it is after the call, and turns the timer. The rest is `Unmoved`.

`History_proofs`, from `HistoryAssumption`, for any number of threads, any
traffic, any cache time and window, and any place for summer time:

* `TypeCorrect`, `ServedMeansTablesAlways`, `PagesHoldTotalAlways`, and the
  action properties `WeatherForwardAlways` and `HistoryShowsAlways`.
* The invariant has five parts. `Created`: a version is set only when every
  table is there. `Counted`: rows of the traces are only added, so what was
  counted for a range is still in it (this needs that the range is finite, and
  the same for both queries). `Latest`: the cache holds the latest reading that
  was returned, and a thread that is late with an older one is in time to find
  the cache filled (`Meets`); here `Prompt` is used, when the clock ticks.
  `Stamps` and `Logged`: a value that was returned, is kept, or is about to be
  stored has a row, dated when the value was there already. `HistoryShowsAlways`
  then needs `InRange`: outside the repeated hour and but for `SkippedAway`, local
  time keeps the order that the query compares by.

`HttpProxy_proofs`, from `HttpProxyAssumption`, for any number of threads, any
URLs and any faults:

* `TypeCorrect`: types, a thread that talks to the cloud finds a connection
  stored, and what it reads from exists.
* `OwnAnswerAlways`. The invariant `Single`: while one connection object is
  stored its state "sent" is a lock. `Request` takes it only when idle, and it
  is idle again only after the answer was read from the socket, so at most one
  thread is between its request and the answer, and what is outstanding where it
  will read is its own request or nothing. A second object breaks this, as two
  threads may then read what they did not ask; the property is conditional on
  that (section 6).
* `RightSideAlways`, for a table that satisfies `TableFits` (what is LOCAL_FIRST
  is served, what is ONLY_REMOTE is not), which TLC evaluates for the tables of
  the code, and about URLs for which the table says one thing (`Certain`). The
  invariant `Rule` follows a thread's behaviour from `check_behaviour` through
  `Resolve` and `Choose` to the answer.

`UdpServer_proofs`, from `UdpServerAssumption` (among others, that the days of a
week are finite), for any rooms, days, addresses and number of events:

* `TypeCorrect`, `EchoMeansStoredAlways` and the action property
  `NeverBackwardsAlways`.
* The invariant `InOrder` is about one setting or one day at a time, and about the
  values that were not overtaken (`Timely`; the others are `Late`): what the mirror
  and the handler's thread hold is not newer than anything under way that speaks of
  it, what is under way is in the order the device had it, and nothing is newer
  than what the device has. Losses and restarts only remove from this chain, and a
  swap takes the value that falls behind out of it, so whatever the handler stores
  next is as new as what it replaces, or late.
* `EchoMeansStored` needs that no program gets lost for good: `Accounted`, a day's
  present program is not acknowledged, or its loss is not yet reported, or the
  answer that carries it is under way, or the mirror knows it (or holds an earlier
  one whose upload was overtaken: `Known`). `EchoedKnown`
  (an echo under way to the device means that the mirror knows what it echoes)
  is what makes the acknowledgement safe, and `CloudEchoes` says where the cloud's
  programs come from. Steps are sorted first by what they do to the queues
  (`StepKinds`: served, sent, quiet, a restart, a loss, an overtaking), so each part
  is shown for six kinds of step and not for every message type.

`MqttDaemon_proofs`, from its module's `Assumptions`, for any disks, options and
number of starts:

* `TypeCorrect`, `CrashLeavesNothingAlways`, `DeletedIsOverAlways` and
  `PowerShownAlways`.
* `Handled` ties the event loop's queue to the tasks: one handle per ready task,
  callbacks only of done ones. `Stages` ties the tasks to the daemon. Then
  `LastDeletes`: once every task is done and the queue is empty, the last callback
  has deleted every sensor; `Group`: the tasks are cancelled all at once, and
  without hd-idle nothing is announced after a deletion but by a task that is
  already cancelled. `Following` is for `PowerShown`: what is in the pipe about a
  disk, and after it what the broker shows, ends with the disk's present state
  (`Tracks`), as long as the first daemon reads; `Opened`: tee gets through its open
  when a daemon opens the pipe to read, so no line was lost before.

`FactoryReset_proofs`, from `FactoryResetConstants`:

* `RemovedAsAskedAlways`. The invariant speaks of all the copies of the options
  there are (`Around`: the Supervisor's, the cache's and what each service has read
  and not yet used), because any of them may be posted. `Pending`: whatever is still
  to be removed has its request standing in every copy (`ResetWanted`,
  `CleanWanted`), and the service that removes it has not passed it. A POST changes
  one key of one copy, so only the service that has done the work takes a request
  out of the copies. `Stages` keeps the services in the order of their dependencies.
* `ResetsItselfAloneAlways`. The invariant `Untroubled`, for a start in which the
  owner does not ask anew, `clean-config` was over when factory-reset posted, and
  that POST did not fail: until then all copies have the same `factory_reset`
  (`OneValue`); between the POST and the flush only the cache may have another one,
  and nobody reads it; from the flush on all copies have it false (`NoReset`), so no
  later POST can put it back. Without `clean-config`'s being over the middle step
  fails, as in `s2_reset`.

`Sambanas2_proofs`, from `Sambanas2Assumption`: `TypeCorrect`,
`RemovedAsAskedAlways`, `ResetsItselfAloneAlways` and `CertServesAlways`. Two lemmas
(`ImplementsFactoryReset`, `ImplementsCertificates`: every step is a step of the part
or leaves it alone) transfer them from the parts, for which they say no more than
how the parts are put together. What is to be shown of `Certificates` is in the same
module:

* `CertServesAlone`. The invariant `CertInv`: the server's certificate fits the
  other files, or it is dead (`OldCertDead`), that is, expired or for a name the
  host no longer has. The script compares neither key nor CA with the
  certificate; what saves it is that it replaces files only when the old
  certificate is dead.

What stays with TLC. The prover does not handle liveness under fairness nor
ENABLED: `CallReturns`, `UdpReturns`, `BoostEnds`, `OnlyServersHang`,
`SettingsSettle`, `ProgramsSettle`, `SensorsKeepComing`, `OnlyFetchHangs` and the
liveness half of `ImplementsControlCall`. Induction over data is not available
either, and no theorem here needs it: queues are reasoned about by position.

## 6. Limits, and what was seen on the way

Not modelled, and why:

* The codec: sequential and stateless.
* The GUI, start scripts, text generation, builds.
* OpenTherm values, time, version and outside temperature: mirrored without
  any property to hold between them.
* The database's migrations: there are none, another version is refused. `purge`
  and `get_calls` have no caller. SQLite's own guarantees are taken as given.
* The shell loops that publish when `mqtt_nexgen_entities` is off, and
  `mqtt-disk-handler`: they keep no state but a delay.
* `init-automount`, `cifs-supervisor-mount`: loops of mount commands whose state
  is the kernel's and the Supervisor's; what their partial failures leave is
  listed below.
* `modprobe` and NFS: downloads and kernel I/O. `FactoryReset` has only that
  modules are stored after the reset is done.
* Sambanas2's long-running services: start scripts; SRAT is a binary from
  another repository.
* Times: a timeout may fire whenever it is not too late for it, the add-on's
  delays are step boundaries. In particular the second that the UDP thread sleeps
  before each GET_PROG, which is also the time a caller waits for its answer, is
  not measured.
* Duplicates of datagrams in `UdpServer`; `ControlPlane` has them.
* The Supervisor's schema, which may drop keys it does not know from what is posted;
  `bashio::addon.option` is taken to change what it says. A GET that fails ends the
  start. The cache's entries for the add-on's information and for its options are
  one, and the host's name, which bashio may have cached as well, is read anew.

`PowerShown` speaks of the first daemon in a life of the add-on: a later one
begins with no memory of the disks and hears only of changes. `SensorsKeepComing`
speaks of a daemon without hd-idle; with it `mq_starved` applies.

`CertServes` holds for a host whose names do not come back and an owner who
removes the server's certificate only. If an old name returns (also through a
Supervisor that answers no name, which gives `homeassistant`), or if another of
the four files is removed and the renewal is then killed, files that do not
match can be accepted. That the CA expires before the certificate is not
noticed until the certificate is renewed.

`RemovedAsAsked` speaks of what was asked for when a start began. A request the owner
makes while the services of a start post their copies of the options may be
overwritten by one of them and is then gone; `asked` keeps `ResetsItselfAlone` from
speaking of it.

The mirror looks at no sequence number (`udpserver.py:776`). A report or an answer
that was overtaken takes a setting back until the next report, at most 40 s later
(`SettingsSettle`); an upload that was overtaken leaves an earlier program in the
mirror and the device reports no loss, so it stays until that day's next edit or a
restart of the server. These are what `NeverBackwards`, `EchoMeansStored` and
`ProgramsSettle` except.

`HistoryShows` leaves out what the code hides when the clock changes: in the
hour it repeats, what was logged the first time round; and from the begin of
summer time on, for 14 days, the oldest hour of the 14 days asked for
(`SkippedAway`).

Seen while reading, without a run of their own:

* The UDP thread ends each of its own sends in `WaitCSeq`; when another thread
  shares its number it waits there for up to a second for an answer only it
  could receive (`UdpReturns` shows that it comes back).
* `Day.put` compares the result of a send under `UNUSED_CSEQ`, which is always
  None, and always answers 500 (`restapi.py:284`).
* `LastCSeq` is wrong after a wrap (`udpserver.py:264`); it is used in log
  comparisons only.
* `ProxyMiddleware.__init__` stores the override for a configured location
  under another key than the default's (96-99), so REMOTE_FIRST still wins and
  the outside temperature comes from the cloud; `RightSide` does not say that it
  should. `body_org` is unbound when the data log is on and the cloud was not asked
  (244).
* A first use by two threads stores two connections, the second in place of the
  first; answers may then cross, which is why `OwnAnswer` is conditional.
* Once a connection is stored, a failing `connect()` is an exception although
  the local application has the answer (`besim/rootfs/opt/BeSIM/README.md:5`:
  "also without internet connectivity").
* SIGTERM ends the MQTT daemon with its sensors still retained, since its
  signal handlers are installed after the TaskGroup; `sambanas/DOCS.md:392`
  describes an option that disables their removal.
* After a lost answer to SET_T3 or SET_MODE the thermostat's T3 has changed and
  the timer has not (`udpserver.py:721`, 733-737); the next attempt starts from
  the changed T3, and the setting stays wrong. `Balanced` is therefore about
  answers in time.
* Nothing keeps two un-boosts apart, a PUT of 0 and the thread of a STATUS
  (`udpserver.py:671`, 866): both lower T3. The fake boost's properties except
  what follows such a pair.
* The cloud's late echo of an earlier upload replaces a newer program in the
  mirror (`proxyUdpServer.py:136`); the device reports no loss, so the API shows
  the old one until the next edit.
* The first address a device was seen at is the one the cloud's messages go to
  (`status.py:24`), and the server does not start when the cloud's name cannot
  be resolved (`proxyUdpServer.py:39`).
* `getWeather` keeps an error answer of the service for an hour, like any other.
* `/data/upgrade` is installed whatever the channel is
  (`check-srat-update/run:166`), though `sambanas2/DOCS.md:206` says that with
  `none` it is ignored. A download of the develop channel goes to
  `/config/upgrade`, which a factory reset keeps, and is installed at the next
  start only.
* `factory-reset` removes `/config/server.cert` and `.key`; the certificates are
  in `/ssl/sambanas` and stay.
* `sambanas2/DOCS.md:227` speaks of `/config/extra_modules`; `modprobe/run` and
  `factory-reset/run` use `/data/extra_modules`, `modprobe/finish` the former, so
  it unloads nothing.
* `modprobe/run:102` looks for obsolete modules under a name they are not stored
  with: none is ever found.
* With `set -e` the clean-ups after `init-smbd`'s `openssl` calls are never
  reached.
* `cifs-supervisor-mount` deletes a mount before it posts the new one; after
  three failures the share has none (`run:51`). `init-automount` records a mount
  after it was made (`run:152`); a failure in between leaves one that `finish`
  does not undo.
