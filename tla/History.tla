------------------------------ MODULE History ------------------------------
(***************************************************************************)
(* BeSIM's history: the SQLite database, the weather cache in front of it, *)
(* and the requests that fill and show both (getWeather, WeatherHistory,   *)
(* TemperatureHistory, CallHistory, UnknownUDP, UnknownAPI of restapi.py). *)
(*                                                                         *)
(* Flask answers each request in a thread of its own.  A statement given   *)
(* to run_sql is one transaction: it is done and committed, or it raises   *)
(* ("database is locked", after the driver's 5 s).  A row's timestamp is   *)
(* taken before its insert.  The weather service is external; it may       *)
(* answer, answer an error, or never answer (the call has no timeout).     *)
(*                                                                         *)
(* Time is counted in ticks (half an hour when TTL is 2).  The weather's   *)
(* reading of tick n is the number n, and a row's value is its reading or, *)
(* in the other tables, the tick it was made.  Timestamps are local and    *)
(* compared as text, so Wall is what is compared: the clock skips Shift    *)
(* ticks when summer time begins and repeats them when it ends.  app.py,   *)
(* which calls check_migrations before it serves, is not in the            *)
(* repository.                                                             *)
(***************************************************************************)
EXTENDS Integers, FiniteSets

CONSTANTS
  Threads,   \* threads that serve requests or datagrams
  Traffics,  \* bound: what is asked and logged together, see Traffic
  TTL,       \* how long getWeather's result is kept
  Window,    \* how far back a history goes by default, 14 days in the code
  Spring,    \* the tick at which summer time begins
  Fold,      \* the tick at which it ends
  Shift,     \* ticks by which the clock is ahead in summer time
  MaxTime,   \* bound: the clock stops here
  Error,     \* an answer of the service other than 200
  Nil        \* Python's None

VERSION    == 7
OldVersion == 6        \* any other than 0 and VERSION
Tables == {"besim_outside_temperature", "besim_temperature", "web_traces",
           "unknown_udp", "unknown_api"}
Kinds  == {"Weather", "WeatherHistory", "CallHistory"}

\* Tables of which a row is one log call and a request one query.
Plain == Tables \ {"besim_outside_temperature", "web_traces"}

\* The requests that come, the plain tables that are logged to and asked for, and
\* the requests whose traces are followed.
Traffic == [kinds : SUBSET Kinds, logged : SUBSET Plain, traced : SUBSET (Kinds \cup Plain)]

ASSUME HistoryAssumption ==
  /\ Traffics \subseteq Traffic
  /\ {TTL, Window, Shift} \subseteq Nat \ {0} /\ TTL > 1
  /\ {Spring, Fold, MaxTime} \subseteq Nat
  /\ {Nil, Error} \cap Nat = {} /\ Nil # Error
  /\ Nil \notin [result : Nat \cup {Error}, stored : Nat]

VARIABLES
  traffic,  \* the traffic of this behaviour
  now,
  version, tables, rows,  \* the database file: pragma, tables, table -> {<<ts, value>>}
  up,       \* the process: "down", "creating", "refused" or "serving"
  cache,    \* getWeather's TTLCache: [result, stored] or Nil
  pc,       \* thread -> where it is
  kind,     \* thread -> the request, a table it only logs to or reads, or Nil
  got,      \* thread -> getWeather's result, Error or the value to log, or Nil
  ts,       \* thread -> the timestamp of the row to insert, or the range's end
  total,    \* thread -> CallHistory's meta.total
  page,     \* thread -> what the history it read contains
  returned, \* history: the readings getWeather has returned
  before    \* history: thread -> returned, and the rows, when its request began

disk    == <<version, tables, rows>>
request == <<pc, kind, got, ts, total, page, before>>
vars    == <<traffic, now, disk, up, cache, request, returned>>

Init ==
  /\ traffic \in Traffics
  /\ now = 0
  /\ \/ version = 0 /\ tables = {}
     \/ version \in {OldVersion, VERSION} /\ tables = Tables
  /\ rows = [tab \in Tables |-> {}]
  /\ up = "down" /\ cache = Nil
  /\ pc = [t \in Threads |-> "idle"]
  /\ kind = [t \in Threads |-> Nil] /\ got = [t \in Threads |-> Nil]
  /\ ts = [t \in Threads |-> Nil] /\ total = [t \in Threads |-> Nil]
  /\ page = [t \in Threads |-> {}] /\ before = [t \in Threads |-> {}]
  /\ returned = {}

\* The local time of a tick.
Wall(n) == IF Spring <= n /\ n < Fold THEN n + Shift ELSE n

-----------------------------------------------------------------------------
(* The process and check_migrations.                                       *)

\* The version is read: a new database is to be created, one of another version
\* is refused, and the server is not started.
CheckMigrations ==
  /\ up = "down"
  /\ up' = CASE version = 0 -> "creating"
             [] version = VERSION -> "serving"
             [] OTHER -> "refused"
  /\ UNCHANGED <<now, disk, cache, request, returned>>

\* The next of create_tables' "create table if not exists".
CreateTable(tab) ==
  /\ up = "creating" /\ tab \notin tables
  /\ tables' = tables \cup {tab}
  /\ UNCHANGED <<now, version, rows, up, cache, request, returned>>

\* Mutant: the version is set before the tables are there.
SetUserVersion_First ==
  /\ up = "creating"
  /\ version' = VERSION
  /\ up' = IF tables = Tables THEN "serving" ELSE up
  /\ UNCHANGED <<now, tables, rows, cache, request, returned>>

\* Mutant: the version is counted up.
SetUserVersion_Next ==
  /\ up = "creating" /\ tables = Tables
  /\ version' = VERSION + 1
  /\ up' = "serving"
  /\ UNCHANGED <<now, tables, rows, cache, request, returned>>

SetUserVersion ==
  /\ up = "creating" /\ tables = Tables
  /\ version' = VERSION
  /\ up' = "serving"
  /\ UNCHANGED <<now, tables, rows, cache, request, returned>>

\* The add-on is stopped or killed; the file stays.
Crash ==
  /\ up # "down" /\ up' = "down"
  /\ cache' = Nil
  /\ pc' = [t \in Threads |-> "idle"]
  /\ kind' = [t \in Threads |-> Nil] /\ got' = [t \in Threads |-> Nil]
  /\ ts' = [t \in Threads |-> Nil] /\ total' = [t \in Threads |-> Nil]
  /\ page' = [t \in Threads |-> {}] /\ before' = [t \in Threads |-> {}]
  /\ UNCHANGED <<now, disk, returned>>

\* Bound: a reading is on its way, logged and stored for less than TTL, an hour (the
\* driver waits 5 s for the database, then raises).
Prompt ==
  \A t \in Threads : pc[t] \in {"answer", "log", "store"} /\ got[t] # Error => now + 1 < got[t] + TTL

Tick ==
  /\ now < MaxTime /\ Prompt
  /\ now' = now + 1
  /\ UNCHANGED <<disk, up, cache, request, returned>>

-----------------------------------------------------------------------------
(* Requests.                                                               *)

At(t, where, next) == pc[t] = where /\ pc' = [pc EXCEPT ![t] = next]

\* The request is over.
End(t) ==
  /\ pc' = [pc EXCEPT ![t] = "idle"]
  /\ kind' = [kind EXCEPT ![t] = Nil] /\ got' = [got EXCEPT ![t] = Nil]
  /\ ts' = [ts EXCEPT ![t] = Nil] /\ total' = [total EXCEPT ![t] = Nil]
  /\ page' = [page EXCEPT ![t] = {}] /\ before' = [before EXCEPT ![t] = {}]

\* The handler raises: what it had for an answer is gone.
Fail(t, next) ==
  /\ pc' = [pc EXCEPT ![t] = next]
  /\ got' = [got EXCEPT ![t] = Nil] /\ ts' = [ts EXCEPT ![t] = Nil]
  /\ total' = [total EXCEPT ![t] = Nil] /\ page' = [page EXCEPT ![t] = {}]
  /\ before' = [before EXCEPT ![t] = {}]
  /\ UNCHANGED kind

Into(tab, t, v) == rows' = [rows EXCEPT ![tab] = @ \cup {<<ts[t], v>>}]

\* A request arrives.  CallHistory takes the range of its two queries once.
Begin(t, k) ==
  /\ up = "serving"
  /\ At(t, "idle", IF k = "CallHistory" THEN "count" ELSE "lookup")
  /\ kind' = [kind EXCEPT ![t] = k]
  /\ ts' = [ts EXCEPT ![t] = IF k = "CallHistory" THEN Wall(now) ELSE Nil]
  /\ before' = [before EXCEPT ![t] = IF k = "WeatherHistory" THEN returned ELSE {}]
  /\ UNCHANGED <<now, disk, up, cache, got, total, page, returned>>

\* A handler logs a temperature, an unknown datagram or an unknown call: the
\* timestamp is taken.
BeginLog(t, tab) ==
  /\ up = "serving"
  /\ At(t, "idle", "write")
  /\ kind' = [kind EXCEPT ![t] = tab]
  /\ got' = [got EXCEPT ![t] = now]
  /\ ts' = [ts EXCEPT ![t] = Wall(now)]
  /\ UNCHANGED <<now, disk, up, cache, total, page, before, returned>>

\* log_temperature, log_unknown_udp, log_unknown_api.
LogRow(t) ==
  /\ pc[t] = "write" /\ End(t)
  /\ Into(kind[t], t, got[t])
  /\ UNCHANGED <<now, version, tables, up, cache, returned>>

\* A client asks for such a table.
BeginGet(t, tab) ==
  /\ up = "serving"
  /\ At(t, "idle", "select")
  /\ kind' = [kind EXCEPT ![t] = tab]
  /\ before' = [before EXCEPT ![t] = {r[2] : r \in rows[tab]}]
  /\ UNCHANGED <<now, disk, up, cache, got, ts, total, page, returned>>

Kept == cache # Nil /\ now < cache.stored + TTL

\* getWeather returns v: GET weather and getWebTemperature answer it,
\* WeatherHistory goes on to the table.
Return(t, v) ==
  /\ got' = [got EXCEPT ![t] = v]
  /\ returned' = IF v = Error THEN returned ELSE returned \cup {v}
  /\ pc' = [pc EXCEPT ![t] = IF kind[t] = "Weather" THEN "trace" ELSE "select"]

\* Mutant: the cache's lock is held while the weather service is asked.
Lookup_Locked(t) ==
  /\ pc[t] = "lookup"
  /\ \A u \in Threads : pc[u] # "fetch"
  /\ IF Kept THEN Return(t, cache.result)
             ELSE pc' = [pc EXCEPT ![t] = "fetch"] /\ UNCHANGED <<got, returned>>
  /\ UNCHANGED <<now, disk, up, cache, kind, ts, total, page, before>>

\* @cached: the lock is held for the look-up only, so several threads may find
\* nothing and ask.
Lookup(t) ==
  /\ pc[t] = "lookup"
  /\ IF Kept THEN Return(t, cache.result)
             ELSE pc' = [pc EXCEPT ![t] = "fetch"] /\ UNCHANGED <<got, returned>>
  /\ UNCHANGED <<now, disk, up, cache, kind, ts, total, page, before>>

\* The service makes its answer: its latest reading, or an error, which getWeather
\* returns as it is.
ServiceReads(t) ==
  /\ \/ At(t, "fetch", "answer") /\ got' = [got EXCEPT ![t] = now]
     \/ At(t, "fetch", "store") /\ got' = [got EXCEPT ![t] = Error]
  /\ UNCHANGED <<now, disk, up, cache, kind, ts, total, page, before, returned>>

\* The answer has come, and log_outside_temperature dates the row: later than the
\* reading, by as long as the answer took.
FetchAnswers(t) ==
  /\ At(t, "answer", "log")
  /\ ts' = [ts EXCEPT ![t] = Wall(now)]
  /\ UNCHANGED <<now, disk, up, cache, kind, got, total, page, before, returned>>

\* No connection, or a lost one, no JSON or no air_temperature in it: nothing is cached.
FetchRaises(t) ==
  /\ pc[t] \in {"fetch", "answer"} /\ Fail(t, "failed")
  /\ UNCHANGED <<now, disk, up, cache, returned>>

LogOutsideTemperature(t) ==
  /\ At(t, "log", "store")
  /\ Into("besim_outside_temperature", t, got[t])
  /\ UNCHANGED <<now, version, tables, up, cache, kind, got, ts, total, page, before, returned>>

\* Mutant: the result replaces what another thread has stored meanwhile.
Store_Replaces(t) ==
  /\ pc[t] = "store"
  /\ cache' = [result |-> got[t], stored |-> now]
  /\ Return(t, got[t])
  /\ UNCHANGED <<now, disk, up, kind, ts, total, page, before>>

\* @cached's setdefault: the first result stored is the one every thread returns,
\* errors of the service included.
Store(t) ==
  /\ pc[t] = "store"
  /\ cache' = IF Kept THEN cache ELSE [result |-> got[t], stored |-> now]
  /\ Return(t, cache'.result)
  /\ UNCHANGED <<now, disk, up, kind, ts, total, page, before>>

\* The rows of a range, by default the last 14 days up to the local time end.
Values(tab, end) == {r[2] : r \in {x \in rows[tab] : end - Window <= x[1] /\ x[1] <= end}}

TableOf(k) == IF k = "WeatherHistory" THEN "besim_outside_temperature" ELSE k

\* get_outside_temperature, get_temperature, get_unknown_udp, get_unknown_api.
Select(t) ==
  /\ At(t, "select", "trace")
  /\ page' = [page EXCEPT ![t] = Values(TableOf(kind[t]), Wall(now))]
  /\ UNCHANGED <<now, disk, up, cache, kind, got, ts, total, before, returned>>

\* get_calls_group: how many groups there are, and then the groups of the same
\* range.  A row's group is the kind of request.
Count(t) ==
  /\ At(t, "count", "data")
  /\ total' = [total EXCEPT ![t] = Cardinality(Values("web_traces", ts[t]))]
  /\ UNCHANGED <<now, disk, up, cache, kind, got, ts, page, before, returned>>

\* Mutant: each of the two queries takes its own range.
Data_OwnRange(t) ==
  /\ At(t, "data", "trace")
  /\ page' = [page EXCEPT ![t] = Values("web_traces", Wall(now))]
  /\ UNCHANGED <<now, disk, up, cache, kind, got, ts, total, before, returned>>

Data(t) ==
  /\ At(t, "data", "trace")
  /\ page' = [page EXCEPT ![t] = Values("web_traces", ts[t])]
  /\ UNCHANGED <<now, disk, up, cache, kind, got, ts, total, before, returned>>

\* timing: a request that has its answer is logged before it is sent.
StampTrace(t) ==
  /\ kind[t] \in traffic.traced
  /\ At(t, "trace", "insert") \/ At(t, "failed", "insert")
  /\ ts' = [ts EXCEPT ![t] = Wall(now)]
  /\ UNCHANGED <<now, disk, up, cache, kind, got, total, page, before, returned>>

SkipTrace(t) ==
  /\ kind[t] \notin traffic.traced /\ pc[t] \in {"trace", "failed"} /\ End(t)
  /\ UNCHANGED <<now, disk, up, cache, returned>>

LogTraces(t) ==
  /\ pc[t] = "insert" /\ End(t)
  /\ Into("web_traces", t, kind[t])
  /\ UNCHANGED <<now, version, tables, up, cache, returned>>

\* Mutant: a reading that could not be logged is no reason to fail.
Raises_Ignored(t) ==
  /\ \/ pc[t] \in {"select", "count", "data"} /\ Fail(t, "failed")
     \/ pc[t] = "insert" /\ Fail(t, "error")
     \/ pc[t] = "write" /\ End(t)
     \/ At(t, "log", "store") /\ UNCHANGED <<kind, got, ts, total, page, before>>
  /\ UNCHANGED <<now, disk, up, cache, returned>>

\* "database is locked", in any statement.  A request that fails is still traced.
\* When the trace fails, in timing's finally, that exception takes the place of the
\* answer the request already had.
Raises(t) ==
  /\ \/ pc[t] \in {"log", "select", "count", "data"} /\ Fail(t, "failed")
     \/ pc[t] = "insert" /\ Fail(t, "error")
     \/ pc[t] = "write" /\ End(t)
  /\ UNCHANGED <<now, disk, up, cache, returned>>

\* The server answers 500 in place of what the middleware raised.
SendError(t) ==
  /\ pc[t] = "error" /\ End(t)
  /\ UNCHANGED <<now, disk, up, cache, returned>>

-----------------------------------------------------------------------------
Serve(t) ==
  \/ Lookup(t) \/ LogOutsideTemperature(t) \/ Store(t)
  \/ Select(t) \/ Count(t) \/ Data(t) \/ StampTrace(t) \/ SkipTrace(t)
  \/ LogTraces(t) \/ LogRow(t) \/ Raises(t) \/ SendError(t)

Step ==
  \/ CheckMigrations \/ SetUserVersion \/ Crash \/ Tick
  \/ \E tab \in Tables : CreateTable(tab)
  \/ \E t \in Threads :
       \/ Serve(t) \/ ServiceReads(t) \/ FetchAnswers(t) \/ FetchRaises(t)
       \/ \E k \in traffic.kinds : Begin(t, k)
       \/ \E tab \in traffic.logged : BeginLog(t, tab) \/ BeginGet(t, tab)

Next == Step /\ UNCHANGED traffic

\* A thread runs; the weather service owes no answer, nor the network what it sent.
Fairness == \A t \in Threads : WF_vars(Serve(t) /\ UNCHANGED traffic)

Spec == Init /\ [][Next]_vars /\ Fairness

-----------------------------------------------------------------------------
Stages == {"idle", "lookup", "fetch", "answer", "log", "store", "select", "count", "data",
           "trace", "failed", "insert", "error", "write"}
Results == Nat \cup {Error}
Times == {Wall(n) : n \in 0..MaxTime}

TypeOK ==
  /\ traffic \in Traffics
  /\ now \in 0..MaxTime
  /\ version \in {0, OldVersion, VERSION} /\ tables \subseteq Tables
  /\ \A tab \in Tables : \A r \in rows[tab] :
       r[1] \in Times /\ r[2] \in IF tab = "web_traces" THEN Kinds \cup Plain ELSE 0..now
  /\ up \in {"down", "creating", "refused", "serving"}
  /\ cache = Nil \/ (cache.result \in Results /\ cache.stored \in 0..now)
  /\ pc \in [Threads -> Stages]
  /\ kind \in [Threads -> Kinds \cup Plain \cup {Nil}]
  /\ got \in [Threads -> Results \cup {Nil}]
  /\ ts \in [Threads -> Times \cup {Nil}]
  /\ total \in [Threads -> Nat \cup {Nil}]
  /\ returned \subseteq 0..now

\* Whatever a kill interrupts, a server that serves finds every table: create_tables
\* is taken up again by the next start until it was done once.
ServedMeansTables == up = "serving" => tables = Tables

\* getWeather never goes back in time: of the threads that asked the service at
\* once, one that is late does not return, or leave for others, an older reading
\* than was returned before.
WeatherForward ==
  [][\A t \in Threads :
       /\ pc[t] \in {"lookup", "store"} /\ pc'[t] \in {"trace", "select"}
       /\ got'[t] # Error
       => \A old \in returned : old <= got'[t]]_vars

\* The range of a history begins at the local time of 14 days ago, written with
\* today's offset: once summer time has begun that is Shift too late for the rows
\* from before.
SkippedAway(v) == v < Spring /\ Spring <= now /\ now < Fold /\ v < now - Window + Shift

\* A history shows every reading that was returned, and every row that was there,
\* before it was asked for, by whichever thread, and across restarts, of the last 14
\* days; in the first 14 days of summer time, of one hour less.  (In the hour the
\* clock repeats it does not show what was logged the first time.)
HistoryShows ==
  [][\A t \in Threads :
       /\ pc[t] = "select" /\ pc'[t] = "trace"
       /\ now \notin Fold..(Fold + Shift - 1)
       => \A v \in before[t] : v < now - Window \/ SkippedAway(v) \/ v \in page'[t]]_vars

\* meta.total is never more than the pages hold, though rows are logged between
\* the two queries: a client that reads up to total comes to an end.
PagesHoldTotal ==
  \A t \in Threads :
    kind[t] = "CallHistory" /\ pc[t] = "trace" => total[t] <= Cardinality(page[t])

\* A service that never answers holds up the request that asked it, and no other.
OnlyFetchHangs == \A t \in Threads : []<>(pc[t] \in {"idle", "fetch", "answer"})
=============================================================================
