--------------------------- MODULE History_proofs ---------------------------
(***************************************************************************)
(* Proofs about History, for any threads, traffic, cache time, window,     *)
(* begin and end of summer time.                                           *)
(*                                                                         *)
(* The invariant says that the cache holds the latest reading returned and *)
(* that a thread which is late with an older one will meet it (Latest),    *)
(* that every value returned, kept or about to be stored has a row         *)
(* (Logged), dated when the value was there (Stamps, Logged), that traces  *)
(* are only added (Counted), and that the version is set last (Created).   *)
(***************************************************************************)
EXTENDS History, FiniteSetTheorems, TLAPS

Traced == Kinds \cup Plain

\* What the tables, the cache and the sets of a request hold.
Sets ==
  /\ rows \in [Tables -> SUBSET (Times \X (Nat \cup Traced))]
  /\ page \in [Threads -> SUBSET (Nat \cup Traced)]
  /\ before \in [Threads -> SUBSET (0..now)]
  /\ cache # Nil => cache.result = Error \/ cache.result \in 0..now

Types == TypeOK /\ Sets

\* What a thread holds where it is.
Holds ==
  \A t \in Threads :
    /\ pc[t] = "idle" => before[t] = {}
    /\ pc[t] \in {"lookup", "fetch", "answer", "log", "store"} => kind[t] \in {"Weather", "WeatherHistory"}
    /\ pc[t] \in {"count", "data"} => kind[t] = "CallHistory"
    /\ pc[t] = "select" => kind[t] \in Plain \cup {"WeatherHistory"}
    /\ pc[t] = "write" => kind[t] \in Plain
    /\ pc[t] \in {"answer", "log", "write"} => got[t] \in 0..now
    /\ pc[t] = "store" => got[t] = Error \/ got[t] \in 0..now
    /\ pc[t] = "insert" => kind[t] \in Traced
    /\ pc[t] \in {"insert", "count", "data", "log", "write"} => ts[t] \in Times

-----------------------------------------------------------------------------
\* A timestamp is a number, and none is Nil.
LEMMA Timestamps ==
  /\ \A n \in 0..MaxTime : Wall(n) \in Times
  /\ Times \subseteq Nat /\ Nil \notin Times
<1>1. \A n \in 0..MaxTime : Wall(n) \in Nat
  BY HistoryAssumption, SMT DEF Wall
<1> QED
  BY <1>1, HistoryAssumption DEF Times

\* A range of the traces is a finite set.
LEMMA FiniteTraces == IsFiniteSet(Traced)
<1> DEFINE A == {"Weather"} \cup {"WeatherHistory"}
           B == A \cup {"CallHistory"}
           C == B \cup {"besim_temperature"}
           D == C \cup {"unknown_udp"}
           E == D \cup {"unknown_api"}
<1>1. IsFiniteSet(A)
  BY FS_Singleton, FS_AddElement
<1>2. IsFiniteSet(B)
  BY <1>1, FS_AddElement
<1>3. IsFiniteSet(C)
  BY <1>2, FS_AddElement
<1>4. IsFiniteSet(D)
  BY <1>3, FS_AddElement
<1>5. IsFiniteSet(E)
  BY <1>4, FS_AddElement
<1>6. Traced \subseteq E
  BY DEF Traced, Kinds, Plain, Tables
<1> QED
  BY <1>5, <1>6, FS_Subset

\* What a range holds, and that a range of the traces can be counted.
LEMMA ValuesType ==
  ASSUME Types, NEW tab \in Tables, NEW end
  PROVE  /\ Values(tab, end) \subseteq Nat \cup Traced
         /\ tab = "web_traces" => /\ Values(tab, end) \subseteq Traced
                                  /\ Cardinality(Values(tab, end)) \in Nat
<1>1. Values(tab, end) \subseteq Nat \cup Traced
  BY DEF Types, Sets, Values
<1>2. ASSUME tab = "web_traces" PROVE Values(tab, end) \subseteq Traced
  BY <1>2 DEF Types, Sets, TypeOK, Values, Traced
<1>3. ASSUME tab = "web_traces" PROVE Cardinality(Values(tab, end)) \in Nat
  BY <1>2, <1>3, FiniteTraces, FS_Subset, FS_CardinalityType
<1> QED
  BY <1>1, <1>2, <1>3

\* A row that is added is of its table's type.
LEMMA IntoType ==
  ASSUME Types, NEW tab \in Tables, NEW t \in Threads, NEW v,
         ts[t] \in Times, v \in IF tab = "web_traces" THEN Traced ELSE 0..now,
         Into(tab, t, v)
  PROVE  /\ rows' \in [Tables -> SUBSET (Times \X (Nat \cup Traced))]
         /\ \A u \in Tables : \A r \in rows'[u] :
              r[1] \in Times /\ r[2] \in IF u = "web_traces" THEN Kinds \cup Plain ELSE 0..now
         /\ \A u \in Tables : rows[u] \subseteq rows'[u]
         /\ rows'[tab] = rows[tab] \cup {<<ts[t], v>>}
<1>1. v \in Nat \cup Traced
  BY SMT DEF Types, Sets, TypeOK
<1>2. rows' = [rows EXCEPT ![tab] = rows[tab] \cup {<<ts[t], v>>}]
  BY DEF Into
<1>3. rows'[tab] = rows[tab] \cup {<<ts[t], v>>} /\ \A u \in Tables \ {tab} : rows'[u] = rows[u]
  BY <1>2 DEF Types, Sets
<1>4. rows' \in [Tables -> SUBSET (Times \X (Nat \cup Traced))]
  BY <1>1, <1>2 DEF Types, Sets
<1>5. \A u \in Tables : \A r \in rows[u] :
        r[1] \in Times /\ r[2] \in IF u = "web_traces" THEN Kinds \cup Plain ELSE 0..now
  BY DEF Types, Sets, TypeOK
<1>6. \A u \in Tables : \A r \in rows'[u] :
        r[1] \in Times /\ r[2] \in IF u = "web_traces" THEN Kinds \cup Plain ELSE 0..now
  <2> SUFFICES ASSUME NEW u \in Tables, NEW r \in rows'[u]
               PROVE  r[1] \in Times /\ r[2] \in IF u = "web_traces" THEN Kinds \cup Plain ELSE 0..now
    OBVIOUS
  <2>1. CASE r \in rows[u]
    BY <1>5, <2>1
  <2>2. CASE u = tab /\ r = <<ts[t], v>>
    BY <2>2 DEF Traced
  <2> QED
    BY <1>3, <2>1, <2>2
<1> QED
  BY <1>3, <1>4, <1>6

-----------------------------------------------------------------------------
\* The initial state is well typed.
LEMMA TypesInit == Init => Types /\ Holds
  BY HistoryAssumption, SMT
  DEF Init, Types, Sets, Holds, TypeOK, Stages, Tables, OldVersion, VERSION

\* Every step keeps the types and what a thread holds.
LEMMA TypesNext == Types /\ Holds /\ [Next]_vars => Types' /\ Holds'
<1> SUFFICES ASSUME Types, Holds, [Next]_vars PROVE Types' /\ Holds'
  OBVIOUS
<1> USE DEF Types, Sets, Holds, TypeOK, disk, request, Stages, Results
<1>k. traffic' = traffic /\ Kinds = {"Weather", "WeatherHistory", "CallHistory"} /\ Plain = {"besim_temperature", "unknown_udp", "unknown_api"}
  BY DEF Next, vars, Kinds, Plain, Tables
<1>w. /\ Wall(now) \in Times /\ now \in Nat /\ \A n \in 0..now : Wall(n) \in Times /\ n \in Nat
      /\ Times \subseteq Nat /\ Nil \notin Times /\ Nil \notin Nat /\ Error \notin Nat /\ Nil # Error
  BY Timestamps, HistoryAssumption, SMT
<1>1. CASE CheckMigrations /\ UNCHANGED traffic
  BY <1>1, <1>k, <1>w, SMT DEF CheckMigrations, OldVersion, VERSION
<1>2. ASSUME NEW tab \in Tables, CreateTable(tab), UNCHANGED traffic PROVE Types' /\ Holds'
  BY <1>2, <1>k, <1>w, SMT DEF CreateTable
<1>3. CASE SetUserVersion /\ UNCHANGED traffic
  BY <1>3, <1>k, <1>w, SMT DEF SetUserVersion
<1>4. CASE Crash /\ UNCHANGED traffic
  BY <1>4, <1>k, <1>w, SMT DEF Crash
<1>5. CASE Tick /\ UNCHANGED traffic
  <2>7. TypeOK'
    <3>1. now' \in 0..MaxTime /\ 0..now \subseteq 0..now'
      BY <1>5, <1>w, HistoryAssumption, SMT DEF Tick
    <3>2. /\ \A tab \in Tables : \A r \in rows'[tab] :
               r[1] \in Times /\ r[2] \in IF tab = "web_traces" THEN Kinds \cup Plain ELSE 0..now'
          /\ cache' = Nil \/ (cache'.result \in Nat \cup {Error} /\ cache'.stored \in 0..now')
          /\ returned' \subseteq 0..now'
      BY <1>5, <3>1 DEF Tick
    <3> QED
      BY <1>5, <3>1, <3>2 DEF Tick
  <2>8. Sets'
    BY <1>5, <1>k, <1>w, SMT DEF Tick
  <2>9. Holds'
    BY <1>5, <1>k, <1>w, SMT DEF Tick
  <2> QED
    BY <2>7, <2>8, <2>9
<1>6. ASSUME NEW t \in Threads, NEW k \in Kinds, Begin(t, k), UNCHANGED traffic PROVE Types' /\ Holds'
  <2>7. TypeOK'
    BY <1>6, <1>k, <1>w, SMT DEF Begin, At
  <2>8. Sets'
    BY <1>6, <1>k, <1>w, SMT DEF Begin, At
  <2>9. Holds'
    <3>1. /\ kind'[t] = k
          /\ \/ pc'[t] = "count" /\ k = "CallHistory" /\ ts'[t] \in Times
             \/ pc'[t] = "lookup" /\ k \in {"Weather", "WeatherHistory"}
      BY <1>6, <1>k, <1>w DEF Begin, At
    <3>2. \A u \in Threads \ {t} : /\ pc'[u] = pc[u] /\ kind'[u] = kind[u] /\ got'[u] = got[u]
                                   /\ ts'[u] = ts[u] /\ before'[u] = before[u]
      BY <1>6 DEF Begin, At
    <3>3. now' = now
      BY <1>6 DEF Begin, At
    <3> QED
      BY <3>1, <3>2, <3>3
  <2> QED
    BY <2>7, <2>8, <2>9
<1>7. ASSUME NEW t \in Threads, NEW tab \in Plain, BeginLog(t, tab), UNCHANGED traffic PROVE Types' /\ Holds'
  <2>7. TypeOK'
    BY <1>7, <1>k, <1>w, SMT DEF BeginLog, At
  <2>8. Sets'
    BY <1>7, <1>k, <1>w, SMT DEF BeginLog, At
  <2>9. Holds'
    <3>1. /\ pc'[t] = "write" /\ kind'[t] \in Plain
          /\ got'[t] = now /\ ts'[t] = Wall(now) /\ ts'[t] \in Times
      BY <1>7, <1>k, <1>w DEF BeginLog, At
    <3>2. \A u \in Threads \ {t} : /\ pc'[u] = pc[u] /\ kind'[u] = kind[u] /\ got'[u] = got[u]
                                   /\ ts'[u] = ts[u] /\ before'[u] = before[u]
      BY <1>7 DEF BeginLog, At
    <3>3. now' = now
      BY <1>7 DEF BeginLog, At
    <3> QED
      BY <3>1, <3>2, <3>3
  <2> QED
    BY <2>7, <2>8, <2>9
<1>8. ASSUME NEW t \in Threads, NEW tab \in Plain, BeginGet(t, tab), UNCHANGED traffic PROVE Types' /\ Holds'
  <2>7. TypeOK'
    BY <1>8, <1>k, <1>w, SMT DEF BeginGet, At
  <2>8. Sets'
    <3>1. tab \in Tables /\ tab # "web_traces"
      BY <1>k DEF Tables
    <3>2. {r[2] : r \in rows[tab]} \subseteq 0..now
      BY <3>1
    <3> QED
      BY <1>8, <1>w, <3>2, SMT DEF BeginGet, At
  <2>9. Holds'
    <3>1. pc'[t] = "select" /\ kind'[t] \in Plain
      BY <1>8, <1>k, <1>w DEF BeginGet, At
    <3>2. \A u \in Threads \ {t} : /\ pc'[u] = pc[u] /\ kind'[u] = kind[u] /\ got'[u] = got[u]
                                   /\ ts'[u] = ts[u] /\ before'[u] = before[u]
      BY <1>8 DEF BeginGet, At
    <3>3. now' = now
      BY <1>8 DEF BeginGet, At
    <3> QED
      BY <3>1, <3>2, <3>3
  <2> QED
    BY <2>7, <2>8, <2>9
<1>9. ASSUME NEW t \in Threads, Lookup(t), UNCHANGED traffic PROVE Types' /\ Holds'
  <2>7. TypeOK'
    <3>1. CASE Kept
      <4>1. /\ cache.result = Error \/ cache.result \in 0..now
            /\ Return(t, cache.result)
        BY <1>9, <3>1 DEF Lookup, Kept
      <4>2. pc' \in [Threads -> Stages] /\ returned' \subseteq 0..now
        BY <4>1 DEF Return
      <4>3. got' \in [Threads -> Nat \cup {Error} \cup {Nil}]
        <5>1. cache.result \in Nat \cup {Error} \cup {Nil}
          BY <3>1 DEF Kept
        <5> QED
          BY <4>1, <5>1 DEF Return
      <4> QED
        BY <1>9, <1>k, <4>2, <4>3 DEF Lookup
    <3>2. CASE ~Kept
      BY <1>9, <1>k, <3>2 DEF Lookup
    <3> QED
      BY <3>1, <3>2
  <2>8. Sets'
    BY <1>9, <1>k, <1>w, SMT DEF Lookup, Kept, Return
  <2>9. Holds'
    BY <1>9, <1>k, <1>w, SMT DEF Lookup, Kept, Return
  <2> QED
    BY <2>7, <2>8, <2>9
<1>10. ASSUME NEW t \in Threads, FetchAnswers(t), UNCHANGED traffic PROVE Types' /\ Holds'
  <2>7. TypeOK'
    BY <1>10, <1>k, <1>w, SMT DEF FetchAnswers, At
  <2>8. Sets'
    BY <1>10, <1>k, <1>w, SMT DEF FetchAnswers, At
  <2>9. Holds'
    BY <1>10, <1>k, <1>w, SMT DEF FetchAnswers, At
  <2> QED
    BY <2>7, <2>8, <2>9
<1>11. ASSUME NEW t \in Threads, FetchRaises(t), UNCHANGED traffic PROVE Types' /\ Holds'
  <2>7. TypeOK'
    BY <1>11, <1>k, <1>w, SMT DEF FetchRaises, Fail
  <2>8. Sets'
    BY <1>11, <1>k, <1>w, SMT DEF FetchRaises, Fail
  <2>9. Holds'
    BY <1>11, <1>k, <1>w, SMT DEF FetchRaises, Fail
  <2> QED
    BY <2>7, <2>8, <2>9
<1>12. ASSUME NEW t \in Threads, Store(t), UNCHANGED traffic PROVE Types' /\ Holds'
  <2>7. TypeOK'
    <3>1. /\ cache'.result \in Nat \cup {Error} /\ cache'.stored \in 0..now
          /\ cache'.result = Error \/ cache'.result \in 0..now
      BY <1>12, <1>w, SMT DEF Store, Kept
    <3>2. /\ pc' \in [Threads -> Stages]
          /\ got' \in [Threads -> Nat \cup {Error} \cup {Nil}]
          /\ returned' \subseteq 0..now
      BY <1>12, <3>1 DEF Store, Return
    <3> QED
      BY <1>12, <1>k, <3>1, <3>2 DEF Store
  <2>8. Sets'
    BY <1>12, <1>k, <1>w, SMT DEF Store, Kept, Return
  <2>9. Holds'
    BY <1>12, <1>k, <1>w, SMT DEF Store, Kept, Return
  <2> QED
    BY <2>7, <2>8, <2>9
<1>13. ASSUME NEW t \in Threads, StampTrace(t), UNCHANGED traffic PROVE Types' /\ Holds'
  <2>7. TypeOK'
    <3>1. pc' \in [Threads -> Stages] /\ ts' \in [Threads -> Times \cup {Nil}]
      BY <1>13, <1>w DEF StampTrace, At
    <3> QED
      BY <1>13, <1>k, <3>1 DEF StampTrace
  <2>8. Sets'
    BY <1>13, <1>k, <1>w, SMT DEF StampTrace, At
  <2>9. Holds'
    <3>1. kind[t] \in Traced
      BY <1>13, HistoryAssumption DEF StampTrace, Traffic, Traced
    <3> QED
      BY <1>13, <1>k, <1>w, <3>1, SMT DEF StampTrace, At
  <2> QED
    BY <2>7, <2>8, <2>9
<1>14. ASSUME NEW t \in Threads, SkipTrace(t), UNCHANGED traffic PROVE Types' /\ Holds'
  <2>7. TypeOK'
    BY <1>14, <1>k, <1>w, SMT DEF SkipTrace, End
  <2>8. Sets'
    BY <1>14, <1>k, <1>w, SMT DEF SkipTrace, End
  <2>9. Holds'
    BY <1>14, <1>k, <1>w, SMT DEF SkipTrace, End
  <2> QED
    BY <2>7, <2>8, <2>9
<1>15. ASSUME NEW t \in Threads, Raises(t), UNCHANGED traffic PROVE Types' /\ Holds'
  <2>7. TypeOK'
    <3>1. /\ pc' \in [Threads -> Stages]
          /\ kind' \in [Threads -> Kinds \cup Plain \cup {Nil}]
      BY <1>15 DEF Raises, End, Fail
    <3>2. got' \in [Threads -> Nat \cup {Error} \cup {Nil}]
      BY <1>15 DEF Raises, End, Fail
    <3>3. ts' \in [Threads -> Times \cup {Nil}] /\ total' \in [Threads -> Nat \cup {Nil}]
      BY <1>15 DEF Raises, End, Fail
    <3> QED
      BY <1>15, <1>k, <3>1, <3>2, <3>3 DEF Raises
  <2>8. Sets'
    <3>1. page' \in [Threads -> SUBSET (Nat \cup Traced)] /\ before' \in [Threads -> SUBSET (0..now)]
      BY <1>15 DEF Raises, End, Fail
    <3> QED
      BY <1>15, <3>1 DEF Raises
  <2>9. Holds'
    BY <1>15, <1>k, <1>w, SMT DEF Raises, End, Fail
  <2> QED
    BY <2>7, <2>8, <2>9
<1>16. ASSUME NEW t \in Threads, LogRow(t), UNCHANGED traffic PROVE Types' /\ Holds'
  <2>1. ts[t] \in Times /\ got[t] \in IF kind[t] = "web_traces" THEN Traced ELSE 0..now
    <3>1. kind[t] \in Plain /\ got[t] \in 0..now /\ ts[t] \in Times /\ "web_traces" \notin Plain
      BY <1>16, <1>k DEF LogRow
    <3> QED
      BY <3>1
  <2>2. kind[t] \in Tables /\ Into(kind[t], t, got[t]) /\ now' = now
    BY <1>16, <1>k DEF LogRow, LogTraces, LogOutsideTemperature, Plain, Tables
  <2>3. /\ rows' \in [Tables -> SUBSET (Times \X (Nat \cup Traced))]
        /\ \A u \in Tables : \A r \in rows'[u] :
             r[1] \in Times /\ r[2] \in IF u = "web_traces" THEN Kinds \cup Plain ELSE 0..now
    BY <2>1, <2>2, IntoType
  <2>7. TypeOK'
    BY <1>16, <1>k, <1>w, <2>1, <2>2, <2>3, SMT DEF LogRow, End
  <2>8. Sets'
    BY <1>16, <1>k, <1>w, <2>1, <2>2, <2>3, SMT DEF LogRow, End
  <2>9. Holds'
    BY <1>16, <1>k, <1>w, <2>1, <2>2, <2>3, SMT DEF LogRow, End
  <2> QED
    BY <2>7, <2>8, <2>9
<1>17. ASSUME NEW t \in Threads, LogOutsideTemperature(t), UNCHANGED traffic PROVE Types' /\ Holds'
  <2>1. ts[t] \in Times /\ got[t] \in IF "besim_outside_temperature" = "web_traces" THEN Traced ELSE 0..now
    BY <1>17 DEF At, LogOutsideTemperature
  <2>2. "besim_outside_temperature" \in Tables /\ Into("besim_outside_temperature", t, got[t]) /\ now' = now
    BY <1>17, <1>k DEF LogRow, LogTraces, LogOutsideTemperature, Plain, Tables
  <2>3. /\ rows' \in [Tables -> SUBSET (Times \X (Nat \cup Traced))]
        /\ \A u \in Tables : \A r \in rows'[u] :
             r[1] \in Times /\ r[2] \in IF u = "web_traces" THEN Kinds \cup Plain ELSE 0..now
    BY <2>1, <2>2, IntoType
  <2>7. TypeOK'
    BY <1>17, <1>k, <1>w, <2>1, <2>2, <2>3, SMT DEF LogOutsideTemperature, At
  <2>8. Sets'
    BY <1>17, <1>k, <1>w, <2>1, <2>2, <2>3, SMT DEF LogOutsideTemperature, At
  <2>9. Holds'
    BY <1>17, <1>k, <1>w, <2>1, <2>2, <2>3, SMT DEF LogOutsideTemperature, At
  <2> QED
    BY <2>7, <2>8, <2>9
<1>18. ASSUME NEW t \in Threads, LogTraces(t), UNCHANGED traffic PROVE Types' /\ Holds'
  <2>1. ts[t] \in Times /\ kind[t] \in IF "web_traces" = "web_traces" THEN Traced ELSE 0..now
    BY <1>18, <1>k, <1>w, Timestamps, SMT DEF LogRow, At, LogTraces, LogOutsideTemperature, Traced
  <2>2. "web_traces" \in Tables /\ Into("web_traces", t, kind[t]) /\ now' = now
    BY <1>18, <1>k DEF LogRow, LogTraces, LogOutsideTemperature, Plain, Tables
  <2>3. /\ rows' \in [Tables -> SUBSET (Times \X (Nat \cup Traced))]
        /\ \A u \in Tables : \A r \in rows'[u] :
             r[1] \in Times /\ r[2] \in IF u = "web_traces" THEN Kinds \cup Plain ELSE 0..now
    BY <2>1, <2>2, IntoType
  <2>7. TypeOK'
    BY <1>18, <1>k, <1>w, <2>1, <2>2, <2>3, SMT DEF LogTraces, End
  <2>8. Sets'
    BY <1>18, <1>k, <1>w, <2>1, <2>2, <2>3, SMT DEF LogTraces, End
  <2>9. Holds'
    BY <1>18, <1>k, <1>w, <2>1, <2>2, <2>3, SMT DEF LogTraces, End
  <2> QED
    BY <2>7, <2>8, <2>9
<1>19. ASSUME NEW t \in Threads, Select(t), UNCHANGED traffic PROVE Types' /\ Holds'
  <2>1. /\ Values(TableOf(kind[t]), Wall(now)) \subseteq Nat \cup Traced
        /\ TableOf(kind[t]) = "web_traces" => Cardinality(Values(TableOf(kind[t]), Wall(now))) \in Nat
    <3>1. TableOf(kind[t]) \in Tables
      BY <1>19, <1>k DEF Select, At, TableOf, Plain, Tables
    <3> QED
      BY <3>1, ValuesType
  <2>7. TypeOK'
    BY <1>19, <1>k, <1>w, <2>1, SMT DEF Select, At
  <2>8. Sets'
    BY <1>19, <1>k, <1>w, <2>1, SMT DEF Select, At
  <2>9. Holds'
    BY <1>19, <1>k, <1>w, <2>1, SMT DEF Select, At
  <2> QED
    BY <2>7, <2>8, <2>9
<1>20. ASSUME NEW t \in Threads, Count(t), UNCHANGED traffic PROVE Types' /\ Holds'
  <2>1. /\ Values("web_traces", ts[t]) \subseteq Nat \cup Traced
        /\ "web_traces" = "web_traces" => Cardinality(Values("web_traces", ts[t])) \in Nat
    <3>1. "web_traces" \in Tables
      BY <1>20, <1>k DEF Select, At, TableOf, Plain, Tables
    <3> QED
      BY <3>1, ValuesType
  <2>7. TypeOK'
    BY <1>20, <1>k, <1>w, <2>1, SMT DEF Count, At
  <2>8. Sets'
    BY <1>20, <1>k, <1>w, <2>1, SMT DEF Count, At
  <2>9. Holds'
    BY <1>20, <1>k, <1>w, <2>1, SMT DEF Count, At
  <2> QED
    BY <2>7, <2>8, <2>9
<1>21. ASSUME NEW t \in Threads, Data(t), UNCHANGED traffic PROVE Types' /\ Holds'
  <2>1. /\ Values("web_traces", ts[t]) \subseteq Nat \cup Traced
        /\ "web_traces" = "web_traces" => Cardinality(Values("web_traces", ts[t])) \in Nat
    <3>1. "web_traces" \in Tables
      BY <1>21, <1>k DEF Select, At, TableOf, Plain, Tables
    <3> QED
      BY <3>1, ValuesType
  <2>7. TypeOK'
    BY <1>21, <1>k, <1>w, <2>1, SMT DEF Data, At
  <2>8. Sets'
    BY <1>21, <1>k, <1>w, <2>1, SMT DEF Data, At
  <2>9. Holds'
    BY <1>21, <1>k, <1>w, <2>1, SMT DEF Data, At
  <2> QED
    BY <2>7, <2>8, <2>9
<1>23. ASSUME NEW t \in Threads, ServiceReads(t), UNCHANGED traffic PROVE Types' /\ Holds'
  <2>7. TypeOK'
    <3>1. /\ pc' \in [Threads -> Stages]
          /\ got' = [got EXCEPT ![t] = now] \/ got' = [got EXCEPT ![t] = Error]
          /\ ts' = ts
      BY <1>23 DEF ServiceReads, At
    <3>2. got' \in [Threads -> Nat \cup {Error} \cup {Nil}]
      BY <1>w, <3>1
    <3>3. ts' \in [Threads -> Times \cup {Nil}]
      BY <1>w, <3>1
    <3> QED
      BY <1>23, <1>k, <3>1, <3>2, <3>3 DEF ServiceReads
  <2>8. Sets'
    BY <1>23, <1>k, <1>w, SMT DEF ServiceReads, At
  <2>9. Holds'
    BY <1>23, <1>k, <1>w, SMT DEF ServiceReads, At
  <2> QED
    BY <2>7, <2>8, <2>9
<1>24. ASSUME NEW t \in Threads, SendError(t), UNCHANGED traffic PROVE Types' /\ Holds'
  <2>7. TypeOK'
    BY <1>24, <1>k, <1>w, SMT DEF SendError, End
  <2>8. Sets'
    BY <1>24, <1>k, <1>w, SMT DEF SendError, End
  <2>9. Holds'
    BY <1>24, <1>k, <1>w, SMT DEF SendError, End
  <2> QED
    BY <2>7, <2>8, <2>9
<1>22. CASE UNCHANGED vars
  BY <1>22, <1>k, <1>w, SMT DEF vars
<1> QED
  <2>1. CASE UNCHANGED vars
    BY <1>22, <2>1
  <2>2. CASE Step /\ UNCHANGED traffic
    <3>1. traffic.kinds \subseteq Kinds /\ traffic.logged \subseteq Plain
      BY HistoryAssumption DEF Traffic
    <3> HIDE DEF Types, Sets, Holds
    <3> QED
      BY <2>2, <3>1, <1>1, <1>2, <1>3, <1>4, <1>5, <1>6, <1>7, <1>8, <1>9, <1>10, <1>11,
         <1>12, <1>13, <1>14, <1>15, <1>16, <1>17, <1>18, <1>19, <1>20, <1>21, <1>23, <1>24
      DEF Step, Serve
  <2> QED
    BY <2>1, <2>2 DEF Next

-----------------------------------------------------------------------------
\* A database that has a version has its tables, and only such a one is served.
Created ==
  /\ version # 0 => tables = Tables
  /\ up \in {"serving", "refused"} => version # 0

\* The groups that were counted are still there.
Counted ==
  \A t \in Threads :
    /\ pc[t] = "data" => /\ total[t] \in Nat
                         /\ total[t] <= Cardinality(Values("web_traces", ts[t]))
    /\ pc[t] = "trace" /\ kind[t] = "CallHistory" => total[t] <= Cardinality(page[t])

\* A reading is in time, and no older than what was returned or than the cache.
Meets(g) ==
  /\ now < g + TTL
  /\ (\A v \in returned : v <= g) \/ (cache # Nil /\ g <= cache.stored)

\* The cache holds the latest reading that was returned, and a thread that holds an
\* older one is in time to find the cache filled.
Latest ==
  /\ cache # Nil => \/ cache.result = Error
                    \/ cache.result <= cache.stored /\ \A v \in returned : v <= cache.result
  /\ \A t \in Threads : pc[t] \in {"answer", "log", "store"} => got[t] = Error \/ Meets(got[t])

\* A timestamp of a value is the local time of a tick when the value was there.
Dated(s, v) == \E n \in 0..now : v <= n /\ s = Wall(n)

\* What is about to be inserted is so dated.
Stamps == \A t \in Threads : pc[t] \in {"log", "write"} => Dated(ts[t], got[t])

\* A value has a row in the table.
Seen(tab, v) == \E r \in rows[tab] : r[2] = v

\* What was returned, is kept or will be stored has been logged; so has what was
\* there when a request began.
Logged ==
  /\ \A tab \in Tables \ {"web_traces"} : \A r \in rows[tab] : Dated(r[1], r[2])
  /\ \A v \in returned : Seen("besim_outside_temperature", v)
  /\ cache # Nil => cache.result = Error \/ Seen("besim_outside_temperature", cache.result)
  /\ \A t \in Threads :
       /\ pc[t] = "store" => got[t] = Error \/ Seen("besim_outside_temperature", got[t])
       /\ kind[t] \in Plain \cup {"WeatherHistory"} =>
            \A v \in before[t] : Seen(TableOf(kind[t]), v)

\* create_tables is done once, before the version is set.
LEMMA CreatedNext ==
  ASSUME Types, Holds, Created, [Next]_vars
  PROVE  Created'
<1> USE DEF Created, Types, Sets, TypeOK, disk, VERSION, OldVersion
<1>k. traffic.kinds \subseteq Kinds /\ traffic.logged \subseteq Plain
  BY HistoryAssumption DEF Types, Sets, TypeOK, Traffic
<1>1. CASE CheckMigrations
  BY <1>1, SMT DEF CheckMigrations
<1>2. CASE SetUserVersion
  BY <1>2, SMT DEF SetUserVersion
<1>3. CASE Crash
  BY <1>3, SMT DEF Crash
<1>4. CASE Tick
  BY <1>4, SMT DEF Tick, Prompt
<1>5. ASSUME NEW tab \in Tables, CreateTable(tab) PROVE Created'
  BY <1>5, SMT DEF CreateTable
<1>6. ASSUME NEW t \in Threads, NEW k \in Kinds, Begin(t, k) PROVE Created'
  BY <1>6, SMT DEF Begin, At
<1>7. ASSUME NEW t \in Threads, NEW tab \in Plain, BeginLog(t, tab) PROVE Created'
  BY <1>7, SMT DEF BeginLog, At
<1>8. ASSUME NEW t \in Threads, NEW tab \in Plain, BeginGet(t, tab) PROVE Created'
  BY <1>8, SMT DEF BeginGet, At
<1>9. ASSUME NEW t \in Threads, Lookup(t) PROVE Created'
  BY <1>9, SMT DEF Lookup, Return
<1>10. ASSUME NEW t \in Threads, FetchAnswers(t) PROVE Created'
  BY <1>10, SMT DEF FetchAnswers, At
<1>11. ASSUME NEW t \in Threads, FetchRaises(t) PROVE Created'
  BY <1>11, SMT DEF FetchRaises, Fail
<1>12. ASSUME NEW t \in Threads, LogOutsideTemperature(t) PROVE Created'
  BY <1>12, SMT DEF LogOutsideTemperature, At
<1>13. ASSUME NEW t \in Threads, Store(t) PROVE Created'
  BY <1>13, SMT DEF Store, Return
<1>14. ASSUME NEW t \in Threads, Select(t) PROVE Created'
  BY <1>14, SMT DEF Select, At
<1>15. ASSUME NEW t \in Threads, Count(t) PROVE Created'
  BY <1>15, SMT DEF Count, At
<1>16. ASSUME NEW t \in Threads, Data(t) PROVE Created'
  BY <1>16, SMT DEF Data, At
<1>17. ASSUME NEW t \in Threads, StampTrace(t) PROVE Created'
  BY <1>17, SMT DEF StampTrace, At
<1>18. ASSUME NEW t \in Threads, SkipTrace(t) PROVE Created'
  BY <1>18, SMT DEF SkipTrace, End
<1>19. ASSUME NEW t \in Threads, LogTraces(t) PROVE Created'
  BY <1>19, SMT DEF LogTraces, End
<1>20. ASSUME NEW t \in Threads, LogRow(t) PROVE Created'
  BY <1>20, SMT DEF LogRow, End
<1>21. ASSUME NEW t \in Threads, Raises(t) PROVE Created'
  BY <1>21, SMT DEF Raises, Fail, End
<1>22. CASE UNCHANGED vars
  BY <1>22, SMT DEF vars, disk
<1>23. ASSUME NEW t \in Threads, ServiceReads(t) PROVE Created'
  BY <1>23, SMT DEF ServiceReads, At
<1>24. ASSUME NEW t \in Threads, SendError(t) PROVE Created'
  BY <1>24, SMT DEF SendError, End
<1> QED
  BY <1>k, <1>1, <1>2, <1>3, <1>4, <1>5, <1>6, <1>7, <1>8, <1>9, <1>10, <1>11, <1>12, <1>13, <1>14, <1>15, <1>16, <1>17, <1>18, <1>19, <1>20, <1>21, <1>22, <1>23, <1>24
  DEF Next, Step, Serve

\* Where no thread counts or reads the traces, and none is taken away, what was
\* counted is still there.
LEMMA CountedKept ==
  ASSUME Types', Counted,
         rows["web_traces"] \subseteq rows'["web_traces"],
         \A u \in Threads : pc'[u] = "data" =>
           pc[u] = "data" /\ ts'[u] = ts[u] /\ total'[u] = total[u],
         \A u \in Threads : pc'[u] = "trace" /\ kind'[u] = "CallHistory" =>
           pc[u] = "trace" /\ kind[u] = "CallHistory" /\ total'[u] = total[u] /\ page'[u] = page[u]
  PROVE  Counted'
<1>1. ASSUME NEW end
      PROVE  /\ IsFiniteSet(Values("web_traces", end)')
             /\ Cardinality(Values("web_traces", end)) \in Nat
             /\ Cardinality(Values("web_traces", end)') \in Nat
             /\ Cardinality(Values("web_traces", end)) <= Cardinality(Values("web_traces", end)')
  <2>1. Values("web_traces", end) \subseteq Values("web_traces", end)'
    BY DEF Values
  <2>2. Values("web_traces", end)' \subseteq Traced
    BY DEF Values, Types, Sets, TypeOK, Traced, Tables
  <2>3. IsFiniteSet(Values("web_traces", end)')
    BY <2>2, FiniteTraces, FS_Subset
  <2> QED
    BY <2>1, <2>3, FS_Subset, FS_CardinalityType
<1>2. ASSUME NEW u \in Threads, pc'[u] = "data"
      PROVE  total'[u] \in Nat /\ total'[u] <= Cardinality(Values("web_traces", ts[u])')
  <2>1. total'[u] \in Nat /\ total'[u] <= Cardinality(Values("web_traces", ts[u]))
    BY <1>2 DEF Counted
  <2>2. /\ Cardinality(Values("web_traces", ts[u])) \in Nat
        /\ Cardinality(Values("web_traces", ts[u])') \in Nat
        /\ Cardinality(Values("web_traces", ts[u])) <= Cardinality(Values("web_traces", ts[u])')
    BY <1>1, <1>2
  <2> QED
    BY <2>1, <2>2
<1> QED
  BY <1>2 DEF Counted

\* Traces are only added.
LEMMA CountedNext ==
  ASSUME Types, Holds, Counted, [Next]_vars
  PROVE  Counted'
<1> USE DEF disk, request
<1>k. traffic.kinds \subseteq Kinds /\ traffic.logged \subseteq Plain
  BY HistoryAssumption DEF Types, Sets, TypeOK, Traffic
<1>h. Types'
  BY TypesNext
<1>1. CASE CheckMigrations
  <2>1. rows["web_traces"] \subseteq rows'["web_traces"]
    BY <1>1, SMT DEF CheckMigrations, Into, Types, Sets, Tables, Plain
  <2>2. \A u \in Threads : pc'[u] = "data" =>
          pc[u] = "data" /\ ts'[u] = ts[u] /\ total'[u] = total[u]
    BY <1>1, SMT DEF CheckMigrations, Types, Sets, TypeOK
  <2>3. \A u \in Threads : pc'[u] = "trace" /\ kind'[u] = "CallHistory" =>
          pc[u] = "trace" /\ kind[u] = "CallHistory" /\ total'[u] = total[u] /\ page'[u] = page[u]
    BY <1>1, SMT DEF CheckMigrations, Types, Sets, TypeOK, Holds, Plain, Tables
  <2> QED
    BY <1>h, <2>1, <2>2, <2>3, CountedKept
<1>2. CASE SetUserVersion
  <2>1. rows["web_traces"] \subseteq rows'["web_traces"]
    BY <1>2, SMT DEF SetUserVersion, Into, Types, Sets, Tables, Plain
  <2>2. \A u \in Threads : pc'[u] = "data" =>
          pc[u] = "data" /\ ts'[u] = ts[u] /\ total'[u] = total[u]
    BY <1>2, SMT DEF SetUserVersion, Types, Sets, TypeOK
  <2>3. \A u \in Threads : pc'[u] = "trace" /\ kind'[u] = "CallHistory" =>
          pc[u] = "trace" /\ kind[u] = "CallHistory" /\ total'[u] = total[u] /\ page'[u] = page[u]
    BY <1>2, SMT DEF SetUserVersion, Types, Sets, TypeOK, Holds, Plain, Tables
  <2> QED
    BY <1>h, <2>1, <2>2, <2>3, CountedKept
<1>3. CASE Crash
  <2>1. rows["web_traces"] \subseteq rows'["web_traces"]
    BY <1>3, SMT DEF Crash, Into, Types, Sets, Tables, Plain
  <2>2. \A u \in Threads : pc'[u] = "data" =>
          pc[u] = "data" /\ ts'[u] = ts[u] /\ total'[u] = total[u]
    BY <1>3, SMT DEF Crash, Types, Sets, TypeOK
  <2>3. \A u \in Threads : pc'[u] = "trace" /\ kind'[u] = "CallHistory" =>
          pc[u] = "trace" /\ kind[u] = "CallHistory" /\ total'[u] = total[u] /\ page'[u] = page[u]
    BY <1>3, SMT DEF Crash, Types, Sets, TypeOK, Holds, Plain, Tables
  <2> QED
    BY <1>h, <2>1, <2>2, <2>3, CountedKept
<1>4. CASE Tick
  <2>1. rows["web_traces"] \subseteq rows'["web_traces"]
    BY <1>4, SMT DEF Tick, Prompt, Into, Types, Sets, Tables, Plain
  <2>2. \A u \in Threads : pc'[u] = "data" =>
          pc[u] = "data" /\ ts'[u] = ts[u] /\ total'[u] = total[u]
    BY <1>4, SMT DEF Tick, Prompt, Types, Sets, TypeOK
  <2>3. \A u \in Threads : pc'[u] = "trace" /\ kind'[u] = "CallHistory" =>
          pc[u] = "trace" /\ kind[u] = "CallHistory" /\ total'[u] = total[u] /\ page'[u] = page[u]
    BY <1>4, SMT DEF Tick, Prompt, Types, Sets, TypeOK, Holds, Plain, Tables
  <2> QED
    BY <1>h, <2>1, <2>2, <2>3, CountedKept
<1>5. ASSUME NEW tab \in Tables, CreateTable(tab) PROVE Counted'
  <2>1. rows["web_traces"] \subseteq rows'["web_traces"]
    BY <1>5, SMT DEF CreateTable, Into, Types, Sets, Tables, Plain
  <2>2. \A u \in Threads : pc'[u] = "data" =>
          pc[u] = "data" /\ ts'[u] = ts[u] /\ total'[u] = total[u]
    BY <1>5, SMT DEF CreateTable, Types, Sets, TypeOK
  <2>3. \A u \in Threads : pc'[u] = "trace" /\ kind'[u] = "CallHistory" =>
          pc[u] = "trace" /\ kind[u] = "CallHistory" /\ total'[u] = total[u] /\ page'[u] = page[u]
    BY <1>5, SMT DEF CreateTable, Types, Sets, TypeOK, Holds, Plain, Tables
  <2> QED
    BY <1>h, <2>1, <2>2, <2>3, CountedKept
<1>6. ASSUME NEW t \in Threads, NEW k \in Kinds, Begin(t, k) PROVE Counted'
  <2>1. rows["web_traces"] \subseteq rows'["web_traces"]
    BY <1>6, SMT DEF Begin, At, Into, Types, Sets, Tables, Plain
  <2>2. \A u \in Threads : pc'[u] = "data" =>
          pc[u] = "data" /\ ts'[u] = ts[u] /\ total'[u] = total[u]
    BY <1>6, SMT DEF Begin, At, Types, Sets, TypeOK
  <2>3. \A u \in Threads : pc'[u] = "trace" /\ kind'[u] = "CallHistory" =>
          pc[u] = "trace" /\ kind[u] = "CallHistory" /\ total'[u] = total[u] /\ page'[u] = page[u]
    BY <1>6, SMT DEF Begin, At, Types, Sets, TypeOK, Holds, Plain, Tables
  <2> QED
    BY <1>h, <2>1, <2>2, <2>3, CountedKept
<1>7. ASSUME NEW t \in Threads, NEW tab \in Plain, BeginLog(t, tab) PROVE Counted'
  <2>1. rows["web_traces"] \subseteq rows'["web_traces"]
    BY <1>7, SMT DEF BeginLog, At, Into, Types, Sets, Tables, Plain
  <2>2. \A u \in Threads : pc'[u] = "data" =>
          pc[u] = "data" /\ ts'[u] = ts[u] /\ total'[u] = total[u]
    BY <1>7, SMT DEF BeginLog, At, Types, Sets, TypeOK
  <2>3. \A u \in Threads : pc'[u] = "trace" /\ kind'[u] = "CallHistory" =>
          pc[u] = "trace" /\ kind[u] = "CallHistory" /\ total'[u] = total[u] /\ page'[u] = page[u]
    BY <1>7, SMT DEF BeginLog, At, Types, Sets, TypeOK, Holds, Plain, Tables
  <2> QED
    BY <1>h, <2>1, <2>2, <2>3, CountedKept
<1>8. ASSUME NEW t \in Threads, NEW tab \in Plain, BeginGet(t, tab) PROVE Counted'
  <2>1. rows["web_traces"] \subseteq rows'["web_traces"]
    BY <1>8, SMT DEF BeginGet, At, Into, Types, Sets, Tables, Plain
  <2>2. \A u \in Threads : pc'[u] = "data" =>
          pc[u] = "data" /\ ts'[u] = ts[u] /\ total'[u] = total[u]
    BY <1>8, SMT DEF BeginGet, At, Types, Sets, TypeOK
  <2>3. \A u \in Threads : pc'[u] = "trace" /\ kind'[u] = "CallHistory" =>
          pc[u] = "trace" /\ kind[u] = "CallHistory" /\ total'[u] = total[u] /\ page'[u] = page[u]
    BY <1>8, SMT DEF BeginGet, At, Types, Sets, TypeOK, Holds, Plain, Tables
  <2> QED
    BY <1>h, <2>1, <2>2, <2>3, CountedKept
<1>9. ASSUME NEW t \in Threads, Lookup(t) PROVE Counted'
  <2>1. rows["web_traces"] \subseteq rows'["web_traces"]
    BY <1>9, SMT DEF Lookup, Return, Into, Types, Sets, Tables, Plain
  <2>2. \A u \in Threads : pc'[u] = "data" =>
          pc[u] = "data" /\ ts'[u] = ts[u] /\ total'[u] = total[u]
    BY <1>9, SMT DEF Lookup, Return, Types, Sets, TypeOK
  <2>3. \A u \in Threads : pc'[u] = "trace" /\ kind'[u] = "CallHistory" =>
          pc[u] = "trace" /\ kind[u] = "CallHistory" /\ total'[u] = total[u] /\ page'[u] = page[u]
    BY <1>9, SMT DEF Lookup, Return, Types, Sets, TypeOK, Holds, Plain, Tables
  <2> QED
    BY <1>h, <2>1, <2>2, <2>3, CountedKept
<1>10. ASSUME NEW t \in Threads, FetchAnswers(t) PROVE Counted'
  <2>1. rows["web_traces"] \subseteq rows'["web_traces"]
    BY <1>10, SMT DEF FetchAnswers, At, Into, Types, Sets, Tables, Plain
  <2>2. \A u \in Threads : pc'[u] = "data" =>
          pc[u] = "data" /\ ts'[u] = ts[u] /\ total'[u] = total[u]
    BY <1>10, SMT DEF FetchAnswers, At, Types, Sets, TypeOK
  <2>3. \A u \in Threads : pc'[u] = "trace" /\ kind'[u] = "CallHistory" =>
          pc[u] = "trace" /\ kind[u] = "CallHistory" /\ total'[u] = total[u] /\ page'[u] = page[u]
    BY <1>10, SMT DEF FetchAnswers, At, Types, Sets, TypeOK, Holds, Plain, Tables
  <2> QED
    BY <1>h, <2>1, <2>2, <2>3, CountedKept
<1>11. ASSUME NEW t \in Threads, FetchRaises(t) PROVE Counted'
  <2>1. rows["web_traces"] \subseteq rows'["web_traces"]
    BY <1>11, SMT DEF FetchRaises, Fail, Into, Types, Sets, Tables, Plain
  <2>2. \A u \in Threads : pc'[u] = "data" =>
          pc[u] = "data" /\ ts'[u] = ts[u] /\ total'[u] = total[u]
    BY <1>11, SMT DEF FetchRaises, Fail, Types, Sets, TypeOK
  <2>3. \A u \in Threads : pc'[u] = "trace" /\ kind'[u] = "CallHistory" =>
          pc[u] = "trace" /\ kind[u] = "CallHistory" /\ total'[u] = total[u] /\ page'[u] = page[u]
    BY <1>11, SMT DEF FetchRaises, Fail, Types, Sets, TypeOK, Holds, Plain, Tables
  <2> QED
    BY <1>h, <2>1, <2>2, <2>3, CountedKept
<1>12. ASSUME NEW t \in Threads, LogOutsideTemperature(t) PROVE Counted'
  <2>1. rows["web_traces"] \subseteq rows'["web_traces"]
    BY <1>12, SMT DEF LogOutsideTemperature, At, Into, Types, Sets, Tables, Plain
  <2>2. \A u \in Threads : pc'[u] = "data" =>
          pc[u] = "data" /\ ts'[u] = ts[u] /\ total'[u] = total[u]
    BY <1>12, SMT DEF LogOutsideTemperature, At, Types, Sets, TypeOK
  <2>3. \A u \in Threads : pc'[u] = "trace" /\ kind'[u] = "CallHistory" =>
          pc[u] = "trace" /\ kind[u] = "CallHistory" /\ total'[u] = total[u] /\ page'[u] = page[u]
    BY <1>12, SMT DEF LogOutsideTemperature, At, Types, Sets, TypeOK, Holds, Plain, Tables
  <2> QED
    BY <1>h, <2>1, <2>2, <2>3, CountedKept
<1>13. ASSUME NEW t \in Threads, Store(t) PROVE Counted'
  <2>1. rows["web_traces"] \subseteq rows'["web_traces"]
    BY <1>13, SMT DEF Store, Return, Into, Types, Sets, Tables, Plain
  <2>2. \A u \in Threads : pc'[u] = "data" =>
          pc[u] = "data" /\ ts'[u] = ts[u] /\ total'[u] = total[u]
    BY <1>13, SMT DEF Store, Return, Types, Sets, TypeOK
  <2>3. \A u \in Threads : pc'[u] = "trace" /\ kind'[u] = "CallHistory" =>
          pc[u] = "trace" /\ kind[u] = "CallHistory" /\ total'[u] = total[u] /\ page'[u] = page[u]
    BY <1>13, SMT DEF Store, Return, Types, Sets, TypeOK, Holds, Plain, Tables
  <2> QED
    BY <1>h, <2>1, <2>2, <2>3, CountedKept
<1>14. ASSUME NEW t \in Threads, Select(t) PROVE Counted'
  <2>1. rows["web_traces"] \subseteq rows'["web_traces"]
    BY <1>14, SMT DEF Select, At, Into, Types, Sets, Tables, Plain
  <2>2. \A u \in Threads : pc'[u] = "data" =>
          pc[u] = "data" /\ ts'[u] = ts[u] /\ total'[u] = total[u]
    BY <1>14, SMT DEF Select, At, Types, Sets, TypeOK
  <2>3. \A u \in Threads : pc'[u] = "trace" /\ kind'[u] = "CallHistory" =>
          pc[u] = "trace" /\ kind[u] = "CallHistory" /\ total'[u] = total[u] /\ page'[u] = page[u]
    BY <1>14, SMT DEF Select, At, Types, Sets, TypeOK, Holds, Plain, Tables
  <2> QED
    BY <1>h, <2>1, <2>2, <2>3, CountedKept
<1>15. ASSUME NEW t \in Threads, Count(t) PROVE Counted'
  <2>1. Values("web_traces", ts[t])' = Values("web_traces", ts[t])
    BY <1>15 DEF Count, At, Values, disk
  <2>2. total'[t] = Cardinality(Values("web_traces", ts[t])) /\ pc'[t] = "data" /\ ts' = ts
    BY <1>15 DEF Count, At, Types, Sets, TypeOK
  <2>3. Cardinality(Values("web_traces", ts[t])) \in Nat
    BY ValuesType DEF Tables
  <2>4. \A u \in Threads \ {t} :
          /\ pc'[u] = pc[u] /\ kind'[u] = kind[u] /\ total'[u] = total[u] /\ page'[u] = page[u]
          /\ Values("web_traces", ts[u])' = Values("web_traces", ts[u])
    BY <1>15 DEF Count, At, Types, Sets, TypeOK, Values, disk
  <2> QED
    BY <2>1, <2>2, <2>3, <2>4 DEF Counted
<1>16. ASSUME NEW t \in Threads, Data(t) PROVE Counted'
  <2>1. page'[t] = Values("web_traces", ts[t]) /\ pc[t] = "data" /\ pc'[t] = "trace" /\ total'[t] = total[t]
    BY <1>16 DEF Data, At, Types, Sets, TypeOK
  <2>2. \A u \in Threads \ {t} :
          /\ pc'[u] = pc[u] /\ kind'[u] = kind[u] /\ total'[u] = total[u] /\ page'[u] = page[u]
          /\ Values("web_traces", ts[u])' = Values("web_traces", ts[u])
    BY <1>16 DEF Data, At, Types, Sets, TypeOK, Values, disk
  <2> QED
    BY <2>1, <2>2 DEF Counted
<1>17. ASSUME NEW t \in Threads, StampTrace(t) PROVE Counted'
  <2>1. rows["web_traces"] \subseteq rows'["web_traces"]
    BY <1>17, SMT DEF StampTrace, At, Into, Types, Sets, Tables, Plain
  <2>2. \A u \in Threads : pc'[u] = "data" =>
          pc[u] = "data" /\ ts'[u] = ts[u] /\ total'[u] = total[u]
    BY <1>17, SMT DEF StampTrace, At, Types, Sets, TypeOK
  <2>3. \A u \in Threads : pc'[u] = "trace" /\ kind'[u] = "CallHistory" =>
          pc[u] = "trace" /\ kind[u] = "CallHistory" /\ total'[u] = total[u] /\ page'[u] = page[u]
    BY <1>17, SMT DEF StampTrace, At, Types, Sets, TypeOK, Holds, Plain, Tables
  <2> QED
    BY <1>h, <2>1, <2>2, <2>3, CountedKept
<1>18. ASSUME NEW t \in Threads, SkipTrace(t) PROVE Counted'
  <2>1. rows["web_traces"] \subseteq rows'["web_traces"]
    BY <1>18, SMT DEF SkipTrace, End, Into, Types, Sets, Tables, Plain
  <2>2. \A u \in Threads : pc'[u] = "data" =>
          pc[u] = "data" /\ ts'[u] = ts[u] /\ total'[u] = total[u]
    BY <1>18, SMT DEF SkipTrace, End, Types, Sets, TypeOK
  <2>3. \A u \in Threads : pc'[u] = "trace" /\ kind'[u] = "CallHistory" =>
          pc[u] = "trace" /\ kind[u] = "CallHistory" /\ total'[u] = total[u] /\ page'[u] = page[u]
    BY <1>18, SMT DEF SkipTrace, End, Types, Sets, TypeOK, Holds, Plain, Tables
  <2> QED
    BY <1>h, <2>1, <2>2, <2>3, CountedKept
<1>19. ASSUME NEW t \in Threads, LogTraces(t) PROVE Counted'
  <2>1. rows["web_traces"] \subseteq rows'["web_traces"]
    BY <1>19, SMT DEF LogTraces, End, Into, Types, Sets, Tables, Plain
  <2>2. \A u \in Threads : pc'[u] = "data" =>
          pc[u] = "data" /\ ts'[u] = ts[u] /\ total'[u] = total[u]
    BY <1>19, SMT DEF LogTraces, End, Types, Sets, TypeOK
  <2>3. \A u \in Threads : pc'[u] = "trace" /\ kind'[u] = "CallHistory" =>
          pc[u] = "trace" /\ kind[u] = "CallHistory" /\ total'[u] = total[u] /\ page'[u] = page[u]
    BY <1>19, SMT DEF LogTraces, End, Types, Sets, TypeOK, Holds, Plain, Tables
  <2> QED
    BY <1>h, <2>1, <2>2, <2>3, CountedKept
<1>20. ASSUME NEW t \in Threads, LogRow(t) PROVE Counted'
  <2>1. rows["web_traces"] \subseteq rows'["web_traces"]
    BY <1>20, SMT DEF LogRow, End, Into, Types, Sets, Tables, Plain
  <2>2. \A u \in Threads : pc'[u] = "data" =>
          pc[u] = "data" /\ ts'[u] = ts[u] /\ total'[u] = total[u]
    BY <1>20, SMT DEF LogRow, End, Types, Sets, TypeOK
  <2>3. \A u \in Threads : pc'[u] = "trace" /\ kind'[u] = "CallHistory" =>
          pc[u] = "trace" /\ kind[u] = "CallHistory" /\ total'[u] = total[u] /\ page'[u] = page[u]
    BY <1>20, SMT DEF LogRow, End, Types, Sets, TypeOK, Holds, Plain, Tables
  <2> QED
    BY <1>h, <2>1, <2>2, <2>3, CountedKept
<1>21. ASSUME NEW t \in Threads, Raises(t) PROVE Counted'
  <2>1. rows["web_traces"] \subseteq rows'["web_traces"]
    BY <1>21, SMT DEF Raises, Fail, End, Into, Types, Sets, Tables, Plain
  <2>2. \A u \in Threads : pc'[u] = "data" =>
          pc[u] = "data" /\ ts'[u] = ts[u] /\ total'[u] = total[u]
    BY <1>21, SMT DEF Raises, Fail, End, Types, Sets, TypeOK
  <2>3. \A u \in Threads : pc'[u] = "trace" /\ kind'[u] = "CallHistory" =>
          pc[u] = "trace" /\ kind[u] = "CallHistory" /\ total'[u] = total[u] /\ page'[u] = page[u]
    BY <1>21, SMT DEF Raises, Fail, End, Types, Sets, TypeOK, Holds, Plain, Tables
  <2> QED
    BY <1>h, <2>1, <2>2, <2>3, CountedKept
<1>22. CASE UNCHANGED vars
  <2>1. rows["web_traces"] \subseteq rows'["web_traces"]
    BY <1>22, SMT DEF vars, Into, Types, Sets, Tables, Plain
  <2>2. \A u \in Threads : pc'[u] = "data" =>
          pc[u] = "data" /\ ts'[u] = ts[u] /\ total'[u] = total[u]
    BY <1>22, SMT DEF vars, Types, Sets, TypeOK
  <2>3. \A u \in Threads : pc'[u] = "trace" /\ kind'[u] = "CallHistory" =>
          pc[u] = "trace" /\ kind[u] = "CallHistory" /\ total'[u] = total[u] /\ page'[u] = page[u]
    BY <1>22, SMT DEF vars, Types, Sets, TypeOK, Holds, Plain, Tables
  <2> QED
    BY <1>h, <2>1, <2>2, <2>3, CountedKept
<1>23. ASSUME NEW t \in Threads, ServiceReads(t) PROVE Counted'
  <2>1. rows["web_traces"] \subseteq rows'["web_traces"]
    BY <1>23, SMT DEF ServiceReads, At, Into, Types, Sets, Tables, Plain
  <2>2. \A u \in Threads : pc'[u] = "data" =>
          pc[u] = "data" /\ ts'[u] = ts[u] /\ total'[u] = total[u]
    BY <1>23, SMT DEF ServiceReads, At, Types, Sets, TypeOK
  <2>3. \A u \in Threads : pc'[u] = "trace" /\ kind'[u] = "CallHistory" =>
          pc[u] = "trace" /\ kind[u] = "CallHistory" /\ total'[u] = total[u] /\ page'[u] = page[u]
    BY <1>23, SMT DEF ServiceReads, At, Types, Sets, TypeOK, Holds, Plain, Tables
  <2> QED
    BY <1>h, <2>1, <2>2, <2>3, CountedKept
<1>24. ASSUME NEW t \in Threads, SendError(t) PROVE Counted'
  <2>1. rows["web_traces"] \subseteq rows'["web_traces"]
    BY <1>24, SMT DEF SendError, End, Into, Types, Sets, Tables, Plain
  <2>2. \A u \in Threads : pc'[u] = "data" =>
          pc[u] = "data" /\ ts'[u] = ts[u] /\ total'[u] = total[u]
    BY <1>24, SMT DEF SendError, End, Types, Sets, TypeOK
  <2>3. \A u \in Threads : pc'[u] = "trace" /\ kind'[u] = "CallHistory" =>
          pc[u] = "trace" /\ kind[u] = "CallHistory" /\ total'[u] = total[u] /\ page'[u] = page[u]
    BY <1>24, SMT DEF SendError, End, Types, Sets, TypeOK, Holds, Plain, Tables
  <2> QED
    BY <1>h, <2>1, <2>2, <2>3, CountedKept
<1> QED
  BY <1>k, <1>1, <1>2, <1>3, <1>4, <1>5, <1>6, <1>7, <1>8, <1>9, <1>10, <1>11, <1>12, <1>13, <1>14, <1>15, <1>16, <1>17, <1>18, <1>19, <1>20, <1>21, <1>22, <1>23, <1>24
  DEF Next, Step, Serve

\* Where the cache, the clock and what was returned stay, and a thread's reading is the
\* one it had or this tick's.
LEMMA LatestKept ==
  ASSUME Types, Latest, cache' = cache, now' = now, returned' = returned,
         \A u \in Threads : pc'[u] \in {"answer", "log", "store"} =>
           \/ pc[u] \in {"answer", "log", "store"} /\ got'[u] = got[u]
           \/ got'[u] = now
           \/ got'[u] = Error
  PROVE  Latest'
<1>1. now \in Nat /\ TTL \in Nat \ {0} /\ \A v \in returned : v <= now
  <2>1. now \in 0..MaxTime /\ returned \subseteq 0..now /\ TTL \in Nat \ {0}
    BY HistoryAssumption DEF Types, Sets, TypeOK
  <2> QED
    BY <2>1, SMT
<1>2. Meets(now)
  BY <1>1, SMT DEF Meets
<1>3. \A g : Meets(g) => now' < g + TTL /\ ((\A v \in returned' : v <= g) \/ (cache' # Nil /\ g <= cache'.stored))
  BY DEF Meets
<1>4. \A u \in Threads : pc'[u] \in {"answer", "log", "store"} => got'[u] = Error \/ Meets(got'[u])
  BY <1>2 DEF Latest
<1>5. \A u \in Threads : pc'[u] \in {"answer", "log", "store"} => got'[u] = Error \/ Meets(got[u])'
  BY <1>3, <1>4 DEF Meets
<1> QED
  BY <1>5 DEF Latest

\* A late answer of the service meets a full cache.
LEMMA LatestNext ==
  ASSUME Types, Holds, Latest, [Next]_vars
  PROVE  Latest'
<1> USE DEF disk, request
<1>k. traffic.kinds \subseteq Kinds /\ traffic.logged \subseteq Plain
  BY HistoryAssumption DEF Types, Sets, TypeOK, Traffic
<1>h. now \in Nat /\ TTL \in Nat /\ TTL > 1 /\ \A v \in returned : v \in Nat /\ v <= now
  <2>1. now \in 0..MaxTime /\ returned \subseteq 0..now /\ TTL \in Nat /\ TTL > 1
    BY HistoryAssumption DEF Types, Sets, TypeOK
  <2> QED
    BY <2>1, SMT
<1>1. CASE CheckMigrations
  <2>1. cache' = cache /\ now' = now /\ returned' = returned
    BY <1>1 DEF CheckMigrations
  <2>2. \A u \in Threads : pc'[u] \in {"answer", "log", "store"} =>
          \/ pc[u] \in {"answer", "log", "store"} /\ got'[u] = got[u]
          \/ got'[u] = now
          \/ got'[u] = Error
    BY <1>1, SMT DEF CheckMigrations, Types, Sets, TypeOK
  <2> QED
    BY <2>1, <2>2, LatestKept
<1>2. CASE SetUserVersion
  <2>1. cache' = cache /\ now' = now /\ returned' = returned
    BY <1>2 DEF SetUserVersion
  <2>2. \A u \in Threads : pc'[u] \in {"answer", "log", "store"} =>
          \/ pc[u] \in {"answer", "log", "store"} /\ got'[u] = got[u]
          \/ got'[u] = now
          \/ got'[u] = Error
    BY <1>2, SMT DEF SetUserVersion, Types, Sets, TypeOK
  <2> QED
    BY <2>1, <2>2, LatestKept
<1>3. CASE Crash
  <2>1. cache' = Nil /\ pc' = [u \in Threads |-> "idle"]
    BY <1>3 DEF Crash
  <2> QED
    BY <2>1 DEF Latest
<1>4. CASE Tick
  <2>1. /\ cache' = cache /\ pc' = pc /\ got' = got /\ returned' = returned /\ now' = now + 1
        /\ \A u \in Threads : pc[u] \in {"answer", "log", "store"} => got[u] = Error \/ now + 1 < got[u] + TTL
    BY <1>4 DEF Tick, Prompt
  <2>2. \A u \in Threads : pc'[u] \in {"answer", "log", "store"} => got'[u] = Error \/ Meets(got[u])'
    BY <2>1 DEF Latest, Meets
  <2> QED
    BY <2>1, <2>2 DEF Latest
<1>5. ASSUME NEW tab \in Tables, CreateTable(tab) PROVE Latest'
  <2>1. cache' = cache /\ now' = now /\ returned' = returned
    BY <1>5 DEF CreateTable
  <2>2. \A u \in Threads : pc'[u] \in {"answer", "log", "store"} =>
          \/ pc[u] \in {"answer", "log", "store"} /\ got'[u] = got[u]
          \/ got'[u] = now
          \/ got'[u] = Error
    BY <1>5, SMT DEF CreateTable, Types, Sets, TypeOK
  <2> QED
    BY <2>1, <2>2, LatestKept
<1>6. ASSUME NEW t \in Threads, NEW k \in Kinds, Begin(t, k) PROVE Latest'
  <2>1. cache' = cache /\ now' = now /\ returned' = returned
    BY <1>6 DEF Begin, At
  <2>2. \A u \in Threads : pc'[u] \in {"answer", "log", "store"} =>
          \/ pc[u] \in {"answer", "log", "store"} /\ got'[u] = got[u]
          \/ got'[u] = now
          \/ got'[u] = Error
    BY <1>6, SMT DEF Begin, At, Types, Sets, TypeOK
  <2> QED
    BY <2>1, <2>2, LatestKept
<1>7. ASSUME NEW t \in Threads, NEW tab \in Plain, BeginLog(t, tab) PROVE Latest'
  <2>1. cache' = cache /\ now' = now /\ returned' = returned
    BY <1>7 DEF BeginLog, At
  <2>2. \A u \in Threads : pc'[u] \in {"answer", "log", "store"} =>
          \/ pc[u] \in {"answer", "log", "store"} /\ got'[u] = got[u]
          \/ got'[u] = now
          \/ got'[u] = Error
    BY <1>7, SMT DEF BeginLog, At, Types, Sets, TypeOK
  <2> QED
    BY <2>1, <2>2, LatestKept
<1>8. ASSUME NEW t \in Threads, NEW tab \in Plain, BeginGet(t, tab) PROVE Latest'
  <2>1. cache' = cache /\ now' = now /\ returned' = returned
    BY <1>8 DEF BeginGet, At
  <2>2. \A u \in Threads : pc'[u] \in {"answer", "log", "store"} =>
          \/ pc[u] \in {"answer", "log", "store"} /\ got'[u] = got[u]
          \/ got'[u] = now
          \/ got'[u] = Error
    BY <1>8, SMT DEF BeginGet, At, Types, Sets, TypeOK
  <2> QED
    BY <2>1, <2>2, LatestKept
<1>9. ASSUME NEW t \in Threads, Lookup(t) PROVE Latest'
  <2>1. CASE Kept
    <3>1. cache' = cache /\ now' = now /\ cache # Nil /\ Return(t, cache.result)
      BY <1>9, <2>1 DEF Lookup, Kept
    <3>2. /\ cache.result = Error => returned' = returned
          /\ cache.result # Error => returned' = returned \cup {cache.result}
      BY <3>1 DEF Return
    <3>3. \A u \in Threads : pc'[u] \in {"answer", "log", "store"} =>
            pc[u] \in {"answer", "log", "store"} /\ got'[u] = got[u]
      BY <1>9, <3>1, SMT DEF Lookup, Return, Types, Sets, TypeOK
    <3>4. CASE cache.result = Error
      <4>1. returned' = returned
        BY <3>2, <3>4
      <4> QED
        BY <3>1, <3>3, <4>1, LatestKept
    <3>5. CASE cache.result # Error
      <4>1. /\ returned' = returned \cup {cache.result}
            /\ cache.result \in Nat /\ cache.result <= cache.stored
            /\ \A v \in returned : v <= cache.result
        BY <1>h, <3>1, <3>2, <3>5 DEF Latest, Types, Sets
      <4>2. cache.stored \in Nat
        BY <1>h, <3>1 DEF Types, TypeOK
      <4>3. ASSUME NEW u \in Threads, pc'[u] \in {"answer", "log", "store"}, got'[u] # Error
            PROVE  Meets(got[u])'
        <5>1. Meets(got[u]) /\ got'[u] = got[u]
          BY <3>3, <4>3 DEF Latest
        <5>2. got[u] \in Nat
          BY <1>h, <3>3, <4>3, SMT DEF Holds
        <5>3. CASE \A v \in returned : v <= got[u]
          <6>1. CASE cache.result <= got[u]
            BY <3>1, <4>1, <5>1, <5>3, <6>1 DEF Meets
          <6>2. CASE ~(cache.result <= got[u])
            <7>1. got[u] <= cache.stored
              BY <4>1, <4>2, <5>2, <6>2
            <7> QED
              BY <3>1, <5>1, <7>1 DEF Meets
          <6> QED
            BY <6>1, <6>2
        <5>4. CASE cache # Nil /\ got[u] <= cache.stored
          BY <3>1, <5>1, <5>4 DEF Meets
        <5> QED
          BY <5>1, <5>3, <5>4 DEF Meets
      <4>4. \A v \in returned' : v <= cache'.result
        BY <3>1, <4>1
      <4> QED
        BY <3>1, <4>1, <4>3, <4>4 DEF Latest
    <3> QED
      BY <3>4, <3>5
  <2>2. CASE ~Kept
    <3>1. cache' = cache /\ now' = now /\ returned' = returned /\ got' = got
      BY <1>9, <2>2 DEF Lookup
    <3>2. \A u \in Threads : pc'[u] \in {"answer", "log", "store"} => pc[u] \in {"answer", "log", "store"}
      BY <1>9, <2>2 DEF Lookup, Types, Sets, TypeOK
    <3> QED
      BY <3>1, <3>2, LatestKept
  <2> QED
    BY <2>1, <2>2
<1>10. ASSUME NEW t \in Threads, FetchAnswers(t) PROVE Latest'
  <2>1. cache' = cache /\ now' = now /\ returned' = returned
    BY <1>10 DEF FetchAnswers, At
  <2>2. \A u \in Threads : pc'[u] \in {"answer", "log", "store"} =>
          \/ pc[u] \in {"answer", "log", "store"} /\ got'[u] = got[u]
          \/ got'[u] = now
          \/ got'[u] = Error
    BY <1>10, SMT DEF FetchAnswers, At, Types, Sets, TypeOK
  <2> QED
    BY <2>1, <2>2, LatestKept
<1>11. ASSUME NEW t \in Threads, FetchRaises(t) PROVE Latest'
  <2>1. cache' = cache /\ now' = now /\ returned' = returned
    BY <1>11 DEF FetchRaises, Fail
  <2>2. \A u \in Threads : pc'[u] \in {"answer", "log", "store"} =>
          \/ pc[u] \in {"answer", "log", "store"} /\ got'[u] = got[u]
          \/ got'[u] = now
          \/ got'[u] = Error
    BY <1>11, SMT DEF FetchRaises, Fail, Types, Sets, TypeOK
  <2> QED
    BY <2>1, <2>2, LatestKept
<1>12. ASSUME NEW t \in Threads, LogOutsideTemperature(t) PROVE Latest'
  <2>1. cache' = cache /\ now' = now /\ returned' = returned
    BY <1>12 DEF LogOutsideTemperature, At
  <2>2. \A u \in Threads : pc'[u] \in {"answer", "log", "store"} =>
          \/ pc[u] \in {"answer", "log", "store"} /\ got'[u] = got[u]
          \/ got'[u] = now
          \/ got'[u] = Error
    BY <1>12, SMT DEF LogOutsideTemperature, At, Types, Sets, TypeOK
  <2> QED
    BY <2>1, <2>2, LatestKept
<1>13. ASSUME NEW t \in Threads, Store(t) PROVE Latest'
  <2>1. /\ pc[t] = "store" /\ now' = now /\ Return(t, cache'.result)
        /\ Kept => cache' = cache
        /\ ~Kept => cache' = [result |-> got[t], stored |-> now]
    BY <1>13 DEF Store
  <2>2. \A u \in Threads : pc'[u] \in {"answer", "log", "store"} =>
          pc[u] \in {"answer", "log", "store"} /\ got'[u] = got[u]
    BY <2>1, SMT DEF Return, Types, Sets, TypeOK
  <2>3. /\ cache'.result = Error => returned' = returned
        /\ cache'.result # Error => returned' = returned \cup {cache'.result}
    BY <2>1 DEF Return
  <2>4. /\ cache' # Nil /\ cache'.stored \in Nat
        /\ \/ cache'.result = Error
           \/ /\ cache'.result \in Nat /\ cache'.result <= cache'.stored
              /\ \A v \in returned : v <= cache'.result
    <3>1. CASE Kept
      BY <1>h, <2>1, <3>1, SMT DEF Kept, Latest, Types, Sets, TypeOK
    <3>2. CASE ~Kept
      <4>1. cache' = [result |-> got[t], stored |-> now] /\ got[t] \in Nat \cup {Error}
        BY <1>h, <2>1, <3>2, SMT DEF Holds
      <4>2. cache' # Nil
        BY <1>h, <4>1, HistoryAssumption
      <4>3. ASSUME got[t] # Error PROVE got[t] <= now /\ \A v \in returned : v <= got[t]
        <5>1. Meets(got[t]) /\ got[t] \in Nat /\ got[t] <= now
          BY <1>h, <2>1, <4>3, SMT DEF Latest, Holds
        <5>2. ~(cache # Nil /\ got[t] <= cache.stored)
          <6>1. cache # Nil => cache.stored \in Nat /\ ~(now < cache.stored + TTL)
            BY <1>h, <3>2 DEF Kept, Types, TypeOK
          <6> QED
            BY <1>h, <5>1, <6>1, SMT DEF Meets
        <5> QED
          BY <5>1, <5>2 DEF Meets
      <4> QED
        BY <1>h, <4>1, <4>2, <4>3
    <3> QED
      BY <3>1, <3>2
  <2>5. \/ cache' = cache /\ Kept
        \/ cache'.stored = now
    BY <2>1
  <2>6. ASSUME NEW u \in Threads, pc'[u] \in {"answer", "log", "store"}, got'[u] # Error
        PROVE  Meets(got[u])'
    <3>1. Meets(got[u]) /\ got'[u] = got[u] /\ got[u] \in Nat /\ got[u] <= now
      BY <1>h, <2>2, <2>6, SMT DEF Latest, Holds
    <3>2. CASE got[u] <= cache'.stored
      BY <2>1, <2>4, <3>1, <3>2 DEF Meets
    <3>3. CASE ~(got[u] <= cache'.stored)
      <4>1. cache' = cache /\ \A v \in returned : v <= got[u]
        BY <2>5, <3>1, <3>3 DEF Meets
      <4>2. cache'.result # Error => cache'.result <= got[u]
        BY <2>4, <3>1, <3>3
      <4> QED
        BY <2>1, <2>3, <3>1, <4>1, <4>2 DEF Meets
    <3> QED
      BY <3>2, <3>3
  <2>7. cache'.result = Error \/ \A v \in returned' : v <= cache'.result
    BY <2>3, <2>4
  <2> QED
    BY <2>4, <2>6, <2>7 DEF Latest
<1>14. ASSUME NEW t \in Threads, Select(t) PROVE Latest'
  <2>1. cache' = cache /\ now' = now /\ returned' = returned
    BY <1>14 DEF Select, At
  <2>2. \A u \in Threads : pc'[u] \in {"answer", "log", "store"} =>
          \/ pc[u] \in {"answer", "log", "store"} /\ got'[u] = got[u]
          \/ got'[u] = now
          \/ got'[u] = Error
    BY <1>14, SMT DEF Select, At, Types, Sets, TypeOK
  <2> QED
    BY <2>1, <2>2, LatestKept
<1>15. ASSUME NEW t \in Threads, Count(t) PROVE Latest'
  <2>1. cache' = cache /\ now' = now /\ returned' = returned
    BY <1>15 DEF Count, At
  <2>2. \A u \in Threads : pc'[u] \in {"answer", "log", "store"} =>
          \/ pc[u] \in {"answer", "log", "store"} /\ got'[u] = got[u]
          \/ got'[u] = now
          \/ got'[u] = Error
    BY <1>15, SMT DEF Count, At, Types, Sets, TypeOK
  <2> QED
    BY <2>1, <2>2, LatestKept
<1>16. ASSUME NEW t \in Threads, Data(t) PROVE Latest'
  <2>1. cache' = cache /\ now' = now /\ returned' = returned
    BY <1>16 DEF Data, At
  <2>2. \A u \in Threads : pc'[u] \in {"answer", "log", "store"} =>
          \/ pc[u] \in {"answer", "log", "store"} /\ got'[u] = got[u]
          \/ got'[u] = now
          \/ got'[u] = Error
    BY <1>16, SMT DEF Data, At, Types, Sets, TypeOK
  <2> QED
    BY <2>1, <2>2, LatestKept
<1>17. ASSUME NEW t \in Threads, StampTrace(t) PROVE Latest'
  <2>1. cache' = cache /\ now' = now /\ returned' = returned
    BY <1>17 DEF StampTrace, At
  <2>2. \A u \in Threads : pc'[u] \in {"answer", "log", "store"} =>
          \/ pc[u] \in {"answer", "log", "store"} /\ got'[u] = got[u]
          \/ got'[u] = now
          \/ got'[u] = Error
    BY <1>17, SMT DEF StampTrace, At, Types, Sets, TypeOK
  <2> QED
    BY <2>1, <2>2, LatestKept
<1>18. ASSUME NEW t \in Threads, SkipTrace(t) PROVE Latest'
  <2>1. cache' = cache /\ now' = now /\ returned' = returned
    BY <1>18 DEF SkipTrace, End
  <2>2. \A u \in Threads : pc'[u] \in {"answer", "log", "store"} =>
          \/ pc[u] \in {"answer", "log", "store"} /\ got'[u] = got[u]
          \/ got'[u] = now
          \/ got'[u] = Error
    BY <1>18, SMT DEF SkipTrace, End, Types, Sets, TypeOK
  <2> QED
    BY <2>1, <2>2, LatestKept
<1>19. ASSUME NEW t \in Threads, LogTraces(t) PROVE Latest'
  <2>1. cache' = cache /\ now' = now /\ returned' = returned
    BY <1>19 DEF LogTraces, End
  <2>2. \A u \in Threads : pc'[u] \in {"answer", "log", "store"} =>
          \/ pc[u] \in {"answer", "log", "store"} /\ got'[u] = got[u]
          \/ got'[u] = now
          \/ got'[u] = Error
    BY <1>19, SMT DEF LogTraces, End, Types, Sets, TypeOK
  <2> QED
    BY <2>1, <2>2, LatestKept
<1>20. ASSUME NEW t \in Threads, LogRow(t) PROVE Latest'
  <2>1. cache' = cache /\ now' = now /\ returned' = returned
    BY <1>20 DEF LogRow, End
  <2>2. \A u \in Threads : pc'[u] \in {"answer", "log", "store"} =>
          \/ pc[u] \in {"answer", "log", "store"} /\ got'[u] = got[u]
          \/ got'[u] = now
          \/ got'[u] = Error
    BY <1>20, SMT DEF LogRow, End, Types, Sets, TypeOK
  <2> QED
    BY <2>1, <2>2, LatestKept
<1>21. ASSUME NEW t \in Threads, Raises(t) PROVE Latest'
  <2>1. cache' = cache /\ now' = now /\ returned' = returned
    BY <1>21 DEF Raises, Fail, End
  <2>2. \A u \in Threads : pc'[u] \in {"answer", "log", "store"} =>
          \/ pc[u] \in {"answer", "log", "store"} /\ got'[u] = got[u]
          \/ got'[u] = now
          \/ got'[u] = Error
    BY <1>21, SMT DEF Raises, Fail, End, Types, Sets, TypeOK
  <2> QED
    BY <2>1, <2>2, LatestKept
<1>22. CASE UNCHANGED vars
  <2>1. cache' = cache /\ now' = now /\ returned' = returned
    BY <1>22 DEF vars
  <2>2. \A u \in Threads : pc'[u] \in {"answer", "log", "store"} =>
          \/ pc[u] \in {"answer", "log", "store"} /\ got'[u] = got[u]
          \/ got'[u] = now
          \/ got'[u] = Error
    BY <1>22, SMT DEF vars, Types, Sets, TypeOK
  <2> QED
    BY <2>1, <2>2, LatestKept
<1>23. ASSUME NEW t \in Threads, ServiceReads(t) PROVE Latest'
  <2>1. cache' = cache /\ now' = now /\ returned' = returned
    BY <1>23 DEF ServiceReads, At
  <2>2. \A u \in Threads : pc'[u] \in {"answer", "log", "store"} =>
          \/ pc[u] \in {"answer", "log", "store"} /\ got'[u] = got[u]
          \/ got'[u] = now
          \/ got'[u] = Error
    BY <1>23, SMT DEF ServiceReads, At, Types, Sets, TypeOK
  <2> QED
    BY <2>1, <2>2, LatestKept
<1>24. ASSUME NEW t \in Threads, SendError(t) PROVE Latest'
  <2>1. cache' = cache /\ now' = now /\ returned' = returned
    BY <1>24 DEF SendError, End
  <2>2. \A u \in Threads : pc'[u] \in {"answer", "log", "store"} =>
          \/ pc[u] \in {"answer", "log", "store"} /\ got'[u] = got[u]
          \/ got'[u] = now
          \/ got'[u] = Error
    BY <1>24, SMT DEF SendError, End, Types, Sets, TypeOK
  <2> QED
    BY <2>1, <2>2, LatestKept
<1> QED
  BY <1>k, <1>1, <1>2, <1>3, <1>4, <1>5, <1>6, <1>7, <1>8, <1>9, <1>10, <1>11, <1>12, <1>13, <1>14, <1>15, <1>16, <1>17, <1>18, <1>19, <1>20, <1>21, <1>22, <1>23, <1>24
  DEF Next, Step, Serve

\* The clock does not go back.
LEMMA NowNext == [Next]_vars => now' = now \/ now' = now + 1
<1> SUFFICES ASSUME [Next]_vars PROVE now' = now \/ now' = now + 1
  OBVIOUS
<1> USE DEF disk, request
<1>1. CASE CheckMigrations
  BY <1>1 DEF CheckMigrations
<1>2. CASE SetUserVersion
  BY <1>2 DEF SetUserVersion
<1>3. CASE Crash
  BY <1>3 DEF Crash
<1>4. CASE Tick
  BY <1>4 DEF Tick
<1>5. ASSUME NEW tab \in Tables, CreateTable(tab) PROVE now' = now
  BY <1>5 DEF CreateTable
<1>6. ASSUME NEW t \in Threads, NEW k, Begin(t, k) PROVE now' = now
  BY <1>6 DEF Begin
<1>7. ASSUME NEW t \in Threads, NEW tab, BeginLog(t, tab) PROVE now' = now
  BY <1>7 DEF BeginLog
<1>8. ASSUME NEW t \in Threads, NEW tab, BeginGet(t, tab) PROVE now' = now
  BY <1>8 DEF BeginGet
<1>9. ASSUME NEW t \in Threads, Lookup(t) PROVE now' = now
  BY <1>9 DEF Lookup
<1>10. ASSUME NEW t \in Threads, FetchAnswers(t) PROVE now' = now
  BY <1>10 DEF FetchAnswers
<1>11. ASSUME NEW t \in Threads, FetchRaises(t) PROVE now' = now
  BY <1>11 DEF FetchRaises
<1>12. ASSUME NEW t \in Threads, LogOutsideTemperature(t) PROVE now' = now
  BY <1>12 DEF LogOutsideTemperature
<1>13. ASSUME NEW t \in Threads, Store(t) PROVE now' = now
  BY <1>13 DEF Store
<1>14. ASSUME NEW t \in Threads, Select(t) PROVE now' = now
  BY <1>14 DEF Select
<1>15. ASSUME NEW t \in Threads, Count(t) PROVE now' = now
  BY <1>15 DEF Count
<1>16. ASSUME NEW t \in Threads, Data(t) PROVE now' = now
  BY <1>16 DEF Data
<1>17. ASSUME NEW t \in Threads, StampTrace(t) PROVE now' = now
  BY <1>17 DEF StampTrace
<1>18. ASSUME NEW t \in Threads, SkipTrace(t) PROVE now' = now
  BY <1>18 DEF SkipTrace
<1>19. ASSUME NEW t \in Threads, LogTraces(t) PROVE now' = now
  BY <1>19 DEF LogTraces
<1>20. ASSUME NEW t \in Threads, LogRow(t) PROVE now' = now
  BY <1>20 DEF LogRow
<1>21. ASSUME NEW t \in Threads, Raises(t) PROVE now' = now
  BY <1>21 DEF Raises
<1>22. CASE UNCHANGED vars
  BY <1>22 DEF vars
<1>23. ASSUME NEW t \in Threads, ServiceReads(t) PROVE now' = now
  BY <1>23 DEF ServiceReads
<1>24. ASSUME NEW t \in Threads, SendError(t) PROVE now' = now
  BY <1>24 DEF SendError
<1> QED
  BY <1>1, <1>2, <1>3, <1>4, <1>5, <1>6, <1>7, <1>8, <1>9, <1>10, <1>11, <1>12, <1>13, <1>14, <1>15, <1>16, <1>17, <1>18, <1>19, <1>20, <1>21, <1>22, <1>23, <1>24
  DEF Next, Step, Serve

\* A row's timestamp is taken before its insert, and not before the value.
LEMMA StampsNext ==
  ASSUME Types, Holds, Stamps, [Next]_vars
  PROVE  Stamps'
<1> USE DEF disk, request
<1>k. traffic.kinds \subseteq Kinds /\ traffic.logged \subseteq Plain
  BY HistoryAssumption DEF Types, Sets, TypeOK, Traffic
<1>h. now \in Nat /\ now' \in Nat /\ now <= now'
  <2>1. now \in 0..MaxTime /\ MaxTime \in Nat
    BY HistoryAssumption DEF Types, TypeOK
  <2>2. now' = now \/ now' = now + 1
    BY NowNext
  <2> QED
    BY <2>1, <2>2, SMT
<1> DEFINE Kind == \A u \in Threads : pc'[u] \in {"log", "write"} =>
                     \/ pc[u] = pc'[u] /\ got'[u] = got[u] /\ ts'[u] = ts[u]
                     \/ got'[u] \in 0..now /\ ts'[u] = Wall(now)
<1>s. Kind => Stamps'
  <2> SUFFICES ASSUME Kind, NEW u \in Threads, pc'[u] \in {"log", "write"}
               PROVE  \E n \in 0..now' : got'[u] <= n /\ ts'[u] = Wall(n)
    BY DEF Stamps, Dated
  <2>1. CASE pc[u] = pc'[u] /\ got'[u] = got[u] /\ ts'[u] = ts[u]
    <3>1. \E n \in 0..now : got'[u] <= n /\ ts'[u] = Wall(n)
      BY <2>1 DEF Stamps, Dated
    <3> QED
      BY <1>h, <3>1
  <2>2. CASE got'[u] \in 0..now /\ ts'[u] = Wall(now)
    BY <1>h, <2>2
  <2> QED
    BY <2>1, <2>2
<1>1. CASE CheckMigrations
  <2>1. Kind
    BY <1>1, <1>h, SMT DEF CheckMigrations, Types, Sets, TypeOK, Holds
  <2> QED
    BY <1>s, <2>1
<1>2. CASE SetUserVersion
  <2>1. Kind
    BY <1>2, <1>h, SMT DEF SetUserVersion, Types, Sets, TypeOK, Holds
  <2> QED
    BY <1>s, <2>1
<1>3. CASE Crash
  <2>1. Kind
    BY <1>3, <1>h, SMT DEF Crash, Types, Sets, TypeOK, Holds
  <2> QED
    BY <1>s, <2>1
<1>4. CASE Tick
  <2>1. Kind
    BY <1>4, <1>h, SMT DEF Tick, Prompt, Types, Sets, TypeOK, Holds
  <2> QED
    BY <1>s, <2>1
<1>5. ASSUME NEW tab \in Tables, CreateTable(tab) PROVE Stamps'
  <2>1. Kind
    BY <1>5, <1>h, SMT DEF CreateTable, Types, Sets, TypeOK, Holds
  <2> QED
    BY <1>s, <2>1
<1>6. ASSUME NEW t \in Threads, NEW k \in Kinds, Begin(t, k) PROVE Stamps'
  <2>1. Kind
    BY <1>6, <1>h, SMT DEF Begin, At, Types, Sets, TypeOK, Holds
  <2> QED
    BY <1>s, <2>1
<1>7. ASSUME NEW t \in Threads, NEW tab \in Plain, BeginLog(t, tab) PROVE Stamps'
  <2>1. Kind
    BY <1>7, <1>h, SMT DEF BeginLog, At, Types, Sets, TypeOK, Holds
  <2> QED
    BY <1>s, <2>1
<1>8. ASSUME NEW t \in Threads, NEW tab \in Plain, BeginGet(t, tab) PROVE Stamps'
  <2>1. Kind
    BY <1>8, <1>h, SMT DEF BeginGet, At, Types, Sets, TypeOK, Holds
  <2> QED
    BY <1>s, <2>1
<1>9. ASSUME NEW t \in Threads, Lookup(t) PROVE Stamps'
  <2>1. Kind
    BY <1>9, <1>h, SMT DEF Lookup, Return, Types, Sets, TypeOK, Holds
  <2> QED
    BY <1>s, <2>1
<1>10. ASSUME NEW t \in Threads, FetchAnswers(t) PROVE Stamps'
  <2>1. Kind
    BY <1>10, <1>h, SMT DEF FetchAnswers, At, Types, Sets, TypeOK, Holds
  <2> QED
    BY <1>s, <2>1
<1>11. ASSUME NEW t \in Threads, FetchRaises(t) PROVE Stamps'
  <2>1. Kind
    BY <1>11, <1>h, SMT DEF FetchRaises, Fail, Types, Sets, TypeOK, Holds
  <2> QED
    BY <1>s, <2>1
<1>12. ASSUME NEW t \in Threads, LogOutsideTemperature(t) PROVE Stamps'
  <2>1. Kind
    BY <1>12, <1>h, SMT DEF LogOutsideTemperature, At, Types, Sets, TypeOK, Holds
  <2> QED
    BY <1>s, <2>1
<1>13. ASSUME NEW t \in Threads, Store(t) PROVE Stamps'
  <2>1. Kind
    BY <1>13, <1>h, SMT DEF Store, Return, Types, Sets, TypeOK, Holds
  <2> QED
    BY <1>s, <2>1
<1>14. ASSUME NEW t \in Threads, Select(t) PROVE Stamps'
  <2>1. Kind
    BY <1>14, <1>h, SMT DEF Select, At, Types, Sets, TypeOK, Holds
  <2> QED
    BY <1>s, <2>1
<1>15. ASSUME NEW t \in Threads, Count(t) PROVE Stamps'
  <2>1. Kind
    BY <1>15, <1>h, SMT DEF Count, At, Types, Sets, TypeOK, Holds
  <2> QED
    BY <1>s, <2>1
<1>16. ASSUME NEW t \in Threads, Data(t) PROVE Stamps'
  <2>1. Kind
    BY <1>16, <1>h, SMT DEF Data, At, Types, Sets, TypeOK, Holds
  <2> QED
    BY <1>s, <2>1
<1>17. ASSUME NEW t \in Threads, StampTrace(t) PROVE Stamps'
  <2>1. Kind
    BY <1>17, <1>h, SMT DEF StampTrace, At, Types, Sets, TypeOK, Holds
  <2> QED
    BY <1>s, <2>1
<1>18. ASSUME NEW t \in Threads, SkipTrace(t) PROVE Stamps'
  <2>1. Kind
    BY <1>18, <1>h, SMT DEF SkipTrace, End, Types, Sets, TypeOK, Holds
  <2> QED
    BY <1>s, <2>1
<1>19. ASSUME NEW t \in Threads, LogTraces(t) PROVE Stamps'
  <2>1. Kind
    BY <1>19, <1>h, SMT DEF LogTraces, End, Types, Sets, TypeOK, Holds
  <2> QED
    BY <1>s, <2>1
<1>20. ASSUME NEW t \in Threads, LogRow(t) PROVE Stamps'
  <2>1. Kind
    BY <1>20, <1>h, SMT DEF LogRow, End, Types, Sets, TypeOK, Holds
  <2> QED
    BY <1>s, <2>1
<1>21. ASSUME NEW t \in Threads, Raises(t) PROVE Stamps'
  <2>1. Kind
    BY <1>21, <1>h, SMT DEF Raises, Fail, End, Types, Sets, TypeOK, Holds
  <2> QED
    BY <1>s, <2>1
<1>22. CASE UNCHANGED vars
  <2>1. Kind
    BY <1>22, <1>h, SMT DEF vars, Types, Sets, TypeOK, Holds
  <2> QED
    BY <1>s, <2>1
<1>23. ASSUME NEW t \in Threads, ServiceReads(t) PROVE Stamps'
  <2>1. Kind
    BY <1>23, <1>h, SMT DEF ServiceReads, At, Types, Sets, TypeOK, Holds
  <2> QED
    BY <1>s, <2>1
<1>24. ASSUME NEW t \in Threads, SendError(t) PROVE Stamps'
  <2>1. Kind
    BY <1>24, <1>h, SMT DEF SendError, End, Types, Sets, TypeOK, Holds
  <2> QED
    BY <1>s, <2>1
<1> QED
  BY <1>k, <1>1, <1>2, <1>3, <1>4, <1>5, <1>6, <1>7, <1>8, <1>9, <1>10, <1>11, <1>12, <1>13, <1>14, <1>15, <1>16, <1>17, <1>18, <1>19, <1>20, <1>21, <1>22, <1>23, <1>24
  DEF Next, Step, Serve

\* Rows are only added, and each with its own timestamp; nothing is returned, kept or
\* stored that is not a row.
LEMMA LoggedKept ==
  ASSUME Logged, now \in Nat, now' = now \/ now' = now + 1,
         \A tab \in Tables : rows[tab] \subseteq rows'[tab],
         \A tab \in Tables \ {"web_traces"} : \A r \in rows'[tab] :
           r \in rows[tab] \/ Dated(r[1], r[2]),
         \A v \in returned' : v \in returned \/ Seen("besim_outside_temperature", v),
         cache' # Nil => \/ cache' = cache
                         \/ cache'.result = Error
                         \/ Seen("besim_outside_temperature", cache'.result),
         \A u \in Threads : pc'[u] = "store" =>
           \/ got'[u] = Error
           \/ pc[u] = "store" /\ got'[u] = got[u]
           \/ \E r \in rows'["besim_outside_temperature"] : r[2] = got'[u],
         \A u \in Threads : kind'[u] \in Plain \cup {"WeatherHistory"} => \A v \in before'[u] :
           \/ kind'[u] = kind[u] /\ v \in before[u]
           \/ Seen(TableOf(kind'[u]), v)
  PROVE  Logged'
<1>1. \A tab \in Tables : \A v : Seen(tab, v) => \E r \in rows'[tab] : r[2] = v
  BY DEF Seen
<1>2. "besim_outside_temperature" \in Tables
  BY DEF Tables
<1>3. \A k \in Plain \cup {"WeatherHistory"} : TableOf(k) \in Tables
  BY DEF Tables, Plain, TableOf
<1>4. \A tab \in Tables \ {"web_traces"} : \A r \in rows'[tab] :
        \E n \in 0..now' : r[2] <= n /\ r[1] = Wall(n)
  <2>1. \A n \in 0..now : n \in 0..now'
    OBVIOUS
  <2>2. \A tab \in Tables \ {"web_traces"} : \A r \in rows'[tab] : Dated(r[1], r[2])
    BY DEF Logged
  <2> QED
    BY <2>1, <2>2 DEF Dated
<1>5. \A v \in returned' : Seen("besim_outside_temperature", v)
  BY DEF Logged
<1>6. cache' # Nil => cache'.result = Error \/ Seen("besim_outside_temperature", cache'.result)
  BY DEF Logged
<1>7. \A u \in Threads : pc'[u] = "store" =>
        got'[u] = Error \/ \E r \in rows'["besim_outside_temperature"] : r[2] = got'[u]
  BY <1>1, <1>2 DEF Logged
<1>8. \A u \in Threads : kind'[u] \in Plain \cup {"WeatherHistory"} =>
        \A v \in before'[u] : Seen(TableOf(kind'[u]), v)
  BY DEF Logged
<1>9. /\ \A v \in returned' : \E r \in rows'["besim_outside_temperature"] : r[2] = v
      /\ cache' # Nil => \/ cache'.result = Error
                         \/ \E r \in rows'["besim_outside_temperature"] : r[2] = cache'.result
      /\ \A u \in Threads : kind'[u] \in Plain \cup {"WeatherHistory"} =>
           \A v \in before'[u] : \E r \in rows'[TableOf(kind'[u])] : r[2] = v
  BY <1>1, <1>2, <1>3, <1>5, <1>6, <1>8
<1> QED
  BY <1>4, <1>7, <1>9 DEF Logged, Seen, TableOf, Dated, Wall

\* A reading is logged before it is stored.
LEMMA LoggedNext ==
  ASSUME Types, Holds, Stamps, Logged, [Next]_vars
  PROVE  Logged'
<1> USE DEF disk, request
<1>n. now \in Nat /\ (now' = now \/ now' = now + 1)
  <2>1. now \in 0..MaxTime
    BY DEF Types, TypeOK
  <2> QED
    BY <2>1, NowNext
<1>k. traffic.kinds \subseteq Kinds /\ traffic.logged \subseteq Plain
  BY HistoryAssumption DEF Types, Sets, TypeOK, Traffic
<1>1. CASE CheckMigrations
  <2>1. rows' = rows /\ returned' = returned /\ (cache' = cache \/ cache' = Nil)
    BY <1>1 DEF CheckMigrations
  <2>2. \A u \in Threads : pc'[u] = "store" => got'[u] = Error \/ (pc[u] = "store" /\ got'[u] = got[u])
    BY <1>1, SMT DEF CheckMigrations, Types, Sets, TypeOK
  <2>3. \A u \in Threads : kind'[u] \in Plain \cup {"WeatherHistory"} =>
          (kind'[u] = kind[u] /\ before'[u] \subseteq before[u]) \/ before'[u] = {}
    BY <1>1, SMT DEF CheckMigrations, Types, Sets, TypeOK, Holds
  <2> QED
    BY <2>1, <2>2, <2>3, <1>n, LoggedKept
<1>2. CASE SetUserVersion
  <2>1. rows' = rows /\ returned' = returned /\ (cache' = cache \/ cache' = Nil)
    BY <1>2 DEF SetUserVersion
  <2>2. \A u \in Threads : pc'[u] = "store" => got'[u] = Error \/ (pc[u] = "store" /\ got'[u] = got[u])
    BY <1>2, SMT DEF SetUserVersion, Types, Sets, TypeOK
  <2>3. \A u \in Threads : kind'[u] \in Plain \cup {"WeatherHistory"} =>
          (kind'[u] = kind[u] /\ before'[u] \subseteq before[u]) \/ before'[u] = {}
    BY <1>2, SMT DEF SetUserVersion, Types, Sets, TypeOK, Holds
  <2> QED
    BY <2>1, <2>2, <2>3, <1>n, LoggedKept
<1>3. CASE Crash
  <2>1. rows' = rows /\ returned' = returned /\ (cache' = cache \/ cache' = Nil)
    BY <1>3 DEF Crash
  <2>2. \A u \in Threads : pc'[u] = "store" => got'[u] = Error \/ (pc[u] = "store" /\ got'[u] = got[u])
    BY <1>3, SMT DEF Crash, Types, Sets, TypeOK
  <2>3. \A u \in Threads : kind'[u] \in Plain \cup {"WeatherHistory"} =>
          (kind'[u] = kind[u] /\ before'[u] \subseteq before[u]) \/ before'[u] = {}
    BY <1>3, SMT DEF Crash, Types, Sets, TypeOK, Holds
  <2> QED
    BY <2>1, <2>2, <2>3, <1>n, LoggedKept
<1>4. CASE Tick
  <2>1. rows' = rows /\ returned' = returned /\ (cache' = cache \/ cache' = Nil)
    BY <1>4 DEF Tick, Prompt
  <2>2. \A u \in Threads : pc'[u] = "store" => got'[u] = Error \/ (pc[u] = "store" /\ got'[u] = got[u])
    BY <1>4, SMT DEF Tick, Prompt, Types, Sets, TypeOK
  <2>3. \A u \in Threads : kind'[u] \in Plain \cup {"WeatherHistory"} =>
          (kind'[u] = kind[u] /\ before'[u] \subseteq before[u]) \/ before'[u] = {}
    BY <1>4, SMT DEF Tick, Prompt, Types, Sets, TypeOK, Holds
  <2> QED
    BY <2>1, <2>2, <2>3, <1>n, LoggedKept
<1>5. ASSUME NEW tab \in Tables, CreateTable(tab) PROVE Logged'
  <2>1. rows' = rows /\ returned' = returned /\ (cache' = cache \/ cache' = Nil)
    BY <1>5 DEF CreateTable
  <2>2. \A u \in Threads : pc'[u] = "store" => got'[u] = Error \/ (pc[u] = "store" /\ got'[u] = got[u])
    BY <1>5, SMT DEF CreateTable, Types, Sets, TypeOK
  <2>3. \A u \in Threads : kind'[u] \in Plain \cup {"WeatherHistory"} =>
          (kind'[u] = kind[u] /\ before'[u] \subseteq before[u]) \/ before'[u] = {}
    BY <1>5, SMT DEF CreateTable, Types, Sets, TypeOK, Holds
  <2> QED
    BY <2>1, <2>2, <2>3, <1>n, LoggedKept
<1>6. ASSUME NEW t \in Threads, NEW k \in Kinds, Begin(t, k) PROVE Logged'
  <2>1. rows' = rows /\ returned' = returned /\ cache' = cache
    BY <1>6 DEF Begin, At
  <2>2. \A u \in Threads : pc'[u] = "store" => pc[u] = "store" /\ got'[u] = got[u]
    BY <1>6, SMT DEF Begin, At, Types, Sets, TypeOK
  <2>3. \A u \in Threads \ {t} : kind'[u] = kind[u] /\ before'[u] = before[u]
    BY <1>6 DEF Begin, At, Types, Sets, TypeOK
  <2>4. kind'[t] \in Plain \cup {"WeatherHistory"} =>
          kind'[t] = "WeatherHistory" /\ before'[t] = returned
    BY <1>6 DEF Begin, At, Types, Sets, TypeOK, Kinds, Plain, Tables
  <2>5. kind'[t] \in Plain \cup {"WeatherHistory"} =>
          \A v \in before'[t] : Seen(TableOf(kind'[t]), v)
    BY <2>4 DEF Logged, TableOf
  <2> QED
    BY <2>1, <2>2, <2>3, <2>5, <1>n, LoggedKept
<1>7. ASSUME NEW t \in Threads, NEW tab \in Plain, BeginLog(t, tab) PROVE Logged'
  <2>1. rows' = rows /\ returned' = returned /\ (cache' = cache \/ cache' = Nil)
    BY <1>7 DEF BeginLog, At
  <2>2. \A u \in Threads : pc'[u] = "store" => got'[u] = Error \/ (pc[u] = "store" /\ got'[u] = got[u])
    BY <1>7, SMT DEF BeginLog, At, Types, Sets, TypeOK
  <2>3. \A u \in Threads : kind'[u] \in Plain \cup {"WeatherHistory"} =>
          (kind'[u] = kind[u] /\ before'[u] \subseteq before[u]) \/ before'[u] = {}
    BY <1>7, SMT DEF BeginLog, At, Types, Sets, TypeOK, Holds
  <2> QED
    BY <2>1, <2>2, <2>3, <1>n, LoggedKept
<1>8. ASSUME NEW t \in Threads, NEW tab \in Plain, BeginGet(t, tab) PROVE Logged'
  <2>1. rows' = rows /\ returned' = returned /\ cache' = cache
    BY <1>8 DEF BeginGet, At
  <2>2. \A u \in Threads : pc'[u] = "store" => pc[u] = "store" /\ got'[u] = got[u]
    BY <1>8, SMT DEF BeginGet, At, Types, Sets, TypeOK
  <2>3. \A u \in Threads \ {t} : kind'[u] = kind[u] /\ before'[u] = before[u]
    BY <1>8 DEF BeginGet, At, Types, Sets, TypeOK
  <2>4. kind'[t] = tab /\ before'[t] = {r[2] : r \in rows[tab]}
    BY <1>8 DEF BeginGet, At, Types, Sets, TypeOK
  <2>5. TableOf(tab) = tab /\ tab \in Tables \ {"web_traces"}
    BY DEF TableOf, Plain, Tables
  <2>6. \A v \in before'[t] : Seen(TableOf(kind'[t]), v)
    BY <2>4, <2>5 DEF Logged, Seen
  <2> QED
    BY <2>1, <2>2, <2>3, <2>6, <1>n, LoggedKept
<1>9. ASSUME NEW t \in Threads, Lookup(t) PROVE Logged'
  <2>1. rows' = rows /\ cache' = cache /\ kind' = kind /\ before' = before
    BY <1>9 DEF Lookup, Return
  <2>2. \A u \in Threads : pc'[u] = "store" => pc[u] = "store" /\ got'[u] = got[u]
    BY <1>9, SMT DEF Lookup, Return, Types, Sets, TypeOK
  <2>3. \A v \in returned' : v \in returned \/ (cache # Nil /\ v = cache.result /\ v # Error)
    BY <1>9 DEF Lookup, Return, Kept
  <2>4. \A v \in returned' : v \in returned \/ Seen("besim_outside_temperature", v)
    BY <2>3 DEF Logged
  <2> QED
    BY <2>1, <2>2, <2>4, <1>n, LoggedKept
<1>10. ASSUME NEW t \in Threads, FetchAnswers(t) PROVE Logged'
  <2>1. rows' = rows /\ returned' = returned /\ (cache' = cache \/ cache' = Nil)
    BY <1>10 DEF FetchAnswers, At
  <2>2. \A u \in Threads : pc'[u] = "store" => got'[u] = Error \/ (pc[u] = "store" /\ got'[u] = got[u])
    BY <1>10, SMT DEF FetchAnswers, At, Types, Sets, TypeOK
  <2>3. \A u \in Threads : kind'[u] \in Plain \cup {"WeatherHistory"} =>
          (kind'[u] = kind[u] /\ before'[u] \subseteq before[u]) \/ before'[u] = {}
    BY <1>10, SMT DEF FetchAnswers, At, Types, Sets, TypeOK, Holds
  <2> QED
    BY <2>1, <2>2, <2>3, <1>n, LoggedKept
<1>11. ASSUME NEW t \in Threads, FetchRaises(t) PROVE Logged'
  <2>1. rows' = rows /\ returned' = returned /\ (cache' = cache \/ cache' = Nil)
    BY <1>11 DEF FetchRaises, Fail
  <2>2. \A u \in Threads : pc'[u] = "store" => got'[u] = Error \/ (pc[u] = "store" /\ got'[u] = got[u])
    BY <1>11, SMT DEF FetchRaises, Fail, Types, Sets, TypeOK
  <2>3. \A u \in Threads : kind'[u] \in Plain \cup {"WeatherHistory"} =>
          (kind'[u] = kind[u] /\ before'[u] \subseteq before[u]) \/ before'[u] = {}
    BY <1>11, SMT DEF FetchRaises, Fail, Types, Sets, TypeOK, Holds
  <2> QED
    BY <2>1, <2>2, <2>3, <1>n, LoggedKept
<1>12. ASSUME NEW t \in Threads, LogOutsideTemperature(t) PROVE Logged'
  <2>1. returned' = returned /\ cache' = cache
    BY <1>12 DEF LogOutsideTemperature, At
  <2>2. /\ ts[t] \in Times /\ got[t] \in IF "besim_outside_temperature" = "web_traces" THEN Traced ELSE 0..now
        /\ "besim_outside_temperature" \in Tables /\ Into("besim_outside_temperature", t, got[t])
    BY <1>12, SMT DEF LogOutsideTemperature, At, Types, Sets, TypeOK, Holds, Plain, Tables, Traced
  <2>3. /\ \A tab \in Tables : rows[tab] \subseteq rows'[tab]
        /\ rows'["besim_outside_temperature"] = rows["besim_outside_temperature"] \cup {<<ts[t], got[t]>>}
        /\ \A tab \in Tables \ {"besim_outside_temperature"} : rows'[tab] = rows[tab]
    BY <2>2, IntoType DEF Into, Types, Sets
  <2>4. \A tab \in Tables \ {"web_traces"} : \A r \in rows'[tab] :
          r \in rows[tab] \/ Dated(r[1], r[2])
    <3>1. Dated(ts[t], got[t])
      BY <1>12 DEF LogOutsideTemperature, At, Stamps
    <3>2. \A r : r = <<ts[t], got[t]>> => r[1] = ts[t] /\ r[2] = got[t]
      OBVIOUS
    <3> QED
      BY <2>3, <3>1, <3>2
  <2>5. \A u \in Threads : pc'[u] = "store" =>
          \/ got'[u] = Error
          \/ pc[u] = "store" /\ got'[u] = got[u]
          \/ \E r \in rows'["besim_outside_temperature"] : r[2] = got'[u]
    <3>1. \A u \in Threads \ {t} : pc'[u] = pc[u] /\ got'[u] = got[u]
      BY <1>12 DEF LogOutsideTemperature, At, Types, Sets, TypeOK
    <3>2. got'[t] = <<ts[t], got[t]>>[2] /\ <<ts[t], got[t]>> \in rows'["besim_outside_temperature"]
      BY <1>12, <2>3 DEF LogOutsideTemperature, At, Types, Sets, TypeOK
    <3> QED
      BY <3>1, <3>2
  <2>6. \A u \in Threads : kind'[u] \in Plain \cup {"WeatherHistory"} =>
          (kind'[u] = kind[u] /\ before'[u] \subseteq before[u]) \/ before'[u] = {}
    BY <1>12, SMT DEF LogOutsideTemperature, At, Types, Sets, TypeOK
  <2> QED
    BY <2>1, <2>3, <2>4, <2>5, <2>6, <1>n, LoggedKept
<1>13. ASSUME NEW t \in Threads, Store(t) PROVE Logged'
  <2>1. rows' = rows /\ kind' = kind /\ before' = before /\ pc[t] = "store"
    BY <1>13 DEF Store, Return
  <2>2. \A u \in Threads : pc'[u] = "store" => pc[u] = "store" /\ got'[u] = got[u]
    BY <1>13, SMT DEF Store, Return, Types, Sets, TypeOK
  <2>3. \/ Kept /\ cache' = cache
        \/ cache'.result = got[t]
    BY <1>13 DEF Store
  <2>4. cache'.result = Error \/ Seen("besim_outside_temperature", cache'.result)
    BY <2>1, <2>3 DEF Logged, Kept
  <2>6. \A v \in returned' : v \in returned \/ (v = cache'.result /\ v # Error)
    BY <1>13 DEF Store, Return
  <2>5. \A v \in returned' : v \in returned \/ Seen("besim_outside_temperature", v)
    BY <2>4, <2>6
  <2> QED
    BY <2>1, <2>2, <2>4, <2>5, <1>n, LoggedKept
<1>14. ASSUME NEW t \in Threads, Select(t) PROVE Logged'
  <2>1. rows' = rows /\ returned' = returned /\ (cache' = cache \/ cache' = Nil)
    BY <1>14 DEF Select, At
  <2>2. \A u \in Threads : pc'[u] = "store" => got'[u] = Error \/ (pc[u] = "store" /\ got'[u] = got[u])
    BY <1>14, SMT DEF Select, At, Types, Sets, TypeOK
  <2>3. \A u \in Threads : kind'[u] \in Plain \cup {"WeatherHistory"} =>
          (kind'[u] = kind[u] /\ before'[u] \subseteq before[u]) \/ before'[u] = {}
    BY <1>14, SMT DEF Select, At, Types, Sets, TypeOK, Holds
  <2> QED
    BY <2>1, <2>2, <2>3, <1>n, LoggedKept
<1>15. ASSUME NEW t \in Threads, Count(t) PROVE Logged'
  <2>1. rows' = rows /\ returned' = returned /\ (cache' = cache \/ cache' = Nil)
    BY <1>15 DEF Count, At
  <2>2. \A u \in Threads : pc'[u] = "store" => got'[u] = Error \/ (pc[u] = "store" /\ got'[u] = got[u])
    BY <1>15, SMT DEF Count, At, Types, Sets, TypeOK
  <2>3. \A u \in Threads : kind'[u] \in Plain \cup {"WeatherHistory"} =>
          (kind'[u] = kind[u] /\ before'[u] \subseteq before[u]) \/ before'[u] = {}
    BY <1>15, SMT DEF Count, At, Types, Sets, TypeOK, Holds
  <2> QED
    BY <2>1, <2>2, <2>3, <1>n, LoggedKept
<1>16. ASSUME NEW t \in Threads, Data(t) PROVE Logged'
  <2>1. rows' = rows /\ returned' = returned /\ (cache' = cache \/ cache' = Nil)
    BY <1>16 DEF Data, At
  <2>2. \A u \in Threads : pc'[u] = "store" => got'[u] = Error \/ (pc[u] = "store" /\ got'[u] = got[u])
    BY <1>16, SMT DEF Data, At, Types, Sets, TypeOK
  <2>3. \A u \in Threads : kind'[u] \in Plain \cup {"WeatherHistory"} =>
          (kind'[u] = kind[u] /\ before'[u] \subseteq before[u]) \/ before'[u] = {}
    BY <1>16, SMT DEF Data, At, Types, Sets, TypeOK, Holds
  <2> QED
    BY <2>1, <2>2, <2>3, <1>n, LoggedKept
<1>17. ASSUME NEW t \in Threads, StampTrace(t) PROVE Logged'
  <2>1. rows' = rows /\ returned' = returned /\ (cache' = cache \/ cache' = Nil)
    BY <1>17 DEF StampTrace, At
  <2>2. \A u \in Threads : pc'[u] = "store" => got'[u] = Error \/ (pc[u] = "store" /\ got'[u] = got[u])
    BY <1>17, SMT DEF StampTrace, At, Types, Sets, TypeOK
  <2>3. \A u \in Threads : kind'[u] \in Plain \cup {"WeatherHistory"} =>
          (kind'[u] = kind[u] /\ before'[u] \subseteq before[u]) \/ before'[u] = {}
    BY <1>17, SMT DEF StampTrace, At, Types, Sets, TypeOK, Holds
  <2> QED
    BY <2>1, <2>2, <2>3, <1>n, LoggedKept
<1>18. ASSUME NEW t \in Threads, SkipTrace(t) PROVE Logged'
  <2>1. rows' = rows /\ returned' = returned /\ (cache' = cache \/ cache' = Nil)
    BY <1>18 DEF SkipTrace, End
  <2>2. \A u \in Threads : pc'[u] = "store" => got'[u] = Error \/ (pc[u] = "store" /\ got'[u] = got[u])
    BY <1>18, SMT DEF SkipTrace, End, Types, Sets, TypeOK
  <2>3. \A u \in Threads : kind'[u] \in Plain \cup {"WeatherHistory"} =>
          (kind'[u] = kind[u] /\ before'[u] \subseteq before[u]) \/ before'[u] = {}
    BY <1>18, SMT DEF SkipTrace, End, Types, Sets, TypeOK, Holds
  <2> QED
    BY <2>1, <2>2, <2>3, <1>n, LoggedKept
<1>19. ASSUME NEW t \in Threads, LogTraces(t) PROVE Logged'
  <2>1. returned' = returned /\ cache' = cache
    BY <1>19 DEF LogTraces, End
  <2>2. /\ ts[t] \in Times /\ kind[t] \in IF "web_traces" = "web_traces" THEN Traced ELSE 0..now
        /\ "web_traces" \in Tables /\ Into("web_traces", t, kind[t])
    BY <1>19, SMT DEF LogTraces, End, Types, Sets, TypeOK, Holds, Plain, Tables, Traced
  <2>3. /\ \A tab \in Tables : rows[tab] \subseteq rows'[tab]
        /\ rows'["web_traces"] = rows["web_traces"] \cup {<<ts[t], kind[t]>>}
        /\ \A tab \in Tables \ {"web_traces"} : rows'[tab] = rows[tab]
    BY <2>2, IntoType DEF Into, Types, Sets
  <2>4. \A tab \in Tables \ {"web_traces"} : \A r \in rows'[tab] :
          r \in rows[tab] \/ Dated(r[1], r[2])
    BY <2>3
  <2>5. \A u \in Threads : pc'[u] = "store" =>
          \/ got'[u] = Error
          \/ pc[u] = "store" /\ got'[u] = got[u]
          \/ \E r \in rows'["besim_outside_temperature"] : r[2] = got'[u]
    <3>1. \A u \in Threads \ {t} : pc'[u] = pc[u] /\ got'[u] = got[u]
      BY <1>19 DEF LogTraces, End, Types, Sets, TypeOK
    <3>2. pc'[t] # "store"
      BY <1>19 DEF LogTraces, End, Types, Sets, TypeOK
    <3> QED
      BY <3>1, <3>2
  <2>6. \A u \in Threads : kind'[u] \in Plain \cup {"WeatherHistory"} =>
          (kind'[u] = kind[u] /\ before'[u] \subseteq before[u]) \/ before'[u] = {}
    BY <1>19, SMT DEF LogTraces, End, Types, Sets, TypeOK
  <2> QED
    BY <2>1, <2>3, <2>4, <2>5, <2>6, <1>n, LoggedKept
<1>20. ASSUME NEW t \in Threads, LogRow(t) PROVE Logged'
  <2>1. returned' = returned /\ cache' = cache
    BY <1>20 DEF LogRow, End
  <2>2. /\ ts[t] \in Times /\ got[t] \in IF kind[t] = "web_traces" THEN Traced ELSE 0..now
        /\ kind[t] \in Tables /\ Into(kind[t], t, got[t])
    BY <1>20, SMT DEF LogRow, End, Types, Sets, TypeOK, Holds, Plain, Tables, Traced
  <2>3. /\ \A tab \in Tables : rows[tab] \subseteq rows'[tab]
        /\ rows'[kind[t]] = rows[kind[t]] \cup {<<ts[t], got[t]>>}
        /\ \A tab \in Tables \ {kind[t]} : rows'[tab] = rows[tab]
    BY <2>2, IntoType DEF Into, Types, Sets
  <2>4. \A tab \in Tables \ {"web_traces"} : \A r \in rows'[tab] :
          r \in rows[tab] \/ Dated(r[1], r[2])
    <3>1. Dated(ts[t], got[t])
      BY <1>20 DEF LogRow, At, Stamps
    <3>2. \A r : r = <<ts[t], got[t]>> => r[1] = ts[t] /\ r[2] = got[t]
      OBVIOUS
    <3> QED
      BY <2>3, <3>1, <3>2
  <2>5. \A u \in Threads : pc'[u] = "store" =>
          \/ got'[u] = Error
          \/ pc[u] = "store" /\ got'[u] = got[u]
          \/ \E r \in rows'["besim_outside_temperature"] : r[2] = got'[u]
    <3>1. \A u \in Threads \ {t} : pc'[u] = pc[u] /\ got'[u] = got[u]
      BY <1>20 DEF LogRow, End, Types, Sets, TypeOK
    <3>2. pc'[t] # "store"
      BY <1>20 DEF LogRow, End, Types, Sets, TypeOK
    <3> QED
      BY <3>1, <3>2
  <2>6. \A u \in Threads : kind'[u] \in Plain \cup {"WeatherHistory"} =>
          (kind'[u] = kind[u] /\ before'[u] \subseteq before[u]) \/ before'[u] = {}
    BY <1>20, SMT DEF LogRow, End, Types, Sets, TypeOK
  <2> QED
    BY <2>1, <2>3, <2>4, <2>5, <2>6, <1>n, LoggedKept
<1>21. ASSUME NEW t \in Threads, Raises(t) PROVE Logged'
  <2>1. rows' = rows /\ returned' = returned /\ (cache' = cache \/ cache' = Nil)
    BY <1>21 DEF Raises, Fail, End
  <2>2. \A u \in Threads : pc'[u] = "store" => got'[u] = Error \/ (pc[u] = "store" /\ got'[u] = got[u])
    BY <1>21, SMT DEF Raises, Fail, End, Types, Sets, TypeOK
  <2>3. \A u \in Threads : kind'[u] \in Plain \cup {"WeatherHistory"} =>
          (kind'[u] = kind[u] /\ before'[u] \subseteq before[u]) \/ before'[u] = {}
    BY <1>21, SMT DEF Raises, Fail, End, Types, Sets, TypeOK, Holds
  <2> QED
    BY <2>1, <2>2, <2>3, <1>n, LoggedKept
<1>22. CASE UNCHANGED vars
  <2>1. rows' = rows /\ returned' = returned /\ (cache' = cache \/ cache' = Nil)
    BY <1>22 DEF vars
  <2>2. \A u \in Threads : pc'[u] = "store" => got'[u] = Error \/ (pc[u] = "store" /\ got'[u] = got[u])
    BY <1>22, SMT DEF vars, Types, Sets, TypeOK
  <2>3. \A u \in Threads : kind'[u] \in Plain \cup {"WeatherHistory"} =>
          (kind'[u] = kind[u] /\ before'[u] \subseteq before[u]) \/ before'[u] = {}
    BY <1>22, SMT DEF vars, Types, Sets, TypeOK, Holds
  <2> QED
    BY <2>1, <2>2, <2>3, <1>n, LoggedKept
<1>23. ASSUME NEW t \in Threads, ServiceReads(t) PROVE Logged'
  <2>1. rows' = rows /\ returned' = returned /\ (cache' = cache \/ cache' = Nil)
    BY <1>23 DEF ServiceReads, At
  <2>2. \A u \in Threads : pc'[u] = "store" => got'[u] = Error \/ (pc[u] = "store" /\ got'[u] = got[u])
    BY <1>23, SMT DEF ServiceReads, At, Types, Sets, TypeOK
  <2>3. \A u \in Threads : kind'[u] \in Plain \cup {"WeatherHistory"} =>
          (kind'[u] = kind[u] /\ before'[u] \subseteq before[u]) \/ before'[u] = {}
    BY <1>23, SMT DEF ServiceReads, At, Types, Sets, TypeOK, Holds
  <2> QED
    BY <2>1, <2>2, <2>3, <1>n, LoggedKept
<1>24. ASSUME NEW t \in Threads, SendError(t) PROVE Logged'
  <2>1. rows' = rows /\ returned' = returned /\ (cache' = cache \/ cache' = Nil)
    BY <1>24 DEF SendError, End
  <2>2. \A u \in Threads : pc'[u] = "store" => got'[u] = Error \/ (pc[u] = "store" /\ got'[u] = got[u])
    BY <1>24, SMT DEF SendError, End, Types, Sets, TypeOK
  <2>3. \A u \in Threads : kind'[u] \in Plain \cup {"WeatherHistory"} =>
          (kind'[u] = kind[u] /\ before'[u] \subseteq before[u]) \/ before'[u] = {}
    BY <1>24, SMT DEF SendError, End, Types, Sets, TypeOK, Holds
  <2> QED
    BY <2>1, <2>2, <2>3, <1>n, LoggedKept
<1> QED
  BY <1>k, <1>1, <1>2, <1>3, <1>4, <1>5, <1>6, <1>7, <1>8, <1>9, <1>10, <1>11, <1>12, <1>13, <1>14, <1>15, <1>16, <1>17, <1>18, <1>19, <1>20, <1>21, <1>22, <1>23, <1>24
  DEF Next, Step, Serve

-----------------------------------------------------------------------------
\* The inductive invariant.
IInv == Types /\ Holds /\ Created /\ Counted /\ Latest /\ Stamps /\ Logged

\* The invariant holds initially.
LEMMA IInvInit == Init => IInv
<1> SUFFICES ASSUME Init PROVE IInv
  OBVIOUS
<1>1. Types /\ Holds
  BY TypesInit
<1>2. Created /\ Counted
  BY SMT DEF Init, Created, Counted, VERSION, OldVersion
<1>3. Latest /\ Stamps /\ Logged
  BY DEF Init, Latest, Stamps, Logged, VERSION, OldVersion
<1> QED
  BY <1>1, <1>2, <1>3 DEF IInv

\* Every step keeps the invariant.
LEMMA IInvNext == IInv /\ [Next]_vars => IInv'
  BY TypesNext, CreatedNext, CountedNext, LatestNext, StampsNext, LoggedNext DEF IInv

\* The invariant holds in every state of every behaviour.
THEOREM IInvAlways == Spec => []IInv
  BY IInvInit, IInvNext, PTL DEF Spec

\* Type correctness: what getWeather returns, what is kept, logged and paged is what
\* the code means it to be.
THEOREM TypeCorrect == Spec => []TypeOK
<1>1. IInv => TypeOK
  BY DEF IInv, Types, Sets
<1> QED
  BY <1>1, IInvAlways, PTL

\* A server that serves finds every table, wherever create_tables was killed before.
THEOREM ServedMeansTablesAlways == Spec => []ServedMeansTables
<1>1. IInv => ServedMeansTables
  BY DEF IInv, Created, ServedMeansTables
<1> QED
  BY <1>1, IInvAlways, PTL

\* get_calls_group's total is never more than its pages hold, for any number of
\* threads that log between the two queries.
THEOREM PagesHoldTotalAlways == Spec => []PagesHoldTotal
<1>1. IInv => PagesHoldTotal
  BY DEF IInv, Counted, PagesHoldTotal
<1> QED
  BY <1>1, IInvAlways, PTL

-----------------------------------------------------------------------------
\* Who may make a thread return from getWeather, or read a history.
Moves(w) ==
  /\ pc[w] \in {"lookup", "store"} /\ pc'[w] \in {"trace", "select"} => Lookup(w) \/ Store(w)
  /\ pc[w] = "select" /\ pc'[w] = "trace" => Select(w)

\* Only its own look-up, store or query.
LEMMA OnlyItself ==
  ASSUME Types, NEW w \in Threads, [Next]_vars
  PROVE  Moves(w)
<1> USE DEF disk, request
<1>k. traffic.kinds \subseteq Kinds /\ traffic.logged \subseteq Plain
  BY HistoryAssumption DEF Types, Sets, TypeOK, Traffic
<1>1. CASE CheckMigrations
  BY <1>1 DEF CheckMigrations, Moves, Types, Sets, TypeOK
<1>2. CASE SetUserVersion
  BY <1>2, SMT DEF SetUserVersion, Moves, Types, Sets, TypeOK
<1>3. CASE Crash
  BY <1>3, SMT DEF Crash, Moves, Types, Sets, TypeOK
<1>4. CASE Tick
  BY <1>4, SMT DEF Tick, Prompt, Moves, Types, Sets, TypeOK
<1>5. ASSUME NEW tab \in Tables, CreateTable(tab) PROVE Moves(w)
  BY <1>5, SMT DEF CreateTable, Moves, Types, Sets, TypeOK
<1>6. ASSUME NEW t \in Threads, NEW k \in Kinds, Begin(t, k) PROVE Moves(w)
  BY <1>6, SMT DEF Begin, At, Moves, Types, Sets, TypeOK
<1>7. ASSUME NEW t \in Threads, NEW tab \in Plain, BeginLog(t, tab) PROVE Moves(w)
  BY <1>7, SMT DEF BeginLog, At, Moves, Types, Sets, TypeOK
<1>8. ASSUME NEW t \in Threads, NEW tab \in Plain, BeginGet(t, tab) PROVE Moves(w)
  BY <1>8, SMT DEF BeginGet, At, Moves, Types, Sets, TypeOK
<1>9. ASSUME NEW t \in Threads, Lookup(t) PROVE Moves(w)
  <2>1. CASE t = w
    BY <1>9, <2>1 DEF Moves, Lookup, At
  <2>2. CASE t # w
    <3>1. pc'[w] = pc[w]
      BY <1>9, <2>2 DEF Lookup, Return, Types, Sets, TypeOK
    <3> QED
      BY <3>1 DEF Moves
  <2> QED
    BY <2>1, <2>2
<1>10. ASSUME NEW t \in Threads, FetchAnswers(t) PROVE Moves(w)
  BY <1>10, SMT DEF FetchAnswers, At, Moves, Types, Sets, TypeOK
<1>11. ASSUME NEW t \in Threads, FetchRaises(t) PROVE Moves(w)
  BY <1>11, SMT DEF FetchRaises, Fail, Moves, Types, Sets, TypeOK
<1>12. ASSUME NEW t \in Threads, LogOutsideTemperature(t) PROVE Moves(w)
  BY <1>12, SMT DEF LogOutsideTemperature, At, Moves, Types, Sets, TypeOK
<1>13. ASSUME NEW t \in Threads, Store(t) PROVE Moves(w)
  <2>1. CASE t = w
    BY <1>13, <2>1 DEF Moves, Store, At
  <2>2. CASE t # w
    <3>1. pc'[w] = pc[w]
      BY <1>13, <2>2 DEF Store, Return, Types, Sets, TypeOK
    <3> QED
      BY <3>1 DEF Moves
  <2> QED
    BY <2>1, <2>2
<1>14. ASSUME NEW t \in Threads, Select(t) PROVE Moves(w)
  <2>1. CASE t = w
    BY <1>14, <2>1 DEF Moves, Select, At
  <2>2. CASE t # w
    <3>1. pc'[w] = pc[w]
      BY <1>14, <2>2 DEF Select, At, Types, Sets, TypeOK
    <3> QED
      BY <3>1 DEF Moves
  <2> QED
    BY <2>1, <2>2
<1>15. ASSUME NEW t \in Threads, Count(t) PROVE Moves(w)
  BY <1>15, SMT DEF Count, At, Moves, Types, Sets, TypeOK
<1>16. ASSUME NEW t \in Threads, Data(t) PROVE Moves(w)
  BY <1>16, SMT DEF Data, At, Moves, Types, Sets, TypeOK
<1>17. ASSUME NEW t \in Threads, StampTrace(t) PROVE Moves(w)
  BY <1>17, SMT DEF StampTrace, At, Moves, Types, Sets, TypeOK
<1>18. ASSUME NEW t \in Threads, SkipTrace(t) PROVE Moves(w)
  BY <1>18, SMT DEF SkipTrace, End, Moves, Types, Sets, TypeOK
<1>19. ASSUME NEW t \in Threads, LogTraces(t) PROVE Moves(w)
  BY <1>19, SMT DEF LogTraces, End, Moves, Types, Sets, TypeOK
<1>20. ASSUME NEW t \in Threads, LogRow(t) PROVE Moves(w)
  BY <1>20, SMT DEF LogRow, End, Moves, Types, Sets, TypeOK
<1>21. ASSUME NEW t \in Threads, Raises(t) PROVE Moves(w)
  BY <1>21, SMT DEF Raises, Fail, End, Moves, Types, Sets, TypeOK
<1>22. CASE UNCHANGED vars
  BY <1>22, SMT DEF vars, Moves, Types, Sets, TypeOK
<1>23. ASSUME NEW t \in Threads, ServiceReads(t) PROVE Moves(w)
  BY <1>23, SMT DEF ServiceReads, At, Moves, Types, Sets, TypeOK
<1>24. ASSUME NEW t \in Threads, SendError(t) PROVE Moves(w)
  BY <1>24, SMT DEF SendError, End, Moves, Types, Sets, TypeOK
<1> QED
  BY <1>k, <1>1, <1>2, <1>3, <1>4, <1>5, <1>6, <1>7, <1>8, <1>9, <1>10, <1>11, <1>12, <1>13, <1>14, <1>15, <1>16, <1>17, <1>18, <1>19, <1>20, <1>21, <1>22, <1>23, <1>24
  DEF Next, Step, Serve

\* getWeather never goes back in time, however many threads ask the service at once
\* and however late one of them is.
THEOREM WeatherForwardAlways == Spec => WeatherForward
<1> DEFINE Forward(t) == /\ pc[t] \in {"lookup", "store"} /\ pc'[t] \in {"trace", "select"}
                         /\ got'[t] # Error
                         => \A old \in returned : old <= got'[t]
<1>1. IInv /\ [Next]_vars => [\A t \in Threads : Forward(t)]_vars
  <2> SUFFICES ASSUME IInv, [Next]_vars, NEW t \in Threads,
                      pc[t] \in {"lookup", "store"}, pc'[t] \in {"trace", "select"}, got'[t] # Error
               PROVE  \A old \in returned : old <= got'[t]
    OBVIOUS
  <2>1. CASE Lookup(t)
    <3>1. Kept /\ got' = [got EXCEPT ![t] = cache.result]
      BY <2>1 DEF Lookup, Return, IInv, Types, Sets, TypeOK
    <3> QED
      BY <3>1 DEF IInv, Latest, Kept, Types, Sets, TypeOK
  <2>2. CASE Store(t)
    <3>1. got' = [got EXCEPT ![t] = cache'.result] /\ pc[t] = "store"
      BY <2>2 DEF Store, Return
    <3>2. CASE Kept
      <4>1. cache' = cache
        BY <2>2, <3>2 DEF Store
      <4> QED
        BY <3>1, <3>2, <4>1 DEF IInv, Latest, Kept, Types, Sets, TypeOK
    <3>3. CASE ~Kept
      <4>1. cache'.result = got[t] /\ got'[t] = got[t]
        BY <2>2, <3>1, <3>3 DEF Store, IInv, Types, TypeOK
      <4>2. Meets(got[t]) /\ got[t] \in Nat
        BY <3>1, <4>1, SMT DEF IInv, Latest, Holds, Types, TypeOK
      <4>3. now \in Nat /\ TTL \in Nat /\ (cache # Nil => cache.stored \in Nat)
        BY HistoryAssumption, SMT DEF IInv, Types, TypeOK
      <4>4. ~(cache # Nil /\ got[t] <= cache.stored)
        BY <3>3, <4>2, <4>3, SMT DEF Kept, Meets
      <4> QED
        BY <4>1, <4>2, <4>4 DEF Meets
    <3> QED
      BY <3>2, <3>3
  <2>3. Moves(t)
    BY OnlyItself DEF IInv
  <2> QED
    BY <2>1, <2>2, <2>3 DEF Moves
<1> QED
  BY <1>1, IInvAlways, PTL DEF Spec, WeatherForward

\* Out of the hour that the clock repeats, the row of a value of the last Window ticks,
\* if the begin of summer time does not hide it, is in the range that ends now.
LEMMA InRange ==
  ASSUME now \in Nat, NEW m \in 0..now, NEW v \in 0..m, v >= now - Window, ~SkippedAway(v),
         now \notin Fold..(Fold + Shift - 1)
  PROVE  Wall(now) - Window <= Wall(m) /\ Wall(m) <= Wall(now)
<1>1. Spring \in Nat /\ Fold \in Nat /\ Shift \in Nat /\ Window \in Nat
  BY HistoryAssumption
<1>2. CASE now < Spring
  BY <1>1, <1>2, SMT DEF Wall
<1>3. CASE Spring <= now /\ now < Fold
  BY <1>1, <1>3, SMT DEF Wall, SkippedAway
<1>4. CASE Spring <= now /\ now >= Fold + Shift
  BY <1>1, <1>4, SMT DEF Wall
<1> QED
  BY <1>1, <1>2, <1>3, <1>4, SMT

\* A history shows what was returned, and every row that was there, before it was
\* asked for: over restarts, for any window and wherever summer time begins and ends,
\* but for the hour its begin hides and the one its end repeats.
THEOREM HistoryShowsAlways == Spec => HistoryShows
<1> DEFINE Shows(t) == /\ pc[t] = "select" /\ pc'[t] = "trace"
                       /\ now \notin Fold..(Fold + Shift - 1)
                       => \A v \in before[t] : v < now - Window \/ SkippedAway(v) \/ v \in page'[t]
<1>1. IInv /\ [Next]_vars => [\A t \in Threads : Shows(t)]_vars
  <2> SUFFICES ASSUME IInv, [Next]_vars, NEW t \in Threads,
                      pc[t] = "select", pc'[t] = "trace",
                      now \notin Fold..(Fold + Shift - 1),
                      NEW v \in before[t], ~(v < now - Window), ~SkippedAway(v)
               PROVE  v \in page'[t]
    OBVIOUS
  <2>1. page' = [page EXCEPT ![t] = Values(TableOf(kind[t]), Wall(now))]
    BY OnlyItself DEF IInv, Moves, Select
  <2>2. PICK r \in rows[TableOf(kind[t])] : r[2] = v
    BY DEF IInv, Logged, Seen, Holds
  <2>3. now \in Nat /\ v \in 0..now /\ v >= now - Window
    <3>1. now \in 0..MaxTime /\ v \in 0..now /\ MaxTime \in Nat /\ Window \in Nat
      BY HistoryAssumption DEF IInv, Types, Sets, TypeOK
    <3> QED
      BY <3>1, SMT
  <2>4. TableOf(kind[t]) \in Tables \ {"web_traces"}
    BY DEF IInv, Holds, TableOf, Plain, Tables
  <2>5. PICK m \in 0..now : v <= m /\ r[1] = Wall(m)
    BY <2>2, <2>4 DEF IInv, Logged, Dated
  <2>6. v \in 0..m
    BY <2>3, <2>5
  <2>7. Wall(now) - Window <= r[1] /\ r[1] <= Wall(now)
    BY <2>3, <2>5, <2>6, InRange
  <2>8. v \in Values(TableOf(kind[t]), Wall(now))
    BY <2>2, <2>7 DEF Values
  <2> QED
    BY <2>1, <2>8 DEF IInv, Types, Sets
<1> QED
  BY <1>1, IInvAlways, PTL DEF Spec, HistoryShows
======================================================================
