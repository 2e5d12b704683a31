----------------------------- MODULE MCHistory -----------------------------
(* Small instances of History for TLC. *)
EXTENDS History, TLC
CONSTANTS t1, t2

\* The weather and its history; the calls; the datagrams.
Weathers == [kinds |-> {"Weather", "WeatherHistory"}, logged |-> {}, traced |-> {}]
Calls == [kinds |-> {"CallHistory"}, logged |-> {}, traced |-> {"CallHistory"}]
Datagrams == [kinds |-> {}, logged |-> {"unknown_udp"}, traced |-> {}]
WeatherCallsDatagrams == {Weathers, Calls, Datagrams}
=============================================================================
