----------------------------- MODULE HttpProxy -----------------------------
(***************************************************************************)
(* The HTTP proxy middleware.  Each request runs ProxyMiddleware.__call__  *)
(* on a thread of its own: the URL decides a BEHAVIOUR, which says whether *)
(* the request is repeated to the cloud and whose answer is returned.  All *)
(* threads share one http.client.HTTPConnection per host, kept in the      *)
(* class attribute http_connection for good.  One cloud host is modelled;  *)
(* a request for the box itself bypasses all this (lines 135-155).         *)
(*                                                                         *)
(* HTTPConnection is the standard library's: it refuses a request while    *)
(* one is outstanding (state "sent"), refuses to read an answer while an   *)
(* earlier one is unread, and connect() replaces its socket whatever the   *)
(* state; a thread already reading keeps the old socket.                   *)
(***************************************************************************)
EXTENDS Integers, Sequences

CONSTANTS
  Threads,    \* threads of the WSGI server
  Urls,       \* the URLs asked for
  Served,     \* Urls the local app has a route for
  Weather,    \* those whose local answer asks the weather service
  Table,      \* PROXY_URL_BEHAVIOUR: a sequence of [matches, behaviour]
  MaxReqs,    \* bound: requests served
  MaxFlips,   \* bound: times the internet connection goes down or comes up
  Faults,     \* may a socket fail other than by being reset or closed, and
              \* may the local app or the database raise?
  Nil

BEHAVIOUR == {"REMOTE_FIRST", "LOCAL_FIRST", "REMOTE_IF_MISSING",
              "ONLY_REMOTE", "ONLY_LOCAL"}

ASSUME HttpProxyAssumption ==
  /\ Served \subseteq Urls /\ Weather \subseteq Served
  /\ DOMAIN Table \subseteq Nat
  /\ \A i \in DOMAIN Table : Table[i].behaviour \in BEHAVIOUR
  /\ MaxReqs \in Nat /\ MaxFlips \in Nat
  /\ Faults \in BOOLEAN
  /\ Nil \notin Threads

VARIABLES
  conns,    \* the HTTPConnection objects, the last one is in http_connection:
            \* [state, sock, unread] -- its request state, its socket (0: None),
            \* the thread whose answer it still holds unread
  socks,    \* the sockets, oldest first: the thread whose request is
            \* unanswered on it, or Nil
  up,       \* is there an internet connection
  flips,    \* times it has changed
  pc,       \* where each thread is in __call__
  url,      \* thread -> the URL asked for
  rule,     \* thread -> its local behaviour
  using,    \* thread -> the connection and the socket its getresponse() reads
  got,      \* thread -> the thread whose request body_org answers, or Nil
  served,   \* requests begun
  answer    \* thread -> what its last request was answered with

env  == <<up, flips>>
vars == <<conns, socks, env, pc, url, rule, using, got, served, answer>>

Idle    == [state |-> "idle", sock |-> 0, unread |-> Nil]
current == Len(conns)
conn    == conns[current]

Init ==
  /\ conns = <<>> /\ socks = <<>>
  /\ up \in BOOLEAN
  /\ flips = 0
  /\ pc = [t \in Threads |-> "idle"]
  /\ url = [t \in Threads |-> Nil]
  /\ rule = [t \in Threads |-> "ONLY_LOCAL"]
  /\ using = [t \in Threads |-> <<0, 0>>]
  /\ got = [t \in Threads |-> Nil]
  /\ served = 0
  /\ answer = [t \in Threads |-> "none"]

Goto(t, l) == pc' = [pc EXCEPT ![t] = l]

\* The request ends: a is "local", "remote" or, for an exception, "error".
End(t, a) == Goto(t, "idle") /\ answer' = [answer EXCEPT ![t] = a]

-----------------------------------------------------------------------------
(* Which behaviour.                                                        *)

\* The first entry of the table that matches, in order of insertion.
check_behaviour(u) ==
  LET hits == {i \in DOMAIN Table : u \in Table[i].matches} IN
  IF hits = {} THEN "REMOTE_IF_MISSING"
  ELSE Table[CHOOSE i \in hits : \A j \in hits : i <= j].behaviour

\* The table does not say two things about u.
Certain(u) ==
  \A i, j \in {k \in DOMAIN Table : u \in Table[k].matches} :
    Table[i].behaviour = Table[j].behaviour

\* The table prefers the local app only for what it serves, and sends away only
\* what it does not.
TableFits ==
  \A u \in Urls :
    /\ check_behaviour(u) = "LOCAL_FIRST" => u \in Served
    /\ check_behaviour(u) = "ONLY_REMOTE" => u \notin Served

Begin(t, u) ==
  /\ pc[t] = "idle"
  /\ served < MaxReqs
  /\ served' = served + 1
  /\ url' = [url EXCEPT ![t] = u]
  /\ rule' = [rule EXCEPT ![t] = check_behaviour(u)]
  /\ using' = [using EXCEPT ![t] = <<0, 0>>]
  /\ got' = [got EXCEPT ![t] = Nil]
  /\ answer' = [answer EXCEPT ![t] = "none"]
  /\ Goto(t, IF check_behaviour(u) = "ONLY_LOCAL" THEN "choose" ELSE "lookup")
  /\ UNCHANGED <<conns, socks, env>>

\* http_host not in self.http_connection
LookUp(t) ==
  /\ pc[t] = "lookup"
  /\ Goto(t, IF current = 0 THEN "resolve" ELSE "choose")
  /\ UNCHANGED <<conns, socks, env, url, rule, using, got, served, answer>>

\* Mutant: without DNS the behaviour is kept.
Resolve_KeepsRule(t) ==
  /\ pc[t] = "resolve"
  /\ conns' = IF up THEN Append(conns, Idle) ELSE conns
  /\ Goto(t, "choose")
  /\ UNCHANGED <<socks, env, url, rule, using, got, served, answer>>

\* The upstream DNS is asked: a new HTTPConnection takes the place of any that
\* another thread has stored meanwhile.  Without DNS the request stays local,
\* or fails.
Resolve(t) ==
  /\ pc[t] = "resolve"
  /\ conns' = IF up THEN Append(conns, Idle) ELSE conns
  /\ rule' = [rule EXCEPT ![t] = IF up \/ @ = "ONLY_REMOTE" THEN @ ELSE "ONLY_LOCAL"]
  /\ IF up \/ rule[t] # "ONLY_REMOTE" THEN Goto(t, "choose") /\ UNCHANGED answer
     ELSE End(t, "error")
  /\ UNCHANGED <<socks, env, url, using, got, served>>

\* Mutant: a URL the local app has goes to the cloud and the others stay.
Choose_Swapped(t) ==
  LET r == IF rule[t] # "REMOTE_IF_MISSING" THEN rule[t]
           ELSE IF url[t] \in Served THEN "ONLY_REMOTE" ELSE "LOCAL_FIRST" IN
  /\ pc[t] = "choose"
  /\ rule' = [rule EXCEPT ![t] = r]
  /\ Goto(t, IF r = "ONLY_LOCAL" THEN "app" ELSE "connect")
  /\ UNCHANGED <<conns, socks, env, url, using, got, served, answer>>

\* REMOTE_IF_MISSING is settled by check_path_exists.
Choose(t) ==
  LET r == IF rule[t] # "REMOTE_IF_MISSING" THEN rule[t]
           ELSE IF url[t] \in Served THEN "LOCAL_FIRST" ELSE "ONLY_REMOTE" IN
  /\ pc[t] = "choose"
  /\ rule' = [rule EXCEPT ![t] = r]
  /\ Goto(t, IF r = "ONLY_LOCAL" THEN "app" ELSE "connect")
  /\ UNCHANGED <<conns, socks, env, url, using, got, served, answer>>

-----------------------------------------------------------------------------
(* The call to the cloud.                                                  *)

\* self.http_connection[http_host].connect(): a new socket, on which nothing
\* has been asked, or an exception.
Connect(t) ==
  /\ pc[t] = "connect"
  /\ IF up
     THEN /\ socks' = Append(socks, Nil)
          /\ conns' = [conns EXCEPT ![current] = [conn EXCEPT !.sock = Len(socks')]]
          /\ Goto(t, "request")
          /\ UNCHANGED answer
     ELSE End(t, "error") /\ UNCHANGED <<conns, socks>>
  /\ UNCHANGED <<env, url, rule, using, got, served>>

\* The connection takes t's request and sends it, on a new socket if another
\* thread has closed its own (auto_open).
SendRequest(t) ==
  LET s == IF conn.sock = 0 THEN Len(socks) + 1 ELSE conn.sock IN
  /\ conns' = [conns EXCEPT ![current] = [conn EXCEPT !.state = "sent", !.sock = s]]
  /\ socks' = IF s > Len(socks) THEN Append(socks, t)
              ELSE [socks EXCEPT ![s] = t]
  /\ Goto(t, "response")
  /\ UNCHANGED answer

\* Mutant: the connection's state is not looked at.
Request_Unchecked(t) ==
  /\ pc[t] = "request"
  /\ SendRequest(t)
  /\ UNCHANGED <<env, url, rule, using, got, served>>

\* Mutant: a thread waits until no other has a request outstanding.
Request_Waits(t) ==
  /\ pc[t] = "request"
  /\ conn.state = "idle" /\ (up \/ conn.sock # 0)
  /\ SendRequest(t)
  /\ UNCHANGED <<env, url, rule, using, got, served>>

\* .request(...): CannotSendRequest unless the connection is idle.  A send that
\* fails leaves the connection in state "sent".
Request(t) ==
  /\ pc[t] = "request"
  /\ \/ conn.state = "idle" /\ (up \/ conn.sock # 0) /\ SendRequest(t)
     \/ /\ conn.state = "idle"
        /\ Faults \/ (~up /\ conn.sock = 0)
        /\ conns' = [conns EXCEPT ![current] = [conn EXCEPT !.state = "sent"]]
        /\ End(t, "error")
        /\ UNCHANGED socks
     \/ /\ conn.state # "idle"
        /\ End(t, "error")
        /\ UNCHANGED <<conns, socks>>
  /\ UNCHANGED <<env, url, rule, using, got, served>>

\* .getresponse() is refused (ResponseNotReady; no socket: AttributeError) or
\* starts to read the connection's socket of this moment.
GetResponse(t) ==
  /\ pc[t] = "response"
  /\ IF conn.state # "sent" \/ conn.unread # Nil \/ conn.sock = 0
     THEN End(t, "error") /\ UNCHANGED using
     ELSE /\ using' = [using EXCEPT ![t] = <<current, conn.sock>>]
          /\ Goto(t, "wait")
          /\ UNCHANGED answer
  /\ UNCHANGED <<conns, socks, env, url, rule, got, served>>

\* HTTPConnection.close() of connection c: an unread answer it holds is lost.
\* g is what got becomes otherwise.
Close(c, g) ==
  /\ conns' = [conns EXCEPT ![c] = Idle]
  /\ got' = [t \in Threads |-> IF conns[c].unread = t THEN Nil ELSE g[t]]

\* The answer to the request outstanding on the socket arrives; the cloud keeps
\* the connection open or closes it after this answer.
Response(t) ==
  LET c == using[t][1]
      s == using[t][2] IN
  /\ pc[t] = "wait"
  /\ up /\ socks[s] # Nil
  /\ socks' = [socks EXCEPT ![s] = Nil]
  /\ LET g == [got EXCEPT ![t] = socks[s]] IN
     \/ /\ conns' = [conns EXCEPT ![c] = [conns[c] EXCEPT !.state = "idle", !.unread = t]]
        /\ got' = g
     \/ Close(c, g)
  /\ Goto(t, "read")
  /\ UNCHANGED <<env, url, rule, using, served, answer>>

\* The cloud resets the socket, or closes one on which nothing is asked: a
\* ConnectionError, on which http.client closes the connection.
Reset(t) ==
  /\ pc[t] = "wait"
  /\ Close(using[t][1], got)
  /\ End(t, "error")
  /\ UNCHANGED <<socks, env, url, rule, using, served>>

\* The internet connection is lost and TCP gives up: a TimeoutError is no
\* ConnectionError, and the connection's state stays what it was.
TimeOut(t) ==
  /\ pc[t] = "wait"
  /\ Faults /\ ~up
  /\ End(t, "error")
  /\ UNCHANGED <<conns, socks, env, url, rule, using, got, served>>

\* body_org = resp_org.read().  When it raises, the response is left unread on
\* the connection (a reset or a timeout) or closed (IncompleteRead).
ReadBody(t) ==
  LET c == using[t][1]
      Leave == UNCHANGED conns
      Take  == conns' = IF conns[c].unread = t
                        THEN [conns EXCEPT ![c] = [conns[c] EXCEPT !.unread = Nil]]
                        ELSE conns IN
  /\ pc[t] = "read"
  /\ \/ Take /\ Goto(t, "app") /\ UNCHANGED answer
     \/ Faults /\ (Take \/ Leave) /\ End(t, "error")
  /\ UNCHANGED <<socks, env, url, rule, using, got, served>>

\* The local app runs, whatever the behaviour; its answer or the cloud's is
\* returned.  The app or log_unknown_api may raise.  (What is logged is left out.)
App(t) ==
  /\ pc[t] = "app"
  /\ \/ End(t, IF rule[t] \in {"REMOTE_FIRST", "ONLY_REMOTE"} THEN "remote" ELSE "local")
     \/ Faults /\ End(t, "error")
  /\ UNCHANGED <<conns, socks, env, url, rule, using, got, served>>

\* The internet connection goes down or comes back.
Flip ==
  /\ flips < MaxFlips
  /\ flips' = flips + 1
  /\ up' = ~up
  /\ UNCHANGED <<conns, socks, pc, url, rule, using, got, served, answer>>

-----------------------------------------------------------------------------

\* What a thread does by itself, and what it waits for: neither the connection
\* to the cloud nor the request to the weather service has a timeout.
Runs(t) ==
  \/ LookUp(t) \/ Resolve(t) \/ Choose(t) \/ Connect(t) \/ Request(t)
  \/ GetResponse(t)
  \/ url[t] \notin Weather /\ App(t)

Waits(t) ==
  \/ Response(t) \/ Reset(t) \/ TimeOut(t) \/ ReadBody(t)
  \/ url[t] \in Weather /\ App(t)

Next ==
  \/ \E t \in Threads : Runs(t) \/ Waits(t) \/ \E u \in Urls : Begin(t, u)
  \/ Flip

\* A thread runs on; no answer need ever come.
Spec == Init /\ [][Next]_vars /\ \A t \in Threads : WF_vars(Runs(t))

-----------------------------------------------------------------------------
(* Properties.                                                             *)

\* Where each variable ranges; a thread that talks to the cloud finds a
\* connection stored, and what it reads from exists.
TypeOK ==
  /\ conns \in Seq([state : {"idle", "sent"}, sock : 0..Len(socks),
                    unread : Threads \cup {Nil}])
  /\ socks \in Seq(Threads \cup {Nil})
  /\ up \in BOOLEAN /\ flips \in 0..MaxFlips
  /\ pc \in [Threads -> {"idle", "lookup", "resolve", "choose", "connect",
                         "request", "response", "wait", "read", "app"}]
  /\ url \in [Threads -> Urls \cup {Nil}]
  /\ rule \in [Threads -> BEHAVIOUR]
  /\ got \in [Threads -> Threads \cup {Nil}]
  /\ served \in 0..MaxReqs
  /\ answer \in [Threads -> {"none", "local", "remote", "error"}]
  /\ \A t \in Threads :
       /\ pc[t] \in {"connect", "request", "response"} => current > 0
       /\ pc[t] \in {"wait", "read"} =>
            using[t] \in (DOMAIN conns) \X (DOMAIN socks)

Answered(t, a) == pc[t] = "idle" /\ answer[t] = a

\* However the threads share the connection object, a request that is answered
\* from the cloud is answered with the cloud's answer to that very request, as
\* long as only one object was ever stored.
OwnAnswer ==
  current <= 1 => \A t \in Threads : Answered(t, "remote") => got[t] = t

\* Who answers, where the table says one thing: a URL that the local app has not
\* is answered by the cloud if the cloud was asked, and one that it has by the
\* app, except under REMOTE_FIRST; for an ONLY_LOCAL one the cloud is not asked.
\* (For the outside temperature with a location, lines 96-99 add a second entry,
\* which is never reached: nothing is said about who should answer that.)
RightSide ==
  \A t \in Threads : Certain(url[t]) =>
    /\ Answered(t, "local") /\ url[t] \notin Served => using[t] = <<0, 0>>
    /\ Answered(t, "remote") /\ url[t] \in Served =>
         check_behaviour(url[t]) = "REMOTE_FIRST"
    /\ using[t] # <<0, 0>> => check_behaviour(url[t]) # "ONLY_LOCAL"

\* When no thread is using the connection the next one can.
Usable ==
  (\A t \in Threads : pc[t] \notin {"response", "wait", "read"}) /\ current > 0 =>
    conn.state = "idle" /\ conn.unread = Nil

\* A thread is held up for good only where it waits for the cloud (lines 231 and
\* 234) or for the weather service: never by another thread that hangs there with
\* the connection they share.
OnlyServersHang ==
  \A t \in Threads :
    []<>(pc[t] \in {"idle", "wait", "read"} \/ (pc[t] = "app" /\ url[t] \in Weather))
=============================================================================
