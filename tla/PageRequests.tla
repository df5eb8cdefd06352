---------------------------- MODULE PageRequests ----------------------------
(***************************************************************************)
(* The scripts of the page: static/js/websocket.js keeps a WebSocket open  *)
(* and matches answers to requests, static/js/main.js asks for logs and    *)
(* statistics over it and falls back on HTTP.                              *)
(*                                                                         *)
(* The browser runs one task at a time, a task with the continuations of   *)
(* the promises it settles is one action, and tasks of different sources   *)
(* (timers, the network, the user) come in any order.  An open socket      *)
(* leaves readyState OPEN before its close event is dispatched.  Answers   *)
(* of one socket arrive in order; the server may give none (see            *)
(* EpollServer), and after a loss of the connection none arrives.          *)
(*                                                                         *)
(* The names that every specification has begin with Page here, so that    *)
(* one module can extend this one and WebSocketApi, the other end.         *)
(***************************************************************************)
EXTENDS Integers, Sequences, FiniteSets

CONSTANTS
  MaxCalls,     \* bounds the calls of the functions of main.js
  MaxOpens,     \* how often the server lets the page connect
  MaxAttempts,  \* maxReconnectAttempts
  Kinds         \* the functions that are called

ASSUME PageAssumption ==
  /\ MaxCalls \in Nat /\ MaxOpens \in Nat /\ MaxAttempts \in Nat
  /\ Kinds \subseteq {"fetchLogs", "fetchStats", "downloadLogFile",
                      "clearLogs", "filterLogsByLevel"}

Calls == 1..MaxCalls
Sockets == 1..(1 + MaxAttempts * (MaxOpens + 1))
NoCall == 0

VARIABLES
  ready,        \* readyState of each socket; "lost": CLOSED is yet to be told
  websocket,    \* the socket the variable holds
  isConnected,
  reconnectAttempts,
  reconnects,   \* timers that will call initWebSocket
  opens,        \* how often a socket was opened
  requests,     \* per socket: what the server has not read yet
  responses,    \* per socket: what the page has not read yet
  requestIdCounter,
  pendingRequests,  \* the call behind a requestId
  timers,       \* timeouts of requests: <<requestId, call>>
  stage,        \* where each call is
  kind,         \* which function it runs
  got,          \* the call whose answer it was given
  shown         \* the call that filled or cleared the table last

socketVars == <<ready, websocket, isConnected, reconnectAttempts, reconnects,
                opens>>
netVars == <<requests, responses>>
mapVars == <<requestIdCounter, pendingRequests, timers>>
callVars == <<stage, kind, got, shown>>
pageVars == <<socketVars, netVars, mapVars, callVars>>

Live == {"connecting", "open"}
IsOpen == ready[websocket] = "open"
Unset == [id \in {} |-> NoCall]
Put(f, id, c) == [i \in DOMAIN f \cup {id} |-> IF i = id THEN c ELSE f[i]]
Delete(f, id) == [i \in DOMAIN f \ {id} |-> f[i]]

PageInit ==
  /\ ready = [s \in Sockets |-> IF s = 1 THEN "connecting" ELSE "none"]
  /\ websocket = 1
  /\ isConnected = FALSE
  /\ reconnectAttempts = 0 /\ reconnects = 0 /\ opens = 0
  /\ requests = [s \in Sockets |-> <<>>]
  /\ responses = [s \in Sockets |-> <<>>]
  /\ requestIdCounter = 0 /\ pendingRequests = Unset /\ timers = {}
  /\ stage = [c \in Calls |-> "idle"]
  /\ kind = [c \in Calls |-> "none"]
  /\ got = [c \in Calls |-> NoCall]
  /\ shown = NoCall

-----------------------------------------------------------------------------
(* websocket.js: the socket and its reconnection *)

OnOpen(s) ==
  /\ ready[s] = "connecting" /\ opens < MaxOpens
  /\ ready' = [ready EXCEPT ![s] = "open"]
  /\ opens' = opens + 1
  /\ isConnected' = TRUE
  /\ reconnectAttempts' = 0
  /\ UNCHANGED <<websocket, reconnects, netVars, mapVars, callVars>>

\* The connection breaks or cannot be made.
Lose(s) ==
  /\ ready[s] \in Live
  /\ ready' = [ready EXCEPT ![s] = "lost"]
  /\ requests' = [requests EXCEPT ![s] = <<>>]
  /\ responses' = [responses EXCEPT ![s] = <<>>]
  /\ UNCHANGED <<websocket, isConnected, reconnectAttempts, reconnects, opens,
                 mapVars, callVars>>

\* Variant: only a connection that was open is made again.
AttemptReconnect_OnlyOpened ==
  IF isConnected /\ reconnectAttempts < MaxAttempts
    THEN /\ reconnectAttempts' = reconnectAttempts + 1
         /\ reconnects' = reconnects + 1
    ELSE UNCHANGED <<reconnectAttempts, reconnects>>

\* attemptReconnect: setTimeout, or the page gives up.
AttemptReconnect ==
  IF reconnectAttempts < MaxAttempts
    THEN /\ reconnectAttempts' = reconnectAttempts + 1
         /\ reconnects' = reconnects + 1
    ELSE UNCHANGED <<reconnectAttempts, reconnects>>

\* Variant: onerror reconnects as well.
OnClose_OnErrorToo(s) ==
  /\ ready[s] = "lost"
  /\ ready' = [ready EXCEPT ![s] = "closed"]
  /\ isConnected' = FALSE
  /\ IF reconnectAttempts + 1 < MaxAttempts
       THEN /\ reconnectAttempts' = reconnectAttempts + 2
            /\ reconnects' = reconnects + 2
       ELSE AttemptReconnect
  /\ UNCHANGED <<websocket, opens, netVars, mapVars, callVars>>

\* onerror, which only shows the error, and onclose.
OnClose(s) ==
  /\ ready[s] = "lost"
  /\ ready' = [ready EXCEPT ![s] = "closed"]
  /\ isConnected' = FALSE
  /\ AttemptReconnect
  /\ UNCHANGED <<websocket, opens, netVars, mapVars, callVars>>

\* Variant: each socket begins with its first requestId.
InitWebSocket_ResetsIds(s) ==
  /\ reconnects > 0
  /\ ready[s] = "none" /\ \A r \in Sockets : r < s => ready[r] # "none"
  /\ reconnects' = reconnects - 1
  /\ ready' = [ready EXCEPT ![s] = "connecting"]
  /\ websocket' = s
  /\ requestIdCounter' = 0
  /\ UNCHANGED <<isConnected, reconnectAttempts, opens, netVars,
                 pendingRequests, timers, callVars>>

\* The timer of attemptReconnect calls initWebSocket.
InitWebSocket(s) ==
  /\ reconnects > 0
  /\ ready[s] = "none" /\ \A r \in Sockets : r < s => ready[r] # "none"
  /\ reconnects' = reconnects - 1
  /\ ready' = [ready EXCEPT ![s] = "connecting"]
  /\ websocket' = s
  /\ UNCHANGED <<isConnected, reconnectAttempts, opens, netVars, mapVars,
                 callVars>>

-----------------------------------------------------------------------------
(* websocket.js and main.js: requests *)

\* sendWebSocketRequest on an open socket.
SendRequest(c) ==
  LET id == requestIdCounter + 1
  IN  /\ requestIdCounter' = id
      /\ timers' = timers \cup {<<id, c>>}
      /\ pendingRequests' = Put(pendingRequests, id, c)
      /\ requests' = [requests EXCEPT ![websocket] = Append(@, <<id, c>>)]
      /\ UNCHANGED responses

Table == {"fetchLogs", "clearLogs", "filterLogsByLevel"}
Shows(c, k) == shown' = IF k \in Table THEN c ELSE shown

\* What a function does that has no answer over the WebSocket: fetchLogs,
\* fetchStats and downloadLogFile ask by HTTP, the others show the error.
FallsBack(k) ==
  IF k \in {"fetchLogs", "fetchStats", "downloadLogFile"} THEN "http" ELSE "ended"

\* The page or the user calls a function.
Call(c, k) ==
  /\ stage[c] = "idle" /\ \A d \in Calls : d < c => stage[d] # "idle"
  /\ kind' = [kind EXCEPT ![c] = k]
  /\ \/ /\ isConnected /\ IsOpen
        /\ stage' = [stage EXCEPT ![c] = "ws"]
        /\ SendRequest(c)
        /\ UNCHANGED shown
     \/ /\ isConnected /\ ~IsOpen
        /\ stage' = [stage EXCEPT ![c] = FallsBack(k)]
        /\ UNCHANGED <<shown, netVars, mapVars>>
     \/ /\ ~isConnected
        /\ stage' = [stage EXCEPT ![c] = FallsBack(k)]
        /\ IF k = "clearLogs" THEN shown' = c ELSE UNCHANGED shown
        /\ UNCHANGED <<netVars, mapVars>>
  /\ UNCHANGED <<socketVars, got>>

\* reject: the catch of the function.
Reject(c) ==
  /\ stage' = [stage EXCEPT ![c] = FallsBack(kind[c])]
  /\ UNCHANGED <<kind, got, shown>>

\* resolve: the function shows what the answer to d says.
Resolve(c, d) ==
  /\ stage' = [stage EXCEPT ![c] = "ended"]
  /\ got' = [got EXCEPT ![c] = d]
  /\ Shows(c, kind[c])
  /\ UNCHANGED kind

\* Variant: an answer is taken for the one to the oldest request.
OnMessage_Oldest(s) ==
  /\ ready[s] = "open" /\ responses[s] # <<>>
  /\ IF DOMAIN pendingRequests # {}
       THEN LET ids == DOMAIN pendingRequests
                id == CHOOSE i \in ids : \A j \in ids : i <= j
                c == pendingRequests[id]
            IN  /\ timers' = timers \ {<<id, c>>}
                /\ pendingRequests' = Delete(pendingRequests, id)
                /\ IF Head(responses[s]).success
                     THEN Resolve(c, Head(responses[s]).call) ELSE Reject(c)
       ELSE UNCHANGED <<pendingRequests, timers, callVars>>
  /\ responses' = [responses EXCEPT ![s] = Tail(@)]
  /\ UNCHANGED <<socketVars, requests, requestIdCounter>>

\* handleWebSocketMessage with a response.
OnMessage(s) ==
  /\ ready[s] = "open" /\ responses[s] # <<>>
  /\ LET answer == Head(responses[s])
     IN  IF answer.id \in DOMAIN pendingRequests
           THEN LET c == pendingRequests[answer.id]
                IN  /\ timers' = timers \ {<<answer.id, c>>}
                    /\ pendingRequests' = Delete(pendingRequests, answer.id)
                    /\ IF answer.success THEN Resolve(c, answer.call)
                                         ELSE Reject(c)
           ELSE UNCHANGED <<pendingRequests, timers, callVars>>
  /\ responses' = [responses EXCEPT ![s] = Tail(@)]
  /\ UNCHANGED <<socketVars, requests, requestIdCounter>>

\* Variant: the request is forgotten and its promise left as it is.
TimeOut_Silent(id, c) ==
  /\ <<id, c>> \in timers
  /\ timers' = timers \ {<<id, c>>}
  /\ pendingRequests' = Delete(pendingRequests, id)
  /\ UNCHANGED <<socketVars, netVars, requestIdCounter, callVars>>

\* The timeout of a request.
TimeOut(id, c) ==
  /\ <<id, c>> \in timers
  /\ timers' = timers \ {<<id, c>>}
  /\ IF id \in DOMAIN pendingRequests
       THEN pendingRequests' = Delete(pendingRequests, id) /\ Reject(c)
       ELSE UNCHANGED <<pendingRequests, callVars>>
  /\ UNCHANGED <<socketVars, netVars, requestIdCounter>>

\* fetch has an answer, or fails.
HttpAnswer(c) ==
  /\ stage[c] = "http"
  /\ Resolve(c, c)
  /\ UNCHANGED <<socketVars, netVars, mapVars>>

HttpFails(c) ==
  /\ stage[c] = "http"
  /\ stage' = [stage EXCEPT ![c] = "ended"]
  /\ UNCHANGED <<socketVars, netVars, mapVars, kind, got, shown>>

-----------------------------------------------------------------------------
(* The server: handleWebSocketRequest.  It does not know clear_logs. *)

Reply(s, ok) ==
  /\ requests[s] # <<>>
  /\ LET request == Head(requests[s])
     IN  /\ ok => kind[request[2]] # "clearLogs"
         /\ responses' = [responses EXCEPT ![s] =
              Append(@, [id |-> request[1], call |-> request[2], success |-> ok])]
  /\ requests' = [requests EXCEPT ![s] = Tail(@)]
  /\ UNCHANGED <<socketVars, mapVars, callVars>>

\* The frame is dropped.
NoReply(s) ==
  /\ requests[s] # <<>>
  /\ requests' = [requests EXCEPT ![s] = Tail(@)]
  /\ UNCHANGED <<socketVars, responses, mapVars, callVars>>

-----------------------------------------------------------------------------
SocketStep(s) == OnClose(s) \/ InitWebSocket(s)
HttpEnds(c) == HttpAnswer(c) \/ HttpFails(c)

PageNext ==
  \/ \E s \in Sockets :
       \/ OnOpen(s) \/ Lose(s) \/ SocketStep(s) \/ OnMessage(s)
       \/ \E ok \in BOOLEAN : Reply(s, ok)
       \/ NoReply(s)
  \/ \E c \in Calls :
       (\E k \in Kinds : Call(c, k)) \/ HttpEnds(c)
  \/ \E t \in timers : TimeOut(t[1], t[2])

PageSpec == PageInit /\ [][PageNext]_pageVars

Fairness ==
  /\ WF_pageVars(\E s \in Sockets : SocketStep(s))
  /\ WF_pageVars(\E t \in timers : TimeOut(t[1], t[2]))
  /\ \A c \in Calls : WF_pageVars(HttpEnds(c))

FairSpec == PageSpec /\ Fairness

-----------------------------------------------------------------------------
PageTypeOK ==
  /\ ready \in [Sockets -> Live \cup {"none", "lost", "closed"}]
  /\ websocket \in Sockets
  /\ isConnected \in BOOLEAN
  /\ reconnectAttempts \in 0..MaxAttempts
  /\ reconnects \in Nat /\ opens \in 0..MaxOpens
  /\ requests \in [Sockets -> Seq((Nat \ {0}) \X Calls)]
  /\ responses \in [Sockets -> Seq([id : Nat \ {0}, call : Calls,
                                  success : BOOLEAN])]
  /\ requestIdCounter \in Nat
  /\ DOMAIN pendingRequests \subseteq 1..requestIdCounter
  /\ \A id \in DOMAIN pendingRequests : pendingRequests[id] \in Calls
  /\ timers \subseteq (1..requestIdCounter) \X Calls
  /\ stage \in [Calls -> {"idle", "ws", "http", "ended"}]
  /\ kind \in [Calls -> Kinds \cup {"none"}]
  /\ got \in [Calls -> Calls \cup {NoCall}]
  /\ shown \in Calls \cup {NoCall}

\* A call is given the answer to its own request, although answers may be
\* late, missing, or lost with their socket.
AnswersMatch == \A c \in Calls : got[c] \in {NoCall, c}

\* A call that awaits an answer is in pendingRequests and has a timeout that
\* is still to come, also after its socket is gone.
AwaitedIsPending == \A c \in Calls : stage[c] = "ws" =>
  \E id \in DOMAIN pendingRequests :
    pendingRequests[id] = c /\ <<id, c>> \in timers

\* The page never has two connections, nor a connection and a timer that
\* will make another, and uses the one it has.
OneConnection ==
  LET used == {s \in Sockets : ready[s] \in Live \cup {"lost"}}
  IN  /\ Cardinality(used) + reconnects <= 1
      /\ used \subseteq {websocket}

\* Every call ends, whatever becomes of the socket: the timeouts see to it.
EveryCallEnds == \A c \in Calls : stage[c] = "ws" ~> stage[c] = "ended"

\* A page without a connection tries to connect again, until it has tried
\* maxReconnectAttempts times in a row.
ReconnectsOrGivesUp ==
  (\A s \in Sockets : ready[s] \notin Live) ~>
    ((\E s \in Sockets : ready[s] \in Live) \/ reconnectAttempts = MaxAttempts)

\* What the table shows is never older than what it showed.
NeverGoesBack == [][shown' >= shown]_pageVars

\* main.js: clearLogs empties the table ("清空本地显示").
ClearClears == \A c \in Calls :
  (stage[c] = "ended" /\ kind[c] = "clearLogs") => shown >= c

=============================================================================
