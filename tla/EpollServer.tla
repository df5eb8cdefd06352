----------------------------- MODULE EpollServer -----------------------------
(***************************************************************************)
(* EpollServer.cpp with SessionManager.cpp, as WebSocketServer.cpp runs    *)
(* it: one thread takes a batch of ready descriptors from epoll_wait and   *)
(* handles them, while clients connect, send and hang up at any time.      *)
(* One recv is taken for one request or one frame, so the model keeps the  *)
(* byte stream: a message is two pieces, and a recv returns any number of  *)
(* the pieces that have been sent.  The sockets block (Sock.hpp), so the   *)
(* one thread waits in a send until the client has read enough or is gone. *)
(*                                                                         *)
(* A descriptor is a number and is used again; a connection is not.  What  *)
(* the handlers answer is left out, whether they throw is not; of a        *)
(* session only its owner is kept, the byte and message counts are not.    *)
(***************************************************************************)
EXTENDS Integers, Sequences

CONSTANTS Conns,     \* the connections clients make
          Fds,       \* descriptors the kernel has for them
          MaxSent,   \* bound on the messages of each connection
          Lengths    \* payload lengths of text frames

None == "none"

ASSUME EpollAssumption ==
  /\ None \notin Conns
  /\ Fds \subseteq Nat \ {0} /\ Fds # {}
  /\ MaxSent \in [Conns -> Nat]
  /\ Lengths \subseteq Nat

ListenFd == 0
Requests == {"page", "noNumber", "upgrade", "keyless"}
Frames == {"text", "ping", "close"}
Messages == [kind : Requests \cup Frames, len : Lengths \cup {0}, no : Nat]

VARIABLES
  phase,     \* the client's side: "new", "open" or "closed"
  waiting,   \* the client waits for an answer before it sends again
  reading,   \* the client receives what the server sends
  upgraded,  \* "101 Switching Protocols" has been sent to the client
  sent,      \* number of messages the client has sent
  stream,    \* the pieces the server has not received: <<message, 1 or 2>>
  backlog,   \* connections to be accepted
  conn,      \* the connection behind each descriptor of the server
  sessions,  \* SessionManager::_sessions, by descriptor: whose it is
  ws,        \* _wsConnections
  batch,     \* the descriptors of this round not handled yet
  sending,   \* the send that blocks: its descriptor and what comes after it
  alive,     \* the server process runs
  handled    \* numbers of the text frames given to _wsHandler

vars == <<phase, waiting, reading, upgraded, sent, stream, backlog, conn, sessions,
          ws, batch, sending, alive, handled>>

client == <<phase, waiting, reading, upgraded, sent>>
tables == <<conn, sessions, ws>>

Elems(s) == {s[i] : i \in 1..Len(s)}
Without(f, x) == [y \in DOMAIN f \ {x} |-> f[y]]
With(f, x, v) == [y \in DOMAIN f \cup {x} |-> IF y = x THEN v ELSE f[y]]

Init ==
  /\ phase = [c \in Conns |-> "new"]
  /\ waiting = [c \in Conns |-> FALSE]
  /\ reading = [c \in Conns |-> TRUE]
  /\ upgraded = [c \in Conns |-> FALSE]
  /\ sent = [c \in Conns |-> 0]
  /\ stream = [c \in Conns |-> <<>>]
  /\ handled = [c \in Conns |-> <<>>]
  /\ backlog = <<>>
  /\ conn = [f \in Fds |-> None]
  /\ sessions = [f \in {} |-> None]
  /\ ws = {} /\ batch = {} /\ sending = {}
  /\ alive = TRUE

-----------------------------------------------------------------------------
(* The clients: a browser sends frames only after the answer to its upgrade. *)

Connect(c) ==
  /\ alive /\ phase[c] = "new"
  /\ phase' = [phase EXCEPT ![c] = "open"]
  /\ backlog' = Append(backlog, c)
  /\ UNCHANGED <<waiting, reading, upgraded, sent, stream, tables, batch, sending, alive, handled>>

Send(c, kind, len) ==
  LET m == [kind |-> kind, len |-> len, no |-> sent[c] + 1] IN
  /\ alive /\ phase[c] = "open" /\ ~waiting[c]
  /\ sent[c] < MaxSent[c]
  /\ sent' = [sent EXCEPT ![c] = @ + 1]
  /\ stream' = [stream EXCEPT ![c] = @ \o <<<<m, 1>>, <<m, 2>>>>]
  /\ UNCHANGED <<phase, reading, upgraded, backlog, tables, batch, sending, alive, handled>>

SendRequest(c, kind) ==
  /\ ~upgraded[c]
  /\ Send(c, kind, 0)
  /\ waiting' = [waiting EXCEPT ![c] = TRUE]

\* After its close frame a client sends nothing more.
SendFrame(c, kind, len) ==
  /\ upgraded[c]
  /\ kind = "text" \/ len = 0
  /\ Send(c, kind, len)
  /\ waiting' = [waiting EXCEPT ![c] = (kind = "close")]

\* An orderly end leaves what was sent to be received, a reset does not.
HangUp(c) ==
  /\ phase[c] = "open"
  /\ phase' = [phase EXCEPT ![c] = "closed"]
  /\ stream' \in {stream, [stream EXCEPT ![c] = <<>>]}
  /\ UNCHANGED <<waiting, reading, upgraded, sent, backlog, tables, batch, sending, alive,
                 handled>>

\* The client stays connected and reads no more; one that only reads slowly
\* makes the server's step take longer.
StopReading(c) ==
  /\ phase[c] = "open" /\ reading[c]
  /\ reading' = [reading EXCEPT ![c] = FALSE]
  /\ UNCHANGED <<phase, waiting, upgraded, sent, stream, backlog, tables, batch, sending,
                 alive, handled>>

-----------------------------------------------------------------------------
(* ServerStart and the accepting half of HandleEvents *)

Ready ==
  (IF backlog # <<>> THEN {ListenFd} ELSE {})
    \cup {f \in Fds : conn[f] # None /\ (stream[conn[f]] # <<>> \/ phase[conn[f]] = "closed")}

EpollWait ==
  /\ alive /\ sending = {} /\ batch = {} /\ Ready # {}
  /\ batch' = Ready
  /\ UNCHANGED <<client, stream, backlog, tables, sending, alive, handled>>

\* The events of a batch come in any order, each descriptor once.
Turn(f) == alive /\ sending = {} /\ f \in batch

Handle(f) ==
  /\ Turn(f)
  /\ batch' = batch \ {f}

\* The kernel gives the lowest free descriptor.
LowestFree(f) ==
  /\ conn[f] = None
  /\ \A g \in Fds : conn[g] = None => f <= g

\* Mutant: the session is recorded for whoever had the descriptor.
Accept_OldOwner ==
  /\ Handle(ListenFd)
  /\ \E f \in Fds :
       /\ LowestFree(f)
       /\ conn' = [conn EXCEPT ![f] = Head(backlog)]
       /\ sessions' = With(sessions, f, conn[f])
  /\ backlog' = Tail(backlog)
  /\ UNCHANGED <<client, stream, ws, sending, alive, handled>>

\* Mutant: addSession does not replace a session that is there.
Accept_KeepsSession ==
  /\ Handle(ListenFd)
  /\ \E f \in Fds :
       /\ LowestFree(f)
       /\ conn' = [conn EXCEPT ![f] = Head(backlog)]
       /\ sessions' = IF f \in DOMAIN sessions THEN sessions
                      ELSE With(sessions, f, Head(backlog))
  /\ backlog' = Tail(backlog)
  /\ UNCHANGED <<client, stream, ws, sending, alive, handled>>

Accept ==
  /\ Handle(ListenFd)
  /\ \E f \in Fds :
       /\ LowestFree(f)
       /\ conn' = [conn EXCEPT ![f] = Head(backlog)]
       /\ sessions' = With(sessions, f, Head(backlog))
  /\ backlog' = Tail(backlog)
  /\ UNCHANGED <<client, stream, ws, sending, alive, handled>>

\* The server closes its end; the client sees it.
Gone(c) ==
  /\ phase' = [phase EXCEPT ![c] = "closed"]
  /\ stream' = [stream EXCEPT ![c] = <<>>]

\* epoll_ctl fails: the descriptor and its session are given up again.
AddFails ==
  /\ Handle(ListenFd)
  /\ \E f \in Fds : LowestFree(f) /\ sessions' = Without(sessions, f)
  /\ Gone(Head(backlog))
  /\ backlog' = Tail(backlog)
  /\ UNCHANGED <<waiting, reading, upgraded, sent, conn, ws, sending, alive, handled>>

\* The process ends and with it every connection.
Dies ==
  /\ alive' = FALSE
  /\ phase' = [c \in Conns |-> IF phase[c] = "open" THEN "closed" ELSE phase[c]]
  /\ stream' = [c \in Conns |-> <<>>]
  /\ conn' = [f \in Fds |-> None]
  /\ sessions' = [f \in {} |-> None]
  /\ ws' = {} /\ batch' = {} /\ backlog' = <<>> /\ sending' = {}
  /\ UNCHANGED <<waiting, reading, upgraded, sent, handled>>

\* Sock::Accept calls exit when accept fails.
AcceptFails == Turn(ListenFd) /\ Dies

-----------------------------------------------------------------------------
(* The receiving half of HandleEvents *)

\* Mutant: an empty recv is passed over.
Nothing_Continue(f) ==
  /\ Handle(f)
  /\ stream[conn[f]] = <<>>
  /\ UNCHANGED <<client, stream, backlog, tables, sending, alive, handled>>

Nothing(f) ==
  /\ Handle(f)
  /\ stream[conn[f]] = <<>>
  /\ conn' = [conn EXCEPT ![f] = None]
  /\ ws' = ws \ {f}
  /\ sessions' = Without(sessions, f)
  /\ UNCHANGED <<client, stream, backlog, sending, alive, handled>>

\* recv returns k pieces: one request, one frame, or what fits no message.
Chunks(f) == IF conn[f] = None THEN {} ELSE 1..Len(stream[conn[f]])
Recv(f, k) == Handle(f) /\ k \in Chunks(f) /\ UNCHANGED backlog

\* Mutant: the frames of a WebSocket are looked at and left in the stream.
Consume_Peek(c, k) ==
  stream' = IF upgraded[c] THEN stream
            ELSE [stream EXCEPT ![c] = SubSeq(@, k + 1, Len(@))]

Consume(c, k) == stream' = [stream EXCEPT ![c] = SubSeq(@, k + 1, Len(@))]

Begun(c) == stream[c][1][1]
Torn(c) == stream[c][1][2] = 2
Begins(c, kinds) == ~Torn(c) /\ Begun(c).kind \in kinds

\* What the first piece leaves out of a request is missing when it is parsed.
WholeRequest(c, k, kind) == Begins(c, {kind}) /\ k >= 2

\* The answer goes to the client, or the thread stays in its send, with
\* "next" for what it has still to do.
Deaf(c) == phase[c] = "open" /\ ~reading[c]
Answer(f, next) ==
  \/ sending' = {}
  \/ Deaf(conn[f]) /\ sending' = {<<f, next>>}
Afterwards == {"nothing", "upgrade", "close"}

HandleHttpRequest(f, k) ==
  LET c == conn[f] IN
  /\ Recv(f, k)
  /\ Begins(c, Requests)
  /\ \A kind \in Requests \ {"page"} : ~WholeRequest(c, k, kind)
  /\ Consume(c, k)
  /\ Answer(f, "nothing")
  /\ waiting' = [waiting EXCEPT ![c] = @ /\ ~reading[c]]
  /\ UNCHANGED <<phase, reading, upgraded, sent, tables, alive, handled>>

\* stoi in handleLogsApi throws, and only main catches it.
HandlerThrows(f, k) ==
  /\ Turn(f)
  /\ k \in Chunks(f)
  /\ WholeRequest(conn[f], k, "noNumber")
  /\ Dies

\* After the send of "101 Switching Protocols", or none of it.
HandshakeSent(f) ==
  LET c == conn[f] IN
  \/ /\ ws' = ws \cup {f}
     /\ upgraded' = [upgraded EXCEPT ![c] = TRUE]
     /\ waiting' = [waiting EXCEPT ![c] = @ /\ ~reading[c]]
  \/ /\ phase[c] = "closed"
     /\ UNCHANGED <<ws, upgraded, waiting>>

HandleWebSocketHandshake(f, k) ==
  LET c == conn[f] IN
  /\ Recv(f, k)
  /\ WholeRequest(c, k, "upgrade")
  /\ Consume(c, k)
  /\ Answer(f, "upgrade")
  /\ \/ sending' = {} /\ HandshakeSent(f)
     \/ sending' # {} /\ UNCHANGED <<ws, upgraded, waiting>>
  /\ UNCHANGED <<phase, reading, sent, conn, sessions, alive, handled>>

\* No key: neither an answer nor an error.
HandshakeFails(f, k) ==
  LET c == conn[f] IN
  /\ Recv(f, k)
  /\ WholeRequest(c, k, "keyless")
  /\ Consume(c, k)
  /\ UNCHANGED <<client, tables, sending, alive, handled>>

-----------------------------------------------------------------------------
(* handleWebSocketFrame *)

\* The length the two bytes after 126 give: each is a char, and its sign is
\* extended to 16 bits before they are put together.
ParsedLength(n) ==
  IF n < 126 \/ n % 256 < 128 THEN n ELSE 65280 + (n % 256)

HeaderLength(n) == IF n < 126 THEN 6 ELSE 8
BufferSize == 4095

\* Both pieces are in the buffer, and they are all the header announces.
WholeFrame(c, k) ==
  k >= 2 /\ HeaderLength(Begun(c).len) + Begun(c).len <= BufferSize

Complete(c, k) == WholeFrame(c, k) /\ ParsedLength(Begun(c).len) = Begun(c).len

\* What handleWebSocketFrame may take the buffer for: the frame it begins
\* with, or, when a frame was torn, whatever its masked rest looks like.
TakenFor(c, k, kind) == Torn(c) \/ (Begins(c, {kind}) /\ Complete(c, k))

Text(f, k) ==
  LET c == conn[f] IN
  /\ Recv(f, k)
  /\ f \in ws /\ TakenFor(c, k, "text")
  /\ Consume(c, k)
  /\ Answer(f, "nothing")
  /\ handled' = [handled EXCEPT ![c] = IF Torn(c) THEN @ ELSE Append(@, Begun(c).no)]
  /\ UNCHANGED <<client, tables, alive>>

Ping(f, k) ==
  LET c == conn[f] IN
  /\ Recv(f, k)
  /\ f \in ws /\ TakenFor(c, k, "ping")
  /\ Consume(c, k)
  /\ Answer(f, "nothing")
  /\ UNCHANGED <<client, tables, alive, handled>>

\* Mutant: the descriptor stays in _wsConnections.
CloseSent_StaysListed(f) ==
  /\ Gone(conn[f])
  /\ conn' = [conn EXCEPT ![f] = None]
  /\ UNCHANGED ws

\* After the send of the close frame.  The session stays in the table.
CloseSent(f) ==
  /\ Gone(conn[f])
  /\ ws' = ws \ {f}
  /\ conn' = [conn EXCEPT ![f] = None]

Close(f, k) ==
  LET c == conn[f] IN
  /\ Recv(f, k)
  /\ f \in ws /\ TakenFor(c, k, "close")
  /\ Answer(f, "close")
  /\ \/ sending' = {} /\ CloseSent(f)
     \/ sending' # {} /\ Consume(c, k) /\ UNCHANGED <<phase, conn, ws>>
  /\ UNCHANGED <<waiting, reading, upgraded, sent, sessions, alive, handled>>

\* The client is gone, and the send that blocks returns.
SendReturns(f, next) ==
  /\ alive /\ sending = {<<f, next>>}
  /\ \E c \in Conns : conn[f] = c /\ phase[c] = "closed"
  /\ sending' = {}
  /\ \/ next = "nothing" /\ UNCHANGED <<phase, waiting, upgraded, stream, conn, ws>>
     \/ next = "upgrade" /\ HandshakeSent(f) /\ UNCHANGED <<phase, stream, conn>>
     \/ next = "close" /\ CloseSent(f) /\ UNCHANGED <<waiting, upgraded>>
  /\ UNCHANGED <<reading, sent, backlog, sessions, batch, alive, handled>>

\* The answer goes to a client that is gone: webserver does not ignore SIGPIPE.
SendKills(f, k) ==
  LET c == conn[f] IN
  /\ Turn(f)
  /\ phase[c] = "closed"
  /\ k \in Chunks(f)
  /\ \/ Begins(c, Requests) /\ ~WholeRequest(c, k, "keyless")
     \/ f \in ws /\ \E kind \in Frames : TakenFor(c, k, kind)
  /\ Dies

\* So does one that blocks when the client goes.
BlockedKills(f) ==
  /\ alive /\ \E next \in Afterwards : sending = {<<f, next>>}
  /\ phase[conn[f]] = "closed"
  /\ Dies

\* An incomplete frame, a rest that looks like no frame, and what comes from
\* a client that is no WebSocket.
Ignored(f, k) ==
  LET c == conn[f] IN
  /\ Recv(f, k)
  /\ IF f \in ws
     THEN Torn(c) \/ (Begins(c, Frames) /\ ~Complete(c, k))
     ELSE ~Begins(c, Requests)
  /\ Consume(c, k)
  /\ UNCHANGED <<client, tables, sending, alive, handled>>

-----------------------------------------------------------------------------

HandleEvent ==
  \/ Accept \/ AddFails \/ AcceptFails
  \/ \E f \in Fds : Nothing(f)
  \/ \E f \in Fds : \E k \in Chunks(f) :
       \/ HandleHttpRequest(f, k) \/ HandlerThrows(f, k)
       \/ HandleWebSocketHandshake(f, k) \/ HandshakeFails(f, k)
       \/ Text(f, k) \/ Ping(f, k) \/ Close(f, k) \/ Ignored(f, k)
       \/ SendKills(f, k)

Blocked ==
  \E f \in Fds : BlockedKills(f) \/ \E next \in Afterwards : SendReturns(f, next)

ServerStep == EpollWait \/ HandleEvent \/ Blocked

Next ==
  \/ ServerStep
  \/ \E c \in Conns :
       \/ Connect(c) \/ HangUp(c) \/ StopReading(c)
       \/ \E kind \in Requests : SendRequest(c, kind)
       \/ \E kind \in Frames, len \in Lengths \cup {0} : SendFrame(c, kind, len)

Spec == Init /\ [][Next]_vars

\* The thread runs, but for a send that blocks: it returns when the client is
\* gone, and nothing makes the client go.
FairSpec == Spec /\ WF_vars(ServerStep)

-----------------------------------------------------------------------------
(* Properties *)

TypeOK ==
  /\ phase \in [Conns -> {"new", "open", "closed"}]
  /\ waiting \in [Conns -> BOOLEAN] /\ reading \in [Conns -> BOOLEAN] /\ upgraded \in [Conns -> BOOLEAN]
  /\ sent \in [Conns -> Nat]
  /\ stream \in [Conns -> Seq(Messages \X {1, 2})]
  /\ handled \in [Conns -> Seq(Nat)]
  /\ backlog \in Seq(Conns)
  /\ conn \in [Fds -> Conns \cup {None}]
  /\ DOMAIN sessions \subseteq Fds /\ sessions \in [DOMAIN sessions -> Conns]
  /\ ws \subseteq Fds /\ batch \subseteq Fds \cup {ListenFd}
  /\ sending \subseteq Fds \X Afterwards
  /\ alive \in BOOLEAN

\* A descriptor in use has a session, and it is its own connection's: the
\* session a close frame leaves behind never becomes the next client's.
SessionIsOwn ==
  \A f \in Fds : conn[f] # None => f \in DOMAIN sessions /\ sessions[f] = conn[f]

\* A descriptor is in _wsConnections as long as its present connection is an
\* upgraded one: no client inherits the state of one that had the same
\* descriptor, and no upgraded client is taken for a TCP client.
WebSocketsAreOwn ==
  \A f \in Fds : f \in ws <=> (conn[f] # None /\ upgraded[conn[f]])

\* However the stream is cut, the frames of a client that reach the handler
\* do so in the order they were sent, each at most once.
HandledInOrder ==
  \A c \in Conns : \A i, j \in 1..Len(handled[c]) :
    i < j => handled[c][i] < handled[c][j]

\* The server notices every client that is gone, accepted or not yet, and
\* frees its descriptor, whatever the client has left in the stream: or its one
\* thread is for ever in a send to a client that stays and does not read.
Held(c) == c \in Elems(backlog) \/ \E f \in Fds : conn[f] = c
Stuck == \E f \in Fds : conn[f] # None /\ Deaf(conn[f]) /\ f \in {b[1] : b \in sending}
HangUpIsNoticed == \A c \in Conns : phase[c] = "closed" ~> (~Held(c) \/ []Stuck)

\* EpollServer.cpp:487, "two bytes for a length from 126 to 65535": a recv
\* that puts a whole text frame into the buffer gives it to the handler,
\* unless the process ends with it.
WholeFrameIsHandled ==
  [][\A f \in Fds : \A k \in Chunks(f) :
       /\ Recv(f, k) /\ Consume(conn[f], k)
       /\ Begins(conn[f], {"text"}) /\ WholeFrame(conn[f], k)
       => handled' # handled \/ ~alive']_vars
=============================================================================
