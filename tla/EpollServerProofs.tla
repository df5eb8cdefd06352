-------------------------- MODULE EpollServerProofs --------------------------
(***************************************************************************)
(* Theorems about EpollServer, for any number of connections, descriptors  *)
(* and messages.                                                           *)
(***************************************************************************)
EXTENDS EpollServer, TLAPS

\* No element twice.
NoRepeats(s) == \A i, j \in 1..Len(s) : s[i] = s[j] => i = j

\* The listening socket is reported only with somebody to accept.
Listening == ListenFd \in batch => backlog # <<>>

\* A connection is in one place: not made, in the backlog, or behind one
\* descriptor.
OnePlace ==
  /\ \A f, g \in Fds : conn[f] # None /\ conn[f] = conn[g] => f = g
  /\ \A f \in Fds : conn[f] # None => phase[conn[f]] # "new"
  /\ \A i \in 1..Len(backlog) :
       /\ phase[backlog[i]] # "new" /\ ~upgraded[backlog[i]]
       /\ \A f \in Fds : conn[f] # backlog[i]
  /\ NoRepeats(backlog)
  /\ \A c \in Conns : phase[c] = "new" => ~upgraded[c]

\* The pieces of a client's stream come in the order of its messages, and
\* after every message that has been handled.
No(c, i) == stream[c][i][1].no
First(c, i) == stream[c][i][2] = 1

Later(n, c, i) == n <= No(c, i) /\ (First(c, i) => n < No(c, i))

InOrder(c) ==
  /\ \A i \in 1..Len(stream[c]) :
       /\ No(c, i) <= sent[c]
       /\ \A h \in 1..i - 1 : Later(No(c, h), c, i)
       /\ \A h \in 1..Len(handled[c]) : Later(handled[c][h], c, i)
  /\ \A h \in 1..Len(handled[c]) : handled[c][h] <= sent[c]
  /\ \A h, i \in 1..Len(handled[c]) : h < i => handled[c][h] < handled[c][i]

\* Frames come from upgraded connections only.
Upgrades == \A c \in Conns : \A i \in 1..Len(stream[c]) :
              stream[c][i][1].kind \in Frames => upgraded[c]

Typed == TypeOK /\ Listening
Tables == OnePlace /\ SessionIsOwn /\ WebSocketsAreOwn
Ordered == \A c \in Conns : InOrder(c)

-----------------------------------------------------------------------------
(* The sequences used as queues *)

\* The elements of a sequence after Append.
LEMMA AppendElements ==
  ASSUME NEW S, NEW s \in Seq(S), NEW x \in S
  PROVE  /\ Append(s, x) \in Seq(S)
         /\ Elems(Append(s, x)) = Elems(s) \cup {x}
         /\ Len(Append(s, x)) = Len(s) + 1
         /\ \A i \in 1..Len(s) : Append(s, x)[i] = s[i]
         /\ x \notin Elems(s) /\ NoRepeats(s) => NoRepeats(Append(s, x))
<1>1. /\ Append(s, x) \in Seq(S) /\ Len(Append(s, x)) = Len(s) + 1 /\ Len(s) \in Nat
      /\ \A i \in 1..Len(s) : Append(s, x)[i] = s[i]
      /\ Append(s, x)[Len(s) + 1] = x
  OBVIOUS
<1>2. 1..(Len(s) + 1) = 1..Len(s) \cup {Len(s) + 1} /\ Len(s) + 1 \notin 1..Len(s)
  BY <1>1
<1>3. Elems(Append(s, x)) = Elems(s) \cup {x}
  BY <1>1, <1>2 DEF Elems
<1>4. x \notin Elems(s) /\ NoRepeats(s) => NoRepeats(Append(s, x))
  BY <1>1, <1>2 DEF Elems, NoRepeats
<1> QED BY <1>1, <1>3, <1>4

-----------------------------------------------------------------------------
(* Lemmas *)

\* What is left of a stream after the first k pieces.
LEMMA Rest ==
  ASSUME NEW S, NEW s \in Seq(S), NEW k \in 1..Len(s)
  PROVE  /\ SubSeq(s, k + 1, Len(s)) \in Seq(S)
         /\ Len(SubSeq(s, k + 1, Len(s))) = Len(s) - k
         /\ \A i \in 1..Len(s) - k : SubSeq(s, k + 1, Len(s))[i] = s[k + i]
OBVIOUS

\* A chunk is of a connection in the table.
LEMMA ChunkOf ==
  ASSUME TypeOK, NEW f \in Fds, NEW k \in Chunks(f)
  PROVE  /\ conn[f] \in Conns /\ conn[f] # None
         /\ k \in 1..Len(stream[conn[f]]) /\ k \in Nat \ {0} /\ k <= Len(stream[conn[f]])
         /\ stream[conn[f]] \in Seq(Messages \X {1, 2})
         /\ stream[conn[f]][1] \in Messages \X {1, 2}
         /\ Begun(conn[f]) \in Messages
<1>1. conn[f] # None /\ conn[f] \in Conns /\ k \in 1..Len(stream[conn[f]])
  BY DEF Chunks, TypeOK
<1>2. stream[conn[f]] \in Seq(Messages \X {1, 2})
  BY <1>1 DEF TypeOK
<1>3. k \in Nat \ {0} /\ k <= Len(stream[conn[f]]) /\ 1 \in 1..Len(stream[conn[f]])
  BY <1>1, <1>2
<1>4. stream[conn[f]][1] \in Messages \X {1, 2}
  BY <1>2, <1>3
<1> QED BY <1>1, <1>2, <1>3, <1>4 DEF Begun

\* Receiving keeps the type of the stream.
LEMMA ConsumeType ==
  ASSUME TypeOK, NEW f \in Fds, NEW k \in Chunks(f), Consume(conn[f], k)
  PROVE  stream' \in [Conns -> Seq(Messages \X {1, 2})]
<1>1. SubSeq(stream[conn[f]], k + 1, Len(stream[conn[f]])) \in Seq(Messages \X {1, 2})
  BY ChunkOf, Rest
<1> QED BY <1>1, ChunkOf DEF Consume, TypeOK

\* What addSession and removeSession make of the table.
LEMMA SessionsType ==
  ASSUME TypeOK, NEW f \in Fds
  PROVE  /\ DOMAIN Without(sessions, f) = DOMAIN sessions \ {f}
         /\ Without(sessions, f) \in [DOMAIN sessions \ {f} -> Conns]
         /\ \A g \in DOMAIN sessions \ {f} : Without(sessions, f)[g] = sessions[g]
         /\ \A c \in Conns : /\ DOMAIN With(sessions, f, c) = DOMAIN sessions \cup {f}
                             /\ With(sessions, f, c) \in [DOMAIN sessions \cup {f} -> Conns]
                             /\ With(sessions, f, c)[f] = c
                             /\ \A g \in DOMAIN sessions \ {f} : With(sessions, f, c)[g] = sessions[g]
BY DEF With, Without, TypeOK

\* The types after the server has closed a connection.
LEMMA GoneType ==
  ASSUME TypeOK, NEW c, Gone(c)
  PROVE  /\ phase' \in [Conns -> {"new", "open", "closed"}]
         /\ stream' \in [Conns -> Seq(Messages \X {1, 2})]
<1>1. <<>> \in Seq(Messages \X {1, 2})
  OBVIOUS
<1>2. stream \in [Conns -> Seq(Messages \X {1, 2})] /\ phase \in [Conns -> {"new", "open", "closed"}]
  BY DEF TypeOK
<1> QED BY <1>1, <1>2 DEF Gone

\* The types of a send that blocks, and what follows it.
LEMMA AnswerType ==
  ASSUME NEW f \in Fds, NEW next \in Afterwards, Answer(f, next)
  PROVE  sending' \subseteq Fds \X Afterwards
BY DEF Answer

LEMMA HandshakeSentType ==
  ASSUME TypeOK, NEW f \in Fds, conn[f] \in Conns, HandshakeSent(f)
  PROVE  /\ ws' \subseteq Fds /\ upgraded' \in [Conns -> BOOLEAN]
         /\ waiting' \in [Conns -> BOOLEAN]
<1>1. ws \subseteq Fds /\ upgraded \in [Conns -> BOOLEAN] /\ waiting \in [Conns -> BOOLEAN]
  BY DEF TypeOK
<1>2. CASE UNCHANGED <<ws, upgraded, waiting>>
  BY <1>1, <1>2
<1>3. CASE /\ ws' = ws \cup {f} /\ upgraded' = [upgraded EXCEPT ![conn[f]] = TRUE]
           /\ waiting' = [waiting EXCEPT ![conn[f]] = @ /\ ~reading[conn[f]]]
  BY <1>1, <1>3
<1> QED BY <1>2, <1>3 DEF HandshakeSent

LEMMA CloseSentType ==
  ASSUME TypeOK, NEW f \in Fds, CloseSent(f)
  PROVE  /\ phase' \in [Conns -> {"new", "open", "closed"}]
         /\ stream' \in [Conns -> Seq(Messages \X {1, 2})]
         /\ ws' \subseteq Fds /\ conn' \in [Fds -> Conns \cup {None}]
<1>1. ws \subseteq Fds /\ conn \in [Fds -> Conns \cup {None}]
  BY DEF TypeOK
<1> QED BY <1>1, GoneType DEF CloseSent

LEMMA InitInv == Init => Typed /\ Tables /\ Ordered
<1> SUFFICES ASSUME Init PROVE Typed /\ Tables /\ Ordered
  OBVIOUS
<1> USE EpollAssumption
<1>1. Typed
  <2>1. sessions \in [{} -> Conns] /\ DOMAIN sessions = {}
    BY DEF Init
  <2> QED BY <2>1 DEF Init, Typed, TypeOK, Listening, ListenFd
<1>2. Tables
  BY DEF Init, Tables, OnePlace, SessionIsOwn, WebSocketsAreOwn, NoRepeats
<1>3. Ordered
  <2>1. \A c \in Conns : Len(stream[c]) = 0 /\ Len(handled[c]) = 0
    BY DEF Init
  <2>2. 1..0 = {}
    OBVIOUS
  <2> QED BY <2>1, <2>2 DEF Ordered, InOrder
<1> QED BY <1>1, <1>2, <1>3

-----------------------------------------------------------------------------
(* Types *)

\* The steps of the server's thread keep the types, one by one.
LEMMA DiesType == ASSUME Typed, Dies PROVE Typed'
<1>1. sessions' \in [{} -> Conns] /\ DOMAIN sessions' = {}
  BY DEF Dies
<1>2. stream' \in [Conns -> Seq(Messages \X {1, 2})] /\ backlog' \in Seq(Conns)
  BY DEF Dies
<1>3. phase' \in [Conns -> {"new", "open", "closed"}]
  BY DEF Dies, Typed, TypeOK
<1>4. conn' \in [Fds -> Conns \cup {None}] /\ alive' \in BOOLEAN
  BY DEF Dies
<1>5. ListenFd \notin batch' /\ batch' \subseteq Fds \cup {ListenFd} /\ ws' \subseteq Fds
  BY DEF Dies
<1>6. /\ waiting' = waiting /\ reading' = reading /\ upgraded' = upgraded /\ sent' = sent
      /\ handled' = handled /\ sending' = {}
  BY DEF Dies
<1> QED BY <1>1, <1>2, <1>3, <1>4, <1>5, <1>6 DEF Typed, TypeOK, Listening

\* The ways the process ends.
Ends ==
  \/ AcceptFails
  \/ \E f \in Fds : BlockedKills(f) \/ \E k \in Chunks(f) : HandlerThrows(f, k) \/ SendKills(f, k)

LEMMA EndsDies == Ends => Dies
BY DEF Ends, AcceptFails, BlockedKills, HandlerThrows, SendKills

LEMMA ServerType == ASSUME Typed, ServerStep PROVE Typed'
<1> USE EpollAssumption
<1>1. CASE EpollWait
  <2>1. Ready \subseteq Fds \cup {ListenFd} /\ (ListenFd \in Ready => backlog # <<>>)
    BY DEF Ready, ListenFd
  <2> QED BY <1>1, <2>1 DEF EpollWait, Typed, TypeOK, Listening, client, tables
<1>2. CASE Accept
  <2>1. backlog # <<>> /\ Head(backlog) \in Conns /\ Tail(backlog) \in Seq(Conns)
    BY <1>2 DEF Accept, Handle, Turn, Typed, Listening, TypeOK
  <2>2. PICK f \in Fds : /\ conn' = [conn EXCEPT ![f] = Head(backlog)]
                         /\ sessions' = With(sessions, f, Head(backlog))
    BY <1>2 DEF Accept
  <2>3. conn' \in [Fds -> Conns \cup {None}]
    BY <2>1, <2>2 DEF Typed, TypeOK
  <2>4. DOMAIN sessions' \subseteq Fds /\ sessions' \in [DOMAIN sessions' -> Conns]
    <3>1. TypeOK
      BY DEF Typed
    <3>2. /\ DOMAIN sessions' = DOMAIN sessions \cup {f}
          /\ sessions' \in [DOMAIN sessions \cup {f} -> Conns]
      BY <2>1, <2>2, <3>1, SessionsType
    <3> QED BY <3>1, <3>2 DEF TypeOK
  <2> QED BY <1>2, <2>1, <2>3, <2>4 DEF Accept, Handle, Turn, Typed, TypeOK, Listening, client
<1>3. CASE AddFails
  <2>1. backlog # <<>> /\ Head(backlog) \in Conns /\ Tail(backlog) \in Seq(Conns)
    BY <1>3 DEF AddFails, Handle, Turn, Typed, Listening, TypeOK
  <2>2. PICK f \in Fds : sessions' = Without(sessions, f)
    BY <1>3 DEF AddFails
  <2>3. DOMAIN sessions' \subseteq Fds /\ sessions' \in [DOMAIN sessions' -> Conns]
    <3>1. TypeOK
      BY DEF Typed
    <3>2. /\ DOMAIN sessions' = DOMAIN sessions \ {f}
          /\ sessions' \in [DOMAIN sessions \ {f} -> Conns]
      BY <2>2, <3>1, SessionsType
    <3> QED BY <3>1, <3>2 DEF TypeOK
  <2>4. phase' \in [Conns -> {"new", "open", "closed"}] /\ stream' \in [Conns -> Seq(Messages \X {1, 2})]
    BY <1>3, GoneType DEF AddFails, Typed
  <2> QED BY <1>3, <2>1, <2>3, <2>4 DEF AddFails, Handle, Turn, Typed, TypeOK, Listening
<1>4. CASE Ends
  BY <1>4, DiesType, EndsDies
<1>5. ASSUME NEW f \in Fds, Nothing(f) PROVE Typed'
  <2>1. DOMAIN sessions' \subseteq Fds /\ sessions' \in [DOMAIN sessions' -> Conns]
    <3>1. TypeOK
      BY DEF Typed
    <3>2. /\ DOMAIN sessions' = DOMAIN sessions \ {f}
          /\ sessions' \in [DOMAIN sessions \ {f} -> Conns]
      BY <1>5, <3>1, SessionsType DEF Nothing
    <3> QED BY <3>1, <3>2 DEF TypeOK
  <2> QED BY <1>5, <2>1 DEF Nothing, Handle, Typed, TypeOK, Listening, client
<1>6. ASSUME NEW f \in Fds, NEW k \in Chunks(f), HandleHttpRequest(f, k) PROVE Typed'
  <2>1. stream' \in [Conns -> Seq(Messages \X {1, 2})] /\ conn[f] \in Conns
    BY <1>6, ConsumeType, ChunkOf DEF Typed, HandleHttpRequest
  <2>2. sending' \subseteq Fds \X Afterwards
    BY <1>6, AnswerType DEF HandleHttpRequest, Afterwards
  <2>3. waiting' \in [Conns -> BOOLEAN]
    <3>1. waiting \in [Conns -> BOOLEAN]
      BY DEF Typed, TypeOK
    <3>2. \E b \in BOOLEAN : waiting' = [waiting EXCEPT ![conn[f]] = b]
      BY <1>6 DEF HandleHttpRequest
    <3> QED BY <3>1, <3>2
  <2> QED BY <1>6, <2>1, <2>2, <2>3 DEF HandleHttpRequest, Recv, Handle, Typed, TypeOK, Listening, tables
<1>7. ASSUME NEW f \in Fds, NEW k \in Chunks(f), HandleWebSocketHandshake(f, k) PROVE Typed'
  <2>1. stream' \in [Conns -> Seq(Messages \X {1, 2})] /\ conn[f] \in Conns
    BY <1>7, ConsumeType, ChunkOf DEF Typed, HandleWebSocketHandshake
  <2>2. sending' \subseteq Fds \X Afterwards
    BY <1>7, AnswerType DEF HandleWebSocketHandshake, Afterwards
  <2>3. /\ ws' \subseteq Fds /\ upgraded' \in [Conns -> BOOLEAN]
        /\ waiting' \in [Conns -> BOOLEAN]
    <3>1. CASE HandshakeSent(f)
      BY <2>1, <3>1, HandshakeSentType DEF Typed
    <3>2. CASE UNCHANGED <<ws, upgraded, waiting>>
      BY <3>2 DEF Typed, TypeOK
    <3> QED BY <1>7, <3>1, <3>2 DEF HandleWebSocketHandshake
  <2> QED BY <1>7, <2>1, <2>2, <2>3 DEF HandleWebSocketHandshake, Recv, Handle, Typed, TypeOK, Listening
<1>8. ASSUME NEW f \in Fds, NEW k \in Chunks(f), HandshakeFails(f, k) \/ Ignored(f, k)
      PROVE Typed'
  <2>1. stream' \in [Conns -> Seq(Messages \X {1, 2})]
    BY <1>8, ConsumeType DEF Typed, HandshakeFails, Ignored
  <2> QED BY <1>8, <2>1 DEF HandshakeFails, Ignored, Recv, Handle, Typed, TypeOK, Listening,
                            client, tables
<1>9. ASSUME NEW f \in Fds, NEW k \in Chunks(f), Ping(f, k) PROVE Typed'
  <2>1. stream' \in [Conns -> Seq(Messages \X {1, 2})] /\ sending' \subseteq Fds \X Afterwards
    BY <1>9, ConsumeType, AnswerType DEF Typed, Ping, Afterwards
  <2> QED BY <1>9, <2>1 DEF Ping, Recv, Handle, Typed, TypeOK, Listening, client, tables
<1>10. ASSUME NEW f \in Fds, NEW k \in Chunks(f), Text(f, k) PROVE Typed'
  <2>1. /\ stream' \in [Conns -> Seq(Messages \X {1, 2})] /\ conn[f] \in Conns
        /\ Begun(conn[f]) \in Messages /\ sending' \subseteq Fds \X Afterwards
    BY <1>10, ConsumeType, AnswerType, ChunkOf DEF Typed, Text, Afterwards
  <2>2. Begun(conn[f]).no \in Nat
    BY <2>1 DEF Messages
  <2>3. handled' \in [Conns -> Seq(Nat)]
    BY <1>10, <2>1, <2>2 DEF Text, Typed, TypeOK
  <2> QED BY <1>10, <2>1, <2>3 DEF Text, Recv, Handle, Typed, TypeOK, Listening, client, tables
<1>11. ASSUME NEW f \in Fds, NEW k \in Chunks(f), Close(f, k) PROVE Typed'
  <2>1. sending' \subseteq Fds \X Afterwards
    BY <1>11, AnswerType DEF Close, Afterwards
  <2>2. /\ phase' \in [Conns -> {"new", "open", "closed"}]
        /\ stream' \in [Conns -> Seq(Messages \X {1, 2})]
        /\ ws' \subseteq Fds /\ conn' \in [Fds -> Conns \cup {None}]
    <3>1. CASE CloseSent(f)
      BY <3>1, CloseSentType DEF Typed
    <3>2. CASE Consume(conn[f], k) /\ UNCHANGED <<phase, conn, ws>>
      BY <3>2, ConsumeType DEF Typed, TypeOK
    <3> QED BY <1>11, <3>1, <3>2 DEF Close
  <2> QED BY <1>11, <2>1, <2>2 DEF Close, Recv, Handle, Typed, TypeOK, Listening
<1>12. ASSUME NEW f \in Fds, NEW next \in Afterwards, SendReturns(f, next) PROVE Typed'
  <2>1. /\ phase' \in [Conns -> {"new", "open", "closed"}]
        /\ waiting' \in [Conns -> BOOLEAN] /\ upgraded' \in [Conns -> BOOLEAN]
        /\ stream' \in [Conns -> Seq(Messages \X {1, 2})]
        /\ ws' \subseteq Fds /\ conn' \in [Fds -> Conns \cup {None}]
    <3>1. CASE UNCHANGED <<phase, waiting, upgraded, stream, conn, ws>>
      BY <3>1 DEF Typed, TypeOK
    <3>2. CASE HandshakeSent(f) /\ UNCHANGED <<phase, stream, conn>>
      <4>1. conn[f] \in Conns /\ TypeOK
        BY <1>12 DEF SendReturns, Typed
      <4> QED BY <3>2, <4>1, HandshakeSentType DEF TypeOK
    <3>3. CASE CloseSent(f) /\ UNCHANGED <<waiting, upgraded>>
      BY <3>3, CloseSentType DEF Typed, TypeOK
    <3> QED BY <1>12, <3>1, <3>2, <3>3 DEF SendReturns
  <2> QED BY <1>12, <2>1 DEF SendReturns, Typed, TypeOK, Listening
<1> QED BY <1>1, <1>2, <1>3, <1>4, <1>5, <1>6, <1>7, <1>8, <1>9, <1>10, <1>11, <1>12
        DEF ServerStep, HandleEvent, Blocked, Ends

LEMMA ClientType ==
  ASSUME Typed, NEW c \in Conns,
         \/ Connect(c) \/ HangUp(c) \/ StopReading(c)
         \/ \E kind \in Requests : SendRequest(c, kind)
         \/ \E kind \in Frames, len \in Lengths \cup {0} : SendFrame(c, kind, len)
  PROVE  Typed'
<1> USE EpollAssumption
<1>1. CASE Connect(c)
  <2>1. backlog' \in Seq(Conns) /\ backlog' # <<>>
    <3>1. backlog \in Seq(Conns) /\ backlog' = Append(backlog, c)
      BY <1>1 DEF Connect, Typed, TypeOK
    <3>2. Append(backlog, c) \in Seq(Conns) /\ Len(Append(backlog, c)) = Len(backlog) + 1 /\ Len(backlog) \in Nat
      BY <3>1, AppendElements
    <3> QED BY <3>1, <3>2
  <2> QED BY <1>1, <2>1 DEF Connect, Typed, TypeOK, Listening, tables
<1>2. CASE HangUp(c)
  <2>1. <<>> \in Seq(Messages \X {1, 2})
    OBVIOUS
  <2>2. stream' \in [Conns -> Seq(Messages \X {1, 2})]
    <3>1. stream \in [Conns -> Seq(Messages \X {1, 2})]
      BY DEF Typed, TypeOK
    <3>2. [stream EXCEPT ![c] = <<>>] \in [Conns -> Seq(Messages \X {1, 2})]
      BY <2>1, <3>1
    <3> QED BY <1>2, <3>1, <3>2 DEF HangUp
  <2> QED BY <1>2, <2>2 DEF HangUp, Typed, TypeOK, Listening, tables
<1>3. ASSUME NEW kind \in Requests \cup Frames, NEW len \in Lengths \cup {0}, Send(c, kind, len),
             waiting' \in [Conns -> BOOLEAN]
      PROVE  Typed'
  <2> DEFINE m == [kind |-> kind, len |-> len, no |-> sent[c] + 1]
  <2>1. sent[c] \in Nat /\ stream[c] \in Seq(Messages \X {1, 2})
    BY DEF Typed, TypeOK
  <2>2. m \in Messages
    BY <2>1 DEF Messages
  <2>3. <<<<m, 1>>, <<m, 2>>>> \in Seq(Messages \X {1, 2})
    BY <2>2
  <2>4. stream[c] \o <<<<m, 1>>, <<m, 2>>>> \in Seq(Messages \X {1, 2})
    BY <2>1, <2>3
  <2>5. stream' = [stream EXCEPT ![c] = stream[c] \o <<<<m, 1>>, <<m, 2>>>>]
        /\ sent' = [sent EXCEPT ![c] = sent[c] + 1]
    BY <1>3 DEF Send
  <2>6. stream' \in [Conns -> Seq(Messages \X {1, 2})] /\ sent' \in [Conns -> Nat]
    BY <2>1, <2>4, <2>5 DEF Typed, TypeOK
  <2> QED BY <1>3, <2>6 DEF Send, Typed, TypeOK, Listening, tables
<1>4. ASSUME NEW kind \in Requests, SendRequest(c, kind) PROVE Typed'
  <2>1. Send(c, kind, 0) /\ waiting' \in [Conns -> BOOLEAN]
    BY <1>4 DEF SendRequest, Typed, TypeOK
  <2> QED BY <1>3, <2>1
<1>5. ASSUME NEW kind \in Frames, NEW len \in Lengths \cup {0}, SendFrame(c, kind, len) PROVE Typed'
  <2>1. Send(c, kind, len) /\ waiting' \in [Conns -> BOOLEAN]
    BY <1>5 DEF SendFrame, Typed, TypeOK
  <2> QED BY <1>3, <2>1
<1>6. CASE StopReading(c)
  BY <1>6 DEF StopReading, Typed, TypeOK, Listening, tables
<1> QED BY <1>1, <1>2, <1>4, <1>5, <1>6

LEMMA TypeStep == Typed /\ [Next]_vars => Typed'
<1>1. ASSUME Typed, UNCHANGED vars PROVE Typed'
  BY <1>1 DEF vars, Typed, TypeOK, Listening
<1> QED BY <1>1, ServerType, ClientType DEF Next

-----------------------------------------------------------------------------
(* Connections and tables *)

\* Steps that move no connection.
LEMMA SameTables ==
  ASSUME Typed, Tables, UNCHANGED <<backlog, conn, sessions, ws, upgraded>>,
         \A c \in Conns : phase'[c] = "new" <=> phase[c] = "new"
  PROVE  Tables'
<1>1. backlog \in Seq(Conns) /\ conn \in [Fds -> Conns \cup {None}]
  BY DEF Typed, TypeOK
<1>2. \A i \in 1..Len(backlog) : backlog[i] \in Conns
  BY <1>1
<1>3. OnePlace'
  BY <1>1, <1>2 DEF Tables, OnePlace, NoRepeats
<1> QED BY <1>3 DEF Tables, SessionIsOwn, WebSocketsAreOwn

\* The head of the backlog leaves it.
LEMMA BacklogHead ==
  ASSUME Typed, Tables, backlog # <<>>
  PROVE  /\ Head(backlog) \in Conns /\ phase[Head(backlog)] # "new" /\ ~upgraded[Head(backlog)]
         /\ \A f \in Fds : conn[f] # Head(backlog)
         /\ \A i \in 1..Len(Tail(backlog)) :
              /\ Tail(backlog)[i] \in Conns /\ Tail(backlog)[i] # Head(backlog)
              /\ phase[Tail(backlog)[i]] # "new" /\ ~upgraded[Tail(backlog)[i]]
              /\ \A f \in Fds : conn[f] # Tail(backlog)[i]
         /\ NoRepeats(Tail(backlog))
<1>1. backlog \in Seq(Conns)
  BY DEF Typed, TypeOK
<1>2. /\ Head(backlog) = backlog[1] /\ 1 \in 1..Len(backlog)
      /\ \A i \in 1..Len(Tail(backlog)) : /\ i + 1 \in 1..Len(backlog) /\ i + 1 # 1
                                         /\ Tail(backlog)[i] = backlog[i + 1]
      /\ \A i, j \in 1..Len(Tail(backlog)) : i + 1 = j + 1 => i = j
  BY <1>1
<1>3. \A i \in 1..Len(backlog) : backlog[i] \in Conns
  BY <1>1
<1>4. NoRepeats(Tail(backlog))
  BY <1>2 DEF Tables, OnePlace, NoRepeats
<1> QED BY <1>2, <1>3, <1>4 DEF Tables, OnePlace, NoRepeats

LEMMA DiesTables == ASSUME Typed, Tables, Dies PROVE Tables'
<1>1. 1..Len(backlog') = {}
  BY DEF Dies
<1>2. \A c \in Conns : phase'[c] = "new" <=> phase[c] = "new"
  BY DEF Dies
<1>3. upgraded' = upgraded /\ ws' = {} /\ \A f \in Fds : conn'[f] = None
  BY DEF Dies
<1> QED BY <1>1, <1>2, <1>3 DEF Tables, OnePlace, NoRepeats, SessionIsOwn, WebSocketsAreOwn

LEMMA AcceptTables == ASSUME Typed, Tables, Accept PROVE Tables'
<1>1. backlog # <<>> /\ TypeOK
  BY DEF Accept, Handle, Turn, Typed, Listening
<1> DEFINE c == Head(backlog)
<1>2. PICK f \in Fds : /\ LowestFree(f)
                       /\ conn' = [conn EXCEPT ![f] = c]
                       /\ sessions' = With(sessions, f, c)
  BY DEF Accept
<1>3. /\ conn[f] = None /\ conn'[f] = c
      /\ \A g \in Fds \ {f} : conn'[g] = conn[g]
      /\ c \in Conns /\ c # None
  BY <1>1, <1>2, BacklogHead, EpollAssumption DEF LowestFree, TypeOK
<1>4. /\ DOMAIN sessions' = DOMAIN sessions \cup {f} /\ sessions'[f] = c
      /\ \A g \in DOMAIN sessions \ {f} : sessions'[g] = sessions[g]
  <2>1. /\ DOMAIN With(sessions, f, c) = DOMAIN sessions \cup {f} /\ With(sessions, f, c)[f] = c
        /\ \A g \in DOMAIN sessions \ {f} : With(sessions, f, c)[g] = sessions[g]
    BY <1>1, <1>3, SessionsType
  <2> QED BY <1>2, <2>1
<1>5. backlog' = Tail(backlog) /\ UNCHANGED <<phase, upgraded, ws>>
  BY DEF Accept, client
<1>6. OnePlace'
  BY <1>1, <1>3, <1>5, BacklogHead DEF Tables, OnePlace
<1>7. SessionIsOwn'
  BY <1>3, <1>4 DEF Tables, SessionIsOwn
<1>8. WebSocketsAreOwn'
  BY <1>1, <1>3, <1>5, BacklogHead DEF Tables, WebSocketsAreOwn
<1> QED BY <1>6, <1>7, <1>8 DEF Tables

LEMMA AddFailsTables == ASSUME Typed, Tables, AddFails PROVE Tables'
<1>1. backlog # <<>> /\ TypeOK
  BY DEF AddFails, Handle, Turn, Typed, Listening
<1>2. PICK f \in Fds : conn[f] = None /\ sessions' = Without(sessions, f)
  BY DEF AddFails, LowestFree
<1>3. /\ DOMAIN sessions' = DOMAIN sessions \ {f}
      /\ \A g \in DOMAIN sessions \ {f} : sessions'[g] = sessions[g]
  BY <1>1, <1>2, SessionsType
<1>4. backlog' = Tail(backlog) /\ UNCHANGED <<upgraded, ws, conn>>
  BY DEF AddFails
<1>5. \A c \in Conns : phase'[c] = "new" <=> phase[c] = "new" /\ c # Head(backlog)
  BY <1>1, BacklogHead DEF AddFails, Gone, TypeOK
<1>6. \A c \in Conns : phase'[c] = "new" <=> phase[c] = "new"
  BY <1>1, <1>5, BacklogHead
<1>7. conn \in [Fds -> Conns \cup {None}]
  BY <1>1 DEF TypeOK
<1>8. OnePlace'
  BY <1>1, <1>4, <1>6, <1>7, BacklogHead DEF Tables, OnePlace
<1>9. SessionIsOwn' /\ WebSocketsAreOwn'
  BY <1>2, <1>3, <1>4 DEF Tables, SessionIsOwn, WebSocketsAreOwn
<1> QED BY <1>8, <1>9 DEF Tables

\* A descriptor is closed, with its session or without.
LEMMA CloseTables ==
  ASSUME Typed, Tables, NEW f \in Fds,
         conn' = [conn EXCEPT ![f] = None], ws' = ws \ {f},
         sessions' \in {sessions, Without(sessions, f)},
         UNCHANGED <<backlog, upgraded>>,
         \A c \in Conns : phase'[c] = "new" <=> phase[c] = "new"
  PROVE  Tables'
<1>1. TypeOK /\ conn \in [Fds -> Conns \cup {None}] /\ backlog \in Seq(Conns)
  BY DEF Typed, TypeOK
<1>2. conn'[f] = None /\ \A g \in Fds \ {f} : conn'[g] = conn[g]
  BY <1>1
<1>3. \A g \in Fds \ {f} : g \in DOMAIN sessions => g \in DOMAIN sessions' /\ sessions'[g] = sessions[g]
  <2>1. /\ DOMAIN Without(sessions, f) = DOMAIN sessions \ {f}
        /\ \A g \in DOMAIN sessions \ {f} : Without(sessions, f)[g] = sessions[g]
    BY <1>1, SessionsType
  <2>2. CASE sessions' = sessions
    BY <2>2
  <2>3. CASE sessions' = Without(sessions, f)
    BY <2>1, <2>3
  <2> QED BY <2>2, <2>3
<1>4. \A i \in 1..Len(backlog) : backlog[i] \in Conns /\ backlog[i] # None
  BY <1>1, EpollAssumption
<1>5. OnePlace'
  BY <1>1, <1>2, <1>4 DEF Tables, OnePlace, NoRepeats
<1>6. SessionIsOwn' /\ WebSocketsAreOwn'
  BY <1>2, <1>3 DEF Tables, SessionIsOwn, WebSocketsAreOwn
<1> QED BY <1>5, <1>6 DEF Tables

\* What follows the send of a close frame, and that of a handshake.
LEMMA CloseSentTables ==
  ASSUME Typed, Tables, NEW f \in Fds, conn[f] \in Conns, CloseSent(f),
         UNCHANGED <<backlog, upgraded, sessions>>
  PROVE  Tables'
<1>1. \A c \in Conns : phase'[c] = "new" <=> phase[c] = "new"
  <2>1. conn[f] # None /\ phase[conn[f]] # "new"
    BY EpollAssumption DEF Tables, OnePlace
  <2> QED BY <2>1 DEF CloseSent, Gone, Typed, TypeOK
<1> QED BY <1>1, CloseTables DEF CloseSent

LEMMA HandshakeSentTables ==
  ASSUME Typed, Tables, NEW f \in Fds, conn[f] \in Conns, HandshakeSent(f),
         UNCHANGED <<phase, conn, sessions, backlog>>
  PROVE  Tables'
<1>1. CASE UNCHANGED <<ws, upgraded>>
  BY <1>1, SameTables
<1>2. CASE ws' = ws \cup {f} /\ upgraded' = [upgraded EXCEPT ![conn[f]] = TRUE]
  <2>1. conn[f] # None
    BY EpollAssumption
  <2>2. /\ upgraded'[conn[f]] = TRUE
        /\ \A c \in Conns \ {conn[f]} : upgraded'[c] = upgraded[c]
        /\ conn \in [Fds -> Conns \cup {None}] /\ backlog \in Seq(Conns)
    BY <1>2 DEF Typed, TypeOK
  <2>3. \A i \in 1..Len(backlog) : backlog[i] \in Conns /\ backlog[i] # conn[f]
    BY <2>2 DEF Tables, OnePlace
  <2>4. OnePlace'
    BY <2>1, <2>2, <2>3 DEF Tables, OnePlace, NoRepeats
  <2>5. WebSocketsAreOwn'
    BY <1>2, <2>1, <2>2 DEF Tables, OnePlace, WebSocketsAreOwn
  <2> QED BY <2>4, <2>5 DEF Tables, SessionIsOwn
<1> QED BY <1>1, <1>2 DEF HandshakeSent

LEMMA ConnectTables == ASSUME Typed, Tables, NEW c \in Conns, Connect(c) PROVE Tables'
<1>1. /\ backlog \in Seq(Conns) /\ backlog' = Append(backlog, c) /\ phase[c] = "new"
      /\ UNCHANGED <<conn, sessions, ws, upgraded>>
      /\ conn \in [Fds -> Conns \cup {None}]
      /\ phase'[c] # "new" /\ \A d \in Conns \ {c} : phase'[d] = phase[d]
  BY DEF Connect, Typed, TypeOK, tables
<1>2. /\ Len(backlog') = Len(backlog) + 1 /\ backlog'[Len(backlog) + 1] = c
      /\ \A i \in 1..Len(backlog) : backlog'[i] = backlog[i] /\ backlog[i] \in Conns
      /\ 1..Len(backlog') = 1..Len(backlog) \cup {Len(backlog) + 1}
      /\ Len(backlog) + 1 \notin 1..Len(backlog)
  BY <1>1
<1>3. /\ ~upgraded[c] /\ \A f \in Fds : conn[f] # c
      /\ \A i \in 1..Len(backlog) : backlog[i] # c
  BY <1>1, EpollAssumption DEF Tables, OnePlace
<1>4. c # None
  BY EpollAssumption
<1>5. OnePlace'
  <2>1. NoRepeats(backlog')
    BY <1>2, <1>3 DEF Tables, OnePlace, NoRepeats
  <2> QED BY <1>1, <1>2, <1>3, <1>4, <2>1 DEF Tables, OnePlace
<1> QED BY <1>1, <1>5 DEF Tables, SessionIsOwn, WebSocketsAreOwn

LEMMA TablesStep == Typed /\ Tables /\ [Next]_vars => Tables'
<1> SUFFICES ASSUME Typed, Tables, [Next]_vars PROVE Tables'
  OBVIOUS
<1>1. CASE UNCHANGED vars \/ EpollWait
  BY <1>1, SameTables DEF vars, EpollWait, client, tables
<1>2. CASE Ends
  BY <1>2, DiesTables, EndsDies
<1>3. ASSUME NEW f \in Fds, Nothing(f) PROVE Tables'
  BY <1>3, CloseTables DEF Nothing, client
<1>4. ASSUME NEW f \in Fds, NEW k \in Chunks(f), Close(f, k) \/ HandleWebSocketHandshake(f, k)
      PROVE  Tables'
  <2>1. conn[f] \in Conns
    BY ChunkOf DEF Typed
  <2>2. CASE CloseSent(f) /\ UNCHANGED <<backlog, upgraded, sessions>>
    BY <2>1, <2>2, CloseSentTables
  <2>3. CASE HandshakeSent(f) /\ UNCHANGED <<phase, conn, sessions, backlog>>
    BY <2>1, <2>3, HandshakeSentTables
  <2>4. CASE UNCHANGED <<backlog, conn, sessions, ws, upgraded, phase>>
    BY <2>4, SameTables
  <2> QED BY <1>4, <2>2, <2>3, <2>4 DEF Close, HandleWebSocketHandshake, Recv
<1>5. ASSUME NEW f \in Fds, NEW k \in Chunks(f),
             HandleHttpRequest(f, k) \/ HandshakeFails(f, k) \/ Text(f, k) \/ Ping(f, k) \/ Ignored(f, k)
      PROVE  Tables'
  <2>1. UNCHANGED <<backlog, conn, sessions, ws, upgraded, phase>>
    BY <1>5 DEF HandleHttpRequest, HandshakeFails, Text, Ping, Ignored, Recv, client, tables
  <2> QED BY <2>1, SameTables
<1>6. ASSUME NEW c \in Conns,
             \/ \E kind \in Requests : SendRequest(c, kind)
             \/ \E kind \in Frames, len \in Lengths \cup {0} : SendFrame(c, kind, len)
      PROVE  Tables'
  <2>1. UNCHANGED <<backlog, conn, sessions, ws, upgraded, phase>>
    BY <1>6 DEF SendRequest, SendFrame, Send, tables
  <2> QED BY <2>1, SameTables
<1>7. ASSUME NEW c \in Conns, HangUp(c) PROVE Tables'
  <2>1. UNCHANGED <<backlog, conn, sessions, ws, upgraded>>
    BY <1>7 DEF HangUp, tables
  <2>2. \A d \in Conns : phase'[d] = "new" <=> phase[d] = "new"
    BY <1>7 DEF HangUp, Typed, TypeOK
  <2> QED BY <2>1, <2>2, SameTables
<1>8. ASSUME NEW f \in Fds, NEW next \in Afterwards, SendReturns(f, next) PROVE Tables'
  <2>1. conn[f] \in Conns
    BY <1>8 DEF SendReturns
  <2>2. CASE CloseSent(f) /\ UNCHANGED <<backlog, upgraded, sessions>>
    BY <2>1, <2>2, CloseSentTables
  <2>3. CASE HandshakeSent(f) /\ UNCHANGED <<phase, conn, sessions, backlog>>
    BY <2>1, <2>3, HandshakeSentTables
  <2>4. CASE UNCHANGED <<backlog, conn, sessions, ws, upgraded, phase>>
    BY <2>4, SameTables
  <2> QED BY <1>8, <2>2, <2>3, <2>4 DEF SendReturns
<1>9. ASSUME NEW c \in Conns, StopReading(c) PROVE Tables'
  BY <1>9, SameTables DEF StopReading, tables
<1> QED BY <1>1, <1>2, <1>3, <1>4, <1>5, <1>6, <1>7, <1>8, <1>9, AcceptTables, AddFailsTables, ConnectTables
        DEF Next, ServerStep, HandleEvent, Blocked, Ends

-----------------------------------------------------------------------------
(* The order of the frames *)

\* A connection whose stream and history a step leaves alone, or whose
\* stream it empties.
LEMMA SameOrder ==
  ASSUME Ordered, NEW c \in Conns,
         stream'[c] = stream[c] \/ stream'[c] = <<>>,
         sent'[c] = sent[c], handled'[c] = handled[c]
  PROVE  InOrder(c)'
<1>1. InOrder(c)
  BY DEF Ordered
<1>2. CASE stream'[c] = stream[c]
  BY <1>1, <1>2 DEF InOrder, Later, No, First
<1>3. CASE stream'[c] = <<>>
  <2>1. 1..Len(stream'[c]) = {}
    BY <1>3
  <2> QED BY <1>1, <2>1 DEF InOrder
<1> QED BY <1>2, <1>3

\* What a chunk leaves behind is in order, and so is the history when the
\* frame of a chunk of two pieces or more is added to it.
LEMMA ConsumeOrder ==
  ASSUME Typed, Ordered, NEW c \in Conns, NEW k \in 1..Len(stream[c]), Consume(c, k),
         sent' = sent,
         \/ handled' = handled
         \/ /\ k >= 2 /\ First(c, 1)
            /\ handled' = [handled EXCEPT ![c] = Append(handled[c], No(c, 1))]
  PROVE  Ordered'
<1> DEFINE s == stream[c]
           h == handled[c]
           N(i) == stream'[c][i][1].no
           After(n, i) == n <= N(i) /\ (stream'[c][i][2] = 1 => n < N(i))
<1>1. /\ k \in Nat \ {0} /\ s \in Seq(Messages \X {1, 2})
      /\ h \in Seq(Nat) /\ sent[c] \in Nat
      /\ Len(s) \in Nat /\ Len(h) \in Nat
      /\ \A i \in 1..Len(h) : h[i] \in Nat
  BY DEF Typed, TypeOK
<1>2. \A i \in 1..Len(s) : No(c, i) \in Nat
  <2>1. \A i \in 1..Len(s) : s[i] \in Messages \X {1, 2}
    BY <1>1
  <2>2. \A i \in 1..Len(s) : s[i][1] \in Messages
    BY <2>1
  <2>3. \A m \in Messages : m.no \in Nat
    BY DEF Messages
  <2> QED BY <2>2, <2>3 DEF No
<1>3. InOrder(c)
  BY DEF Ordered
<1>4. /\ stream'[c] = SubSeq(s, k + 1, Len(s))
      /\ \A d \in Conns \ {c} : stream'[d] = stream[d]
  BY DEF Consume, Typed, TypeOK
<1>5. /\ Len(stream'[c]) = Len(s) - k
      /\ \A i \in 1..Len(stream'[c]) : stream'[c][i] = s[k + i] /\ k + i \in 1..Len(s)
  BY <1>1, <1>4, Rest
<1>6. \A i \in 1..Len(stream'[c]) :
        /\ N(i) = No(c, k + i) /\ N(i) \in Nat
        /\ \A n : After(n, i) <=> Later(n, c, k + i)
  BY <1>2, <1>5 DEF No, First, Later
<1>7. \A i \in 1..Len(stream'[c]) : \A j \in 1..i - 1 : After(N(j), i)
  <2> SUFFICES ASSUME NEW i \in 1..Len(stream'[c]), NEW j \in 1..i - 1 PROVE After(N(j), i)
    OBVIOUS
  <2>1. j \in 1..Len(stream'[c]) /\ k + j \in 1..(k + i) - 1
    BY <1>1, <1>5
  <2>2. Later(No(c, k + j), c, k + i)
    BY <1>3, <1>5, <2>1 DEF InOrder
  <2> QED BY <1>6, <2>1, <2>2
<1>8. \A i \in 1..Len(stream'[c]) : N(i) <= sent[c] /\ \A j \in 1..Len(h) : After(h[j], i)
  BY <1>3, <1>5, <1>6 DEF InOrder
<1>9. CASE handled' = handled
  <2>1. InOrder(c)'
    BY <1>3, <1>7, <1>8, <1>9 DEF InOrder, Later, No, First
  <2>2. \A d \in Conns \ {c} : InOrder(d)'
    BY <1>4, <1>9, SameOrder
  <2> QED BY <2>1, <2>2 DEF Ordered
<1>10. CASE k >= 2 /\ First(c, 1) /\ handled' = [handled EXCEPT ![c] = Append(h, No(c, 1))]
  <2>1. /\ 1 \in 1..Len(s) /\ No(c, 1) \in Nat /\ No(c, 1) <= sent[c]
        /\ handled'[c] = Append(h, No(c, 1))
        /\ \A d \in Conns \ {c} : handled'[d] = handled[d]
    <3>1. 1 \in 1..Len(s)
      BY <1>1
    <3>2. handled \in [Conns -> Seq(Nat)]
      BY DEF Typed, TypeOK
    <3> QED BY <1>2, <1>3, <1>10, <3>1, <3>2 DEF InOrder
  <2>2. /\ Len(handled'[c]) = Len(h) + 1
        /\ \A i \in 1..Len(h) : handled'[c][i] = h[i]
        /\ handled'[c][Len(h) + 1] = No(c, 1)
        /\ 1..Len(handled'[c]) = 1..Len(h) \cup {Len(h) + 1}
    BY <1>1, <2>1
  <2>3. \A i \in 1..Len(h) : h[i] < No(c, 1)
    BY <1>3, <1>10, <2>1 DEF InOrder, Later
  <2>4. \A i \in 1..Len(stream'[c]) : After(No(c, 1), i)
    <3> SUFFICES ASSUME NEW i \in 1..Len(stream'[c]) PROVE Later(No(c, 1), c, k + i)
      BY <1>6
    <3>1. 1 \in 1..(k + i) - 1
      BY <1>1, <1>5
    <3> QED BY <1>3, <1>5, <3>1 DEF InOrder
  <2>5. \A i \in 1..Len(stream'[c]) : \A j \in 1..Len(handled'[c]) : After(handled'[c][j], i)
    BY <1>8, <2>2, <2>4
  <2>6. \A j \in 1..Len(handled'[c]) : handled'[c][j] <= sent[c]
    BY <1>3, <2>1, <2>2 DEF InOrder
  <2>7. \A i, j \in 1..Len(handled'[c]) : i < j => handled'[c][i] < handled'[c][j]
    <3>1. \A i, j \in 1..Len(h) : i < j => h[i] < h[j]
      BY <1>3 DEF InOrder
    <3>2. \A i, j \in 1..Len(handled'[c]) : i < j => i \in 1..Len(h) /\ (j \in 1..Len(h) \/ j = Len(h) + 1)
      BY <1>1, <2>2
    <3> QED BY <2>2, <2>3, <3>1, <3>2
  <2>8. InOrder(c)'
    BY <1>7, <1>8, <2>5, <2>6, <2>7 DEF InOrder, Later, No, First
  <2>9. \A d \in Conns \ {c} : InOrder(d)'
    BY <1>4, <2>1, SameOrder
  <2> QED BY <2>8, <2>9 DEF Ordered
<1> QED BY <1>9, <1>10

\* The two pieces of a new message come after everything sent before.
LEMMA SendOrder ==
  ASSUME Typed, Ordered, NEW c \in Conns, NEW kind \in Requests \cup Frames,
         NEW len \in Lengths \cup {0}, Send(c, kind, len)
  PROVE  Ordered'
<1> DEFINE s == stream[c]
           m == [kind |-> kind, len |-> len, no |-> sent[c] + 1]
<1>1. /\ sent[c] \in Nat /\ s \in Seq(Messages \X {1, 2}) /\ Len(s) \in Nat
      /\ stream'[c] = s \o <<<<m, 1>>, <<m, 2>>>> /\ sent'[c] = sent[c] + 1
      /\ handled' = handled
      /\ \A d \in Conns \ {c} : stream'[d] = stream[d] /\ sent'[d] = sent[d]
      /\ handled[c] \in Seq(Nat)
  BY DEF Send, Typed, TypeOK
<1>2. m \in Messages
  BY <1>1 DEF Messages
<1>3. /\ Len(stream'[c]) = Len(s) + 2
      /\ \A i \in 1..Len(s) : stream'[c][i] = s[i]
      /\ stream'[c][Len(s) + 1] = <<m, 1>> /\ stream'[c][Len(s) + 2] = <<m, 2>>
  BY <1>1, <1>2
<1>4. InOrder(c)
  BY DEF Ordered
<1>5. \A i \in 1..Len(s) : stream'[c][i][1].no = No(c, i) /\ No(c, i) <= sent[c]
  BY <1>3, <1>4 DEF InOrder, No
<1>6. \A i \in 1..Len(s) : No(c, i) \in Nat
  <2>1. \A i \in 1..Len(s) : s[i] \in Messages \X {1, 2}
    BY <1>1
  <2>2. \A i \in 1..Len(s) : s[i][1] \in Messages
    BY <2>1
  <2>3. \A n \in Messages : n.no \in Nat
    BY DEF Messages
  <2> QED BY <2>2, <2>3 DEF No
<1>7. /\ stream'[c][Len(s) + 1][1].no = sent[c] + 1 /\ stream'[c][Len(s) + 2][1].no = sent[c] + 1
      /\ stream'[c][Len(s) + 2][2] = 2
  BY <1>3
<1>8. InOrder(c)'
  <2> DEFINE N(i) == stream'[c][i][1].no
             After(n, i) == n <= N(i) /\ (stream'[c][i][2] = 1 => n < N(i))
  <2>1. ASSUME NEW i \in 1..Len(s)
        PROVE  /\ N(i) <= sent'[c]
               /\ \A j \in 1..i - 1 : After(N(j), i)
               /\ \A j \in 1..Len(handled[c]) : After(handled[c][j], i)
    <3>1. \A j \in 1..i - 1 : j \in 1..Len(s)
      BY <1>1
    <3>2. \A n : After(n, i) <=> Later(n, c, i)
      BY <1>3 DEF Later, No, First
    <3>3. \A j \in 1..Len(s) : N(j) = No(c, j)
      BY <1>5
    <3>4. N(i) <= sent'[c]
      <4>1. /\ N(i) \in Nat /\ N(i) <= sent[c]
            /\ sent[c] \in Nat /\ sent'[c] = sent[c] + 1
        BY <1>1, <1>5, <1>6
      <4> HIDE DEF N, s, m
      <4> QED BY <4>1
    <3>5. \A j \in 1..i - 1 : After(N(j), i)
      <4> SUFFICES ASSUME NEW j \in 1..i - 1 PROVE Later(N(j), c, i)
        BY <3>2
      <4>1. N(j) = No(c, j)
        BY <3>1, <3>3
      <4> QED BY <1>4, <4>1 DEF InOrder
    <3>6. \A j \in 1..Len(handled[c]) : After(handled[c][j], i)
      BY <1>4, <3>2 DEF InOrder
    <3> QED BY <3>4, <3>5, <3>6
  <2>2. ASSUME NEW i \in {Len(s) + 1, Len(s) + 2}
        PROVE  /\ N(i) <= sent'[c]
               /\ \A j \in 1..i - 1 : After(N(j), i)
               /\ \A j \in 1..Len(handled[c]) : After(handled[c][j], i)
    <3>1. N(i) = sent[c] + 1 /\ (stream'[c][i][2] = 1 => i = Len(s) + 1)
      BY <1>7
    <3>2. \A j \in 1..i - 1 : j \in 1..Len(s) \/ (j = Len(s) + 1 /\ i = Len(s) + 2)
      BY <1>1
    <3>3. \A j \in 1..Len(handled[c]) : handled[c][j] <= sent[c] /\ handled[c][j] \in Nat
      BY <1>1, <1>4 DEF InOrder
    <3>4. \A j \in 1..Len(s) : N(j) \in Nat /\ N(j) <= sent[c]
      BY <1>5, <1>6
    <3>5. \A j \in 1..i - 1 : After(N(j), i)
      <4> SUFFICES ASSUME NEW j \in 1..i - 1 PROVE After(N(j), i)
        OBVIOUS
      <4>1. CASE j \in 1..Len(s)
        <5>1. /\ N(j) \in Nat /\ N(j) <= sent[c] /\ sent[c] \in Nat
              /\ N(i) = sent[c] + 1
          BY <1>1, <3>1, <3>4, <4>1
        <5>2. N(j) <= N(i) /\ N(j) < N(i)
          <6> HIDE DEF N, s, m
          <6> QED BY <5>1
        <5> QED BY <5>2
      <4>2. CASE j = Len(s) + 1 /\ i = Len(s) + 2
        BY <1>1, <1>7, <4>2
      <4> QED BY <3>2, <4>1, <4>2
    <3>6. \A j \in 1..Len(handled[c]) : After(handled[c][j], i)
      <4> SUFFICES ASSUME NEW j \in 1..Len(handled[c]) PROVE After(handled[c][j], i)
        OBVIOUS
      <4>1. /\ handled[c][j] \in Nat /\ handled[c][j] <= sent[c] /\ sent[c] \in Nat
            /\ N(i) = sent[c] + 1
        BY <1>1, <3>1, <3>3
      <4>2. handled[c][j] <= N(i) /\ handled[c][j] < N(i)
        <5> HIDE DEF N, s, m
        <5> QED BY <4>1
      <4> QED BY <4>2
    <3>7. N(i) <= sent'[c]
      <4>1. sent[c] \in Nat /\ sent'[c] = sent[c] + 1
        BY <1>1
      <4>2. N(i) = sent'[c] /\ N(i) \in Nat
        BY <3>1, <4>1
      <4> HIDE DEF N, s, m
      <4> QED BY <4>2
    <3> QED BY <3>5, <3>6, <3>7
  <2>3. 1..Len(stream'[c]) = 1..Len(s) \cup {Len(s) + 1, Len(s) + 2}
    <3>1. \A l \in Nat : 1..(l + 2) = 1..l \cup {l + 1, l + 2}
      OBVIOUS
    <3> QED BY <1>1, <1>3, <3>1
  <2>4. \A j \in 1..Len(handled[c]) : handled[c][j] <= sent'[c]
    BY <1>1, <1>4 DEF InOrder
  <2>5. \A i \in 1..Len(stream'[c]) :
          /\ N(i) <= sent'[c]
          /\ \A j \in 1..i - 1 : After(N(j), i)
          /\ \A j \in 1..Len(handled[c]) : After(handled[c][j], i)
    <3> SUFFICES ASSUME NEW i \in 1..Len(stream'[c])
                 PROVE  /\ N(i) <= sent'[c]
                        /\ \A j \in 1..i - 1 : After(N(j), i)
                        /\ \A j \in 1..Len(handled[c]) : After(handled[c][j], i)
      OBVIOUS
    <3>1. CASE i \in 1..Len(s)
      <4> HIDE DEF N, After
      <4> QED BY <2>1, <3>1
    <3>2. CASE i \in {Len(s) + 1, Len(s) + 2}
      <4> HIDE DEF N, After
      <4> QED BY <2>2, <3>2
    <3> QED BY <2>3, <3>1, <3>2
  <2>6. \A h, i \in 1..Len(handled[c]) : h < i => handled[c][h] < handled[c][i]
    BY <1>4 DEF InOrder
  <2> QED BY <1>1, <2>4, <2>5, <2>6 DEF InOrder, Later, No, First
<1>9. \A d \in Conns \ {c} : InOrder(d)'
  BY <1>1, SameOrder
<1> QED BY <1>8, <1>9 DEF Ordered

LEMMA OrderStep == Typed /\ Ordered /\ [Next]_vars => Ordered'
<1> SUFFICES ASSUME Typed, Ordered, [Next]_vars PROVE Ordered'
  OBVIOUS
<1>1. ASSUME sent' = sent, handled' = handled,
             \A c \in Conns : stream'[c] = stream[c] \/ stream'[c] = <<>>
      PROVE  Ordered'
  BY <1>1, SameOrder DEF Ordered
<1>2. CASE \/ UNCHANGED vars \/ EpollWait \/ Accept \/ \E f \in Fds : Nothing(f)
           \/ \E c \in Conns : Connect(c) \/ StopReading(c)
  BY <1>1, <1>2 DEF vars, EpollWait, Accept, Nothing, Connect, StopReading, client
<1>3. CASE Ends
  BY <1>1, <1>3, EndsDies DEF Dies
<1>4. CASE \/ AddFails \/ (\E c \in Conns : HangUp(c))
           \/ \E f \in Fds : \/ \E k \in Chunks(f) : Close(f, k) /\ CloseSent(f)
                            \/ \E next \in Afterwards : SendReturns(f, next)
  <2>1. /\ sent' = sent /\ handled' = handled
        /\ \E c : stream' = stream \/ stream' = [stream EXCEPT ![c] = <<>>]
    BY <1>4 DEF AddFails, HangUp, Close, CloseSent, SendReturns, HandshakeSent, Gone
  <2>2. stream \in [Conns -> Seq(Messages \X {1, 2})]
    BY DEF Typed, TypeOK
  <2> QED BY <1>1, <2>1, <2>2
<1>5. ASSUME NEW f \in Fds, NEW k \in Chunks(f),
             \/ HandleHttpRequest(f, k) \/ HandleWebSocketHandshake(f, k) \/ HandshakeFails(f, k)
             \/ Ping(f, k) \/ Ignored(f, k) \/ (Close(f, k) /\ Consume(conn[f], k))
      PROVE  Ordered'
  <2>1. PICK c \in Conns : c = conn[f] /\ k \in 1..Len(stream[c])
    BY ChunkOf DEF Typed
  <2>2. Consume(c, k) /\ sent' = sent /\ handled' = handled
    BY <1>5, <2>1 DEF HandleHttpRequest, HandleWebSocketHandshake, HandshakeFails, Ping, Ignored, Close, client
  <2> QED BY <2>1, <2>2, ConsumeOrder
<1>6. ASSUME NEW f \in Fds, NEW k \in Chunks(f), Text(f, k) PROVE Ordered'
  <2>1. PICK c \in Conns : c = conn[f] /\ k \in 1..Len(stream[c])
    BY ChunkOf DEF Typed
  <2>2. Consume(c, k) /\ sent' = sent
    BY <1>6, <2>1 DEF Text, client
  <2>3. CASE Torn(c)
    <3>1. handled' = handled
      BY <1>6, <2>1, <2>3 DEF Text, Typed, TypeOK
    <3> QED BY <2>1, <2>2, <3>1, ConsumeOrder
  <2>4. CASE ~Torn(c)
    <3>1. k >= 2 /\ handled' = [handled EXCEPT ![c] = Append(handled[c], No(c, 1))]
      BY <1>6, <2>1, <2>4 DEF Text, TakenFor, Complete, WholeFrame, No, Begun
    <3>2. First(c, 1)
      <4>1. stream[c][1] \in Messages \X {1, 2}
        BY <2>1, ChunkOf DEF Typed
      <4> QED BY <2>4, <4>1 DEF Torn, First
    <3> QED BY <2>1, <2>2, <3>1, <3>2, ConsumeOrder
  <2> QED BY <2>3, <2>4
<1>7. ASSUME NEW c \in Conns, NEW kind \in Requests, SendRequest(c, kind) PROVE Ordered'
  BY <1>7, SendOrder DEF SendRequest
<1>8. ASSUME NEW c \in Conns, NEW kind \in Frames, NEW len \in Lengths \cup {0}, SendFrame(c, kind, len)
      PROVE Ordered'
  BY <1>8, SendOrder DEF SendFrame
<1>9. \A f \in Fds : \A k \in Chunks(f) : Close(f, k) => CloseSent(f) \/ Consume(conn[f], k)
  BY DEF Close
<1>10. ASSUME NEW f \in Fds, NEW k \in Chunks(f), Close(f, k) PROVE Ordered'
  BY <1>4, <1>5, <1>9, <1>10
<1>11. CASE Blocked
  <2>1. ASSUME NEW f \in Fds, BlockedKills(f) PROVE Ordered'
    BY <1>3, <2>1 DEF Ends
  <2>2. ASSUME NEW f \in Fds, NEW next \in Afterwards, SendReturns(f, next) PROVE Ordered'
    BY <1>4, <2>2
  <2> QED BY <1>11, <2>1, <2>2 DEF Blocked
<1>12. CASE HandleEvent
  BY <1>2, <1>3, <1>4, <1>5, <1>6, <1>10, <1>12 DEF HandleEvent, Ends
<1> QED BY <1>2, <1>4, <1>7, <1>8, <1>11, <1>12 DEF Next, ServerStep

-----------------------------------------------------------------------------
(* Frames and upgrades *)

\* A step that adds nothing to the streams and takes no upgrade back.
LEMMA NothingNew ==
  ASSUME Upgrades, \A c \in Conns : upgraded[c] => upgraded'[c],
         \A c \in Conns : \A i \in 1..Len(stream'[c]) :
           \E j \in 1..Len(stream[c]) : stream'[c][i] = stream[c][j]
  PROVE  Upgrades'
<1> SUFFICES ASSUME NEW c \in Conns, NEW i \in 1..Len(stream'[c]), stream'[c][i][1].kind \in Frames
             PROVE  upgraded'[c]
  BY DEF Upgrades
<1>1. PICK j \in 1..Len(stream[c]) : stream'[c][i] = stream[c][j]
  OBVIOUS
<1> QED BY <1>1 DEF Upgrades

\* What is sent keeps the kinds apart.
LEMMA SendUpgrades ==
  ASSUME Typed, Upgrades, NEW c \in Conns, NEW kind \in Requests \cup Frames,
         NEW len \in Lengths \cup {0}, Send(c, kind, len), kind \in Frames => upgraded[c]
  PROVE  Upgrades'
<1> DEFINE m == [kind |-> kind, len |-> len, no |-> sent[c] + 1]
<1>1. /\ stream[c] \in Seq(Messages \X {1, 2}) /\ sent[c] \in Nat
      /\ stream'[c] = stream[c] \o <<<<m, 1>>, <<m, 2>>>>
      /\ \A d \in Conns \ {c} : stream'[d] = stream[d]
      /\ upgraded' = upgraded
  BY DEF Send, Typed, TypeOK
<1>2. m \in Messages
  BY <1>1 DEF Messages
<1>3. \A i \in 1..Len(stream'[c]) :
        \/ i \in 1..Len(stream[c]) /\ stream'[c][i] = stream[c][i]
        \/ stream'[c][i] = <<m, 1>>
        \/ stream'[c][i] = <<m, 2>>
  <2> HIDE DEF m
  <2> QED BY <1>1, <1>2
<1>4. \A i \in 1..Len(stream'[c]) : stream'[c][i][1].kind \in Frames => upgraded[c]
  BY <1>3 DEF Upgrades
<1> QED BY <1>1, <1>4 DEF Upgrades

LEMMA UpgradesStep == Typed /\ Upgrades /\ [Next]_vars => Upgrades'
<1> SUFFICES ASSUME Typed, Upgrades, [Next]_vars PROVE Upgrades'
  OBVIOUS
<1>1. ASSUME \A c \in Conns : upgraded[c] => upgraded'[c],
             \A c \in Conns : stream'[c] = stream[c] \/ stream'[c] = <<>>
      PROVE  Upgrades'
  <2>1. ASSUME NEW c \in Conns, NEW i \in 1..Len(stream'[c])
        PROVE  \E j \in 1..Len(stream[c]) : stream'[c][i] = stream[c][j]
    <3>1. stream'[c] # <<>>
      BY <2>1
    <3> QED BY <1>1, <3>1
  <2> QED BY <1>1, <2>1, NothingNew
<1>2. CASE \/ UNCHANGED vars \/ EpollWait \/ Accept \/ \E f \in Fds : Nothing(f)
           \/ \E c \in Conns : Connect(c) \/ StopReading(c)
  BY <1>1, <1>2 DEF vars, EpollWait, Accept, Nothing, Connect, StopReading, client
<1>3. CASE Ends
  BY <1>1, <1>3, EndsDies DEF Dies
<1>4. CASE \/ AddFails \/ (\E c \in Conns : HangUp(c))
           \/ \E f \in Fds : \/ \E k \in Chunks(f) : Close(f, k) /\ CloseSent(f)
                            \/ \E next \in Afterwards : SendReturns(f, next)
  <2>1. /\ upgraded' = upgraded \/ \E c : upgraded' = [upgraded EXCEPT ![c] = TRUE]
        /\ \E c : stream' = stream \/ stream' = [stream EXCEPT ![c] = <<>>]
    BY <1>4 DEF AddFails, HangUp, Close, CloseSent, SendReturns, HandshakeSent, Gone
  <2>2. stream \in [Conns -> Seq(Messages \X {1, 2})] /\ upgraded \in [Conns -> BOOLEAN]
    BY DEF Typed, TypeOK
  <2> QED BY <1>1, <2>1, <2>2
<1>5. ASSUME NEW f \in Fds, NEW k \in Chunks(f),
             \/ HandleHttpRequest(f, k) \/ HandleWebSocketHandshake(f, k) \/ HandshakeFails(f, k)
             \/ Text(f, k) \/ Ping(f, k) \/ Ignored(f, k) \/ (Close(f, k) /\ Consume(conn[f], k))
      PROVE  Upgrades'
  <2>1. PICK c \in Conns : c = conn[f] /\ k \in 1..Len(stream[c])
    BY ChunkOf DEF Typed
  <2>2. Consume(c, k)
    BY <1>5, <2>1 DEF HandleHttpRequest, HandleWebSocketHandshake, HandshakeFails, Text, Ping, Ignored, Close
  <2>3. \A d \in Conns : upgraded[d] => upgraded'[d]
    <3>1. upgraded' = upgraded \/ upgraded' = [upgraded EXCEPT ![c] = TRUE]
      BY <1>5, <2>1 DEF HandleHttpRequest, HandleWebSocketHandshake, HandshakeSent, HandshakeFails, Text, Ping,
                          Ignored, Close, client
    <3>2. upgraded \in [Conns -> BOOLEAN]
      BY DEF Typed, TypeOK
    <3> QED BY <3>1, <3>2
  <2>4. /\ stream[c] \in Seq(Messages \X {1, 2}) /\ k \in Nat /\ Len(stream[c]) \in Nat
        /\ stream'[c] = SubSeq(stream[c], k + 1, Len(stream[c]))
        /\ \A d \in Conns \ {c} : stream'[d] = stream[d]
    <3>1. stream \in [Conns -> Seq(Messages \X {1, 2})]
      BY DEF Typed, TypeOK
    <3> QED BY <2>1, <2>2, <3>1 DEF Consume
  <2>5. \A i \in 1..Len(stream'[c]) : k + i \in 1..Len(stream[c]) /\ stream'[c][i] = stream[c][k + i]
    BY <2>1, <2>4, Rest
  <2>6. ASSUME NEW d \in Conns, NEW i \in 1..Len(stream'[d])
        PROVE  \E j \in 1..Len(stream[d]) : stream'[d][i] = stream[d][j]
    <3>1. CASE d = c
      BY <2>5, <3>1
    <3>2. CASE d # c
      BY <2>4, <3>2
    <3> QED BY <3>1, <3>2
  <2> QED BY <2>3, <2>6, NothingNew
<1>6. ASSUME NEW c \in Conns, NEW kind \in Requests, SendRequest(c, kind) PROVE Upgrades'
  <2>1. kind \notin Frames
    BY DEF Requests, Frames
  <2> QED BY <1>6, <2>1, SendUpgrades DEF SendRequest
<1>7. ASSUME NEW c \in Conns, NEW kind \in Frames, NEW len \in Lengths \cup {0}, SendFrame(c, kind, len)
      PROVE Upgrades'
  BY <1>7, SendUpgrades DEF SendFrame
<1>8. \A f \in Fds : \A k \in Chunks(f) : Close(f, k) => CloseSent(f) \/ Consume(conn[f], k)
  BY DEF Close
<1> QED BY <1>2, <1>3, <1>4, <1>5, <1>6, <1>7, <1>8 DEF Next, ServerStep, HandleEvent, Blocked, Ends

\* The length is misread only where the low one of two bytes is a negative char.
Readable(n) == n < 126 \/ n % 256 < 128

\* The step that receives a whole text frame of a length that is read right.
LEMMA WholeFrameStep ==
  ASSUME Typed, Tables, Upgrades, Next, NEW f \in Fds, NEW k \in Chunks(f),
         Recv(f, k), Consume(conn[f], k), Begins(conn[f], {"text"}), WholeFrame(conn[f], k),
         Readable(Begun(conn[f]).len)
  PROVE  handled' # handled \/ ~alive'
<1> DEFINE c == conn[f]
<1> USE EpollAssumption
<1>1. /\ c \in Conns /\ c # None /\ k \in 1..Len(stream[c])
      /\ stream[c] \in Seq(Messages \X {1, 2}) /\ handled[c] \in Seq(Nat)
      /\ Begun(c) \in Messages
  BY ChunkOf DEF Typed, TypeOK
<1>2. ~Torn(c) /\ Begun(c).kind = "text" /\ Complete(c, k)
  BY DEF Begins, Complete, ParsedLength, Readable
<1>3. f \in ws
  <2>1. 1 \in 1..Len(stream[c])
    BY <1>1
  <2>2. upgraded[c]
    BY <1>1, <1>2, <2>1 DEF Upgrades, Begun, Frames
  <2> QED BY <1>1, <2>2 DEF Tables, WebSocketsAreOwn
<1>4. /\ batch' = batch \ {f} /\ f \in batch /\ backlog' = backlog
      /\ stream'[c] # stream[c]
  <2>1. Len(stream'[c]) = Len(stream[c]) - k /\ k \in Nat \ {0} /\ Len(stream[c]) \in Nat
    <3>1. stream'[c] = SubSeq(stream[c], k + 1, Len(stream[c]))
      BY <1>1 DEF Consume, Typed, TypeOK
    <3> QED BY <1>1, <3>1, Rest
  <2>2. stream'[c] # stream[c]
    BY <2>1
  <2> QED BY <2>2 DEF Recv, Handle, Turn
<1>5. /\ ~EpollWait /\ ~Accept /\ ~AddFails
      /\ \A g \in Fds : ~Nothing(g) /\ \A next \in Afterwards : ~SendReturns(g, next)
  <2>1. ~EpollWait
    BY <1>4 DEF EpollWait
  <2>2. ~Accept /\ ~AddFails
    <3>1. ListenFd \notin Fds
      BY DEF ListenFd
    <3> QED BY <1>4, <3>1 DEF Accept, AddFails, Handle
  <2>3. \A g \in Fds : ~Nothing(g) /\ \A next \in Afterwards : ~SendReturns(g, next)
    BY <1>4 DEF Nothing, SendReturns
  <2> QED BY <2>1, <2>2, <2>3
<1>6. CASE Ends
  BY <1>6, EndsDies DEF Dies
<1>7. ASSUME NEW g \in Fds, NEW j \in Chunks(g), Recv(g, j) PROVE g = f
  BY <1>4, <1>7 DEF Recv, Handle, Turn
<1>8. ASSUME NEW j \in Chunks(f), Text(f, j) PROVE handled' # handled
  <2>1. handled'[c] = Append(handled[c], Begun(c).no)
    BY <1>1, <1>2, <1>8 DEF Text, Typed, TypeOK
  <2>2. Len(handled'[c]) = Len(handled[c]) + 1 /\ Len(handled[c]) \in Nat
    BY <1>1, <2>1
  <2> QED BY <2>2
<1>9. ASSUME NEW j \in Chunks(f)
      PROVE  /\ ~HandleHttpRequest(f, j) /\ ~HandleWebSocketHandshake(f, j) /\ ~HandshakeFails(f, j)
             /\ ~Ping(f, j) /\ ~Close(f, j)
  BY <1>2 DEF HandleHttpRequest, HandleWebSocketHandshake, HandshakeFails, Ping, Close, WholeRequest,
              Begins, TakenFor, Requests
<1>10. ASSUME NEW j \in Chunks(f), Ignored(f, j) PROVE FALSE
  <2>1. j \in 1..Len(stream[c]) /\ Consume(c, j) /\ ~Complete(c, j)
    BY <1>1, <1>2, <1>3, <1>10 DEF Ignored, Chunks, Begins
  <2>2. Len(stream'[c]) = Len(stream[c]) - j /\ Len(stream'[c]) = Len(stream[c]) - k
    <3>1. stream \in [Conns -> Seq(Messages \X {1, 2})]
      BY DEF Typed, TypeOK
    <3>2. stream'[c] = SubSeq(stream[c], j + 1, Len(stream[c]))
      BY <1>1, <2>1, <3>1 DEF Consume
    <3>3. stream'[c] = SubSeq(stream[c], k + 1, Len(stream[c]))
      BY <1>1, <3>1 DEF Consume
    <3> QED BY <1>1, <2>1, <3>2, <3>3, Rest
  <2>3. j = k
    <3>1. Len(stream[c]) \in Nat /\ j \in Nat /\ k \in Nat
      BY <1>1, <2>1
    <3> QED BY <2>2, <3>1
  <2> QED BY <1>2, <2>1, <2>3
<1>11. ASSUME NEW d \in Conns,
              \/ Connect(d) \/ HangUp(d) \/ StopReading(d)
              \/ \E kind \in Requests : SendRequest(d, kind)
              \/ \E kind \in Frames, len \in Lengths \cup {0} : SendFrame(d, kind, len)
       PROVE  FALSE
  <2>1. batch' = batch
    BY <1>11 DEF Connect, HangUp, StopReading, SendRequest, SendFrame, Send
  <2> QED BY <1>4, <2>1
<1> QED
  <2>1. ASSUME NEW g \in Fds, NEW j \in Chunks(g),
               \/ HandleHttpRequest(g, j) \/ HandleWebSocketHandshake(g, j) \/ HandshakeFails(g, j)
               \/ Text(g, j) \/ Ping(g, j) \/ Close(g, j) \/ Ignored(g, j)
        PROVE  handled' # handled
    <3>1. g = f
      BY <1>7, <2>1 DEF HandleHttpRequest, HandleWebSocketHandshake, HandshakeFails, Text, Ping, Close, Ignored
    <3> QED BY <1>8, <1>9, <1>10, <2>1, <3>1
  <2> QED BY <1>5, <1>6, <1>11, <2>1 DEF Next, ServerStep, HandleEvent, Blocked, Ends

-----------------------------------------------------------------------------
(* Theorems *)

\* The strengthened invariant holds in every reachable state.
THEOREM Invariance == Spec => [](Typed /\ Tables /\ Ordered /\ Upgrades)
<1>1. Init => Upgrades
  <2> SUFFICES ASSUME Init PROVE Upgrades
    OBVIOUS
  <2>1. \A c \in Conns : Len(stream[c]) = 0
    BY DEF Init
  <2>2. 1..0 = {}
    OBVIOUS
  <2> QED BY <2>1, <2>2 DEF Upgrades
<1> QED BY <1>1, InitInv, TypeStep, TablesStep, OrderStep, UpgradesStep, PTL DEF Spec

\* Type correctness of the web server.
THEOREM TypeCorrect == Spec => []TypeOK
BY Invariance, PTL DEF Typed

\* Every descriptor in use has its own connection's session
\* (EpollServer.cpp:158-190, SessionManager.cpp:11-19), although a close frame
\* leaves a session behind and descriptors are used again.
THEOREM SessionsAreOwn == Spec => []SessionIsOwn
BY Invariance, PTL DEF Tables

\* _wsConnections holds exactly the descriptors whose present connection is
\* upgraded (EpollServer.cpp:189, 468, 608).
THEOREM NoInheritance == Spec => []WebSocketsAreOwn
BY Invariance, PTL DEF Tables

\* When all lengths are read right, every whole text frame a recv puts into
\* the buffer is handled (EpollServer.cpp:531-586): the sign of the length
\* bytes is the only reason why one is dropped.
THEOREM ReadableFramesAreHandled ==
  (\A n \in Lengths : Readable(n)) => (Spec => WholeFrameIsHandled)
<1> SUFFICES ASSUME \A n \in Lengths : Readable(n) PROVE Spec => WholeFrameIsHandled
  OBVIOUS
<1>1. ASSUME Typed, Tables, Upgrades, [Next]_vars
      PROVE  [\A f \in Fds : \A k \in Chunks(f) :
                /\ Recv(f, k) /\ Consume(conn[f], k)
                /\ Begins(conn[f], {"text"}) /\ WholeFrame(conn[f], k)
                => handled' # handled \/ ~alive']_vars
  <2> SUFFICES ASSUME Next, NEW f \in Fds, NEW k \in Chunks(f), Recv(f, k), Consume(conn[f], k),
                      Begins(conn[f], {"text"}), WholeFrame(conn[f], k)
               PROVE  handled' # handled \/ ~alive'
    BY <1>1
  <2>1. Readable(Begun(conn[f]).len)
    <3>1. Begun(conn[f]).len \in Lengths \cup {0}
      BY <1>1, ChunkOf DEF Messages, Typed
    <3> QED BY <3>1 DEF Readable
  <2> QED BY <1>1, <2>1, WholeFrameStep
<1> QED BY <1>1, Invariance, PTL DEF Spec, WholeFrameIsHandled

\* The frames of a client reach the handler in order and at most once
\* (EpollServer.cpp:178-249, 531-586), however the stream is cut.
THEOREM FramesInOrder == Spec => []HandledInOrder
<1>1. Ordered => HandledInOrder
  BY DEF Ordered, InOrder, HandledInOrder
<1> QED BY <1>1, Invariance, PTL
=============================================================================
