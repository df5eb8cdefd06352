-------------------------- MODULE LogPipelineProofs --------------------------
(***************************************************************************)
(* Theorems about LogPipeline, for any clients, workers and pool, and for  *)
(* logs of any length.                                                     *)
(***************************************************************************)
EXTENDS LogPipeline, SequenceTheorems, TLAPS

\* No element twice.
NoRepeats(s) == \A i, j \in 1..Len(s) : s[i] = s[j] => i = j

\* A client has read no line that is not there.
AtIsRead == Len(lines) <= MaxLines /\ \A c \in Clients : at[c] <= Len(lines)

\* What is on its way to the server or about to be filtered is later than
\* what was taken, message by message, and the client has read all of it.
Taken(c) == {n \in 1..MaxLines : <<c, n>> \in Elems(accepted)}
Begins(c, i) == i \in 1..Len(up[c]) /\ up[c][i][2] = 1
Parsing == {"conn", "filter"}

Ahead == \A c \in Clients :
  /\ \A n \in Taken(c) : n <= at[c]
  /\ \A i \in 1..Len(up[c]) : Begins(c, i) =>
       /\ up[c][i][1] <= at[c]
       /\ \A n \in Taken(c) : n < up[c][i][1]
       /\ spc[c] \in Parsing => msg[c] < up[c][i][1]
       /\ \A j \in 1..Len(up[c]) : i < j /\ Begins(c, j) => up[c][i][1] < up[c][j][1]
  /\ spc[c] \in Parsing => /\ 0 < msg[c] /\ msg[c] <= at[c]
                           /\ \A n \in Taken(c) : n < msg[c]

\* The lines taken from a client have a last one.
HasLast == \A c \in Clients :
  Taken(c) = {} \/ \E n \in Taken(c) : \A m \in Taken(c) : m <= n

\* A task is in one place: in the queue, in one hand, stored or dropped.
Queued == Elems(taskQueue)
Placed ==
  /\ rows \cup dropped \cup Queued \subseteq Elems(accepted)
  /\ rows \cap dropped = {}
  /\ NoRepeats(taskQueue) /\ Queued \cap (rows \cup dropped) = {}
  /\ \A w \in Workers : hand[w] # None =>
       /\ hand[w] \in Elems(accepted) \ (rows \cup dropped \cup Queued)
       /\ \A v \in Workers : hand[v] = hand[w] => v = w
  /\ \A w \in Workers : w \in held => hand[w] # None

\* While every read was a message and every recv an answer, client and
\* thread go in step.
Done(c, k) == \A n \in 1..k : Storable(n) => <<c, n>> \in Elems(accepted)
InPhase(c) ==
  \/ cpc[c] = "gone"
  \/ /\ cpc[c] = "unborn" /\ spc[c] = "none"
     /\ up[c] = <<>> /\ down[c] = 0 /\ at[c] = 0
  \/ /\ cpc[c] \in {"open", "tail"} /\ spc[c] = "read"
     /\ up[c] = <<>> /\ down[c] = 0 /\ at[c] >= 0 /\ Done(c, at[c])
  \/ /\ cpc[c] = "recv" /\ at[c] >= 1
     /\ \/ spc[c] = "read" /\ up[c] = Message(at[c]) /\ down[c] = 0 /\ Done(c, at[c] - 1)
        \/ spc[c] \in Parsing /\ msg[c] = at[c] /\ up[c] = <<>> /\ down[c] = 0 /\ Done(c, at[c] - 1)
        \/ spc[c] \in {"release", "answer"} /\ up[c] = <<>> /\ down[c] = 0 /\ Done(c, at[c])
        \/ spc[c] = "read" /\ up[c] = <<>> /\ down[c] = 1 /\ Done(c, at[c])
InStep == \A c \in Clients : (env.format = "html" /\ whole[c]) => InPhase(c)

IInv == TypeOK /\ AtIsRead /\ Ahead /\ HasLast /\ Placed /\ InStep

-----------------------------------------------------------------------------
(* The sequences used as queues *)

\* The elements of a sequence after Append.
LEMMA AppendElements ==
  ASSUME NEW S, NEW s \in Seq(S), NEW x \in S
  PROVE  /\ Append(s, x) \in Seq(S)
         /\ Elems(Append(s, x)) = Elems(s) \cup {x}
         /\ Len(Append(s, x)) = Len(s) + 1
         /\ \A i \in 1..Len(s) : Append(s, x)[i] = s[i]
         /\ x \notin Elems(s) /\ NoRepeats(s) => NoRepeats(Append(s, x))
<1>1. /\ Append(s, x) \in Seq(S) /\ Len(Append(s, x)) = Len(s) + 1 /\ Len(s) \in Nat
      /\ \A i \in 1..Len(s) : Append(s, x)[i] = s[i]
      /\ Append(s, x)[Len(s) + 1] = x
  OBVIOUS
<1>2. 1..(Len(s) + 1) = 1..Len(s) \cup {Len(s) + 1} /\ Len(s) + 1 \notin 1..Len(s)
  BY <1>1
<1>3. Elems(Append(s, x)) = Elems(s) \cup {x}
  BY <1>1, <1>2 DEF Elems
<1>4. x \notin Elems(s) /\ NoRepeats(s) => NoRepeats(Append(s, x))
  BY <1>1, <1>2 DEF Elems, NoRepeats
<1> QED BY <1>1, <1>3, <1>4

-----------------------------------------------------------------------------
(* Lemmas about the parts of the model *)

Pieces == (0..MaxLines) \X {1, 2}

LEMMA MessageType ==
  ASSUME NEW n \in 0..MaxLines
  PROVE  /\ Message(n) \in Seq(Pieces) /\ Len(Message(n)) = 2
         /\ Message(n)[1] = <<n, 1>> /\ Message(n)[2] = <<n, 2>>
<1>1. <<n, 1>> \in Pieces /\ <<n, 2>> \in Pieces
  BY DEF Pieces
<1> QED BY <1>1 DEF Message

\* The end of a stream that grew by two.
LEMMA ConcatTwo ==
  ASSUME NEW S, NEW s \in Seq(S), NEW m \in Seq(S)
  PROVE  Len(m) = 2 =>
         /\ s \o m \in Seq(S) /\ Len(s \o m) = Len(s) + 2
         /\ \A i \in 1..Len(s) : (s \o m)[i] = s[i]
         /\ (s \o m)[Len(s) + 1] = m[1] /\ (s \o m)[Len(s) + 2] = m[2]
<1> DEFINE k == Len(s)  l == Len(m)  t == s \o m
<1>1. /\ t \in Seq(S) /\ k \in Nat /\ l \in Nat /\ Len(t) = k + l
      /\ \A i \in 1..(k + l) : t[i] = IF i <= k THEN s[i] ELSE m[i - k]
  BY ConcatProperties
<1> HIDE DEF k, l, t
<1>2. l = 2 => /\ Len(t) = k + 2 /\ \A i \in 1..k : t[i] = s[i]
               /\ t[k + 1] = m[1] /\ t[k + 2] = m[2]
  BY <1>1
<1> QED BY <1>1, <1>2 DEF k, l, t

\* The stream after a message was sent.
LEMMA SendPieces ==
  ASSUME NEW s \in Seq(Pieces), NEW n \in 0..MaxLines
  PROVE  /\ s \o Message(n) \in Seq(Pieces)
         /\ Len(s \o Message(n)) = Len(s) + 2
         /\ \A i \in 1..Len(s) : (s \o Message(n))[i] = s[i]
         /\ (s \o Message(n))[Len(s) + 1] = <<n, 1>>
         /\ (s \o Message(n))[Len(s) + 2] = <<n, 2>>
BY MessageType, ConcatTwo

\* The stream after k pieces were read.
LEMMA ReadPieces ==
  ASSUME NEW s \in Seq(Pieces), NEW k \in 1..Len(s)
  PROVE  /\ SubSeq(s, 1, k) \in Seq(Pieces) /\ Len(SubSeq(s, 1, k)) = k
         /\ \A i \in 1..k : SubSeq(s, 1, k)[i] = s[i]
         /\ SubSeq(s, k + 1, Len(s)) \in Seq(Pieces)
         /\ Len(SubSeq(s, k + 1, Len(s))) = Len(s) - k
         /\ \A i \in 1..(Len(s) - k) : SubSeq(s, k + 1, Len(s))[i] = s[k + i]
OBVIOUS

\* What the expression finds is the line of a message that begins in what
\* was read, or nothing.
LEMMA ParsedIsBegun ==
  ASSUME NEW chunk \in Seq(Pieces), NEW n \in Parsed(chunk)
  PROVE  /\ n \in 0..MaxLines
         /\ n # 0 => \E i \in 1..Len(chunk) : chunk[i][2] = 1 /\ chunk[i][1] = n
<1> DEFINE first == {i \in 1..Len(chunk) :
                       chunk[i][2] = 1 /\ \A j \in 1..(i - 1) : chunk[j][2] = 2}
           found(i) == IF i < Len(chunk) THEN {chunk[i][1]} ELSE {0, chunk[i][1]}
           some == UNION {found(i) : i \in first}
<1>1. n = 0 \/ \E i \in 1..Len(chunk) : chunk[i][2] = 1 /\ chunk[i][1] = n
  <2>1. n \in {0} \/ n \in some
    BY Zenon DEF Parsed
  <2>2. \A i \in first : \A m \in found(i) : m = 0 \/ m = chunk[i][1]
    OBVIOUS
  <2> HIDE DEF found
  <2>3. n \in some => \E i \in first : n \in found(i)
    OBVIOUS
  <2> HIDE DEF some
  <2>4. n = 0 \/ \E i \in first : n \in found(i)
    BY <2>1, <2>3
  <2> QED BY <2>2, <2>4
<1>2. \A i \in 1..Len(chunk) : chunk[i][1] \in 0..MaxLines
  BY DEF Pieces
<1> QED BY <1>1, <1>2, PipelineAssumption

\* In a message that was read as a whole it finds its line.
LEMMA ParsedWhole ==
  ASSUME NEW n \in 0..MaxLines, env.format = "html", NEW m \in Parsed(Message(n))
  PROVE  m = n
<1> DEFINE chunk == Message(n)
           first == {i \in 1..Len(chunk) :
                       chunk[i][2] = 1 /\ \A j \in 1..(i - 1) : chunk[j][2] = 2}
<1>1. Len(chunk) = 2 /\ chunk[1][1] = n /\ chunk[1][2] = 1 /\ chunk[2][2] = 2
  BY MessageType
<1>2. first = {1}
  BY <1>1
<1>3. Parsed(Message(n)) = UNION {IF i < Len(chunk) THEN {chunk[i][1]} ELSE {0, chunk[i][1]} : i \in first}
  BY <1>2, Zenon DEF Parsed
<1> QED BY <1>1, <1>2, <1>3

LEMMA FirstNewIsNew ==
  ASSUME TypeOK, NEW c \in Clients, at[c] < Len(lines)
  PROVE  FirstNew(c) \in Nat /\ at[c] < FirstNew(c) /\ FirstNew(c) <= Len(lines)
<1>1. at[c] \in -1..MaxLines /\ Len(lines) \in Nat /\ (lines = <<>> <=> Len(lines) = 0)
  BY DEF TypeOK
<1> QED BY <1>1 DEF FirstNew
-----------------------------------------------------------------------------
(* Type correctness *)

LEMMA TypeInit == Init => TypeOK
BY PipelineAssumption DEF Init, TypeOK

\* Moving a client or its thread keeps the types of their labels.
ClientLabels == {"unborn", "open", "tail", "recv", "gone"}
ThreadLabels == {"none", "read", "conn", "filter", "release", "answer", "closed"}

LEMMA TypeStep == TypeOK /\ Ahead /\ Placed /\ [Next]_vars => TypeOK'
<1> SUFFICES ASSUME TypeOK, Ahead, Placed, [Next]_vars PROVE TypeOK'
  OBVIOUS
<1> USE PipelineAssumption
<1>1. CASE OpenLog \/ StartLog
  BY <1>1 DEF OpenLog, StartLog, TypeOK, clientVars, netVars, threadVars, dbVars
<1>2. CASE Log
  <2>1. lines' \in Seq(Levels)
    BY <1>2 DEF Log, TypeOK
  <2> QED BY <1>2, <2>1 DEF Log, TypeOK, clientVars, netVars, threadVars, dbVars
<1>3. ASSUME NEW c \in Clients, Connect(c) \/ Kill(c) PROVE TypeOK'
  <2>1. /\ cpc' \in [Clients -> ClientLabels] /\ spc' \in [Clients -> ThreadLabels]
        /\ UNCHANGED <<fileVars, at, netVars, msg, serverUp, held, dbVars, accepted>>
    <3>1. CASE Connect(c)
      BY <3>1 DEF Connect, Goto, SGoto, TypeOK, ClientLabels, ThreadLabels
    <3>2. CASE Kill(c)
      BY <3>2 DEF Kill, threadVars, TypeOK, ClientLabels, ThreadLabels
    <3> QED BY <1>3, <3>1, <3>2
  <2> QED BY <2>1 DEF TypeOK, ClientLabels, ThreadLabels, fileVars, netVars, dbVars
<1>4. ASSUME NEW c \in Clients, ClientStep(c) PROVE TypeOK'
  <2>1. CASE Open(c) \/ OpenFails(c) \/ EndOfFile(c) \/ ReceiveFails(c)
    BY <2>1 DEF Open, OpenFails, EndOfFile, ReceiveFails, Goto, TypeOK, fileVars, netVars, threadVars, dbVars
  <2>2. ASSUME NEW n \in 0..MaxLines, NEW last \in 0..MaxLines, Send(c, n, last) PROVE TypeOK'
    <3> DEFINE t == up[c] \o Message(n)
    <3>1. t \in Seq(Pieces) /\ up \in [Clients -> Seq(Pieces)]
      BY SendPieces DEF TypeOK, Pieces
    <3>2. up' \in [Clients -> Seq(Pieces)]
      <4>1. up' = [up EXCEPT ![c] = t]
        BY <2>2 DEF Send
      <4> HIDE DEF t
      <4> QED BY ONLY <3>1, <4>1
    <3>3. at' \in [Clients -> -1..MaxLines] /\ cpc' \in [Clients -> ClientLabels]
      BY <2>2 DEF Send, Goto, TypeOK, ClientLabels
    <3> QED BY <2>2, <3>2, <3>3 DEF Send, TypeOK, Pieces, ClientLabels, fileVars, threadVars, dbVars
  <2>3. CASE NextLine(c) \/ Poll(c)
    <3>1. Len(lines) \in Nat /\ at[c] \in -1..MaxLines /\ env.reads[c] \in 0..MaxLines
      BY DEF TypeOK
    <3>2. CASE NextLine(c)
      <4>1. Send(c, at[c] + 1, at[c] + 1) /\ at[c] + 1 <= env.reads[c]
        BY <3>2 DEF NextLine, Send
      <4>2. at[c] + 1 \in 0..MaxLines
        BY <3>1, <4>1
      <4> QED BY <2>2, <4>1, <4>2
    <3>3. CASE Poll(c)
      <4>1. Send(c, FirstNew(c), Len(lines)) /\ Len(lines) <= env.reads[c] /\ at[c] < Len(lines)
        BY <3>3 DEF Poll, Send
      <4>2. FirstNew(c) \in 0..MaxLines /\ Len(lines) \in 0..MaxLines
        BY <3>1, <4>1, FirstNewIsNew
      <4> QED BY <2>2, <4>1, <4>2
    <3> QED BY <2>3, <3>2, <3>3
  <2>4. ASSUME NEW k \in 0..down[c], Receive(c, k) PROVE TypeOK'
    <3>1. /\ cpc' = [cpc EXCEPT ![c] = "tail"] /\ down' = [down EXCEPT ![c] = down[c] - k]
          /\ whole' = [whole EXCEPT ![c] = whole[c] /\ k = 1]
          /\ UNCHANGED <<fileVars, at, up, reset, threadVars, serverUp, held, dbVars, accepted>>
      BY <2>4 DEF Receive, Goto
    <3>2. cpc' \in [Clients -> ClientLabels]
      BY <3>1 DEF TypeOK, ClientLabels
    <3>3. down' \in [Clients -> Nat]
      <4>1. down \in [Clients -> Nat]
        BY DEF TypeOK
      <4>2. down[c] - k \in Nat
        BY <4>1
      <4> QED BY ONLY <3>1, <4>1, <4>2
    <3>4. whole' \in [Clients -> BOOLEAN]
      BY <3>1, Zenon DEF TypeOK
    <3> QED BY <3>1, <3>2, <3>3, <3>4 DEF TypeOK, ClientLabels, fileVars, threadVars, dbVars
  <2> QED BY <1>4, <2>1, <2>3, <2>4 DEF ClientStep
<1>5. ASSUME NEW c \in Clients, ThreadStep(c) PROVE TypeOK'
  <2>1. ASSUME NEW k \in 1..Len(up[c]), Read(c, k) PROVE TypeOK'
    <3> DEFINE s == up[c]
    <3>1. s \in Seq(Pieces)
      BY DEF TypeOK, Pieces
    <3>2. SubSeq(s, 1, k) \in Seq(Pieces) /\ SubSeq(s, k + 1, Len(s)) \in Seq(Pieces)
      BY <3>1, ReadPieces
    <3>3. up' \in [Clients -> Seq(Pieces)]
      BY <2>1, <3>2 DEF Read, TypeOK, Pieces
    <3>4. PICK n \in Parsed(SubSeq(s, 1, k)) :
             /\ msg' = [msg EXCEPT ![c] = n]
             /\ SGoto(c, "read", IF n = 0 THEN "answer" ELSE "conn")
      BY <2>1 DEF Read
    <3>5. n \in 0..MaxLines
      BY <3>2, ParsedIsBegun
    <3>6. msg' \in [Clients -> 0..MaxLines] /\ spc' \in [Clients -> ThreadLabels]
      BY <3>4, <3>5 DEF SGoto, TypeOK, ThreadLabels
    <3>7. whole' \in [Clients -> BOOLEAN]
      BY <2>1, Zenon DEF Read, TypeOK
    <3> QED BY <2>1, <3>3, <3>6, <3>7 DEF Read, TypeOK, Pieces, ThreadLabels, fileVars, clientVars, dbVars
  <2>2. CASE ReadEnds(c)
    <3>1. /\ spc' = [spc EXCEPT ![c] = "closed"] /\ up' = [up EXCEPT ![c] = <<>>]
          /\ UNCHANGED <<fileVars, clientVars, down, reset, whole, msg, serverUp, held, dbVars,
                         accepted>>
      BY <2>2 DEF ReadEnds, SGoto
    <3>2. spc' \in [Clients -> ThreadLabels]
      BY <3>1 DEF TypeOK, ThreadLabels
    <3>3. up' \in [Clients -> Seq(Pieces)]
      BY <3>1 DEF TypeOK, Pieces
    <3> QED BY <3>1, <3>2, <3>3 DEF TypeOK, Pieces, ThreadLabels, fileVars, clientVars, dbVars
  <2>3. CASE TakeConn(c) \/ Release(c)
    <3>1. spc' \in [Clients -> ThreadLabels] /\ held' \subseteq Clients \cup Workers
      <4>1. spc' = [spc EXCEPT ![c] = "filter"] \/ spc' = [spc EXCEPT ![c] = "answer"]
        BY <2>3 DEF TakeConn, Release, SGoto
      <4>2. held' = held \cup {c} \/ held' = held \/ held' = held \ {c}
        BY <2>3 DEF TakeConn, Release
      <4> QED BY <4>1, <4>2 DEF TypeOK, ThreadLabels
    <3>2. UNCHANGED <<fileVars, clientVars, netVars, msg, serverUp, dbVars, accepted>>
      BY <2>3 DEF TakeConn, Release
    <3> QED BY <3>1, <3>2 DEF TypeOK, ThreadLabels, fileVars, clientVars, netVars, dbVars
  <2>4. CASE Filter(c)
    <3>1. UNCHANGED <<taskQueue, accepted>> \/
          /\ taskQueue' = Append(taskQueue, <<c, msg[c]>>)
          /\ accepted' = Append(accepted, <<c, msg[c]>>)
      BY <2>4 DEF Filter
    <3>2. <<c, msg[c]>> \in Tasks
      BY <2>4 DEF Filter, SGoto, Ahead, Parsing, TypeOK, Tasks
    <3>3. taskQueue' \in Seq(Tasks) /\ accepted' \in Seq(Tasks)
      <4>1. taskQueue \in Seq(Tasks) /\ accepted \in Seq(Tasks)
        BY DEF TypeOK
      <4>2. Append(taskQueue, <<c, msg[c]>>) \in Seq(Tasks) /\ Append(accepted, <<c, msg[c]>>) \in Seq(Tasks)
        BY <3>2, <4>1, AppendElements
      <4> QED BY <3>1, <4>1, <4>2
    <3> QED BY <2>4, <3>3 DEF Filter, SGoto, TypeOK, Tasks, fileVars, clientVars, netVars
  <2>5. CASE Answer(c) \/ AnswerKills(c)
    <3>1. CASE Answer(c)
      <4>1. /\ spc' \in [Clients -> ThreadLabels] /\ msg' \in [Clients -> 0..MaxLines]
            /\ down' \in [Clients -> Nat] /\ reset' \in [Clients -> BOOLEAN]
        <5>1. /\ spc' = [spc EXCEPT ![c] = "read"] /\ msg' = [msg EXCEPT ![c] = 0]
              /\ \/ reset' = [reset EXCEPT ![c] = TRUE] /\ down' = down
                 \/ down' = [down EXCEPT ![c] = @ + 1] /\ reset' = reset
          BY <3>1 DEF Answer, SGoto
        <5>2. spc' \in [Clients -> ThreadLabels] /\ msg' \in [Clients -> 0..MaxLines]
          <6>1. spc' \in [Clients -> ThreadLabels]
            BY <5>1 DEF TypeOK, ThreadLabels
          <6>2. msg' \in [Clients -> 0..MaxLines]
            <7>1. msg \in [Clients -> 0..MaxLines] /\ 0 \in 0..MaxLines
              BY DEF TypeOK
            <7> QED BY ONLY <5>1, <7>1
          <6> QED BY <6>1, <6>2
        <5>3. down' \in [Clients -> Nat]
          <6>1. down \in [Clients -> Nat]
            BY DEF TypeOK
          <6>2. down' = down \/ down' = [down EXCEPT ![c] = @ + 1]
            BY <5>1
          <6> QED BY ONLY <6>1, <6>2, c \in Clients
        <5>4. reset' \in [Clients -> BOOLEAN]
          BY <5>1, Zenon DEF TypeOK
        <5> QED BY <5>2, <5>3, <5>4
      <4> QED BY <3>1, <4>1 DEF Answer, TypeOK, ThreadLabels, fileVars, clientVars, dbVars
    <3>2. CASE AnswerKills(c)
      BY <3>2 DEF AnswerKills, TypeOK, fileVars, clientVars, netVars, threadVars, dbVars
    <3> QED BY <2>5, <3>1, <3>2
  <2> QED BY <1>5, <2>1, <2>2, <2>3, <2>4, <2>5 DEF ThreadStep
<1>6. ASSUME NEW w \in Workers, WorkerStep(w) PROVE TypeOK'
  <2>1. CASE Pop(w)
    BY <2>1 DEF Pop, TypeOK, fileVars, clientVars, netVars, threadVars
  <2>2. CASE GetConn(w)
    <3>1. /\ held' \subseteq Clients \cup Workers /\ dropped' \subseteq Tasks
          /\ hand' \in [Workers -> Tasks \cup {None}]
      <4>1. hand[w] \in Tasks
        BY <2>2 DEF GetConn, TypeOK
      <4>2. CASE held' = held \cup {w} /\ UNCHANGED <<hand, dropped>>
        BY <4>2 DEF TypeOK
      <4>3. CASE dropped' = dropped \cup {hand[w]} /\ hand' = [hand EXCEPT ![w] = None] /\ UNCHANGED held
        BY <4>1, <4>3 DEF TypeOK
      <4> QED BY <2>2, <4>2, <4>3 DEF GetConn
    <3> QED BY <2>2, <3>1 DEF GetConn, TypeOK, fileVars, clientVars, netVars, threadVars
  <2>3. CASE Write(w)
    <3>1. hand[w] \in Tasks
      BY <2>3 DEF Write, TypeOK, Placed
    <3>2. rows' \subseteq Tasks /\ dropped' \subseteq Tasks
      BY <2>3, <3>1 DEF Write, TypeOK
    <3>3. held' \subseteq Clients \cup Workers /\ hand' \in [Workers -> Tasks \cup {None}]
      BY <2>3 DEF Write, TypeOK
    <3> QED BY <2>3, <3>2, <3>3 DEF Write, TypeOK, fileVars, clientVars, netVars, threadVars
  <2> QED BY <1>6, <2>1, <2>2, <2>3 DEF WorkerStep
<1>7. CASE UNCHANGED vars
  BY <1>7 DEF vars, TypeOK, fileVars, clientVars, netVars, threadVars, dbVars
<1> QED BY <1>1, <1>2, <1>3, <1>4, <1>5, <1>6, <1>7 DEF Next
-----------------------------------------------------------------------------
(* The order of what is taken *)

\* Steps that send, read and take nothing.
LEMMA AheadFrame ==
  ASSUME Ahead, UNCHANGED <<accepted, at, up>>,
         \A c \in Clients : spc'[c] \in Parsing => spc[c] \in Parsing /\ msg'[c] = msg[c]
  PROVE  Ahead'
<1>1. \A c \in Clients : Taken(c)' = Taken(c) /\ up'[c] = up[c] /\ at'[c] = at[c]
  BY DEF Taken, Elems
<1> QED BY <1>1 DEF Ahead, Begins

LEMMA HasLastFrame == ASSUME HasLast, UNCHANGED accepted PROVE HasLast'
<1>1. \A c \in Clients : Taken(c)' = Taken(c)
  BY DEF Taken, Elems
<1> QED BY <1>1 DEF HasLast

\* Send: the new message is later than all that was read before it.
LEMMA AheadSend ==
  ASSUME TypeOK, Ahead, NEW c \in Clients, NEW n \in 0..MaxLines, NEW last \in 0..MaxLines,
         at[c] < n, n <= last, Send(c, n, last)
  PROVE  Ahead'
<1>1. /\ at' = [at EXCEPT ![c] = last] /\ up' = [up EXCEPT ![c] = @ \o Message(n)]
      /\ spc' = spc /\ msg' = msg /\ accepted' = accepted
  BY DEF Send, threadVars
<1>2. at[c] \in Int /\ up[c] \in Seq(Pieces) /\ msg[c] \in Nat /\ Len(up[c]) \in Nat
  BY DEF TypeOK, Pieces
<1>3. \A d \in Clients : Taken(d)' = Taken(d)
  BY <1>1 DEF Taken, Elems
<1> DEFINE s == up[c]  t == up'[c]
<1>4. /\ Len(t) = Len(s) + 2 /\ \A i \in 1..Len(s) : t[i] = s[i]
      /\ t[Len(s) + 1] = <<n, 1>> /\ t[Len(s) + 2] = <<n, 2>>
  <2>1. t = s \o Message(n)
    BY <1>1 DEF TypeOK
  <2> HIDE DEF t
  <2> QED BY <1>2, <2>1, SendPieces
<1>5. \A i \in 1..Len(t) : t[i][2] = 1 => (i \in 1..Len(s) /\ t[i] = s[i]) \/ (i = Len(s) + 1 /\ t[i][1] = n)
  <2> HIDE DEF s, t
  <2> SUFFICES ASSUME NEW i \in 1..Len(t), t[i][2] = 1
      PROVE (i \in 1..Len(s) /\ t[i] = s[i]) \/ (i = Len(s) + 1 /\ t[i][1] = n)
    OBVIOUS
  <2>1. Len(s) \in Nat
    BY <1>2 DEF s
  <2>2. i \in 1..Len(s) \/ i = Len(s) + 1 \/ i = Len(s) + 2
    BY <1>4, <2>1
  <2> QED BY <1>4, <2>2
<1>6. \A i \in 1..Len(s) : s[i][2] = 1 => s[i][1] <= at[c] /\ s[i][1] \in Nat
  <2>1. \A i \in 1..Len(s) : s[i] \in Pieces
    BY <1>2
  <2>2. \A i \in 1..Len(s) : s[i][1] \in Nat
    BY <2>1, PipelineAssumption DEF Pieces
  <2>3. \A i \in 1..Len(s) : s[i][2] = 1 => s[i][1] <= at[c]
    BY DEF Ahead, Begins
  <2> QED BY <2>2, <2>3
<1>7. \A d \in Clients : d # c => at'[d] = at[d] /\ up'[d] = up[d]
  BY <1>1 DEF TypeOK
<1>8. at'[c] = last
  BY <1>1 DEF TypeOK
<1> SUFFICES ASSUME NEW d \in Clients
    PROVE  /\ \A m \in Taken(d) : m <= at'[d]
           /\ \A i \in 1..Len(up'[d]) : up'[d][i][2] = 1 =>
                /\ up'[d][i][1] <= at'[d]
                /\ \A m \in Taken(d) : m < up'[d][i][1]
                /\ spc[d] \in Parsing => msg[d] < up'[d][i][1]
                /\ \A j \in 1..Len(up'[d]) : i < j /\ up'[d][j][2] = 1 => up'[d][i][1] < up'[d][j][1]
           /\ spc[d] \in Parsing => /\ 0 < msg[d] /\ msg[d] <= at'[d]
                                    /\ \A m \in Taken(d) : m < msg[d]
  BY <1>1, <1>3 DEF Ahead, Begins
<1>9. CASE d # c
  BY <1>7, <1>9 DEF Ahead, Begins
<1>10. CASE d = c
  <2>1. \A m \in Taken(c) : m \in Nat /\ m <= at[c] /\ m < n /\ m <= last
    BY <1>2 DEF Ahead, Taken
  <2>2. spc[c] \in Parsing => msg[c] <= at[c] /\ msg[c] < n /\ msg[c] <= last
    BY <1>2 DEF Ahead
  <2>3. \A i \in 1..Len(s) : s[i][2] = 1 =>
          /\ s[i][1] <= last
          /\ \A m \in Taken(c) : m < s[i][1]
          /\ spc[c] \in Parsing => msg[c] < s[i][1]
          /\ s[i][1] < n
    BY <1>2, <1>6 DEF Ahead, Begins
  <2>4. \A i, j \in 1..Len(s) : i < j /\ s[i][2] = 1 /\ s[j][2] = 1 => s[i][1] < s[j][1]
    BY DEF Ahead, Begins
  <2>5. ASSUME NEW i \in 1..Len(t), t[i][2] = 1
        PROVE  /\ t[i][1] <= last
               /\ \A m \in Taken(c) : m < t[i][1]
               /\ spc[c] \in Parsing => msg[c] < t[i][1]
    BY <1>5, <2>1, <2>2, <2>3, <2>5
  <2>6. ASSUME NEW i \in 1..Len(t), t[i][2] = 1, NEW j \in 1..Len(t), i < j, t[j][2] = 1
        PROVE  t[i][1] < t[j][1]
    <3>1. i \in 1..Len(s) /\ t[i] = s[i]
      <4> HIDE DEF s, t
      <4>1. Len(s) \in Nat /\ Len(t) = Len(s) + 2
        BY <1>2, <1>4 DEF s
      <4>2. j <= Len(s) + 1
        BY <1>5, <2>6, <4>1
      <4>3. i # Len(s) + 1
        BY <2>6, <4>1, <4>2
      <4> QED BY <1>5, <2>6, <4>3
    <3> QED BY <1>5, <2>3, <2>4, <2>6, <3>1
  <2>7. spc[c] \in Parsing => 0 < msg[c] /\ \A m \in Taken(c) : m < msg[c]
    BY DEF Ahead
  <2> QED BY <1>8, <1>10, <2>1, <2>2, <2>5, <2>6, <2>7
<1> QED BY <1>9, <1>10

\* Read: what is found comes before what is left.
LEMMA AheadRead ==
  ASSUME TypeOK, Ahead, NEW c \in Clients, NEW k \in 1..Len(up[c]), Read(c, k)
  PROVE  Ahead'
<1> DEFINE s == up[c]  t == up'[c]
<1>1. s \in Seq(Pieces) /\ Len(s) \in Nat /\ k \in Nat /\ k <= Len(s)
  BY DEF TypeOK, Pieces
<1>2. PICK n \in Parsed(SubSeq(s, 1, k)) :
         /\ msg' = [msg EXCEPT ![c] = n]
         /\ spc' = [spc EXCEPT ![c] = IF n = 0 THEN "answer" ELSE "conn"]
  BY DEF Read, SGoto
<1>3. n \in Nat /\ (n # 0 => \E i \in 1..k : s[i][2] = 1 /\ s[i][1] = n)
  <2> DEFINE chunk == SubSeq(s, 1, k)
  <2>1. chunk \in Seq(Pieces) /\ Len(chunk) = k /\ \A i \in 1..k : chunk[i] = s[i]
    BY <1>1, ReadPieces
  <2>2. n \in Parsed(chunk)
    OBVIOUS
  <2> HIDE DEF chunk
  <2>3. n \in 0..MaxLines /\ (n # 0 => \E i \in 1..Len(chunk) : chunk[i][2] = 1 /\ chunk[i][1] = n)
    BY <2>1, <2>2, ParsedIsBegun
  <2> QED BY <2>1, <2>3, PipelineAssumption
<1>4. at' = at /\ accepted' = accepted /\ \A d \in Clients : Taken(d)' = Taken(d)
  BY DEF Read, clientVars, Taken, Elems
<1>5. up' = [up EXCEPT ![c] = SubSeq(s, k + 1, Len(s))]
  BY DEF Read
<1>6. Len(t) = Len(s) - k /\ \A i \in 1..Len(t) : t[i] = s[k + i]
  BY <1>1, <1>5, ReadPieces DEF TypeOK
<1>7. \A d \in Clients : d # c => up'[d] = up[d] /\ spc'[d] = spc[d] /\ msg'[d] = msg[d]
  BY <1>2, <1>5 DEF TypeOK
<1>8. msg'[c] = n /\ (spc'[c] \in Parsing => n # 0)
  BY <1>2 DEF TypeOK, Parsing
<1> SUFFICES ASSUME NEW d \in Clients
    PROVE  /\ \A m \in Taken(d) : m <= at[d]
           /\ \A i \in 1..Len(up'[d]) : up'[d][i][2] = 1 =>
                /\ up'[d][i][1] <= at[d]
                /\ \A m \in Taken(d) : m < up'[d][i][1]
                /\ spc'[d] \in Parsing => msg'[d] < up'[d][i][1]
                /\ \A j \in 1..Len(up'[d]) : i < j /\ up'[d][j][2] = 1 => up'[d][i][1] < up'[d][j][1]
           /\ spc'[d] \in Parsing => /\ 0 < msg'[d] /\ msg'[d] <= at[d]
                                     /\ \A m \in Taken(d) : m < msg'[d]
  BY <1>4 DEF Ahead, Begins
<1>9. CASE d # c
  BY <1>7, <1>9 DEF Ahead, Begins
<1>10. CASE d = c
  <2>1. \A i \in 1..Len(t) : k + i \in 1..Len(s) /\ t[i] = s[k + i]
    BY <1>1, <1>6
  <2>2. \A i \in 1..Len(s) : s[i][2] = 1 =>
          /\ s[i][1] <= at[c] /\ \A m \in Taken(c) : m < s[i][1]
          /\ \A j \in 1..Len(s) : i < j /\ s[j][2] = 1 => s[i][1] < s[j][1]
    BY DEF Ahead, Begins
  <2>3. ASSUME NEW i \in 1..Len(t), t[i][2] = 1
        PROVE  /\ t[i][1] <= at[c] /\ \A m \in Taken(c) : m < t[i][1]
               /\ \A j \in 1..Len(t) : i < j /\ t[j][2] = 1 => t[i][1] < t[j][1]
    <3> HIDE DEF s, t
    <3>1. k + i \in 1..Len(s) /\ t[i] = s[k + i] /\ s[k + i][2] = 1
      BY <2>1, <2>3
    <3>2. \A j \in 1..Len(t) : i < j => k + i < k + j /\ k + j \in 1..Len(s) /\ t[j] = s[k + j]
      BY <1>1, <2>1
    <3> QED BY <2>2, <3>1, <3>2
  <2>4. ASSUME spc'[c] \in Parsing
        PROVE  /\ 0 < n /\ n <= at[c] /\ \A m \in Taken(c) : m < n
               /\ \A i \in 1..Len(t) : t[i][2] = 1 => n < t[i][1]
    <3>1. PICK h \in 1..k : s[h][2] = 1 /\ s[h][1] = n
      BY <1>3, <1>8, <2>4
    <3>2. h \in 1..Len(s) /\ \A i \in 1..Len(t) : h < k + i
      BY <1>1, <1>6
    <3> HIDE DEF s, t
    <3>3. n # 0 /\ 0 < n
      BY <1>3, <1>8, <2>4
    <3>4. n <= at[c] /\ \A m \in Taken(c) : m < n
      BY <2>2, <3>1, <3>2
    <3>5. \A i \in 1..Len(t) : t[i][2] = 1 => n < t[i][1]
      BY <2>1, <2>2, <3>1, <3>2
    <3> QED BY <3>3, <3>4, <3>5
  <2>5. \A m \in Taken(c) : m <= at[c]
    BY DEF Ahead
  <2> QED BY <1>8, <1>10, <2>3, <2>4, <2>5
<1> QED BY <1>9, <1>10

\* ReadEnds: nothing is left.
LEMMA AheadReadEnds ==
  ASSUME TypeOK, Ahead, NEW c \in Clients, ReadEnds(c)
  PROVE  Ahead'
<1>1. /\ UNCHANGED <<at, msg, accepted>> /\ up' = [up EXCEPT ![c] = <<>>]
      /\ spc' = [spc EXCEPT ![c] = "closed"]
  BY DEF ReadEnds, SGoto, clientVars
<1>2. \A d \in Clients : /\ Taken(d)' = Taken(d) /\ (d = c => Len(up'[d]) = 0)
                         /\ (d # c => up'[d] = up[d])
                         /\ spc'[d] \in Parsing => spc[d] \in Parsing
  BY <1>1 DEF Taken, Elems, TypeOK, Parsing
<1> QED BY <1>1, <1>2 DEF Ahead, Begins

\* Filter: the line is taken last of all so far.
LEMMA FilterTakes ==
  ASSUME TypeOK, Ahead, NEW c \in Clients, Filter(c)
  PROVE  /\ <<c, msg[c]>> \in Tasks /\ <<c, msg[c]>> \notin Elems(accepted)
         /\ \A m \in Taken(c) : m < msg[c]
         /\ \/ UNCHANGED <<taskQueue, accepted>>
            \/ /\ Elems(accepted') = Elems(accepted) \cup {<<c, msg[c]>>}
               /\ accepted' = Append(accepted, <<c, msg[c]>>)
               /\ taskQueue' = Append(taskQueue, <<c, msg[c]>>)
               /\ Taken(c)' = Taken(c) \cup {msg[c]}
               /\ \A d \in Clients : d # c => Taken(d)' = Taken(d)
<1>1. spc[c] \in Parsing /\ msg[c] \in 1..MaxLines
  BY DEF Filter, SGoto, Parsing, Ahead, TypeOK
<1>2. \A m \in Taken(c) : m < msg[c]
  BY <1>1 DEF Ahead
<1>3. <<c, msg[c]>> \in Tasks
  BY <1>1 DEF Tasks
<1>4. msg[c] \notin Taken(c)
  BY <1>1, <1>2 DEF Taken
<1>5. <<c, msg[c]>> \notin Elems(accepted)
  BY <1>1, <1>4 DEF Taken
<1>6. \/ UNCHANGED <<taskQueue, accepted>>
      \/ /\ accepted' = Append(accepted, <<c, msg[c]>>)
         /\ taskQueue' = Append(taskQueue, <<c, msg[c]>>)
  BY DEF Filter
<1>7. ASSUME accepted' = Append(accepted, <<c, msg[c]>>)
      PROVE  Elems(accepted') = Elems(accepted) \cup {<<c, msg[c]>>}
  <2>1. accepted \in Seq(Tasks)
    BY DEF TypeOK
  <2>2. Elems(Append(accepted, <<c, msg[c]>>)) = Elems(accepted) \cup {<<c, msg[c]>>}
    BY <1>3, <2>1, AppendElements
  <2> QED BY <1>7, <2>2
<1>8. ASSUME Elems(accepted') = Elems(accepted) \cup {<<c, msg[c]>>}
      PROVE  /\ Taken(c)' = Taken(c) \cup {msg[c]}
             /\ \A d \in Clients : d # c => Taken(d)' = Taken(d)
  BY <1>1, <1>8 DEF Taken
<1> QED BY <1>2, <1>3, <1>5, <1>6, <1>7, <1>8

LEMMA AheadFilter ==
  ASSUME TypeOK, Ahead, HasLast, NEW c \in Clients, Filter(c)
  PROVE  Ahead' /\ HasLast'
<1>1. /\ UNCHANGED <<at, up, msg>> /\ spc[c] = "filter"
      /\ spc' = [spc EXCEPT ![c] = "release"]
  BY DEF Filter, SGoto, clientVars, netVars
<1>2. \A d \in Clients : spc'[d] \in Parsing => d # c /\ spc[d] \in Parsing
  BY <1>1 DEF TypeOK, Parsing
<1>3. CASE UNCHANGED <<taskQueue, accepted>>
  BY <1>1, <1>2, <1>3, AheadFrame, HasLastFrame
<1>4. CASE /\ Taken(c)' = Taken(c) \cup {msg[c]}
           /\ \A d \in Clients : d # c => Taken(d)' = Taken(d)
  <2>1. msg[c] <= at[c] /\ \A i \in 1..Len(up[c]) : up[c][i][2] = 1 => msg[c] < up[c][i][1]
    BY <1>1 DEF Ahead, Begins, Parsing
  <2>2. Ahead'
    BY <1>1, <1>2, <1>4, <2>1 DEF Ahead, Begins
  <2>3. msg[c] \in Nat /\ \A m \in Taken(c) : m \in Nat /\ m < msg[c]
    <3>1. \A m \in Taken(c) : m < msg[c]
      BY FilterTakes
    <3> QED BY <3>1, PipelineAssumption DEF Taken, TypeOK
  <2>4. HasLast'
    BY <1>4, <2>3 DEF HasLast
  <2> QED BY <2>2, <2>4
<1> QED BY <1>3, <1>4, FilterTakes

\* The steps that neither send, read nor take anything.
Quiet ==
  \/ OpenLog \/ StartLog \/ Log
  \/ \E c \in Clients :
       \/ Connect(c) \/ Kill(c) \/ Open(c) \/ OpenFails(c) \/ EndOfFile(c)
       \/ (\E k \in 0..down[c] : Receive(c, k)) \/ ReceiveFails(c)
       \/ TakeConn(c) \/ Release(c) \/ Answer(c) \/ AnswerKills(c)
  \/ \E w \in Workers : WorkerStep(w)
  \/ UNCHANGED vars

LEMMA QuietFrame ==
  ASSUME TypeOK, Quiet
  PROVE  /\ UNCHANGED <<accepted, at, up>>
         /\ \A c \in Clients : spc'[c] \in Parsing => spc[c] \in Parsing /\ msg'[c] = msg[c]
<1>1. CASE OpenLog \/ StartLog \/ Log \/ UNCHANGED vars
  BY <1>1 DEF OpenLog, StartLog, Log, vars, clientVars, netVars, threadVars
<1>2. ASSUME NEW c \in Clients,
             Kill(c) \/ Open(c) \/ OpenFails(c) \/ EndOfFile(c)
               \/ (\E k \in 0..down[c] : Receive(c, k)) \/ ReceiveFails(c)
      PROVE  UNCHANGED <<accepted, at, up, spc, msg>>
  BY <1>2 DEF Kill, Open, OpenFails, EndOfFile, Receive, ReceiveFails, netVars, threadVars
<1>3. ASSUME NEW c \in Clients, Connect(c) \/ Answer(c)
      PROVE  UNCHANGED <<accepted, at, up>> /\ spc' = [spc EXCEPT ![c] = "read"]
             /\ (msg' = msg \/ msg' = [msg EXCEPT ![c] = 0])
  BY <1>3 DEF Connect, Answer, SGoto, netVars, clientVars
<1>4. ASSUME NEW c \in Clients, TakeConn(c) \/ Release(c) \/ AnswerKills(c)
      PROVE  /\ UNCHANGED <<accepted, at, up, msg>>
             /\ \/ spc' = spc \/ spc' = [spc EXCEPT ![c] = "answer"]
                \/ spc[c] = "conn" /\ spc' = [spc EXCEPT ![c] = "filter"]
  BY <1>4 DEF TakeConn, Release, AnswerKills, SGoto, netVars, clientVars, threadVars
<1>5. ASSUME NEW w \in Workers, WorkerStep(w) PROVE UNCHANGED <<accepted, at, up, spc, msg>>
  BY <1>5 DEF WorkerStep, Pop, GetConn, Write, netVars, clientVars, threadVars
<1> DEFINE P == \A d \in Clients : spc'[d] \in Parsing => spc[d] \in Parsing /\ msg'[d] = msg[d]
<1>6. ASSUME NEW c \in Clients, spc' = [spc EXCEPT ![c] = "read"],
             msg' = msg \/ msg' = [msg EXCEPT ![c] = 0]
      PROVE  P
  BY <1>6 DEF TypeOK, Parsing
<1>7. ASSUME NEW c \in Clients, msg' = msg,
             \/ spc' = spc \/ spc' = [spc EXCEPT ![c] = "answer"]
             \/ spc[c] = "conn" /\ spc' = [spc EXCEPT ![c] = "filter"]
      PROVE  P
  BY <1>7 DEF TypeOK, Parsing
<1>8. CASE \E c \in Clients : Connect(c) \/ Answer(c)
  BY <1>3, <1>6, <1>8
<1>9. CASE \E c \in Clients : TakeConn(c) \/ Release(c) \/ AnswerKills(c)
  BY <1>4, <1>7, <1>9
<1>10. CASE \E c \in Clients :
              Kill(c) \/ Open(c) \/ OpenFails(c) \/ EndOfFile(c)
               \/ (\E k \in 0..down[c] : Receive(c, k)) \/ ReceiveFails(c)
  BY <1>2, <1>10
<1>11. CASE \E w \in Workers : WorkerStep(w)
  BY <1>5, <1>11
<1> QED BY <1>1, <1>8, <1>9, <1>10, <1>11 DEF Quiet

\* Every step is a quiet one or sends, reads or takes.
LEMMA StepKinds ==
  [Next]_vars =>
    \/ Quiet
    \/ \E c \in Clients :
         \/ NextLine(c) \/ Poll(c)
         \/ (\E k \in 1..Len(up[c]) : Read(c, k)) \/ ReadEnds(c) \/ Filter(c)
BY DEF Next, Quiet, ClientStep, ThreadStep

\* What NextLine and Poll send is a line of the file that was not read before.
LEMMA SendsNew ==
  ASSUME TypeOK, AtIsRead, NEW c \in Clients, NextLine(c) \/ Poll(c)
  PROVE  \E n, last \in 0..MaxLines :
           /\ at[c] < n /\ n <= last /\ last <= Len(lines) /\ Send(c, n, last)
<1>1. Len(lines) \in Nat /\ at[c] \in -1..MaxLines /\ Len(lines) <= MaxLines /\ MaxLines \in Nat
  BY PipelineAssumption DEF TypeOK, AtIsRead
<1>2. CASE NextLine(c)
  <2>1. Send(c, at[c] + 1, at[c] + 1) /\ at[c] < Len(lines) /\ env.format = "html"
    BY <1>2 DEF NextLine
  <2>2. at[c] + 1 \in 0..MaxLines /\ at[c] < at[c] + 1 /\ at[c] + 1 <= Len(lines)
    BY <1>1, <2>1
  <2> QED BY <2>1, <2>2
<1>3. CASE Poll(c)
  <2>1. Send(c, FirstNew(c), Len(lines)) /\ at[c] < Len(lines)
    BY <1>3 DEF Poll
  <2>2. FirstNew(c) \in Nat /\ at[c] < FirstNew(c) /\ FirstNew(c) <= Len(lines)
    BY <2>1, FirstNewIsNew
  <2>3. FirstNew(c) \in 0..MaxLines /\ Len(lines) \in 0..MaxLines
    BY <1>1, <2>2
  <2> QED BY <2>1, <2>2, <2>3
<1> QED BY <1>2, <1>3

LEMMA AheadStep ==
  TypeOK /\ AtIsRead /\ Ahead /\ HasLast /\ [Next]_vars => Ahead' /\ HasLast'
<1> SUFFICES ASSUME TypeOK, AtIsRead, Ahead, HasLast, [Next]_vars PROVE Ahead' /\ HasLast'
  OBVIOUS
<1>1. CASE Quiet
  BY <1>1, QuietFrame, AheadFrame, HasLastFrame
<1>2. ASSUME NEW c \in Clients, NextLine(c) \/ Poll(c) PROVE Ahead' /\ HasLast'
  <2>1. PICK n, last \in 0..MaxLines : at[c] < n /\ n <= last /\ Send(c, n, last)
    BY <1>2, SendsNew
  <2>2. accepted' = accepted
    BY <2>1 DEF Send
  <2> QED BY <2>1, <2>2, AheadSend, HasLastFrame
<1>3. ASSUME NEW c \in Clients, NEW k \in 1..Len(up[c]), Read(c, k) PROVE Ahead' /\ HasLast'
  <2>1. accepted' = accepted
    BY <1>3 DEF Read
  <2> QED BY <1>3, <2>1, AheadRead, HasLastFrame
<1>4. ASSUME NEW c \in Clients, ReadEnds(c) PROVE Ahead' /\ HasLast'
  <2>1. accepted' = accepted
    BY <1>4 DEF ReadEnds
  <2> QED BY <1>4, <2>1, AheadReadEnds, HasLastFrame
<1>5. ASSUME NEW c \in Clients, Filter(c) PROVE Ahead' /\ HasLast'
  BY <1>5, AheadFilter
<1> QED BY <1>1, <1>2, <1>3, <1>4, <1>5, StepKinds

-----------------------------------------------------------------------------
(* What the clients have read, and where the tasks are *)

\* Logging appends to the file, and nothing else changes it.
LEMMA FileGrows ==
  ASSUME TypeOK, AtIsRead, [Next]_vars
  PROVE  /\ env' = env /\ lines' \in Seq(Levels)
         /\ Len(lines) <= Len(lines') /\ Len(lines') <= MaxLines
         /\ \A n \in 1..Len(lines) : lines'[n] = lines[n]
<1>1. CASE Log
  <2>1. PICK c \in Clients, level \in Levels :
           Len(lines) < env.reads[c] /\ lines' = Append(lines, level)
    BY <1>1 DEF Log
  <2>2. lines \in Seq(Levels) /\ Len(lines) \in Nat /\ env.reads[c] \in 0..MaxLines
    BY PipelineAssumption DEF TypeOK
  <2>3. /\ lines' \in Seq(Levels) /\ Len(lines') = Len(lines) + 1
        /\ \A n \in 1..Len(lines) : lines'[n] = lines[n]
    BY <2>1, <2>2, AppendElements
  <2> QED BY <1>1, <2>1, <2>2, <2>3, PipelineAssumption DEF Log
<1>2. CASE env' = env /\ lines' = lines
  BY <1>2 DEF AtIsRead, TypeOK
<1>3. ASSUME NEW c \in Clients, Connect(c) \/ Kill(c) PROVE env' = env /\ lines' = lines
  BY <1>3 DEF Connect, Kill, fileVars
<1>4. ASSUME NEW c \in Clients, ClientStep(c) PROVE env' = env /\ lines' = lines
  BY <1>4 DEF ClientStep, Open, OpenFails, NextLine, EndOfFile, Poll, Receive, ReceiveFails, Send, fileVars
<1>5. ASSUME NEW c \in Clients, ThreadStep(c) PROVE env' = env /\ lines' = lines
  BY <1>5 DEF ThreadStep, Read, ReadEnds, TakeConn, Filter, Release, Answer, AnswerKills, fileVars
<1>6. ASSUME NEW w \in Workers, WorkerStep(w) PROVE env' = env /\ lines' = lines
  BY <1>6 DEF WorkerStep, Pop, GetConn, Write, fileVars
<1>7. CASE OpenLog \/ StartLog \/ UNCHANGED vars
  BY <1>2, <1>7 DEF OpenLog, StartLog, vars, fileVars
<1> QED BY <1>1, <1>2, <1>3, <1>4, <1>5, <1>6, <1>7 DEF Next

LEMMA AtIsReadStep == TypeOK /\ AtIsRead /\ [Next]_vars => AtIsRead'
<1> SUFFICES ASSUME TypeOK, AtIsRead, [Next]_vars PROVE AtIsRead'
  OBVIOUS
<1>1. /\ Len(lines) \in Nat /\ \A d \in Clients : at[d] \in Int /\ at[d] <= Len(lines)
      /\ Len(lines) <= Len(lines') /\ Len(lines') <= MaxLines /\ Len(lines') \in Nat
  BY FileGrows DEF TypeOK, AtIsRead
<1>2. CASE at' = at
  BY <1>1, <1>2 DEF AtIsRead
<1>3. ASSUME NEW c \in Clients, NextLine(c) \/ Poll(c) PROVE AtIsRead'
  <2>1. PICK n, last \in 0..MaxLines : last <= Len(lines) /\ Send(c, n, last)
    BY <1>3, SendsNew
  <2>2. \A d \in Clients : at'[d] = last \/ at'[d] = at[d]
    BY <2>1 DEF Send, TypeOK
  <2> QED BY <1>1, <2>1, <2>2 DEF AtIsRead
<1>4. ASSUME NEW c \in Clients,
             (\E k \in 1..Len(up[c]) : Read(c, k)) \/ ReadEnds(c) \/ Filter(c)
      PROVE  at' = at
  BY <1>4 DEF Read, ReadEnds, Filter, clientVars
<1> QED BY <1>2, <1>3, <1>4, StepKinds, QuietFrame

\* Steps that move no task, and lend workers no connection.
LEMMA PlacedFrame ==
  ASSUME Placed, UNCHANGED <<rows, dropped, taskQueue, accepted, hand>>,
         \A w \in Workers : w \in held' => w \in held
  PROVE  Placed'
<1>1. Queued' = Queued
  BY DEF Queued, Elems
<1> QED BY <1>1 DEF Placed, Elems, NoRepeats

LEMMA PlacedStep == TypeOK /\ Ahead /\ Placed /\ [Next]_vars => Placed'
<1> SUFFICES ASSUME TypeOK, Ahead, Placed, [Next]_vars PROVE Placed'
  OBVIOUS
<1>1. CASE UNCHANGED <<rows, dropped, taskQueue, accepted, hand, held>>
  BY <1>1, PlacedFrame
<1>2. ASSUME NEW c \in Clients, TakeConn(c) \/ Release(c) PROVE Placed'
  <2>1. held' \subseteq held \cup {c} /\ UNCHANGED <<rows, dropped, taskQueue, accepted, hand>>
    BY <1>2 DEF TakeConn, Release, dbVars
  <2> QED BY <2>1, PlacedFrame, PipelineAssumption
<1>3. ASSUME NEW c \in Clients, Filter(c) PROVE Placed'
  <2> DEFINE t == <<c, msg[c]>>
  <2>1. UNCHANGED <<rows, dropped, hand, held>>
    BY <1>3 DEF Filter
  <2>2. CASE UNCHANGED <<taskQueue, accepted>>
    BY <2>1, <2>2, PlacedFrame
  <2>3. CASE Elems(accepted') = Elems(accepted) \cup {t} /\ taskQueue' = Append(taskQueue, t)
    <3>1. t \in Tasks /\ t \notin Elems(accepted)
      BY <1>3, FilterTakes
    <3>2. taskQueue \in Seq(Tasks) /\ t \notin Queued /\ t \notin rows \cup dropped
      BY <3>1 DEF TypeOK, Placed
    <3>3. Queued' = Queued \cup {t} /\ NoRepeats(taskQueue')
      BY <2>3, <3>1, <3>2, AppendElements DEF Queued, Placed
    <3>4. \A w \in Workers : hand[w] # None => hand[w] # t
      BY <3>1 DEF Placed
    <3> HIDE DEF t
    <3> QED BY <2>1, <2>3, <3>1, <3>2, <3>3, <3>4 DEF Placed
  <2> QED BY <1>3, <2>2, <2>3, FilterTakes
<1>4. ASSUME NEW w \in Workers, Pop(w) PROVE Placed'
  <2> DEFINE t == Head(taskQueue)
  <2>1. /\ UNCHANGED <<rows, dropped, accepted, held>> /\ taskQueue # <<>> /\ hand[w] = None
        /\ hand' = [hand EXCEPT ![w] = t] /\ taskQueue' = Tail(taskQueue)
    BY <1>4 DEF Pop
  <2>2. taskQueue \in Seq(Tasks)
    BY DEF TypeOK
  <2>3. t \in Queued /\ t \notin Queued' /\ Queued' \subseteq Queued /\ NoRepeats(taskQueue')
    <3>1. /\ Len(taskQueue) \in Nat /\ Len(taskQueue) > 0 /\ t = taskQueue[1]
          /\ Len(Tail(taskQueue)) = Len(taskQueue) - 1
          /\ \A i \in 1..(Len(taskQueue) - 1) : Tail(taskQueue)[i] = taskQueue[i + 1]
      BY <2>1, <2>2
    <3>2. \A i \in 1..(Len(taskQueue) - 1) : i + 1 \in 1..Len(taskQueue) /\ i + 1 # 1
      BY <3>1
    <3> HIDE DEF t
    <3> QED BY <2>1, <3>1, <3>2 DEF Queued, Elems, Placed, NoRepeats
  <2>4. t \in Elems(accepted) \ (rows \cup dropped) /\ t # None
    <3>1. t \in Tasks
      BY <2>1, <2>2
    <3>2. t # None
      BY <3>1, PipelineAssumption DEF Tasks
    <3> HIDE DEF t
    <3> QED BY <2>3, <3>2 DEF Placed
  <2>5. \A v \in Workers : hand'[v] = IF v = w THEN t ELSE hand[v]
    BY <2>1 DEF TypeOK
  <2>6. \A v \in Workers : hand[v] # None => hand[v] \notin Queued /\ hand[v] # t
    BY <2>3 DEF Placed
  <2> HIDE DEF t
  <2> QED BY <2>1, <2>3, <2>4, <2>5, <2>6 DEF Placed, Elems
<1>5. ASSUME NEW w \in Workers, GetConn(w) \/ Write(w) PROVE Placed'
  <2>1. UNCHANGED <<taskQueue, accepted>> /\ hand[w] # None /\ Queued' = Queued
    BY <1>5 DEF GetConn, Write, Queued, Elems, Placed
  <2>2. hand[w] \in Elems(accepted) \ (rows \cup dropped \cup Queued)
    BY <2>1 DEF Placed
  <2>3. CASE held' = held \cup {w} /\ UNCHANGED <<hand, rows, dropped>>
    BY <2>1, <2>3 DEF Placed, Elems, NoRepeats
  <2>4. CASE /\ hand' = [hand EXCEPT ![w] = None] /\ (held' = held \/ held' = held \ {w})
             /\ w \notin held'
             /\ \/ rows' = rows \cup {hand[w]} /\ dropped' = dropped
                \/ dropped' = dropped \cup {hand[w]} /\ rows' = rows
    <3>1. \A v \in Workers : hand'[v] = IF v = w THEN None ELSE hand[v]
      BY <2>4 DEF TypeOK
    <3>2. \A v \in Workers : v # w /\ hand[v] # None => hand[v] # hand[w]
      BY <2>1 DEF Placed
    <3>3. \A v \in Workers : v \in held' => hand'[v] # None
      BY <2>4, <3>1 DEF Placed
    <3>4. \A v \in Workers : hand'[v] # None =>
             /\ hand'[v] \in Elems(accepted') \ (rows' \cup dropped' \cup Queued')
             /\ \A u \in Workers : hand'[u] = hand'[v] => u = v
      BY <2>1, <2>4, <3>1, <3>2 DEF Placed
    <3>5. /\ rows' \cup dropped' \cup Queued' \subseteq Elems(accepted')
          /\ rows' \cap dropped' = {} /\ NoRepeats(taskQueue')
          /\ Queued' \cap (rows' \cup dropped') = {}
      BY <2>1, <2>2, <2>4 DEF Placed
    <3> QED BY <3>3, <3>4, <3>5 DEF Placed
  <2> QED BY <1>5, <2>3, <2>4 DEF GetConn, Write
<1>6. CASE OpenLog \/ StartLog \/ Log \/ UNCHANGED vars
  BY <1>1, <1>6 DEF OpenLog, StartLog, Log, vars, dbVars
<1>7. ASSUME NEW c \in Clients, Connect(c) \/ Kill(c) \/ ClientStep(c) PROVE Placed'
  BY <1>1, <1>7 DEF Connect, Kill, ClientStep, Open, OpenFails, NextLine, EndOfFile, Poll,
                    Receive, ReceiveFails, Send, dbVars
<1>8. ASSUME NEW c \in Clients,
             (\E k \in 1..Len(up[c]) : Read(c, k)) \/ ReadEnds(c) \/ Answer(c) \/ AnswerKills(c)
      PROVE  Placed'
  BY <1>1, <1>8 DEF Read, ReadEnds, Answer, AnswerKills, dbVars
<1> QED BY <1>2, <1>3, <1>4, <1>5, <1>6, <1>7, <1>8 DEF Next, ThreadStep, WorkerStep

-----------------------------------------------------------------------------
(* A client and its thread in step *)

\* Nothing of client d changes but what is taken and what is in the file.
Same(d) ==
  /\ cpc'[d] = cpc[d] /\ spc'[d] = spc[d] /\ at'[d] = at[d] /\ msg'[d] = msg[d]
  /\ up'[d] = up[d] /\ down'[d] = down[d] /\ whole'[d] = whole[d]

LEMMA TakenGrows ==
  ASSUME TypeOK, Ahead, [Next]_vars
  PROVE  Elems(accepted) \subseteq Elems(accepted')
<1>1. ASSUME NEW c \in Clients, Filter(c) PROVE Elems(accepted) \subseteq Elems(accepted')
  <2>1. accepted' = accepted \/ Elems(accepted') = Elems(accepted) \cup {<<c, msg[c]>>}
    BY <1>1, FilterTakes
  <2> QED BY <2>1
<1>2. ASSUME NEW c \in Clients,
             NextLine(c) \/ Poll(c) \/ (\E k \in 1..Len(up[c]) : Read(c, k)) \/ ReadEnds(c)
      PROVE  accepted' = accepted
  BY <1>2 DEF NextLine, Poll, Send, Read, ReadEnds
<1> QED BY <1>1, <1>2, StepKinds, QuietFrame

\* What is done with the lines up to k stays done.
LEMMA DoneStays ==
  ASSUME TypeOK, AtIsRead, Ahead, [Next]_vars,
         NEW d \in Clients, NEW k \in Int, k <= Len(lines), Done(d, k)
  PROVE  \A n \in 1..k : Storable(n)' => <<d, n>> \in Elems(accepted')
<1>1. \A n \in 1..k : Storable(n)' <=> Storable(n)
  <2>1. Len(lines) \in Nat
    BY DEF TypeOK
  <2>2. \A n \in 1..k : lines'[n] = lines[n]
    BY <2>1, FileGrows
  <2> QED BY <2>2 DEF Storable
<1> QED BY <1>1, TakenGrows DEF Done

LEMMA SameStays ==
  ASSUME TypeOK, AtIsRead, Ahead, [Next]_vars, NEW d \in Clients, Same(d), InPhase(d)
  PROVE  InPhase(d)'
<1>1. at[d] \in Int /\ at[d] <= Len(lines) /\ Len(lines) \in Nat
  BY DEF TypeOK, AtIsRead
<1>2. Done(d, at[d]) => Done(d, at[d])'
  BY <1>1, DoneStays DEF Done, Same
<1>3. Done(d, at[d] - 1) => Done(d, at[d] - 1)'
  BY <1>1, DoneStays DEF Done, Same
<1> QED BY <1>2, <1>3 DEF InPhase, Same, Message

\* The steps of a client.
LEMMA ClientInPhase ==
  ASSUME TypeOK, AtIsRead, Ahead, [Next]_vars, NEW c \in Clients,
         Connect(c) \/ Kill(c) \/ ClientStep(c),
         env.format = "html", whole'[c], whole[c] => InPhase(c)
  PROVE  InPhase(c)'
<1>1. /\ at[c] \in Int /\ at[c] <= Len(lines) /\ Len(lines) \in Nat /\ down[c] \in Nat
      /\ up[c] \in Seq(Pieces)
  BY DEF TypeOK, AtIsRead, Pieces
<1>2. CASE Kill(c) \/ OpenFails(c) \/ EndOfFile(c) \/ ReceiveFails(c)
  <2>1. cpc' = [cpc EXCEPT ![c] = "gone"]
    BY <1>2 DEF Kill, OpenFails, EndOfFile, ReceiveFails, Goto
  <2> QED BY <2>1 DEF InPhase, TypeOK
<1>3. CASE Connect(c)
  <2>1. /\ cpc[c] = "unborn" /\ cpc'[c] = "open" /\ spc'[c] = "read"
        /\ at' = at /\ up' = up /\ down' = down /\ whole' = whole
    BY <1>3 DEF Connect, Goto, SGoto, netVars, TypeOK
  <2>2. up[c] = <<>> /\ down[c] = 0 /\ at[c] = 0
    BY <2>1 DEF InPhase
  <2> QED BY <2>1, <2>2 DEF InPhase, Done
<1>4. CASE Open(c)
  <2>1. /\ cpc[c] = "open" /\ cpc'[c] = "tail" /\ spc' = spc
        /\ at' = at /\ up' = up /\ down' = down /\ whole' = whole
    BY <1>4 DEF Open, Goto, netVars, threadVars, TypeOK
  <2>2. spc[c] = "read" /\ up[c] = <<>> /\ down[c] = 0 /\ at[c] >= 0 /\ Done(c, at[c])
    BY <2>1 DEF InPhase
  <2>3. Done(c, at[c])'
    BY <1>1, <2>1, <2>2, DoneStays DEF Done
  <2> QED BY <2>1, <2>2, <2>3 DEF InPhase
<1>5. CASE NextLine(c)
  <2>1. /\ cpc[c] = "tail" /\ cpc'[c] = "recv" /\ spc' = spc /\ down' = down /\ whole' = whole
        /\ at'[c] = at[c] + 1 /\ up'[c] = up[c] \o Message(at[c] + 1)
    BY <1>5 DEF NextLine, Send, Goto, threadVars, TypeOK
  <2>2. spc[c] = "read" /\ up[c] = <<>> /\ down[c] = 0 /\ at[c] >= 0 /\ Done(c, at[c])
    BY <2>1 DEF InPhase
  <2>3. up'[c] = Message(at'[c])
    BY <2>1, <2>2 DEF Message
  <2>4. Done(c, at[c] - 1)'
    BY <1>1, <2>1, <2>2, DoneStays DEF Done
  <2>5. at'[c] >= 1
    BY <1>1, <2>1, <2>2
  <2> QED BY <2>1, <2>2, <2>3, <2>4, <2>5 DEF InPhase
<1>6. CASE Poll(c)
  BY <1>6 DEF Poll
<1>7. ASSUME NEW k \in 0..down[c], Receive(c, k) PROVE InPhase(c)'
  <2>1. /\ cpc[c] = "recv" /\ cpc'[c] = "tail" /\ spc' = spc /\ up' = up /\ at' = at
        /\ down[c] > 0 /\ down'[c] = down[c] - k /\ whole'[c] = (whole[c] /\ k = 1)
    <3>1. whole' = [whole EXCEPT ![c] = whole[c] /\ k = 1] /\ whole \in [Clients -> BOOLEAN]
      BY <1>7 DEF Receive, TypeOK
    <3>2. whole'[c] = (whole[c] /\ k = 1)
      BY <3>1, Zenon
    <3> QED BY <1>7, <3>2 DEF Receive, Goto, threadVars, TypeOK
  <2>2. whole[c] /\ k = 1
    BY <2>1
  <2>3. spc[c] = "read" /\ up[c] = <<>> /\ down[c] = 1 /\ at[c] >= 1 /\ Done(c, at[c])
    BY <1>1, <2>1, <2>2 DEF InPhase
  <2>4. Done(c, at[c])'
    BY <1>1, <2>1, <2>3, DoneStays DEF Done
  <2>5. down'[c] = 0 /\ at'[c] >= 0
    BY <1>1, <2>1, <2>2, <2>3
  <2> QED BY <2>1, <2>3, <2>4, <2>5 DEF InPhase
<1> QED BY <1>2, <1>3, <1>4, <1>5, <1>6, <1>7 DEF ClientStep

\* Read: the message is the one the client waits for, and all of it.
LEMMA ReadInPhase ==
  ASSUME TypeOK, AtIsRead, Ahead, [Next]_vars,
         NEW c \in Clients, NEW k \in 1..Len(up[c]), Read(c, k),
         env.format = "html", whole'[c], whole[c] => InPhase(c)
  PROVE  InPhase(c)'
<1> DEFINE s == up[c]
<1>1. /\ at[c] \in Int /\ at[c] <= Len(lines) /\ Len(lines) \in Nat /\ MaxLines \in Nat
      /\ s \in Seq(Pieces) /\ at[c] <= MaxLines
  BY PipelineAssumption DEF TypeOK, AtIsRead, Pieces
<1>2. /\ cpc' = cpc /\ at' = at /\ down' = down /\ spc[c] = "read"
      /\ up'[c] = SubSeq(s, k + 1, Len(s))
  BY DEF Read, clientVars, SGoto, TypeOK
<1>3. whole[c] /\ SubSeq(s, 1, k) = Message(s[1][1])
  <2>1. /\ whole' = [whole EXCEPT ![c] = whole[c] /\ SubSeq(s, 1, k) = Message(s[1][1])]
        /\ whole \in [Clients -> BOOLEAN]
    BY DEF Read, TypeOK
  <2> QED BY <2>1, Zenon
<1>4. CASE cpc[c] = "gone"
  BY <1>2, <1>4 DEF InPhase
<1>5. CASE cpc[c] # "gone"
  <2>1. cpc[c] = "recv" /\ at[c] >= 1 /\ s = Message(at[c]) /\ down[c] = 0 /\ Done(c, at[c] - 1)
    BY <1>2, <1>3, <1>5 DEF InPhase
  <2>2. at[c] \in 0..MaxLines
    BY <1>1, <2>1
  <2>3. Len(s) = 2 /\ s[1][1] = at[c]
    BY <2>1, <2>2, MessageType
  <2>4. k = 2
    <3>1. Len(SubSeq(s, 1, k)) = k
      BY <1>1, ReadPieces
    <3>2. Len(SubSeq(s, 1, k)) = 2
      BY <1>3, <2>2, <2>3, MessageType
    <3> QED BY <3>1, <3>2
  <2>5. up'[c] = <<>>
    <3>1. SubSeq(s, k + 1, Len(s)) \in Seq(Pieces) /\ Len(SubSeq(s, k + 1, Len(s))) = 0
      BY <1>1, <2>3, <2>4, ReadPieces
    <3> QED BY <1>2, <3>1
  <2>6. PICK n \in Parsed(SubSeq(s, 1, k)) :
           /\ msg' = [msg EXCEPT ![c] = n]
           /\ spc' = [spc EXCEPT ![c] = IF n = 0 THEN "answer" ELSE "conn"]
    BY DEF Read, SGoto
  <2>7. n = at[c]
    BY <1>3, <2>2, <2>3, <2>6, ParsedWhole
  <2>8. spc'[c] = "conn" /\ msg'[c] = at[c]
    BY <1>1, <2>1, <2>6, <2>7 DEF TypeOK
  <2>9. Done(c, at[c] - 1)'
    <3>1. at[c] - 1 \in Int /\ at[c] - 1 <= Len(lines) /\ Done(c, at[c] - 1)
      BY <1>1, <2>1
    <3>2. \A m \in 1..(at[c] - 1) : Storable(m)' => <<c, m>> \in Elems(accepted')
      BY <3>1, DoneStays
    <3> QED BY <1>2, <3>2 DEF Done
  <2> QED BY <1>2, <2>1, <2>5, <2>8, <2>9 DEF InPhase, Parsing
<1> QED BY <1>4, <1>5

\* Filter: after it the line the client waits for is done.
LEMMA FilterInPhase ==
  ASSUME TypeOK, AtIsRead, Ahead, [Next]_vars, NEW c \in Clients, Filter(c),
         env.format = "html", InPhase(c)
  PROVE  InPhase(c)'
<1>1. /\ at[c] \in Int /\ at[c] <= Len(lines) /\ Len(lines) \in Nat
  BY DEF TypeOK, AtIsRead
<1>2. /\ cpc' = cpc /\ at' = at /\ down' = down /\ up' = up /\ lines' = lines
      /\ spc[c] = "filter" /\ spc'[c] = "release"
  BY DEF Filter, clientVars, netVars, fileVars, SGoto, TypeOK
<1>3. CASE cpc[c] = "gone"
  BY <1>2, <1>3 DEF InPhase
<1>4. CASE cpc[c] # "gone"
  <2>1. /\ cpc[c] = "recv" /\ at[c] >= 1 /\ msg[c] = at[c] /\ up[c] = <<>> /\ down[c] = 0
        /\ Done(c, at[c] - 1)
    BY <1>2, <1>4 DEF InPhase
  <2>2. \A n \in 1..(at[c] - 1) : Storable(n)' => <<c, n>> \in Elems(accepted')
    BY <1>1, <2>1, DoneStays
  <2>3. Storable(at[c])' => <<c, at[c]>> \in Elems(accepted')
    <3>1. LeveltoInt[lines[at[c]]] \in Int /\ LeveltoInt["WARNING"] \in Int
      <4>1. lines[at[c]] \in Levels
        BY <1>1, <2>1 DEF TypeOK
      <4>2. lines[at[c]] \in {"NORMAL", "INFO", "WARNING", "ERROR", "FATAL", "DEBUG"}
        BY <4>1, PipelineAssumption
      <4> QED BY <4>2 DEF LeveltoInt
    <3>2. CASE LeveltoInt[lines[at[c]]] < LeveltoInt["WARNING"]
      BY <1>2, <3>1, <3>2 DEF Storable
    <3>3. CASE ~(LeveltoInt[lines[at[c]]] < LeveltoInt["WARNING"])
      <4>1. accepted' = Append(accepted, <<c, msg[c]>>)
        BY <2>1, <3>3 DEF Filter
      <4>2. <<c, msg[c]>> \in Tasks /\ accepted \in Seq(Tasks)
        BY FilterTakes DEF TypeOK
      <4>3. <<c, msg[c]>> \in Elems(accepted')
        BY <4>1, <4>2, AppendElements
      <4> QED BY <2>1, <4>3
    <3> QED BY <3>2, <3>3
  <2>4. Done(c, at[c])'
    BY <1>1, <1>2, <2>1, <2>2, <2>3 DEF Done
  <2> QED BY <1>2, <2>1, <2>4 DEF InPhase
<1> QED BY <1>3, <1>4

\* The other steps of a thread.
LEMMA ThreadInPhase ==
  ASSUME TypeOK, AtIsRead, Ahead, [Next]_vars, NEW c \in Clients,
         ReadEnds(c) \/ TakeConn(c) \/ Release(c) \/ Answer(c) \/ AnswerKills(c),
         env.format = "html", InPhase(c)
  PROVE  InPhase(c)'
<1>1. /\ at[c] \in Int /\ at[c] <= Len(lines) /\ Len(lines) \in Nat /\ down[c] \in Nat
  BY DEF TypeOK, AtIsRead
<1>2. cpc' = cpc /\ at' = at
  BY DEF ReadEnds, TakeConn, Release, Answer, AnswerKills, clientVars
<1>3. /\ Done(c, at[c]) => Done(c, at[c])'
      /\ Done(c, at[c] - 1) => Done(c, at[c] - 1)'
  BY <1>1, <1>2, DoneStays DEF Done
<1>4. CASE cpc[c] = "gone"
  BY <1>2, <1>4 DEF InPhase
<1>5. CASE cpc[c] # "gone"
  <2>1. CASE ReadEnds(c)
    BY <1>5, <2>1 DEF ReadEnds
  <2>2. CASE TakeConn(c) \/ Release(c)
    <3>1. /\ up' = up /\ down' = down /\ msg' = msg
          /\ \/ spc[c] = "conn" /\ spc'[c] = "filter"
             \/ spc[c] = "release" /\ spc'[c] = "answer"
      BY <2>2 DEF TakeConn, Release, SGoto, netVars, TypeOK
    <3> QED BY <1>2, <1>3, <1>5, <3>1 DEF InPhase, Parsing
  <2>3. CASE Answer(c)
    <3>1. /\ up' = up /\ down'[c] = down[c] + 1 /\ spc[c] = "answer" /\ spc'[c] = "read"
      BY <1>5, <2>3 DEF Answer, SGoto, TypeOK
    <3>2. /\ cpc[c] = "recv" /\ at[c] >= 1 /\ up[c] = <<>> /\ down[c] = 0 /\ Done(c, at[c])
      BY <1>5, <3>1 DEF InPhase, Parsing
    <3>3. down'[c] = 1
      BY <3>1, <3>2
    <3> QED BY <1>2, <1>3, <3>1, <3>2, <3>3 DEF InPhase
  <2>4. CASE AnswerKills(c)
    BY <1>2, <1>3, <2>4 DEF AnswerKills, netVars, threadVars, InPhase, Message
  <2> QED BY <2>1, <2>2, <2>3, <2>4
<1> QED BY <1>4, <1>5

LEMMA InStepStep ==
  TypeOK /\ AtIsRead /\ Ahead /\ InStep /\ [Next]_vars => InStep'
<1> SUFFICES ASSUME TypeOK, AtIsRead, Ahead, InStep, [Next]_vars,
                    NEW d \in Clients, env'.format = "html", whole'[d]
             PROVE  InPhase(d)'
  BY DEF InStep
<1>1. env.format = "html" /\ (whole[d] => InPhase(d))
  BY FileGrows DEF InStep
<1>2. CASE Same(d)
  <2>1. whole[d]
    BY <1>2 DEF Same
  <2> QED BY <1>1, <1>2, <2>1, SameStays
<1>3. CASE OpenLog \/ StartLog \/ Log \/ UNCHANGED vars \/ \E w \in Workers : WorkerStep(w)
  BY <1>2, <1>3 DEF OpenLog, StartLog, Log, vars, WorkerStep, Pop, GetConn, Write,
                    clientVars, netVars, threadVars, Same
<1>4. ASSUME NEW c \in Clients, Connect(c) \/ Kill(c) \/ ClientStep(c) PROVE InPhase(d)'
  <2>1. CASE c = d
    BY <1>1, <1>4, <2>1, ClientInPhase
  <2>2. CASE c # d
    <3>1. /\ cpc'[d] = cpc[d] /\ spc'[d] = spc[d] /\ at'[d] = at[d] /\ msg'[d] = msg[d]
          /\ up'[d] = up[d] /\ down'[d] = down[d]
      BY <1>4, <2>2 DEF Connect, Kill, ClientStep, Open, OpenFails, NextLine, EndOfFile, Poll,
           Receive, ReceiveFails, Send, Goto, SGoto, netVars, threadVars, TypeOK
    <3>2. whole' = whole \/ \E b : whole' = [whole EXCEPT ![c] = b]
      BY <1>4 DEF Connect, Kill, ClientStep, Open, OpenFails, NextLine, EndOfFile, Poll,
           Receive, ReceiveFails, Send, netVars
    <3>3. whole'[d] = whole[d]
      BY <2>2, <3>2 DEF TypeOK
    <3> QED BY <1>2, <3>1, <3>3 DEF Same
  <2> QED BY <2>1, <2>2
<1>5. ASSUME NEW c \in Clients, NEW k \in 1..Len(up[c]), Read(c, k) PROVE InPhase(d)'
  <2>1. CASE c = d
    BY <1>1, <1>5, <2>1, ReadInPhase
  <2>2. CASE c # d
    <3>1. /\ cpc' = cpc /\ at' = at /\ down' = down
          /\ \E n : msg' = [msg EXCEPT ![c] = n]
          /\ \E l : spc' = [spc EXCEPT ![c] = l]
          /\ \E t : up' = [up EXCEPT ![c] = t]
          /\ \E b : whole' = [whole EXCEPT ![c] = b]
      BY <1>5 DEF Read, SGoto, clientVars
    <3>2. Same(d)
      BY <2>2, <3>1 DEF Same, TypeOK
    <3> QED BY <1>2, <3>2
  <2> QED BY <2>1, <2>2
<1>6. ASSUME NEW c \in Clients,
             ReadEnds(c) \/ TakeConn(c) \/ Filter(c) \/ Release(c) \/ Answer(c) \/ AnswerKills(c)
      PROVE  InPhase(d)'
  <2>1. whole' = whole
    BY <1>6 DEF ReadEnds, TakeConn, Filter, Release, Answer, AnswerKills, netVars
  <2>2. CASE c = d
    BY <1>1, <1>6, <2>1, <2>2, FilterInPhase, ThreadInPhase
  <2>3. CASE c # d
    <3>1. Same(d)
      BY <1>6, <2>1, <2>3 DEF ReadEnds, TakeConn, Filter, Release, Answer, AnswerKills, SGoto,
           clientVars, netVars, threadVars, Same, TypeOK
    <3> QED BY <1>2, <3>1
  <2> QED BY <2>2, <2>3
<1> QED BY <1>3, <1>4, <1>5, <1>6 DEF Next, ThreadStep

-----------------------------------------------------------------------------
(* The theorems *)

LEMMA InitInv == Init => IInv
<1> SUFFICES ASSUME Init PROVE IInv
  OBVIOUS
<1>1. TypeOK
  BY TypeInit
<1>2. Elems(accepted) = {} /\ Queued = {} /\ \A c \in Clients : Taken(c) = {}
  BY DEF Init, Elems, Queued, Taken
<1>3. /\ \A c \in Clients : cpc[c] = "unborn" /\ up[c] = <<>> /\ spc[c] = "none" /\ down[c] = 0
      /\ \A w \in Workers : hand[w] = None
      /\ \A c \in Clients : at[c] <= 0 /\ (env.format = "html" => at[c] = 0)
  BY PipelineAssumption DEF Init
<1>4. AtIsRead
  BY <1>3, PipelineAssumption DEF Init, AtIsRead
<1>5. Ahead /\ HasLast
  BY <1>2, <1>3 DEF Ahead, HasLast, Begins, Parsing
<1>6. Placed
  BY <1>2, <1>3 DEF Placed, Init, NoRepeats
<1>7. InStep
  BY <1>3 DEF InStep, InPhase
<1> QED BY <1>1, <1>4, <1>5, <1>6, <1>7 DEF IInv

\* Every step keeps all of the invariant.
LEMMA InvStep == IInv /\ [Next]_vars => IInv'
BY TypeStep, AtIsReadStep, AheadStep, PlacedStep, InStepStep DEF IInv

\* The invariant behind the theorems below holds throughout.
THEOREM Invariance == Spec => []IInv
<1>1. Init => IInv
  BY InitInv
<1>2. IInv /\ [Next]_vars => IInv'
  BY InvStep
<1> QED BY <1>1, <1>2, PTL DEF Spec

\* Every variable keeps to its type.  That a worker which writes has a task,
\* and that a thread which filters has parsed a message, needs the whole of
\* the invariant.
THEOREM TypeCorrect == Spec => []TypeOK
<1>1. IInv => TypeOK
  BY DEF IInv
<1> QED BY <1>1, Invariance, PTL

\* A client whose messages arrived one by one and whose answers came one by
\* one may trust them: what it has sent and had answered is queued or stored.
THEOREM AnswersAreTrue == Spec => []InStepWhileWhole
<1>1. IInv => InStepWhileWhole
  <2> SUFFICES ASSUME IInv, NEW c \in Clients, env.format = "html", whole[c], cpc[c] = "tail"
               PROVE  Done(c, at[c])
    BY DEF InStepWhileWhole, Done
  <2> QED BY DEF IInv, InStep, InPhase
<1> QED BY <1>1, Invariance, PTL

-----------------------------------------------------------------------------
(* The pipeline implements the store *)

statusMap == [c \in Clients |-> [n \in 1..MaxLines |-> Status(<<c, n>>)]]
topMap == [c \in Clients |-> LastTaken(c)]

\* The greatest of the lines taken.
LEMMA LastTakenIs ==
  ASSUME HasLast, NEW c \in Clients
  PROVE  /\ Taken(c) = {} => LastTaken(c) = 0
         /\ Taken(c) # {} => /\ LastTaken(c) \in Taken(c)
                             /\ \A m \in Taken(c) : m <= LastTaken(c)
<1>1. LastTaken(c) = IF Taken(c) = {} THEN 0
                     ELSE CHOOSE n \in Taken(c) : \A m \in Taken(c) : m <= n
  BY DEF LastTaken, Taken
<1> QED BY <1>1 DEF HasLast

LEMMA StoreStutters ==
  ASSUME UNCHANGED <<rows, dropped, accepted>>
  PROVE  statusMap' = statusMap /\ topMap' = topMap
BY DEF statusMap, topMap, Status, LastTaken, Elems

\* Filter takes a line that is later than all that were taken.
LEMMA FilterIsTake ==
  ASSUME IInv, HasLast', NEW c \in Clients, Filter(c), accepted' # accepted
  PROVE  Store!Next
<1>0. PICK n \in 1..MaxLines : n = msg[c]
  BY FilterTakes DEF IInv, Tasks
<1>1. /\ n \in 1..MaxLines /\ <<c, n>> \notin Elems(accepted)
      /\ \A m \in Taken(c) : m < n
      /\ Elems(accepted') = Elems(accepted) \cup {<<c, n>>}
      /\ Taken(c)' = Taken(c) \cup {n}
      /\ \A d \in Clients : d # c => Taken(d)' = Taken(d)
  BY <1>0, FilterTakes DEF IInv
<1>2. rows' = rows /\ dropped' = dropped
  BY DEF Filter
<1>3. LastTaken(c) < n
  BY <1>1, LastTakenIs DEF IInv
<1>4. LastTaken(c)' = n
  <2>1. LastTaken(c)' \in Taken(c)' /\ \A m \in Taken(c)' : m <= LastTaken(c)'
    <3>1. Taken(c)' # {}
      BY <1>1
    <3>2. LastTaken(c)' = IF Taken(c)' = {} THEN 0
                          ELSE CHOOSE m \in Taken(c)' : \A l \in Taken(c)' : l <= m
      BY DEF LastTaken, Taken
    <3>3. \E m \in Taken(c)' : \A l \in Taken(c)' : l <= m
      BY <3>1 DEF HasLast
    <3> QED BY <3>1, <3>2, <3>3
  <2>2. \A m \in Taken(c) : m \in Nat
    BY PipelineAssumption DEF Taken
  <2> QED BY <1>1, <2>1, <2>2
<1>5. \A d \in Clients : d # c => LastTaken(d)' = LastTaken(d)
  <2> SUFFICES ASSUME NEW d \in Clients, d # c PROVE LastTaken(d)' = LastTaken(d)
    OBVIOUS
  <2> DEFINE last(S) == IF S = {} THEN 0 ELSE CHOOSE m \in S : \A l \in S : l <= m
  <2>1. LastTaken(d) = last(Taken(d))
    BY DEF LastTaken, Taken
  <2>2. LastTaken(d)' = last(Taken(d)')
    BY DEF LastTaken, Taken
  <2> HIDE DEF last
  <2> QED BY <1>1, <2>1, <2>2
<1>6. topMap' = [topMap EXCEPT ![c] = n]
  BY <1>4, <1>5 DEF topMap
<1>7. <<c, n>> \notin rows \cup dropped
  BY <1>1 DEF IInv, Placed
<1>8. Status(<<c, n>>) = "untaken" /\ Status(<<c, n>>)' = "taken"
  BY <1>1, <1>2, <1>7 DEF Status
<1>9. \A d \in Clients, m \in 1..MaxLines : <<d, m>> # <<c, n>> => Status(<<d, m>>)' = Status(<<d, m>>)
  BY <1>1, <1>2 DEF Status
<1>10. statusMap' = [statusMap EXCEPT ![c][n] = "taken"]
  BY <1>1, <1>8, <1>9 DEF statusMap
<1>11. statusMap[c][n] = "untaken" /\ n > topMap[c]
  BY <1>1, <1>3, <1>8, PipelineAssumption DEF statusMap, topMap
<1> QED BY <1>1, <1>6, <1>10, <1>11 DEF Store!Next, Store!Take, statusMap, topMap

\* A worker that stores its task or gives it up settles a line.
LEMMA WorkerSettles ==
  ASSUME IInv, NEW w \in Workers, GetConn(w) \/ Write(w), ~UNCHANGED <<rows, dropped>>
  PROVE  Store!Next
<1>1. hand[w] \in Tasks /\ hand[w] \in Elems(accepted) /\ hand[w] \notin rows \cup dropped
  <2>1. hand[w] # None
    BY DEF GetConn, Write, IInv, Placed
  <2> QED BY <2>1 DEF IInv, Placed, TypeOK
<1>2. PICK c \in Clients, n \in 1..MaxLines : hand[w] = <<c, n>>
  BY <1>1 DEF Tasks
<1>3. /\ accepted' = accepted
      /\ \/ rows' = rows \cup {<<c, n>>} /\ dropped' = dropped
         \/ dropped' = dropped \cup {<<c, n>>} /\ rows' = rows
  BY <1>2 DEF GetConn, Write
<1>4. topMap' = topMap
  BY <1>3 DEF topMap, LastTaken, Elems
<1>5. Status(<<c, n>>) = "taken"
  BY <1>1, <1>2 DEF Status
<1>6. \A d \in Clients, m \in 1..MaxLines : <<d, m>> # <<c, n>> => Status(<<d, m>>)' = Status(<<d, m>>)
  BY <1>3 DEF Status, Elems
<1>7. PICK outcome \in {"stored", "dropped"} : Status(<<c, n>>)' = outcome
  BY <1>1, <1>2, <1>3 DEF Status
<1>8. statusMap' = [statusMap EXCEPT ![c][n] = outcome]
  BY <1>6, <1>7 DEF statusMap
<1>9. statusMap[c][n] = "taken"
  BY <1>5 DEF statusMap
<1> QED BY <1>4, <1>8, <1>9 DEF Store!Next, Store!Settle, statusMap, topMap

\* However the stream is cut and whichever connections are lent, the lines of
\* a client are taken in their order and each once, and a line that was taken
\* is stored or given up, once.
THEOREM Refinement == Spec => TakesInOrder
<1>1. Init => Store!Init
  <2> SUFFICES ASSUME Init PROVE Store!Init
    OBVIOUS
  <2>1. Elems(accepted) = {} /\ rows = {} /\ dropped = {}
    BY DEF Init, Elems
  <2>2. \A c \in Clients, n \in 1..MaxLines : Status(<<c, n>>) = "untaken" /\ LastTaken(c) = 0
    BY <2>1 DEF Status, LastTaken
  <2>3. \A c \in Clients : LastTaken(c) = 0
    BY <2>1 DEF LastTaken
  <2> QED BY <2>2, <2>3 DEF Store!Init
<1>2. IInv /\ IInv' /\ [Next]_vars => [Store!Next]_<<statusMap, topMap>>
  <2> SUFFICES ASSUME IInv, IInv', [Next]_vars PROVE [Store!Next]_<<statusMap, topMap>>
    OBVIOUS
  <2>1. CASE UNCHANGED <<rows, dropped, accepted>>
    BY <2>1, StoreStutters
  <2>2. ASSUME NEW c \in Clients, Filter(c) PROVE [Store!Next]_<<statusMap, topMap>>
    <3>1. rows' = rows /\ dropped' = dropped
      BY <2>2 DEF Filter
    <3> QED BY <2>1, <2>2, <3>1, FilterIsTake DEF IInv
  <2>3. ASSUME NEW w \in Workers, WorkerStep(w) PROVE [Store!Next]_<<statusMap, topMap>>
    <3>1. accepted' = accepted
      BY <2>3 DEF WorkerStep, Pop, GetConn, Write
    <3>2. CASE Pop(w)
      BY <2>1, <3>1, <3>2 DEF Pop
    <3> QED BY <2>1, <2>3, <3>1, <3>2, WorkerSettles DEF WorkerStep
  <2>4. CASE OpenLog \/ StartLog \/ Log \/ UNCHANGED vars
    BY <2>1, <2>4 DEF OpenLog, StartLog, Log, vars, dbVars
  <2>5. ASSUME NEW c \in Clients, Connect(c) \/ Kill(c) \/ ClientStep(c) \/
               (ThreadStep(c) /\ ~Filter(c))
        PROVE  UNCHANGED <<rows, dropped, accepted>>
    BY <2>5 DEF Connect, Kill, ClientStep, Open, OpenFails, NextLine, EndOfFile, Poll, Receive,
         ReceiveFails, Send, ThreadStep, Read, ReadEnds, TakeConn, Release, Answer, AnswerKills,
         dbVars
  <2> QED BY <2>1, <2>2, <2>3, <2>4, <2>5 DEF Next, ThreadStep
<1>3. [Store!Next]_<<statusMap, topMap>> =>
        [Store!Next]_<<[c \in Clients |-> [n \in 1..MaxLines |-> Status(<<c, n>>)]],
                       [c \in Clients |-> LastTaken(c)]>>
  BY DEF statusMap, topMap
<1> QED BY <1>1, <1>2, <1>3, Invariance, PTL DEF Spec, TakesInOrder, Store!Spec
-----------------------------------------------------------------------------
=============================================================================
