----------------------------- MODULE LogPipeline -----------------------------
(***************************************************************************)
(* The way of a log line: main (main.cpp, Logger) appends it to a file, a  *)
(* client (Client/Client.cpp, run) reads it there and sends it over TCP, a *)
(* thread of the server (Server/Server.cpp, socketIO) parses it, queues it *)
(* if its level is high enough and answers, and a worker of AsyncDBWriter  *)
(* stores it.  Threads and workers take their connections from one pool.   *)
(*                                                                         *)
(* Logger, AsyncDBWriter and SqlConnPool have modules of their own.  Here  *)
(* a line is in the file as a whole, the task queue is a queue, and the    *)
(* pool is the number of its connections; a request finds it exhausted     *)
(* exactly when all are lent.  The configuration is published before the   *)
(* first step (see SharedConfig).                                          *)
(*                                                                         *)
(* Lines are numbered by their place in the file.  A message is two pieces *)
(* of a stream, and read returns any positive number of pieces.            *)
(***************************************************************************)
EXTENDS Integers, Sequences, FiniteSets

CONSTANTS Clients,   \* processes of client; one may be the other's restart
          Workers,   \* the worker threads of AsyncDBWriter
          MaxConn,   \* the size of the pool
          MaxLines,  \* bounds the log
          Environments,  \* the format the user chooses, how many lines each
                     \* client may read, and the faults that may happen,
                     \* "kill": clients are killed, "db": statements fail
          Levels,    \* the levels main logs with
          None       \* no task

ASSUME PipelineAssumption ==
  /\ Clients \cap Workers = {}
  /\ IsFiniteSet(Clients) /\ IsFiniteSet(Workers)
  /\ MaxConn \in Nat /\ MaxLines \in Nat
  /\ Environments \subseteq
       [format : {"text", "html"}, reads : [Clients -> 0..MaxLines],
        faults : SUBSET {"kill", "db"}]
  /\ Levels \subseteq {"NORMAL", "INFO", "WARNING", "ERROR", "FATAL", "DEBUG"}
  /\ None \notin Clients \X (1..MaxLines)

VARIABLES
  env,        \* the environment of this behaviour
  file,       \* "none", "empty", or "open": it has its header
  lines,      \* the levels of the log lines in the file
  cpc,        \* where each client is
  at,         \* the last line it has read; -1: last_content is empty
  up,         \* pieces on their way to the server
  down,       \* answers on their way to the client
  spc,        \* where the client's thread in the server is
  msg,        \* the line it has parsed, 0 for none
  reset,      \* the server has written to a client that is gone
  serverUp,
  held,       \* threads and workers that hold a connection
  taskQueue,  \* taskQueue_
  hand,       \* the task of each worker
  rows,       \* the lines in log_table
  dropped,    \* tasks executeWrite returned false for
  accepted,   \* history: the tasks in the order addTask took them
  whole       \* history: every read was a message, every recv an answer

fileVars == <<env, file, lines>>
clientVars == <<cpc, at>>
netVars == <<up, down, reset, whole>>
threadVars == <<spc, msg>>
dbVars == <<taskQueue, hand, rows, dropped>>
vars == <<fileVars, clientVars, netVars, threadVars, serverUp, held, dbVars,
          accepted>>

Tasks == Clients \X (1..MaxLines)
Elems(s) == {s[i] : i \in 1..Len(s)}
Goto(c, from, to) == cpc[c] = from /\ cpc' = [cpc EXCEPT ![c] = to]
SGoto(c, from, to) ==
  serverUp /\ spc[c] = from /\ spc' = [spc EXCEPT ![c] = to]

Init ==
  /\ env \in Environments
  /\ file = "none" /\ lines = <<>>
  /\ cpc = [c \in Clients |-> "unborn"]
  /\ at = [c \in Clients |-> IF env.format = "text" THEN -1 ELSE 0]
  /\ up = [c \in Clients |-> <<>>]
  /\ down = [c \in Clients |-> 0]
  /\ spc = [c \in Clients |-> "none"]
  /\ msg = [c \in Clients |-> 0]
  /\ reset = [c \in Clients |-> FALSE]
  /\ serverUp = TRUE
  /\ held = {}
  /\ taskQueue = <<>>
  /\ hand = [w \in Workers |-> None]
  /\ rows = {} /\ dropped = {}
  /\ accepted = <<>>
  /\ whole = [c \in Clients |-> TRUE]

-----------------------------------------------------------------------------
(* main: the file is there, then its header and the line of the logger's   *)
(* start come in one flush, then the log lines, each flushed.              *)

OpenLog ==
  /\ file = "none" /\ file' = "empty"
  /\ UNCHANGED <<env, lines, clientVars, netVars, threadVars, serverUp,
                 held, dbVars, accepted>>

StartLog ==
  /\ file = "empty" /\ file' = "open"
  /\ UNCHANGED <<env, lines, clientVars, netVars, threadVars, serverUp,
                 held, dbVars, accepted>>

Log ==
  /\ file = "open" /\ \E c \in Clients : Len(lines) < env.reads[c]
  /\ \E level \in Levels : lines' = Append(lines, level)
  /\ UNCHANGED <<env, file, clientVars, netVars, threadVars, serverUp,
                 held, dbVars, accepted>>

-----------------------------------------------------------------------------
(* A client.  It connects, and the server accepts and starts a thread.     *)

Connect(c) ==
  /\ env.reads[c] > 0
  /\ Goto(c, "unborn", "open")
  /\ SGoto(c, "none", "read")
  /\ UNCHANGED <<fileVars, at, netVars, msg, serverUp, held, dbVars, accepted>>

\* In HTML format the file is opened once, in text format at every poll.
Open(c) ==
  /\ env.format = "text" \/ file # "none"
  /\ Goto(c, "open", "tail")
  /\ UNCHANGED <<fileVars, at, netVars, threadVars, serverUp, held, dbVars,
                 accepted>>

\* The HTML file is not there yet: exit(1).
OpenFails(c) ==
  /\ env.format = "html" /\ file = "none"
  /\ Goto(c, "open", "gone")
  /\ UNCHANGED <<fileVars, at, netVars, threadVars, serverUp, held, dbVars,
                 accepted>>

Message(n) == << <<n, 1>>, <<n, 2>> >>

\* write, then recv.
Send(c, n, last) ==
  /\ last <= env.reads[c]
  /\ up' = [up EXCEPT ![c] = @ \o Message(n)]
  /\ at' = [at EXCEPT ![c] = last]
  /\ Goto(c, "tail", "recv")
  /\ UNCHANGED <<fileVars, down, reset, whole, threadVars, serverUp, held,
                 dbVars, accepted>>

\* The next line of the HTML file.
NextLine(c) ==
  /\ env.format = "html" /\ at[c] < Len(lines)
  /\ Send(c, at[c] + 1, at[c] + 1)

\* There is none: the loop ends, run returns and the process with it.
EndOfFile(c) ==
  /\ env.format = "html" /\ at[c] = Len(lines)
  /\ Goto(c, "tail", "gone")
  /\ UNCHANGED <<fileVars, at, netVars, threadVars, serverUp, held, dbVars,
                 accepted>>

\* Of what is new in the text file extractValueSender finds the first line
\* only; it finds none in the line of the logger's start.
FirstNew(c) ==
  IF at[c] >= 0 THEN at[c] + 1 ELSE IF lines = <<>> THEN 0 ELSE 1

Poll(c) ==
  /\ env.format = "text" /\ file = "open" /\ at[c] < Len(lines)
  /\ Send(c, FirstNew(c), Len(lines))

\* recv returns part of an answer (k = 0), one, or several.
Receive(c, k) ==
  /\ Goto(c, "recv", "tail")
  /\ down[c] > 0 /\ k <= down[c]
  /\ down' = [down EXCEPT ![c] = @ - k]
  /\ whole' = [whole EXCEPT ![c] = @ /\ k = 1]
  /\ UNCHANGED <<fileVars, at, up, reset, threadVars, serverUp, held, dbVars,
                 accepted>>

\* recv returns 0 or -1: exit(1).
ReceiveFails(c) ==
  /\ Goto(c, "recv", "gone")
  /\ down[c] = 0 /\ ~serverUp
  /\ UNCHANGED <<fileVars, at, netVars, threadVars, serverUp, held, dbVars,
                 accepted>>

Kill(c) ==
  /\ "kill" \in env.faults
  /\ cpc[c] \in {"open", "tail", "recv"}
  /\ cpc' = [cpc EXCEPT ![c] = "gone"]
  /\ UNCHANGED <<fileVars, at, netVars, threadVars, serverUp, held, dbVars,
                 accepted>>

-----------------------------------------------------------------------------
(* socketIO, one detached thread for each connection *)

\* What regex_search may find in the pieces of one read: the first message
\* that is there up to its timestamp.  A message that is cut may be cut
\* behind the part of the timestamp the expression asks for.  A message of
\* the text format does not have the form the expression describes.
Parsed(chunk) ==
  LET first == {i \in 1..Len(chunk) :
                  /\ chunk[i][2] = 1
                  /\ \A j \in 1..(i - 1) : chunk[j][2] = 2}
      found(i) == IF i < Len(chunk) THEN {chunk[i][1]} ELSE {0, chunk[i][1]}
  IN  IF env.format = "text" \/ first = {} THEN {0}
      ELSE UNION {found(i) : i \in first}

\* Variant: what was read stays in the stream.
Read_Peek(c, k) ==
  /\ k \in 1..Len(up[c])
  /\ \E n \in Parsed(SubSeq(up[c], 1, k)) :
       /\ msg' = [msg EXCEPT ![c] = n]
       /\ SGoto(c, "read", IF n = 0 THEN "answer" ELSE "conn")
  /\ UNCHANGED <<fileVars, clientVars, netVars, serverUp, held, dbVars,
                 accepted>>

\* Variant: no answer to what cannot be parsed.
Read_Continue(c, k) ==
  /\ k \in 1..Len(up[c])
  /\ \E n \in Parsed(SubSeq(up[c], 1, k)) :
       /\ msg' = [msg EXCEPT ![c] = n]
       /\ SGoto(c, "read", IF n = 0 THEN "read" ELSE "conn")
  /\ up' = [up EXCEPT ![c] = SubSeq(@, k + 1, Len(@))]
  /\ UNCHANGED <<fileVars, clientVars, down, reset, whole, serverUp, held,
                 dbVars, accepted>>

\* One read is taken for one message.
Read(c, k) ==
  /\ k \in 1..Len(up[c])
  /\ \E n \in Parsed(SubSeq(up[c], 1, k)) :
       /\ msg' = [msg EXCEPT ![c] = n]
       /\ SGoto(c, "read", IF n = 0 THEN "answer" ELSE "conn")
  /\ up' = [up EXCEPT ![c] = SubSeq(@, k + 1, Len(@))]
  /\ whole' = [whole EXCEPT ![c] = @ /\ SubSeq(up[c], 1, k) = Message(up[c][1][1])]
  /\ UNCHANGED <<fileVars, clientVars, down, reset, serverUp, held, dbVars,
                 accepted>>

\* Variant: the thread ends only when read returns 0.
ReadEnds_NoError(c) ==
  /\ cpc[c] = "gone"
  /\ up[c] = <<>> /\ ~reset[c]
  /\ SGoto(c, "read", "closed")
  /\ UNCHANGED <<fileVars, clientVars, netVars, msg, serverUp, held, dbVars,
                 accepted>>

\* read returns 0, or -1 after a reset.
ReadEnds(c) ==
  /\ cpc[c] = "gone"
  /\ up[c] = <<>> \/ reset[c]
  /\ SGoto(c, "read", "closed")
  /\ up' = [up EXCEPT ![c] = <<>>]
  /\ UNCHANGED <<fileVars, clientVars, down, reset, whole, msg, serverUp,
                 held, dbVars, accepted>>

\* getConnection: refused when all connections are lent.
Free == Cardinality(held) < MaxConn

\* connRAII of socketIO takes a connection that nothing uses.
TakeConn(c) ==
  /\ SGoto(c, "conn", "filter")
  /\ held' = IF Free THEN held \cup {c} ELSE held
  /\ UNCHANGED <<fileVars, clientVars, netVars, msg, serverUp, dbVars, accepted>>

LeveltoInt ==
  [NORMAL |-> 0, INFO |-> 1, WARNING |-> 2, ERROR |-> 3, FATAL |-> 4,
   DEBUG |-> 5]

\* Variant: only what is above WARNING.
Filter_Above(c) ==
  /\ SGoto(c, "filter", "release")
  /\ IF LeveltoInt[lines[msg[c]]] <= LeveltoInt["WARNING"]
       THEN UNCHANGED <<taskQueue, accepted>>
       ELSE /\ taskQueue' = Append(taskQueue, <<c, msg[c]>>)
            /\ accepted' = Append(accepted, <<c, msg[c]>>)
  /\ UNCHANGED <<fileVars, clientVars, netVars, msg, serverUp, held, hand,
                 rows, dropped>>

\* The level filter and addTask.
Filter(c) ==
  /\ SGoto(c, "filter", "release")
  /\ IF LeveltoInt[lines[msg[c]]] < LeveltoInt["WARNING"]
       THEN UNCHANGED <<taskQueue, accepted>>
       ELSE /\ taskQueue' = Append(taskQueue, <<c, msg[c]>>)
            /\ accepted' = Append(accepted, <<c, msg[c]>>)
  /\ UNCHANGED <<fileVars, clientVars, netVars, msg, serverUp, held, hand,
                 rows, dropped>>

\* connRAII goes out of scope.
Release(c) ==
  /\ SGoto(c, "release", "answer")
  /\ held' = held \ {c}
  /\ UNCHANGED <<fileVars, clientVars, netVars, msg, serverUp, dbVars, accepted>>

\* write(response): "success", whatever became of the message.  To a client
\* that is gone the first one is answered by a reset.
Answer(c) ==
  /\ SGoto(c, "answer", "read")
  /\ msg' = [msg EXCEPT ![c] = 0]
  /\ IF cpc[c] = "gone"
       THEN reset' = [reset EXCEPT ![c] = TRUE] /\ UNCHANGED down
       ELSE down' = [down EXCEPT ![c] = @ + 1] /\ UNCHANGED reset
  /\ UNCHANGED <<fileVars, clientVars, up, whole, serverUp, held, dbVars,
                 accepted>>

\* A further one may raise SIGPIPE, which nothing in the server handles.
AnswerKills(c) ==
  /\ serverUp /\ spc[c] = "answer" /\ reset[c]
  /\ serverUp' = FALSE
  /\ UNCHANGED <<fileVars, clientVars, netVars, threadVars, held, dbVars,
                 accepted>>

-----------------------------------------------------------------------------
(* A worker of AsyncDBWriter *)

Pop(w) ==
  /\ serverUp /\ hand[w] = None /\ taskQueue # <<>>
  /\ hand' = [hand EXCEPT ![w] = Head(taskQueue)]
  /\ taskQueue' = Tail(taskQueue)
  /\ UNCHANGED <<fileVars, clientVars, netVars, threadVars, serverUp, held,
                 rows, dropped, accepted>>

\* executeWrite without a connection returns false, which nobody looks at.
GetConn(w) ==
  /\ serverUp /\ hand[w] # None /\ w \notin held
  /\ IF Free
       THEN held' = held \cup {w} /\ UNCHANGED <<hand, dropped>>
       ELSE /\ dropped' = dropped \cup {hand[w]}
            /\ hand' = [hand EXCEPT ![w] = None]
            /\ UNCHANGED held
  /\ UNCHANGED <<fileVars, clientVars, netVars, threadVars, serverUp,
                 taskQueue, rows, accepted>>

\* The rest of executeWrite succeeds, or one of its calls fails.
Write(w) ==
  /\ serverUp /\ w \in held
  /\ \/ rows' = rows \cup {hand[w]} /\ UNCHANGED dropped
     \/ "db" \in env.faults /\ dropped' = dropped \cup {hand[w]} /\ UNCHANGED rows
  /\ held' = held \ {w}
  /\ hand' = [hand EXCEPT ![w] = None]
  /\ UNCHANGED <<fileVars, clientVars, netVars, threadVars, serverUp,
                 taskQueue, accepted>>

-----------------------------------------------------------------------------
ClientStep(c) ==
  \/ Open(c) \/ OpenFails(c) \/ NextLine(c) \/ EndOfFile(c) \/ Poll(c)
  \/ \E k \in 0..down[c] : Receive(c, k)
  \/ ReceiveFails(c)

ThreadStep(c) ==
  \/ \E k \in 1..Len(up[c]) : Read(c, k)
  \/ ReadEnds(c) \/ TakeConn(c) \/ Filter(c) \/ Release(c) \/ Answer(c)
  \/ AnswerKills(c)

WorkerStep(w) == Pop(w) \/ GetConn(w) \/ Write(w)

Next ==
  \/ OpenLog \/ StartLog \/ Log
  \/ \E c \in Clients : Connect(c) \/ Kill(c) \/ ClientStep(c) \/ ThreadStep(c)
  \/ \E w \in Workers : WorkerStep(w)

Spec == Init /\ [][Next]_vars

Fairness ==
  /\ \A c \in Clients : WF_vars(ClientStep(c)) /\ WF_vars(ThreadStep(c))
  /\ \A w \in Workers : WF_vars(WorkerStep(w))

FairSpec == Spec /\ Fairness

-----------------------------------------------------------------------------
TypeOK ==
  /\ env \in Environments
  /\ file \in {"none", "empty", "open"}
  /\ lines \in Seq(Levels)
  /\ cpc \in [Clients -> {"unborn", "open", "tail", "recv", "gone"}]
  /\ at \in [Clients -> -1..MaxLines]
  /\ up \in [Clients -> Seq((0..MaxLines) \X {1, 2})]
  /\ down \in [Clients -> Nat]
  /\ spc \in [Clients -> {"none", "read", "conn", "filter", "release",
                          "answer", "closed"}]
  /\ msg \in [Clients -> 0..MaxLines]
  /\ reset \in [Clients -> BOOLEAN]
  /\ serverUp \in BOOLEAN
  /\ held \subseteq Clients \cup Workers
  /\ taskQueue \in Seq(Tasks)
  /\ hand \in [Workers -> Tasks \cup {None}]
  /\ rows \subseteq Tasks /\ dropped \subseteq Tasks
  /\ accepted \in Seq(Tasks)
  /\ whole \in [Clients -> BOOLEAN]

Storable(n) == LeveltoInt[lines[n]] >= LeveltoInt["WARNING"]

\* "success" means something as long as TCP keeps the messages apart: a
\* client of an HTML log that has the answer to its last line has all its
\* lines from WARNING on in the queue of the writer, or past it.
InStepWhileWhole == \A c \in Clients :
  (env.format = "html" /\ whole[c] /\ cpc[c] = "tail") =>
    \A n \in 1..at[c] : Storable(n) => <<c, n>> \in Elems(accepted)

\* However reads cut and join the messages, and wherever a task is refused:
\* the lines of a client are taken in their order, each once, and a line is
\* either stored or dropped and stays so.
Status(t) ==
  IF t \in rows THEN "stored"
  ELSE IF t \in dropped THEN "dropped"
  ELSE IF t \in Elems(accepted) THEN "taken" ELSE "untaken"

LastTaken(c) ==
  LET taken == {n \in 1..MaxLines : <<c, n>> \in Elems(accepted)}
  IN  IF taken = {} THEN 0 ELSE CHOOSE n \in taken : \A m \in taken : m <= n

Store == INSTANCE LogStore WITH
  Sources <- Clients, Last <- MaxLines,
  status <- [c \in Clients |-> [n \in 1..MaxLines |-> Status(<<c, n>>)]],
  top <- [c \in Clients |-> LastTaken(c)]

TakesInOrder == Store!Spec

\* A client that waits for an answer gets one or ends, although the answers
\* and the reads need not match the messages.
ClientIsAnswered == \A c \in Clients : cpc[c] = "recv" ~> cpc[c] # "recv"

\* The thread of a client that is gone ends, unless the server does.
ThreadsEnd == \A c \in Clients :
  cpc[c] = "gone" ~> (spc[c] = "closed" \/ ~serverUp)

\* README.md: WARNING and what is above it goes to the database.
WarningsAreStored == \A t \in Tasks :
  (t[2] <= Len(lines) /\ at[t[1]] >= t[2] /\ Storable(t[2])) ~> t \in rows

=============================================================================
