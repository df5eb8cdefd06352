# Verification of Asynchronous_Logging_System

TLA+ models of the C++ sources, checked with TLC on small instances, with
theorems checked by TLAPS for every value of the constants.  `PROJECT.json`
maps every definition to the lines it translates.

## 1. The system

Four executables (`CMakeLists.txt`): `main` writes a local log file and
describes it in shared memory; `client` tails that file and sends its lines to
`server` over TCP; `server` filters them by level and stores them in MySQL;
`webserver` answers HTTP and WebSocket requests about the stored lines.

| Component | State | Operations | Called by |
|---|---|---|---|
| `SqlConnPool` (MySQL/) | queue of connections, semaphore, mutex | `init`, `getConnection`, `releaseConnection`, `destroyPool` | connection threads and DB workers of `server`, the epoll loop of `webserver` |
| `AsyncDBWriter` (Server/) | task queue, `running_`, worker threads | `addTask`, `start`, `shutdown`, `workerThread`, `executeWrite` | `socketIO` threads; `~ServerTCP` |
| `AsyncLogBuffer` (LogMessage/) | current buffer, full buffers, flush thread | `append`, `flushThreadFunc`, destructor | `LogMessage` |
| `LogMessage` (LogMessage/) | `logBuffer`, path, `call_once` flag | `logMessage`, `setDefaultLogPath`, `flush` | every server side component |
| `Logger`, `LogQueue`, `ThreadPool` (root) | message queue, pool of 10 workers, open file | `log_in_text/html`, `process`, `rotateLogFile`, destructor | `main` |
| `SharedConfigManager` (Util/) | shared memory segment, named semaphore | `initFromUserInput`, `waitForInitialization`, `isInitialized`, `getLogFormat`, `cleanup` | `main`, `client`, signal handlers |
| `EpollServer` (EpollServer/) | epoll set, `_wsConnections`, handlers | accept, recv, handshake, frames, broadcast | `WebSocketServer.cpp`, the program `webserver` |
| `SessionManager` (Util/) | session per fd | add, get, update, remove | `EpollServer` |
| WebSocket API (WebSocket/) | the connection's transaction state | queries, statistics, insert | `EpollServer` handlers |
| `ServerTCP`, `socketIO` (Server/) | one detached thread per connection | accept, read, parse, level filter, `addTask`, reply | `server` |
| `Client` (Client/) | place in the log, socket | tail loops for both formats, send, wait for the reply | `client` |
| `static/js` | `pendingRequests`, socket, timers | request, answer, timeout, reconnect, HTTP fallback | the browser |

The hard behaviours: several threads with a mutex that some accesses skip;
condition variables with timeouts; shutdown while producers still run; several
processes sharing memory and a semaphore that a crash can leave taken; a
connection pool that refuses when it is empty; streams that cut and join messages
where one `read` is taken for one message; answers that race with timeouts and
reconnections; a signed byte in the WebSocket length.

What makes each part correct:

- the pool lends a connection to one thread at a time, loses none, and its
  semaphore agrees with its queue;
- the writer takes each accepted line once, in queue order, and inserts it at most
  once (two workers may insert theirs in the other order), and `shutdown` leaves
  none in the queue;
- the log buffer and the logger skip and double no line and keep their order, and
  their destructors return with nothing queued; what a closed or failing stream
  swallows, or what races with the close, is not in the file, and only counted here;
- processes that share a configuration read the same one, and one that ends or
  gets a signal leaves nothing stale to the next; after a SIGKILL between `sem_wait`
  and `sem_post` every later main waits for ever;
- a descriptor the kernel gives out again brings nothing of its old owner, and
  frames reach the handler once and in order;
- a row the API reports as saved is committed, or waits in a connection that works
  (section 7 says what becomes of it), and a request of the page is given its own
  answer, or times out;
- a line on its way from the file through client, stream, thread, queue and worker
  is taken once and in its order and ends as stored or as dropped; a client whose
  messages arrived one by one can believe the answers it got.

## 2. Plan

The most important behaviour first: the path of a log line and the resources it
needs.  Done:

1. `ConnAllocator`, `SqlConnPool`, `SqlConnPoolProofs`
2. `AsyncDBWriter`, `AsyncDBWriterProofs`
3. `AppendOnlyLog`, `AsyncLogBuffer`, `AsyncLogBufferProofs`
4. `Logger`, `LoggerProofs`
5. `SharedConfig`, `MCSharedConfig`, `SharedConfigProofs`
6. `EpollServer`, `MCEpollServer`, `EpollServerProofs`
7. `WebSocketApi`
8. `LogStore`, `LogPipeline`, `MCLogPipeline`, `LogPipelineProofs`: client,
   `socketIO`, `AsyncDBWriter` and the pool composed
9. `LogMessage` over `AsyncLogBuffer`
10. `PageRequests`, and `WebSocketProofs` for both ends of the WebSocket, the page
    and the API

To do:

11. That `AsyncDBWriter` and `SqlConnPool` implement what `LogPipeline` says of the
    writer's queue and of the pool, as step simulations.
12. `LogLine`: the placeholder substitution of `Logger::process_text` and the level
    filter as functions against reference definitions.

Each of the twelve runs asks a question of its own.  Disagreements that need no run
to be kept are told in section 7, with the constants to see them again.

## 3. Modules

Each action is a critical section or a stretch of code between two points where
other threads, processes or clients can be seen; `PROJECT.json` gives the lines.

**SqlConnPool.**  A call of `getConnection` is `GetConnection` (up to the look at
the queue), `SeesEmpty` or `SeesConnection` (the unlocked `empty()`), `SemWait`
and `Take` (the locked pop).  The look is a data race: a look during which some
thread changed the queue is in `raced` and may return anything.  `init` is one
action per connection, each may fail; `init` and `destroyPool` run only when
nobody uses the pool, as in the programs.  `MaxHeld` is how many `SqlConnRAII`
objects a thread has alive.  `ConnAllocator` is the abstract allocator.

**LogPipeline.**  The composition: `main` appends lines to the file (`OpenLog`,
`StartLog`, `Log`), clients poll or read it (`Open`, `Poll`, `NextLine`,
`EndOfFile`) and wait for an answer after each message (`Receive`); a thread of the
server goes through `Read`, `TakeConn`, `Filter`, `Release`, `Answer`; a worker
through `Pop`, `GetConn`, `Write`.  Threads and workers draw on one pool, which is
only counted here; what `SqlConnPool` and `AsyncDBWriter` do inside these steps is
in their modules.  A message is two pieces of a stream and `read` returns any
number of them, so that the first of two messages is taken and the second thrown
away, or the parts of one are parsed as two; `recv` may return part of an answer
or several.  `Parsed` says what `regex_search` finds in the pieces.  `Kill` ends a client
anywhere, and a second client may be its restart; a client that is gone is answered
by a reset first (`reset`) and by SIGPIPE afterwards (`AnswerKills`).  `LogStore` is
the abstract specification: lines of a source are taken in rising order, each once,
and then settled once, as stored or as dropped.  The refinement maps a line's
status to where its task is and `top` to the last line taken.  History variables:
`accepted`, and `whole`, which says that so far every read was a message and
every `recv` an answer.

**LogMessage.**  The life of the buffers behind the pointer of `LogMessage.cpp`.
`setDefaultLogPath` is `SetPath`, `Make`, `Store`, `Delete` (the assignment to a
`unique_ptr` reads, stores and deletes); `logMessage` is `CallOnce`, `Test` and the
second read of the pointer, `Load`, before `Append`.  None of these takes a lock.

**PageRequests.**  `websocket.js` and the functions of `main.js`.  The browser runs
a task with the continuations of what it settles before the next one, so these are
one action; tasks of timers, network and user come in any order.  `Lose` breaks a
socket, whose `OnClose` comes later; sockets are never used again, and the requests
of one that broke stay in `pendingRequests` until their timeouts.  The server answers
in order, or not at all (`NoReply`, see `EpollServer`).  Its specification is
`PageSpec`, from `PageInit` and `PageNext`, so that one module of proofs can extend it
and `WebSocketApi`.

**AsyncDBWriter.**  Workers go through `TestRunning` (the loop's unlocked test),
`Predicate`, `Block`, `Awake`/`TimeOut`, `Pop`, and the two halves of
`executeWrite` (`Execute`, `Commit`), each of which may fail; a call of
`addTask` is the push and, after the unlock, `NotifyOne`.  `shutdown` is a
sequence of steps of `Main`.  Ghost state: `added`, `taken`, `swapped`, `rows`,
`dropped`.  Spurious wakeups are not modelled apart from time-outs, which
have the same effect.

**AsyncLogBuffer.**  `AppendLine` is `append`; the flush thread waits, collects
under the mutex and writes outside it.  Lines are numbered in the order of the
appends and a list of buffers is the concatenation of its lines.  `nextBuffer`
never receives a line in the code and has no variable.  Opening and writing may
fail, which puts lines into `lost`.  Appends happen only while the object lives.
A crash is a stop in any state: what the file holds then is what the invariants
say.  `Flush` is `LogMessage::flush`.

**Logger.**  `Push` and `Submit` are the two halves of a logging call.  A worker
takes a task and runs `process`: `Enter` locks `m_mutex` and the worker stays in
the loop of `Pop` and `Write` until the queue is stopped.  `Rotate` needs the
mutex and is one step.  The destructor's unlocked use of the stream is
`BeginClose`..`EndClose`; a line written in between is in `raced` and may be in
the file once, twice or not.

**SharedConfig.**  Segments and semaphores are named after the process that made
them, so an unlinked object goes on to exist for who uses it.  The constructor
is five steps (create or attach, placement new, unlink, open) and `cleanup` two,
`Exit` (`shmctl`) and `ExitUnlink` (`sem_unlink`), so that other processes can be in
between.  `env` says what may happen in a behaviour: a process starts in the
constructor of another (`"together"`) or between the two calls of its destructor
(`"gap"`), a client comes to the end of its log or calls `exit` (`"end"`), a process
is killed (`"kill"`), gets a signal it handles (`"interrupt"`) or `"invalid"` input.
`isInitialized` and `cleanupStaleConfig` each test whether the configuration is
stale (`CallClean`; `NotStale`, `IsStale`), and it can change from one to the other.
Pids are not used again, and all processes belong to one user.  `MutualExclusion(s)` is about the
processes in segment `s`; `LockedInit` says it of the segment that is found, and
`AlwaysLocked`, which does not hold, of every one.

**EpollServer.**  A message is two pieces of a stream, and `recv` returns any
positive number of pieces (`Recv(f, k)`): half a request, a frame and a half, two
frames.  The code takes what it gets for one message: `TakenFor` says which frame
it can be taken for, and the rest of a torn frame may look like any.  Descriptors
are numbers the kernel gives out again, lowest first; connections are not.  A
batch of events is handled in any order.  Clients wait for the answer to a request
before they send the next one and send frames only after a 101, as browsers do.
Accepted sockets are blocking and there is one thread: `send` to a client that is
connected waits as long as the client does not read.  After `StopReading`, a client that
stays and reads no more, the send of an answer (`Answer`) either still fits into the
socket's buffer or blocks with what comes after it in `sending`.  Then the thread does
nothing until that client hangs up, and goes on in `SendReturns` or is ended by SIGPIPE
(`BlockedKills`).
What the handlers answer, and the counters of a session, are left out; that a
handler throws (`HandlerThrows`), that an answer to a client that is gone raises
SIGPIPE (`SendKills`) and that `Sock::Accept` exits end the process (`Dies`).
The loop's other broadcasts do not occur: nothing in `webserver` calls
`broadcastLogUpdate`.

**WebSocketApi.**  What a handler of `webserver` does with a connection: `Take` and
`Release` are `SqlConnRAII`; a query of the page is `Begin` (autocommit off and
START TRANSACTION, which commits what an earlier handler left), a statement and
`CommitRead`; the statistics are four queries that ignore a failed commit.
libmysqlclient refuses every command, commit and rollback too, while a result has rows
that were not fetched, and closing the statement throws these away: `unread` is the
connections whose last read left such a result.  `Query` is a list read to its end,
`QueryTruncated` one that a row longer than the buffers cuts, `Count` a number fetched
without asking for the end of the result, which is how the statistics read; so their commit
is always refused (`CommitRefused`) and the rollback with it.  A statement call that fails
is `QueryFails` when its rollback works and `ResultFails` when rows are unread.
`Insert` leaves its row pending if an earlier read has set autocommit off.  Rows
are numbered; `saved` is what clients were told, `lost` what MySQL rolled back.
The loop is one thread, so handlers do not overlap, but `server` writes rows,
connections break and the process is killed between any two steps.  A connection
is not made again, as in the code.

## 4. Runs

| Run | Bounds | States | Shows |
|---|---|---|---|
| `pool` | 3 threads, 2 connections, 2 held per thread | 3,385 | `front()` never on an empty queue; semaphore = queue minus promised; no cycle of waiters; refines `ConnAllocator`; waiters are let through |
| `writer` | 3 lines, 2 workers | 80,644 | lines are taken in order, at most one row per line, `shutdown` complete and returns, accepted lines are dealt with |
| `buffer` | buffers of 2, 7 lines | 47,514 | no line skipped or doubled, destructor complete and returns, the file refines `AppendOnlyLog`, full buffers are collected |
| `logger` | 2 workers, 2 callers, 3 lines, 1 rotation | 27,180 | no line skipped or doubled on its way, across rotations and the unlocked close; every line leaves the queue; the destructor leaves none and returns |
| `shared` | 2 mains, 1 client, 4 environments | 2,629,803 | one initializer at a time and one format, with kills and clients' ends; nothing stale after an end or a signal; a taken semaphore is held by a process that will post it, signals and kills apart |
| `web` | 2 connections of 3 and 1 messages, 2 descriptors | 359,594 | no inheritance through a descriptor, frames in order, hang-ups noticed unless the thread is stuck in a send |
| `web_length` | the same, payloads of 130 bytes | | violates `WholeFrameIsHandled` |
| `api` | 2 connections, 3 rows | 427,908 | a row reported as saved is committed or waits in a working connection, rollbacks lose nothing, reads see exactly what is committed unless a row cuts them, an empty transaction stays in the pool only after a read that left its result unread |
| `pipeline` | 2 clients, 1 worker, pool of 1, 3 lines, 3 environments | 149,159 | answers are true while reads are whole; refines `LogStore`; a client that waits is answered or ends; the thread of a client that is gone ends |
| `pipeline_text` | 2 clients, 1 line, text format | | violates `WarningsAreStored` |
| `logmessage` | 2 connections, 1 worker, 3 buffers | | violates `ReleasedCorrectly` |
| `page` | 3 calls, 2 opens, 2 attempts, 3 functions | 337,320 | a call gets its own answer, has a timeout as long as it waits, and ends; one connection at a time; a page without one tries again until it gives up |

Why the bounds are enough to meet the hard cases.  *pool*: a third thread finds
the queue empty between another's look and its `sem_wait`, and two threads can each hold
one connection and ask for a second.  *writer*: with more lines than workers a
line waits in the queue while both write and `shutdown` swaps it.  *buffer*: seven
lines are three full buffers and a started one, so that one batch is written while the next
fills and the destructor finds both.  *logger*: two workers
compete for `m_mutex` and two callers for the queue, and a line can be pushed
before, during and after a rotation.  *shared*: a dead initializer, its successor
and a client.  The environments are initial states of one run, each for what it allows:
`{end}` and `{kill, end}` for the initializers, signals and ends with a start in the gap for
what is left behind, overlapping constructors and invalid input for the posts.  A
segment whose creator ended, a second one with a new semaphore and a process between
the two need three mains and a client; such instances were found by the proof and by
hand, and are told in section 7.  The processes are interchangeable within their kind and no
temporal property is checked, so the symmetry is sound; that more processes
change nothing is proved (section 6).  *web*: three messages
are an upgrade and two frames, which `recv` can tear, join or deliver whole, and
the second client takes over the descriptor of the first, and either can stop reading
while the other hangs up; 130 is a length whose
low byte is negative as a char.  *api*: of three rows one can be committed, one
wait in either connection and one be written by `server` during a read.
*pipeline*: one connection is the pool at its limit, which a thread takes
from a worker and a worker from a thread; a client with three lines has one message
in the stream behind another (after a `recv` that returned half an answer) and one
still to send; of two clients with a line each one can be answered while the other
is cut off, or be the other's restart; a text log is read in polls.  The three
environments (kill; text; two clients with kills and failing statements) are initial
states of one run.  *page*: with three calls one is answered, one waits over a socket
that broke and one is sent over its successor; two opens and two attempts are a
reconnection that works and one that is given up.  `Sockets` has as many members as
the page can make; `SocketsSuffice` proves that this bound cuts nothing off.

`CHECK_DEADLOCK FALSE` is set where the program may end or the bound on lines,
processes or messages stops it.  In `pool` deadlock is checked.

## 5. Fairness

- `SqlConnPool`: weak on each step of a thread that has begun a call, strong on
  `ReleaseConnection`: `SqlConnRAII` releases at the end of its scope, whatever
  the thread does with other connections meanwhile.
- `AsyncDBWriter`: weak on each worker, on the notification that follows a push,
  and on the thread in `start` or `shutdown`.  Nothing on `TimeOut`: the
  properties hold by the notifications alone.  Nobody has to add a line or to
  call `shutdown`.
- `AsyncLogBuffer`: weak on the flush thread and the join, nothing on the
  time-out.  `TimerSpec` adds weak fairness of the time-out; `FlushWrites` is
  violated under it too, so not for want of a timer.
- `Logger`: weak on each worker, on each call in progress and on the destructor.
- `LogPipeline`: weak on each client, each thread of the server and each worker:
  they run as long as they are not blocked.  None of their properties needs main
  to log, a client to connect, or a lent connection to be the one a worker waits for.
- `PageRequests`: weak on the browser's close event and its reconnection timer, on
  the timeouts of requests, and on HTTP, where `fetch` settles.  Nothing on the server,
  on messages or on opens, which need never come.
- `EpollServer`: weak on the thread's steps.  A send that blocks is not one of them
  until its client hangs up, and no client has to.  So
  `HangUpIsNoticed` says: what hung up is noticed, or the thread is from some moment
  on stuck in a send to another client (`Stuck`).
- `SharedConfig`, `WebSocketApi`, `LogMessage`: none, only safety is checked.

## 6. Proofs

For all values of the constants, under the named `ASSUME` of each module.

| Theorem | Argument |
|---|---|
| `SqlConnPoolProofs`: `TypeCorrect`, `FrontAlwaysThere`, `SemaphoreAgrees`, `NoDeadlock`, `NoneIsLost`, `Refinement` | `IInv` adds to the properties that a connection is in one place (`OnePlace`), that the semaphore is ahead of the queue only by threads that are about to pop, and what is true while no pool is up (`Dormant`, `DownIsEmpty`, `ConnectsAlone`). `FrontIsThere` follows by counting.  `Counts` follows the number of connections through `init`, after which they only move. |
| `AsyncDBWriterProofs`: `TypeCorrect`, `KeepsOrder`, `AtMostOneRow`, `ShutdownIsComplete` | a task is in an executor's hand exactly when its label says so (`HandMatchesLabel`), the list `shutdown` took over is touched by nobody else (`RemainingIsLocal`), and only after all workers have left (`JoinedFirst`). |
| `AsyncLogBufferProofs`: `TypeCorrect`, `NeverForgets`, `DestructorComplete`, `Refinement` | the lines not yet written, buffers and private list together, are consecutive numbers (`NothingForgotten`); the private list is filled only in the writing states, and the flush thread leaves only when nothing is left. |
| `LoggerProofs`: `TypeCorrect`, `NeverForgets`, `WrittenInOrder`, `DestructorComplete` | one worker has `m_mutex` and the line in hand (`Exclusive`); while lines are pending there is a task or a worker for them (`Covered`), so none is left when the pool has joined.  The line in hand is newer than all that was written, so the files are in order, and only the race with the close writes a line twice. |
| `EpollServerProofs`: `TypeCorrect`, `SessionsAreOwn`, `NoInheritance`, `FramesInOrder`, `ReadableFramesAreHandled` | the listening descriptor is in a batch only if somebody waits (`Listening`); a connection is new, waiting or behind one descriptor (`OnePlace`); everything in a stream is later than everything handled, and a message's second piece follows its first (`InOrder`), which makes any cut of the stream harmless for the order.  Frames come from upgraded clients only (`Upgrades`); so a whole text frame whose length bytes are not negative as chars is handled, and the sign is the only cause of what `web_length` finds. |
| `SharedConfigProofs`: `TypeCorrect`, `InitIsLocked`, `FormatsAgree`, `NothingStale`, `TakenSemaphoresAreHeld` | the place of a process fixes its handles (`Labels`), what is used has been made (`Made`), and the pid in a segment is that of a process that has written it (`Author`); one process constructs at a time (`Orderly`). Then one part per kind of behaviour: with kills and clients' ends, who uses the segment that is found has the semaphore that is found (`Named`) and that is a lock (`OneHolder`), because nobody starts between the two calls of a destructor; with ends only, a published configuration stays (`Calm`), also in a segment that was removed; with signals, invalid input and starts in the gap, the writer of the segment that is found lives (`Signalled`), and a semaphore at 0 has somebody who will post or unlink it (`Posted`), overlapping constructors or not. |
| `WebSocketProofs`, the API: `TypeCorrect`, `SavedAreSomewhere`, `RollbacksAreHarmless`, `ReadsSeeCommitted`, `NoTransactionIsLeft` | a row is in one place (`Placed`); nothing is pending in a connection while its handler reads (`Clean`), so that every rollback in the code rolls back nothing; a connection with an empty transaction is the reader's or one whose last read left its result unread (`Transactions`), and a connection at work is not in the queue (`OneUser`, from the pigeonhole principle for the initial queue). |
| `WebSocketProofs`, the page: `PageTypeCorrect`, `AnswersAreOwn`, `AwaitedAreTold`, `AtMostOneConnection`, `SocketsSuffice` | every requestId there is, in a timer, a map, a socket's outgoing or incoming messages (`Known`), belongs to one call (`Paired`) and the next one is new (`Fresh`); a socket whose close the page has not seen is the one in use, and then no reconnection timer runs (`OneInUse`). The sockets made are counted by the opens and attempts left (`Counted`). |
| `LogPipelineProofs`: `TypeCorrect`, `Refinement`, `AnswersAreTrue` | what is in the stream of a client or parsed by its thread is later than all that was taken from it, and read from the file (`Ahead`, `AtIsRead`): hence no cut of the stream brings a line twice or late. A task is in the queue, in one hand, stored or dropped (`Placed`). While reads are whole, client, stream and thread are in one of a few phases (`InStep`), and in each it is known which lines were dealt with. `HasLast` makes the last line taken well defined. |

Every safety property of a passing run is stated by one of these theorems.  The types
(`TypeOK`, `PageTypeOK`) are proved and therefore not checked in the runs; `LogMessage`,
whose only run is a violation, has no type invariant.

A module of proofs brings the few facts about sequences it needs.  No formula the
provers are given updates a function at two arguments in one EXCEPT, fields of a
record apart: tlapm 1.4.5 takes the arguments for different ones, and would prove too
much.

Only model-checked: the liveness properties, among them `HangUpIsNoticed`, because
fairness is out of TLAPS's reach.

What the properties lean on, beyond the fairness: a `mysql_commit` that is reported as
failed leaves no row (`EachOnce`); the page's `fetch`, which has no timeout, settles
(`EveryCallEnds`); reads are whole, where `InStepWhileWhole` says so.  What they do not
reach: lines written to a closed stream count as done for the logger, and the last
attempt of a reconnection, once its timer is set, is not followed further.

## 7. What the runs found

- **EpollServer.cpp:545** (`web_length`): the bytes of a two-byte payload length are
  sign-extended, so that frames of 128 to 255 bytes, among them the page's
  `get_logs` and `get_logs_by_level` requests, are dropped as incomplete and the
  page times out (`websocket.js:131`).
- **Client.cpp:206** (`pipeline_text`): in text format the client sends
  `[level]{message}`, and `socketIO` looks for a class before and a timestamp after
  it (Server.cpp:117).  No line of a text log is ever stored, and every message is
  answered with success.
- **LogMessage.cpp:76** (`logmessage`): each connection of the server replaces the
  log buffer without a lock, so a thread can append to a destroyed one and two
  replacements can destroy one buffer twice.

Disagreements with a line of the repository that are stated, violated when checked,
and have no run of their own:

| Where | What | To see it |
|---|---|---|
| SharedConfigManager.cpp:235 | an invalid option posts the semaphore twice; the next two processes initialise together | `AlwaysLocked` (an invariant), `SharedConfig.cfg` with `Procs = Mains = {m1, m2, m3}`, `Environments = {{"invalid"}}`, without symmetry |
| Logger.hpp:95 | `process` keeps `m_mutex` while it waits for lines, so `rotateLogFile` waits until the logger is destroyed | `RotateReturns`, `Logger.cfg` with one caller and one line |
| LogMessage.cpp:83 | `flush` appends an empty line and writes nothing; a partly filled buffer stays in memory, the time-out included | `FlushWrites` of `AsyncLogBuffer` under `TimerSpec` with buffers of 2 and 2 lines |
| SqlConnPool.cpp:135 | a thread that finds the queue empty is refused, although `SqlConnPool_test.cpp:102` expects every operation to succeed | `EveryOperationSucceeds` (an invariant), `SqlConnPool.cfg` with `MaxHeld = 1` |
| main.js:326 | two calls that fill the table may be answered in the other order; the table then shows the older answer | `NeverGoesBack`, `PageRequests.cfg` with 2 calls, 1 open, 1 attempt, `Kinds = {"fetchLogs", "clearLogs"}` |
| main.js, `clearLogs` | the server does not know `clear_logs` and rejects it, so that while the page is connected clearing shows an error and leaves the table as it is | `ClearClears` (an invariant), the same constants |

Also stated and violated when checked:
`EmptyQueueMeansDone` (run `AsyncDBWriter.cfg` with this invariant: the
queue is empty while the last lines are being written, which
`test_log_throughput.cpp` takes for the end), `CleansOnlyStale`
(`SharedConfig.cfg` with this property and `Environments = {{"kill"}}`, without
symmetry: a client resets the configuration the
successor of a killed process has just published), `OneFormat` (the same
cfg with `Environments = {{"interrupt"}}`, `Procs = {m1, m2, c1}`, `Mains = {m1, m2}`:
interrupting any process, a client too, removes the segment under the others, and
the next main makes another one; the end of a client that made it does so too),
and `AlwaysLocked` with
`Environments = {{"together"}}`: two mains that start at the same time can make
two semaphores.  A kill alone can do it too, with four mains
(`Procs = Mains = {m1, m2, m3, m4}`, `Environments = {{"kill"}}`, 32 steps), which the
proof of `InitIsLocked` brought out: `m2` has joined the segment of `m1`,
published and been killed; `m1` finds the configuration stale, resets it and its
destructor removes segment and semaphore, while `m3` waits for that semaphore and `m4` has
attached but not yet called `sem_open`, which makes a new one.  Both are then in
`initFromUserInput` for the segment that was removed.  Ends alone do the same: a client that
made the segment removes it when it comes to its end.  `LockedInit` is therefore about
the segment that is found, and even there a start in the gap breaks it: with
`Procs = {m1, m2, m3, c1}`, `Mains = {m1, m2, m3}`, `Environments = {{"end", "gap"}}`
(with symmetry) both `LockedInit` and `Agreement` are violated once their preconditions
are left out.  After the `shmctl` of `c1` a main makes a new segment and a new semaphore, whose
name the `sem_unlink` of `c1` (SharedConfigManager.cpp:197) then removes; the next main
attaches and makes another semaphore.  Both ask their users, and the first reads its
format before the second overwrites it.

And `SavedIsDurable` (`WebSocketApi.cfg` with this invariant): after a read has set
autocommit off, `insertWebSocketMessage` reports "Log saved to database" for a row that
nothing commits until the next transaction on the same connection, and that is lost when
the process or the connection ends before.

Seen while modelling: `CLOSE` leaves a session in the table until the descriptor
is used again, so `getSessionCount` is too high; the 400 branch of `HandleEvents`
is not reachable, because `parseHttpRequest` returns true for every request that
begins with GET or POST; the server process never sets `Server::g_server`, so
`broadcastLogToWebSocket` only logs a warning; the INSERT of the WebSocket API names neither `ip` nor `port`,
which are NOT NULL without default (SqlConnPool.cpp:89), so a MySQL server in its
default strict mode refuses every one; a failed prepare or bind there gives no
answer at all; a message longer than the result buffer of 2048 bytes ends the
fetch loop, and the list is cut there, sent as if complete, and its transaction
stays open in the pooled connection, as commit and rollback are both refused (the
statistics, which never read the end of a result, leave theirs open every time);
one client that stays connected and does not read blocks the webserver's only thread
in `send`, and with it all other clients; a broken connection stays in the pool.
On the way of a line: the writer has as many workers as the pool has connections
and every connection thread takes one more, so that tasks are dropped whenever all
are lent; a DEBUG line (5) passes the filter, although README.md:99 says that DEBUG is
only for the file; the client of an HTML log exits if the file is not there yet and ends
at the first end of file it meets; a restarted client sends, and the server
stores, all lines again; `ServerTCP::run` does not return, so the writer's
`shutdown` is never called in `server`; a `logMessage` before the path is set uses
up `call_once`, and nothing is ever logged.

## 8. Not modelled

What `PROJECT.json` lists as `not_modelled`: the text of lines; `EnvConfig`, `Daemon` and
socket wrappers, which keep no state; `ConfigManager`, whose calls are commented out;
`SyncDBWriter` and the benchmarks, a control group; tests and build files.
`waitForInitialization` and `requestShutdown` have no caller and are left out of `SharedConfig`;
`ServerStop` and the broadcasts have none in `webserver`; `Client::Connect`,
`sendData`, `receiveData` and `disConnect` have none in `client`.  Of the page, what it draws
and `log_update`, which no server sends, are left out.
