------------------------------- MODULE Logger -------------------------------
(***************************************************************************)
(* Logger.hpp with its LogQueue.hpp and ThreadPool.hpp: a call of          *)
(* log_in_text or log_in_html pushes a line and submits a task; a task     *)
(* runs process, which holds m_mutex and writes lines until the queue is   *)
(* stopped.  rotateLogFile and the destructor meet it there.               *)
(*                                                                         *)
(* Lines are numbered in the order of the pushes.  rotateLogFile runs      *)
(* under m_mutex in one step, and the files it leaves behind are one       *)
(* sequence with the current one.  The destructor uses m_file without the  *)
(* mutex: a line written meanwhile is a race, and may come out once, twice *)
(* or not at all.                                                          *)
(***************************************************************************)
EXTENDS Integers, Sequences

CONSTANTS Workers,      \* the threads of the pool, THREADS_SIZE of them
          Callers,      \* the threads that log and rotate
          MaxLines,     \* bound on the lines logged
          MaxRotations  \* bound on the rotations

ASSUME LoggerAssumption ==
  /\ Workers # {} /\ Workers \cap Callers = {}
  /\ MaxLines \in Nat /\ MaxRotations \in Nat

VARIABLES
  logged,     \* number of lines pushed
  queue,      \* LogQueue::m_queue
  stopped,    \* LogQueue::m_bStop
  tasks,      \* number of tasks in ThreadPool::_tasks; all run process
  closed,     \* ThreadPool::_isClosed
  worker,     \* where each worker is
  msg,        \* the line the worker that holds m_mutex has popped
  caller,     \* where each caller is
  owner,      \* the constructor and the destructor
  stream,     \* m_file
  rotations,  \* rotateLogFile calls that got the mutex
  file, lost, \* lines written, lines a bad or closed stream swallowed
  raced       \* lines whose write met the destructor

vars == <<logged, queue, stopped, tasks, closed, worker, msg, caller, owner,
          stream, rotations, file, lost, raced>>

lines == <<logged, queue, msg>>
disk == <<stream, file, lost, raced>>
switches == <<stopped, closed, owner>>

Elems(s) == {s[i] : i \in 1..Len(s)}

\* A worker in process holds m_mutex, also while it waits in LogQueue::pop.
InProcess == {"pop", "popWait", "write"}
MutexFree == \A w \in Workers : worker[w] \notin InProcess

GoWorker(w, from, to) == worker[w] = from /\ worker' = [worker EXCEPT ![w] = to]
GoCaller(c, from, to) == caller[c] = from /\ caller' = [caller EXCEPT ![c] = to]
GoOwner(from, to) == owner = from /\ owner' = to

Init ==
  /\ logged = 0 /\ queue = <<>> /\ msg = <<>>
  /\ stopped = FALSE /\ closed = FALSE
  /\ tasks = 0
  /\ worker = [w \in Workers |-> "test"]
  /\ caller = [c \in Callers |-> "free"]
  /\ owner = "new"
  /\ stream = "closed" /\ rotations = 0
  /\ file = <<>> /\ lost = {} /\ raced = {}

-----------------------------------------------------------------------------
(* The constructor, once the pool has started *)

Open ==
  /\ GoOwner("new", "up")
  /\ stream' = "open"
  /\ UNCHANGED <<lines, stopped, tasks, closed, worker, caller, rotations, file, lost, raced>>

\* The exception destroys the members: the pool is closed, the queue not stopped.
OpenThrows ==
  /\ GoOwner("new", "pool")
  /\ UNCHANGED <<lines, stopped, tasks, closed, worker, caller, rotations, disk>>

-----------------------------------------------------------------------------
(* log_in_text and log_in_html *)

\* Variant: push does not notify.
Push_Silent(c) ==
  /\ owner = "up" /\ logged < MaxLines
  /\ GoCaller(c, "free", "submit")
  /\ logged' = logged + 1
  /\ queue' = Append(queue, logged + 1)
  /\ UNCHANGED <<worker, msg, tasks, switches, rotations, disk>>

\* LogQueue::push: only the worker that holds m_mutex can be waiting.
Push(c) ==
  /\ owner = "up" /\ logged < MaxLines
  /\ GoCaller(c, "free", "submit")
  /\ logged' = logged + 1
  /\ queue' = Append(queue, logged + 1)
  /\ worker' = [w \in Workers |-> IF worker[w] = "popWait" THEN "pop" ELSE worker[w]]
  /\ UNCHANGED <<msg, tasks, switches, rotations, disk>>

\* ThreadPool::submitTask, to the unlock.
Submit(c) ==
  /\ GoCaller(c, "submit", "notify")
  /\ tasks' = IF closed THEN tasks ELSE tasks + 1
  /\ UNCHANGED <<lines, worker, switches, rotations, disk>>

NotifyOne(c) ==
  /\ GoCaller(c, "notify", "free")
  /\ IF \E w \in Workers : worker[w] = "wait"
     THEN \E w \in Workers : GoWorker(w, "wait", "test")
     ELSE UNCHANGED worker
  /\ UNCHANGED <<lines, tasks, switches, rotations, disk>>

-----------------------------------------------------------------------------
(* rotateLogFile *)

CallRotate(c) ==
  /\ owner = "up" /\ rotations < MaxRotations
  /\ GoCaller(c, "free", "rotate")
  /\ rotations' = rotations + 1
  /\ UNCHANGED <<lines, worker, tasks, switches, disk>>

\* The new file opens, or the old one again, or none does.
Rotate(c) ==
  /\ MutexFree
  /\ GoCaller(c, "rotate", "free")
  /\ stream' \in {"open", "closed"}
  /\ UNCHANGED <<lines, worker, tasks, switches, rotations, file, lost, raced>>

-----------------------------------------------------------------------------
(* A pool worker *)

\* Variant: the wait has no predicate.
TakeTask_Blind(w) ==
  /\ GoWorker(w, "test", "enter")
  /\ tasks' = tasks - 1
  /\ UNCHANGED <<lines, caller, switches, rotations, disk>>

TakeTask(w) ==
  /\ tasks > 0
  /\ GoWorker(w, "test", "enter")
  /\ tasks' = tasks - 1
  /\ UNCHANGED <<lines, caller, switches, rotations, disk>>

Sleep(w) ==
  /\ tasks = 0 /\ ~closed
  /\ GoWorker(w, "test", "wait")
  /\ UNCHANGED <<lines, tasks, caller, switches, rotations, disk>>

\* Variant: a closed pool drops its tasks.
Exit_Drop(w) ==
  /\ closed
  /\ GoWorker(w, "test", "exited")
  /\ UNCHANGED <<lines, tasks, caller, switches, rotations, disk>>

Exit(w) ==
  /\ closed /\ tasks = 0
  /\ GoWorker(w, "test", "exited")
  /\ UNCHANGED <<lines, tasks, caller, switches, rotations, disk>>

\* Variant: process takes no mutex.
Enter_Unlocked(w) ==
  /\ GoWorker(w, "enter", "pop")
  /\ UNCHANGED <<lines, tasks, caller, switches, rotations, disk>>

Enter(w) ==
  /\ MutexFree
  /\ GoWorker(w, "enter", "pop")
  /\ UNCHANGED <<lines, tasks, caller, switches, rotations, disk>>

PopWaits(w) ==
  /\ queue = <<>> /\ ~stopped
  /\ GoWorker(w, "pop", "popWait")
  /\ UNCHANGED <<lines, tasks, caller, switches, rotations, disk>>

Pop(w) ==
  /\ queue # <<>>
  /\ GoWorker(w, "pop", "write")
  /\ msg' = <<Head(queue)>>
  /\ queue' = Tail(queue)
  /\ UNCHANGED <<logged, tasks, caller, switches, rotations, disk>>

\* pop returns false and process returns.
PopEnds(w) ==
  /\ queue = <<>> /\ stopped
  /\ GoWorker(w, "pop", "test")
  /\ UNCHANGED <<lines, tasks, caller, switches, rotations, disk>>

Written(w) ==
  /\ GoWorker(w, "write", "pop")
  /\ msg' = <<>>
  /\ UNCHANGED <<logged, queue, tasks, caller, switches, rotations>>

\* Variant: the line is written twice.
Write_Twice(w) ==
  /\ Written(w) /\ stream = "open"
  /\ file' = file \o msg \o msg
  /\ UNCHANGED <<stream, lost, raced>>

Write(w) ==
  /\ Written(w) /\ stream = "open"
  /\ file' = file \o msg
  /\ UNCHANGED <<stream, lost, raced>>

\* An I/O error sets badbit, and nothing is written any more.
WriteFails(w) ==
  /\ Written(w) /\ stream # "closing"
  /\ stream' = IF stream = "open" THEN "bad" ELSE stream
  /\ lost' = lost \cup Elems(msg)
  /\ UNCHANGED <<file, raced>>

\* The destructor is writing to the stream or closing it.
WriteRaces(w) ==
  /\ Written(w) /\ stream = "closing"
  /\ raced' = raced \cup Elems(msg)
  /\ \/ file' = file /\ lost' = lost \cup Elems(msg)
     \/ file' \in {file \o msg, file \o msg \o msg} /\ lost' = lost
  /\ UNCHANGED stream

-----------------------------------------------------------------------------
(* The destructor; no call is in progress *)

\* Variant: the worker in pop is not notified.
Stop_Silent ==
  /\ \A c \in Callers : caller[c] = "free"
  /\ GoOwner("up", "close")
  /\ stopped' = TRUE
  /\ UNCHANGED <<lines, worker, tasks, closed, caller, rotations, disk>>

Stop ==
  /\ \A c \in Callers : caller[c] = "free"
  /\ GoOwner("up", "close")
  /\ stopped' = TRUE
  /\ worker' = [w \in Workers |-> IF worker[w] = "popWait" THEN "pop" ELSE worker[w]]
  /\ UNCHANGED <<lines, tasks, closed, caller, rotations, disk>>

BeginClose ==
  /\ stream \in {"open", "bad"}
  /\ GoOwner("close", "closing")
  /\ stream' = "closing"
  /\ UNCHANGED <<lines, stopped, tasks, closed, worker, caller, rotations, file, lost, raced>>

EndClose ==
  /\ GoOwner("closing", "pool") \/ (stream = "closed" /\ GoOwner("close", "pool"))
  /\ stream' = "closed"
  /\ UNCHANGED <<lines, stopped, tasks, closed, worker, caller, rotations, file, lost, raced>>

\* ~ThreadPool
ClosePool ==
  /\ GoOwner("pool", "notifyAll")
  /\ closed' = TRUE
  /\ UNCHANGED <<lines, stopped, tasks, worker, caller, rotations, disk>>

NotifyAll ==
  /\ GoOwner("notifyAll", "join")
  /\ worker' = [w \in Workers |-> IF worker[w] = "wait" THEN "test" ELSE worker[w]]
  /\ UNCHANGED <<lines, stopped, tasks, closed, caller, rotations, disk>>

Join ==
  /\ GoOwner("join", "gone")
  /\ \A w \in Workers : worker[w] = "exited"
  /\ UNCHANGED <<lines, stopped, tasks, closed, worker, caller, rotations, disk>>

-----------------------------------------------------------------------------

CallerStep(c) == Submit(c) \/ NotifyOne(c) \/ Rotate(c)

WorkerStep(w) ==
  \/ TakeTask(w) \/ Sleep(w) \/ Exit(w) \/ Enter(w)
  \/ PopWaits(w) \/ Pop(w) \/ PopEnds(w)
  \/ Write(w) \/ WriteFails(w) \/ WriteRaces(w)

OwnerStep == BeginClose \/ EndClose \/ ClosePool \/ NotifyAll \/ Join

Next ==
  \/ Open \/ OpenThrows
  \/ \E c \in Callers : Push(c) \/ CallRotate(c) \/ CallerStep(c)
  \/ \E w \in Workers : WorkerStep(w)
  \/ Stop \/ OwnerStep

Spec == Init /\ [][Next]_vars

\* Every thread is scheduled; nobody has to log, to rotate or to stop.
FairSpec ==
  /\ Spec
  /\ \A c \in Callers : WF_vars(CallerStep(c))
  /\ \A w \in Workers : WF_vars(WorkerStep(w))
  /\ WF_vars(OwnerStep)

-----------------------------------------------------------------------------
(* Properties *)

TypeOK ==
  /\ logged \in 0..MaxLines /\ queue \in Seq(Nat)
  /\ msg \in Seq(Nat) /\ Len(msg) <= 1
  /\ stopped \in BOOLEAN /\ closed \in BOOLEAN
  /\ tasks \in Nat
  /\ worker \in [Workers -> {"test", "wait", "enter", "pop", "popWait", "write", "exited"}]
  /\ caller \in [Callers -> {"free", "submit", "notify", "rotate"}]
  /\ owner \in {"new", "up", "close", "closing", "pool", "notifyAll", "join", "gone"}
  /\ stream \in {"open", "bad", "closing", "closed"}
  /\ rotations \in 0..MaxRotations
  /\ file \in Seq(Nat) /\ lost \subseteq Nat /\ raced \subseteq Nat

Pending == msg \o queue
Done == logged - Len(Pending)

\* Between push and file no line is skipped or overtaken: what is pending is
\* the newest lines in order, and every older line is written or lost.
NothingForgotten ==
  /\ \A i \in 1..Len(Pending) : Pending[i] = Done + i
  /\ Elems(file) \cup lost = 1..Done
  /\ Elems(file) \cap lost = {}

\* The destructor drains the queue although it never looks at it: a task is
\* left for every line no worker has reached, and the pool runs its tasks
\* before it exits.
DestructorDrains == owner = "gone" => Done = logged

\* Across rotations and workers the files hold the lines in the order of the
\* pushes, and each once, but for one that met the destructor.
FilesInOrder ==
  \A i, j \in 1..Len(file) : i < j =>
    file[i] < file[j] \/ (file[i] = file[j] /\ file[i] \in raced)

\* Every line is popped and written (or lost) however the calls, the two
\* condition variables and the mutex interleave.
EveryLineIsWritten == \A n \in 1..MaxLines : logged >= n ~> Done >= n

\* The destructor returns: no worker sleeps through stop or the end of the pool.
DestructorReturns == owner = "close" ~> owner = "gone"

\* Logger.hpp:93, "log file rotation": a rotation finishes.
RotateReturns == \A c \in Callers : caller[c] = "rotate" ~> caller[c] = "free"
=============================================================================
