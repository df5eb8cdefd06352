--------------------------- MODULE AsyncDBWriter ---------------------------
(***************************************************************************)
(* Server/AsyncDBWriter.{hpp,cpp}: log lines wait in taskQueue_ and worker *)
(* threads insert them into log_table.  shutdown stops the workers, joins  *)
(* them and inserts what is left itself.                                   *)
(*                                                                         *)
(* The mutex makes each critical section one action.  running_ is atomic   *)
(* and the loop of a worker reads it without the mutex.  A task is one log *)
(* line; it is queued once.  Its logLevel is never empty (the expression   *)
(* socketIO matches does not accept "[]"), so a worker writes every task   *)
(* it pops; the empty task it returns to itself writes nothing.            *)
(***************************************************************************)
EXTENDS Integers, Sequences, FiniteSets

CONSTANTS Tasks,    \* the log lines
          Workers,  \* the threads start() creates
          Main,     \* the thread that calls start() and shutdown()
          NoTask

ASSUME WriterAssumption ==
  /\ Main \notin Workers
  /\ NoTask \notin Tasks

Executors == Workers \cup {Main}

VARIABLES
  taskQueue,   \* taskQueue_
  running,     \* running_
  pc,          \* where each executor is
  task,        \* the task it is writing
  remaining,   \* remainingTasks, local to shutdown
  notifies,    \* addTask calls between the push and the notify_one
  rows,        \* how many rows of log_table hold each log line
  dropped,     \* tasks executeWrite returned false for
  added,       \* history: the tasks in the order they were pushed
  taken,       \* history: the tasks in the order they were popped
  swapped      \* history: Len(added) when shutdown emptied the queue

vars == <<taskQueue, running, pc, task, remaining, notifies, rows, dropped,
          added, taken, swapped>>

history == <<added, taken, swapped>>
db == <<rows, dropped>>

Elems(s) == {s[i] : i \in 1..Len(s)}
At(label) == {e \in Executors : pc[e] = label}
Goto(e, from, to) == pc[e] = from /\ pc' = [pc EXCEPT ![e] = to]

Init ==
  /\ taskQueue = <<>>
  /\ running = TRUE
  /\ pc = [e \in Executors |-> IF e = Main THEN "start" ELSE "unborn"]
  /\ task = [e \in Executors |-> NoTask]
  /\ remaining = <<>>
  /\ notifies = 0
  /\ rows = [t \in Tasks |-> 0]
  /\ dropped = {}
  /\ added = <<>>
  /\ taken = <<>>
  /\ swapped = 0

-----------------------------------------------------------------------------
(* addTask, by any thread at any time, also after shutdown *)

\* Variant: no notification.
AddTask_Silent(t) ==
  /\ t \notin Elems(added)
  /\ taskQueue' = Append(taskQueue, t)
  /\ added' = Append(added, t)
  /\ UNCHANGED <<running, pc, task, remaining, notifies, db, taken, swapped>>

AddTask(t) ==
  /\ t \notin Elems(added)
  /\ taskQueue' = Append(taskQueue, t)
  /\ added' = Append(added, t)
  /\ notifies' = notifies + 1
  /\ UNCHANGED <<running, pc, task, remaining, db, taken, swapped>>

\* cv_.notify_one(), after the unlock: wakes one waiting worker, if any.
NotifyOne ==
  /\ notifies > 0
  /\ notifies' = notifies - 1
  /\ IF At("waiting") = {}
       THEN UNCHANGED pc
       ELSE \E w \in At("waiting") : Goto(w, "waiting", "lock")
  /\ UNCHANGED <<taskQueue, running, task, remaining, db, history>>

-----------------------------------------------------------------------------
(* workerThread *)

\* while (running_), without the mutex.
TestRunning(w) ==
  /\ Goto(w, "test", IF running THEN "lock" ELSE "exited")
  /\ UNCHANGED <<taskQueue, running, task, remaining, notifies, db, history>>

Predicate == taskQueue # <<>> \/ ~running

\* The predicate of wait_for is false: release the mutex and block.
Block(w) ==
  /\ ~Predicate
  /\ Goto(w, "lock", "waiting")
  /\ UNCHANGED <<taskQueue, running, task, remaining, notifies, db, history>>

\* The second of wait_for is over.
TimeOut(w) ==
  /\ Goto(w, "waiting", "late")
  /\ UNCHANGED <<taskQueue, running, task, remaining, notifies, db, history>>

\* wait_for has returned and the worker holds the mutex.
Awake(w) == pc[w] = "late" \/ (pc[w] = "lock" /\ Predicate)

\* Nothing to do: the lambda returns an empty task, which is not written.
FindNothing(w) ==
  /\ Awake(w) /\ taskQueue = <<>>
  /\ pc' = [pc EXCEPT ![w] = "test"]
  /\ UNCHANGED <<taskQueue, running, task, remaining, notifies, db, history>>

\* Variant: front without pop.
Pop_FrontOnly(w) ==
  /\ Awake(w) /\ taskQueue # <<>>
  /\ pc' = [pc EXCEPT ![w] = "write"]
  /\ task' = [task EXCEPT ![w] = Head(taskQueue)]
  /\ taken' = Append(taken, Head(taskQueue))
  /\ UNCHANGED <<taskQueue, running, remaining, notifies, db, added, swapped>>

Pop(w) ==
  /\ Awake(w) /\ taskQueue # <<>>
  /\ pc' = [pc EXCEPT ![w] = "write"]
  /\ task' = [task EXCEPT ![w] = Head(taskQueue)]
  /\ taskQueue' = Tail(taskQueue)
  /\ taken' = Append(taken, Head(taskQueue))
  /\ UNCHANGED <<running, remaining, notifies, db, added, swapped>>

-----------------------------------------------------------------------------
(* executeWrite, by a worker or by shutdown *)

\* Where the executor goes on when executeWrite returns.
Resume(e) == IF e = Main THEN "drain" ELSE "test"

\* The INSERT is executed inside the transaction.
Execute(e) ==
  /\ Goto(e, "write", "commit")
  /\ UNCHANGED <<taskQueue, running, task, remaining, notifies, db, history>>

\* Variant: the task is cleared before it is reported.
GiveUp_ClearedFirst(e) ==
  /\ Goto(e, "write", Resume(e))
  /\ task' = [task EXCEPT ![e] = NoTask]
  /\ dropped' = dropped \cup {task'[e]}
  /\ UNCHANGED <<taskQueue, running, remaining, notifies, rows, history>>

\* No connection, or a statement call fails: return false.  The task is gone.
GiveUp(e) ==
  /\ Goto(e, "write", Resume(e))
  /\ dropped' = dropped \cup {task[e]}
  /\ task' = [task EXCEPT ![e] = NoTask]
  /\ UNCHANGED <<taskQueue, running, remaining, notifies, rows, history>>

Commit(e) ==
  /\ Goto(e, "commit", Resume(e))
  /\ rows' = [rows EXCEPT ![task[e]] = @ + 1]
  /\ task' = [task EXCEPT ![e] = NoTask]
  /\ UNCHANGED <<taskQueue, running, remaining, notifies, dropped, history>>

\* mysql_commit fails: roll back, return false.
CommitFails(e) ==
  /\ Goto(e, "commit", Resume(e))
  /\ dropped' = dropped \cup {task[e]}
  /\ task' = [task EXCEPT ![e] = NoTask]
  /\ UNCHANGED <<taskQueue, running, remaining, notifies, rows, history>>

-----------------------------------------------------------------------------
(* start and shutdown, by Main *)

StartWorker(w) ==
  /\ pc[Main] = "start"
  /\ Goto(w, "unborn", "test")
  /\ UNCHANGED <<taskQueue, running, task, remaining, notifies, db, history>>

StartReturns ==
  /\ At("unborn") = {}
  /\ Goto(Main, "start", "up")
  /\ UNCHANGED <<taskQueue, running, task, remaining, notifies, db, history>>

Shutdown ==
  /\ Goto(Main, "up", "notify")
  /\ running' = FALSE
  /\ UNCHANGED <<taskQueue, task, remaining, notifies, db, history>>

\* Variant: notify_one.
NotifyAll_One ==
  /\ pc[Main] = "notify"
  /\ \/ /\ At("waiting") = {}
        /\ pc' = [pc EXCEPT ![Main] = "join"]
     \/ \E w \in At("waiting") : pc' = [pc EXCEPT ![Main] = "join", ![w] = "lock"]
  /\ UNCHANGED <<taskQueue, running, task, remaining, notifies, db, history>>

NotifyAll ==
  /\ pc[Main] = "notify"
  /\ pc' = [e \in Executors |-> IF e = Main THEN "join"
                                ELSE IF pc[e] = "waiting" THEN "lock" ELSE pc[e]]
  /\ UNCHANGED <<taskQueue, running, task, remaining, notifies, db, history>>

\* Variant: the workers are detached, not joined.
Join_Detach ==
  /\ Goto(Main, "join", "swap")
  /\ UNCHANGED <<taskQueue, running, task, remaining, notifies, db, history>>

Join ==
  /\ \A w \in Workers : pc[w] = "exited"
  /\ Goto(Main, "join", "swap")
  /\ UNCHANGED <<taskQueue, running, task, remaining, notifies, db, history>>

\* Variant: the queue is copied, not swapped.
Swap_Copy ==
  /\ Goto(Main, "swap", "drain")
  /\ remaining' = taskQueue
  /\ swapped' = Len(added)
  /\ UNCHANGED <<taskQueue, running, task, notifies, db, added, taken>>

Swap ==
  /\ Goto(Main, "swap", "drain")
  /\ remaining' = taskQueue
  /\ taskQueue' = <<>>
  /\ swapped' = Len(added)
  /\ UNCHANGED <<running, task, notifies, db, added, taken>>

Drain ==
  /\ remaining # <<>>
  /\ Goto(Main, "drain", "write")
  /\ task' = [task EXCEPT ![Main] = Head(remaining)]
  /\ remaining' = Tail(remaining)
  /\ taken' = Append(taken, Head(remaining))
  /\ UNCHANGED <<taskQueue, running, notifies, db, added, swapped>>

ShutdownReturns ==
  /\ remaining = <<>>
  /\ Goto(Main, "drain", "down")
  /\ UNCHANGED <<taskQueue, running, task, remaining, notifies, db, history>>

-----------------------------------------------------------------------------

Write(e) == Execute(e) \/ GiveUp(e) \/ Commit(e) \/ CommitFails(e)

Worker(w) == TestRunning(w) \/ Block(w) \/ FindNothing(w) \/ Pop(w) \/ Write(w)

Closing == NotifyAll \/ Join \/ Swap \/ Drain \/ ShutdownReturns \/ Write(Main)

Next ==
  \/ \E t \in Tasks : AddTask(t)
  \/ NotifyOne
  \/ \E w \in Workers : Worker(w) \/ TimeOut(w) \/ StartWorker(w)
  \/ StartReturns \/ Shutdown \/ Closing

\* The threads are scheduled and the calls to MySQL return.  No fairness on
\* TimeOut: the notifications alone must be enough.
Fairness ==
  /\ WF_vars(NotifyOne)
  /\ \A w \in Workers : WF_vars(Worker(w)) /\ WF_vars(StartWorker(w))
  /\ WF_vars(StartReturns)
  /\ WF_vars(Closing)

Spec == Init /\ [][Next]_vars
FairSpec == Spec /\ Fairness

-----------------------------------------------------------------------------
(* Properties *)

WorkerLabels == {"unborn", "test", "lock", "waiting", "late", "write", "commit", "exited"}
MainLabels == {"start", "up", "notify", "join", "swap", "drain", "write", "commit", "down"}

TypeOK ==
  /\ taskQueue \in Seq(Tasks) /\ remaining \in Seq(Tasks)
  /\ added \in Seq(Tasks) /\ taken \in Seq(Tasks)
  /\ running \in BOOLEAN
  /\ pc \in [Executors -> WorkerLabels \cup MainLabels]
  /\ pc[Main] \in MainLabels /\ \A w \in Workers : pc[w] \in WorkerLabels
  /\ task \in [Executors -> Tasks \cup {NoTask}]
  /\ notifies \in Nat /\ swapped \in Nat
  /\ rows \in [Tasks -> Nat]
  /\ dropped \subseteq Tasks

InHand == {task[e] : e \in Executors} \ {NoTask}
Settled == dropped \cup {t \in Tasks : rows[t] > 0}

\* Tasks leave in the order they were pushed, whoever pops them, and none
\* disappears or is doubled on the way from the queue through shutdown's swap.
InOrder == added = taken \o remaining \o taskQueue

\* A task that was popped is being written by one executor or has been dealt
\* with; it makes at most one row, and none if it was reported as failed.
EachOnce ==
  /\ Elems(taken) = InHand \cup Settled
  /\ InHand \cap Settled = {}
  /\ \A d, e \in Executors : d # e /\ task[d] # NoTask => task[d] # task[e]
  /\ \A t \in Tasks : rows[t] + (IF t \in dropped THEN 1 ELSE 0) <= 1

\* When shutdown returns, every task pushed before it emptied the queue has
\* been dealt with, and no worker is left that could still touch the database.
ShutdownDrains ==
  pc[Main] = "down" =>
    /\ \A i \in 1..swapped : added[i] \in Settled
    /\ At("exited") = Workers

\* A task pushed before shutdown empties the queue is dealt with, by a worker
\* or by shutdown, even if no wait ever times out: no notification is lost.
AcceptedIsSettled ==
  \A t \in Tasks :
    (t \in Elems(added) /\ pc[Main] \in {"start", "up", "notify", "join", "swap"})
      ~> t \in Settled

\* shutdown returns: every worker leaves its wait and its loop.
ShutdownEnds == pc[Main] = "notify" ~> pc[Main] = "down"

\* Server/test_log_throughput.cpp:58,61: the queue being empty shows that all
\* lines have been processed (all of them were pushed before).
EmptyQueueMeansDone ==
  (Elems(added) = Tasks /\ notifies = 0 /\ taskQueue = <<>> /\ pc[Main] = "up") =>
    Settled = Tasks
=============================================================================
