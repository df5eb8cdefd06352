---------------------------- MODULE SqlConnPool ----------------------------
(***************************************************************************)
(* MySQL/SqlConnPool.{hpp,cpp}: the pool of MySQL connections shared by    *)
(* the threads of the server.  getConnection first looks at the queue      *)
(* WITHOUT the mutex and gives up when it sees it empty; otherwise it      *)
(* waits on the semaphore, then takes the mutex and pops the front.        *)
(*                                                                         *)
(* The unlocked look is a data race: a look during which another thread    *)
(* changed the queue (the thread is then in `raced`) may see anything.     *)
(***************************************************************************)
EXTENDS Integers, Sequences, FiniteSets

CONSTANTS Threads,   \* the threads that use the pool
          Conns,     \* the MYSQL* handles mysql_real_connect can return
          ConnSize,  \* connSize, the connections init tries to open
          MaxHeld    \* how many SqlConnRAII a thread has alive at once

ASSUME PoolAssumption ==
  /\ IsFiniteSet(Threads)
  /\ ConnSize \in Nat
  /\ MaxHeld \in Nat

VARIABLES
  phase,      \* "down": no pool; "connecting": in init; "ready"
  attempts,   \* iterations of init's connection loop
  connQueue,  \* _connQueue
  semID,      \* the value of the semaphore _semID
  maxConn,    \* _maxConn
  pc,         \* where each thread is in getConnection
  held,       \* the connections each thread has and must release
  raced,      \* threads whose unlocked look overlaps a change of the queue
  denied      \* threads whose last getConnection returned nullptr

vars == <<phase, attempts, connQueue, semID, maxConn, pc, held, raced, denied>>

At(label) == {t \in Threads : pc[t] = label}

Queued == {connQueue[i] : i \in 1..Len(connQueue)}
InUse  == UNION {held[t] : t \in Threads}

Goto(t, from, to) == pc[t] = from /\ pc' = [pc EXCEPT ![t] = to]

\* Nobody is using the pool: init and destroyPool run before the first and
\* after the last use of it (constructor, TearDown, static destructor).
Quiet == At("idle") = Threads /\ InUse = {}

Init ==
  /\ phase = "down"
  /\ attempts = 0
  /\ connQueue = <<>>
  /\ semID = 0
  /\ maxConn = 0
  /\ pc = [t \in Threads |-> "idle"]
  /\ held = [t \in Threads |-> {}]
  /\ raced = {}
  /\ denied = {}

-----------------------------------------------------------------------------
(* init and destroyPool *)

InitBegin ==
  /\ phase = "down" /\ Quiet
  /\ phase' = "connecting"
  /\ attempts' = 0
  /\ denied' = {}
  /\ UNCHANGED <<connQueue, semID, maxConn, pc, held, raced>>

\* The temporary connection, the database or the table fails: return false.
InitGivesUp ==
  /\ phase = "connecting" /\ attempts = 0
  /\ phase' = "down"
  /\ UNCHANGED <<attempts, connQueue, semID, maxConn, pc, held, raced, denied>>

\* An iteration of the loop; a connection that fails is skipped (continue).
InitConnect(c) ==
  /\ phase = "connecting" /\ attempts < ConnSize
  /\ c \notin Queued
  /\ attempts' = attempts + 1
  /\ connQueue' = Append(connQueue, c)
  /\ UNCHANGED <<phase, semID, maxConn, pc, held, raced, denied>>

\* Variant: the loop runs once more (i <= connSize).
InitConnectFails_OneMore ==
  /\ phase = "connecting" /\ attempts <= ConnSize
  /\ attempts' = attempts + 1
  /\ UNCHANGED <<phase, connQueue, semID, maxConn, pc, held, raced, denied>>

InitConnectFails ==
  /\ phase = "connecting" /\ attempts < ConnSize
  /\ attempts' = attempts + 1
  /\ UNCHANGED <<phase, connQueue, semID, maxConn, pc, held, raced, denied>>

\* Variant: the semaphore counts the connections asked for, not those opened.
InitReturns_AskedFor ==
  /\ phase = "connecting" /\ attempts = ConnSize
  /\ phase' = "ready"
  /\ maxConn' = Len(connQueue)
  /\ semID' = ConnSize
  /\ UNCHANGED <<attempts, connQueue, pc, held, raced, denied>>

InitReturns ==
  /\ phase = "connecting" /\ attempts = ConnSize
  /\ phase' = "ready"
  /\ maxConn' = Len(connQueue)
  /\ semID' = Len(connQueue)
  /\ UNCHANGED <<attempts, connQueue, pc, held, raced, denied>>

\* Closes every queued connection; the semaphore keeps its value.
DestroyPool ==
  /\ phase = "ready" /\ Quiet
  /\ phase' = "down"
  /\ connQueue' = <<>>
  /\ UNCHANGED <<attempts, semID, maxConn, pc, held, raced, denied>>

-----------------------------------------------------------------------------
(* getConnection and releaseConnection by thread t *)

\* The threads other than t whose unlocked look t's change falls into.
Overlapped(t) == raced \cup (At("peek") \ {t})

\* The call, up to the start of _connQueue.empty().
GetConnection(t) ==
  /\ phase # "connecting"
  /\ Cardinality(held[t]) < MaxHeld
  /\ Goto(t, "idle", "peek")
  /\ denied' = denied \ {t}
  /\ UNCHANGED <<phase, attempts, connQueue, semID, maxConn, held, raced>>

\* empty() returns true: return nullptr.
SeesEmpty(t) ==
  /\ t \in raced \/ connQueue = <<>>
  /\ Goto(t, "peek", "idle")
  /\ raced' = raced \ {t}
  /\ denied' = denied \cup {t}
  /\ UNCHANGED <<phase, attempts, connQueue, semID, maxConn, held>>

\* Variant: no test for an empty queue, every thread goes to the semaphore.
SeesConnection_Untested(t) ==
  /\ Goto(t, "peek", "wait")
  /\ raced' = raced \ {t}
  /\ UNCHANGED <<phase, attempts, connQueue, semID, maxConn, held, denied>>

\* empty() returns false: go on to sem_wait.
SeesConnection(t) ==
  /\ t \in raced \/ connQueue # <<>>
  /\ Goto(t, "peek", "wait")
  /\ raced' = raced \ {t}
  /\ UNCHANGED <<phase, attempts, connQueue, semID, maxConn, held, denied>>

\* Variant: the result of the wait is ignored (sem_trywait unchecked).
SemWait_Unchecked(t) ==
  /\ Goto(t, "wait", "take")
  /\ semID' = IF semID > 0 THEN semID - 1 ELSE 0
  /\ UNCHANGED <<phase, attempts, connQueue, maxConn, held, raced, denied>>

SemWait(t) ==
  /\ semID > 0
  /\ Goto(t, "wait", "take")
  /\ semID' = semID - 1
  /\ UNCHANGED <<phase, attempts, connQueue, maxConn, held, raced, denied>>

\* What front() returns: on an empty queue, whatever is in that memory.
Front == IF connQueue = <<>> THEN Conns ELSE {Head(connQueue)}

\* Variant: front without pop.
Take_NoPop(t) ==
  /\ Goto(t, "take", "idle")
  /\ \E c \in Front : held' = [held EXCEPT ![t] = @ \cup {c}]
  /\ raced' = Overlapped(t)
  /\ UNCHANGED <<phase, attempts, connQueue, semID, maxConn, denied>>

\* The critical section: front and pop.
Take(t) ==
  /\ Goto(t, "take", "idle")
  /\ \E c \in Front : held' = [held EXCEPT ![t] = @ \cup {c}]
  /\ connQueue' = IF connQueue = <<>> THEN <<>> ELSE Tail(connQueue)
  /\ raced' = Overlapped(t)
  /\ UNCHANGED <<phase, attempts, semID, maxConn, denied>>

\* Variant: the connection is closed instead of pushed.
ReleaseConnection_NoPush(t) ==
  /\ pc[t] = "idle"
  /\ \E c \in held[t] : held' = [held EXCEPT ![t] = @ \ {c}]
  /\ semID' = semID + 1
  /\ raced' = Overlapped(t)
  /\ UNCHANGED <<phase, attempts, connQueue, maxConn, pc, denied>>

\* Variant: no sem_post.
ReleaseConnection_NoPost(t) ==
  /\ pc[t] = "idle"
  /\ \E c \in held[t] :
       /\ held' = [held EXCEPT ![t] = @ \ {c}]
       /\ connQueue' = Append(connQueue, c)
  /\ raced' = Overlapped(t)
  /\ UNCHANGED <<phase, attempts, semID, maxConn, pc, denied>>

\* ~SqlConnRAII or a direct call: push and sem_post under the mutex.
ReleaseConnection(t) ==
  /\ pc[t] = "idle"
  /\ \E c \in held[t] :
       /\ held' = [held EXCEPT ![t] = @ \ {c}]
       /\ connQueue' = Append(connQueue, c)
  /\ semID' = semID + 1
  /\ raced' = Overlapped(t)
  /\ UNCHANGED <<phase, attempts, maxConn, pc, denied>>

Step(t) ==
  \/ GetConnection(t) \/ SeesEmpty(t) \/ SeesConnection(t)
  \/ SemWait(t) \/ Take(t) \/ ReleaseConnection(t)

Next ==
  \/ InitBegin \/ InitGivesUp \/ InitConnectFails \/ InitReturns \/ DestroyPool
  \/ \E c \in Conns : InitConnect(c)
  \/ \E t \in Threads : Step(t)

\* A thread inside getConnection goes on.  A connection is used for a finite
\* time, during which its thread asks for another finitely often: the scope of
\* the SqlConnRAII ends (strong fairness).  Nobody is obliged to ask for one.
Fairness ==
  \A t \in Threads :
    /\ WF_vars(SeesEmpty(t) \/ SeesConnection(t))
    /\ WF_vars(SemWait(t))
    /\ WF_vars(Take(t))
    /\ SF_vars(ReleaseConnection(t))

Spec == Init /\ [][Next]_vars
FairSpec == Spec /\ Fairness

-----------------------------------------------------------------------------
(* Properties *)

TypeOK ==
  /\ phase \in {"down", "connecting", "ready"}
  /\ attempts \in 0..ConnSize
  /\ connQueue \in Seq(Conns)
  /\ semID \in Nat
  /\ maxConn \in Nat
  /\ pc \in [Threads -> {"idle", "peek", "wait", "take"}]
  /\ held \in [Threads -> SUBSET Conns]
  /\ raced \subseteq At("peek")
  /\ denied \subseteq Threads

\* A thread that came through sem_wait finds a connection in the queue:
\* front() is never called on an empty queue, although the emptiness test is
\* made long before, outside the mutex.
FrontIsThere == \A t \in At("take") : connQueue # <<>>

\* The semaphore counts the queued connections that no thread has been
\* promised; it can disagree with the queue only between sem_wait and pop.
SemaphoreCounts ==
  phase = "ready" => semID + Cardinality(At("take")) = Len(connQueue)

\* No connection is lost: what init opened is queued or in use.
NoLeak ==
  phase = "ready" => Cardinality(Queued \cup InUse) = maxConn

\* getConnection blocks in sem_wait although the pool is said to fail fast.
\* Threads may hold a connection while they ask for another, and yet they
\* never all wait for each other: whenever the queue is drained, some holder
\* is outside sem_wait and will not enter it (it saw the empty queue).
NoWaitCycle ==
  (phase = "ready" /\ maxConn > 0 /\ connQueue = <<>>) =>
    \E t \in (At("idle") \cup At("peek")) \ raced : held[t] # {}

\* A thread blocked in sem_wait does not wait in vain: eventually a waiting
\* thread is let through.
WaitersServed == At("wait") # {} ~> At("take") # {}

\* The pool lends each connection to at most one thread at a time.
Allocator == INSTANCE ConnAllocator WITH free <- Queued, lent <- held
LendsExclusively == Allocator!Spec

\* tests/unit/SqlConnPool_test.cpp:102: "all operations are expected to
\* succeed, because each one releases its connection".
EveryOperationSucceeds ==
  (phase = "ready" /\ maxConn = ConnSize) => denied = {}
=============================================================================
