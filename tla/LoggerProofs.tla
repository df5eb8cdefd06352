---------------------------- MODULE LoggerProofs ----------------------------
(***************************************************************************)
(* Theorems about Logger, for any number of workers, callers, lines and    *)
(* rotations.                                                              *)
(***************************************************************************)
EXTENDS Logger, SequenceTheorems, TLAPS

\* m_mutex: one worker at a time is in process, and msg is its local.
Exclusive ==
  /\ \A v, w \in Workers : worker[v] \in InProcess /\ worker[w] \in InProcess => v = w
  /\ msg # <<>> => \E w \in Workers : worker[w] = "write"
  /\ \A w \in Workers : worker[w] = "write" => msg # <<>>

\* Queued lines have somebody who will come for them.
Covered ==
  queue # <<>> =>
    \/ tasks > 0
    \/ \E w \in Workers : worker[w] \in InProcess \cup {"enter"}
    \/ \E c \in Callers : caller[c] = "submit"

\* The destructor starts after the last call, and the pool exits at its end.
Phases ==
  /\ owner # "up" => \A c \in Callers : caller[c] = "free"
  /\ closed => owner \in {"notifyAll", "join", "gone"}
  /\ \A w \in Workers : worker[w] = "exited" => closed /\ tasks = 0
  /\ owner = "gone" => \A w \in Workers : worker[w] = "exited"

Control == Exclusive /\ Covered /\ Phases

IInv == TypeOK /\ Control /\ NothingForgotten /\ Done \in Nat

-----------------------------------------------------------------------------
(* The sequences used as queues *)

\* Appending to the second part appends to the whole.
LEMMA AppendToConcat ==
  ASSUME NEW S, NEW p \in Seq(S), NEW q \in Seq(S), NEW x \in S
  PROVE  /\ p \o Append(q, x) \in Seq(S)
         /\ p \o Append(q, x) = Append(p \o q, x)
<1>1. p \o Append(q, x) \in Seq(S) /\ Append(p \o q, x) \in Seq(S)
  OBVIOUS
<1>2. Len(p \o Append(q, x)) = Len(Append(p \o q, x))
  OBVIOUS
<1>3. \A i \in 1..Len(p \o Append(q, x)) : (p \o Append(q, x))[i] = Append(p \o q, x)[i]
  OBVIOUS
<1> QED BY <1>1, <1>2, <1>3, SeqEqual

\* Moving the front of the second part to the end of the first changes nothing.
LEMMA MoveFront ==
  ASSUME NEW S, NEW p \in Seq(S), NEW q \in Seq(S), q # <<>>
  PROVE  /\ Append(p, Head(q)) \in Seq(S) /\ Tail(q) \in Seq(S) /\ Head(q) \in S
         /\ Append(p, Head(q)) \o Tail(q) = p \o q
<1>1. /\ Append(p, Head(q)) \in Seq(S) /\ Tail(q) \in Seq(S) /\ Head(q) \in S
      /\ Append(p, Head(q)) \o Tail(q) \in Seq(S) /\ p \o q \in Seq(S)
  OBVIOUS
<1>2. Len(Append(p, Head(q)) \o Tail(q)) = Len(p \o q)
  OBVIOUS
<1>3. \A i \in 1..Len(Append(p, Head(q)) \o Tail(q)) : (Append(p, Head(q)) \o Tail(q))[i] = (p \o q)[i]
  OBVIOUS
<1> QED BY <1>1, <1>2, <1>3, SeqEqual

-----------------------------------------------------------------------------
(* Lemmas *)

\* The lines between push and file form a sequence of numbers.
LEMMA PendingType ==
  ASSUME TypeOK
  PROVE  /\ Pending \in Seq(Nat) /\ Len(Pending) = Len(msg) + Len(queue)
         /\ Len(Pending) \in Nat /\ logged \in Nat /\ Done \in Int
<1>1. msg \in Seq(Nat) /\ queue \in Seq(Nat) /\ logged \in Nat
  BY LoggerAssumption DEF TypeOK
<1>2. Pending \in Seq(Nat) /\ Len(Pending) = Len(msg) + Len(queue)
  BY <1>1, ConcatProperties DEF Pending
<1>3. Len(Pending) \in Nat
  BY <1>2
<1> QED BY <1>1, <1>2, <1>3 DEF Done

\* A step that moves no line.
LEMMA SamePending ==
  ASSUME IInv, Pending' = Pending, UNCHANGED <<logged, file, lost>>
  PROVE  NothingForgotten' /\ Done' \in Nat
BY DEF IInv, NothingForgotten, Done, Elems

\* The line in msg is the oldest pending one; it ends in the file or lost.
LEMMA OneMoreDone ==
  ASSUME IInv, msg # <<>>, msg' = <<>>, UNCHANGED <<logged, queue>>,
         \/ /\ Elems(file') = Elems(file) \cup Elems(msg) /\ lost' = lost
         \/ /\ file' = file /\ lost' = lost \cup Elems(msg)
  PROVE  NothingForgotten' /\ Done' \in Nat
<1>1. /\ msg \in Seq(Nat) /\ queue \in Seq(Nat) /\ Len(msg) = 1 /\ logged \in Nat
      /\ Done \in Nat /\ Done = logged - Len(Pending)
      /\ \A i \in 1..Len(Pending) : Pending[i] = Done + i
      /\ Elems(file) \cup lost = 1..Done /\ Elems(file) \cap lost = {}
  <2>1. msg \in Seq(Nat) /\ queue \in Seq(Nat) /\ Len(msg) <= 1 /\ logged \in Nat
    BY PendingType DEF IInv, TypeOK
  <2>2. Len(msg) = 1
    <3>1. Len(msg) # 0 /\ Len(msg) \in Nat
      BY <2>1, EmptySeq
    <3>2. \A k \in Nat : k # 0 /\ k <= 1 => k = 1
      OBVIOUS
    <3> QED BY <2>1, <3>1, <3>2
  <2>3. Done = logged - Len(Pending)
    BY DEF Done
  <2> QED BY <2>1, <2>2, <2>3 DEF IInv, NothingForgotten
<1>2. /\ Len(Pending) = 1 + Len(queue) /\ Len(queue) \in Nat /\ Pending[1] = msg[1]
      /\ \A i \in 1..Len(queue) : i + 1 \in 1..Len(Pending) /\ Pending[i + 1] = queue[i]
  <2>1. /\ Len(msg \o queue) = Len(msg) + Len(queue) /\ Len(queue) \in Nat
        /\ \A i \in 1..Len(msg) : (msg \o queue)[i] = msg[i]
        /\ \A i \in 1..Len(queue) : (msg \o queue)[Len(msg) + i] = queue[i]
    <3>1. msg \in Seq(Nat) /\ queue \in Seq(Nat)
      BY <1>1
    <3> QED BY <3>1
  <2>2. \A i \in 1..Len(queue) : i + 1 = Len(msg) + i /\ i + 1 \in 1..(1 + Len(queue))
    BY <1>1, <2>1
  <2> QED BY <1>1, <2>1, <2>2 DEF Pending
<1>3. Pending' = queue
  BY <1>1, ConcatEmptySeq DEF Pending
<1>4. Done' = Done + 1
  BY <1>1, <1>2, <1>3 DEF Done
<1>5. \A i \in 1..Len(queue) : queue[i] = Done' + i
  <2> TAKE i \in 1..Len(queue)
  <2>1. i + 1 \in 1..Len(Pending) /\ Pending[i + 1] = queue[i]
    BY <1>2
  <2>2. Pending[i + 1] = Done + (i + 1)
    BY <1>1, <2>1
  <2> QED BY <1>1, <1>2, <1>4, <2>1, <2>2
<1>6. Elems(msg) = {Done + 1}
  <2>1. msg[1] = Done + 1 /\ 1..Len(msg) = {1}
    BY <1>1, <1>2
  <2> QED BY <2>1 DEF Elems
<1>7. (Elems(file) \cup lost) \cup {Done + 1} = 1..Done' /\ Done + 1 \notin 1..Done
  BY <1>1, <1>4
<1>8. Elems(file') \cup lost' = 1..Done' /\ Elems(file') \cap lost' = {}
  BY <1>1, <1>6, <1>7
<1>9. Elems(file)' = Elems(file')
  BY DEF Elems
<1> QED BY <1>1, <1>3, <1>4, <1>5, <1>8, <1>9 DEF NothingForgotten

\* Writing a message once or twice adds its line to the file.
LEMMA WriteElements ==
  ASSUME NEW s \in Seq(Nat), NEW m \in Seq(Nat)
  PROVE  /\ s \o m \in Seq(Nat) /\ s \o m \o m \in Seq(Nat)
         /\ Elems(s \o m) = Elems(s) \cup Elems(m)
         /\ Elems(s \o m \o m) = Elems(s) \cup Elems(m)
<1>1. ASSUME NEW p \in Seq(Nat), NEW q \in Seq(Nat)
      PROVE  p \o q \in Seq(Nat) /\ Elems(p \o q) = Elems(p) \cup Elems(q)
  <2>1. /\ p \o q \in Seq(Nat) /\ Len(p) \in Nat /\ Len(q) \in Nat
        /\ Len(p \o q) = Len(p) + Len(q)
        /\ \A i \in 1..Len(p) : (p \o q)[i] = p[i]
        /\ \A i \in 1..Len(q) : (p \o q)[Len(p) + i] = q[i]
    OBVIOUS
  <2>2. ASSUME NEW i \in 1..Len(p \o q) PROVE (p \o q)[i] \in Elems(p) \cup Elems(q)
    <3>1. CASE i <= Len(p)
      BY <2>1, <3>1 DEF Elems
    <3>2. CASE i > Len(p)
      <4>1. i - Len(p) \in 1..Len(q) /\ Len(p) + (i - Len(p)) = i
        BY <2>1, <3>2
      <4>2. (p \o q)[i] = q[i - Len(p)]
        BY <2>1, <4>1
      <4> QED BY <4>1, <4>2 DEF Elems
    <3> QED BY <2>1, <3>1, <3>2
  <2>3. ASSUME NEW i \in 1..Len(p) PROVE p[i] \in Elems(p \o q)
    <3>1. i \in 1..Len(p \o q) /\ (p \o q)[i] = p[i]
      BY <2>1
    <3> QED BY <3>1 DEF Elems
  <2>4. ASSUME NEW i \in 1..Len(q) PROVE q[i] \in Elems(p \o q)
    <3>1. Len(p) + i \in 1..Len(p \o q) /\ (p \o q)[Len(p) + i] = q[i]
      BY <2>1
    <3> QED BY <3>1 DEF Elems
  <2>5. Elems(p \o q) \subseteq Elems(p) \cup Elems(q)
    BY <2>2 DEF Elems
  <2>6. Elems(p) \subseteq Elems(p \o q) /\ Elems(q) \subseteq Elems(p \o q)
    BY <2>3, <2>4 DEF Elems
  <2> QED BY <2>1, <2>5, <2>6
<1>2. s \o m \in Seq(Nat) /\ Elems(s \o m) = Elems(s) \cup Elems(m)
  BY <1>1
<1>3. (s \o m) \o m \in Seq(Nat) /\ Elems((s \o m) \o m) = Elems(s \o m) \cup Elems(m)
  BY <1>1, <1>2
<1> QED BY <1>2, <1>3

-----------------------------------------------------------------------------
(* The invariant is inductive *)

LEMMA InitIInv == Init => IInv
<1> SUFFICES ASSUME Init PROVE IInv
  OBVIOUS
<1>1. TypeOK /\ Control
  <2>1. TypeOK
    <3>1. <<>> \in Seq(Nat) /\ Len(<<>>) <= 1
      BY EmptySeq
    <3>2. 0 \in 0..MaxLines /\ 0 \in 0..MaxRotations
      BY LoggerAssumption
    <3> QED BY <3>1, <3>2 DEF Init, TypeOK
  <2>2. Exclusive /\ Covered /\ Phases
    BY DEF Init, Exclusive, Covered, Phases, InProcess
  <2> QED BY <2>1, <2>2 DEF Control
<1>2. Pending = <<>>
  BY ConcatEmptySeq DEF Init, Pending
<1>3. Done = 0
  <2>1. Len(Pending) = 0 /\ logged = 0
    BY <1>2 DEF Init
  <2> QED BY <2>1 DEF Done
<1>4. Elems(file) = {}
  BY DEF Init, Elems
<1> QED BY <1>1, <1>2, <1>3, <1>4 DEF IInv, NothingForgotten, Init

LEMMA TypeStep == ASSUME TypeOK, [Next]_vars PROVE TypeOK'
<1> USE LoggerAssumption DEF TypeOK, lines, disk, switches, GoWorker, GoCaller, GoOwner
<1>1. CASE Open \/ OpenThrows \/ Stop \/ OwnerStep
  <2>1. CASE Open
    BY <2>1 DEF Open
  <2>2. CASE OpenThrows
    BY <2>2 DEF OpenThrows
  <2>3. CASE Stop
    BY <2>3 DEF Stop
  <2>4. CASE OwnerStep
    BY <2>4 DEF OwnerStep, BeginClose, EndClose, ClosePool, NotifyAll, Join
  <2> QED BY <1>1, <2>1, <2>2, <2>3, <2>4
<1>2. ASSUME NEW c \in Callers, Push(c) \/ CallRotate(c) \/ CallerStep(c) PROVE TypeOK'
  <2>1. CASE Push(c)
    <3>1. logged' \in 0..MaxLines /\ logged + 1 \in Nat /\ queue' \in Seq(Nat)
      BY <2>1 DEF Push
    <3> QED BY <2>1, <3>1 DEF Push
  <2>2. CASE CallRotate(c)
    BY <2>2 DEF CallRotate
  <2>3. CASE CallerStep(c)
    <3>1. CASE Submit(c)
      BY <3>1 DEF Submit
    <3>2. CASE NotifyOne(c)
      BY <3>2 DEF NotifyOne
    <3>3. CASE Rotate(c)
      BY <3>3 DEF Rotate
    <3> QED BY <2>3, <3>1, <3>2, <3>3 DEF CallerStep
  <2> QED BY <1>2, <2>1, <2>2, <2>3
<1>3. ASSUME NEW w \in Workers, WorkerStep(w) PROVE TypeOK'
  <2>1. CASE TakeTask(w)
    BY <2>1 DEF TakeTask
  <2>4. CASE Sleep(w) \/ Exit(w) \/ Enter(w) \/ PopWaits(w) \/ PopEnds(w)
    <3>1. worker' \in [Workers -> {"test", "wait", "enter", "pop", "popWait", "write", "exited"}]
      BY <2>4 DEF Sleep, Exit, Enter, PopWaits, PopEnds
    <3> QED BY <2>4, <3>1 DEF Sleep, Exit, Enter, PopWaits, PopEnds
  <2>2. CASE Pop(w)
    <3>1. Head(queue) \in Nat /\ Tail(queue) \in Seq(Nat)
      BY <2>2 DEF Pop
    <3>2. msg' \in Seq(Nat) /\ Len(msg') <= 1
      BY <2>2, <3>1 DEF Pop
    <3> QED BY <2>2, <3>1, <3>2 DEF Pop
  <2>3. ASSUME Written(w), Write(w) \/ WriteFails(w) \/ WriteRaces(w) PROVE TypeOK'
    <3>1. Elems(msg) \subseteq Nat
      BY DEF Elems
    <3>2. file' \in Seq(Nat) /\ lost' \subseteq Nat /\ raced' \subseteq Nat
      BY <2>3, <3>1, WriteElements DEF Write, WriteFails, WriteRaces
    <3>3. stream' \in {"open", "bad", "closing", "closed"}
      BY <2>3 DEF Write, WriteFails, WriteRaces
    <3> QED BY <2>3, <3>2, <3>3 DEF Written
  <2> QED BY <1>3, <2>1, <2>2, <2>3, <2>4 DEF WorkerStep, Write, WriteFails, WriteRaces
<1>4. CASE UNCHANGED vars
  BY <1>4 DEF vars
<1> QED BY <1>1, <1>2, <1>3, <1>4 DEF Next

\* The lines: only push, pop and the writes touch them.
LEMMA LinesStep == ASSUME IInv, [Next]_vars PROVE NothingForgotten' /\ Done' \in Nat
<1> USE DEF GoWorker, GoCaller, GoOwner
<1>1. ASSUME NEW c \in Callers, Push(c) PROVE NothingForgotten' /\ Done' \in Nat
  <2>1. /\ msg \in Seq(Nat) /\ queue \in Seq(Nat) /\ logged \in Nat /\ Done \in Nat
        /\ Pending \in Seq(Nat) /\ Len(Pending) \in Nat /\ Done = logged - Len(Pending)
    BY PendingType DEF IInv, TypeOK, Done
  <2>2. Pending' = Append(Pending, logged + 1) /\ UNCHANGED <<file, lost>> /\ logged' = logged + 1
    BY <1>1, <2>1, AppendToConcat DEF Push, Pending, disk
  <2>3. Len(Pending') = Len(Pending) + 1 /\ Done' = Done
    BY <2>1, <2>2 DEF Done
  <2>4. ASSUME NEW i \in 1..Len(Pending') PROVE Pending'[i] = Done' + i
    <3>1. CASE i \in 1..Len(Pending)
      BY <2>1, <2>2, <2>3, <3>1 DEF IInv, NothingForgotten
    <3>2. CASE i = Len(Pending) + 1
      BY <2>1, <2>2, <2>3, <3>2
    <3> QED BY <2>1, <2>3, <2>4, <3>1, <3>2
  <2> QED BY <2>1, <2>2, <2>3, <2>4 DEF IInv, NothingForgotten, Elems
<1>2. ASSUME NEW w \in Workers, Pop(w) PROVE NothingForgotten' /\ Done' \in Nat
  <2>1. msg = <<>>
    BY <1>2 DEF Pop, IInv, Control, Exclusive, InProcess
  <2>2. queue \in Seq(Nat) /\ queue # <<>> /\ UNCHANGED <<logged, file, lost>>
        /\ msg' = <<Head(queue)>> /\ queue' = Tail(queue)
    BY <1>2 DEF Pop, IInv, TypeOK, disk
  <2>3. <<Head(queue)>> \o Tail(queue) = queue
    <3>1. <<Head(queue)>> = Append(<<>>, Head(queue))
      BY <2>2
    <3>2. Append(<<>>, Head(queue)) \o Tail(queue) = <<>> \o queue
      BY <2>2, MoveFront, EmptySeq
    <3> QED BY <2>2, <3>1, <3>2, ConcatEmptySeq
  <2>4. Pending = queue /\ Pending' = queue
    BY <2>1, <2>2, <2>3, ConcatEmptySeq DEF Pending
  <2> QED BY <2>2, <2>4, SamePending
<1>3. ASSUME NEW w \in Workers, Write(w) \/ WriteFails(w) \/ WriteRaces(w)
      PROVE  NothingForgotten' /\ Done' \in Nat
  <2>1. msg # <<>> /\ msg' = <<>> /\ UNCHANGED <<logged, queue>>
    BY <1>3 DEF Write, WriteFails, WriteRaces, Written, IInv, Control, Exclusive
  <2>2. msg \in Seq(Nat) /\ file \in Seq(Nat)
    BY DEF IInv, TypeOK
  <2>3. \/ /\ Elems(file') = Elems(file) \cup Elems(msg) /\ lost' = lost
        \/ /\ file' = file /\ lost' = lost \cup Elems(msg)
    BY <1>3, <2>2, WriteElements DEF Write, WriteFails, WriteRaces
  <2> QED BY <2>1, <2>3, OneMoreDone
<1>4. CASE UNCHANGED <<msg, queue, logged, file, lost>>
  BY <1>4, SamePending DEF Pending
<1>5. ASSUME NEW c \in Callers, CallRotate(c) \/ CallerStep(c)
      PROVE  UNCHANGED <<msg, queue, logged, file, lost>>
  BY <1>5 DEF CallRotate, CallerStep, Submit, NotifyOne, Rotate, lines, disk
<1>6. ASSUME NEW w \in Workers,
             TakeTask(w) \/ Sleep(w) \/ Exit(w) \/ Enter(w) \/ PopWaits(w) \/ PopEnds(w)
      PROVE  UNCHANGED <<msg, queue, logged, file, lost>>
  BY <1>6 DEF TakeTask, Sleep, Exit, Enter, PopWaits, PopEnds, lines, disk
<1>7. ASSUME Open \/ OpenThrows \/ Stop \/ OwnerStep \/ UNCHANGED vars
      PROVE  UNCHANGED <<msg, queue, logged, file, lost>>
  BY <1>7 DEF Open, OpenThrows, Stop, OwnerStep, BeginClose, EndClose, ClosePool, NotifyAll,
              Join, lines, disk, vars
<1> QED BY <1>1, <1>2, <1>3, <1>4, <1>5, <1>6, <1>7 DEF Next, WorkerStep

\* A step of one worker leaves the others where they are.
LEMMA ExclusiveStep == ASSUME IInv, [Next]_vars PROVE Exclusive'
<1> USE DEF IInv, Control, Exclusive, InProcess, TypeOK, GoWorker, GoCaller, GoOwner, lines, disk, switches
<1>1. CASE Open \/ OpenThrows \/ Stop \/ OwnerStep \/ UNCHANGED vars
  BY <1>1 DEF Open, OpenThrows, Stop, OwnerStep, BeginClose, EndClose, ClosePool, NotifyAll, Join, vars
<1>2. ASSUME NEW c \in Callers, Push(c) \/ CallRotate(c) \/ Submit(c) \/ Rotate(c) PROVE Exclusive'
  BY <1>2 DEF Push, CallRotate, Submit, Rotate
<1>3. ASSUME NEW c \in Callers, NotifyOne(c) PROVE Exclusive'
  <2>1. msg' = msg /\ \A w \in Workers : worker'[w] = worker[w] \/ (worker'[w] = "test" /\ worker[w] = "wait")
    <3>1. CASE \E v \in Workers : worker[v] = "wait" /\ worker' = [worker EXCEPT ![v] = "test"]
      BY <1>3, <3>1 DEF NotifyOne
    <3>2. CASE worker' = worker
      BY <1>3, <3>2 DEF NotifyOne
    <3> QED BY <1>3, <3>1, <3>2 DEF NotifyOne
  <2> QED BY <2>1
<1>4. ASSUME NEW w \in Workers,
             TakeTask(w) \/ Sleep(w) \/ Exit(w) \/ PopWaits(w) \/ PopEnds(w)
      PROVE  Exclusive'
  <2>1. /\ msg' = msg /\ worker[w] # "write" /\ worker'[w] # "write"
        /\ worker'[w] \in InProcess => worker[w] \in InProcess
        /\ \A v \in Workers : v # w => worker'[v] = worker[v]
    BY <1>4 DEF TakeTask, Sleep, Exit, PopWaits, PopEnds
  <2> QED BY <2>1
<1>5. ASSUME NEW w \in Workers, Enter(w) PROVE Exclusive'
  BY <1>5 DEF Enter, MutexFree
<1>6. ASSUME NEW w \in Workers, Pop(w) PROVE Exclusive'
  <2>1. msg' # <<>>
    BY <1>6 DEF Pop
  <2> QED BY <1>6, <2>1 DEF Pop
<1>7. ASSUME NEW w \in Workers, Write(w) \/ WriteFails(w) \/ WriteRaces(w) PROVE Exclusive'
  BY <1>7 DEF Write, WriteFails, WriteRaces, Written
<1> QED BY <1>1, <1>2, <1>3, <1>4, <1>5, <1>6, <1>7 DEF Next, CallerStep, WorkerStep

\* A worker leaves process only when the queue is empty, and a line comes with
\* a task.
LEMMA CoveredStep == ASSUME IInv, [Next]_vars PROVE Covered'
<1> USE DEF IInv, Control, Covered, Phases, InProcess, TypeOK, GoWorker, GoCaller, GoOwner, lines, disk, switches
<1>1. CASE Open \/ OpenThrows \/ Stop \/ OwnerStep \/ UNCHANGED vars
  BY <1>1 DEF Open, OpenThrows, Stop, OwnerStep, BeginClose, EndClose, ClosePool, NotifyAll, Join, vars
<1>2. ASSUME NEW c \in Callers, Push(c) PROVE Covered'
  BY <1>2 DEF Push
<1>3. ASSUME NEW c \in Callers, Submit(c) PROVE Covered'
  <2>1. ~closed
    BY <1>3 DEF Submit
  <2> QED BY <1>3, <2>1 DEF Submit
<1>4. ASSUME NEW c \in Callers, CallRotate(c) \/ Rotate(c) PROVE Covered'
  BY <1>4 DEF CallRotate, Rotate
<1>5. ASSUME NEW c \in Callers, NotifyOne(c) PROVE Covered'
  <2>1. \A w \in Workers : worker[w] \in InProcess \cup {"enter"} => worker'[w] = worker[w]
    BY <1>5 DEF NotifyOne
  <2> QED BY <1>5, <2>1 DEF NotifyOne
<1>6. ASSUME NEW w \in Workers, TakeTask(w) \/ Enter(w) \/ PopWaits(w) \/ PopEnds(w) \/ Pop(w) PROVE Covered'
  BY <1>6 DEF TakeTask, Enter, PopWaits, PopEnds, Pop
<1>7. ASSUME NEW w \in Workers, Sleep(w) \/ Exit(w) PROVE Covered'
  BY <1>7 DEF Sleep, Exit
<1>8. ASSUME NEW w \in Workers, Write(w) \/ WriteFails(w) \/ WriteRaces(w) PROVE Covered'
  BY <1>8 DEF Write, WriteFails, WriteRaces, Written
<1> QED BY <1>1, <1>2, <1>3, <1>4, <1>5, <1>6, <1>7, <1>8 DEF Next, CallerStep, WorkerStep

\* The phases of the destructor.
LEMMA PhasesStep == ASSUME IInv, [Next]_vars PROVE Phases'
<1> USE DEF IInv, Control, Phases, TypeOK, GoWorker, GoCaller, GoOwner, lines, disk, switches
<1>1. CASE Open \/ OpenThrows \/ Stop \/ UNCHANGED vars
  BY <1>1 DEF Open, OpenThrows, Stop, vars
<1>2. CASE BeginClose \/ EndClose \/ ClosePool \/ NotifyAll \/ Join
  BY <1>2 DEF BeginClose, EndClose, ClosePool, NotifyAll, Join
<1>3. ASSUME NEW c \in Callers, Push(c) \/ CallRotate(c) PROVE Phases'
  BY <1>3 DEF Push, CallRotate
<1>4. ASSUME NEW c \in Callers, CallerStep(c) PROVE Phases'
  <2>1. caller[c] # "free" /\ owner' = owner /\ closed' = closed
    BY <1>4 DEF CallerStep, Submit, NotifyOne, Rotate
  <2>2. owner = "up" /\ ~closed
    BY <2>1
  <2>3. \A w \in Workers : worker[w] # "exited" /\ worker'[w] # "exited"
    <3>1. \A w \in Workers : worker[w] # "exited"
      BY <2>2
    <3>2. CASE NotifyOne(c)
      BY <3>1, <3>2 DEF NotifyOne
    <3>3. CASE Submit(c) \/ Rotate(c)
      BY <3>1, <3>3 DEF Submit, Rotate
    <3> QED BY <1>4, <3>1, <3>2, <3>3 DEF CallerStep
  <2> QED BY <2>1, <2>2, <2>3
<1>5. ASSUME NEW w \in Workers, WorkerStep(w) PROVE Phases'
  <2>1. worker[w] # "exited" /\ UNCHANGED <<owner, closed, caller>> /\ (tasks = 0 => tasks' = 0)
        /\ \A v \in Workers : v # w => worker'[v] = worker[v]
    BY <1>5 DEF WorkerStep, TakeTask, Sleep, Exit, Enter, PopWaits, PopEnds, Pop, Write, WriteFails,
                WriteRaces, Written
  <2>2. worker'[w] = "exited" => closed /\ tasks' = 0
    BY <1>5 DEF WorkerStep, TakeTask, Sleep, Exit, Enter, PopWaits, PopEnds, Pop, Write, WriteFails,
                WriteRaces, Written
  <2> QED BY <2>1, <2>2
<1> QED BY <1>1, <1>2, <1>3, <1>4, <1>5 DEF Next, OwnerStep

\* A line is written behind the others.
LEMMA OneBehind ==
  ASSUME NEW s \in Seq(Nat), NEW m \in Seq(Nat), Len(m) = 1
  PROVE  /\ s \o m \in Seq(Nat) /\ Len(s \o m) = Len(s) + 1 /\ Len(s) \in Nat
         /\ (s \o m)[Len(s) + 1] = m[1]
         /\ \A i \in 1..Len(s) : (s \o m)[i] = s[i]
<1>1. ASSUME NEW q \in Seq(Nat)
      PROVE  /\ s \o q \in Seq(Nat) /\ Len(s \o q) = Len(s) + Len(q) /\ Len(s) \in Nat
             /\ \A i \in 1..Len(s) : (s \o q)[i] = s[i]
             /\ \A i \in 1..Len(q) : (s \o q)[Len(s) + i] = q[i]
  OBVIOUS
<1>2. 1 \in 1..Len(m)
  OBVIOUS
<1>3. /\ s \o m \in Seq(Nat) /\ Len(s \o m) = Len(s) + Len(m) /\ Len(s) \in Nat
      /\ \A i \in 1..Len(s) : (s \o m)[i] = s[i]
      /\ \A i \in 1..Len(m) : (s \o m)[Len(s) + i] = m[i]
  BY <1>1
<1> QED BY <1>2, <1>3

\* A line is written behind older ones; only WriteRaces writes one twice.
LEMMA FilesStep == ASSUME IInv, FilesInOrder, [Next]_vars PROVE FilesInOrder'
<1>1. ASSUME file' = file, raced \subseteq raced' PROVE FilesInOrder'
  BY <1>1 DEF FilesInOrder
<1>2. ASSUME NEW w \in Workers, Write(w) \/ WriteRaces(w) PROVE FilesInOrder'
  <2>1. msg # <<>>
    BY <1>2 DEF Write, WriteRaces, Written, GoWorker, IInv, Control, Exclusive
  <2>2. PICK n \in Nat :
          /\ Len(msg) = 1 /\ msg[1] = n
          /\ \A i \in 1..Len(file) : file[i] \in Nat /\ file[i] < n
    <3>1. /\ msg \in Seq(Nat) /\ queue \in Seq(Nat) /\ Len(msg) <= 1 /\ Done \in Nat
          /\ file \in Seq(Nat)
      BY DEF IInv, TypeOK
    <3>2. Len(msg) = 1 /\ msg[1] \in Nat
      <4>1. Len(msg) \in Nat /\ Len(msg) # 0 /\ Len(msg) <= 1
        BY <2>1, <3>1, EmptySeq
      <4>2. \A k \in Nat : k # 0 /\ k <= 1 => k = 1
        OBVIOUS
      <4>3. Len(msg) = 1
        BY <4>1, <4>2
      <4> QED BY <3>1, <4>3
    <3>3. 1 \in 1..Len(Pending) /\ Pending[1] = msg[1]
      <4>1. /\ Len(msg \o queue) = Len(msg) + Len(queue) /\ Len(queue) \in Nat
            /\ \A i \in 1..Len(msg) : (msg \o queue)[i] = msg[i]
        <5>1. msg \in Seq(Nat) /\ queue \in Seq(Nat)
          BY <3>1
        <5> QED BY <5>1
      <4>2. 1 \in 1..(1 + Len(queue)) /\ 1 \in 1..Len(msg)
        BY <3>2, <4>1
      <4> QED BY <3>2, <4>1, <4>2 DEF Pending
    <3>4. msg[1] = Done + 1
      BY <3>1, <3>3 DEF IInv, NothingForgotten
    <3>5. \A i \in 1..Len(file) : file[i] \in 1..Done
      BY DEF IInv, NothingForgotten, Elems
    <3>6. \A i \in 1..Len(file) : file[i] \in Nat /\ file[i] < Done + 1
      BY <3>1, <3>5
    <3> QED BY <3>1, <3>2, <3>4, <3>6
  <2>3. file \in Seq(Nat) /\ Len(file) \in Nat /\ msg \in Seq(Nat)
    BY DEF IInv, TypeOK
  <2>4. CASE file' = file \o msg /\ raced \subseteq raced'
    <3>1. /\ Len(file') = Len(file) + 1 /\ file'[Len(file) + 1] = n
          /\ \A i \in 1..Len(file) : file'[i] = file[i]
      BY <2>2, <2>3, <2>4, OneBehind
    <3>2. 1..Len(file') = 1..Len(file) \cup {Len(file) + 1}
      BY <2>3, <3>1
    <3> SUFFICES ASSUME NEW i \in 1..Len(file'), NEW j \in 1..Len(file'), i < j
                 PROVE  file'[i] < file'[j] \/ (file'[i] = file'[j] /\ file'[i] \in raced')
      BY DEF FilesInOrder
    <3>3. i \in 1..Len(file)
      BY <2>3, <3>1
    <3>4. CASE j \in 1..Len(file)
      BY <2>4, <3>1, <3>3, <3>4 DEF FilesInOrder
    <3>5. CASE j = Len(file) + 1
      BY <2>2, <3>1, <3>3, <3>5
    <3> QED BY <3>2, <3>4, <3>5
  <2>5. CASE file' = file \o msg \o msg /\ raced' = raced \cup Elems(msg)
    <3>1. /\ Len(file') = Len(file) + 2 /\ file'[Len(file) + 1] = n /\ file'[Len(file) + 2] = n
          /\ \A i \in 1..Len(file) : file'[i] = file[i]
      <4>1. /\ file \o msg \in Seq(Nat) /\ Len(file \o msg) = Len(file) + 1
            /\ (file \o msg)[Len(file) + 1] = n
            /\ \A i \in 1..Len(file) : (file \o msg)[i] = file[i]
        BY <2>2, <2>3, OneBehind
      <4>2. /\ Len(file') = Len(file \o msg) + 1 /\ file'[Len(file \o msg) + 1] = n
            /\ \A i \in 1..Len(file \o msg) : file'[i] = (file \o msg)[i]
        BY <2>2, <2>3, <2>5, <4>1, OneBehind
      <4>3. /\ Len(file \o msg) + 1 = Len(file) + 2 /\ Len(file) + 1 \in 1..Len(file \o msg)
            /\ \A i \in 1..Len(file) : i \in 1..Len(file \o msg)
        BY <2>3, <4>1
      <4> QED BY <4>1, <4>2, <4>3
    <3>2. 1..Len(file') = 1..Len(file) \cup {Len(file) + 1, Len(file) + 2} /\ n \in raced'
      <4>1. n \in Elems(msg)
        BY <2>2 DEF Elems
      <4>2. \A l \in Nat : 1..(l + 2) = 1..l \cup {l + 1, l + 2}
        OBVIOUS
      <4> QED BY <2>3, <2>5, <3>1, <4>1, <4>2
    <3> SUFFICES ASSUME NEW i \in 1..Len(file'), NEW j \in 1..Len(file'), i < j
                 PROVE  file'[i] < file'[j] \/ (file'[i] = file'[j] /\ file'[i] \in raced')
      BY DEF FilesInOrder
    <3>3. CASE i \in 1..Len(file) /\ j \in 1..Len(file)
      BY <2>5, <3>1, <3>3 DEF FilesInOrder
    <3>4. CASE i \in 1..Len(file) /\ j \in {Len(file) + 1, Len(file) + 2}
      BY <2>2, <3>1, <3>4
    <3>5. CASE i = Len(file) + 1 /\ j = Len(file) + 2
      BY <3>1, <3>2, <3>5
    <3>6. \/ i \in 1..Len(file) /\ j \in 1..Len(file)
          \/ i \in 1..Len(file) /\ j \in {Len(file) + 1, Len(file) + 2}
          \/ i = Len(file) + 1 /\ j = Len(file) + 2
      BY <2>3, <3>2
    <3> QED BY <3>3, <3>4, <3>5, <3>6
  <2>6. CASE file' = file /\ raced \subseteq raced'
    BY <1>1, <2>6
  <2> QED BY <1>2, <2>4, <2>5, <2>6 DEF Write, WriteRaces
<1>3. ASSUME NEW c \in Callers, Push(c) \/ CallRotate(c) \/ CallerStep(c)
      PROVE  file' = file /\ raced' = raced
  BY <1>3 DEF Push, CallRotate, CallerStep, Submit, NotifyOne, Rotate, disk
<1>4. ASSUME NEW w \in Workers,
             \/ TakeTask(w) \/ Sleep(w) \/ Exit(w) \/ Enter(w) \/ PopWaits(w) \/ Pop(w)
             \/ PopEnds(w) \/ WriteFails(w)
      PROVE  file' = file /\ raced' = raced
  BY <1>4 DEF TakeTask, Sleep, Exit, Enter, PopWaits, Pop, PopEnds, WriteFails, disk
<1>5. ASSUME Open \/ OpenThrows \/ Stop \/ OwnerStep \/ UNCHANGED vars
      PROVE  file' = file /\ raced' = raced
  BY <1>5 DEF Open, OpenThrows, Stop, OwnerStep, BeginClose, EndClose, ClosePool, NotifyAll,
              Join, disk, vars
<1> QED BY <1>1, <1>2, <1>3, <1>4, <1>5 DEF Next, WorkerStep

-----------------------------------------------------------------------------
(* Theorems *)

\* The strengthened invariant holds in every reachable state.
THEOREM Invariance == Spec => []IInv
<1>1. IInv /\ [Next]_vars => IInv'
  BY TypeStep, LinesStep, ExclusiveStep, CoveredStep, PhasesStep DEF IInv, Control
<1> QED BY <1>1, InitIInv, PTL DEF Spec

\* Type correctness of the logger.
THEOREM TypeCorrect == Spec => []TypeOK
BY Invariance, PTL DEF IInv

\* No line is skipped or overtaken between push and file (LogQueue.hpp:33-57,
\* Logger.hpp:219-225), for any number of workers and callers.
THEOREM NeverForgets == Spec => []NothingForgotten
BY Invariance, PTL DEF IInv

\* The files hold the lines in the order of the pushes and each once, but for
\* one whose write met the unlocked close of the destructor (Logger.hpp:76-91,
\* 219-239), for any number of workers, callers and rotations.
THEOREM WrittenInOrder == Spec => []FilesInOrder
<1>1. Init => FilesInOrder
  <2> SUFFICES ASSUME Init PROVE FilesInOrder
    OBVIOUS
  <2>1. Len(file) = 0 /\ 1..0 = {}
    BY DEF Init
  <2> QED BY <2>1 DEF FilesInOrder
<1> QED BY <1>1, FilesStep, Invariance, PTL DEF Spec

\* When the destructor has returned (Logger.hpp:76-91, ThreadPool.hpp:42-53),
\* no line is left in the queue.
THEOREM DestructorComplete == Spec => []DestructorDrains
<1>1. IInv => DestructorDrains
  <2> SUFFICES ASSUME IInv, owner = "gone" PROVE Done = logged
    BY DEF DestructorDrains
  <2>1. /\ \A w \in Workers : worker[w] = "exited"
        /\ \A c \in Callers : caller[c] = "free"
        /\ tasks = 0
    BY LoggerAssumption DEF IInv, Control, Phases
  <2>2. queue = <<>> /\ msg = <<>>
    BY <2>1 DEF IInv, Control, Covered, Exclusive, InProcess
  <2>3. Pending = <<>>
    BY <2>2, ConcatEmptySeq DEF Pending
  <2>4. Len(Pending) = 0 /\ logged \in Nat
    BY <2>3, PendingType, EmptySeq DEF IInv
  <2> QED BY <2>4 DEF Done
<1> QED BY <1>1, Invariance, PTL
=============================================================================
