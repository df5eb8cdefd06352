------------------------ MODULE AsyncDBWriterProofs ------------------------
(***************************************************************************)
(* Theorems about AsyncDBWriter, for any log lines and any workers.        *)
(***************************************************************************)
EXTENDS AsyncDBWriter, SequenceTheorems, TLAPS

\* No element twice.
NoRepeats(s) == \A i, j \in 1..Len(s) : s[i] = s[j] => i = j

\* An executor has a task in hand exactly while it is in executeWrite.
HandMatchesLabel == \A e \in Executors : task[e] # NoTask <=> pc[e] \in {"write", "commit"}

Draining == {"drain", "write", "commit"}

\* remainingTasks is used only after the swap, which follows the join.
RemainingIsLocal == remaining # <<>> => pc[Main] \in Draining
JoinedFirst == pc[Main] \in Draining \cup {"swap", "down"} => At("exited") = Workers

\* What was popped or is still in remainingTasks is what was pushed before
\* the swap.
SwappedIsTaken ==
  pc[Main] \in Draining \cup {"down"} => swapped = Len(taken) + Len(remaining)

IInv ==
  /\ TypeOK
  /\ HandMatchesLabel /\ RemainingIsLocal /\ JoinedFirst /\ SwappedIsTaken
  /\ NoRepeats(added)
  /\ InOrder
  /\ EachOnce

-----------------------------------------------------------------------------
(* The sequences used as queues *)

\* Appending to the second part appends to the whole.
LEMMA AppendToConcat ==
  ASSUME NEW S, NEW p \in Seq(S), NEW q \in Seq(S), NEW x \in S
  PROVE  /\ p \o Append(q, x) \in Seq(S)
         /\ p \o Append(q, x) = Append(p \o q, x)
<1>1. p \o Append(q, x) \in Seq(S) /\ Append(p \o q, x) \in Seq(S)
  OBVIOUS
<1>2. Len(p \o Append(q, x)) = Len(Append(p \o q, x))
  OBVIOUS
<1>3. \A i \in 1..Len(p \o Append(q, x)) : (p \o Append(q, x))[i] = Append(p \o q, x)[i]
  OBVIOUS
<1> QED BY <1>1, <1>2, <1>3, SeqEqual

\* Moving the front of the second part to the end of the first changes nothing.
LEMMA MoveFront ==
  ASSUME NEW S, NEW p \in Seq(S), NEW q \in Seq(S), q # <<>>
  PROVE  /\ Append(p, Head(q)) \in Seq(S) /\ Tail(q) \in Seq(S) /\ Head(q) \in S
         /\ Append(p, Head(q)) \o Tail(q) = p \o q
<1>1. /\ Append(p, Head(q)) \in Seq(S) /\ Tail(q) \in Seq(S) /\ Head(q) \in S
      /\ Append(p, Head(q)) \o Tail(q) \in Seq(S) /\ p \o q \in Seq(S)
  OBVIOUS
<1>2. Len(Append(p, Head(q)) \o Tail(q)) = Len(p \o q)
  OBVIOUS
<1>3. \A i \in 1..Len(Append(p, Head(q)) \o Tail(q)) : (Append(p, Head(q)) \o Tail(q))[i] = (p \o q)[i]
  OBVIOUS
<1> QED BY <1>1, <1>2, <1>3, SeqEqual

\* The elements of a sequence after Append.
LEMMA AppendElements ==
  ASSUME NEW S, NEW s \in Seq(S), NEW x \in S
  PROVE  /\ Append(s, x) \in Seq(S)
         /\ Elems(Append(s, x)) = Elems(s) \cup {x}
         /\ Len(Append(s, x)) = Len(s) + 1
         /\ \A i \in 1..Len(s) : Append(s, x)[i] = s[i]
         /\ x \notin Elems(s) /\ NoRepeats(s) => NoRepeats(Append(s, x))
<1>1. /\ Append(s, x) \in Seq(S) /\ Len(Append(s, x)) = Len(s) + 1 /\ Len(s) \in Nat
      /\ \A i \in 1..Len(s) : Append(s, x)[i] = s[i]
      /\ Append(s, x)[Len(s) + 1] = x
  OBVIOUS
<1>2. 1..(Len(s) + 1) = 1..Len(s) \cup {Len(s) + 1} /\ Len(s) + 1 \notin 1..Len(s)
  BY <1>1
<1>3. Elems(Append(s, x)) = Elems(s) \cup {x}
  BY <1>1, <1>2 DEF Elems
<1>4. x \notin Elems(s) /\ NoRepeats(s) => NoRepeats(Append(s, x))
  BY <1>1, <1>2 DEF Elems, NoRepeats
<1> QED BY <1>1, <1>3, <1>4

\* In a sequence without repetitions, the front of the second part is not in
\* the first.
LEMMA FrontIsNew ==
  ASSUME NEW S, NEW p \in Seq(S), NEW q \in Seq(S), q # <<>>, NoRepeats(p \o q)
  PROVE  Head(q) \notin Elems(p)
<1> SUFFICES ASSUME NEW i \in 1..Len(p), p[i] = Head(q) PROVE FALSE
  BY DEF Elems
<1>1. /\ Len(p) + 1 \in 1..Len(p \o q) /\ (p \o q)[Len(p) + 1] = Head(q)
      /\ i \in 1..Len(p \o q) /\ (p \o q)[i] = p[i] /\ i # Len(p) + 1
  OBVIOUS
<1> QED BY <1>1 DEF NoRepeats

-----------------------------------------------------------------------------
(* Lemmas *)

\* Changing the label of one executor.
LEMMA GotoMoves ==
  ASSUME TypeOK, NEW e \in Executors, NEW from, NEW to, Goto(e, from, to)
  PROVE  pc[e] = from /\ pc' = [pc EXCEPT ![e] = to]
BY DEF Goto

LEMMA EachOnceStays ==
  ASSUME EachOnce, UNCHANGED <<task, db, taken>> PROVE EachOnce'
<1>1. InHand' = InHand /\ Settled' = Settled /\ Elems(taken)' = Elems(taken)
  BY DEF InHand, Settled, Elems, db
<1>2. rows' = rows /\ dropped' = dropped /\ task' = task
  BY DEF db
<1> QED BY <1>1, <1>2 DEF EachOnce

LEMMA InitIInv == Init => IInv
<1> SUFFICES ASSUME Init PROVE IInv
  OBVIOUS
<1>1. /\ taskQueue = <<>> /\ remaining = <<>> /\ added = <<>> /\ taken = <<>>
      /\ task = [e \in Executors |-> NoTask]
      /\ \A e \in Executors : pc[e] \in {"start", "unborn"}
      /\ pc[Main] = "start"
  BY DEF Init, Executors
<1>2. TypeOK
  BY <1>1, WriterAssumption DEF Init, TypeOK, Executors, WorkerLabels, MainLabels
<1>3. HandMatchesLabel /\ RemainingIsLocal /\ JoinedFirst /\ SwappedIsTaken
  BY <1>1 DEF HandMatchesLabel, RemainingIsLocal, JoinedFirst, SwappedIsTaken, Draining
<1>4. NoRepeats(added) /\ InOrder
  BY <1>1 DEF NoRepeats, InOrder
<1>5. EachOnce
  <2>1. Elems(taken) = {} /\ InHand = {} /\ Settled = {}
    BY <1>1 DEF Elems, InHand, Settled, Init
  <2> QED BY <1>1, <2>1 DEF EachOnce, Init
<1> QED BY <1>2, <1>3, <1>4, <1>5 DEF IInv

-----------------------------------------------------------------------------
(* Steps that only move executors between labels outside executeWrite, or
   into the commit, and touch neither the tasks nor the database *)

Idle == {"unborn", "test", "lock", "waiting", "late", "exited"}

\* A step of one worker that leaves the queues, the tasks and the rows alone.
LEMMA WorkerMoveKeeps ==
  ASSUME IInv, NEW w \in Workers, NEW to \in WorkerLabels,
         pc[w] # "exited",
         pc' = [pc EXCEPT ![w] = to],
         pc[w] \in {"write", "commit"} <=> to \in {"write", "commit"},
         notifies' \in Nat,
         UNCHANGED <<taskQueue, running, task, remaining, db, history>>
  PROVE  IInv'
<1> USE WriterAssumption DEF IInv
<1>1. TypeOK'
  BY DEF TypeOK, Executors, db, history
<1>2. HandMatchesLabel'
  BY DEF HandMatchesLabel, TypeOK, Executors
<1>3. pc'[Main] = pc[Main]
  BY DEF TypeOK, Executors
<1>4. pc[Main] \notin Draining \cup {"swap", "down"}
  BY DEF JoinedFirst, At
<1>5. RemainingIsLocal' /\ JoinedFirst' /\ SwappedIsTaken'
  BY <1>3, <1>4 DEF RemainingIsLocal, JoinedFirst, SwappedIsTaken, Draining, history
<1>6. NoRepeats(added)' /\ InOrder' /\ EachOnce'
  BY EachOnceStays DEF NoRepeats, InOrder, history
<1> QED BY <1>1, <1>2, <1>5, <1>6

LEMMA AddTaskKeeps == ASSUME IInv, NEW t \in Tasks, AddTask(t) PROVE IInv'
<1> USE DEF IInv, AddTask
<1>1. /\ taskQueue' = Append(taskQueue, t) /\ added' = Append(added, t)
      /\ taskQueue' \in Seq(Tasks) /\ added' \in Seq(Tasks)
  BY DEF TypeOK
<1>2. TypeOK'
  BY <1>1 DEF TypeOK, db
<1>3. NoRepeats(added)'
  <2>1. NoRepeats(added')
    BY <1>1, AppendElements DEF TypeOK
  <2> QED BY <2>1 DEF NoRepeats
<1>4. InOrder'
  <2>1. taken \o remaining \in Seq(Tasks)
    BY ConcatProperties DEF TypeOK
  <2>2. taskQueue \in Seq(Tasks) /\ added = (taken \o remaining) \o taskQueue
    BY DEF TypeOK, InOrder
  <2>3. (taken \o remaining) \o Append(taskQueue, t) = Append((taken \o remaining) \o taskQueue, t)
    BY <2>1, <2>2, AppendToConcat
  <2> QED BY <1>1, <2>2, <2>3 DEF InOrder
<1>5. HandMatchesLabel' /\ RemainingIsLocal' /\ JoinedFirst' /\ SwappedIsTaken'
  BY DEF HandMatchesLabel, RemainingIsLocal, JoinedFirst, SwappedIsTaken, At
<1>6. EachOnce'
  BY EachOnceStays
<1> QED BY <1>2, <1>3, <1>4, <1>5, <1>6

\* An executor takes the front of a queue: it was in nobody's hands before.
LEMMA TakingKeepsEachOnce ==
  ASSUME IInv, NEW e \in Executors, NEW t \in Tasks,
         task[e] = NoTask, t \notin Elems(taken),
         task' = [task EXCEPT ![e] = t],
         taken' = Append(taken, t),
         UNCHANGED db
  PROVE  EachOnce'
<1> USE WriterAssumption DEF IInv
<1>1. Elems(taken') = Elems(taken) \cup {t}
  BY AppendElements DEF TypeOK
<1>2. InHand' = InHand \cup {t}
  BY DEF InHand, TypeOK
<1>3. Settled' = Settled
  BY DEF Settled, db
<1>4. t \notin InHand /\ t \notin Settled
  BY DEF EachOnce
<1>5. \A c, d \in Executors : c # d /\ task'[c] # NoTask => task'[c] # task'[d]
  <2>1. \A d \in Executors : task[d] # t
    BY <1>4 DEF InHand
  <2> QED BY <2>1 DEF EachOnce, TypeOK
<1>6. \A u \in Tasks : rows'[u] + (IF u \in dropped' THEN 1 ELSE 0) <= 1
  BY DEF EachOnce, db
<1>7. Elems(taken)' = Elems(taken')
  BY DEF Elems
<1> QED BY <1>1, <1>2, <1>3, <1>4, <1>5, <1>6, <1>7 DEF EachOnce

LEMMA PopKeeps == ASSUME IInv, NEW w \in Workers, Pop(w) PROVE IInv'
<1> USE WriterAssumption DEF IInv, Pop
<1> DEFINE t == Head(taskQueue)
<1>1. pc[w] \in {"late", "lock"} /\ w \in Executors /\ w # Main /\ pc'[Main] = pc[Main]
  BY DEF Awake, Executors, TypeOK
<1>2. pc[Main] \notin Draining \cup {"swap", "down"} /\ remaining = <<>>
  BY <1>1 DEF JoinedFirst, RemainingIsLocal, At
<1>3. /\ taken' = Append(taken, t) /\ taskQueue' = Tail(taskQueue) /\ t \in Tasks
      /\ taken' \in Seq(Tasks) /\ taskQueue' \in Seq(Tasks)
      /\ taken' \o taskQueue' = taken \o taskQueue
  BY MoveFront DEF TypeOK
<1>4. taken \o <<>> = taken /\ taken' \o <<>> = taken'
  BY <1>3, ConcatEmptySeq DEF TypeOK
<1>5. InOrder'
  BY <1>2, <1>3, <1>4 DEF InOrder
<1>6. t \notin Elems(taken)
  BY <1>2, <1>4, FrontIsNew DEF InOrder, TypeOK
<1>7. EachOnce'
  <2>1. task[w] = NoTask
    BY <1>1 DEF HandMatchesLabel
  <2> QED BY <1>1, <1>3, <1>6, <2>1, TakingKeepsEachOnce
<1>8. TypeOK'
  BY <1>1, <1>3 DEF TypeOK, Executors, WorkerLabels, MainLabels, db
<1>9. HandMatchesLabel' /\ NoRepeats(added)'
  BY <1>1, <1>3 DEF HandMatchesLabel, TypeOK, NoRepeats
<1>10. RemainingIsLocal' /\ JoinedFirst' /\ SwappedIsTaken'
  BY <1>1, <1>2 DEF RemainingIsLocal, JoinedFirst, SwappedIsTaken, Draining
<1> QED BY <1>5, <1>7, <1>8, <1>9, <1>10

LEMMA DrainKeeps == ASSUME IInv, Drain PROVE IInv'
<1> USE WriterAssumption DEF IInv, Drain
<1> DEFINE t == Head(remaining)
<1>1. pc[Main] = "drain" /\ pc' = [pc EXCEPT ![Main] = "write"] /\ Main \in Executors /\ pc'[Main] = "write"
  BY DEF Goto, Executors, TypeOK
<1>2. /\ taken' = Append(taken, t) /\ remaining' = Tail(remaining) /\ t \in Tasks
      /\ taken' \in Seq(Tasks) /\ remaining' \in Seq(Tasks)
      /\ taken' \o remaining' = taken \o remaining
  BY MoveFront DEF TypeOK
<1>3. InOrder'
  BY <1>2 DEF InOrder
<1>4. t \notin Elems(taken)
  <2>1. NoRepeats(taken \o remaining)
    <3>1. /\ taken \o remaining \in Seq(Tasks)
          /\ (taken \o remaining) \o taskQueue = added
      BY ConcatProperties DEF TypeOK, InOrder
    <3> HIDE DEF IInv
    <3> DEFINE p == taken \o remaining
    <3>2. p \in Seq(Tasks) /\ taskQueue \in Seq(Tasks) /\ added = p \o taskQueue
      BY <3>1 DEF TypeOK, IInv
    <3> HIDE DEF p
    <3>3. /\ Len(added) = Len(p) + Len(taskQueue) /\ Len(p) \in Nat /\ Len(taskQueue) \in Nat
          /\ \A i \in 1..Len(p) : added[i] = p[i]
      BY <3>2
    <3>4. NoRepeats(p)
      BY <3>3 DEF NoRepeats, IInv
    <3> QED BY <3>4 DEF p
  <2> QED BY <2>1, FrontIsNew DEF TypeOK
<1>5. EachOnce'
  <2>1. task[Main] = NoTask
    BY <1>1 DEF HandMatchesLabel
  <2> QED BY <1>1, <1>2, <1>4, <2>1, TakingKeepsEachOnce
<1>6. TypeOK'
  BY <1>1, <1>2 DEF TypeOK, Executors, WorkerLabels, MainLabels, db
<1>7. HandMatchesLabel' /\ NoRepeats(added)'
  BY <1>1, <1>2 DEF HandMatchesLabel, TypeOK, NoRepeats
<1>8. RemainingIsLocal' /\ JoinedFirst'
  BY <1>1 DEF RemainingIsLocal, JoinedFirst, Draining, At, TypeOK, Executors
<1>9. SwappedIsTaken'
  <2>1. Len(taken') = Len(taken) + 1 /\ Len(remaining') = Len(remaining) - 1
        /\ Len(taken) \in Nat /\ Len(remaining) \in Nat
    BY <1>2 DEF TypeOK
  <2> QED BY <1>1, <2>1 DEF SwappedIsTaken, Draining
<1> QED BY <1>3, <1>5, <1>6, <1>7, <1>8, <1>9

\* executeWrite is over: the task leaves the hand and is settled.
LEMMA SettleKeeps ==
  ASSUME IInv, NEW e \in Executors, pc[e] \in {"write", "commit"},
         pc' = [pc EXCEPT ![e] = Resume(e)],
         task' = [task EXCEPT ![e] = NoTask],
         \/ rows' = [rows EXCEPT ![task[e]] = @ + 1] /\ dropped' = dropped
         \/ dropped' = dropped \cup {task[e]} /\ rows' = rows,
         UNCHANGED <<taskQueue, running, remaining, notifies, history>>
  PROVE  IInv'
<1> USE WriterAssumption DEF IInv
<1> DEFINE t == task[e]
<1>1. t \in Tasks /\ t \in InHand /\ t \notin Settled /\ t \in Elems(taken)
      /\ \A d \in Executors : d # e => task[d] # t
  BY DEF HandMatchesLabel, TypeOK, InHand, EachOnce
<1>2. rows[t] = 0 /\ t \notin dropped
  BY <1>1 DEF Settled, TypeOK
<1>3. rows' \in [Tasks -> Nat] /\ dropped' \subseteq Tasks
  <2>1. rows \in [Tasks -> Nat] /\ dropped \subseteq Tasks /\ rows[t] + 1 \in Nat
    BY <1>1 DEF TypeOK
  <2>2. CASE rows' = [rows EXCEPT ![task[e]] = @ + 1] /\ dropped' = dropped
    BY <1>1, <2>1, <2>2
  <2>3. CASE dropped' = dropped \cup {task[e]} /\ rows' = rows
    BY <1>1, <2>1, <2>3
  <2> QED BY <2>2, <2>3
<1>4. TypeOK'
  BY <1>3 DEF TypeOK, Executors, Resume, WorkerLabels, MainLabels, history
<1>5. InHand' = InHand \ {t}
  BY <1>1 DEF InHand, TypeOK
<1>6. Settled' = Settled \cup {t}
  <2>1. CASE rows' = [rows EXCEPT ![task[e]] = @ + 1] /\ dropped' = dropped
    <3>1. rows'[t] > 0 /\ \A u \in Tasks : u # t => rows'[u] = rows[u]
      BY <1>1, <1>2, <2>1 DEF TypeOK
    <3> QED BY <1>1, <2>1, <3>1 DEF Settled
  <2>2. CASE dropped' = dropped \cup {task[e]} /\ rows' = rows
    BY <1>1, <2>2 DEF Settled
  <2> QED BY <2>1, <2>2
<1>7. \A u \in Tasks : rows'[u] + (IF u \in dropped' THEN 1 ELSE 0) <= 1
  <2> SUFFICES ASSUME NEW u \in Tasks
               PROVE  rows'[u] + (IF u \in dropped' THEN 1 ELSE 0) <= 1
    OBVIOUS
  <2>1. CASE u = t
    BY <1>1, <1>2, <2>1 DEF TypeOK
  <2>2. CASE u # t
    BY <1>1, <2>2 DEF EachOnce, TypeOK
  <2> QED BY <2>1, <2>2
<1>8. \A c, d \in Executors : c # d /\ task'[c] # NoTask => task'[c] # task'[d]
  BY DEF EachOnce, TypeOK
<1>9. EachOnce'
  <2>1. Elems(taken)' = Elems(taken)
    BY DEF Elems, history
  <2> QED BY <1>1, <1>5, <1>6, <1>7, <1>8, <2>1 DEF EachOnce
<1>10. HandMatchesLabel' /\ NoRepeats(added)' /\ InOrder'
  BY DEF HandMatchesLabel, NoRepeats, InOrder, TypeOK, Resume, history
<1>11. RemainingIsLocal' /\ SwappedIsTaken'
  BY DEF RemainingIsLocal, SwappedIsTaken, Draining, TypeOK, Resume, Executors, history
<1>12. JoinedFirst'
  BY DEF JoinedFirst, At, Draining, TypeOK, Resume, Executors
<1> QED BY <1>4, <1>9, <1>10, <1>11, <1>12

\* A step of Main that moves its label only (and running_).
LEMMA MainMoveKeeps ==
  ASSUME IInv, StartReturns \/ Shutdown \/ NotifyAll \/ Join \/ ShutdownReturns \/ Execute(Main)
  PROVE  IInv'
<1> USE WriterAssumption DEF IInv
<1>1. UNCHANGED <<taskQueue, task, remaining, notifies, db, history>> /\ running' \in BOOLEAN
  BY DEF StartReturns, Shutdown, NotifyAll, Join, ShutdownReturns, Execute, TypeOK
<1>2. /\ pc' \in [Executors -> WorkerLabels \cup MainLabels]
      /\ pc'[Main] \in MainLabels /\ \A w \in Workers : pc'[w] \in WorkerLabels
  BY DEF StartReturns, Shutdown, NotifyAll, Join, ShutdownReturns, Execute, TypeOK, Goto,
     Executors, WorkerLabels, MainLabels
<1>3. TypeOK'
  BY <1>1, <1>2 DEF TypeOK, db, history
<1>4. HandMatchesLabel'
  BY <1>1 DEF StartReturns, Shutdown, NotifyAll, Join, ShutdownReturns, Execute, TypeOK, Goto,
     Executors, HandMatchesLabel
<1>5. JoinedFirst' /\ RemainingIsLocal' /\ SwappedIsTaken'
  <2>1. CASE StartReturns \/ Shutdown \/ NotifyAll
    <3>1. pc[Main] \notin Draining /\ pc'[Main] \in {"up", "notify", "join"}
      BY <2>1 DEF StartReturns, Shutdown, NotifyAll, Goto, TypeOK, Executors, Draining
    <3> QED BY <1>1, <3>1 DEF JoinedFirst, RemainingIsLocal, SwappedIsTaken, Draining
  <2>2. CASE Join
    <3>1. pc'[Main] = "swap" /\ At("exited")' = Workers /\ pc[Main] \notin Draining
      BY <2>2 DEF Join, Goto, TypeOK, Executors, At, Draining
    <3> QED BY <1>1, <3>1 DEF JoinedFirst, RemainingIsLocal, SwappedIsTaken, Draining
  <2>3. CASE ShutdownReturns \/ Execute(Main)
    <3>1. pc[Main] \in Draining /\ At("exited")' = At("exited")
      BY <2>3 DEF ShutdownReturns, Execute, Goto, TypeOK, Executors, At, Draining
    <3>2. pc'[Main] \in Draining \/ (pc'[Main] = "down" /\ remaining = <<>>)
      BY <2>3 DEF ShutdownReturns, Execute, Goto, TypeOK, Executors, Draining
    <3> QED BY <1>1, <3>1, <3>2 DEF JoinedFirst, RemainingIsLocal, SwappedIsTaken, Draining, history
  <2> QED BY <2>1, <2>2, <2>3
<1>6. NoRepeats(added)' /\ InOrder' /\ EachOnce'
  BY <1>1, EachOnceStays DEF NoRepeats, InOrder, history
<1> QED BY <1>3, <1>4, <1>5, <1>6

LEMMA SwapKeeps == ASSUME IInv, Swap PROVE IInv'
<1> USE WriterAssumption DEF IInv, Swap
<1>1. pc[Main] = "swap" /\ pc' = [pc EXCEPT ![Main] = "drain"] /\ pc'[Main] = "drain" /\ remaining = <<>>
  BY DEF Goto, TypeOK, Executors, RemainingIsLocal, Draining
<1>2. TypeOK'
  <2>1. Len(added) \in Nat /\ <<>> \in Seq(Tasks)
    BY DEF TypeOK
  <2> QED BY <1>1, <2>1 DEF TypeOK, Executors, MainLabels, WorkerLabels, db
<1>3. added = taken \o taskQueue /\ Len(added) = Len(taken) + Len(taskQueue)
  BY <1>1, ConcatProperties, ConcatEmptySeq DEF InOrder, TypeOK
<1>4. InOrder'
  <2>1. added \o <<>> = added
    BY ConcatEmptySeq DEF TypeOK
  <2> QED BY <1>3, <2>1 DEF InOrder
<1>5. SwappedIsTaken' /\ RemainingIsLocal'
  BY <1>1, <1>3 DEF SwappedIsTaken, RemainingIsLocal, Draining
<1>6. JoinedFirst' /\ HandMatchesLabel' /\ NoRepeats(added)' /\ EachOnce'
  BY <1>1, EachOnceStays DEF JoinedFirst, HandMatchesLabel, NoRepeats, TypeOK, At, Draining, Executors
<1> QED BY <1>2, <1>4, <1>5, <1>6

\* The invariant behind the theorems below holds throughout.
THEOREM Invariance == Spec => []IInv
<1>1. IInv /\ [Next]_vars => IInv'
  <2> SUFFICES ASSUME IInv, [Next]_vars PROVE IInv'
    OBVIOUS
  <2> USE WriterAssumption
  <2>1. CASE UNCHANGED vars
    <3>1. UNCHANGED <<task, db, taken>>
      BY <2>1 DEF vars, db
    <3> QED BY <2>1, <3>1, EachOnceStays DEF IInv, vars, TypeOK, HandMatchesLabel, RemainingIsLocal,
          JoinedFirst, SwappedIsTaken, NoRepeats, InOrder, At
  <2>2. CASE \E t \in Tasks : AddTask(t)
    BY <2>2, AddTaskKeeps
  <2>3. ASSUME NEW w \in Workers, Execute(w) PROVE IInv'
    <3>1. pc[w] = "write" /\ pc' = [pc EXCEPT ![w] = "commit"] /\ notifies' \in Nat
      BY <2>3 DEF Execute, Goto, IInv, TypeOK
    <3> QED BY <2>3, <3>1, WorkerMoveKeeps DEF Execute, WorkerLabels
  <2>4. ASSUME NEW e \in Executors, GiveUp(e) \/ Commit(e) \/ CommitFails(e) PROVE IInv'
    BY <2>4, SettleKeeps DEF GiveUp, Commit, CommitFails, Goto
  <2>5. ASSUME NEW w \in Workers,
               TestRunning(w) \/ Block(w) \/ FindNothing(w) \/ TimeOut(w) \/ StartWorker(w)
        PROVE  IInv'
    <3>1. PICK to \in Idle : pc' = [pc EXCEPT ![w] = to]
      BY <2>5 DEF TestRunning, Block, FindNothing, TimeOut, StartWorker, Goto, Idle
    <3>2. pc[w] \notin {"write", "commit", "exited"} /\ notifies' \in Nat
      BY <2>5 DEF TestRunning, Block, FindNothing, TimeOut, StartWorker, Goto, Awake, IInv, TypeOK
    <3>3. UNCHANGED <<taskQueue, running, task, remaining, db, history>>
      BY <2>5 DEF TestRunning, Block, FindNothing, TimeOut, StartWorker
    <3> QED BY <3>1, <3>2, <3>3, WorkerMoveKeeps DEF Idle, WorkerLabels
  <2>6. CASE NotifyOne
    <3>1. notifies' \in Nat /\ UNCHANGED <<taskQueue, running, task, remaining, db, history>>
      BY <2>6 DEF NotifyOne, IInv, TypeOK
    <3>2. CASE At("waiting") = {}
      <4>1. UNCHANGED pc
        BY <2>6, <3>2 DEF NotifyOne
      <4> QED BY <3>1, <4>1, EachOnceStays DEF IInv, TypeOK, HandMatchesLabel, RemainingIsLocal,
            JoinedFirst, SwappedIsTaken, NoRepeats, InOrder, At, db, history
    <3>3. CASE At("waiting") # {}
      <4>1. PICK w \in At("waiting") : Goto(w, "waiting", "lock")
        BY <2>6, <3>3 DEF NotifyOne
      <4>2. w \in Workers
        BY DEF At, Executors, IInv, TypeOK, MainLabels
      <4> QED BY <3>1, <4>1, <4>2, WorkerMoveKeeps DEF Goto, WorkerLabels
    <3> QED BY <3>2, <3>3
  <2>7. CASE \E w \in Workers : Worker(w) \/ TimeOut(w) \/ StartWorker(w)
    BY <2>3, <2>4, <2>5, <2>7, PopKeeps DEF Worker, Write, Executors
  <2>8. CASE StartReturns \/ Shutdown \/ Closing
    <3>1. Main \in Executors
      BY DEF Executors
    <3> QED BY <2>4, <2>8, <3>1, MainMoveKeeps, SwapKeeps, DrainKeeps DEF Closing, Write
  <2> QED BY <2>1, <2>2, <2>6, <2>7, <2>8 DEF Next
<1> QED BY <1>1, InitIInv, PTL DEF Spec

-----------------------------------------------------------------------------
(* Theorems *)

\* Type correctness of the writer.
THEOREM TypeCorrect == Spec => []TypeOK
BY Invariance, PTL DEF IInv

\* Log lines leave the writer in the order addTask pushed them, across
\* workers, shutdown's swap and its drain.
THEOREM KeepsOrder == Spec => []InOrder
BY Invariance, PTL DEF IInv

\* A log line is in one hand at a time and becomes at most one row, and none
\* when executeWrite reported a failure.
THEOREM AtMostOneRow == Spec => []EachOnce
BY Invariance, PTL DEF IInv

\* A shutdown that has returned has dealt with every line pushed before it
\* emptied the queue, and left no worker running.
THEOREM ShutdownIsComplete == Spec => []ShutdownDrains
<1>1. IInv => ShutdownDrains
  <2> SUFFICES ASSUME IInv, pc[Main] = "down"
               PROVE  (\A i \in 1..swapped : added[i] \in Settled) /\ At("exited") = Workers
    BY DEF ShutdownDrains
  <2> USE DEF IInv
  <2>1. At("exited") = Workers /\ remaining = <<>>
    BY DEF JoinedFirst, RemainingIsLocal, Draining
  <2>2. swapped = Len(taken) /\ Len(taken) \in Nat
    BY <2>1 DEF SwappedIsTaken, TypeOK
  <2>3. InHand = {}
    <3>1. \A e \in Executors : pc[e] \in {"down", "exited"}
      BY <2>1 DEF Executors, At
    <3> QED BY <3>1 DEF InHand, HandMatchesLabel
  <2>4. added = taken \o taskQueue
    BY <2>1, ConcatEmptySeq DEF InOrder, TypeOK
  <2>5. \A i \in 1..Len(taken) : added[i] = taken[i]
    BY <2>4 DEF TypeOK
  <2>6. \A i \in 1..Len(taken) : taken[i] \in Settled
    BY <2>3 DEF EachOnce, Elems
  <2> QED BY <2>1, <2>2, <2>5, <2>6
<1> QED BY <1>1, Invariance, PTL
=============================================================================
