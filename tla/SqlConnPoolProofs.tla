------------------------- MODULE SqlConnPoolProofs -------------------------
(***************************************************************************)
(* Theorems about SqlConnPool, for any threads, handles, pool size and     *)
(* nesting depth.                                                          *)
(***************************************************************************)
EXTENDS SqlConnPool, FiniteSetTheorems, TLAPS

\* Outside the "ready" phase nobody is past the look at the queue.
Dormant ==
  phase # "ready" => At("wait") = {} /\ At("take") = {} /\ InUse = {} /\ raced = {}

\* There is no connection before init and after destroyPool.
DownIsEmpty ==
  phase = "down" \/ (phase = "connecting" /\ attempts = 0) => connQueue = <<>>

\* init runs alone.
ConnectsAlone == phase = "connecting" => At("peek") = {}

Injective(q) == \A i, j \in 1..Len(q) : q[i] = q[j] => i = j

\* A connection is in one place: once in the queue or with one thread.
OnePlace ==
  /\ Injective(connQueue)
  /\ Queued \cap InUse = {}
  /\ \A t, u \in Threads : t # u => held[t] \cap held[u] = {}

\* The inductive invariant.
IInv ==
  /\ TypeOK
  /\ Dormant /\ DownIsEmpty /\ ConnectsAlone
  /\ SemaphoreCounts
  /\ OnePlace
  /\ NoWaitCycle

-----------------------------------------------------------------------------
(* Lemmas *)

\* A thread that moves leaves one label and joins another.
LEMMA GotoMoves ==
  ASSUME pc \in [Threads -> {"idle", "peek", "wait", "take"}],
         NEW t \in Threads, NEW from, NEW to, from # to,
         to \in {"idle", "peek", "wait", "take"},
         Goto(t, from, to)
  PROVE  /\ pc' \in [Threads -> {"idle", "peek", "wait", "take"}]
         /\ At(from)' = At(from) \ {t}
         /\ At(to)' = At(to) \cup {t}
         /\ t \in At(from)
         /\ t \notin At(to)
         /\ \A label : label \notin {from, to} => At(label)' = At(label)
BY DEF Goto, At

LEMMA AtFinite == ASSUME NEW label PROVE IsFiniteSet(At(label)) /\ Cardinality(At(label)) \in Nat
<1>1. At(label) \subseteq Threads
  BY DEF At
<1> QED BY <1>1, PoolAssumption, FS_Subset, FS_CardinalityType

\* Appending a connection that is in no other place.
LEMMA AppendKeeps ==
  ASSUME NEW S, NEW q \in Seq(S), NEW c \in S,
         Injective(q), \A i \in 1..Len(q) : q[i] # c
  PROVE  /\ Append(q, c) \in Seq(S)
         /\ Append(q, c) # <<>>
         /\ Len(Append(q, c)) = Len(q) + 1
         /\ Injective(Append(q, c))
         /\ {Append(q, c)[i] : i \in 1..Len(Append(q, c))} = {q[i] : i \in 1..Len(q)} \cup {c}
<1>1. /\ Append(q, c) \in Seq(S) /\ Len(Append(q, c)) = Len(q) + 1 /\ Len(q) \in Nat
      /\ \A i \in 1..Len(q) : Append(q, c)[i] = q[i]
      /\ Append(q, c)[Len(q) + 1] = c
  OBVIOUS
<1>2. 1..(Len(q) + 1) = 1..Len(q) \cup {Len(q) + 1} /\ Len(q) + 1 \notin 1..Len(q)
  BY <1>1
<1>3. Injective(Append(q, c))
  BY <1>1, <1>2 DEF Injective
<1>4. {Append(q, c)[i] : i \in 1..Len(Append(q, c))} = {q[i] : i \in 1..Len(q)} \cup {c}
  BY <1>1, <1>2
<1> QED BY <1>1, <1>3, <1>4

\* Popping the front of a queue without repetitions.
LEMMA TailKeeps ==
  ASSUME NEW S, NEW q \in Seq(S), q # <<>>, Injective(q)
  PROVE  /\ Tail(q) \in Seq(S)
         /\ Head(q) \in S
         /\ Len(Tail(q)) = Len(q) - 1
         /\ Injective(Tail(q))
         /\ Head(q) \in {q[i] : i \in 1..Len(q)}
         /\ {Tail(q)[i] : i \in 1..Len(Tail(q))} = {q[i] : i \in 1..Len(q)} \ {Head(q)}
<1>1. /\ Tail(q) \in Seq(S) /\ Head(q) = q[1] /\ Len(q) \in Nat /\ Len(q) > 0
      /\ Len(Tail(q)) = Len(q) - 1
      /\ \A i \in 1..(Len(q) - 1) : Tail(q)[i] = q[i + 1]
  OBVIOUS
<1>2. Injective(Tail(q))
  BY <1>1 DEF Injective
<1>3. ASSUME NEW x \in {Tail(q)[i] : i \in 1..Len(Tail(q))}
      PROVE  x \in {q[i] : i \in 1..Len(q)} /\ x # Head(q)
  <2>1. PICK i \in 1..(Len(q) - 1) : x = Tail(q)[i]
    BY <1>1
  <2>2. x = q[i + 1] /\ i + 1 \in 1..Len(q) /\ i + 1 # 1 /\ 1 \in 1..Len(q)
    BY <1>1, <2>1
  <2> QED BY <1>1, <2>2 DEF Injective
<1>4. ASSUME NEW x \in {q[i] : i \in 1..Len(q)}, x # Head(q)
      PROVE  x \in {Tail(q)[i] : i \in 1..Len(Tail(q))}
  <2>1. PICK i \in 1..Len(q) : x = q[i]
    OBVIOUS
  <2>2. i - 1 \in 1..Len(Tail(q)) /\ Tail(q)[i - 1] = q[(i - 1) + 1]
    BY <1>1, <1>4, <2>1
  <2>3. Tail(q)[i - 1] = x
    BY <2>1, <2>2, <1>1
  <2> QED BY <2>2, <2>3
<1>5. Head(q) \in S /\ Head(q) \in {q[i] : i \in 1..Len(q)}
  BY <1>1
<1> QED BY <1>1, <1>2, <1>3, <1>4, <1>5

-----------------------------------------------------------------------------
(* The invariant is inductive *)

LEMMA InitIInv == Init => IInv
<1> SUFFICES ASSUME Init PROVE IInv
  OBVIOUS
<1>1. TypeOK
  BY PoolAssumption DEF Init, TypeOK, At
<1>2. At("take") = {} /\ At("wait") = {} /\ At("peek") = {} /\ InUse = {} /\ Queued = {}
  BY DEF Init, At, InUse, Queued
<1> QED BY <1>1, <1>2 DEF Init, IInv, Dormant, DownIsEmpty, ConnectsAlone, SemaphoreCounts,
      OnePlace, Injective, NoWaitCycle

\* init and destroyPool, with the pool quiet.
LEMMA InitStepsKeep ==
  ASSUME IInv,
         InitBegin \/ InitGivesUp \/ InitConnectFails \/ InitReturns \/ DestroyPool
           \/ \E c \in Conns : InitConnect(c)
  PROVE  IInv'
<1> USE DEF IInv
<1>1. At("peek")' = At("peek") /\ At("take")' = At("take") /\ At("wait")' = At("wait")
      /\ At("idle")' = At("idle") /\ InUse' = InUse /\ UNCHANGED <<pc, held, raced>>
  BY DEF InitBegin, InitGivesUp, InitConnectFails, InitReturns, DestroyPool, InitConnect, At, InUse
<1>2. At("wait") = {} /\ At("take") = {} /\ InUse = {} /\ raced = {} 
  <2>1. CASE phase = "ready"
    <3>1. Quiet
      BY <2>1 DEF InitBegin, InitGivesUp, InitConnectFails, InitReturns, DestroyPool, InitConnect
    <3> QED BY <3>1 DEF Quiet, At, TypeOK
  <2> QED BY <2>1 DEF Dormant
<1>3. CASE InitBegin
  <2>1. At("peek") = {}
    BY <1>3 DEF InitBegin, Quiet, At
  <2> QED BY <1>1, <1>2, <1>3, <2>1, PoolAssumption DEF InitBegin, TypeOK, Dormant, DownIsEmpty,
        ConnectsAlone, SemaphoreCounts, OnePlace, NoWaitCycle, Queued, Injective
<1>4. CASE InitGivesUp
  BY <1>1, <1>2, <1>4 DEF InitGivesUp, TypeOK, Dormant, DownIsEmpty,
     ConnectsAlone, SemaphoreCounts, OnePlace, NoWaitCycle, Queued, Injective
<1>5. CASE InitConnectFails
  BY <1>1, <1>2, <1>5, PoolAssumption DEF InitConnectFails, TypeOK, Dormant, DownIsEmpty,
     ConnectsAlone, SemaphoreCounts, OnePlace, NoWaitCycle, Queued, Injective
<1>6. CASE InitReturns
  <2>1. Len(connQueue) \in Nat /\ (Len(connQueue) > 0 => connQueue # <<>>)
    BY DEF TypeOK
  <2>2. TypeOK' /\ OnePlace' /\ NoWaitCycle'
    BY <1>1, <1>2, <1>6, <2>1 DEF InitReturns, TypeOK, OnePlace, NoWaitCycle, Queued, Injective
  <2>3. SemaphoreCounts'
    <3>1. At("take")' = {} /\ semID' = Len(connQueue) /\ connQueue' = connQueue
      BY <1>1, <1>2, <1>6 DEF InitReturns
    <3>2. Cardinality(At("take")') = 0
      BY <3>1, FS_EmptySet
    <3> QED BY <2>1, <3>1, <3>2 DEF SemaphoreCounts
  <2> QED BY <1>1, <1>2, <1>6, <2>2, <2>3 DEF InitReturns, Dormant, DownIsEmpty, ConnectsAlone
<1>7. CASE DestroyPool
  BY <1>1, <1>2, <1>7 DEF DestroyPool, TypeOK, Dormant, DownIsEmpty,
     ConnectsAlone, SemaphoreCounts, OnePlace, NoWaitCycle, Queued, Injective
<1>8. CASE \E c \in Conns : InitConnect(c)
  <2>1. PICK c \in Conns : InitConnect(c)
    BY <1>8
  <2>2. /\ connQueue \in Seq(Conns) /\ Injective(connQueue)
        /\ \A i \in 1..Len(connQueue) : connQueue[i] # c
        /\ connQueue' = Append(connQueue, c)
    BY <2>1 DEF InitConnect, TypeOK, OnePlace, Queued
  <2>3. connQueue' \in Seq(Conns) /\ Injective(connQueue')
    BY <2>2, AppendKeeps
  <2>4. attempts' \in 0..ConnSize /\ attempts' # 0
    BY <2>1, PoolAssumption DEF InitConnect, TypeOK
  <2> QED BY <1>1, <1>2, <2>1, <2>3, <2>4 DEF InitConnect, TypeOK, Dormant, DownIsEmpty,
     ConnectsAlone, SemaphoreCounts, OnePlace, NoWaitCycle, Queued, Injective
<1> QED BY <1>3, <1>4, <1>5, <1>6, <1>7, <1>8

\* getConnection up to sem_wait: the queue and the holders stay as they are.
LEMMA LookKeeps ==
  ASSUME IInv, NEW t \in Threads,
         GetConnection(t) \/ SeesEmpty(t) \/ SeesConnection(t) \/ SemWait(t)
  PROVE  IInv'
<1> USE DEF IInv
<1>1. /\ pc \in [Threads -> {"idle", "peek", "wait", "take"}]
      /\ UNCHANGED <<phase, attempts, connQueue, maxConn, held>>
      /\ InUse' = InUse /\ Queued' = Queued
  BY DEF GetConnection, SeesEmpty, SeesConnection, SemWait, TypeOK, InUse, Queued
<1>2. OnePlace' /\ DownIsEmpty'
  BY <1>1 DEF OnePlace, DownIsEmpty, Injective
<1>3. CASE GetConnection(t)
  <2>1. /\ At("idle")' = At("idle") \ {t} /\ At("peek")' = At("peek") \cup {t}
        /\ At("take")' = At("take") /\ At("wait")' = At("wait") /\ t \notin At("peek")
        /\ pc' \in [Threads -> {"idle", "peek", "wait", "take"}]
    BY <1>1, <1>3, GotoMoves DEF GetConnection
  <2>2. TypeOK' /\ t \notin raced
    BY <1>1, <1>3, <2>1 DEF TypeOK, GetConnection
  <2>3. NoWaitCycle'
    BY <1>1, <1>3, <2>1, <2>2 DEF GetConnection, NoWaitCycle
  <2> QED BY <1>1, <1>2, <1>3, <2>1, <2>2, <2>3 DEF GetConnection, Dormant, ConnectsAlone, SemaphoreCounts
<1>4. CASE SeesEmpty(t)
  <2>1. /\ At("peek")' = At("peek") \ {t} /\ At("idle")' = At("idle") \cup {t}
        /\ At("take")' = At("take") /\ At("wait")' = At("wait")
        /\ pc' \in [Threads -> {"idle", "peek", "wait", "take"}]
    BY <1>1, <1>4, GotoMoves DEF SeesEmpty
  <2>2. TypeOK'
    BY <1>1, <1>4, <2>1 DEF TypeOK, SeesEmpty
  <2>3. NoWaitCycle'
    BY <1>1, <1>4, <2>1 DEF SeesEmpty, NoWaitCycle
  <2> QED BY <1>1, <1>2, <1>4, <2>1, <2>2, <2>3 DEF SeesEmpty, Dormant, ConnectsAlone, SemaphoreCounts
<1>5. CASE SeesConnection(t)
  <2>1. /\ At("peek")' = At("peek") \ {t} /\ At("wait")' = At("wait") \cup {t}
        /\ At("take")' = At("take") /\ At("idle")' = At("idle") /\ t \in At("peek")
        /\ pc' \in [Threads -> {"idle", "peek", "wait", "take"}]
    BY <1>1, <1>5, GotoMoves DEF SeesConnection
  <2>2. TypeOK'
    BY <1>1, <1>5, <2>1 DEF TypeOK, SeesConnection
  <2>3. phase = "ready"
    BY <1>5, <2>1 DEF SeesConnection, Dormant, DownIsEmpty, ConnectsAlone, TypeOK
  <2>4. NoWaitCycle'
    BY <1>1, <1>5, <2>1 DEF SeesConnection, NoWaitCycle
  <2> QED BY <1>1, <1>2, <1>5, <2>1, <2>2, <2>3, <2>4 DEF SeesConnection, Dormant, ConnectsAlone, SemaphoreCounts
<1>6. CASE SemWait(t)
  <2>1. /\ At("wait")' = At("wait") \ {t} /\ At("take")' = At("take") \cup {t}
        /\ At("peek")' = At("peek") /\ At("idle")' = At("idle")
        /\ t \in At("wait") /\ t \notin At("take")
        /\ pc' \in [Threads -> {"idle", "peek", "wait", "take"}]
    BY <1>1, <1>6, GotoMoves DEF SemWait
  <2>2. TypeOK' /\ semID \in Nat /\ semID' = semID - 1
    BY <1>1, <1>6, <2>1 DEF TypeOK, SemWait
  <2>3. phase = "ready"
    BY <2>1 DEF Dormant
  <2>4. Cardinality(At("take")') = Cardinality(At("take")) + 1 /\ Cardinality(At("take")) \in Nat
    BY <2>1, AtFinite, FS_AddElement
  <2>5. SemaphoreCounts'
    BY <1>1, <2>2, <2>4 DEF SemaphoreCounts
  <2>6. NoWaitCycle'
    BY <1>1, <1>6, <2>1 DEF SemWait, NoWaitCycle
  <2> QED BY <1>1, <1>2, <1>6, <2>1, <2>2, <2>3, <2>5, <2>6 DEF SemWait, Dormant, ConnectsAlone
<1> QED BY <1>3, <1>4, <1>5, <1>6

\* A thread between sem_wait and pop finds a connection.
LEMMA IInvFrontIsThere == IInv => FrontIsThere
<1> SUFFICES ASSUME IInv, NEW t \in At("take") PROVE connQueue # <<>>
  BY DEF FrontIsThere
<1>1. phase = "ready" /\ semID \in Nat
  BY DEF IInv, Dormant, TypeOK
<1>2. Cardinality(At("take")) # 0 /\ Cardinality(At("take")) \in Nat
  BY AtFinite, FS_EmptySet
<1>3. Len(connQueue) # 0
  BY <1>1, <1>2 DEF IInv, SemaphoreCounts
<1> QED BY <1>3

LEMMA TakeKeeps == ASSUME IInv, NEW t \in Threads, Take(t) PROVE IInv'
<1> USE DEF IInv
<1>1. /\ At("take")' = At("take") \ {t} /\ At("idle")' = At("idle") \cup {t}
      /\ At("peek")' = At("peek") /\ At("wait")' = At("wait")
      /\ t \in At("take") /\ t \notin At("idle")
      /\ pc' \in [Threads -> {"idle", "peek", "wait", "take"}]
  BY GotoMoves DEF Take, TypeOK
<1>2. phase = "ready" /\ connQueue # <<>>
  BY <1>1, IInvFrontIsThere DEF Dormant, FrontIsThere
<1> DEFINE c == Head(connQueue)
<1>3. held' = [held EXCEPT ![t] = @ \cup {c}] /\ connQueue' = Tail(connQueue)
  BY <1>2 DEF Take, Front
<1>4. /\ connQueue' \in Seq(Conns) /\ c \in Conns /\ c \in Queued
      /\ Len(connQueue') = Len(connQueue) - 1 /\ Injective(connQueue')
      /\ Queued' = Queued \ {c}
  <2>1. connQueue \in Seq(Conns) /\ Injective(connQueue)
    BY DEF TypeOK, OnePlace
  <2>2. /\ Tail(connQueue) \in Seq(Conns) /\ Head(connQueue) \in Conns
        /\ Len(Tail(connQueue)) = Len(connQueue) - 1 /\ Injective(Tail(connQueue))
        /\ Head(connQueue) \in Queued
        /\ {Tail(connQueue)[i] : i \in 1..Len(Tail(connQueue))} = Queued \ {Head(connQueue)}
    BY <1>2, <2>1, TailKeeps DEF Queued
  <2>3. Queued' = {connQueue'[i] : i \in 1..Len(connQueue')}
    BY DEF Queued
  <2> QED BY <1>3, <2>2, <2>3
<1>5. held' \in [Threads -> SUBSET Conns] /\ InUse' = InUse \cup {c}
  BY <1>3, <1>4 DEF TypeOK, InUse
<1>6. \A u \in Threads : c \notin held[u]
  BY <1>4 DEF OnePlace, InUse
<1>7. OnePlace'
  <2>1. \A u, v \in Threads : u # v => held'[u] \cap held'[v] = {}
    BY <1>3, <1>6 DEF OnePlace, TypeOK
  <2> QED BY <1>4, <1>5, <2>1 DEF OnePlace
<1>8. TypeOK'
  BY <1>1, <1>4, <1>5 DEF Take, TypeOK, Overlapped
<1>9. SemaphoreCounts'
  <2>1. Cardinality(At("take")') = Cardinality(At("take")) - 1 /\ Cardinality(At("take")) \in Nat
    BY <1>1, AtFinite, FS_RemoveElement
  <2>2. Len(connQueue) \in Nat /\ semID \in Nat
    BY DEF TypeOK
  <2> QED BY <1>4, <2>1, <2>2 DEF Take, SemaphoreCounts
<1>10. NoWaitCycle'
  <2>1. t \in (At("idle")' \cup At("peek")') \ raced'
    BY <1>1 DEF Take, Overlapped, TypeOK, At
  <2>2. held'[t] # {}
    BY <1>3 DEF TypeOK
  <2> QED BY <2>1, <2>2 DEF NoWaitCycle, At
<1> QED BY <1>1, <1>2, <1>7, <1>8, <1>9, <1>10 DEF Take, Dormant, DownIsEmpty, ConnectsAlone

LEMMA ReleaseKeeps == ASSUME IInv, NEW t \in Threads, ReleaseConnection(t) PROVE IInv'
<1> USE DEF IInv
<1>1. PICK c \in held[t] : /\ held' = [held EXCEPT ![t] = @ \ {c}]
                          /\ connQueue' = Append(connQueue, c)
  BY DEF ReleaseConnection
<1>2. phase = "ready" /\ c \in Conns /\ c \in InUse /\ c \notin Queued
  BY <1>1 DEF Dormant, InUse, OnePlace, TypeOK
<1>3. /\ connQueue' \in Seq(Conns) /\ connQueue' # <<>> /\ Injective(connQueue')
      /\ Len(connQueue') = Len(connQueue) + 1 /\ Queued' = Queued \cup {c}
  BY <1>1, <1>2, AppendKeeps DEF TypeOK, OnePlace, Queued
<1>4. \A u \in Threads : u # t => c \notin held[u]
  BY <1>1 DEF OnePlace
<1>5. held' \in [Threads -> SUBSET Conns] /\ InUse' = InUse \ {c}
  BY <1>1, <1>4 DEF TypeOK, InUse
<1>6. \A label : At(label)' = At(label)
  BY DEF ReleaseConnection, At
<1>7. OnePlace'
  <2>1. \A u, v \in Threads : u # v => held'[u] \cap held'[v] = {}
    BY <1>1 DEF OnePlace, TypeOK
  <2> QED BY <1>3, <1>5, <2>1 DEF OnePlace
<1>8. TypeOK'
  BY <1>3, <1>5, <1>6 DEF ReleaseConnection, TypeOK, Overlapped
<1>9. SemaphoreCounts'
  <2>1. Len(connQueue) \in Nat /\ semID \in Nat /\ Cardinality(At("take")) \in Nat
    BY AtFinite DEF TypeOK
  <2>2. At("take")' = At("take") /\ semID' = semID + 1 /\ phase' = phase
    BY <1>6 DEF ReleaseConnection
  <2> QED BY <1>3, <2>1, <2>2 DEF SemaphoreCounts
<1>10. NoWaitCycle'
  BY <1>3 DEF NoWaitCycle
<1> QED BY <1>2, <1>6, <1>7, <1>8, <1>9, <1>10 DEF ReleaseConnection, Dormant, DownIsEmpty, ConnectsAlone

\* The invariant behind the theorems below holds throughout.
THEOREM Invariance == Spec => []IInv
<1>1. IInv /\ [Next]_vars => IInv'
  <2> SUFFICES ASSUME IInv, [Next]_vars PROVE IInv'
    OBVIOUS
  <2>1. CASE UNCHANGED vars
    BY <2>1 DEF IInv, vars, TypeOK, Dormant, DownIsEmpty, ConnectsAlone, SemaphoreCounts, OnePlace,
       NoWaitCycle, Injective, Queued, InUse, At
  <2>2. CASE \E t \in Threads : Step(t)
    BY <2>2, LookKeeps, TakeKeeps, ReleaseKeeps DEF Step
  <2> QED BY <2>1, <2>2, InitStepsKeep DEF Next
<1> QED BY <1>1, InitIInv, PTL DEF Spec
-----------------------------------------------------------------------------
(* Counting the connections *)

\* What init has opened so far is in the queue, each connection once; when it
\* returns, NoLeak takes over.
Counts ==
  /\ phase # "ready" => IsFiniteSet(Queued) /\ Cardinality(Queued) = Len(connQueue)
  /\ NoLeak

\* getConnection and releaseConnection only move a connection.
LEMMA StepMoves ==
  ASSUME IInv, NEW t \in Threads, Step(t)
  PROVE  Queued' \cup InUse' = Queued \cup InUse /\ UNCHANGED <<phase, maxConn>>
<1>1. connQueue \in Seq(Conns) /\ Injective(connQueue) /\ held \in [Threads -> SUBSET Conns]
  BY DEF IInv, TypeOK, OnePlace
<1>2. CASE Take(t)
  <2>1. connQueue # <<>>
    BY <1>2, IInvFrontIsThere DEF FrontIsThere, Take, Goto, At
  <2>2. held' = [held EXCEPT ![t] = @ \cup {Head(connQueue)}] /\ connQueue' = Tail(connQueue)
    BY <1>2, <2>1 DEF Take, Front
  <2>3. Head(connQueue) \in Queued /\ Queued' = Queued \ {Head(connQueue)}
    <3>1. /\ Head(connQueue) \in Queued
          /\ {Tail(connQueue)[i] : i \in 1..Len(Tail(connQueue))} = Queued \ {Head(connQueue)}
      BY <1>1, <2>1, TailKeeps DEF Queued
    <3>2. Queued' = {connQueue'[i] : i \in 1..Len(connQueue')}
      BY DEF Queued
    <3> QED BY <2>2, <3>1, <3>2
  <2>4. InUse' = InUse \cup {Head(connQueue)}
    BY <1>1, <2>2 DEF InUse
  <2> QED BY <1>2, <2>3, <2>4 DEF Take
<1>3. CASE ReleaseConnection(t)
  <2>1. PICK c \in held[t] : /\ held' = [held EXCEPT ![t] = @ \ {c}]
                             /\ connQueue' = Append(connQueue, c)
    BY <1>3 DEF ReleaseConnection
  <2>2. c \in Conns /\ c \in InUse /\ \A i \in 1..Len(connQueue) : connQueue[i] # c
    BY <1>1, <2>1 DEF IInv, OnePlace, Queued, InUse
  <2>3. Queued' = Queued \cup {c}
    BY <1>1, <2>1, <2>2, AppendKeeps DEF Queued
  <2>4. InUse' = InUse \ {c}
    <3>1. \A u \in Threads : u # t => c \notin held[u]
      BY <2>1 DEF IInv, OnePlace
    <3> QED BY <1>1, <2>1, <3>1 DEF InUse
  <2> QED BY <1>3, <2>2, <2>3, <2>4 DEF ReleaseConnection
<1>4. CASE GetConnection(t) \/ SeesEmpty(t) \/ SeesConnection(t) \/ SemWait(t)
  BY <1>4 DEF GetConnection, SeesEmpty, SeesConnection, SemWait, Queued, InUse
<1> QED BY <1>2, <1>3, <1>4 DEF Step

LEMMA CountsStep == IInv /\ Counts /\ [Next]_vars => Counts'
<1> SUFFICES ASSUME IInv, Counts, [Next]_vars PROVE Counts'
  OBVIOUS
<1>1. CASE UNCHANGED vars
  BY <1>1 DEF vars, Counts, NoLeak, Queued, InUse
<1>2. ASSUME NEW t \in Threads, Step(t) PROVE Counts'
  <2>1. CASE phase = "ready"
    <3>1. Queued' \cup InUse' = Queued \cup InUse /\ phase' = phase /\ maxConn' = maxConn
      BY <1>2, StepMoves
    <3> QED BY <2>1, <3>1 DEF Counts, NoLeak
  <2>2. CASE phase # "ready"
    <3>1. t \notin At("take") /\ held[t] = {}
      BY <2>2 DEF IInv, Dormant, InUse, At
    <3>2. connQueue' = connQueue /\ phase' = phase
      BY <1>2, <3>1 DEF Step, GetConnection, SeesEmpty, SeesConnection, SemWait, Take,
                        ReleaseConnection, Goto, At
    <3> QED BY <2>2, <3>2 DEF Counts, NoLeak, Queued
  <2> QED BY <2>1, <2>2
<1>3. CASE InitBegin \/ InitGivesUp \/ InitConnectFails
  <2>1. connQueue' = connQueue /\ phase # "ready" /\ phase' # "ready"
    BY <1>3 DEF InitBegin, InitGivesUp, InitConnectFails
  <2> QED BY <2>1 DEF Counts, NoLeak, Queued
<1>4. ASSUME NEW c \in Conns, InitConnect(c) PROVE Counts'
  <2>1. /\ connQueue \in Seq(Conns) /\ Injective(connQueue) /\ c \notin Queued
        /\ connQueue' = Append(connQueue, c) /\ phase = "connecting" /\ phase' = phase
    BY <1>4 DEF InitConnect, IInv, TypeOK, OnePlace
  <2>2. Queued' = Queued \cup {c} /\ Len(connQueue') = Len(connQueue) + 1
    BY <2>1, AppendKeeps DEF Queued
  <2>3. IsFiniteSet(Queued') /\ Cardinality(Queued') = Cardinality(Queued) + 1
    BY <2>1, <2>2, FS_AddElement DEF Counts
  <2> QED BY <2>1, <2>2, <2>3 DEF Counts, NoLeak
<1>5. CASE InitReturns
  <2>1. InUse' = {} /\ Queued' = Queued /\ maxConn' = Len(connQueue) /\ phase # "ready" /\ phase' = "ready"
    BY <1>5 DEF InitReturns, IInv, Dormant, Queued, InUse
  <2> QED BY <2>1 DEF Counts, NoLeak
<1>6. CASE DestroyPool
  <2>1. Queued' = {} /\ Len(connQueue') = 0 /\ phase' = "down"
    BY <1>6 DEF DestroyPool, Queued
  <2> QED BY <2>1, FS_EmptySet DEF Counts, NoLeak
<1> QED BY <1>1, <1>2, <1>3, <1>4, <1>5, <1>6 DEF Next

-----------------------------------------------------------------------------
(* Theorems *)

\* While a pool is up, every connection init has opened is in the queue or
\* with a thread (SqlConnPool.cpp:132-151): no path through getConnection and
\* releaseConnection loses one.
THEOREM NoneIsLost == Spec => []NoLeak
<1>1. Init => Counts
  <2> SUFFICES ASSUME Init PROVE Counts
    OBVIOUS
  <2>1. Queued = {} /\ Len(connQueue) = 0 /\ phase = "down"
    BY DEF Init, Queued
  <2> QED BY <2>1, FS_EmptySet DEF Counts, NoLeak
<1>2. Counts => NoLeak
  BY DEF Counts
<1> QED BY <1>1, <1>2, CountsStep, Invariance, PTL DEF Spec

\* Type correctness of the pool.
THEOREM TypeCorrect == Spec => []TypeOK
BY Invariance, PTL DEF IInv

\* _connQueue.front() in getConnection is never called on an empty queue, for
\* any number of threads and connections, although the emptiness test is made
\* outside the mutex and may be wrong.
THEOREM FrontAlwaysThere == Spec => []FrontIsThere
BY Invariance, IInvFrontIsThere, PTL

\* The semaphore and the queue of a pool that is up never disagree by more
\* than the threads between sem_wait and pop.
THEOREM SemaphoreAgrees == Spec => []SemaphoreCounts
BY Invariance, PTL DEF IInv

\* Threads that ask for a second connection while they hold one never all
\* wait for each other in sem_wait.
THEOREM NoDeadlock == Spec => []NoWaitCycle
BY Invariance, PTL DEF IInv

\* The pool implements the allocator: it lends a connection to one thread at
\* a time, gets it back from that thread only, and is closed when it has all.
THEOREM Refinement == Spec => LendsExclusively
<1>1. Init => Allocator!Init
  BY DEF Init, Allocator!Init, Queued
<1>2. IInv /\ [Next]_vars => [Allocator!Next]_Allocator!vars
  <2> SUFFICES ASSUME IInv, [Next]_vars PROVE [Allocator!Next]_Allocator!vars
    OBVIOUS
  <2> USE DEF Allocator!vars
  <2>1. connQueue \in Seq(Conns) /\ Injective(connQueue) /\ held \in [Threads -> SUBSET Conns]
    BY DEF IInv, TypeOK, OnePlace
  <2>2. CASE UNCHANGED <<connQueue, held>>
    BY <2>2 DEF Queued
  <2>3. ASSUME NEW c \in Conns, InitConnect(c) PROVE Allocator!Open(c)
    <3>1. Queued' = Queued \cup {c}
      <4>1. \A i \in 1..Len(connQueue) : connQueue[i] # c
        BY <2>3 DEF InitConnect, Queued
      <4>2. connQueue' = Append(connQueue, c)
        BY <2>3 DEF InitConnect
      <4> QED BY <2>1, <4>1, <4>2, AppendKeeps DEF Queued
    <3>2. InUse = {}
      BY <2>3 DEF InitConnect, IInv, Dormant
    <3> QED BY <2>3, <3>1, <3>2 DEF InitConnect, InUse, Allocator!Open, Allocator!Used
  <2>4. CASE DestroyPool
    <3>1. Queued' = {} /\ InUse = {} /\ UNCHANGED held
      BY <2>4 DEF DestroyPool, Queued, Quiet
    <3> QED BY <3>1 DEF Allocator!Next, Allocator!Close, Allocator!Used, InUse
  <2>5. ASSUME NEW t \in Threads, Take(t) PROVE Allocator!Lend(t, Head(connQueue)) /\ Head(connQueue) \in Conns
    <3>1. connQueue # <<>>
      BY <2>5, IInvFrontIsThere DEF FrontIsThere, Take, Goto, At
    <3>2. held' = [held EXCEPT ![t] = @ \cup {Head(connQueue)}] /\ connQueue' = Tail(connQueue)
      BY <2>5, <3>1 DEF Take, Front
    <3>3. /\ Head(connQueue) \in Conns /\ Head(connQueue) \in Queued
          /\ {Tail(connQueue)[i] : i \in 1..Len(Tail(connQueue))} = Queued \ {Head(connQueue)}
      BY <2>1, <3>1, TailKeeps DEF Queued
    <3>4. Queued' = {connQueue'[i] : i \in 1..Len(connQueue')}
      BY DEF Queued
    <3> QED BY <3>2, <3>3, <3>4 DEF Allocator!Lend
  <2>6. ASSUME NEW t \in Threads, ReleaseConnection(t)
        PROVE  \E c \in Conns : Allocator!GiveBack(t, c)
    <3>1. PICK c \in held[t] : /\ held' = [held EXCEPT ![t] = @ \ {c}]
                              /\ connQueue' = Append(connQueue, c)
      BY <2>6 DEF ReleaseConnection
    <3>2. c \in Conns /\ \A i \in 1..Len(connQueue) : connQueue[i] # c
      BY <2>1, <3>1 DEF IInv, OnePlace, Queued, InUse
    <3>3. Queued' = Queued \cup {c}
      BY <2>1, <3>1, <3>2, AppendKeeps DEF Queued
    <3> QED BY <3>1, <3>2, <3>3 DEF Allocator!GiveBack
  <2>7. CASE \E t \in Threads : Step(t)
    <3>1. PICK t \in Threads : Step(t)
      BY <2>7
    <3>2. Take(t) \/ ReleaseConnection(t) \/ UNCHANGED <<connQueue, held>>
      BY <3>1 DEF Step, GetConnection, SeesEmpty, SeesConnection, SemWait
    <3> QED BY <2>2, <2>5, <2>6, <3>2 DEF Allocator!Next
  <2>8. CASE InitBegin \/ InitGivesUp \/ InitConnectFails \/ InitReturns \/ UNCHANGED vars
    BY <2>2, <2>8 DEF InitBegin, InitGivesUp, InitConnectFails, InitReturns, vars
  <2>9. CASE \E c \in Conns : InitConnect(c)
    BY <2>3, <2>9 DEF Allocator!Next
  <2> QED BY <2>4, <2>7, <2>8, <2>9 DEF Next, Allocator!Next
<1> QED BY <1>1, <1>2, Invariance, PTL DEF Spec, LendsExclusively, Allocator!Spec
=============================================================================
