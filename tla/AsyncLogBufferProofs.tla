------------------------ MODULE AsyncLogBufferProofs ------------------------
(***************************************************************************)
(* Theorems about AsyncLogBuffer, for any buffer size and number of lines. *)
(***************************************************************************)
EXTENDS AsyncLogBuffer, SequenceTheorems, TLAPS

\* Where buffersToWrite, private to the flush thread, may hold lines.
WritesPrivately == buffersToWrite # <<>> => flusher \in {"open", "write", "lastWrite"}

\* The flush thread leaves its loop only for the destructor, which comes after
\* the last append, and it leaves no line behind.
LeavesLast ==
  /\ owner = "up" => running
  /\ flusher \in {"lastOpen", "lastWrite", "exited"} => owner # "up"
  /\ flusher \in {"lastWrite", "exited"} => fullBuffers = <<>> /\ currentBuffer = <<>>
  /\ owner = "gone" => flusher = "exited"

IInv == TypeOK /\ WritesPrivately /\ LeavesLast /\ NothingForgotten /\ Done \in Nat

-----------------------------------------------------------------------------
(* The sequences used as queues *)

\* Appending to the second part appends to the whole.
LEMMA AppendToConcat ==
  ASSUME NEW S, NEW p \in Seq(S), NEW q \in Seq(S), NEW x \in S
  PROVE  /\ p \o Append(q, x) \in Seq(S)
         /\ p \o Append(q, x) = Append(p \o q, x)
<1>1. p \o Append(q, x) \in Seq(S) /\ Append(p \o q, x) \in Seq(S)
  OBVIOUS
<1>2. Len(p \o Append(q, x)) = Len(Append(p \o q, x))
  OBVIOUS
<1>3. \A i \in 1..Len(p \o Append(q, x)) : (p \o Append(q, x))[i] = Append(p \o q, x)[i]
  OBVIOUS
<1> QED BY <1>1, <1>2, <1>3, SeqEqual

\* The elements of a sequence after Append.
LEMMA AppendElements ==
  ASSUME NEW S, NEW s \in Seq(S), NEW x \in S
  PROVE  /\ Append(s, x) \in Seq(S)
         /\ Elems(Append(s, x)) = Elems(s) \cup {x}
         /\ Len(Append(s, x)) = Len(s) + 1
         /\ \A i \in 1..Len(s) : Append(s, x)[i] = s[i]
<1>1. /\ Append(s, x) \in Seq(S) /\ Len(Append(s, x)) = Len(s) + 1 /\ Len(s) \in Nat
      /\ \A i \in 1..Len(s) : Append(s, x)[i] = s[i]
      /\ Append(s, x)[Len(s) + 1] = x
  OBVIOUS
<1>2. 1..(Len(s) + 1) = 1..Len(s) \cup {Len(s) + 1} /\ Len(s) + 1 \notin 1..Len(s)
  BY <1>1
<1>3. Elems(Append(s, x)) = Elems(s) \cup {x}
  BY <1>1, <1>2 DEF Elems
<1> QED BY <1>1, <1>3

-----------------------------------------------------------------------------
(* Lemmas *)

\* Pending is a sequence of numbers, as long as its three parts together.
LEMMA PendingType ==
  ASSUME TypeOK
  PROVE  /\ Pending \in Seq(Nat)
         /\ Len(Pending) = Len(buffersToWrite) + (Len(fullBuffers) + Len(currentBuffer))
         /\ Len(Pending) \in Nat /\ appended \in Nat /\ Done \in Int
<1>1. /\ buffersToWrite \in Seq(Nat) /\ fullBuffers \in Seq(Nat) /\ currentBuffer \in Seq(Nat)
      /\ appended \in Nat
  BY BufferAssumption DEF TypeOK
<1>2. fullBuffers \o currentBuffer \in Seq(Nat)
      /\ Len(fullBuffers \o currentBuffer) = Len(fullBuffers) + Len(currentBuffer)
  BY <1>1, ConcatProperties
<1>3. /\ Pending \in Seq(Nat)
      /\ Len(Pending) = Len(buffersToWrite) + (Len(fullBuffers) + Len(currentBuffer))
  BY <1>1, <1>2, ConcatProperties DEF Pending
<1>4. Len(Pending) \in Nat
  BY <1>3
<1> QED BY <1>1, <1>3, <1>4 DEF Done

\* A step that leaves the concatenation of the buffers, the count and the disk.
LEMMA SamePending ==
  ASSUME NothingForgotten, Pending' = Pending, UNCHANGED <<appended, file, lost>>
  PROVE  NothingForgotten'
BY DEF NothingForgotten, Done, Elems

\* The lines that leave the buffers first are the oldest pending ones.
LEMMA OldestFirst ==
  ASSUME IInv, buffersToWrite # <<>>
  PROVE  /\ Head(buffersToWrite) = Done + 1
         /\ Done + 1 <= appended
         /\ \A i \in 1..Len(Tail(buffersToWrite) \o (fullBuffers \o currentBuffer)) :
              (Tail(buffersToWrite) \o (fullBuffers \o currentBuffer))[i] = Pending[i + 1]
         /\ Len(Tail(buffersToWrite) \o (fullBuffers \o currentBuffer)) = Len(Pending) - 1
<1> DEFINE r == fullBuffers \o currentBuffer
<1>1. buffersToWrite \in Seq(Nat) /\ r \in Seq(Nat) /\ Pending = buffersToWrite \o r
  BY ConcatProperties DEF IInv, TypeOK, Pending
<1> HIDE DEF r
<1>2. /\ Len(Pending) \in Nat /\ Len(Pending) > 0 /\ Pending[1] = Head(buffersToWrite)
      /\ Len(Tail(buffersToWrite) \o r) = Len(Pending) - 1
      /\ \A i \in 1..Len(Tail(buffersToWrite) \o r) : (Tail(buffersToWrite) \o r)[i] = Pending[i + 1]
  BY <1>1
<1>3. Pending[1] = Done + 1
  BY <1>2 DEF IInv, NothingForgotten
<1>4. Done + 1 <= appended
  BY <1>2, PendingType DEF Done, IInv
<1> QED BY <1>2, <1>3, <1>4 DEF r

\* Adding the oldest pending line to the finished ones.
LEMMA OneMoreDone ==
  ASSUME IInv, NextLine, WriteLine \/ WriteFails
  PROVE  NothingForgotten' /\ Done' = Done + 1
<1>1. buffersToWrite # <<>> /\ appended' = appended
      /\ Pending' = Tail(buffersToWrite) \o (fullBuffers \o currentBuffer)
  BY DEF NextLine, Pending
<1>2. Done' = Done + 1
  <2>1. Len(Pending') = Len(Pending) - 1 /\ Len(Pending) \in Nat /\ appended \in Nat
    BY <1>1, OldestFirst, PendingType DEF IInv
  <2>2. Done = appended - Len(Pending) /\ Done' = appended' - Len(Pending')
    BY DEF Done
  <2>3. appended' = appended
    BY <1>1
  <2> QED BY <2>1, <2>2, <2>3
<1>3. \A i \in 1..Len(Pending') : Pending'[i] = Done' + i
  <2> TAKE i \in 1..Len(Pending')
  <2> DEFINE r == Tail(buffersToWrite) \o (fullBuffers \o currentBuffer)
  <2>0. Pending' = r /\ \A k \in 1..Len(r) : r[k] = Pending[k + 1]
    BY <1>1, OldestFirst
  <2> HIDE DEF r
  <2>1. Len(Pending') = Len(Pending) - 1 /\ Len(Pending) \in Nat
    BY <1>1, OldestFirst, PendingType DEF IInv
  <2>2. i + 1 \in 1..Len(Pending) /\ Pending'[i] = Pending[i + 1]
    BY <2>0, <2>1
  <2>3. Pending[i + 1] = Done + (i + 1)
    BY <2>2 DEF IInv, NothingForgotten
  <2> QED BY <1>2, <2>2, <2>3 DEF IInv
<1>4. Elems(file') \cup lost' = (Elems(file) \cup lost) \cup {Done + 1}
      /\ Elems(file') \cap lost' = {}
  <2>1. Head(buffersToWrite) = Done + 1 /\ Done + 1 \in Nat
    BY <1>1, OldestFirst DEF IInv
  <2>2. Done + 1 \notin Elems(file) \cup lost
    BY DEF IInv, NothingForgotten
  <2>3. CASE WriteLine
    <3>1. Elems(file') = Elems(file) \cup {Done + 1}
      <4>1. file \in Seq(Nat) /\ file' = Append(file, Done + 1)
        BY <2>1, <2>3 DEF WriteLine, IInv, TypeOK
      <4> QED BY <2>1, <4>1, AppendElements
    <3> QED BY <2>2, <2>3, <3>1 DEF WriteLine, IInv, NothingForgotten
  <2>4. CASE WriteFails
    BY <2>1, <2>2, <2>4 DEF WriteFails, IInv, NothingForgotten
  <2> QED BY <2>3, <2>4
<1>5. (Elems(file) \cup lost) \cup {Done + 1} = 1..Done'
  BY <1>2 DEF IInv, NothingForgotten
<1>6. Elems(file)' = Elems(file')
  BY DEF Elems
<1> QED BY <1>2, <1>3, <1>4, <1>5, <1>6 DEF NothingForgotten

\* The first k pending lines are given up; the rest stays pending.
LEMMA GivenUp ==
  ASSUME IInv, NEW p \in Seq(Nat), NEW q \in Seq(Nat),
         Pending = p \o q, Pending' = q,
         lost' = lost \cup Elems(p), UNCHANGED <<appended, file>>
  PROVE  NothingForgotten' /\ Done' \in Nat
<1>1. /\ Len(p) \in Nat /\ Len(q) \in Nat /\ Len(Pending) = Len(p) + Len(q)
      /\ \A i \in 1..Len(p) : Pending[i] = p[i]
      /\ \A i \in 1..Len(q) : Pending[Len(p) + i] = q[i]
  OBVIOUS
<1>2. Done \in Nat /\ appended \in Nat /\ Done = appended - Len(Pending)
  BY PendingType DEF IInv, Done
<1>3. Done' = Done + Len(p)
  BY <1>1, <1>2 DEF Done
<1>4. \A i \in 1..Len(q) : q[i] = Done' + i
  <2> TAKE i \in 1..Len(q)
  <2>1. Len(p) + i \in 1..Len(Pending)
    BY <1>1
  <2>2. Pending[Len(p) + i] = Done + (Len(p) + i)
    BY <2>1 DEF IInv, NothingForgotten
  <2> QED BY <1>1, <1>2, <1>3, <2>2
<1>5. Elems(p) = (Done + 1)..(Done + Len(p))
  <2>1. \A i \in 1..Len(p) : p[i] = Done + i
    <3> TAKE i \in 1..Len(p)
    <3>1. i \in 1..Len(Pending)
      BY <1>1
    <3> QED BY <1>1, <3>1 DEF IInv, NothingForgotten
  <2>2. \A n \in (Done + 1)..(Done + Len(p)) : n - Done \in 1..Len(p) /\ Done + (n - Done) = n
    BY <1>1, <1>2
  <2>3. \A i \in 1..Len(p) : Done + i \in (Done + 1)..(Done + Len(p))
    BY <1>1, <1>2
  <2>4. ASSUME NEW n \in (Done + 1)..(Done + Len(p)) PROVE n \in Elems(p)
    <3>1. n - Done \in 1..Len(p) /\ p[n - Done] = n
      BY <2>1, <2>2
    <3> QED BY <3>1 DEF Elems
  <2>5. Elems(p) \subseteq (Done + 1)..(Done + Len(p))
    BY <2>1, <2>3 DEF Elems
  <2> QED BY <2>4, <2>5
<1>6. Elems(file) \cup lost = 1..Done /\ Elems(file) \cap lost = {}
  BY DEF IInv, NothingForgotten
<1>7. Elems(file) \cup lost' = 1..Done' /\ Elems(file) \cap lost' = {}
  BY <1>1, <1>2, <1>3, <1>5, <1>6
<1>8. Elems(file)' = Elems(file)
  BY DEF Elems
<1> QED BY <1>1, <1>2, <1>3, <1>4, <1>7, <1>8 DEF NothingForgotten

-----------------------------------------------------------------------------
(* The invariant is inductive *)

LEMMA InitIInv == Init => IInv
<1> SUFFICES ASSUME Init PROVE IInv
  OBVIOUS
<1>1. TypeOK /\ WritesPrivately /\ LeavesLast
  BY BufferAssumption DEF Init, TypeOK, WritesPrivately, LeavesLast
<1>2. Pending = <<>>
  BY ConcatEmptySeq DEF Init, Pending
<1>3. Done = 0
  <2>1. Len(Pending) = 0 /\ appended = 0
    BY <1>2 DEF Init
  <2> QED BY <2>1 DEF Done
<1>4. Elems(file) = {}
  BY DEF Init, Elems
<1> QED BY <1>1, <1>2, <1>3, <1>4 DEF IInv, NothingForgotten, Init

LEMMA PutKeeps == ASSUME IInv, AppendLine \/ Flush PROVE IInv'
<1> USE BufferAssumption DEF IInv
<1> DEFINE n == appended + 1
<1>1. /\ Put /\ owner = "up" /\ appended' = n /\ n \in Nat /\ appended \in Nat /\ n <= MaxLines
      /\ flushed' \in 0..appended'
      /\ UNCHANGED <<buffersToWrite, running, owner, file, lost>>
  BY DEF AppendLine, Flush, Put, TypeOK, disk
<1>2. flusher' = flusher \/ (flusher = "waiting" /\ flusher' = "lock")
  BY <1>1 DEF Put, PutFits, PutSwaps, Notify
<1>3. /\ currentBuffer' \in Seq(Nat) /\ fullBuffers' \in Seq(Nat) /\ Len(currentBuffer') <= BufferSize
      /\ fullBuffers' \o currentBuffer' = Append(fullBuffers \o currentBuffer, n)
  <2>1. CASE PutFits
    BY <1>1, <2>1, AppendToConcat DEF PutFits, TypeOK
  <2>2. CASE PutSwaps
    <3>1. fullBuffers \o currentBuffer \in Seq(Nat)
      BY DEF TypeOK
    <3>2. /\ (fullBuffers \o currentBuffer) \o Append(<<>>, n) = Append((fullBuffers \o currentBuffer) \o <<>>, n)
          /\ (fullBuffers \o currentBuffer) \o <<>> = fullBuffers \o currentBuffer
      BY <1>1, <3>1, AppendToConcat, ConcatEmptySeq
    <3>3. Append(<<>>, n) = <<n>> /\ Len(<<n>>) = 1 /\ <<n>> \in Seq(Nat)
      BY <1>1
    <3> QED BY <2>2, <3>1, <3>2, <3>3 DEF PutSwaps
  <2> QED BY <1>1, <2>1, <2>2 DEF Put
<1>4. Pending' = Append(Pending, n)
  <2>1. Pending' = buffersToWrite \o Append(fullBuffers \o currentBuffer, n)
    BY <1>1, <1>3 DEF Pending
  <2>2. fullBuffers \o currentBuffer \in Seq(Nat) /\ buffersToWrite \in Seq(Nat)
    BY DEF TypeOK
  <2> QED BY <1>1, <2>1, <2>2, AppendToConcat DEF Pending
<1>5. TypeOK' /\ WritesPrivately' /\ LeavesLast'
  <2>1. appended' \in 0..MaxLines
    BY <1>1
  <2>2. TypeOK'
    BY <1>1, <1>2, <1>3, <2>1 DEF TypeOK
  <2>3. WritesPrivately'
    BY <1>1, <1>2 DEF WritesPrivately
  <2>4. running /\ flusher \notin {"lastOpen", "lastWrite", "exited"}
    BY <1>1 DEF LeavesLast
  <2>5. LeavesLast'
    BY <1>1, <1>2, <2>4 DEF LeavesLast
  <2> QED BY <2>2, <2>3, <2>5
<1>6. /\ Pending \in Seq(Nat) /\ Len(Pending) \in Nat /\ Len(Pending') = Len(Pending) + 1
      /\ \A i \in 1..Len(Pending) : Pending'[i] = Pending[i]
      /\ Pending'[Len(Pending) + 1] = n
  BY <1>1, <1>4, PendingType
<1>7. Done' = Done /\ Done + (Len(Pending) + 1) = n
  <2>1. Done' = appended' - Len(Pending') /\ Done = appended - Len(Pending)
    BY DEF Done
  <2> QED BY <1>1, <1>6, <2>1
<1>8. \A i \in 1..Len(Pending') : Pending'[i] = Done' + i
  <2> TAKE i \in 1..Len(Pending')
  <2>1. CASE i \in 1..Len(Pending)
    BY <1>6, <1>7, <2>1 DEF NothingForgotten
  <2>2. CASE i = Len(Pending) + 1
    BY <1>6, <1>7, <2>2
  <2> QED BY <1>6, <2>1, <2>2
<1>9. Elems(file)' = Elems(file) /\ lost' = lost
  BY <1>1 DEF Elems
<1> QED BY <1>5, <1>7, <1>8, <1>9 DEF NothingForgotten

\* Moving the lines to buffersToWrite changes nothing.
LEMMA CollectPending ==
  ASSUME IInv, buffersToWrite = <<>>,
         buffersToWrite' = fullBuffers \o currentBuffer, fullBuffers' = <<>>, currentBuffer' = <<>>
  PROVE  Pending' = Pending /\ buffersToWrite' \in Seq(Nat)
<1>1. fullBuffers \o currentBuffer \in Seq(Nat)
  BY DEF IInv, TypeOK
<1>2. Pending = fullBuffers \o currentBuffer
  BY <1>1, ConcatEmptySeq DEF Pending
<1>3. <<>> \o <<>> = <<>>
  BY ConcatEmptySeq
<1>4. Pending' = (fullBuffers \o currentBuffer) \o <<>>
  BY <1>3 DEF Pending
<1> QED BY <1>1, <1>2, <1>4, ConcatEmptySeq

\* Steps that leave the lines where they are.
LEMMA SameLines ==
  ASSUME IInv, UNCHANGED <<appended, buffers, file, lost>>
  PROVE  NothingForgotten' /\ (Done \in Nat)'
<1>1. Pending' = Pending /\ appended' = appended
  BY DEF Pending, buffers
<1>2. Done' = Done
  BY <1>1 DEF Done
<1> QED BY <1>1, <1>2, SamePending DEF IInv

LEMMA FlushThreadKeeps == ASSUME IInv, FlushThread \/ TimeOut PROVE IInv'
<1> USE BufferAssumption DEF IInv
<1>1. CASE TestRunning \/ Block \/ CollectNothing \/ OpenFile \/ CloseFile \/ TimeOut
  <2>1. /\ UNCHANGED <<appended, flushed, currentBuffer, fullBuffers, buffersToWrite, running, owner, file, lost>>
        /\ UNCHANGED buffers
    BY <1>1 DEF TestRunning, Block, CollectNothing, OpenFile, CloseFile, TimeOut, buffers, disk
  <2>2. TypeOK' /\ WritesPrivately' /\ LeavesLast'
    BY <1>1, <2>1 DEF TestRunning, Block, CollectNothing, OpenFile, CloseFile, TimeOut, Goto, Awake,
       TypeOK, WritesPrivately, LeavesLast
  <2> QED BY <2>1, <2>2, SameLines
<1>2. CASE Collect \/ LastOpen
  <2>1. flusher \in {"late", "lock", "lastOpen"} /\ buffersToWrite = <<>>
    BY <1>2 DEF Collect, LastOpen, Awake, Goto, WritesPrivately
  <2>2. /\ buffersToWrite' = fullBuffers \o currentBuffer /\ fullBuffers' = <<>> /\ currentBuffer' = <<>>
        /\ UNCHANGED <<appended, flushed, running, owner, file, lost>>
    BY <1>2 DEF Collect, LastOpen, disk
  <2>3. Pending' = Pending /\ buffersToWrite' \in Seq(Nat)
    BY <2>1, <2>2, CollectPending
  <2>4. NothingForgotten' /\ Done' = Done
    BY <2>2, <2>3, SamePending DEF Done
  <2>5. TypeOK' /\ WritesPrivately' /\ LeavesLast'
    BY <1>2, <2>1, <2>2, <2>3 DEF Collect, LastOpen, Goto, Awake, TypeOK, WritesPrivately, LeavesLast
  <2> QED BY <2>4, <2>5
<1>3. CASE WriteLine \/ WriteFails
  <2>1. NextLine /\ buffersToWrite # <<>> /\ Head(buffersToWrite) \in Nat /\ buffersToWrite' \in Seq(Nat)
    <3>1. NextLine /\ buffersToWrite # <<>> /\ buffersToWrite' = Tail(buffersToWrite)
      BY <1>3 DEF WriteLine, WriteFails, NextLine
    <3>2. buffersToWrite \in Seq(Nat)
      BY DEF TypeOK
    <3> QED BY <3>1, <3>2, HeadTailProperties
  <2>2. NothingForgotten' /\ Done' = Done + 1
    BY <1>3, <2>1, OneMoreDone
  <2>3. TypeOK'
    <3>1. file \in Seq(Nat) /\ lost \subseteq Nat
      BY DEF TypeOK
    <3>2. file' \in Seq(Nat) /\ lost' \subseteq Nat
      <4>1. CASE WriteLine
        BY <2>1, <3>1, <4>1 DEF WriteLine
      <4>2. CASE WriteFails
        BY <2>1, <3>1, <4>2 DEF WriteFails
      <4> QED BY <1>3, <4>1, <4>2
    <3> QED BY <2>1, <3>2 DEF NextLine, TypeOK
  <2>4. WritesPrivately' /\ LeavesLast'
    BY <2>1 DEF NextLine, WritesPrivately, LeavesLast
  <2> QED BY <2>2, <2>3, <2>4
<1>4. CASE OpenFails
  <2>1. /\ buffersToWrite \in Seq(Nat) /\ fullBuffers \o currentBuffer \in Seq(Nat)
        /\ Pending = buffersToWrite \o (fullBuffers \o currentBuffer)
    BY DEF TypeOK, Pending
  <2>2. Pending' = fullBuffers \o currentBuffer
    BY <1>4, <2>1, ConcatEmptySeq DEF OpenFails, Pending
  <2>3. NothingForgotten' /\ Done' \in Nat
    BY <1>4, <2>1, <2>2, GivenUp DEF OpenFails
  <2>4. Elems(buffersToWrite) \subseteq Nat
    BY <2>1 DEF Elems
  <2>5. TypeOK'
    BY <1>4, <2>4, EmptySeq DEF OpenFails, Goto, TypeOK
  <2>6. WritesPrivately' /\ LeavesLast'
    BY <1>4 DEF OpenFails, Goto, WritesPrivately, LeavesLast
  <2> QED BY <2>3, <2>5, <2>6
<1>5. CASE LastOpenFails
  <2>1. buffersToWrite = <<>> /\ fullBuffers \o currentBuffer \in Seq(Nat)
    BY <1>5 DEF LastOpenFails, Goto, WritesPrivately, TypeOK
  <2>2. Pending = (fullBuffers \o currentBuffer) \o <<>> /\ Pending' = <<>>
    BY <1>5, <2>1, ConcatEmptySeq DEF LastOpenFails, Pending
  <2>3. NothingForgotten' /\ Done' \in Nat
    <3>1. <<>> \in Seq(Nat)
      BY EmptySeq
    <3>2. lost' = lost \cup Elems(fullBuffers \o currentBuffer) /\ UNCHANGED <<appended, file>>
      BY <1>5 DEF LastOpenFails
    <3> QED BY <2>1, <2>2, <3>1, <3>2, GivenUp
  <2>4. Elems(fullBuffers \o currentBuffer) \subseteq Nat
    BY <2>1 DEF Elems
  <2>5. TypeOK'
    <3>1. lost' \subseteq Nat
      BY <1>5, <2>4 DEF LastOpenFails, TypeOK
    <3>2. /\ currentBuffer' = <<>> /\ fullBuffers' = <<>> /\ flusher' = "exited"
          /\ UNCHANGED <<appended, flushed, buffersToWrite, running, owner, file>>
      BY <1>5 DEF LastOpenFails, Goto
    <3>3. Len(<<>>) <= BufferSize
      OBVIOUS
    <3> QED BY <3>1, <3>2, <3>3, EmptySeq DEF TypeOK
  <2>6. WritesPrivately' /\ LeavesLast'
    BY <1>5, <2>1 DEF LastOpenFails, Goto, WritesPrivately, LeavesLast
  <2> QED BY <2>3, <2>5, <2>6
<1> QED BY <1>1, <1>2, <1>3, <1>4, <1>5 DEF FlushThread

LEMMA OwnerKeeps == ASSUME IInv, Destroy \/ Joined PROVE IInv'
<1> USE BufferAssumption DEF IInv
<1>1. /\ UNCHANGED <<appended, flushed, currentBuffer, fullBuffers, buffersToWrite, file, lost>>
      /\ UNCHANGED buffers
  BY DEF Destroy, Joined, buffers, disk
<1>2. TypeOK' /\ WritesPrivately' /\ LeavesLast'
  BY <1>1 DEF Destroy, Joined, Notify, TypeOK, WritesPrivately, LeavesLast
<1> QED BY <1>1, <1>2, SameLines

\* The invariant behind the theorems below holds throughout.
THEOREM Invariance == Spec => []IInv
<1>1. IInv /\ [Next]_vars => IInv'
  <2> SUFFICES ASSUME IInv, [Next]_vars PROVE IInv'
    OBVIOUS
  <2>1. CASE UNCHANGED vars
    <3>1. UNCHANGED <<appended, buffers, file, lost>>
      BY <2>1 DEF vars, buffers
    <3> QED BY <2>1, <3>1, SameLines DEF IInv, vars, TypeOK, WritesPrivately, LeavesLast
  <2> QED BY <2>1, PutKeeps, FlushThreadKeeps, OwnerKeeps DEF Next
<1> QED BY <1>1, InitIInv, PTL DEF Spec

-----------------------------------------------------------------------------
(* Theorems *)

\* Type correctness of the buffer; currentBuffer never exceeds its size.
THEOREM TypeCorrect == Spec => []TypeOK
BY Invariance, PTL DEF IInv

\* Every line is once in the file or in a buffer, in the order of the appends,
\* unless an open or write failed for it.
THEOREM NeverForgets == Spec => []NothingForgotten
BY Invariance, PTL DEF IInv

\* The destructor writes what is left.
THEOREM DestructorComplete == Spec => []DestructorFlushes
<1>1. IInv => DestructorFlushes
  <2> SUFFICES ASSUME IInv, owner = "gone" PROVE Elems(file) \cup lost = 1..appended
    BY DEF DestructorFlushes
  <2>1. buffersToWrite = <<>> /\ fullBuffers = <<>> /\ currentBuffer = <<>>
    BY DEF IInv, WritesPrivately, LeavesLast
  <2>2. Len(Pending) = 0 /\ appended \in Nat
    BY <2>1, PendingType DEF IInv
  <2>3. Done = appended
    BY <2>2 DEF Done
  <2> QED BY <2>3 DEF IInv, NothingForgotten
<1> QED BY <1>1, Invariance, PTL

\* The file is an append-only log of the lines in the order of the appends.
THEOREM Refinement == Spec => WritesInOrder
<1>1. Init => Log!Init
  BY DEF Init, Log!Init
<1>2. IInv /\ [Next]_vars => [Log!Next]_Log!vars
  <2> SUFFICES ASSUME IInv, [Next]_vars PROVE [Log!Next]_Log!vars
    OBVIOUS
  <2>1. CASE AppendLine \/ Flush
    BY <2>1 DEF AppendLine, Flush, Put, disk, Log!Next, Log!Accept
  <2>2. CASE WriteLine
    <3>1. /\ Head(buffersToWrite) = Done + 1 /\ Done + 1 <= appended /\ Done + 1 \in 1..appended
          /\ Done \in Nat
      <4>1. buffersToWrite # <<>>
        BY <2>2 DEF WriteLine, NextLine
      <4> QED BY <4>1, OldestFirst, PendingType DEF IInv
    <3>2. \A i \in 1..Len(file) : file[i] < Done + 1
      <4>1. \A i \in 1..Len(file) : file[i] \in 1..Done
        BY DEF IInv, NothingForgotten, Elems
      <4> QED BY <3>1, <4>1
    <3>3. Log!Write(Done + 1)
      BY <2>2, <3>1, <3>2 DEF WriteLine, NextLine, Log!Write
    <3> QED BY <3>1, <3>3 DEF Log!Next
  <2>3. CASE UNCHANGED <<appended, file>>
    BY <2>3 DEF Log!vars
  <2>4. CASE (FlushThread /\ ~WriteLine) \/ TimeOut \/ Destroy \/ Joined \/ UNCHANGED vars
    BY <2>3, <2>4 DEF FlushThread, TestRunning, Block, CollectNothing, Collect, OpenFile, OpenFails,
       WriteFails, NextLine, CloseFile, LastOpen, LastOpenFails, TimeOut, Destroy, Joined, vars, disk
  <2> QED BY <2>1, <2>2, <2>4 DEF Next
<1> QED BY <1>1, <1>2, Invariance, PTL DEF Spec, WritesInOrder, Log!Spec
=============================================================================
