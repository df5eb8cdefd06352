--------------------------- MODULE AsyncLogBuffer ---------------------------
(***************************************************************************)
(* LogMessage/AsyncLogBuffer.{hpp,cpp}: threads append lines to            *)
(* currentBuffer under a mutex; a full one moves to fullBuffers, which the *)
(* flush thread collects and writes to the file outside the mutex.         *)
(*                                                                         *)
(* Lines are numbered in the order of the appends, and a list of buffers   *)
(* is the concatenation of its lines.  nextBuffer never receives a line,   *)
(* so the branches that use it are never taken and it has no variable.     *)
(* A crash stops the program in any state: the invariants on the file and  *)
(* the buffers say what it leaves.                                         *)
(***************************************************************************)
EXTENDS Integers, Sequences

CONSTANTS BufferSize,  \* BUFFER_SIZE, the lines of a buffer
          MaxLines     \* bound on the lines logged

ASSUME BufferAssumption == BufferSize \in Nat \ {0} /\ MaxLines \in Nat

VARIABLES
  appended,        \* number of lines appended
  flushed,         \* its value at the last LogMessage::flush
  currentBuffer, fullBuffers, buffersToWrite,
  running,         \* running_
  flusher,         \* where the flush thread is
  owner,           \* the thread that destroys the buffer: "up", "join", "gone"
  file,            \* the lines in the log file
  lost             \* lines that open or write failed for

vars == <<appended, flushed, currentBuffer, fullBuffers, buffersToWrite,
          running, flusher, owner, file, lost>>

buffers == <<currentBuffer, fullBuffers, buffersToWrite>>
disk == <<file, lost>>

Elems(s) == {s[i] : i \in 1..Len(s)}
Goto(from, to) == flusher = from /\ flusher' = to

Init ==
  /\ appended = 0 /\ flushed = 0
  /\ currentBuffer = <<>> /\ fullBuffers = <<>> /\ buffersToWrite = <<>>
  /\ running = TRUE
  /\ flusher = "test"
  /\ owner = "up"
  /\ file = <<>> /\ lost = {}

\* cv_.notify_one(): the flush thread is the only one that waits.
Notify == flusher' = IF flusher = "waiting" THEN "lock" ELSE flusher

-----------------------------------------------------------------------------
(* append, by any thread while the buffer exists *)

\* Variant: one line too many.
PutFits_OneMore ==
  /\ Len(currentBuffer) <= BufferSize
  /\ currentBuffer' = Append(currentBuffer, appended + 1)
  /\ UNCHANGED <<fullBuffers, flusher>>

PutFits ==
  /\ Len(currentBuffer) < BufferSize
  /\ currentBuffer' = Append(currentBuffer, appended + 1)
  /\ UNCHANGED <<fullBuffers, flusher>>

\* Variant: the flush thread is not notified.
PutSwaps_Silent ==
  /\ Len(currentBuffer) >= BufferSize
  /\ fullBuffers' = fullBuffers \o currentBuffer
  /\ currentBuffer' = <<appended + 1>>
  /\ UNCHANGED flusher

PutSwaps ==
  /\ Len(currentBuffer) >= BufferSize
  /\ fullBuffers' = fullBuffers \o currentBuffer
  /\ currentBuffer' = <<appended + 1>>
  /\ Notify

Put ==
  /\ owner = "up" /\ appended < MaxLines
  /\ appended' = appended + 1
  /\ PutFits \/ PutSwaps
  /\ UNCHANGED <<buffersToWrite, running, owner, disk>>

AppendLine == Put /\ UNCHANGED flushed

\* LogMessage::flush appends an empty line.
Flush == Put /\ flushed' = appended + 1

-----------------------------------------------------------------------------
(* flushThreadFunc *)

\* Variant: the thread leaves without the last write.
TestRunning_NoLastWrite ==
  /\ Goto("test", IF running THEN "lock" ELSE "exited")
  /\ UNCHANGED <<appended, flushed, buffers, running, owner, disk>>

\* while (running_), without the mutex.
TestRunning ==
  /\ Goto("test", IF running THEN "lock" ELSE "lastOpen")
  /\ UNCHANGED <<appended, flushed, buffers, running, owner, disk>>

Predicate == fullBuffers # <<>> \/ ~running

Block ==
  /\ ~Predicate
  /\ Goto("lock", "waiting")
  /\ UNCHANGED <<appended, flushed, buffers, running, owner, disk>>

\* The three seconds of wait_for are over.
TimeOut ==
  /\ Goto("waiting", "late")
  /\ UNCHANGED <<appended, flushed, buffers, running, owner, disk>>

Awake == flusher = "late" \/ (flusher = "lock" /\ Predicate)

\* No full buffer: nothing to write, whatever the current buffer holds.
CollectNothing ==
  /\ Awake /\ fullBuffers = <<>>
  /\ flusher' = "test"
  /\ UNCHANGED <<appended, flushed, buffers, running, owner, disk>>

\* Variant: the current buffer is copied, not moved.
Collect_Copy ==
  /\ Awake /\ fullBuffers # <<>>
  /\ flusher' = "open"
  /\ buffersToWrite' = fullBuffers \o currentBuffer
  /\ fullBuffers' = <<>>
  /\ UNCHANGED <<currentBuffer, appended, flushed, running, owner, disk>>

\* Variant: the current buffer is written before the full ones.
Collect_CurrentFirst ==
  /\ Awake /\ fullBuffers # <<>>
  /\ flusher' = "open"
  /\ buffersToWrite' = currentBuffer \o fullBuffers
  /\ fullBuffers' = <<>>
  /\ currentBuffer' = <<>>
  /\ UNCHANGED <<appended, flushed, running, owner, disk>>

Collect ==
  /\ Awake /\ fullBuffers # <<>>
  /\ flusher' = "open"
  /\ buffersToWrite' = fullBuffers \o currentBuffer
  /\ fullBuffers' = <<>>
  /\ currentBuffer' = <<>>
  /\ UNCHANGED <<appended, flushed, running, owner, disk>>

OpenFile ==
  /\ Goto("open", "write")
  /\ UNCHANGED <<appended, flushed, buffers, running, owner, disk>>

\* fd < 0: the collected lines are cleared without being written.
OpenFails ==
  /\ Goto("open", "test")
  /\ lost' = lost \cup Elems(buffersToWrite)
  /\ buffersToWrite' = <<>>
  /\ UNCHANGED <<appended, flushed, currentBuffer, fullBuffers, running, owner, file>>

NextLine ==
  /\ flusher \in {"write", "lastWrite"} /\ buffersToWrite # <<>>
  /\ buffersToWrite' = Tail(buffersToWrite)
  /\ UNCHANGED <<appended, flushed, currentBuffer, fullBuffers, running, flusher, owner>>

WriteLine ==
  /\ NextLine
  /\ file' = Append(file, Head(buffersToWrite))
  /\ UNCHANGED lost

\* The result of write is ignored.
WriteFails ==
  /\ NextLine
  /\ lost' = lost \cup {Head(buffersToWrite)}
  /\ UNCHANGED file

CloseFile ==
  /\ buffersToWrite = <<>>
  /\ Goto("write", "test") \/ Goto("lastWrite", "exited")
  /\ UNCHANGED <<appended, flushed, buffers, running, owner, disk>>

\* After the loop: what is left is written under the mutex.
LastOpen ==
  /\ Goto("lastOpen", "lastWrite")
  /\ buffersToWrite' = fullBuffers \o currentBuffer
  /\ fullBuffers' = <<>>
  /\ currentBuffer' = <<>>
  /\ UNCHANGED <<appended, flushed, running, owner, disk>>

LastOpenFails ==
  /\ Goto("lastOpen", "exited")
  /\ lost' = lost \cup Elems(fullBuffers \o currentBuffer)
  /\ fullBuffers' = <<>>
  /\ currentBuffer' = <<>>
  /\ UNCHANGED <<appended, flushed, buffersToWrite, running, owner, file>>

-----------------------------------------------------------------------------
(* ~AsyncLogBuffer *)

\* Variant: no notification before the join.
Destroy_Silent ==
  /\ owner = "up"
  /\ owner' = "join"
  /\ running' = FALSE
  /\ UNCHANGED <<appended, flushed, buffers, flusher, disk>>

Destroy ==
  /\ owner = "up"
  /\ owner' = "join"
  /\ running' = FALSE
  /\ Notify
  /\ UNCHANGED <<appended, flushed, buffers, disk>>

Joined ==
  /\ owner = "join" /\ flusher = "exited"
  /\ owner' = "gone"
  /\ UNCHANGED <<appended, flushed, buffers, running, flusher, disk>>

-----------------------------------------------------------------------------

\* The flush thread but for the end of its wait.
FlushThread ==
  \/ TestRunning \/ Block \/ CollectNothing \/ Collect
  \/ OpenFile \/ OpenFails \/ WriteLine \/ WriteFails \/ CloseFile
  \/ LastOpen \/ LastOpenFails

Next == AppendLine \/ Flush \/ FlushThread \/ TimeOut \/ Destroy \/ Joined

Spec == Init /\ [][Next]_vars

\* The flush thread is scheduled.  Timeouts happen only under TimerSpec.
FairSpec == Spec /\ WF_vars(FlushThread) /\ WF_vars(Joined)
TimerSpec == FairSpec /\ WF_vars(TimeOut)

-----------------------------------------------------------------------------
(* Properties *)

TypeOK ==
  /\ appended \in 0..MaxLines /\ flushed \in 0..appended
  /\ currentBuffer \in Seq(Nat) /\ Len(currentBuffer) <= BufferSize
  /\ fullBuffers \in Seq(Nat) /\ buffersToWrite \in Seq(Nat)
  /\ running \in BOOLEAN
  /\ flusher \in {"test", "lock", "waiting", "late", "open", "write",
                  "lastOpen", "lastWrite", "exited"}
  /\ owner \in {"up", "join", "gone"}
  /\ file \in Seq(Nat) /\ lost \subseteq Nat

Pending == buffersToWrite \o (fullBuffers \o currentBuffer)
Done == appended - Len(Pending)

\* A line that is neither in the file nor lost to an I/O error is in exactly
\* one buffer, and the buffers together hold the newest lines in order: no
\* line is skipped or doubled when buffers change hands without the mutex.
NothingForgotten ==
  /\ \A i \in 1..Len(Pending) : Pending[i] = Done + i
  /\ Elems(file) \cup lost = 1..Done
  /\ Elems(file) \cap lost = {}

\* When the destructor returns, every line has reached the file or an error.
DestructorFlushes == owner = "gone" => Elems(file) \cup lost = 1..appended

\* The file is an append-only log of the lines in the order of the appends.
Log == INSTANCE AppendOnlyLog WITH accepted <- appended
WritesInOrder == Log!Spec

\* A full buffer is collected without the help of a timeout: the notification
\* of the append that filled it is not lost.
FullIsCollected == fullBuffers # <<>> ~> fullBuffers = <<>>

\* The destructor does not hang in join.
DestructorReturns == owner = "join" ~> owner = "gone"

\* LogMessage.cpp:81, "triggers a buffer flush (for when an immediate write is
\* needed)": the lines logged before flush get out of the buffers.
FlushWrites == \A n \in 1..MaxLines : flushed = n ~> Done >= n
=============================================================================
