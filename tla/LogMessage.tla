----------------------------- MODULE LogMessage -----------------------------
(***************************************************************************)
(* LogMessage/LogMessage.cpp: the threads of a process log through one     *)
(* AsyncLogBuffer, which a unique_ptr owns.  The first logMessage makes    *)
(* it, if the path is set, and setDefaultLogPath replaces it.  Neither     *)
(* takes a lock: the pointer is read for the test and again for the call   *)
(* of append, and the assignment of a new buffer reads the old pointer,    *)
(* stores the new one and deletes what it read.                            *)
(*                                                                         *)
(* The buffers are the ones of AsyncLogBuffer; only their lifetimes are    *)
(* kept here.  The process is the server: SqlConnPool::init sets the path  *)
(* and logs, then a thread of socketIO sets it once more and logs, as the  *)
(* workers do.                                                             *)
(***************************************************************************)
EXTENDS Naturals, FiniteSets

CONSTANTS Main,         \* runs SqlConnPool::init
          Connections,  \* threads of socketIO
          Workers,      \* threads of AsyncDBWriter
          MaxBuffers,   \* bounds the buffers that are made
          Null

Threads == {Main} \cup Connections \cup Workers
Buffers == 1..MaxBuffers

VARIABLES
  pathSet,    \* default_log_path is not empty
  initFlag,   \* call_once has run initializeBuffer
  logBuffer,  \* the pointer
  made,       \* buffers constructed so far
  deleted,    \* how often each of them was destroyed
  pc,         \* where each thread is
  local,      \* the pointer it has read
  misused     \* a destroyed buffer was appended to

vars == <<pathSet, initFlag, logBuffer, made, deleted, pc, local, misused>>

Goto(t, from, to) == pc[t] = from /\ pc' = [pc EXCEPT ![t] = to]

Init ==
  /\ pathSet = FALSE /\ initFlag = FALSE
  /\ logBuffer = Null
  /\ made = 0
  /\ deleted = [b \in Buffers |-> 0]
  /\ pc = [t \in Threads |-> IF t = Main THEN "set" ELSE "unborn"]
  /\ local = [t \in Threads |-> Null]
  /\ misused = FALSE

\* Main starts the threads when it is done; connections come at any time.
Start(t) ==
  /\ t # Main /\ pc[Main] = "idle"
  /\ Goto(t, "unborn", IF t \in Connections THEN "set" ELSE "idle")
  /\ UNCHANGED <<pathSet, initFlag, logBuffer, made, deleted, local, misused>>

-----------------------------------------------------------------------------
(* setDefaultLogPath *)

SetPath(t) ==
  /\ Goto(t, "set", IF logBuffer = Null THEN "call" ELSE "make")
  /\ pathSet' = TRUE
  /\ UNCHANGED <<initFlag, logBuffer, made, deleted, local, misused>>

\* make_unique, and the assignment reads the old pointer.
Make(t) ==
  /\ made < MaxBuffers
  /\ Goto(t, "make", "store")
  /\ made' = made + 1
  /\ local' = [local EXCEPT ![t] = <<logBuffer, made + 1>>]
  /\ UNCHANGED <<pathSet, initFlag, logBuffer, deleted, misused>>

Store(t) ==
  /\ Goto(t, "store", "delete")
  /\ logBuffer' = local[t][2]
  /\ UNCHANGED <<pathSet, initFlag, made, deleted, local, misused>>

\* The destructor of the old buffer flushes it (see AsyncLogBuffer).
Delete(t) ==
  /\ Goto(t, "delete", "call")
  /\ deleted' = [deleted EXCEPT ![local[t][1]] = @ + 1]
  /\ local' = [local EXCEPT ![t] = Null]
  /\ UNCHANGED <<pathSet, initFlag, logBuffer, made, misused>>

-----------------------------------------------------------------------------
(* logMessage *)

Log(t) ==
  /\ Goto(t, "idle", "call")
  /\ UNCHANGED <<pathSet, initFlag, logBuffer, made, deleted, local, misused>>

\* call_once.  Without a path no buffer is made, and none will be.
CallOnce(t) ==
  /\ Goto(t, "call", "test")
  /\ initFlag' = TRUE
  /\ IF ~initFlag /\ pathSet
       THEN /\ made < MaxBuffers
            /\ made' = made + 1 /\ logBuffer' = made + 1
       ELSE UNCHANGED <<made, logBuffer>>
  /\ UNCHANGED <<pathSet, deleted, local, misused>>

Test(t) ==
  /\ Goto(t, "test", IF logBuffer = Null \/ ~pathSet THEN "idle" ELSE "load")
  /\ UNCHANGED <<pathSet, initFlag, logBuffer, made, deleted, local, misused>>

Load(t) ==
  /\ Goto(t, "load", "append")
  /\ local' = [local EXCEPT ![t] = logBuffer]
  /\ UNCHANGED <<pathSet, initFlag, logBuffer, made, deleted, misused>>

Append(t) ==
  /\ Goto(t, "append", "idle")
  /\ misused' = (misused \/ deleted[local[t]] > 0)
  /\ local' = [local EXCEPT ![t] = Null]
  /\ UNCHANGED <<pathSet, initFlag, logBuffer, made, deleted>>

-----------------------------------------------------------------------------
Next == \E t \in Threads :
  \/ Start(t) \/ SetPath(t) \/ Make(t) \/ Store(t) \/ Delete(t)
  \/ Log(t) \/ CallOnce(t) \/ Test(t) \/ Load(t) \/ Append(t)

Spec == Init /\ [][Next]_vars

-----------------------------------------------------------------------------
\* README.md:147: smart pointers and RAII see to it that resources are
\* released correctly: a buffer is destroyed once, and nobody uses it then.
ReleasedCorrectly == ~misused /\ \A b \in Buffers : deleted[b] <= 1

=============================================================================
