---------------------------- MODULE SharedConfig ----------------------------
(***************************************************************************)
(* Util/SharedConfigManager.{hpp,cpp}: processes that share the log format *)
(* through a System V segment found by its key and a POSIX semaphore found *)
(* by its name.  Mains run main.cpp (choose the format, then log), the     *)
(* other processes run Client.cpp (poll, then read it).                    *)
(*                                                                         *)
(* A process makes at most one segment and one semaphore, which go by its  *)
(* name.  An object outlives its key or name while a process uses it.      *)
(* Numeric pids are not reused; a restart is another process.              *)
(***************************************************************************)
EXTENDS Integers, FiniteSets

CONSTANTS Procs, Mains,
          None,        \* no process
          Environments \* sets of what may happen: a process starts in the
                       \* constructor of another ("together") or between the two
                       \* calls of its destructor ("gap"), a client comes to its
                       \* "end", "kill", "interrupt", "invalid" input

ASSUME SharedAssumption ==
  /\ Mains \subseteq Procs /\ None \notin Procs
  /\ \A e \in Environments : e \subseteq {"together", "gap", "end", "kill", "interrupt", "invalid"}

VARIABLES
  env,      \* the environment, one of Environments; it does not change
  pc,       \* where each process is
  back,     \* who called cleanupStaleConfig, where the signal handler leads
  at,       \* _sharedData: the segment, by its maker
  sem,      \* _semaphore, by its maker
  key,      \* the segment SHM_KEY finds
  name,     \* the semaphore SEM_NAME finds
  segment,  \* the SharedConfig in each segment
  value,    \* the value of each semaphore
  option,   \* what the user of a main chose
  result    \* the format a process got

vars == <<env, pc, back, at, sem, key, name, segment, value, option, result>>
handles == <<at, sem>>
names == <<key, name, env>>
choices == <<option, result>>

Formats == {0, 1}   \* TEXT, HTML
NoFormat == -1
Blank == [format |-> 0, initialized |-> FALSE, pid |-> None]

Constructing == {"attach", "construct", "unlink", "openSem"}
InHandler == {"handler", "handlerSem"}
InDestructor == {"exit", "exitSem"}
Ended == {"off", "dead"}
Alive(p) == p # None /\ pc[p] \notin Ended

Data(p) == segment[at[p]]
Goto(p, from, to) == pc[p] = from /\ pc' = [pc EXCEPT ![p] = to]

Init ==
  /\ env \in Environments
  /\ pc = [p \in Procs |-> "off"]
  /\ back = [p \in Procs |-> "none"]
  /\ at = [p \in Procs |-> None] /\ sem = [p \in Procs |-> None]
  /\ key = None /\ name = None
  /\ segment = [p \in Procs |-> Blank]
  /\ value = [p \in Procs |-> 0]
  /\ option = [p \in Procs |-> NoFormat] /\ result = [p \in Procs |-> NoFormat]

-----------------------------------------------------------------------------
(* The constructor *)

MayStart ==
  /\ "together" \in env \/ \A q \in Procs : pc[q] \notin Constructing
  /\ "gap" \in env \/ \A q \in Procs : pc[q] # "exitSem"

\* shmget with IPC_EXCL finds no segment and makes one, of zeros.
Create(p) ==
  /\ MayStart /\ key = None
  /\ Goto(p, "off", "construct")
  /\ key' = p
  /\ at' = [at EXCEPT ![p] = p]
  /\ UNCHANGED <<env, back, sem, name, segment, value, choices>>

Exists(p) ==
  /\ MayStart /\ key # None
  /\ Goto(p, "off", "attach")
  /\ UNCHANGED <<back, handles, names, segment, value, choices>>

Attach(p) ==
  /\ key # None
  /\ Goto(p, "attach", "openSem")
  /\ at' = [at EXCEPT ![p] = key]
  /\ UNCHANGED <<back, sem, names, segment, value, choices>>

\* The segment was removed in between: an exception nobody catches.
AttachThrows(p) ==
  /\ key = None
  /\ Goto(p, "attach", "dead")
  /\ UNCHANGED <<back, handles, names, segment, value, choices>>

\* The placement new.
Construct(p) ==
  /\ Goto(p, "construct", "unlink")
  /\ segment' = [segment EXCEPT ![p] = Blank]
  /\ UNCHANGED <<back, handles, names, value, choices>>

Unlink(p) ==
  /\ Goto(p, "unlink", "openSem")
  /\ name' = None
  /\ UNCHANGED <<env, back, handles, key, segment, value, choices>>

OpenSem(p) ==
  /\ Goto(p, "openSem", IF p \in Mains THEN "enter" ELSE "poll")
  /\ name' = IF name = None THEN p ELSE name
  /\ value' = IF name = None THEN [value EXCEPT ![p] = 1] ELSE value
  /\ sem' = [sem EXCEPT ![p] = name']
  /\ UNCHANGED <<env, back, at, key, segment, choices>>

-----------------------------------------------------------------------------
(* cleanupStaleConfig *)

StaleConfig(p) == Data(p).initialized /\ ~Alive(Data(p).pid)

\* isInitialized tests it and calls cleanupStaleConfig, which tests it again.
CallClean(p, from) ==
  /\ Goto(p, from, "check")
  /\ StaleConfig(p)
  /\ back' = [back EXCEPT ![p] = from]
  /\ UNCHANGED <<handles, names, segment, value, choices>>

\* initFromUserInput goes on; for isInitialized the answer is no, on which a
\* client polls again, main returns, and getLogFormat throws.
Checked(p) == CASE back[p] = "init" -> "checked"
                [] back[p] = "poll" -> IF p \in Mains THEN "exit" ELSE "poll"
                [] back[p] = "get" -> "dead"

NotStale(p) ==
  /\ Goto(p, "check", Checked(p))
  /\ ~StaleConfig(p)
  /\ back' = [back EXCEPT ![p] = "none"]
  /\ UNCHANGED <<handles, names, segment, value, choices>>

IsStale(p) ==
  /\ Goto(p, "check", "clean")
  /\ StaleConfig(p)
  /\ UNCHANGED <<back, handles, names, segment, value, choices>>

Clean(p) ==
  /\ Goto(p, "clean", "cleaned")
  /\ segment' = [segment EXCEPT ![at[p]].initialized = FALSE]
  /\ UNCHANGED <<back, handles, names, value, choices>>

Cleaned(p) ==
  /\ Goto(p, "cleaned", Checked(p))
  /\ segment' = [segment EXCEPT ![at[p]] = [@ EXCEPT !.pid = None, !.format = 0]]
  /\ back' = [back EXCEPT ![p] = "none"]
  /\ UNCHANGED <<handles, names, value, choices>>

-----------------------------------------------------------------------------
(* initFromUserInput *)

\* Variant: the semaphore is not waited for.
Enter_Free(p) ==
  /\ Goto(p, "enter", "check")
  /\ back' = [back EXCEPT ![p] = "init"]
  /\ UNCHANGED <<handles, names, segment, value, choices>>

Enter(p) ==
  /\ Goto(p, "enter", "check")
  /\ value[sem[p]] > 0
  /\ value' = [value EXCEPT ![sem[p]] = @ - 1]
  /\ back' = [back EXCEPT ![p] = "init"]
  /\ UNCHANGED <<handles, names, segment, choices>>

\* Variant: the user is not asked.
Check_NoInput(p) ==
  /\ Goto(p, "checked", IF Data(p).initialized /\ Alive(Data(p).pid) THEN "post" ELSE "write")
  /\ UNCHANGED <<back, handles, names, segment, value, choices>>

Check(p) ==
  /\ Goto(p, "checked", IF Data(p).initialized /\ Alive(Data(p).pid) THEN "post" ELSE "input")
  /\ UNCHANGED <<back, handles, names, segment, value, choices>>

Input(p) ==
  /\ Goto(p, "input", "write")
  /\ \E f \in Formats : option' = [option EXCEPT ![p] = f]
  /\ UNCHANGED <<back, handles, names, segment, value, result>>

\* Neither 0 nor 1: sem_post, then throw.
Reject(p) ==
  /\ "invalid" \in env
  /\ Goto(p, "input", "rejected")
  /\ value' = [value EXCEPT ![sem[p]] = @ + 1]
  /\ UNCHANGED <<back, handles, names, segment, choices>>

\* catch (...) posts again and rethrows; main does not catch.
Rethrow(p) ==
  /\ Goto(p, "rejected", "dead")
  /\ value' = [value EXCEPT ![sem[p]] = @ + 1]
  /\ UNCHANGED <<back, handles, names, segment, choices>>

\* Variant: the configuration is published before the format is written.
WriteConfig_Early(p) ==
  /\ Goto(p, "write", "publish")
  /\ segment' = [segment EXCEPT ![at[p]] = [@ EXCEPT !.initialized = TRUE, !.pid = p]]
  /\ UNCHANGED <<back, handles, names, value, choices>>

WriteConfig(p) ==
  /\ Goto(p, "write", "publish")
  /\ segment' = [segment EXCEPT ![at[p]] = [@ EXCEPT !.format = option[p], !.pid = p]]
  /\ UNCHANGED <<back, handles, names, value, choices>>

Publish(p) ==
  /\ Goto(p, "publish", "post")
  /\ segment' = [segment EXCEPT ![at[p]].initialized = TRUE]
  /\ UNCHANGED <<back, handles, names, value, choices>>

\* Variant: a return path that keeps the semaphore.
Post_Forgotten(p) ==
  /\ Goto(p, "post", "poll")
  /\ value' = IF option[p] = NoFormat THEN value ELSE [value EXCEPT ![sem[p]] = @ + 1]
  /\ UNCHANGED <<back, handles, names, segment, choices>>

Post(p) ==
  /\ Goto(p, "post", "poll")
  /\ value' = [value EXCEPT ![sem[p]] = @ + 1]
  /\ UNCHANGED <<back, handles, names, segment, choices>>

-----------------------------------------------------------------------------
(* isInitialized, printStatus, getLogFormat *)

\* The format that isInitialized has seen; main prints it, both read it.
Poll(p) ==
  /\ Goto(p, "poll", CASE p \in Mains /\ Data(p).initialized -> "status"
                       [] p \in Mains /\ ~Data(p).initialized -> "exit"
                       [] p \notin Mains /\ Data(p).initialized -> "get"
                       [] OTHER -> "poll")
  /\ ~StaleConfig(p)
  /\ UNCHANGED <<back, handles, names, segment, value, choices>>

Status(p) ==
  /\ Goto(p, "status", "print")
  /\ value[sem[p]] > 0
  /\ value' = [value EXCEPT ![sem[p]] = @ - 1]
  /\ UNCHANGED <<back, handles, names, segment, choices>>

Printed(p) ==
  /\ Goto(p, "print", "get")
  /\ value' = [value EXCEPT ![sem[p]] = @ + 1]
  /\ UNCHANGED <<back, handles, names, segment, choices>>

Get(p) ==
  /\ Goto(p, "get", IF Data(p).initialized THEN "read" ELSE "dead")
  /\ ~StaleConfig(p)
  /\ UNCHANGED <<back, handles, names, segment, value, choices>>

Read(p) ==
  /\ Goto(p, "read", "serving")
  /\ result' = [result EXCEPT ![p] = Data(p).format]
  /\ UNCHANGED <<back, handles, names, segment, value, option>>

-----------------------------------------------------------------------------
(* The end of a process *)

Kill(p) ==
  /\ "kill" \in env /\ Alive(p)
  /\ pc' = [pc EXCEPT ![p] = "dead"]
  /\ UNCHANGED <<back, handles, names, segment, value, choices>>

\* The loops of Client.cpp end, or it calls exit; the loops of main.cpp do not.
End(p) ==
  /\ "end" \in env /\ p \notin Mains
  /\ Goto(p, "serving", "exit")
  /\ UNCHANGED <<back, handles, names, segment, value, choices>>

\* SIGINT, SIGTERM, SIGQUIT or SIGHUP.  _instance is never set, so the handler
\* only calls forceCleanup, and exit destroys the manager if it is complete and
\* its destructor has not begun.
Interrupt(p) ==
  /\ "interrupt" \in env /\ Alive(p) /\ pc[p] \notin InHandler
  /\ pc' = [pc EXCEPT ![p] = "handler"]
  /\ back' = [back EXCEPT ![p] =
       IF pc[p] \in Constructing \cup InDestructor THEN "dead" ELSE "exit"]
  /\ UNCHANGED <<handles, names, segment, value, choices>>

\* Variant: a process removes the segment only if it made it.
ForceRemove_Own(p) ==
  /\ Goto(p, "handler", "handlerSem")
  /\ key' = IF key = p THEN None ELSE key
  /\ UNCHANGED <<env, back, handles, name, segment, value, choices>>

\* Whatever segment the key finds.
ForceRemove(p) ==
  /\ Goto(p, "handler", "handlerSem")
  /\ key' = None
  /\ UNCHANGED <<env, back, handles, name, segment, value, choices>>

ForceUnlink(p) ==
  /\ Goto(p, "handlerSem", back[p])
  /\ name' = None
  /\ back' = [back EXCEPT ![p] = "none"]
  /\ UNCHANGED <<env, handles, key, segment, value, choices>>

\* cleanup, by the destructor of the static instance: a creator removes its
\* segment, then whatever semaphore the name finds.
Exit(p) ==
  /\ Goto(p, "exit", IF at[p] = p THEN "exitSem" ELSE "dead")
  /\ key' = IF key = p THEN None ELSE key
  /\ UNCHANGED <<env, back, handles, name, segment, value, choices>>

ExitUnlink(p) ==
  /\ Goto(p, "exitSem", "dead")
  /\ name' = None
  /\ UNCHANGED <<env, back, handles, key, segment, value, choices>>

-----------------------------------------------------------------------------

Start(p) == Create(p) \/ Exists(p)

Step(p) ==
  \/ Attach(p) \/ AttachThrows(p) \/ Construct(p) \/ Unlink(p) \/ OpenSem(p)
  \/ \E from \in {"poll", "get"} : CallClean(p, from)
  \/ NotStale(p) \/ IsStale(p) \/ Clean(p) \/ Cleaned(p)
  \/ Enter(p) \/ Check(p) \/ Input(p)
  \/ WriteConfig(p) \/ Publish(p) \/ Post(p)
  \/ Poll(p) \/ Status(p) \/ Printed(p) \/ Get(p) \/ Read(p)
  \/ ForceRemove(p) \/ ForceUnlink(p) \/ Exit(p) \/ ExitUnlink(p) \/ Rethrow(p)

Next ==
  \E p \in Procs : \/ Start(p) \/ Step(p) \/ Reject(p)
                   \/ End(p) \/ Kill(p) \/ Interrupt(p)

Spec == Init /\ [][Next]_vars

-----------------------------------------------------------------------------
(* Properties *)

Places == Constructing \cup InHandler \cup InDestructor \cup Ended \cup
  {"enter", "check", "checked", "clean", "cleaned", "input", "rejected", "write",
   "publish", "post", "poll", "status", "print", "get", "read", "serving"}

TypeOK ==
  /\ env \in Environments
  /\ pc \in [Procs -> Places]
  /\ back \in [Procs -> {"none", "init", "poll", "get", "exit", "dead"}]
  /\ at \in [Procs -> Procs \cup {None}] /\ sem \in [Procs -> Procs \cup {None}]
  /\ key \in Procs \cup {None} /\ name \in Procs \cup {None}
  /\ segment \in [Procs -> [format: Formats, initialized: BOOLEAN, pid: Procs \cup {None}]]
  /\ value \in [Procs -> Nat]
  /\ option \in [Procs -> Formats \cup {NoFormat}]
  /\ result \in [Procs -> Formats \cup {NoFormat}]

Checking == {"check", "clean", "cleaned"}

Critical(p) ==
  \/ pc[p] \in {"checked", "input", "write", "publish", "post"}
  \/ pc[p] \in Checking /\ back[p] = "init"

\* SharedConfigManager.cpp:210, "acquire the semaphore lock": one process at a
\* time is in initFromUserInput for the segment s.
MutualExclusion(s) ==
  \A p, q \in Procs : Critical(p) /\ Critical(q) /\ at[p] = s /\ at[q] = s => p = q

\* It is so for the segment that processes find, wherever clients end and
\* processes are killed, when none starts in the constructor of another or
\* between the two calls of its destructor, or gets a signal or invalid input.
\* (In a segment that its creator has removed there may be two semaphores: a
\* process that has attached but not yet called sem_open makes a new one.)
LockedInit == env \subseteq {"kill", "end"} /\ key # None => MutualExclusion(key)

\* What line 210 says without these conditions.
AlwaysLocked == \A s \in Procs : MutualExclusion(s)

\* Under the same conditions, without kills: processes that have read the format
\* have read what the user of the live initializer chose, also in a segment that
\* its creator, a client that came to its end, has removed.
Agreement ==
  env \subseteq {"end"} => \A p \in Procs : pc[p] = "serving" =>
    /\ Data(p).initialized
    /\ Alive(Data(p).pid)
    /\ result[p] = option[Data(p).pid]

\* README.md:150, "configuration synchronisation between processes": all
\* processes that have read the format use the same one.
OneFormat ==
  \A p, q \in Procs : pc[p] = "serving" /\ pc[q] = "serving" => result[p] = result[q]

\* When processes end by themselves or by a signal, what the next one finds is
\* usable: no configuration of a dead process, no semaphore a dead process has
\* taken.  (SIGKILL leaves both.)
NothingStaleIsNamed ==
  env \subseteq {"interrupt", "invalid", "end", "gap"} =>
    /\ key # None /\ segment[key].initialized => Alive(segment[key].pid)
    /\ name # None => value[name] > 0 \/ \E p \in Procs : Alive(p) /\ sem[p] = name

\* SharedConfigManager.cpp:78, "clean up a stale configuration": what is reset
\* is not the published configuration of a live process.
CleansOnlyStale ==
  [][\A p \in Procs : Clean(p) \/ Cleaned(p) =>
       ~(Data(p).initialized /\ Alive(Data(p).pid))]_vars

\* Without signals, however processes start and end, a semaphore at 0 is held by
\* a process that will post it: every return path of initFromUserInput posts.
\* (A process killed inside leaves its semaphore at 0 for ever.)
TakenIsHeld ==
  env \subseteq {"invalid", "end", "gap", "together"} =>
   \A p \in Procs : sem[p] # None /\ value[sem[p]] = 0 =>
    \E q \in Procs : sem[q] = sem[p] /\ (Critical(q) \/ pc[q] = "print")
=============================================================================
